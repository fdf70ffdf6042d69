---------------------------- MODULE FilterProofs ----------------------------
(***************************************************************************)
(* Proofs about Filter for any lines, bounds, numbers, stride and cap.     *)
(***************************************************************************)
EXTENDS Filter, SequenceTheorems, WellFoundedInduction, TLAPS

-----------------------------------------------------------------------------
(* Remainders: from one position to the next *)

LEMMA Division ==
  ASSUME NEW m \in Nat \ {0}, NEW i \in Nat
  PROVE  i % m \in 0 .. m - 1 /\ i \div m \in Int /\ i = m * (i \div m) + (i % m)
OBVIOUS

\* A multiple of m between -m and m is zero.
LEMMA SmallMultiple ==
  ASSUME NEW m \in Nat \ {0}, NEW d \in Int, m * d < m, m * d > -m
  PROVE  d = 0
<1>1. CASE d >= 1
  <2>1. m * (d - 1) >= 0 /\ m * (d - 1) = m * d - m
    BY <1>1
  <2> QED
    BY <2>1
<1>2. CASE d <= -1
  <2>1. m * (-d - 1) >= 0 /\ m * (-d - 1) = -(m * d) - m
    BY <1>2
  <2> QED
    BY <2>1
<1> QED
  BY <1>1, <1>2

LEMMA RemainderUnique ==
  ASSUME NEW m \in Nat \ {0}, NEW i \in Nat, NEW q \in Int, NEW r \in 0 .. m - 1, i = m * q + r
  PROVE  i % m = r
<1> DEFINE p == i \div m
           t == i % m
<1>1. t \in 0 .. m - 1 /\ p \in Int /\ i = m * p + t
  BY Division
<1> HIDE DEF p, t
<1>2. m * (q - p) = t - r
  BY <1>1
<1>3. q - p = 0
  BY <1>1, <1>2, SmallMultiple
<1>4. t = r
  BY <1>1, <1>3
<1> QED
  BY <1>4 DEF t

LEMMA NextRemainder ==
  ASSUME NEW m \in Nat \ {0}, NEW i \in Nat
  PROVE  (i + 1) % m = IF i % m = m - 1 THEN 0 ELSE (i % m) + 1
<1> DEFINE p == i \div m
           t == i % m
<1>1. t \in 0 .. m - 1 /\ p \in Int /\ i = m * p + t
  BY Division
<1> HIDE DEF p, t
<1>2. CASE t = m - 1
  <2>1. i + 1 = m * (p + 1) + 0
    BY <1>1, <1>2
  <2>2. (i + 1) % m = 0
    BY <1>1, <2>1, RemainderUnique
  <2> QED
    BY <1>2, <2>2 DEF t
<1>3. CASE t # m - 1
  <2>1. i + 1 = m * p + (t + 1) /\ t + 1 \in 0 .. m - 1
    BY <1>1, <1>3
  <2>2. (i + 1) % m = t + 1
    BY <1>1, <2>1, RemainderUnique
  <2> QED
    BY <1>3, <2>2 DEF t
<1> QED
  BY <1>2, <1>3

-----------------------------------------------------------------------------
(* The deadline *)

\* How many lines of its block grep has read since it last looked: zero when it
\* looks before the next one.
Since(i) == (i - 1) % Stride

\* Lines read after the deadline are among those read since the last look.
DeadlineInv ==
    /\ at[2] \in Nat \ {0}
    /\ late \in Nat /\ expired \in BOOLEAN
    /\ ~ expired => late = 0
    /\ IF Since(at[2]) = 0 THEN late < Stride ELSE late < Since(at[2])

LEMMA SinceLemma ==
  ASSUME NEW i \in Nat \ {0}
  PROVE  /\ Since(i) \in 0 .. Stride - 1
         /\ Since(i) = 0 <=> LooksBefore(i)
         /\ Since(i + 1) = IF Since(i) = Stride - 1 THEN 0 ELSE Since(i) + 1
         /\ Since(1) = 0
<1>1. Stride \in Nat \ {0} /\ i - 1 \in Nat /\ (i - 1) + 1 = i
  BY LimitsAssumption
<1>2. Since(i) \in 0 .. Stride - 1
  BY <1>1, Division DEF Since
<1>3. Since(i + 1) = IF Since(i) = Stride - 1 THEN 0 ELSE Since(i) + 1
  <2>1. ((i - 1) + 1) % Stride = IF (i - 1) % Stride = Stride - 1 THEN 0 ELSE ((i - 1) % Stride) + 1
    BY <1>1, NextRemainder
  <2>2. (i + 1) - 1 = (i - 1) + 1
    OBVIOUS
  <2> QED
    BY <2>1, <2>2 DEF Since
<1>4. i % Stride = IF Since(i) = Stride - 1 THEN 0 ELSE Since(i) + 1
  BY <1>1, <1>3 DEF Since
<1>5. Since(i) = 0 <=> LooksBefore(i)
  BY <1>1, <1>2, <1>4 DEF LooksBefore
<1>6. Since(1) = 0
  <2>1. 0 = Stride * 0 + 0 /\ 0 \in 0 .. Stride - 1
    BY <1>1
  <2>2. 0 % Stride = 0
    BY <1>1, <2>1, RemainderUnique
  <2> QED
    BY <2>2 DEF Since
<1> QED
  BY <1>2, <1>3, <1>5, <1>6

LEMMA DeadlineStep ==
  ASSUME DeadlineInv, [Next]_vars
  PROVE  DeadlineInv'
<1>1. CASE Refuses \/ Cuts \/ Begins \/ GrepTimesOut \/ GrepEnds \/ JQEmits \/ JQEnds \/ JQFails
           \/ JQTimesOut \/ Finished \/ UNCHANGED vars
  <2>1. UNCHANGED <<at, late, expired>>
    BY <1>1
    DEF Refuses, Cuts, Begins, GrepTimesOut, GrepEnds, JQEmits, JQEnds, JQFails, JQTimesOut, Finished, vars
  <2> QED
    BY <2>1 DEF DeadlineInv, Since
<1>2. CASE Expires
  BY <1>2 DEF Expires, DeadlineInv, Since
<1>3. CASE GrepLine
  <2> DEFINE i == at[2]
  <2>1. /\ late' = late + (IF expired THEN 1 ELSE 0) /\ expired' = expired
        /\ at'[2] = i + 1 \/ at'[2] = 1
        /\ expired => ~ LooksBefore(i)
    BY <1>3 DEF GrepLine
  <2>2. i \in Nat \ {0} /\ Stride \in Nat \ {0}
    BY LimitsAssumption DEF DeadlineInv
  <2>3. /\ Since(i) \in 0 .. Stride - 1 /\ Since(1) = 0
        /\ Since(i + 1) = IF Since(i) = Stride - 1 THEN 0 ELSE Since(i) + 1
        /\ expired => Since(i) # 0
    BY <2>1, <2>2, SinceLemma
  <2>4. Since(at[2])' = Since(at'[2])
    BY DEF Since
  <2> QED
    BY <2>1, <2>2, <2>3, <2>4 DEF DeadlineInv
<1> QED
  BY <1>1, <1>2, <1>3 DEF Next

\* However long a call of grep runs on after its deadline, it begins fewer than
\* Stride lines before it notices, in one block or across blocks
\* (filter.go:113-122).
THEOREM FilterDeadlineNoticed == Spec => []DeadlineNoticed
<1>1. ASSUME Init PROVE DeadlineInv
  <2>1. Since(1) = 0 /\ 0 < Stride
    BY SinceLemma, LimitsAssumption
  <2>2. at[2] = 1 /\ late = 0 /\ expired = FALSE
    BY <1>1 DEF Init
  <2>3. Since(at[2]) = 0 /\ late < Stride /\ at[2] \in Nat \ {0} /\ late \in Nat
    BY <2>1, <2>2
  <2>4. expired \in BOOLEAN /\ ~ expired
    BY <2>2
  <2> QED
    BY <2>2, <2>3, <2>4 DEF DeadlineInv
<1>2. DeadlineInv /\ [Next]_vars => DeadlineInv'
  BY DeadlineStep
<1>3. ASSUME DeadlineInv PROVE DeadlineNoticed
  <2>1. at[2] \in Nat \ {0} /\ Stride \in Nat \ {0}
    BY <1>3, LimitsAssumption DEF DeadlineInv
  <2>2. Since(at[2]) \in 0 .. Stride - 1
    BY <2>1, SinceLemma
  <2> QED
    BY <1>3, <2>1, <2>2 DEF DeadlineInv, DeadlineNoticed
<1> QED
  BY <1>1, <1>2, <1>3, PTL DEF Spec

-----------------------------------------------------------------------------
(* Induction *)

\* Induction over the natural numbers, for a set rather than a predicate.
LEMMA Naturals ==
  ASSUME NEW S, 0 \in S, \A n \in Nat : n \in S => n + 1 \in S
  PROVE  \A n \in Nat : n \in S
<1> DEFINE T == Nat \ S
           R == { p \in Nat \X Nat : p[1] < p[2] }
<1> SUFFICES ASSUME T # {} PROVE FALSE
  OBVIOUS
<1>1. IsWellFoundedOn(R, Nat)
  BY NatLessThanWellFounded DEF OpToRel
<1>2. T \subseteq Nat
  OBVIOUS
<1> HIDE DEF T, R
<1>3. PICK n \in T : \A k \in T : ~ (<<k, n>> \in R)
  BY <1>1, <1>2, WFMin
<1>4. n \in Nat /\ n \notin S /\ n # 0 /\ \A k \in Nat : k < n => k \in S
  BY <1>3 DEF T, R
<1>5. n - 1 \in Nat /\ n - 1 \in S /\ (n - 1) + 1 = n
  BY <1>4
<1> QED
  BY <1>4, <1>5

-----------------------------------------------------------------------------
(* Choosing positions of a sequence *)

\* What the recursion of Select builds for the first i elements.
Chosen(s, positions) ==
    CHOOSE f : f = [i \in 0 .. Len(s) |->
                      IF i = 0 THEN <<>>
                      ELSE IF i \in positions THEN Append(f[i - 1], s[i]) ELSE f[i - 1]]

\* f builds the choice up to n.
Builds(f, s, positions, n) ==
    /\ f[0] = <<>>
    /\ \A i \in 1 .. n : f[i] = IF i \in positions THEN Append(f[i - 1], s[i]) ELSE f[i - 1]

LEMMA BuilderExists ==
  ASSUME NEW s, NEW positions, NEW n \in Nat
  PROVE  \E f : Builds(f, s, positions, n)
<1> DEFINE Good == { k \in Nat : \E f : Builds(f, s, positions, k) }
<1>1. 0 \in Good
  <2>1. Builds([i \in {0} |-> <<>>], s, positions, 0)
    BY DEF Builds
  <2> QED
    BY <2>1
<1>2. ASSUME NEW k \in Nat, k \in Good PROVE k + 1 \in Good
  <2>1. PICK f : Builds(f, s, positions, k)
    BY <1>2
  <2> DEFINE g == [i \in 0 .. k + 1 |->
                     IF i <= k THEN f[i]
                     ELSE IF i \in positions THEN Append(f[k], s[i]) ELSE f[k]]
  <2>2. g[0] = <<>>
    BY <2>1 DEF Builds
  <2>3. \A i \in 1 .. k : g[i] = f[i] /\ g[i - 1] = f[i - 1]
    OBVIOUS
  <2>4. g[k] = f[k] /\ g[k + 1] = IF k + 1 \in positions THEN Append(f[k], s[k + 1]) ELSE f[k]
    OBVIOUS
  <2> HIDE DEF g
  <2>5. Builds(g, s, positions, k + 1)
    <3> SUFFICES ASSUME NEW i \in 1 .. k + 1
                 PROVE  g[i] = IF i \in positions THEN Append(g[i - 1], s[i]) ELSE g[i - 1]
      BY <2>2 DEF Builds
    <3>1. CASE i \in 1 .. k
      BY <2>1, <2>3, <3>1 DEF Builds
    <3>2. CASE i = k + 1
      BY <2>4, <3>2
    <3> QED
      BY <3>1, <3>2
  <2> QED
    BY <2>5
<1> HIDE DEF Good
<1>3. n \in Good
  BY <1>1, <1>2, Naturals
<1> QED
  BY <1>3 DEF Good

LEMMA ChosenBuilds ==
  ASSUME NEW s, NEW positions, Len(s) \in Nat
  PROVE  /\ Builds(Chosen(s, positions), s, positions, Len(s))
         /\ Select(s, positions) = Chosen(s, positions)[Len(s)]
<1> DEFINE Step(f) == [i \in 0 .. Len(s) |->
                         IF i = 0 THEN <<>>
                         ELSE IF i \in positions THEN Append(f[i - 1], s[i]) ELSE f[i - 1]]
           c == CHOOSE f : f = Step(f)
<1>1. PICK f : Builds(f, s, positions, Len(s))
  BY BuilderExists
<1> DEFINE g == [i \in 0 .. Len(s) |-> f[i]]
<1>2. g = Step(g)
  <2>1. \A i \in 0 .. Len(s) : g[i] = f[i]
    OBVIOUS
  <2>2. ASSUME NEW i \in 0 .. Len(s)
        PROVE  f[i] = IF i = 0 THEN <<>>
                      ELSE IF i \in positions THEN Append(g[i - 1], s[i]) ELSE g[i - 1]
    <3>1. CASE i = 0
      BY <1>1, <3>1 DEF Builds
    <3>2. CASE i # 0
      <4>1. i \in 1 .. Len(s) /\ g[i - 1] = f[i - 1]
        BY <3>2
      <4> QED
        BY <1>1, <3>2, <4>1 DEF Builds
    <3> QED
      BY <3>1, <3>2
  <2> QED
    BY <2>2
<1>3. c = Step(c)
  <2> HIDE DEF g, Step
  <2> QED
    BY <1>2
<1>4. c = Chosen(s, positions)
  BY DEF Chosen
<1>5. Select(s, positions) = c[Len(s)]
  BY DEF Select
<1>6. Builds(c, s, positions, Len(s))
  <2> HIDE DEF c
  <2>1. \A i \in 0 .. Len(s) :
          c[i] = IF i = 0 THEN <<>> ELSE IF i \in positions THEN Append(c[i - 1], s[i]) ELSE c[i - 1]
    BY <1>3
  <2> QED
    BY <2>1 DEF Builds
<1> QED
  BY <1>4, <1>5, <1>6

LEMMA BuildersAgree ==
  ASSUME NEW s, NEW positions, NEW n \in Nat, NEW f, NEW g,
         Builds(f, s, positions, n), Builds(g, s, positions, n)
  PROVE  \A i \in 0 .. n : f[i] = g[i]
<1> DEFINE Good == { k \in Nat : k <= n => f[k] = g[k] }
<1>1. 0 \in Good
  BY DEF Builds
<1>2. ASSUME NEW k \in Nat, k \in Good PROVE k + 1 \in Good
  <2> SUFFICES ASSUME k + 1 <= n PROVE f[k + 1] = g[k + 1]
    OBVIOUS
  <2>1. k + 1 \in 1 .. n /\ (k + 1) - 1 = k /\ f[k] = g[k]
    BY <1>2
  <2> HIDE DEF Good
  <2>2. /\ f[k + 1] = IF k + 1 \in positions THEN Append(f[(k + 1) - 1], s[k + 1]) ELSE f[(k + 1) - 1]
        /\ g[k + 1] = IF k + 1 \in positions THEN Append(g[(k + 1) - 1], s[k + 1]) ELSE g[(k + 1) - 1]
    BY <2>1 DEF Builds
  <2> QED
    BY <2>1, <2>2
<1> HIDE DEF Good
<1>3. \A k \in Nat : k \in Good
  BY <1>1, <1>2, Naturals
<1> QED
  BY <1>3 DEF Good

\* Whatever satisfies the recursion of Select computes it.
LEMMA SelectIs ==
  ASSUME NEW s, NEW positions, Len(s) \in Nat, NEW f, Builds(f, s, positions, Len(s))
  PROVE  Select(s, positions) = f[Len(s)]
<1>1. /\ Builds(Chosen(s, positions), s, positions, Len(s))
      /\ Select(s, positions) = Chosen(s, positions)[Len(s)]
  BY ChosenBuilds
<1>2. \A i \in 0 .. Len(s) : Chosen(s, positions)[i] = f[i]
  BY <1>1, BuildersAgree
<1> QED
  BY <1>1, <1>2

\* What is chosen are elements at the chosen positions.
LEMMA BuilderType ==
  ASSUME NEW s, NEW positions, NEW n \in Nat, NEW f, Builds(f, s, positions, n), NEW T,
         \A i \in 1 .. n : i \in positions => s[i] \in T
  PROVE  \A i \in 0 .. n : f[i] \in Seq(T)
<1> DEFINE Good == { k \in Nat : k <= n => f[k] \in Seq(T) }
<1>1. 0 \in Good
  BY EmptySeq DEF Builds
<1>2. ASSUME NEW k \in Nat, k \in Good PROVE k + 1 \in Good
  <2> SUFFICES ASSUME k + 1 <= n PROVE f[k + 1] \in Seq(T)
    OBVIOUS
  <2>1. k + 1 \in 1 .. n /\ (k + 1) - 1 = k /\ f[k] \in Seq(T)
    BY <1>2
  <2> HIDE DEF Good
  <2>2. f[k + 1] = IF k + 1 \in positions THEN Append(f[k], s[k + 1]) ELSE f[k]
    BY <2>1 DEF Builds
  <2> QED
    BY <2>1, <2>2
<1> HIDE DEF Good
<1>3. \A k \in Nat : k \in Good
  BY <1>1, <1>2, Naturals
<1> QED
  BY <1>3 DEF Good

LEMMA SelectType ==
  ASSUME NEW s, NEW positions, Len(s) \in Nat, NEW T,
         \A i \in 1 .. Len(s) : i \in positions => s[i] \in T
  PROVE  Select(s, positions) \in Seq(T)
<1>1. /\ Builds(Chosen(s, positions), s, positions, Len(s))
      /\ Select(s, positions) = Chosen(s, positions)[Len(s)]
  BY ChosenBuilds
<1>2. \A i \in 0 .. Len(s) : Chosen(s, positions)[i] \in Seq(T)
  BY <1>1, BuilderType
<1> QED
  BY <1>1, <1>2

LEMMA SelectAll ==
  ASSUME NEW T, NEW s \in Seq(T)
  PROVE  Select(s, DOMAIN s) = s
<1> DEFINE f == [i \in 0 .. Len(s) |-> SubSeq(s, 1, i)]
<1>1. \A i \in 0 .. Len(s) : f[i] = SubSeq(s, 1, i)
  OBVIOUS
<1>2. Builds(f, s, DOMAIN s, Len(s))
  <2>1. f[0] = <<>>
    BY <1>1
  <2>2. ASSUME NEW i \in 1 .. Len(s) PROVE f[i] = Append(f[i - 1], s[i])
    <3>1. f[i] = SubSeq(s, 1, i) /\ f[i - 1] = SubSeq(s, 1, i - 1)
      BY <1>1
    <3>2. Append(SubSeq(s, 1, i - 1), s[i]) = SubSeq(s, 1, i)
      OBVIOUS
    <3> QED
      BY <3>1, <3>2
  <2>3. \A i \in 1 .. Len(s) : i \in DOMAIN s
    BY LenProperties
  <2> HIDE DEF f
  <2> QED
    BY <2>1, <2>2, <2>3 DEF Builds
<1>3. Select(s, DOMAIN s) = f[Len(s)]
  <2> HIDE DEF f
  <2> QED
    BY <1>2, SelectIs
<1>4. f[Len(s)] = SubSeq(s, 1, Len(s))
  BY <1>1
<1> QED
  BY <1>3, <1>4, SubSeqFull

LEMMA SelectFirst ==
  ASSUME NEW T, NEW s \in Seq(T), NEW n \in Nat
  PROVE  Select(s, { i \in DOMAIN s : i <= n }) = FirstLines(n, s)
<1> DEFINE f == [i \in 0 .. Len(s) |-> SubSeq(s, 1, IF i > n THEN n ELSE i)]
           P == { i \in DOMAIN s : i <= n }
<1>1. \A i \in 0 .. Len(s) : f[i] = SubSeq(s, 1, IF i > n THEN n ELSE i)
  OBVIOUS
<1>2. \A i \in 1 .. Len(s) : i \in P <=> i <= n
  OBVIOUS
<1> HIDE DEF f, P
<1>3. Builds(f, s, P, Len(s))
  <2>1. f[0] = <<>>
    BY <1>1
  <2>2. ASSUME NEW i \in 1 .. Len(s)
        PROVE  f[i] = IF i \in P THEN Append(f[i - 1], s[i]) ELSE f[i - 1]
    <3>1. CASE i <= n
      <4>1. f[i] = SubSeq(s, 1, i) /\ f[i - 1] = SubSeq(s, 1, i - 1)
        BY <1>1, <3>1
      <4>2. Append(SubSeq(s, 1, i - 1), s[i]) = SubSeq(s, 1, i)
        OBVIOUS
      <4> QED
        BY <1>2, <3>1, <4>1, <4>2
    <3>2. CASE i > n
      <4>1. f[i] = SubSeq(s, 1, n) /\ f[i - 1] = SubSeq(s, 1, n)
        BY <1>1, <3>2
      <4> QED
        BY <1>2, <3>2, <4>1
    <3> QED
      BY <3>1, <3>2
  <2> QED
    BY <2>1, <2>2 DEF Builds
<1>4. Select(s, P) = f[Len(s)]
  BY <1>3, SelectIs
<1>5. f[Len(s)] = FirstLines(n, s)
  BY <1>1 DEF FirstLines, Clamp
<1> QED
  BY <1>4, <1>5 DEF P

LEMMA SelectLast ==
  ASSUME NEW T, NEW s \in Seq(T), NEW n \in Nat
  PROVE  Select(s, { i \in DOMAIN s : i > Len(s) - n }) = LastLines(n, s)
<1> DEFINE k == Len(s) - Clamp(n, s)
           f == [i \in 0 .. Len(s) |-> SubSeq(s, k + 1, i)]
           P == { i \in DOMAIN s : i > Len(s) - n }
<1>1. k \in 0 .. Len(s)
  BY DEF Clamp
<1>2. \A i \in 1 .. Len(s) : i \in P <=> i > k
  BY DEF Clamp
<1>3. \A i \in 0 .. Len(s) : f[i] = SubSeq(s, k + 1, i)
  OBVIOUS
<1>4. LastLines(n, s) = SubSeq(s, k + 1, Len(s))
  BY DEF LastLines
<1> HIDE DEF f, P, k
<1>5. Builds(f, s, P, Len(s))
  <2>1. f[0] = <<>>
    BY <1>1, <1>3
  <2>2. ASSUME NEW i \in 1 .. Len(s)
        PROVE  f[i] = IF i \in P THEN Append(f[i - 1], s[i]) ELSE f[i - 1]
    <3>0. f[i] = SubSeq(s, k + 1, i) /\ f[i - 1] = SubSeq(s, k + 1, i - 1)
      BY <1>3
    <3>1. CASE i > k
      <4>1. Append(SubSeq(s, k + 1, i - 1), s[i]) = SubSeq(s, k + 1, i)
        BY <1>1, <3>1
      <4> QED
        BY <1>2, <3>0, <3>1, <4>1
    <3>2. CASE i <= k
      <4>1. f[i] = <<>> /\ f[i - 1] = <<>>
        BY <1>1, <3>0, <3>2
      <4> QED
        BY <1>1, <1>2, <3>2, <4>1
    <3> QED
      BY <1>1, <3>1, <3>2
  <2> QED
    BY <2>1, <2>2 DEF Builds
<1>6. Select(s, P) = f[Len(s)]
  BY <1>5, SelectIs
<1>7. f[Len(s)] = SubSeq(s, k + 1, Len(s))
  BY <1>3
<1> QED
  BY <1>4, <1>6, <1>7 DEF P

LEMMA SelectOne ==
  ASSUME NEW T, NEW s \in Seq(T), NEW n \in 1 .. Len(s)
  PROVE  Select(s, { i \in DOMAIN s : i = n }) = <<s[n]>>
<1> DEFINE f == [i \in 0 .. Len(s) |-> IF i >= n THEN <<s[n]>> ELSE <<>>]
           P == { i \in DOMAIN s : i = n }
<1>1. \A i \in 0 .. Len(s) : f[i] = IF i >= n THEN <<s[n]>> ELSE <<>>
  OBVIOUS
<1>2. \A i \in 1 .. Len(s) : i \in P <=> i = n
  OBVIOUS
<1> HIDE DEF f, P
<1>3. Builds(f, s, P, Len(s))
  <2>1. f[0] = <<>>
    BY <1>1
  <2>2. ASSUME NEW i \in 1 .. Len(s)
        PROVE  f[i] = IF i \in P THEN Append(f[i - 1], s[i]) ELSE f[i - 1]
    <3>1. /\ f[i] = IF i >= n THEN <<s[n]>> ELSE <<>>
          /\ f[i - 1] = IF i - 1 >= n THEN <<s[n]>> ELSE <<>>
      BY <1>1
    <3>2. Append(<<>>, s[n]) = <<s[n]>>
      OBVIOUS
    <3>3. CASE i < n
      BY <1>2, <3>1, <3>3
    <3>4. CASE i = n
      <4>1. f[i] = <<s[n]>> /\ f[i - 1] = <<>> /\ i \in P
        BY <1>2, <3>1, <3>4
      <4> QED
        BY <3>2, <3>4, <4>1
    <3>5. CASE i > n
      BY <1>2, <3>1, <3>5
    <3> QED
      BY <3>3, <3>4, <3>5
  <2> QED
    BY <2>1, <2>2 DEF Builds
<1>4. Select(s, P) = f[Len(s)]
  BY <1>3, SelectIs
<1> QED
  BY <1>1, <1>4 DEF P

-----------------------------------------------------------------------------
(* Joining sequences *)

\* f joins the first n of the sequences, one after the other.
Joins(f, seqs, n) ==
    /\ f[0] = <<>>
    /\ \A b \in 1 .. n : f[b] = f[b - 1] \o seqs[b]

Joined(seqs) == CHOOSE f : Joins(f, seqs, Len(seqs))

LEMMA JoinExists ==
  ASSUME NEW seqs, NEW n \in Nat
  PROVE  \E f : Joins(f, seqs, n)
<1> DEFINE Good == { k \in Nat : \E f : Joins(f, seqs, k) }
<1>1. 0 \in Good
  <2>1. Joins([i \in {0} |-> <<>>], seqs, 0)
    BY DEF Joins
  <2> QED
    BY <2>1
<1>2. ASSUME NEW k \in Nat, k \in Good PROVE k + 1 \in Good
  <2>1. PICK f : Joins(f, seqs, k)
    BY <1>2
  <2>0. PICK last : last = f[k] \o seqs[k + 1]
    OBVIOUS
  <2> DEFINE g == [i \in 0 .. k + 1 |-> IF i <= k THEN f[i] ELSE last]
  <2>2. g[0] = <<>>
    BY <2>1 DEF Joins
  <2>3. \A i \in 1 .. k : g[i] = f[i] /\ g[i - 1] = f[i - 1]
    OBVIOUS
  <2>4. g[k] = f[k] /\ g[k + 1] = last
    OBVIOUS
  <2> HIDE DEF g
  <2>5. Joins(g, seqs, k + 1)
    <3> SUFFICES ASSUME NEW i \in 1 .. k + 1 PROVE g[i] = g[i - 1] \o seqs[i]
      BY <2>2 DEF Joins
    <3>1. CASE i \in 1 .. k
      BY <2>1, <2>3, <3>1 DEF Joins
    <3>2. CASE i = k + 1
      <4>1. i - 1 = k
        BY <3>2
      <4> QED
        BY <2>0, <2>4, <3>2, <4>1, Zenon
    <3>3. i \in 1 .. k \/ i = k + 1
      OBVIOUS
    <3> QED
      BY <3>1, <3>2, <3>3, Zenon
  <2> QED
    BY <2>5
<1> HIDE DEF Good
<1>3. n \in Good
  BY <1>1, <1>2, Naturals
<1> QED
  BY <1>3 DEF Good

\* Joining neither loses, adds nor moves an element: each stays where the
\* sequences before it end.
LEMMA JoinType ==
  ASSUME NEW T, NEW n \in Nat, NEW seqs, \A b \in 1 .. n : seqs[b] \in Seq(T),
         NEW f, Joins(f, seqs, n)
  PROVE  \A b \in 0 .. n : f[b] \in Seq(T)
<1> DEFINE Good == { k \in Nat : k <= n => f[k] \in Seq(T) }
<1>1. 0 \in Good
  BY EmptySeq DEF Joins
<1>2. ASSUME NEW k \in Nat, k \in Good PROVE k + 1 \in Good
  <2> SUFFICES ASSUME k + 1 <= n PROVE f[k + 1] \in Seq(T)
    OBVIOUS
  <2>1. k + 1 \in 1 .. n /\ (k + 1) - 1 = k /\ f[k] \in Seq(T)
    BY <1>2
  <2> HIDE DEF Good
  <2>2. f[k + 1] = f[k] \o seqs[k + 1] /\ seqs[k + 1] \in Seq(T)
    BY <2>1 DEF Joins
  <2> QED
    BY <2>1, <2>2, ConcatProperties
<1> HIDE DEF Good
<1>3. \A k \in Nat : k \in Good
  BY <1>1, <1>2, Naturals
<1> QED
  BY <1>3 DEF Good

LEMMA JoinPrefix ==
  ASSUME NEW T, NEW n \in Nat, NEW seqs, \A b \in 1 .. n : seqs[b] \in Seq(T),
         NEW f, Joins(f, seqs, n), NEW b \in 0 .. n
  PROVE  Len(f[b]) <= Len(f[n]) /\ \A j \in 1 .. Len(f[b]) : f[n][j] = f[b][j]
<1> DEFINE Good == { k \in Nat : b <= k /\ k <= n =>
                       Len(f[b]) <= Len(f[k]) /\ \A j \in 1 .. Len(f[b]) : f[k][j] = f[b][j] }
<1>0. \A k \in 0 .. n : f[k] \in Seq(T)
  BY JoinType
<1>1. 0 \in Good
  BY <1>0
<1>2. ASSUME NEW k \in Nat, k \in Good PROVE k + 1 \in Good
  <2>1. CASE ~ (b <= k + 1 /\ k + 1 <= n)
    BY <2>1
  <2>2. CASE b = k + 1 /\ k + 1 <= n
    BY <1>0, <2>2
  <2>3. CASE b <= k /\ k + 1 <= n
    <3>1. Len(f[b]) <= Len(f[k]) /\ \A j \in 1 .. Len(f[b]) : f[k][j] = f[b][j]
      BY <1>2, <2>3
    <3>2. k + 1 \in 1 .. n /\ (k + 1) - 1 = k /\ k \in 0 .. n
      BY <2>3
    <3>3. f[k + 1] = f[k] \o seqs[k + 1] /\ seqs[k + 1] \in Seq(T) /\ f[k] \in Seq(T)
      BY <1>0, <3>2 DEF Joins
    <3> DEFINE u == f[k]
               v == seqs[k + 1]
    <3>4. /\ Len(u \o v) = Len(u) + Len(v)
          /\ \A i \in 1 .. Len(u) + Len(v) : (u \o v)[i] = IF i <= Len(u) THEN u[i] ELSE v[i - Len(u)]
      BY <3>3, ConcatProperties
    <3>5. /\ Len(u) \in Nat /\ Len(v) \in Nat /\ Len(f[b]) \in Nat
          /\ f[k + 1] = u \o v /\ Len(f[b]) <= Len(u) /\ \A j \in 1 .. Len(f[b]) : u[j] = f[b][j]
      BY <1>0, <3>1, <3>3, LenProperties
    <3> HIDE DEF u, v
    <3>6. Len(f[b]) <= Len(f[k + 1])
      BY <3>4, <3>5
    <3>7. ASSUME NEW j \in 1 .. Len(f[b]) PROVE f[k + 1][j] = f[b][j]
      <4>1. j \in 1 .. Len(u) + Len(v) /\ j <= Len(u)
        BY <3>5
      <4>2. (u \o v)[j] = u[j]
        BY <3>4, <4>1
      <4> QED
        BY <3>5, <4>2
    <3> QED
      BY <3>6, <3>7
  <2> QED
    BY <2>1, <2>2, <2>3
<1> HIDE DEF Good
<1>3. n \in Good
  BY <1>1, <1>2, Naturals
<1> QED
  BY <1>3 DEF Good

LEMMA JoinedJoins ==
  ASSUME NEW seqs, Len(seqs) \in Nat
  PROVE  Joins(Joined(seqs), seqs, Len(seqs))
BY JoinExists DEF Joined

\* FlattenSeq is that joining.
LEMMA FlattenJoins ==
  ASSUME NEW T, NEW seqs \in Seq(Seq(T))
  PROVE  FlattenSeq(seqs) = Joined(seqs)[Len(seqs)]
<1> DEFINE J == Joined(seqs)
           N == Len(seqs)
<1>1. N \in Nat /\ \A b \in 1 .. N : seqs[b] \in Seq(T)
  BY ElementOfSeq, LenProperties
<1>2. Joins(J, seqs, N)
  BY <1>1, JoinedJoins
<1>3. \A b \in 0 .. N : J[b] \in Seq(T)
  BY <1>1, <1>2, JoinType
<1>4. CASE N = 0
  <2>1. seqs = <<>> /\ FlattenSeq(seqs) = seqs
    BY <1>4, EmptySeq DEF FlattenSeq
  <2>2. J[0] = <<>>
    BY <1>2 DEF Joins
  <2> QED
    BY <1>4, <2>1, <2>2
<1>5. CASE N # 0
  <2> DEFINE Step(f) == [i \in 1 .. Len(seqs) |-> IF i = 1 THEN seqs[i] ELSE f[i - 1] \o seqs[i]]
             c == CHOOSE f : f = Step(f)
             g == [i \in 1 .. Len(seqs) |-> J[i]]
  <2>1. FlattenSeq(seqs) = c[N]
    BY <1>5 DEF FlattenSeq
  <2>2. g = Step(g)
    <3> HIDE DEF J
    <3>1. ASSUME NEW i \in 1 .. Len(seqs) PROVE J[i] = IF i = 1 THEN seqs[i] ELSE g[i - 1] \o seqs[i]
      <4>1. J[i] = J[i - 1] \o seqs[i]
        BY <1>2 DEF Joins
      <4>2. CASE i = 1
        <5>1. J[i - 1] = <<>>
          BY <1>2, <4>2 DEF Joins
        <5>2. <<>> \o seqs[i] = seqs[i]
          BY <1>1, ConcatEmptySeq
        <5> QED
          BY <4>1, <4>2, <5>1, <5>2
      <4>3. CASE i # 1
        <5>1. g[i - 1] = J[i - 1]
          BY <1>1, <4>3
        <5> QED
          BY <4>1, <4>3, <5>1
      <4> QED
        BY <4>2, <4>3
    <3> QED
      BY <3>1
  <2>3. c = Step(c)
    <3> HIDE DEF g, Step
    <3> QED
      BY <2>2
  <2> DEFINE Good == { k \in Nat : k + 1 <= N => c[k + 1] = J[k + 1] }
  <2> HIDE DEF c, J
  <2>4. \A i \in 1 .. N : c[i] = IF i = 1 THEN seqs[i] ELSE c[i - 1] \o seqs[i]
    BY <2>3
  <2>5. \A i \in 1 .. N : g[i] = J[i] /\ g[i] = IF i = 1 THEN seqs[i] ELSE g[i - 1] \o seqs[i]
    BY <2>2
  <2> HIDE DEF g, Step
  <2>6. 0 \in Good
    BY <1>1, <1>5, <2>4, <2>5
  <2>7. ASSUME NEW k \in Nat, k \in Good PROVE k + 1 \in Good
    <3> SUFFICES ASSUME k + 2 <= N PROVE c[k + 2] = J[k + 2]
      BY <1>1
    <3>1. k + 1 \in 1 .. N /\ k + 2 \in 1 .. N /\ (k + 2) - 1 = k + 1 /\ c[k + 1] = J[k + 1] /\ k + 2 # 1
      BY <1>1, <2>7
    <3> QED
      BY <2>4, <2>5, <3>1
  <2> HIDE DEF Good
  <2>8. \A k \in Nat : k \in Good
    BY <2>6, <2>7, Naturals
  <2>9. N - 1 \in Nat /\ (N - 1) + 1 = N
    BY <1>1, <1>5
  <2>10. (N - 1) + 1 <= N => c[(N - 1) + 1] = J[(N - 1) + 1]
    <3>1. N - 1 \in Good
      BY <2>8, <2>9
    <3> HIDE DEF N
    <3> QED
      BY <3>1 DEF Good
  <2>11. c[N] = J[N]
    BY <1>1, <2>9, <2>10
  <2> QED
    BY <2>1, <2>11 DEF J
<1> QED
  BY <1>4, <1>5

-----------------------------------------------------------------------------
(* The lines of a content *)

Parts(c) == [i \in DOMAIN Texts(c) |-> Texts(c)[i].lines]

\* How many lines the first b texts have.
Before(c, b) == Len(Joined(Parts(c))[b])

LEMMA TextsType ==
  ASSUME NEW c \in Contents
  PROVE  /\ Texts(c) \in Seq(Blocks)
         /\ Len(Texts(c)) \in Nat
         /\ \A b \in 1 .. Len(Texts(c)) : Texts(c)[b].lines \in Seq(Lines) \ {<<>>}
<1> DEFINE B == { Block("text", t) : t \in BoundedSeq(Lines, MaxLines) \ {<<>>} }
           P == { i \in DOMAIN c.blocks : c.blocks[i].type = "text" }
<1>1. c.blocks \in Seq(Blocks)
  <2>1. \A S, n : \A q \in BoundedSeq(S, n) : n \in Nat => q \in Seq(S)
    BY SeqDef DEF BoundedSeq, SeqOf
  <2>2. MaxBlocks \in Nat
    BY LimitsAssumption
  <2>3. c.blocks \in BoundedSeq(Blocks, MaxBlocks) \/ c.blocks = <<>>
    BY DEF Contents
  <2> QED
    BY <2>1, <2>2, <2>3, EmptySeq
<1>2. \A i \in 1 .. Len(c.blocks) : i \in P => c.blocks[i] \in B
  BY <1>1, ElementOfSeq DEF Blocks, Block
<1>3. Texts(c) \in Seq(B)
  <2>1. Len(c.blocks) \in Nat
    BY <1>1, LenProperties
  <2>2. Select(c.blocks, P) \in Seq(B)
    <3> HIDE DEF P, B
    <3> QED
      BY <1>2, <2>1, SelectType
  <2> QED
    BY <2>2 DEF Texts
<1>4. B \subseteq Blocks
  BY DEF Blocks
<1>5. \A b \in B : b.lines \in Seq(Lines) \ {<<>>}
  <2>1. \A q \in BoundedSeq(Lines, MaxLines) : q \in Seq(Lines)
    BY SeqDef, LimitsAssumption DEF BoundedSeq, SeqOf
  <2> QED
    BY <2>1 DEF Block
<1> HIDE DEF B
<1> QED
  BY <1>3, <1>4, <1>5, SeqMonotonic, ElementOfSeq, LenProperties

LEMMA PartsType ==
  ASSUME NEW c \in Contents
  PROVE  /\ Parts(c) \in Seq(Seq(Lines)) /\ Len(Parts(c)) = Len(Texts(c))
         /\ \A b \in 1 .. Len(Texts(c)) : Parts(c)[b] = Texts(c)[b].lines
<1> DEFINE n == Len(Texts(c))
<1>1. n \in Nat /\ DOMAIN Texts(c) = 1 .. n
  BY TextsType, LenProperties
<1>2. Parts(c) = [i \in 1 .. n |-> Texts(c)[i].lines]
  BY <1>1 DEF Parts
<1>3. \A b \in 1 .. n : Texts(c)[b].lines \in Seq(Lines)
  BY TextsType
<1> HIDE DEF n
<1>4. Parts(c) \in [1 .. n -> Seq(Lines)]
  BY <1>2, <1>3
<1> QED
  BY <1>1, <1>2, <1>4, SeqDef DEF n

\* Where the lines of the text b are in the whole.
LEMMA LinesOfContent ==
  ASSUME NEW c \in Contents
  PROVE  /\ AllLines(c) \in Seq(Lines)
         /\ Before(c, 0) = 0 /\ Before(c, Len(Texts(c))) = Len(AllLines(c))
         /\ \A b \in 1 .. Len(Texts(c)) :
              /\ Before(c, b - 1) \in Nat
              /\ Before(c, b) = Before(c, b - 1) + Len(Texts(c)[b].lines)
              /\ Before(c, b) <= Len(AllLines(c))
              /\ \A j \in 1 .. Len(Texts(c)[b].lines) :
                   AllLines(c)[Before(c, b - 1) + j] = Texts(c)[b].lines[j]
<1> DEFINE seqs == Parts(c)
           J == Joined(seqs)
           n == Len(Texts(c))
<1>1. /\ seqs \in Seq(Seq(Lines)) /\ Len(seqs) = n /\ n \in Nat
      /\ \A b \in 1 .. n : seqs[b] \in Seq(Lines) /\ seqs[b] = Texts(c)[b].lines
  BY PartsType, TextsType
<1>2. AllLines(c) = J[n]
  <2>1. FlattenSeq(seqs) = J[n]
    BY <1>1, FlattenJoins
  <2> QED
    BY <2>1 DEF AllLines, Parts
<1> HIDE DEF seqs
<1>3. Joins(J, seqs, n)
  BY <1>1, JoinedJoins
<1> HIDE DEF J, n
<1>4. \A b \in 0 .. n : J[b] \in Seq(Lines)
  BY <1>1, <1>3, JoinType
<1>5. \A b \in 0 .. n : Before(c, b) = Len(J[b]) /\ Before(c, b) \in Nat
  BY <1>4, LenProperties DEF Before, J, seqs
<1>6. Before(c, 0) = 0
  <2>1. J[0] = <<>>
    BY <1>3 DEF Joins
  <2> QED
    BY <1>1, <1>5, <2>1
<1>7. ASSUME NEW b \in 1 .. n
      PROVE  /\ Before(c, b) = Before(c, b - 1) + Len(seqs[b])
             /\ Before(c, b) <= Len(J[n])
             /\ \A j \in 1 .. Len(seqs[b]) : J[n][Before(c, b - 1) + j] = seqs[b][j]
  <2>1. b \in 0 .. n /\ b - 1 \in 0 .. n
    BY <1>1
  <2>2. J[b] = J[b - 1] \o seqs[b]
    BY <1>3 DEF Joins
  <2> DEFINE u == J[b - 1]
             v == seqs[b]
  <2>3. u \in Seq(Lines) /\ v \in Seq(Lines) /\ J[b] = u \o v
    BY <1>1, <1>4, <2>1, <2>2
  <2>4. Before(c, b) = Len(u \o v) /\ Before(c, b - 1) = Len(u)
    BY <1>5, <2>1, <2>3
  <2>5. Len(J[b]) <= Len(J[n]) /\ \A j \in 1 .. Len(J[b]) : J[n][j] = J[b][j]
    BY <1>1, <1>3, <2>1, JoinPrefix
  <2> HIDE DEF u, v
  <2>6. /\ Len(u \o v) = Len(u) + Len(v) /\ Len(u) \in Nat /\ Len(v) \in Nat
        /\ \A i \in 1 .. Len(u) + Len(v) : (u \o v)[i] = IF i <= Len(u) THEN u[i] ELSE v[i - Len(u)]
    BY <2>3, ConcatProperties, LenProperties
  <2>7. ASSUME NEW j \in 1 .. Len(v) PROVE J[n][Before(c, b - 1) + j] = v[j]
    <3> DEFINE i == Len(u) + j
    <3>1. i \in 1 .. Len(u) + Len(v) /\ ~ (i <= Len(u)) /\ i - Len(u) = j
      BY <2>6
    <3>2. (u \o v)[i] = v[j]
      BY <2>6, <3>1
    <3>3. i \in 1 .. Len(J[b])
      BY <2>3, <2>6, <3>1
    <3>4. J[n][i] = v[j]
      BY <2>3, <2>5, <3>2, <3>3
    <3> QED
      BY <2>4, <3>4
  <2> QED
    BY <2>3, <2>4, <2>5, <2>6, <2>7 DEF v
<1>8. \A b \in 1 .. n : Before(c, b - 1) \in Nat
  BY <1>1, <1>5
<1>9. Before(c, n) = Len(J[n]) /\ J[n] \in Seq(Lines)
  BY <1>1, <1>4, <1>5
<1> QED
  BY <1>1, <1>2, <1>6, <1>7, <1>8, <1>9 DEF n

-----------------------------------------------------------------------------
(* What is answered *)

Matching == { i \in DOMAIN AllLines(content) : AllLines(content)[i] \in expr.pattern }

\* How many lines of the whole grep has read.
ReadTo == Before(content, at[1] - 1) + at[2] - 1

\* grep stands on a line, or after the last one.
OnLine ==
    /\ at[1] \in 1 .. Len(Texts(content)) + 1 /\ at[2] \in Nat \ {0}
    /\ IF at[1] <= Len(Texts(content)) THEN at[2] <= Len(Texts(content)[at[1]].lines) ELSE at[2] = 1

\* What grep has found is the choice from the lines it has read, and jq goes on
\* only below its cap.
FoundInv ==
    /\ content \in Contents /\ expr \in Expressions
    /\ pc # "done" => answer = Pending
    /\ pc = "called" => at = <<1, 1>> /\ found = <<>> /\ emitted = 0
    /\ pc = "iterating" => Form(expr) = "jq" /\ emitted \in Nat /\ emitted <= MaxJQResults
    /\ pc = "grepping" =>
         /\ Form(expr) = "grep" /\ OnLine
         /\ found = Chosen(AllLines(content), Matching)[ReadTo]

\* Plainly written, a form is what it seems.
LEMMA PlainForm ==
  ASSUME NEW e, Form(e) # "jq"
  PROVE  Form(e) = e.form
BY DEF Form

\* A text is a sequence of at least one line; only without texts is there none.
LEMMA WholeText ==
  ASSUME NEW c \in Contents
  PROVE  /\ Text(AllLines(c)) \in Seq(Lines) /\ Len(Text(AllLines(c))) \in Nat \ {0}
         /\ AllLines(c) # <<>> => Text(AllLines(c)) = AllLines(c)
         /\ AllLines(c) = <<>> => Text(AllLines(c)) = <<Blank>> /\ Texts(c) = <<>>
<1> DEFINE L == AllLines(c)
<1>1. L \in Seq(Lines) /\ Len(L) \in Nat
  BY LinesOfContent, LenProperties
<1>2. ASSUME L = <<>>, Texts(c) # <<>> PROVE FALSE
  <2>1. 1 \in 1 .. Len(Texts(c))
    BY <1>2, TextsType, EmptySeq
  <2>2. Len(Texts(c)[1].lines) \in Nat \ {0}
    BY <2>1, TextsType, EmptySeq
  <2>3. Before(c, 1) = 0 + Len(Texts(c)[1].lines) /\ Before(c, 1) <= Len(L)
    BY <2>1, LinesOfContent
  <2> QED
    BY <1>2, <2>2, <2>3, EmptySeq
<1>3. <<Blank>> \in Seq(Lines) /\ Len(<<Blank>>) = 1
  BY BlankAssumption
<1>4. L # <<>> => Len(L) \in Nat \ {0}
  BY <1>1, EmptySeq
<1> HIDE DEF L
<1> QED
  BY <1>1, <1>2, <1>3, <1>4 DEF Text, L

\* Over a content without a line every choice shows the empty text.
LEMMA SelectBlank ==
  ASSUME NEW positions
  PROVE  Text(Select(<<Blank>>, positions)) = <<Blank>> /\ Text(<<>>) = <<Blank>>
<1> DEFINE s == <<Blank>>
           f == [i \in 0 .. 1 |-> IF i = 1 /\ 1 \in positions THEN <<Blank>> ELSE <<>>]
<1>1. Len(s) = 1 /\ s[1] = Blank
  OBVIOUS
<1>2. f[0] = <<>> /\ f[1] = IF 1 \in positions THEN <<Blank>> ELSE <<>>
  OBVIOUS
<1> HIDE DEF f
<1>3. Builds(f, s, positions, 1)
  <2>1. Append(<<>>, s[1]) = <<Blank>>
    BY <1>1
  <2>2. f[1] = IF 1 \in positions THEN Append(f[0], s[1]) ELSE f[0]
    BY <1>2, <2>1
  <2>3. \A i \in 1 .. 1 : i = 1 /\ i - 1 = 0
    OBVIOUS
  <2> HIDE DEF s
  <2>4. \A i \in 1 .. 1 : f[i] = IF i \in positions THEN Append(f[i - 1], s[i]) ELSE f[i - 1]
    BY <2>2, <2>3
  <2> QED
    BY <1>2, <2>4 DEF Builds
<1>4. Select(s, positions) = f[1]
  <2>1. Len(s) \in Nat /\ Builds(f, s, positions, Len(s))
    BY <1>1, <1>3
  <2> HIDE DEF s
  <2> QED
    BY <1>1, <2>1, SelectIs
<1> QED
  BY <1>2, <1>4 DEF Text

LEMMA PromisedIs ==
  ASSUME NEW e, NEW s
  PROVE  /\ e.form = "full" => Promised(e, s) = DOMAIN s
         /\ e.form = "head" => Promised(e, s) = { i \in DOMAIN s : i <= e.n }
         /\ e.form = "tail" => Promised(e, s) = { i \in DOMAIN s : i > Len(s) - e.n }
         /\ e.form = "line" => Promised(e, s) = { i \in DOMAIN s : i = e.n + 1 }
         /\ e.form = "grep" => Promised(e, s) = { i \in DOMAIN s : s[i] \in e.pattern }
<1>0. /\ "full" # "head" /\ "full" # "tail" /\ "full" # "line" /\ "full" # "grep"
      /\ "head" # "tail" /\ "head" # "line" /\ "head" # "grep"
      /\ "tail" # "line" /\ "tail" # "grep" /\ "line" # "grep"
  OBVIOUS
<1>1. CASE e.form = "full"
  BY <1>0, <1>1, Zenon DEF Promised
<1>2. CASE e.form = "head"
  BY <1>0, <1>2, Zenon DEF Promised
<1>3. CASE e.form = "tail"
  BY <1>0, <1>3, Zenon DEF Promised
<1>4. CASE e.form = "line"
  BY <1>0, <1>4, Zenon DEF Promised
<1>5. CASE e.form = "grep"
  BY <1>0, <1>5, Zenon DEF Promised
<1> QED
  BY <1>0, <1>1, <1>2, <1>3, <1>4, <1>5

\* Each of the forms that cut shows what it promises.
LEMMA CutsRight ==
  ASSUME NEW L \in Seq(Lines), NEW e, e.n \in Int, NEW whole,
         whole = Text(L), L # <<>> => whole = L
  PROVE  /\ e.form = "full" => Text(L) = Text(Select(whole, Promised(e, whole)))
         /\ e.form = "head" /\ ~ (e.n < 0) =>
              Text(FirstLines(e.n, L)) = Text(Select(whole, Promised(e, whole)))
         /\ e.form = "tail" /\ ~ (e.n < 0) =>
              Text(LastLines(e.n, L)) = Text(Select(whole, Promised(e, whole)))
         /\ e.form = "line" /\ ~ (e.n < 0) /\ ~ (e.n >= Len(L)) =>
              Text(<<L[e.n + 1]>>) = Text(Select(whole, Promised(e, whole)))
<1>1. CASE L = <<>>
  <2>1. Len(L) = 0 /\ whole = <<Blank>>
    BY <1>1, EmptySeq DEF Text
  <2>2. \A P : Text(Select(whole, P)) = <<Blank>>
    BY <2>1, SelectBlank
  <2>3. ASSUME ~ (e.n < 0) PROVE FirstLines(e.n, L) = <<>> /\ LastLines(e.n, L) = <<>>
    <3>1. Clamp(e.n, L) = 0
      BY <2>1, <2>3 DEF Clamp
    <3> QED
      BY <2>1, <3>1, SubSeqEmpty DEF FirstLines, LastLines
  <2>4. Text(<<>>) = <<Blank>>
    BY DEF Text
  <2>5. ~ (~ (e.n < 0) /\ ~ (e.n >= Len(L)))
    BY <2>1
  <2> QED
    BY <1>1, <2>2, <2>3, <2>4, <2>5
<1>2. CASE L # <<>>
  <2>1. whole = L /\ Len(L) \in Nat
    BY <1>2, LenProperties
  <2>2. e.form = "full" => Select(L, Promised(e, L)) = L
    BY SelectAll, PromisedIs
  <2>3. e.form = "head" /\ ~ (e.n < 0) => Select(L, Promised(e, L)) = FirstLines(e.n, L)
    <3> SUFFICES ASSUME e.form = "head", ~ (e.n < 0) PROVE Select(L, Promised(e, L)) = FirstLines(e.n, L)
      OBVIOUS
    <3>1. Promised(e, L) = { i \in DOMAIN L : i <= e.n } /\ e.n \in Nat
      BY PromisedIs
    <3> QED
      BY <3>1, SelectFirst
  <2>4. e.form = "tail" /\ ~ (e.n < 0) => Select(L, Promised(e, L)) = LastLines(e.n, L)
    <3> SUFFICES ASSUME e.form = "tail", ~ (e.n < 0) PROVE Select(L, Promised(e, L)) = LastLines(e.n, L)
      OBVIOUS
    <3>1. Promised(e, L) = { i \in DOMAIN L : i > Len(L) - e.n } /\ e.n \in Nat
      BY PromisedIs
    <3> QED
      BY <3>1, SelectLast
  <2>5. e.form = "line" /\ ~ (e.n < 0) /\ ~ (e.n >= Len(L)) => Select(L, Promised(e, L)) = <<L[e.n + 1]>>
    <3> SUFFICES ASSUME e.form = "line", ~ (e.n < 0), ~ (e.n >= Len(L))
                 PROVE  Select(L, Promised(e, L)) = <<L[e.n + 1]>>
      OBVIOUS
    <3>1. Promised(e, L) = { i \in DOMAIN L : i = e.n + 1 }
      BY PromisedIs
    <3>2. e.n + 1 \in 1 .. Len(L)
      BY <2>1
    <3> QED
      BY <3>1, <3>2, SelectOne
  <2> QED
    BY <2>1, <2>2, <2>3, <2>4, <2>5
<1> QED
  BY <1>1, <1>2

LEMMA ExpressionNumber ==
  ASSUME NEW e \in Expressions
  PROVE  e.n \in Int
BY NumbersAssumption DEF Expressions, Expression

LEMMA FoundInit ==
  ASSUME Init
  PROVE  FoundInv /\ AnswerRight
<1>1. /\ content \in Contents /\ expr \in Expressions /\ pc = "called" /\ answer = Pending
      /\ at = <<1, 1>> /\ found = <<>> /\ emitted = 0
  BY DEF Init
<1>2. pc # "iterating" /\ pc # "grepping"
  BY <1>1
<1>3. FoundInv
  BY <1>1, <1>2 DEF FoundInv
<1>4. answer.kind # "text" /\ answer.kind # "error"
  BY <1>1 DEF Pending
<1> QED
  BY <1>3, <1>4 DEF AnswerRight

LEMMA FoundStep ==
  ASSUME FoundInv, [Next]_vars
  PROVE  FoundInv'
<1>0. content' = content /\ expr' = expr
  BY DEF Next, Refuses, Cuts, Begins, Expires, GrepTimesOut, GrepLine, GrepEnds,
         JQEmits, JQEnds, JQFails, JQTimesOut, Finished, args, vars
<1>1. content \in Contents /\ expr \in Expressions /\ content' \in Contents /\ expr' \in Expressions
  BY <1>0 DEF FoundInv
<1>2. ASSUME pc' = "done" PROVE FoundInv'
  BY <1>1, <1>2 DEF FoundInv
<1>3. CASE Refuses \/ Cuts \/ GrepTimesOut \/ GrepEnds \/ JQEnds \/ JQFails \/ JQTimesOut
  <2>1. pc' = "done"
    BY <1>3 DEF Refuses, Cuts, GrepTimesOut, GrepEnds, JQEnds, JQFails, JQTimesOut, Answers
  <2> QED
    BY <1>2, <2>1
<1>4. CASE Expires \/ Finished \/ UNCHANGED vars
  <2>1. UNCHANGED <<args, pc, at, found, emitted, answer>>
    BY <1>4 DEF Expires, Finished, vars
  <2> QED
    BY <2>1 DEF FoundInv, OnLine, ReadTo, Matching, args
<1>5. CASE Begins
  <2>1. /\ pc = "called" /\ answer' = answer /\ at' = at /\ found' = found /\ emitted' = emitted
        /\ \/ Form(expr) = "grep" /\ pc' = "grepping"
           \/ Form(expr) = "jq" /\ pc' = "iterating"
    BY <1>5 DEF Begins
  <2>2. answer = Pending /\ at = <<1, 1>> /\ found = <<>> /\ emitted = 0
    BY <2>1 DEF FoundInv
  <2>3. CASE pc' = "iterating"
    <3>1. 0 \in Nat /\ 0 <= MaxJQResults
      BY LimitsAssumption
    <3>2. Form(expr) = "jq"
      BY <2>1, <2>3
    <3> QED
      BY <1>0, <1>1, <2>1, <2>2, <2>3, <3>1, <3>2 DEF FoundInv
  <2>4. CASE pc' = "grepping"
    <3>1. at'[1] = 1 /\ at'[2] = 1 /\ Len(Texts(content)) \in Nat
      BY <1>1, <2>1, <2>2, TextsType
    <3>2. 1 <= Len(Texts(content)) => 1 <= Len(Texts(content)[1].lines)
      BY <1>1, <3>1, TextsType, EmptySeq
    <3>3. OnLine'
      BY <1>0, <3>1, <3>2 DEF OnLine
    <3>4. ReadTo' = 0
      <4>1. Before(content, 0) = 0
        BY <1>1, LinesOfContent
      <4> QED
        BY <1>0, <3>1, <4>1 DEF ReadTo
    <3>5. Chosen(AllLines(content'), Matching')[0] = <<>>
      <4>1. Len(AllLines(content')) \in Nat
        BY <1>1, LinesOfContent, LenProperties
      <4> QED
        BY <4>1, ChosenBuilds DEF Builds
    <3>6. Form(expr) = "grep"
      BY <2>1, <2>4
    <3> QED
      BY <1>0, <1>1, <2>1, <2>2, <2>4, <3>3, <3>4, <3>5, <3>6 DEF FoundInv
  <2> QED
    BY <2>1, <2>3, <2>4
<1>6. CASE GrepLine
  <2> DEFINE L == AllLines(content)
             b == at[1]
             t == Texts(content)[b].lines
             f == Chosen(L, Matching)
             i == ReadTo + 1
  <2>1. /\ pc = "grepping" /\ b <= Len(Texts(content)) /\ pc' = pc /\ answer' = answer
        /\ found' = IF t[at[2]] \in expr.pattern THEN Append(found, t[at[2]]) ELSE found
        /\ at' = IF at[2] < Len(t) THEN <<b, at[2] + 1>> ELSE <<b + 1, 1>>
    BY <1>6 DEF GrepLine
  <2>2. Form(expr) = "grep" /\ OnLine /\ found = f[ReadTo] /\ answer = Pending
    BY <2>1 DEF FoundInv
  <2>3. b \in 1 .. Len(Texts(content)) /\ at[2] \in Nat \ {0} /\ at[2] <= Len(t) /\ Len(Texts(content)) \in Nat
    BY <1>1, <2>1, <2>2, TextsType DEF OnLine
  <2>4. t \in Seq(Lines) /\ Len(t) \in Nat
    BY <1>1, <2>3, TextsType, LenProperties
  <2>5. /\ Before(content, b - 1) \in Nat
        /\ Before(content, b) = Before(content, b - 1) + Len(t)
        /\ Before(content, b) <= Len(L)
        /\ \A j \in 1 .. Len(t) : L[Before(content, b - 1) + j] = t[j]
        /\ L \in Seq(Lines) /\ Len(L) \in Nat
    BY <1>1, <2>3, LinesOfContent, LenProperties
  <2>6. i = Before(content, b - 1) + at[2] /\ i \in 1 .. Len(L) /\ L[i] = t[at[2]] /\ i - 1 = ReadTo
    <3>1. ReadTo = Before(content, b - 1) + at[2] - 1
      BY DEF ReadTo
    <3> HIDE DEF L, t, b
    <3>2. i = Before(content, b - 1) + at[2]
      BY <2>3, <2>5, <3>1
    <3>3. at[2] \in 1 .. Len(t) /\ L[Before(content, b - 1) + at[2]] = t[at[2]]
      BY <2>3, <2>4, <2>5
    <3>4. i - 1 = ReadTo
      BY <2>3, <2>5, <3>1
    <3>5. i \in 1 .. Len(L)
      <4> HIDE DEF i
      <4>1. i <= Before(content, b)
        BY <2>3, <2>4, <2>5, <3>2
      <4> QED
        BY <2>3, <2>5, <3>2, <4>1
    <3> QED
      BY <3>2, <3>3, <3>4, <3>5
  <2>7. i \in Matching <=> L[i] \in expr.pattern
    BY <2>5, <2>6, LenProperties DEF Matching
  <2>8. f[i] = IF i \in Matching THEN Append(f[i - 1], L[i]) ELSE f[i - 1]
    <3> HIDE DEF i, f
    <3>1. Builds(f, L, Matching, Len(L))
      BY <2>5, ChosenBuilds DEF f
    <3> QED
      BY <2>6, <3>1 DEF Builds
  <2>9. found' = f[i]
    <3> HIDE DEF f, i, L, t
    <3> QED
      BY <2>1, <2>2, <2>6, <2>7, <2>8
  <2>10. OnLine' /\ ReadTo' = i
    <3>1. CASE at[2] < Len(t)
      <4>1. at'[1] = b /\ at'[2] = at[2] + 1
        BY <2>1, <3>1
      <4>2. at[2] + 1 \in Nat \ {0} /\ at[2] + 1 <= Len(t) /\ b \in 1 .. Len(Texts(content)) + 1
        BY <2>3, <2>4, <3>1
      <4>3. OnLine'
        BY <1>0, <2>3, <4>1, <4>2 DEF OnLine
      <4>4. ReadTo' = Before(content, b - 1) + (at[2] + 1) - 1
        BY <1>0, <4>1 DEF ReadTo
      <4> QED
        BY <2>3, <2>5, <2>6, <4>3, <4>4
    <3>2. CASE ~ (at[2] < Len(t))
      <4>1. at'[1] = b + 1 /\ at'[2] = 1 /\ at[2] = Len(t)
        BY <2>1, <2>3, <2>4, <3>2
      <4>2. b + 1 \in 1 .. Len(Texts(content)) + 1
        BY <2>3
      <4>3. b + 1 <= Len(Texts(content)) => 1 <= Len(Texts(content)[b + 1].lines)
        <5> SUFFICES ASSUME b + 1 <= Len(Texts(content)) PROVE 1 <= Len(Texts(content)[b + 1].lines)
          OBVIOUS
        <5>1. b + 1 \in 1 .. Len(Texts(content))
          BY <2>3
        <5>2. Len(Texts(content)[b + 1].lines) \in Nat \ {0}
          BY <1>1, <5>1, TextsType, EmptySeq
        <5> QED
          BY <5>2
      <4>4. OnLine'
        BY <1>0, <4>1, <4>2, <4>3 DEF OnLine
      <4>5. ReadTo' = Before(content, (b + 1) - 1) + 1 - 1
        BY <1>0, <4>1 DEF ReadTo
      <4>6. (b + 1) - 1 = b
        BY <2>3
      <4> QED
        BY <2>3, <2>4, <2>5, <2>6, <4>1, <4>4, <4>5, <4>6
    <3> QED
      BY <3>1, <3>2
  <2>11. Chosen(AllLines(content'), Matching') = f
    BY <1>0 DEF Matching
  <2> HIDE DEF f, i
  <2> QED
    BY <1>0, <1>1, <2>1, <2>2, <2>9, <2>10, <2>11 DEF FoundInv
<1>7. CASE JQEmits
  <2>1. pc = "iterating" /\ emitted' = emitted + 1
    BY <1>7 DEF JQEmits
  <2>2. pc' = "done" \/ (pc' = pc /\ answer' = answer /\ ~ (emitted' > MaxJQResults))
    BY <1>7, Zenon DEF JQEmits, TooMany, Answers
  <2>3. Form(expr) = "jq" /\ emitted \in Nat /\ answer = Pending /\ MaxJQResults \in Nat
    BY <2>1, LimitsAssumption DEF FoundInv
  <2>4. CASE pc' = "done"
    BY <1>2, <2>4
  <2>5. CASE pc' = pc /\ answer' = answer /\ ~ (emitted' > MaxJQResults)
    <3>1. emitted' \in Nat /\ emitted' <= MaxJQResults
      BY <2>1, <2>3, <2>5
    <3> QED
      BY <1>0, <1>1, <2>1, <2>3, <2>5, <3>1 DEF FoundInv
  <2> QED
    BY <2>2, <2>4, <2>5
<1> QED
  BY <1>3, <1>4, <1>5, <1>6, <1>7 DEF Next

LEMMA AnswerStep ==
  ASSUME FoundInv, AnswerRight, [Next]_vars
  PROVE  AnswerRight'
<1> DEFINE L == AllLines(content)
           whole == Text(L)
<1>0. content' = content /\ expr' = expr /\ content \in Contents /\ expr \in Expressions
  BY DEF Next, Refuses, Cuts, Begins, Expires, GrepTimesOut, GrepLine, GrepEnds,
         JQEmits, JQEnds, JQFails, JQTimesOut, Finished, args, vars, FoundInv
<1>1. /\ L \in Seq(Lines) /\ Len(L) \in Nat /\ expr.n \in Int
      /\ L # <<>> => whole = L
      /\ L = <<>> => whole = <<Blank>> /\ Texts(content) = <<>>
  BY <1>0, LinesOfContent, LenProperties, WholeText, ExpressionNumber
<1>2. "text" # "error" /\ "none" # "text" /\ "none" # "error" /\ "full" # "jq" /\ "head" # "jq"
      /\ "tail" # "jq" /\ "line" # "jq" /\ "grep" # "jq"
  OBVIOUS
<1>3. ASSUME NEW a, answer' = a, a.kind = "error",
             \/ expired' \/ emitted' > MaxJQResults \/ Form(expr) = "jq"
             \/ ~ Valid(expr) \/ expr.n < 0 \/ ~ content.array
             \/ expr.form = "line" /\ (expr.n >= Len(whole) \/ Texts(content) = <<>>)
      PROVE  AnswerRight'
  BY <1>0, <1>2, <1>3 DEF AnswerRight
<1>4. ASSUME NEW lines, answer' = Shown(lines), Form(expr) # "jq",
             Text(lines) = Text(Select(whole, Promised(expr, whole)))
      PROVE  AnswerRight'
  <2>1. answer'.kind = "text" /\ answer'.lines = Text(lines) /\ answer'.results = 0
    BY <1>4 DEF Shown
  <2>2. 0 <= MaxJQResults
    BY LimitsAssumption
  <2> QED
    BY <1>0, <1>2, <1>4, <2>1, <2>2 DEF AnswerRight
<1>5. ASSUME answer' = answer, ~ expired \/ expired', emitted' = emitted \/ answer = Pending PROVE AnswerRight'
  <2>1. CASE answer = Pending
    <3>1. answer'.kind = "none"
      BY <1>5, <2>1 DEF Pending
    <3> QED
      BY <1>2, <3>1 DEF AnswerRight
  <2>2. CASE emitted' = emitted
    BY <1>0, <1>5, <2>2 DEF AnswerRight
  <2> QED
    BY <1>5, <2>1, <2>2
<1>6. Error.kind = "error"
  BY DEF Error
<1>7. CASE Refuses
  <2>1. answer' = Error /\ Refused
    BY <1>7 DEF Refuses, Answers
  <2>2. Form(expr) # "jq" => Form(expr) = expr.form
    BY PlainForm
  <2>3. ASSUME Form(expr) = "line", expr.n >= Len(L)
        PROVE  expr.form = "line" /\ (expr.n >= Len(whole) \/ Texts(content) = <<>>)
    BY <1>1, <1>2, <2>2, <2>3
  <2> QED
    BY <1>2, <1>3, <1>6, <2>1, <2>3 DEF Refused
<1>8. CASE Cuts
  <2>1. /\ ~ Refused
        /\ \/ Form(expr) = "full" /\ answer' = Shown(L)
           \/ Form(expr) = "head" /\ answer' = Shown(FirstLines(expr.n, L))
           \/ Form(expr) = "tail" /\ answer' = Shown(LastLines(expr.n, L))
           \/ Form(expr) = "line" /\ answer' = Shown(<<L[expr.n + 1]>>)
    BY <1>8, Zenon DEF Cuts, Answers
  <2>2. Form(expr) # "jq" /\ Form(expr) = expr.form
    BY <1>2, <2>1, PlainForm
  <2>3. /\ Form(expr) \in {"head", "tail", "line"} => ~ (expr.n < 0)
        /\ Form(expr) = "line" => ~ (expr.n >= Len(L))
    BY <2>1 DEF Refused
  <2> HIDE DEF L, whole
  <2>4. whole = Text(L)
    BY DEF whole
  <2>5. /\ expr.form = "full" => Text(L) = Text(Select(whole, Promised(expr, whole)))
        /\ expr.form = "head" /\ ~ (expr.n < 0) =>
             Text(FirstLines(expr.n, L)) = Text(Select(whole, Promised(expr, whole)))
        /\ expr.form = "tail" /\ ~ (expr.n < 0) =>
             Text(LastLines(expr.n, L)) = Text(Select(whole, Promised(expr, whole)))
        /\ expr.form = "line" /\ ~ (expr.n < 0) /\ ~ (expr.n >= Len(L)) =>
             Text(<<L[expr.n + 1]>>) = Text(Select(whole, Promised(expr, whole)))
    BY <1>1, <2>4, CutsRight
  <2>6. CASE Form(expr) = "full" /\ answer' = Shown(L)
    BY <1>4, <2>2, <2>5, <2>6
  <2>7. CASE Form(expr) = "head" /\ answer' = Shown(FirstLines(expr.n, L))
    BY <1>4, <2>2, <2>3, <2>5, <2>7
  <2>8. CASE Form(expr) = "tail" /\ answer' = Shown(LastLines(expr.n, L))
    BY <1>4, <2>2, <2>3, <2>5, <2>8
  <2>9. CASE Form(expr) = "line" /\ answer' = Shown(<<L[expr.n + 1]>>)
    BY <1>4, <2>2, <2>3, <2>5, <2>9
  <2> QED
    BY <2>1, <2>6, <2>7, <2>8, <2>9
<1>9. CASE Begins \/ Expires \/ GrepLine \/ Finished \/ UNCHANGED vars
  <2>1. answer' = answer /\ emitted' = emitted /\ (expired' = expired \/ expired' = TRUE)
    BY <1>9 DEF Begins, Expires, GrepLine, Finished, vars
  <2> QED
    BY <1>5, <2>1
<1>10. CASE GrepTimesOut
  <2>1. answer' = Error /\ expired /\ expired' = expired
    BY <1>10 DEF GrepTimesOut, Answers
  <2> QED
    BY <1>3, <1>6, <2>1
<1>11. CASE GrepEnds
  <2>1. answer' = Shown(found) /\ pc = "grepping" /\ at[1] > Len(Texts(content))
    BY <1>11 DEF GrepEnds, Answers
  <2>2. Form(expr) = "grep" /\ OnLine /\ found = Chosen(L, Matching)[ReadTo]
    BY <2>1 DEF FoundInv
  <2>3. at[1] = Len(Texts(content)) + 1 /\ at[2] = 1 /\ Len(Texts(content)) \in Nat
    <3>1. Len(Texts(content)) \in Nat
      BY <1>0, TextsType
    <3> QED
      BY <2>1, <2>2, <3>1 DEF OnLine
  <2>4. ReadTo = Len(L)
    <3>1. Before(content, at[1] - 1) = Len(L)
      <4>1. at[1] - 1 = Len(Texts(content))
        BY <2>3
      <4>2. Before(content, Len(Texts(content))) = Len(L)
        BY <1>0, LinesOfContent
      <4> QED
        BY <4>1, <4>2
    <3> QED
      BY <1>1, <2>3, <3>1 DEF ReadTo
  <2>5. found = Select(L, Matching)
    BY <1>1, <2>2, <2>4, ChosenBuilds
  <2>6. Form(expr) # "jq" /\ expr.form = "grep"
    BY <1>2, <2>2, PlainForm
  <2>7. Text(found) = Text(Select(whole, Promised(expr, whole)))
    <3>1. CASE L = <<>>
      <4>1. whole = <<Blank>> /\ Select(L, Matching) = <<>>
        <5>1. Len(L) = 0 /\ Len(L) \in Nat
          BY <3>1, EmptySeq
        <5>2. Chosen(L, Matching)[0] = <<>> /\ Select(L, Matching) = Chosen(L, Matching)[Len(L)]
          BY <5>1, ChosenBuilds DEF Builds
        <5> QED
          BY <1>1, <3>1, <5>1, <5>2
      <4> QED
        BY <2>5, <4>1, SelectBlank
    <3>2. CASE L # <<>>
      <4>1. whole = L
        BY <1>1, <3>2
      <4>2. Promised(expr, L) = Matching
        BY <2>6, PromisedIs DEF Matching
      <4> QED
        BY <2>5, <4>1, <4>2
    <3> QED
      BY <3>1, <3>2
  <2> HIDE DEF whole, L
  <2> QED
    BY <1>4, <2>1, <2>6, <2>7
<1>12. CASE JQEmits
  <2>1. /\ pc = "iterating" /\ emitted' = emitted + 1
        /\ IF emitted' > MaxJQResults THEN Answers(Error) ELSE UNCHANGED <<pc, answer>>
        /\ expired' = expired
    BY <1>12 DEF JQEmits, TooMany
  <2>2. answer = Pending
    BY <2>1 DEF FoundInv
  <2>3. CASE emitted' > MaxJQResults
    BY <1>3, <1>6, <2>1, <2>3 DEF Answers
  <2>4. CASE ~ (emitted' > MaxJQResults)
    BY <1>5, <2>1, <2>2, <2>4
  <2> QED
    BY <2>3, <2>4
<1>13. CASE JQEnds
  <2>1. /\ pc = "iterating"
        /\ answer' = [kind |-> "text", lines |-> <<>>, results |-> emitted]
    BY <1>13 DEF JQEnds, Answers
  <2>2. Form(expr) = "jq" /\ emitted <= MaxJQResults
    BY <2>1 DEF FoundInv
  <2>3. answer'.kind = "text" /\ answer'.results <= MaxJQResults
    BY <2>1, <2>2
  <2>4. ~ (expr.form # "jq" /\ expr.wrap # "padded")
    BY <2>2 DEF Form
  <2> QED
    BY <1>0, <1>2, <2>3, <2>4 DEF AnswerRight
<1>14. CASE JQFails \/ JQTimesOut
  <2>1. pc = "iterating" /\ answer' = Error
    BY <1>14 DEF JQFails, JQTimesOut, Answers
  <2>2. Form(expr) = "jq"
    BY <2>1 DEF FoundInv
  <2> QED
    BY <1>3, <1>6, <2>1, <2>2
<1> QED
  BY <1>7, <1>8, <1>9, <1>10, <1>11, <1>12, <1>13, <1>14 DEF Next

\* Whatever the lines, their number and how they are spread over blocks, head,
\* tail, line, grep and full show exactly the lines of the whole they promise,
\* and an error has a reason the code gives (filter.go:55-86,102-165,208-227).
THEOREM FilterAnswerRight == Spec => []AnswerRight
<1>1. Init => FoundInv /\ AnswerRight
  BY FoundInit
<1>2. FoundInv /\ AnswerRight /\ [Next]_vars => FoundInv' /\ AnswerRight'
  BY FoundStep, AnswerStep
<1> QED
  BY <1>1, <1>2, PTL DEF Spec
=============================================================================
