--------------------------- MODULE StatsCountProofs ---------------------------
(***************************************************************************)
(* However many processes share the stats file, it never shows more than   *)
(* was recorded.  A unit that a later flush may still bring to the file is *)
(* in a counter or in the hands of a flush that has not read the file yet; *)
(* what any file holds, or is about to hold, leaves room for all of them.  *)
(***************************************************************************)
EXTENDS StatsProofs, FiniteSetTheorems

\* The units of counter f, one element each: in the counters of the processes,
\* and with the flushes that still swap.
InMem(f) == { u \in Procs \X Nat : u[2] \in 1 .. mem[u[1]][f] }
InHands(f) == { u \in Workers \X Nat : pc[u[1]] = "swapping" /\ u[2] \in 1 .. delta[u[1]][f] }

Held(f) == Cardinality(InMem(f)) + Cardinality(InHands(f))

\* Nobody has n units more than there were, even after all units held are added.
LeavesRoom(n, f) == n + Held(f) <= recorded[f]

\* The totals that flush w is about to put into the file.
Carries(w) == pc[w] \in {"opening", "writing", "renaming"}

CountInv ==
    /\ \A f \in Fields : IsFiniteSet(InMem(f)) /\ IsFiniteSet(InHands(f)) /\ LeavesRoom(0, f)
    /\ \A i \in Inodes, f \in Fields : data[i] \in Totals => LeavesRoom(data[i][f], f)
    /\ \A w \in Workers, f \in Fields : Carries(w) => LeavesRoom(merged[w][f], f)

-----------------------------------------------------------------------------
(* Counting units *)

\* Units of one owner, numbered from 1, are as many as the last number says.
LEMMA UnitsOfOne ==
  ASSUME NEW o, NEW n \in Nat
  PROVE  IsFiniteSet({o} \X (1 .. n)) /\ Cardinality({o} \X (1 .. n)) = n
<1>1. IsFiniteSet({o}) /\ Cardinality({o}) = 1
  BY FS_Singleton
<1>2. IsFiniteSet(1 .. n) /\ Cardinality(1 .. n) = n
  BY FS_Interval
<1>3. Cardinality({o} \X (1 .. n)) = 1 * n
  BY <1>1, <1>2, FS_Product
<1> QED
  BY <1>1, <1>2, <1>3, FS_Product, SMTT(20)

LEMMA HeldType ==
  ASSUME NEW f, IsFiniteSet(InMem(f)), IsFiniteSet(InHands(f))
  PROVE  /\ Cardinality(InMem(f)) \in Nat /\ Cardinality(InHands(f)) \in Nat
         /\ Held(f) \in Nat
BY FS_CardinalityType DEF Held

\* The units held grow no faster than the history.
Keeps(f) ==
    /\ IsFiniteSet(InMem(f))' /\ IsFiniteSet(InHands(f))'
    /\ Held(f)' + recorded[f] <= Held(f) + recorded'[f]

\* Who holds no new unit holds no more units.
LEMMA HeldShrinks ==
  ASSUME CountInv, TypeOK, NEW f \in Fields, recorded' = recorded,
         InMem(f)' \subseteq InMem(f), InHands(f)' \subseteq InHands(f)
  PROVE  Keeps(f)
<1> DEFINE M == InMem(f)'
           H == InHands(f)'
<1>1. IsFiniteSet(InMem(f)) /\ IsFiniteSet(InHands(f)) /\ recorded[f] \in Nat
  BY DEF CountInv, TypeOK, Totals
<1>2. IsFiniteSet(M) /\ Cardinality(M) <= Cardinality(InMem(f)) /\ Cardinality(M) \in Nat
  BY <1>1, FS_Subset, FS_CardinalityType
<1>3. IsFiniteSet(H) /\ Cardinality(H) <= Cardinality(InHands(f)) /\ Cardinality(H) \in Nat
  BY <1>1, FS_Subset, FS_CardinalityType
<1>4. Held(f)' = Cardinality(M) + Cardinality(H)
  BY DEF Held
<1>5. IsFiniteSet(InMem(f))' /\ IsFiniteSet(InHands(f))'
  BY <1>2, <1>3
<1>6. Held(f)' <= Held(f) /\ Held(f) \in Nat /\ Held(f)' \in Nat
  <2> HIDE DEF M, H
  <2> QED
    BY <1>1, <1>2, <1>3, <1>4, HeldType DEF Held
<1> QED
  BY <1>1, <1>5, <1>6 DEF Keeps

\* A flush that swaps nothing new into its hands.
LEMMA HandsShrink ==
  ASSUME CountInv, TypeOK, recorded' = recorded, mem' = mem,
         \A v \in Workers : pc'[v] = "swapping" => pc[v] = "swapping" /\ delta'[v] = delta[v]
  PROVE  \A f \in Fields : Keeps(f)
<1> SUFFICES ASSUME NEW f \in Fields PROVE Keeps(f)
  OBVIOUS
<1>1. InMem(f)' \subseteq InMem(f)
  BY DEF InMem
<1>2. InHands(f)' \subseteq InHands(f)
  BY DEF InHands
<1> QED
  BY <1>1, <1>2, HeldShrinks

\* Nothing that leaves no room gets into a file or into the hands of a flush.
LEMMA RoomKept ==
  ASSUME CountInv, TypeOK, TypeOK',
         \A f \in Fields : Keeps(f),
         \A i \in Inodes : \/ data'[i] = data[i] \/ data'[i] \notin Totals
                           \/ \E w \in Workers : Carries(w) /\ data'[i] = merged[w],
         \A w \in Workers : Carries(w)' => \/ Carries(w) /\ merged'[w] = merged[w]
                                          \/ \A f \in Fields : LeavesRoom(merged[w][f], f)'
  PROVE  CountInv'
<1>1. ASSUME NEW f \in Fields
      PROVE  /\ IsFiniteSet(InMem(f))' /\ IsFiniteSet(InHands(f))'
             /\ Held(f) \in Nat /\ Held(f)' \in Nat
             /\ Held(f)' + recorded[f] <= Held(f) + recorded'[f]
  <2>1. IsFiniteSet(InMem(f))' /\ IsFiniteSet(InHands(f))'
    BY DEF Keeps
  <2>2. Cardinality(InMem(f)') \in Nat /\ Cardinality(InHands(f)') \in Nat
    BY <2>1, FS_CardinalityType
  <2>3. Held(f)' \in Nat
    BY <2>2 DEF Held
  <2> QED
    BY <2>1, <2>3, HeldType DEF CountInv, Keeps
<1>2. ASSUME NEW f \in Fields, NEW n \in Nat, LeavesRoom(n, f)
      PROVE  n + Held(f)' <= recorded'[f]
  <2>1. recorded[f] \in Nat /\ recorded'[f] \in Nat /\ n + Held(f) <= recorded[f]
    BY <1>2 DEF TypeOK, Totals, LeavesRoom
  <2> QED
    BY <1>1, <2>1
<1>3. \A f \in Fields : LeavesRoom(0, f)'
  BY <1>2 DEF CountInv, LeavesRoom
<1>4. ASSUME NEW i \in Inodes, NEW f \in Fields, data'[i] \in Totals PROVE LeavesRoom(data[i][f], f)'
  <2>1. data'[i][f] \in Nat
    BY <1>4 DEF Totals
  <2>2. LeavesRoom(data'[i][f], f)
    <3>1. CASE data'[i] = data[i]
      BY <1>4, <3>1 DEF CountInv
    <3>2. CASE \E w \in Workers : Carries(w) /\ data'[i] = merged[w]
      BY <3>2 DEF CountInv
    <3> QED
      BY <1>4, <3>1, <3>2
  <2>3. data'[i][f] + Held(f)' <= recorded'[f]
    BY <1>2, <2>1, <2>2
  <2> QED
    BY <2>3 DEF LeavesRoom
<1>5. ASSUME NEW w \in Workers, NEW f \in Fields, Carries(w)' PROVE LeavesRoom(merged[w][f], f)'
  <2>1. CASE Carries(w) /\ merged'[w] = merged[w]
    <3>1. merged[w][f] \in Nat
      BY DEF TypeOK, Totals
    <3>2. LeavesRoom(merged[w][f], f)
      BY <2>1 DEF CountInv
    <3>3. merged[w][f] + Held(f)' <= recorded'[f]
      BY <1>2, <3>1, <3>2
    <3> QED
      BY <2>1, <3>3 DEF LeavesRoom
  <2> QED
    BY <1>5, <2>1
<1> QED
  BY <1>1, <1>3, <1>4, <1>5 DEF CountInv

-----------------------------------------------------------------------------
(* Every step *)

LEMMA InitCount == Init => CountInv
<1> SUFFICES ASSUME Init PROVE CountInv
  OBVIOUS
<1>1. ASSUME NEW f \in Fields PROVE InMem(f) = {} /\ InHands(f) = {}
  <2>1. \A p \in Procs : mem[p][f] = 0
    BY ZeroType DEF Init
  <2>2. \A n \in Nat : n \notin 1 .. 0
    OBVIOUS
  <2>3. \A w \in Workers : pc[w] # "swapping"
    BY DEF Init
  <2> QED
    BY <2>1, <2>2, <2>3 DEF InMem, InHands
<1>2. \A f \in Fields : IsFiniteSet(InMem(f)) /\ IsFiniteSet(InHands(f)) /\ LeavesRoom(0, f)
  <2> SUFFICES ASSUME NEW f \in Fields
               PROVE  IsFiniteSet(InMem(f)) /\ IsFiniteSet(InHands(f)) /\ LeavesRoom(0, f)
    OBVIOUS
  <2>1. Cardinality(InMem(f)) = 0 /\ Cardinality(InHands(f)) = 0 /\ recorded[f] = 0
    BY <1>1, FS_EmptySet, ZeroType DEF Init
  <2> QED
    BY <1>1, <2>1, FS_EmptySet DEF LeavesRoom, Held
<1>3. \A i \in Inodes : data[i] \notin Totals
  BY UnreadableAssumption DEF Init
<1>4. \A w \in Workers : ~ Carries(w)
  BY DEF Init, Carries
<1> QED
  BY <1>2, <1>3, <1>4 DEF CountInv

LEMMA RecordCount ==
  ASSUME CountInv, TypeOK, TypeOK', NEW w \in Workers, Record(w)
  PROVE  CountInv'
<1>1. /\ UNCHANGED <<mem, delta, merged, data, recorded>>
      /\ \A v \in Workers : pc'[v] = pc[v] \/ pc'[v] = "adding"
  BY DEF Record, files, history, TypeOK
<1>2. \A f \in Fields : Keeps(f)
  BY <1>1, HandsShrink
<1>3. \A v \in Workers : Carries(v)' => Carries(v) /\ merged'[v] = merged[v]
  BY <1>1 DEF Carries
<1> QED
  BY <1>1, <1>2, <1>3, RoomKept

\* What is added to a counter is added to the history.
LEMMA AddCount ==
  ASSUME CountInv, TypeOK, TypeOK', NEW w \in Workers, Add(w)
  PROVE  CountInv'
<1> DEFINE p == ProcOf[w]
           h == Head(todo[w])
<1>1. p \in Procs /\ h \in Fields /\ mem[p] \in Totals /\ mem[p][h] \in Nat
  <2>1. todo[w] \in Seq(Fields) /\ todo[w] # <<>>
    BY DEF Add, TypeOK
  <2>2. h \in Fields
    BY <2>1, TailLemma
  <2> QED
    BY <2>2, ProcOfAssumption, ZenonT(30) DEF TypeOK, Totals
<1>2. /\ mem' = [mem EXCEPT ![p] = [mem[p] EXCEPT ![h] = @ + 1]]
      /\ recorded' = [recorded EXCEPT ![h] = @ + 1]
      /\ UNCHANGED <<pc, delta, merged, data>>
  BY <1>1 DEF Add, TypeOK, files
<1>3. /\ \A f \in Fields, q \in Procs :
           mem'[q][f] = IF q = p /\ f = h THEN mem[p][h] + 1 ELSE mem[q][f]
      /\ \A f \in Fields : recorded'[f] = IF f = h THEN recorded[h] + 1 ELSE recorded[f]
  BY <1>1, <1>2, ZenonT(30) DEF TypeOK, Totals
<1> HIDE DEF p, h
<1>4. ASSUME NEW f \in Fields PROVE Keeps(f)
  <2>1. /\ IsFiniteSet(InMem(f)) /\ IsFiniteSet(InHands(f)) /\ recorded[f] \in Nat
        /\ InHands(f)' = InHands(f)
    BY <1>2 DEF CountInv, InHands, TypeOK, Totals
  <2>2. InMem(f)' \subseteq InMem(f) \cup {<<p, mem[p][h] + 1>>}
    BY <1>1, <1>3 DEF InMem
  <2>3. f # h => InMem(f)' \subseteq InMem(f)
    BY <1>3 DEF InMem
  <2>4. \A S, T : IsFiniteSet(S) /\ T \subseteq S => IsFiniteSet(T) /\ Cardinality(T) <= Cardinality(S)
    BY FS_Subset
  <2>5. /\ IsFiniteSet(InMem(f) \cup {<<p, mem[p][h] + 1>>})
        /\ Cardinality(InMem(f) \cup {<<p, mem[p][h] + 1>>}) <= Cardinality(InMem(f)) + 1
    <3> DEFINE x == <<p, mem[p][h] + 1>>
    <3> HIDE DEF x
    <3>1. /\ IsFiniteSet(InMem(f) \cup {x})
          /\ Cardinality(InMem(f) \cup {x})
               = IF x \in InMem(f) THEN Cardinality(InMem(f)) ELSE Cardinality(InMem(f)) + 1
      BY <2>1, FS_AddElement
    <3>2. Cardinality(InMem(f)) \in Nat
      BY <2>1, FS_CardinalityType
    <3>3. Cardinality(InMem(f) \cup {x}) <= Cardinality(InMem(f)) + 1
      BY <3>1, <3>2
    <3> QED
      BY <3>1, <3>3 DEF x
  <2>6. IsFiniteSet(InMem(f)') /\ Cardinality(InMem(f)') <= Cardinality(InMem(f)) + 1
    BY <2>1, <2>2, <2>4, <2>5, FS_CardinalityType
  <2>7. f # h => Cardinality(InMem(f)') <= Cardinality(InMem(f))
    BY <2>1, <2>3, <2>4
  <2>8. /\ Cardinality(InMem(f)) \in Nat /\ Cardinality(InMem(f)') \in Nat
        /\ Cardinality(InHands(f)) \in Nat
    BY <2>1, <2>6, FS_CardinalityType
  <2>9. Held(f)' = Cardinality(InMem(f)') + Cardinality(InHands(f))
    BY <2>1 DEF Held
  <2> QED
    BY <1>3, <2>1, <2>6, <2>7, <2>8, <2>9 DEF Keeps, Held
<1>5. \A v \in Workers : Carries(v)' => Carries(v) /\ merged'[v] = merged[v]
  BY <1>2 DEF Carries
<1> QED
  BY <1>2, <1>4, <1>5, RoomKept

\* A worker that begins to flush has nothing in its hands yet.
LEMMA LockCount ==
  ASSUME CountInv, SharedInv, TypeOK', NEW w \in Workers, Lock(w)
  PROVE  CountInv'
<1>1. /\ UNCHANGED <<mem, delta, merged, data, recorded>> /\ TypeOK
      /\ pc[w] = "adding" /\ pc' = [pc EXCEPT ![w] = "swapping"] /\ delta[w] = Zero
  BY DEF Lock, files, history, SharedInv, Hands, Flushing
<1>2. ASSUME NEW f \in Fields PROVE Keeps(f)
  <2>1. InMem(f)' \subseteq InMem(f)
    BY <1>1 DEF InMem
  <2>2. delta'[w][f] = 0 /\ \A n \in Nat : n \notin 1 .. 0
    BY <1>1, ZeroType
  <2>3. InHands(f)' \subseteq InHands(f)
    BY <1>1, <2>2 DEF InHands, TypeOK
  <2> QED
    BY <1>1, <2>1, <2>3, HeldShrinks
<1>3. \A v \in Workers : Carries(v)' => Carries(v) /\ merged'[v] = merged[v]
  BY <1>1 DEF Carries, TypeOK
<1> QED
  BY <1>1, <1>2, <1>3, RoomKept

\* A swap moves all units of one counter into the hands of the flush.
LEMMA SwapCount ==
  ASSUME CountInv, TypeOK, TypeOK', NEW w \in Workers, Swap(w)
  PROVE  CountInv'
<1> DEFINE p == ProcOf[w]
           h == Head(todo[w])
           n == mem[p][h]
           Taken == {p} \X (1 .. n)
           Given == {w} \X (1 .. n)
<1>1. p \in Procs /\ h \in Fields /\ mem[p] \in Totals /\ n \in Nat /\ delta[w] \in Totals
  <2>1. todo[w] \in Seq(Fields) /\ todo[w] # <<>>
    BY DEF Swap, TypeOK
  <2>2. h \in Fields
    BY <2>1, TailLemma
  <2> QED
    BY <2>2, ProcOfAssumption, ZenonT(30) DEF TypeOK, Totals
<1>2. /\ mem' = [mem EXCEPT ![p] = [mem[p] EXCEPT ![h] = 0]]
      /\ delta' = [delta EXCEPT ![w] = [delta[w] EXCEPT ![h] = n]]
      /\ UNCHANGED <<pc, merged, data, recorded>>
  BY <1>1 DEF Swap, TypeOK, files, history
<1>3. /\ \A f \in Fields, q \in Procs : mem'[q][f] = IF q = p /\ f = h THEN 0 ELSE mem[q][f]
      /\ \A f \in Fields, v \in Workers :
           delta'[v][f] = IF v = w /\ f = h THEN n ELSE delta[v][f]
  BY <1>1, <1>2, ZenonT(30) DEF TypeOK, Totals
<1>4. /\ IsFiniteSet(Taken) /\ Cardinality(Taken) = n
      /\ IsFiniteSet(Given) /\ Cardinality(Given) = n
  BY <1>1, UnitsOfOne
<1>5. ASSUME NEW f \in Fields, f # h PROVE Keeps(f)
  <2>1. InMem(f)' \subseteq InMem(f)
    BY <1>3, <1>5 DEF InMem
  <2>2. InHands(f)' \subseteq InHands(f)
    BY <1>2, <1>3, <1>5 DEF InHands
  <2> QED
    BY <1>2, <2>1, <2>2, HeldShrinks
<1> HIDE DEF p, h, n, Taken, Given
<1>6. ASSUME NEW f \in Fields, f = h PROVE Keeps(f)
  <2>9. Taken \subseteq InMem(f)
    BY <1>1, <1>6 DEF InMem, Taken, n
  <2>10. InMem(f)' \subseteq InMem(f) \ Taken
    <3>1. \A k \in Nat : k \notin 1 .. 0
      OBVIOUS
    <3>2. \A u \in InMem(f)' : u \in InMem(f) /\ u[1] # p
      BY <1>1, <1>3, <1>6, <3>1 DEF InMem
    <3>3. \A u \in Taken : u[1] = p
      BY DEF Taken
    <3> QED
      BY <3>2, <3>3
  <2>11. InHands(f)' \subseteq InHands(f) \cup Given
    <3>1. ASSUME NEW v \in Workers, NEW k \in Nat, <<v, k>> \in InHands(f)', <<v, k>> \notin InHands(f)
          PROVE  <<v, k>> \in Given
      BY <1>1, <1>2, <1>3, <1>6, <3>1 DEF InHands, Given
    <3> QED
      BY <3>1 DEF InHands
  <2>1. IsFiniteSet(InMem(f)) /\ IsFiniteSet(InHands(f)) /\ recorded[f] \in Nat
    BY <1>1 DEF CountInv, TypeOK, Totals
  <2>2. /\ IsFiniteSet(InMem(f) \ Taken)
        /\ Cardinality(InMem(f) \ Taken) = Cardinality(InMem(f)) - n
    <3>1. InMem(f) \cap Taken = Taken
      BY <2>9
    <3>2. /\ IsFiniteSet(InMem(f) \ Taken)
          /\ Cardinality(InMem(f) \ Taken) = Cardinality(InMem(f)) - Cardinality(InMem(f) \cap Taken)
      BY <2>1, FS_Difference
    <3> QED
      BY <1>4, <3>1, <3>2
  <2>3. /\ IsFiniteSet(InHands(f) \cup Given)
        /\ Cardinality(InHands(f) \cup Given) <= Cardinality(InHands(f)) + n
    <3>1. /\ IsFiniteSet(InHands(f) \cup Given)
          /\ Cardinality(InHands(f) \cup Given)
               = Cardinality(InHands(f)) + Cardinality(Given) - Cardinality(InHands(f) \cap Given)
      BY <1>4, <2>1, FS_Union
    <3>2. Cardinality(InHands(f) \cap Given) \in Nat
      BY <2>1, FS_Intersection, FS_CardinalityType
    <3>3. Cardinality(InHands(f)) \in Nat
      BY <2>1, FS_CardinalityType
    <3> QED
      BY <1>1, <1>4, <3>1, <3>2, <3>3
  <2>4. \A S, T : IsFiniteSet(S) /\ T \subseteq S =>
              IsFiniteSet(T) /\ Cardinality(T) <= Cardinality(S) /\ Cardinality(T) \in Nat
    BY FS_Subset, FS_CardinalityType
  <2>5. /\ IsFiniteSet(InMem(f)') /\ Cardinality(InMem(f)') <= Cardinality(InMem(f)) - n
        /\ IsFiniteSet(InHands(f)') /\ Cardinality(InHands(f)') <= Cardinality(InHands(f)) + n
        /\ Cardinality(InMem(f)') \in Nat /\ Cardinality(InHands(f)') \in Nat
    <3>1. /\ IsFiniteSet(InMem(f)') /\ Cardinality(InMem(f)') \in Nat
          /\ Cardinality(InMem(f)') <= Cardinality(InMem(f) \ Taken)
      BY <2>10, <2>2, <2>4
    <3>2. /\ IsFiniteSet(InHands(f)') /\ Cardinality(InHands(f)') \in Nat
          /\ Cardinality(InHands(f)') <= Cardinality(InHands(f) \cup Given)
      BY <2>11, <2>3, <2>4
    <3>3. Cardinality(InHands(f) \cup Given) \in Nat /\ Cardinality(InHands(f)) \in Nat
      BY <2>1, <2>3, FS_CardinalityType
    <3> QED
      BY <1>1, <2>2, <2>3, <3>1, <3>2, <3>3
  <2>6. Cardinality(InMem(f)) \in Nat /\ Cardinality(InHands(f)) \in Nat
    BY <2>1, FS_CardinalityType
  <2>7. Held(f)' = Cardinality(InMem(f)') + Cardinality(InHands(f)')
    BY DEF Held
  <2>8. Held(f)' <= Held(f)
    BY <1>1, <2>5, <2>6, <2>7 DEF Held
  <2> QED
    BY <1>2, <2>1, <2>5, <2>6, <2>7, <2>8 DEF Keeps, Held
<1>7. \A v \in Workers : Carries(v)' => Carries(v) /\ merged'[v] = merged[v]
  BY <1>2 DEF Carries
<1> QED
  BY <1>2, <1>5, <1>6, <1>7, RoomKept

\* What readTotals returns leaves room, failed or not.
LEMMA ReadLeavesRoom ==
  ASSUME CountInv, TypeOK, NEW existing \in {Zero, ReadTotals}, NEW f \in Fields
  PROVE  existing[f] \in Nat /\ LeavesRoom(existing[f], f)
<1>1. CASE existing = Zero \/ path = NoFile \/ data[path] \notin Totals
  <2>1. existing[f] = 0
    BY <1>1, ZeroType DEF ReadTotals
  <2> QED
    BY <2>1 DEF CountInv
<1>2. CASE existing = ReadTotals /\ path # NoFile /\ data[path] \in Totals
  <2>1. path \in Inodes /\ existing = data[path]
    BY <1>2 DEF ReadTotals, TypeOK
  <2> QED
    BY <1>2, <2>1 DEF CountInv, Totals
<1> QED
  BY <1>1, <1>2

\* A flush that has read the file takes its units out of the room they needed.
LEMMA MergeCount ==
  ASSUME CountInv, TypeOK, TypeOK', NEW w \in Workers, Merge(w) \/ MergeBlind(w)
  PROVE  CountInv'
<1>0. PICK existing \in {Zero, ReadTotals} : MergeWith(w, existing)
  BY DEF Merge, MergeBlind
<1>1. /\ UNCHANGED <<mem, delta, data, recorded>>
      /\ pc[w] = "swapping" /\ pc' = [pc EXCEPT ![w] = "opening"]
      /\ merged' = [merged EXCEPT ![w] = Plus(existing, delta[w])]
  BY <1>0 DEF MergeWith, Swapped, files
<1>2. \A f \in Fields : Keeps(f)
  <2>1. \A v \in Workers : pc'[v] = "swapping" => pc[v] = "swapping" /\ delta'[v] = delta[v]
    BY <1>1 DEF TypeOK
  <2> QED
    BY <1>1, <2>1, HandsShrink
<1>3. ASSUME NEW f \in Fields PROVE LeavesRoom(merged[w][f], f)'
  <2> DEFINE Used == {w} \X (1 .. delta[w][f])
             M == InMem(f)
             H == InHands(f)
             L == InHands(f)'
  <2>1. /\ IsFiniteSet(M) /\ IsFiniteSet(H)
        /\ Cardinality(M) \in Nat /\ Cardinality(H) \in Nat
        /\ recorded[f] \in Nat /\ delta[w][f] \in Nat
    BY HeldType DEF CountInv, TypeOK, Totals
  <2>2. M' = M
    BY <1>1 DEF InMem
  <2>3. Used \subseteq H /\ L \subseteq H \ Used
    <3>1. Used \subseteq H
      BY <1>1 DEF InHands
    <3>2. ASSUME NEW v \in Workers, NEW k \in Nat, <<v, k>> \in L
          PROVE  <<v, k>> \in H /\ v # w
      BY <1>1, <3>2 DEF InHands, TypeOK
    <3> QED
      BY <3>1, <3>2 DEF InHands
  <2>4. IsFiniteSet(Used) /\ Cardinality(Used) = delta[w][f]
    BY <2>1, UnitsOfOne
  <2> HIDE DEF M, H, L, Used
  <2>5. IsFiniteSet(H \ Used) /\ Cardinality(H \ Used) = Cardinality(H) - delta[w][f]
    <3>1. H \cap Used = Used
      BY <2>3
    <3>2. IsFiniteSet(H \ Used) /\ Cardinality(H \ Used) = Cardinality(H) - Cardinality(H \cap Used)
      BY <2>1, FS_Difference
    <3> QED
      BY <2>4, <3>1, <3>2
  <2>6. Cardinality(L) \in Nat /\ Cardinality(L) <= Cardinality(H) - delta[w][f]
    <3>1. IsFiniteSet(L) /\ Cardinality(L) <= Cardinality(H \ Used)
      BY <2>3, <2>5, FS_Subset
    <3>2. Cardinality(L) \in Nat
      BY <3>1, FS_CardinalityType
    <3> QED
      BY <2>5, <3>1, <3>2
  <2>7. existing[f] \in Nat /\ existing[f] + (Cardinality(M) + Cardinality(H)) <= recorded[f]
    BY ReadLeavesRoom DEF LeavesRoom, Held, M, H
  <2>8. merged'[w][f] = existing[f] + delta[w][f]
    BY <1>1, ReadType, ZeroType, PlusType DEF TypeOK
  <2>9. Held(f)' = Cardinality(M) + Cardinality(L)
    BY <2>2 DEF Held, M, L
  <2>10. merged'[w][f] + Held(f)' <= recorded[f]
    BY <2>1, <2>6, <2>7, <2>8, <2>9
  <2> QED
    BY <1>1, <2>10 DEF LeavesRoom
<1>4. \A v \in Workers : Carries(v)' => \/ Carries(v) /\ merged'[v] = merged[v]
                                        \/ \A f \in Fields : LeavesRoom(merged[v][f], f)'
  <2>1. ASSUME NEW v \in Workers, v # w, Carries(v)' PROVE Carries(v) /\ merged'[v] = merged[v]
    BY <1>1, <2>1 DEF Carries, TypeOK
  <2> QED
    BY <1>3, <2>1
<1> QED
  BY <1>1, <1>2, <1>4, RoomKept

\* The rest of a flush, done or failed, puts nothing but what it merged into a
\* file, the text it tears included: that one nobody can read.
LEMMA FlushStepCount ==
  ASSUME CountInv, TypeOK, TypeOK', NEW w \in Workers, FlushStep(w), ~ Merge(w), ~ MergeBlind(w)
  PROVE  CountInv'
<1>1. mem' = mem /\ recorded' = recorded
  BY FlushStepShape DEF FlushStep, Open, Write, NothingToFlush, Rename, RenameFindsNothing,
     SyscallFails, GiveUp, history
<1>2. \A f \in Fields : Keeps(f)
  <2>1. \A v \in Workers : pc'[v] = "swapping" => pc[v] = "swapping" /\ delta'[v] = delta[v]
    BY FlushStepShape
  <2> QED
    BY <1>1, <2>1, HandsShrink
<1>3. \A v \in Workers : Carries(v)' => Carries(v) /\ merged'[v] = merged[v]
  <2>1. CASE Open(w) \/ Write(w)
    BY <2>1 DEF Open, Write, Carries, TypeOK
  <2>2. CASE NothingToFlush(w) \/ Rename(w) \/ RenameFindsNothing(w) \/ SyscallFails(w)
    <3>1. pc[w] \in Flushing /\ Return(w)
      BY <2>2 DEF NothingToFlush, Rename, RenameFindsNothing, SyscallFails, GiveUp, Swapped, Flushing
    <3> QED
      BY <3>1, ReturnTypes DEF Carries
  <2> QED
    BY <2>1, <2>2 DEF FlushStep
<1>4. \A i \in Inodes : \/ data'[i] = data[i] \/ data'[i] \notin Totals
                        \/ \E v \in Workers : Carries(v) /\ data'[i] = merged[v]
  <2>1. CASE Open(w)
    <3>1. PICK j : data' = [data EXCEPT ![j] = Empty]
      BY <2>1 DEF Open
    <3> QED
      BY <3>1, UnreadableAssumption DEF TypeOK
  <2>2. CASE Write(w)
    <3>1. Carries(w)
      BY <2>2 DEF Write, Carries
    <3>2. PICK text \in {merged[w], Torn} : data' = [data EXCEPT ![fd[w]] = text]
      BY <2>2 DEF Write
    <3> QED
      BY <3>1, <3>2, UnreadableAssumption DEF TypeOK
  <2>3. CASE NothingToFlush(w) \/ Rename(w) \/ RenameFindsNothing(w)
    BY <2>3 DEF NothingToFlush, Rename, RenameFindsNothing, files
  <2>4. CASE SyscallFails(w)
    <3>1. \/ data' = data
          \/ \E text \in {data[fd[w]], Torn} : data' = [data EXCEPT ![fd[w]] = text]
      BY <2>4 DEF SyscallFails
    <3> QED
      BY <3>1, UnreadableAssumption DEF TypeOK
  <2> QED
    BY <2>1, <2>2, <2>3, <2>4 DEF FlushStep
<1> QED
  BY <1>2, <1>3, <1>4, RoomKept

LEMMA CrashCount ==
  ASSUME CountInv, TypeOK, TypeOK', NEW p \in Procs, Crash(p)
  PROVE  CountInv'
<1>1. /\ UNCHANGED <<data, recorded>>
      /\ \A v \in Workers : \/ pc'[v] = "idle"
                            \/ pc'[v] = pc[v] /\ delta'[v] = delta[v] /\ merged'[v] = merged[v]
      /\ \A q \in Procs : mem'[q] = Zero \/ mem'[q] = mem[q]
  BY DEF Crash, files, TypeOK
<1>2. ASSUME NEW f \in Fields PROVE Keeps(f)
  <2>1. InMem(f)' \subseteq InMem(f)
    <3>1. \A n \in Nat : n \notin 1 .. 0
      OBVIOUS
    <3> QED
      BY <1>1, <3>1, ZeroType DEF InMem
  <2>2. InHands(f)' \subseteq InHands(f)
    BY <1>1 DEF InHands
  <2> QED
    BY <1>1, <2>1, <2>2, HeldShrinks
<1>3. \A v \in Workers : Carries(v)' => Carries(v) /\ merged'[v] = merged[v]
  BY <1>1 DEF Carries
<1> QED
  BY <1>1, <1>2, <1>3, RoomKept

-----------------------------------------------------------------------------
(* The theorem *)

LEMMA CountStep == SharedInv /\ CountInv /\ [Next]_vars => CountInv'
<1> SUFFICES ASSUME SharedInv, CountInv, [Next]_vars PROVE CountInv'
  OBVIOUS
<1>1. TypeOK /\ TypeOK'
  BY TypeStep DEF SharedInv
<1>2. CASE UNCHANGED vars
  BY <1>2 DEF vars, files, history, CountInv, LeavesRoom, Held, InMem, InHands, Carries
<1>3. ASSUME NEW w \in Workers, Record(w) \/ Add(w) \/ Lock(w) \/ Swap(w) \/ FlushStep(w)
      PROVE  CountInv'
  BY <1>1, <1>3, RecordCount, AddCount, LockCount, SwapCount, MergeCount, FlushStepCount
<1>4. ASSUME NEW p \in Procs, Crash(p) PROVE CountInv'
  BY <1>1, <1>4, CrashCount
<1> QED
  BY <1>2, <1>3, <1>4, StepCases

\* Any number of processes flush into one file, crash, fail and tear each
\* other's text: what a reader finds was recorded, every unit of it.
THEOREM StatsNeverOvercounts == Spec => []NeverOvercounts
<1>1. SharedInv /\ CountInv => NeverOvercounts
  <2> SUFFICES ASSUME SharedInv, CountInv, NEW f \in Fields
               PROVE  ReadTotals[f] <= recorded[f]
    BY DEF NeverOvercounts
  <2>1. TypeOK /\ recorded[f] \in Nat
    BY DEF SharedInv, TypeOK, Totals
  <2>2. CASE path = NoFile \/ data[path] \notin Totals
    BY <2>1, <2>2, ZeroType DEF ReadTotals
  <2>3. CASE path # NoFile /\ data[path] \in Totals
    <3>1. path \in Inodes /\ ReadTotals = data[path] /\ data[path][f] \in Nat
      BY <2>1, <2>3 DEF ReadTotals, TypeOK, Totals
    <3>2. LeavesRoom(data[path][f], f) /\ Held(f) \in Nat
      BY <2>3, <3>1, HeldType DEF CountInv
    <3> QED
      BY <2>1, <3>1, <3>2 DEF LeavesRoom
  <2> QED
    BY <2>2, <2>3
<1> QED
  BY <1>1, InitCount, CountStep, StatsShared, PTL DEF Spec
=============================================================================
