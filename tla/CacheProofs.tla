---------------------------- MODULE CacheProofs ----------------------------
(***************************************************************************)
(* Proofs about Cache for any set of ids, contents, callers, any sizes and *)
(* any budget.  First what the list operations do to a sequence, then what *)
(* they do to the count of bytes, then the inductive invariant.            *)
(***************************************************************************)
EXTENDS Cache, SequenceTheorems, FiniteSetTheorems, TLAPS

\* Pushing an element to the front of a list shifts the others by one.
LEMMA ConsLemma ==
  ASSUME NEW S, NEW e \in S, NEW s \in Seq(S)
  PROVE  /\ Cons(e, s) \in Seq(S)
         /\ Len(Cons(e, s)) = Len(s) + 1
         /\ DOMAIN Cons(e, s) = 1 .. (Len(s) + 1)
         /\ Cons(e, s)[1] = e
         /\ \A i \in 1 .. Len(s) : Cons(e, s)[i + 1] = s[i]
  BY DEF Cons

\* Dropping the back of a list leaves the other elements in place.
LEMMA FrontLemma ==
  ASSUME NEW S, NEW s \in Seq(S), s # <<>>
  PROVE  /\ Front(s) \in Seq(S)
         /\ Len(s) \in Nat \ {0}
         /\ Len(Front(s)) = Len(s) - 1
         /\ DOMAIN Front(s) = 1 .. (Len(s) - 1)
         /\ \A i \in 1 .. (Len(s) - 1) : Front(s)[i] = s[i]
<1> PICK n : n = Len(s) - 1
  OBVIOUS
<1>1. n \in Nat /\ Len(s) \in Nat \ {0}
  OBVIOUS
<1>2. SubSeq(s, 1, n) \in Seq(S) /\ Len(SubSeq(s, 1, n)) = n
  BY <1>1
<1>3. DOMAIN SubSeq(s, 1, n) = 1 .. n /\ \A i \in 1 .. n : SubSeq(s, 1, n)[i] = s[i]
  BY <1>1
<1> QED
  BY <1>1, <1>2, <1>3 DEF Front

\* Moving the i-th element to the front shifts the ones before it by one and
\* leaves the ones behind it in place.
LEMMA MoveToFrontLemma ==
  ASSUME NEW S, NEW s \in Seq(S), NEW i \in 1 .. Len(s)
  PROVE  /\ MoveToFront(s, i) \in Seq(S)
         /\ Len(MoveToFront(s, i)) = Len(s)
         /\ DOMAIN MoveToFront(s, i) = 1 .. Len(s)
         /\ MoveToFront(s, i)[1] = s[i]
         /\ \A j \in 2 .. i : MoveToFront(s, i)[j] = s[j - 1]
         /\ \A j \in (i + 1) .. Len(s) : MoveToFront(s, i)[j] = s[j]
<1> DEFINE front == SubSeq(s, 1, i - 1)
           back  == SubSeq(s, i + 1, Len(s))
           rest  == front \o back
           moved == Cons(s[i], rest)
<1>1. /\ Len(s) \in Nat
      /\ i \in Int
      /\ \A j \in 1 .. Len(s) : s[j] \in S
      /\ s[i] \in S
  BY LenProperties, ElementOfSeq
<1>2. /\ front \in Seq(S)
      /\ Len(front) = IF 1 <= i - 1 THEN (i - 1) - 1 + 1 ELSE 0
      /\ \A j \in 1 .. ((i - 1) - 1 + 1) : front[j] = s[1 + j - 1]
  BY <1>1, SubSeqProperties, SMT
<1>3. /\ back \in Seq(S)
      /\ Len(back) = IF i + 1 <= Len(s) THEN Len(s) - (i + 1) + 1 ELSE 0
      /\ \A j \in 1 .. (Len(s) - (i + 1) + 1) : back[j] = s[(i + 1) + j - 1]
  BY <1>1, SubSeqProperties, SMT
<1> HIDE DEF front, back
<1>4. /\ rest \in Seq(S)
      /\ Len(rest) = Len(front) + Len(back)
      /\ \A j \in 1 .. (Len(front) + Len(back)) :
           rest[j] = IF j <= Len(front) THEN front[j] ELSE back[j - Len(front)]
  BY <1>2, <1>3, ConcatProperties
<1>5. MoveToFront(s, i) = moved
  BY DEF MoveToFront, RemoveAt, front, back
<1> HIDE DEF rest
<1>6. /\ moved \in Seq(S)
      /\ Len(moved) = Len(rest) + 1
      /\ DOMAIN moved = 1 .. (Len(rest) + 1)
      /\ moved[1] = s[i]
      /\ \A j \in 1 .. Len(rest) : moved[j + 1] = rest[j]
  <2> DEFINE e == s[i]
  <2>1. e \in S /\ rest \in Seq(S)
    BY <1>1, <1>4
  <2> HIDE DEF e
  <2>2. /\ Cons(e, rest) \in Seq(S)
        /\ Len(Cons(e, rest)) = Len(rest) + 1
        /\ DOMAIN Cons(e, rest) = 1 .. (Len(rest) + 1)
        /\ Cons(e, rest)[1] = e
        /\ \A j \in 1 .. Len(rest) : Cons(e, rest)[j + 1] = rest[j]
    BY <2>1, ConsLemma
  <2> QED
    BY <2>2 DEF e
<1> HIDE DEF moved
<1>7. Len(front) = i - 1 /\ Len(back) = Len(s) - i
  BY <1>1, <1>2, <1>3
<1>8. Len(rest) = Len(s) - 1
  BY <1>1, <1>4, <1>7
<1>9. ASSUME NEW j \in 2 .. Len(s)
      PROVE  moved[j] = IF j <= i THEN s[j - 1] ELSE s[j]
  <2>1. j - 1 \in 1 .. Len(rest) /\ (j - 1) + 1 = j
    BY <1>1, <1>8
  <2>2. moved[j] = rest[j - 1]
    BY <1>6, <2>1
  <2>3. j - 1 \in 1 .. (Len(front) + Len(back))
    BY <1>4, <2>1
  <2>4. CASE j <= i
    <3>1. /\ j - 1 <= Len(front)
          /\ j - 1 \in 1 .. ((i - 1) - 1 + 1)
          /\ 1 + (j - 1) - 1 = j - 1
      BY <1>1, <1>7, <2>4
    <3>2. rest[j - 1] = front[j - 1]
      BY <1>4, <2>3, <3>1
    <3>3. front[j - 1] = s[j - 1]
      BY <1>2, <3>1
    <3> QED
      BY <2>2, <2>4, <3>2, <3>3
  <2>5. CASE ~ (j <= i)
    <3>1. /\ ~ (j - 1 <= Len(front))
          /\ j - i \in 1 .. (Len(s) - (i + 1) + 1)
          /\ (j - 1) - Len(front) = j - i
          /\ (i + 1) + (j - i) - 1 = j
      BY <1>1, <1>7, <2>5
    <3>2. rest[j - 1] = back[(j - 1) - Len(front)]
      BY <1>4, <2>3, <3>1
    <3>3. back[j - i] = s[(i + 1) + (j - i) - 1]
      BY <1>3, <3>1
    <3> QED
      BY <2>2, <2>5, <3>1, <3>2, <3>3
  <2> QED
    BY <2>4, <2>5
<1>10. DOMAIN moved = 1 .. Len(s) /\ Len(moved) = Len(s)
  BY <1>1, <1>6, <1>8
<1>11. /\ \A j \in 2 .. i : moved[j] = s[j - 1]
       /\ \A j \in (i + 1) .. Len(s) : moved[j] = s[j]
  BY <1>1, <1>9
<1> QED
  BY <1>5, <1>6, <1>10, <1>11

-----------------------------------------------------------------------------
(* Counting bytes *)

\* BytesOf for an arbitrary assignment f of contents to ids.
Units(S, f) == UNION { {id} \X (1 .. Size[f[id]]) : id \in S }

\* A further id adds the bytes of its content to the count.
LEMMA UnitsAdd ==
  ASSUME NEW S, NEW f, NEW id, id \notin S, f[id] \in Contents, IsFiniteSet(Units(S, f))
  PROVE  /\ IsFiniteSet(Units(S \cup {id}, f))
         /\ Cardinality(Units(S \cup {id}, f)) = Cardinality(Units(S, f)) + Size[f[id]]
<1> PICK k : k = Size[f[id]]
  OBVIOUS
<1> DEFINE new == {id} \X (1 .. k)
<1>1. k \in Nat
  BY SizeAssumption
<1>2. IsFiniteSet(1 .. k) /\ Cardinality(1 .. k) = k
  <2>1. 1 \in Int /\ k \in Int
    BY <1>1
  <2>2. /\ IsFiniteSet(1 .. k)
        /\ Cardinality(1 .. k) = IF 1 > k THEN 0 ELSE k - 1 + 1
    BY <2>1, FS_Interval, Zenon
  <2> QED
    BY <1>1, <2>2
<1>3. IsFiniteSet({id}) /\ Cardinality({id}) = 1
  BY FS_Singleton
<1>4. IsFiniteSet(new) /\ Cardinality(new) = k
  <2>1. IsFiniteSet(new) /\ Cardinality(new) = Cardinality({id}) * Cardinality(1 .. k)
    BY <1>2, <1>3, FS_Product, Zenon
  <2> QED
    BY <1>1, <1>2, <1>3, <2>1
<1>5. Units(S \cup {id}, f) = Units(S, f) \cup new
  <2>1. { {i} \X (1 .. Size[f[i]]) : i \in S \cup {id} }
          = { {i} \X (1 .. Size[f[i]]) : i \in S } \cup { {id} \X (1 .. Size[f[id]]) }
    OBVIOUS
  <2> QED
    BY <2>1 DEF Units
<1>6. Units(S, f) \cap new = {}
  <2> SUFFICES ASSUME NEW u \in Units(S, f), u \in new
               PROVE  FALSE
    OBVIOUS
  <2>1. PICK i \in S : u \in {i} \X (1 .. Size[f[i]])
    BY DEF Units
  <2> QED
    BY <2>1
<1>7. Cardinality(Units(S, f)) \in Nat
  BY FS_CardinalityType
<1>8. Cardinality({}) = 0
  BY FS_EmptySet
<1> HIDE DEF new
<1>9. /\ IsFiniteSet(Units(S, f) \cup new)
      /\ Cardinality(Units(S, f) \cup new) =
           Cardinality(Units(S, f)) + Cardinality(new) - Cardinality(Units(S, f) \cap new)
  BY <1>4, FS_Union
<1>10. Cardinality(Units(S, f) \cup new) = Cardinality(Units(S, f)) + k
  <2>1. Cardinality(Units(S, f) \cap new) = 0
    BY <1>6, <1>8
  <2> QED
    BY <1>1, <1>4, <1>7, <1>9, <2>1
<1> QED
  BY <1>5, <1>9, <1>10

\* Taking an id out takes the bytes of its content out.
LEMMA UnitsRemove ==
  ASSUME NEW S, NEW f, NEW id \in S, f[id] \in Contents, IsFiniteSet(Units(S, f))
  PROVE  /\ IsFiniteSet(Units(S \ {id}, f))
         /\ Cardinality(Units(S, f)) = Cardinality(Units(S \ {id}, f)) + Size[f[id]]
<1>1. Units(S \ {id}, f) \in SUBSET Units(S, f)
  BY DEF Units
<1>2. IsFiniteSet(Units(S \ {id}, f))
  BY <1>1, FS_Subset
<1>3. (S \ {id}) \cup {id} = S
  OBVIOUS
<1>4. Cardinality(Units((S \ {id}) \cup {id}, f)) = Cardinality(Units(S \ {id}, f)) + Size[f[id]]
  <2>1. PICK T : T = S \ {id}
    OBVIOUS
  <2>2. id \notin T /\ IsFiniteSet(Units(T, f))
    BY <1>2, <2>1
  <2>3. Cardinality(Units(T \cup {id}, f)) = Cardinality(Units(T, f)) + Size[f[id]]
    BY <2>2, UnitsAdd
  <2> QED
    BY <2>1, <2>3
<1> QED
  BY <1>2, <1>3, <1>4

\* The count depends on the contents of the counted ids only.
LEMMA UnitsSame ==
  ASSUME NEW S, NEW f, NEW g, \A id \in S : f[id] = g[id]
  PROVE  Units(S, f) = Units(S, g)
  BY DEF Units

-----------------------------------------------------------------------------
(* The inductive invariant *)

\* A Store in progress holds an id that nothing else holds, and the mutex is
\* held by exactly the Store that is in the critical section.
PendingStores ==
    /\ \A w \in Callers : pc[w] # "idle" =>
         /\ call[w] \in Entry
         /\ call[w].id \in DOMAIN stored \ DOMAIN items
         /\ stored[call[w].id] = call[w].content
    /\ \A v, w \in Callers :
         pc[v] # "idle" /\ pc[w] # "idle" /\ call[v].id = call[w].id => v = w
    /\ \A w \in Callers : pc[w] = "making_room" <=> mu = w

\* There is a number of bytes in the cache at all.
BytesCounted == IsFiniteSet(BytesOf(DOMAIN items))

\* TypeOK needs BytesExact (the counter stays above zero because it counts
\* something), BytesExact needs IndexConsistent (what is subtracted was added),
\* and IndexConsistent needs PendingStores (an id goes in once).
IInv ==
    /\ TypeOK
    /\ IndexConsistent
    /\ PendingStores
    /\ BytesCounted
    /\ BytesExact
    /\ LRUOrder
    /\ WithinBudget

-----------------------------------------------------------------------------
(* What each action does to the list *)

\* The list and its length as the provers use them.
LEMMA ListDomain ==
  ASSUME lru \in Seq(Entry)
  PROVE  /\ Len(lru) \in Nat
         /\ DOMAIN lru = 1 .. Len(lru)
         /\ \A i \in DOMAIN lru : lru[i] \in Entry
  BY LenProperties, ElementOfSeq

\* Insert puts the new entry at the front and shifts the others.
LEMMA InsertList ==
  ASSUME IInv, NEW w \in Callers, Insert(w)
  PROVE  /\ call[w] \in Entry
         /\ lru' \in Seq(Entry)
         /\ Len(lru') = Len(lru) + 1
         /\ DOMAIN lru' = 1 .. (Len(lru) + 1)
         /\ lru'[1] = call[w]
         /\ \A i \in DOMAIN lru : i + 1 \in DOMAIN lru' /\ lru'[i + 1] = lru[i]
         /\ \A i \in DOMAIN lru' : i # 1 => i - 1 \in DOMAIN lru /\ lru'[i] = lru[i - 1]
<1>1. call[w] \in Entry /\ lru \in Seq(Entry)
  BY DEF IInv, PendingStores, Insert, TypeOK
<1>2. PICK l : l = lru'
  OBVIOUS
<1>3. PICK e \in Entry : e = call[w]
  BY <1>1
<1>4. /\ l \in Seq(Entry)
      /\ Len(l) = Len(lru) + 1
      /\ DOMAIN l = 1 .. (Len(lru) + 1)
      /\ l[1] = e
      /\ \A i \in 1 .. Len(lru) : l[i + 1] = lru[i]
  <2>1. /\ Cons(e, lru) \in Seq(Entry)
        /\ Len(Cons(e, lru)) = Len(lru) + 1
        /\ DOMAIN Cons(e, lru) = 1 .. (Len(lru) + 1)
        /\ Cons(e, lru)[1] = e
        /\ \A i \in 1 .. Len(lru) : Cons(e, lru)[i + 1] = lru[i]
    BY <1>1, ConsLemma
  <2>2. l = Cons(e, lru)
    BY <1>2, <1>3 DEF Insert
  <2> QED
    BY <2>1, <2>2
<1>5. Len(lru) \in Nat /\ DOMAIN lru = 1 .. Len(lru)
  BY <1>1, ListDomain
<1>6. \A i \in DOMAIN lru : i + 1 \in DOMAIN l /\ l[i + 1] = lru[i]
  BY <1>4, <1>5
<1>7. ASSUME NEW i \in DOMAIN l, i # 1
      PROVE  i - 1 \in DOMAIN lru /\ l[i] = lru[i - 1]
  <2>1. i - 1 \in 1 .. Len(lru) /\ (i - 1) + 1 = i
    BY <1>4, <1>5, <1>7
  <2> QED
    BY <1>4, <1>5, <2>1
<1> QED
  BY <1>1, <1>2, <1>3, <1>4, <1>6, <1>7

\* An eviction in Store's loop takes the back of a nonempty list.
LEMMA EvictList ==
  ASSUME IInv, NEW w \in Callers, Evict(w)
  PROVE  /\ Len(lru) \in Nat \ {0}
         /\ DOMAIN lru = 1 .. Len(lru)
         /\ Last(lru) = lru[Len(lru)]
         /\ Last(lru) \in Entry
         /\ lru' \in Seq(Entry)
         /\ Len(lru') = Len(lru) - 1
         /\ DOMAIN lru' = 1 .. (Len(lru) - 1)
         /\ \A i \in DOMAIN lru' : i \in DOMAIN lru /\ i # Len(lru) /\ lru'[i] = lru[i]
         /\ \A i \in DOMAIN lru : i # Len(lru) => i \in DOMAIN lru'
         /\ items' = [i \in DOMAIN items \ {Last(lru).id} |-> items[i]]
         /\ curBytes' = curBytes - Size[Last(lru).content]
<1>1. lru \in Seq(Entry)
  BY DEF IInv, TypeOK
<1>2. Len(lru) \in Nat /\ DOMAIN lru = 1 .. Len(lru) /\ \A i \in DOMAIN lru : lru[i] \in Entry
  BY <1>1, ListDomain
<1>3. Len(lru) > 0
  BY DEF Evict, NeedsRoom
<1>4. lru # <<>>
  BY <1>1, <1>3, EmptySeq
<1>5. /\ lru' = Front(lru)
      /\ items' = [i \in DOMAIN items \ {Last(lru).id} |-> items[i]]
      /\ curBytes' = curBytes - Size[Last(lru).content]
  BY <1>4 DEF Evict, EvictOldest
<1>6. PICK l : l = lru'
  OBVIOUS
<1>7. /\ l \in Seq(Entry)
      /\ Len(l) = Len(lru) - 1
      /\ DOMAIN l = 1 .. (Len(lru) - 1)
      /\ \A i \in 1 .. (Len(lru) - 1) : l[i] = lru[i]
  BY <1>1, <1>4, <1>5, <1>6, FrontLemma
<1>8. Last(lru) = lru[Len(lru)] /\ Last(lru) \in Entry
  BY <1>2, <1>3 DEF Last
<1>9. \A i \in DOMAIN l : i \in DOMAIN lru /\ i # Len(lru) /\ l[i] = lru[i]
  BY <1>2, <1>7
<1>10. \A i \in DOMAIN lru : i # Len(lru) => i \in DOMAIN l
  BY <1>2, <1>7
<1>11. Len(lru) \in Nat \ {0}
  BY <1>2, <1>3
<1> QED
  BY <1>2, <1>5, <1>6, <1>7, <1>8, <1>9, <1>10, <1>11

\* A hit moves one entry to the front and keeps the others in order.
LEMMA HitList ==
  ASSUME IInv, NEW w \in Callers, NEW id \in Ids, GetHit(w, id)
  PROVE  \E k \in DOMAIN lru :
           /\ lru[k] = items[id]
           /\ lru' \in Seq(Entry)
           /\ Len(lru') = Len(lru)
           /\ DOMAIN lru' = DOMAIN lru
           /\ DOMAIN lru = 1 .. Len(lru)
           /\ Len(lru) \in Nat
           /\ lru'[1] = lru[k]
           /\ \A j \in 2 .. k : lru'[j] = lru[j - 1]
           /\ \A j \in (k + 1) .. Len(lru) : lru'[j] = lru[j]
<1>1. lru \in Seq(Entry)
  BY DEF IInv, TypeOK
<1>2. PICK k \in DOMAIN lru : lru[k] = items[id] /\ lru' = MoveToFront(lru, k)
  BY DEF GetHit
<1>3. Len(lru) \in Nat /\ DOMAIN lru = 1 .. Len(lru)
  BY <1>1, ListDomain
<1>4. PICK l : l = lru'
  OBVIOUS
<1>5. /\ l \in Seq(Entry)
      /\ Len(l) = Len(lru)
      /\ DOMAIN l = 1 .. Len(lru)
      /\ l[1] = lru[k]
      /\ \A j \in 2 .. k : l[j] = lru[j - 1]
      /\ \A j \in (k + 1) .. Len(lru) : l[j] = lru[j]
  <2>1. k \in 1 .. Len(lru) /\ l = MoveToFront(lru, k)
    BY <1>2, <1>3, <1>4
  <2> QED
    BY <1>1, <2>1, MoveToFrontLemma
<1> QED
  BY <1>2, <1>3, <1>4, <1>5

-----------------------------------------------------------------------------
(* Every step preserves the invariant, one part of it at a time *)

\* The steps that leave list, map and counter alone.
Elsewhere(w) ==
    \/ \E c \in Contents : DrawId(w, c)
    \/ Lock(w)
    \/ \E id \in Ids : GetMiss(w, id)

\* A step of the specification is one of these.
LEMMA StepCases ==
  ASSUME [Next]_vars
  PROVE  \/ UNCHANGED vars
         \/ \E w \in Callers : \/ Elsewhere(w) \/ Evict(w) \/ Insert(w)
                              \/ \E id \in Ids : GetHit(w, id)
  BY Zenon DEF Next, StoreStep, Elsewhere

\* A step elsewhere keeps list, map and counter, and what ids were drawn for.
LEMMA ElsewhereFrame ==
  ASSUME IInv, NEW w \in Callers, Elsewhere(w)
  PROVE  /\ UNCHANGED <<lru, items, curBytes, since>>
         /\ DOMAIN stored \subseteq DOMAIN stored'
         /\ \A id \in DOMAIN stored : stored'[id] = stored[id]
<1>1. CASE \E c \in Contents : DrawId(w, c)
  <2>1. PICK id \in FreshIds, c \in Contents :
           /\ stored' = [i \in DOMAIN stored \cup {id} |-> IF i = id THEN c ELSE stored[i]]
           /\ UNCHANGED <<lru, items, curBytes, since>>
    BY <1>1 DEF DrawId
  <2> QED
    BY <2>1 DEF FreshIds
<1>2. CASE Lock(w)
  BY <1>2 DEF Lock
<1>3. CASE \E id \in Ids : GetMiss(w, id)
  BY <1>3 DEF GetMiss
<1> QED
  BY <1>1, <1>2, <1>3 DEF Elsewhere

\* Map and list stay in agreement.
LEMMA IndexStep ==
  ASSUME IInv, [Next]_vars
  PROVE  IndexConsistent'
<1>0. lru \in Seq(Entry) /\ IndexConsistent
  BY DEF IInv, TypeOK
<1>1. CASE UNCHANGED vars
  BY <1>0, <1>1 DEF vars, IndexConsistent
<1>2. ASSUME NEW w \in Callers, Elsewhere(w)
      PROVE  IndexConsistent'
  <2>1. lru' = lru /\ items' = items
    BY <1>2, ElsewhereFrame
  <2>2. \A id \in DOMAIN stored : id \in DOMAIN stored' /\ stored'[id] = stored[id]
    BY <1>2, ElsewhereFrame
  <2> QED
    BY <1>0, <2>1, <2>2 DEF IndexConsistent
<1>3. ASSUME NEW w \in Callers, Evict(w)
      PROVE  IndexConsistent'
  <2>0. PICK n : n = Len(lru)
    OBVIOUS
  <2>1. /\ n \in DOMAIN lru
        /\ Last(lru) = lru[n]
        /\ \A i \in DOMAIN lru' : i \in DOMAIN lru /\ i # n /\ lru'[i] = lru[i]
        /\ \A i \in DOMAIN lru : i # n => i \in DOMAIN lru'
        /\ items' = [i \in DOMAIN items \ {lru[n].id} |-> items[i]]
    <3>1. /\ n \in Nat \ {0}
          /\ DOMAIN lru = 1 .. n
          /\ Last(lru) = lru[n]
          /\ items' = [i \in DOMAIN items \ {Last(lru).id} |-> items[i]]
      BY <1>3, <2>0, EvictList
    <3>2. /\ \A i \in DOMAIN lru' : i \in DOMAIN lru /\ i # n /\ lru'[i] = lru[i]
          /\ \A i \in DOMAIN lru : i # n => i \in DOMAIN lru'
      BY <1>3, <2>0, EvictList
    <3> QED
      BY <3>1, <3>2
  <2>2. stored' = stored
    BY <1>3 DEF Evict
  <2>3. \A i \in DOMAIN lru' : lru'[i].id # lru[n].id
    BY <1>0, <2>1 DEF IndexConsistent
  <2>4. DOMAIN items' = DOMAIN items \ {lru[n].id}
    BY <2>1
  <2>5. DOMAIN items' = { lru'[i].id : i \in DOMAIN lru' }
    BY <1>0, <2>1, <2>3, <2>4 DEF IndexConsistent
  <2>6. \A i \in DOMAIN lru' : items'[lru'[i].id] = lru'[i]
    BY <1>0, <2>1, <2>3, <2>4 DEF IndexConsistent
  <2>7. \A i, j \in DOMAIN lru' : lru'[i].id = lru'[j].id => i = j
    BY <1>0, <2>1 DEF IndexConsistent
  <2>8. \A id \in DOMAIN items' : id \in DOMAIN stored /\ items'[id].content = stored[id]
    BY <1>0, <2>1, <2>4 DEF IndexConsistent
  <2> QED
    BY <2>2, <2>5, <2>6, <2>7, <2>8 DEF IndexConsistent
<1>4. ASSUME NEW w \in Callers, Insert(w)
      PROVE  IndexConsistent'
  <2> DEFINE e == call[w]
  <2>1. /\ 1 \in DOMAIN lru' /\ lru'[1] = e
        /\ \A i \in DOMAIN lru : i + 1 \in DOMAIN lru' /\ i + 1 # 1 /\ lru'[i + 1] = lru[i]
        /\ \A i \in DOMAIN lru' : i # 1 => i - 1 \in DOMAIN lru /\ lru'[i] = lru[i - 1]
        /\ \A i \in DOMAIN lru' : i \in Int
    BY <1>0, <1>4, InsertList, ListDomain
  <2>2. /\ e.id \in DOMAIN stored \ DOMAIN items
        /\ stored[e.id] = e.content
    BY <1>4 DEF IInv, PendingStores, Insert
  <2>3. /\ items' = [i \in DOMAIN items \cup {e.id} |-> IF i = e.id THEN e ELSE items[i]]
        /\ stored' = stored
    BY <1>4 DEF Insert
  <2> HIDE DEF e
  <2>4. DOMAIN items' = DOMAIN items \cup {e.id}
    BY <2>3
  <2>5. \A i \in DOMAIN lru : lru[i].id # e.id
    BY <1>0, <2>2 DEF IndexConsistent
  <2>6. DOMAIN items' = { lru'[i].id : i \in DOMAIN lru' }
    <3>1. \A id \in DOMAIN items' : \E i \in DOMAIN lru' : id = lru'[i].id
      BY <1>0, <2>1, <2>4 DEF IndexConsistent
    <3>2. \A i \in DOMAIN lru' : lru'[i].id \in DOMAIN items'
      BY <1>0, <2>1, <2>4 DEF IndexConsistent
    <3> QED
      BY <3>1, <3>2
  <2>7. \A i \in DOMAIN lru' : items'[lru'[i].id] = lru'[i]
    BY <1>0, <2>1, <2>3, <2>5 DEF IndexConsistent
  <2>8. \A i, j \in DOMAIN lru' : lru'[i].id = lru'[j].id => i = j
    <3> SUFFICES ASSUME NEW i \in DOMAIN lru', NEW j \in DOMAIN lru', lru'[i].id = lru'[j].id
                 PROVE  i = j
      OBVIOUS
    <3>1. CASE i = 1 \/ j = 1
      BY <2>1, <2>5, <3>1
    <3>2. CASE i # 1 /\ j # 1
      <4>1. lru[i - 1].id = lru[j - 1].id
        BY <2>1, <3>2
      <4>2. i - 1 = j - 1
        BY <1>0, <2>1, <3>2, <4>1 DEF IndexConsistent
      <4> QED
        BY <2>1, <4>2
    <3> QED
      BY <3>1, <3>2
  <2>9. \A id \in DOMAIN items' : id \in DOMAIN stored /\ items'[id].content = stored[id]
    BY <1>0, <2>2, <2>3, <2>4 DEF IndexConsistent
  <2> QED
    BY <2>3, <2>6, <2>7, <2>8, <2>9 DEF IndexConsistent
<1>5. ASSUME NEW w \in Callers, NEW id \in Ids, GetHit(w, id)
      PROVE  IndexConsistent'
  <2>1. PICK k \in DOMAIN lru :
           /\ DOMAIN lru' = DOMAIN lru
           /\ DOMAIN lru = 1 .. Len(lru)
           /\ Len(lru) \in Nat
           /\ lru'[1] = lru[k]
           /\ \A j \in 2 .. k : lru'[j] = lru[j - 1]
           /\ \A j \in (k + 1) .. Len(lru) : lru'[j] = lru[j]
    BY <1>5, HitList
  <2>2. items' = items /\ stored' = stored
    BY <1>5 DEF GetHit
  \* Where the entry at position j of the new list comes from.
  <2> DEFINE from(j) == IF j = 1 THEN k ELSE IF j <= k THEN j - 1 ELSE j
             to(i) == IF i = k THEN 1 ELSE IF i < k THEN i + 1 ELSE i
  <2>3. \A j \in DOMAIN lru : from(j) \in DOMAIN lru /\ lru'[j] = lru[from(j)]
    BY <2>1
  <2>4. \A i \in DOMAIN lru : to(i) \in DOMAIN lru /\ from(to(i)) = i
    BY <2>1
  <2>5. \A i, j \in DOMAIN lru : from(i) = from(j) => i = j
    BY <2>1
  <2> HIDE DEF from, to
  <2>6. DOMAIN items = { lru'[j].id : j \in DOMAIN lru' }
    <3>1. ASSUME NEW i \in DOMAIN lru
          PROVE  \E j \in DOMAIN lru' : lru'[j].id = lru[i].id
      <4>1. to(i) \in DOMAIN lru' /\ lru'[to(i)] = lru[i]
        BY <2>1, <2>3, <2>4
      <4> QED
        BY <4>1
    <3>2. \A j \in DOMAIN lru' : \E i \in DOMAIN lru : lru'[j].id = lru[i].id
      BY <2>1, <2>3
    <3> QED
      BY <1>0, <3>1, <3>2, SMTT(20) DEF IndexConsistent
  <2>7. \A j \in DOMAIN lru' : items[lru'[j].id] = lru'[j]
    BY <1>0, <2>1, <2>3 DEF IndexConsistent
  <2>8. \A i, j \in DOMAIN lru' : lru'[i].id = lru'[j].id => i = j
    BY <1>0, <2>1, <2>3, <2>5 DEF IndexConsistent
  <2> QED
    BY <1>0, <2>2, <2>6, <2>7, <2>8 DEF IndexConsistent
<1> QED
  BY <1>1, <1>2, <1>3, <1>4, <1>5, StepCases

\* Stores in progress keep to themselves.
LEMMA PendingStep ==
  ASSUME IInv, [Next]_vars
  PROVE  PendingStores'
<1>0. /\ TypeOK /\ PendingStores
      /\ DOMAIN items \subseteq DOMAIN stored
  BY DEF IInv, IndexConsistent
<1>1. CASE UNCHANGED vars
  BY <1>0, <1>1 DEF vars, PendingStores
<1>2. ASSUME NEW w \in Callers, NEW c \in Contents, DrawId(w, c)
      PROVE  PendingStores'
  <2>1. PICK id \in Ids \ DOMAIN stored :
           /\ call' = [call EXCEPT ![w] = [id |-> id, content |-> c]]
           /\ stored' = [i \in DOMAIN stored \cup {id} |-> IF i = id THEN c ELSE stored[i]]
    BY <1>2 DEF DrawId, FreshIds
  <2>2. /\ pc[w] = "idle" /\ pc' = [pc EXCEPT ![w] = "locking"]
        /\ mu' = mu /\ items' = items
    BY <1>2 DEF DrawId
  <2>3. /\ pc'[w] = "locking" /\ call'[w] = [id |-> id, content |-> c]
        /\ \A v \in Callers \ {w} : pc'[v] = pc[v] /\ call'[v] = call[v]
    BY <1>0, <2>1, <2>2 DEF TypeOK
  <2>4. /\ DOMAIN stored' = DOMAIN stored \cup {id}
        /\ stored'[id] = c
        /\ \A i \in DOMAIN stored : stored'[i] = stored[i]
    BY <2>1
  <2>5. \A v \in Callers : pc'[v] # "idle" =>
           /\ call'[v] \in Entry
           /\ call'[v].id \in DOMAIN stored' \ DOMAIN items'
           /\ stored'[call'[v].id] = call'[v].content
    BY <1>0, <2>1, <2>2, <2>3, <2>4 DEF PendingStores, Entry
  <2>6. \A v \in Callers \ {w} : pc[v] # "idle" => call'[v].id # id
    BY <1>0, <2>1, <2>3 DEF PendingStores
  <2>7. \A u, v \in Callers :
          pc'[u] # "idle" /\ pc'[v] # "idle" /\ call'[u].id = call'[v].id => u = v
    BY <1>0, <2>3, <2>6 DEF PendingStores
  <2>8. \A v \in Callers : pc'[v] = "making_room" <=> mu' = v
    BY <1>0, <2>2, <2>3 DEF PendingStores
  <2> QED
    BY <2>5, <2>7, <2>8 DEF PendingStores
<1>3. ASSUME NEW w \in Callers, Lock(w)
      PROVE  PendingStores'
  <2>1. /\ pc'[w] = "making_room" /\ pc[w] = "locking"
        /\ \A v \in Callers \ {w} : pc'[v] = pc[v]
        /\ mu = NoCaller /\ mu' = w
        /\ items' = items /\ call' = call /\ stored' = stored
    BY <1>0, <1>3 DEF Lock, TypeOK
  <2>2. \A v \in Callers : pc'[v] # "idle" => pc[v] # "idle"
    BY <2>1
  <2>3. \A v \in Callers : pc'[v] = "making_room" <=> mu' = v
    BY <1>0, <2>1, NoCallerAssumption DEF PendingStores
  <2> QED
    BY <1>0, <2>1, <2>2, <2>3 DEF PendingStores
<1>4. ASSUME NEW w \in Callers, NEW id \in Ids, GetMiss(w, id) \/ GetHit(w, id)
      PROVE  PendingStores'
  <2>1. UNCHANGED <<items, mu, pc, call, stored>>
    BY <1>4 DEF GetMiss, GetHit
  <2> QED
    BY <1>0, <2>1 DEF PendingStores
<1>5. ASSUME NEW w \in Callers, Evict(w)
      PROVE  PendingStores'
  <2>1. UNCHANGED <<mu, pc, call, stored>> /\ DOMAIN items' \subseteq DOMAIN items
    BY <1>5, EvictList DEF Evict
  <2> QED
    BY <1>0, <2>1 DEF PendingStores
<1>6. ASSUME NEW w \in Callers, Insert(w)
      PROVE  PendingStores'
  <2>1. /\ pc[w] = "making_room" /\ pc'[w] = "idle"
        /\ \A v \in Callers \ {w} : pc'[v] = pc[v]
        /\ mu' = NoCaller /\ call' = call /\ stored' = stored
        /\ DOMAIN items' = DOMAIN items \cup {call[w].id}
    BY <1>0, <1>6 DEF Insert, TypeOK
  <2>2. \A v \in Callers : pc'[v] # "idle" => v # w /\ pc[v] # "idle"
    BY <2>1
  <2>3. \A v \in Callers : pc'[v] # "idle" => call[v].id # call[w].id
    BY <1>0, <2>1, <2>2 DEF PendingStores
  <2>4. \A v \in Callers : pc'[v] = "making_room" <=> mu' = v
    BY <1>0, <2>1, NoCallerAssumption DEF PendingStores
  <2> QED
    BY <1>0, <2>1, <2>2, <2>3, <2>4 DEF PendingStores
<1> QED
  BY <1>1, <1>2, <1>3, <1>4, <1>5, <1>6, StepCases DEF Elsewhere

\* The counter follows every insertion and every eviction.
LEMMA BytesStep ==
  ASSUME IInv, [Next]_vars
  PROVE  BytesCounted' /\ BytesExact'
<1>0. /\ IndexConsistent
      /\ IsFiniteSet(Units(DOMAIN items, stored))
      /\ curBytes = Cardinality(Units(DOMAIN items, stored))
      /\ \A id \in DOMAIN stored : stored[id] \in Contents
      /\ curBytes \in Nat
  BY DEF IInv, BytesCounted, BytesExact, BytesOf, Units, TypeOK
<1>a. SUFFICES /\ IsFiniteSet(Units(DOMAIN items', stored'))
               /\ curBytes' = Cardinality(Units(DOMAIN items', stored'))
  BY DEF BytesCounted, BytesExact, BytesOf, Units
<1>1. CASE UNCHANGED <<items, stored, curBytes>>
  BY <1>0, <1>1
<1>2. ASSUME NEW w \in Callers, Elsewhere(w)
      PROVE  /\ IsFiniteSet(Units(DOMAIN items', stored'))
             /\ curBytes' = Cardinality(Units(DOMAIN items', stored'))
  <2>1. items' = items /\ curBytes' = curBytes
    BY <1>2, ElsewhereFrame
  <2>2. \A id \in DOMAIN items : stored[id] = stored'[id]
    BY <1>0, <1>2, ElsewhereFrame DEF IndexConsistent
  <2>3. Units(DOMAIN items, stored) = Units(DOMAIN items, stored')
    BY <2>2, UnitsSame
  <2> QED
    BY <1>0, <2>1, <2>3
<1>3. ASSUME NEW w \in Callers, Evict(w)
      PROVE  /\ IsFiniteSet(Units(DOMAIN items', stored'))
             /\ curBytes' = Cardinality(Units(DOMAIN items', stored'))
  <2>1. PICK e : e = Last(lru)
    OBVIOUS
  <2>2. /\ e.id \in DOMAIN items
        /\ items[e.id] = e
        /\ items' = [i \in DOMAIN items \ {e.id} |-> items[i]]
        /\ curBytes' = curBytes - Size[e.content]
    <3>1. Len(lru) \in DOMAIN lru /\ e = lru[Len(lru)]
      BY <1>3, <2>1, EvictList
    <3>2. /\ items' = [i \in DOMAIN items \ {e.id} |-> items[i]]
          /\ curBytes' = curBytes - Size[e.content]
      BY <1>3, <2>1, EvictList
    <3> QED
      BY <1>0, <3>1, <3>2 DEF IndexConsistent
  <2>3. stored[e.id] = e.content /\ e.id \in DOMAIN stored
    BY <1>0, <2>2 DEF IndexConsistent
  <2>4. stored' = stored /\ DOMAIN items' = DOMAIN items \ {e.id}
    BY <1>3, <2>2 DEF Evict
  <2>5. stored[e.id] \in Contents
    BY <1>0, <2>3
  <2>6. /\ IsFiniteSet(Units(DOMAIN items \ {e.id}, stored))
        /\ Cardinality(Units(DOMAIN items, stored)) =
             Cardinality(Units(DOMAIN items \ {e.id}, stored)) + Size[stored[e.id]]
    BY <1>0, <2>2, <2>5, UnitsRemove
  <2>7. Cardinality(Units(DOMAIN items \ {e.id}, stored)) \in Nat /\ Size[e.content] \in Nat
    BY <2>3, <2>5, <2>6, FS_CardinalityType, SizeAssumption
  <2>8. curBytes' = Cardinality(Units(DOMAIN items \ {e.id}, stored))
    BY <1>0, <2>2, <2>3, <2>6, <2>7
  <2> QED
    BY <2>4, <2>6, <2>8
<1>4. ASSUME NEW w \in Callers, Insert(w)
      PROVE  /\ IsFiniteSet(Units(DOMAIN items', stored'))
             /\ curBytes' = Cardinality(Units(DOMAIN items', stored'))
  <2>1. PICK e : e = call[w]
    OBVIOUS
  <2>2. /\ e.id \in DOMAIN stored \ DOMAIN items
        /\ stored[e.id] = e.content
    BY <1>4, <2>1 DEF IInv, PendingStores, Insert
  <2>3. /\ DOMAIN items' = DOMAIN items \cup {e.id}
        /\ stored' = stored
        /\ curBytes' = curBytes + Size[e.content]
    BY <1>4, <2>1 DEF Insert
  <2>4. stored[e.id] \in Contents /\ e.id \notin DOMAIN items
    BY <1>0, <2>2
  <2>5. /\ IsFiniteSet(Units(DOMAIN items \cup {e.id}, stored))
        /\ Cardinality(Units(DOMAIN items \cup {e.id}, stored)) =
             Cardinality(Units(DOMAIN items, stored)) + Size[stored[e.id]]
    BY <1>0, <2>4, UnitsAdd
  <2> QED
    BY <1>0, <2>2, <2>3, <2>5
<1>5. ASSUME NEW w \in Callers, NEW id \in Ids, GetHit(w, id)
      PROVE  UNCHANGED <<items, stored, curBytes>>
  BY <1>5 DEF GetHit
<1> QED
  BY <1>1, <1>2, <1>3, <1>4, <1>5, StepCases DEF vars

\* Types, the byte counter's being the one that needs the rest of IInv.
LEMMA TypeStep ==
  ASSUME IInv, [Next]_vars, IndexConsistent', BytesCounted', BytesExact'
  PROVE  TypeOK'
<1>0. TypeOK
  BY DEF IInv
<1>1. curBytes' \in Nat
  BY FS_CardinalityType DEF BytesCounted, BytesExact
<1>2. CASE UNCHANGED vars
  BY <1>0, <1>2 DEF vars, TypeOK
<1>3. ASSUME NEW w \in Callers, NEW c \in Contents, DrawId(w, c)
      PROVE  TypeOK'
  <2>1. PICK id \in Ids \ DOMAIN stored :
           /\ call' = [call EXCEPT ![w] = [id |-> id, content |-> c]]
           /\ stored' = [i \in DOMAIN stored \cup {id} |-> IF i = id THEN c ELSE stored[i]]
    BY <1>3 DEF DrawId, FreshIds
  <2>2. [id |-> id, content |-> c] \in Entry
    BY DEF Entry
  <2>3. call' \in [Callers -> Entry \cup {NoAnswer}]
    BY <1>0, <2>1, <2>2 DEF TypeOK
  <2>4. DOMAIN stored' \subseteq Ids /\ \A i \in DOMAIN stored' : stored'[i] \in Contents
    BY <1>0, <2>1 DEF TypeOK
  <2>5. pc' \in [Callers -> {"idle", "locking", "making_room"}]
    BY <1>0, <1>3 DEF DrawId, TypeOK
  <2> QED
    BY <1>0, <1>1, <1>3, <2>3, <2>4, <2>5 DEF DrawId, TypeOK
<1>4. ASSUME NEW w \in Callers, Lock(w)
      PROVE  TypeOK'
  BY <1>0, <1>1, <1>4 DEF Lock, TypeOK
<1>5. ASSUME NEW w \in Callers, NEW id \in Ids, GetMiss(w, id)
      PROVE  TypeOK'
  <2>1. [id |-> id, content |-> NoContent] \in [id : Ids, content : Contents \cup {NoContent}]
    OBVIOUS
  <2>2. ret' \in [Callers -> [id : Ids, content : Contents \cup {NoContent}] \cup {NoAnswer}]
    BY <1>0, <1>5, <2>1 DEF GetMiss, TypeOK
  <2> QED
    BY <1>0, <1>1, <1>5, <2>2 DEF GetMiss, TypeOK
<1>6. ASSUME NEW w \in Callers, Evict(w)
      PROVE  TypeOK'
  <2>1. lru' \in Seq(Entry)
    BY <1>6, EvictList
  <2>2. DOMAIN items' \subseteq DOMAIN items /\ \A i \in DOMAIN items' : items'[i] = items[i]
    BY <1>6, EvictList
  <2>3. DOMAIN items' \subseteq Ids /\ \A i \in DOMAIN items' : items'[i] \in Entry
    BY <1>0, <2>2 DEF TypeOK
  <2> QED
    BY <1>0, <1>1, <1>6, <2>1, <2>3 DEF Evict, TypeOK
<1>7. \A id \in Ids : Used(id) \in [Ids -> SUBSET Ids]
  BY <1>0 DEF Used, TypeOK
<1>8. ASSUME NEW w \in Callers, Insert(w)
      PROVE  TypeOK'
  <2>1. lru' \in Seq(Entry) /\ call[w] \in Entry
    BY <1>8, InsertList
  <2>2. call[w].id \in Ids
    BY <2>1 DEF Entry
  <2>3. DOMAIN items' \subseteq Ids /\ \A i \in DOMAIN items' : items'[i] \in Entry
    BY <1>0, <1>8, <2>1, <2>2 DEF Insert, TypeOK
  <2>4. since' \in [Ids -> SUBSET Ids]
    BY <1>7, <1>8, <2>2 DEF Insert
  <2>5. pc' \in [Callers -> {"idle", "locking", "making_room"}]
    BY <1>0, <1>8 DEF Insert, TypeOK
  <2> QED
    BY <1>0, <1>1, <1>8, <2>1, <2>3, <2>4, <2>5 DEF Insert, TypeOK
<1>9. ASSUME NEW w \in Callers, NEW id \in Ids, GetHit(w, id)
      PROVE  TypeOK'
  <2>1. lru' \in Seq(Entry)
    BY <1>9, HitList
  <2>2. items[id] \in [id : Ids, content : Contents \cup {NoContent}]
    BY <1>0, <1>9 DEF GetHit, TypeOK, Entry
  <2>3. ret' \in [Callers -> [id : Ids, content : Contents \cup {NoContent}] \cup {NoAnswer}]
    BY <1>0, <1>9, <2>2 DEF GetHit, TypeOK
  <2>4. since' \in [Ids -> SUBSET Ids]
    BY <1>7, <1>9 DEF GetHit
  <2> QED
    BY <1>0, <1>1, <1>9, <2>1, <2>3, <2>4 DEF GetHit, TypeOK
<1> QED
  BY <1>2, <1>3, <1>4, <1>5, <1>6, <1>8, <1>9, StepCases DEF Elsewhere

\* The list stays in order of use.
LEMMA OrderStep ==
  ASSUME IInv, [Next]_vars
  PROVE  LRUOrder'
<1>0. /\ LRUOrder /\ IndexConsistent
      /\ Len(lru) \in Nat
      /\ DOMAIN lru = 1 .. Len(lru)
      /\ \A i \in DOMAIN lru : lru[i].id \in Ids
  BY ListDomain DEF IInv, TypeOK, Entry
<1>1. CASE UNCHANGED <<lru, since>>
  BY <1>0, <1>1 DEF LRUOrder
<1>2. ASSUME NEW w \in Callers, Evict(w)
      PROVE  LRUOrder'
  <2>1. /\ DOMAIN lru' = 1 .. (Len(lru) - 1)
        /\ \A i \in DOMAIN lru' : i \in DOMAIN lru /\ lru'[i] = lru[i]
    BY <1>2, EvictList
  <2>2. since' = since
    BY <1>2 DEF Evict
  <2>3. ASSUME NEW i \in DOMAIN lru'
        PROVE  since[lru'[i].id] = { lru'[j].id : j \in 1 .. (i - 1) }
    <3>1. since[lru[i].id] = { lru[j].id : j \in 1 .. (i - 1) } /\ lru'[i] = lru[i]
      BY <1>0, <2>1 DEF LRUOrder
    <3>2. \A j \in 1 .. (i - 1) : lru'[j] = lru[j]
      BY <1>0, <2>1
    <3> QED
      BY <3>1, <3>2
  <2> QED
    BY <2>2, <2>3 DEF LRUOrder
<1>3. ASSUME NEW w \in Callers, Insert(w)
      PROVE  LRUOrder'
  <2>1. PICK e \in Entry : e = call[w]
    BY <1>3, InsertList
  <2>2. /\ DOMAIN lru' = 1 .. (Len(lru) + 1)
        /\ lru'[1] = e
        /\ \A i \in DOMAIN lru : i + 1 \in DOMAIN lru' /\ lru'[i + 1] = lru[i]
        /\ \A i \in DOMAIN lru' : i # 1 => i - 1 \in DOMAIN lru /\ lru'[i] = lru[i - 1]
    BY <1>3, <2>1, InsertList
  <2>3. /\ \A i \in DOMAIN lru : lru[i].id # e.id
        /\ e.id \in Ids
    BY <1>0, <1>3, <2>1 DEF IInv, PendingStores, Insert, IndexConsistent, Entry
  <2>4. since' = [i \in Ids |-> IF i = e.id THEN {} ELSE since[i] \cup {e.id}]
    BY <1>3, <2>1 DEF Insert, Used
  <2>5. ASSUME NEW i \in DOMAIN lru'
        PROVE  since'[lru'[i].id] = { lru'[j].id : j \in 1 .. (i - 1) }
    <3>1. CASE i = 1
      BY <2>2, <2>3, <2>4, <3>1
    <3>2. CASE i # 1
      <4>1. i - 1 \in DOMAIN lru /\ lru'[i] = lru[i - 1] /\ i \in Int
        BY <1>0, <2>2, <3>2
      <4>2. since'[lru'[i].id] = { lru[j].id : j \in 1 .. (i - 2) } \cup {e.id}
        <5>1. since[lru[i - 1].id] = { lru[j].id : j \in 1 .. ((i - 1) - 1) }
          BY <1>0, <4>1 DEF LRUOrder
        <5>2. (i - 1) - 1 = i - 2
          BY <4>1
        <5> QED
          BY <1>0, <2>3, <2>4, <4>1, <5>1, <5>2
      <4>3. ASSUME NEW j \in 1 .. (i - 2)
            PROVE  j + 1 \in 1 .. (i - 1) /\ lru'[j + 1] = lru[j]
        <5>1. j \in DOMAIN lru /\ j + 1 \in 1 .. (i - 1)
          BY <1>0, <4>1
        <5> QED
          BY <2>2, <5>1
      <4>4. \A j \in 1 .. (i - 1) : j # 1 => j - 1 \in 1 .. (i - 2) /\ lru'[j] = lru[j - 1]
        BY <1>0, <2>2, <4>1
      <4>5. 1 \in 1 .. (i - 1)
        BY <1>0, <4>1
      <4> QED
        BY <2>2, <4>2, <4>3, <4>4, <4>5
    <3> QED
      BY <3>1, <3>2
  <2> QED
    BY <2>5 DEF LRUOrder
<1>4. ASSUME NEW w \in Callers, NEW id \in Ids, GetHit(w, id)
      PROVE  LRUOrder'
  <2>1. PICK k \in DOMAIN lru :
           /\ lru[k] = items[id]
           /\ DOMAIN lru' = DOMAIN lru
           /\ lru'[1] = lru[k]
           /\ \A j \in 2 .. k : lru'[j] = lru[j - 1]
           /\ \A j \in (k + 1) .. Len(lru) : lru'[j] = lru[j]
    BY <1>4, HitList
  <2>2. since' = [i \in Ids |-> IF i = id THEN {} ELSE since[i] \cup {id}]
    BY <1>4 DEF GetHit, Used
  <2>3. lru[k].id = id /\ \A i \in DOMAIN lru : i # k => lru[i].id # id
    <3>1. id \in DOMAIN items
      BY <1>4 DEF GetHit
    <3>2. PICK i \in DOMAIN lru : lru[i].id = id
      BY <1>0, <3>1 DEF IndexConsistent
    <3>3. items[id] = lru[i]
      BY <1>0, <3>2 DEF IndexConsistent
    <3> QED
      BY <1>0, <2>1, <3>2, <3>3 DEF IndexConsistent
  <2>4. ASSUME NEW i \in DOMAIN lru'
        PROVE  since'[lru'[i].id] = { lru'[j].id : j \in 1 .. (i - 1) }
    <3>0. i \in 1 .. Len(lru) /\ k \in 1 .. Len(lru)
      BY <1>0, <2>1
    <3>1. CASE i = 1
      BY <2>1, <2>2, <2>3, <3>1
    <3>2. CASE i # 1 /\ i <= k
      <4>1. i - 1 \in DOMAIN lru /\ i - 1 # k /\ lru'[i] = lru[i - 1]
        BY <1>0, <2>1, <3>0, <3>2
      <4>2. since[lru[i - 1].id] = { lru[j].id : j \in 1 .. (i - 2) }
        <5>1. since[lru[i - 1].id] = { lru[j].id : j \in 1 .. ((i - 1) - 1) }
          BY <1>0, <4>1 DEF LRUOrder
        <5>2. (i - 1) - 1 = i - 2
          BY <3>0
        <5> QED
          BY <5>1, <5>2
      <4>3. since'[lru'[i].id] = { lru[j].id : j \in 1 .. (i - 2) } \cup {id}
        BY <1>0, <2>2, <2>3, <4>1, <4>2
      <4>4. \A j \in 1 .. (i - 2) : j + 1 \in 1 .. (i - 1) /\ lru'[j + 1] = lru[j]
        BY <1>0, <2>1, <3>0, <3>2, SMTT(20)
      <4>5. \A j \in 1 .. (i - 1) : j # 1 => j - 1 \in 1 .. (i - 2) /\ lru'[j] = lru[j - 1]
        BY <1>0, <2>1, <3>0, <3>2
      <4>6. 1 \in 1 .. (i - 1) /\ lru'[1].id = id
        BY <1>0, <2>1, <2>3, <3>0, <3>2
      <4>7. \A x \in since'[lru'[i].id] : \E j \in 1 .. (i - 1) : lru'[j].id = x
        BY <4>3, <4>4, <4>6
      <4>8. \A j \in 1 .. (i - 1) : lru'[j].id \in since'[lru'[i].id]
        BY <4>3, <4>5, <4>6
      <4> QED
        BY <4>7, <4>8
    <3>3. CASE i > k
      <4>1. i \in DOMAIN lru /\ lru'[i] = lru[i] /\ i # k
        BY <1>0, <2>1, <3>0, <3>3
      <4>2. since[lru[i].id] = { lru[j].id : j \in 1 .. (i - 1) }
        BY <1>0, <4>1 DEF LRUOrder
      <4>3. since'[lru'[i].id] = { lru[j].id : j \in 1 .. (i - 1) } \cup {id}
        BY <1>0, <2>2, <2>3, <4>1, <4>2
      \* The first i - 1 positions hold the same entries before and after.
      <4>4. ASSUME NEW j \in 1 .. (i - 1)
            PROVE  \E m \in 1 .. (i - 1) : lru'[m] = lru[j]
        <5>1. CASE j = k
          BY <2>1, <3>0, <3>3, <5>1
        <5>2. CASE j < k
          <6>1. j + 1 \in 2 .. k /\ j + 1 \in 1 .. (i - 1) /\ (j + 1) - 1 = j
            BY <3>0, <3>3, <5>2
          <6> QED
            BY <2>1, <6>1
        <5>3. CASE j > k
          BY <2>1, <3>0, <3>3, <5>3
        <5> QED
          BY <3>0, <5>1, <5>2, <5>3
      <4>5. ASSUME NEW j \in 1 .. (i - 1)
            PROVE  \E m \in 1 .. (i - 1) : lru[m] = lru'[j]
        <5>1. CASE j = 1
          BY <2>1, <3>0, <3>3, <5>1
        <5>2. CASE j # 1 /\ j <= k
          BY <2>1, <3>0, <3>3, <5>2
        <5>3. CASE j > k
          BY <2>1, <3>0, <3>3, <5>3
        <5> QED
          BY <3>0, <5>1, <5>2, <5>3
      <4>6. k \in 1 .. (i - 1) /\ lru[k].id = id
        BY <2>3, <3>0, <3>3
      <4> QED
        BY <4>3, <4>4, <4>5, <4>6
    <3> QED
      BY <3>0, <3>1, <3>2, <3>3
  <2> QED
    BY <2>4 DEF LRUOrder
<1>5. ASSUME NEW w \in Callers, Elsewhere(w)
      PROVE  UNCHANGED <<lru, since>>
  BY <1>5, ElsewhereFrame
<1> QED
  BY <1>1, <1>2, <1>3, <1>4, <1>5, StepCases DEF vars

\* Whoever frees the mutex leaves the budget respected.
LEMMA BudgetStep ==
  ASSUME IInv, [Next]_vars
  PROVE  WithinBudget'
<1>0. WithinBudget /\ PendingStores
  BY DEF IInv
<1>1. CASE UNCHANGED <<lru, curBytes, mu>>
  BY <1>0, <1>1 DEF WithinBudget
<1>2. ASSUME NEW w \in Callers, Evict(w)
      PROVE  WithinBudget'
  <2>1. mu' = w
    BY <1>0, <1>2 DEF Evict, PendingStores
  <2> QED
    BY <2>1, NoCallerAssumption DEF WithinBudget
<1>3. ASSUME NEW w \in Callers, Insert(w)
      PROVE  WithinBudget'
  <2>1. Len(lru) \in Nat /\ Len(lru') = Len(lru) + 1
    BY <1>3, InsertList, ListDomain DEF IInv, TypeOK
  <2>2. curBytes + Size[call[w].content] \in Int /\ MaxBytes \in Int
    <3>1. call[w].content \in Contents
      BY <1>3, InsertList DEF Entry
    <3> QED
      BY <3>1, SizeAssumption, BudgetAssumption DEF IInv, TypeOK, MaxBytes
  <2>3. curBytes' = curBytes + Size[call[w].content]
    BY <1>3 DEF Insert
  <2>4. curBytes + Size[call[w].content] <= MaxBytes \/ Len(lru) = 0
    BY <1>3, <2>1, <2>2 DEF Insert, NeedsRoom
  <2> QED
    BY <2>1, <2>3, <2>4 DEF WithinBudget
<1>4. ASSUME NEW w \in Callers, NEW id \in Ids, GetHit(w, id)
      PROVE  WithinBudget'
  <2>1. Len(lru') = Len(lru) /\ curBytes' = curBytes /\ mu' = mu
    BY <1>4, HitList DEF GetHit
  <2> QED
    BY <1>0, <2>1 DEF WithinBudget
<1>5. ASSUME NEW w \in Callers, Lock(w)
      PROVE  WithinBudget'
  BY <1>5, NoCallerAssumption DEF WithinBudget, Lock
<1>6. ASSUME NEW w \in Callers,
             (\E c \in Contents : DrawId(w, c)) \/ (\E id \in Ids : GetMiss(w, id))
      PROVE  UNCHANGED <<lru, curBytes, mu>>
  BY <1>6 DEF DrawId, GetMiss
<1> QED
  BY <1>1, <1>2, <1>3, <1>4, <1>5, <1>6, StepCases DEF vars, Elsewhere

-----------------------------------------------------------------------------
(* The theorems *)

LEMMA InitInv == Init => IInv
<1> SUFFICES ASSUME Init
             PROVE  IInv
  OBVIOUS
<1>1. TypeOK
  BY EmptySeq DEF Init, TypeOK, EmptyMap
<1>2. IndexConsistent /\ LRUOrder
  BY DEF Init, EmptyMap, IndexConsistent, LRUOrder
<1>3. PendingStores
  BY NoCallerAssumption DEF Init, PendingStores
<1>4. BytesOf(DOMAIN items) = {}
  BY DEF Init, EmptyMap, BytesOf
<1>5. BytesCounted /\ BytesExact
  BY <1>4, FS_EmptySet DEF Init, BytesCounted, BytesExact
<1>6. WithinBudget
  BY BudgetAssumption DEF Init, WithinBudget, MaxBytes
<1> QED
  BY <1>1, <1>2, <1>3, <1>5, <1>6 DEF IInv

LEMMA StepInv == IInv /\ [Next]_vars => IInv'
  BY IndexStep, PendingStep, BytesStep, TypeStep, OrderStep, BudgetStep DEF IInv

\* The invariant of the cache, for any number of callers and any contents.
THEOREM CacheInvariant == Spec => []IInv
  BY InitInv, StepInv, PTL DEF Spec

\* Every variable keeps its type; in particular curBytes never goes negative.
THEOREM CacheTypes == Spec => []TypeOK
<1>1. IInv => TypeOK
  BY DEF IInv
<1> QED
  BY <1>1, CacheInvariant, PTL

\* Map and list agree whenever nobody is in the middle of a step: no entry is
\* reachable through one and not the other, and each holds its own content.
THEOREM CacheIndex == Spec => []IndexConsistent
<1>1. IInv => IndexConsistent
  BY DEF IInv
<1> QED
  BY <1>1, CacheInvariant, PTL

\* The byte counter is exact after any sequence of insertions and evictions.
THEOREM CacheBytes == Spec => []BytesExact
<1>1. IInv => BytesExact
  BY DEF IInv
<1> QED
  BY <1>1, CacheInvariant, PTL

\* The eviction order is the order of use.
THEOREM CacheOrder == Spec => []LRUOrder
<1>1. IInv => LRUOrder
  BY DEF IInv
<1> QED
  BY <1>1, CacheInvariant, PTL

\* The budget is kept, a single oversize entry excepted.
THEOREM CacheBudget == Spec => []WithinBudget
<1>1. IInv => WithinBudget
  BY DEF IInv
<1> QED
  BY <1>1, CacheInvariant, PTL

\* No entry is evicted while it and everything fresher fit beside the new one.
THEOREM CacheKeepsWorkingSet == Spec => NoPrematureEviction
<1> DEFINE Due(id) == \E w \in Callers :
             /\ mu = w
             /\ Cardinality(BytesOf(since[id] \cup {id})) + Size[call[w].content] > MaxBytes
<1>1. ASSUME IInv, [Next]_vars, NEW id \in DOMAIN items \ DOMAIN items'
      PROVE  Due(id)
  <2>1. PICK w \in Callers : Evict(w)
    <3>1. \A w \in Callers : Elsewhere(w) => items' = items
      BY <1>1, ElsewhereFrame
    <3>2. \A w \in Callers : Insert(w) => DOMAIN items \subseteq DOMAIN items'
      BY DEF Insert
    <3>3. \A w \in Callers : (\E i \in Ids : GetHit(w, i)) => items' = items
      BY DEF GetHit
    <3>4. UNCHANGED vars => items' = items
      BY DEF vars
    <3> QED
      BY <1>1, <3>1, <3>2, <3>3, <3>4, StepCases
  <2>2. PICK n : n = Len(lru)
    OBVIOUS
  <2>3. n \in Nat \ {0} /\ DOMAIN lru = 1 .. n /\ id = lru[n].id
    <3>1. n \in Nat \ {0} /\ DOMAIN lru = 1 .. n /\ Last(lru) = lru[n]
      BY <1>1, <2>1, <2>2, EvictList
    <3>2. DOMAIN items' = DOMAIN items \ {Last(lru).id}
      BY <1>1, <2>1, EvictList
    <3> QED
      BY <3>1, <3>2
  <2>4. since[id] = { lru[j].id : j \in 1 .. (n - 1) }
    <3>1. n \in DOMAIN lru
      BY <2>3
    <3> QED
      BY <1>1, <2>3, <3>1 DEF IInv, LRUOrder
  <2>5. DOMAIN items = { lru[j].id : j \in 1 .. n }
    BY <1>1, <2>3 DEF IInv, IndexConsistent
  <2>6. since[id] \cup {id} = DOMAIN items
    <3>1. \A j \in 1 .. n : j = n \/ j \in 1 .. (n - 1)
      BY <2>3
    <3>2. \A j \in 1 .. (n - 1) : j \in 1 .. n
      BY <2>3
    <3>3. \A x \in DOMAIN items : x \in since[id] \cup {id}
      BY <2>3, <2>4, <2>5, <3>1
    <3>4. \A x \in since[id] \cup {id} : x \in DOMAIN items
      BY <2>4, <2>5, <3>2
    <3> QED
      BY <3>3, <3>4
  <2>7. curBytes = Cardinality(BytesOf(since[id] \cup {id}))
    BY <1>1, <2>6 DEF IInv, BytesExact
  <2>8. mu = w /\ curBytes + Size[call[w].content] > MaxBytes
    BY <1>1, <2>1 DEF IInv, PendingStores, Evict, NeedsRoom
  <2> QED
    BY <2>7, <2>8
<1>2. IInv /\ [Next]_vars => [\A id \in DOMAIN items \ DOMAIN items' : Due(id)]_vars
  BY <1>1
<1> QED
  BY <1>2, CacheInvariant, PTL DEF Spec, NoPrematureEviction

-----------------------------------------------------------------------------
(* The cache implements the abstract store *)

\* An id whose Store is still running has not been issued yet.
Pending == { call[w].id : w \in { v \in Callers : pc[v] # "idle" } }

\* What ResultStore sees of the cache.
Held == [id \in DOMAIN items |-> items[id].content]

LEMMA InitRefines == Init => Abstract!StoreInit
<1> SUFFICES ASSUME Init
             PROVE  Abstract!StoreInit
  OBVIOUS
<1>1. Held = [id \in {} |-> NoContent]
  BY DEF Init, EmptyMap, Held
<1>2. Issued = {}
  BY DEF Init, EmptyMap, Issued
<1> QED
  BY <1>1, <1>2 DEF Init, Held, NoAnswer, Abstract!StoreInit, Abstract!NoAnswer

LEMMA StepRefines ==
  ASSUME IInv, [Next]_vars
  PROVE  [Abstract!StoreNext]_(Abstract!svars)
<1>0. TypeOK /\ IndexConsistent /\ PendingStores
  BY DEF IInv
<1>1. CASE UNCHANGED vars
  BY <1>1 DEF vars, Abstract!svars, Issued
<1>2. ASSUME NEW w \in Callers, NEW c \in Contents, DrawId(w, c)
      PROVE  UNCHANGED Abstract!svars
  <2>1. PICK id \in Ids \ DOMAIN stored :
           /\ call' = [call EXCEPT ![w] = [id |-> id, content |-> c]]
           /\ stored' = [i \in DOMAIN stored \cup {id} |-> IF i = id THEN c ELSE stored[i]]
    BY <1>2 DEF DrawId, FreshIds
  <2>2. /\ pc[w] = "idle" /\ pc' = [pc EXCEPT ![w] = "locking"]
        /\ items' = items /\ ret' = ret
    BY <1>2 DEF DrawId
  <2>3. /\ pc'[w] # "idle" /\ call'[w].id = id
        /\ \A v \in Callers \ {w} : pc'[v] = pc[v] /\ call'[v] = call[v]
    BY <1>0, <2>1, <2>2 DEF TypeOK
  <2>4. Pending' = Pending \cup {id}
    BY <2>2, <2>3 DEF Pending
  <2>5. DOMAIN stored' = DOMAIN stored \cup {id} /\ id \notin DOMAIN stored
    BY <2>1
  <2>6. Issued' = Issued
    BY <2>4, <2>5 DEF Issued, Pending
  <2> QED
    BY <2>2, <2>6 DEF Abstract!svars
<1>3. ASSUME NEW w \in Callers, Lock(w)
      PROVE  UNCHANGED Abstract!svars
  <2>1. UNCHANGED <<items, ret, call, stored>>
    BY <1>3 DEF Lock
  <2>2. \A v \in Callers : pc'[v] # "idle" <=> pc[v] # "idle"
    BY <1>0, <1>3 DEF Lock, TypeOK
  <2>3. Issued' = Issued
    BY <2>1, <2>2 DEF Issued
  <2> QED
    BY <2>1, <2>3 DEF Abstract!svars
<1>4. ASSUME NEW w \in Callers, NEW id \in Ids, GetMiss(w, id) \/ GetHit(w, id)
      PROVE  Abstract!Lookup(w, id)
  <2>1. UNCHANGED <<items, pc, call, stored>>
    BY <1>4 DEF GetMiss, GetHit
  <2>2. Issued' = Issued /\ Held' = Held
    BY <2>1 DEF Issued, Held
  <2>3. ret' = [ret EXCEPT ![w] = Abstract!Answer(id)]
    <3>1. CASE GetMiss(w, id)
      BY <3>1 DEF GetMiss, Abstract!Answer
    <3>2. CASE GetHit(w, id)
      <4>1. id \in DOMAIN items /\ ret' = [ret EXCEPT ![w] = items[id]]
        BY <3>2 DEF GetHit
      <4>2. items[id] \in Entry /\ items[id].id = id
        BY <1>0, <4>1 DEF TypeOK, IndexConsistent
      <4>3. items[id] = [id |-> id, content |-> items[id].content]
        BY <4>2 DEF Entry
      <4>4. Abstract!Answer(id) = [id |-> id, content |-> items[id].content]
        BY <4>1 DEF Abstract!Answer
      <4> QED
        BY <4>1, <4>3, <4>4
    <3> QED
      BY <1>4, <3>1, <3>2
  <2> QED
    BY <2>2, <2>3 DEF Held, Abstract!Lookup
<1>5. ASSUME NEW w \in Callers, Evict(w)
      PROVE  \E id \in Ids : Abstract!Drop(id)
  <2>1. PICK id : id = Last(lru).id
    OBVIOUS
  <2>2. /\ id \in Ids /\ id \in DOMAIN items
        /\ items' = [i \in DOMAIN items \ {id} |-> items[i]]
    <3>1. PICK n : n = Len(lru)
      OBVIOUS
    <3>2. /\ n \in Nat \ {0} /\ DOMAIN lru = 1 .. n /\ Last(lru) = lru[n]
          /\ Last(lru) \in Entry
          /\ items' = [i \in DOMAIN items \ {id} |-> items[i]]
      BY <1>5, <2>1, <3>1, EvictList
    <3>3. n \in DOMAIN lru
      BY <3>2
    <3> QED
      BY <1>0, <2>1, <3>2, <3>3 DEF IndexConsistent, Entry
  <2>3. UNCHANGED <<pc, call, ret, stored>>
    BY <1>5 DEF Evict
  <2>4. Issued' = Issued
    BY <2>3 DEF Issued
  <2>5. Held' = [i \in DOMAIN Held \ {id} |-> Held[i]] /\ DOMAIN Held = DOMAIN items
    BY <2>2 DEF Held
  <2> QED
    BY <2>2, <2>3, <2>4, <2>5 DEF Held, Abstract!Drop
<1>6. ASSUME NEW w \in Callers, Insert(w)
      PROVE  \E id \in Ids, c \in Contents : Abstract!Put(id, c)
  <2>1. PICK e : e = call[w]
    OBVIOUS
  <2>2. /\ e \in Entry
        /\ e.id \in DOMAIN stored \ DOMAIN items
        /\ \A v \in Callers \ {w} : pc[v] # "idle" => call[v].id # e.id
    BY <1>0, <1>6, <2>1 DEF PendingStores, Insert
  <2>3. /\ pc[w] # "idle" /\ pc'[w] = "idle"
        /\ \A v \in Callers \ {w} : pc'[v] = pc[v]
        /\ UNCHANGED <<call, ret, stored>>
        /\ items' = [i \in DOMAIN items \cup {e.id} |-> IF i = e.id THEN e ELSE items[i]]
    BY <1>0, <1>6, <2>1 DEF Insert, TypeOK
  <2>4. Pending' = Pending \ {e.id} /\ e.id \in Pending
    BY <2>1, <2>2, <2>3 DEF Pending
  <2>5. Issued' = Issued \cup {e.id} /\ e.id \notin Issued
    BY <2>2, <2>3, <2>4 DEF Issued, Pending
  <2>6. /\ DOMAIN Held = DOMAIN items
        /\ Held' = [i \in DOMAIN Held \cup {e.id} |-> IF i = e.id THEN e.content ELSE Held[i]]
    BY <2>3 DEF Held
  <2>7. e.id \in Ids /\ e.content \in Contents
    BY <2>2 DEF Entry
  <2>8. Abstract!Put(e.id, e.content)
    BY <2>3, <2>5, <2>6 DEF Held, Abstract!Put
  <2> QED
    BY <2>7, <2>8
<1>7. CASE \E w \in Callers : Elsewhere(w)
  BY <1>2, <1>3, <1>4, <1>7 DEF Elsewhere, Abstract!StoreNext
<1> QED
  BY <1>1, <1>4, <1>5, <1>6, <1>7, StepCases DEF Abstract!StoreNext

\* The cache is a ResultStore: Get returns what Store took in under that id or
\* misses, ids are never given out twice, evicted ids stay dead.
THEOREM CacheImplementsResultStore == Spec => ImplementsResultStore
  BY InitRefines, StepRefines, CacheInvariant, PTL
     DEF Spec, ImplementsResultStore, Abstract!StoreSpec
=============================================================================
