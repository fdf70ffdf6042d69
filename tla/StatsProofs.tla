----------------------------- MODULE StatsProofs -----------------------------
(***************************************************************************)
(* Proofs about Stats for any goroutines, any inodes and any number of     *)
(* records, crashes and faults.  First what holds however many processes   *)
(* share the file, then what holds while one process has it for itself.     *)
(***************************************************************************)
EXTENDS Stats, TLAPS

-----------------------------------------------------------------------------
(* Counters and lists of counters *)

In(f, s) == \E i \in 1 .. Len(s) : s[i] = f

Distinct(s) == \A i, j \in 1 .. Len(s) : s[i] = s[j] => i = j

LEMMA ZeroType == Zero \in Totals /\ \A f \in Fields : Zero[f] = 0
  BY DEF Zero, Totals

LEMMA PlusType ==
  ASSUME NEW s \in Totals, NEW t \in Totals
  PROVE  Plus(s, t) \in Totals /\ \A f \in Fields : Plus(s, t)[f] = s[f] + t[f]
  BY DEF Plus, Totals

\* Whoever adds or swaps goes through a list of distinct counters.
LEMMA ListsType ==
  /\ \A kind \in Kinds : Adds(kind) \in Seq(Fields) /\ Distinct(Adds(kind))
  /\ Swaps \in Seq(Fields) /\ Distinct(Swaps)
  /\ \A f \in Fields : In(f, Swaps)
<1>1. \A kind \in Kinds : kind \in {"cache", "seek", "save"}
  BY KindsAssumption
<1>2. /\ Adds("cache") = <<"bytesCached", "bytesSent", "responsesCached">>
      /\ Adds("seek") = <<"seekCalls">>
      /\ Adds("save") = <<>>
  BY DEF Adds
<1>3. /\ <<"bytesCached", "bytesSent", "responsesCached">> \in Seq(Fields)
      /\ Distinct(<<"bytesCached", "bytesSent", "responsesCached">>)
  BY DEF Fields, Distinct
<1>4. <<"seekCalls">> \in Seq(Fields) /\ Distinct(<<"seekCalls">>)
  BY DEF Fields, Distinct
<1>5. <<>> \in Seq(Fields) /\ Distinct(<<>>)
  BY DEF Fields, Distinct
<1>6. Swaps \in Seq(Fields) /\ Distinct(Swaps)
  BY DEF Swaps, Fields, Distinct
<1>7. ASSUME NEW f \in Fields PROVE In(f, Swaps)
  <2>1. /\ Len(Swaps) = 4
        /\ Swaps[1] = "bytesCached" /\ Swaps[2] = "bytesSent"
        /\ Swaps[3] = "responsesCached" /\ Swaps[4] = "seekCalls"
    BY DEF Swaps
  <2> QED
    BY <2>1 DEF Fields, In
<1> QED
  BY <1>1, <1>2, <1>3, <1>4, <1>5, <1>6, <1>7

\* Taking the head off a list of distinct counters leaves the others.
LEMMA TailLemma ==
  ASSUME NEW s \in Seq(Fields), s # <<>>
  PROVE  /\ Head(s) \in Fields /\ Tail(s) \in Seq(Fields)
         /\ \A f : In(f, Tail(s)) => In(f, s)
         /\ \A f : In(f, s) => f = Head(s) \/ In(f, Tail(s))
         /\ Distinct(s) => Distinct(Tail(s)) /\ ~ In(Head(s), Tail(s))
<1>1. /\ Len(s) \in Nat \ {0} /\ Head(s) = s[1] /\ Head(s) \in Fields
      /\ Tail(s) \in Seq(Fields) /\ Len(Tail(s)) = Len(s) - 1
      /\ \A i \in 1 .. (Len(s) - 1) : Tail(s)[i] = s[i + 1]
  OBVIOUS
<1>2. \A f : In(f, Tail(s)) => In(f, s)
  BY <1>1 DEF In
<1>3. \A f : In(f, s) => f = Head(s) \/ In(f, Tail(s))
  <2> SUFFICES ASSUME NEW i \in 1 .. Len(s), i # 1
               PROVE  \E j \in 1 .. Len(Tail(s)) : Tail(s)[j] = s[i]
    BY <1>1 DEF In
  <2>1. i - 1 \in 1 .. Len(Tail(s)) /\ Tail(s)[i - 1] = s[i]
    BY <1>1
  <2> QED
    BY <2>1
<1>4. ASSUME Distinct(s) PROVE Distinct(Tail(s)) /\ ~ In(Head(s), Tail(s))
  BY <1>1, <1>4 DEF Distinct, In
<1> QED
  BY <1>1, <1>2, <1>3, <1>4

-----------------------------------------------------------------------------
(* However many processes there are *)

\* A flush has something in its hands only while it runs, and of the counters
\* that it has yet to swap it has nothing.
Hands(w) ==
    /\ Distinct(todo[w])
    /\ pc[w] \notin Flushing => delta[w] = Zero
    /\ pc[w] = "swapping" => \A f \in Fields : In(f, todo[w]) => delta[w][f] = 0

\* Some worker will flush this counter.
Awaited(p, f) ==
    \E w \in Workers : /\ ProcOf[w] = p
                       /\ pc[w] = "adding" \/ (pc[w] = "swapping" /\ In(f, todo[w]))

NothingForgotten == \A p \in Procs, f \in Fields : mem[p][f] = 0 \/ Awaited(p, f)

SharedInv ==
    /\ TypeOK
    /\ \A w \in Workers : Hands(w)
    /\ NothingForgotten

LEMMA ReadType ==
  ASSUME TypeOK
  PROVE  ReadTotals \in Totals
  BY ZeroType DEF TypeOK, ReadTotals

LEMMA InitShared == Init => SharedInv
<1> SUFFICES ASSUME Init PROVE SharedInv
  OBVIOUS
<1>1. TypeOK
  <2>1. /\ \A w \in Workers : pc[w] \notin Flushing /\ flushMu[ProcOf[w]] # w
        /\ \A w \in Workers : fd[w] = NoFile
    BY ProcOfAssumption, NobodyAssumption DEF Init, Flushing
  <2>2. \A w \in Workers : pc[w] \notin {"writing", "renaming"}
    BY DEF Init
  <2>3. todo \in [Workers -> Seq(Fields)]
    BY DEF Init
  <2> QED
    BY <2>1, <2>2, <2>3, ZeroType DEF Init, TypeOK
<1>2. ASSUME NEW w \in Workers PROVE Hands(w)
  BY DEF Init, Hands, Distinct, In
<1>3. \A p \in Procs, f \in Fields : mem[p][f] = 0
  BY ZeroType DEF Init
<1> QED
  BY <1>1, <1>2, <1>3 DEF SharedInv, NothingForgotten

LEMMA RecordTypes ==
  ASSUME TypeOK, NEW w \in Workers, Record(w)
  PROVE  TypeOK'
<1>1. /\ pc[w] = "idle" /\ pc' = [pc EXCEPT ![w] = "adding"]
      /\ UNCHANGED <<mem, flushMu, delta, merged, fd, path, tmp, data, recorded, lost, blind>>
      /\ todo' \in [Workers -> Seq(Fields)]
  BY ListsType DEF Record, TypeOK, files
<1>2. users' \subseteq Procs
  <2>1. users' = users \cup {ProcOf[w]} /\ ProcOf[w] \in Procs /\ users \subseteq Procs
    BY ProcOfAssumption DEF Record, TypeOK
  <2> QED
    BY <2>1
<1> QED
  BY <1>1, <1>2 DEF TypeOK, Flushing

LEMMA AddTypes ==
  ASSUME TypeOK, NEW w \in Workers, Add(w)
  PROVE  TypeOK'
<1>1. todo[w] \in Seq(Fields) /\ Head(todo[w]) \in Fields /\ Tail(todo[w]) \in Seq(Fields)
  BY TailLemma DEF TypeOK, Add
<1> DEFINE p == ProcOf[w]
           f == Head(todo[w])
<1>2. /\ p \in Procs /\ mem[p] \in Totals /\ mem[p][f] \in Nat
      /\ recorded \in Totals /\ recorded[f] \in Nat
  BY <1>1, ProcOfAssumption DEF TypeOK, Totals
<1>3. [mem[p] EXCEPT ![f] = @ + 1] \in Totals /\ [recorded EXCEPT ![f] = @ + 1] \in Totals
  BY <1>1, <1>2, SMTT(20) DEF Totals
<1>4. mem' = [mem EXCEPT ![p] = [mem[p] EXCEPT ![f] = @ + 1]] /\ recorded' = [recorded EXCEPT ![f] = @ + 1]
  BY <1>2 DEF Add, TypeOK
<1> HIDE DEF p, f
<1>5. mem' \in [Procs -> Totals] /\ recorded' \in Totals
  BY <1>2, <1>3, <1>4 DEF TypeOK
<1> QED
  BY <1>1, <1>5 DEF Add, TypeOK, files

LEMMA LockTypes ==
  ASSUME TypeOK, NEW w \in Workers, Lock(w)
  PROVE  TypeOK'
<1>1. /\ pc[w] = "adding" /\ flushMu[ProcOf[w]] = Nobody /\ ProcOf[w] \in Procs
      /\ pc' = [pc EXCEPT ![w] = "swapping"]
      /\ flushMu' = [flushMu EXCEPT ![ProcOf[w]] = w]
      /\ todo' = [todo EXCEPT ![w] = Swaps]
      /\ UNCHANGED <<mem, delta, merged, fd, path, tmp, data, recorded, lost, blind, users>>
  BY ProcOfAssumption DEF Lock, CanLock, files, history
<1>2. todo' \in [Workers -> Seq(Fields)] /\ flushMu' \in [Procs -> Workers \cup {Nobody}]
  BY <1>1, ListsType DEF TypeOK
<1>3. pc' \in [Workers -> {"idle", "adding"} \cup Flushing]
  BY <1>1 DEF TypeOK, Flushing
<1>4. \A v \in Workers : pc'[v] \in Flushing <=> flushMu'[ProcOf[v]] = v
  BY <1>1, NobodyAssumption, ProcOfAssumption DEF TypeOK, Flushing
<1>5. \A v \in Workers : pc'[v] \in {"writing", "renaming"} <=> fd'[v] # NoFile
  BY <1>1 DEF TypeOK
<1> QED
  BY <1>1, <1>2, <1>3, <1>4, <1>5 DEF TypeOK

LEMMA SwapTypes ==
  ASSUME TypeOK, NEW w \in Workers, Swap(w)
  PROVE  TypeOK'
<1>1. todo[w] \in Seq(Fields) /\ Head(todo[w]) \in Fields /\ Tail(todo[w]) \in Seq(Fields)
  BY TailLemma DEF TypeOK, Swap
<1> DEFINE p == ProcOf[w]
           f == Head(todo[w])
<1>2. /\ p \in Procs /\ mem[p] \in Totals /\ mem[p][f] \in Nat /\ delta[w] \in Totals
  BY <1>1, ProcOfAssumption DEF TypeOK, Totals
<1>3. [mem[p] EXCEPT ![f] = 0] \in Totals /\ [delta[w] EXCEPT ![f] = mem[p][f]] \in Totals
  BY <1>1, <1>2 DEF Totals
<1>4. /\ mem' = [mem EXCEPT ![p] = [mem[p] EXCEPT ![f] = 0]]
      /\ delta' = [delta EXCEPT ![w] = [delta[w] EXCEPT ![f] = mem[p][f]]]
  BY <1>2 DEF Swap, TypeOK
<1> HIDE DEF p, f
<1>5. mem' \in [Procs -> Totals] /\ delta' \in [Workers -> Totals]
  BY <1>2, <1>3, <1>4 DEF TypeOK
<1> QED
  BY <1>1, <1>5 DEF Swap, TypeOK, files, history

\* What Return leaves of the types.
LEMMA ReturnTypes ==
  ASSUME TypeOK, NEW w \in Workers, pc[w] \in Flushing, Return(w)
  PROVE  /\ flushMu' \in [Procs -> Workers \cup {Nobody}]
         /\ pc' \in [Workers -> {"idle", "adding"} \cup Flushing]
         /\ delta' \in [Workers -> Totals] /\ merged' \in [Workers -> Totals]
         /\ fd' \in [Workers -> Inodes \cup {NoFile}]
         /\ \A v \in Workers :
              /\ pc'[v] \in Flushing <=> flushMu'[ProcOf[v]] = v
              /\ pc'[v] \in {"writing", "renaming"} <=> fd'[v] # NoFile
         /\ blind' \subseteq Workers /\ users' \subseteq Procs
         /\ pc'[w] = "idle" /\ delta'[w] = Zero /\ flushMu'[ProcOf[w]] = Nobody
         /\ \A v \in Workers : v # w => pc'[v] = pc[v] /\ delta'[v] = delta[v] /\ merged'[v] = merged[v]
                                          /\ fd'[v] = fd[v]
         /\ \A p \in Procs : p # ProcOf[w] => flushMu'[p] = flushMu[p]
  BY ZeroType, NobodyAssumption, ProcOfAssumption, ZenonT(30) DEF Return, Closed, TypeOK, Flushing

LEMMA NothingToFlushTypes ==
  ASSUME TypeOK, NEW w \in Workers, NothingToFlush(w)
  PROVE  TypeOK'
<1>1. pc[w] \in Flushing /\ Return(w)
  BY DEF NothingToFlush, Swapped, Flushing
<1> QED
  BY <1>1, ReturnTypes DEF NothingToFlush, TypeOK, files, history

LEMMA MergeTypes ==
  ASSUME TypeOK, NEW w \in Workers, Merge(w) \/ MergeBlind(w)
  PROVE  TypeOK'
<1>1. PICK existing \in Totals : MergeWith(w, existing)
  BY ReadType, ZeroType DEF Merge, MergeBlind
<1>2. Plus(existing, delta[w]) \in Totals
  BY PlusType DEF TypeOK
<1>3. blind' \subseteq Workers
  BY DEF Merge, MergeBlind, TypeOK
<1> QED
  BY <1>1, <1>2, <1>3 DEF MergeWith, Swapped, TypeOK, Flushing, files

LEMMA OpenTypes ==
  ASSUME TypeOK, NEW w \in Workers, Open(w)
  PROVE  TypeOK'
<1>1. PICK i \in Inodes : /\ tmp' = i /\ path' = path
                         /\ data' = [data EXCEPT ![i] = Empty]
                         /\ fd' = [fd EXCEPT ![w] = i]
  BY DEF Open, FreeInodes, PathDuringWrite, TypeOK
<1> QED
  BY <1>1, NoFileAssumption DEF Open, TypeOK, Flushing, history

LEMMA WriteTypes ==
  ASSUME TypeOK, NEW w \in Workers, Write(w)
  PROVE  TypeOK'
<1>1. fd[w] \in Inodes
  BY DEF Write, TypeOK
<1>2. PICK text \in Totals \cup {Torn} : data' = [data EXCEPT ![fd[w]] = text]
  BY DEF Write, TypeOK
<1> QED
  BY <1>1, <1>2 DEF Write, TypeOK, Flushing, history

LEMMA RenameTypes ==
  ASSUME TypeOK, NEW w \in Workers, Rename(w)
  PROVE  TypeOK'
<1>1. pc[w] \in Flushing /\ Return(w)
  BY DEF Rename, Flushing
<1>2. lost' \in Totals
  BY ReadType, PlusType DEF Rename, TypeOK
<1> QED
  BY <1>1, <1>2, ReturnTypes DEF Rename, TypeOK

\* A flush that fails, in whatever state the call leaves the file.
LEMMA GiveUpTypes ==
  ASSUME TypeOK, NEW w \in Workers, pc[w] \in Flushing, GiveUp(w),
         data' \in [Inodes -> Totals \cup {Empty, Torn}]
  PROVE  TypeOK'
<1>1. Return(w) /\ lost' = Plus(lost, delta[w])
  BY DEF GiveUp
<1>2. lost' \in Totals
  BY <1>1, PlusType DEF TypeOK
<1> QED
  BY <1>1, <1>2, ReturnTypes DEF GiveUp, CountersAfterFailure, TypeOK

LEMMA FailsTypes ==
  ASSUME TypeOK, NEW w \in Workers, RenameFindsNothing(w) \/ SyscallFails(w)
  PROVE  TypeOK'
<1>1. pc[w] \in Flushing /\ GiveUp(w)
  BY DEF RenameFindsNothing, SyscallFails, Flushing
<1>2. data' \in [Inodes -> Totals \cup {Empty, Torn}]
  <2>1. CASE data' = data
    BY <2>1 DEF TypeOK
  <2>2. CASE pc[w] = "writing" /\ \E text \in {data[fd[w]], Torn} : data' = [data EXCEPT ![fd[w]] = text]
    BY <2>2 DEF TypeOK
  <2> QED
    BY <2>1, <2>2 DEF RenameFindsNothing, SyscallFails
<1> QED
  BY <1>1, <1>2, GiveUpTypes

LEMMA CrashTypes ==
  ASSUME TypeOK, NEW p \in Procs, Crash(p)
  PROVE  TypeOK'
<1>1. lost' \in Totals
  <2>1. Plus(lost, mem[p]) \in Totals
    BY PlusType DEF TypeOK
  <2>2. (IF flushMu[p] = Nobody THEN Zero ELSE delta[flushMu[p]]) \in Totals
    BY ZeroType DEF TypeOK
  <2> QED
    BY <2>1, <2>2, PlusType DEF Crash
<1>2. /\ pc' = [w \in Workers |-> IF ProcOf[w] = p THEN "idle" ELSE pc[w]]
      /\ todo' = [w \in Workers |-> IF ProcOf[w] = p THEN <<>> ELSE todo[w]]
      /\ fd' = [w \in Workers |-> IF ProcOf[w] = p THEN NoFile ELSE fd[w]]
      /\ delta' = [w \in Workers |-> IF ProcOf[w] = p THEN Zero ELSE delta[w]]
      /\ merged' = [w \in Workers |-> IF ProcOf[w] = p THEN Zero ELSE merged[w]]
      /\ mem' = [mem EXCEPT ![p] = Zero] /\ flushMu' = [flushMu EXCEPT ![p] = Nobody]
      /\ UNCHANGED <<files, recorded, users>> /\ blind' \subseteq blind
  BY DEF Crash
<1>3. todo' \in [Workers -> Seq(Fields)]
  BY <1>2 DEF TypeOK
<1>4. \A w \in Workers : pc'[w] \in Flushing <=> flushMu'[ProcOf[w]] = w
  BY <1>2, NobodyAssumption, ProcOfAssumption DEF TypeOK, Flushing
<1>5. \A w \in Workers : pc'[w] \in {"writing", "renaming"} <=> fd'[w] # NoFile
  BY <1>2 DEF TypeOK
<1> QED
  BY <1>1, <1>2, <1>3, <1>4, <1>5, ZeroType DEF TypeOK, files

\* The steps of one worker that end its flush or leave it nothing to swap.
FlushStep(w) ==
    \/ Merge(w) \/ MergeBlind(w) \/ Open(w) \/ Write(w)
    \/ NothingToFlush(w) \/ Rename(w) \/ RenameFindsNothing(w) \/ SyscallFails(w)

LEMMA FlushStepShape ==
  ASSUME TypeOK, NEW w \in Workers, FlushStep(w)
  PROVE  /\ mem' = mem /\ todo' = todo
         /\ pc[w] \in Flushing /\ (pc[w] = "swapping" => todo[w] = <<>>)
         /\ \A v \in Workers : v # w => pc'[v] = pc[v] /\ delta'[v] = delta[v]
         /\ \/ pc'[w] = "idle" /\ delta'[w] = Zero
            \/ pc'[w] \in {"opening", "writing", "renaming"} /\ delta'[w] = delta[w]
<1>1. CASE Merge(w) \/ MergeBlind(w) \/ Open(w) \/ Write(w)
  <2>1. /\ mem' = mem /\ todo' = todo /\ delta' = delta
        /\ pc[w] \in Flushing /\ (pc[w] = "swapping" => todo[w] = <<>>)
        /\ \E stage \in {"opening", "writing", "renaming"} : pc' = [pc EXCEPT ![w] = stage]
    BY <1>1 DEF Merge, MergeBlind, MergeWith, Open, Write, Swapped, Flushing
  <2> QED
    BY <2>1 DEF TypeOK
<1>2. CASE NothingToFlush(w) \/ Rename(w) \/ RenameFindsNothing(w) \/ SyscallFails(w)
  <2>1. /\ Return(w) /\ mem' = mem /\ todo' = todo
        /\ pc[w] \in Flushing /\ (pc[w] = "swapping" => todo[w] = <<>>)
    BY <1>2 DEF NothingToFlush, Rename, RenameFindsNothing, SyscallFails, GiveUp,
                CountersAfterFailure, Swapped, Flushing
  <2> QED
    BY <2>1, ReturnTypes
<1> QED
  BY <1>1, <1>2 DEF FlushStep

\* A worker that stays what it is keeps what it has in its hands.
LEMMA HandsFrame ==
  ASSUME NEW v, Hands(v), pc'[v] = pc[v], todo'[v] = todo[v], delta'[v] = delta[v]
  PROVE  Hands(v)'
  BY DEF Hands

\* Who waits for its counters to be flushed goes on waiting when nobody who
\* would flush them changes.
LEMMA ForgottenFrame ==
  ASSUME NothingForgotten, mem' = mem, NEW w \in Workers,
         pc[w] # "adding", pc[w] = "swapping" => todo[w] = <<>>,
         \A v \in Workers : v # w => pc'[v] = pc[v] /\ todo'[v] = todo[v]
  PROVE  NothingForgotten'
<1> SUFFICES ASSUME NEW p \in Procs, NEW f \in Fields, Awaited(p, f)
             PROVE  Awaited(p, f)'
  BY DEF NothingForgotten
<1>1. PICK v \in Workers : /\ ProcOf[v] = p
                           /\ pc[v] = "adding" \/ (pc[v] = "swapping" /\ In(f, todo[v]))
  BY DEF Awaited
<1>2. v # w
  <2>1. ~ In(f, <<>>)
    BY DEF In
  <2> QED
    BY <1>1, <2>1
<1> QED
  BY <1>1, <1>2 DEF Awaited

LEMMA FlushStepShared ==
  ASSUME SharedInv, NEW w \in Workers, FlushStep(w)
  PROVE  (\A v \in Workers : Hands(v)') /\ NothingForgotten'
<1>1. /\ mem' = mem /\ todo' = todo
      /\ pc[w] \in Flushing /\ (pc[w] = "swapping" => todo[w] = <<>>)
      /\ \A v \in Workers : v # w => pc'[v] = pc[v] /\ delta'[v] = delta[v]
      /\ \/ pc'[w] = "idle" /\ delta'[w] = Zero
         \/ pc'[w] \in {"opening", "writing", "renaming"} /\ delta'[w] = delta[w]
  BY FlushStepShape DEF SharedInv
<1>2. ASSUME NEW v \in Workers PROVE Hands(v)'
  <2>1. Hands(v)
    BY DEF SharedInv
  <2>2. CASE v # w
    BY <1>1, <2>1, <2>2, HandsFrame
  <2>3. CASE v = w
    BY <1>1, <2>1, <2>3 DEF Hands, Flushing
  <2> QED
    BY <2>2, <2>3
<1>3. NothingForgotten'
  BY <1>1, ForgottenFrame DEF SharedInv, Flushing
<1> QED
  BY <1>2, <1>3

LEMMA RecordShared ==
  ASSUME SharedInv, NEW w \in Workers, Record(w)
  PROVE  (\A v \in Workers : Hands(v)') /\ NothingForgotten'
<1>1. PICK kind \in Kinds : todo' = [todo EXCEPT ![w] = Adds(kind)]
  BY DEF Record
<1>2. /\ pc[w] = "idle" /\ pc'[w] = "adding" /\ todo'[w] = Adds(kind)
      /\ mem' = mem /\ delta' = delta
      /\ \A v \in Workers : v # w => pc'[v] = pc[v] /\ todo'[v] = todo[v]
  BY <1>1 DEF Record, SharedInv, TypeOK
<1>3. ASSUME NEW v \in Workers PROVE Hands(v)'
  <2>1. Hands(v)
    BY DEF SharedInv
  <2>2. CASE v # w
    BY <1>2, <2>1, <2>2, HandsFrame
  <2>3. CASE v = w
    BY <1>2, <2>1, <2>3, ListsType DEF Hands, Flushing
  <2> QED
    BY <2>2, <2>3
<1>4. NothingForgotten'
  BY <1>2, ForgottenFrame DEF SharedInv
<1> QED
  BY <1>3, <1>4

LEMMA AddShared ==
  ASSUME SharedInv, NEW w \in Workers, Add(w)
  PROVE  (\A v \in Workers : Hands(v)') /\ NothingForgotten'
<1>1. /\ pc[w] = "adding" /\ pc' = pc /\ delta' = delta
      /\ todo'[w] = Tail(todo[w]) /\ todo[w] # <<>> /\ todo[w] \in Seq(Fields)
      /\ \A v \in Workers : v # w => todo'[v] = todo[v]
      /\ \A p \in Procs : p # ProcOf[w] => mem'[p] = mem[p]
  BY ProcOfAssumption DEF Add, SharedInv, TypeOK
<1>2. ASSUME NEW v \in Workers PROVE Hands(v)'
  <2>1. Hands(v)
    BY DEF SharedInv
  <2>2. CASE v # w
    BY <1>1, <2>1, <2>2, HandsFrame
  <2>3. CASE v = w
    BY <1>1, <2>1, <2>3, TailLemma DEF Hands
  <2> QED
    BY <2>2, <2>3
<1>3. ASSUME NEW p \in Procs, NEW f \in Fields PROVE mem'[p][f] = 0 \/ Awaited(p, f)'
  <2>1. CASE p = ProcOf[w]
    BY <1>1, <2>1 DEF Awaited
  <2>2. CASE p # ProcOf[w]
    <3>1. mem[p][f] = 0 \/ Awaited(p, f)
      BY DEF SharedInv, NothingForgotten
    <3>2. Awaited(p, f) => Awaited(p, f)'
      BY <1>1, <2>2 DEF Awaited
    <3> QED
      BY <1>1, <2>2, <3>1, <3>2
  <2> QED
    BY <2>1, <2>2
<1> QED
  BY <1>2, <1>3 DEF NothingForgotten

LEMMA LockShared ==
  ASSUME SharedInv, NEW w \in Workers, Lock(w)
  PROVE  (\A v \in Workers : Hands(v)') /\ NothingForgotten'
<1>1. /\ pc[w] = "adding" /\ pc'[w] = "swapping" /\ todo'[w] = Swaps
      /\ mem' = mem /\ delta' = delta
      /\ \A v \in Workers : v # w => pc'[v] = pc[v] /\ todo'[v] = todo[v]
  BY DEF Lock, SharedInv, TypeOK
<1>2. ASSUME NEW v \in Workers PROVE Hands(v)'
  <2>1. Hands(v)
    BY DEF SharedInv
  <2>2. CASE v # w
    BY <1>1, <2>1, <2>2, HandsFrame
  <2>3. CASE v = w
    BY <1>1, <2>1, <2>3, ListsType, ZeroType DEF Hands, Flushing
  <2> QED
    BY <2>2, <2>3
<1>3. ASSUME NEW p \in Procs, NEW f \in Fields PROVE mem'[p][f] = 0 \/ Awaited(p, f)'
  <2>1. mem[p][f] = 0 \/ Awaited(p, f)
    BY DEF SharedInv, NothingForgotten
  <2>2. ASSUME NEW v \in Workers, ProcOf[v] = p,
               pc[v] = "adding" \/ (pc[v] = "swapping" /\ In(f, todo[v]))
        PROVE  Awaited(p, f)'
    BY <1>1, <2>2, ListsType DEF Awaited
  <2> QED
    BY <1>1, <2>1, <2>2 DEF Awaited
<1> QED
  BY <1>2, <1>3 DEF NothingForgotten

LEMMA SwapShared ==
  ASSUME SharedInv, NEW w \in Workers, Swap(w)
  PROVE  (\A v \in Workers : Hands(v)') /\ NothingForgotten'
<1> DEFINE h == Head(todo[w])
<1>0. TypeOK /\ ProcOf[w] \in Procs
  BY ProcOfAssumption DEF SharedInv
<1>1. /\ pc[w] = "swapping" /\ pc' = pc
      /\ todo'[w] = Tail(todo[w]) /\ todo[w] # <<>> /\ todo[w] \in Seq(Fields)
      /\ \A v \in Workers : v # w => todo'[v] = todo[v] /\ delta'[v] = delta[v]
      /\ \A p \in Procs : p # ProcOf[w] => mem'[p] = mem[p]
  BY <1>0 DEF Swap, TypeOK
<1>2. /\ \A f \in Fields : f # h => delta'[w][f] = delta[w][f]
      /\ \A f \in Fields : mem'[ProcOf[w]][f] = IF f = h THEN 0 ELSE mem[ProcOf[w]][f]
  BY <1>0 DEF Swap, TypeOK, Totals
<1>3. Hands(w)
  BY DEF SharedInv
<1>4. /\ Distinct(Tail(todo[w])) /\ ~ In(h, Tail(todo[w])) /\ h \in Fields
      /\ \A f : In(f, Tail(todo[w])) => In(f, todo[w])
      /\ \A f : In(f, todo[w]) => f = h \/ In(f, Tail(todo[w]))
  BY <1>1, <1>3, TailLemma DEF Hands
<1> HIDE DEF h
<1>5. ASSUME NEW v \in Workers PROVE Hands(v)'
  <2>1. CASE v # w
    BY <1>1, <2>1, HandsFrame DEF SharedInv
  <2>2. Hands(w)'
    BY <1>1, <1>2, <1>3, <1>4 DEF Hands, Flushing
  <2> QED
    BY <2>1, <2>2
<1>6. ASSUME NEW p \in Procs, NEW f \in Fields PROVE mem'[p][f] = 0 \/ Awaited(p, f)'
  <2>1. CASE p = ProcOf[w] /\ f = h
    BY <1>2, <2>1
  <2>2. CASE ~ (p = ProcOf[w] /\ f = h)
    <3>1. mem'[p][f] = mem[p][f]
      BY <1>1, <1>2, <2>2
    <3>2. mem[p][f] = 0 \/ Awaited(p, f)
      BY DEF SharedInv, NothingForgotten
    <3>3. ASSUME NEW v \in Workers, ProcOf[v] = p,
                 pc[v] = "adding" \/ (pc[v] = "swapping" /\ In(f, todo[v]))
          PROVE  Awaited(p, f)'
      <4>1. pc'[v] = "adding" \/ (pc'[v] = "swapping" /\ In(f, todo'[v]))
        BY <1>1, <1>4, <2>2, <3>3
      <4> QED
        BY <3>3, <4>1 DEF Awaited
    <3> QED
      BY <3>1, <3>2, <3>3 DEF Awaited
  <2> QED
    BY <2>1, <2>2
<1> QED
  BY <1>5, <1>6 DEF NothingForgotten

LEMMA CrashShared ==
  ASSUME SharedInv, NEW p \in Procs, Crash(p)
  PROVE  (\A v \in Workers : Hands(v)') /\ NothingForgotten'
<1>1. /\ \A v \in Workers : ProcOf[v] = p =>
           pc'[v] = "idle" /\ todo'[v] = <<>> /\ delta'[v] = Zero
      /\ \A v \in Workers : ProcOf[v] # p =>
           pc'[v] = pc[v] /\ todo'[v] = todo[v] /\ delta'[v] = delta[v]
      /\ \A q \in Procs : mem'[q] = IF q = p THEN Zero ELSE mem[q]
  BY DEF Crash, SharedInv, TypeOK
<1>2. ASSUME NEW v \in Workers PROVE Hands(v)'
  <2>1. CASE ProcOf[v] = p
    BY <1>1, <2>1 DEF Hands, Distinct, Flushing
  <2>2. CASE ProcOf[v] # p
    BY <1>1, <2>2, HandsFrame DEF SharedInv
  <2> QED
    BY <2>1, <2>2
<1>3. ASSUME NEW q \in Procs, NEW f \in Fields PROVE mem'[q][f] = 0 \/ Awaited(q, f)'
  <2>1. CASE q = p
    BY <1>1, <2>1, ZeroType
  <2>2. CASE q # p
    <3>1. mem[q][f] = 0 \/ Awaited(q, f)
      BY DEF SharedInv, NothingForgotten
    <3> QED
      BY <1>1, <2>2, <3>1 DEF Awaited
  <2> QED
    BY <2>1, <2>2
<1> QED
  BY <1>2, <1>3 DEF NothingForgotten

LEMMA TypeStep == TypeOK /\ [Next]_vars => TypeOK'
<1> SUFFICES ASSUME TypeOK, [Next]_vars PROVE TypeOK'
  OBVIOUS
<1>1. CASE UNCHANGED vars
  BY <1>1 DEF vars, files, history, TypeOK
<1>2. ASSUME NEW w \in Workers,
             \/ Record(w) \/ Add(w) \/ Lock(w) \/ Swap(w) \/ NothingToFlush(w) \/ Merge(w) \/ MergeBlind(w)
             \/ Open(w) \/ Write(w) \/ Rename(w) \/ RenameFindsNothing(w) \/ SyscallFails(w)
      PROVE  TypeOK'
  BY <1>2, RecordTypes, AddTypes, LockTypes, SwapTypes, NothingToFlushTypes, MergeTypes,
     OpenTypes, WriteTypes, RenameTypes, FailsTypes
<1>3. ASSUME NEW p \in Procs, Crash(p) PROVE TypeOK'
  BY <1>3, CrashTypes
<1> QED
  BY <1>1, <1>2, <1>3 DEF Next

\* Next, sorted by what it does to the counters and the files.
LEMMA StepCases ==
  ASSUME [Next]_vars
  PROVE  \/ UNCHANGED vars
         \/ \E w \in Workers : Record(w) \/ Add(w) \/ Lock(w) \/ Swap(w) \/ FlushStep(w)
         \/ \E p \in Procs : Crash(p)
  BY DEF Next, FlushStep

LEMMA SharedStep == SharedInv /\ [Next]_vars => SharedInv'
<1> SUFFICES ASSUME SharedInv, [Next]_vars PROVE SharedInv'
  OBVIOUS
<1>1. TypeOK'
  BY TypeStep DEF SharedInv
<1>2. CASE UNCHANGED vars
  BY <1>1, <1>2 DEF vars, SharedInv, Hands, NothingForgotten, Awaited
<1>3. ASSUME NEW w \in Workers, Record(w) \/ Add(w) \/ Lock(w) \/ Swap(w) \/ FlushStep(w)
      PROVE  (\A v \in Workers : Hands(v)') /\ NothingForgotten'
  BY <1>3, RecordShared, AddShared, LockShared, SwapShared, FlushStepShared
<1>4. ASSUME NEW p \in Procs, Crash(p)
      PROVE  (\A v \in Workers : Hands(v)') /\ NothingForgotten'
  BY <1>4, CrashShared
<1> QED
  BY <1>1, <1>2, <1>3, <1>4, StepCases DEF SharedInv

THEOREM StatsShared == Spec => []SharedInv
  BY InitShared, SharedStep, PTL DEF Spec

\* Every variable keeps its type, and flushMu excludes: at most one worker of
\* each process is in its flush.
THEOREM StatsTypes == Spec => []TypeOK
  BY StatsShared, PTL DEF SharedInv

\* No counter is left behind when the calls of a process have ended, however many
\* workers record and flush at once.
THEOREM StatsFlushedWhenIdle == Spec => []FlushedWhenIdle
<1>1. SharedInv => FlushedWhenIdle
  <2> SUFFICES ASSUME SharedInv, NEW p \in Procs,
                      \A w \in Workers : ProcOf[w] = p => pc[w] = "idle"
               PROVE  mem[p] = Zero
    BY DEF FlushedWhenIdle
  <2>1. \A f \in Fields : mem[p][f] = 0
    BY DEF SharedInv, NothingForgotten, Awaited
  <2> QED
    BY <2>1, ZeroType DEF SharedInv, TypeOK, Totals, Zero
<1> QED
  BY <1>1, StatsShared, PTL

-----------------------------------------------------------------------------
(* As long as one process has the file for itself *)

Carrying == {"opening", "writing", "renaming"}

\* Who works has recorded something, a process that has not has nothing in its
\* hands, and a flush that could not read the file has not ended.
Quiet ==
    /\ \A w \in Workers : pc[w] # "idle" => ProcOf[w] \in users
    /\ \A p \in Procs : p \notin users => mem[p] = Zero /\ flushMu[p] = Nobody
    /\ \A w \in blind : pc[w] \in Carrying

\* The history a flush adds to.
Base(w) == IF w \in blind THEN Zero ELSE ReadTotals

\* Only the flush that runs touches the files, and what it is about to publish is
\* the history it knows of with what it has in its hands.
Publishes(w) ==
    /\ pc[w] \in {"writing", "renaming"} => tmp # NoFile /\ fd[w] = tmp
    /\ pc[w] = "writing" => data[tmp] = Empty
    /\ pc[w] = "renaming" => data[tmp] = merged[w]
    /\ pc[w] \in Carrying => merged[w] = Plus(Base(w), delta[w])

Filed == path # NoFile => path # tmp /\ data[path] \in Totals

Balance(p) ==
    \A f \in Fields : recorded[f] = ReadTotals[f] + mem[p][f] + InFlight(p)[f] + lost[f]

\* What process p makes of a file that it has for itself.
Kept(p) == Filed /\ (\A w \in Workers : Publishes(w)) /\ Balance(p)

OwnInv == SharedInv /\ Quiet /\ \A p \in Procs : Alone(p) => Kept(p)

\* Process p has the file for itself.
Has(p) == SharedInv /\ Quiet /\ Alone(p) /\ Kept(p)

\* Whoever works then is a worker of p, and one of them only flushes.
LEMMA OnlyOwn ==
  ASSUME NEW p \in Procs, SharedInv, Quiet, Alone(p), NEW w \in Workers, pc[w] # "idle"
  PROVE  TypeOK /\ ProcOf[w] = p
  BY DEF SharedInv, Quiet, Alone

LEMMA OneFlush ==
  ASSUME NEW p \in Procs, SharedInv, Quiet, Alone(p), NEW v \in Workers, NEW w \in Workers,
         pc[v] \in Flushing, pc[w] \in Flushing
  PROVE  v = w
<1>1. TypeOK /\ ProcOf[v] = p /\ ProcOf[w] = p
  BY OnlyOwn DEF Flushing
<1> QED
  BY <1>1 DEF TypeOK

\* What a reader sees does not change while the file it reads does not.
LEMMA ReadFrame ==
  ASSUME path' = path, path # NoFile => data'[path] = data[path]
  PROVE  ReadTotals' = ReadTotals
  BY DEF ReadTotals

LEMMA InFlightType ==
  ASSUME TypeOK, NEW p \in Procs
  PROVE  /\ InFlight(p) \in Totals
         /\ flushMu[p] = Nobody => InFlight(p) = Zero
         /\ \A w \in Workers : flushMu[p] = w => InFlight(p) = delta[w]
  BY ZeroType, NobodyAssumption DEF InFlight, TypeOK

\* Publishing goes on when the files stay as they are.
LEMMA PublishesFrame ==
  ASSUME NEW v, Publishes(v), UNCHANGED <<path, tmp, data>>,
         pc'[v] \in Carrying =>
            /\ pc'[v] = pc[v] /\ delta'[v] = delta[v] /\ merged'[v] = merged[v] /\ fd'[v] = fd[v]
            /\ v \in blind' <=> v \in blind
  PROVE  Publishes(v)'
<1>1. ReadTotals' = ReadTotals
  BY ReadFrame
<1>2. pc'[v] \in Carrying => Base(v)' = Base(v)
  BY <1>1 DEF Base
<1> QED
  BY <1>1, <1>2 DEF Publishes, Carrying

LEMMA InitOwn == Init => OwnInv
<1> SUFFICES ASSUME Init PROVE OwnInv
  OBVIOUS
<1>1. SharedInv
  BY InitShared
<1>2. ReadTotals = Zero
  BY DEF Init, ReadTotals
<1>3. \A p \in Procs : Balance(p)
  BY <1>2, ZeroType DEF Init, Balance, InFlight
<1>4. \A w \in Workers : Publishes(w)
  BY DEF Init, Publishes, Carrying
<1> QED
  BY <1>1, <1>3, <1>4 DEF Init, OwnInv, Kept, Quiet, Filed

\* Quiet is kept by a step of one worker that has recorded.
LEMMA QuietFrame ==
  ASSUME Quiet, NEW w \in Workers, ProcOf[w] \in users', users \subseteq users',
         \A v \in Workers : v # w => pc'[v] = pc[v],
         \A p \in Procs : p # ProcOf[w] => mem'[p] = mem[p] /\ flushMu'[p] = flushMu[p],
         \A v \in blind' : v = w \/ v \in blind,
         w \in blind' => pc'[w] \in Carrying,
         blind \subseteq Workers, blind' \subseteq Workers
  PROVE  Quiet'
  BY DEF Quiet

\* The steps of a worker between two flushes and of its swaps.
RecordStep(w) == Record(w) \/ Add(w) \/ Lock(w) \/ Swap(w)

LEMMA QuietStep ==
  ASSUME SharedInv, Quiet, [Next]_vars
  PROVE  Quiet'
<1>0. TypeOK /\ TypeOK'
  BY TypeStep DEF SharedInv
<1>1. blind \subseteq Workers /\ blind' \subseteq Workers
  BY <1>0 DEF TypeOK
<1>2. CASE UNCHANGED vars
  BY <1>2 DEF vars, history, Quiet
<1>3. ASSUME NEW w \in Workers, RecordStep(w) PROVE Quiet'
  <2>1. /\ users \subseteq users' /\ blind' = blind /\ ProcOf[w] \in Procs
        /\ \A v \in Workers : v # w => pc'[v] = pc[v]
        /\ w \notin blind
    BY <1>0, <1>3, ProcOfAssumption
       DEF RecordStep, Record, Add, Lock, Swap, history, TypeOK, Quiet, Carrying
  <2>2. ProcOf[w] \in users'
    <3>1. CASE Record(w)
      BY <3>1 DEF Record
    <3>2. CASE Add(w) \/ Lock(w) \/ Swap(w)
      <4>1. pc[w] # "idle"
        BY <3>2 DEF Add, Lock, Swap
      <4> QED
        BY <2>1, <4>1 DEF Quiet
    <3> QED
      BY <1>3, <3>1, <3>2 DEF RecordStep
  <2>3. \A p \in Procs : p # ProcOf[w] => mem'[p] = mem[p] /\ flushMu'[p] = flushMu[p]
    <3>1. CASE Record(w)
      BY <3>1 DEF Record
    <3>2. CASE Add(w)
      BY <1>0, <2>1, <3>2 DEF Add, TypeOK
    <3>3. CASE Lock(w)
      BY <1>0, <2>1, <3>3 DEF Lock, TypeOK
    <3>4. CASE Swap(w)
      BY <1>0, <2>1, <3>4 DEF Swap, TypeOK
    <3> QED
      BY <1>3, <3>1, <3>2, <3>3, <3>4 DEF RecordStep
  <2> QED
    BY <1>1, <2>1, <2>2, <2>3, QuietFrame
<1>4. ASSUME NEW w \in Workers, FlushStep(w) PROVE Quiet'
  <2>1. /\ mem' = mem /\ pc[w] \in Flushing
        /\ \A v \in Workers : v # w => pc'[v] = pc[v]
    BY <1>0, <1>4, FlushStepShape
  <2>2. ProcOf[w] \in users /\ ProcOf[w] \in Procs
    BY <2>1, ProcOfAssumption DEF Quiet, Flushing
  <2>3. CASE Merge(w) \/ MergeBlind(w) \/ Open(w) \/ Write(w)
    <3>1. /\ users' = users /\ flushMu' = flushMu /\ pc'[w] \in Carrying
          /\ \A v \in blind' : v = w \/ v \in blind
      BY <1>0, <2>3 DEF Merge, MergeBlind, MergeWith, Open, Write, history, TypeOK, Carrying
    <3> QED
      BY <1>1, <2>1, <2>2, <3>1, QuietFrame
  <2>4. CASE NothingToFlush(w) \/ Rename(w) \/ RenameFindsNothing(w) \/ SyscallFails(w)
    <3>1. Return(w)
      BY <2>4 DEF NothingToFlush, Rename, RenameFindsNothing, SyscallFails, GiveUp
    <3>2. /\ users' = users /\ w \notin blind' /\ blind' \subseteq blind
          /\ \A p \in Procs : p # ProcOf[w] => flushMu'[p] = flushMu[p]
      BY <1>0, <2>2, <3>1 DEF Return, TypeOK
    <3> QED
      BY <1>1, <2>1, <2>2, <3>2, QuietFrame
  <2> QED
    BY <1>4, <2>3, <2>4 DEF FlushStep
<1>5. ASSUME NEW p \in Procs, Crash(p) PROVE Quiet'
  <2>1. /\ users' = users /\ blind' = { w \in blind : ProcOf[w] # p }
        /\ \A w \in Workers : pc'[w] = IF ProcOf[w] = p THEN "idle" ELSE pc[w]
        /\ \A q \in Procs : mem'[q] = IF q = p THEN Zero ELSE mem[q]
        /\ \A q \in Procs : flushMu'[q] = IF q = p THEN Nobody ELSE flushMu[q]
    BY <1>0, <1>5 DEF Crash, TypeOK
  <2> QED
    BY <1>1, <2>1 DEF Quiet
<1> QED
  BY <1>2, <1>3, <1>4, <1>5, StepCases DEF RecordStep

\* The units stay where they are.
LEMMA BalanceFrame ==
  ASSUME NEW p, Balance(p), ReadTotals' = ReadTotals, mem' = mem, recorded' = recorded,
         lost' = lost, InFlight(p)' = InFlight(p)
  PROVE  Balance(p)'
  BY DEF Balance

LEMMA SameInFlight ==
  ASSUME NEW p, flushMu' = flushMu, delta' = delta
  PROVE  InFlight(p)' = InFlight(p)
  BY DEF InFlight

\* A call begins.
LEMMA RecordOwn ==
  ASSUME NEW p \in Procs, Has(p), NEW w \in Workers, Record(w)
  PROVE  Kept(p)'
<1>1. /\ UNCHANGED <<mem, flushMu, delta, merged, fd, path, tmp, data, recorded, lost, blind>>
      /\ pc' = [pc EXCEPT ![w] = "adding"] /\ TypeOK
  BY DEF Record, files, Has, SharedInv
<1>2. ReadTotals' = ReadTotals
  BY <1>1, ReadFrame
<1>3. Balance(p)'
  BY <1>1, <1>2, SameInFlight, BalanceFrame DEF Has, Kept
<1>4. ASSUME NEW v \in Workers PROVE Publishes(v)'
  <2>1. pc'[v] \in Carrying => pc'[v] = pc[v]
    BY <1>1 DEF TypeOK, Carrying
  <2> QED
    BY <1>1, <2>1, PublishesFrame DEF Has, Kept
<1> QED
  BY <1>1, <1>3, <1>4 DEF Has, Kept, Filed

\* Every unit that is recorded goes into the counter.
LEMMA AddOwn ==
  ASSUME NEW p \in Procs, Has(p), NEW w \in Workers, Add(w)
  PROVE  Kept(p)'
<1> DEFINE h == Head(todo[w])
<1>1. TypeOK /\ ProcOf[w] = p
  BY OnlyOwn DEF Has, Add
<1>2. /\ UNCHANGED <<flushMu, pc, delta, merged, fd, path, tmp, data, lost, blind>>
      /\ mem' = [mem EXCEPT ![p][h] = @ + 1] /\ recorded' = [recorded EXCEPT ![h] = @ + 1]
  BY <1>1 DEF Add, files
<1>3. h \in Fields
  BY <1>1, TailLemma DEF Add, TypeOK
<1>4. ReadTotals' = ReadTotals /\ InFlight(p)' = InFlight(p)
  BY <1>1, <1>2, ReadFrame, SameInFlight
<1> HIDE DEF h
<1>5. \A f \in Fields : /\ recorded'[f] = IF f = h THEN recorded[f] + 1 ELSE recorded[f]
                        /\ mem'[p][f] = IF f = h THEN mem[p][f] + 1 ELSE mem[p][f]
  BY <1>1, <1>2, <1>3 DEF TypeOK, Totals
<1>6. Balance(p)'
  <2> SUFFICES ASSUME NEW f \in Fields
               PROVE  recorded'[f] = ReadTotals'[f] + mem'[p][f] + InFlight(p)'[f] + lost'[f]
    BY DEF Balance
  <2>1. recorded[f] = ReadTotals[f] + mem[p][f] + InFlight(p)[f] + lost[f]
    BY DEF Has, Kept, Balance
  <2>2. /\ ReadTotals[f] \in Nat /\ mem[p][f] \in Nat /\ InFlight(p)[f] \in Nat /\ lost[f] \in Nat
    BY <1>1, ReadType, InFlightType DEF TypeOK, Totals
  <2> QED
    BY <1>2, <1>4, <1>5, <2>1, <2>2
<1>7. \A v \in Workers : Publishes(v)'
  BY <1>2, PublishesFrame DEF Has, Kept
<1> QED
  BY <1>2, <1>6, <1>7 DEF Has, Kept, Filed

\* A flush begins with nothing in its hands.
LEMMA LockOwn ==
  ASSUME NEW p \in Procs, Has(p), NEW w \in Workers, Lock(w)
  PROVE  Kept(p)'
<1>1. TypeOK /\ ProcOf[w] = p
  BY OnlyOwn DEF Has, Lock
<1>2. /\ UNCHANGED <<mem, delta, merged, fd, path, tmp, data, recorded, lost, blind>>
      /\ pc[w] = "adding" /\ pc' = [pc EXCEPT ![w] = "swapping"]
      /\ flushMu[p] = Nobody /\ flushMu' = [flushMu EXCEPT ![p] = w]
  BY <1>1 DEF Lock, CanLock, files, history
<1>3. delta[w] = Zero
  BY <1>2 DEF Has, SharedInv, Hands, Flushing
<1>4. InFlight(p)' = InFlight(p)
  BY <1>1, <1>2, <1>3, NobodyAssumption DEF InFlight, TypeOK
<1>5. ReadTotals' = ReadTotals
  BY <1>2, ReadFrame
<1>6. Balance(p)'
  BY <1>2, <1>4, <1>5, BalanceFrame DEF Has, Kept
<1>7. ASSUME NEW v \in Workers PROVE Publishes(v)'
  <2>1. pc'[v] \in Carrying => pc'[v] = pc[v]
    BY <1>1, <1>2 DEF TypeOK, Carrying
  <2> QED
    BY <1>2, <2>1, PublishesFrame DEF Has, Kept
<1> QED
  BY <1>2, <1>6, <1>7 DEF Has, Kept, Filed

\* A swap moves the units of one counter into the hands of the flush.
LEMMA SwapOwn ==
  ASSUME NEW p \in Procs, Has(p), NEW w \in Workers, Swap(w)
  PROVE  Kept(p)'
<1> DEFINE h == Head(todo[w])
<1>1. TypeOK /\ ProcOf[w] = p
  BY OnlyOwn DEF Has, Swap
<1>2. /\ UNCHANGED <<flushMu, pc, merged, fd, path, tmp, data, recorded, lost, blind>>
      /\ pc[w] = "swapping" /\ todo[w] \in Seq(Fields) /\ todo[w] # <<>>
      /\ mem' = [mem EXCEPT ![p][h] = 0] /\ delta' = [delta EXCEPT ![w][h] = mem[p][h]]
  BY <1>1 DEF Swap, files, history, TypeOK
<1>3. h \in Fields /\ delta[w][h] = 0
  <2>1. h = todo[w][1] /\ 1 \in 1 .. Len(todo[w]) /\ h \in Fields
    BY <1>2
  <2>2. In(h, todo[w])
    BY <2>1 DEF In
  <2> QED
    BY <1>2, <2>1, <2>2 DEF Has, SharedInv, Hands
<1> HIDE DEF h
<1>4. flushMu[p] = w /\ InFlight(p) = delta[w]
  BY <1>1, <1>2, InFlightType DEF TypeOK, Flushing
<1>5. InFlight(p)' = delta'[w]
  BY <1>1, <1>2, <1>4, NobodyAssumption DEF InFlight
<1>6. \A f \in Fields : /\ mem'[p][f] = IF f = h THEN 0 ELSE mem[p][f]
                        /\ delta'[w][f] = IF f = h THEN mem[p][f] ELSE delta[w][f]
  BY <1>1, <1>2, <1>3 DEF TypeOK, Totals
<1>7. Balance(p)'
  <2> SUFFICES ASSUME NEW f \in Fields
               PROVE  recorded'[f] = ReadTotals'[f] + mem'[p][f] + InFlight(p)'[f] + lost'[f]
    BY DEF Balance
  <2>1. recorded[f] = ReadTotals[f] + mem[p][f] + delta[w][f] + lost[f]
    BY <1>4 DEF Has, Kept, Balance
  <2>2. /\ ReadTotals[f] \in Nat /\ mem[p][f] \in Nat /\ delta[w][f] \in Nat /\ lost[f] \in Nat
    BY <1>1, ReadType DEF TypeOK, Totals
  <2>3. ReadTotals' = ReadTotals
    BY <1>2, ReadFrame
  <2> QED
    BY <1>2, <1>3, <1>5, <1>6, <2>1, <2>2, <2>3
<1>8. ASSUME NEW v \in Workers PROVE Publishes(v)'
  <2>1. pc'[v] \in Carrying => delta'[v] = delta[v]
    BY <1>1, <1>2 DEF TypeOK, Carrying
  <2> QED
    BY <1>2, <2>1, PublishesFrame DEF Has, Kept
<1> QED
  BY <1>2, <1>7, <1>8 DEF Has, Kept, Filed

\* A crash of p destroys what it has; that of another process, which has recorded
\* nothing, destroys nothing.
LEMMA CrashOwn ==
  ASSUME NEW p \in Procs, Has(p), NEW q \in Procs, Crash(q)
  PROVE  Kept(p)'
<1>1. TypeOK
  BY DEF Has, SharedInv
<1>2. /\ UNCHANGED <<path, tmp, data, recorded>>
      /\ mem' = [mem EXCEPT ![q] = Zero] /\ flushMu' = [flushMu EXCEPT ![q] = Nobody]
      /\ lost' = Plus(Plus(lost, mem[q]), InFlight(q))
      /\ blind' = { w \in blind : ProcOf[w] # q }
      /\ \A v \in Workers : pc'[v] = IF ProcOf[v] = q THEN "idle" ELSE pc[v]
      /\ \A v \in Workers : ProcOf[v] # q => delta'[v] = delta[v] /\ merged'[v] = merged[v]
                                              /\ fd'[v] = fd[v]
  BY DEF Crash, files, InFlight
<1>3. ReadTotals' = ReadTotals
  BY <1>2, ReadFrame
<1>4. \A f \in Fields : lost'[f] = (lost[f] + mem[q][f]) + InFlight(q)[f]
  BY <1>1, <1>2, PlusType, InFlightType DEF TypeOK
<1>5. Balance(p)'
  <2> SUFFICES ASSUME NEW f \in Fields
               PROVE  recorded'[f] = ReadTotals'[f] + mem'[p][f] + InFlight(p)'[f] + lost'[f]
    BY DEF Balance
  <2>1. recorded[f] = ReadTotals[f] + mem[p][f] + InFlight(p)[f] + lost[f]
    BY DEF Has, Kept, Balance
  <2>2. /\ ReadTotals[f] \in Nat /\ mem[p][f] \in Nat /\ InFlight(p)[f] \in Nat /\ lost[f] \in Nat
    BY <1>1, ReadType, InFlightType DEF TypeOK, Totals
  <2>3. CASE q = p
    <3>1. mem'[p][f] = 0 /\ InFlight(p)'[f] = 0
      BY <1>1, <1>2, <2>3, ZeroType DEF InFlight, TypeOK
    <3> QED
      BY <1>2, <1>3, <1>4, <2>1, <2>2, <2>3, <3>1
  <2>4. CASE q # p
    <3>1. mem[q][f] = 0 /\ InFlight(q)[f] = 0
      BY <2>4, ZeroType DEF Has, Alone, Quiet, InFlight
    <3>2. mem'[p] = mem[p] /\ flushMu'[p] = flushMu[p]
      BY <1>1, <1>2, <2>4 DEF TypeOK
    <3>3. InFlight(p)' = InFlight(p)
      <4>1. CASE flushMu[p] = Nobody
        BY <3>2, <4>1 DEF InFlight
      <4>2. CASE flushMu[p] # Nobody
        <5>1. PICK v \in Workers : flushMu[p] = v
          BY <1>1, <4>2 DEF TypeOK
        <5>2. ProcOf[v] # q => delta'[v] = delta[v]
          BY <1>2
        <5>3. CASE ProcOf[v] = q
          <6>1. pc[v] = "idle"
            BY <2>4, <5>3, OnlyOwn DEF Has
          <6>2. delta[v] = Zero /\ delta'[v] = Zero
            BY <5>3, <6>1 DEF Has, SharedInv, Hands, Flushing, Crash
          <6> QED
            BY <3>2, <5>1, <6>2 DEF InFlight
        <5> QED
          BY <3>2, <5>1, <5>2, <5>3 DEF InFlight
      <4> QED
        BY <4>1, <4>2
    <3> QED
      BY <1>2, <1>3, <1>4, <2>1, <2>2, <3>1, <3>2, <3>3
  <2> QED
    BY <2>3, <2>4
<1>6. ASSUME NEW v \in Workers PROVE Publishes(v)'
  BY <1>2, PublishesFrame DEF Has, Kept, Carrying
<1> QED
  BY <1>2, <1>5, <1>6 DEF Has, Kept, Filed

\* While one worker flushes, the others publish nothing.
LEMMA OthersQuiet ==
  ASSUME NEW p \in Procs, Has(p), NEW w \in Workers, pc[w] \in Flushing,
         NEW v \in Workers, v # w, pc'[v] = pc[v]
  PROVE  Publishes(v)'
<1>1. pc[v] \notin Flushing
  BY OneFlush DEF Has
<1> QED
  BY <1>1 DEF Publishes, Flushing, Carrying

\* Preparing the file moves no unit.
LEMMA PreparesBalance ==
  ASSUME NEW p, Balance(p), NEW w \in Workers, Merge(w) \/ MergeBlind(w) \/ Open(w) \/ Write(w),
         ReadTotals' = ReadTotals
  PROVE  Balance(p)'
<1>1. UNCHANGED <<mem, flushMu, delta, recorded, lost>>
  BY DEF Merge, MergeBlind, MergeWith, Open, Write, history
<1> QED
  BY <1>1, SameInFlight, BalanceFrame

LEMMA MergeOwn ==
  ASSUME NEW p \in Procs, Has(p), NEW w \in Workers, Merge(w) \/ MergeBlind(w)
  PROVE  Kept(p)' /\ ReadTotals' = ReadTotals
<1>1. /\ UNCHANGED <<delta, path, tmp, data>> /\ TypeOK
      /\ pc[w] = "swapping" /\ pc' = [pc EXCEPT ![w] = "opening"] /\ w \notin blind
  BY DEF Merge, MergeBlind, MergeWith, Swapped, files, Has, SharedInv, Quiet, Carrying
<1>2. ReadTotals' = ReadTotals
  BY <1>1, ReadFrame
<1>3. merged'[w] = Plus(Base(w)', delta[w])
  <2>1. CASE Merge(w)
    BY <1>1, <1>2, <2>1 DEF Merge, MergeWith, Base, TypeOK
  <2>2. CASE MergeBlind(w)
    BY <1>1, <2>2 DEF MergeBlind, MergeWith, Base, TypeOK
  <2> QED
    BY <2>1, <2>2
<1>4. Publishes(w)'
  <2>1. pc'[w] = "opening"
    BY <1>1 DEF TypeOK
  <2> QED
    BY <1>1, <1>3, <2>1 DEF Publishes
<1>5. ASSUME NEW v \in Workers, v # w PROVE Publishes(v)'
  <2>1. pc[w] \in Flushing /\ pc'[v] = pc[v]
    BY <1>1, <1>5 DEF Flushing, TypeOK
  <2> QED
    BY <1>5, <2>1, OthersQuiet
<1>6. Filed'
  BY <1>1 DEF Has, Kept, Filed
<1> QED
  BY <1>2, <1>4, <1>5, <1>6, PreparesBalance DEF Has, Kept

\* The file that is truncated is not the one a reader finds.
LEMMA OpenOwn ==
  ASSUME NEW p \in Procs, Has(p), NEW w \in Workers, Open(w)
  PROVE  Kept(p)' /\ ReadTotals' = ReadTotals
<1>1. PICK i \in (IF tmp = NoFile THEN FreeInodes ELSE {tmp}) :
           /\ tmp' = i /\ path' = path
           /\ data' = [data EXCEPT ![i] = Empty]
           /\ fd' = [fd EXCEPT ![w] = i]
  BY DEF Open, PathDuringWrite
<1>2. /\ TypeOK /\ delta' = delta /\ merged' = merged /\ blind' = blind
      /\ pc[w] = "opening" /\ pc' = [pc EXCEPT ![w] = "writing"]
  BY DEF Open, Has, SharedInv, history
<1>3. i \in Inodes /\ i # NoFile /\ (path # NoFile => i # path)
  BY <1>1, <1>2, NoFileAssumption DEF FreeInodes, TypeOK, Has, Kept, Filed
<1>4. path # NoFile => data'[path] = data[path]
  BY <1>1, <1>2, <1>3 DEF TypeOK
<1>5. ReadTotals' = ReadTotals /\ Base(w)' = Base(w)
  BY <1>1, <1>2, <1>4, ReadFrame DEF Base
<1>6. Publishes(w)'
  <2>1. /\ pc'[w] = "writing" /\ fd'[w] = i /\ data'[i] = Empty
        /\ merged[w] = Plus(Base(w), delta[w])
    BY <1>1, <1>2, <1>3 DEF TypeOK, Has, Kept, Publishes, Carrying
  <2> QED
    BY <1>1, <1>2, <1>3, <1>5, <2>1 DEF Publishes
<1>7. ASSUME NEW v \in Workers, v # w PROVE Publishes(v)'
  <2>1. pc[w] \in Flushing /\ pc'[v] = pc[v]
    BY <1>2, <1>7 DEF Flushing, TypeOK
  <2> QED
    BY <1>7, <2>1, OthersQuiet
<1>8. Filed'
  BY <1>1, <1>3, <1>4 DEF Has, Kept, Filed
<1> QED
  BY <1>5, <1>6, <1>7, <1>8, PreparesBalance DEF Has, Kept

LEMMA WriteOwn ==
  ASSUME NEW p \in Procs, Has(p), NEW w \in Workers, Write(w)
  PROVE  Kept(p)' /\ ReadTotals' = ReadTotals
<1>1. /\ TypeOK /\ delta' = delta /\ merged' = merged /\ fd' = fd
      /\ path' = path /\ tmp' = tmp /\ blind' = blind
      /\ pc[w] = "writing" /\ pc' = [pc EXCEPT ![w] = "renaming"]
  BY DEF Write, Has, SharedInv, history
<1>2. /\ fd[w] = tmp /\ tmp \in Inodes /\ data[tmp] = Empty /\ tmp # NoFile
      /\ merged[w] = Plus(Base(w), delta[w])
  BY <1>1 DEF Has, Kept, Publishes, TypeOK, Carrying
<1>3. data' = [data EXCEPT ![tmp] = merged[w]]
  BY <1>2 DEF Write
<1>4. path # NoFile => data'[path] = data[path]
  BY <1>1, <1>3 DEF TypeOK, Has, Kept, Filed
<1>5. ReadTotals' = ReadTotals /\ Base(w)' = Base(w)
  BY <1>1, <1>4, ReadFrame DEF Base
<1>6. Publishes(w)'
  <2>1. pc'[w] = "renaming" /\ data'[tmp] = merged[w]
    BY <1>1, <1>2, <1>3 DEF TypeOK
  <2> QED
    BY <1>1, <1>2, <1>5, <2>1 DEF Publishes
<1>7. ASSUME NEW v \in Workers, v # w PROVE Publishes(v)'
  <2>1. pc[w] \in Flushing /\ pc'[v] = pc[v]
    BY <1>1, <1>7 DEF Flushing, TypeOK
  <2> QED
    BY <1>7, <2>1, OthersQuiet
<1>8. Filed'
  BY <1>1, <1>4 DEF Has, Kept, Filed
<1> QED
  BY <1>5, <1>6, <1>7, <1>8, PreparesBalance DEF Has, Kept

\* What the end of a flush leaves behind.
LEMMA ReturnOwn ==
  ASSUME NEW p \in Procs, Has(p), NEW w \in Workers, pc[w] \in Flushing, Return(w)
  PROVE  /\ TypeOK
         /\ \A v \in Workers : Publishes(v)'
         /\ InFlight(p) = delta[w] /\ InFlight(p)' = Zero
<1>1. TypeOK /\ ProcOf[w] = p
  BY OnlyOwn DEF Has, Flushing
<1>2. /\ pc'[w] = "idle" /\ flushMu'[p] = Nobody
      /\ \A v \in Workers : v # w => pc'[v] = pc[v]
  BY <1>1, ReturnTypes
<1>3. Publishes(w)'
  BY <1>2 DEF Publishes, Carrying
<1>4. \A v \in Workers : v # w => Publishes(v)'
  BY <1>2, OthersQuiet
<1>5. flushMu[p] = w
  BY <1>1 DEF TypeOK
<1>6. InFlight(p) = delta[w] /\ InFlight(p)' = Zero
  BY <1>1, <1>2, <1>5, NobodyAssumption DEF InFlight
<1> QED
  BY <1>1, <1>3, <1>4, <1>6

LEMMA NothingToFlushOwn ==
  ASSUME NEW p \in Procs, Has(p), NEW w \in Workers, NothingToFlush(w)
  PROVE  Kept(p)' /\ ReadTotals' = ReadTotals
<1>1. /\ pc[w] \in Flushing /\ Return(w) /\ delta[w] = Zero
      /\ UNCHANGED <<mem, path, tmp, data, recorded, lost>>
  BY DEF NothingToFlush, Swapped, Flushing, files
<1>2. ReadTotals' = ReadTotals
  BY <1>1, ReadFrame
<1>3. Balance(p)'
  BY <1>1, <1>2, ReturnOwn, BalanceFrame DEF Has, Kept
<1> QED
  BY <1>1, <1>2, <1>3, ReturnOwn DEF Has, Kept, Filed

\* The rename publishes what the flush knew of the history, with what it had in
\* its hands.
LEMMA RenameOwn ==
  ASSUME NEW p \in Procs, Has(p), NEW w \in Workers, Rename(w)
  PROVE  Kept(p)' /\ ReadTotals' = Plus(Base(w), delta[w])
<1>1. /\ pc[w] = "renaming" /\ path' = tmp /\ tmp' = NoFile /\ data' = data
      /\ Return(w) /\ UNCHANGED <<mem, recorded>> /\ pc[w] \in Flushing
      /\ lost' = IF w \in blind THEN Plus(lost, ReadTotals) ELSE lost
  BY DEF Rename, Flushing
<1>2. TypeOK /\ (\A v \in Workers : Publishes(v)') /\ InFlight(p) = delta[w] /\ InFlight(p)' = Zero
  BY <1>1, ReturnOwn
<1>3. tmp # NoFile /\ data[tmp] = merged[w] /\ merged[w] = Plus(Base(w), delta[w])
  BY <1>1 DEF Has, Kept, Publishes, Carrying
<1>4. merged[w] \in Totals
  BY <1>2 DEF TypeOK
<1>5. ReadTotals' = Plus(Base(w), delta[w]) /\ Filed'
  BY <1>1, <1>3, <1>4 DEF ReadTotals, Filed
<1>6. Balance(p)'
  <2> SUFFICES ASSUME NEW f \in Fields
               PROVE  recorded'[f] = ReadTotals'[f] + mem'[p][f] + InFlight(p)'[f] + lost'[f]
    BY DEF Balance
  <2>1. recorded[f] = ReadTotals[f] + mem[p][f] + delta[w][f] + lost[f]
    BY <1>2 DEF Has, Kept, Balance
  <2>2. InFlight(p)'[f] = 0
    BY <1>2, ZeroType
  <2>3. /\ ReadTotals \in Totals /\ delta[w] \in Totals /\ lost \in Totals
        /\ ReadTotals[f] \in Nat /\ mem[p][f] \in Nat /\ delta[w][f] \in Nat /\ lost[f] \in Nat
    BY <1>2, ReadType DEF TypeOK, Totals
  <2>4. CASE w \in blind
    <3>1. ReadTotals'[f] = Zero[f] + delta[w][f] /\ Zero[f] = 0
      BY <1>5, <2>3, <2>4, ZeroType, PlusType DEF Base
    <3>2. lost'[f] = lost[f] + ReadTotals[f]
      BY <1>1, <2>3, <2>4, PlusType
    <3> QED
      BY <1>1, <2>1, <2>2, <2>3, <3>1, <3>2
  <2>5. CASE w \notin blind
    <3>1. ReadTotals'[f] = ReadTotals[f] + delta[w][f]
      BY <1>5, <2>3, <2>5, PlusType DEF Base
    <3> QED
      BY <1>1, <2>1, <2>2, <2>3, <2>5, <3>1
  <2> QED
    BY <2>4, <2>5
<1> QED
  BY <1>2, <1>5, <1>6 DEF Kept

\* A flush that fails loses what it had in its hands, and nothing else.
LEMMA FailsOwn ==
  ASSUME NEW p \in Procs, Has(p), NEW w \in Workers, RenameFindsNothing(w) \/ SyscallFails(w)
  PROVE  Kept(p)' /\ ReadTotals' = ReadTotals
<1>1. /\ pc[w] \in Flushing /\ Return(w)
      /\ UNCHANGED <<mem, path, tmp, recorded>>
      /\ lost' = Plus(lost, delta[w])
  BY DEF RenameFindsNothing, SyscallFails, GiveUp, CountersAfterFailure, Flushing
<1>2. TypeOK /\ (\A v \in Workers : Publishes(v)') /\ InFlight(p) = delta[w] /\ InFlight(p)' = Zero
  BY <1>1, ReturnOwn
<1>3. path # NoFile => data'[path] = data[path]
  <2>1. CASE data' = data
    BY <2>1
  <2>2. CASE pc[w] = "writing" /\ \E text \in {data[fd[w]], Torn} : data' = [data EXCEPT ![fd[w]] = text]
    BY <1>2, <2>2 DEF TypeOK, Has, Kept, Filed, Publishes
  <2> QED
    BY <2>1, <2>2 DEF RenameFindsNothing, SyscallFails
<1>4. ReadTotals' = ReadTotals
  BY <1>1, <1>3, ReadFrame
<1>5. Filed'
  BY <1>1, <1>3 DEF Has, Kept, Filed
<1>6. Balance(p)'
  <2> SUFFICES ASSUME NEW f \in Fields
               PROVE  recorded'[f] = ReadTotals'[f] + mem'[p][f] + InFlight(p)'[f] + lost'[f]
    BY DEF Balance
  <2>1. recorded[f] = ReadTotals[f] + mem[p][f] + delta[w][f] + lost[f]
    BY <1>2 DEF Has, Kept, Balance
  <2>2. lost'[f] = lost[f] + delta[w][f]
    BY <1>1, <1>2, PlusType DEF TypeOK
  <2>3. InFlight(p)'[f] = 0
    BY <1>2, ZeroType
  <2>4. /\ ReadTotals[f] \in Nat /\ mem[p][f] \in Nat /\ delta[w][f] \in Nat /\ lost[f] \in Nat
    BY <1>2, ReadType DEF TypeOK, Totals
  <2> QED
    BY <1>1, <1>4, <2>1, <2>2, <2>3, <2>4
<1> QED
  BY <1>2, <1>4, <1>5, <1>6 DEF Kept

\* Who has the file for itself after a step had it before.
LEMMA AloneBefore ==
  ASSUME NEW p, [Next]_vars, Alone(p)'
  PROVE  Alone(p)
<1>1. users \subseteq users'
  BY DEF Next, vars, history, Record, Add, Lock, Swap, NothingToFlush, Merge, MergeBlind, MergeWith,
     Open, Write, Rename, RenameFindsNothing, SyscallFails, GiveUp, Return, Crash
<1> QED
  BY <1>1 DEF Alone

LEMMA KeptStep ==
  ASSUME NEW p \in Procs, Has(p), [Next]_vars
  PROVE  Kept(p)'
<1>1. CASE UNCHANGED vars
  BY <1>1 DEF vars, files, history, Has, Kept, Filed, Publishes, Base, Balance, ReadTotals, InFlight
<1>2. ASSUME NEW w \in Workers, Record(w) \/ Add(w) \/ Lock(w) \/ Swap(w) PROVE Kept(p)'
  BY <1>2, RecordOwn, AddOwn, LockOwn, SwapOwn
<1>3. ASSUME NEW w \in Workers, FlushStep(w) PROVE Kept(p)'
  BY <1>3, MergeOwn, OpenOwn, WriteOwn, NothingToFlushOwn, RenameOwn, FailsOwn DEF FlushStep
<1>4. ASSUME NEW q \in Procs, Crash(q) PROVE Kept(p)'
  BY <1>4, CrashOwn
<1> QED
  BY <1>1, <1>2, <1>3, <1>4, StepCases

LEMMA OwnStep == OwnInv /\ [Next]_vars => OwnInv'
<1> SUFFICES ASSUME OwnInv, [Next]_vars PROVE OwnInv'
  OBVIOUS
<1>1. SharedInv' /\ Quiet'
  BY SharedStep, QuietStep DEF OwnInv
<1>2. ASSUME NEW p \in Procs, Alone(p)' PROVE Kept(p)'
  <2>1. Has(p)
    BY <1>2, AloneBefore DEF OwnInv, Has
  <2> QED
    BY <2>1, KeptStep
<1> QED
  BY <1>1, <1>2 DEF OwnInv

THEOREM StatsOwn == Spec => []OwnInv
  BY InitOwn, OwnStep, PTL DEF Spec

\* Any number of workers, crashes and failed system calls, and any number of
\* processes, of which one only has recorded: every unit recorded is in the file,
\* in a counter, in the running flush or destroyed, and in one of them only.
THEOREM StatsConserved == Spec => []Conserved
<1>1. OwnInv => Conserved
  BY DEF OwnInv, Kept, Balance, Conserved
<1> QED
  BY <1>1, StatsOwn, PTL

\* Such a process keeps the promise of stats.go:94: complete records or no file.
THEOREM StatsNeverCorruptedAlone == Spec => []NeverCorruptedAlone
<1>1. OwnInv => NeverCorruptedAlone
  BY DEF OwnInv, Kept, Filed, NeverCorruptedAlone, FileNeverCorrupted
<1> QED
  BY <1>1, StatsOwn, PTL

\* Such a process makes the history shorter in no counter and by no step, be it a
\* crash in the middle of a flush or a write that fails, except by the rename of
\* a flush that could not read the file.
THEOREM StatsHistoryOnlyGrows == Spec => HistoryOnlyGrows
<1> DEFINE Grows == \A f \in Fields : ReadTotals[f] <= ReadTotals'[f]
           StartsAgain == \E w \in blind : pc[w] = "renaming" /\ pc'[w] = "idle" /\ path' = tmp
           Step == (\E p \in Procs : Alone(p)') =>
                      \/ \A f \in Fields : ReadTotals[f] <= ReadTotals'[f]
                      \/ \E w \in blind : pc[w] = "renaming" /\ pc'[w] = "idle" /\ path' = tmp
<1>1. ASSUME OwnInv, [Next]_vars PROVE Step
  <2> SUFFICES ASSUME NEW p \in Procs, Alone(p)' PROVE Grows \/ StartsAgain
    OBVIOUS
  <2>1. Has(p) /\ TypeOK
    BY <1>1, AloneBefore DEF OwnInv, Has, SharedInv
  <2>2. \A f \in Fields : ReadTotals[f] \in Nat
    BY <2>1, ReadType DEF Totals
  <2>3. ReadTotals' = ReadTotals => Grows
    BY <2>2
  <2>4. ASSUME NEW w \in Workers, Rename(w) PROVE Grows \/ StartsAgain
    <3>1. CASE w \in blind
      <4>1. pc[w] = "renaming" /\ pc'[w] = "idle" /\ path' = tmp
        BY <2>1, <2>4 DEF Rename, Return, TypeOK
      <4> QED
        BY <3>1, <4>1
    <3>2. CASE w \notin blind
      <4>1. ReadTotals' = Plus(ReadTotals, delta[w])
        BY <2>1, <2>4, <3>2, RenameOwn DEF Base
      <4>2. ReadTotals \in Totals /\ delta[w] \in Totals
        BY <2>1, ReadType DEF TypeOK
      <4>3. \A f \in Fields : Plus(ReadTotals, delta[w])[f] = ReadTotals[f] + delta[w][f]
        BY <4>2, PlusType
      <4>4. \A f \in Fields : delta[w][f] \in Nat
        BY <4>2 DEF Totals
      <4> QED
        BY <2>2, <4>1, <4>3, <4>4
    <3> QED
      BY <3>1, <3>2
  <2>5. ASSUME NEW w \in Workers, FlushStep(w), ~ Rename(w) PROVE ReadTotals' = ReadTotals
    BY <2>1, <2>5, MergeOwn, OpenOwn, WriteOwn, NothingToFlushOwn, FailsOwn DEF FlushStep
  <2>6. ASSUME NEW w \in Workers, Record(w) \/ Add(w) \/ Lock(w) \/ Swap(w)
        PROVE  ReadTotals' = ReadTotals
    BY <2>6, ReadFrame DEF Record, Add, Lock, Swap, files
  <2>7. ASSUME NEW q \in Procs, Crash(q) PROVE ReadTotals' = ReadTotals
    BY <2>7, ReadFrame DEF Crash, files
  <2>8. CASE UNCHANGED vars
    BY <2>3, <2>8, ReadFrame DEF vars, files
  <2> QED
    BY <1>1, <2>3, <2>4, <2>5, <2>6, <2>7, <2>8, StepCases
<1>2. OwnInv /\ [Next]_vars => [Step]_vars
  BY <1>1
<1> HIDE DEF Step
<1>3. Spec => [][Step]_vars
  BY <1>2, StatsOwn, PTL DEF Spec
<1> QED
  BY <1>3 DEF HistoryOnlyGrows, Step
=============================================================================
