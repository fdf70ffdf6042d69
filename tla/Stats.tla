------------------------------- MODULE Stats -------------------------------
(***************************************************************************)
(* internal/stats/stats.go: the counters a wrapper process keeps in memory *)
(* and merges into a file.  Goroutines (Workers) of one or several wrapper *)
(* processes (Procs) that use the same config key share the file and the   *)
(* temporary file next to it.  Atomic counter operations, system calls and *)
(* lock operations are one step each.  Amounts are abstracted to one unit  *)
(* per record.                                                             *)
(***************************************************************************)
EXTENDS Integers, Sequences

CONSTANTS Procs,       \* wrapper processes with the same stats path
          Workers,     \* their goroutines that record something
          ProcOf,      \* worker -> its process
          Kinds,       \* what is recorded: "cache", "seek", "save"
          Inodes,      \* files of the file system
          NoFile,      \* a name that leads nowhere, a descriptor not open
          Nobody,      \* flushMu is free
          Empty, Torn, \* contents of a file that json.Unmarshal rejects
          MaxRecords, MaxCrashes, MaxFaults  \* bounds on what the environment does

ASSUME ProcOfAssumption == ProcOf \in [Workers -> Procs]
ASSUME NobodyAssumption == Nobody \notin Workers
ASSUME NoFileAssumption == NoFile \notin Inodes
ASSUME KindsAssumption == Kinds \subseteq {"cache", "seek", "save"}

Fields == {"bytesCached", "bytesSent", "responsesCached", "seekCalls"}
Totals == [Fields -> Nat]

ASSUME UnreadableAssumption == Empty \notin Totals /\ Torn \notin Totals

VARIABLES
    mem,       \* process -> its atomic counters
    flushMu,   \* process -> the worker that holds flushMu
    pc,        \* worker -> where it is
    todo,      \* worker -> the counters it still has to add to or to swap
    delta,     \* worker -> what its flush took out of the counters
    merged,    \* worker -> the totals its flush is about to write
    fd,        \* worker -> the inode os.WriteFile has open
    path, tmp, \* what the names <path> and <path>.tmp lead to
    data,      \* inode -> its contents
    recorded,  \* history: everything ever added to a counter
    lost,      \* history: what crashes and failed system calls destroyed
    blind,     \* history: the workers whose flush could not read the file
    users,     \* history: the processes that have recorded something
    records, crashes, faults  \* the environment's budgets, used so far

files == <<path, tmp, data>>
history == <<recorded, lost, blind, users>>
budgets == <<records, crashes, faults>>
vars == <<mem, flushMu, pc, todo, delta, merged, fd, files, history, budgets>>

Zero == [f \in Fields |-> 0]
Plus(s, t) == [f \in Fields |-> s[f] + t[f]]

\* readTotals of a file that can be read: one that is missing or does not parse
\* counts as all zero.  (So does one that cannot be read: see MergeBlind.)
ReadTotals == IF path = NoFile \/ data[path] \notin Totals THEN Zero ELSE data[path]

\* The counters a Record method adds to, and flush swaps, in source order.
Adds(kind) == CASE kind = "cache" -> <<"bytesCached", "bytesSent", "responsesCached">>
                [] kind = "seek"  -> <<"seekCalls">>
                [] kind = "save"  -> <<>>
BugSwapsNoSeeks == <<"bytesCached", "bytesSent", "responsesCached">>
Swaps == <<"bytesCached", "bytesSent", "responsesCached", "seekCalls">>

Init ==
    /\ mem = [p \in Procs |-> Zero]
    /\ flushMu = [p \in Procs |-> Nobody]
    /\ pc = [w \in Workers |-> "idle"]
    /\ todo = [w \in Workers |-> <<>>]
    /\ delta = [w \in Workers |-> Zero]
    /\ merged = [w \in Workers |-> Zero]
    /\ fd = [w \in Workers |-> NoFile]
    /\ path = NoFile /\ tmp = NoFile
    /\ data = [i \in Inodes |-> Empty]
    /\ recorded = Zero /\ lost = Zero /\ blind = {} /\ users = {}
    /\ records = 0 /\ crashes = 0 /\ faults = 0

-----------------------------------------------------------------------------
\* RecordCache, RecordSeek or Save is called.
Record(w) ==
    /\ pc[w] = "idle"
    /\ records < MaxRecords
    /\ records' = records + 1
    /\ \E kind \in Kinds : todo' = [todo EXCEPT ![w] = Adds(kind)]
    /\ pc' = [pc EXCEPT ![w] = "adding"]
    /\ users' = users \cup {ProcOf[w]}
    /\ UNCHANGED <<mem, flushMu, delta, merged, fd, files, recorded, lost, blind, crashes, faults>>

Add(w) ==
    /\ pc[w] = "adding"
    /\ todo[w] # <<>>
    /\ mem' = [mem EXCEPT ![ProcOf[w]][Head(todo[w])] = @ + 1]
    /\ recorded' = [recorded EXCEPT ![Head(todo[w])] = @ + 1]
    /\ todo' = [todo EXCEPT ![w] = Tail(@)]
    /\ UNCHANGED <<flushMu, pc, delta, merged, fd, files, lost, blind, users, budgets>>

BugNoLock(w) == TRUE

\* The mutex of the worker's own process is free.
CanLock(w) == flushMu[ProcOf[w]] = Nobody

\* flush begins.
Lock(w) ==
    /\ pc[w] = "adding" /\ todo[w] = <<>>
    /\ CanLock(w)
    /\ flushMu' = [flushMu EXCEPT ![ProcOf[w]] = w]
    /\ todo' = [todo EXCEPT ![w] = Swaps]
    /\ pc' = [pc EXCEPT ![w] = "swapping"]
    /\ UNCHANGED <<mem, delta, merged, fd, files, history, budgets>>

Swap(w) ==
    /\ pc[w] = "swapping"
    /\ todo[w] # <<>>
    /\ LET f == Head(todo[w]) IN
         /\ delta' = [delta EXCEPT ![w][f] = mem[ProcOf[w]][f]]
         /\ mem' = [mem EXCEPT ![ProcOf[w]][f] = 0]
    /\ todo' = [todo EXCEPT ![w] = Tail(@)]
    /\ UNCHANGED <<flushMu, pc, merged, fd, files, history, budgets>>

BugStaysOpen(w) == fd[w]

\* os.WriteFile closes what it has opened.
Closed(w) == NoFile

\* flush returns; what it held is in the file, or gone.
Return(w) ==
    /\ flushMu' = [flushMu EXCEPT ![ProcOf[w]] = Nobody]
    /\ pc' = [pc EXCEPT ![w] = "idle"]
    /\ delta' = [delta EXCEPT ![w] = Zero]
    /\ merged' = [merged EXCEPT ![w] = Zero]
    /\ fd' = [fd EXCEPT ![w] = Closed(w)]
    /\ blind' = blind \ {w}
    /\ UNCHANGED users

Swapped(w) == pc[w] = "swapping" /\ todo[w] = <<>>

NothingToFlush(w) ==
    /\ Swapped(w) /\ delta[w] = Zero
    /\ Return(w)
    /\ UNCHANGED <<mem, todo, files, recorded, lost, budgets>>

\* The delta is added to what readTotals returned.
MergeWith(w, existing) ==
    /\ Swapped(w) /\ delta[w] # Zero
    /\ merged' = [merged EXCEPT ![w] = Plus(existing, delta[w])]
    /\ pc' = [pc EXCEPT ![w] = "opening"]
    /\ UNCHANGED <<mem, flushMu, todo, delta, fd, files, recorded, lost, users, records, crashes>>

Merge(w) == MergeWith(w, ReadTotals) /\ UNCHANGED <<blind, faults>>

\* os.ReadFile fails: readTotals returns all zero, and flush goes on with that.
MergeBlind(w) ==
    /\ faults < MaxFaults
    /\ faults' = faults + 1
    /\ blind' = blind \cup {w}
    /\ MergeWith(w, Zero)

FreeInodes == Inodes \ ({path, tmp} \cup { fd[w] : w \in Workers })

BugWritesInPlace(i) == i

\* What <path> leads to when the file to write is open: what it led to before.
PathDuringWrite(i) == path

\* os.WriteFile, first half: open with O_CREATE and O_TRUNC.
Open(w) ==
    /\ pc[w] = "opening"
    /\ \E i \in (IF tmp = NoFile THEN FreeInodes ELSE {tmp}) :
         /\ tmp' = i
         /\ path' = PathDuringWrite(i)
         /\ data' = [data EXCEPT ![i] = Empty]
         /\ fd' = [fd EXCEPT ![w] = i]
    /\ pc' = [pc EXCEPT ![w] = "writing"]
    /\ UNCHANGED <<mem, flushMu, todo, delta, merged, history, budgets>>

\* os.WriteFile, second half: one write at offset 0.  Onto a file that somebody
\* filled meanwhile it leaves the new text, or the new text with the end of a
\* longer old one.
Write(w) ==
    /\ pc[w] = "writing"
    /\ \E text \in {merged[w]} \cup (IF data[fd[w]] = Empty THEN {} ELSE {Torn}) :
         data' = [data EXCEPT ![fd[w]] = text]
    /\ pc' = [pc EXCEPT ![w] = "renaming"]
    /\ UNCHANGED <<mem, flushMu, todo, delta, merged, fd, path, tmp, history, budgets>>

\* The new file takes the place of the old one.  A flush that could not read the
\* old one destroys with it what it said.
Rename(w) ==
    /\ pc[w] = "renaming"
    /\ tmp # NoFile
    /\ path' = tmp /\ tmp' = NoFile
    /\ lost' = IF w \in blind THEN Plus(lost, ReadTotals) ELSE lost
    /\ Return(w)
    /\ UNCHANGED <<mem, todo, data, recorded, budgets>>

BugRestores(w) == [mem EXCEPT ![ProcOf[w]] = Plus(@, delta[w])]

\* The counters after a flush that failed: nothing goes back into them.
CountersAfterFailure(w) == mem

\* A system call fails and flush returns the error, which Record ignores: the
\* swapped delta is in no counter any more.
GiveUp(w) ==
    /\ mem' = CountersAfterFailure(w)
    /\ lost' = Plus(lost, delta[w])
    /\ Return(w)
    /\ UNCHANGED <<todo, path, tmp, recorded, records, crashes>>

\* Another process's rename took the temporary file away.
RenameFindsNothing(w) ==
    /\ pc[w] = "renaming" /\ tmp = NoFile
    /\ GiveUp(w)
    /\ UNCHANGED <<data, faults>>

\* A call that writeTotals makes fails.
SyscallFails(w) ==
    /\ faults < MaxFaults
    /\ faults' = faults + 1
    /\ \/ pc[w] \in {"opening", "renaming"} /\ UNCHANGED data
       \/ pc[w] = "writing" /\ \E text \in {data[fd[w]], Torn} :
                                 data' = [data EXCEPT ![fd[w]] = text]
    /\ GiveUp(w)

\* The process is killed and started again; its counters are gone, the files
\* stay as they are.
Crash(p) ==
    LET AllOf(f, zero) == [w \in Workers |-> IF ProcOf[w] = p THEN zero ELSE f[w]] IN
    /\ crashes < MaxCrashes
    /\ crashes' = crashes + 1
    /\ lost' = Plus(Plus(lost, mem[p]), IF flushMu[p] = Nobody THEN Zero ELSE delta[flushMu[p]])
    /\ mem' = [mem EXCEPT ![p] = Zero]
    /\ flushMu' = [flushMu EXCEPT ![p] = Nobody]
    /\ pc' = AllOf(pc, "idle") /\ todo' = AllOf(todo, <<>>) /\ fd' = AllOf(fd, NoFile)
    /\ delta' = AllOf(delta, Zero) /\ merged' = AllOf(merged, Zero)
    /\ blind' = { w \in blind : ProcOf[w] # p }
    /\ UNCHANGED <<files, recorded, users, records, faults>>

Next ==
    \/ \E w \in Workers :
         \/ Record(w) \/ Add(w) \/ Lock(w) \/ Swap(w) \/ NothingToFlush(w)
         \/ Merge(w) \/ MergeBlind(w) \/ Open(w) \/ Write(w) \/ Rename(w) \/ RenameFindsNothing(w) \/ SyscallFails(w)
    \/ \E p \in Procs : Crash(p)

Spec == Init /\ [][Next]_vars

-----------------------------------------------------------------------------
(* Properties *)

Flushing == {"swapping", "opening", "writing", "renaming"}

\* Every variable keeps its type; flushMu is held by exactly the worker that is
\* flushing, and a descriptor is open exactly while os.WriteFile and Rename run.
TypeOK ==
    /\ mem \in [Procs -> Totals]
    /\ flushMu \in [Procs -> Workers \cup {Nobody}]
    /\ pc \in [Workers -> {"idle", "adding"} \cup Flushing]
    /\ todo \in [Workers -> Seq(Fields)]
    /\ delta \in [Workers -> Totals] /\ merged \in [Workers -> Totals]
    /\ fd \in [Workers -> Inodes \cup {NoFile}]
    /\ path \in Inodes \cup {NoFile} /\ tmp \in Inodes \cup {NoFile}
    /\ data \in [Inodes -> Totals \cup {Empty, Torn}]
    /\ recorded \in Totals /\ lost \in Totals
    /\ blind \subseteq Workers /\ users \subseteq Procs
    /\ \A w \in Workers :
         /\ pc[w] \in Flushing <=> flushMu[ProcOf[w]] = w
         /\ pc[w] \in {"writing", "renaming"} <=> fd[w] # NoFile

\* What a process's flush has taken out of its counters and not published yet.
InFlight(p) == IF flushMu[p] = Nobody THEN Zero ELSE delta[flushMu[p]]

\* No other process has recorded anything yet.
Alone(p) == users \subseteq {p}

\* As long as one process only has used the file, every unit that was recorded is
\* in exactly one place: in the file, in a counter, in the running flush, or
\* destroyed.  A crash destroys what is in the counters and in the flush, a failed
\* write what is in the flush, a failed read the whole history when the flush
\* that goes on with zero totals publishes them (stats.go:118-121).  Nothing is
\* counted twice and nothing slips between an Add and a Swap.
Conserved ==
    \A p \in Procs : Alone(p) =>
        \A f \in Fields : recorded[f] = ReadTotals[f] + mem[p][f] + InFlight(p)[f] + lost[f]

\* As long as one process only has used the file, no flush, failed write or crash
\* makes the recorded history smaller.  The exception is the rename at the end of a
\* flush that could not read the file: it starts the history again.
HistoryOnlyGrows ==
    [][ (\E p \in Procs : Alone(p)') =>
          \/ \A f \in Fields : ReadTotals[f] <= ReadTotals'[f]
          \/ \E w \in blind : pc[w] = "renaming" /\ pc'[w] = "idle" /\ path' = tmp ]_vars

\* When no call is running, the counters are empty: every Record has reached its
\* own or somebody else's flush.  So nothing is lost when a process ends without
\* its deferred Save (os.Exit and log.Fatal in main.go skip it).
FlushedWhenIdle ==
    \A p \in Procs : (\A w \in Workers : ProcOf[w] = p => pc[w] = "idle") => mem[p] = Zero

\* What a reader of the file finds is a complete record or no file: "the file is
\* never corrupted (atomic rename guarantees a complete write or none)"
\* (stats.go:94-95).
FileNeverCorrupted == path # NoFile => data[path] \in Totals

\* One process alone keeps that promise through crashes and failed calls.
NeverCorruptedAlone == (\E p \in Procs : Alone(p)) => FileNeverCorrupted

\* Several processes on one file may lose counts, but never invent any.
NeverOvercounts == \A f \in Fields : ReadTotals[f] <= recorded[f]
=============================================================================
