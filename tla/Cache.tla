------------------------------- MODULE Cache -------------------------------
(***************************************************************************)
(* internal/cache/cache.go: the bounded LRU cache both transports put      *)
(* oversized tool results into.  Goroutines (Callers) call Store and Get   *)
(* concurrently; a mutex orders them.  Get holds the mutex for one step;   *)
(* Store is split at the steps its loop takes, because what the cache      *)
(* promises (budget, eviction order) is decided between two of them.       *)
(***************************************************************************)
EXTENDS Integers, SequencesExt

CONSTANTS Ids,              \* the values newID can draw
          Contents,         \* tool results
          Size,             \* content -> its length in bytes
          Callers,          \* goroutines that use the cache
          NoCaller,         \* the mutex is free
          NoContent,        \* Get's answer when it misses
          CacheMaxBytes,    \* the argument of NewWithCapacity
          DefaultMaxBytes   \* the package's fallback budget

ASSUME SizeAssumption == Size \in [Contents -> Nat]
ASSUME BudgetAssumption == CacheMaxBytes \in Int /\ DefaultMaxBytes \in Nat \ {0}
ASSUME NoCallerAssumption == NoCaller \notin Callers
ASSUME NoContentAssumption == NoContent \notin Contents /\ NoContent \notin Ids

VARIABLES
    lru,       \* the list, front = most recently used; elements are entries
    items,     \* id -> its entry, for the ids the map holds
    curBytes,  \* the running total of entry sizes
    mu,        \* the caller that holds the mutex, or NoCaller
    pc,        \* caller -> where it is in Store ("idle": outside)
    call,      \* caller -> the entry its Store is about to insert
    ret,       \* caller -> the answer to its last Get
    stored,    \* history: id -> the content it was drawn for
    since      \* history: id -> the ids used after its own last use

vars == <<lru, items, curBytes, mu, pc, call, ret, stored, since>>

Entry == [id : Ids, content : Contents]

\* NewWithCapacity: a budget <= 0 means the default one.
MaxBytes == IF CacheMaxBytes <= 0 THEN DefaultMaxBytes ELSE CacheMaxBytes

NoAnswer == [id |-> NoContent, content |-> NoContent]
EmptyMap == [id \in {} |-> NoContent]

Init ==
    /\ lru = <<>>
    /\ items = EmptyMap
    /\ curBytes = 0
    /\ mu = NoCaller
    /\ pc = [w \in Callers |-> "idle"]
    /\ call = [w \in Callers |-> NoAnswer]
    /\ ret = [w \in Callers |-> NoAnswer]
    /\ stored = EmptyMap
    /\ since = [id \in Ids |-> {}]

-----------------------------------------------------------------------------
\* (Operators named Bug... are definitions with a plausible slip in them; the
\* properties below are validated against them and nothing else uses them.)
BugPredictableIds == Ids

\* newID: 128 random bits, so a draw never repeats an earlier one.
FreshIds == Ids \ DOMAIN stored

\* The history of a use of id: nothing is fresher than it, and it is fresher
\* than everything else.
Used(id) == [i \in Ids |-> IF i = id THEN {} ELSE since[i] \cup {id}]

\* Store, before the lock: draw the id.
DrawId(w, c) ==
    /\ pc[w] = "idle"
    /\ \E id \in FreshIds :
         /\ call' = [call EXCEPT ![w] = [id |-> id, content |-> c]]
         /\ stored' = [i \in DOMAIN stored \cup {id} |-> IF i = id THEN c ELSE stored[i]]
    /\ pc' = [pc EXCEPT ![w] = "locking"]
    /\ UNCHANGED <<lru, items, curBytes, mu, ret, since>>

Lock(w) ==
    /\ pc[w] = "locking"
    /\ mu = NoCaller
    /\ mu' = w
    /\ pc' = [pc EXCEPT ![w] = "making_room"]
    /\ UNCHANGED <<lru, items, curBytes, call, ret, stored, since>>

BugIgnoresIncoming(w) == curBytes > MaxBytes /\ Len(lru) > 0
BugStrictBudget(w) == curBytes + Size[call[w].content] >= MaxBytes /\ Len(lru) > 0
BugRefusesOversize(w) == curBytes + Size[call[w].content] > MaxBytes

\* The condition of Store's loop.
NeedsRoom(w) ==
    /\ curBytes + Size[call[w].content] > MaxBytes
    /\ Len(lru) > 0

BugEvictKeepsIndex ==
    /\ lru' = Front(lru)
    /\ curBytes' = curBytes - Size[Last(lru).content]
    /\ UNCHANGED items
BugEvictForgetsBytes ==
    /\ lru' = Front(lru)
    /\ items' = [i \in DOMAIN items \ {Last(lru).id} |-> items[i]]
    /\ UNCHANGED curBytes
BugEvictCountsFront ==
    /\ lru' = Front(lru)
    /\ items' = [i \in DOMAIN items \ {Last(lru).id} |-> items[i]]
    /\ curBytes' = curBytes - Size[lru[1].content]

\* evictOldestLocked: the back of the list goes, if there is one.
EvictOldest ==
    IF lru = <<>>
    THEN UNCHANGED <<lru, items, curBytes>>
    ELSE /\ lru' = Front(lru)
         /\ items' = [i \in DOMAIN items \ {Last(lru).id} |-> items[i]]
         /\ curBytes' = curBytes - Size[Last(lru).content]

\* One iteration of Store's loop.
Evict(w) ==
    /\ pc[w] = "making_room"
    /\ NeedsRoom(w)
    /\ EvictOldest
    /\ UNCHANGED <<mu, pc, call, ret, stored, since>>

\* The rest of Store: push to the front, index, count, unlock.
Insert(w) ==
    /\ pc[w] = "making_room"
    /\ ~ NeedsRoom(w)
    /\ lru' = Cons(call[w], lru)
    /\ items' = [i \in DOMAIN items \cup {call[w].id} |->
                    IF i = call[w].id THEN call[w] ELSE items[i]]
    /\ curBytes' = curBytes + Size[call[w].content]
    /\ mu' = NoCaller
    /\ pc' = [pc EXCEPT ![w] = "idle"]
    /\ since' = Used(call[w].id)
    /\ UNCHANGED <<call, ret, stored>>

BugNoRefresh(seq, i) == seq

\* list.MoveToFront.
MoveToFront(seq, i) == Cons(seq[i], RemoveAt(seq, i))

GetHit(w, id) ==
    /\ pc[w] = "idle"
    /\ mu = NoCaller
    /\ id \in DOMAIN items
    /\ \E i \in DOMAIN lru : lru[i] = items[id] /\ lru' = MoveToFront(lru, i)
    /\ ret' = [ret EXCEPT ![w] = items[id]]
    /\ since' = Used(id)
    /\ UNCHANGED <<items, curBytes, mu, pc, call, stored>>

GetMiss(w, id) ==
    /\ pc[w] = "idle"
    /\ mu = NoCaller
    /\ id \notin DOMAIN items
    /\ ret' = [ret EXCEPT ![w] = [id |-> id, content |-> NoContent]]
    /\ UNCHANGED <<lru, items, curBytes, mu, pc, call, stored, since>>

StoreStep(w) == Lock(w) \/ Evict(w) \/ Insert(w)

Next ==
    \E w \in Callers :
        \/ \E c \in Contents : DrawId(w, c)
        \/ StoreStep(w)
        \/ \E id \in Ids : GetHit(w, id) \/ GetMiss(w, id)

\* A goroutine inside Store keeps running, and sync.Mutex hands the lock to
\* every waiter in the end (its starvation mode), hence SF on Lock.
Fairness ==
    \A w \in Callers : SF_vars(Lock(w)) /\ WF_vars(Evict(w)) /\ WF_vars(Insert(w))

Spec == Init /\ [][Next]_vars
FairSpec == Spec /\ Fairness

-----------------------------------------------------------------------------
(* Properties *)

\* The bytes of the contents drawn for a set of ids, one element per byte, so
\* that their number is what Bytes() would have to report.
BytesOf(S) == UNION { {id} \X (1 .. Size[stored[id]]) : id \in S }

\* Every variable keeps its type; the byte counter is never negative.
TypeOK ==
    /\ lru \in Seq(Entry)
    /\ DOMAIN items \subseteq Ids /\ \A id \in DOMAIN items : items[id] \in Entry
    /\ curBytes \in Nat
    /\ mu \in Callers \cup {NoCaller}
    /\ pc \in [Callers -> {"idle", "locking", "making_room"}]
    /\ call \in [Callers -> Entry \cup {NoAnswer}]
    /\ ret \in [Callers -> [id : Ids, content : Contents \cup {NoContent}] \cup {NoAnswer}]
    /\ DOMAIN stored \subseteq Ids /\ \A id \in DOMAIN stored : stored[id] \in Contents
    /\ since \in [Ids -> SUBSET Ids]

\* The map and the list agree: the map leads every id to its own element of the
\* list, no id is on the list twice, and each entry holds what its id was drawn
\* for.  (A second Store, or an eviction, between the two updates would break it.)
IndexConsistent ==
    /\ DOMAIN items = { lru[i].id : i \in DOMAIN lru }
    /\ \A i \in DOMAIN lru : items[lru[i].id] = lru[i]
    /\ \A i, j \in DOMAIN lru : lru[i].id = lru[j].id => i = j
    /\ \A id \in DOMAIN items : id \in DOMAIN stored /\ items[id].content = stored[id]

\* curBytes is exactly the number of bytes the cache holds, whatever the order of
\* insertions and evictions: it never drifts.
BytesExact == curBytes = Cardinality(BytesOf(DOMAIN items))

\* The list is in order of use: what stands before an entry is exactly what was
\* used after that entry's last use, and all of it is still cached.
LRUOrder ==
    \A i \in DOMAIN lru : since[lru[i].id] = { lru[j].id : j \in 1 .. (i - 1) }

\* Outside Store's critical section the budget holds, the one exception being a
\* single entry that is larger than the whole budget (cache.go:54-56).
WithinBudget == mu = NoCaller => curBytes <= MaxBytes \/ Len(lru) = 1

\* An entry is evicted only when it had to be: it, everything used since its
\* last use and the incoming entry do not fit together.  A reader that stays
\* within the budget between two reads of an id therefore never loses it.
NoPrematureEviction ==
    [][ \A id \in DOMAIN items \ DOMAIN items' :
          \E w \in Callers :
            /\ mu = w
            /\ Cardinality(BytesOf(since[id] \cup {id})) + Size[call[w].content] > MaxBytes ]_vars

\* The cache is a ResultStore: an id is issued when its entry is inserted.
Issued == DOMAIN stored \ { call[w].id : w \in { v \in Callers : pc[v] # "idle" } }
Abstract == INSTANCE ResultStore WITH
    held <- [id \in DOMAIN items |-> items[id].content],
    issued <- Issued

\* Get answers with exactly what Store took in under that id or misses, no id is
\* given out twice, and an evicted id never comes back.
ImplementsResultStore == Abstract!StoreSpec

\* A Store that was called returns, an entry larger than the budget included:
\* the eviction loop always ends and the mutex is always released.
StoreReturns == \A w \in Callers : pc[w] = "locking" ~> pc[w] = "idle"
=============================================================================
