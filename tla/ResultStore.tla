---------------------------- MODULE ResultStore ----------------------------
(***************************************************************************)
(* What the result cache promises its users, whatever its eviction policy: *)
(* a tool result that was taken in can be read back under the id it was    *)
(* given, byte for byte, until the store drops it; after that the id is    *)
(* dead for good.  The transports are modelled on top of this store, and   *)
(* the LRU cache of internal/cache/cache.go is shown to implement it.      *)
(***************************************************************************)

CONSTANTS Ids,        \* the ids newID can draw
          Contents,   \* tool results
          Callers,    \* goroutines that call the store
          NoContent   \* the answer to a lookup that misses

VARIABLES held,       \* live id -> the content taken in under it
          issued,     \* every id ever given out
          ret         \* caller -> the answer to its last lookup

svars == <<held, issued, ret>>

NoAnswer == [id |-> NoContent, content |-> NoContent]

StoreTypeOK ==
    /\ issued \subseteq Ids
    /\ DOMAIN held \subseteq issued
    /\ \A id \in DOMAIN held : held[id] \in Contents
    /\ ret \in [Callers -> [id : Ids, content : Contents \cup {NoContent}] \cup {NoAnswer}]

StoreInit ==
    /\ held = [id \in {} |-> NoContent]
    /\ issued = {}
    /\ ret = [w \in Callers |-> NoAnswer]

\* Store: the content goes in under an id nobody was given before.
Put(id, c) ==
    /\ id \notin issued
    /\ issued' = issued \cup {id}
    /\ held' = [i \in DOMAIN held \cup {id} |-> IF i = id THEN c ELSE held[i]]
    /\ UNCHANGED ret

\* Eviction: any entry may go, one at a time.
Drop(id) ==
    /\ id \in DOMAIN held
    /\ held' = [i \in DOMAIN held \ {id} |-> held[i]]
    /\ UNCHANGED <<issued, ret>>

\* What Get answers.
Answer(id) == [id |-> id, content |-> IF id \in DOMAIN held THEN held[id] ELSE NoContent]

Lookup(w, id) ==
    /\ ret' = [ret EXCEPT ![w] = Answer(id)]
    /\ UNCHANGED <<held, issued>>

StoreNext ==
    \/ \E id \in Ids, c \in Contents : Put(id, c)
    \/ \E id \in Ids : Drop(id)
    \/ \E w \in Callers, id \in Ids : Lookup(w, id)

StoreSpec == StoreInit /\ [][StoreNext]_svars
=============================================================================
