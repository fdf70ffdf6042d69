------------------------------- MODULE Guard -------------------------------
(***************************************************************************)
(* What both transports promise a client, whatever happens between the     *)
(* goroutines that keep the promise: a request is answered at most once,   *)
(* a tool result above the threshold goes out as a stub only, one below it *)
(* as it is, and reading a stub's id gives what the stub stands for or an  *)
(* error.  A result of exactly the threshold may go either way: the code   *)
(* caches it (intercept.go:34), most documents say it does not.  The two   *)
(* transports are shown to implement this specification, with request ids  *)
(* (stdio) or POSTs (HTTP) as Requests.                                    *)
(***************************************************************************)
EXTENDS Integers, Sequences

CONSTANTS Requests,     \* the requests a client may make
          Ids,          \* ids the cache can give out
          Contents,     \* contents of tools/call results
          Size,         \* content -> its length
          Threshold,    \* the length that decides whether a content is cached
          NoContent     \* no content, no id

VARIABLES asked,        \* request -> its method and the id it wants to read
          answers,      \* request -> the answers that were made to it
          held, issued  \* the cache (ResultStore)

gvars == <<asked, answers, held, issued>>

Store == INSTANCE ResultStore WITH Callers <- {}, ret <- [w \in {} |-> NoContent]

NotAsked == [method |-> "none", ref |-> NoContent]
Answer(form, content, ref) == [form |-> form, content |-> content, ref |-> ref]

GuardInit ==
    /\ asked = [r \in Requests |-> NotAsked]
    /\ answers = [r \in Requests |-> <<>>]
    /\ Store!StoreInit

Ask(r) ==
    /\ asked[r] = NotAsked
    /\ \E m \in {"tools/list", "tools/call", "other"} : asked' = [asked EXCEPT ![r].method = m]
    /\ UNCHANGED <<answers, held, issued>>

AskToRead(r) ==
    /\ asked[r] = NotAsked
    /\ \E id \in Ids : asked' = [asked EXCEPT ![r] = [method |-> "seek_result", ref |-> id]]
    /\ UNCHANGED <<answers, held, issued>>

\* The one answer a request of this method gets.
Give(r, method, answer) ==
    /\ asked[r].method = method
    /\ answers[r] = <<>>
    /\ answers' = [answers EXCEPT ![r] = <<answer>>]
    /\ UNCHANGED asked

\* A result that is not above the threshold goes through as it is.
PassResult(r) ==
    /\ \E c \in Contents : Size[c] <= Threshold /\ Give(r, "tools/call", Answer("result", c, NoContent))
    /\ UNCHANGED <<held, issued>>

\* One that is not below it goes into the store, under an id of its own.
StubResult(r) ==
    \E c \in Contents, id \in Ids :
        /\ Size[c] >= Threshold
        /\ Store!Put(id, c)
        /\ Give(r, "tools/call", Answer("stub", c, id))

AddTool(r) ==
    /\ Give(r, "tools/list", Answer("injected", NoContent, NoContent))
    /\ UNCHANGED <<held, issued>>

\* Errors, and what is no JSON-RPC result that the proxy can read.
PassOther(r) ==
    /\ \E m \in {"tools/list", "tools/call", "other"} :
         Give(r, m, Answer("other", NoContent, NoContent))
    /\ UNCHANGED <<held, issued>>

Read(r) ==
    /\ asked[r].ref \in DOMAIN held
    /\ Give(r, "seek_result", Answer("text", held[asked[r].ref], asked[r].ref))
    /\ UNCHANGED <<held, issued>>

\* The id is dead or never was, or the filter is no good.
Refuse(r) ==
    /\ Give(r, "seek_result", Answer("error", NoContent, asked[r].ref))
    /\ UNCHANGED <<held, issued>>

Forget == (\E id \in Ids : Store!Drop(id)) /\ UNCHANGED <<asked, answers>>

GuardNext ==
    \/ \E r \in Requests :
         \/ Ask(r) \/ AskToRead(r) \/ PassResult(r) \/ StubResult(r)
         \/ AddTool(r) \/ PassOther(r) \/ Read(r) \/ Refuse(r)
    \/ Forget

GuardSpec == GuardInit /\ [][GuardNext]_gvars
=============================================================================
