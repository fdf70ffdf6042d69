----------------------------- MODULE StdioProxy -----------------------------
(***************************************************************************)
(* internal/proxy/proxy.go with the tools/call half of internal/intercept: *)
(* the stdio transport.  Goroutine A copies the client's lines to the      *)
(* upstream's stdin, goroutine B the upstream's lines to the channel out,  *)
(* a writer drains out to the client, a closer closes out once A and B are *)
(* done.  A answers seek_result calls itself, from the cache B fills; the  *)
(* cache is the ResultStore that Cache implements.  Client and upstream    *)
(* are external.  The client drains its input, so the writer never blocks; *)
(* every other pipe and the channel are bounded and do block.              *)
(***************************************************************************)
EXTENDS Integers, SequencesExt

CONSTANTS Contents,     \* contents of tools/call results
          Size,         \* content -> its length
          Threshold,    \* the length from which on a content is cached
          CacheIds,     \* ids the cache can give out
          NoContent,    \* the answer to a lookup that misses; also "no cache id"
          OutCap,       \* capacity of the channel out
          PipeCap,      \* lines a pipe holds
          MaxSent,      \* bound on what the client sends
          MaxSaid,      \* bound on what the upstream says
          Methods,      \* methods of the client's requests
          OtherKinds,   \* other lines that occur: "notification", "request", "garbage"
          MayCrash      \* whether the upstream may die at any moment

ASSUME SizeAssumption == Size \in [Contents -> Nat] /\ Threshold \in Nat
ASSUME BoundsAssumption == {OutCap, PipeCap, MaxSent, MaxSaid} \subseteq Nat \ {0}
ASSUME MethodsAssumption ==
    Methods \subseteq {"tools/list", "tools/call", "seek_result", "bad_seek", "other"}
ASSUME OtherKindsAssumption == OtherKinds \subseteq {"notification", "request", "garbage"}

VARIABLES
    stdin, stdinClosed,   \* the client's end of the wrapper's stdin
    aPc, aLine,           \* goroutine A and the line it is handling
    upstreamIn,           \* the upstream's stdin
    upstreamOut,          \* the upstream's stdout
    alive,                \* the upstream process runs
    owed,                 \* the requests the upstream has read and not answered
    pending,              \* id -> method of the registered request
    bPc, bLine,           \* goroutine B and the line it is handling or sending
    out, outClosed,       \* the channel
    returned,             \* Run has returned
    held, issued, ret,    \* the cache (ResultStore)
    recorded,             \* the calls of RecordCache and RecordSeek (see Stats)
    sent, said,           \* history: lines the client sent, number the upstream said
    seen, delivered       \* history: lines the upstream read, lines the client got

clientVars == <<stdin, stdinClosed, sent>>
aVars == <<aPc, aLine>>
pipes == <<upstreamIn, upstreamOut>>
upVars == <<alive, owed, said, seen>>
bVars == <<bPc, bLine>>
sink == <<out, outClosed, returned, delivered>>
cacheVars == <<held, issued, ret, recorded>>
vars == <<clientVars, aVars, pipes, upVars, pending, bVars, sink, cacheVars>>

Store == INSTANCE ResultStore WITH Ids <- CacheIds, Callers <- {"A"}

NoLine == [kind |-> "none", n |-> 0]

\* A line of the client: n is its place in the stream, and also the id when it
\* is a request; ref is the id argument of a seek_result call.  A "bad_seek" is
\* a call of seek_result whose arguments do not unmarshal into two strings.
ClientLine(kind, method, ref, n) == [kind |-> kind, method |-> method, ref |-> ref, n |-> n]

\* msg.Method, which is tools/call for every call of seek_result too.
Method(line) == IF line.method \in {"seek_result", "bad_seek"} THEN "tools/call" ELSE line.method

\* A line to the client: n is its place among the upstream's lines, id what it
\* answers, re the method it answers and content what the upstream sent in it.
\* (The model remembers re in every line and content in a stub; the code cannot.)
UpstreamLine(kind, id, re, form, content, n) ==
    [kind |-> kind, id |-> id, re |-> re, form |-> form, content |-> content,
     ref |-> NoContent, n |-> n]

IsRequest(line) == line.kind = "request"
IsResponse(line) == line.kind = "response"

Init ==
    /\ stdin = <<>> /\ stdinClosed = FALSE /\ sent = <<>>
    /\ aPc = "reading" /\ aLine = NoLine
    /\ upstreamIn = <<>> /\ upstreamOut = <<>>
    /\ alive = TRUE /\ owed = {} /\ said = 0 /\ seen = <<>>
    /\ pending = [id \in {} |-> "none"]
    /\ bPc = "reading" /\ bLine = NoLine
    /\ out = <<>> /\ outClosed = FALSE /\ returned = FALSE /\ delivered = <<>>
    /\ Store!StoreInit
    /\ recorded = [results |-> 0, seeks |-> 0]

BugDropsWhenFull(line) == out' = IF Len(out) < OutCap THEN Append(out, line) ELSE out
BugUnbounded(line) == out' = Append(out, line)

\* p.out <- line: blocks while the channel is full.
Sends(line) == Len(out) < OutCap /\ out' = Append(out, line)

-----------------------------------------------------------------------------
(* The client (external) *)

ClientLines ==
    LET n == Len(sent) + 1 IN
    { ClientLine("request", m, NoContent, n) : m \in Methods \ {"seek_result"} }
      \cup { ClientLine("request", m, ref, n) : m \in Methods \cap {"seek_result"}, ref \in CacheIds }
      \cup { ClientLine(k, "none", NoContent, n) : k \in OtherKinds \ {"request"} }
      \cup { ClientLine("response", "none", NoContent, n) : k \in OtherKinds \cap {"request"} }

ClientSends ==
    /\ ~ stdinClosed
    /\ Len(sent) < MaxSent /\ Len(stdin) < PipeCap
    /\ \E line \in ClientLines : stdin' = Append(stdin, line) /\ sent' = Append(sent, line)
    /\ UNCHANGED <<stdinClosed, aVars, pipes, upVars, pending, bVars, sink, cacheVars>>

ClientCloses ==
    /\ ~ stdinClosed
    /\ stdinClosed' = TRUE
    /\ UNCHANGED <<stdin, sent, aVars, pipes, upVars, pending, bVars, sink, cacheVars>>

-----------------------------------------------------------------------------
(* Goroutine A: handleClientMessage *)

BugDropsResponses(line) ==
    CASE IsResponse(line) -> "reading" [] IsRequest(line) /\ line.method = "seek_result" -> "looking_up"
      [] IsRequest(line) /\ line.method # "seek_result" -> "registering" [] OTHER -> "forwarding"

\* Which branch a line takes.  A seek_result call whose parameters do not
\* unmarshal is an ordinary request.
Route(line) ==
    CASE ~ IsRequest(line) -> "forwarding"
      [] IsRequest(line) /\ line.method = "seek_result" -> "looking_up"
      [] OTHER -> "registering"

AReads ==
    /\ aPc = "reading"
    /\ stdin # <<>>
    /\ aLine' = Head(stdin)
    /\ stdin' = Tail(stdin)
    /\ aPc' = Route(aLine')
    /\ UNCHANGED <<stdinClosed, sent, pipes, upVars, pending, bVars, sink, cacheVars>>

\* EOF: leave the loop; the deferred Close shuts the upstream's stdin.
AEnds ==
    /\ aPc = "reading"
    /\ stdin = <<>> /\ stdinClosed
    /\ aPc' = "done"
    /\ UNCHANGED <<clientVars, aLine, pipes, upVars, pending, bVars, sink, cacheVars>>

Registered(line) == [id \in DOMAIN pending \cup {line.n} |->
                        IF id = line.n THEN Method(line) ELSE pending[id]]

BugRegistersLate ==
    /\ aPc = "registering"
    /\ IF \E line \in ToSet(seen \o upstreamIn) : line.n = aLine.n
       THEN pending' = Registered(aLine) /\ aPc' = "reading" /\ UNCHANGED upstreamIn
       ELSE upstreamIn' = Append(upstreamIn, aLine) /\ UNCHANGED <<pending, aPc>>
    /\ UNCHANGED <<clientVars, aLine, upstreamOut, upVars, bVars, sink, cacheVars>>

\* p.pending[key] = msg, before the line leaves.
ARegisters ==
    /\ aPc = "registering"
    /\ pending' = Registered(aLine)
    /\ aPc' = "forwarding"
    /\ UNCHANGED <<clientVars, aLine, pipes, upVars, bVars, sink, cacheVars>>

\* forward: write and flush.  A dead upstream makes it fail, which it ignores.
AForwards ==
    /\ aPc = "forwarding"
    /\ \/ ~ alive /\ UNCHANGED upstreamIn
       \/ alive /\ Len(upstreamIn) < PipeCap /\ upstreamIn' = Append(upstreamIn, aLine)
    /\ aPc' = "reading" /\ aLine' = NoLine
    /\ UNCHANGED <<clientVars, upstreamOut, upVars, pending, bVars, sink, cacheVars>>

BugCountsEveryCall(hit) == {"text", "error"} \X {1}

\* What SeekResult makes of a lookup, and how often it records it: a miss is an
\* error, and so is a filter that is rejected.
Outcomes(hit) == {<<"error", 0>>} \cup (IF hit THEN {<<"text", 1>>} ELSE {})

\* intercept.SeekResult: Get on the cache, the filter, RecordSeek ...
ALooksUp ==
    /\ aPc = "looking_up"
    /\ Store!Lookup("A", aLine.ref)
    /\ \E o \in Outcomes(aLine.ref \in DOMAIN held) :
         aPc' = o[1] /\ recorded' = [recorded EXCEPT !.seeks = @ + o[2]]
    /\ UNCHANGED <<clientVars, aLine, pipes, upVars, pending, bVars, sink>>

\* ... and the reply.
Reply == [kind |-> "response", id |-> aLine.n, re |-> "seek_result", form |-> aPc,
          content |-> ret["A"].content, ref |-> aLine.ref, n |-> 0]

AReplies ==
    /\ aPc \in {"text", "error"}
    /\ Sends(Reply)
    /\ aPc' = "reading" /\ aLine' = NoLine
    /\ UNCHANGED <<clientVars, pipes, upVars, pending, bVars, outClosed, returned, delivered, cacheVars>>

-----------------------------------------------------------------------------
(* The upstream server (external) *)

UpstreamReads ==
    /\ alive
    /\ upstreamIn # <<>>
    /\ upstreamIn' = Tail(upstreamIn)
    /\ seen' = Append(seen, Head(upstreamIn))
    /\ owed' = owed \cup { line \in {Head(upstreamIn)} : IsRequest(line) }
    /\ UNCHANGED <<clientVars, aVars, upstreamOut, alive, said, pending, bVars, sink, cacheVars>>

\* The results a request can get: an ordinary one of some content, one flagged
\* isError, one that cannot be read as the object it should be.
Results(method) ==
    CASE method = "tools/call" -> {"result", "error"} \X Contents
      [] method = "tools/list" -> {"result", "malformed"} \X {NoContent}
      [] OTHER                 -> {"result"} \X {NoContent}

UpstreamSays(line) ==
    /\ alive
    /\ Len(upstreamOut) < PipeCap
    /\ upstreamOut' = Append(upstreamOut, line)
    /\ said' = said + 1

\* Each request is answered once, in any order.
UpstreamAnswers ==
    /\ \E req \in owed : \E result \in Results(Method(req)) :
         /\ UpstreamSays(UpstreamLine("response", req.n, Method(req), result[1], result[2], said + 1))
         /\ owed' = owed \ {req}
    /\ UNCHANGED <<clientVars, aVars, upstreamIn, alive, seen, pending, bVars, sink, cacheVars>>

\* Notifications, requests of its own (their ids may equal the client's), noise.
UpstreamSpeaks ==
    /\ said + Cardinality(owed) + Len(upstreamIn) < MaxSaid
    /\ \E kind \in OtherKinds, id \in 1 .. MaxSent :
         UpstreamSays(UpstreamLine(kind, id, "none", "raw", NoContent, said + 1))
    /\ UNCHANGED <<clientVars, aVars, upstreamIn, alive, owed, seen, pending, bVars, sink, cacheVars>>

\* The process is gone; what it wrote can still be read.
Gone ==
    /\ alive /\ alive' = FALSE
    /\ upstreamIn' = <<>> /\ owed' = {}
    /\ UNCHANGED <<clientVars, aVars, upstreamOut, said, seen, pending, bVars, sink, cacheVars>>

\* A well-behaved server ends on EOF, with everything answered ...
UpstreamEnds == aPc = "done" /\ upstreamIn = <<>> /\ owed = {} /\ Gone

\* ... another one dies at any moment.
UpstreamDies == MayCrash /\ Gone

-----------------------------------------------------------------------------
(* Goroutine B: handleUpstreamMessage *)

BugAnyLine(pipe) == DOMAIN pipe

\* ReadBytes takes the first line there is.
NextLine(pipe) == {1} \cap DOMAIN pipe

BReads ==
    /\ bPc = "reading"
    /\ \E i \in NextLine(upstreamOut) :
         bLine' = upstreamOut[i] /\ upstreamOut' = RemoveAt(upstreamOut, i)
    /\ bPc' = "handling"
    /\ UNCHANGED <<clientVars, aVars, upstreamIn, upVars, pending, sink, cacheVars>>

BEnds ==
    /\ bPc = "reading"
    /\ upstreamOut = <<>> /\ ~ alive
    /\ bPc' = "done"
    /\ UNCHANGED <<clientVars, aVars, pipes, upVars, pending, bLine, sink, cacheVars>>

\* The request the line answers, as far as the proxy knows.
MatchedMethod(line) ==
    IF IsResponse(line) /\ line.id \in DOMAIN pending THEN pending[line.id] ELSE "none"

\* MaybeCache's conditions: an object, not isError, and a content that is not
\* shorter than the threshold.
Cacheable(line) ==
    /\ MatchedMethod(line) = "tools/call"
    /\ line.form = "result"
    /\ Size[line.content] >= Threshold

\* schema.InjectSeekResult succeeds on a well-formed tools/list result.
Injectable(line) == MatchedMethod(line) = "tools/list" /\ line.form = "result"

BugKeepsPending(line) == pending' = pending

\* The lookup deletes the entry it finds.
Unregister(line) ==
    pending' = [id \in DOMAIN pending \ (IF IsResponse(line) THEN {line.id} ELSE {}) |-> pending[id]]

\* Store may evict older results before the new one goes in.
BEvicts ==
    /\ bPc = "handling"
    /\ Cacheable(bLine)
    /\ \E id \in CacheIds : Store!Drop(id)
    /\ UNCHANGED <<clientVars, aVars, pipes, upVars, pending, bVars, sink, recorded>>

\* What B does to every line: look its request up, and have an answer to send.
BHandles(line) ==
    /\ bPc = "handling" /\ bPc' = "sending"
    /\ bLine' = line
    /\ Unregister(bLine)
    /\ UNCHANGED <<clientVars, aVars, pipes, upVars, sink>>

BugNamesAnyEntry(line, id) ==
    { [line EXCEPT !.form = "stub", !.ref = other] : other \in DOMAIN held \cup {id} }

StubFor(line, id) == { [line EXCEPT !.form = "stub", !.ref = id] }

\* MaybeCache: Store, the stub, RecordCache.
BCaches ==
    /\ Cacheable(bLine)
    /\ \E id \in CacheIds : Store!Put(id, bLine.content) /\ \E s \in StubFor(bLine, id) : BHandles(s)
    /\ recorded' = [recorded EXCEPT !.results = @ + 1]

BInjects ==
    /\ Injectable(bLine)
    /\ BHandles([bLine EXCEPT !.form = "injected"])
    /\ UNCHANGED cacheVars

\* Everything else goes on as it came.
BPasses ==
    /\ ~ Cacheable(bLine) /\ ~ Injectable(bLine)
    /\ BHandles(bLine)
    /\ UNCHANGED cacheVars

BSends ==
    /\ bPc = "sending"
    /\ Sends(bLine)
    /\ bPc' = "reading" /\ bLine' = NoLine
    /\ UNCHANGED <<clientVars, aVars, pipes, upVars, pending, outClosed, returned, delivered, cacheVars>>

-----------------------------------------------------------------------------
(* The closer and the writer *)

BugWaitsForB == bPc = "done"
BugWaitsForWriter == aPc = "done" /\ bPc = "done" /\ returned

\* wg.Wait
BothDone == aPc = "done" /\ bPc = "done"

Closes ==
    /\ ~ outClosed
    /\ BothDone
    /\ outClosed' = TRUE
    /\ UNCHANGED <<clientVars, aVars, pipes, upVars, pending, bVars, out, returned, delivered, cacheVars>>

Writes ==
    /\ ~ returned
    /\ out # <<>>
    /\ delivered' = Append(delivered, Head(out))
    /\ out' = Tail(out)
    /\ UNCHANGED <<clientVars, aVars, pipes, upVars, pending, bVars, outClosed, returned, cacheVars>>

BugLeavesLines == outClosed

\* range over out ends when it is closed and empty ...
Drained == outClosed /\ out = <<>>

\* ... and Run returns.
Returns ==
    /\ ~ returned
    /\ Drained
    /\ returned' = TRUE
    /\ UNCHANGED <<clientVars, aVars, pipes, upVars, pending, bVars, out, outClosed, delivered, cacheVars>>

Finished == returned /\ UNCHANGED vars

Client == ClientSends \/ ClientCloses
A == AReads \/ AEnds \/ ARegisters \/ AForwards \/ ALooksUp \/ AReplies
Upstream == UpstreamReads \/ UpstreamAnswers \/ UpstreamSpeaks \/ UpstreamEnds \/ UpstreamDies
B == BReads \/ BEnds \/ BCaches \/ BInjects \/ BPasses \/ BSends
Writer == Writes \/ Returns

Next == Client \/ A \/ Upstream \/ B \/ BEvicts \/ Closes \/ Writer \/ Finished

Spec == Init /\ [][Next]_vars

\* The Go scheduler runs every goroutine that can run.  The upstream reads,
\* answers what it owes and ends on EOF; it need not say anything else, no
\* entry need be evicted and the client need not do anything.
FairSpec ==
    /\ Spec
    /\ WF_vars(A) /\ WF_vars(B) /\ WF_vars(Closes) /\ WF_vars(Writer)
    /\ WF_vars(UpstreamReads) /\ WF_vars(UpstreamAnswers) /\ WF_vars(UpstreamEnds)

-----------------------------------------------------------------------------
(* What a client sees of it: see Guard *)

Processed == delivered \o out \o (IF bPc = "sending" THEN <<bLine>> ELSE <<>>)

\* What was asked and what was answered under a request id.
Asked(id) ==
    IF id \notin DOMAIN sent \/ ~ IsRequest(sent[id]) THEN [method |-> "none", ref |-> NoContent]
    ELSE [method |-> IF sent[id].method = "seek_result" THEN "seek_result" ELSE Method(sent[id]),
          ref |-> sent[id].ref]

\* A seek_result call is answered by A alone; a result is told from another
\* only where it answers tools/call.
View(line) ==
    LET kind == CASE line.form = "result" /\ line.re # "tools/call" -> "other"
                  [] line.form = "error" /\ line.re # "seek_result" -> "other"
                  [] line.form = "malformed" -> "other"
                  [] OTHER -> line.form
    IN [form |-> kind, ref |-> line.ref,
        content |-> IF kind \in {"result", "stub", "text"} THEN line.content ELSE NoContent]

\* The lines A and B are done with or have ready to send.
Ready == Processed \o (IF aPc \in {"text", "error"} THEN <<Reply>> ELSE <<>>)

\* The k-th of the positions P.
Nth(P, k) == CHOOSE i \in P : Cardinality({ j \in P : j <= i }) = k

Answered(id) ==
    LET answers == { i \in DOMAIN Ready : IsResponse(Ready[i]) /\ Ready[i].id = id }
    IN [k \in 1 .. Cardinality(answers) |-> View(Ready[Nth(answers, k)])]

G == INSTANCE Guard WITH
         Requests <- 1 .. MaxSent, Ids <- CacheIds,
         asked <- [id \in 1 .. MaxSent |-> Asked(id)],
         answers <- [id \in 1 .. MaxSent |-> Answered(id)]

-----------------------------------------------------------------------------
(* Properties *)

ToServer == seen \o upstreamIn
InA == IF aPc \in {"reading", "done"} THEN <<>> ELSE <<aLine>>
FromClient == ToServer \o InA \o stdin                    \* in the order it was sent
InB == IF bPc \in {"handling", "sending"} THEN <<bLine>> ELSE <<>>
ToClient == delivered \o out \o InB \o upstreamOut       \* in the order of delivery
Count(seq, Test(_)) == Cardinality({ i \in DOMAIN seq : Test(seq[i]) })

\* Every variable has its type, and no pipe or channel holds more than it can
\* (proxy.go:37: the channel has a capacity, a send beyond it blocks).
TypeOK ==
    /\ aPc \in {"reading", "registering", "forwarding", "looking_up", "text", "error", "done"}
    /\ bPc \in {"reading", "handling", "sending", "done"}
    /\ {stdinClosed, alive, outClosed, returned} \subseteq BOOLEAN
    /\ Len(stdin) <= PipeCap /\ Len(upstreamIn) <= PipeCap
    /\ Len(upstreamOut) <= PipeCap /\ Len(out) <= OutCap
    /\ owed \subseteq ToSet(seen)
    /\ DOMAIN pending \subseteq 1 .. Len(sent)
    /\ \A id \in DOMAIN pending : pending[id] \in {"tools/list", "tools/call", "other"}
    /\ Store!StoreTypeOK

\* No large result and no bare tools/list ever goes out: whatever A and B do in
\* what order, a response of the upstream is recognised as the answer to its
\* request and treated accordingly, and nothing else is rewritten
\* (proxy.go:129-133 before :154-178).  A result of exactly the threshold may go
\* either way: the documents disagree about it (OnlyLargerCached).
RightTreatment ==
    \A i \in DOMAIN Processed :
        LET line == Processed[i] IN
        /\ line.form = "result" /\ line.re = "tools/call" => Size[line.content] <= Threshold
        /\ line.form = "result" => line.re # "tools/list"
        /\ line.form = "stub" => line.re = "tools/call" /\ Size[line.content] >= Threshold
        /\ line.form = "injected" => line.re = "tools/list"

\* A seek_result that answers with text answers with what the upstream sent in
\* the very result whose stub carries that id, and no two stubs carry one id
\* (proxy.go:125 with intercept.go:36,44 and cache.go:114).
SeekReadsOriginal ==
    LET Stubs == { i \in DOMAIN ToClient : ToClient[i].form = "stub" } IN
    /\ \A i, j \in Stubs : ToClient[i].ref = ToClient[j].ref => i = j
    /\ \A i \in DOMAIN ToClient :
         ToClient[i].form = "text" =>
             \E j \in Stubs : /\ ToClient[j].ref = ToClient[i].ref
                              /\ ToClient[j].content = ToClient[i].content

\* What the upstream said reaches the client whole and in the upstream's order,
\* interleaved with the replies of A but never overtaken (proxy.go:79-93,181).
UpstreamOrder ==
    LET Said == { i \in DOMAIN ToClient : ToClient[i].n > 0 } IN
    /\ { ToClient[i].n : i \in Said } = 1 .. said
    /\ \A i, j \in Said : i < j => ToClient[i].n < ToClient[j].n

\* What arrives at the upstream or is under way to it is what the client sent, in
\* the client's order; and while the upstream lives nothing is missing but the
\* calls of seek_result (proxy.go:65-72,103-139).
ClientOrder ==
    /\ \A i \in DOMAIN FromClient : FromClient[i] = sent[FromClient[i].n]
    /\ \A i, j \in DOMAIN FromClient : i < j => FromClient[i].n < FromClient[j].n
    /\ alive => \A k \in DOMAIN sent : sent[k].method # "seek_result" =>
                    \E i \in DOMAIN FromClient : FromClient[i].n = k

\* While the upstream lives, each request the client sent is in exactly one
\* place, unread, with A, with the upstream or answered: no request is answered
\* twice and none gets lost (proxy.go:115-135).
RequestsConserved ==
    \A k \in DOMAIN sent :
        LET IsIt(line) == IsRequest(line) /\ line.n = k
            Answers(line) == IsResponse(line) /\ line.id = k
            places == Count(upstreamIn \o InA \o stdin, IsIt)
                          + Cardinality({ req \in owed : req.n = k })
                          + Count(ToClient, Answers)
        IN IsRequest(sent[k]) => places <= 1 /\ (alive => places = 1)

\* While the upstream lives, pending holds exactly the requests that went to it
\* and whose answer has not come back to B, each with its method: no entry is
\* missing when its answer comes, none stays behind (proxy.go:131,156-158).
PendingExact ==
    LET Leaving == IF aPc = "forwarding" THEN {aLine} ELSE {}
        Requests == { line \in ToSet(upstreamIn) \cup owed \cup Leaving : IsRequest(line) }
        Arriving == IF bPc = "handling" THEN {bLine} ELSE {}
        Responses == { line \in ToSet(upstreamOut) \cup Arriving : IsResponse(line) }
    IN /\ alive => DOMAIN pending = { r.n : r \in Requests } \cup { r.id : r \in Responses }
       /\ \A r \in Requests : r.n \in DOMAIN pending /\ pending[r.n] = Method(r)
       /\ \A r \in Responses : r.id \in DOMAIN pending /\ pending[r.id] = r.re

\* The statistics count exactly the stubs that go out and the seek_result calls
\* that are answered with text (intercept.go:60,78).
RecordedExactly ==
    /\ recorded.results = Count(ToClient, LAMBDA line : line.form = "stub")
    /\ recorded.seeks = Count(ToClient, LAMBDA line : line.form = "text")
                            + (IF aPc = "text" THEN 1 ELSE 0)

\* When Run returns nothing is left behind on the way to the client, and A and
\* B have handled all they read (proxy.go:95-100).
NothingLostAtReturn ==
    returned => /\ out = <<>> /\ upstreamOut = <<>> /\ stdin = <<>>
                /\ aPc = "done" /\ bPc = "done"

\* Nothing is sent on the closed channel, which would panic (proxy.go:95-98).
NoSendOnClosed == [][Len(out') > Len(out) => ~ outClosed]_vars

\* After EOF on stdin Run comes to return, however full the pipes and the
\* channel are (proxy.go:46-101).
EOFReturns == stdinClosed ~> returned

\* Every request is answered: by the upstream, or by A if it is a seek_result
\* (proxy.go:124-127,181).
AllAnswered ==
    \A k \in 1 .. MaxSent :
        (Len(sent) >= k /\ IsRequest(sent[k]))
            ~> (\E i \in DOMAIN delivered : IsResponse(delivered[i]) /\ delivered[i].id = k)

\* Whatever A, B and the writer do in what order, the client is served as Guard
\* promises: one answer to a request, large results as stubs only, and ids that
\* read back what their stubs stand for (proxy.go:103-182).
ImplementsGuard == G!GuardSpec

\* README.md, Limitations: "`seek_result` is not forwarded to the upstream
\* server."  A call whose arguments do not unmarshal is (proxy.go:124).
SeekNotForwarded ==
    \A i \in DOMAIN ToServer : ToServer[i].method \notin {"seek_result", "bad_seek"}

\* intercept.go:16: "If the content payload exceeds threshold, it is cached";
\* README.md:104: "Response size in bytes above which responses are cached".  A
\* content of exactly the threshold is cached too (intercept.go:34).
OnlyLargerCached ==
    \A i \in DOMAIN ToClient : ToClient[i].form = "stub" => Size[ToClient[i].content] > Threshold

\* main.go:211: "Propagate the upstream's exit code so the client sees the real
\* result."  For that Run must return once the upstream is gone.
ExitNoticed == ~ alive ~> returned
=============================================================================
