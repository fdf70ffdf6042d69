----------------------------- MODULE HttpServer -----------------------------
(***************************************************************************)
(* internal/httpserver/server.go with the tools/call half of               *)
(* internal/intercept: the HTTP transport.  net/http runs one goroutine    *)
(* (Handler) per POST to the MCP path; each makes its own call to the      *)
(* upstream and they share the cache and the statistics.  Lengths count    *)
(* abstract bytes, so that the limits on bodies and on lines of a stream   *)
(* can cut.  Client and upstream are external.                             *)
(***************************************************************************)
EXTENDS Integers, FiniteSetsExt, Sequences, TLC

CONSTANTS Handlers,   \* the POSTs of a run, one goroutine each
          Methods,    \* handler -> what it may be asked: "garbage" is no JSON-RPC
          Contents,   \* contents of tools/call results
          Size,       \* content -> its length
          Threshold,  \* from which length on a content is cached
          CacheIds,   \* ids the cache can give out
          NoContent,  \* no content, no id
          MaxBody,    \* maxBodyBytes
          MaxLine,    \* the longest line the scanner of a stream takes
          Defects,    \* handler -> what may be special about its response
          Strays      \* handler -> contents of foreign responses in its streams

ASSUME SizeAssumption == Size \in [Contents -> Nat \ {0}] /\ Threshold \in Nat
ASSUME LimitsAssumption == MaxBody \in Nat \ {0} /\ MaxLine \in Nat \ {0}
ASSUME MethodsAssumption ==
    Methods \in [Handlers -> SUBSET {"tools/list", "tools/call", "seek_result", "other", "garbage"}]
ASSUME HandlersAssumption == IsFiniteSet(Handlers)
ASSUME NoContentAssumption == NoContent \notin Contents
ASSUME DefectsAssumption ==
    Defects \in [Handlers -> SUBSET {"none", "gzip", "broken", "refused", "stalls"}]
ASSUME StraysAssumption == Strays \in [Handlers -> SUBSET Contents]

VARIABLES pc,        \* handler -> where it is
          req,       \* handler -> the POST
          resp,      \* handler -> what the upstream answered it
          reply,     \* handler -> what the client got
          held, issued, ret,   \* the cache (ResultStore)
          recorded   \* the calls of RecordCache and RecordSeek (see Stats)

storeVars == <<held, issued, ret>>
vars == <<pc, req, resp, reply, storeVars, recorded>>

Store == INSTANCE ResultStore WITH Ids <- CacheIds, Callers <- Handlers

-----------------------------------------------------------------------------
(* Messages *)

Request(method, ref, len) == [method |-> method, ref |-> ref, len |-> len]
PostsOf(h) ==
    { Request(m, NoContent, n) : m \in Methods[h] \ {"seek_result"}, n \in {MaxBody, MaxBody + 1} }
      \cup { Request(m, ref, MaxBody) : m \in Methods[h] \cap {"seek_result"}, ref \in CacheIds }

\* One message of the upstream: the response, a response to a request of some
\* other id (a stray), or a notification or a request of its own.  form tells an
\* ordinary result from an isError or malformed one.
Event(kind, form, content, len) == [kind |-> kind, form |-> form, content |-> content, len |-> len]
Aside == Event("other", "raw", NoContent, 1)
Nothing == Event("none", "nothing", NoContent, 0)       \* the body of a 202
Empty == Event("none", "empty", NoContent, 0)           \* "{}"

Results(kind, method, contents) ==
    IF method = "tools/call" THEN { Event(kind, "result", c, Size[c]) : c \in contents }
                             ELSE { Event(kind, "result", NoContent, 1) }
Answers(method) == {Event("response", "error", NoContent, 1)} \cup Results("response", method, Contents)

\* An answer as a JSON body or as a stream of events, in a response that carries
\* headers of the upstream's own (a session id, say).  It may be gzip (the
\* client's Accept-Encoding is forwarded, so nothing decodes it), break off one
\* byte before its end, stall after its last byte without ending, or be a refusal
\* such as a 401; all others are 2xx.  A stream may hold something beside the
\* answer, or that instead of it: a question to the client, say, after which the
\* upstream stalls until it is answered.
Response(type, events, defect) == [type |-> type, events |-> events, defect |-> defect]
Responses(h, method) ==
    LET Beside == {Aside} \cup Results("stray", method, Strays[h])
        Alone == { <<e>> : e \in Answers(method) \cup Beside }
        Pairs == UNION { {<<a, b>>, <<b, a>>} : a \in Answers(method), b \in Beside }
        NoBody == IF method = "other" THEN {<<Nothing>>} ELSE {}
    IN { Response("json", es, d) : es \in Alone \cup NoBody, d \in Defects[h] }
         \cup { Response("sse", es, d) : es \in Alone \cup Pairs, d \in Defects[h] }

NoResponse == Response("none", <<>>, "none")

\* What the client gets, and what has become of the upstream's headers: "kept",
\* "retyped" (all but the Content-Type kept) or "dropped".
Answer(status, form, content, ref, headers) ==
    [status |-> status, form |-> form, content |-> content, ref |-> ref, headers |-> headers]
NoReply == Answer("none", "none", NoContent, NoContent, "dropped")
Gone == Answer("gone", "none", NoContent, NoContent, "dropped")     \* no client is there
HttpError(status) == Answer(status, "text/plain", NoContent, NoContent, "dropped")

Init ==
    /\ pc = [h \in Handlers |-> "idle"]
    /\ req = [h \in Handlers |-> Request("none", NoContent, 0)]
    /\ resp = [h \in Handlers |-> NoResponse]
    /\ reply = [h \in Handlers |-> NoReply]
    /\ Store!StoreInit
    /\ recorded = [results |-> 0, seeks |-> 0]

-----------------------------------------------------------------------------
(* Reading the upstream's body *)

Length(events) == MapThenSumSet(LAMBDA i : events[i].len, DOMAIN events)

\* How much of the i-th event's line is within the limit.
Within(events, i) ==
    Min({ events[i].len, Max({0, MaxBody - Length(SubSeq(events, 1, i - 1))}) })

Last(events, which) ==
    IF which = {} THEN Empty ELSE events[CHOOSE i \in which : \A j \in which : j <= i]

BugTakesAnyLine(r) == Last(r.events, { i \in DOMAIN r.events : Within(r.events, i) > 0 })

\* Of some id: which one is not looked at.
IsResponse(e) == e.kind \in {"response", "stray"}

\* collectSSE: the last line that parses as a response; a line that is cut, and
\* all of a compressed stream, does not parse.  "{}" if there is none.
Collected(r) ==
    Last(r.events, { i \in DOMAIN r.events : /\ r.defect # "gzip"
                                             /\ IsResponse(r.events[i])
                                             /\ Within(r.events, i) = r.events[i].len })

\* A line of the stream is too long for the scanner.
Overflows(r) ==
    r.type = "sse" /\ r.defect # "gzip" /\ \E i \in DOMAIN r.events : Within(r.events, i) > MaxLine

\* doUpstream fails: the body breaks off within the limit, or the scanner gives up.
ReadFails(r) == (r.defect = "broken" /\ Length(r.events) <= MaxBody) \/ Overflows(r)

\* The body that doUpstream returns: as the upstream sent it, or cut at the
\* limit, or the collected event.
Body(r) ==
    IF r.type = "sse" THEN Collected(r)
    ELSE IF r.defect = "gzip" THEN [r.events[1] EXCEPT !.kind = "none", !.form = "opaque"]
    ELSE IF Length(r.events) > MaxBody THEN [r.events[1] EXCEPT !.kind = "none", !.form = "cut"]
    ELSE r.events[1]

-----------------------------------------------------------------------------
(* The handler *)

Finish(h, answer) ==
    /\ reply' = [reply EXCEPT ![h] = answer]
    /\ pc' = [pc EXCEPT ![h] = "done"]
    /\ UNCHANGED <<req, resp>>

\* An answer that has nothing to do with the cache.
Writes(h, answer) == Finish(h, answer) /\ UNCHANGED <<storeVars, recorded>>

\* A step of a POST on its way that writes nothing yet.
Goes(h, stage) ==
    pc' = [pc EXCEPT ![h] = stage] /\ UNCHANGED <<reply, storeVars, recorded>>

\* The client posts (external).
Posts(h) ==
    /\ pc[h] = "idle"
    /\ \E r \in PostsOf(h) : req' = [req EXCEPT ![h] = r]
    /\ Goes(h, "received") /\ UNCHANGED resp

TooLarge(h) == req[h].len > MaxBody

BugRejectsAndGoesOn(h) ==
    /\ pc[h] = "received" /\ reply[h] = NoReply
    /\ reply' = [reply EXCEPT ![h] = HttpError(IF TooLarge(h) THEN "413" ELSE "400")]
    /\ UNCHANGED <<pc, req, resp, storeVars, recorded>>

\* The body is larger than the limit, or the client's upload breaks off.
Rejects(h) ==
    /\ pc[h] = "received"
    /\ Writes(h, HttpError(IF TooLarge(h) THEN "413" ELSE "400"))

BugCountsEveryCall(hit) == {"text", "error"} \X {1}

\* What SeekResult makes of a lookup, and how often it records it: a miss is an
\* error, and so is a filter that is rejected.
Outcomes(hit) == {<<"error", 0>>} \cup (IF hit THEN {<<"text", 1>>} ELSE {})

\* seek_result is answered here: SeekResult and writeJSON.
Seeks(h) ==
    /\ pc[h] = "received" /\ ~ TooLarge(h)
    /\ req[h].method = "seek_result"
    /\ Store!Lookup(h, req[h].ref)
    /\ \E o \in Outcomes(req[h].ref \in DOMAIN held) :
         /\ recorded' = [recorded EXCEPT !.seeks = @ + o[2]]
         /\ Finish(h, Answer("200", o[1], ret'[h].content, req[h].ref, "dropped"))

\* doUpstream or forwardRaw sends the request.
Calls(h) ==
    /\ pc[h] = "received" /\ ~ TooLarge(h)
    /\ req[h].method # "seek_result"
    /\ Goes(h, "calling") /\ UNCHANGED <<req, resp>>

\* The upstream sends headers (external) and with them a body, which is whole,
\* broken or stalled later.
UpstreamAnswers(h) ==
    /\ pc[h] = "calling"
    /\ \E r \in Responses(h, req[h].method) : resp' = [resp EXCEPT ![h] = r]
    /\ Goes(h, "reading") /\ UNCHANGED req

\* The upstream cannot be reached (external).
CallFails(h) == pc[h] = "calling" /\ Writes(h, HttpError("502"))

BugNoHeaderTimeout(h) == FALSE

\* ResponseHeaderTimeout strikes.
TimesOut(h) == pc[h] = "calling" /\ Writes(h, HttpError("502"))

\* handleMCPPost's own way; what is no JSON-RPC takes forwardRaw.
Intercepts(h) == req[h].method # "garbage"

\* The body stalls before the limit and before the scanner gives up.  No timeout
\* ends the read.
Waits(h) ==
    /\ resp[h].defect = "stalls"
    /\ Length(resp[h].events) < MaxBody
    /\ ~ (Intercepts(h) /\ Overflows(resp[h]))

\* The body ends, breaks off or reaches a limit (external).
BodyEnds(h) ==
    /\ pc[h] = "reading" /\ ~ Waits(h)
    /\ Goes(h, "answered") /\ UNCHANGED <<req, resp>>

\* The client goes, and takes the call to the upstream with it (external).
ClientLeaves(h) == pc[h] \in {"calling", "reading"} /\ Writes(h, Gone)

\* The status a response of the upstream has when it is passed on.
Status(h) == IF resp[h].defect = "refused" THEN "401" ELSE "200"

\* forwardRaw: the body as far as it could be read, errors ignored.
RawCopy(h) ==
    LET cut == resp[h].defect = "broken" \/ Length(resp[h].events) > MaxBody
    IN Answer(Status(h), IF cut THEN "cut" ELSE "raw", NoContent, NoContent, "kept")

CopiesRaw(h) ==
    /\ pc[h] = "answered" /\ ~ Intercepts(h)
    /\ Writes(h, RawCopy(h))

ReadsBadly(h) ==
    /\ pc[h] = "answered" /\ Intercepts(h)
    /\ ReadFails(resp[h])
    /\ Writes(h, HttpError("502"))

\* The upstream has answered with a body that could be read.
Treats(h) == pc[h] = "answered" /\ Intercepts(h) /\ ~ ReadFails(resp[h])

BugIgnoresStatus(h) == Body(resp[h]).form \notin {"opaque", "cut", "nothing"}

\* A 2xx with a body that parses as JSON.
Readable(h) == resp[h].defect # "refused" /\ Body(resp[h]).form \notin {"opaque", "cut", "nothing"}

\* copyResponse: status, headers and body go back as doUpstream returned them.
CopiesBack(h) ==
    LET headers == IF resp[h].type = "sse" THEN "retyped" ELSE "kept" IN
    /\ Treats(h) /\ ~ Readable(h)
    /\ Writes(h, Answer(Status(h), Body(resp[h]).form, Body(resp[h]).content, NoContent, headers))

\* The body is an ordinary result, and this method was asked.
ResultOf(h, method) ==
    /\ Treats(h) /\ Readable(h)
    /\ req[h].method = method
    /\ IsResponse(Body(resp[h])) /\ Body(resp[h]).form = "result"

BugSkipsStreams(h) ==
    resp[h].type = "json" /\ ResultOf(h, "tools/call") /\ Size[Body(resp[h]).content] >= Threshold

\* MaybeCache's conditions.
Cacheable(h) == ResultOf(h, "tools/call") /\ Size[Body(resp[h]).content] >= Threshold

\* Store may evict older results before the new one goes in.
Evicts(h) ==
    /\ Cacheable(h)
    /\ \E id \in CacheIds : Store!Drop(id)
    /\ UNCHANGED <<pc, req, resp, reply, recorded>>

BugNamesAnyEntry(h, id) ==
    { Answer("200", "stub", Body(resp[h]).content, other, "dropped") : other \in DOMAIN held \cup {id} }

StubFor(h, id) == { Answer("200", "stub", Body(resp[h]).content, id, "dropped") }

\* MaybeCache and writeJSON.
Caches(h) ==
    /\ Cacheable(h)
    /\ \E id \in CacheIds :
         Store!Put(id, Body(resp[h]).content) /\ \E stub \in StubFor(h, id) : Finish(h, stub)
    /\ recorded' = [recorded EXCEPT !.results = @ + 1]

Injects(h) ==
    /\ ResultOf(h, "tools/list")
    /\ Writes(h, Answer("200", "injected", NoContent, NoContent, "dropped"))

\* JSON that neither of the two rewrites.
Untouched(h) == Treats(h) /\ Readable(h) /\ ~ Cacheable(h) /\ ~ ResultOf(h, "tools/list")

\* writeJSON of the body as it is: a 200 without the upstream's headers.
WritesBody(h) ==
    /\ Untouched(h)
    /\ Writes(h, Answer("200", Body(resp[h]).form, Body(resp[h]).content, NoContent, "dropped"))

Finished == (\A h \in Handlers : pc[h] = "done") /\ UNCHANGED vars

Handles(h) ==
    \/ Seeks(h) \/ Calls(h) \/ CopiesRaw(h) \/ ReadsBadly(h)
    \/ CopiesBack(h) \/ Caches(h) \/ Injects(h) \/ WritesBody(h)

Next ==
    \/ \E h \in Handlers :
         \/ Posts(h) \/ Rejects(h) \/ Handles(h) \/ Evicts(h)
         \/ UpstreamAnswers(h) \/ CallFails(h) \/ TimesOut(h) \/ BodyEnds(h) \/ ClientLeaves(h)
    \/ Finished

Spec == Init /\ [][Next]_vars

\* Some handler that can go on does; some header timeout that runs strikes in the
\* end; some body that does not stall ends.  (A POST takes few steps, so this much
\* is enough.)  The upstream need never answer, though it takes the request in: the
\* timeout runs from there.  No upload need break off, no entry be evicted and no
\* client post or leave.
FairSpec ==
    /\ Spec
    /\ WF_vars(\E h \in Handlers : Rejects(h) \/ Handles(h))
    /\ WF_vars(\E h \in Handlers : TimesOut(h))
    /\ WF_vars(\E h \in Handlers : BodyEnds(h))

-----------------------------------------------------------------------------
(* What a client sees of it: see Guard *)

Asked(h) ==
    [method |-> IF req[h].method = "garbage" THEN "other" ELSE req[h].method, ref |-> req[h].ref]

\* A result counts as one only where it answers tools/call and the proxy could
\* read it; a POST of seek_result that is rejected has failed like a miss.
View(h) ==
    LET seek == req[h].method = "seek_result"
        form == IF seek THEN IF reply[h].form = "text" THEN "text" ELSE "error"
                ELSE IF reply[h].form \in {"stub", "injected"} THEN reply[h].form
                ELSE IF /\ req[h].method = "tools/call"
                        /\ reply[h].form = "result" /\ reply[h].headers = "dropped"
                     THEN "result" ELSE "other"
    IN [form |-> form, ref |-> IF seek THEN req[h].ref ELSE reply[h].ref,
        content |-> IF form \in {"result", "stub", "text"} THEN reply[h].content ELSE NoContent]

G == INSTANCE Guard WITH
         Requests <- Handlers, Ids <- CacheIds,
         asked <- [h \in Handlers |-> Asked(h)],
         answers <- [h \in Handlers |-> IF pc[h] = "done" THEN <<View(h)>> ELSE <<>>]

-----------------------------------------------------------------------------
(* Properties *)

\* Every variable has its type, and an answer of the upstream is there exactly
\* for the handlers that asked for one and got it.
TypeOK ==
    /\ pc \in [Handlers -> {"idle", "received", "calling", "reading", "answered", "done"}]
    /\ \A h \in Handlers :
         /\ pc[h] = "idle" <=> req[h].method = "none"
         /\ pc[h] = "idle" \/ req[h] \in PostsOf(h)
         /\ resp[h].type \in {"none", "json", "sse"} /\ resp[h].defect \in Defects[h] \cup {"none"}
         /\ pc[h] \in {"reading", "answered"} => resp[h] # NoResponse
         /\ pc[h] = "done" <=> reply[h] # NoReply
         /\ reply[h].status \in {"none", "gone", "200", "400", "401", "413", "502"}
    /\ Store!StoreTypeOK

\* A result above the threshold reaches the client inline only when the proxy
\* cannot read it: compressed, longer than the body limit, or part of a refusal.
\* In particular a stream hides none behind other messages
\* (server.go:176-205,268-289).
LargeNeverInline ==
    \A h \in Handlers :
        req[h].method = "tools/call" /\ reply[h].form \notin {"none", "stub"}
          /\ reply[h].content \in Contents /\ Size[reply[h].content] > Threshold
            => \/ resp[h].defect \in {"gzip", "refused"}
               \/ Length(resp[h].events) > MaxBody /\ reply[h].form = "cut"

\* A seek_result that answers with text answers with what was behind the one
\* stub that names its id, whichever handlers stored, evicted and read in
\* between (server.go:162,201; cache.go:58-86).
SeekReadsOriginal ==
    LET Stubs == { h \in Handlers : reply[h].form = "stub" } IN
    /\ \A g, h \in Stubs : reply[g].ref = reply[h].ref => g = h
    /\ \A h \in Handlers :
         reply[h].form = "text" =>
             \E g \in Stubs : /\ reply[g].ref = reply[h].ref
                              /\ reply[g].content = reply[h].content

\* What is cached, injected into or passed on as JSON is a response the upstream
\* sent whole within the limits, never a part of one, and it is the POST's own
\* unless that did not come whole at all or came before a response of some other
\* id: no id is compared, the last response wins (server.go:182-205,247,259,268-289).
OnlyWholeResponses ==
    \A h \in Handlers :
        reply[h].form \in {"stub", "injected", "result"} /\ req[h].method # "seek_result" =>
            LET events == resp[h].events
                Whole == { i \in DOMAIN events : Length(SubSeq(events, 1, i)) <= MaxBody }
            IN \E i \in Whole :
                 /\ IsResponse(events[i]) /\ events[i].content = reply[h].content
                 /\ \A j \in Whole : j > i => events[j].kind # "response"

\* The body of this POST's answer is collected from a stream.
Collects(h) == resp[h].type = "sse" /\ Intercepts(h)

\* The client has its answer with the upstream's headers and body as they came.
AsSent(h) == reply[h].headers = "kept" /\ reply[h].form # "cut"

\* A client that is there is told of a refusal, a 401 above all, by its status and
\* headers, and no other answer looks like one.  The body is the upstream's, and
\* "completely unchanged" (server.go:175), exactly when it is no stream and not
\* longer than the limit; of a stream the last response is left under another
\* Content-Type (server.go:247-256), and a stream with too long a line is a 502.
RefusalsPassThrough ==
    \A h \in Handlers :
        pc[h] = "done" /\ resp[h] # NoResponse /\ reply[h].status # "gone" =>
            \/ resp[h].defect # "refused" /\ reply[h].status # "401"
            \/ /\ resp[h].defect = "refused" /\ Collects(h) /\ ReadFails(resp[h])
               /\ reply[h].status = "502"
            \/ /\ resp[h].defect = "refused" /\ ~ (Collects(h) /\ ReadFails(resp[h]))
               /\ reply[h].status = "401" /\ reply[h].headers # "dropped"
               /\ AsSent(h) <=> ~ Collects(h) /\ Length(resp[h].events) <= MaxBody

\* The statistics count exactly the stubs and the texts that were written
\* (intercept.go:60,78).
RecordedExactly ==
    /\ recorded.results = Cardinality({ h \in Handlers : reply[h].form = "stub" })
    /\ recorded.seeks = Cardinality({ h \in Handlers : reply[h].form = "text" })

\* Every POST that has arrived is answered, whatever the upstream sends and if it
\* sends nothing, with one exception: a body that stalls after its headers.  Only
\* the headers have a timeout (server.go:34-36,91), so the POST waits as long as
\* the upstream and the client do: for the rest of a body, for the end of a stream
\* whose response has long come, or for an upstream that has asked the client
\* something and whose question collectSSE holds back (server.go:247,259,308).
EveryPostAnswered ==
    \A h \in Handlers : pc[h] = "received" ~> (pc[h] = "done" \/ (pc[h] = "reading" /\ Waits(h)))

\* Whatever the handlers of concurrent POSTs do in what order, the clients are
\* served as Guard promises (server.go:132-209).
ImplementsGuard == G!GuardSpec

\* README.md:81: "`401` responses, ... and all other non-tool-call traffic are
\* forwarded byte-for-byte".  An answer to another method is written by writeJSON
\* (server.go:208), which keeps none of the upstream's headers; a refusal that is
\* a stream is replaced by one of its events (server.go:247-256).
OtherTrafficUnchanged ==
    \A h \in Handlers :
        pc[h] = "done" /\ resp[h] # NoResponse /\ reply[h].status # "gone"
          /\ (resp[h].defect = "refused" \/ (resp[h].defect = "none" /\ req[h].method = "other"))
            => reply[h].status = Status(h) /\ AsSent(h)
=============================================================================
