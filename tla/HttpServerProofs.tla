-------------------------- MODULE HttpServerProofs --------------------------
(***************************************************************************)
(* Proofs about HttpServer for any number of POSTs, any contents, lengths, *)
(* limits, defects and strays of responses.  How much of a line is within  *)
(* the limit matters to OnlyWholeResponses alone: before its section       *)
(* Within stays unexpanded.                                                *)
(***************************************************************************)
EXTENDS HttpServer, FiniteSetTheorems, TLAPS

Stages == {"idle", "received", "calling", "reading", "answered", "done"}
NoRequest == Request("none", NoContent, 0)

Forms == {"none", "text/plain", "raw", "nothing", "empty", "opaque", "cut",
          "error", "text", "result", "stub", "injected"}

AnswerSet ==
    [status : {"none", "gone", "200", "400", "401", "413", "502"}, form : Forms,
     content : Contents \cup {NoContent}, ref : CacheIds \cup {NoContent},
     headers : {"kept", "retyped", "dropped"}]

Stubs == { h \in Handlers : reply[h].form = "stub" }
Texts == { h \in Handlers : reply[h].form = "text" }

-----------------------------------------------------------------------------
(* The inductive invariant *)

\* The variables are functions of handlers, with the values these may have.
Shapes ==
    /\ pc \in [Handlers -> Stages]
    /\ DOMAIN req = Handlers
    /\ reply \in [Handlers -> AnswerSet]
    /\ DOMAIN resp = Handlers
    /\ recorded \in [results : Nat, seeks : Nat]
    /\ Store!StoreTypeOK

\* What a handler has depends on how far it is.
Protocol(h) ==
    /\ pc[h] = "idle" <=> req[h] = NoRequest
    /\ req[h] \in PostsOf(h) \cup {NoRequest}
    /\ pc[h] \in {"calling", "reading", "answered"} => req[h].method # "seek_result"
    /\ resp[h] = NoResponse \/ resp[h] \in Responses(h, req[h].method)
    /\ pc[h] \in {"idle", "received", "calling"} => resp[h] = NoResponse
    /\ pc[h] \in {"reading", "answered"} => resp[h] \in Responses(h, req[h].method)
    /\ pc[h] = "done" <=> reply[h] # NoReply

\* Every entry of the cache, and every text read from it, stands behind the one
\* stub that names its id.
Backed ==
    /\ \A h \in Stubs : reply[h].ref \in issued
    /\ \A g, h \in Stubs : reply[g].ref = reply[h].ref => g = h
    /\ \A id \in DOMAIN held :
         \E g \in Stubs : reply[g].ref = id /\ reply[g].content = held[id]
    /\ \A h \in Texts :
         \E g \in Stubs : reply[g].ref = reply[h].ref /\ reply[g].content = reply[h].content

IInv ==
    /\ Shapes
    /\ \A h \in Handlers : Protocol(h)
    /\ Backed
    /\ LargeNeverInline
    /\ RefusalsPassThrough

-----------------------------------------------------------------------------
(* Messages of the upstream *)

EventSet ==
    [kind : {"response", "stray", "other", "none"},
     form : {"raw", "error", "result", "nothing", "empty"},
     content : Contents \cup {NoContent}, len : Nat]

\* An event is a result only if it is a response, only a result of tools/call
\* has content, and a response is not empty.
Plausible(e, method) ==
    /\ e \in EventSet
    /\ e.form = "result" => IsResponse(e)
    /\ e.content \in Contents => e.form = "result"
    /\ e.form = "result" /\ method = "tools/call" => e.content \in Contents
    /\ method # "tools/call" => e.content = NoContent
    /\ IsResponse(e) => e.len > 0

\* What answers a method is plausible, and so is a stray.
LEMMA AnswersPlausible ==
  ASSUME NEW m
  PROVE  /\ \A a \in Answers(m) : Plausible(a, m)
         /\ \A h \in Handlers : \A e \in Results("stray", m, Strays[h]) : Plausible(e, m)
<1>1. \A c \in Contents : Size[c] \in Nat \ {0}
  BY SizeAssumption
<1>2. \A h \in Handlers : Strays[h] \subseteq Contents
  BY StraysAssumption
<1>3. ASSUME NEW kind \in {"response", "stray"}, NEW cs \in SUBSET Contents,
             NEW e \in Results(kind, m, cs)
      PROVE  Plausible(e, m)
  BY <1>1, <1>3, NoContentAssumption DEF Results, Event, IsResponse, Plausible, EventSet
<1>4. Plausible(Event("response", "error", NoContent, 1), m)
  BY NoContentAssumption DEF Event, IsResponse, Plausible, EventSet
<1> QED
  BY <1>2, <1>3, <1>4 DEF Answers

\* A response has one or two plausible events, and a JSON body has one.
LEMMA ResponseShape ==
  ASSUME NEW h \in Handlers, NEW m, NEW r \in Responses(h, m)
  PROVE  /\ r # NoResponse
         /\ r.type \in {"json", "sse"}
         /\ r.defect \in Defects[h]
         /\ DOMAIN r.events = {1} \/ DOMAIN r.events = {1, 2}
         /\ r.type = "json" => DOMAIN r.events = {1}
         /\ r.events \in Seq(EventSet)
         /\ \A i \in DOMAIN r.events : Plausible(r.events[i], m)
<1> DEFINE P == { e \in EventSet : Plausible(e, m) }
           Beside == {Aside} \cup Results("stray", m, Strays[h])
           Alone == { <<e>> : e \in Answers(m) \cup Beside }
           Pairs == UNION { {<<a, b>>, <<b, a>>} : a \in Answers(m), b \in Beside }
           NoBody == IF m = "other" THEN {<<Nothing>>} ELSE {}
           One == { <<e>> : e \in P }
           Two == { <<e, f>> : e \in P, f \in P }
<1>1. Aside \in P /\ Nothing \in P
  BY NoContentAssumption DEF Aside, Nothing, Event, IsResponse, Plausible, EventSet
<1>2. Answers(m) \subseteq P /\ Beside \subseteq P
  BY <1>1, AnswersPlausible DEF Plausible
<1>3. Alone \cup NoBody \subseteq One /\ Pairs \subseteq Two
  <2> HIDE DEF P, Beside
  <2> QED
    BY <1>1, <1>2
<1>4. PICK es, d, t : /\ r = Response(t, es, d) /\ t \in {"json", "sse"} /\ d \in Defects[h]
                      /\ es \in One \cup Two /\ (t = "json" => es \in One)
  <2>1. r \in { Response("json", es, d) : es \in Alone \cup NoBody, d \in Defects[h] }
              \cup { Response("sse", es, d) : es \in Alone \cup Pairs, d \in Defects[h] }
    BY DEF Responses
  <2> HIDE DEF Alone, NoBody, Pairs, One, Two
  <2> QED
    BY <1>3, <2>1
<1>5. \A x, y \in EventSet : /\ <<x>> \in Seq(EventSet) /\ DOMAIN <<x>> = {1}
                             /\ <<x, y>> \in Seq(EventSet) /\ DOMAIN <<x, y>> = {1, 2}
  OBVIOUS
<1>6. \A e \in P : e \in EventSet /\ Plausible(e, m)
  OBVIOUS
<1> HIDE DEF P
<1>7. /\ es \in Seq(EventSet) /\ \A i \in DOMAIN es : Plausible(es[i], m)
      /\ DOMAIN es = {1} \/ DOMAIN es = {1, 2}
      /\ es \in One => DOMAIN es = {1}
  <2>1. CASE es \in One
    BY <1>5, <1>6, <2>1
  <2>2. CASE es \in Two
    <3>1. PICK e, f \in P : es = <<e, f>>
      BY <2>2
    <3>2. DOMAIN es = {1, 2} /\ es \in Seq(EventSet) /\ es[1] = e /\ es[2] = f
      BY <1>5, <1>6, <3>1
    <3>3. es \notin One
      <4> SUFFICES ASSUME NEW x \in P, es = <<x>> PROVE FALSE
        OBVIOUS
      <4> QED
        BY <3>2
    <3> QED
      BY <1>6, <3>2, <3>3
  <2> QED
    BY <1>4, <2>1, <2>2
<1> QED
  BY <1>4, <1>7 DEF Response, NoResponse

\* The last of a response's events that are of some kind is one of them, with
\* none of them behind it.
LEMMA LastIs ==
  ASSUME NEW es, DOMAIN es = {1} \/ DOMAIN es = {1, 2}, NEW which \in SUBSET DOMAIN es
  PROVE  \/ Last(es, which) = Empty
         \/ \E i \in which : Last(es, which) = es[i] /\ \A j \in which : j <= i
<1>1. CASE which = {}
  BY <1>1 DEF Last
<1>2. CASE which # {}
  <2>1. \E i \in which : \A j \in which : j <= i
    BY <1>2
  <2> QED
    BY <1>2, <2>1 DEF Last
<1> QED
  BY <1>1, <1>2

\* What Length computes, without the recursion: a stream has at most two events.
LEMMA LengthLemma ==
  ASSUME NEW es, DOMAIN es = {} \/ DOMAIN es = {1} \/ DOMAIN es = {1, 2},
         \A i \in DOMAIN es : es[i].len \in Nat
  PROVE  /\ DOMAIN es = {} => Length(es) = 0
         /\ DOMAIN es = {1} => Length(es) = es[1].len
         /\ DOMAIN es = {1, 2} => Length(es) = es[1].len + es[2].len
<1> DEFINE S == DOMAIN es
           Sum(g) == [s \in SUBSET S |->
                        IF s = {} THEN 0
                        ELSE LET x == CHOOSE x \in s : TRUE IN es[x].len + g[s \ {x}]]
           iter == CHOOSE g : g = Sum(g)
           At(i) == IF i \in S THEN es[i].len ELSE 0
           total == [s \in SUBSET S |-> (IF 1 \in s THEN At(1) ELSE 0) + (IF 2 \in s THEN At(2) ELSE 0)]
<1>1. Length(es) = iter[S]
  BY DEF Length, MapThenSumSet, MapThenFoldSet
<1>2. total = Sum(total)
  <2> SUFFICES ASSUME NEW s \in SUBSET S
               PROVE  total[s] = IF s = {} THEN 0
                                 ELSE LET x == CHOOSE x \in s : TRUE IN es[x].len + total[s \ {x}]
    OBVIOUS
  <2>1. CASE s = {}
    BY <2>1
  <2>2. CASE s # {}
    <3> DEFINE x == CHOOSE x \in s : TRUE
    <3>1. x \in s /\ x \in {1, 2}
      BY <2>2
    <3> HIDE DEF x
    <3>2. total[s] = es[x].len + total[s \ {x}]
      BY <3>1
    <3> QED
      BY <2>2, <3>2 DEF x
  <2> QED
    BY <2>1, <2>2
<1>3. iter = Sum(iter)
  <2> HIDE DEF total, Sum
  <2> QED
    BY <1>2
<1>4. \A s \in SUBSET S : iter[s] = IF s = {} THEN 0
                                    ELSE LET x == CHOOSE x \in s : TRUE IN es[x].len + iter[s \ {x}]
  <2> HIDE DEF iter
  <2> QED
    BY <1>3
<1> HIDE DEF iter, total, Sum
<1>5. iter[{}] = 0
  BY <1>4
<1>6. ASSUME NEW i \in S PROVE iter[{i}] = es[i].len
  <2>1. (CHOOSE x \in {i} : TRUE) = i
    OBVIOUS
  <2>2. {i} \ {i} = {} /\ {i} # {} /\ {i} \in SUBSET S
    OBVIOUS
  <2>3. iter[{i}] = es[i].len + iter[{}]
    BY <1>4, <2>1, <2>2
  <2> QED
    BY <1>5, <2>3
<1>7. \A i \in S : es[i].len \in Nat
  OBVIOUS
<1>8. ASSUME S = {1, 2} PROVE iter[{1, 2}] = es[1].len + es[2].len
  <2> DEFINE x == CHOOSE x \in {1, 2} : TRUE
  <2>1. x \in {1, 2}
    OBVIOUS
  <2>2. iter[{1, 2}] = es[x].len + iter[{1, 2} \ {x}]
    BY <1>4, <1>8
  <2> HIDE DEF x
  <2>3. CASE x = 1
    <3>1. {1, 2} \ {x} = {2}
      BY <2>3
    <3> QED
      BY <1>6, <1>8, <2>2, <2>3, <3>1
  <2>4. CASE x = 2
    <3>1. {1, 2} \ {x} = {1}
      BY <2>4
    <3>2. iter[{1, 2}] = es[2].len + es[1].len
      BY <1>6, <1>8, <2>2, <2>4, <3>1
    <3>3. es[1].len \in Nat /\ es[2].len \in Nat
      BY <1>7, <1>8
    <3> HIDE DEF S
    <3> QED
      BY <3>2, <3>3
  <2> QED
    BY <2>1, <2>3, <2>4
<1> QED
  BY <1>1, <1>5, <1>6, <1>8

\* A response has a length.
LEMMA LengthNat ==
  ASSUME NEW h \in Handlers, NEW m, NEW r \in Responses(h, m)
  PROVE  Length(r.events) \in Nat
<1>1. /\ DOMAIN r.events = {1} \/ DOMAIN r.events = {1, 2}
      /\ \A i \in DOMAIN r.events : r.events[i].len \in Nat
  BY ResponseShape DEF Plausible, EventSet
<1>2. CASE DOMAIN r.events = {1}
  BY <1>1, <1>2, LengthLemma
<1>3. CASE DOMAIN r.events = {1, 2}
  <2>1. /\ Length(r.events) = r.events[1].len + r.events[2].len
        /\ r.events[1].len \in Nat /\ r.events[2].len \in Nat
    BY <1>1, <1>3, LengthLemma
  <2> QED
    BY <2>1
<1> QED
  BY <1>1, <1>2, <1>3

\* The body the proxy works with: content of tools/call results is in results,
\* compressed bodies or bodies that were cut, and nowhere else.
BodyOf(b, r, method) ==
    /\ b.kind \in {"response", "stray", "other", "none"}
    /\ b.form \in {"raw", "error", "result", "nothing", "empty", "opaque", "cut"}
    /\ b.content \in Contents \cup {NoContent}
    /\ b.form = "result" => IsResponse(b)
    /\ b.form = "result" /\ method = "tools/call" => b.content \in Contents
    /\ b.content \in Contents => b.form \in {"result", "opaque", "cut"}
    /\ method # "tools/call" => b.content = NoContent
    /\ b.form = "opaque" => r.defect = "gzip"
    /\ b.form = "cut" => Length(r.events) > MaxBody

LEMMA BodyShape ==
  ASSUME NEW h \in Handlers, NEW m, NEW r \in Responses(h, m)
  PROVE  BodyOf(Body(r), r, m)
<1>0. /\ r.type \in {"json", "sse"}
      /\ DOMAIN r.events = {1} \/ DOMAIN r.events = {1, 2}
      /\ \A i \in DOMAIN r.events : Plausible(r.events[i], m)
  BY ResponseShape
<1>1. \A e : Plausible(e, m) => BodyOf(e, r, m)
  BY DEF Plausible, EventSet, BodyOf
<1>2. CASE r.type = "sse"
  <2>1. Plausible(Empty, m)
    BY NoContentAssumption DEF Empty, Event, IsResponse, Plausible, EventSet
  <2>2. Plausible(Collected(r), m)
    <3> DEFINE which == { i \in DOMAIN r.events : /\ r.defect # "gzip"
                                                  /\ IsResponse(r.events[i])
                                                  /\ Within(r.events, i) = r.events[i].len }
    <3>1. Collected(r) = Last(r.events, which)
      BY DEF Collected
    <3>2. which \in SUBSET DOMAIN r.events
      OBVIOUS
    <3> HIDE DEF which
    <3> QED
      BY <1>0, <2>1, <3>1, <3>2, LastIs
  <2> QED
    BY <1>1, <1>2, <2>2 DEF Body
<1>3. CASE r.type = "json"
  <2>1. /\ r.events[1] \in EventSet /\ Plausible(r.events[1], m)
        /\ m # "tools/call" => r.events[1].content = NoContent
    BY <1>0 DEF Plausible
  <2>2. CASE r.defect = "gzip"
    BY <1>3, <2>1, <2>2 DEF Body, BodyOf, EventSet
  <2>3. CASE r.defect # "gzip" /\ Length(r.events) > MaxBody
    BY <1>3, <2>1, <2>3 DEF Body, BodyOf, EventSet
  <2>4. CASE r.defect # "gzip" /\ ~ (Length(r.events) > MaxBody)
    BY <1>1, <1>3, <2>1, <2>4 DEF Body
  <2> QED
    BY <2>2, <2>3, <2>4
<1> QED
  BY <1>0, <1>2, <1>3

\* A JSON body that is not compressed is cut exactly when it is too long.
LEMMA JsonBody ==
  ASSUME NEW h \in Handlers, NEW m, NEW r \in Responses(h, m), r.type = "json", r.defect # "gzip"
  PROVE  Body(r).form = "cut" <=> Length(r.events) > MaxBody
<1>1. r.events[1].form # "cut" /\ r.events[1] \in EventSet
  BY ResponseShape DEF Plausible, EventSet
<1> QED
  BY <1>1 DEF Body, EventSet

-----------------------------------------------------------------------------
(* What finishing a POST preserves *)

\* No large result in this answer, but for the exceptions of LargeNeverInline.
Intact(h, a) ==
    req[h].method = "tools/call" /\ a.form # "stub"
      /\ a.content \in Contents /\ Size[a.content] > Threshold
        => \/ resp[h].defect \in {"gzip", "refused"}
           \/ Length(resp[h].events) > MaxBody /\ a.form = "cut"

\* This answer treats a refusal as RefusalsPassThrough demands.
Honest(h, a) ==
    resp[h] # NoResponse /\ a.status # "gone" =>
        \/ resp[h].defect # "refused" /\ a.status # "401"
        \/ resp[h].defect = "refused" /\ Collects(h) /\ ReadFails(resp[h]) /\ a.status = "502"
        \/ /\ resp[h].defect = "refused" /\ ~ (Collects(h) /\ ReadFails(resp[h]))
           /\ a.status = "401" /\ a.headers # "dropped"
           /\ (a.headers = "kept" /\ a.form # "cut")
                <=> ~ Collects(h) /\ Length(resp[h].events) <= MaxBody

Open(h) == h \in Handlers /\ pc[h] \in {"received", "calling", "reading", "answered"}

\* A POST that is not done has no answer yet.
LEMMA NotYet ==
  ASSUME IInv, NEW h \in Handlers, pc[h] # "done"
  PROVE  reply[h] = NoReply /\ h \notin Stubs /\ h \notin Texts
<1>1. reply[h] = NoReply
  BY DEF IInv, Protocol
<1>2. NoReply.form = "none"
  BY DEF NoReply, Answer
<1> QED
  BY <1>1, <1>2 DEF Stubs, Texts

LEMMA FinishKeeps ==
  ASSUME IInv, NEW h, Open(h), NEW a \in AnswerSet, a.status # "none",
         Intact(h, a), Honest(h, a), Finish(h, a)
  PROVE  /\ pc' \in [Handlers -> Stages]
         /\ DOMAIN req' = Handlers
         /\ reply' \in [Handlers -> AnswerSet]
         /\ DOMAIN resp' = Handlers
         /\ \A g \in Handlers : Protocol(g)'
         /\ LargeNeverInline'
         /\ RefusalsPassThrough'
<1>1. /\ h \in Handlers
      /\ pc' = [pc EXCEPT ![h] = "done"]
      /\ reply' = [reply EXCEPT ![h] = a]
      /\ req' = req /\ resp' = resp
      /\ pc \in [Handlers -> Stages] /\ reply \in [Handlers -> AnswerSet]
  BY DEF Finish, IInv, Shapes, Open
<1>2. /\ pc' \in [Handlers -> Stages]
      /\ DOMAIN req' = Handlers
      /\ reply' \in [Handlers -> AnswerSet]
      /\ DOMAIN resp' = Handlers
  BY <1>1 DEF IInv, Shapes, Stages
<1>3. \A g \in Handlers : g # h => pc'[g] = pc[g] /\ reply'[g] = reply[g]
  BY <1>1
<1>4. pc'[h] = "done" /\ reply'[h] = a /\ a # NoReply
  BY <1>1 DEF NoReply, Answer
<1>5. ASSUME NEW g \in Handlers PROVE Protocol(g)'
  <2>1. Protocol(g)
    BY DEF IInv
  <2>2. CASE g = h
    BY <1>1, <1>4, <2>1, <2>2 DEF Protocol, Open
  <2>3. CASE g # h
    BY <1>1, <1>3, <2>1, <2>3 DEF Protocol
  <2> QED
    BY <2>2, <2>3
<1>6. LargeNeverInline'
  BY <1>1, <1>3, <1>4 DEF IInv, LargeNeverInline, Intact
<1>7. RefusalsPassThrough'
  BY <1>1, <1>3, <1>4 DEF IInv, RefusalsPassThrough, Honest, AsSent, Collects, Intercepts
<1> QED
  BY <1>2, <1>5, <1>6, <1>7

-----------------------------------------------------------------------------
(* Answers that have nothing to do with the cache *)

\* What Writes puts into an answer.
Plain(h, a) ==
    /\ a \in AnswerSet /\ a.status # "none"
    /\ a.form \notin {"stub", "text"} /\ a.ref = NoContent
    /\ a.form = "injected" => req[h].method = "tools/list"
    /\ req[h].method = "tools/call" /\ a.form = "result" /\ a.headers = "dropped" =>
         a.content \in Contents /\ Size[a.content] <= Threshold
    /\ Intact(h, a)
    /\ Honest(h, a)

PlainStep(h) ==
    Rejects(h) \/ CallFails(h) \/ TimesOut(h) \/ CopiesRaw(h) \/ ClientLeaves(h) \/ ReadsBadly(h)
      \/ CopiesBack(h) \/ Injects(h) \/ WritesBody(h)

LEMMA PlainWrites ==
  ASSUME IInv, NEW h \in Handlers, PlainStep(h)
  PROVE  Open(h) /\ \E a : Writes(h, a) /\ Plain(h, a)
<1> DEFINE r == resp[h]
<1>0. Protocol(h)
  BY DEF IInv
<1>1. \A status \in {"400", "413", "502"} :
         /\ HttpError(status) \in AnswerSet /\ HttpError(status).status = status
         /\ HttpError(status).form = "text/plain" /\ HttpError(status).ref = NoContent
         /\ HttpError(status).content \notin Contents
  BY NoContentAssumption DEF HttpError, Answer, AnswerSet, Forms
<1>2. /\ RawCopy(h) \in AnswerSet /\ RawCopy(h).status = Status(h)
      /\ RawCopy(h).form \in {"raw", "cut"} /\ RawCopy(h).ref = NoContent
      /\ RawCopy(h).form = "cut" <=> r.defect = "broken" \/ Length(r.events) > MaxBody
      /\ RawCopy(h).content \notin Contents /\ RawCopy(h).headers = "kept"
      /\ Status(h) = IF r.defect = "refused" THEN "401" ELSE "200"
  BY NoContentAssumption DEF RawCopy, Answer, AnswerSet, Forms, Status
<1>3. CASE Rejects(h)
  <2>1. Writes(h, HttpError(IF TooLarge(h) THEN "413" ELSE "400")) /\ pc[h] = "received"
    BY <1>3 DEF Rejects
  <2>2. Plain(h, HttpError(IF TooLarge(h) THEN "413" ELSE "400"))
    BY <1>0, <1>1, <2>1 DEF Plain, Intact, Honest, Protocol
  <2> QED
    BY <2>1, <2>2 DEF Open
<1>4. CASE CallFails(h) \/ TimesOut(h)
  <2>1. Writes(h, HttpError("502")) /\ pc[h] = "calling"
    BY <1>4 DEF CallFails, TimesOut
  <2>2. Plain(h, HttpError("502"))
    BY <1>0, <1>1, <2>1 DEF Plain, Intact, Honest, Protocol
  <2> QED
    BY <2>1, <2>2 DEF Open
<1>5. CASE CopiesRaw(h)
  <2>1. Writes(h, RawCopy(h)) /\ pc[h] = "answered" /\ ~ Intercepts(h)
    BY <1>5 DEF CopiesRaw
  <2>2. Length(r.events) \in Nat
    BY <1>0, <2>1, LengthNat DEF Protocol
  <2>3. Honest(h, RawCopy(h))
    BY <1>2, <2>1, <2>2, LimitsAssumption DEF Honest, Collects
  <2>4. Plain(h, RawCopy(h))
    BY <1>2, <2>3 DEF Plain, Intact
  <2> QED
    BY <2>1, <2>4 DEF Open
<1>6. CASE ClientLeaves(h)
  <2>1. Writes(h, Gone) /\ pc[h] \in {"calling", "reading"}
    BY <1>6 DEF ClientLeaves
  <2>2. Plain(h, Gone)
    BY NoContentAssumption DEF Gone, Answer, AnswerSet, Forms, Plain, Intact, Honest
  <2> QED
    BY <2>1, <2>2 DEF Open
<1>7. CASE ReadsBadly(h)
  <2>1. Writes(h, HttpError("502")) /\ pc[h] = "answered" /\ ReadFails(r) /\ Intercepts(h)
    BY <1>7 DEF ReadsBadly
  <2>2. r.type \in {"json", "sse"}
    BY <1>0, <2>1, ResponseShape DEF Protocol
  <2>3. r.defect = "refused" => Collects(h)
    BY <2>1, <2>2 DEF Collects, ReadFails, Overflows
  <2>4. Honest(h, HttpError("502"))
    BY <1>1, <2>1, <2>3 DEF Honest
  <2>5. Plain(h, HttpError("502"))
    BY <1>1, <2>4 DEF Plain, Intact
  <2> QED
    BY <2>1, <2>5 DEF Open
<1>8. ASSUME Treats(h)
      PROVE  pc[h] = "answered" /\ BodyOf(Body(r), r, req[h].method)
  BY <1>0, <1>8, BodyShape DEF Treats, Protocol
<1>9. CASE CopiesBack(h)
  <2> DEFINE kept == IF r.type = "sse" THEN "retyped" ELSE "kept"
             a == Answer(Status(h), Body(r).form, Body(r).content, NoContent, kept)
  <2>1. Treats(h) /\ ~ Readable(h) /\ Writes(h, a)
    BY <1>9 DEF CopiesBack
  <2>2. a \in AnswerSet /\ a.status # "none" /\ a.form \notin {"stub", "text", "injected"}
    BY <1>2, <1>8, <2>1 DEF BodyOf, Answer, AnswerSet, Forms
  <2>3. /\ a.form = Body(r).form /\ a.content = Body(r).content
        /\ a.ref = NoContent /\ a.headers = kept /\ a.status = Status(h)
    BY DEF Answer
  <2>4. Intact(h, a)
    BY <1>8, <2>1, <2>3 DEF Intact, Readable, BodyOf
  <2>5. Honest(h, a)
    <3>1. ~ ReadFails(r) /\ Intercepts(h) /\ r.type \in {"json", "sse"}
      BY <1>0, <1>8, <2>1, ResponseShape DEF Treats, Protocol
    <3>2. CASE r.type = "sse"
      BY <1>2, <2>3, <3>1, <3>2 DEF Honest, Collects
    <3>3. CASE r.type = "json"
      <4>1. r.defect = "refused" => (Body(r).form = "cut" <=> Length(r.events) > MaxBody)
        BY <1>0, <1>8, <2>1, <3>3, JsonBody DEF Protocol
      <4>2. Length(r.events) \in Nat
        BY <1>0, <1>8, <2>1, LengthNat DEF Protocol
      <4> HIDE DEF a
      <4> QED
        BY <1>2, <2>3, <3>1, <3>3, <4>1, <4>2, LimitsAssumption DEF Honest, Collects
    <3> QED
      BY <3>1, <3>2, <3>3
  <2>6. Plain(h, a)
    <3> HIDE DEF a
    <3> QED
      BY <2>2, <2>3, <2>4, <2>5 DEF Plain
  <2> QED
    BY <1>8, <2>1, <2>6 DEF Open
<1>10. CASE Injects(h)
  <2> DEFINE a == Answer("200", "injected", NoContent, NoContent, "dropped")
  <2>1. ResultOf(h, "tools/list") /\ Writes(h, a)
    BY <1>10 DEF Injects
  <2>2. Treats(h) /\ r.defect # "refused" /\ req[h].method = "tools/list"
    BY <2>1 DEF ResultOf, Readable
  <2>3. Plain(h, a)
    BY <2>2, NoContentAssumption DEF Plain, Intact, Honest, Answer, AnswerSet, Forms
  <2> QED
    BY <1>8, <2>1, <2>2, <2>3 DEF Open
<1>11. CASE WritesBody(h)
  <2> DEFINE a == Answer("200", Body(r).form, Body(r).content, NoContent, "dropped")
  <2>1. Untouched(h) /\ Writes(h, a)
    BY <1>11 DEF WritesBody
  <2>2. Treats(h) /\ Readable(h) /\ r.defect # "refused" /\ ~ Cacheable(h)
    BY <2>1 DEF Untouched, Readable
  <2>3. a \in AnswerSet /\ a.form \notin {"stub", "text", "injected"}
    BY <1>8, <2>2 DEF BodyOf, Answer, AnswerSet, Forms
  <2>4. /\ a.form = Body(r).form /\ a.content = Body(r).content
        /\ a.ref = NoContent /\ a.headers = "dropped" /\ a.status = "200"
    BY DEF Answer
  <2>5. ASSUME req[h].method = "tools/call", a.form = "result" \/ a.content \in Contents
        PROVE  a.content \in Contents /\ Size[a.content] <= Threshold
    <3>1. Body(r).form = "result" /\ IsResponse(Body(r)) /\ Body(r).content \in Contents
      BY <1>8, <2>2, <2>4, <2>5 DEF BodyOf, Readable
    <3>2. ~ (Size[Body(r).content] >= Threshold)
      BY <2>2, <2>5, <3>1 DEF Cacheable, ResultOf
    <3> HIDE DEF a
    <3> QED
      BY <2>4, <3>1, <3>2, SizeAssumption
  <2>6. Intact(h, a)
    <3> HIDE DEF a
    <3> QED
      BY <2>5, SizeAssumption DEF Intact
  <2>7. Plain(h, a)
    <3> HIDE DEF a
    <3> QED
      BY <2>2, <2>3, <2>4, <2>5, <2>6 DEF Plain, Honest
  <2> QED
    BY <1>8, <2>1, <2>2, <2>7 DEF Open
<1> QED
  BY <1>3, <1>4, <1>5, <1>6, <1>7, <1>9, <1>10, <1>11 DEF PlainStep

-----------------------------------------------------------------------------
(* The invariant is inductive *)

LEMMA InitInv == Init => IInv
<1> SUFFICES ASSUME Init PROVE IInv
  OBVIOUS
<1>1. NoReply \in AnswerSet /\ NoReply.form = "none" /\ NoReply.content \notin Contents
  BY NoContentAssumption DEF NoReply, Answer, AnswerSet, Forms
<1>2. Shapes
  BY <1>1 DEF Init, Shapes, Stages, NoRequest, Store!StoreInit, Store!StoreTypeOK
<1>3. ASSUME NEW h \in Handlers PROVE Protocol(h)
  BY DEF Init, Protocol, NoRequest, Request
<1>4. Backed
  BY <1>1 DEF Init, Backed, Stubs, Texts, Store!StoreInit
<1>5. LargeNeverInline /\ RefusalsPassThrough
  BY <1>1 DEF Init, LargeNeverInline, RefusalsPassThrough, AsSent, Collects, Intercepts
<1> QED
  BY <1>2, <1>3, <1>4, <1>5 DEF IInv

\* A request of the client is none of those that stand for no request.
LEMMA RequestShape ==
  ASSUME NEW h \in Handlers, NEW r \in PostsOf(h)
  PROVE  /\ r.method \in {"tools/list", "tools/call", "seek_result", "other", "garbage"} /\ r # NoRequest
         /\ r.method # "none"
         /\ r.method = "seek_result" => r.ref \in CacheIds
         /\ r.method # "seek_result" => r.ref = NoContent
  BY MethodsAssumption DEF PostsOf, Request, NoRequest

\* A handler's step that leaves the cache and every answer alone.
LEMMA MovesKeep ==
  ASSUME IInv, NEW h \in Handlers, Posts(h) \/ Calls(h) \/ UpstreamAnswers(h) \/ BodyEnds(h)
  PROVE  IInv'
<1>1. /\ reply' = reply /\ UNCHANGED <<storeVars, recorded>>
      /\ pc[h] \in {"idle", "received", "calling", "reading"}
      /\ \E stage \in {"received", "calling", "reading", "answered"} : pc' = [pc EXCEPT ![h] = stage]
      /\ req' = req \/ \E r \in PostsOf(h) : req' = [req EXCEPT ![h] = r]
      /\ resp' = resp \/ \E r \in Responses(h, req[h].method) : resp' = [resp EXCEPT ![h] = r]
  BY DEF Posts, Calls, UpstreamAnswers, BodyEnds, Goes
<1>2. Shapes'
  BY <1>1 DEF IInv, Shapes, Stages, storeVars, Store!StoreTypeOK
<1>3. \A g \in Handlers : g # h => pc'[g] = pc[g] /\ req'[g] = req[g] /\ resp'[g] = resp[g]
  BY <1>1 DEF IInv, Shapes
<1>4. ASSUME NEW g \in Handlers PROVE Protocol(g)'
  <2>1. Protocol(g) /\ Protocol(h)
    BY DEF IInv
  <2>2. CASE g # h
    BY <1>1, <1>3, <2>1, <2>2 DEF Protocol
  <2>3. CASE Posts(h)
    <3>1. PICK r \in PostsOf(h) : req' = [req EXCEPT ![h] = r]
      BY <2>3 DEF Posts
    <3>2. pc'[h] = "received" /\ req'[h] = r /\ resp' = resp /\ pc[h] = "idle"
      BY <2>3, <3>1 DEF Posts, Goes, IInv, Shapes
    <3>3. Protocol(h)'
      BY <1>1, <2>1, <3>2, RequestShape DEF Protocol
    <3> QED
      BY <2>2, <3>3
  <2>4. CASE Calls(h)
    <3>1. /\ pc'[h] = "calling" /\ req' = req /\ resp' = resp
          /\ pc[h] = "received" /\ req[h].method # "seek_result"
      BY <2>4 DEF Calls, Goes, IInv, Shapes
    <3>2. Protocol(h)'
      BY <1>1, <2>1, <3>1 DEF Protocol
    <3> QED
      BY <2>2, <3>2
  <2>5. CASE UpstreamAnswers(h)
    <3>1. PICK r \in Responses(h, req[h].method) : resp' = [resp EXCEPT ![h] = r]
      BY <2>5 DEF UpstreamAnswers
    <3>2. pc'[h] = "reading" /\ req' = req /\ resp'[h] = r /\ pc[h] = "calling"
      BY <2>5, <3>1 DEF UpstreamAnswers, Goes, IInv, Shapes
    <3>3. Protocol(h)'
      BY <1>1, <2>1, <3>2 DEF Protocol
    <3> QED
      BY <2>2, <3>3
  <2>6. CASE BodyEnds(h)
    <3>1. pc'[h] = "answered" /\ req' = req /\ resp' = resp /\ pc[h] = "reading"
      BY <2>6 DEF BodyEnds, Goes, IInv, Shapes
    <3>2. Protocol(h)'
      BY <1>1, <2>1, <3>1 DEF Protocol
    <3> QED
      BY <2>2, <3>2
  <2> QED
    BY <2>3, <2>4, <2>5, <2>6
<1>5. Backed'
  BY <1>1 DEF IInv, Backed, Stubs, Texts, storeVars
<1>6. reply[h] = NoReply /\ reply[h].form = "none"
  <2>1. Protocol(h) /\ pc[h] # "done"
    BY <1>1 DEF IInv
  <2> QED
    BY <2>1 DEF Protocol, NoReply, Answer
<1>7. LargeNeverInline'
  BY <1>1, <1>3, <1>6 DEF IInv, LargeNeverInline
<1>8. RefusalsPassThrough'
  <2> SUFFICES ASSUME NEW g \in Handlers, pc'[g] = "done"
               PROVE  g # h
    BY <1>1, <1>3 DEF IInv, RefusalsPassThrough, AsSent, Collects, Intercepts
  <2> QED
    BY <1>1 DEF IInv, Shapes
<1> QED
  BY <1>2, <1>4, <1>5, <1>7, <1>8 DEF IInv

LEMMA PlainKeep ==
  ASSUME IInv, NEW h \in Handlers, PlainStep(h)
  PROVE  IInv'
<1>1. PICK a : Open(h) /\ Writes(h, a) /\ Plain(h, a)
  BY PlainWrites
<1>2. Finish(h, a) /\ UNCHANGED <<storeVars, recorded>> /\ reply' = [reply EXCEPT ![h] = a]
  BY <1>1 DEF Writes, Finish
<1>3. /\ pc' \in [Handlers -> Stages]
      /\ DOMAIN req' = Handlers
      /\ reply' \in [Handlers -> AnswerSet]
      /\ DOMAIN resp' = Handlers
      /\ \A g \in Handlers : Protocol(g)'
      /\ LargeNeverInline'
      /\ RefusalsPassThrough'
  BY <1>1, <1>2, FinishKeeps DEF Plain
<1>4. Shapes'
  BY <1>2, <1>3 DEF IInv, Shapes, storeVars, Store!StoreTypeOK
<1>5. Stubs' = Stubs /\ Texts' = Texts /\ \A g \in Stubs \cup Texts : reply'[g] = reply[g]
  <2>1. h \notin Stubs /\ h \notin Texts
    BY <1>1, NotYet DEF Open
  <2>2. \A g \in Handlers : reply'[g] = IF g = h THEN a ELSE reply[g]
    BY <1>2 DEF IInv, Shapes
  <2>3. a.form \notin {"stub", "text"}
    BY <1>1 DEF Plain
  <2> QED
    BY <2>1, <2>2, <2>3 DEF Stubs, Texts
<1>6. Backed'
  BY <1>2, <1>5 DEF IInv, Backed, storeVars
<1> QED
  BY <1>3, <1>4, <1>6 DEF IInv

\* Evicting an entry leaves the rest of the cache as it was.
LEMMA EvictsKeep ==
  ASSUME IInv, NEW h \in Handlers, Evicts(h)
  PROVE  IInv'
<1>1. PICK id \in CacheIds : Store!Drop(id)
  BY DEF Evicts
<1>2. UNCHANGED <<pc, req, resp, reply, recorded>>
  BY DEF Evicts
<1>3. /\ DOMAIN held' = DOMAIN held \ {id} /\ issued' = issued /\ ret' = ret
      /\ \A i \in DOMAIN held \ {id} : held'[i] = held[i]
  BY <1>1 DEF Store!Drop
<1>4. Shapes'
  BY <1>2, <1>3 DEF IInv, Shapes, Store!StoreTypeOK
<1>5. Backed'
  BY <1>2, <1>3 DEF IInv, Backed, Stubs, Texts
<1>6. \A g \in Handlers : Protocol(g)'
  BY <1>2 DEF IInv, Protocol
<1>7. LargeNeverInline' /\ RefusalsPassThrough'
  BY <1>2 DEF IInv, LargeNeverInline, RefusalsPassThrough, AsSent, Collects, Intercepts
<1> QED
  BY <1>4, <1>5, <1>6, <1>7 DEF IInv

\* What answering seek_result does: a text is what the cache held.
SeeksWith(h, form, content) ==
    /\ Open(h) /\ req[h].method = "seek_result" /\ req[h].ref \in CacheIds
    /\ Finish(h, Answer("200", form, content, req[h].ref, "dropped"))
    /\ UNCHANGED <<held, issued>>
    /\ content \in Contents \cup {NoContent}
    /\ \/ form = "error" /\ recorded' = recorded
       \/ /\ form = "text" /\ recorded' = [recorded EXCEPT !.seeks = @ + 1]
          /\ req[h].ref \in DOMAIN held /\ content = held[req[h].ref]

LEMMA SeeksShape ==
  ASSUME IInv, NEW h \in Handlers, Seeks(h)
  PROVE  /\ \E form, content : SeeksWith(h, form, content)
         /\ Store!StoreTypeOK'
<1> DEFINE ref == req[h].ref
           c == IF ref \in DOMAIN held THEN held[ref] ELSE NoContent
<1>1. /\ pc[h] = "received" /\ req[h].method = "seek_result"
      /\ held' = held /\ issued' = issued
      /\ ret' = [ret EXCEPT ![h] = [id |-> ref, content |-> c]]
  BY DEF Seeks, Store!Lookup, Store!Answer
<1>2. Store!StoreTypeOK /\ Protocol(h) /\ req[h] \in PostsOf(h) \cup {NoRequest}
  BY DEF IInv, Shapes, Protocol
<1>3. ref \in CacheIds
  BY <1>1, <1>2, RequestShape DEF Protocol
<1>4. c \in Contents \cup {NoContent}
  BY <1>2 DEF Store!StoreTypeOK
<1> HIDE DEF c, ref
<1>5. Store!StoreTypeOK'
  BY <1>1, <1>2, <1>3, <1>4 DEF Store!StoreTypeOK
<1>6. ret'[h].content = c
  BY <1>1, <1>2 DEF Store!StoreTypeOK
<1>7. PICK o \in Outcomes(ref \in DOMAIN held) :
         /\ recorded' = [recorded EXCEPT !.seeks = @ + o[2]]
         /\ Finish(h, Answer("200", o[1], c, ref, "dropped"))
  BY <1>6 DEF Seeks, ref
<1>8. \/ o[1] = "error" /\ o[2] = 0
      \/ o[1] = "text" /\ o[2] = 1 /\ ref \in DOMAIN held
  BY DEF Outcomes
<1>9. recorded \in [results : Nat, seeks : Nat]
  BY DEF IInv, Shapes
<1>10. o[2] = 0 => recorded' = recorded
  BY <1>7, <1>9
<1>11. SeeksWith(h, o[1], c)
  BY <1>1, <1>3, <1>4, <1>7, <1>8, <1>10 DEF SeeksWith, Open, c, ref
<1> QED
  BY <1>5, <1>11

LEMMA SeeksKeep ==
  ASSUME IInv, NEW h \in Handlers, Seeks(h)
  PROVE  IInv'
<1>1. PICK form, content : SeeksWith(h, form, content)
  BY SeeksShape
<1> DEFINE a == Answer("200", form, content, req[h].ref, "dropped")
<1>2. /\ a \in AnswerSet /\ a.status = "200" /\ a.form = form
      /\ a.content = content /\ a.ref = req[h].ref
  BY <1>1 DEF SeeksWith, Answer, AnswerSet, Forms
<1> HIDE DEF a
<1>3. Finish(h, a) /\ reply' = [reply EXCEPT ![h] = a] /\ Open(h)
  BY <1>1 DEF SeeksWith, Finish, a
<1>4. pc[h] = "received"
  BY <1>1 DEF SeeksWith, Open, IInv, Protocol
<1>5. Intact(h, a) /\ Honest(h, a)
  <2>1. resp[h] = NoResponse /\ req[h].method = "seek_result"
    BY <1>1, <1>4 DEF IInv, Protocol, SeeksWith
  <2> QED
    BY <2>1 DEF Intact, Honest
<1>6. /\ pc' \in [Handlers -> Stages]
      /\ DOMAIN req' = Handlers
      /\ reply' \in [Handlers -> AnswerSet]
      /\ DOMAIN resp' = Handlers
      /\ \A g \in Handlers : Protocol(g)'
      /\ LargeNeverInline'
      /\ RefusalsPassThrough'
  BY <1>2, <1>3, <1>5, FinishKeeps
<1>7. Shapes'
  <2>1. recorded' \in [results : Nat, seeks : Nat]
    BY <1>1 DEF SeeksWith, IInv, Shapes
  <2> QED
    BY <1>6, <2>1, SeeksShape DEF Shapes
<1>8. Backed'
  <2>1. h \notin Stubs /\ h \notin Texts
    BY <1>4, NotYet
  <2>2. \A g \in Handlers : reply'[g] = IF g = h THEN a ELSE reply[g]
    BY <1>3 DEF IInv, Shapes
  <2>3. Stubs' = Stubs /\ \A g \in Stubs \cup Texts : reply'[g] = reply[g]
    BY <1>1, <1>2, <2>1, <2>2 DEF SeeksWith, Stubs, Texts
  <2>4. \A g \in Texts' : g \in Texts \/ (g = h /\ form = "text")
    BY <1>2, <2>2 DEF Texts
  <2>5. ASSUME form = "text"
        PROVE  \E g \in Stubs : reply[g].ref = a.ref /\ reply[g].content = a.content
    BY <1>1, <1>2, <2>5 DEF SeeksWith, IInv, Backed
  <2>6. UNCHANGED <<held, issued>>
    BY <1>1 DEF SeeksWith
  <2>7. ASSUME NEW g \in Texts'
        PROVE  \E s \in Stubs : reply[s].ref = reply'[g].ref /\ reply[s].content = reply'[g].content
    <3>1. CASE g \in Texts
      BY <2>3, <3>1 DEF IInv, Backed
    <3>2. CASE g = h /\ form = "text"
      BY <1>3, <2>2, <2>5, <3>2 DEF Open
    <3> QED
      BY <2>4, <3>1, <3>2
  <2> QED
    BY <2>3, <2>6, <2>7 DEF IInv, Backed
<1> QED
  BY <1>6, <1>7, <1>8 DEF IInv

\* What MaybeCache does with a large result.
CachesWith(h, id, c) ==
    /\ Open(h) /\ req[h].method = "tools/call" /\ resp[h].defect # "refused"
    /\ c \in Contents /\ Size[c] >= Threshold
    /\ id \in CacheIds /\ Store!Put(id, c)
    /\ Finish(h, Answer("200", "stub", c, id, "dropped"))
    /\ recorded' = [recorded EXCEPT !.results = @ + 1]

LEMMA CachesShape ==
  ASSUME IInv, NEW h \in Handlers, Caches(h)
  PROVE  \E id, c : CachesWith(h, id, c)
<1> DEFINE c == Body(resp[h]).content
<1>1. /\ pc[h] = "answered" /\ req[h].method = "tools/call" /\ resp[h].defect # "refused"
      /\ Body(resp[h]).form = "result" /\ Size[c] >= Threshold
  BY DEF Caches, Cacheable, ResultOf, Treats, Readable
<1>2. c \in Contents
  BY <1>1, BodyShape DEF IInv, Protocol, BodyOf
<1>3. PICK id \in CacheIds : /\ Store!Put(id, c)
                             /\ Finish(h, Answer("200", "stub", c, id, "dropped"))
  BY DEF Caches, StubFor
<1> QED
  BY <1>1, <1>2, <1>3 DEF Caches, CachesWith, Open

LEMMA CachesKeep ==
  ASSUME IInv, NEW h \in Handlers, Caches(h)
  PROVE  IInv'
<1>1. PICK id, c : CachesWith(h, id, c)
  BY CachesShape
<1> DEFINE a == Answer("200", "stub", c, id, "dropped")
<1>2. /\ a \in AnswerSet /\ a.status = "200" /\ a.form = "stub"
      /\ a.content = c /\ a.ref = id
  BY <1>1 DEF CachesWith, Answer, AnswerSet, Forms
<1> HIDE DEF a
<1>3. Finish(h, a) /\ reply' = [reply EXCEPT ![h] = a] /\ Open(h)
  BY <1>1 DEF CachesWith, Finish, a
<1>4. Intact(h, a) /\ Honest(h, a)
  BY <1>1, <1>2 DEF CachesWith, Intact, Honest
<1>5. /\ pc' \in [Handlers -> Stages]
      /\ DOMAIN req' = Handlers
      /\ reply' \in [Handlers -> AnswerSet]
      /\ DOMAIN resp' = Handlers
      /\ \A g \in Handlers : Protocol(g)'
      /\ LargeNeverInline'
      /\ RefusalsPassThrough'
  BY <1>2, <1>3, <1>4, FinishKeeps
<1>6. /\ id \notin issued /\ issued' = issued \cup {id} /\ ret' = ret
      /\ DOMAIN held' = DOMAIN held \cup {id} /\ held'[id] = c
      /\ \A i \in DOMAIN held \ {id} : held'[i] = held[i]
  BY <1>1 DEF CachesWith, Store!Put
<1>7. Store!StoreTypeOK'
  <2>1. Store!StoreTypeOK /\ id \in CacheIds /\ c \in Contents
    BY <1>1 DEF CachesWith, IInv, Shapes
  <2> QED
    BY <1>6, <2>1 DEF Store!StoreTypeOK
<1>8. Shapes'
  <2>1. recorded' \in [results : Nat, seeks : Nat]
    BY <1>1 DEF CachesWith, IInv, Shapes
  <2> QED
    BY <1>5, <1>7, <2>1 DEF Shapes
<1>9. Backed'
  <2>1. h \in Handlers /\ h \notin Stubs /\ h \notin Texts
    BY <1>3, NotYet DEF Open
  <2>2. \A g \in Handlers : reply'[g] = IF g = h THEN a ELSE reply[g]
    BY <1>3 DEF IInv, Shapes
  <2>3. Stubs' = Stubs \cup {h} /\ Texts' = Texts
    BY <1>2, <2>1, <2>2 DEF Stubs, Texts
  <2>4. \A g \in Stubs \cup Texts : g # h /\ reply'[g] = reply[g]
    BY <2>1, <2>2 DEF Stubs, Texts
  <2>5. reply'[h].ref = id /\ reply'[h].content = c
    BY <1>2, <2>1, <2>2
  <2>6. \A g \in Stubs : reply[g].ref \in issued /\ reply[g].ref # id
    BY <1>6 DEF IInv, Backed
  <2>7. \A g \in Stubs' : reply'[g].ref \in issued'
    BY <1>6, <2>3, <2>4, <2>5, <2>6
  <2>8. \A f, g \in Stubs' : reply'[f].ref = reply'[g].ref => f = g
    BY <2>3, <2>4, <2>5, <2>6 DEF IInv, Backed
  <2>9. \A i \in DOMAIN held' :
          \E g \in Stubs' : reply'[g].ref = i /\ reply'[g].content = held'[i]
    BY <1>6, <2>3, <2>4, <2>5 DEF IInv, Backed
  <2>10. \A f \in Texts' :
          \E g \in Stubs' : reply'[g].ref = reply'[f].ref /\ reply'[g].content = reply'[f].content
    BY <2>3, <2>4 DEF IInv, Backed
  <2> QED
    BY <2>7, <2>8, <2>9, <2>10 DEF Backed
<1> QED
  BY <1>5, <1>8, <1>9 DEF IInv

\* Next, sorted by what it does to the cache and to the answers.
LEMMA StepCases ==
  ASSUME [Next]_vars
  PROVE  \/ UNCHANGED vars
         \/ \E h \in Handlers : \/ Posts(h) \/ Calls(h) \/ UpstreamAnswers(h) \/ BodyEnds(h)
                               \/ PlainStep(h) \/ Evicts(h) \/ Seeks(h) \/ Caches(h)
  BY DEF Next, Handles, PlainStep, Finished

LEMMA StepInv == IInv /\ [Next]_vars => IInv'
<1> SUFFICES ASSUME IInv, [Next]_vars PROVE IInv'
  OBVIOUS
<1>1. CASE UNCHANGED vars
  BY <1>1 DEF vars, storeVars, IInv, Shapes, Protocol, Backed, Stubs, Texts,
              LargeNeverInline, RefusalsPassThrough, AsSent, Collects, Intercepts, Store!StoreTypeOK
<1>2. ASSUME NEW h \in Handlers, Posts(h) \/ Calls(h) \/ UpstreamAnswers(h) \/ BodyEnds(h) PROVE IInv'
  BY <1>2, MovesKeep
<1>3. ASSUME NEW h \in Handlers, PlainStep(h) PROVE IInv'
  BY <1>3, PlainKeep
<1>4. ASSUME NEW h \in Handlers, Evicts(h) PROVE IInv'
  BY <1>4, EvictsKeep
<1>5. ASSUME NEW h \in Handlers, Seeks(h) PROVE IInv'
  BY <1>5, SeeksKeep
<1>6. ASSUME NEW h \in Handlers, Caches(h) PROVE IInv'
  BY <1>6, CachesKeep
<1> QED
  BY <1>1, <1>2, <1>3, <1>4, <1>5, <1>6, StepCases

\* The conjunction of shapes, protocol, what stands behind the ids, and the
\* treatment of large results and refusals holds in every state.
THEOREM HttpInvariant == Spec => []IInv
  BY InitInv, StepInv, PTL DEF Spec

-----------------------------------------------------------------------------
(* The invariants of the run *)

\* Every variable has its type, for every set of POSTs and contents.
THEOREM HttpTypes == Spec => []TypeOK
<1>1. IInv => TypeOK
  <2> SUFFICES ASSUME IInv PROVE TypeOK
    OBVIOUS
  <2>1. ASSUME NEW h \in Handlers
        PROVE  /\ pc[h] = "idle" <=> req[h].method = "none"
               /\ pc[h] = "idle" \/ req[h] \in PostsOf(h)
               /\ resp[h].type \in {"none", "json", "sse"} /\ resp[h].defect \in Defects[h] \cup {"none"}
               /\ pc[h] \in {"reading", "answered"} => resp[h] # NoResponse
               /\ pc[h] = "done" <=> reply[h] # NoReply
               /\ reply[h].status \in {"none", "gone", "200", "400", "401", "413", "502"}
    <3>1. Protocol(h) /\ req[h] \in PostsOf(h) \cup {NoRequest} /\ reply[h] \in AnswerSet
      BY DEF IInv, Shapes, Protocol
    <3>2. NoRequest.method = "none" /\ NoResponse.type = "none" /\ NoResponse.defect = "none"
      BY DEF NoRequest, Request, NoResponse, Response
    <3>3. req[h] = NoRequest <=> req[h].method = "none"
      BY <3>1, <3>2, RequestShape
    <3>4. resp[h] = NoResponse \/ (resp[h].type \in {"json", "sse"} /\ resp[h].defect \in Defects[h])
      BY <3>1, ResponseShape DEF Protocol
    <3>5. pc[h] \in {"reading", "answered"} => resp[h] # NoResponse
      BY <3>1, ResponseShape DEF Protocol
    <3> QED
      BY <3>1, <3>2, <3>3, <3>4, <3>5 DEF Protocol, AnswerSet
  <2> QED
    BY <2>1 DEF TypeOK, IInv, Shapes, Stages
<1> QED
  BY <1>1, HttpInvariant, PTL

\* No large result reaches a client inline, whatever the threshold and the
\* limits, unless the proxy could not read it.
THEOREM HttpLargeNeverInline == Spec => []LargeNeverInline
  BY HttpInvariant, PTL DEF IInv

\* What seek_result reads is what the one stub with that id stands for, for any
\* number of concurrent POSTs.
THEOREM HttpSeekReadsOriginal == Spec => []SeekReadsOriginal
<1>1. IInv => SeekReadsOriginal
  BY DEF IInv, Backed, SeekReadsOriginal, Stubs, Texts
<1> QED
  BY <1>1, HttpInvariant, PTL

\* Refusals pass through, and nothing else looks like one.
THEOREM HttpRefusalsPassThrough == Spec => []RefusalsPassThrough
  BY HttpInvariant, PTL DEF IInv

\* Finishing a POST with an answer changes the sets of stubs and texts by that
\* answer alone.
LEMMA FinishCounts ==
  ASSUME IInv, NEW h, Open(h), NEW a, Finish(h, a)
  PROVE  /\ h \notin Stubs /\ h \notin Texts
         /\ Stubs' = IF a.form = "stub" THEN Stubs \cup {h} ELSE Stubs
         /\ Texts' = IF a.form = "text" THEN Texts \cup {h} ELSE Texts
<1>1. h \in Handlers /\ h \notin Stubs /\ h \notin Texts
  BY NotYet DEF Open
<1>2. \A g \in Handlers : reply'[g] = IF g = h THEN a ELSE reply[g]
  BY DEF Finish, IInv, Shapes
<1> QED
  BY <1>1, <1>2 DEF Stubs, Texts

\* One more member of a set of handlers is one more.
LEMMA OneMore ==
  ASSUME NEW S \in SUBSET Handlers, NEW h \in Handlers, h \notin S
  PROVE  Cardinality(S \cup {h}) = Cardinality(S) + 1
  BY HandlersAssumption, FS_Subset, FS_AddElement

\* The statistics count exactly the stubs and the texts, for any number of POSTs.
THEOREM HttpRecordedExactly == Spec => []RecordedExactly
<1> DEFINE Exact == /\ recorded.results = Cardinality(Stubs)
                    /\ recorded.seeks = Cardinality(Texts)
<1>1. Init => Exact
  <2> SUFFICES ASSUME Init PROVE Exact
    OBVIOUS
  <2>1. Stubs = {} /\ Texts = {} /\ recorded = [results |-> 0, seeks |-> 0]
    BY DEF Init, Stubs, Texts, NoReply, Answer
  <2> QED
    BY <2>1, FS_EmptySet
<1>2. IInv /\ Exact /\ [Next]_vars => Exact'
  <2> SUFFICES ASSUME IInv, Exact, [Next]_vars PROVE Exact'
    OBVIOUS
  <2>1. ASSUME reply' = reply, recorded' = recorded PROVE Exact'
    BY <2>1 DEF Stubs, Texts
  <2>2. CASE UNCHANGED vars
    BY <2>1, <2>2 DEF vars
  <2>3. ASSUME NEW h \in Handlers, Posts(h) \/ Calls(h) \/ UpstreamAnswers(h) \/ BodyEnds(h) \/ Evicts(h)
        PROVE  Exact'
    BY <2>1, <2>3 DEF Posts, Calls, UpstreamAnswers, BodyEnds, Goes, Evicts
  <2>4. ASSUME NEW h \in Handlers, PlainStep(h) PROVE Exact'
    <3>1. PICK a : Open(h) /\ Writes(h, a) /\ Plain(h, a)
      BY <2>4, PlainWrites
    <3>2. Finish(h, a) /\ recorded' = recorded /\ a.form \notin {"stub", "text"}
      BY <3>1 DEF Writes, Plain
    <3>3. Stubs' = Stubs /\ Texts' = Texts
      BY <3>1, <3>2, FinishCounts
    <3> QED
      BY <3>2, <3>3
  <2>5. recorded \in [results : Nat, seeks : Nat]
    BY DEF IInv, Shapes
  <2>6. ASSUME NEW h \in Handlers, Seeks(h) PROVE Exact'
    <3>1. PICK form, content : SeeksWith(h, form, content)
      BY <2>6, SeeksShape
    <3>2. Stubs' = Stubs /\ h \notin Texts
          /\ Texts' = IF form = "text" THEN Texts \cup {h} ELSE Texts
      BY <3>1, FinishCounts DEF SeeksWith, Answer
    <3>3. CASE form = "error"
      BY <3>1, <3>2, <3>3 DEF SeeksWith
    <3>4. CASE form = "text"
      <4>1. Cardinality(Texts') = Cardinality(Texts) + 1
        BY <3>2, <3>4, OneMore DEF Texts
      <4>2. recorded'.results = recorded.results /\ recorded'.seeks = recorded.seeks + 1
        BY <2>5, <3>1, <3>4 DEF SeeksWith
      <4> QED
        BY <3>2, <4>1, <4>2
    <3> QED
      BY <3>1, <3>3, <3>4 DEF SeeksWith
  <2>7. ASSUME NEW h \in Handlers, Caches(h) PROVE Exact'
    <3>1. PICK id, c : CachesWith(h, id, c)
      BY <2>7, CachesShape
    <3>2. Stubs' = Stubs \cup {h} /\ h \notin Stubs /\ Texts' = Texts
      BY <3>1, FinishCounts DEF CachesWith, Answer
    <3>3. Cardinality(Stubs') = Cardinality(Stubs) + 1
      BY <3>2, OneMore DEF Stubs
    <3>4. recorded'.results = recorded.results + 1 /\ recorded'.seeks = recorded.seeks
      BY <2>5, <3>1 DEF CachesWith
    <3> QED
      BY <3>2, <3>3, <3>4
  <2> QED
    BY <2>2, <2>3, <2>4, <2>6, <2>7, StepCases
<1>3. Exact => RecordedExactly
  BY DEF RecordedExactly, Stubs, Texts
<1> HIDE DEF Exact
<1> QED
  BY <1>1, <1>2, <1>3, HttpInvariant, PTL DEF Spec

-----------------------------------------------------------------------------
(* Only whole responses *)

\* A stream as far as its i-th event is as long as what came before and that event.
LEMMA PrefixLength ==
  ASSUME NEW h \in Handlers, NEW m, NEW r \in Responses(h, m), NEW i \in DOMAIN r.events
  PROVE  /\ Length(SubSeq(r.events, 1, i - 1)) \in Nat
         /\ Length(SubSeq(r.events, 1, i)) = Length(SubSeq(r.events, 1, i - 1)) + r.events[i].len
         /\ Length(SubSeq(r.events, 1, i)) <= Length(r.events)
<1> DEFINE es == r.events
           Prefix(k) == SubSeq(es, 1, k)
<1>1. /\ es \in Seq(EventSet) /\ DOMAIN es = 1 .. Len(es)
      /\ DOMAIN es = {1} \/ DOMAIN es = {1, 2}
      /\ \A k \in DOMAIN es : es[k].len \in Nat
  <2>1. /\ es \in Seq(EventSet)
        /\ DOMAIN es = {1} \/ DOMAIN es = {1, 2}
        /\ \A k \in DOMAIN es : Plausible(es[k], m)
    BY ResponseShape
  <2>2. DOMAIN es = 1 .. Len(es)
    BY <2>1
  <2> QED
    BY <2>1, <2>2 DEF Plausible, EventSet
<1>2. i \in {1, 2} /\ i \in 1 .. Len(es) /\ Len(es) \in Nat
  BY <1>1
<1> HIDE DEF es
<1>3. /\ DOMAIN Prefix(0) = {}
      /\ DOMAIN Prefix(1) = {1} /\ Prefix(1)[1] = es[1]
      /\ i = 2 => DOMAIN Prefix(2) = {1, 2} /\ Prefix(2)[1] = es[1] /\ Prefix(2)[2] = es[2]
  BY <1>1, <1>2
<1>4. Length(Prefix(0)) = 0
  BY <1>3, LengthLemma
<1>5. Length(Prefix(1)) = es[1].len /\ es[1].len \in Nat
  BY <1>1, <1>3, LengthLemma
<1>6. ASSUME i = 2 PROVE Length(Prefix(2)) = es[1].len + es[2].len /\ es[2].len \in Nat
  <2>1. es[1].len \in Nat /\ es[2].len \in Nat
    BY <1>1, <1>2, <1>6
  <2>2. /\ DOMAIN Prefix(2) = {1, 2}
        /\ \A k \in DOMAIN Prefix(2) : Prefix(2)[k].len \in Nat
    BY <1>3, <1>6, <2>1
  <2>3. Length(Prefix(2)) = Prefix(2)[1].len + Prefix(2)[2].len
    <3> HIDE DEF Prefix
    <3> QED
      BY <2>2, LengthLemma
  <2> QED
    BY <1>3, <1>6, <2>1, <2>3
<1>7. Length(es) = es[1].len \/ (Length(es) = es[1].len + es[2].len /\ es[2].len \in Nat)
  BY <1>1, LengthLemma
<1>8. i = 2 => Length(es) = es[1].len + es[2].len
  BY <1>1, <1>2, LengthLemma
<1> HIDE DEF Prefix
<1>9. /\ Length(Prefix(i - 1)) \in Nat
      /\ Length(Prefix(i)) = Length(Prefix(i - 1)) + es[i].len
      /\ Length(Prefix(i)) <= Length(es)
  <2>1. CASE i = 1
    BY <1>4, <1>5, <1>7, <2>1
  <2>2. CASE i = 2
    BY <1>5, <1>6, <1>8, <2>2
  <2> QED
    BY <1>2, <2>1, <2>2
<1> QED
  BY <1>9 DEF Prefix, es

\* A response of this content that ends within the limit is among the events, and
\* no response to the request ends within it later.
WholeIn(r, content) ==
    LET Whole == { i \in DOMAIN r.events : Length(SubSeq(r.events, 1, i)) <= MaxBody }
    IN \E i \in Whole :
         /\ IsResponse(r.events[i]) /\ r.events[i].content = content
         /\ \A j \in Whole : j > i => r.events[j].kind # "response"

\* A response is all within the limit exactly when it ends within it: what the
\* limit leaves is not negative, and a response is not empty.
LEMMA WithinLemma ==
  ASSUME NEW h \in Handlers, NEW m, NEW r \in Responses(h, m), NEW i \in DOMAIN r.events,
         IsResponse(r.events[i])
  PROVE  Within(r.events, i) = r.events[i].len <=> Length(SubSeq(r.events, 1, i)) <= MaxBody
<1> DEFINE len == r.events[i].len
           before == Length(SubSeq(r.events, 1, i - 1))
           left == Max({0, MaxBody - before})
<1>1. len \in Nat /\ len > 0
  BY ResponseShape DEF Plausible, EventSet
<1>2. before \in Nat /\ Length(SubSeq(r.events, 1, i)) = before + len
  BY PrefixLength
<1>3. Within(r.events, i) = Min({len, left})
  BY DEF Within
<1> HIDE DEF len, before
<1>4. left \in {0, MaxBody - before} /\ left >= 0 /\ left >= MaxBody - before
  <2>1. \E x \in {0, MaxBody - before} : \A y \in {0, MaxBody - before} : x >= y
    BY <1>2, LimitsAssumption
  <2> QED
    BY <2>1 DEF Max
<1>5. left \in Int
  BY <1>2, <1>4, LimitsAssumption
<1> HIDE DEF left
<1>6. /\ Min({len, left}) \in {len, left}
      /\ Min({len, left}) <= len /\ Min({len, left}) <= left
  <2>1. \E x \in {len, left} : \A y \in {len, left} : x <= y
    BY <1>1, <1>5
  <2> QED
    BY <2>1 DEF Min
<1>7. Min({len, left}) = len <=> len <= left
  <2>1. PICK k : k = Min({len, left})
    OBVIOUS
  <2> QED
    BY <1>1, <1>5, <1>6, <2>1
<1>8. len <= left <=> before + len <= MaxBody
  BY <1>1, <1>2, <1>4, <1>5, LimitsAssumption
<1> QED
  BY <1>2, <1>3, <1>7, <1>8 DEF len

\* The result that the proxy works with is a response it has got whole.
LEMMA BodyWhole ==
  ASSUME NEW h \in Handlers, NEW m, NEW r \in Responses(h, m), Body(r).form = "result"
  PROVE  WholeIn(r, Body(r).content)
<1>0. /\ r.type \in {"json", "sse"} /\ r.events \in Seq(EventSet)
      /\ DOMAIN r.events = {1} \/ DOMAIN r.events = {1, 2}
      /\ r.type = "json" => DOMAIN r.events = {1}
      /\ \A i \in DOMAIN r.events : Plausible(r.events[i], m)
  BY ResponseShape
<1>1. CASE r.type = "sse"
  <2> DEFINE which == { i \in DOMAIN r.events : /\ r.defect # "gzip"
                                                /\ IsResponse(r.events[i])
                                                /\ Within(r.events, i) = r.events[i].len }
  <2>1. Body(r) = Last(r.events, which)
    BY <1>1 DEF Body, Collected
  <2>2. Empty.form = "empty"
    BY DEF Empty, Event
  <2>3. which \in SUBSET DOMAIN r.events
    OBVIOUS
  <2>4. \E i \in which : /\ Last(r.events, which) = r.events[i]
                         /\ \A j \in which : j <= i
    <3> HIDE DEF which
    <3> QED
      BY <1>0, <2>1, <2>2, <2>3, LastIs
  <2>5. PICK i \in which : Body(r) = r.events[i] /\ \A j \in which : j <= i
    BY <2>1, <2>4
  <2>6. /\ i \in DOMAIN r.events /\ IsResponse(r.events[i]) /\ r.defect # "gzip"
        /\ Length(SubSeq(r.events, 1, i)) <= MaxBody
    BY <2>5, WithinLemma
  <2>7. ASSUME NEW j \in DOMAIN r.events, Length(SubSeq(r.events, 1, j)) <= MaxBody,
               r.events[j].kind = "response"
        PROVE  ~ (j > i)
    <3>1. IsResponse(r.events[j])
      BY <2>7 DEF IsResponse
    <3>2. j \in which
      BY <2>6, <2>7, <3>1, WithinLemma
    <3>3. i \in {1, 2} /\ j \in {1, 2}
      BY <1>0, <2>6, <2>7
    <3> HIDE DEF which
    <3> QED
      BY <2>5, <3>2, <3>3
  <2> HIDE DEF which
  <2> QED
    BY <2>5, <2>6, <2>7 DEF WholeIn
<1>2. CASE r.type = "json"
  <2>1. 1 \in DOMAIN r.events /\ Plausible(r.events[1], m)
    BY <1>0
  <2>2. r.defect # "gzip" /\ ~ (Length(r.events) > MaxBody) /\ Body(r) = r.events[1]
    BY <1>2, <2>1 DEF Body, Plausible, EventSet
  <2>3. IsResponse(r.events[1])
    BY <2>1, <2>2 DEF Plausible
  <2>4. /\ Length(SubSeq(r.events, 1, 1)) <= Length(r.events)
        /\ Length(SubSeq(r.events, 1, 1)) \in Nat /\ Length(r.events) \in Nat
    <3>1. \A i \in DOMAIN r.events : r.events[i].len \in Nat
      BY <1>0 DEF Plausible, EventSet
    <3>2. Length(r.events) \in Nat
      BY LengthNat
    <3> QED
      BY <2>1, <3>1, <3>2, PrefixLength
  <2>5. Length(SubSeq(r.events, 1, 1)) <= MaxBody
    BY <2>2, <2>4, LimitsAssumption
  <2>6. \A j \in DOMAIN r.events : ~ (j > 1)
    BY <1>0, <1>2
  <2> QED
    BY <2>1, <2>2, <2>3, <2>5, <2>6 DEF WholeIn
<1> QED
  BY <1>0, <1>1, <1>2

\* The answers that OnlyWholeResponses speaks of.
Whole(h, a) == a.form \in {"stub", "injected", "result"} => WholeIn(resp[h], a.content)

\* A POST that ends with such an answer ends with the body the proxy worked with.
LEMMA FinishWhole ==
  ASSUME IInv, NEW h \in Handlers, PlainStep(h) \/ Caches(h)
  PROVE  Open(h) /\ \E a : Finish(h, a) /\ Whole(h, a)
<1> DEFINE b == Body(resp[h])
<1>1. ASSUME Treats(h), b.form = "result"
      PROVE  Open(h) /\ WholeIn(resp[h], b.content)
  <2>1. pc[h] = "answered" /\ resp[h] \in Responses(h, req[h].method)
    BY <1>1 DEF Treats, IInv, Protocol
  <2> QED
    BY <1>1, <2>1, BodyWhole DEF Open
<1>2. CASE \/ Rejects(h) \/ CallFails(h) \/ TimesOut(h)
           \/ CopiesRaw(h) \/ ClientLeaves(h) \/ ReadsBadly(h)
  <2>1. PICK a : Finish(h, a) /\ a.form \in {"text/plain", "raw", "cut", "none"}
    <3>1. \A status : HttpError(status).form = "text/plain"
      BY DEF HttpError, Answer
    <3>2. RawCopy(h).form \in {"raw", "cut"}
      BY DEF RawCopy, Answer
    <3>3. Gone.form = "none"
      BY DEF Gone, Answer
    <3> QED
      BY <1>2, <3>1, <3>2, <3>3
      DEF Rejects, CallFails, TimesOut, CopiesRaw, ClientLeaves, ReadsBadly, Writes
  <2>2. Open(h)
    BY <1>2 DEF Open, Rejects, CallFails, TimesOut, CopiesRaw, ClientLeaves, ReadsBadly
  <2> QED
    BY <2>1, <2>2 DEF Whole
<1>3. CASE CopiesBack(h) \/ WritesBody(h)
  <2>1. Treats(h) /\ pc[h] = "answered" /\ resp[h] \in Responses(h, req[h].method)
    BY <1>3 DEF CopiesBack, WritesBody, Untouched, Treats, IInv, Protocol
  <2>2. PICK a : Finish(h, a) /\ a.form = b.form /\ a.content = b.content
    BY <1>3 DEF CopiesBack, WritesBody, Writes, Answer
  <2>3. b.form \notin {"stub", "injected"}
    BY <2>1, BodyShape DEF BodyOf
  <2> QED
    BY <1>1, <2>1, <2>2, <2>3 DEF Whole, Open
<1>4. CASE Injects(h)
  <2>1. ResultOf(h, "tools/list") /\ Finish(h, Answer("200", "injected", NoContent, NoContent, "dropped"))
    BY <1>4 DEF Injects, Writes
  <2>2. Treats(h) /\ b.form = "result" /\ req[h].method = "tools/list"
    BY <2>1 DEF ResultOf
  <2>3. resp[h] \in Responses(h, req[h].method)
    BY <2>2 DEF Treats, IInv, Protocol
  <2>4. b.content = NoContent
    BY <2>2, <2>3, BodyShape DEF BodyOf
  <2> QED
    BY <1>1, <2>1, <2>2, <2>4 DEF Whole, Answer
<1>5. CASE Caches(h)
  <2>1. Treats(h) /\ b.form = "result"
    BY <1>5 DEF Caches, Cacheable, ResultOf
  <2>2. PICK a : Finish(h, a) /\ a.content = b.content
    BY <1>5 DEF Caches, StubFor, Answer
  <2> QED
    BY <1>1, <2>1, <2>2 DEF Whole
<1> QED
  BY <1>2, <1>3, <1>4, <1>5 DEF PlainStep

\* Whatever the limits, the lengths and the order of events, nothing that was cut
\* is cached, injected into or passed on as a result.
THEOREM HttpOnlyWholeResponses == Spec => []OnlyWholeResponses
<1> DEFINE Good(h) == req[h].method # "seek_result" => Whole(h, reply[h])
           Inv == \A h \in Handlers : Good(h)
<1>1. Init => Inv
  <2>1. NoReply.form = "none"
    BY DEF NoReply, Answer
  <2> QED
    BY <2>1 DEF Init, Whole
<1>2. ASSUME IInv, Inv, [Next]_vars PROVE Inv'
  <2>1. DOMAIN pc = Handlers /\ DOMAIN req = Handlers /\ DOMAIN resp = Handlers /\ DOMAIN reply = Handlers
    BY <1>2 DEF IInv, Shapes
  <2>2. ASSUME NEW g \in Handlers, req'[g] = req[g], resp'[g] = resp[g], reply'[g] = reply[g]
        PROVE  Good(g)'
    BY <1>2, <2>2 DEF Whole, WholeIn
  <2>3. CASE UNCHANGED vars
    BY <2>2, <2>3 DEF vars
  <2>4. ASSUME NEW h \in Handlers, Posts(h) \/ Calls(h) \/ UpstreamAnswers(h) \/ BodyEnds(h) PROVE Inv'
    <3>1. /\ reply' = reply /\ pc[h] # "done"
          /\ \A g \in Handlers \ {h} : req'[g] = req[g] /\ resp'[g] = resp[g]
      BY <2>1, <2>4 DEF Posts, Calls, UpstreamAnswers, BodyEnds, Goes
    <3>2. reply'[h].form = "none"
      BY <1>2, <3>1, NotYet DEF NoReply, Answer
    <3>3. Good(h)'
      BY <3>2 DEF Whole
    <3> QED
      BY <2>2, <3>1, <3>3
  <2>5. ASSUME NEW h \in Handlers, PlainStep(h) \/ Caches(h) PROVE Inv'
    <3>1. PICK a : Finish(h, a) /\ Whole(h, a)
      BY <1>2, <2>5, FinishWhole
    <3>2. /\ req' = req /\ resp' = resp /\ reply'[h] = a
          /\ \A g \in Handlers \ {h} : reply'[g] = reply[g]
      BY <2>1, <3>1 DEF Finish
    <3>3. Good(h)'
      BY <3>1, <3>2 DEF Whole, WholeIn
    <3> QED
      BY <2>2, <3>2, <3>3
  <2>6. ASSUME NEW h \in Handlers, Seeks(h) PROVE Inv'
    <3>1. /\ req' = req /\ resp' = resp /\ req[h].method = "seek_result"
          /\ \A g \in Handlers \ {h} : reply'[g] = reply[g]
      BY <2>1, <2>6 DEF Seeks, Finish
    <3> QED
      BY <2>2, <3>1
  <2>7. ASSUME NEW h \in Handlers, Evicts(h) PROVE Inv'
    BY <2>2, <2>7 DEF Evicts
  <2> HIDE DEF Inv
  <2> QED
    BY <1>2, <2>3, <2>4, <2>5, <2>6, <2>7, StepCases
<1>3. IInv /\ Inv /\ [Next]_vars => Inv'
  BY <1>2
<1>4. Inv => OnlyWholeResponses
  BY DEF OnlyWholeResponses, Whole, WholeIn
<1> HIDE DEF Inv
<1> QED
  BY <1>1, <1>3, <1>4, HttpInvariant, PTL DEF Spec

-----------------------------------------------------------------------------
(* HttpServer implements Guard *)

\* The refinement mapping, named.
AskedMap == [h \in Handlers |-> Asked(h)]
AnswersMap == [h \in Handlers |-> IF pc[h] = "done" THEN <<View(h)>> ELSE <<>>]

\* What a client sees of an answer, case by case.
LEMMA ViewCases ==
  ASSUME NEW h
  PROVE  /\ req[h].method = "seek_result" /\ reply[h].form = "text" =>
              View(h) = G!Answer("text", reply[h].content, req[h].ref)
         /\ req[h].method = "seek_result" /\ reply[h].form # "text" =>
              View(h) = G!Answer("error", NoContent, req[h].ref)
         /\ req[h].method # "seek_result" /\ reply[h].form = "stub" =>
              View(h) = G!Answer("stub", reply[h].content, reply[h].ref)
         /\ req[h].method # "seek_result" /\ reply[h].form = "injected" =>
              View(h) = G!Answer("injected", NoContent, reply[h].ref)
         /\ req[h].method # "seek_result" /\ reply[h].form \notin {"stub", "injected"} =>
              \/ /\ req[h].method = "tools/call"
                 /\ reply[h].form = "result" /\ reply[h].headers = "dropped"
                 /\ View(h) = G!Answer("result", reply[h].content, reply[h].ref)
              \/ View(h) = G!Answer("other", NoContent, reply[h].ref)
  BY DEF View, G!Answer

\* A step that changes neither requests nor who is done changes nothing in Guard.
LEMMA MapSame ==
  ASSUME req' = req, reply' = reply,
         \A h \in Handlers : pc'[h] = "done" <=> pc[h] = "done"
  PROVE  AskedMap' = AskedMap /\ AnswersMap' = AnswersMap
  BY DEF AskedMap, AnswersMap, Asked, View

\* Finishing a POST gives its request the answer that the client sees.
LEMMA FinishGives ==
  ASSUME IInv, NEW h, Open(h), NEW a, Finish(h, a), NEW v, v = View(h)'
  PROVE  /\ G!Give(h, Asked(h).method, v)
         /\ reply'[h] = a /\ req' = req
<1>1. /\ h \in Handlers /\ pc[h] # "done" /\ req' = req
      /\ reply'[h] = a /\ pc'[h] = "done"
      /\ \A g \in Handlers : g # h => pc'[g] = pc[g] /\ reply'[g] = reply[g]
  BY DEF Open, Finish, IInv, Shapes
<1>2. AskedMap' = AskedMap
  BY <1>1 DEF AskedMap, Asked
<1>3. AnswersMap' = [AnswersMap EXCEPT ![h] = <<v>>]
  <2>1. \A g \in Handlers : g # h => View(g)' = View(g)
    BY <1>1 DEF View
  <2>2. \A g \in Handlers : AnswersMap'[g] = IF g = h THEN <<v>> ELSE AnswersMap[g]
    BY <1>1, <2>1 DEF AnswersMap
  <2> QED
    BY <2>2 DEF AnswersMap
<1>4. AskedMap[h].method = Asked(h).method /\ AnswersMap[h] = <<>>
  BY <1>1 DEF AskedMap, AnswersMap
<1>5. G!Give(h, Asked(h).method, v)
  BY <1>2, <1>3, <1>4 DEF G!Give, AskedMap, AnswersMap
<1> QED
  BY <1>1, <1>5

\* A client that has not posted has asked nothing yet in Guard's sense.
LEMMA PostsRefines ==
  ASSUME IInv, NEW h \in Handlers, Posts(h)
  PROVE  G!Ask(h) \/ G!AskToRead(h)
<1>1. PICK r \in PostsOf(h) : req' = [req EXCEPT ![h] = r]
  BY DEF Posts
<1>2. /\ pc[h] = "idle" /\ pc' = [pc EXCEPT ![h] = "received"]
      /\ reply' = reply /\ held' = held /\ issued' = issued
  BY DEF Posts, Goes, storeVars
<1>3. /\ \A g \in Handlers : g # h => req'[g] = req[g]
      /\ \A g \in Handlers : pc'[g] = "done" <=> pc[g] = "done"
      /\ req'[h] = r /\ req[h] = NoRequest
  BY <1>1, <1>2 DEF IInv, Shapes, Protocol
<1>4. AnswersMap' = AnswersMap
  <2>1. \A g \in Handlers : pc[g] = "done" => View(g)' = View(g)
    BY <1>2, <1>3 DEF View
  <2> QED
    BY <1>3, <2>1 DEF AnswersMap
<1>5. AskedMap[h] = G!NotAsked
  BY <1>3 DEF AskedMap, Asked, NoRequest, Request, G!NotAsked
<1> DEFINE v == [method |-> IF r.method = "garbage" THEN "other" ELSE r.method, ref |-> r.ref]
<1>6. AskedMap' = [AskedMap EXCEPT ![h] = v]
  <2>1. \A g \in Handlers : Asked(g)' = IF g = h THEN v ELSE Asked(g)
    BY <1>3 DEF Asked
  <2> QED
    BY <2>1 DEF AskedMap
<1>7. CASE r.method = "seek_result"
  <2>1. v = [method |-> "seek_result", ref |-> r.ref] /\ r.ref \in CacheIds
    BY <1>7, RequestShape
  <2> QED
    BY <1>2, <1>4, <1>5, <1>6, <2>1 DEF G!AskToRead, AskedMap, AnswersMap
<1>8. CASE r.method # "seek_result"
  <2>1. r.ref = NoContent /\ v.method \in {"tools/list", "tools/call", "other"}
    BY <1>8, RequestShape, MethodsAssumption
  <2>2. v = [AskedMap[h] EXCEPT !.method = v.method]
    BY <1>5, <2>1 DEF G!NotAsked
  <2>3. AskedMap' = [AskedMap EXCEPT ![h].method = v.method]
    BY <1>6, <2>2
  <2> HIDE DEF v
  <2> QED
    BY <1>2, <1>4, <1>5, <2>1, <2>3 DEF G!Ask, AskedMap, AnswersMap
<1> QED
  BY <1>7, <1>8

\* What has nothing to do with the cache is an answer of Guard that does not
\* touch its store.
LEMMA PlainRefines ==
  ASSUME IInv, NEW h \in Handlers, PlainStep(h)
  PROVE  G!PassResult(h) \/ G!AddTool(h) \/ G!PassOther(h) \/ G!Refuse(h)
<1>1. PICK a : Open(h) /\ Writes(h, a) /\ Plain(h, a)
  BY PlainWrites
<1>2. Finish(h, a) /\ held' = held /\ issued' = issued
  BY <1>1 DEF Writes, storeVars
<1>3. PICK v : v = View(h)'
  OBVIOUS
<1>4. G!Give(h, Asked(h).method, v) /\ reply'[h] = a /\ req' = req
  BY <1>1, <1>2, <1>3, FinishGives
<1>5. req[h] \in PostsOf(h)
  BY <1>1 DEF IInv, Shapes, Protocol, Open
<1>6. /\ a.form \notin {"stub", "text"} /\ a.ref = NoContent
      /\ a.form = "injected" => req[h].method = "tools/list"
      /\ req[h].method = "tools/call" /\ a.form = "result" /\ a.headers = "dropped" =>
           a.content \in Contents /\ Size[a.content] <= Threshold
  BY <1>1 DEF Plain
<1>7. CASE req[h].method = "seek_result"
  <2>1. v = G!Answer("error", NoContent, req[h].ref)
    BY <1>3, <1>4, <1>6, <1>7 DEF View, G!Answer
  <2>2. Asked(h).method = "seek_result" /\ Asked(h).ref = req[h].ref
    BY <1>7 DEF Asked
  <2> QED
    BY <1>2, <1>4, <2>1, <2>2 DEF G!Refuse, G!Give
<1>8. CASE req[h].method # "seek_result" /\ a.form = "injected"
  <2>1. v = G!Answer("injected", NoContent, NoContent)
    BY <1>3, <1>4, <1>6, <1>8 DEF View, G!Answer
  <2>2. Asked(h).method = "tools/list"
    BY <1>6, <1>8 DEF Asked
  <2> QED
    BY <1>2, <1>4, <2>1, <2>2 DEF G!AddTool
<1>9. CASE req[h].method # "seek_result" /\ a.form # "injected"
  <2>1. Asked(h).method \in {"tools/list", "tools/call", "other"}
    BY <1>5, <1>9, RequestShape, MethodsAssumption DEF Asked
  <2>2. CASE req[h].method = "tools/call" /\ a.form = "result" /\ a.headers = "dropped"
    <3>1. v = G!Answer("result", a.content, NoContent)
      BY <1>3, <1>4, <1>6, <2>2 DEF View, G!Answer
    <3>2. Asked(h).method = "tools/call"
      BY <2>2 DEF Asked
    <3> QED
      BY <1>2, <1>4, <1>6, <2>2, <3>1, <3>2 DEF G!PassResult
  <2>3. CASE ~ (req[h].method = "tools/call" /\ a.form = "result" /\ a.headers = "dropped")
    <3>1. v = G!Answer("other", NoContent, NoContent)
      BY <1>3, <1>4, <1>6, <1>9, <2>3 DEF View, G!Answer
    <3> QED
      BY <1>2, <1>4, <2>1, <3>1 DEF G!PassOther
  <2> QED
    BY <2>2, <2>3
<1> QED
  BY <1>7, <1>8, <1>9

LEMMA SeeksRefines ==
  ASSUME IInv, NEW h \in Handlers, Seeks(h)
  PROVE  G!Read(h) \/ G!Refuse(h)
<1>1. PICK form, content : SeeksWith(h, form, content)
  BY SeeksShape
<1> DEFINE a == Answer("200", form, content, req[h].ref, "dropped")
<1>2. Finish(h, a) /\ Open(h) /\ held' = held /\ issued' = issued
  BY <1>1 DEF SeeksWith
<1>3. PICK v : v = View(h)'
  OBVIOUS
<1>4. G!Give(h, Asked(h).method, v) /\ reply'[h] = a /\ req' = req
  BY <1>2, <1>3, FinishGives
<1>5. /\ req[h].method = "seek_result" /\ Asked(h).method = "seek_result"
      /\ Asked(h).ref = req[h].ref
  BY <1>1 DEF SeeksWith, Asked
<1>6. CASE form = "text"
  <2>1. v = G!Answer("text", content, req[h].ref)
    BY <1>3, <1>4, <1>5, <1>6 DEF View, G!Answer, Answer
  <2>2. req[h].ref \in DOMAIN held /\ content = held[req[h].ref]
    BY <1>1, <1>6 DEF SeeksWith
  <2> QED
    BY <1>2, <1>4, <1>5, <2>1, <2>2 DEF G!Read, G!Give
<1>7. CASE form = "error"
  <2>1. v = G!Answer("error", NoContent, req[h].ref)
    BY <1>3, <1>4, <1>5, <1>7 DEF View, G!Answer, Answer
  <2> QED
    BY <1>2, <1>4, <1>5, <2>1 DEF G!Refuse, G!Give
<1> QED
  BY <1>1, <1>6, <1>7 DEF SeeksWith

LEMMA CachesRefines ==
  ASSUME IInv, NEW h \in Handlers, Caches(h)
  PROVE  G!StubResult(h)
<1>1. PICK id, c : CachesWith(h, id, c)
  BY CachesShape
<1> DEFINE a == Answer("200", "stub", c, id, "dropped")
<1>2. Finish(h, a) /\ Open(h) /\ c \in Contents /\ Size[c] >= Threshold /\ id \in CacheIds
  BY <1>1 DEF CachesWith
<1>3. PICK v : v = View(h)'
  OBVIOUS
<1>4. G!Give(h, Asked(h).method, v) /\ reply'[h] = a /\ req' = req
  BY <1>2, <1>3, FinishGives
<1>5. req[h].method = "tools/call" /\ Asked(h).method = "tools/call"
  BY <1>1 DEF CachesWith, Asked
<1>6. v = G!Answer("stub", c, id)
  BY <1>3, <1>4, <1>5 DEF View, G!Answer, Answer
<1>7. G!Store!Put(id, c)
  BY <1>1 DEF CachesWith, Store!Put, G!Store!Put
<1> QED
  BY <1>2, <1>4, <1>5, <1>6, <1>7 DEF G!StubResult

LEMMA EvictsRefines ==
  ASSUME IInv, NEW h \in Handlers, Evicts(h)
  PROVE  G!Forget
<1>1. PICK id \in CacheIds : Store!Drop(id)
  BY DEF Evicts
<1>2. G!Store!Drop(id)
  BY <1>1 DEF Store!Drop, G!Store!Drop
<1>3. AskedMap' = AskedMap /\ AnswersMap' = AnswersMap
  BY MapSame DEF Evicts
<1> QED
  BY <1>2, <1>3 DEF G!Forget, AskedMap, AnswersMap

LEMMA InitRefines == Init => G!GuardInit
<1> SUFFICES ASSUME Init PROVE G!GuardInit
  OBVIOUS
<1>1. AskedMap = [h \in Handlers |-> G!NotAsked] /\ AnswersMap = [h \in Handlers |-> <<>>]
  BY DEF Init, AskedMap, AnswersMap, Asked, Request, G!NotAsked
<1>2. G!Store!StoreInit
  BY DEF Init, Store!StoreInit, G!Store!StoreInit, G!Store!NoAnswer
<1> QED
  BY <1>1, <1>2 DEF G!GuardInit, AskedMap, AnswersMap

\* Every step of the server is a step of Guard or none.
LEMMA StepRefines == IInv /\ [Next]_vars => [G!GuardNext]_(G!gvars)
<1> SUFFICES ASSUME IInv, [Next]_vars PROVE [G!GuardNext]_(G!gvars)
  OBVIOUS
<1>1. ASSUME AskedMap' = AskedMap, AnswersMap' = AnswersMap, held' = held, issued' = issued
      PROVE  UNCHANGED G!gvars
  BY <1>1 DEF G!gvars, AskedMap, AnswersMap
<1>2. CASE UNCHANGED vars
  BY <1>1, <1>2, MapSame DEF vars, storeVars
<1>3. ASSUME NEW h \in Handlers, Calls(h) \/ UpstreamAnswers(h) \/ BodyEnds(h) PROVE UNCHANGED G!gvars
  <2>1. /\ req' = req /\ reply' = reply /\ held' = held /\ issued' = issued
        /\ \A g \in Handlers : pc'[g] = "done" <=> pc[g] = "done"
    BY <1>3 DEF Calls, UpstreamAnswers, BodyEnds, Goes, storeVars, IInv, Shapes
  <2> QED
    BY <1>1, <2>1, MapSame
<1>4. ASSUME NEW h \in Handlers, Posts(h) \/ PlainStep(h) \/ Evicts(h) \/ Seeks(h) \/ Caches(h)
      PROVE  G!GuardNext
  BY <1>4, PostsRefines, PlainRefines, EvictsRefines, SeeksRefines, CachesRefines DEF G!GuardNext
<1> QED
  BY <1>2, <1>3, <1>4, StepCases

\* The HTTP server implements Guard: whatever the handlers of any number of
\* concurrent POSTs do in what order, each client gets at most one answer, large
\* results as stubs only, and reads back what the stubs stand for.
THEOREM HttpImplementsGuard == Spec => ImplementsGuard
  BY InitRefines, StepRefines, HttpInvariant, PTL DEF Spec, ImplementsGuard, G!GuardSpec
=============================================================================
