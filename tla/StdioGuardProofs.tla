--------------------------- MODULE StdioGuardProofs ---------------------------
(***************************************************************************)
(* StdioProxy implements Guard, for any values of the constants: a line    *)
(* that B has handled and a reply that A has ready are the answers, and no *)
(* id ever has two of them.  A step adds an answer or none.                *)
(***************************************************************************)
EXTENDS StdioProxyProofs

\* The refinement mapping, named.
AskedMap == [id \in 1 .. MaxSent |-> Asked(id)]
AnswersMap == [id \in 1 .. MaxSent |-> Answered(id)]

\* The answers that are made.
Made == { line \in ToSet(Ready) : IsResponse(line) }

-----------------------------------------------------------------------------
(* An id has at most one answer *)

LEMMA ReadyParts ==
  ASSUME IInv
  PROVE  /\ Ready \in Seq(UpstreamLineType)
         /\ aPc \in {"text", "error"} => Ready = Processed \o <<Reply>>
                                        /\ ToSet(Ready) = ToSet(Processed) \cup {Reply}
         /\ aPc \notin {"text", "error"} => Ready = Processed
<1>1. Processed \in Seq(UpstreamLineType)
  BY ToClientParts DEF IInv
<1>2. CASE aPc \in {"text", "error"}
  BY <1>1, <1>2, ReplyIs, LineBetween DEF Ready
<1>3. CASE aPc \notin {"text", "error"}
  BY <1>1, <1>3, ConcatEmptySeq DEF Ready
<1> QED
  BY <1>2, <1>3

LEMMA ReadyOnce ==
  ASSUME IInv, NEW i \in DOMAIN Ready, NEW j \in DOMAIN Ready,
         IsResponse(Ready[i]), IsResponse(Ready[j]), Ready[i].id = Ready[j].id
  PROVE  i = j
<1>1. /\ Processed \in Seq(UpstreamLineType) /\ Unhandled \in Seq(UpstreamLineType)
      /\ ToClient = Processed \o Unhandled
  BY ToClientParts DEF IInv
<1>2. \A k \in DOMAIN Processed : k \in DOMAIN ToClient /\ ToClient[k] = Processed[k]
  BY <1>1
<1>3. CASE aPc \notin {"text", "error"}
  BY <1>2, <1>3, ReadyParts, UniqueAnswer
<1>4. CASE aPc \in {"text", "error"}
  <2>1. PICK x : x = Reply
    OBVIOUS
  <2>2. Ready = Processed \o <<x>> /\ \A q \in ToSet(ToClient) : IsResponse(q) => q.id # x.id
    BY <1>4, <2>1, ReadyParts, ReplyIs
  <2>3. \A k \in DOMAIN Ready : \/ k \in DOMAIN Processed /\ Ready[k] = ToClient[k]
                                \/ k = Len(Processed) + 1 /\ Ready[k] = x
    <3>1. PICK p : p = Processed
      OBVIOUS
    <3>2. p \in Seq(UpstreamLineType) /\ x \in UpstreamLineType
      BY <1>1, <1>4, <2>1, <3>1, ReplyIs
    <3>3. \A k \in DOMAIN (p \o <<x>>) : \/ k \in DOMAIN p /\ (p \o <<x>>)[k] = p[k]
                                         \/ k = Len(p) + 1 /\ (p \o <<x>>)[k] = x
      BY <3>2
    <3> QED
      BY <1>2, <2>2, <3>1, <3>3
  <2>4. \A k \in DOMAIN Processed : ToClient[k] \in ToSet(ToClient)
    BY <1>2 DEF ToSet
  <2> QED
    BY <1>2, <2>2, <2>3, <2>4, UniqueAnswer
<1> QED
  BY <1>3, <1>4

LEMMA AnsweredOnce ==
  IInv => \A id : /\ (\A r \in Made : r.id # id) => Answered(id) = <<>>
                  /\ \A r \in Made : r.id = id => Answered(id) = <<View(r)>>
<1> SUFFICES ASSUME IInv, NEW id
             PROVE  /\ (\A r \in Made : r.id # id) => Answered(id) = <<>>
                    /\ \A r \in Made : r.id = id => Answered(id) = <<View(r)>>
  OBVIOUS
<1> DEFINE P == { i \in DOMAIN Ready : IsResponse(Ready[i]) /\ Ready[i].id = id }
<1>1. Answered(id) = [k \in 1 .. Cardinality(P) |-> View(Ready[Nth(P, k)])]
  BY DEF Answered
<1>2. \A i, j \in P : i = j
  BY ReadyOnce
<1>3. ASSUME \A r \in Made : r.id # id PROVE Answered(id) = <<>>
  <2>1. P = {}
    BY <1>3 DEF Made, ToSet
  <2>2. Cardinality(P) = 0
    BY <2>1, FS_EmptySet
  <2> QED
    BY <1>1, <2>2
<1>4. ASSUME NEW r \in Made, r.id = id PROVE Answered(id) = <<View(r)>>
  <2>1. PICK i \in P : Ready[i] = r
    BY <1>4 DEF Made, ToSet
  <2>2. i \in Nat
    BY ReadyParts
  <2>3. P = {i}
    BY <1>2, <2>1
  <2>4. Cardinality(P) = 1 /\ Cardinality({ j \in P : j <= i }) = 1
    <3>1. { j \in P : j <= i } = {i}
      BY <2>2, <2>3
    <3> QED
      BY <2>3, <3>1, FS_Singleton
  <2>5. Nth(P, 1) = i
    BY <2>3, <2>4 DEF Nth
  <2> HIDE DEF P
  <2>6. [k \in 1 .. 1 |-> View(Ready[Nth(P, k)])] = <<View(r)>>
    BY <2>1, <2>5
  <2> QED
    BY <1>1, <2>4, <2>6
<1> QED
  BY <1>3, <1>4

\* The same of the state after a step.
LEMMA AnsweredOnceNext ==
  IInv' => (\A id : /\ (\A r \in Made : r.id # id) => Answered(id) = <<>>
                    /\ \A r \in Made : r.id = id => Answered(id) = <<View(r)>>)'
BY AnsweredOnce, PTL

LEMMA SameAnswers ==
  ASSUME IInv, IInv', Made' = Made
  PROVE  AnswersMap' = AnswersMap
<1>1. \A id : Answered(id)' = Answered(id)
  BY AnsweredOnce, AnsweredOnceNext
<1> QED
  BY <1>1 DEF AnswersMap

LEMMA NewAnswer ==
  ASSUME IInv, IInv', NEW r, Made' = Made \cup {r}, r.id \in DOMAIN sent,
         \A q \in Made : q.id # r.id
  PROVE  /\ r.id \in 1 .. MaxSent
         /\ AnswersMap[r.id] = <<>>
         /\ AnswersMap' = [AnswersMap EXCEPT ![r.id] = <<View(r)>>]
<1>1. r.id \in 1 .. MaxSent
  <2>1. DOMAIN sent = 1 .. Len(sent) /\ Len(sent) <= MaxSent /\ Len(sent) \in Nat /\ MaxSent \in Nat
    BY BoundsAssumption DEF IInv, Types, Capacities
  <2> QED
    BY <2>1
<1>2. Answered(r.id) = <<>>
  BY AnsweredOnce
<1>3. \A id : Answered(id)' = IF id = r.id THEN <<View(r)>> ELSE Answered(id)
  BY AnsweredOnce, AnsweredOnceNext
<1> QED
  BY <1>1, <1>2, <1>3 DEF AnswersMap

-----------------------------------------------------------------------------
(* The steps *)

\* What a client sees of an answer, form by form.
LEMMA ViewOf ==
  ASSUME NEW line
  PROVE  /\ line.form = "result" /\ line.re = "tools/call" =>
              View(line) = G!Answer("result", line.content, line.ref)
         /\ line.form = "result" /\ line.re # "tools/call" =>
              View(line) = G!Answer("other", NoContent, line.ref)
         /\ line.form = "error" /\ line.re = "seek_result" =>
              View(line) = G!Answer("error", NoContent, line.ref)
         /\ line.form = "error" /\ line.re # "seek_result" =>
              View(line) = G!Answer("other", NoContent, line.ref)
         /\ line.form = "malformed" => View(line) = G!Answer("other", NoContent, line.ref)
         /\ line.form = "injected" => View(line) = G!Answer("injected", NoContent, line.ref)
         /\ line.form \in {"stub", "text"} => View(line) = G!Answer(line.form, line.content, line.ref)
<1> DEFINE kind == CASE line.form = "result" /\ line.re # "tools/call" -> "other"
                     [] line.form = "error" /\ line.re # "seek_result" -> "other"
                     [] line.form = "malformed" -> "other"
                     [] OTHER -> line.form
<1>1. View(line) = G!Answer(kind, IF kind \in {"result", "stub", "text"} THEN line.content ELSE NoContent, line.ref)
  BY DEF View, G!Answer
<1>2. line.form = "result" /\ line.re # "tools/call" => kind = "other"
  BY Zenon
<1>3. line.form = "error" /\ line.re # "seek_result" => kind = "other"
  BY Zenon
<1>4. line.form = "malformed" => kind = "other"
  BY Zenon
<1>5. line.form = "result" /\ line.re = "tools/call" => kind = line.form
  BY Zenon
<1>6. line.form = "error" /\ line.re = "seek_result" => kind = line.form
  BY Zenon
<1>7. line.form \in {"injected", "stub", "text"} => kind = line.form
  BY Zenon
<1> HIDE DEF kind
<1> QED
  BY <1>1, <1>2, <1>3, <1>4, <1>5, <1>6, <1>7

\* What the client has asked changes only when it sends.
LEMMA AskedSame ==
  ASSUME UNCHANGED sent
  PROVE  AskedMap' = AskedMap
BY DEF AskedMap, Asked

LEMMA ClientSendsRefines ==
  ASSUME IInv, IInv', ClientSends
  PROVE  [G!GuardNext]_(G!gvars)
<1>1. PICK line \in ClientLines : sent' = Append(sent, line)
  BY DEF ClientSends
<1>2. PICK n : n = Len(sent) + 1
  OBVIOUS
<1>3. /\ line \in ClientLineType /\ ClientLineOK(line)
      /\ sent \in Seq(ClientLineType) /\ Len(sent) < MaxSent
  BY ClientLinesOK DEF IInv, Types, ClientSends
<1>4. /\ n \in 1 .. MaxSent /\ n \notin DOMAIN sent /\ DOMAIN sent' = DOMAIN sent \cup {n}
      /\ sent'[n] = line /\ \A k \in DOMAIN sent : sent'[k] = sent[k]
  BY <1>1, <1>2, <1>3, BoundsAssumption
<1>5. /\ UNCHANGED <<held, issued>>
      /\ AnswersMap' = AnswersMap
  <2>1. UNCHANGED <<delivered, out, bPc, bLine, upstreamOut, aPc, aLine, ret, held, issued>>
    BY DEF ClientSends, sink, bVars, aVars, pipes, cacheVars
  <2>2. Made' = Made
    BY <2>1 DEF Made, Ready, Processed, Reply
  <2> QED
    BY <2>1, <2>2, SameAnswers
<1>6. AskedMap[n] = G!NotAsked
  BY <1>4 DEF AskedMap, Asked, G!NotAsked
<1>7. CASE ~ IsRequest(line)
  <2>1. AskedMap' = AskedMap
    <3>1. \A id : Asked(id)' = Asked(id)
      BY <1>4, <1>7 DEF Asked
    <3> QED
      BY <3>1 DEF AskedMap
  <2> QED
    BY <1>5, <2>1 DEF G!gvars, AskedMap, AnswersMap
<1>8. CASE IsRequest(line)
  <2> DEFINE m == IF line.method = "seek_result" THEN "seek_result" ELSE Method(line)
             v == [method |-> m, ref |-> line.ref]
  <2>1. AskedMap' = [AskedMap EXCEPT ![n] = v]
    <3>1. \A id : Asked(id)' = IF id = n THEN v ELSE Asked(id)
      BY <1>4, <1>8 DEF Asked
    <3> QED
      BY <3>1 DEF AskedMap
  <2>2. CASE line.method = "seek_result"
    <3>1. v = [method |-> "seek_result", ref |-> line.ref] /\ line.ref \in CacheIds
      BY <1>3, <2>2 DEF ClientLineOK
    <3>2. G!AskToRead(n)
      BY <1>5, <1>6, <2>1, <3>1 DEF G!AskToRead, AskedMap, AnswersMap
    <3> QED
      BY <1>4, <3>2 DEF G!GuardNext
  <2>3. CASE line.method # "seek_result"
    <3>1. line.ref = NoContent /\ m \in {"tools/list", "tools/call", "other"}
      BY <1>3, <1>8, <2>3, MethodType DEF ClientLineOK, Registrable
    <3>2. v = [AskedMap[n] EXCEPT !.method = m]
      BY <1>6, <3>1 DEF G!NotAsked
    <3>3. AskedMap' = [AskedMap EXCEPT ![n].method = m]
      BY <2>1, <3>2
    <3> HIDE DEF m, v
    <3>4. G!Ask(n)
      BY <1>5, <1>6, <3>1, <3>3 DEF G!Ask, AskedMap, AnswersMap
    <3> QED
      BY <1>4, <3>4 DEF G!GuardNext
  <2> QED
    BY <2>2, <2>3
<1> QED
  BY <1>7, <1>8

\* An answer that was not there before is given to a request that had none.
LEMMA Gives ==
  ASSUME IInv, IInv', NEW r, Made' = Made \cup {r}, r.id \in DOMAIN sent, IsRequest(sent[r.id]),
         \A q \in Made : q.id # r.id, UNCHANGED sent
  PROVE  /\ r.id \in 1 .. MaxSent
         /\ G!Give(r.id, Asked(r.id).method, View(r))
         /\ AskedMap[r.id] = Asked(r.id) /\ Asked(r.id).ref = sent[r.id].ref
         /\ sent[r.id].method = "seek_result" => Asked(r.id).method = "seek_result"
         /\ sent[r.id].method # "seek_result" => Asked(r.id).method = Method(sent[r.id])
<1>1. /\ r.id \in 1 .. MaxSent
      /\ AnswersMap[r.id] = <<>>
      /\ AnswersMap' = [AnswersMap EXCEPT ![r.id] = <<View(r)>>]
  BY NewAnswer
<1>2. AskedMap' = AskedMap /\ AskedMap[r.id] = Asked(r.id)
  BY <1>1, AskedSame DEF AskedMap
<1> QED
  BY <1>1, <1>2 DEF G!Give, AskedMap, AnswersMap, Asked

\* The answers that are made are those in the lines B has handled, and A's reply.
Handled == { line \in ToSet(Processed) : IsResponse(line) }

LEMMA MadeParts ==
  IInv => /\ aPc \in {"text", "error"} => /\ Made = Handled \cup {Reply}
                                          /\ \A q \in Handled : q.id # Reply.id
          /\ aPc \notin {"text", "error"} => Made = Handled
<1> SUFFICES ASSUME IInv
             PROVE  /\ aPc \in {"text", "error"} => /\ Made = Handled \cup {Reply}
                                                    /\ \A q \in Handled : q.id # Reply.id
                    /\ aPc \notin {"text", "error"} => Made = Handled
  OBVIOUS
<1>1. ToSet(Processed) \subseteq ToSet(ToClient)
  BY ToClientParts DEF IInv
<1> QED
  BY <1>1, ReadyParts, ReplyIs DEF Made, Handled

LEMMA MadePartsNext ==
  IInv' => /\ aPc' \in {"text", "error"} => /\ Made' = Handled' \cup {Reply'}
                                            /\ \A q \in Handled' : q.id # Reply'.id
           /\ aPc' \notin {"text", "error"} => Made' = Handled'
<1>1. IInv' => ( /\ aPc \in {"text", "error"} => /\ Made = Handled \cup {Reply}
                                                 /\ \A q \in Handled : q.id # Reply.id
                 /\ aPc \notin {"text", "error"} => Made = Handled )'
  BY MadeParts, PTL
<1> QED
  BY <1>1

\* SeekResult reads what Guard's store holds, or refuses.
LEMMA ALooksUpRefines ==
  ASSUME IInv, IInv', ALooksUp
  PROVE  G!GuardNext
<1>1. /\ UNCHANGED <<aLine, bPc, bLine, out, upstreamOut, delivered, sent, held, issued>>
      /\ aPc = "looking_up"
      /\ ret' = [ret EXCEPT !["A"] = Store!Answer(aLine.ref)]
  BY DEF ALooksUp, clientVars, pipes, bVars, sink, Store!Lookup
<1>2. \/ aPc' = "error"
      \/ aPc' = "text" /\ aLine.ref \in DOMAIN held
  BY DEF ALooksUp, Outcomes
<1>3. /\ aLine.n \in DOMAIN sent /\ aLine = sent[aLine.n] /\ aLine.method = "seek_result" /\ IsRequest(aLine)
  BY <1>1, InHandOfA DEF IInv, InAOK, ClientLineOK
<1>4. Handled' = Handled
  BY <1>1 DEF Handled, Processed
<1>5. PICK r : r = Reply'
  OBVIOUS
<1>6. r.id = aLine.n /\ r.form = aPc' /\ r.re = "seek_result" /\ r.ref = aLine.ref /\ r.content = ret'["A"].content
  BY <1>1, <1>5 DEF Reply
<1>7. Made' = Made \cup {r} /\ \A q \in Made : q.id # r.id
  BY <1>1, <1>2, <1>4, <1>5, MadeParts, MadePartsNext
<1>8. /\ aLine.n \in 1 .. MaxSent
      /\ G!Give(aLine.n, "seek_result", View(r))
      /\ AskedMap[aLine.n].ref = aLine.ref
  BY <1>1, <1>3, <1>6, <1>7, Gives
<1>9. CASE aPc' = "error"
  <2>1. View(r) = G!Answer("error", NoContent, aLine.ref)
    BY <1>6, <1>9, ViewOf
  <2>2. G!Refuse(aLine.n)
    BY <1>1, <1>8, <2>1 DEF G!Refuse, AskedMap
  <2> QED
    BY <1>8, <2>2 DEF G!GuardNext
<1>10. CASE aPc' = "text" /\ aLine.ref \in DOMAIN held
  <2>1. ret'["A"].content = held[aLine.ref]
    <3>1. ret'["A"] = Store!Answer(aLine.ref)
      BY <1>1 DEF IInv, Types, Store!StoreTypeOK
    <3> QED
      BY <1>10, <3>1 DEF Store!Answer
  <2>2. View(r) = G!Answer("text", held[aLine.ref], aLine.ref)
    BY <1>6, <1>10, <2>1, ViewOf
  <2>3. G!Read(aLine.n)
    BY <1>1, <1>8, <1>10, <2>2 DEF G!Read, AskedMap
  <2> QED
    BY <1>8, <2>3 DEF G!GuardNext
<1> QED
  BY <1>2, <1>9, <1>10

\* When B has handled a response, its request is answered.
LEMMA HandlesGives ==
  ASSUME IInv, IInv', NEW line, BHandles(line), IsResponse(line), UNCHANGED ret,
         line \in UpstreamLineType, line.n = bLine.n, line.id = bLine.id, line.kind = bLine.kind
  PROVE  /\ line.id \in 1 .. MaxSent
         /\ G!Give(line.id, Asked(line.id).method, View(line))
         /\ AskedMap[line.id] = Asked(line.id)
         /\ Asked(line.id).method = bLine.re
         /\ bLine.re \in Registrable
<1>1. /\ UNCHANGED <<sent, aPc, aLine>> /\ bPc = "handling"
  BY DEF BHandles, clientVars, aVars
<1>2. /\ bLine \in ToSet(Unhandled) /\ bLine \in ToSet(ToClient) /\ bLine.n > 0 /\ bLine.n \in Nat /\ IsResponse(bLine)
  BY <1>1, InHandOfB DEF Fresh, UpstreamLineType, IsResponse
<1>3. /\ bLine.id \in DOMAIN sent /\ sent[bLine.id] \in ToSet(seen) /\ IsRequest(sent[bLine.id])
      /\ bLine.re = Method(sent[bLine.id])
  BY <1>2 DEF IInv, UpstreamAnswersOK
<1>4. sent[bLine.id].method # "seek_result" /\ bLine.re \in Registrable
  <2>1. sent[bLine.id].method \in Methods \ {"seek_result"}
    BY <1>3, FromClientParts DEF IInv, FromClientOK, SentOK, ClientLineOK
  <2> QED
    BY <1>3, <2>1, MethodType
<1>5. ToSet(Processed') = ToSet(Processed) \cup {line}
  BY BHandlesFlow DEF IInv
<1>6. Handled' = Handled \cup {line}
  BY <1>5 DEF Handled
<1>7. Reply' = Reply
  BY <1>1 DEF Reply
<1>8. Made' = Made \cup {line}
  BY <1>1, <1>6, <1>7, MadeParts, MadePartsNext
<1>9. ASSUME NEW q \in Handled PROVE q.id # line.id
  <2>1. /\ Processed \in Seq(UpstreamLineType) /\ Unhandled \in Seq(UpstreamLineType)
        /\ ToClient = Processed \o Unhandled /\ ToSet(Processed) \subseteq ToSet(ToClient)
    BY ToClientParts DEF IInv
  <2>2. Before(q, bLine)
    <3>1. Sorted(Processed \o Unhandled)
      BY <2>1 DEF IInv, ToClientOK
    <3> QED
      BY <1>2, <2>1, <3>1, SortedConcat DEF Handled
  <2>3. q \in ToSet(ToClient) /\ IsResponse(q) /\ q.n \in Nat
    <3>1. q \in UpstreamLineType
      BY <2>1 DEF Handled, ToSet
    <3> QED
      BY <2>1, <3>1 DEF Handled, UpstreamLineType
  <2>4. CASE q.n = 0
    BY <1>3, <1>4, <2>3, <2>4 DEF IInv, RepliesOK
  <2>5. CASE q.n > 0
    BY <1>2, <2>2, <2>3, <2>5 DEF IInv, UpstreamAnswersOK, Before
  <2> QED
    BY <2>3, <2>4, <2>5
<1>10. \A q \in Made : q.id # line.id
  BY <1>2, <1>9, MadeParts, ReplyIs
<1> QED
  BY <1>1, <1>3, <1>4, <1>8, <1>10, Gives

LEMMA BCachesRefines ==
  ASSUME IInv, IInv', BCaches
  PROVE  G!GuardNext
<1>1. bPc = "handling" /\ Cacheable(bLine)
  BY DEF BCaches, BHandles
<1>2. PICK id \in CacheIds : Store!Put(id, bLine.content) /\ BHandles([bLine EXCEPT !.form = "stub", !.ref = id])
  BY DEF BCaches, StubFor
<1>3. PICK line : line = [bLine EXCEPT !.form = "stub", !.ref = id]
  OBVIOUS
<1>4. bLine \in UpstreamLineType /\ Fresh(bLine)
  BY <1>1, InHandOfB
<1>5. /\ IsResponse(bLine) /\ bLine.re = "tools/call" /\ bLine.form = "result"
      /\ bLine.content \in Contents /\ Size[bLine.content] >= Threshold
  BY <1>1, <1>4, Matched, FreshResponse DEF Cacheable
<1>6. /\ line \in UpstreamLineType /\ line.kind = bLine.kind /\ line.n = bLine.n /\ line.id = bLine.id
      /\ line.form = "stub" /\ line.ref = id /\ line.content = bLine.content /\ IsResponse(line)
  BY <1>3, <1>4, <1>5 DEF UpstreamLineType, Forms, Refs, IsResponse
<1>7. /\ line.id \in 1 .. MaxSent
      /\ G!Give(line.id, "tools/call", View(line))
  BY <1>2, <1>3, <1>5, <1>6, HandlesGives DEF Store!Put
<1>8. View(line) = G!Answer("stub", bLine.content, id)
  BY <1>6, ViewOf
<1>9. G!Store!Put(id, bLine.content)
  BY <1>2 DEF Store!Put, G!Store!Put
<1>10. G!StubResult(line.id)
  BY <1>2, <1>5, <1>7, <1>8, <1>9 DEF G!StubResult
<1> QED
  BY <1>7, <1>10 DEF G!GuardNext

LEMMA BInjectsRefines ==
  ASSUME IInv, IInv', BInjects
  PROVE  G!GuardNext
<1>1. bPc = "handling" /\ Injectable(bLine) /\ UNCHANGED <<held, issued, ret>>
  BY DEF BInjects, BHandles, cacheVars
<1>2. PICK line : line = [bLine EXCEPT !.form = "injected"]
  OBVIOUS
<1>3. BHandles(line)
  BY <1>2 DEF BInjects
<1>4. bLine \in UpstreamLineType /\ bLine.ref = NoContent
  BY <1>1, InHandOfB DEF Fresh
<1>5. IsResponse(bLine) /\ bLine.re = "tools/list"
  BY <1>1, Matched DEF Injectable
<1>6. /\ line \in UpstreamLineType /\ line.kind = bLine.kind /\ line.n = bLine.n /\ line.id = bLine.id
      /\ line.form = "injected" /\ line.ref = NoContent /\ IsResponse(line)
  BY <1>2, <1>4, <1>5 DEF UpstreamLineType, Forms, IsResponse
<1>7. /\ line.id \in 1 .. MaxSent
      /\ G!Give(line.id, "tools/list", View(line))
  BY <1>1, <1>3, <1>5, <1>6, HandlesGives
<1>8. View(line) = G!Answer("injected", NoContent, NoContent)
  BY <1>6, ViewOf
<1>9. G!AddTool(line.id)
  BY <1>1, <1>7, <1>8 DEF G!AddTool
<1> QED
  BY <1>7, <1>9 DEF G!GuardNext

LEMMA BPassesRefines ==
  ASSUME IInv, IInv', BPasses
  PROVE  [G!GuardNext]_(G!gvars)
<1>1. /\ bPc = "handling" /\ ~ Cacheable(bLine) /\ ~ Injectable(bLine) /\ BHandles(bLine)
      /\ UNCHANGED <<held, issued, ret, sent, aPc, aLine>>
  BY DEF BPasses, BHandles, cacheVars, clientVars, aVars
<1>2. bLine \in UpstreamLineType /\ Fresh(bLine) /\ bLine.ref = NoContent
  BY <1>1, InHandOfB DEF Fresh
<1>3. CASE ~ IsResponse(bLine)
  <2>1. ToSet(Processed') = ToSet(Processed) \cup {bLine}
    BY <1>1, <1>2, BHandlesFlow DEF IInv
  <2>2. Handled' = Handled /\ Reply' = Reply
    BY <1>1, <1>3, <2>1 DEF Handled, Reply
  <2>3. Made' = Made
    BY <1>1, <2>2, MadeParts, MadePartsNext
  <2> QED
    BY <1>1, <2>3, SameAnswers, AskedSame DEF G!gvars, AskedMap, AnswersMap
<1>4. CASE IsResponse(bLine)
  <2> DEFINE m == Asked(bLine.id).method
  <2>1. /\ bLine.id \in 1 .. MaxSent
        /\ G!Give(bLine.id, m, View(bLine))
        /\ m = bLine.re
        /\ m \in Registrable
    BY <1>1, <1>2, <1>4, HandlesGives
  <2> HIDE DEF m
  <2>2. MatchedMethod(bLine) = bLine.re
    BY <1>1, <1>4, Matched
  <2>3. m \in {"tools/list", "tools/call", "other"}
    BY <2>1 DEF Registrable
  <2>4. CASE bLine.form = "result" /\ bLine.re = "tools/call"
    <3>1. bLine.content \in Contents
      BY <1>2, <1>4, <2>4, FreshResponse
    <3>2. Size[bLine.content] <= Threshold
      BY <1>1, <2>2, <2>4, <3>1, SizeAssumption DEF Cacheable
    <3>3. View(bLine) = G!Answer("result", bLine.content, NoContent) /\ m = "tools/call"
      BY <1>2, <2>1, <2>4, ViewOf
    <3>4. G!PassResult(bLine.id)
      BY <1>1, <2>1, <3>1, <3>2, <3>3 DEF G!PassResult
    <3> QED
      BY <2>1, <3>4 DEF G!GuardNext
  <2>5. CASE ~ (bLine.form = "result" /\ bLine.re = "tools/call")
    <3>1. View(bLine) = G!Answer("other", NoContent, NoContent)
      BY <1>2, <1>4, <2>1, <2>5, FreshResponse, ViewOf
    <3>2. G!PassOther(bLine.id)
      BY <1>1, <2>1, <2>3, <3>1 DEF G!PassOther
    <3> QED
      BY <2>1, <3>2 DEF G!GuardNext
  <2> QED
    BY <2>4, <2>5
<1> QED
  BY <1>3, <1>4

LEMMA BEvictsRefines ==
  ASSUME IInv, IInv', BEvicts
  PROVE  G!GuardNext
<1>1. PICK id \in CacheIds : Store!Drop(id)
  BY DEF BEvicts
<1>2. UNCHANGED <<sent, ret, aPc, aLine, bPc, bLine, out, delivered>>
  BY <1>1 DEF BEvicts, Store!Drop, clientVars, aVars, bVars, sink
<1>3. G!Store!Drop(id)
  BY <1>1 DEF Store!Drop, G!Store!Drop
<1>4. Made' = Made
  BY <1>2 DEF Made, Ready, Processed, Reply
<1> QED
  BY <1>1, <1>2, <1>3, <1>4, SameAnswers, AskedSame DEF G!GuardNext, G!Forget, AskedMap, AnswersMap

\* A step that makes no answer is none of Guard's.
LEMMA QuietRefines ==
  ASSUME IInv, IInv', UNCHANGED <<sent, held, issued>>, Made' = Made
  PROVE  UNCHANGED G!gvars
BY SameAnswers, AskedSame DEF G!gvars, AskedMap, AnswersMap

\* Client and upstream only fill pipes that nobody has read from, ...
LEMMA OutsideRefines ==
  ASSUME IInv, IInv',
         \/ ClientCloses \/ UpstreamReads \/ UpstreamAnswers \/ UpstreamSpeaks \/ Gone
         \/ Closes \/ Returns \/ UNCHANGED vars
  PROVE  UNCHANGED G!gvars
<1>1. UNCHANGED <<sent, held, issued, ret, aPc, aLine, bPc, bLine, out, delivered>>
  BY DEF ClientCloses, UpstreamReads, UpstreamAnswers, UpstreamSpeaks, UpstreamSays, Gone, Closes,
         Returns, vars, clientVars, aVars, bVars, sink, cacheVars
<1>2. Made' = Made
  BY <1>1 DEF Made, Ready, Processed, Reply
<1> QED
  BY <1>1, <1>2, QuietRefines

\* ... A answers nothing that it forwards, ...
LEMMA AForwardingRefines ==
  ASSUME IInv, IInv', AReads \/ AEnds \/ ARegisters \/ AForwards
  PROVE  UNCHANGED G!gvars
<1>1. UNCHANGED <<sent, held, issued, bPc, bLine, out, delivered>>
  BY DEF AReads, AEnds, ARegisters, AForwards, clientVars, bVars, sink, cacheVars
<1>2. aPc \notin {"text", "error"} /\ aPc' \notin {"text", "error"}
  BY RouteCases DEF AReads, AEnds, ARegisters, AForwards
<1>3. Handled' = Handled
  BY <1>1 DEF Handled, Processed
<1>4. Made' = Made
  BY <1>2, <1>3, MadeParts, MadePartsNext
<1> QED
  BY <1>1, <1>4, QuietRefines

\* ... and a line is the same answer in B's hand, in the channel and delivered.
LEMMA DeliveryRefines ==
  ASSUME IInv, IInv', BReads \/ BEnds \/ BSends \/ Writes
  PROVE  UNCHANGED G!gvars
<1>1. UNCHANGED <<sent, held, issued, ret, aPc, aLine>>
  BY DEF BReads, BEnds, BSends, Writes, clientVars, aVars, cacheVars
<1>2. Processed' = Processed
  <2>1. CASE BEnds
    BY <2>1 DEF BEnds, Processed, sink
  <2>2. CASE BReads \/ BSends \/ Writes
    BY <2>2, BReadsFlow, BSendsFlow, WritesFlow DEF IInv, DownSame
  <2> QED
    BY <2>1, <2>2
<1>3. Handled' = Handled /\ Reply' = Reply
  BY <1>1, <1>2 DEF Handled, Reply
<1>4. Made' = Made
  BY <1>1, <1>3, MadeParts, MadePartsNext
<1> QED
  BY <1>1, <1>4, QuietRefines

\* So is the reply of A, in its hand and in the channel.
LEMMA ARepliesRefines ==
  ASSUME IInv, IInv', AReplies
  PROVE  UNCHANGED G!gvars
<1>1. UNCHANGED <<sent, held, issued>> /\ aPc \in {"text", "error"} /\ aPc' = "reading"
  BY DEF AReplies, clientVars, cacheVars
<1>2. Reply \in UpstreamLineType /\ IsResponse(Reply)
  BY <1>1, ReplyIs
<1>3. ToSet(Processed') = ToSet(Processed) \cup {Reply}
  BY <1>2, ARepliesDownFlow DEF IInv
<1>4. Handled' = Handled \cup {Reply}
  BY <1>2, <1>3 DEF Handled
<1>5. Made' = Made
  BY <1>1, <1>4, MadeParts, MadePartsNext
<1> QED
  BY <1>1, <1>5, QuietRefines

-----------------------------------------------------------------------------
(* The refinement *)

LEMMA InitRefines ==
  ASSUME Init
  PROVE  G!GuardInit
<1>1. IInv
  BY InitInv
<1>2. Made = {} /\ sent = <<>>
  BY DEF Init, Made, Ready, Processed, ToSet
<1>3. AskedMap = [r \in 1 .. MaxSent |-> G!NotAsked]
  BY <1>2 DEF AskedMap, Asked, G!NotAsked
<1>4. AnswersMap = [r \in 1 .. MaxSent |-> <<>>]
  BY <1>1, <1>2, AnsweredOnce DEF AnswersMap
<1>5. G!Store!StoreInit
  BY DEF Init, Store!StoreInit, G!Store!StoreInit, G!Store!NoAnswer
<1> QED
  BY <1>3, <1>4, <1>5 DEF G!GuardInit, AskedMap, AnswersMap

\* Every step of the proxy is a step of Guard or none.
LEMMA StepRefines ==
  ASSUME IInv, IInv', [Next]_vars
  PROVE  [G!GuardNext]_(G!gvars)
<1>1. CASE Client
  BY <1>1, ClientSendsRefines, OutsideRefines DEF Client
<1>2. CASE A
  BY <1>2, AForwardingRefines, ALooksUpRefines, ARepliesRefines DEF A
<1>3. CASE Upstream
  BY <1>3, OutsideRefines DEF Upstream, UpstreamEnds, UpstreamDies
<1>4. CASE B
  BY <1>4, DeliveryRefines, BCachesRefines, BInjectsRefines, BPassesRefines DEF B
<1>5. CASE BEvicts \/ Closes \/ Writer
  BY <1>5, BEvictsRefines, OutsideRefines, DeliveryRefines DEF Writer
<1>6. CASE Finished \/ UNCHANGED vars
  BY <1>6, OutsideRefines DEF Finished
<1> QED
  BY <1>1, <1>2, <1>3, <1>4, <1>5, <1>6 DEF Next

\* However A, B and the writer interleave, the client is served as Guard
\* promises: at most one answer to a request, large results as stubs only, and
\* ids that read back what their stubs stand for or an error (proxy.go:103-182).
THEOREM StdioImplementsGuard == Spec => ImplementsGuard
<1>1. Init => G!GuardInit
  BY InitRefines
<1>2. IInv /\ IInv' /\ [Next]_vars => [G!GuardNext]_(G!gvars)
  BY StepRefines
<1> QED
  BY <1>1, <1>2, StdioInvariant, PTL DEF Spec, ImplementsGuard, G!GuardSpec
=============================================================================
