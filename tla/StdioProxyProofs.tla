-------------------------- MODULE StdioProxyProofs --------------------------
(***************************************************************************)
(* Proofs about StdioProxy for any capacities, bounds, contents, sizes and *)
(* threshold, and for an upstream that may die.  Two streams carry the     *)
(* argument, FromClient and ToClient: a step appends to one, takes a line  *)
(* out of it or moves a line along it.  First what these changes do to any *)
(* sequence, then the invariant, then the steps.                           *)
(***************************************************************************)
EXTENDS StdioProxy, SequenceTheorems, FiniteSetTheorems, TLAPS

-----------------------------------------------------------------------------
(* The invariant *)

Kinds == {"request", "response", "notification", "garbage"}
MethodNames == {"tools/list", "tools/call", "seek_result", "bad_seek", "other", "none"}
Registrable == {"tools/list", "tools/call", "other"}     \* methods in pending
Forms == {"result", "error", "malformed", "raw", "stub", "injected", "text"}
Refs == CacheIds \cup {NoContent}

ClientLineType == [kind : Kinds, method : MethodNames, ref : Refs, n : Nat]
UpstreamLineType ==
    [kind : Kinds, id : Nat, re : MethodNames, form : Forms,
     content : Contents \cup {NoContent}, ref : Refs, n : Nat]

\* The types, more precise than TypeOK.
Types ==
    /\ {stdin, sent, seen, upstreamIn} \subseteq Seq(ClientLineType)
    /\ owed \subseteq ClientLineType
    /\ {upstreamOut, out, delivered} \subseteq Seq(UpstreamLineType)
    /\ InA \in Seq(ClientLineType) /\ InB \in Seq(UpstreamLineType)
    /\ aPc \in {"reading", "registering", "forwarding", "looking_up", "text", "error", "done"}
    /\ bPc \in {"reading", "handling", "sending", "done"}
    /\ {stdinClosed, alive, outClosed, returned} \subseteq BOOLEAN
    /\ said \in Nat
    /\ pending \in [DOMAIN pending -> MethodNames]
    /\ held \in [DOMAIN held -> Contents]
    /\ Store!StoreTypeOK
    /\ recorded \in [results : Nat, seeks : Nat]

Capacities ==
    /\ Len(stdin) <= PipeCap /\ Len(upstreamIn) <= PipeCap
    /\ Len(upstreamOut) <= PipeCap /\ Len(out) <= OutCap
    /\ Len(sent) <= MaxSent

\* In a stream the places are in order; replies of A, which have no place, are in
\* the order of the requests.
Before(x, y) ==
    /\ x.n > 0 /\ y.n > 0 => x.n < y.n
    /\ x.n = 0 /\ y.n = 0 => x.id < y.id
Sorted(s) == \A i, j \in DOMAIN s : i < j => Before(s[i], s[j])

Unread == InA \o stdin

\* What the client sent: a line's place is its number.
ClientLineOK(line) ==
    /\ IsRequest(line) => line.method \in Methods
    /\ ~ IsRequest(line) => line.method = "none"
    /\ IF line.method = "seek_result" THEN line.ref \in CacheIds ELSE line.ref = NoContent
SentOK == \A k \in DOMAIN sent : sent[k].n = k /\ ClientLineOK(sent[k])

\* A's line is on the branch it belongs to.
InAOK ==
    /\ aPc = "registering" => IsRequest(aLine) /\ aLine.method # "seek_result"
    /\ aPc = "forwarding" => aLine.method # "seek_result"
    /\ aPc \in {"looking_up", "text", "error"} => aLine.method = "seek_result"

\* The stream to the upstream: what was sent, in order, complete up to the calls
\* of seek_result, which never get beyond A.
FromClientOK ==
    /\ \A line \in ToSet(FromClient) : line.n \in DOMAIN sent /\ line = sent[line.n]
    /\ Sorted(FromClient)
    /\ \A line \in ToSet(ToServer) : line.method # "seek_result"
    /\ alive => \A k \in DOMAIN sent :
                   sent[k].method # "seek_result" => sent[k] \in ToSet(FromClient)

\* The stream to the client: every place is in it once, in order.
ToClientOK ==
    /\ { line.n : line \in ToSet(ToClient) } \ {0} = 1 .. said
    /\ Sorted(ToClient)

\* A line the upstream wrote and B has not handled.
Fresh(line) ==
    /\ line.n > 0 /\ line.ref = NoContent
    /\ IF ~ IsResponse(line) THEN line.form = "raw"
       ELSE CASE line.re = "tools/call" -> line.form \in {"result", "error"} /\ line.content \in Contents
              [] line.re = "tools/list" -> line.form \in {"result", "malformed"}
              [] OTHER -> line.form = "result"

\* A line that B has handled or A has sent.
Treated(line) ==
    /\ line.n = 0 => line.form \in {"text", "error"}
    /\ line.form = "text" => line.n = 0
    /\ line.form = "result" /\ line.re = "tools/call" => Size[line.content] <= Threshold
    /\ line.form = "result" => line.re # "tools/list"
    /\ line.form = "stub" => line.re = "tools/call" /\ line.content \in Contents
                                /\ Size[line.content] >= Threshold /\ line.n > 0
    /\ line.form = "injected" => line.re = "tools/list"

Unhandled == (IF bPc = "handling" THEN <<bLine>> ELSE <<>>) \o upstreamOut

FormsOK ==
    /\ \A line \in ToSet(Unhandled) : Fresh(line)
    /\ \A line \in ToSet(Processed) : Treated(line)
    /\ bPc = "sending" => bLine.n > 0

\* An answer of the upstream is to a request it has read and no longer owes, and
\* there is no other.
UpstreamAnswersOK ==
    /\ owed \subseteq { line \in ToSet(seen) : IsRequest(line) }
    /\ \A r \in ToSet(ToClient) : r.n > 0 /\ IsResponse(r) =>
         /\ r.id \in DOMAIN sent
         /\ sent[r.id] \in ToSet(seen) \ owed
         /\ IsRequest(sent[r.id]) /\ r.re = Method(sent[r.id])
    /\ \A r, q \in ToSet(ToClient) :
         r.n > 0 /\ q.n > 0 /\ IsResponse(r) /\ IsResponse(q) /\ r.id = q.id => r.n = q.n
    /\ alive => \A line \in ToSet(seen) :
                   IsRequest(line) /\ line \notin owed =>
                      \E r \in ToSet(ToClient) : r.n > 0 /\ IsResponse(r) /\ r.id = line.n

\* A reply of A is to a call of seek_result that A has left behind, and every such
\* call is unread, with A or replied to.
RepliesOK ==
    /\ \A r \in ToSet(ToClient) : r.n = 0 =>
         /\ IsResponse(r) /\ r.id \in DOMAIN sent
         /\ sent[r.id].method = "seek_result"
         /\ \A line \in ToSet(Unread) : r.id < line.n
    /\ \A k \in DOMAIN sent : sent[k].method = "seek_result" =>
         sent[k] \in ToSet(Unread) \/ \E r \in ToSet(ToClient) : r.n = 0 /\ r.id = k

\* What is in the cache, or was read from it, stands behind a stub.
StubIn(S, id, c) == \E s \in S : s.form = "stub" /\ s.ref = id /\ s.content = c
StubOf(id, c) == StubIn(ToSet(Processed), id, c)
Backed ==
    /\ \A id \in DOMAIN held : StubOf(id, held[id])
    /\ aPc = "text" => StubOf(aLine.ref, ret["A"].content)
    /\ \A t \in ToSet(Processed) : t.form = "text" => StubOf(t.ref, t.content)
    /\ \A s \in ToSet(Processed) : s.form = "stub" => s.ref \in issued
    /\ \A s, t \in ToSet(Processed) :
         s.form = "stub" /\ t.form = "stub" /\ s.ref = t.ref => s.n = t.n

\* PendingExact, with the lines B has not handled as one stream.
Leaving == IF aPc = "forwarding" THEN {aLine} ELSE {}
Requested == { line \in ToSet(upstreamIn) \cup owed \cup Leaving : IsRequest(line) }
Answering == { line \in ToSet(Unhandled) : IsResponse(line) }
PendingOK ==
    /\ alive => DOMAIN pending = { r.n : r \in Requested } \cup { r.id : r \in Answering }
    /\ \A r \in Requested : r.n \in DOMAIN pending /\ pending[r.n] = Method(r)
    /\ \A r \in Answering : r.id \in DOMAIN pending /\ pending[r.id] = r.re
    /\ DOMAIN pending \subseteq DOMAIN sent
    /\ \A id \in DOMAIN pending : pending[id] \in Registrable

\* RecordedExactly, with a name for the count.
OfForm(s, f) == Cardinality({ i \in DOMAIN s : s[i].form = f })
One(line, f) == IF line.form = f THEN 1 ELSE 0
RecordedOK ==
    /\ recorded.results = OfForm(ToClient, "stub")
    /\ recorded.seeks = OfForm(ToClient, "text") + (IF aPc = "text" THEN 1 ELSE 0)

\* The order in which the goroutines stop.
Closing ==
    /\ aPc = "done" => stdin = <<>> /\ stdinClosed
    /\ bPc = "done" => upstreamOut = <<>> /\ ~ alive
    /\ outClosed => aPc = "done" /\ bPc = "done"
    /\ returned => outClosed /\ out = <<>>

IInv ==
    /\ Types /\ Capacities
    /\ SentOK /\ InAOK /\ FromClientOK /\ ToClientOK
    /\ UpstreamAnswersOK /\ RepliesOK /\ FormsOK
    /\ PendingOK /\ Backed /\ RecordedOK /\ Closing

LEMMA FreshResponse ==
  ASSUME NEW line, IsResponse(line)
  PROVE  Fresh(line) <=>
           /\ line.n > 0 /\ line.ref = NoContent
           /\ \/ line.re = "tools/call" /\ line.form \in {"result", "error"} /\ line.content \in Contents
              \/ line.re = "tools/list" /\ line.form \in {"result", "malformed"}
              \/ line.re \notin {"tools/call", "tools/list"} /\ line.form = "result"
<1>1. CASE line.re = "tools/call"
  BY <1>1, Zenon DEF Fresh
<1>2. CASE line.re = "tools/list"
  BY <1>2, Zenon DEF Fresh
<1>3. CASE line.re \notin {"tools/call", "tools/list"}
  BY <1>3, Zenon DEF Fresh
<1> QED
  BY <1>1, <1>2, <1>3

-----------------------------------------------------------------------------
(* Sequences *)

\* What is in a stream after it was joined, extended or shortened.
LEMMA ToSetConcat ==
  ASSUME NEW S, NEW s \in Seq(S), NEW t \in Seq(S)
  PROVE  s \o t \in Seq(S) /\ ToSet(s \o t) = ToSet(s) \cup ToSet(t)
<1>1. ASSUME NEW x \in ToSet(s) PROVE x \in ToSet(s \o t)
  BY DEF ToSet
<1>2. ASSUME NEW x \in ToSet(t) PROVE x \in ToSet(s \o t)
  <2>1. PICK i \in 1 .. Len(t) : x = t[i]
    BY DEF ToSet
  <2>2. Len(s) + i \in DOMAIN (s \o t) /\ (s \o t)[Len(s) + i] = x
    BY <2>1
  <2> QED
    BY <2>2 DEF ToSet
<1>3. ASSUME NEW x \in ToSet(s \o t) PROVE x \in ToSet(s) \cup ToSet(t)
  BY DEF ToSet
<1> QED
  BY <1>1, <1>2, <1>3

LEMMA ToSetSmall ==
  ASSUME NEW S, NEW x \in S
  PROVE  <<x>> \in Seq(S) /\ ToSet(<<>>) = {} /\ ToSet(<<x>>) = {x}
BY DEF ToSet

LEMMA ToSetAppend ==
  ASSUME NEW S, NEW s \in Seq(S), NEW x \in S
  PROVE  ToSet(Append(s, x)) = ToSet(s) \cup {x}
<1>1. <<x>> \in Seq(S) /\ Append(s, x) = s \o <<x>>
  OBVIOUS
<1>2. ToSet(s \o <<x>>) = ToSet(s) \cup ToSet(<<x>>)
  BY <1>1, ToSetConcat, ZenonT(30)
<1> QED
  BY <1>1, <1>2, ToSetSmall

LEMMA ToSetHeadTail ==
  ASSUME NEW S, NEW s \in Seq(S), s # <<>>
  PROVE  ToSet(s) = {Head(s)} \cup ToSet(Tail(s))
<1>1. s = <<Head(s)>> \o Tail(s) /\ Head(s) \in S /\ Tail(s) \in Seq(S)
  OBVIOUS
<1> QED
  <2>1. <<Head(s)>> \in Seq(S)
    BY <1>1
  <2>2. ToSet(<<Head(s)>> \o Tail(s)) = ToSet(<<Head(s)>>) \cup ToSet(Tail(s))
    BY <1>1, <2>1, ToSetConcat, ZenonT(30)
  <2> QED
    BY <1>1, <2>2, ToSetSmall

\* Sortedness of a joined stream comes down to that of its parts.
LEMMA SortedConcat ==
  ASSUME NEW S, NEW s \in Seq(S), NEW t \in Seq(S)
  PROVE  Sorted(s \o t) <=> /\ Sorted(s) /\ Sorted(t)
                            /\ \A x \in ToSet(s), y \in ToSet(t) : Before(x, y)
<1>1. ASSUME Sorted(s \o t) PROVE Sorted(s)
  BY <1>1 DEF Sorted
<1>2. ASSUME Sorted(s \o t), NEW i \in DOMAIN t, NEW j \in DOMAIN t, i < j PROVE Before(t[i], t[j])
  <2>1. /\ Len(s) + i \in DOMAIN (s \o t) /\ (s \o t)[Len(s) + i] = t[i]
        /\ Len(s) + j \in DOMAIN (s \o t) /\ (s \o t)[Len(s) + j] = t[j]
        /\ Len(s) + i < Len(s) + j
    BY <1>2
  <2> QED
    BY <1>2, <2>1 DEF Sorted
<1>3. ASSUME Sorted(s \o t), NEW i \in DOMAIN s, NEW j \in DOMAIN t PROVE Before(s[i], t[j])
  <2>1. /\ i \in DOMAIN (s \o t) /\ (s \o t)[i] = s[i]
        /\ Len(s) + j \in DOMAIN (s \o t) /\ (s \o t)[Len(s) + j] = t[j]
        /\ i < Len(s) + j
    BY <1>3
  <2> QED
    BY <1>3, <2>1 DEF Sorted
<1>4. ASSUME Sorted(s), Sorted(t), \A x \in ToSet(s), y \in ToSet(t) : Before(x, y),
             NEW i \in DOMAIN (s \o t), NEW j \in DOMAIN (s \o t), i < j
      PROVE  Before((s \o t)[i], (s \o t)[j])
  <2>1. CASE j <= Len(s)
    BY <1>4, <2>1 DEF Sorted
  <2>2. CASE i > Len(s)
    BY <1>4, <2>2 DEF Sorted
  <2>3. CASE i <= Len(s) /\ j > Len(s)
    BY <1>4, <2>3 DEF ToSet
  <2> QED
    BY <2>1, <2>2, <2>3
<1> QED
  BY <1>1, <1>2, <1>3, <1>4 DEF Sorted, ToSet

LEMMA SortedSmall ==
  ASSUME NEW S, NEW x \in S
  PROVE  Sorted(<<>>) /\ Sorted(<<x>>)
BY DEF Sorted

LEMMA SortedAppend ==
  ASSUME NEW S, NEW s \in Seq(S), NEW x \in S, Sorted(s), \A y \in ToSet(s) : Before(y, x)
  PROVE  Sorted(Append(s, x))
<1>1. <<x>> \in Seq(S) /\ Append(s, x) = s \o <<x>>
  OBVIOUS
<1>2. Sorted(<<x>>) /\ ToSet(<<x>>) = {x}
  BY SortedSmall, ToSetSmall
<1>3. Sorted(s \o <<x>>)
  BY <1>1, <1>2, SortedConcat
<1> QED
  BY <1>1, <1>3

\* A line that is handed on from one part of a stream to the next.
LEMMA Moves ==
  ASSUME NEW S, NEW s \in Seq(S), NEW t \in Seq(S), t # <<>>
  PROVE  /\ Append(s, Head(t)) \o Tail(t) = s \o t
         /\ RemoveAt(t, 1) = Tail(t)
         /\ Head(t) = t[1] /\ 1 \in DOMAIN t
         /\ Head(t) \in S /\ Tail(t) \in Seq(S) /\ Len(Tail(t)) < Len(t)
BY DEF RemoveAt
\* Three parts: what is in them and whether they are in order.
LEMMA ThreeParts ==
  ASSUME NEW S, NEW s \in Seq(S), NEW m \in Seq(S), NEW t \in Seq(S)
  PROVE  /\ (s \o m) \o t \in Seq(S)
         /\ ToSet((s \o m) \o t) = (ToSet(s) \cup ToSet(m)) \cup ToSet(t)
         /\ Sorted((s \o m) \o t) <=>
              /\ Sorted(s) /\ Sorted(m) /\ Sorted(t)
              /\ \A x \in ToSet(s), y \in ToSet(m) : Before(x, y)
              /\ \A x \in ToSet(s) \cup ToSet(m), y \in ToSet(t) : Before(x, y)
<1>1. PICK sm : sm = s \o m
  OBVIOUS
<1>2. sm \in Seq(S) /\ ToSet(sm) = ToSet(s) \cup ToSet(m)
  BY <1>1, ToSetConcat
<1>3. Sorted(sm) <=> /\ Sorted(s) /\ Sorted(m)
                     /\ \A x \in ToSet(s), y \in ToSet(m) : Before(x, y)
  BY <1>1, SortedConcat
<1>4. sm \o t \in Seq(S) /\ ToSet(sm \o t) = ToSet(sm) \cup ToSet(t)
  BY <1>2, ToSetConcat
<1>5. Sorted(sm \o t) <=> /\ Sorted(sm) /\ Sorted(t)
                           /\ \A x \in ToSet(sm), y \in ToSet(t) : Before(x, y)
  BY <1>2, SortedConcat
<1> QED
  BY <1>1, <1>2, <1>3, <1>4, <1>5

\* ... and with a single line in the middle.
LEMMA LineBetween ==
  ASSUME NEW S, NEW s \in Seq(S), NEW x \in S, NEW t \in Seq(S)
  PROVE  /\ s \o <<x>> \in Seq(S) /\ <<x>> \o t \in Seq(S)
         /\ ToSet(s \o <<x>>) = ToSet(s) \cup {x} /\ ToSet(<<x>> \o t) = {x} \cup ToSet(t)
         /\ ToSet((s \o <<x>>) \o t) = (ToSet(s) \cup {x}) \cup ToSet(t)
         /\ Sorted((s \o <<x>>) \o t) <=>
              /\ Sorted(s) /\ Sorted(t)
              /\ \A y \in ToSet(s) : Before(y, x)
              /\ \A y \in ToSet(s) \cup {x}, z \in ToSet(t) : Before(y, z)
<1>1. PICK m : m = <<x>>
  OBVIOUS
<1>2. m \in Seq(S) /\ ToSet(m) = {x} /\ Sorted(m)
  BY <1>1, ToSetSmall, SortedSmall
<1>3. s \o m \in Seq(S) /\ ToSet(s \o m) = ToSet(s) \cup ToSet(m)
  BY <1>2, ToSetConcat
<1>4. m \o t \in Seq(S) /\ ToSet(m \o t) = ToSet(m) \cup ToSet(t)
  BY <1>2, ToSetConcat
<1>5. /\ ToSet((s \o m) \o t) = (ToSet(s) \cup ToSet(m)) \cup ToSet(t)
      /\ Sorted((s \o m) \o t) <=>
              /\ Sorted(s) /\ Sorted(m) /\ Sorted(t)
              /\ \A y \in ToSet(s), z \in ToSet(m) : Before(y, z)
              /\ \A y \in ToSet(s) \cup ToSet(m), z \in ToSet(t) : Before(y, z)
  BY <1>2, ThreeParts
<1>6. Sorted((s \o m) \o t) <=>
              /\ Sorted(s) /\ Sorted(t)
              /\ \A y \in ToSet(s) : Before(y, x)
              /\ \A y \in ToSet(s) \cup {x}, z \in ToSet(t) : Before(y, z)
  BY <1>2, <1>5
<1> HIDE <1>5
<1> QED
  BY <1>1, <1>2, <1>3, <1>4, <1>5, <1>6

LEMMA ConcatAppend ==
  ASSUME NEW S, NEW s \in Seq(S), NEW t \in Seq(S), NEW x \in S
  PROVE  s \o Append(t, x) = Append(s \o t, x)
OBVIOUS

\* How often a form occurs in a joined stream.
LEMMA OfFormConcat ==
  ASSUME NEW S, NEW s \in Seq(S), NEW t \in Seq(S), NEW f
  PROVE  /\ OfForm(s, f) \in Nat /\ OfForm(t, f) \in Nat
         /\ OfForm(s \o t, f) = OfForm(s, f) + OfForm(t, f)
<1> DEFINE At(u) == { i \in DOMAIN u : u[i].form = f }
           late == { i \in DOMAIN (s \o t) : i > Len(s) /\ (s \o t)[i].form = f }
<1>1. ASSUME NEW u \in Seq(S) PROVE IsFiniteSet(At(u)) /\ Cardinality(At(u)) \in Nat
  <2>1. IsFiniteSet(1 .. Len(u))
    BY FS_Interval
  <2>2. At(u) \in SUBSET (1 .. Len(u))
    OBVIOUS
  <2> QED
    BY <2>1, <2>2, FS_Subset, FS_CardinalityType
<1>2. s \o t \in Seq(S)
  OBVIOUS
<1>3. At(s \o t) = At(s) \cup late /\ At(s) \cap late = {}
  OBVIOUS
<1>4. Cardinality(late) = Cardinality(At(t)) /\ IsFiniteSet(late)
  <2> DEFINE g == [i \in At(t) |-> i + Len(s)]
  <2>1. g \in Bijection(At(t), late)
    <3>1. \A i \in At(t) : i + Len(s) \in late
      OBVIOUS
    <3>2. \A j \in late : j - Len(s) \in At(t)
      OBVIOUS
    <3>3. g \in [At(t) -> late]
      BY <3>1
    <3>4. \A a, b \in At(t) : g[a] = g[b] => a = b
      OBVIOUS
    <3>5. \A j \in late : \E i \in At(t) : g[i] = j
      <4> TAKE j \in late
      <4>1. j - Len(s) \in At(t) /\ j \in Int /\ Len(s) \in Int
        BY <3>2
      <4> QED
        BY <4>1
    <3> HIDE DEF g, At, late
    <3> QED
      BY <3>3, <3>4, <3>5 DEF Bijection, Injection, Surjection, IsInjective
  <2>2. ExistsBijection(At(t), late)
    BY <2>1 DEF ExistsBijection
  <2> QED
    BY <1>1, <2>2, FS_Bijection
<1>5. OfForm(s, f) = Cardinality(At(s)) /\ OfForm(t, f) = Cardinality(At(t)) /\ OfForm(s \o t, f) = Cardinality(At(s \o t))
  BY DEF OfForm
<1> HIDE DEF At, late
<1>6. Cardinality(At(s) \cup late) = Cardinality(At(s)) + Cardinality(late) - Cardinality(At(s) \cap late)
  BY <1>1, <1>4, FS_Union
<1>7. Cardinality(At(s)) \in Nat /\ Cardinality(At(t)) \in Nat
  BY <1>1
<1>8. Cardinality(At(s) \cap late) = 0
  BY <1>3, FS_EmptySet
<1>9. Cardinality(At(s \o t)) = Cardinality(At(s)) + Cardinality(At(t))
  BY <1>3, <1>4, <1>6, <1>7, <1>8
<1> QED
  BY <1>5, <1>7, <1>9

LEMMA OfFormSmall ==
  ASSUME NEW S, NEW x \in S, NEW f
  PROVE  OfForm(<<>>, f) = 0 /\ OfForm(<<x>>, f) = One(x, f)
<1>1. { i \in DOMAIN <<>> : <<>>[i].form = f } = {}
  OBVIOUS
<1>2. { i \in DOMAIN <<x>> : <<x>>[i].form = f } = IF x.form = f THEN {1} ELSE {}
  OBVIOUS
<1> QED
  BY <1>1, <1>2, FS_EmptySet, FS_Singleton DEF OfForm, One

LEMMA OfFormBetween ==
  ASSUME NEW S, NEW s \in Seq(S), NEW x \in S, NEW t \in Seq(S), NEW f
  PROVE  /\ OfForm((s \o <<x>>) \o t, f) =
              OfForm(s, f) + One(x, f) + OfForm(t, f)
         /\ OfForm(s, f) \in Nat /\ OfForm(t, f) \in Nat
<1>1. PICK m : m = <<x>>
  OBVIOUS
<1>2. m \in Seq(S) /\ OfForm(m, f) = One(x, f)
  BY <1>1, ToSetSmall, OfFormSmall
<1>3. PICK sm : sm = s \o m
  OBVIOUS
<1>4. sm \in Seq(S) /\ OfForm(sm, f) = OfForm(s, f) + OfForm(m, f)
  BY <1>2, <1>3, OfFormConcat
<1>5. OfForm(sm \o t, f) = OfForm(sm, f) + OfForm(t, f)
  BY <1>4, OfFormConcat
<1>6. OfForm(s, f) \in Nat /\ OfForm(t, f) \in Nat
  BY OfFormConcat
<1> QED
  BY <1>1, <1>2, <1>3, <1>4, <1>5, <1>6

-----------------------------------------------------------------------------
(* What each step does to the two streams *)

UpSame == UNCHANGED <<FromClient, ToServer, Unread>>
DownSame == UNCHANGED <<ToClient, Processed, Unhandled>>

LEMMA UpFrame ==
  ASSUME UNCHANGED <<stdin, aVars, upstreamIn, seen>>
  PROVE  UpSame
BY DEF UpSame, FromClient, ToServer, Unread, InA, aVars

LEMMA DownFrame ==
  ASSUME UNCHANGED <<delivered, out, bVars, upstreamOut>>
  PROVE  DownSame
BY DEF DownSame, ToClient, Processed, Unhandled, InB, bVars

\* The lines that A holds and B holds, by their program counters.
LEMMA Holding ==
  ASSUME Types
  PROVE  /\ aPc \notin {"reading", "done"} => aLine \in ClientLineType /\ InA = <<aLine>>
         /\ aPc \in {"reading", "done"} => InA = <<>>
         /\ bPc \in {"handling", "sending"} => bLine \in UpstreamLineType /\ InB = <<bLine>>
         /\ bPc \in {"reading", "done"} => InB = <<>>
<1>1. ASSUME aPc \notin {"reading", "done"} PROVE aLine \in ClientLineType
  <2>1. InA = <<aLine>> /\ InA \in Seq(ClientLineType)
    BY <1>1 DEF InA, Types
  <2> QED
    BY <2>1
<1>2. ASSUME bPc \in {"handling", "sending"} PROVE bLine \in UpstreamLineType
  <2>1. InB = <<bLine>> /\ InB \in Seq(UpstreamLineType)
    BY <1>2 DEF InB, Types
  <2> QED
    BY <2>1
<1> QED
  BY <1>1, <1>2 DEF InA, InB

LEMMA RouteCases ==
  ASSUME NEW line
  PROVE  \/ ~ IsRequest(line) /\ Route(line) = "forwarding"
         \/ IsRequest(line) /\ line.method = "seek_result" /\ Route(line) = "looking_up"
         \/ IsRequest(line) /\ line.method # "seek_result" /\ Route(line) = "registering"
<1>1. CASE ~ IsRequest(line)
  BY <1>1, Zenon DEF Route
<1>2. CASE IsRequest(line) /\ line.method = "seek_result"
  BY <1>2, Zenon DEF Route
<1>3. CASE IsRequest(line) /\ line.method # "seek_result"
  BY <1>3, Zenon DEF Route
<1> QED
  BY <1>1, <1>2, <1>3

LEMMA ClientSendsFlow ==
  ASSUME Types, NEW line \in ClientLineType, stdin' = Append(stdin, line), UNCHANGED <<aVars, upstreamIn, seen>>
  PROVE  /\ FromClient' = Append(FromClient, line) /\ Unread' = Append(Unread, line)
         /\ ToServer' = ToServer
<1>1. {stdin, seen, upstreamIn, InA} \subseteq Seq(ClientLineType)
  BY DEF Types
<1>2. InA' = InA /\ ToServer' = ToServer /\ ToServer \o InA \in Seq(ClientLineType)
  BY <1>1 DEF InA, ToServer, aVars
<1> QED
  BY <1>1, <1>2, ConcatAppend, SMTT(20) DEF FromClient, Unread

LEMMA AReadsFlow ==
  ASSUME Types, AReads
  PROVE  UpSame
<1>1. aPc' \notin {"reading", "done"} /\ InA = <<>> /\ InA' = <<Head(stdin)>>
  BY RouteCases DEF AReads, InA
<1>2. stdin \in Seq(ClientLineType) /\ ToServer \in Seq(ClientLineType) /\ ToServer' = ToServer
  BY DEF Types, AReads, ToServer, pipes, upVars
<1>3. Head(stdin) \in ClientLineType /\ stdin = <<Head(stdin)>> \o Tail(stdin)
  BY <1>2 DEF AReads
<1>4. (ToServer \o <<Head(stdin)>>) \o Tail(stdin) = (ToServer \o <<>>) \o stdin
  <2>1. <<Head(stdin)>> \in Seq(ClientLineType) /\ Tail(stdin) \in Seq(ClientLineType)
    BY <1>2, <1>3 DEF AReads
  <2> QED
    BY <1>2, <1>3, <2>1, ConcatAssociative, ConcatEmptySeq
<1> QED
  BY <1>1, <1>2, <1>3, <1>4 DEF AReads, UpSame, FromClient, Unread

\* A has nothing to do any more with the line it forwarded or replied to.
LEMMA AForwardsFlow ==
  ASSUME Types, AForwards
  PROVE  /\ Unread = <<aLine>> \o stdin /\ Unread' = stdin
         /\ \/ FromClient' = FromClient /\ ToServer' = Append(ToServer, aLine)
            \/ ~ alive /\ ToServer' = ToServer /\ FromClient' = ToServer \o stdin
<1>1. InA = <<aLine>> /\ InA' = <<>> /\ aLine \in ClientLineType
  BY Holding DEF AForwards, InA
<1>2. {stdin, seen, upstreamIn} \subseteq Seq(ClientLineType) /\ UNCHANGED <<stdin, seen>>
  BY DEF Types, AForwards, clientVars, upVars
<1>3. CASE upstreamIn' = Append(upstreamIn, aLine)
  <2>1. ToServer' = Append(ToServer, aLine) /\ ToServer \in Seq(ClientLineType)
    BY <1>1, <1>2, <1>3 DEF ToServer
  <2> QED
    BY <1>1, <1>2, <2>1 DEF FromClient, Unread
<1>4. CASE ~ alive /\ UNCHANGED upstreamIn
  BY <1>1, <1>2, <1>4 DEF FromClient, Unread, ToServer
<1> QED
  BY <1>3, <1>4 DEF AForwards

LEMMA ARepliesFlow ==
  ASSUME Types, AReplies
  PROVE  /\ Unread = <<aLine>> \o stdin /\ Unread' = stdin
         /\ ToServer' = ToServer /\ FromClient' = ToServer \o stdin
<1>1. InA = <<aLine>> /\ InA' = <<>> /\ aLine \in ClientLineType
  BY Holding DEF AReplies, InA
<1>2. {stdin, seen, upstreamIn} \subseteq Seq(ClientLineType) /\ UNCHANGED <<stdin, seen, upstreamIn>>
  BY DEF Types, AReplies, clientVars, upVars, pipes
<1> QED
  BY <1>1, <1>2 DEF FromClient, Unread, ToServer

LEMMA UpstreamReadsFlow ==
  ASSUME Types, UpstreamReads
  PROVE  UpSame
<1>1. {seen, upstreamIn} \subseteq Seq(ClientLineType)
  BY DEF Types
<1>2. seen' \o upstreamIn' = seen \o upstreamIn
  BY <1>1, Moves DEF UpstreamReads
<1>3. InA' = InA /\ stdin' = stdin
  BY DEF UpstreamReads, InA, aVars, clientVars
<1> QED
  BY <1>2, <1>3 DEF UpSame, FromClient, Unread, ToServer

LEMMA GoneFlow ==
  ASSUME Types, Gone
  PROVE  /\ ToServer' = seen /\ FromClient' = seen \o Unread /\ Unread' = Unread
         /\ ToServer = seen \o upstreamIn
<1>1. {stdin, seen, upstreamIn, InA} \subseteq Seq(ClientLineType)
  BY DEF Types
<1>2. InA' = InA /\ stdin' = stdin /\ seen' = seen /\ upstreamIn' = <<>>
  BY DEF Gone, InA, clientVars, aVars
<1> QED
  BY <1>1, <1>2 DEF FromClient, Unread, ToServer

LEMMA SaysFlow ==
  ASSUME Types, NEW line \in UpstreamLineType, UpstreamSays(line), UNCHANGED <<bVars, delivered, out>>
  PROVE  /\ ToClient' = Append(ToClient, line) /\ Unhandled' = Append(Unhandled, line)
         /\ Processed' = Processed
         /\ \A f : OfForm(ToClient', f) = OfForm(ToClient, f) + One(line, f)
<1>1. {upstreamOut, out, delivered, InB} \subseteq Seq(UpstreamLineType)
  BY DEF Types
<1>2. InB' = InB /\ Processed' = Processed
  BY DEF InB, Processed, bVars
<1>3. upstreamOut' = Append(upstreamOut, line)
  BY DEF UpstreamSays
<1>4. (IF bPc = "handling" THEN <<bLine>> ELSE <<>>) \in Seq(UpstreamLineType)
  BY Holding
<1>5. (delivered \o out) \o InB \in Seq(UpstreamLineType) /\ UNCHANGED <<delivered, out, bPc, bLine>>
  BY <1>1 DEF bVars
<1>6. ToClient' = Append(ToClient, line) /\ ToClient \in Seq(UpstreamLineType)
  BY <1>1, <1>2, <1>3, <1>5, ConcatAppend DEF ToClient
<1>7. ASSUME NEW f PROVE OfForm(ToClient', f) = OfForm(ToClient, f) + One(line, f)
  <2>1. PICK m : m = <<line>>
    OBVIOUS
  <2>2. m \in Seq(UpstreamLineType) /\ OfForm(m, f) = One(line, f)
    BY <2>1, ToSetSmall, OfFormSmall
  <2>3. ToClient' = ToClient \o m
    BY <1>6, <2>1
  <2> QED
    BY <1>6, <2>2, <2>3, OfFormConcat
<1> QED
  BY <1>1, <1>2, <1>3, <1>4, <1>5, <1>6, <1>7, ConcatAppend DEF Unhandled

LEMMA BReadsFlow ==
  ASSUME Types, BReads
  PROVE  DownSame /\ bLine' \in UpstreamLineType /\ upstreamOut' \in Seq(UpstreamLineType)
         /\ Len(upstreamOut') <= Len(upstreamOut)
<1>1. {upstreamOut, out, delivered} \subseteq Seq(UpstreamLineType)
  BY DEF Types
<1>2. upstreamOut # <<>>
  BY <1>1 DEF BReads, NextLine
<1>3. bLine' = Head(upstreamOut) /\ upstreamOut' = Tail(upstreamOut)
  BY <1>1, <1>2, Moves DEF BReads, NextLine
<1>4. InB = <<>> /\ InB' = <<Head(upstreamOut)>> /\ UNCHANGED <<delivered, out>>
  BY <1>3 DEF BReads, InB, sink
<1>5. bPc = "reading" /\ bPc' = "handling"
  BY DEF BReads
<1> QED
  BY <1>1, <1>2, <1>3, <1>4, <1>5, Moves DEF DownSame, ToClient, Processed, Unhandled
LEMMA WritesFlow ==
  ASSUME Types, Writes
  PROVE  DownSame
<1>1. {out, delivered} \subseteq Seq(UpstreamLineType)
  BY DEF Types
<1>2. delivered' \o out' = delivered \o out
  BY <1>1, Moves DEF Writes
<1>3. UNCHANGED <<bPc, bLine, upstreamOut>>
  BY DEF Writes, bVars, pipes
<1> QED
  BY <1>2, <1>3 DEF DownSame, ToClient, Processed, Unhandled, InB

LEMMA BSendsFlow ==
  ASSUME Types, BSends
  PROVE  DownSame
<1>1. {upstreamOut, out, delivered} \subseteq Seq(UpstreamLineType) /\ upstreamOut' = upstreamOut
  BY DEF Types, BSends, pipes
<1>2. bPc = "sending" /\ bPc' = "reading" /\ bLine \in UpstreamLineType
  BY Holding DEF BSends
<1>3. InB = <<bLine>> /\ InB' = <<>>
  BY <1>2 DEF InB
<1>4. delivered' \o out' = (delivered \o out) \o <<bLine>> /\ delivered' \o out' \in Seq(UpstreamLineType)
  BY <1>1, <1>2, SMTT(20) DEF BSends, Sends
<1> QED
  BY <1>1, <1>2, <1>3, <1>4 DEF DownSame, ToClient, Processed, Unhandled

\* B's line goes from those that are unhandled to those that are processed, with
\* the form it is given.
LEMMA BHandlesFlow ==
  ASSUME Types, NEW line \in UpstreamLineType, BHandles(line)
  PROVE  /\ ToSet(ToClient) = ToSet(Processed) \cup ToSet(Unhandled)
         /\ ToSet(Unhandled) = {bLine} \cup ToSet(Unhandled')
         /\ ToSet(Processed') = ToSet(Processed) \cup {line}
         /\ ToSet(ToClient') = ToSet(Processed') \cup ToSet(Unhandled')
         /\ Unhandled' = upstreamOut /\ bLine \in UpstreamLineType
         /\ line.n = bLine.n /\ line.id = bLine.id /\ Sorted(ToClient) => Sorted(ToClient')
         /\ \A f : OfForm(ToClient', f) = OfForm(ToClient, f) + One(line, f) - One(bLine, f)
<1>1. /\ {upstreamOut, out, delivered} \subseteq Seq(UpstreamLineType)
      /\ UNCHANGED <<upstreamOut, out, delivered>>
  BY DEF Types, BHandles, pipes, sink
<1>2. bPc = "handling" /\ bPc' = "sending" /\ bLine' = line /\ bLine \in UpstreamLineType
  BY Holding DEF BHandles
<1> DEFINE early == delivered \o out
<1>3. early \in Seq(UpstreamLineType) /\ early \o <<>> = early
  BY <1>1
<1>4. ToClient = (early \o <<bLine>>) \o upstreamOut /\ ToClient' = (early \o <<line>>) \o upstreamOut
  BY <1>1, <1>2 DEF ToClient, InB
<1>5. Processed = early /\ Processed' = early \o <<line>>
  BY <1>1, <1>2, <1>3 DEF Processed
<1>6. Unhandled = <<bLine>> \o upstreamOut /\ Unhandled' = upstreamOut
  BY <1>1, <1>2 DEF Unhandled
<1> HIDE DEF early
<1>7. ASSUME NEW x \in UpstreamLineType
      PROVE  /\ ToSet(early \o <<x>>) = ToSet(early) \cup {x}
             /\ ToSet(<<x>> \o upstreamOut) = {x} \cup ToSet(upstreamOut)
             /\ ToSet((early \o <<x>>) \o upstreamOut) = (ToSet(early) \cup {x}) \cup ToSet(upstreamOut)
             /\ Sorted((early \o <<x>>) \o upstreamOut)
                   <=> /\ Sorted(early) /\ Sorted(upstreamOut)
                       /\ \A y \in ToSet(early) : Before(y, x)
                       /\ \A y \in ToSet(early) \cup {x}, z \in ToSet(upstreamOut) : Before(y, z)
  <2>1. early \in Seq(UpstreamLineType) /\ upstreamOut \in Seq(UpstreamLineType)
    BY <1>1, <1>3
  <2>2. /\ ToSet(early \o <<x>>) = ToSet(early) \cup {x}
        /\ ToSet(<<x>> \o upstreamOut) = {x} \cup ToSet(upstreamOut)
    BY <2>1, LineBetween
  <2>3. ToSet((early \o <<x>>) \o upstreamOut) = (ToSet(early) \cup {x}) \cup ToSet(upstreamOut)
    BY <2>1, LineBetween
  <2>4. Sorted((early \o <<x>>) \o upstreamOut)
           <=> /\ Sorted(early) /\ Sorted(upstreamOut)
               /\ \A y \in ToSet(early) : Before(y, x)
               /\ \A y \in ToSet(early) \cup {x}, z \in ToSet(upstreamOut) : Before(y, z)
    BY <2>1, LineBetween
  <2> QED
    BY <2>2, <2>3, <2>4
<1>8. ASSUME line.n = bLine.n, line.id = bLine.id, Sorted(ToClient)
      PROVE  Sorted(ToClient')
  <2>1. \A y : (Before(y, bLine) <=> Before(y, line)) /\ (Before(bLine, y) <=> Before(line, y))
    BY <1>8 DEF Before
  <2> QED
    BY <1>2, <1>4, <1>7, <1>8, <2>1, ZenonT(30)
<1>9. /\ ToSet(Processed) = ToSet(early) /\ ToSet(Processed') = ToSet(early) \cup {line}
      /\ ToSet(Unhandled) = {bLine} \cup ToSet(upstreamOut)
      /\ ToSet(ToClient) = (ToSet(early) \cup {bLine}) \cup ToSet(upstreamOut)
      /\ ToSet(ToClient') = (ToSet(early) \cup {line}) \cup ToSet(upstreamOut)
  BY <1>2, <1>4, <1>5, <1>6, <1>7
<1>10. ASSUME NEW f PROVE OfForm(ToClient', f) = OfForm(ToClient, f) + One(line, f) - One(bLine, f)
  <2>1. /\ OfForm(ToClient, f) = OfForm(early, f) + One(bLine, f) + OfForm(upstreamOut, f)
        /\ OfForm(ToClient', f) = OfForm(early, f) + One(line, f) + OfForm(upstreamOut, f)
        /\ OfForm(early, f) \in Nat /\ OfForm(upstreamOut, f) \in Nat
    BY <1>1, <1>2, <1>3, <1>4, OfFormBetween
  <2>2. One(line, f) \in Nat /\ One(bLine, f) \in Nat
    BY DEF One
  <2> QED
    BY <2>1, <2>2
<1> QED
  BY <1>2, <1>6, <1>8, <1>9, <1>10

\* A's reply goes between the lines that were sent and B's.
LEMMA ARepliesDownFlow ==
  ASSUME Types, FormsOK, AReplies, Reply \in UpstreamLineType
  PROVE  /\ ToSet(ToClient') = ToSet(ToClient) \cup {Reply}
         /\ ToSet(Processed') = ToSet(Processed) \cup {Reply}
         /\ Unhandled' = Unhandled
         /\ Sorted(ToClient) /\ (\A r \in ToSet(ToClient) : r.n = 0 => r.id < Reply.id)
              => Sorted(ToClient')
         /\ \A f : OfForm(ToClient', f) = OfForm(ToClient, f) + One(Reply, f)
<1> DEFINE L == UpstreamLineType
           early == delivered \o out
           late == InB \o upstreamOut
           mine == IF bPc = "sending" THEN <<bLine>> ELSE <<>>
           x == Reply
<1>1. /\ {upstreamOut, out, delivered, InB} \subseteq Seq(L)
      /\ UNCHANGED <<upstreamOut, delivered, bPc, bLine>>
      /\ out' = Append(out, x)
  BY DEF Types, AReplies, pipes, bVars, Sends
<1>2. InB' = InB /\ Unhandled' = Unhandled
  BY <1>1 DEF InB, Unhandled
<1>3. early \in Seq(L) /\ late \in Seq(L) /\ mine \in Seq(L) /\ <<x>> \in Seq(L)
  BY <1>1, Holding
<1>4. delivered' \o out' = early \o <<x>>
  <2>1. x \in L /\ delivered \in Seq(L) /\ out \in Seq(L)
    BY <1>1
  <2>2. \A y \in L : delivered \o Append(out, y) = (delivered \o out) \o <<y>>
    BY <2>1
  <2> QED
    BY <1>1, <2>1, <2>2
<1>5. ToClient = early \o late /\ ToClient' = (early \o <<x>>) \o late
  <2>1. ToClient = (early \o InB) \o upstreamOut /\ ToClient' = ((early \o <<x>>) \o InB) \o upstreamOut
    BY <1>1, <1>2, <1>4 DEF ToClient
  <2>2. early \o <<x>> \in Seq(L) /\ InB \in Seq(L) /\ upstreamOut \in Seq(L)
    BY <1>1, <1>3, LineBetween
  <2>3. PICK e : e = early \o <<x>>
    OBVIOUS
  <2> HIDE DEF early, L
  <2>4. (e \o InB) \o upstreamOut = e \o (InB \o upstreamOut)
    BY <2>2, <2>3, ConcatAssociative
  <2>5. (early \o InB) \o upstreamOut = early \o (InB \o upstreamOut)
    BY <1>3, <2>2, ConcatAssociative
  <2> QED
    BY <2>1, <2>3, <2>4, <2>5
<1>6. Processed = early \o mine /\ Processed' = (early \o <<x>>) \o mine
  BY <1>1, <1>4 DEF Processed
<1>7. \A y \in ToSet(late) : y.n > 0
  <2>1. \A y \in ToSet(upstreamOut) : y.n > 0
    <3>1. CASE bPc = "handling"
      BY <1>1, <3>1, Holding, LineBetween DEF Unhandled, FormsOK, Fresh
    <3>2. CASE bPc # "handling"
      BY <1>1, <3>2, ConcatEmptySeq DEF Unhandled, FormsOK, Fresh
    <3> QED
      BY <3>1, <3>2
  <2>2. \A y \in ToSet(InB) : y.n > 0
    <3>1. CASE bPc = "handling"
      BY <1>1, <3>1, Holding, ToSetSmall, LineBetween DEF Unhandled, FormsOK, Fresh
    <3>2. CASE bPc = "sending"
      BY <3>2, Holding, ToSetSmall DEF FormsOK
    <3>3. CASE bPc \in {"reading", "done"}
      BY <3>3, Holding, ToSetSmall
    <3> QED
      BY <3>1, <3>2, <3>3 DEF Types
  <2> QED
    BY <1>1, <2>1, <2>2, ToSetConcat
<1>8. x.n = 0
  BY DEF Reply
<1> HIDE DEF L, early, late, mine, x
<1>9. /\ ToSet(early \o late) = ToSet(early) \cup ToSet(late)
      /\ ToSet(early \o mine) = ToSet(early) \cup ToSet(mine)
  BY <1>3, ToSetConcat
<1>10. /\ ToSet((early \o <<x>>) \o late) = (ToSet(early) \cup {x}) \cup ToSet(late)
       /\ ToSet((early \o <<x>>) \o mine) = (ToSet(early) \cup {x}) \cup ToSet(mine)
  BY <1>3, LineBetween DEF L, x
<1>11. ASSUME Sorted(ToClient), \A r \in ToSet(ToClient) : r.n = 0 => r.id < x.id
       PROVE  Sorted(ToClient')
  <2>1. Sorted(early) /\ Sorted(late) /\ \A y \in ToSet(early), z \in ToSet(late) : Before(y, z)
    BY <1>3, <1>5, <1>11, SortedConcat
  <2>2. \A y \in ToSet(early) : Before(y, x)
    BY <1>5, <1>8, <1>9, <1>11 DEF Before
  <2>3. \A z \in ToSet(late) : Before(x, z)
    BY <1>7, <1>8 DEF Before
  <2>4. Sorted((early \o <<x>>) \o late)
    BY <1>3, <2>1, <2>2, <2>3, LineBetween DEF L, x
  <2> QED
    BY <1>5, <2>4
<1>12. ASSUME NEW f PROVE OfForm(ToClient', f) = OfForm(ToClient, f) + One(x, f)
  <2>1. OfForm(ToClient, f) = OfForm(early, f) + OfForm(late, f)
    BY <1>3, <1>5, OfFormConcat
  <2>2. /\ OfForm(ToClient', f) = OfForm(early, f) + One(x, f) + OfForm(late, f)
        /\ OfForm(early, f) \in Nat /\ OfForm(late, f) \in Nat
    BY <1>3, <1>5, OfFormBetween DEF L, x
  <2>3. One(x, f) \in Nat
    BY DEF One
  <2> QED
    BY <2>1, <2>2, <2>3
<1> QED
  BY <1>2, <1>5, <1>6, <1>9, <1>10, <1>11, <1>12 DEF x
\* The streams in their parts.
LEMMA FromClientParts ==
  ASSUME Types
  PROVE  /\ {ToServer, Unread, FromClient} \subseteq Seq(ClientLineType)
         /\ ToSet(ToServer) = ToSet(seen) \cup ToSet(upstreamIn)
         /\ ToSet(Unread) = ToSet(InA) \cup ToSet(stdin)
         /\ FromClient = ToServer \o Unread
         /\ ToSet(FromClient) = ToSet(ToServer) \cup ToSet(Unread)
         /\ Sorted(FromClient) <=>
              /\ Sorted(ToServer) /\ Sorted(Unread)
              /\ \A x \in ToSet(ToServer), y \in ToSet(Unread) : Before(x, y)
<1>1. {seen, upstreamIn, InA, stdin} \subseteq Seq(ClientLineType)
  BY DEF Types
<1>2. ToServer \in Seq(ClientLineType) /\ ToSet(ToServer) = ToSet(seen) \cup ToSet(upstreamIn)
  BY <1>1, ToSetConcat DEF ToServer
<1>3. Unread \in Seq(ClientLineType) /\ ToSet(Unread) = ToSet(InA) \cup ToSet(stdin)
  BY <1>1, ToSetConcat DEF Unread
<1>4. FromClient = ToServer \o Unread
  <2>1. (ToServer \o InA) \o stdin = ToServer \o (InA \o stdin)
    <3>1. ToServer \in Seq(ClientLineType) /\ InA \in Seq(ClientLineType) /\ stdin \in Seq(ClientLineType)
      BY <1>1, <1>2
    <3> QED
      BY <3>1, ConcatAssociative
  <2> QED
    BY <2>1 DEF FromClient, Unread
<1>5. ToServer \o Unread \in Seq(ClientLineType) /\ ToSet(ToServer \o Unread) = ToSet(ToServer) \cup ToSet(Unread)
  BY <1>2, <1>3, ToSetConcat
<1>6. Sorted(ToServer \o Unread) <=>
              /\ Sorted(ToServer) /\ Sorted(Unread)
              /\ \A x \in ToSet(ToServer), y \in ToSet(Unread) : Before(x, y)
  BY <1>2, <1>3, SortedConcat
<1> QED
  BY <1>2, <1>3, <1>4, <1>5, <1>6

LEMMA ToClientParts ==
  ASSUME Types
  PROVE  /\ {Processed, Unhandled, ToClient} \subseteq Seq(UpstreamLineType)
         /\ ToClient = Processed \o Unhandled
         /\ ToSet(ToClient) = ToSet(Processed) \cup ToSet(Unhandled)
<1> DEFINE early == delivered \o out
<1>1. early \in Seq(UpstreamLineType) /\ upstreamOut \in Seq(UpstreamLineType)
  BY DEF Types
<1>2. CASE bPc = "handling"
  <2>1. ToClient = (early \o <<bLine>>) \o upstreamOut /\ Processed = early \o <<>> /\ Unhandled = <<bLine>> \o upstreamOut
    BY <1>2 DEF ToClient, InB, Processed, Unhandled
  <2>2. PICK m : m = <<bLine>>
    OBVIOUS
  <2>3. m \in Seq(UpstreamLineType)
    BY <1>2, <2>2, Holding, ToSetSmall
  <2>4. m \o upstreamOut \in Seq(UpstreamLineType) /\ (early \o m) \o upstreamOut = early \o (m \o upstreamOut)
    BY <1>1, <2>3, ConcatAssociative, ToSetConcat, SMTT(20)
  <2>5. early \o (m \o upstreamOut) \in Seq(UpstreamLineType)
        /\ ToSet(early \o (m \o upstreamOut)) = ToSet(early) \cup ToSet(m \o upstreamOut)
    <3>1. PICK r : r = m \o upstreamOut
      OBVIOUS
    <3> HIDE DEF early
    <3>2. early \in Seq(UpstreamLineType) /\ r \in Seq(UpstreamLineType)
      BY <1>1, <2>4, <3>1
    <3>3. early \o r \in Seq(UpstreamLineType) /\ ToSet(early \o r) = ToSet(early) \cup ToSet(r)
      BY <3>2, ToSetConcat
    <3> QED
      BY <3>1, <3>3
  <2>6. early \o <<>> = early
    BY <1>1, ConcatEmptySeq
  <2> QED
    BY <1>1, <2>1, <2>2, <2>4, <2>5, <2>6
<1>3. CASE bPc # "handling"
  <2>1. ToClient = Processed \o upstreamOut /\ Unhandled = <<>> \o upstreamOut
    BY <1>3 DEF ToClient, InB, Processed, Unhandled
  <2>2. Processed \in Seq(UpstreamLineType)
    <3>1. (IF bPc = "sending" THEN <<bLine>> ELSE <<>>) \in Seq(UpstreamLineType)
      BY Holding, ToSetSmall
    <3> QED
      BY <1>1, <3>1, ToSetConcat DEF Processed
  <2>3. <<>> \o upstreamOut = upstreamOut
    BY <1>1, ConcatEmptySeq
  <2> QED
    BY <1>1, <2>1, <2>2, <2>3, ToSetConcat
<1> QED
  BY <1>2, <1>3

-----------------------------------------------------------------------------
(* The invariant is kept: what a step leaves alone *)

LEMMA Frames ==
  /\ SentOK /\ UNCHANGED sent => SentOK'
  /\ InAOK /\ UNCHANGED aVars => InAOK'
  /\ FromClientOK /\ UpSame /\ UNCHANGED sent /\ (alive' => alive) => FromClientOK'
  /\ ToClientOK /\ DownSame /\ UNCHANGED said => ToClientOK'
  /\ UpstreamAnswersOK /\ DownSame /\ UNCHANGED <<sent, seen, owed, alive>> => UpstreamAnswersOK'
  /\ RepliesOK /\ DownSame /\ UpSame /\ UNCHANGED sent => RepliesOK'
  /\ FormsOK /\ DownSame /\ (bPc' = "sending" => UNCHANGED bVars) => FormsOK'
  /\ Backed /\ DownSame /\ UNCHANGED <<held, issued>>
       /\ (aPc' = "text" => aPc = "text" /\ aLine' = aLine /\ ret' = ret) => Backed'
  /\ PendingOK /\ DownSame /\ UNCHANGED <<sent, pending, alive, upstreamIn, owed>>
       /\ (aPc = "forwarding" \/ aPc' = "forwarding" => UNCHANGED aVars) => PendingOK'
  /\ RecordedOK /\ DownSame /\ UNCHANGED recorded /\ (aPc = "text" <=> aPc' = "text") => RecordedOK'
<1>1. SentOK /\ UNCHANGED sent => SentOK'
  BY DEF SentOK
<1>2. InAOK /\ UNCHANGED aVars => InAOK'
  BY DEF InAOK, aVars
<1>3. FromClientOK /\ UpSame /\ UNCHANGED sent /\ (alive' => alive) => FromClientOK'
  BY DEF FromClientOK, UpSame
<1>4. ToClientOK /\ DownSame /\ UNCHANGED said => ToClientOK'
  BY DEF ToClientOK, DownSame
<1>5. UpstreamAnswersOK /\ DownSame /\ UNCHANGED <<sent, seen, owed, alive>> => UpstreamAnswersOK'
  BY DEF UpstreamAnswersOK, DownSame
<1>6. RepliesOK /\ DownSame /\ UpSame /\ UNCHANGED sent => RepliesOK'
  BY DEF RepliesOK, DownSame, UpSame
<1>7. FormsOK /\ DownSame /\ (bPc' = "sending" => UNCHANGED bVars) => FormsOK'
  BY DEF FormsOK, DownSame, bVars
<1>8. Backed /\ DownSame /\ UNCHANGED <<held, issued>>
       /\ (aPc' = "text" => aPc = "text" /\ aLine' = aLine /\ ret' = ret) => Backed'
  BY DEF Backed, DownSame, StubOf, StubIn
<1>9. ASSUME PendingOK, DownSame, UNCHANGED <<sent, pending, alive, upstreamIn, owed>>,
             aPc = "forwarding" \/ aPc' = "forwarding" => UNCHANGED aVars
      PROVE  PendingOK'
  <2>1. Leaving' = Leaving
    BY <1>9 DEF Leaving, aVars
  <2>2. Requested' = Requested /\ Answering' = Answering
    BY <1>9, <2>1 DEF DownSame, Requested, Answering
  <2> QED
    BY <1>9, <2>2 DEF PendingOK
<1>10. RecordedOK /\ DownSame /\ UNCHANGED recorded /\ (aPc = "text" <=> aPc' = "text") => RecordedOK'
  BY DEF RecordedOK, DownSame
<1> QED
  BY <1>1, <1>2, <1>3, <1>4, <1>5, <1>6, <1>7, <1>8, <1>9, <1>10
-----------------------------------------------------------------------------
(* The invariant is kept: what the invariant says of the lines in hand *)

\* A's line is the first of those that are unread, behind all that went on.
LEMMA InHandOfA ==
  ASSUME IInv, aPc \notin {"reading", "done"}
  PROVE  /\ aLine \in ClientLineType /\ aLine.n \in DOMAIN sent /\ aLine = sent[aLine.n]
         /\ ClientLineOK(aLine)
         /\ stdin \in Seq(ClientLineType)
         /\ Unread = <<aLine>> \o stdin /\ ToSet(Unread) = {aLine} \cup ToSet(stdin)
         /\ aLine \in ToSet(FromClient)
         /\ \A line \in ToSet(stdin) : line.n > aLine.n
         /\ \A line \in ToSet(ToServer) : line.n < aLine.n
         /\ Sorted(stdin)
<1>1. /\ aLine \in ClientLineType /\ InA = <<aLine>> /\ stdin \in Seq(ClientLineType) /\ sent \in Seq(ClientLineType)
  BY Holding DEF IInv, Types
<1>2. Unread = <<aLine>> \o stdin /\ ToSet(Unread) = {aLine} \cup ToSet(stdin)
  BY <1>1, LineBetween DEF Unread
<1>3. /\ ToSet(FromClient) = ToSet(ToServer) \cup ToSet(Unread)
      /\ Sorted(Unread) /\ \A x \in ToSet(ToServer), y \in ToSet(Unread) : Before(x, y)
  BY FromClientParts DEF IInv, FromClientOK
<1>4. \A line \in ToSet(FromClient) : line.n \in DOMAIN sent /\ line = sent[line.n] /\ line.n > 0
  BY <1>1 DEF IInv, FromClientOK
<1>5. Sorted(stdin) /\ \A line \in ToSet(stdin) : Before(aLine, line)
  <2>1. PICK m : m = <<aLine>>
    OBVIOUS
  <2>2. m \in Seq(ClientLineType) /\ ToSet(m) = {aLine}
    BY <1>1, <2>1, ToSetSmall
  <2>3. Sorted(m \o stdin)
    BY <1>2, <1>3, <2>1
  <2> QED
    BY <1>1, <2>2, <2>3, SortedConcat
<1>6. ClientLineOK(aLine)
  BY <1>2, <1>3, <1>4 DEF IInv, SentOK
<1>7. (\A line \in ToSet(stdin) : line.n > aLine.n) /\ (\A line \in ToSet(ToServer) : line.n < aLine.n)
  <2>1. aLine \in ToSet(Unread) /\ ToSet(stdin) \subseteq ToSet(Unread)
    BY <1>2
  <2>2. aLine.n \in Nat \ {0} /\ \A line \in ToSet(ToServer) \cup ToSet(stdin) : line.n \in Nat \ {0}
    BY <1>1, <1>3, <1>4, <2>1
  <2>3. \A line \in ToSet(ToServer) : Before(line, aLine)
    BY <1>3, <2>1
  <2> QED
    BY <1>5, <2>2, <2>3 DEF Before
<1> QED
  BY <1>1, <1>2, <1>3, <1>4, <1>5, <1>6, <1>7

\* B's line has not been handled, and those behind it are later ones.
LEMMA InHandOfB ==
  ASSUME IInv, bPc = "handling"
  PROVE  /\ bLine \in UpstreamLineType /\ Fresh(bLine)
         /\ bLine \in ToSet(ToClient)
         /\ ToSet(Unhandled) = {bLine} \cup ToSet(upstreamOut)
         /\ \A line \in ToSet(upstreamOut) : Fresh(line) /\ line.n > bLine.n /\ line \in ToSet(ToClient)
<1> DEFINE early == delivered \o out
<1>1. /\ bLine \in UpstreamLineType /\ InB = <<bLine>> /\ Unhandled = <<bLine>> \o upstreamOut
      /\ upstreamOut \in Seq(UpstreamLineType) /\ early \in Seq(UpstreamLineType)
  BY Holding DEF IInv, Types, Unhandled
<1>2. ToClient = (early \o <<bLine>>) \o upstreamOut
  BY <1>1 DEF ToClient
<1> HIDE DEF early
<1>3. ToSet(Unhandled) = {bLine} \cup ToSet(upstreamOut)
  BY <1>1, LineBetween
<1>4. ToSet(ToClient) = (ToSet(early) \cup {bLine}) \cup ToSet(upstreamOut)
  BY <1>1, <1>2, LineBetween
<1>5. \A line \in ToSet(upstreamOut) : Before(bLine, line)
  <2>1. Sorted((early \o <<bLine>>) \o upstreamOut)
    BY <1>2 DEF IInv, ToClientOK
  <2>2. \A y \in ToSet(early) \cup {bLine}, z \in ToSet(upstreamOut) : Before(y, z)
    BY <1>1, <2>1, LineBetween
  <2> QED
    BY <2>2
<1>6. Fresh(bLine) /\ \A line \in ToSet(upstreamOut) : Fresh(line)
  BY <1>3 DEF IInv, FormsOK
<1>7. \A line \in ToSet(upstreamOut) : line.n > bLine.n
  BY <1>1, <1>5, <1>6 DEF Before, Fresh, UpstreamLineType, ToSet
<1> QED
  BY <1>1, <1>3, <1>4, <1>6, <1>7

-----------------------------------------------------------------------------
(* The invariant is kept: the client *)

LEMMA ClientLinesOK ==
  ASSUME Types, NEW line \in ClientLines
  PROVE  line \in ClientLineType /\ ClientLineOK(line) /\ line.n = Len(sent) + 1
<1>1. Len(sent) + 1 \in Nat
  BY DEF Types
<1> QED
  BY <1>1, MethodsAssumption, OtherKindsAssumption
  DEF ClientLines, ClientLine, ClientLineType, ClientLineOK, IsRequest, Kinds, MethodNames, Refs

LEMMA ClientSendsKeeps ==
  ASSUME IInv, ClientSends
  PROVE  IInv'
<1>1. PICK line \in ClientLines : stdin' = Append(stdin, line) /\ sent' = Append(sent, line)
  BY DEF ClientSends
<1>2. line \in ClientLineType /\ ClientLineOK(line) /\ line.n = Len(sent) + 1
  BY <1>1, ClientLinesOK DEF IInv
<1>3. /\ UNCHANGED <<stdinClosed, aPc, aLine, upstreamIn, upstreamOut, alive, owed, pending, bPc, bLine>>
      /\ UNCHANGED <<out, outClosed, returned, held, issued, ret, recorded, said, seen, delivered>>
  BY DEF ClientSends, aVars, pipes, upVars, bVars, sink, cacheVars
<1>4. {stdin, sent} \subseteq Seq(ClientLineType) /\ Len(stdin) < PipeCap /\ ~ stdinClosed
  BY DEF IInv, Types, ClientSends
<1>5. /\ DOMAIN sent = 1 .. Len(sent) /\ DOMAIN sent' = 1 .. (Len(sent) + 1) /\ Len(sent) \in Nat
      /\ sent'[Len(sent) + 1] = line /\ \A k \in DOMAIN sent : sent'[k] = sent[k]
  BY <1>1, <1>2, <1>4
<1>6. DownSame
  BY <1>3, DownFrame DEF bVars
<1>7. FromClient' = Append(FromClient, line) /\ Unread' = Append(Unread, line) /\ ToServer' = ToServer
  BY <1>1, <1>2, <1>3, ClientSendsFlow DEF IInv, aVars
<1>8. /\ ToSet(FromClient') = ToSet(FromClient) \cup {line} /\ ToSet(Unread') = ToSet(Unread) \cup {line}
      /\ FromClient \in Seq(ClientLineType)
  BY <1>2, <1>7, FromClientParts, ToSetAppend DEF IInv
<1>9. Types'
  <2>1. {stdin', sent'} \subseteq Seq(ClientLineType)
    BY <1>1, <1>2, <1>4
  <2>2. InA' = InA /\ InB' = InB
    BY <1>3 DEF InA, InB
  <2> QED
    BY <1>3, <2>1, <2>2 DEF IInv, Types, Store!StoreTypeOK
<1>10. Capacities'
  <2>1. Len(stdin') = Len(stdin) + 1 /\ Len(sent') = Len(sent) + 1 /\ Len(stdin) \in Nat /\ Len(sent) \in Nat
    BY <1>1, <1>2, <1>4
  <2>2. Len(stdin') <= PipeCap /\ Len(sent') <= MaxSent
    BY <1>4, <2>1, BoundsAssumption DEF ClientSends
  <2> QED
    BY <1>3, <2>2 DEF IInv, Capacities
<1>11. SentOK'
  BY <1>2, <1>5 DEF IInv, SentOK
<1>12. FromClientOK'
  <2>1. \A l \in ToSet(FromClient') : l.n \in DOMAIN sent' /\ l = sent'[l.n]
    BY <1>2, <1>5, <1>8 DEF IInv, FromClientOK
  <2>2. Sorted(FromClient')
    <3>1. \A l \in ToSet(FromClient) : Before(l, line)
      BY <1>2, <1>5 DEF IInv, FromClientOK, Before
    <3> QED
      BY <1>2, <1>7, <1>8, <3>1, SortedAppend DEF IInv, FromClientOK
  <2>3. ASSUME alive', NEW k \in DOMAIN sent', sent'[k].method # "seek_result"
        PROVE  sent'[k] \in ToSet(FromClient')
    BY <1>3, <1>5, <1>8, <2>3 DEF IInv, FromClientOK
  <2> QED
    BY <1>7, <2>1, <2>2, <2>3 DEF IInv, FromClientOK
<1>13. UpstreamAnswersOK'
  BY <1>3, <1>5, <1>6 DEF IInv, UpstreamAnswersOK, DownSame
<1>14. RepliesOK'
  <2>1. ASSUME NEW r \in ToSet(ToClient), r.n = 0
        PROVE  /\ IsResponse(r) /\ r.id \in DOMAIN sent' /\ sent'[r.id].method = "seek_result"
               /\ \A l \in ToSet(Unread') : r.id < l.n
    BY <1>2, <1>5, <1>8, <2>1 DEF IInv, RepliesOK
  <2>2. ASSUME NEW k \in DOMAIN sent', sent'[k].method = "seek_result"
        PROVE  sent'[k] \in ToSet(Unread') \/ \E r \in ToSet(ToClient) : r.n = 0 /\ r.id = k
    BY <1>5, <1>8, <2>2 DEF IInv, RepliesOK
  <2> QED
    BY <1>6, <2>1, <2>2 DEF RepliesOK, DownSame
<1>15. PendingOK'
  <2>1. Leaving' = Leaving
    BY <1>3 DEF Leaving
  <2>2. Requested' = Requested /\ Answering' = Answering
    BY <1>3, <1>6, <2>1 DEF DownSame, Requested, Answering
  <2>3. DOMAIN sent \subseteq DOMAIN sent'
    BY <1>5
  <2> QED
    BY <1>3, <2>2, <2>3 DEF IInv, PendingOK
<1>16. InAOK' /\ ToClientOK' /\ FormsOK' /\ Backed' /\ RecordedOK'
  BY <1>3, <1>6, Frames DEF IInv, aVars, bVars
<1>17. Closing'
  BY <1>3, <1>4 DEF IInv, Closing
<1> QED
  BY <1>9, <1>10, <1>11, <1>12, <1>13, <1>14, <1>15, <1>16, <1>17 DEF IInv

LEMMA ClientClosesKeeps ==
  ASSUME IInv, ClientCloses
  PROVE  IInv'
<1>1. /\ UNCHANGED <<stdin, aPc, aLine, upstreamIn, upstreamOut, alive, owed, pending, bPc, bLine, sent>>
      /\ UNCHANGED <<out, outClosed, returned, held, issued, ret, recorded, said, seen, delivered>>
      /\ stdinClosed' = TRUE
  BY DEF ClientCloses, aVars, pipes, upVars, bVars, sink, cacheVars
<1>2. DownSame /\ UpSame
  BY <1>1, DownFrame, UpFrame DEF aVars, bVars
<1>3. Types'
  <2>1. InA' = InA /\ InB' = InB
    BY <1>1 DEF InA, InB
  <2> QED
    BY <1>1, <2>1 DEF IInv, Types, Store!StoreTypeOK
<1>4. Capacities' /\ Closing'
  BY <1>1 DEF IInv, Capacities, Closing
<1> QED
  BY <1>1, <1>2, <1>3, <1>4, Frames DEF IInv, aVars, bVars

-----------------------------------------------------------------------------
(* The invariant is kept: goroutine A *)

LEMMA AReadsKeeps ==
  ASSUME IInv, AReads
  PROVE  IInv'
<1>1. /\ UNCHANGED <<stdinClosed, upstreamIn, upstreamOut, alive, owed, pending, bPc, bLine, sent>>
      /\ UNCHANGED <<out, outClosed, returned, held, issued, ret, recorded, said, seen, delivered>>
      /\ aPc = "reading" /\ aPc' = Route(aLine') /\ aLine' = Head(stdin) /\ stdin' = Tail(stdin) /\ stdin # <<>>
  BY DEF AReads, pipes, upVars, bVars, sink, cacheVars
<1>2. DownSame /\ UpSame
  BY <1>1, DownFrame, AReadsFlow DEF IInv, bVars
<1>3. stdin \in Seq(ClientLineType) /\ aLine' \in ClientLineType /\ aLine' \in ToSet(stdin)
  BY <1>1 DEF IInv, Types, ToSet
<1>4. ClientLineOK(aLine')
  <2>1. aLine' \in ToSet(FromClient)
    BY <1>3, FromClientParts DEF IInv
  <2> QED
    BY <2>1 DEF IInv, FromClientOK, SentOK
<1>5. \/ aPc' = "forwarding" /\ ~ IsRequest(aLine') /\ aLine'.method # "seek_result"
      \/ aPc' = "looking_up" /\ aLine'.method = "seek_result"
      \/ aPc' = "registering" /\ IsRequest(aLine') /\ aLine'.method # "seek_result"
  <2>1. PICK l : l = aLine'
    OBVIOUS
  <2> QED
    BY <1>1, <1>4, <2>1, RouteCases DEF ClientLineOK
<1>6. Types'
  <2>1. stdin' \in Seq(ClientLineType)
    BY <1>1, <1>3
  <2>2. InA' \in Seq(ClientLineType) /\ InB' = InB
    BY <1>1, <1>3, <1>5 DEF InA, InB
  <2> QED
    BY <1>1, <1>5, <2>1, <2>2 DEF IInv, Types, Store!StoreTypeOK
<1>7. Capacities'
  BY <1>1, <1>3, Moves, BoundsAssumption DEF IInv, Capacities
<1>8. InAOK'
  BY <1>5 DEF InAOK
<1>9. PendingOK'
  <2>1. Requested' = Requested /\ Answering' = Answering
    BY <1>1, <1>2, <1>5 DEF DownSame, Requested, Answering, Leaving
  <2> QED
    BY <1>1, <2>1 DEF IInv, PendingOK
<1>10. Closing'
  BY <1>1, <1>5 DEF IInv, Closing
<1> QED
  BY <1>1, <1>2, <1>5, <1>6, <1>7, <1>8, <1>9, <1>10, Frames DEF IInv, bVars

LEMMA AEndsKeeps ==
  ASSUME IInv, AEnds
  PROVE  IInv'
<1>1. /\ UNCHANGED <<stdin, stdinClosed, aLine, upstreamIn, upstreamOut, alive, owed, pending, bPc, bLine, sent>>
      /\ UNCHANGED <<out, outClosed, returned, held, issued, ret, recorded, said, seen, delivered>>
      /\ aPc = "reading" /\ aPc' = "done" /\ stdin = <<>> /\ stdinClosed
  BY DEF AEnds, clientVars, pipes, upVars, bVars, sink, cacheVars
<1>2. DownSame /\ InA' = InA /\ InB' = InB
  BY <1>1, DownFrame DEF bVars, InA, InB
<1>3. UpSame
  BY <1>1, <1>2 DEF UpSame, FromClient, ToServer, Unread
<1>4. Types'
  BY <1>1, <1>2 DEF IInv, Types, Store!StoreTypeOK
<1>5. Capacities' /\ Closing' /\ InAOK'
  BY <1>1 DEF IInv, Capacities, Closing, InAOK
<1>6. PendingOK'
  <2>1. Requested' = Requested /\ Answering' = Answering
    BY <1>1, <1>2 DEF DownSame, Requested, Answering, Leaving
  <2> QED
    BY <1>1, <2>1 DEF IInv, PendingOK
<1> QED
  BY <1>1, <1>2, <1>3, <1>4, <1>5, <1>6, Frames DEF IInv, bVars

\* What goes upstream has a method that pending can hold.
LEMMA MethodType ==
  ASSUME NEW line, line.method \in Methods \ {"seek_result"}
  PROVE  Method(line) \in Registrable /\ Method(line) \in MethodNames
  BY MethodsAssumption DEF Method, Registrable, MethodNames

\* The new entry of pending is under a number that none of the requests on their
\* way, and no answer on its way, has.
LEMMA ARegistersKeeps ==
  ASSUME IInv, ARegisters
  PROVE  IInv'
<1>1. /\ UNCHANGED <<stdin, stdinClosed, aLine, upstreamIn, upstreamOut, alive, owed, bPc, bLine, sent>>
      /\ UNCHANGED <<out, outClosed, returned, held, issued, ret, recorded, said, seen, delivered>>
      /\ aPc = "registering" /\ aPc' = "forwarding" /\ pending' = Registered(aLine)
  BY DEF ARegisters, clientVars, pipes, upVars, bVars, sink, cacheVars
<1>2. DownSame /\ InA' = InA /\ InB' = InB
  BY <1>1, DownFrame DEF bVars, InA, InB
<1>3. UpSame
  BY <1>1, <1>2 DEF UpSame, FromClient, ToServer, Unread
<1>4. /\ aLine \in ClientLineType /\ aLine.n \in DOMAIN sent /\ IsRequest(aLine)
      /\ aLine.method \in Methods \ {"seek_result"}
      /\ \A line \in ToSet(ToServer) : line.n < aLine.n
  BY <1>1, InHandOfA DEF IInv, InAOK, ClientLineOK, ClientLineType
<1>9. Method(aLine) \in Registrable /\ Method(aLine) \in MethodNames
  BY <1>4, MethodType
<1>5. /\ DOMAIN pending' = DOMAIN pending \cup {aLine.n} /\ pending'[aLine.n] = Method(aLine)
      /\ \A id \in DOMAIN pending : id # aLine.n => pending'[id] = pending[id]
  BY <1>1 DEF Registered
<1>6. Types'
  <2>1. pending' \in [DOMAIN pending' -> MethodNames]
    BY <1>1, <1>4, <1>9 DEF IInv, Types, Registered
  <2> QED
    BY <1>1, <1>2, <2>1 DEF IInv, Types, Store!StoreTypeOK
<1>7. PendingOK'
  <2>1. Requested' = Requested \cup {aLine} /\ Answering' = Answering
    BY <1>1, <1>2, <1>4 DEF DownSame, Requested, Answering, Leaving
  <2>2. ASSUME NEW r \in Requested PROVE r.n \in DOMAIN pending /\ pending[r.n] = Method(r) /\ r.n # aLine.n
    <3>1. r \in ToSet(ToServer)
      BY <1>1, FromClientParts DEF IInv, Requested, Leaving, UpstreamAnswersOK
    <3>2. r \in ClientLineType
      <4>1. ToServer \in Seq(ClientLineType)
        BY FromClientParts DEF IInv
      <4> QED
        BY <3>1, <4>1 DEF ToSet
    <3>3. r.n < aLine.n /\ r.n \in Nat /\ aLine.n \in Nat
      BY <1>4, <3>1, <3>2 DEF ClientLineType
    <3> QED
      BY <3>3 DEF IInv, PendingOK
  <2>3. ASSUME NEW r \in Answering PROVE r.id \in DOMAIN pending /\ pending[r.id] = r.re /\ r.id # aLine.n
    <3>1. r \in ToSet(ToClient) /\ r.n > 0 /\ IsResponse(r)
      BY ToClientParts DEF IInv, Answering, FormsOK, Fresh
    <3>2. r.id \in DOMAIN sent /\ sent[r.id] \in ToSet(seen) /\ sent[r.id].n = r.id
      BY <3>1 DEF IInv, UpstreamAnswersOK, SentOK
    <3>3. r.id < aLine.n
      BY <1>4, <3>2, FromClientParts DEF IInv
    <3>4. r.id \in Nat /\ aLine.n \in Nat
      BY <1>4, <3>2, SMTT(20) DEF IInv, Types, ClientLineType
    <3> QED
      BY <3>3, <3>4 DEF IInv, PendingOK
  <2>4. alive => DOMAIN pending' = { r.n : r \in Requested' } \cup { r.id : r \in Answering' }
    BY <1>5, <2>1 DEF IInv, PendingOK
  <2>5. /\ \A r \in Requested' : r.n \in DOMAIN pending' /\ pending'[r.n] = Method(r)
        /\ \A r \in Answering' : r.id \in DOMAIN pending' /\ pending'[r.id] = r.re
    BY <1>5, <2>1, <2>2, <2>3
  <2>6. /\ DOMAIN pending' \subseteq DOMAIN sent
        /\ \A id \in DOMAIN pending' : pending'[id] \in Registrable
    BY <1>4, <1>5, <1>9 DEF IInv, PendingOK
  <2> QED
    BY <1>1, <2>4, <2>5, <2>6 DEF PendingOK
<1>8. Capacities' /\ Closing' /\ InAOK'
  BY <1>1 DEF IInv, Capacities, Closing, InAOK
<1> QED
  BY <1>1, <1>2, <1>3, <1>6, <1>7, <1>8, Frames DEF IInv, bVars

LEMMA AForwardsKeeps ==
  ASSUME IInv, AForwards
  PROVE  IInv'
<1>1. /\ UNCHANGED <<stdin, stdinClosed, upstreamOut, alive, owed, pending, bPc, bLine, sent>>
      /\ UNCHANGED <<out, outClosed, returned, held, issued, ret, recorded, said, seen, delivered>>
      /\ aPc = "forwarding" /\ aPc' = "reading"
      /\ \/ ~ alive /\ upstreamIn' = upstreamIn
         \/ alive /\ Len(upstreamIn) < PipeCap /\ upstreamIn' = Append(upstreamIn, aLine)
  BY DEF AForwards, clientVars, upVars, bVars, sink, cacheVars
<1>2. DownSame /\ InA' = <<>> /\ InB' = InB
  BY <1>1, DownFrame DEF bVars, InA, InB
<1>3. /\ aLine \in ClientLineType /\ aLine.method # "seek_result" /\ ToSet(Unread) = {aLine} \cup ToSet(stdin)
      /\ stdin \in Seq(ClientLineType) /\ Sorted(stdin)
  BY <1>1, InHandOfA DEF IInv, InAOK
<1>4. /\ Unread' = stdin
      /\ \/ FromClient' = FromClient /\ ToServer' = Append(ToServer, aLine)
         \/ ~ alive /\ ToServer' = ToServer /\ FromClient' = ToServer \o stdin
  BY AForwardsFlow DEF IInv
<1>5. ToServer \in Seq(ClientLineType) /\ upstreamIn \in Seq(ClientLineType)
  BY FromClientParts DEF IInv, Types
<1>6. Types'
  <2>1. upstreamIn' \in Seq(ClientLineType)
    <3>1. Append(upstreamIn, aLine) \in Seq(ClientLineType)
      BY <1>3, <1>5
    <3> QED
      BY <1>1, <1>5, <3>1
  <2> QED
    BY <1>1, <1>2, <2>1 DEF IInv, Types, Store!StoreTypeOK
<1>7. Capacities' /\ Closing' /\ InAOK'
  BY <1>1, <1>3, <1>5, BoundsAssumption DEF IInv, Capacities, Closing, InAOK
<1>8. FromClientOK'
  <2>1. CASE FromClient' = FromClient /\ ToServer' = Append(ToServer, aLine)
    <3>1. ToSet(ToServer') = ToSet(ToServer) \cup {aLine}
      BY <1>3, <1>5, <2>1, ToSetAppend
    <3> QED
      BY <1>1, <1>3, <2>1, <3>1 DEF IInv, FromClientOK
  <2>2. CASE ~ alive /\ ToServer' = ToServer /\ FromClient' = ToServer \o stdin
    <3>1. /\ ToSet(FromClient) = ToSet(ToServer) \cup ToSet(Unread)
          /\ Sorted(ToServer) /\ \A x \in ToSet(ToServer), y \in ToSet(Unread) : Before(x, y)
      BY FromClientParts DEF IInv, FromClientOK
    <3>2. ToSet(ToServer \o stdin) = ToSet(ToServer) \cup ToSet(stdin)
      BY <1>3, <1>5, ToSetConcat
    <3>3. Sorted(ToServer \o stdin)
      BY <1>3, <1>5, <3>1, SortedConcat
    <3> QED
      BY <1>1, <1>3, <2>2, <3>1, <3>2, <3>3 DEF IInv, FromClientOK
  <2> QED
    BY <1>4, <2>1, <2>2
<1>9. RepliesOK'
  BY <1>1, <1>2, <1>3, <1>4 DEF IInv, RepliesOK, DownSame
<1>10. PendingOK'
  <2>1. Answering' = Answering
    BY <1>2 DEF DownSame, Answering
  <2>2. CASE ~ alive /\ upstreamIn' = upstreamIn
    <3>1. Requested' \subseteq Requested
      BY <1>1, <2>2 DEF Requested, Leaving
    <3> QED
      BY <1>1, <2>1, <2>2, <3>1 DEF IInv, PendingOK
  <2>3. CASE alive /\ upstreamIn' = Append(upstreamIn, aLine)
    <3>1. ToSet(upstreamIn') = ToSet(upstreamIn) \cup {aLine}
      BY <1>3, <1>5, <2>3, ToSetAppend
    <3>2. Requested' = Requested
      BY <1>1, <3>1 DEF Requested, Leaving
    <3> QED
      BY <1>1, <2>1, <3>2 DEF IInv, PendingOK
  <2> QED
    BY <1>1, <2>2, <2>3
<1> QED
  BY <1>1, <1>2, <1>6, <1>7, <1>8, <1>9, <1>10, Frames DEF IInv, bVars

\* What a lookup that hits answers stands behind a stub.
LEMMA ALooksUpKeeps ==
  ASSUME IInv, ALooksUp
  PROVE  IInv'
<1>1. /\ UNCHANGED <<stdin, stdinClosed, aLine, upstreamIn, upstreamOut, alive, owed, pending, bPc, bLine, sent>>
      /\ UNCHANGED <<out, outClosed, returned, said, seen, delivered>>
      /\ aPc = "looking_up" /\ held' = held /\ issued' = issued
      /\ ret' = [ret EXCEPT !["A"] = Store!Answer(aLine.ref)]
  BY DEF ALooksUp, clientVars, pipes, upVars, bVars, sink, Store!Lookup
<1>2. \/ aPc' = "error" /\ recorded' = [recorded EXCEPT !.seeks = @ + 0]
      \/ aPc' = "text" /\ recorded' = [recorded EXCEPT !.seeks = @ + 1] /\ aLine.ref \in DOMAIN held
  BY DEF ALooksUp, Outcomes
<1>3. DownSame /\ InA' = InA /\ InB' = InB
  BY <1>1, <1>2, DownFrame DEF bVars, InA, InB
<1>4. UpSame
  BY <1>1, <1>3 DEF UpSame, FromClient, ToServer, Unread
<1>5. aLine.method = "seek_result" /\ aLine.ref \in CacheIds
  BY <1>1, InHandOfA DEF IInv, InAOK, ClientLineOK
<1>6. recorded \in [results : Nat, seeks : Nat] /\ ret \in [{"A"} -> [id : CacheIds, content : Contents \cup {NoContent}] \cup {Store!NoAnswer}]
      /\ held \in [DOMAIN held -> Contents]
  BY DEF IInv, Types, Store!StoreTypeOK
<1>7. /\ ret' \in [{"A"} -> [id : CacheIds, content : Contents \cup {NoContent}] \cup {Store!NoAnswer}]
      /\ ret'["A"] = Store!Answer(aLine.ref)
  <2>1. Store!Answer(aLine.ref) \in [id : CacheIds, content : Contents \cup {NoContent}]
    BY <1>5, <1>6 DEF Store!Answer
  <2> QED
    BY <1>1, <1>6, <2>1
<1>8. Types'
  <2>1. recorded' \in [results : Nat, seeks : Nat]
    BY <1>2, <1>6
  <2>2. Store!StoreTypeOK'
    BY <1>1, <1>7 DEF IInv, Types, Store!StoreTypeOK
  <2> QED
    BY <1>1, <1>2, <1>3, <2>1, <2>2 DEF IInv, Types
<1>9. Capacities' /\ Closing' /\ InAOK'
  BY <1>1, <1>2, <1>5 DEF IInv, Capacities, Closing, InAOK
<1>10. Backed'
  <2>1. aPc' = "text" => StubOf(aLine.ref, ret'["A"].content)
    BY <1>2, <1>7 DEF IInv, Backed, Store!Answer
  <2> QED
    BY <1>1, <1>3, <2>1 DEF IInv, Backed, DownSame, StubOf, StubIn
<1>11. PendingOK'
  <2>1. Requested' = Requested /\ Answering' = Answering
    BY <1>1, <1>2, <1>3 DEF DownSame, Requested, Answering, Leaving
  <2> QED
    BY <1>1, <2>1 DEF IInv, PendingOK
<1>12. RecordedOK'
  <2>1. OfForm(ToClient, "text") \in Nat
    BY ToClientParts, OfFormConcat DEF IInv
  <2>2. recorded.seeks = OfForm(ToClient, "text") /\ recorded.results = OfForm(ToClient, "stub")
    BY <1>1, <2>1 DEF IInv, RecordedOK
  <2>3. recorded'.results = recorded.results /\ recorded'.seeks = recorded.seeks + (IF aPc' = "text" THEN 1 ELSE 0)
    BY <1>2, <1>6
  <2> QED
    BY <1>3, <2>2, <2>3 DEF RecordedOK, DownSame
<1> QED
  BY <1>1, <1>3, <1>4, <1>8, <1>9, <1>10, <1>11, <1>12, Frames DEF IInv, bVars

\* The reply that A has ready is the first answer to its call.
LEMMA ReplyIs ==
  ASSUME IInv, aPc \in {"text", "error"}
  PROVE  /\ Reply \in UpstreamLineType /\ Reply.n = 0 /\ Reply.id = aLine.n /\ IsResponse(Reply)
         /\ Reply.form = aPc /\ Reply.ref = aLine.ref /\ Reply.content = ret["A"].content
         /\ Reply.re = "seek_result" /\ aLine.n \in DOMAIN sent /\ aLine = sent[aLine.n]
         /\ aLine.method = "seek_result"
         /\ \A q \in ToSet(ToClient) : IsResponse(q) => q.id # Reply.id
<1>1. /\ aLine \in ClientLineType /\ aLine.n \in DOMAIN sent /\ aLine = sent[aLine.n] /\ aLine.method = "seek_result"
      /\ aLine \in ToSet(Unread)
  BY InHandOfA DEF IInv, InAOK
<1>2. ret["A"].content \in Contents \cup {NoContent}
  BY DEF IInv, Types, Store!StoreTypeOK, Store!NoAnswer
<1>3. /\ Reply \in UpstreamLineType /\ Reply.n = 0 /\ Reply.id = aLine.n /\ IsResponse(Reply)
      /\ Reply.form = aPc /\ Reply.ref = aLine.ref /\ Reply.content = ret["A"].content
      /\ Reply.re = "seek_result"
  BY <1>1, <1>2 DEF Reply, UpstreamLineType, ClientLineType, Kinds, Forms, MethodNames, IsResponse
<1>4. ASSUME NEW q \in ToSet(ToClient), IsResponse(q), q.id = aLine.n PROVE FALSE
  <2>1. q.n \in Nat /\ aLine.n \in Nat
    <3>1. ToClient \in Seq(UpstreamLineType)
      BY ToClientParts DEF IInv
    <3>2. q \in UpstreamLineType
      BY <1>4, <3>1 DEF ToSet
    <3> QED
      BY <1>1, <3>2 DEF UpstreamLineType, ClientLineType
  <2>2. CASE q.n = 0
    BY <1>1, <1>4, <2>1, <2>2 DEF IInv, RepliesOK
  <2>3. CASE q.n > 0
    <3>1. sent[q.id] \in ToSet(seen)
      BY <1>4, <2>3 DEF IInv, UpstreamAnswersOK
    <3> QED
      BY <1>1, <1>4, <3>1, FromClientParts DEF IInv, FromClientOK
  <2> QED
    BY <2>1, <2>2, <2>3
<1> QED
  BY <1>1, <1>3, <1>4

LEMMA ARepliesKeeps ==
  ASSUME IInv, AReplies
  PROVE  IInv'
<1>1. /\ UNCHANGED <<stdin, stdinClosed, upstreamIn, upstreamOut, alive, owed, pending, bPc, bLine, sent>>
      /\ UNCHANGED <<outClosed, returned, held, issued, ret, recorded, said, seen, delivered>>
      /\ aPc \in {"text", "error"} /\ aPc' = "reading"
      /\ Len(out) < OutCap /\ out' = Append(out, Reply)
  BY DEF AReplies, clientVars, pipes, upVars, bVars, cacheVars, Sends
<1>2. /\ aLine \in ClientLineType /\ aLine.n \in DOMAIN sent /\ aLine = sent[aLine.n] /\ aLine.method = "seek_result"
      /\ ToSet(Unread) = {aLine} \cup ToSet(stdin)
      /\ \A line \in ToSet(stdin) : line.n > aLine.n
      /\ stdin \in Seq(ClientLineType) /\ Sorted(stdin)
  BY <1>1, InHandOfA DEF IInv, InAOK
<1>3. /\ Reply \in UpstreamLineType /\ Reply.n = 0 /\ Reply.id = aLine.n /\ IsResponse(Reply)
      /\ Reply.form = aPc /\ Reply.ref = aLine.ref /\ Reply.content = ret["A"].content
  BY <1>1, ReplyIs
<1>4. Reply \in UpstreamLineType
  BY <1>3
<1>5. InA' = <<>> /\ InB' = InB
  BY <1>1 DEF InA, InB
<1>6. Unread' = stdin /\ ToServer' = ToServer /\ FromClient' = ToServer \o stdin
  BY ARepliesFlow DEF IInv
<1>7. /\ ToSet(ToClient') = ToSet(ToClient) \cup {Reply}
      /\ ToSet(Processed') = ToSet(Processed) \cup {Reply}
      /\ Unhandled' = Unhandled
      /\ Sorted(ToClient) /\ (\A r \in ToSet(ToClient) : r.n = 0 => r.id < Reply.id)
              => Sorted(ToClient')
      /\ \A f : OfForm(ToClient', f) = OfForm(ToClient, f) + One(Reply, f)
  BY <1>3, <1>4, ARepliesDownFlow DEF IInv
<1>8. Types'
  <2>1. out' \in Seq(UpstreamLineType)
    BY <1>1, <1>3, <1>4 DEF IInv, Types
  <2> QED
    BY <1>1, <1>5, <2>1 DEF IInv, Types, Store!StoreTypeOK
<1>9. Capacities' /\ Closing' /\ InAOK'
  <2>1. Len(out') <= OutCap
    BY <1>1, <1>3, <1>4, BoundsAssumption DEF IInv, Types
  <2> QED
    BY <1>1, <2>1 DEF IInv, Capacities, Closing, InAOK
<1>10. FromClientOK'
  <2>1. /\ ToServer \in Seq(ClientLineType) /\ ToSet(FromClient) = ToSet(ToServer) \cup ToSet(Unread)
        /\ Sorted(ToServer) /\ \A x \in ToSet(ToServer), y \in ToSet(Unread) : Before(x, y)
    BY FromClientParts DEF IInv, FromClientOK
  <2>2. ToSet(ToServer \o stdin) = ToSet(ToServer) \cup ToSet(stdin)
    BY <1>2, <2>1, ToSetConcat
  <2>3. Sorted(ToServer \o stdin)
    BY <1>2, <2>1, SortedConcat
  <2> QED
    BY <1>1, <1>2, <1>6, <2>1, <2>2, <2>3 DEF IInv, FromClientOK
<1>11. ToClientOK'
  <2>1. Sorted(ToClient')
    BY <1>2, <1>3, <1>4, <1>7 DEF IInv, ToClientOK, RepliesOK
  <2>2. { line.n : line \in ToSet(ToClient') } \ {0} = { line.n : line \in ToSet(ToClient) } \ {0}
    BY <1>3, <1>4, <1>7
  <2> QED
    BY <1>1, <2>1, <2>2 DEF IInv, ToClientOK
<1>12. UpstreamAnswersOK'
  <2>1. \A r \in ToSet(ToClient') : r.n > 0 => r \in ToSet(ToClient)
    BY <1>3, <1>4, <1>7
  <2>2. ToSet(ToClient) \subseteq ToSet(ToClient')
    BY <1>7
  <2> QED
    BY <1>1, <2>1, <2>2 DEF IInv, UpstreamAnswersOK
<1>13. RepliesOK'
  <2>1. ASSUME NEW r \in ToSet(ToClient'), r.n = 0
        PROVE  /\ IsResponse(r) /\ r.id \in DOMAIN sent /\ sent[r.id].method = "seek_result"
               /\ \A line \in ToSet(stdin) : r.id < line.n
    BY <1>2, <1>3, <1>4, <1>7, <2>1 DEF IInv, RepliesOK
  <2>2. ASSUME NEW k \in DOMAIN sent, sent[k].method = "seek_result"
        PROVE  sent[k] \in ToSet(stdin) \/ \E r \in ToSet(ToClient') : r.n = 0 /\ r.id = k
    <3>1. CASE sent[k] = aLine
      BY <1>3, <1>4, <1>7, <3>1 DEF IInv, SentOK
    <3>2. CASE sent[k] # aLine
      BY <1>2, <1>7, <2>2, <3>2 DEF IInv, RepliesOK
    <3> QED
      BY <3>1, <3>2
  <2> QED
    BY <1>1, <1>6, <2>1, <2>2 DEF RepliesOK
<1>14. FormsOK'
  <2>1. Treated(Reply)
    BY <1>1, <1>3, <1>4 DEF Treated
  <2> QED
    BY <1>1, <1>7, <2>1 DEF IInv, FormsOK
<1>15. Backed'
  <2>1. \A id, c : StubOf(id, c) => StubOf(id, c)'
    BY <1>7 DEF StubOf, StubIn
  <2>2. \A id \in DOMAIN held : StubOf(id, held[id])
    BY DEF IInv, Backed
  <2>3. \A t \in ToSet(Processed') : t.form = "text" => StubOf(t.ref, t.content)
    BY <1>1, <1>3, <1>4, <1>7 DEF IInv, Backed
  <2>4. /\ \A s \in ToSet(Processed') : s.form = "stub" => s.ref \in issued
        /\ \A s, t \in ToSet(Processed') :
             s.form = "stub" /\ t.form = "stub" /\ s.ref = t.ref => s.n = t.n
    BY <1>1, <1>3, <1>4, <1>7 DEF IInv, Backed
  <2> QED
    BY <1>1, <2>1, <2>2, <2>3, <2>4 DEF Backed
<1>16. PendingOK'
  <2>1. Requested' = Requested /\ Answering' = Answering
    BY <1>1, <1>7 DEF Requested, Answering, Leaving
  <2> QED
    BY <1>1, <2>1 DEF IInv, PendingOK
<1>17. RecordedOK'
  <2>1. /\ OfForm(ToClient', "stub") = OfForm(ToClient, "stub") + One(Reply, "stub")
        /\ OfForm(ToClient', "text") = OfForm(ToClient, "text") + One(Reply, "text")
        /\ OfForm(ToClient, "stub") \in Nat /\ OfForm(ToClient, "text") \in Nat
    BY <1>7, ToClientParts, OfFormConcat DEF IInv
  <2>2. One(Reply, "stub") = 0 /\ One(Reply, "text") = IF aPc = "text" THEN 1 ELSE 0
    BY <1>1, <1>3, <1>4 DEF One
  <2> QED
    BY <1>1, <2>1, <2>2 DEF IInv, RecordedOK
<1> QED
  BY <1>1, <1>8, <1>9, <1>10, <1>11, <1>12, <1>13, <1>14, <1>15, <1>16, <1>17, Frames DEF IInv

-----------------------------------------------------------------------------
(* The invariant is kept: the upstream *)

\* What the upstream has not read is not what it has read.
LEMMA HeadIsNew ==
  ASSUME IInv, upstreamIn # <<>>
  PROVE  /\ Head(upstreamIn) \notin ToSet(seen) /\ Head(upstreamIn) \in ClientLineType
         /\ ToSet(upstreamIn) = {Head(upstreamIn)} \cup ToSet(Tail(upstreamIn))
<1>1. seen \in Seq(ClientLineType) /\ upstreamIn \in Seq(ClientLineType)
  BY DEF IInv, Types
<1>2. PICK h : h = Head(upstreamIn)
  OBVIOUS
<1>3. ToSet(upstreamIn) = {h} \cup ToSet(Tail(upstreamIn)) /\ h \in ClientLineType
  BY <1>1, <1>2, ToSetHeadTail
<1>4. \A x \in ToSet(seen) : Before(x, h)
  <2>1. Sorted(seen \o upstreamIn)
    BY FromClientParts DEF IInv, FromClientOK, ToServer
  <2> QED
    BY <1>1, <1>3, <2>1, SortedConcat
<1>5. h \in ToSet(FromClient)
  BY <1>3, FromClientParts DEF IInv
<1>6. h.n > 0 /\ h.n \in Nat
  BY <1>5 DEF IInv, FromClientOK, Types
<1> QED
  BY <1>2, <1>3, <1>4, <1>6 DEF Before

LEMMA UpstreamReadsKeeps ==
  ASSUME IInv, UpstreamReads
  PROVE  IInv'
<1> DEFINE h == Head(upstreamIn)
<1>1. /\ UNCHANGED <<stdin, stdinClosed, sent, aPc, aLine, upstreamOut, alive, pending, bPc, bLine, said>>
      /\ UNCHANGED <<out, outClosed, returned, held, issued, ret, recorded, delivered>>
      /\ alive /\ upstreamIn # <<>> /\ upstreamIn' = Tail(upstreamIn) /\ seen' = Append(seen, h)
      /\ owed' = owed \cup { line \in {h} : IsRequest(line) }
  BY DEF UpstreamReads, clientVars, aVars, bVars, sink, cacheVars
<1>2. DownSame /\ UpSame
  BY <1>1, DownFrame, UpstreamReadsFlow DEF IInv, bVars
<1>3. /\ h \notin ToSet(seen) /\ h \in ClientLineType
      /\ ToSet(upstreamIn) = {h} \cup ToSet(upstreamIn')
  BY <1>1, HeadIsNew
<1>4. seen \in Seq(ClientLineType) /\ upstreamIn \in Seq(ClientLineType)
  BY DEF IInv, Types
<1>5. ToSet(seen') = ToSet(seen) \cup {h}
  BY <1>1, <1>3, <1>4, ToSetAppend
<1>6. seen' \in Seq(ClientLineType) /\ upstreamIn' \in Seq(ClientLineType) /\ Len(upstreamIn') <= Len(upstreamIn)
  BY <1>1, <1>3, <1>4
<1>7. InA' = InA /\ InB' = InB
  BY <1>1 DEF InA, InB
<1> HIDE DEF h
<1>8. Types'
  <2>1. owed' \subseteq ClientLineType
    BY <1>1, <1>3 DEF IInv, Types
  <2> QED
    BY <1>1, <1>6, <1>7, <2>1 DEF IInv, Types, Store!StoreTypeOK
<1>9. Capacities' /\ Closing' /\ InAOK'
  <2>1. Len(upstreamIn') <= PipeCap
    BY <1>4, <1>6, BoundsAssumption DEF IInv, Capacities
  <2> QED
    BY <1>1, <2>1 DEF IInv, Capacities, Closing, InAOK
<1>10. UpstreamAnswersOK'
  <2>1. owed' \subseteq { line \in ToSet(seen') : IsRequest(line) }
    BY <1>1, <1>5 DEF IInv, UpstreamAnswersOK
  <2>2. ASSUME NEW r \in ToSet(ToClient), r.n > 0, IsResponse(r)
        PROVE  /\ r.id \in DOMAIN sent
               /\ sent[r.id] \in ToSet(seen') \ owed'
               /\ IsRequest(sent[r.id]) /\ r.re = Method(sent[r.id])
    BY <1>1, <1>3, <1>5, <2>2 DEF IInv, UpstreamAnswersOK
  <2>3. ASSUME NEW line \in ToSet(seen'), IsRequest(line), line \notin owed'
        PROVE  \E r \in ToSet(ToClient) : r.n > 0 /\ IsResponse(r) /\ r.id = line.n
    BY <1>1, <1>5, <2>3 DEF IInv, UpstreamAnswersOK
  <2> QED
    BY <1>1, <1>2, <2>1, <2>2, <2>3 DEF IInv, UpstreamAnswersOK, DownSame
<1>11. PendingOK'
  <2>1. Requested' = Requested /\ Answering' = Answering
    BY <1>1, <1>2, <1>3 DEF DownSame, Requested, Answering, Leaving
  <2> QED
    BY <1>1, <2>1 DEF IInv, PendingOK
<1> QED
  BY <1>1, <1>2, <1>8, <1>9, <1>10, <1>11, Frames DEF IInv, bVars

\* What a line of the upstream disturbs, whatever it says.
LEMMA SaysKeeps ==
  ASSUME IInv, NEW line \in UpstreamLineType, UpstreamSays(line), Fresh(line), line.n = said + 1,
         owed' \subseteq owed,
         UNCHANGED <<clientVars, aVars, upstreamIn, alive, seen, pending, bVars, sink, cacheVars>>
  PROVE  /\ Types' /\ Capacities'
         /\ SentOK' /\ InAOK' /\ FromClientOK' /\ ToClientOK'
         /\ RepliesOK' /\ FormsOK' /\ Backed' /\ RecordedOK' /\ Closing'
         /\ ToSet(ToClient') = ToSet(ToClient) \cup {line}
         /\ Answering' = Answering \cup { l \in {line} : IsResponse(l) }
<1>1. /\ UNCHANGED <<stdin, stdinClosed, sent, aPc, aLine, upstreamIn, alive, seen, pending, bPc, bLine>>
      /\ UNCHANGED <<out, outClosed, returned, held, issued, ret, recorded, delivered>>
      /\ alive /\ Len(upstreamOut) < PipeCap /\ upstreamOut' = Append(upstreamOut, line) /\ said' = said + 1
  BY DEF UpstreamSays, clientVars, aVars, bVars, sink, cacheVars
<1>2. UpSame
  BY <1>1, UpFrame DEF aVars
<1>3. /\ ToClient' = Append(ToClient, line) /\ Unhandled' = Append(Unhandled, line)
      /\ Processed' = Processed
      /\ \A f : OfForm(ToClient', f) = OfForm(ToClient, f) + One(line, f)
  BY SaysFlow DEF IInv, sink
<1>4. /\ {ToClient, Unhandled} \subseteq Seq(UpstreamLineType)
      /\ ToSet(ToClient') = ToSet(ToClient) \cup {line} /\ ToSet(Unhandled') = ToSet(Unhandled) \cup {line}
  BY <1>3, ToClientParts, ToSetAppend DEF IInv
<1>5. upstreamOut \in Seq(UpstreamLineType) /\ upstreamOut' \in Seq(UpstreamLineType) /\ said \in Nat /\ line.n > 0
  BY <1>1 DEF IInv, Types
<1>6. InA' = InA /\ InB' = InB
  BY <1>1 DEF InA, InB
<1>7. Types'
  BY <1>1, <1>5, <1>6 DEF IInv, Types, Store!StoreTypeOK
<1>8. Capacities' /\ Closing'
  <2>1. Len(upstreamOut') <= PipeCap
    BY <1>1, <1>5, BoundsAssumption
  <2>2. bPc # "done"
    BY <1>1 DEF IInv, Closing
  <2> QED
    BY <1>1, <2>1, <2>2 DEF IInv, Capacities, Closing
<1>9. ToClientOK'
  <2>1. { l.n : l \in ToSet(ToClient') } \ {0} = 1 .. said'
    <3>1. { l.n : l \in ToSet(ToClient') } \ {0} = ({ l.n : l \in ToSet(ToClient) } \ {0}) \cup {said + 1}
      BY <1>4, <1>5
    <3>2. (1 .. said) \cup {said + 1} = 1 .. (said + 1)
      BY <1>5
    <3> QED
      BY <1>1, <3>1, <3>2 DEF IInv, ToClientOK
  <2>2. \A l \in ToSet(ToClient) : Before(l, line)
    <3>1. \A l \in ToSet(ToClient) : l.n \in Nat
      <4>1. ToClient \in Seq(UpstreamLineType)
        BY <1>4
      <4>2. \A l \in ToSet(ToClient) : l \in UpstreamLineType
        BY <4>1 DEF ToSet
      <4> QED
        BY <4>2 DEF UpstreamLineType
    <3>2. \A l \in ToSet(ToClient) : l.n > 0 => l.n \in 1 .. said
      BY <3>1 DEF IInv, ToClientOK
    <3> QED
      BY <1>5, <3>2 DEF Before
  <2>3. Sorted(ToClient')
    BY <1>3, <1>4, <2>2, SortedAppend DEF IInv, ToClientOK
  <2> QED
    BY <2>1, <2>3 DEF ToClientOK
<1>10. RepliesOK'
  <2>1. /\ \A r \in ToSet(ToClient') : r.n = 0 => r \in ToSet(ToClient)
        /\ ToSet(ToClient) \subseteq ToSet(ToClient')
    BY <1>4, <1>5
  <2> QED
    BY <1>1, <1>2, <2>1 DEF IInv, RepliesOK, UpSame
<1>11. FormsOK'
  BY <1>1, <1>3, <1>4 DEF IInv, FormsOK
<1>12. Backed'
  BY <1>1, <1>3 DEF IInv, Backed, StubOf, StubIn
<1>13. RecordedOK'
  <2>1. line.form \notin {"stub", "text"}
    <3>1. CASE ~ IsResponse(line)
      BY <3>1 DEF Fresh
    <3>2. CASE IsResponse(line)
      BY <3>2, FreshResponse
    <3> QED
      BY <3>1, <3>2
  <2>2. /\ OfForm(ToClient', "stub") = OfForm(ToClient, "stub") + One(line, "stub")
        /\ OfForm(ToClient', "text") = OfForm(ToClient, "text") + One(line, "text")
        /\ OfForm(ToClient, "stub") \in Nat /\ OfForm(ToClient, "text") \in Nat
    BY <1>3, ToClientParts, OfFormConcat DEF IInv
  <2>3. One(line, "stub") = 0 /\ One(line, "text") = 0
    BY <2>1 DEF One
  <2> QED
    BY <1>1, <2>2, <2>3 DEF IInv, RecordedOK
<1>14. Answering' = Answering \cup { l \in {line} : IsResponse(l) }
  BY <1>4 DEF Answering
<1> QED
  BY <1>1, <1>2, <1>4, <1>7, <1>8, <1>9, <1>10, <1>11, <1>12, <1>13, <1>14, Frames DEF IInv, aVars

LEMMA ResultsCases ==
  ASSUME NEW method, NEW result \in Results(method)
  PROVE  \/ method = "tools/call" /\ result[1] \in {"result", "error"} /\ result[2] \in Contents
         \/ method = "tools/list" /\ result[1] \in {"result", "malformed"} /\ result[2] = NoContent
         \/ method \notin {"tools/call", "tools/list"} /\ result[1] = "result" /\ result[2] = NoContent
<1>1. CASE method = "tools/call"
  <2>1. Results(method) = {"result", "error"} \X Contents
    BY <1>1, Zenon DEF Results
  <2> QED
    BY <1>1, <2>1
<1>2. CASE method = "tools/list"
  <2>1. Results(method) = {"result", "malformed"} \X {NoContent}
    BY <1>2, Zenon DEF Results
  <2> QED
    BY <1>2, <2>1
<1>3. CASE method \notin {"tools/call", "tools/list"}
  <2>1. Results(method) = {"result"} \X {NoContent}
    BY <1>3, Zenon DEF Results
  <2> QED
    BY <1>3, <2>1
<1> QED
  BY <1>1, <1>2, <1>3

LEMMA UpstreamAnswersKeeps ==
  ASSUME IInv, UpstreamAnswers
  PROVE  IInv'
<1>0. PICK req \in owed : \E result \in Results(Method(req)) :
        /\ UpstreamSays(UpstreamLine("response", req.n, Method(req), result[1], result[2], said + 1))
        /\ owed' = owed \ {req}
  BY DEF UpstreamAnswers
<1>1. PICK result \in Results(Method(req)) :
        /\ UpstreamSays(UpstreamLine("response", req.n, Method(req), result[1], result[2], said + 1))
        /\ owed' = owed \ {req}
  BY <1>0
<1>2. PICK line : line = UpstreamLine("response", req.n, Method(req), result[1], result[2], said + 1)
  OBVIOUS
<1>3. /\ UNCHANGED <<clientVars, aVars, upstreamIn, alive, seen, pending, bVars, sink, cacheVars>>
      /\ UNCHANGED <<sent, upstreamIn, alive, seen, pending, aPc, aLine>>
  BY DEF UpstreamAnswers, clientVars, aVars
<1>4. req \in ClientLineType /\ said \in Nat
  BY DEF IInv, Types
<1>5. /\ line.kind = "response" /\ line.id = req.n /\ line.re = Method(req) /\ line.form = result[1]
      /\ line.content = result[2] /\ line.ref = NoContent /\ line.n = said + 1 /\ line.n > 0
  BY <1>2, <1>4 DEF UpstreamLine
<1>6. IsResponse(line) /\ Fresh(line)
  BY <1>5, ResultsCases, FreshResponse DEF IsResponse
<1>7. line \in UpstreamLineType
  <2>1. result[1] \in Forms /\ result[2] \in Contents \cup {NoContent}
    BY ResultsCases DEF Forms
  <2>2. Method(req) \in MethodNames
    BY <1>4 DEF Method, MethodNames, ClientLineType
  <2> QED
    BY <1>2, <1>4, <2>1, <2>2 DEF UpstreamLine, UpstreamLineType, ClientLineType, Kinds, Refs
<1>8. UpstreamSays(line) /\ owed' \subseteq owed
  BY <1>1, <1>2
<1>9. /\ Types' /\ Capacities'
      /\ SentOK' /\ InAOK' /\ FromClientOK' /\ ToClientOK'
      /\ RepliesOK' /\ FormsOK' /\ Backed' /\ RecordedOK' /\ Closing'
      /\ ToSet(ToClient') = ToSet(ToClient) \cup {line}
      /\ Answering' = Answering \cup { l \in {line} : IsResponse(l) }
  BY <1>3, <1>5, <1>6, <1>7, <1>8, SaysKeeps
<1>10. req \in ToSet(seen) /\ IsRequest(req) /\ req.n \in DOMAIN sent /\ req = sent[req.n]
  BY FromClientParts DEF IInv, UpstreamAnswersOK, FromClientOK
<1>11. UpstreamAnswersOK'
  <2>1. owed' \subseteq { l \in ToSet(seen) : IsRequest(l) }
    BY <1>1 DEF IInv, UpstreamAnswersOK
  <2>2. ASSUME NEW r \in ToSet(ToClient'), r.n > 0, IsResponse(r)
        PROVE  /\ r.id \in DOMAIN sent
               /\ sent[r.id] \in ToSet(seen) \ owed'
               /\ IsRequest(sent[r.id]) /\ r.re = Method(sent[r.id])
    <3>1. CASE r = line
      BY <1>1, <1>5, <1>10, <3>1
    <3>2. CASE r \in ToSet(ToClient)
      BY <1>1, <2>2, <3>2 DEF IInv, UpstreamAnswersOK
    <3> QED
      BY <1>9, <3>1, <3>2
  <2>3. ASSUME NEW r \in ToSet(ToClient), r.n > 0, IsResponse(r)
        PROVE  r.id # line.id
    BY <1>5, <1>10, <2>3 DEF IInv, UpstreamAnswersOK
  <2>4. ASSUME NEW r \in ToSet(ToClient'), NEW q \in ToSet(ToClient'),
               r.n > 0, q.n > 0, IsResponse(r), IsResponse(q), r.id = q.id
        PROVE  r.n = q.n
    BY <1>9, <2>3, <2>4 DEF IInv, UpstreamAnswersOK
  <2>5. ASSUME alive, NEW l \in ToSet(seen), IsRequest(l), l \notin owed'
        PROVE  \E r \in ToSet(ToClient') : r.n > 0 /\ IsResponse(r) /\ r.id = l.n
    BY <1>1, <1>5, <1>6, <1>9, <2>5 DEF IInv, UpstreamAnswersOK
  <2> QED
    BY <1>3, <2>1, <2>2, <2>4, <2>5 DEF UpstreamAnswersOK
<1>12. PendingOK'
  <2>1. Requested' \subseteq Requested /\ Requested \subseteq Requested' \cup {req} /\ req \in Requested
    BY <1>1, <1>3, <1>10 DEF Requested, Leaving
  <2>2. Answering' = Answering \cup {line}
    BY <1>6, <1>9
  <2>3. line.id \in DOMAIN pending /\ pending[line.id] = line.re
    BY <1>5, <2>1 DEF IInv, PendingOK
  <2>4. { r.n : r \in Requested' } \cup { r.id : r \in Answering' }
          = { r.n : r \in Requested } \cup { r.id : r \in Answering }
    BY <1>5, <2>1, <2>2
  <2>5. alive => DOMAIN pending = { r.n : r \in Requested' } \cup { r.id : r \in Answering' }
    BY <2>4 DEF IInv, PendingOK
  <2>6. /\ \A r \in Requested' : r.n \in DOMAIN pending /\ pending[r.n] = Method(r)
        /\ \A r \in Answering' : r.id \in DOMAIN pending /\ pending[r.id] = r.re
    BY <2>1, <2>2, <2>3 DEF IInv, PendingOK
  <2> QED
    BY <1>3, <2>5, <2>6 DEF IInv, PendingOK
<1> QED
  BY <1>9, <1>11, <1>12 DEF IInv

LEMMA UpstreamSpeaksKeeps ==
  ASSUME IInv, UpstreamSpeaks
  PROVE  IInv'
<1>1. PICK kind \in OtherKinds, id \in 1 .. MaxSent :
        UpstreamSays(UpstreamLine(kind, id, "none", "raw", NoContent, said + 1))
  BY DEF UpstreamSpeaks
<1>2. PICK line : line = UpstreamLine(kind, id, "none", "raw", NoContent, said + 1)
  OBVIOUS
<1>3. /\ UNCHANGED <<clientVars, aVars, upstreamIn, alive, seen, pending, bVars, sink, cacheVars>>
      /\ UNCHANGED <<sent, upstreamIn, alive, seen, pending, aPc, aLine, owed>>
  BY DEF UpstreamSpeaks, clientVars, aVars
<1>4. kind \in Kinds \ {"response"} /\ id \in Nat /\ said \in Nat
  BY OtherKindsAssumption, BoundsAssumption, SMTT(20) DEF IInv, Types, Kinds
<1>5. line.kind = kind /\ line.form = "raw" /\ line.ref = NoContent /\ line.n = said + 1 /\ line.n > 0
  BY <1>2, <1>4 DEF UpstreamLine
<1>6. ~ IsResponse(line) /\ Fresh(line)
  BY <1>4, <1>5, Zenon DEF IsResponse, Fresh
<1>7. line \in UpstreamLineType
  BY <1>2, <1>4 DEF UpstreamLine, UpstreamLineType, MethodNames, Forms, Refs
<1>8. UpstreamSays(line) /\ owed' \subseteq owed
  BY <1>1, <1>2, <1>3
<1>9. /\ Types' /\ Capacities'
      /\ SentOK' /\ InAOK' /\ FromClientOK' /\ ToClientOK'
      /\ RepliesOK' /\ FormsOK' /\ Backed' /\ RecordedOK' /\ Closing'
      /\ ToSet(ToClient') = ToSet(ToClient) \cup {line}
      /\ Answering' = Answering \cup { l \in {line} : IsResponse(l) }
  BY <1>3, <1>5, <1>6, <1>7, <1>8, SaysKeeps
<1>10. UpstreamAnswersOK'
  <2>1. \A r \in ToSet(ToClient') : IsResponse(r) => r \in ToSet(ToClient)
    BY <1>6, <1>9
  <2>2. ToSet(ToClient) \subseteq ToSet(ToClient')
    BY <1>9
  <2> QED
    BY <1>3, <2>1, <2>2 DEF IInv, UpstreamAnswersOK
<1>11. PendingOK'
  <2>1. Requested' = Requested /\ Answering' = Answering
    BY <1>3, <1>6, <1>9 DEF Requested, Leaving
  <2> QED
    BY <1>3, <2>1 DEF IInv, PendingOK
<1> QED
  BY <1>9, <1>10, <1>11 DEF IInv

LEMMA GoneKeeps ==
  ASSUME IInv, Gone
  PROVE  IInv'
<1>1. /\ UNCHANGED <<stdin, stdinClosed, sent, aPc, aLine, upstreamOut, pending, bPc, bLine, said, seen>>
      /\ UNCHANGED <<out, outClosed, returned, held, issued, ret, recorded, delivered>>
      /\ alive' = FALSE /\ upstreamIn' = <<>> /\ owed' = {}
  BY DEF Gone, clientVars, aVars, bVars, sink, cacheVars
<1>2. DownSame
  BY <1>1, DownFrame DEF bVars
<1>3. ToServer' = seen /\ FromClient' = seen \o Unread /\ Unread' = Unread /\ ToServer = seen \o upstreamIn
  BY GoneFlow DEF IInv
<1>4. InA' = InA /\ InB' = InB
  BY <1>1 DEF InA, InB
<1>5. Types' /\ Capacities' /\ Closing' /\ InAOK'
  <2>1. Types'
    <3>1. upstreamIn' \in Seq(ClientLineType) /\ owed' \subseteq ClientLineType
      BY <1>1
    <3> QED
      BY <1>1, <1>4, <3>1 DEF IInv, Types, Store!StoreTypeOK
  <2>2. Len(upstreamIn') <= PipeCap
    BY <1>1, BoundsAssumption
  <2> QED
    BY <1>1, <2>1, <2>2 DEF IInv, Capacities, Closing, InAOK
<1>6. FromClientOK'
  <2>1. /\ seen \in Seq(ClientLineType) /\ Unread \in Seq(ClientLineType) /\ upstreamIn \in Seq(ClientLineType)
        /\ ToSet(ToServer) = ToSet(seen) \cup ToSet(upstreamIn)
        /\ ToSet(FromClient) = ToSet(ToServer) \cup ToSet(Unread)
        /\ Sorted(ToServer) /\ Sorted(Unread)
        /\ \A x \in ToSet(ToServer), y \in ToSet(Unread) : Before(x, y)
    BY FromClientParts DEF IInv, Types, FromClientOK
  <2>2. Sorted(seen)
    BY <1>3, <2>1, SortedConcat
  <2>3. Sorted(seen \o Unread)
    BY <2>1, <2>2, SortedConcat
  <2>4. ToSet(seen \o Unread) = ToSet(seen) \cup ToSet(Unread)
    BY <2>1, ToSetConcat
  <2> QED
    BY <1>1, <1>3, <2>1, <2>3, <2>4 DEF IInv, FromClientOK
<1>7. UpstreamAnswersOK'
  BY <1>1, <1>2 DEF IInv, UpstreamAnswersOK, DownSame
<1>8. RepliesOK'
  BY <1>1, <1>2, <1>3 DEF IInv, RepliesOK, DownSame
<1>9. PendingOK'
  <2>1. Requested' \subseteq Requested /\ Answering' = Answering
    BY <1>1, <1>2 DEF DownSame, Requested, Answering, Leaving, ToSet
  <2> QED
    BY <1>1, <2>1 DEF IInv, PendingOK
<1> QED
  BY <1>1, <1>2, <1>5, <1>6, <1>7, <1>8, <1>9, Frames DEF IInv, bVars

-----------------------------------------------------------------------------
(* The invariant is kept: goroutine B, the closer and the writer *)

LEMMA BReadsKeeps ==
  ASSUME IInv, BReads
  PROVE  IInv'
<1>1. /\ UNCHANGED <<stdin, stdinClosed, sent, aPc, aLine, upstreamIn, alive, owed, pending, said, seen>>
      /\ UNCHANGED <<out, outClosed, returned, held, issued, ret, recorded, delivered>>
      /\ bPc = "reading" /\ bPc' = "handling"
  BY DEF BReads, clientVars, aVars, upVars, sink, cacheVars
<1>2. UpSame
  BY <1>1, UpFrame DEF aVars
<1>3. DownSame /\ bLine' \in UpstreamLineType /\ upstreamOut' \in Seq(UpstreamLineType)
         /\ Len(upstreamOut') <= Len(upstreamOut)
  BY BReadsFlow DEF IInv
<1>4. InA' = InA /\ InB' = <<bLine'>>
  BY <1>1 DEF InA, InB
<1>5. Types'
  <2>1. InB' \in Seq(UpstreamLineType)
    BY <1>3, <1>4
  <2> QED
    BY <1>1, <1>3, <1>4, <2>1 DEF IInv, Types, Store!StoreTypeOK
<1>6. Capacities' /\ Closing'
  <2>1. Len(upstreamOut') <= PipeCap
    BY <1>3, BoundsAssumption, SMTT(20) DEF IInv, Types, Capacities
  <2> QED
    BY <1>1, <2>1 DEF IInv, Capacities, Closing
<1> QED
  BY <1>1, <1>2, <1>3, <1>5, <1>6, Frames DEF IInv, aVars

LEMMA BEndsKeeps ==
  ASSUME IInv, BEnds
  PROVE  IInv'
<1>1. /\ UNCHANGED <<stdin, stdinClosed, sent, aPc, aLine, upstreamIn, upstreamOut, alive, owed, pending>>
      /\ UNCHANGED <<bLine, said, seen, out, outClosed, returned, held, issued, ret, recorded, delivered>>
      /\ bPc = "reading" /\ bPc' = "done" /\ upstreamOut = <<>> /\ ~ alive
  BY DEF BEnds, clientVars, aVars, pipes, upVars, sink, cacheVars
<1>2. UpSame
  BY <1>1, UpFrame DEF aVars
<1>3. InA' = InA /\ InB' = InB
  BY <1>1 DEF InA, InB
<1>4. DownSame
  BY <1>1, <1>3 DEF DownSame, ToClient, Processed, Unhandled
<1>5. Types' /\ Capacities' /\ Closing'
  BY <1>1, <1>3 DEF IInv, Types, Store!StoreTypeOK, Capacities, Closing
<1> QED
  BY <1>1, <1>2, <1>4, <1>5, Frames DEF IInv, aVars

LEMMA BSendsKeeps ==
  ASSUME IInv, BSends
  PROVE  IInv'
<1>1. /\ UNCHANGED <<stdin, stdinClosed, sent, aPc, aLine, upstreamIn, upstreamOut, alive, owed, pending>>
      /\ UNCHANGED <<said, seen, outClosed, returned, held, issued, ret, recorded, delivered>>
      /\ bPc = "sending" /\ bPc' = "reading" /\ Len(out) < OutCap /\ out' = Append(out, bLine)
  BY DEF BSends, Sends, clientVars, aVars, pipes, upVars, cacheVars
<1>2. UpSame
  BY <1>1, UpFrame DEF aVars
<1>3. DownSame
  BY BSendsFlow DEF IInv
<1>4. InA' = InA /\ InB' = <<>> /\ bLine \in UpstreamLineType /\ out \in Seq(UpstreamLineType)
  BY <1>1, Holding DEF InA, InB, IInv, Types
<1>5. out' \in Seq(UpstreamLineType) /\ Len(out') <= OutCap
  BY <1>1, <1>4, BoundsAssumption
<1>6. Types' /\ Capacities' /\ Closing'
  BY <1>1, <1>4, <1>5 DEF IInv, Types, Store!StoreTypeOK, Capacities, Closing
<1> QED
  BY <1>1, <1>2, <1>3, <1>6, Frames DEF IInv, aVars

LEMMA WritesKeeps ==
  ASSUME IInv, Writes
  PROVE  IInv'
<1>1. /\ UNCHANGED <<stdin, stdinClosed, sent, aPc, aLine, upstreamIn, upstreamOut, alive, owed, pending>>
      /\ UNCHANGED <<bPc, bLine, said, seen, outClosed, returned, held, issued, ret, recorded>>
      /\ ~ returned /\ out # <<>> /\ delivered' = Append(delivered, Head(out)) /\ out' = Tail(out)
  BY DEF Writes, clientVars, aVars, pipes, upVars, bVars, cacheVars
<1>2. UpSame
  BY <1>1, UpFrame DEF aVars
<1>3. DownSame
  BY WritesFlow DEF IInv
<1>4. InA' = InA /\ InB' = InB /\ {out, delivered} \subseteq Seq(UpstreamLineType)
  BY <1>1 DEF InA, InB, IInv, Types
<1>5. out' \in Seq(UpstreamLineType) /\ Len(out') < Len(out) /\ delivered' \in Seq(UpstreamLineType)
  BY <1>1, <1>4
<1>6. Len(out') <= OutCap
  BY <1>4, <1>5, BoundsAssumption DEF IInv, Capacities
<1>7. Types' /\ Capacities' /\ Closing'
  BY <1>1, <1>4, <1>5, <1>6 DEF IInv, Types, Store!StoreTypeOK, Capacities, Closing
<1> QED
  BY <1>1, <1>2, <1>3, <1>7, Frames DEF IInv, aVars, bVars

LEMMA ClosesOrReturnsKeeps ==
  ASSUME IInv, Closes \/ Returns
  PROVE  IInv'
<1>1. /\ UNCHANGED <<stdin, stdinClosed, sent, aPc, aLine, upstreamIn, upstreamOut, alive, owed, pending>>
      /\ UNCHANGED <<bPc, bLine, said, seen, out, held, issued, ret, recorded, delivered>>
      /\ \/ aPc = "done" /\ bPc = "done" /\ outClosed' = TRUE /\ returned' = returned
         \/ outClosed /\ out = <<>> /\ returned' = TRUE /\ outClosed' = outClosed
  BY DEF Closes, Returns, BothDone, Drained, clientVars, aVars, pipes, upVars, bVars, cacheVars
<1>2. UpSame /\ DownSame /\ InA' = InA /\ InB' = InB
  BY <1>1, UpFrame, DownFrame DEF aVars, bVars, InA, InB
<1>3. Types'
  <2>1. outClosed' \in BOOLEAN /\ returned' \in BOOLEAN
    BY <1>1 DEF IInv, Types
  <2> QED
    BY <1>1, <1>2, <2>1 DEF IInv, Types, Store!StoreTypeOK
<1>4. Capacities' /\ Closing'
  BY <1>1 DEF IInv, Capacities, Closing
<1> QED
  BY <1>1, <1>2, <1>3, <1>4, Frames DEF IInv, aVars, bVars

LEMMA BEvictsKeeps ==
  ASSUME IInv, BEvicts
  PROVE  IInv'
<1>1. /\ UNCHANGED <<stdin, stdinClosed, sent, aPc, aLine, upstreamIn, upstreamOut, alive, owed, pending>>
      /\ UNCHANGED <<bPc, bLine, said, seen, out, outClosed, returned, issued, ret, recorded, delivered>>
  BY DEF BEvicts, Store!Drop, clientVars, aVars, pipes, upVars, bVars, sink
<1>2. DOMAIN held' \subseteq DOMAIN held /\ held' = [id \in DOMAIN held' |-> held[id]]
  BY DEF BEvicts, Store!Drop
<1>3. UpSame /\ DownSame /\ InA' = InA /\ InB' = InB
  BY <1>1, UpFrame, DownFrame DEF aVars, bVars, InA, InB
<1>4. held \in [DOMAIN held -> Contents] /\ held' \in [DOMAIN held' -> Contents]
  BY <1>2 DEF IInv, Types
<1>5. Types'
  <2>1. Store!StoreTypeOK'
    BY <1>1, <1>2, <1>4 DEF IInv, Types, Store!StoreTypeOK
  <2> QED
    BY <1>1, <1>3, <1>4, <2>1 DEF IInv, Types
<1>6. Capacities' /\ Closing'
  BY <1>1 DEF IInv, Capacities, Closing
<1>7. Backed'
  BY <1>1, <1>2, <1>3 DEF IInv, Backed, DownSame, StubOf, StubIn
<1> QED
  BY <1>1, <1>3, <1>5, <1>6, <1>7, Frames DEF IInv, aVars, bVars

\* B recognises an answer as what it is.
LEMMA Matched ==
  ASSUME IInv, bPc = "handling"
  PROVE  MatchedMethod(bLine) = IF IsResponse(bLine) THEN bLine.re ELSE "none"
<1>1. bLine \in ToSet(Unhandled)
  BY InHandOfB
<1> QED
  BY <1>1 DEF IInv, PendingOK, Answering, MatchedMethod

\* What B does to every line, whatever it makes of it.
LEMMA HandlesKeeps ==
  ASSUME IInv, NEW line \in UpstreamLineType, BHandles(line), Treated(line),
         line.kind = bLine.kind, line.n = bLine.n, line.id = bLine.id, line.re = bLine.re
  PROVE  /\ pending' \in [DOMAIN pending' -> MethodNames]
         /\ InA' = InA /\ InB' \in Seq(UpstreamLineType)
         /\ Capacities' /\ SentOK' /\ InAOK' /\ FromClientOK' /\ ToClientOK'
         /\ UpstreamAnswersOK' /\ RepliesOK' /\ FormsOK' /\ PendingOK' /\ Closing'
         /\ ToSet(Processed') = ToSet(Processed) \cup {line}
         /\ \A f : OfForm(ToClient', f) = OfForm(ToClient, f) + One(line, f) - One(bLine, f)
<1>1. /\ UNCHANGED <<stdin, stdinClosed, sent, aPc, aLine, upstreamIn, upstreamOut, alive, owed>>
      /\ UNCHANGED <<said, seen, out, outClosed, returned, delivered>>
      /\ bPc = "handling" /\ bPc' = "sending" /\ bLine' = line /\ Unregister(bLine)
  BY DEF BHandles, clientVars, aVars, pipes, upVars, sink
<1>2. UpSame
  BY <1>1, UpFrame DEF aVars
<1>3. /\ ToSet(ToClient) = ToSet(Processed) \cup ToSet(Unhandled)
      /\ ToSet(Unhandled) = {bLine} \cup ToSet(Unhandled')
      /\ ToSet(Processed') = ToSet(Processed) \cup {line}
      /\ ToSet(ToClient') = ToSet(Processed') \cup ToSet(Unhandled')
      /\ Unhandled' = upstreamOut /\ bLine \in UpstreamLineType
      /\ Sorted(ToClient) => Sorted(ToClient')
      /\ \A f : OfForm(ToClient', f) = OfForm(ToClient, f) + One(line, f) - One(bLine, f)
  BY BHandlesFlow DEF IInv
<1>4. /\ Fresh(bLine) /\ bLine.n > 0 /\ bLine \in ToSet(ToClient)
      /\ \A l \in ToSet(upstreamOut) : Fresh(l) /\ l.n > bLine.n /\ l \in ToSet(ToClient)
  BY <1>1, InHandOfB DEF Fresh
<1>5. InA' = InA /\ InB' \in Seq(UpstreamLineType)
  BY <1>1 DEF InA, InB
<1>6. Capacities' /\ Closing'
  BY <1>1 DEF IInv, Capacities, Closing
<1>7. IsResponse(line) <=> IsResponse(bLine)
  BY DEF IsResponse
<1> DEFINE Same(r, q) == /\ r.n = q.n /\ r.id = q.id /\ r.re = q.re /\ (IsResponse(r) <=> IsResponse(q))
<1>8. \A r \in ToSet(ToClient') : \E q \in ToSet(ToClient) : Same(r, q)
  BY <1>3, <1>7
<1>9. \A q \in ToSet(ToClient) : \E r \in ToSet(ToClient') : Same(r, q)
  BY <1>3, <1>7
<1> HIDE DEF Same
<1>10. ToClientOK'
  <2>1. { l.n : l \in ToSet(ToClient') } = { l.n : l \in ToSet(ToClient) }
    BY <1>8, <1>9 DEF Same
  <2> QED
    BY <1>1, <1>3, <2>1 DEF IInv, ToClientOK
<1>11. UpstreamAnswersOK'
  <2>1. ASSUME NEW r \in ToSet(ToClient'), r.n > 0, IsResponse(r)
        PROVE  /\ r.id \in DOMAIN sent
               /\ sent[r.id] \in ToSet(seen) \ owed
               /\ IsRequest(sent[r.id]) /\ r.re = Method(sent[r.id])
    BY <1>8, <2>1 DEF IInv, UpstreamAnswersOK, Same
  <2>2. ASSUME NEW r \in ToSet(ToClient'), NEW q \in ToSet(ToClient'),
               r.n > 0, q.n > 0, IsResponse(r), IsResponse(q), r.id = q.id
        PROVE  r.n = q.n
    <3>1. PICK r0 \in ToSet(ToClient) : Same(r, r0)
      BY <1>8
    <3>2. PICK q0 \in ToSet(ToClient) : Same(q, q0)
      BY <1>8
    <3>3. r0.n = q0.n
      BY <2>2, <3>1, <3>2, ZenonT(30) DEF IInv, UpstreamAnswersOK, Same
    <3> QED
      BY <3>1, <3>2, <3>3 DEF Same
  <2>3. ASSUME alive, NEW l \in ToSet(seen), IsRequest(l), l \notin owed
        PROVE  \E r \in ToSet(ToClient') : r.n > 0 /\ IsResponse(r) /\ r.id = l.n
    <3>1. PICK q \in ToSet(ToClient) : q.n > 0 /\ IsResponse(q) /\ q.id = l.n
      BY <2>3 DEF IInv, UpstreamAnswersOK
    <3>2. PICK r \in ToSet(ToClient') : Same(r, q)
      BY <1>9
    <3> QED
      BY <3>1, <3>2 DEF Same
  <2>4. owed \subseteq { l \in ToSet(seen) : IsRequest(l) }
    BY DEF IInv, UpstreamAnswersOK
  <2> QED
    BY <1>1, <2>1, <2>2, <2>3, <2>4 DEF UpstreamAnswersOK
<1>12. RepliesOK'
  <2>1. ASSUME NEW r \in ToSet(ToClient'), r.n = 0
        PROVE  r \in ToSet(ToClient)
    BY <1>3, <1>4, <2>1
  <2>2. ASSUME NEW r \in ToSet(ToClient), r.n = 0
        PROVE  r \in ToSet(ToClient')
    BY <1>3, <1>4, <2>2
  <2> QED
    BY <1>1, <1>2, <2>1, <2>2 DEF IInv, RepliesOK, UpSame
<1>13. FormsOK'
  BY <1>1, <1>3, <1>4 DEF IInv, FormsOK
<1>14. CASE ~ IsResponse(bLine)
  <2>1. pending' = pending
    <3>1. pending = [id \in DOMAIN pending |-> pending[id]]
      BY DEF IInv, Types
    <3>2. DOMAIN pending \ {} = DOMAIN pending
      OBVIOUS
    <3> QED
      BY <1>1, <1>14, <3>1, <3>2 DEF Unregister
  <2>2. Answering' = Answering /\ Requested' = Requested
    BY <1>1, <1>3, <1>14 DEF Answering, Requested, Leaving
  <2>3. PendingOK'
    BY <1>1, <2>1, <2>2 DEF IInv, PendingOK
  <2> QED
    BY <1>2, <1>1, <1>3, <1>5, <1>6, <1>10, <1>11, <1>12, <1>13, <2>1, <2>3, Frames DEF IInv, Types, aVars
<1>15. CASE IsResponse(bLine)
  <2>1. /\ DOMAIN pending' = DOMAIN pending \ {bLine.id}
        /\ \A id \in DOMAIN pending' : pending'[id] = pending[id]
        /\ pending' \in [DOMAIN pending' -> MethodNames]
    BY <1>1, <1>15 DEF Unregister, IInv, Types
  <2>2. Answering = Answering' \cup {bLine} /\ Requested' = Requested
    BY <1>1, <1>3, <1>15 DEF Answering, Requested, Leaving
  <2>3. ASSUME NEW r \in Answering' PROVE r.id # bLine.id
    <3>1. /\ r \in ToSet(ToClient) /\ r.n > bLine.n /\ IsResponse(r) /\ r.n \in Nat /\ bLine.n \in Nat
      <4>1. r \in ToSet(upstreamOut) /\ IsResponse(r)
        BY <1>3 DEF Answering
      <4>2. r \in UpstreamLineType
        BY <4>1 DEF IInv, Types, ToSet
      <4> QED
        BY <1>3, <1>4, <4>1, <4>2 DEF UpstreamLineType
    <3> QED
      BY <1>4, <1>15, <3>1 DEF IInv, UpstreamAnswersOK
  <2>4. ASSUME NEW r \in Requested PROVE r.n # bLine.id
    <3>1. /\ bLine.id \in DOMAIN sent /\ sent[bLine.id] \in ToSet(seen) \ owed
      BY <1>4, <1>15 DEF IInv, UpstreamAnswersOK
    <3>2. CASE r \in owed
      BY <3>1, <3>2, FromClientParts DEF IInv, UpstreamAnswersOK, FromClientOK
    <3>3. CASE r \in ToSet(upstreamIn)
      <4>1. seen \in Seq(ClientLineType) /\ upstreamIn \in Seq(ClientLineType)
        BY DEF IInv, Types
      <4>2. Sorted(seen \o upstreamIn)
        BY FromClientParts DEF IInv, FromClientOK, ToServer
      <4>3. \A x \in ToSet(seen), y \in ToSet(upstreamIn) : Before(x, y)
        BY <4>1, <4>2, SortedConcat
      <4>4. r = sent[r.n] /\ r.n \in Nat \ {0}
        <5>1. r \in ToSet(FromClient)
          BY <3>3, FromClientParts DEF IInv
        <5> QED
          BY <5>1 DEF IInv, FromClientOK, Types
      <4> QED
        BY <3>1, <3>3, <4>3, <4>4 DEF Before
    <3>4. CASE r \in Leaving
      <4>1. r = aLine /\ aPc = "forwarding"
        BY <3>4 DEF Leaving
      <4>2. /\ \A l \in ToSet(ToServer) : l.n < aLine.n
            /\ aLine \in ClientLineType
        BY <4>1, InHandOfA
      <4>3. sent[bLine.id].n < aLine.n /\ sent[bLine.id].n = bLine.id
        BY <3>1, <4>2, FromClientParts DEF IInv, SentOK
      <4>4. aLine.n \in Nat /\ bLine.id \in Nat
        BY <1>3, <4>2 DEF ClientLineType, UpstreamLineType
      <4> QED
        BY <4>1, <4>3, <4>4
    <3> QED
      BY <3>2, <3>3, <3>4 DEF Requested
  <2>5. PendingOK'
    <3>1. alive => DOMAIN pending' = { r.n : r \in Requested' } \cup { r.id : r \in Answering' }
      <4>1. alive => DOMAIN pending = { r.n : r \in Requested' } \cup { r.id : r \in Answering' } \cup {bLine.id}
        BY <2>2 DEF IInv, PendingOK
      <4>2. bLine.id \notin { r.n : r \in Requested' } \cup { r.id : r \in Answering' }
        BY <2>2, <2>3, <2>4
      <4> QED
        BY <2>1, <4>1, <4>2
    <3>2. /\ \A r \in Requested' : r.n \in DOMAIN pending' /\ pending'[r.n] = Method(r)
          /\ \A r \in Answering' : r.id \in DOMAIN pending' /\ pending'[r.id] = r.re
      BY <2>1, <2>2, <2>3, <2>4 DEF IInv, PendingOK
    <3>3. /\ DOMAIN pending' \subseteq DOMAIN sent
          /\ \A id \in DOMAIN pending' : pending'[id] \in Registrable
      BY <2>1 DEF IInv, PendingOK
    <3> QED
      BY <1>1, <3>1, <3>2, <3>3 DEF PendingOK
  <2> QED
    BY <1>2, <1>1, <1>3, <1>5, <1>6, <1>10, <1>11, <1>12, <1>13, <2>1, <2>5, Frames DEF IInv, aVars
<1> QED
  BY <1>14, <1>15

LEMMA BCachesKeeps ==
  ASSUME IInv, BCaches
  PROVE  IInv'
<1>1. /\ bPc = "handling" /\ Cacheable(bLine)
      /\ recorded' = [recorded EXCEPT !.results = @ + 1]
  BY DEF BCaches, BHandles
<1>2. PICK id \in CacheIds : Store!Put(id, bLine.content) /\ BHandles([bLine EXCEPT !.form = "stub", !.ref = id])
  BY DEF BCaches, StubFor
<1>3. PICK line : line = [bLine EXCEPT !.form = "stub", !.ref = id]
  OBVIOUS
<1>4. bLine \in UpstreamLineType /\ Fresh(bLine)
  BY <1>1, InHandOfB
<1>5. /\ IsResponse(bLine) /\ bLine.re = "tools/call" /\ bLine.form = "result" /\ bLine.n > 0
      /\ bLine.content \in Contents /\ Size[bLine.content] >= Threshold
  BY <1>1, <1>4, Matched, FreshResponse DEF Cacheable
<1>6. /\ line \in UpstreamLineType /\ line.kind = bLine.kind /\ line.n = bLine.n /\ line.id = bLine.id
      /\ line.re = bLine.re /\ line.form = "stub" /\ line.ref = id /\ line.content = bLine.content
  BY <1>3, <1>4 DEF UpstreamLineType, Forms, Refs
<1>7. Treated(line) /\ BHandles(line)
  BY <1>2, <1>3, <1>5, <1>6 DEF Treated
<1>8. /\ pending' \in [DOMAIN pending' -> MethodNames]
      /\ InA' = InA /\ InB' \in Seq(UpstreamLineType)
      /\ Capacities' /\ SentOK' /\ InAOK' /\ FromClientOK' /\ ToClientOK'
      /\ UpstreamAnswersOK' /\ RepliesOK' /\ FormsOK' /\ PendingOK' /\ Closing'
      /\ ToSet(Processed') = ToSet(Processed) \cup {line}
      /\ \A f : OfForm(ToClient', f) = OfForm(ToClient, f) + One(line, f) - One(bLine, f)
  BY <1>6, <1>7, HandlesKeeps
<1>9. /\ UNCHANGED <<stdin, stdinClosed, sent, aPc, aLine, upstreamIn, upstreamOut, alive, owed>>
      /\ UNCHANGED <<said, seen, out, outClosed, returned, delivered, ret>> /\ bPc' = "sending"
  BY <1>2, <1>7 DEF BHandles, clientVars, aVars, pipes, upVars, sink, Store!Put
<1>10. /\ id \notin issued /\ issued' = issued \cup {id} /\ DOMAIN held' = DOMAIN held \cup {id}
       /\ held'[id] = bLine.content /\ \A i \in DOMAIN held : i # id => held'[i] = held[i]
       /\ held' = [i \in DOMAIN held' |-> held'[i]]
  BY <1>2 DEF Store!Put
<1>11. Types'
  <2>1. held' \in [DOMAIN held' -> Contents]
    BY <1>5, <1>10 DEF IInv, Types
  <2>2. recorded' \in [results : Nat, seeks : Nat]
    <3>1. recorded \in [results : Nat, seeks : Nat]
      BY DEF IInv, Types
    <3> QED
      BY <1>1, <3>1
  <2>3. Store!StoreTypeOK'
    BY <1>5, <1>9, <1>10 DEF IInv, Types, Store!StoreTypeOK
  <2> QED
    BY <1>8, <1>9, <2>1, <2>2, <2>3 DEF IInv, Types
<1>12. Backed'
  <2>1. \A i, c : StubOf(i, c) => StubIn(ToSet(Processed'), i, c)
    BY <1>8 DEF StubOf, StubIn
  <2>2. StubIn(ToSet(Processed'), id, bLine.content)
    BY <1>6, <1>8 DEF StubOf, StubIn
  <2>3. \A i \in DOMAIN held' : StubIn(ToSet(Processed'), i, held'[i])
    BY <1>10, <2>1, <2>2 DEF IInv, Backed
  <2>4. aPc' = "text" => StubIn(ToSet(Processed'), aLine.ref, ret["A"].content)
    BY <1>9, <2>1 DEF IInv, Backed
  <2>5. \A t \in ToSet(Processed') : t.form = "text" => StubIn(ToSet(Processed'), t.ref, t.content)
    BY <1>6, <1>8, <2>1 DEF IInv, Backed
  <2>6. /\ \A s \in ToSet(Processed') : s.form = "stub" => s.ref \in issued'
        /\ \A s, t \in ToSet(Processed') :
             s.form = "stub" /\ t.form = "stub" /\ s.ref = t.ref => s.n = t.n
    BY <1>6, <1>8, <1>10 DEF IInv, Backed
  <2> QED
    BY <1>9, <2>3, <2>4, <2>5, <2>6 DEF Backed, StubOf
<1>13. RecordedOK'
  <2>1. /\ OfForm(ToClient', "stub") = OfForm(ToClient, "stub") + One(line, "stub") - One(bLine, "stub")
        /\ OfForm(ToClient', "text") = OfForm(ToClient, "text") + One(line, "text") - One(bLine, "text")
    BY <1>8
  <2>2. /\ One(bLine, "stub") = 0 /\ One(line, "stub") = 1
        /\ One(bLine, "text") = 0 /\ One(line, "text") = 0
    BY <1>5, <1>6 DEF One
  <2>3. OfForm(ToClient, "stub") \in Nat /\ OfForm(ToClient, "text") \in Nat
    BY ToClientParts, OfFormConcat DEF IInv
  <2>4. recorded'.results = recorded.results + 1 /\ recorded'.seeks = recorded.seeks
    BY <1>1 DEF IInv, Types
  <2> QED
    BY <1>9, <2>1, <2>2, <2>3, <2>4 DEF IInv, RecordedOK
<1> QED
  BY <1>8, <1>9, <1>11, <1>12, <1>13, Frames DEF IInv

\* A line that is no stub and no text does nothing to the cache or the counters.
LEMMA PlainKeeps ==
  ASSUME IInv, NEW line \in UpstreamLineType, BHandles(line), Treated(line),
         line.kind = bLine.kind, line.n = bLine.n, line.id = bLine.id, line.re = bLine.re,
         line.form \notin {"stub", "text"}, bLine.form \notin {"stub", "text"},
         UNCHANGED cacheVars
  PROVE  IInv'
<1>1. /\ pending' \in [DOMAIN pending' -> MethodNames]
      /\ InA' = InA /\ InB' \in Seq(UpstreamLineType)
      /\ Capacities' /\ SentOK' /\ InAOK' /\ FromClientOK' /\ ToClientOK'
      /\ UpstreamAnswersOK' /\ RepliesOK' /\ FormsOK' /\ PendingOK' /\ Closing'
      /\ ToSet(Processed') = ToSet(Processed) \cup {line}
      /\ \A f : OfForm(ToClient', f) = OfForm(ToClient, f) + One(line, f) - One(bLine, f)
  BY HandlesKeeps
<1>2. /\ UNCHANGED <<stdin, stdinClosed, sent, aPc, aLine, upstreamIn, upstreamOut, alive, owed>>
      /\ UNCHANGED <<said, seen, out, outClosed, returned, delivered>> /\ bPc' = "sending"
      /\ UNCHANGED <<held, issued, ret, recorded>>
  BY DEF BHandles, clientVars, aVars, pipes, upVars, sink, cacheVars
<1>3. Types'
  BY <1>1, <1>2 DEF IInv, Types, Store!StoreTypeOK
<1>4. Backed'
  <2>1. \A i, c : StubOf(i, c) => StubIn(ToSet(Processed'), i, c)
    BY <1>1 DEF StubOf, StubIn
  <2>2. \A i \in DOMAIN held : StubIn(ToSet(Processed'), i, held[i])
    BY <2>1 DEF IInv, Backed
  <2>3. aPc' = "text" => StubIn(ToSet(Processed'), aLine.ref, ret["A"].content)
    BY <1>2, <2>1 DEF IInv, Backed
  <2>4. \A t \in ToSet(Processed') : t.form = "text" => StubIn(ToSet(Processed'), t.ref, t.content)
    BY <1>1, <2>1 DEF IInv, Backed
  <2>5. /\ \A s \in ToSet(Processed') : s.form = "stub" => s.ref \in issued
        /\ \A s, t \in ToSet(Processed') :
             s.form = "stub" /\ t.form = "stub" /\ s.ref = t.ref => s.n = t.n
    BY <1>1 DEF IInv, Backed
  <2> QED
    BY <1>2, <2>2, <2>3, <2>4, <2>5 DEF Backed, StubOf
<1>5. RecordedOK'
  <2>1. /\ OfForm(ToClient', "stub") = OfForm(ToClient, "stub") + One(line, "stub") - One(bLine, "stub")
        /\ OfForm(ToClient', "text") = OfForm(ToClient, "text") + One(line, "text") - One(bLine, "text")
    BY <1>1
  <2>2. /\ One(bLine, "stub") = 0 /\ One(line, "stub") = 0
        /\ One(bLine, "text") = 0 /\ One(line, "text") = 0
    BY DEF One
  <2>3. OfForm(ToClient, "stub") \in Nat /\ OfForm(ToClient, "text") \in Nat
    BY ToClientParts, OfFormConcat DEF IInv
  <2> QED
    BY <1>2, <2>1, <2>2, <2>3 DEF IInv, RecordedOK
<1> QED
  BY <1>1, <1>2, <1>3, <1>4, <1>5 DEF IInv

LEMMA BInjectsKeeps ==
  ASSUME IInv, BInjects
  PROVE  IInv'
<1>1. bPc = "handling" /\ Injectable(bLine) /\ UNCHANGED cacheVars
  BY DEF BInjects, BHandles
<1>2. PICK line : line = [bLine EXCEPT !.form = "injected"]
  OBVIOUS
<1>3. BHandles(line)
  BY <1>2 DEF BInjects
<1>4. bLine \in UpstreamLineType /\ Fresh(bLine) /\ bLine.n > 0
  BY <1>1, InHandOfB DEF Fresh
<1>5. bLine.re = "tools/list" /\ bLine.form = "result"
  BY <1>1, Matched DEF Injectable
<1>6. /\ line \in UpstreamLineType /\ line.kind = bLine.kind /\ line.n = bLine.n /\ line.id = bLine.id
      /\ line.re = bLine.re /\ line.form = "injected"
  BY <1>2, <1>4 DEF UpstreamLineType, Forms
<1>7. Treated(line)
  BY <1>4, <1>5, <1>6 DEF Treated
<1> QED
  BY <1>1, <1>3, <1>5, <1>6, <1>7, PlainKeeps

LEMMA BPassesKeeps ==
  ASSUME IInv, BPasses
  PROVE  IInv'
<1>1. bPc = "handling" /\ ~ Cacheable(bLine) /\ ~ Injectable(bLine) /\ BHandles(bLine) /\ UNCHANGED cacheVars
  BY DEF BPasses, BHandles
<1>2. bLine \in UpstreamLineType /\ Fresh(bLine) /\ bLine.n > 0
  BY <1>1, InHandOfB DEF Fresh
<1>3. CASE ~ IsResponse(bLine)
  <2>1. bLine.form = "raw"
    BY <1>2, <1>3 DEF Fresh
  <2>2. Treated(bLine)
    BY <1>2, <2>1 DEF Treated
  <2> QED
    BY <1>1, <1>2, <2>1, <2>2, PlainKeeps
<1>4. CASE IsResponse(bLine)
  <2>1. /\ bLine.form \in {"result", "error", "malformed"}
        /\ bLine.form = "result" /\ bLine.re = "tools/call" => bLine.content \in Contents
    BY <1>2, <1>4, FreshResponse
  <2>2. MatchedMethod(bLine) = bLine.re
    BY <1>1, <1>4, Matched
  <2>3. bLine.form = "result" => bLine.re # "tools/list"
    BY <1>1, <2>2 DEF Injectable
  <2>4. bLine.form = "result" /\ bLine.re = "tools/call" => Size[bLine.content] <= Threshold
    BY <1>1, <2>1, <2>2, SizeAssumption DEF Cacheable
  <2>5. Treated(bLine)
    BY <1>2, <2>1, <2>3, <2>4 DEF Treated
  <2> QED
    BY <1>1, <1>2, <2>1, <2>5, PlainKeeps
<1> QED
  BY <1>3, <1>4

-----------------------------------------------------------------------------
(* The invariant holds *)

LEMMA InitInv ==
  ASSUME Init
  PROVE  IInv
<1>1. /\ <<>> \in Seq(ClientLineType) /\ <<>> \in Seq(UpstreamLineType) /\ {} \subseteq ClientLineType
      /\ ToSet(<<>>) = {} /\ Sorted(<<>>) /\ <<>> \o <<>> = <<>>
  BY DEF ToSet, Sorted
<1>2. /\ InA = <<>> /\ InB = <<>> /\ ToServer = <<>> /\ Unread = <<>> /\ FromClient = <<>>
      /\ ToClient = <<>> /\ Processed = <<>> /\ Unhandled = <<>>
  BY <1>1 DEF Init, InA, InB, ToServer, Unread, FromClient, ToClient, Processed, Unhandled
<1>3. Store!StoreTypeOK /\ held \in [DOMAIN held -> Contents] /\ DOMAIN held = {}
  BY DEF Init, Store!StoreInit, Store!StoreTypeOK
<1>4. Types
  BY <1>1, <1>2, <1>3 DEF Init, Types
<1>5. Capacities
  BY BoundsAssumption DEF Init, Capacities
<1>6. SentOK /\ InAOK /\ FromClientOK
  BY <1>1, <1>2 DEF Init, SentOK, InAOK, FromClientOK
<1>7. ToClientOK
  BY <1>1, <1>2 DEF Init, ToClientOK
<1>8. UpstreamAnswersOK /\ RepliesOK /\ FormsOK
  BY <1>1, <1>2 DEF Init, UpstreamAnswersOK, RepliesOK, FormsOK
<1>9. PendingOK
  <2>1. Requested = {} /\ Answering = {}
    BY <1>1, <1>2 DEF Init, Requested, Answering, Leaving
  <2> QED
    BY <2>1 DEF Init, PendingOK
<1>10. Backed
  BY <1>1, <1>2, <1>3 DEF Init, Backed
<1>11. RecordedOK
  <2>1. \A f : OfForm(<<>>, f) = 0
    BY OfFormSmall
  <2> QED
    BY <1>2, <2>1 DEF Init, RecordedOK
<1>12. Closing
  BY DEF Init, Closing
<1> QED
  BY <1>4, <1>5, <1>6, <1>7, <1>8, <1>9, <1>10, <1>11, <1>12 DEF IInv

LEMMA StutterKeeps ==
  ASSUME IInv, UNCHANGED vars
  PROVE  IInv'
<1>1. /\ UNCHANGED <<stdin, stdinClosed, sent, aPc, aLine, upstreamIn, upstreamOut, alive, owed, pending>>
      /\ UNCHANGED <<bPc, bLine, said, seen, out, outClosed, returned, held, issued, ret, recorded, delivered>>
  BY DEF vars, clientVars, aVars, pipes, upVars, bVars, sink, cacheVars
<1>2. UpSame /\ DownSame /\ InA' = InA /\ InB' = InB
  BY <1>1, UpFrame, DownFrame DEF aVars, bVars, InA, InB
<1>3. Types' /\ Capacities' /\ Closing'
  BY <1>1, <1>2 DEF IInv, Types, Store!StoreTypeOK, Capacities, Closing
<1> QED
  BY <1>1, <1>2, <1>3, Frames DEF IInv, aVars, bVars

LEMMA StepInv ==
  ASSUME IInv, [Next]_vars
  PROVE  IInv'
<1>1. CASE Client
  BY <1>1, ClientSendsKeeps, ClientClosesKeeps DEF Client
<1>2. CASE A
  BY <1>2, AReadsKeeps, AEndsKeeps, ARegistersKeeps, AForwardsKeeps, ALooksUpKeeps, ARepliesKeeps DEF A
<1>3. CASE Upstream
  BY <1>3, UpstreamReadsKeeps, UpstreamAnswersKeeps, UpstreamSpeaksKeeps, GoneKeeps
  DEF Upstream, UpstreamEnds, UpstreamDies
<1>4. CASE B
  BY <1>4, BReadsKeeps, BEndsKeeps, BCachesKeeps, BInjectsKeeps, BPassesKeeps, BSendsKeeps DEF B
<1>5. CASE BEvicts \/ Closes \/ Writer
  BY <1>5, BEvictsKeeps, ClosesOrReturnsKeeps, WritesKeeps DEF Writer
<1>6. CASE Finished \/ UNCHANGED vars
  BY <1>6, StutterKeeps DEF Finished
<1> QED
  BY <1>1, <1>2, <1>3, <1>4, <1>5, <1>6 DEF Next

\* The inductive invariant holds in every behaviour of goroutines A and B, the
\* writer, the client and the upstream (proxy.go:46-182).
THEOREM StdioInvariant == Spec => []IInv
<1>1. Init => IInv
  BY InitInv
<1>2. IInv /\ [Next]_vars => IInv'
  BY StepInv
<1> QED
  BY <1>1, <1>2, PTL DEF Spec

-----------------------------------------------------------------------------
(* What follows from it *)

\* Every variable has its type, pending holds ids of requests that were sent and
\* no pipe or channel holds more than it can (proxy.go:37).
THEOREM StdioTypes == Spec => []TypeOK
<1>1. ASSUME IInv PROVE TypeOK
  <2>1. DOMAIN sent = 1 .. Len(sent)
    BY <1>1 DEF IInv, Types
  <2> QED
    BY <1>1, <2>1 DEF IInv, Types, Capacities, UpstreamAnswersOK, PendingOK, Registrable, TypeOK
<1> QED
  BY <1>1, StdioInvariant, PTL

\* No result of the threshold's length or more and no bare tools/list goes out,
\* and only answers to those are rewritten (proxy.go:129-133 before :154-178).
THEOREM StdioRightTreatment == Spec => []RightTreatment
<1>1. ASSUME IInv PROVE RightTreatment
  <2>1. \A i \in DOMAIN Processed : Treated(Processed[i])
    BY <1>1 DEF IInv, FormsOK, ToSet
  <2> QED
    BY <2>1 DEF Treated, RightTreatment
<1> QED
  BY <1>1, StdioInvariant, PTL

\* What the upstream said reaches the client whole and in its order, whatever
\* replies of A come between (proxy.go:79-93,181).
THEOREM StdioUpstreamOrder == Spec => []UpstreamOrder
<1>1. ASSUME IInv PROVE UpstreamOrder
  <2> DEFINE Said == { i \in DOMAIN ToClient : ToClient[i].n > 0 }
  <2>1. \A i \in DOMAIN ToClient : ToClient[i].n \in Nat
    <3>1. ToClient \in Seq(UpstreamLineType)
      BY <1>1, ToClientParts DEF IInv
    <3>2. \A i \in DOMAIN ToClient : ToClient[i] \in UpstreamLineType
      BY <3>1
    <3> QED
      BY <3>2 DEF UpstreamLineType
  <2>2. { ToClient[i].n : i \in Said } = { line.n : line \in ToSet(ToClient) } \ {0}
    BY <2>1 DEF ToSet
  <2>3. \A i, j \in Said : i < j => ToClient[i].n < ToClient[j].n
    BY <1>1, <2>1 DEF IInv, ToClientOK, Sorted, Before
  <2> QED
    BY <1>1, <2>2, <2>3 DEF IInv, ToClientOK, UpstreamOrder
<1> QED
  BY <1>1, StdioInvariant, PTL

\* The upstream gets the client's lines in the client's order, and while it lives
\* only calls of seek_result are kept from it (proxy.go:65-72,103-139).
THEOREM StdioClientOrder == Spec => []ClientOrder
<1>1. ASSUME IInv PROVE ClientOrder
  <2>1. \A i \in DOMAIN FromClient : /\ FromClient[i].n \in DOMAIN sent
                                     /\ FromClient[i] = sent[FromClient[i].n]
    BY <1>1 DEF IInv, FromClientOK, ToSet
  <2>2. DOMAIN sent = 1 .. Len(sent) /\ Len(sent) \in Nat
    BY <1>1 DEF IInv, Types
  <2>3. \A i, j \in DOMAIN FromClient : i < j => FromClient[i].n < FromClient[j].n
    <3>1. \A i \in DOMAIN FromClient : FromClient[i].n \in Nat \ {0}
      BY <2>1, <2>2
    <3> QED
      BY <1>1, <3>1 DEF IInv, FromClientOK, Sorted, Before
  <2>4. ASSUME alive, NEW k \in DOMAIN sent, sent[k].method # "seek_result"
        PROVE  \E i \in DOMAIN FromClient : FromClient[i].n = k
    BY <1>1, <2>4 DEF IInv, FromClientOK, SentOK, ToSet
  <2> QED
    BY <2>1, <2>3, <2>4 DEF ClientOrder
<1> QED
  BY <1>1, StdioInvariant, PTL

\* pending holds exactly the requests that went to the upstream and whose answer
\* has not come back to B (proxy.go:131,156-158).
THEOREM StdioPendingExact == Spec => []PendingExact
<1>1. ASSUME IInv PROVE PendingExact
  <2> DEFINE Arriving == IF bPc = "handling" THEN {bLine} ELSE {}
  <2>1. ToSet(Unhandled) = ToSet(upstreamOut) \cup Arriving
    <3>1. CASE bPc = "handling"
      BY <1>1, <3>1, InHandOfB
    <3>2. CASE bPc # "handling"
      BY <1>1, <3>2, ConcatEmptySeq DEF IInv, Types, Unhandled
    <3> QED
      BY <3>1, <3>2
  <2>2. { line \in ToSet(upstreamOut) \cup Arriving : IsResponse(line) } = Answering
    BY <2>1 DEF Answering
  <2> QED
    BY <1>1, <2>2, Zenon DEF IInv, PendingOK, PendingExact, Requested, Leaving
<1> QED
  BY <1>1, StdioInvariant, PTL

\* The statistics count exactly the stubs and the texts that go out
\* (intercept.go:60,78).
THEOREM StdioRecordedExactly == Spec => []RecordedExactly
<1>1. ASSUME IInv PROVE RecordedExactly
  BY <1>1 DEF IInv, RecordedOK, OfForm, RecordedExactly, Count
<1> QED
  BY <1>1, StdioInvariant, PTL

\* Run returns with nothing left on the way to the client (proxy.go:95-100).
THEOREM StdioNothingLostAtReturn == Spec => []NothingLostAtReturn
<1>1. ASSUME IInv PROVE NothingLostAtReturn
  BY <1>1 DEF IInv, Closing, NothingLostAtReturn
<1> QED
  BY <1>1, StdioInvariant, PTL

\* A text that answers seek_result is what the upstream sent in the one result
\* whose stub carries that id (proxy.go:125, intercept.go:36,44, cache.go:114).
THEOREM StdioSeekReadsOriginal == Spec => []SeekReadsOriginal
<1>1. ASSUME IInv PROVE SeekReadsOriginal
  <2>1. ToSet(ToClient) = ToSet(Processed) \cup ToSet(Unhandled)
    BY <1>1, ToClientParts DEF IInv
  <2>2. ASSUME NEW line \in ToSet(Unhandled) PROVE line.form \notin {"stub", "text"}
    <3>1. Fresh(line)
      BY <1>1 DEF IInv, FormsOK
    <3>2. CASE ~ IsResponse(line)
      BY <3>1, <3>2 DEF Fresh
    <3>3. CASE IsResponse(line)
      BY <3>1, <3>3, FreshResponse
    <3> QED
      BY <3>2, <3>3
  <2>3. ASSUME NEW i \in DOMAIN ToClient, ToClient[i].form \in {"stub", "text"}
        PROVE  ToClient[i] \in ToSet(Processed)
    BY <2>1, <2>2, <2>3 DEF ToSet
  <2>4. ToClient \in Seq(UpstreamLineType) /\ DOMAIN ToClient \subseteq Nat
    BY <1>1, ToClientParts DEF IInv
  <2>5. ASSUME NEW i \in DOMAIN ToClient, NEW j \in DOMAIN ToClient,
               ToClient[i].form = "stub", ToClient[j].form = "stub", ToClient[i].ref = ToClient[j].ref
        PROVE  i = j
    <3>1. ToClient[i].n = ToClient[j].n
      BY <1>1, <2>3, <2>5 DEF IInv, Backed
    <3>2. ToClient[i].n > 0 /\ ToClient[i].n \in Nat
      <4>1. ToClient[i] \in UpstreamLineType
        BY <2>4
      <4> QED
        BY <1>1, <2>3, <2>5, <4>1 DEF IInv, FormsOK, Treated, UpstreamLineType
    <3> QED
      BY <1>1, <2>4, <3>1, <3>2 DEF IInv, ToClientOK, Sorted, Before
  <2>6. ASSUME NEW i \in DOMAIN ToClient, ToClient[i].form = "text"
        PROVE  \E j \in DOMAIN ToClient : /\ ToClient[j].form = "stub"
                                          /\ ToClient[j].ref = ToClient[i].ref
                                          /\ ToClient[j].content = ToClient[i].content
    <3>1. StubOf(ToClient[i].ref, ToClient[i].content)
      BY <1>1, <2>3, <2>6 DEF IInv, Backed
    <3> QED
      BY <2>1, <3>1 DEF StubOf, StubIn, ToSet
  <2> QED
    BY <2>5, <2>6 DEF SeekReadsOriginal
<1> QED
  BY <1>1, StdioInvariant, PTL

\* Nothing is sent on the closed channel, which would panic (proxy.go:95-98).
THEOREM StdioNoSendOnClosed == Spec => NoSendOnClosed
<1>1. ASSUME IInv, Next, Len(out') > Len(out) PROVE ~ outClosed
  <2>1. CASE AReplies \/ BSends
    BY <1>1, <2>1 DEF IInv, Closing, AReplies, BSends
  <2>2. CASE Writes
    <3>1. out \in Seq(UpstreamLineType) /\ out # <<>> /\ out' = Tail(out)
      BY <1>1, <2>2 DEF IInv, Types, Writes
    <3>2. Len(out') < Len(out) /\ Len(out) \in Nat /\ Len(out') \in Nat
      BY <3>1
    <3> QED
      BY <1>1, <3>2
  <2>3. CASE out' = out
    BY <1>1, <2>3 DEF IInv, Types
  <2>4. AReplies \/ BSends \/ Writes \/ out' = out
    BY <1>1 DEF Next, Client, A, Upstream, B, Writer, Finished, ClientSends, ClientCloses, AReads, AEnds,
       ARegisters, AForwards, ALooksUp, UpstreamReads, UpstreamAnswers, UpstreamSpeaks, UpstreamEnds,
       UpstreamDies, Gone, BReads, BEnds, BCaches, BInjects, BPasses, BHandles, BEvicts, Closes, Returns,
       vars, sink
  <2> QED
    BY <2>1, <2>2, <2>3, <2>4
<1>2. IInv /\ [Next]_vars => [Len(out') > Len(out) => ~ outClosed]_vars
  BY <1>1
<1> QED
  BY <1>2, StdioInvariant, PTL DEF Spec, NoSendOnClosed

LEMMA AtMostOne ==
  ASSUME NEW S, \A x, y \in S : x = y
  PROVE  Cardinality(S) = IF S = {} THEN 0 ELSE 1
<1>1. CASE S = {}
  BY <1>1, FS_EmptySet
<1>2. CASE S # {}
  <2>1. PICK x \in S : S = {x}
    BY <1>2
  <2> QED
    BY <1>2, <2>1, FS_Singleton
<1> QED
  BY <1>1, <1>2

\* A line that the upstream has read stands before one that it has not, no matter
\* where that one is.
LEMMA ReadOrAwaited ==
  ASSUME IInv
  PROVE  LET Awaited == upstreamIn \o InA \o stdin IN
         /\ Awaited \in Seq(ClientLineType)
         /\ ToSet(Awaited) = ToSet(upstreamIn) \cup ToSet(Unread)
         /\ ToSet(FromClient) = ToSet(seen) \cup ToSet(Awaited)
         /\ Sorted(Awaited)
         /\ \A x \in ToSet(seen), y \in ToSet(Awaited) : Before(x, y)
<1> DEFINE L == ClientLineType
<1>1. seen \in Seq(L) /\ upstreamIn \in Seq(L) /\ InA \in Seq(L) /\ stdin \in Seq(L) /\ Unread \in Seq(L)
  BY FromClientParts DEF IInv, Types
<1>2. PICK aw : aw = upstreamIn \o Unread
  OBVIOUS
<1>3. (upstreamIn \o InA) \o stdin = aw
  BY <1>1, <1>2, ConcatAssociative, SMTT(20) DEF Unread
<1>4. aw \in Seq(L) /\ ToSet(aw) = ToSet(upstreamIn) \cup ToSet(Unread)
  BY <1>1, <1>2, ToSetConcat
<1>5. FromClient = seen \o aw
  <2>1. (seen \o upstreamIn) \o Unread = seen \o (upstreamIn \o Unread)
    BY <1>1, ConcatAssociative, SMTT(20)
  <2> QED
    BY <1>2, <2>1, FromClientParts DEF IInv, ToServer
<1>6. ToSet(seen \o aw) = ToSet(seen) \cup ToSet(aw)
  BY <1>1, <1>4, ToSetConcat
<1>7. Sorted(aw) /\ \A x \in ToSet(seen), y \in ToSet(aw) : Before(x, y)
  <2>1. Sorted(seen \o aw)
    BY <1>5 DEF IInv, FromClientOK
  <2> QED
    BY <1>1, <1>4, <2>1, SortedConcat
<1> QED
  BY <1>3, <1>4, <1>5, <1>6, <1>7

\* No two lines to the client answer the same request.
LEMMA UniqueAnswer ==
  ASSUME IInv, NEW i \in DOMAIN ToClient, NEW j \in DOMAIN ToClient,
         IsResponse(ToClient[i]), IsResponse(ToClient[j]), ToClient[i].id = ToClient[j].id
  PROVE  i = j
<1>1. /\ ToClient \in Seq(UpstreamLineType) /\ DOMAIN ToClient \subseteq Nat
      /\ ToClient[i] \in UpstreamLineType /\ ToClient[j] \in UpstreamLineType
  <2>1. ToClient \in Seq(UpstreamLineType)
    BY ToClientParts DEF IInv
  <2> QED
    BY <2>1
<1>2. /\ ToClient[i] \in ToSet(ToClient) /\ ToClient[j] \in ToSet(ToClient)
      /\ ToClient[i].n \in Nat /\ ToClient[j].n \in Nat /\ ToClient[i].id \in Nat
  BY <1>1 DEF ToSet, UpstreamLineType
<1>3. CASE ToClient[i].n > 0 /\ ToClient[j].n > 0
  <2>1. ToClient[i].n = ToClient[j].n
    BY <1>2, <1>3 DEF IInv, UpstreamAnswersOK
  <2> QED
    BY <1>1, <1>2, <1>3, <2>1 DEF IInv, ToClientOK, Sorted, Before
<1>4. CASE ToClient[i].n = 0 /\ ToClient[j].n = 0
  BY <1>1, <1>2, <1>4 DEF IInv, ToClientOK, Sorted, Before
<1>5. ASSUME NEW r \in ToSet(ToClient), NEW q \in ToSet(ToClient), IsResponse(r),
             r.n > 0, q.n = 0, r.id = q.id
      PROVE  FALSE
  <2>1. sent[r.id] \in ToSet(ToServer)
    BY <1>5, FromClientParts DEF IInv, UpstreamAnswersOK
  <2> QED
    BY <1>5, <2>1 DEF IInv, RepliesOK, FromClientOK
<1> QED
  BY <1>2, <1>3, <1>4, <1>5

\* Each request is in exactly one place while the upstream lives, and in at most
\* one after that: none is answered twice and none gets lost (proxy.go:115-135).
THEOREM StdioRequestsConserved == Spec => []RequestsConserved
<1>1. ASSUME IInv, NEW k \in DOMAIN sent, IsRequest(sent[k])
      PROVE  LET IsIt(line) == IsRequest(line) /\ line.n = k
                 Answers(line) == IsResponse(line) /\ line.id = k
                 places == Count(upstreamIn \o InA \o stdin, IsIt)
                               + Cardinality({ req \in owed : req.n = k })
                               + Count(ToClient, Answers)
             IN places <= 1 /\ (alive => places = 1)
  <2>1. PICK awaited : awaited = upstreamIn \o InA \o stdin
    OBVIOUS
  <2> DEFINE At == { i \in DOMAIN awaited : IsRequest(awaited[i]) /\ awaited[i].n = k }
             Owed == { req \in owed : req.n = k }
             Ans == { i \in DOMAIN ToClient : IsResponse(ToClient[i]) /\ ToClient[i].id = k }
  <2>2. /\ awaited \in Seq(ClientLineType)
        /\ ToSet(awaited) = ToSet(upstreamIn) \cup ToSet(Unread)
        /\ ToSet(FromClient) = ToSet(seen) \cup ToSet(awaited)
        /\ Sorted(awaited)
        /\ \A x \in ToSet(seen), y \in ToSet(awaited) : Before(x, y)
    BY <1>1, <2>1, ReadOrAwaited
  <2>3. \A line \in ToSet(FromClient) : line.n \in DOMAIN sent /\ line = sent[line.n] /\ line.n > 0 /\ line.n \in Nat
    BY <1>1 DEF IInv, FromClientOK, Types
  <2>4. /\ k \in Nat /\ k > 0 /\ sent[k].n = k
        /\ ToClient \in Seq(UpstreamLineType) /\ DOMAIN ToClient \subseteq Nat
        /\ \A i \in DOMAIN ToClient : ToClient[i] \in UpstreamLineType
    <3>1. ToClient \in Seq(UpstreamLineType)
      BY <1>1, ToClientParts DEF IInv
    <3> QED
      BY <1>1, <3>1 DEF IInv, Types, SentOK
  <2>5. owed \subseteq ToSet(seen) /\ \A x \in ToSet(seen) : x.method # "seek_result"
    BY <1>1, FromClientParts DEF IInv, UpstreamAnswersOK, FromClientOK
  <2>6. \A x \in ToSet(upstreamIn) : x.method # "seek_result"
    BY <1>1, FromClientParts DEF IInv, FromClientOK
  <2>7. sent[k] \in ToSet(seen) => At = {}
    BY <2>2, <2>3, <2>4 DEF Before, ToSet
  <2>8. \A i, j \in At : i = j
    <3> SUFFICES ASSUME NEW i \in At, NEW j \in At, i < j PROVE FALSE
      BY <2>2
    <3>1. Before(awaited[i], awaited[j])
      BY <2>2 DEF Sorted
    <3> QED
      BY <2>4, <3>1 DEF Before
  <2>9. \A x, y \in Owed : x = y
    BY <2>2, <2>3, <2>5
  <2>10. ASSUME NEW i \in Ans
         PROVE  /\ ToClient[i].n > 0 => /\ sent[k] \in ToSet(seen) \ owed
                /\ ToClient[i].n = 0 => /\ sent[k].method = "seek_result"
                                        /\ \A line \in ToSet(Unread) : k < line.n
    <3>1. ToClient[i] \in ToSet(ToClient)
      BY DEF ToSet
    <3> QED
      BY <1>1, <3>1 DEF IInv, UpstreamAnswersOK, RepliesOK
  <2>11. ASSUME NEW i \in Ans, NEW j \in Ans PROVE i = j
    BY <1>1, UniqueAnswer
  <2>12. Owed # {} => sent[k] \in owed /\ sent[k] \in ToSet(seen)
    BY <2>2, <2>3, <2>5
  <2>13. At # {} => sent[k] \in ToSet(awaited)
    BY <2>2, <2>3 DEF ToSet
  <2>14. Owed # {} => At = {} /\ Ans = {}
    <3>1. ASSUME sent[k] \in owed, sent[k] \in ToSet(seen), NEW i \in Ans PROVE FALSE
      <4>1. ToClient[i].n \in Nat
        BY <2>4 DEF UpstreamLineType
      <4> QED
        BY <2>5, <2>10, <3>1, <4>1
    <3> QED
      BY <2>7, <2>12, <3>1
  <2>15. At # {} => Ans = {}
    <3> SUFFICES ASSUME NEW i \in Ans, At # {} PROVE FALSE
      OBVIOUS
    <3>1. ToClient[i].n \in Nat
      BY <2>4 DEF UpstreamLineType
    <3>2. CASE ToClient[i].n > 0
      BY <2>7, <2>10, <3>2
    <3>3. CASE ToClient[i].n = 0
      BY <2>2, <2>4, <2>6, <2>10, <2>13, <3>3
    <3> QED
      BY <3>1, <3>2, <3>3
  <2>16. alive => At # {} \/ Owed # {} \/ Ans # {}
    <3> SUFFICES ASSUME alive PROVE At # {} \/ Owed # {} \/ Ans # {}
      OBVIOUS
    <3>1. sent[k] \in ToSet(awaited) => At # {}
      BY <1>1, <2>4 DEF ToSet
    <3>2. ASSUME NEW r \in ToSet(ToClient), IsResponse(r), r.id = k PROVE Ans # {}
      BY <3>2 DEF ToSet
    <3>3. CASE sent[k].method # "seek_result"
      <4>1. sent[k] \in ToSet(seen) \/ sent[k] \in ToSet(awaited)
        BY <1>1, <2>2, <3>3 DEF IInv, FromClientOK
      <4>2. ASSUME sent[k] \in ToSet(seen), sent[k] \notin owed PROVE Ans # {}
        BY <1>1, <2>4, <3>2, <4>2 DEF IInv, UpstreamAnswersOK
      <4>3. sent[k] \in owed => Owed # {}
        BY <2>4
      <4> QED
        BY <3>1, <4>1, <4>2, <4>3
    <3>4. CASE sent[k].method = "seek_result"
      BY <1>1, <2>2, <3>1, <3>2, <3>4 DEF IInv, RepliesOK
    <3> QED
      BY <3>3, <3>4
  <2>17. /\ Cardinality(At) = IF At = {} THEN 0 ELSE 1
         /\ Cardinality(Owed) = IF Owed = {} THEN 0 ELSE 1
         /\ Cardinality(Ans) = IF Ans = {} THEN 0 ELSE 1
    <3> HIDE DEF At, Owed, Ans
    <3> QED
      BY <2>8, <2>9, <2>11, AtMostOne
  <2>18. LET places == Cardinality(At) + Cardinality(Owed) + Cardinality(Ans)
         IN places <= 1 /\ (alive => places = 1)
    <3> HIDE DEF At, Owed, Ans
    <3> QED
      BY <2>14, <2>15, <2>16, <2>17
  <2> QED
    BY <2>1, <2>18 DEF Count
<1>2. ASSUME IInv PROVE RequestsConserved
  BY <1>1, <1>2, Zenon DEF RequestsConserved
<1> QED
  BY <1>2, StdioInvariant, PTL
=============================================================================
