---------------------------- MODULE LaunchProofs ----------------------------
(***************************************************************************)
(* Proofs about Launch for any command lines, config files and spellings   *)
(* of header names.                                                        *)
(***************************************************************************)
EXTENDS Launch, SequenceTheorems, TLAPS

-----------------------------------------------------------------------------
(* The invariant *)

Words == Seq(STRING)
RawFlags == Seq(Spellings \cup {Malformed})

Inputs == argv \in CommandLines /\ file \in Files

\* How many of the flags are merged, and which spellings they have.
Merged == Len(argv.raw) - Len(raw)
FlagsUpTo(k) == { argv.raw[i] : i \in 1 .. k }

\* The flags are merged in their order, and the headers are those of the file
\* and of the flags merged so far, the flag's value where both name one.
MergeOK ==
    /\ raw \in RawFlags /\ Len(raw) <= Len(argv.raw)
    /\ \A j \in 1 .. Len(raw) : raw[j] = argv.raw[Merged + j]
    /\ FlagsUpTo(Merged) \subseteq Spellings
    /\ phase = "config" => raw = argv.raw
    /\ phase \in {"headers", "local", "http"} =>
         headers = [s \in FlagsUpTo(Merged) \cup file.spellings |->
                       IF s \in FlagsUpTo(Merged) THEN "flag" ELSE "config"]
    /\ phase \in {"local", "http"} => raw = <<>>

\* What was sent last over HTTP.
SentOK ==
    phase # "exited" =>
        \/ request = NoRequest
        \/ phase = "http" /\ request \in Requests /\ sent \in SentHeaders(request, headers)

\* The statistics that are recorded are those of the command line.
RecordingOK ==
    recording # NoKey => /\ recording = ConfigKey(argv.words)
                         /\ Subcommand(argv.words) = "start"

IInv == Inputs /\ MergeOK /\ SentOK /\ RecordingOK

InputTypes ==
    /\ argv.words \in Words /\ argv.raw \in RawFlags
    /\ file.spellings \subseteq Spellings

LEMMA InputsOK == Inputs => InputTypes
BY CommandLinesAssumption, FilesAssumption DEF Inputs, InputTypes, Words, RawFlags

LEMMA InitInv == Init => IInv
<1> SUFFICES ASSUME Init PROVE IInv
  OBVIOUS
<1>1. Inputs /\ argv.raw \in RawFlags
  BY InputsOK DEF Init, Inputs, InputTypes
<1>2. Merged = 0 /\ FlagsUpTo(0) = {}
  BY <1>1 DEF Init, Merged, FlagsUpTo, RawFlags
<1>3. MergeOK
  BY <1>1, <1>2 DEF Init, MergeOK, RawFlags
<1> QED
  BY <1>1, <1>3 DEF Init, IInv, SentOK, RecordingOK

\* One more flag.
LEMMA MergesHeaderKeeps ==
  ASSUME IInv, MergesHeader
  PROVE  IInv'
<1> DEFINE k == Merged
           s == Head(raw)
<1>1. argv.raw \in RawFlags /\ UNCHANGED <<argv, file, phase, recording, request, sent>> /\ phase = "headers"
  BY InputsOK DEF IInv, InputTypes, MergesHeader, inputs
<1>2. raw \in RawFlags /\ raw # <<>> /\ raw' = Tail(raw)
  BY DEF IInv, MergeOK, MergesHeader
<1>3. /\ raw' \in RawFlags /\ Len(raw') = Len(raw) - 1 /\ s = raw[1]
      /\ \A j \in 1 .. Len(raw') : raw'[j] = raw[j + 1]
  BY <1>2 DEF RawFlags
<1>4. Len(raw) \in Nat /\ Len(argv.raw) \in Nat /\ Len(raw) <= Len(argv.raw) /\ Len(raw) > 0
  BY <1>1, <1>2 DEF IInv, MergeOK, RawFlags
<1>5. k \in Nat /\ Merged' = k + 1 /\ k + 1 <= Len(argv.raw)
  BY <1>1, <1>3, <1>4 DEF Merged
<1>6. s = argv.raw[k + 1]
  BY <1>3, <1>4 DEF IInv, MergeOK
<1>7. FlagsUpTo(k + 1) = FlagsUpTo(k) \cup {s}
  <2>1. 1 .. (k + 1) = (1 .. k) \cup {k + 1}
    BY <1>5
  <2> HIDE DEF k, s
  <2> QED
    BY <1>6, <2>1 DEF FlagsUpTo
<1>8. FlagsUpTo(Merged)' = FlagsUpTo(k + 1)
  BY <1>1, <1>5 DEF FlagsUpTo
<1>9. headers' = [t \in FlagsUpTo(k + 1) \cup file.spellings |->
                     IF t \in FlagsUpTo(k + 1) THEN "flag" ELSE "config"]
  <2>1. headers = [t \in FlagsUpTo(k) \cup file.spellings |->
                     IF t \in FlagsUpTo(k) THEN "flag" ELSE "config"]
    BY <1>1 DEF IInv, MergeOK
  <2>2. headers' = [t \in DOMAIN headers \cup {s} |-> IF t = s THEN "flag" ELSE headers[t]]
    BY DEF MergesHeader, WithFlag
  <2> HIDE DEF k, s
  <2> QED
    BY <1>7, <2>1, <2>2
<1>10. \A j \in 1 .. Len(raw') : raw'[j] = argv.raw[Merged' + j]
  <2> SUFFICES ASSUME NEW j \in 1 .. Len(raw')
               PROVE  raw'[j] = argv.raw[Merged' + j]
    OBVIOUS
  <2>1. j \in Nat /\ j + 1 \in 1 .. Len(raw) /\ raw'[j] = raw[j + 1]
    BY <1>3, <1>4
  <2>2. raw[j + 1] = argv.raw[Merged + (j + 1)]
    BY <2>1 DEF IInv, MergeOK
  <2>3. Merged + (j + 1) = Merged' + j
    BY <1>5, <2>1
  <2> QED
    BY <2>1, <2>2, <2>3
<1>11. FlagsUpTo(k + 1) \subseteq Spellings
  <2>1. s \in Spellings
    <3>1. s \in Spellings \cup {Malformed}
      BY <1>2, <1>3 DEF RawFlags
    <3> QED
      BY <3>1 DEF MergesHeader
  <2> HIDE DEF k, s
  <2>2. FlagsUpTo(k) \subseteq Spellings
    BY DEF IInv, MergeOK, k
  <2> QED
    BY <1>7, <2>1, <2>2
<1>12. MergeOK'
  BY <1>1, <1>3, <1>4, <1>8, <1>9, <1>10, <1>5, <1>11 DEF MergeOK
<1> QED
  BY <1>1, <1>12 DEF IInv, Inputs, SentOK, RecordingOK, ConfigKey, HasURL

\* Exits of any kind.
LEMMA ExitsKeeps ==
  ASSUME IInv, NEW c, Exits(c), UNCHANGED recording
  PROVE  IInv'
<1>1. UNCHANGED <<argv, file, headers, raw, request, sent, recording>> /\ phase' = "exited"
  BY DEF Exits, inputs
<1>2. MergeOK'
  BY <1>1 DEF IInv, MergeOK, Merged, FlagsUpTo
<1> QED
  BY <1>1, <1>2 DEF IInv, Inputs, SentOK, RecordingOK, ConfigKey, HasURL

LEMMA StepInv ==
  ASSUME IInv, [Next]_vars
  PROVE  IInv'
<1>1. CASE ReadsConfig
  <2>1. /\ UNCHANGED <<argv, file, raw, recording>> /\ phase' = "headers"
        /\ headers' = [s \in file.spellings |-> "config"] /\ phase = "config"
    BY <1>1 DEF ReadsConfig, inputs
  <2>2. Merged' = 0 /\ FlagsUpTo(0) = {} /\ FlagsUpTo(Merged)' = {}
    <3>1. argv.raw \in RawFlags
      BY InputsOK DEF IInv, InputTypes
    <3> QED
      BY <2>1, <3>1 DEF IInv, MergeOK, Merged, FlagsUpTo, RawFlags
  <2>3. UNCHANGED <<request, sent>>
    BY <1>1 DEF ReadsConfig
  <2>4. MergeOK'
    BY <2>1, <2>2 DEF IInv, MergeOK, Merged
  <2> QED
    BY <2>1, <2>3, <2>4 DEF IInv, Inputs, SentOK, RecordingOK, ConfigKey, HasURL
<1>2. CASE MergesHeader
  BY <1>2, MergesHeaderKeeps
<1>3. CASE GivesUp \/ ShowsStats \/ CannotGoOn \/ \E c \in {0, 2} : ChildExits(c)
  BY <1>3, ExitsKeeps DEF GivesUp, ShowsStats, CannotGoOn, ChildExits
<1>4. CASE Starts
  <2>1. /\ UNCHANGED <<argv, file, headers, raw, request, sent>> /\ raw = <<>> /\ phase = "headers"
        /\ recording' = NoKey \/ (recording' = ConfigKey(argv.words) /\ Subcommand(argv.words) = "start")
        /\ phase' \in {"local", "http"}
    BY <1>4 DEF Starts, inputs
  <2>2. MergeOK' /\ SentOK'
    BY <2>1 DEF IInv, MergeOK, Merged, FlagsUpTo, SentOK
  <2>3. RecordingOK'
    BY <2>1 DEF RecordingOK, ConfigKey, HasURL
  <2> QED
    BY <2>1, <2>2, <2>3 DEF IInv, Inputs
<1>5. CASE \E r \in Requests : Forwards(r)
  <2>1. PICK r \in Requests : Forwards(r)
    BY <1>5
  <2>2. /\ UNCHANGED <<argv, file, phase, headers, raw, recording>> /\ phase = "http"
        /\ request' = r /\ sent' \in SentHeaders(r, headers)
    BY <2>1 DEF Forwards, inputs
  <2>3. SentOK'
    BY <2>2 DEF SentOK
  <2> QED
    BY <2>2, <2>3 DEF IInv, Inputs, MergeOK, Merged, FlagsUpTo, RecordingOK, ConfigKey, HasURL
<1>6. CASE Finished \/ UNCHANGED vars
  <2>1. UNCHANGED <<argv, file, phase, headers, raw, recording, request, sent>>
    BY <1>6 DEF Finished, vars, inputs
  <2> QED
    BY <2>1 DEF IInv, Inputs, MergeOK, Merged, FlagsUpTo, SentOK, RecordingOK, ConfigKey, HasURL
<1> QED
  BY <1>1, <1>2, <1>3, <1>4, <1>5, <1>6 DEF Next

\* The inductive invariant holds of every start of the program (main.go:31-219).
THEOREM LaunchInvariant == Spec => []IInv
<1>1. Init => IInv
  BY InitInv
<1>2. IInv /\ [Next]_vars => IInv'
  BY StepInv
<1> QED
  BY <1>1, <1>2, PTL DEF Spec

-----------------------------------------------------------------------------
(* What follows from it *)

LEMMA Consed ==
  ASSUME NEW S, NEW w \in Seq(S), NEW x \in S
  PROVE  /\ <<x>> \o w # <<>> /\ Head(<<x>> \o w) = x /\ Tail(<<x>> \o w) = w
         /\ <<x>> \o w \in Seq(S)
<1> DEFINE v == <<x>> \o w
<1>1. <<x>> \in Seq(S) /\ Len(<<x>>) = 1 /\ <<x>>[1] = x
  OBVIOUS
<1>2. /\ v \in Seq(S) /\ Len(v) = Len(w) + 1 /\ v[1] = x
      /\ \A i \in 1 .. Len(w) : v[i + 1] = w[i]
  BY <1>1, ConcatProperties
<1> HIDE DEF v
<1>3. v # <<>> /\ Head(v) = v[1] /\ Tail(v) \in Seq(S) /\ Len(Tail(v)) = Len(w)
  BY <1>2
<1>4. \A i \in 1 .. Len(w) : Tail(v)[i] = w[i]
  BY <1>2, <1>3
<1>5. Tail(v) = w
  BY <1>3, <1>4, SeqEqual
<1> QED
  BY <1>2, <1>3, <1>5 DEF v

\* For a command line that starts a wrapper, the stats subcommand is recognised
\* and names the same command.
LEMMA SameCommand ==
  ASSUME NEW w \in Words, Subcommand(w) = "start", ~ Ambiguous(w)
  PROVE  Subcommand(StatsWords(w)) = "stats" /\ Command(StatsWords(w)) = Command(w)
<1> DEFINE rest == IF Begins(w, {"start"}) THEN Tail(w) ELSE w
<1>1. rest \in Words /\ StatsWords(w) = <<"stats">> \o rest
  <2>1. w # <<>> => Tail(w) \in Seq(STRING)
    BY DEF Words
  <2>2. rest \in Words
    BY <2>1 DEF Words, Begins
  <2>3. StatsWords(w) = <<"stats">> \o rest
    BY Zenon DEF StatsWords, rest
  <2> QED
    BY <2>2, <2>3
<1> HIDE DEF rest
<1>2. /\ StatsWords(w) # <<>> /\ Head(StatsWords(w)) = "stats" /\ Tail(StatsWords(w)) = rest
  <2>1. rest \in Seq(STRING \cup {"stats"})
    BY <1>1 DEF Words
  <2> QED
    BY <1>1, <2>1, Consed
<1>3. Args(StatsWords(w)) = StatsWords(w) /\ Begins(StatsWords(w), Subcommands)
  BY <1>2 DEF Args, Begins, Subcommands
<1>4. Subcommand(StatsWords(w)) = "stats" /\ Command(StatsWords(w)) = Stripped(rest)
  BY <1>2, <1>3 DEF Subcommand, Command
<1>5. CASE Begins(w, {"start"})
  BY <1>4, <1>5 DEF rest, Command, Args, Begins, Subcommands
<1>6. CASE ~ Begins(w, {"start"})
  <2>1. CASE Begins(w, {"--"})
    <3>1. Args(w) = Tail(w) /\ Stripped(w) = Tail(w) /\ rest = w
      BY <1>6, <2>1 DEF Args, Stripped, rest
    <3>2. ~ Begins(Tail(w), Subcommands) /\ ~ Begins(Tail(w), {"--"})
      BY <2>1 DEF Ambiguous, Begins
    <3> QED
      BY <1>4, <3>1, <3>2 DEF Command, Stripped
  <2>2. CASE ~ Begins(w, {"--"})
    <3>1. Args(w) = w /\ rest = w
      BY <1>6, <2>2 DEF Args, rest
    <3>2. ~ Begins(w, Subcommands)
      BY <1>6, <3>1 DEF Subcommand, Begins, Subcommands
    <3> QED
      BY <1>4, <3>1, <3>2 DEF Command
  <2> QED
    BY <2>1, <2>2
<1> QED
  BY <1>4, <1>5, <1>6

\* The stats subcommand reads the file that the wrapper records into, whatever
\* mode the flags, the words and the config file select (main.go:60-73,121-169).
THEOREM LaunchStatsFindable == Spec => []StatsFindable
<1>1. ASSUME IInv PROVE StatsFindable
  <2>1. argv.words \in Words
    BY <1>1, InputsOK DEF IInv, InputTypes
  <2> QED
    BY <1>1, <2>1, SameCommand DEF IInv, RecordingOK, StatsFindable, ConfigKey, HasURL
<1> QED
  BY <1>1, LaunchInvariant, PTL

\* Which values a header can have, path by path.
LEMMA ValuesCases ==
  ASSUME NEW r, NEW h, NEW n
  PROVE  /\ Path(r) = "post" => Values(r, h, n) = PostHeader(r, h, n)
         /\ Path(r) = "proxy" => Values(r, h, n) = ProxyHeader(r, h, n)
         /\ Path(r) = "raw" => Values(r, h, n) = RawHeader(r, n)
         /\ Path(r) \in {"post", "proxy", "raw"}
<1>1. Path(r) = "post" => Values(r, h, n) = PostHeader(r, h, n)
  BY Zenon DEF Values
<1>2. Path(r) = "proxy" => Values(r, h, n) = ProxyHeader(r, h, n)
  BY Zenon DEF Values
<1>3. Path(r) = "raw" => Values(r, h, n) = RawHeader(r, n)
  BY Zenon DEF Values
<1>4. Path(r) \in {"post", "proxy", "raw"}
  BY DEF Path
<1> QED
  BY <1>1, <1>2, <1>3, <1>4

\* Every configured header is on every request the upstream gets, the flag's
\* value before the file's, and the client's own headers are kept
\* (main.go:95-110, server.go:99-106,218-238).
THEOREM LaunchHeadersReach == Spec => []HeadersReach
<1> DEFINE path == Path(request)
           Flags == { argv.raw[i] : i \in DOMAIN argv.raw }
           Alike(s) == { t \in Flags \cup file.spellings : Canon[t] = Canon[s] }
<1>1. ASSUME IInv, phase = "http", request # NoRequest
      PROVE  /\ \A s \in Flags \cup file.spellings : LET n == Canon[s] IN
                  path # "raw" /\ n \notin Managed =>
                    \/ path = "post" /\ n \in request.from /\ sent[n] = "client"
                    \/ Alike(s) = {s} /\ sent[n] = (IF s \in Flags THEN "flag" ELSE "config")
                    \/ Alike(s) # {s} /\ sent[n] \in {"flag", "config"}
             /\ \A n \in request.from \ Managed :
                  (path = "proxy" => \A s \in Flags \cup file.spellings : Canon[s] # n)
                    => sent[n] = "client"
  <2>1. headers = [s \in Flags \cup file.spellings |-> IF s \in Flags THEN "flag" ELSE "config"]
    <3>1. argv.raw \in RawFlags
      BY <1>1, InputsOK DEF IInv, InputTypes
    <3>2. Merged = Len(argv.raw) /\ DOMAIN argv.raw = 1 .. Len(argv.raw)
      BY <1>1, <3>1 DEF IInv, MergeOK, Merged, RawFlags
    <3>3. FlagsUpTo(Merged) = Flags
      BY <3>2 DEF FlagsUpTo
    <3> QED
      BY <1>1, <3>3 DEF IInv, MergeOK
  <2>2. /\ request \in Requests
        /\ \A n \in Names : sent[n] \in Values(request, headers, n)
    BY <1>1 DEF IInv, SentOK, SentHeaders
  <2>3. Flags \cup file.spellings \subseteq Spellings
    BY <1>1, <2>1, InputsOK DEF IInv, InputTypes, MergeOK
  <2>4. ASSUME NEW s \in Flags \cup file.spellings, path # "raw", Canon[s] \notin Managed
        PROVE  \/ path = "post" /\ Canon[s] \in request.from /\ sent[Canon[s]] = "client"
               \/ Alike(s) = {s} /\ sent[Canon[s]] = (IF s \in Flags THEN "flag" ELSE "config")
               \/ Alike(s) # {s} /\ sent[Canon[s]] \in {"flag", "config"}
    <3>1. Canon[s] \in Names
      BY <2>3, CanonAssumption
    <3>2. Configured(headers, Canon[s]) = { headers[t] : t \in Alike(s) } /\ s \in Alike(s)
      BY <2>1 DEF Configured
    <3>3. \/ path = "post" /\ Canon[s] \in request.from /\ sent[Canon[s]] = "client"
          \/ sent[Canon[s]] \in Configured(headers, Canon[s])
      BY <2>2, <2>4, <3>1, <3>2, ValuesCases DEF PostHeader, ProxyHeader, ClientOr, OrNothing
    <3>4. \A t \in Alike(s) : headers[t] = IF t \in Flags THEN "flag" ELSE "config"
      BY <2>1
    <3> QED
      BY <3>2, <3>3, <3>4
  <2>5. ASSUME NEW n \in request.from \ Managed,
               path = "proxy" => \A s \in Flags \cup file.spellings : Canon[s] # n
        PROVE  sent[n] = "client"
    <3>1. n \in Names
      BY <2>2 DEF Requests
    <3>2. path = "proxy" => Configured(headers, n) = {}
      BY <2>1, <2>5 DEF Configured
    <3>3. Values(request, headers, n) = {"client"}
      BY <2>5, <3>2, ValuesCases DEF PostHeader, ProxyHeader, RawHeader, ClientOr
    <3> QED
      BY <2>2, <3>1, <3>3
  <2> QED
    BY <2>4, <2>5
<1> QED
  BY <1>1, LaunchInvariant, PTL DEF HeadersReach
=============================================================================
