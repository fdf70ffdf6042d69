------------------------------- MODULE Launch -------------------------------
(***************************************************************************)
(* main.go: from the command line and the config file to a running wrapper *)
(* or an exit, and over HTTP the requests it forwards (Forwarding).        *)
(* StdioProxy is what happens in local mode between launch and exit code.  *)
(* The words of a command contain no blanks, so a sequence of words stands *)
(* for the text that joins them.                                           *)
(***************************************************************************)
EXTENDS Integers, Sequences, Forwarding

CONSTANTS CommandLines,  \* the command lines: see CommandLine
          Files          \* the config files: see ConfigFile

\* words: what follows the flags; listen, url: those flags are given; raw: the
\* spellings of the --upstream-header flags, Malformed for one without a name.
Malformed == "malformed"
CommandLine(words, listen, url, raw, collect) ==
    [words |-> words, listen |-> listen, url |-> url, raw |-> raw, collect |-> collect]

\* broken: it cannot be read or parsed.  No --config is a file without contents.
ConfigFile(broken, url, spellings) == [broken |-> broken, url |-> url, spellings |-> spellings]

ASSUME CommandLinesAssumption ==
    CommandLines \subseteq [words : Seq(STRING), listen : BOOLEAN, url : BOOLEAN,
                            raw : Seq(Spellings \cup {Malformed}), collect : BOOLEAN]
ASSUME FilesAssumption ==
    Files \subseteq [broken : BOOLEAN, url : BOOLEAN, spellings : SUBSET Spellings]

VARIABLES argv, file,  \* the inputs
          phase,       \* "config", "headers", "start", "local", "http" or "exited"
          headers,     \* the merged headers: spelling -> "config" or "flag"
          raw,         \* the flags that are still to be merged
          recording,   \* the stats file this process records into, or NoKey
          shown,       \* the stats file the stats subcommand printed, or NoKey
          code,        \* the exit code
          request, sent  \* over HTTP: the last request and the headers sent on

inputs == <<argv, file>>
vars == <<inputs, phase, headers, raw, recording, shown, code, request, sent>>

NoKey == [mode |-> "none", text |-> <<>>]
NoRequest == [mcp |-> FALSE, object |-> FALSE, from |-> {}]

Init ==
    /\ argv \in CommandLines /\ file \in Files
    /\ phase = "config"
    /\ headers = [s \in {} |-> "config"] /\ raw = argv.raw
    /\ recording = NoKey /\ shown = NoKey /\ code = 0
    /\ request = NoRequest /\ sent = [n \in Names |-> "absent"]

-----------------------------------------------------------------------------
(* Reading the command line *)

Begins(words, S) == words # <<>> /\ Head(words) \in S

\* flag.Parse ends at "--", which it takes away, or at the first other word.
Args(words) == IF Begins(words, {"--"}) THEN Tail(words) ELSE words

Subcommands == {"start", "stats"}
Subcommand(words) == IF Begins(Args(words), Subcommands) THEN Head(Args(words)) ELSE "start"

BugKeepsSeparator(args) == args

\* The separator that may follow the subcommand.
Stripped(args) == IF Begins(args, {"--"}) THEN Tail(args) ELSE args

Command(words) ==
    Stripped(IF Begins(Args(words), Subcommands) THEN Tail(Args(words)) ELSE Args(words))

HasURL == argv.url \/ file.url

\* The config key; the URL stands for itself.
ConfigKey(words) ==
    IF argv.listen /\ HasURL THEN [mode |-> "http", text |-> <<>>]
    ELSE IF Command(words) # <<>> THEN [mode |-> "local", text |-> Command(words)]
    ELSE NoKey

\* The exits that name what is wrong with the arguments.
Misused ==
    IF Subcommand(argv.words) = "stats" THEN ConfigKey(argv.words) = NoKey
    ELSE \/ HasURL # argv.listen
         \/ argv.listen <=> Command(argv.words) # <<>>

-----------------------------------------------------------------------------
(* main *)

Exits(c) ==
    /\ phase' = "exited" /\ code' = c
    /\ UNCHANGED <<inputs, headers, raw, request, sent>>

ReadsConfig ==
    /\ phase = "config" /\ ~ file.broken
    /\ headers' = [s \in file.spellings |-> "config"]
    /\ phase' = "headers"
    /\ UNCHANGED <<inputs, raw, recording, shown, code, request, sent>>

BugConfigWins(s) == [t \in DOMAIN headers \cup {s} |-> IF t \in DOMAIN headers THEN headers[t] ELSE "flag"]

\* headers[key] = value: a flag replaces a value of the file under that key.
WithFlag(s) == [t \in DOMAIN headers \cup {s} |-> IF t = s THEN "flag" ELSE headers[t]]

MergesHeader ==
    /\ phase = "headers" /\ raw # <<>> /\ Head(raw) # Malformed
    /\ headers' = WithFlag(Head(raw))
    /\ raw' = Tail(raw)
    /\ UNCHANGED <<inputs, phase, recording, shown, code, request, sent>>

\* log.Fatal or a usage message: a config that is broken, a malformed header, a
\* combination of arguments that makes no sense.
GivesUp ==
    /\ \/ phase = "config" /\ file.broken
       \/ phase = "headers" /\ Begins(raw, {Malformed})
       \/ phase = "headers" /\ raw = <<>> /\ Misused
    /\ Exits(1)
    /\ UNCHANGED <<recording, shown>>

\* The stats subcommand: before the mode is looked at.
ShowsStats ==
    /\ phase = "headers" /\ raw = <<>> /\ ~ Misused
    /\ Subcommand(argv.words) = "stats"
    /\ shown' = ConfigKey(argv.words)
    /\ Exits(0)
    /\ UNCHANGED recording

\* The cache, the statistics and then the server or the child process.
Starts ==
    /\ phase = "headers" /\ raw = <<>> /\ ~ Misused
    /\ Subcommand(argv.words) = "start"
    /\ recording' = IF argv.collect THEN ConfigKey(argv.words) ELSE NoKey
    /\ phase' = IF argv.listen THEN "http" ELSE "local"
    /\ UNCHANGED <<inputs, headers, raw, shown, code, request, sent>>

\* The directory, the pipes, the process or the port cannot be had; or serving
\* ends with an error, which is the only way it ends.
CannotGoOn ==
    /\ phase \in {"local", "http"}
    /\ Exits(1)
    /\ UNCHANGED <<recording, shown>>

\* Run and Wait have returned.
ChildExits(c) ==
    /\ phase = "local"
    /\ Exits(c)
    /\ UNCHANGED <<recording, shown>>

\* A client's request over HTTP is passed on.
Forwards(r) ==
    /\ phase = "http"
    /\ request' = r
    /\ sent' \in SentHeaders(r, headers)
    /\ UNCHANGED <<inputs, phase, headers, raw, recording, shown, code>>

Finished == phase = "exited" /\ UNCHANGED vars

Next ==
    \/ ReadsConfig \/ MergesHeader \/ GivesUp \/ ShowsStats \/ Starts \/ CannotGoOn
    \/ \E c \in {0, 2} : ChildExits(c)
    \/ \E r \in Requests : Forwards(r)
    \/ Finished

Spec == Init /\ [][Next]_vars

-----------------------------------------------------------------------------
(* Properties *)

\* What README.md tells users to type for the statistics of a running wrapper:
\* the same flags and words, with "stats" for "start" or before the rest.
StatsWords(words) ==
    <<"stats">> \o (IF Begins(words, {"start"}) THEN Tail(words) ELSE words)

\* "-- start x" runs x, and "-- -- x" does: a first word after the separator is
\* taken for a subcommand or another separator (main.go:65-72).
Ambiguous(words) ==
    Begins(words, {"--"}) /\ Begins(Tail(words), Subcommands \cup {"--"})

\* Whatever mode the flags, the words and the config file select, the stats
\* subcommand "with the same config you use to start the proxy" (README.md:179)
\* reads the file that the wrapper records into, provided that the command is
\* none of the words main takes for its own (main.go:60-73,121-140,161-169).
StatsFindable ==
    recording # NoKey /\ ~ Ambiguous(argv.words) =>
        /\ Subcommand(StatsWords(argv.words)) = "stats"
        /\ ConfigKey(StatsWords(argv.words)) = recording

\* Every header of the configuration is on every request the upstream gets, with
\* the flag's value if a flag and the file name it alike, and the client's own
\* headers are kept (README.md:110, main.go:95-110, server.go:99-106,218-238).
\* The exceptions: the MCP path prefers the client's value, the proxy's path the
\* configured one; a body that is no single message goes without configured
\* headers; two spellings of one name leave the choice to the map's order.
HeadersReach ==
    LET path == Path(request)
        Flags == { argv.raw[i] : i \in DOMAIN argv.raw }
        Alike(s) == { t \in Flags \cup file.spellings : Canon[t] = Canon[s] }
    IN phase = "http" /\ request # NoRequest =>
         /\ \A s \in Flags \cup file.spellings : LET n == Canon[s] IN
              path # "raw" /\ n \notin Managed =>
                \/ path = "post" /\ n \in request.from /\ sent[n] = "client"
                \/ Alike(s) = {s} /\ sent[n] = (IF s \in Flags THEN "flag" ELSE "config")
                \/ Alike(s) # {s} /\ sent[n] \in {"flag", "config"}
         /\ \A n \in request.from \ Managed :
              (path = "proxy" => \A s \in Flags \cup file.spellings : Canon[s] # n)
                => sent[n] = "client"
=============================================================================
