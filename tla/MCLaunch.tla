------------------------------ MODULE MCLaunch ------------------------------
(* A small instance of Launch for TLC. *)
EXTENDS Launch, TLC, SequencesExt

\* Two spellings of one name, and a name that the handler sets itself.
MCCanon == ("Authorization" :> "auth") @@ ("authorization" :> "auth") @@ ("Accept" :> "accept")

MCCommandLines ==
    { CommandLine(words, listen, url, flags, collect) :
        words \in BoundedSeq({"start", "stats", "--", "cmd"}, 3),
        listen \in BOOLEAN, url \in BOOLEAN, collect \in BOOLEAN,
        flags \in {<<>>, <<"Authorization">>, <<"Accept", "authorization">>, <<"Authorization", Malformed>>} }

MCFiles ==
    { ConfigFile(FALSE, url, spellings) : url \in BOOLEAN, spellings \in {{}, {"Authorization"}} }
      \cup { ConfigFile(TRUE, FALSE, {}) }
=============================================================================
