---------------------------- MODULE MCHttpServer ----------------------------
(* Small instances of HttpServer for TLC. *)
EXTENDS HttpServer

CONSTANTS small, large, long, huge, h1, h2

\* Below the threshold of 2, above it and as long as a line may be, longer than a
\* line and as long as a body of 4, longer than the body.
MCSize == (small :> 1) @@ (large :> 3) @@ (long :> 4) @@ (huge :> 5)

\* One POST of every kind with every answer, and beside it one that works on the
\* cache: the two meet nowhere else.
MCMethods ==
    (h1 :> {"tools/list", "tools/call", "seek_result", "other", "garbage"}) @@
    (h2 :> {"tools/call", "seek_result"})
MCDefects == (h1 :> {"none", "gzip", "broken", "refused", "stalls"}) @@ (h2 :> {"none"})
MCStrays == (h1 :> {large}) @@ (h2 :> {})
=============================================================================
