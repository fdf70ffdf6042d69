---------------------------- MODULE MCStdioProxy ----------------------------
(* Small instances of StdioProxy for TLC. *)
EXTENDS StdioProxy

CONSTANTS small, exact, large

\* Below the threshold of 2, at it, and above.
MCSize == [c \in Contents |-> CASE c = small -> 1 [] c = exact -> 2 [] c = large -> 3]
MCSymmetry == Permutations(CacheIds)
=============================================================================
