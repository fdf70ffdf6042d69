------------------------------ MODULE MCCache ------------------------------
(* A small instance of Cache for TLC. *)
EXTENDS Cache

CONSTANTS small, middle, huge

\* Two entries that fit the budget of 3 together, two that do not, and one that
\* is larger than the budget by itself.
MCSize == (small :> 1) @@ (middle :> 2) @@ (huge :> 4)
=============================================================================
