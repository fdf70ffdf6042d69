------------------------------ MODULE MCStats ------------------------------
(* Small instances of Stats for TLC. *)
EXTENDS Stats, TLC

CONSTANTS p1, p2, w1, w2, w3

\* Two goroutines of one process and one of another that uses the same file.
MCShared == (w1 :> p1) @@ (w2 :> p1) @@ (w3 :> p2)

\* One goroutine each: the least that tears a file.
MCTwoProcesses == (w1 :> p1) @@ (w3 :> p2)
MCSymmetry == Permutations(Inodes)
=============================================================================
