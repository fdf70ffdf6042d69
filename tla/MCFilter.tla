------------------------------ MODULE MCFilter ------------------------------
(* A small instance of Filter for TLC. *)
EXTENDS Filter

MCNumbers == -1 .. 5
=============================================================================
