------------------------------ MODULE MCRoute ------------------------------
(* A small instance of Route. *)
EXTENDS Route, TLC

CONSTANTS c1, c2, c3
=============================================================================
