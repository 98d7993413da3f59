----------------------------- MODULE MCAcceptLoop -----------------------------
(* Small instances of AcceptLoop. *)
EXTENDS AcceptLoop, TLC

CONSTANTS ip1, ip2, port1, port2, port3

PortSymmetry == Permutations(Ports)
=============================================================================
