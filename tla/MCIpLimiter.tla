----------------------------- MODULE MCIpLimiter -----------------------------
(* A small instance of IpLimiter for TLC: three connections of one public   *)
(* address, which shares nothing with any other, and a cap of one, on and   *)
(* off.                                                                     *)
EXTENDS IpLimiter, TLC

CONSTANTS ip1, port1, port2, port3

PortSymmetry == Permutations(Ports)
=============================================================================
