------------------------------- MODULE MCRelay -------------------------------
(* A ClientHello of 3 bytes in a stream of 7, read by 1 to 4 at a time, and *)
(* an answer of 2.                                                          *)
EXTENDS Relay
=============================================================================
