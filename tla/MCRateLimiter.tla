---------------------------- MODULE MCRateLimiter ----------------------------
(* A small instance of RateLimiter: half a token per tick, one or two tokens *)
(* of burst, and the limiter switched off.                                   *)
EXTENDS RateLimiter

CONSTANTS ip1, lo

SomeLimits == {<<2, 1>>, <<4, 1>>, <<4, 0>>}
=============================================================================
