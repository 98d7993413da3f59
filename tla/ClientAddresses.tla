---------------------------- MODULE ClientAddresses ----------------------------
(***************************************************************************)
(* The clients the per-IP cap tells apart, and the caps it is given: what  *)
(* IpLimiter and the accept loop that uses it assume of their parameters.  *)
(***************************************************************************)
EXTENDS Integers, FiniteSets

CONSTANTS Ips,       \* client addresses
          Ports,     \* client ports: how many connections an address may try
          Loopback,  \* the addresses for which is_loopback() holds
          Limits     \* the values max_connections_per_ip takes over the reloads

ASSUME IpsAssumption      == IsFiniteSet(Ips) /\ IsFiniteSet(Ports)
ASSUME LimitsAssumption   == Limits \subseteq Nat /\ Limits # {}
ASSUME LoopbackAssumption == Loopback \subseteq Ips
=============================================================================
