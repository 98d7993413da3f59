------------------------------ MODULE Admission ------------------------------
(***************************************************************************)
(* What reprox promises about admission, said without permits, counters or *)
(* locks: a connection is judged by the per-IP limit in force when it was  *)
(* offered, and is admitted only while fewer than max_connections          *)
(* connections are open in all, and fewer than that limit from its own IP. *)
(* AcceptLoop is shown to implement it.                                    *)
(***************************************************************************)
EXTENDS Integers, FiniteSets

CONSTANTS Ips, Ports, Loopback, Limits, MaxConnections

VARIABLES open,    \* the connections admitted and not yet released
          offers,  \* <<p, n>>: p is being judged against the limit n
          limit    \* max_connections_per_ip in force

vars == <<open, offers, limit>>

Peers == Ips \X Ports

OpenFrom(a) == {p \in open : p[1] = a}

Init == open = {} /\ offers = {} /\ limit \in Limits

Offer(p) ==
  /\ p \notin open
  /\ offers' = offers \cup {<<p, limit>>}
  /\ UNCHANGED <<open, limit>>

Admit(p, n) ==
  /\ <<p, n>> \in offers
  /\ Cardinality(open) < MaxConnections
  /\ p[1] \in Loopback \/ n = 0 \/ Cardinality(OpenFrom(p[1])) < n
  /\ open' = open \cup {p}
  /\ offers' = offers \ {<<p, n>>}
  /\ UNCHANGED limit

(* A refusal needs its reason: the limit is reached for p's IP. *)
Refuse(p, n) ==
  /\ <<p, n>> \in offers
  /\ p[1] \notin Loopback
  /\ n # 0
  /\ Cardinality(OpenFrom(p[1])) >= n
  /\ offers' = offers \ {<<p, n>>}
  /\ UNCHANGED <<open, limit>>

Release(p) ==
  /\ p \in open
  /\ open' = open \ {p}
  /\ UNCHANGED <<offers, limit>>

SetLimit(n) == limit' = n /\ UNCHANGED <<open, offers>>

Next ==
  \/ \E p \in Peers : Offer(p) \/ Release(p)
  \/ \E p \in Peers, n \in Limits : Admit(p, n) \/ Refuse(p, n)
  \/ \E n \in Limits : SetLimit(n)

Spec == Init /\ [][Next]_vars
=============================================================================
