-------------------------- MODULE ConnectionLimiter --------------------------
(***************************************************************************)
(* The process-wide connection cap of src/limiter.rs: a semaphore of       *)
(* `max_connections` permits and the counter Stats::connections, two       *)
(* objects that the RAII handle ConnectionSlot moves together but that no  *)
(* lock protects as a pair.  acquire_slot takes the permit and only then   *)
(* counts up; Drop for ConnectionSlot counts down in its body and only     *)
(* then are its fields dropped, which returns the permit.  The metrics API *)
(* and the shutdown drain read the counter between any two of these steps. *)
(***************************************************************************)
EXTENDS Integers, FiniteSets

CONSTANTS Handles,         \* the places a ConnectionSlot can live: the accept
                           \* loop's local variable, each connection's task
          MaxConnections   \* the semaphore's size, fixed at startup

VARIABLES permits,      \* permits available in the semaphore
          connections,  \* Stats::connections
          conn_slot     \* how far the slot at each handle is built or dropped

vars == <<permits, connections, conn_slot>>

SlotState == {"none",       \* no ConnectionSlot here
              "permit",     \* acquire_slot holds the permit, not yet counted
              "held",       \* a ConnectionSlot
              "uncounted"}  \* drop has counted down, its permit not yet returned

Holders == {h \in Handles : conn_slot[h] # "none"}
Held    == {h \in Handles : conn_slot[h] = "held"}

TypeOK ==
  /\ permits \in 0..MaxConnections
  /\ connections \in Nat
  /\ conn_slot \in [Handles -> SlotState]

Init ==
  /\ permits = MaxConnections
  /\ connections = 0
  /\ conn_slot = [h \in Handles |-> "none"]

------------------------------------------------------------------------------
(* Definitions named Mut... are slips the properties must catch; each one   *)
(* is a variant of the definition that follows it and is used nowhere else. *)
MutAcquirePermit(h) ==  \* does not wait for a permit
  /\ conn_slot[h] = "none"
  /\ permits' = permits - 1
  /\ conn_slot' = [conn_slot EXCEPT ![h] = "permit"]
  /\ UNCHANGED connections

AcquirePermit(h) ==
  /\ conn_slot[h] = "none"
  /\ permits > 0
  /\ permits' = permits - 1
  /\ conn_slot' = [conn_slot EXCEPT ![h] = "permit"]
  /\ UNCHANGED connections

CountUp(h) ==
  /\ conn_slot[h] = "permit"
  /\ connections' = connections + 1
  /\ conn_slot' = [conn_slot EXCEPT ![h] = "held"]
  /\ UNCHANGED permits

CountDown(h) ==
  /\ conn_slot[h] = "held"
  /\ connections' = connections - 1
  /\ conn_slot' = [conn_slot EXCEPT ![h] = "uncounted"]
  /\ UNCHANGED permits

MutReturnPermit(h) ==  \* the permit forgotten instead of dropped
  /\ conn_slot[h] = "uncounted"
  /\ conn_slot' = [conn_slot EXCEPT ![h] = "none"]
  /\ UNCHANGED <<permits, connections>>

ReturnPermit(h) ==
  /\ conn_slot[h] = "uncounted"
  /\ permits' = permits + 1
  /\ conn_slot' = [conn_slot EXCEPT ![h] = "none"]
  /\ UNCHANGED connections

MutMove(g, h) ==  \* the handle cloned, as the derive on IpSlot would allow
  /\ conn_slot[g] = "held"
  /\ conn_slot[h] = "none"
  /\ conn_slot' = [conn_slot EXCEPT ![h] = "held"]
  /\ UNCHANGED <<permits, connections>>

(* A slot changes owner: the accept loop moves it into the spawned task. *)
Move(g, h) ==
  /\ conn_slot[g] = "held"
  /\ conn_slot[h] = "none"
  /\ conn_slot' = [conn_slot EXCEPT ![g] = "none", ![h] = "held"]
  /\ UNCHANGED <<permits, connections>>

Step(h) == AcquirePermit(h) \/ CountUp(h) \/ CountDown(h) \/ ReturnPermit(h)

Next == (\E h \in Handles : Step(h)) \/ (\E g, h \in Handles : Move(g, h))

Spec == Init /\ [][Next]_vars

------------------------------------------------------------------------------
(* "so the two can never drift apart" (limiter.rs, ConnectionSlot): at any *)
(* point every permit not in the semaphore belongs to exactly one handle,  *)
(* and the counter is the number of complete slots, so it never wraps      *)
(* below zero, where active_connections() would read it as negative and    *)
(* end the drain at once.                                                  *)
PermitsAccounted ==
  /\ permits + Cardinality(Holders) = MaxConnections
  /\ connections = Cardinality(Held)

(* The gauge `connections_available` of metrics.rs: the subtraction         *)
(* saturates, and what it reports is never less than the number of permits *)
(* an acquire could take at that moment, whichever step it is read between.*)
Available == IF connections > MaxConnections THEN 0 ELSE MaxConnections - connections

GaugeCoversPermits == permits <= Available
=============================================================================
