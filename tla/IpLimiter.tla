------------------------------ MODULE IpLimiter ------------------------------
(***************************************************************************)
(* The per-IP connection cap of src/ip_limiter.rs: a map from client IP to *)
(* the number of slots it holds, guarded by a mutex, and the live-settable *)
(* cap `max_per_ip`, an atomic that try_acquire_slot reads BEFORE it takes *)
(* the mutex.  A call of try_acquire_slot is therefore two steps: LoadLimit*)
(* and then one of PassUnlimited, Reserve and Reject, with other callers,  *)
(* drops and set_limit free to run in between.  Each critical section of   *)
(* the mutex is one atomic step.                                           *)
(*                                                                         *)
(* A peer is a socket address <<ip, port>>, and a peer holds at most one   *)
(* IpSlot.  The code's IpSlot does not remember whether it was counted;    *)
(* ip_slot[p] distinguishes "counted" from "uncounted" as history, and     *)
(* DropSlot, like the code, ignores the distinction.                       *)
(***************************************************************************)
EXTENDS ClientAddresses

VARIABLES slots,       \* Inner.slots: the map, a function on the tracked IPs
          max_per_ip,  \* Inner.max_per_ip: 0 means disabled
          ip_slot,     \* the IpSlot of each peer's connection, if any
          loaded       \* the limit a call under way has loaded (else 0)

vars == <<slots, max_per_ip, ip_slot, loaded>>

Peers == Ips \X Ports
Ip(p) == p[1]

Count(a)   == IF a \in DOMAIN slots THEN slots[a] ELSE 0
Counted(a) == {p \in Peers : Ip(p) = a /\ ip_slot[p] = "counted"}

TypeOK ==
  /\ DOMAIN slots \subseteq Ips
  /\ \A a \in DOMAIN slots : slots[a] \in Nat
  /\ max_per_ip \in Limits
  /\ ip_slot \in [Peers -> {"none", "deciding", "counted", "uncounted"}]
  /\ loaded \in [Peers -> Nat]

Init ==
  /\ slots = [a \in {} |-> 0]
  /\ max_per_ip \in Limits
  /\ ip_slot = [p \in Peers |-> "none"]
  /\ loaded = [p \in Peers |-> 0]

------------------------------------------------------------------------------
(* slots with a's entry set to n *)
WithCount(a, n) == [b \in DOMAIN slots \cup {a} |-> IF b = a THEN n ELSE slots[b]]

(* Definitions named Mut... are slips the properties must catch; each one   *)
(* is a variant of the definition that follows it and is used nowhere else. *)
MutAfterDropForgetsIp(a) ==  \* the entry removed whatever its count
  [b \in DOMAIN slots \ {a} |-> slots[b]]

(* slots after `*slot -= 1` and, at zero, `remove`; no entry, no change *)
AfterDrop(a) ==
  IF a \notin DOMAIN slots THEN slots
  ELSE IF slots[a] = 1 THEN [b \in DOMAIN slots \ {a} |-> slots[b]]
  ELSE [slots EXCEPT ![a] = slots[a] - 1]

Unlimited(p) == loaded[p] = 0 \/ Ip(p) \in Loopback

MutHasRoom(p) == Count(Ip(p)) <= loaded[p]  \* `>` for `>=`
HasRoom(p)    == Count(Ip(p)) < loaded[p]

Decide(p, outcome) ==
  /\ ip_slot' = [ip_slot EXCEPT ![p] = outcome]
  /\ loaded' = [loaded EXCEPT ![p] = 0]
  /\ UNCHANGED max_per_ip

LoadLimit(p) ==
  /\ ip_slot[p] = "none"
  /\ ip_slot' = [ip_slot EXCEPT ![p] = "deciding"]
  /\ loaded' = [loaded EXCEPT ![p] = max_per_ip]
  /\ UNCHANGED <<slots, max_per_ip>>

(* The early return: a slot is handed out and the map is not touched. *)
PassUnlimited(p) ==
  /\ ip_slot[p] = "deciding"
  /\ Unlimited(p)
  /\ Decide(p, "uncounted")
  /\ UNCHANGED slots

Reserve(p) ==
  /\ ip_slot[p] = "deciding"
  /\ ~Unlimited(p)
  /\ HasRoom(p)
  /\ slots' = WithCount(Ip(p), Count(Ip(p)) + 1)
  /\ Decide(p, "counted")

MutReject(p) ==  \* counted before the comparison, and not taken back
  /\ ip_slot[p] = "deciding"
  /\ ~Unlimited(p)
  /\ ~HasRoom(p)
  /\ slots' = WithCount(Ip(p), Count(Ip(p)) + 1)
  /\ Decide(p, "none")

(* `or_insert(0)` has run by the time the call returns None. *)
Reject(p) ==
  /\ ip_slot[p] = "deciding"
  /\ ~Unlimited(p)
  /\ ~HasRoom(p)
  /\ slots' = WithCount(Ip(p), Count(Ip(p)))
  /\ Decide(p, "none")

DropSlot(p) ==
  /\ ip_slot[p] \in {"counted", "uncounted"}
  /\ slots' = AfterDrop(Ip(p))
  /\ ip_slot' = [ip_slot EXCEPT ![p] = "none"]
  /\ UNCHANGED <<max_per_ip, loaded>>

SetLimit(n) ==
  /\ max_per_ip' = n
  /\ UNCHANGED <<slots, ip_slot, loaded>>

Step(p) ==
  LoadLimit(p) \/ PassUnlimited(p) \/ Reserve(p) \/ Reject(p) \/ DropSlot(p)

Next == (\E p \in Peers : Step(p)) \/ (\E n \in Limits : SetLimit(n))

Spec == Init /\ [][Next]_vars

------------------------------------------------------------------------------
(* The map never over-counts and holds no idle entry, whatever the limits  *)
(* and even across reloads that switch the cap off and on: an IP is never  *)
(* refused for slots it does not hold, and an IP with no slot is forgotten *)
(* ("idle IPs don't linger", IpSlot::drop).                                *)
NoPhantomCount == \A a \in DOMAIN slots : slots[a] \in 1..Cardinality(Counted(a))

(* While the cap is never reloaded to or from 0, the map holds exactly the *)
(* number of slots each IP holds: no interleaving of try_acquire_slot,     *)
(* drop and set_limit loses or invents one.                                *)
ExactCount == \A a \in Ips : Count(a) = Cardinality(Counted(a))

(* try_acquire_slot "returns None if addr already has max_per_ip           *)
(* connections open": a step that counts p in is taken only when fewer     *)
(* than the limit the call loaded are counted in for its IP.               *)
CountsIn(p) == ip_slot[p] = "deciding" /\ ip_slot'[p] = "counted"

AdmissionWithinLimit ==
  [][\A p \in Peers : CountsIn(p) => Cardinality(Counted(Ip(p))) < loaded[p]]_vars
=============================================================================
