--------------------------- MODULE IpLimiterProofs ---------------------------
(***************************************************************************)
(* Proofs about IpLimiter.  TypeOK /\ NoPhantomCount is inductive for any  *)
(* limits.  ExactCount needs the cap never to be 0 (StableLimits): then    *)
(* every slot of a public address is counted and no slot of a loopback     *)
(* address is, which is what SlotKinds adds to make it inductive.          *)
(***************************************************************************)
EXTENDS IpLimiter, FiniteSetTheorems, TLAPS

(* The cap is not switched off or on by any reload. *)
StableLimits == 0 \notin Limits

Now(p) == IF Ip(p) \in Loopback THEN {"none", "deciding", "uncounted"}
                                ELSE {"none", "deciding", "counted"}

SlotKinds ==
  \A p \in Peers : /\ ip_slot[p] \in Now(p)
                   /\ ip_slot[p] = "deciding" => loaded[p] \in Limits

PhantomInv == TypeOK /\ NoPhantomCount
ExactInv   == PhantomInv /\ SlotKinds /\ ExactCount

------------------------------------------------------------------------------
(* The sets Counted(a), as one peer's slot changes. *)

LEMMA CountedFinite == \A a : IsFiniteSet(Counted(a)) /\ Cardinality(Counted(a)) \in Nat
<1>1. IsFiniteSet(Peers)
  BY IpsAssumption, FS_Product DEF Peers
<1>2. \A a : Counted(a) \subseteq Peers
  BY DEF Counted
<1>. QED  BY <1>1, <1>2, FS_Subset, FS_CardinalityType

LEMMA CountedSame ==
  ASSUME TypeOK, NEW p \in Peers, NEW v,
         ip_slot' = [ip_slot EXCEPT ![p] = v],
         ip_slot[p] # "counted", v # "counted"
  PROVE  \A a : Counted(a)' = Counted(a)
BY DEF TypeOK, Counted

LEMMA CountedEnter ==
  ASSUME TypeOK, NEW p \in Peers,
         ip_slot' = [ip_slot EXCEPT ![p] = "counted"],
         ip_slot[p] # "counted"
  PROVE  /\ Cardinality(Counted(Ip(p))') = Cardinality(Counted(Ip(p))) + 1
         /\ \A a : a # Ip(p) => Counted(a)' = Counted(a)
<1>1. /\ p \notin Counted(Ip(p))
      /\ Counted(Ip(p))' = Counted(Ip(p)) \cup {p}
  BY DEF TypeOK, Counted
<1>2. \A a : a # Ip(p) => Counted(a)' = Counted(a)
  BY DEF TypeOK, Counted
<1>. QED  BY <1>1, <1>2, CountedFinite, FS_AddElement

LEMMA CountedLeave ==
  ASSUME TypeOK, NEW p \in Peers, NEW v,
         ip_slot' = [ip_slot EXCEPT ![p] = v],
         ip_slot[p] = "counted", v # "counted"
  PROVE  /\ Cardinality(Counted(Ip(p))') = Cardinality(Counted(Ip(p))) - 1
         /\ Cardinality(Counted(Ip(p))) >= 1
         /\ \A a : a # Ip(p) => Counted(a)' = Counted(a)
<1>1. /\ p \in Counted(Ip(p))
      /\ Counted(Ip(p))' = Counted(Ip(p)) \ {p}
  BY DEF TypeOK, Counted
<1>2. \A a : a # Ip(p) => Counted(a)' = Counted(a)
  BY DEF TypeOK, Counted
<1>3. Cardinality(Counted(Ip(p))') = Cardinality(Counted(Ip(p))) - 1
  BY <1>1, CountedFinite, FS_RemoveElement
<1>4. Cardinality(Counted(Ip(p))') \in Nat
  BY <1>1, CountedFinite, FS_Subset, FS_CardinalityType
<1>. QED  BY <1>2, <1>3, <1>4, CountedFinite

(* What the map holds after an insertion and after a drop. *)

LEMMA CountAfterWith ==
  ASSUME TypeOK, NEW a \in Ips, NEW n \in Nat, slots' = WithCount(a, n)
  PROVE  /\ DOMAIN slots' = DOMAIN slots \cup {a}
         /\ slots'[a] = n
         /\ \A b \in DOMAIN slots : b # a => slots'[b] = slots[b]
         /\ Count(a)' = n
         /\ \A b : b # a => Count(b)' = Count(b)
BY DEF TypeOK, WithCount, Count

LEMMA CountAfterDrop ==
  ASSUME TypeOK, NEW a \in Ips, slots' = AfterDrop(a)
  PROVE  /\ DOMAIN slots' = IF a \in DOMAIN slots /\ slots[a] = 1
                              THEN DOMAIN slots \ {a} ELSE DOMAIN slots
         /\ \A b \in DOMAIN slots : b # a => slots'[b] = slots[b]
         /\ a \in DOMAIN slots /\ slots[a] # 1 => slots'[a] = slots[a] - 1
         /\ Count(a)' = IF a \in DOMAIN slots THEN Count(a) - 1 ELSE 0
         /\ \A b : b # a => Count(b)' = Count(b)
<1>1. CASE a \notin DOMAIN slots
  BY <1>1 DEF TypeOK, AfterDrop, Count
<1>2. CASE a \in DOMAIN slots /\ slots[a] = 1
  BY <1>2 DEF TypeOK, AfterDrop, Count
<1>3. CASE a \in DOMAIN slots /\ slots[a] # 1
  BY <1>3 DEF TypeOK, AfterDrop, Count
<1>. QED  BY <1>1, <1>2, <1>3

LEMMA PeerIp == \A p \in Peers : Ip(p) \in Ips
BY DEF Peers, Ip

------------------------------------------------------------------------------
(* TypeOK and NoPhantomCount, whatever the limits. *)

LEMMA InitPhantomInv == Init => PhantomInv
<1>. SUFFICES ASSUME Init PROVE PhantomInv
  OBVIOUS
<1>1. TypeOK
  BY LimitsAssumption DEF Init, TypeOK
<1>2. NoPhantomCount
  BY DEF Init, NoPhantomCount
<1>. QED  BY <1>1, <1>2 DEF PhantomInv

LEMMA NextPhantomInv == PhantomInv /\ [Next]_vars => PhantomInv'
<1>. SUFFICES ASSUME PhantomInv, [Next]_vars PROVE PhantomInv'
  OBVIOUS
<1>. USE DEF PhantomInv
<1>1. ASSUME NEW p \in Peers, LoadLimit(p) PROVE PhantomInv'
  <2>1. TypeOK'
    BY <1>1, LimitsAssumption DEF LoadLimit, TypeOK
  <2>2. \A a : Counted(a)' = Counted(a)
    BY <1>1, CountedSame DEF LoadLimit
  <2>3. NoPhantomCount'
    BY <1>1, <2>2 DEF LoadLimit, NoPhantomCount
  <2>. QED  BY <2>1, <2>3
<1>2. ASSUME NEW p \in Peers, PassUnlimited(p) PROVE PhantomInv'
  <2>1. TypeOK'
    BY <1>2 DEF PassUnlimited, Decide, TypeOK
  <2>2. \A a : Counted(a)' = Counted(a)
    BY <1>2, CountedSame DEF PassUnlimited, Decide
  <2>3. NoPhantomCount'
    BY <1>2, <2>2 DEF PassUnlimited, Decide, NoPhantomCount
  <2>. QED  BY <2>1, <2>3
<1>3. ASSUME NEW p \in Peers, Reserve(p) PROVE PhantomInv'
  <2>. DEFINE a == Ip(p)
  <2>0. a \in Ips /\ Count(a) + 1 \in Nat
    BY PeerIp DEF TypeOK, Count
  <2>1. /\ DOMAIN slots' = DOMAIN slots \cup {a}
        /\ slots'[a] = Count(a) + 1
        /\ \A b \in DOMAIN slots : b # a => slots'[b] = slots[b]
    BY <1>3, <2>0, CountAfterWith DEF Reserve
  <2>2. /\ Cardinality(Counted(a)') = Cardinality(Counted(a)) + 1
        /\ \A b : b # a => Counted(b)' = Counted(b)
    BY <1>3, CountedEnter DEF Reserve, Decide
  <2>3. Count(a) <= Cardinality(Counted(a)) /\ Cardinality(Counted(a)) \in Nat
    BY CountedFinite DEF NoPhantomCount, Count
  <2>4. TypeOK'
    BY <1>3, <2>0, <2>1 DEF Reserve, Decide, TypeOK
  <2>5. NoPhantomCount'
    <3>. SUFFICES ASSUME NEW b \in DOMAIN slots'
                  PROVE  slots'[b] \in 1..Cardinality(Counted(b)')
      BY DEF NoPhantomCount
    <3>1. CASE b = a
      BY <3>1, <2>0, <2>1, <2>2, <2>3 DEF TypeOK, Count
    <3>2. CASE b # a
      BY <3>2, <2>1, <2>2 DEF NoPhantomCount
    <3>. QED  BY <3>1, <3>2
  <2>. QED  BY <2>4, <2>5
<1>4. ASSUME NEW p \in Peers, Reject(p) PROVE PhantomInv'
  <2>. DEFINE a == Ip(p)
  <2>0. a \in Ips /\ Count(a) \in Nat
    BY PeerIp DEF TypeOK, Count
  <2>1. /\ DOMAIN slots' = DOMAIN slots \cup {a}
        /\ slots'[a] = Count(a)
        /\ \A b \in DOMAIN slots : b # a => slots'[b] = slots[b]
    BY <1>4, <2>0, CountAfterWith DEF Reject
  <2>2. \A b : Counted(b)' = Counted(b)
    BY <1>4, CountedSame DEF Reject, Decide
  <2>3. Count(a) >= 1
    BY <1>4, <2>0 DEF Reject, HasRoom, Unlimited, TypeOK
  <2>4. a \in DOMAIN slots /\ slots[a] = Count(a)
    BY <2>3 DEF Count
  <2>5. TypeOK'
    BY <1>4, <2>0, <2>1 DEF Reject, Decide, TypeOK
  <2>6. NoPhantomCount'
    BY <2>1, <2>2, <2>4 DEF NoPhantomCount
  <2>. QED  BY <2>5, <2>6
<1>5. ASSUME NEW p \in Peers, DropSlot(p) PROVE PhantomInv'
  <2>. DEFINE a == Ip(p)
  <2>0. a \in Ips
    BY PeerIp
  <2>1. /\ DOMAIN slots' = IF a \in DOMAIN slots /\ slots[a] = 1
                             THEN DOMAIN slots \ {a} ELSE DOMAIN slots
        /\ \A b \in DOMAIN slots : b # a => slots'[b] = slots[b]
        /\ a \in DOMAIN slots /\ slots[a] # 1 => slots'[a] = slots[a] - 1
    BY <1>5, <2>0, CountAfterDrop DEF DropSlot
  <2>2. /\ \A b : b # a => Counted(b)' = Counted(b)
        /\ Cardinality(Counted(a)') >= Cardinality(Counted(a)) - 1
    <3>1. CASE ip_slot[p] = "counted"
      <4>1. /\ Cardinality(Counted(a)') = Cardinality(Counted(a)) - 1
            /\ \A b : b # a => Counted(b)' = Counted(b)
        BY <1>5, <3>1, CountedLeave DEF DropSlot
      <4>. QED  BY <4>1, CountedFinite
    <3>2. CASE ip_slot[p] # "counted"
      <4>1. \A b : Counted(b)' = Counted(b)
        BY <1>5, <3>2, CountedSame DEF DropSlot
      <4>. QED  BY <4>1, CountedFinite
    <3>. QED  BY <3>1, <3>2
  <2>3. /\ Cardinality(Counted(a)) \in Nat
        /\ IsFiniteSet(Counted(a)')
        /\ Cardinality(Counted(a)') \in Nat
    <3>1. Counted(a)' \subseteq Counted(a)
      BY <1>5 DEF DropSlot, Counted, TypeOK
    <3>. QED  BY <3>1, CountedFinite, FS_Subset, FS_CardinalityType
  <2>4. TypeOK'
    BY <1>5, <2>1 DEF DropSlot, TypeOK, NoPhantomCount
  <2>5. NoPhantomCount'
    BY <2>1, <2>2, <2>3 DEF NoPhantomCount
  <2>. QED  BY <2>4, <2>5
<1>6. ASSUME NEW n \in Limits, SetLimit(n) PROVE PhantomInv'
  BY <1>6 DEF SetLimit, TypeOK, NoPhantomCount, Counted
<1>7. CASE UNCHANGED vars
  BY <1>7 DEF vars, TypeOK, NoPhantomCount, Counted
<1>. QED  BY <1>1, <1>2, <1>3, <1>4, <1>5, <1>6, <1>7 DEF Next, Step

(* IpLimiter's state is always well formed: in particular the count is     *)
(* never taken below zero, which in a release build would wrap and in a    *)
(* debug build panic with the lock held.                                   *)
THEOREM TypeCorrect == Spec => []TypeOK
<1>1. PhantomInv => TypeOK
  BY DEF PhantomInv
<1>. QED  BY <1>1, InitPhantomInv, NextPhantomInv, PTL DEF Spec

(* For any limits and any reloads, off and on included, the map never      *)
(* charges an IP for a slot it does not hold and keeps no idle entry       *)
(* (IpSlot::drop: "idle IPs don't linger").                                *)
THEOREM NoPhantomCountHolds == Spec => []NoPhantomCount
<1>1. PhantomInv => NoPhantomCount
  BY DEF PhantomInv
<1>. QED  BY <1>1, InitPhantomInv, NextPhantomInv, PTL DEF Spec

------------------------------------------------------------------------------
(* ExactCount and AdmissionWithinLimit, while the cap is never 0. *)

LEMMA InitExactInv == Init => ExactInv
<1>. SUFFICES ASSUME Init PROVE ExactInv
  OBVIOUS
<1>1. \A a \in Ips : Counted(a) = {} /\ Count(a) = 0
  BY DEF Init, Counted, Count
<1>2. ExactCount
  BY <1>1, FS_EmptySet DEF ExactCount
<1>3. SlotKinds
  BY DEF Init, SlotKinds, Now
<1>. QED  BY <1>2, <1>3, InitPhantomInv DEF ExactInv

LEMMA NextSlotKinds == StableLimits /\ ExactInv /\ [Next]_vars => SlotKinds'
<1>. SUFFICES ASSUME StableLimits, ExactInv, [Next]_vars PROVE SlotKinds'
  OBVIOUS
<1>. USE DEF ExactInv, PhantomInv, TypeOK, SlotKinds, Now
<1>1. ASSUME NEW p \in Peers, LoadLimit(p) PROVE SlotKinds'
  BY <1>1 DEF LoadLimit
<1>2. ASSUME NEW p \in Peers, PassUnlimited(p) PROVE SlotKinds'
  <2>1. Ip(p) \in Loopback
    BY <1>2 DEF PassUnlimited, Unlimited, StableLimits
  <2>. QED  BY <1>2, <2>1 DEF PassUnlimited, Decide
<1>3. ASSUME NEW p \in Peers, Reserve(p) PROVE SlotKinds'
  BY <1>3 DEF Reserve, Unlimited, Decide
<1>4. ASSUME NEW p \in Peers, Reject(p) PROVE SlotKinds'
  BY <1>4 DEF Reject, Decide
<1>5. ASSUME NEW p \in Peers, DropSlot(p) PROVE SlotKinds'
  BY <1>5 DEF DropSlot
<1>6. ASSUME NEW n \in Limits, SetLimit(n) PROVE SlotKinds'
  BY <1>6 DEF SetLimit
<1>7. CASE UNCHANGED vars
  BY <1>7 DEF vars
<1>. QED  BY <1>1, <1>2, <1>3, <1>4, <1>5, <1>6, <1>7 DEF Next, Step

LEMMA NextExactCount == ExactInv /\ [Next]_vars => ExactCount'
<1>. SUFFICES ASSUME ExactInv, [Next]_vars, NEW a \in Ips
              PROVE  Count(a)' = Cardinality(Counted(a)')
  BY DEF ExactCount
<1>. USE DEF ExactInv, PhantomInv
<1>0. Count(a) = Cardinality(Counted(a))
  BY DEF ExactCount
<1>1. ASSUME NEW p \in Peers, LoadLimit(p) \/ PassUnlimited(p)
      PROVE  Count(a)' = Cardinality(Counted(a)')
  <2>1. Counted(a)' = Counted(a)
    BY <1>1, CountedSame DEF LoadLimit, PassUnlimited, Decide
  <2>2. Count(a)' = Count(a)
    BY <1>1 DEF LoadLimit, PassUnlimited, Count
  <2>. QED  BY <1>0, <2>1, <2>2
<1>2. ASSUME NEW p \in Peers, Reserve(p)
      PROVE  Count(a)' = Cardinality(Counted(a)')
  <2>1. /\ Count(Ip(p))' = Count(Ip(p)) + 1
        /\ a # Ip(p) => Count(a)' = Count(a)
    <3>1. Ip(p) \in Ips /\ Count(Ip(p)) + 1 \in Nat
      BY PeerIp DEF TypeOK, Count
    <3>. QED  BY <1>2, <3>1, CountAfterWith DEF Reserve
  <2>2. /\ Cardinality(Counted(Ip(p))') = Cardinality(Counted(Ip(p))) + 1
        /\ a # Ip(p) => Counted(a)' = Counted(a)
    BY <1>2, CountedEnter DEF Reserve, Decide
  <2>3. CASE a = Ip(p)
    BY <1>0, <2>1, <2>2, <2>3
  <2>4. CASE a # Ip(p)
    BY <1>0, <2>1, <2>2, <2>4
  <2>. QED  BY <2>3, <2>4
<1>3. ASSUME NEW p \in Peers, Reject(p)
      PROVE  Count(a)' = Cardinality(Counted(a)')
  <2>1. Count(a)' = Count(a)
    <3>1. Ip(p) \in Ips /\ Count(Ip(p)) \in Nat
      BY PeerIp DEF TypeOK, Count
    <3>. QED  BY <1>3, <3>1, CountAfterWith DEF Reject
  <2>2. Counted(a)' = Counted(a)
    BY <1>3, CountedSame DEF Reject, Decide
  <2>. QED  BY <1>0, <2>1, <2>2
<1>4. ASSUME NEW p \in Peers, DropSlot(p)
      PROVE  Count(a)' = Cardinality(Counted(a)')
  <2>1. /\ Count(Ip(p))' = IF Ip(p) \in DOMAIN slots THEN Count(Ip(p)) - 1 ELSE 0
        /\ a # Ip(p) => Count(a)' = Count(a)
    BY <1>4, PeerIp, CountAfterDrop DEF DropSlot
  <2>2. CASE ip_slot[p] = "counted"
    <3>1. /\ Cardinality(Counted(Ip(p))') = Cardinality(Counted(Ip(p))) - 1
          /\ Cardinality(Counted(Ip(p))) >= 1
          /\ a # Ip(p) => Counted(a)' = Counted(a)
      BY <1>4, <2>2, CountedLeave DEF DropSlot
    <3>2. CASE a = Ip(p)
      <4>1. a \in DOMAIN slots
        BY <1>0, <3>1, <3>2 DEF Count
      <4>. QED  BY <1>0, <2>1, <3>1, <3>2, <4>1
    <3>3. CASE a # Ip(p)
      BY <1>0, <2>1, <3>1, <3>3
    <3>. QED  BY <3>2, <3>3
  <2>3. CASE ip_slot[p] # "counted"
    <3>1. Counted(a)' = Counted(a)
      BY <1>4, <2>3, CountedSame DEF DropSlot
    <3>2. CASE a = Ip(p)
      <4>1. a \in Loopback
        BY <1>4, <2>3, <3>2 DEF DropSlot, SlotKinds, Now
      <4>2. Counted(a) = {}
        BY <4>1 DEF Counted, SlotKinds, Now
      <4>3. Cardinality(Counted(a)) = 0
        BY <4>2, FS_EmptySet
      <4>4. a \notin DOMAIN slots
        BY <4>3 DEF NoPhantomCount
      <4>. QED  BY <2>1, <3>1, <3>2, <4>3, <4>4
    <3>3. CASE a # Ip(p)
      BY <1>0, <2>1, <3>1, <3>3
    <3>. QED  BY <3>2, <3>3
  <2>. QED  BY <2>2, <2>3
<1>5. ASSUME NEW n \in Limits, SetLimit(n)
      PROVE  Count(a)' = Cardinality(Counted(a)')
  BY <1>0, <1>5 DEF SetLimit, Count, Counted
<1>6. CASE UNCHANGED vars
  BY <1>0, <1>6 DEF vars, Count, Counted
<1>. QED  BY <1>1, <1>2, <1>3, <1>4, <1>5, <1>6 DEF Next, Step

LEMMA NextExactInv == StableLimits /\ ExactInv /\ [Next]_vars => ExactInv'
BY NextPhantomInv, NextSlotKinds, NextExactCount DEF ExactInv

(* While no reload switches the cap off or on, the map is exact: it holds   *)
(* for each IP the number of its slots, in every interleaving of the calls, *)
(* the drops and the reloads.                                               *)
THEOREM ExactCountHolds ==
  ASSUME StableLimits
  PROVE  Spec => []ExactCount
<1>1. ExactInv /\ [Next]_vars => ExactInv'
  BY NextExactInv
<1>2. ExactInv => ExactCount
  BY DEF ExactInv
<1>. QED  BY <1>1, <1>2, InitExactInv, PTL DEF Spec

LEMMA StepWithinLimit ==
  ExactInv /\ [Next]_vars =>
    [\A p \in Peers : CountsIn(p) => Cardinality(Counted(Ip(p))) < loaded[p]]_vars
<1>. SUFFICES ASSUME ExactInv, Next, NEW p \in Peers, CountsIn(p)
              PROVE  Cardinality(Counted(Ip(p))) < loaded[p]
  OBVIOUS
<1>. USE DEF ExactInv, PhantomInv, TypeOK, CountsIn
<1>1. Reserve(p)
  <2>1. ASSUME NEW q \in Peers, LoadLimit(q) PROVE FALSE
    BY <2>1 DEF LoadLimit
  <2>2. ASSUME NEW q \in Peers, PassUnlimited(q) PROVE FALSE
    BY <2>2 DEF PassUnlimited, Decide
  <2>3. ASSUME NEW q \in Peers, Reserve(q) PROVE q = p
    BY <2>3 DEF Reserve, Decide
  <2>4. ASSUME NEW q \in Peers, Reject(q) PROVE FALSE
    BY <2>4 DEF Reject, Decide
  <2>5. ASSUME NEW q \in Peers, DropSlot(q) PROVE FALSE
    BY <2>5 DEF DropSlot
  <2>6. ASSUME NEW n \in Limits, SetLimit(n) PROVE FALSE
    BY <2>6 DEF SetLimit
  <2>. QED  BY <2>1, <2>2, <2>3, <2>4, <2>5, <2>6 DEF Next, Step
<1>. QED  BY <1>1, PeerIp DEF Reserve, HasRoom, ExactCount

(* ... and a connection is counted in only while its IP holds fewer slots   *)
(* than the limit its call loaded: try_acquire_slot's promise.              *)
THEOREM AdmissionWithinLimitHolds ==
  ASSUME StableLimits
  PROVE  Spec => AdmissionWithinLimit
<1>1. ExactInv /\ [Next]_vars => ExactInv'
  BY NextExactInv
<1>. QED  BY <1>1, InitExactInv, StepWithinLimit, PTL DEF Spec, AdmissionWithinLimit
=============================================================================
