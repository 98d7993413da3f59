-------------------------- MODULE RateLimiterProofs --------------------------
(***************************************************************************)
(* Proofs about RateLimiter, for any addresses, limits, rates and bounds.  *)
(* TypeInv adds to TypeOK that no clock reading is ahead of the clock;     *)
(* BehindInv compares every bucket with the one of a limiter that never    *)
(* forgets; SameLimits says that until a reload all limits loaded agree;   *)
(* Account weighs what an address was let in and still has against the     *)
(* bursts and the time behind it, reloads and old readings included.       *)
(***************************************************************************)
EXTENDS RateLimiter, TLAPS

(* Facts about products, which the SMT encoding does not find by itself. *)

LEMMA ProductNat ==
  ASSUME NEW x \in Nat, NEW y \in Nat
  PROVE  x * y \in Nat
  BY SMT

LEMMA ProductMonotone ==
  ASSUME NEW x \in Nat, NEW y \in Nat, NEW r \in Nat, x <= y
  PROVE  x * r <= y * r
<1>1. (y - x) * r \in Nat
  BY ProductNat
<1>2. y * r = x * r + (y - x) * r
  BY SMT
<1> QED
  BY <1>1, <1>2, ProductNat

LEMMA ProductOfSum ==
  ASSUME NEW x \in Nat, NEW y \in Nat, NEW z \in Nat, NEW r \in Nat, x <= y + z
  PROVE  x * r <= y * r + z * r
<1>1. x * r <= (y + z) * r
  BY ProductMonotone, SMT
<1>2. (y + z) * r = y * r + z * r
  BY SMT
<1> QED
  BY <1>1, <1>2, ProductNat
------------------------------------------------------------------------------
ClocksRead == \A k \in Callers : call[k].now <= now

TypeInv == TypeOK /\ ClocksRead

IsBucket(b) == b.tokens \in Int /\ b.last_refill \in Nat
IsCall(c)   == c.capacity \in Nat /\ c.refill \in Nat /\ c.now \in Nat

(* Refilling: what a refilled bucket holds is bounded by the capacity, is   *)
(* no less than nothing if it was so before, and adds only what was earned. *)
LEMMA ElapsedType ==
  ASSUME NEW b, IsBucket(b), NEW t \in Nat
  PROVE  /\ Elapsed(b, t) \in Nat
         /\ \A r \in Nat : Elapsed(b, t) * r \in Nat
<1>1. Elapsed(b, t) \in Nat
  BY DEF Elapsed, IsBucket
<1> QED
  BY <1>1, ProductNat

LEMMA LevelType ==
  ASSUME NEW b, IsBucket(b), NEW c, IsCall(c)
  PROVE  /\ Level(b, c) \in Int /\ Level(b, c) <= c.capacity
         /\ b.tokens >= 0 => Level(b, c) >= 0
<1>1. Elapsed(b, c.now) * c.refill \in Nat
  BY ElapsedType DEF IsCall
<1> QED
  BY <1>1 DEF Level, AtMost, IsBucket, IsCall

(* Two buckets last refilled at the same time: the fuller one stays ahead,  *)
(* and never by more than it was.                                           *)
LEMMA LevelMonotone ==
  ASSUME NEW b, IsBucket(b), NEW d, IsBucket(d), NEW c, IsCall(c),
         b.last_refill = d.last_refill, b.tokens <= d.tokens
  PROVE  /\ Level(b, c) <= Level(d, c)
         /\ Level(d, c) - Level(b, c) <= d.tokens - b.tokens
<1>1. Elapsed(b, c.now) * c.refill \in Nat
  BY ElapsedType DEF IsCall
<1>2. Elapsed(b, c.now) = Elapsed(d, c.now)
  BY DEF Elapsed
<1> QED
  BY <1>1, <1>2 DEF Level, AtMost, IsBucket, IsCall

------------------------------------------------------------------------------
LEMMA EntryType ==
  ASSUME TypeOK, NEW a \in Ips, NEW c, IsCall(c)
  PROVE  /\ IsBucket(Entry(a, c)) /\ Entry(a, c).tokens >= 0
         /\ IsBucket(IdealEntry(a, c))
BY DEF TypeOK, Entry, IdealEntry, Fresh, Bucket, IsBucket, IsCall

LEMMA CallType ==
  ASSUME TypeOK, NEW k \in Callers
  PROVE  IsCall(call[k])
BY DEF TypeOK, Call, IsCall

LEMMA IdleType == Idle \in Call /\ Idle.now = 0
BY DEF Idle, Call

(* One call's record replaced by another one that is well formed. *)
LEMMA CallStep ==
  ASSUME TypeInv, NEW k \in Callers, NEW r \in Call, r.now <= now,
         call' = [call EXCEPT ![k] = r], now' = now
  PROVE  call' \in [Callers -> Call] /\ ClocksRead'
<1>1. call' \in [Callers -> Call]
  BY DEF TypeInv, TypeOK
<1>2. \A j \in Callers : call'[j] = IF j = k THEN r ELSE call[j]
  BY DEF TypeInv, TypeOK
<1> QED
  BY <1>1, <1>2 DEF TypeInv, ClocksRead

LEMMA TypeInit == Init => TypeInv
BY LimitsAssumption DEF Init, TypeInv, TypeOK, ClocksRead, Callers, Idle, Bucket, Call

LEMMA TypeNext == TypeInv /\ [Next]_vars => TypeInv'
<1> SUFFICES ASSUME TypeInv, [Next]_vars PROVE TypeOK' /\ ClocksRead'
  BY DEF TypeInv
<1>t. TypeOK /\ ClocksRead
  BY DEF TypeInv
<1>c. \A k \in Callers : call[k] \in Call /\ call[k].now <= now
  BY <1>t DEF TypeOK, ClocksRead
<1>n. now \in Nat /\ capacity \in Nat /\ refill \in Nat
  BY <1>t DEF TypeOK
<1>i. Idle \in Call /\ Idle.now <= now
  BY <1>n, IdleType
<1>1. ASSUME NEW k \in Callers, LoadCapacity(k) PROVE TypeOK' /\ ClocksRead'
  <2> DEFINE r == [call[k] EXCEPT !.at = "refill", !.capacity = capacity]
  <2>1. r \in Call /\ r.now <= now
    BY <1>c, <1>n DEF Call
  <2>2. call' = [call EXCEPT ![k] = r]
    BY <1>1 DEF LoadCapacity
  <2> HIDE DEF r
  <2>3. call' \in [Callers -> Call] /\ ClocksRead'
    BY <1>1, <2>1, <2>2, CallStep DEF LoadCapacity
  <2> QED
    BY <1>t, <1>1, <2>3 DEF LoadCapacity, TypeOK, limitVars, historyVars
<1>2. ASSUME NEW k \in Callers, LoadRefill(k) PROVE TypeOK' /\ ClocksRead'
  <2> DEFINE r == IF Exempt(k) THEN Idle
                  ELSE [call[k] EXCEPT !.at = "clock", !.refill = refill]
  <2>1. r \in Call /\ r.now <= now
    <3>1. CASE Exempt(k)
      BY <3>1, IdleType, <1>n
    <3>2. CASE ~Exempt(k)
      BY <3>2, <1>c, <1>n DEF Call
    <3> QED
      BY <3>1, <3>2
  <2>2. call' = [call EXCEPT ![k] = r]
    BY <1>2 DEF LoadRefill
  <2> HIDE DEF r
  <2>3. call' \in [Callers -> Call] /\ ClocksRead'
    BY <1>2, <2>1, <2>2, CallStep DEF LoadRefill
  <2> QED
    BY <1>t, <1>2, <2>3 DEF LoadRefill, TypeOK, limitVars, historyVars
<1>3. ASSUME NEW k \in Callers, ReadClock(k) PROVE TypeOK' /\ ClocksRead'
  <2> DEFINE r == [call[k] EXCEPT !.at = "lock", !.now = now]
  <2>1. r \in Call /\ r.now <= now
    <3>1. call[k] \in Call
      BY <1>c
    <3>2. r \in Call /\ r.now = now
      BY <3>1, <1>n DEF Call
    <3> QED
      BY <3>2, <1>n
  <2>2. call' = [call EXCEPT ![k] = r]
    BY <1>3 DEF ReadClock
  <2> HIDE DEF r
  <2>3. call' \in [Callers -> Call] /\ ClocksRead'
    BY <1>3, <2>1, <2>2, CallStep DEF ReadClock
  <2> QED
    BY <1>t, <1>3, <2>3 DEF ReadClock, TypeOK, limitVars, historyVars
<1>4. CASE Decide
  <2> DEFINE c == call["allow"]
             allowed == HasToken(Level(Entry(ip, c), c))
  <2>1. IsCall(c) /\ c.now <= now /\ "allow" \in Callers /\ ip \in Ips
    BY <1>t, CallType DEF Callers, ClocksRead, TypeOK
  <2>2. /\ Level(Entry(ip, c), c) \in Nat
        /\ Level(IdealEntry(ip, c), c) \in Int
    BY <1>t, <2>1, EntryType, LevelType
  <2>3. /\ After(Entry(ip, c), c, allowed) \in Bucket
        /\ After(IdealEntry(ip, c), c, allowed) \in [tokens : Int, last_refill : Nat]
    BY <2>1, <2>2, UnitAssumption DEF After, Bucket, HasToken, IsCall
  <2>4. now - c.now \in Nat
    BY <2>1, <1>n DEF IsCall
  <2>5. /\ DOMAIN buckets' \subseteq Ips
        /\ \A a \in DOMAIN buckets' : buckets'[a] \in Bucket
    BY <1>t, <1>4, <2>1, <2>3 DEF Decide, Put, TypeOK
  <2>6. /\ DOMAIN ideal' \subseteq Ips
        /\ \A a \in DOMAIN ideal' : ideal'[a] \in [tokens : Int, last_refill : Nat]
    BY <1>t, <1>4, <2>1, <2>3 DEF Decide, Put, TypeOK
  <2>7. late' \in [Ips -> Nat] /\ admitted' \in [Ips -> Nat] /\ allowance' \in Nat
    <3>1. \A n \in Nat : n + now - c.now \in Nat
      BY <2>4, <2>1, <1>n DEF IsCall
    <3>2. late[ip] \in Nat /\ late' \in {late, [late EXCEPT ![ip] = @ + now - c.now]}
      BY <1>t, <1>4, <2>1 DEF Decide, TypeOK
    <3>3. late' \in [Ips -> Nat]
      BY <1>t, <3>1, <3>2 DEF TypeOK
    <3>4. admitted' \in [Ips -> Nat] /\ allowance' \in Nat
      BY <1>t, <1>4, <2>1 DEF Decide, TypeOK
    <3> QED
      BY <3>3, <3>4
  <2>8. call' \in [Callers -> Call] /\ ClocksRead'
    <3>1. call' = [call EXCEPT !["allow"] = Idle] /\ now' = now
      BY <1>4 DEF Decide
    <3> QED
      BY <3>1, <2>1, <1>i, CallStep
  <2>9. verdict' \in BOOLEAN
    BY <1>4 DEF Decide, HasToken
  <2> QED
    BY <1>t, <1>4, <2>5, <2>6, <2>7, <2>8, <2>9 DEF Decide, TypeOK, limitVars
<1>5. CASE Sweep
  <2>1. call' \in [Callers -> Call] /\ ClocksRead'
    <3>1. call' = [call EXCEPT !["sweep"] = Idle] /\ now' = now /\ "sweep" \in Callers
      BY <1>5 DEF Sweep, Callers
    <3> QED
      BY <3>1, <1>i, CallStep
  <2> QED
    BY <1>t, <1>5, <2>1 DEF Sweep, TypeOK, limitVars, historyVars
<1>6. ASSUME NEW l \in Limits, StoreCapacity(l) PROVE TypeOK' /\ ClocksRead'
  <2>1. Worth(capacity, l[1]) \in Nat /\ l[1] \in Nat /\ l[2] \in Nat
    BY <1>n, LimitsAssumption DEF Worth
  <2> QED
    BY <1>t, <1>6, <2>1 DEF StoreCapacity, TypeOK, ClocksRead
<1>7. CASE StoreRefill
  BY <1>t, <1>7 DEF StoreRefill, TypeOK, ClocksRead, historyVars
<1>8. CASE Tick
  <2>1. now' = now + 1 /\ call' = call
    BY <1>8 DEF Tick
  <2>2. ClocksRead'
    BY <2>1, <1>c, <1>n, <1>t, CallType DEF ClocksRead, IsCall
  <2> QED
    BY <1>t, <1>8, <2>2 DEF Tick, TypeOK, limitVars, historyVars
<1>9. CASE UNCHANGED vars
  BY <1>t, <1>9 DEF vars, TypeOK, ClocksRead, limitVars, historyVars
<1> QED
  BY <1>1, <1>2, <1>3, <1>4, <1>5, <1>6, <1>7, <1>8, <1>9 DEF Next

(* The limiter's state is well formed: in particular no bucket ever goes    *)
(* below zero tokens (allow takes a token only where there is one).         *)
THEOREM TypeCorrect == Spec => []TypeOK
<1>1. TypeInv => TypeOK
  BY DEF TypeInv
<1> QED
  BY TypeInit, TypeNext, <1>1, PTL DEF Spec

------------------------------------------------------------------------------
(* A limiter that never forgets has never more in a tracked bucket. *)
Behind(a) == /\ a \in DOMAIN ideal
             /\ ideal[a].last_refill = buckets[a].last_refill
             /\ ideal[a].tokens <= buckets[a].tokens

NoneAhead == \A a \in DOMAIN buckets : Behind(a)
BehindInv == TypeInv /\ NoneAhead

LEMMA FreshIsFull ==
  ASSUME NEW c, IsCall(c)
  PROVE  Level(Fresh(c), c) = c.capacity
<1>1. Elapsed(Fresh(c), c.now) = 0
  BY DEF Elapsed, Fresh, IsCall
<1>2. 0 * c.refill = 0
  BY DEF IsCall
<1> QED
  BY <1>1, <1>2 DEF Level, AtMost, Fresh, IsCall

LEMMA IdealLevel ==
  ASSUME BehindInv, NEW a \in Ips, NEW c, IsCall(c)
  PROVE  Level(IdealEntry(a, c), c) <= Level(Entry(a, c), c)
<1>t. TypeOK
  BY DEF BehindInv, TypeInv
<1>1. IsBucket(Entry(a, c)) /\ IsBucket(IdealEntry(a, c))
  BY <1>t, EntryType
<1>2. CASE a \in DOMAIN buckets
  <2>1. /\ IdealEntry(a, c).last_refill = Entry(a, c).last_refill
        /\ IdealEntry(a, c).tokens <= Entry(a, c).tokens
    BY <1>2 DEF BehindInv, NoneAhead, Behind, Entry, IdealEntry
  <2> QED
    BY <1>1, <2>1, LevelMonotone
<1>3. CASE a \notin DOMAIN buckets
  <2>1. Level(Entry(a, c), c) = c.capacity
    BY <1>3, FreshIsFull DEF Entry
  <2> QED
    BY <1>1, <2>1, LevelType
<1> QED
  BY <1>2, <1>3

LEMMA BehindNext == BehindInv /\ [Next]_vars => BehindInv'
<1> SUFFICES ASSUME BehindInv, [Next]_vars PROVE NoneAhead'
  BY TypeNext DEF BehindInv
<1>t. TypeOK /\ NoneAhead
  BY DEF BehindInv, TypeInv
<1>1. CASE UNCHANGED <<buckets, ideal>>
  BY <1>1, <1>t DEF NoneAhead, Behind
<1>2. CASE Decide
  <2> DEFINE c == call["allow"]
             allowed == HasToken(Level(Entry(ip, c), c))
             b == After(Entry(ip, c), c, allowed)
             i == After(IdealEntry(ip, c), c, allowed)
  <2>1. IsCall(c) /\ ip \in Ips
    BY <1>t, CallType DEF Callers, TypeOK
  <2>2. /\ Level(Entry(ip, c), c) \in Int
        /\ Level(IdealEntry(ip, c), c) \in Int
        /\ Level(IdealEntry(ip, c), c) <= Level(Entry(ip, c), c)
    BY <1>t, <2>1, EntryType, LevelType, IdealLevel
  <2>3. i.last_refill = b.last_refill /\ i.tokens <= b.tokens
    BY <2>2, UnitAssumption DEF After
  <2>4. buckets' = Put(buckets, ip, b) /\ ideal' = Put(ideal, ip, i)
    BY <1>2 DEF Decide
  <2> HIDE DEF b, i
  <2>5. ASSUME NEW a \in DOMAIN buckets' PROVE Behind(a)'
    <3>1. CASE a = ip
      BY <2>3, <2>4, <3>1 DEF Put, Behind
    <3>2. CASE a # ip
      <4>1. a \in DOMAIN buckets /\ buckets'[a] = buckets[a]
        BY <2>4, <2>5, <3>2 DEF Put
      <4>2. a \in DOMAIN ideal' /\ ideal'[a] = ideal[a]
        BY <2>4, <4>1, <3>2, <1>t DEF Put, NoneAhead, Behind
      <4> QED
        BY <4>1, <4>2, <1>t DEF NoneAhead, Behind
    <3> QED
      BY <3>1, <3>2
  <2> QED
    BY <2>5 DEF NoneAhead
<1>3. CASE Sweep
  BY <1>3, <1>t DEF Sweep, historyVars, NoneAhead, Behind
<1>4. CASE ~(Decide \/ Sweep)
  <2>1. UNCHANGED <<buckets, ideal>>
    BY <1>4 DEF Next, LoadCapacity, LoadRefill, ReadClock, StoreCapacity, StoreRefill,
                Tick, vars, historyVars
  <2> QED
    BY <2>1, <1>1
<1> QED
  BY <1>2, <1>3, <1>4

(* Only the critical section of allow() ends a call that has the lock. *)
LEMMA RefusalIsDecide == TypeOK /\ Next /\ Refuses => Decide
<1> SUFFICES ASSUME TypeOK, Next, Refuses, ~Decide PROVE FALSE
  OBVIOUS
<1>0. call["allow"].at = "lock" /\ call'["allow"].at = "out" /\ "allow" \in Callers
  BY DEF Refuses, Callers
<1>2. ASSUME NEW k \in Callers, LoadCapacity(k) \/ LoadRefill(k) \/ ReadClock(k)
      PROVE  FALSE
  <2>1. call[k].at # "lock" /\ k # "allow"
    BY <1>0, <1>2 DEF LoadCapacity, LoadRefill, ReadClock
  <2>2. call'["allow"] = call["allow"]
    BY <1>2, <2>1, <1>0 DEF LoadCapacity, LoadRefill, ReadClock, TypeOK
  <2> QED
    BY <2>2, <1>0
<1>3. CASE Sweep
  BY <1>0, <1>3 DEF Sweep, TypeOK
<1>4. CASE UNCHANGED call
  BY <1>0, <1>4
<1> QED
  BY <1>2, <1>3, <1>4 DEF Next, StoreCapacity, StoreRefill, Tick

LEMMA BehindInit == Init => BehindInv
BY TypeInit DEF BehindInv, NoneAhead, Init

(* allow() never refuses a client that a limiter given the same readings of *)
(* the clock and of the limits, but which never sweeps, would let in.       *)
THEOREM NoFalseRefusalHolds == Spec => NoFalseRefusal
<1> DEFINE A == Refuses => ~HasToken(Level(IdealEntry(ip, call["allow"]), call["allow"]))
<1>1. BehindInv /\ [Next]_vars => [A]_vars
  <2> SUFFICES ASSUME BehindInv, Next, Refuses PROVE A
    BY DEF Refuses
  <2>t. TypeOK
    BY DEF BehindInv, TypeInv
  <2>c. IsCall(call["allow"]) /\ ip \in Ips
    BY <2>t, CallType DEF Callers, TypeOK
  <2>1. Decide
    BY <2>t, RefusalIsDecide
  <2>2. ~HasToken(Level(Entry(ip, call["allow"]), call["allow"]))
    BY <2>1 DEF Decide, Refuses
  <2>3. /\ Level(IdealEntry(ip, call["allow"]), call["allow"]) \in Int
        /\ Level(Entry(ip, call["allow"]), call["allow"]) \in Int
        /\ Level(IdealEntry(ip, call["allow"]), call["allow"])
             <= Level(Entry(ip, call["allow"]), call["allow"])
    BY <2>t, <2>c, EntryType, LevelType, IdealLevel
  <2> QED
    BY <2>2, <2>3, UnitAssumption DEF HasToken
<1> QED
  BY BehindInit, BehindNext, <1>1, PTL DEF Spec, NoFalseRefusal

------------------------------------------------------------------------------
(* What a bucket holds at two readings of the clock, with the same limits.  *)
SameRates(c, d) == c.capacity = d.capacity /\ c.refill = d.refill

LEMMA ElapsedLater ==
  ASSUME NEW b, IsBucket(b), NEW s \in Nat, NEW t \in Nat, s <= t
  PROVE  /\ Elapsed(b, s) <= Elapsed(b, t)
         /\ Elapsed(b, t) <= Elapsed(b, s) + (t - s)
BY DEF Elapsed, IsBucket

LEMMA LevelLater ==
  ASSUME NEW b, IsBucket(b), NEW c, IsCall(c), NEW d, IsCall(d),
         SameRates(c, d), c.now <= d.now
  PROVE  /\ Level(b, c) <= Level(b, d)
         /\ Level(b, d) <= Level(b, c) + (d.now - c.now) * c.refill
<1> DEFINE X == Elapsed(b, c.now) * c.refill
           Y == Elapsed(b, d.now) * c.refill
           Z == (d.now - c.now) * c.refill
<1>0. c.now \in Nat /\ d.now \in Nat /\ c.refill \in Nat /\ d.now - c.now \in Nat
  BY DEF IsCall
<1>1. Elapsed(b, c.now) \in Nat /\ Elapsed(b, d.now) \in Nat
  BY <1>0, ElapsedType
<1>2. /\ Elapsed(b, c.now) <= Elapsed(b, d.now)
      /\ Elapsed(b, d.now) <= Elapsed(b, c.now) + (d.now - c.now)
  BY <1>0, <1>1, ElapsedLater
<1>3. X <= Y
  BY <1>0, <1>1, <1>2, ProductMonotone
<1>4. Y <= X + Z
  BY <1>0, <1>1, <1>2, ProductOfSum
<1>5. X \in Nat /\ Y \in Nat /\ Z \in Nat
  BY <1>0, <1>1, ProductNat
<1>6. /\ Level(b, c) = AtMost(b.tokens + X, c.capacity)
      /\ Level(b, d) = AtMost(b.tokens + Y, c.capacity)
  BY DEF Level, SameRates
<1> HIDE DEF X, Y
<1> QED
  BY <1>3, <1>4, <1>5, <1>6 DEF AtMost, IsBucket, IsCall

(* A bucket found full may be forgotten: from then on a limiter that did    *)
(* not forget it is behind by no more than it was.                          *)
LEMMA ForgottenWhenFull ==
  ASSUME NEW b, IsBucket(b), NEW i, IsBucket(i), i.last_refill = b.last_refill,
         i.tokens <= b.tokens, NEW n \in Nat, b.tokens - i.tokens <= n,
         NEW c, IsCall(c), NEW d, IsCall(d), SameRates(c, d), c.now <= d.now,
         IsFull(b, c)
  PROVE  d.capacity - Level(i, d) <= n
<1>1. /\ Level(i, c) \in Int /\ Level(b, c) \in Int /\ Level(i, d) \in Int
      /\ Level(b, c) - Level(i, c) <= b.tokens - i.tokens
  BY LevelType, LevelMonotone
<1>2. Level(b, c) >= c.capacity
  BY <1>1 DEF IsFull, IsCall
<1>3. Level(i, c) <= Level(i, d)
  BY LevelLater
<1> QED
  BY <1>1, <1>2, <1>3 DEF SameRates, IsCall, IsBucket

------------------------------------------------------------------------------
(* Until a reload, every limit a call has loaded is the one in force. *)
SameLimits ==
  reloads = 0 =>
    /\ storing = -1
    /\ \A k \in Callers :
         /\ call[k].at # "out" => call[k].capacity = capacity
         /\ call[k].at \in {"clock", "lock"} => call[k].refill = refill

BoundInv == BehindInv /\ SameLimits /\ ForgettingIsBounded

LEMMA BoundInit == Init => BoundInv
BY BehindInit DEF BoundInv, SameLimits, ForgettingIsBounded, Init, Callers, Idle

LEMMA SameLimitsNext == TypeOK /\ SameLimits /\ [Next]_vars => SameLimits'
<1> SUFFICES ASSUME TypeOK, SameLimits, [Next]_vars PROVE SameLimits'
  OBVIOUS
<1>1. ASSUME NEW k \in Callers, LoadCapacity(k) PROVE SameLimits'
  BY <1>1 DEF LoadCapacity, TypeOK, Call, SameLimits, limitVars
<1>2. ASSUME NEW k \in Callers, LoadRefill(k) PROVE SameLimits'
  BY <1>2 DEF LoadRefill, TypeOK, Call, SameLimits, limitVars, Idle
<1>3. ASSUME NEW k \in Callers, ReadClock(k) PROVE SameLimits'
  BY <1>3 DEF ReadClock, TypeOK, Call, SameLimits, limitVars
<1>4. CASE Decide
  BY <1>4 DEF Decide, TypeOK, SameLimits, limitVars, Idle
<1>5. CASE Sweep
  BY <1>5 DEF Sweep, TypeOK, SameLimits, limitVars, Idle
<1>6. ASSUME NEW l \in Limits, StoreCapacity(l) PROVE SameLimits'
  BY <1>6 DEF StoreCapacity, TypeOK, SameLimits
<1>7. CASE StoreRefill
  BY <1>7 DEF StoreRefill, TypeOK, SameLimits
<1>8. CASE Tick \/ UNCHANGED vars
  BY <1>8 DEF Tick, vars, SameLimits, limitVars
<1> QED
  BY <1>1, <1>2, <1>3, <1>4, <1>5, <1>6, <1>7, <1>8 DEF Next

LEMMA TodayType == TypeOK => IsCall(Today)
BY DEF TypeOK, Today, IsCall

LEMMA TypesOfBuckets ==
  TypeOK => /\ \A a \in DOMAIN buckets : a \in Ips /\ IsBucket(buckets[a])
            /\ \A a \in DOMAIN ideal : IsBucket(ideal[a]) /\ Gift(a) \in Nat
BY ProductNat DEF TypeOK, Bucket, IsBucket, Gift

(* One address at a time: how far it is ahead after a call that it made ... *)
LEMMA BoundDecide ==
  ASSUME BoundInv, Decide, reloads = 0, NEW a, a = ip
  PROVE  Ahead(a)' <= Gift(a)'
<1> DEFINE c == call["allow"]
           Late(d) == (now - d.now) * d.refill
           allowed == HasToken(Level(Entry(ip, c), c))
           b == After(Entry(ip, c), c, allowed)
           i == After(IdealEntry(ip, c), c, allowed)
<1>t. TypeOK /\ NoneAhead /\ c.now <= now /\ SameLimits /\ ForgettingIsBounded
  BY DEF BoundInv, BehindInv, TypeInv, ClocksRead, Callers
<1>1. IsCall(c) /\ IsCall(Today) /\ ip \in Ips /\ Gift(ip) \in Nat
  BY <1>t, CallType, TodayType, ProductNat DEF Callers, TypeOK, Gift
<1>2. SameRates(c, Today) /\ c.now <= Today.now
  BY <1>t DEF Decide, SameLimits, SameRates, Today, Callers
<1>3. /\ IsBucket(Entry(ip, c)) /\ IsBucket(IdealEntry(ip, c))
      /\ Level(Entry(ip, c), c) \in Int /\ Level(IdealEntry(ip, c), c) \in Int
  BY <1>t, <1>1, EntryType, LevelType
<1>4. buckets' = Put(buckets, ip, b) /\ ideal' = Put(ideal, ip, i)
  BY DEF Decide
<1>5. Ahead(a)' = b.tokens - i.tokens
  BY <1>4 DEF Ahead, Put
<1>6. Ahead(a)' = Level(Entry(ip, c), c) - Level(IdealEntry(ip, c), c)
  BY <1>3, <1>5, UnitAssumption DEF After
<1>7. CASE ip \in DOMAIN buckets
  <2>1. Behind(ip) /\ Entry(ip, c) = buckets[ip] /\ IdealEntry(ip, c) = ideal[ip]
    BY <1>t, <1>7 DEF NoneAhead, Behind, Entry, IdealEntry
  <2>2. buckets[ip].tokens - ideal[ip].tokens <= Gift(ip)
    BY <1>t, <1>7, <2>1 DEF ForgettingIsBounded, Ahead, Behind
  <2>3. Level(buckets[ip], c) - Level(ideal[ip], c) <= buckets[ip].tokens - ideal[ip].tokens
    BY <1>1, <1>3, <2>1, LevelMonotone DEF Behind
  <2>4. Gift(a)' = Gift(ip)
    BY <1>7 DEF Decide, Gift, limitVars
  <2> QED
    BY <1>1, <1>3, <1>6, <2>1, <2>2, <2>3, <2>4 DEF IsBucket
<1>8. CASE ip \in DOMAIN ideal \ DOMAIN buckets
  <2>1. Level(Entry(ip, c), c) = capacity
    BY <1>1, <1>2, <1>8, FreshIsFull DEF Entry, SameRates, Today
  <2>2. IdealEntry(ip, c) = ideal[ip]
    BY <1>8 DEF IdealEntry
  <2>3. capacity - Level(ideal[ip], Today) <= Gift(ip)
    BY <1>t, <1>8 DEF ForgettingIsBounded, Ahead
  <2>4. Level(ideal[ip], Today) <= Level(ideal[ip], c) + Late(c)
    BY <1>1, <1>2, <1>3, <2>2, LevelLater DEF Late, Today
  <2>5. Gift(a)' = Gift(ip) + Late(c)
    <3>1. /\ late'[ip] = late[ip] + (now - c.now) /\ refill' = refill /\ c.refill = refill
          /\ late[ip] \in Nat /\ now \in Nat /\ c.now \in Nat /\ refill \in Nat
          /\ now - c.now \in Int
      BY <1>8, <1>t, <1>1, <1>2 DEF Decide, TypeOK, IsCall, SameRates, Today, limitVars
    <3>2. \A x \in Nat, y \in Int, r \in Nat : (x + y) * r = x * r + y * r
      BY SMT
    <3> QED
      BY <3>1, <3>2 DEF Gift, Late
  <2>6. Late(c) \in Nat /\ Level(ideal[ip], Today) \in Int /\ capacity \in Nat
    BY <1>t, <1>1, <1>3, <2>2, ProductNat, LevelType DEF Late, IsCall, TypeOK
  <2> QED
    BY <1>1, <1>3, <1>6, <2>1, <2>2, <2>3, <2>4, <2>5, <2>6
<1>9. CASE ip \notin DOMAIN ideal
  <2>1. Entry(ip, c) = IdealEntry(ip, c) /\ Gift(a)' = Gift(ip)
    BY <1>9, <1>t DEF Entry, IdealEntry, Fresh, NoneAhead, Behind, Decide, Gift, limitVars
  <2> QED
    BY <1>1, <1>3, <1>6, <2>1
<1> QED
  BY <1>7, <1>8, <1>9

(* ... and after a sweep. *)
LEMMA BoundSweep ==
  ASSUME BoundInv, Sweep, reloads = 0, NEW a \in DOMAIN ideal
  PROVE  Ahead(a)' <= Gift(a)
<1> DEFINE c == call["sweep"]
<1>t. TypeOK /\ NoneAhead /\ c.now <= now /\ SameLimits /\ ForgettingIsBounded
  BY DEF BoundInv, BehindInv, TypeInv, ClocksRead, Callers
<1>1. IsCall(c) /\ IsCall(Today) /\ Gift(a) \in Nat /\ IsBucket(ideal[a])
  BY <1>t, CallType, TodayType, TypesOfBuckets DEF Callers
<1>2. SameRates(c, Today) /\ c.now <= Today.now
  BY <1>t DEF Sweep, SameLimits, SameRates, Today, Callers
<1>3. ideal' = ideal /\ Today' = Today /\ capacity' = capacity
  BY DEF Sweep, historyVars, limitVars, Today
<1>4. Ahead(a) <= Gift(a)
  BY <1>t DEF ForgettingIsBounded
<1>5. CASE a \in DOMAIN buckets'
  <2>1. a \in DOMAIN buckets /\ buckets'[a] = buckets[a]
    BY <1>5 DEF Sweep
  <2> QED
    BY <1>3, <1>4, <1>5, <2>1 DEF Ahead
<1>6. CASE a \notin DOMAIN buckets /\ a \notin DOMAIN buckets'
  BY <1>3, <1>4, <1>6 DEF Ahead
<1>7. CASE a \in DOMAIN buckets /\ a \notin DOMAIN buckets'
  <2>1. IsFull(buckets[a], c) /\ Behind(a) /\ IsBucket(buckets[a])
    BY <1>7, <1>t, TypesOfBuckets DEF Sweep, NoneAhead
  <2>2. buckets[a].tokens - ideal[a].tokens <= Gift(a)
    BY <1>4, <1>7 DEF Ahead
  <2>3. Today.capacity - Level(ideal[a], Today) <= Gift(a)
    BY <1>1, <1>2, <2>1, <2>2, ForgottenWhenFull DEF Behind
  <2>4. Ahead(a)' = capacity - Level(ideal[a], Today)
    BY <1>3, <1>7 DEF Ahead
  <2> QED
    BY <2>3, <2>4 DEF Today
<1> QED
  BY <1>5, <1>6, <1>7

LEMMA BoundNext == BoundInv /\ [Next]_vars => BoundInv'
<1> SUFFICES ASSUME BoundInv, [Next]_vars, reloads' = 0, NEW a \in DOMAIN ideal'
             PROVE  Ahead(a)' <= Gift(a)'
  BY BehindNext, SameLimitsNext DEF BoundInv, BehindInv, TypeInv, ForgettingIsBounded
<1>t. TypeOK /\ SameLimits /\ ForgettingIsBounded
  BY DEF BoundInv, BehindInv, TypeInv
<1>0. reloads = 0 /\ UNCHANGED <<capacity, refill>>
  <2>1. CASE \E l \in Limits : StoreCapacity(l)
    BY <2>1, <1>t DEF StoreCapacity, TypeOK
  <2>2. CASE StoreRefill
    BY <2>2, <1>t DEF StoreRefill, SameLimits
  <2>3. CASE UNCHANGED <<reloads, capacity, refill>>
    BY <2>3
  <2> QED
    BY <2>1, <2>2, <2>3 DEF Next, LoadCapacity, LoadRefill, ReadClock, Decide, Sweep,
                            Tick, limitVars, vars
<1>1. CASE UNCHANGED <<buckets, now, ideal, late>>
  <2>1. Ahead(a) <= Gift(a)
    BY <1>0, <1>1, <1>t DEF ForgettingIsBounded
  <2> QED
    BY <1>0, <1>1, <2>1 DEF Ahead, Gift, Today
<1>2. CASE Decide
  <2>1. CASE a = ip
    BY <1>0, <1>2, <2>1, BoundDecide
  <2>2. CASE a # ip
    <3>1. /\ a \in DOMAIN ideal /\ ideal'[a] = ideal[a] /\ Gift(a)' = Gift(a)
          /\ (a \in DOMAIN buckets' <=> a \in DOMAIN buckets)
          /\ a \in DOMAIN buckets => buckets'[a] = buckets[a]
          /\ Today' = Today /\ capacity' = capacity
      BY <1>2, <2>2, <1>t, <1>0 DEF Decide, Put, TypeOK, Gift, Today
    <3>2. Ahead(a)' = Ahead(a) /\ Ahead(a) <= Gift(a)
      BY <1>0, <1>t, <3>1 DEF Ahead, ForgettingIsBounded
    <3> QED
      BY <3>1, <3>2
  <2> QED
    BY <2>1, <2>2
<1>3. CASE Sweep
  <2>1. a \in DOMAIN ideal /\ Gift(a)' = Gift(a)
    BY <1>0, <1>3 DEF Sweep, Gift, historyVars
  <2> QED
    BY <1>0, <1>3, <2>1, BoundSweep
<1>4. CASE Tick
  <2>1. UNCHANGED <<buckets, ideal, Gift(a)>> /\ now' = now + 1
    BY <1>0, <1>4 DEF Tick, Gift, historyVars
  <2>2. a \in DOMAIN ideal /\ Ahead(a) <= Gift(a) /\ IsBucket(ideal[a]) /\ Gift(a) \in Nat
    BY <1>0, <1>t, <2>1, TypesOfBuckets DEF ForgettingIsBounded
  <2>3. /\ IsCall(Today) /\ IsCall(Today') /\ SameRates(Today, Today')
        /\ Today.now <= Today'.now
    BY <1>t, <1>0, <2>1 DEF Today, IsCall, SameRates, TypeOK
  <2>4. /\ Level(ideal[a], Today) \in Int /\ Level(ideal[a], Today') \in Int
        /\ Level(ideal[a], Today) <= Level(ideal[a], Today')
    BY <2>2, <2>3, LevelLater, LevelType
  <2>5. CASE a \in DOMAIN buckets
    BY <2>1, <2>2, <2>5 DEF Ahead
  <2>6. CASE a \notin DOMAIN buckets
    <3>1. /\ Ahead(a) = capacity - Level(ideal[a], Today)
          /\ Ahead(a)' = capacity - Level(ideal[a], Today')
      BY <1>0, <2>1, <2>6 DEF Ahead
    <3> QED
      BY <1>t, <2>1, <2>2, <2>4, <3>1 DEF TypeOK
  <2> QED
    BY <2>5, <2>6
<1> QED
  BY <1>1, <1>2, <1>3, <1>4, <1>0 DEF Next, LoadCapacity, LoadRefill, ReadClock,
     StoreCapacity, StoreRefill, limitVars, vars, historyVars

(* Until a reload, sweeping puts a client ahead of a limiter that never     *)
(* forgets by at most what it earned while its own calls held an old clock. *)
THEOREM ForgettingIsBoundedHolds == Spec => []ForgettingIsBounded
<1>1. BoundInv => ForgettingIsBounded
  BY DEF BoundInv
<1> QED
  BY BoundInit, BoundNext, <1>1, PTL DEF Spec
------------------------------------------------------------------------------
(* The account of an address: the grains it has had let in and those it     *)
(* still has, against the bursts and the time behind them.  A call of allow *)
(* under way may fill a bucket to the burst it loaded, Most; a sweep under  *)
(* way may forget one that has only the burst it loaded, Least.             *)
AtLeast(n, bound) == IF n < bound THEN bound ELSE n

Held(k) == IF call[k].at = "out" THEN capacity ELSE call[k].capacity
Most    == AtLeast(capacity, Held("allow"))
Least   == AtMost(capacity, Held("sweep"))

Spent(a)  == Unit * admitted[a]
Earned(n) == MaxRate * n

Account(a) ==
  /\ a \in DOMAIN buckets =>
       Spent(a) + buckets[a].tokens + Most - Least
         <= allowance + Earned(buckets[a].last_refill + late[a])
  /\ a \in DOMAIN ideal \ DOMAIN buckets =>
       Spent(a) + Most + capacity - Least <= allowance + Earned(now + late[a])
  /\ a \notin DOMAIN ideal =>
       admitted[a] = 0 /\ Most + capacity - Least <= allowance

(* No rate is above MaxRate, and no call goes back before a bucket's time.  *)
RatesBounded ==
  /\ refill <= MaxRate /\ storing <= MaxRate
  /\ \A k \in Callers : call[k].refill <= MaxRate

ClockOrder ==
  \A a \in DOMAIN buckets :
    /\ buckets[a].last_refill <= now
    /\ call["allow"].at = "lock" => buckets[a].last_refill <= call["allow"].now

AccountInv ==
  BehindInv /\ RatesBounded /\ ClockOrder /\ \A a \in Ips : Account(a)

LEMMA EarnedGrows ==
  ASSUME NEW x \in Nat, NEW y \in Nat, NEW e \in Nat, NEW r \in Nat,
         r <= MaxRate, x + e <= y
  PROVE  /\ Earned(x) \in Nat /\ Earned(y) \in Nat /\ e * r \in Nat
         /\ Earned(x) + e * r <= Earned(y)
<1>0. MaxRate \in Nat /\ x + e \in Nat
  BY MaxRateAssumption
<1>1. e * r <= e * MaxRate
  <2>1. r * e <= MaxRate * e
    BY <1>0, ProductMonotone
  <2>2. r * e = e * r /\ MaxRate * e = e * MaxRate
    BY <1>0, SMT
  <2> QED
    BY <2>1, <2>2
<1>2. (x + e) * MaxRate <= y * MaxRate
  BY <1>0, ProductMonotone
<1>3. (x + e) * MaxRate = x * MaxRate + e * MaxRate
  BY <1>0, SMT
<1>4. Earned(x) = x * MaxRate /\ Earned(y) = y * MaxRate
  BY <1>0, SMT DEF Earned
<1>5. x * MaxRate \in Nat /\ y * MaxRate \in Nat /\ e * MaxRate \in Nat /\ e * r \in Nat
  BY <1>0, ProductNat
<1> QED
  BY <1>1, <1>2, <1>3, <1>4, <1>5

LEMMA EarnedMonotone ==
  ASSUME NEW x \in Nat, NEW y \in Nat, x <= y
  PROVE  Earned(x) \in Nat /\ Earned(y) \in Nat /\ Earned(x) <= Earned(y)
<1>1. 0 \in Nat /\ 0 <= MaxRate /\ x + 0 <= y
  BY MaxRateAssumption
<1>2. Earned(x) \in Nat /\ Earned(y) \in Nat /\ Earned(x) + 0 * 0 <= Earned(y)
  BY <1>1, EarnedGrows
<1> QED
  BY <1>2

LEMMA AccountTypes ==
  ASSUME TypeOK, NEW a \in Ips
  PROVE  /\ Held("allow") \in Nat /\ Held("sweep") \in Nat /\ capacity \in Nat
         /\ Most \in Nat /\ Held("allow") <= Most /\ capacity <= Most
         /\ Least \in Nat /\ Least <= Held("sweep") /\ Least <= capacity
         /\ Spent(a) \in Nat /\ late[a] \in Nat /\ allowance \in Nat /\ now \in Nat
<1>1. IsCall(call["allow"]) /\ IsCall(call["sweep"])
  BY CallType DEF Callers
<1>2. admitted[a] \in Nat /\ late[a] \in Nat /\ capacity \in Nat /\ allowance \in Nat
      /\ now \in Nat
  BY DEF TypeOK
<1>3. Unit * admitted[a] \in Nat
  BY <1>2, UnitAssumption, ProductNat
<1>4. Held("allow") \in Nat /\ Held("sweep") \in Nat
  BY <1>1, <1>2 DEF Held, IsCall
<1> QED
  BY <1>2, <1>3, <1>4 DEF Most, Least, AtLeast, AtMost, Spent

LEMMA AccountInit == Init => AccountInv
<1> SUFFICES ASSUME Init PROVE AccountInv
  OBVIOUS
<1>1. BehindInv
  BY BehindInit
<1>2. PICK l \in Limits : capacity = l[1] /\ refill = l[2]
  BY DEF Init
<1>3. RatesBounded
  BY <1>2, MaxRateAssumption, LimitsAssumption DEF Init, RatesBounded, Idle, Callers
<1>4. ClockOrder
  BY DEF Init, ClockOrder
<1>5. ASSUME NEW a \in Ips PROVE Account(a)
  <2>1. capacity \in Nat /\ allowance = capacity /\ Most = capacity /\ Least = capacity
    BY <1>2, LimitsAssumption DEF Init, Most, Least, AtLeast, AtMost, Held, Idle, Callers
  <2>2. DOMAIN buckets = {} /\ DOMAIN ideal = {} /\ admitted[a] = 0
    BY DEF Init
  <2>3. Most + capacity - Least <= allowance
    BY <2>1
  <2> QED
    BY <2>2, <2>3 DEF Account
<1> QED
  BY <1>1, <1>3, <1>4, <1>5 DEF AccountInv

LEMMA RatesBoundedNext == TypeOK /\ RatesBounded /\ [Next]_vars => RatesBounded'
<1> SUFFICES ASSUME TypeOK, RatesBounded, [Next]_vars PROVE RatesBounded'
  OBVIOUS
<1>0. MaxRate \in Nat
  BY MaxRateAssumption
<1>1. ASSUME NEW k \in Callers, LoadCapacity(k) \/ ReadClock(k) PROVE RatesBounded'
  BY <1>1 DEF LoadCapacity, ReadClock, TypeOK, Call, RatesBounded, limitVars
<1>2. ASSUME NEW k \in Callers, LoadRefill(k) PROVE RatesBounded'
  BY <1>0, <1>2 DEF LoadRefill, TypeOK, Call, RatesBounded, limitVars, Idle
<1>3. CASE Decide \/ Sweep
  BY <1>0, <1>3 DEF Decide, Sweep, TypeOK, RatesBounded, limitVars, Idle
<1>4. ASSUME NEW l \in Limits, StoreCapacity(l) PROVE RatesBounded'
  BY <1>4, MaxRateAssumption DEF StoreCapacity, RatesBounded
<1>5. CASE StoreRefill
  BY <1>0, <1>5 DEF StoreRefill, RatesBounded
<1>6. CASE Tick \/ UNCHANGED vars
  BY <1>6 DEF Tick, vars, RatesBounded, limitVars
<1> QED
  BY <1>1, <1>2, <1>3, <1>4, <1>5, <1>6 DEF Next

LEMMA ClockOrderNext == TypeInv /\ ClockOrder /\ [Next]_vars => ClockOrder'
<1> SUFFICES ASSUME TypeInv, ClockOrder, [Next]_vars, NEW a \in DOMAIN buckets'
             PROVE  /\ buckets'[a].last_refill <= now'
                    /\ call'["allow"].at = "lock"
                         => buckets'[a].last_refill <= call'["allow"].now
  BY DEF ClockOrder
<1>t. TypeOK /\ "allow" \in Callers /\ call["allow"].now <= now /\ call \in [Callers -> Call]
  BY DEF TypeInv, TypeOK, ClocksRead, Callers
<1>1. ASSUME NEW k \in Callers, LoadCapacity(k) \/ LoadRefill(k) \/ ReadClock(k)
      PROVE  /\ buckets' = buckets /\ now' = now
             /\ call'["allow"].at = "lock" =>
                  \/ call'["allow"] = call["allow"]
                  \/ call'["allow"].now = now
  BY <1>1, <1>t DEF LoadCapacity, LoadRefill, ReadClock, Call, Idle
<1>2. CASE \E k \in Callers : LoadCapacity(k) \/ LoadRefill(k) \/ ReadClock(k)
  BY <1>1, <1>2, <1>t DEF ClockOrder, TypeOK, Bucket
<1>3. CASE Decide
  <2>1. call'["allow"].at # "lock" /\ now' = now
    BY <1>3, <1>t DEF Decide, Idle
  <2>2. CASE a = ip
    BY <1>3, <1>t, <2>1, <2>2 DEF Decide, Put, After
  <2>3. CASE a # ip
    BY <1>3, <1>t, <2>1, <2>3 DEF Decide, Put, ClockOrder
  <2> QED
    BY <2>1, <2>2, <2>3
<1>4. CASE Sweep
  BY <1>4, <1>t DEF Sweep, ClockOrder
<1>5. CASE Tick
  BY <1>5, <1>t DEF Tick, ClockOrder, TypeOK, Bucket
<1>6. CASE (\E l \in Limits : StoreCapacity(l)) \/ StoreRefill \/ UNCHANGED vars
  BY <1>6 DEF StoreCapacity, StoreRefill, vars, ClockOrder
<1> QED
  BY <1>2, <1>3, <1>4, <1>5, <1>6 DEF Next

(* An address that is left alone, while time may pass and calls may end.    *)
LEMMA AccountKept ==
  ASSUME TypeOK, TypeOK', NoneAhead, NEW a \in Ips, Account(a),
         a \in DOMAIN buckets' <=> a \in DOMAIN buckets,
         a \in DOMAIN buckets => buckets'[a] = buckets[a],
         a \in DOMAIN ideal' <=> a \in DOMAIN ideal,
         admitted'[a] = admitted[a], late'[a] = late[a], allowance' = allowance,
         capacity' = capacity, now <= now', Most' <= Most, Least <= Least'
  PROVE  Account(a)'
<1>1. /\ Most \in Nat /\ Least \in Nat /\ Spent(a) \in Nat /\ capacity \in Nat
      /\ allowance \in Nat /\ late[a] \in Nat /\ now \in Nat
  BY AccountTypes
<1>2. Most' \in Nat /\ Least' \in Nat /\ now' \in Nat
  <2>1. \A k \in Callers : call'[k].capacity \in Nat
    BY DEF TypeOK, Call
  <2>2. capacity' \in Nat /\ now' \in Nat
    BY DEF TypeOK
  <2> QED
    BY <2>1, <2>2 DEF Most, Least, AtLeast, AtMost, Held, Callers
<1>3. Spent(a)' = Spent(a)
  BY DEF Spent
<1>4. Earned(now + late[a]) \in Nat /\ Earned(now + late[a]) <= Earned(now' + late[a])
      /\ Earned(now' + late[a]) \in Nat
  BY <1>1, <1>2, EarnedMonotone
<1>5. CASE a \in DOMAIN buckets
  <2>1. buckets[a].tokens \in Nat /\ buckets[a].last_refill \in Nat
    BY <1>5 DEF TypeOK, Bucket
  <2>2. Earned(buckets[a].last_refill + late[a]) \in Nat
    BY <1>1, <2>1, EarnedMonotone
  <2>3. Spent(a) + buckets[a].tokens + Most' - Least'
          <= allowance + Earned(buckets[a].last_refill + late[a])
    BY <1>1, <1>2, <1>5, <2>1, <2>2 DEF Account
  <2> QED
    BY <1>3, <1>5, <2>3 DEF Account, Earned, NoneAhead, Behind
<1>6. CASE a \in DOMAIN ideal \ DOMAIN buckets
  <2>1. Spent(a) + Most' + capacity - Least' <= allowance + Earned(now' + late[a])
    BY <1>1, <1>2, <1>4, <1>6 DEF Account
  <2> QED
    BY <1>3, <1>6, <2>1 DEF Account, Earned
<1>7. CASE a \notin DOMAIN ideal /\ a \notin DOMAIN buckets
  <2>1. admitted[a] = 0 /\ Most' + capacity - Least' <= allowance
    BY <1>1, <1>2, <1>7 DEF Account
  <2> QED
    BY <1>7, <2>1 DEF Account
<1> QED
  BY <1>5, <1>6, <1>7

(* The address that allow() decides on ... *)
LEMMA AccountDecide ==
  ASSUME AccountInv, TypeOK', Decide, NEW a, a = ip
  PROVE  Account(a)'
<1> DEFINE c == call["allow"]
           L == Level(Entry(a, c), c)
           allowed == HasToken(L)
<1>t. TypeOK /\ NoneAhead /\ RatesBounded /\ ClockOrder /\ Account(a) /\ a \in Ips
      /\ c.now <= now
  BY DEF AccountInv, BehindInv, TypeInv, ClocksRead, Callers, TypeOK
<1>1. /\ Most \in Nat /\ Least \in Nat /\ Least <= capacity /\ Spent(a) \in Nat
      /\ capacity \in Nat /\ capacity <= Most /\ allowance \in Nat /\ late[a] \in Nat
      /\ now \in Nat /\ Held("allow") <= Most /\ Held("allow") \in Nat
  BY <1>t, AccountTypes
<1>2. /\ IsCall(c) /\ c.now \in Nat /\ c.refill \in Nat /\ c.refill <= MaxRate
      /\ c.capacity = Held("allow")
  BY <1>t, CallType DEF Callers, IsCall, RatesBounded, Held, Decide
<1>3. IsBucket(Entry(a, c)) /\ L \in Nat /\ L <= c.capacity
  BY <1>t, <1>2, EntryType, LevelType
<1>4. /\ a \in DOMAIN buckets' /\ a \in DOMAIN ideal'
      /\ buckets'[a] = After(Entry(a, c), c, allowed)
      /\ allowance' = allowance /\ capacity' = capacity
  BY DEF Decide, Put, limitVars
<1>5. buckets'[a].last_refill = c.now
      /\ buckets'[a].tokens = L - (IF allowed THEN Unit ELSE 0)
  BY <1>4 DEF After
<1>6. Spent(a)' = Spent(a) + (IF allowed THEN Unit ELSE 0)
  <2>1. admitted'[a] = IF allowed THEN admitted[a] + 1 ELSE admitted[a]
    BY <1>t DEF Decide, TypeOK
  <2>2. \A n \in Nat : Unit * (n + 1) = Unit * n + Unit
    BY UnitAssumption, SMT
  <2>3. admitted[a] \in Nat /\ Unit * admitted[a] \in Nat
    BY <1>t, UnitAssumption, ProductNat DEF TypeOK
  <2> QED
    BY <2>1, <2>2, <2>3 DEF Spent
<1>7. Most' = capacity /\ Least' = Least
  <2>1. call'["allow"].at = "out" /\ call'["sweep"] = call["sweep"]
    BY <1>t DEF Decide, TypeOK, Callers, Idle
  <2> QED
    BY <1>1, <1>4, <2>1 DEF Most, Least, AtLeast, AtMost, Held
<1>8. Spent(a)' + buckets'[a].tokens = Spent(a) + L
  BY <1>1, <1>3, <1>5, <1>6, UnitAssumption
<1> HIDE DEF allowed
<1>9. late'[a] \in Nat /\ Earned(c.now + late'[a]) \in Nat
  <2>1. late'[a] \in Nat
    BY <1>t DEF TypeOK
  <2> QED
    BY <1>2, <2>1, EarnedMonotone
<1>10. Spent(a) + L + capacity - Least <= allowance + Earned(c.now + late'[a])
  <2>1. CASE a \in DOMAIN buckets
    <3> DEFINE b == buckets[a]
               e == Elapsed(b, c.now)
    <3>1. /\ Entry(a, c) = b /\ b.tokens \in Nat /\ b.last_refill \in Nat
          /\ b.last_refill <= c.now /\ late'[a] = late[a]
      BY <2>1, <1>t DEF Entry, TypeOK, Bucket, ClockOrder, Decide
    <3>2. e \in Nat /\ b.last_refill + e <= c.now
      BY <1>2, <3>1 DEF Elapsed
    <3>3. L <= b.tokens + e * c.refill
      <4>1. e * c.refill \in Nat
        BY <1>2, <3>2, ProductNat
      <4>2. L = AtMost(b.tokens + e * c.refill, c.capacity)
        BY <3>1 DEF Level
      <4> QED
        BY <1>1, <1>2, <3>1, <4>1, <4>2 DEF AtMost
    <3> HIDE DEF e, L
    <3>4. /\ b.last_refill + late[a] \in Nat /\ c.now + late[a] \in Nat
          /\ b.last_refill + late[a] + e <= c.now + late[a]
      BY <1>1, <1>2, <3>1, <3>2
    <3>5. /\ Earned(b.last_refill + late[a]) \in Nat /\ e * c.refill \in Nat
          /\ Earned(b.last_refill + late[a]) + e * c.refill <= Earned(c.now + late[a])
      <4> DEFINE x == b.last_refill + late[a]
                 y == c.now + late[a]
                 r == c.refill
      <4>1. x \in Nat /\ y \in Nat /\ e \in Nat /\ r \in Nat /\ r <= MaxRate /\ x + e <= y
        BY <1>2, <3>2, <3>4
      <4> HIDE DEF x, y, r
      <4>2. Earned(x) \in Nat /\ e * r \in Nat /\ Earned(x) + e * r <= Earned(y)
        BY <4>1, EarnedGrows
      <4> QED
        BY <4>2 DEF x, y, r
    <3>6. Spent(a) + b.tokens + Most - Least <= allowance + Earned(b.last_refill + late[a])
      BY <1>t, <2>1 DEF Account
    <3>7. Earned(c.now + late[a]) \in Nat /\ late'[a] = late[a] /\ b.tokens \in Nat
      BY <1>9, <3>1
    <3> HIDE DEF b
    <3> QED
      BY <1>1, <1>3, <3>3, <3>5, <3>6, <3>7
  <2>2. CASE a \in DOMAIN ideal \ DOMAIN buckets
    <3>1. L = c.capacity
      BY <1>2, <2>2, FreshIsFull DEF Entry
    <3>2. c.now + late'[a] = now + late[a]
      BY <1>t, <1>1, <1>2, <2>2 DEF Decide, TypeOK
    <3>3. Spent(a) + Most + capacity - Least <= allowance + Earned(c.now + late'[a])
      BY <1>t, <2>2, <3>2 DEF Account
    <3> HIDE DEF L
    <3> QED
      BY <1>1, <1>2, <1>9, <3>1, <3>3
  <2>3. CASE a \notin DOMAIN ideal
    <3>1. a \notin DOMAIN buckets
      BY <1>t, <2>3 DEF NoneAhead, Behind
    <3>2. L = c.capacity
      BY <1>2, <3>1, FreshIsFull DEF Entry
    <3>3. Spent(a) = 0 /\ Most + capacity - Least <= allowance
      BY <1>t, <2>3, UnitAssumption DEF Account, Spent
    <3> HIDE DEF L
    <3> QED
      BY <1>1, <1>2, <1>9, <3>2, <3>3
  <2> QED
    BY <2>1, <2>2, <2>3
<1>11. Spent(a)' + buckets'[a].tokens + Most' - Least'
         <= allowance' + Earned(buckets'[a].last_refill + late'[a])
  BY <1>1, <1>3, <1>4, <1>5, <1>7, <1>8, <1>10
<1> QED
  BY <1>4, <1>11 DEF Account, Earned

(* ... and one that a sweep forgets. *)
LEMMA AccountForgotten ==
  ASSUME AccountInv, TypeOK', Sweep, NEW a \in DOMAIN buckets, a \notin DOMAIN buckets'
  PROVE  Account(a)'
<1> DEFINE c == call["sweep"]
           b == buckets[a]
           e == Elapsed(b, c.now)
<1>t. TypeOK /\ NoneAhead /\ RatesBounded /\ ClockOrder /\ a \in Ips /\ Account(a)
      /\ c.now <= now
  BY DEF AccountInv, BehindInv, TypeInv, ClocksRead, Callers, TypeOK
<1>1. /\ Most \in Nat /\ Least \in Nat /\ Spent(a) \in Nat /\ capacity \in Nat
      /\ allowance \in Nat /\ late[a] \in Nat /\ now \in Nat
      /\ Least <= Held("sweep") /\ Held("sweep") \in Nat
  BY <1>t, AccountTypes
<1>2. /\ IsCall(c) /\ c.now \in Nat /\ c.refill \in Nat /\ c.refill <= MaxRate
      /\ c.capacity = Held("sweep")
  BY <1>t, CallType DEF Callers, IsCall, RatesBounded, Held, Sweep
<1>3. b.tokens \in Nat /\ b.last_refill \in Nat /\ b.last_refill <= now /\ a \in DOMAIN ideal
  BY <1>t DEF TypeOK, Bucket, ClockOrder, NoneAhead, Behind
<1>4. e \in Nat /\ b.last_refill + e <= now
  BY <1>t, <1>1, <1>2, <1>3 DEF Elapsed
<1>5. e * c.refill \in Nat
  BY <1>2, <1>4, ProductNat
<1>6. c.capacity <= b.tokens + e * c.refill
  <2>1. IsFull(b, c)
    BY DEF Sweep
  <2> QED
    BY <1>1, <1>2, <1>3, <1>5, <2>1 DEF IsFull, Level, AtMost
<1>7. Spent(a) + b.tokens + Most - Least <= allowance + Earned(b.last_refill + late[a])
  BY <1>t DEF Account
<1> HIDE DEF e
<1>8. /\ b.last_refill + late[a] \in Nat /\ now + late[a] \in Nat
      /\ b.last_refill + late[a] + e <= now + late[a]
  BY <1>1, <1>3, <1>4
<1>9. /\ Earned(b.last_refill + late[a]) \in Nat /\ Earned(now + late[a]) \in Nat
      /\ Earned(b.last_refill + late[a]) + e * c.refill <= Earned(now + late[a])
  BY <1>1, <1>2, <1>3, <1>4, <1>8, EarnedGrows
<1> HIDE DEF b
<1>10. Spent(a) + Most <= allowance + Earned(now + late[a])
  BY <1>1, <1>2, <1>3, <1>5, <1>6, <1>7, <1>9
<1>11. Most' = Most /\ Least' = capacity
  <2>1. call'["sweep"].at = "out" /\ call'["allow"] = call["allow"] /\ capacity' = capacity
    BY <1>t DEF Sweep, TypeOK, Callers, Idle, limitVars
  <2> QED
    BY <1>1, <2>1 DEF Most, Least, AtLeast, AtMost, Held
<1>12. Spent(a) + Most + capacity - capacity <= allowance + Earned(now + late[a])
  BY <1>1, <1>9, <1>10
<1> QED
  BY <1>3, <1>11, <1>12 DEF Account, Spent, Earned, Sweep, historyVars, limitVars

(* A reload is worth the change of the burst, twice when it grows.          *)
LEMMA WorthCovers ==
  ASSUME NEW c \in Nat, NEW d \in Nat,
         NEW h \in Nat, NEW i \in {h, d}, i # h => h = c,
         NEW s \in Nat, NEW t \in {s, d}, t # s => s = c
  PROVE  /\ Worth(c, d) \in Nat /\ AtLeast(d, i) \in Nat /\ AtMost(d, t) \in Nat
         /\ AtLeast(d, i) - AtMost(d, t) <= AtLeast(c, h) - AtMost(c, s) + Worth(c, d)
         /\ AtLeast(d, i) + d - AtMost(d, t)
              <= AtLeast(c, h) + c - AtMost(c, s) + Worth(c, d)
<1>1. CASE c < d
  BY <1>1, SMT DEF Worth, AtLeast, AtMost
<1>2. CASE ~(c < d)
  BY <1>2, SMT DEF Worth, AtLeast, AtMost
<1> QED
  BY <1>1, <1>2

LEMMA AccountReload ==
  ASSUME TypeOK, NEW l \in Limits, StoreCapacity(l), NEW a \in Ips, Account(a)
  PROVE  Account(a)'
<1>1. /\ Most \in Nat /\ Least \in Nat /\ Spent(a) \in Nat /\ capacity \in Nat
      /\ allowance \in Nat /\ late[a] \in Nat /\ now \in Nat
  BY AccountTypes
<1>2. /\ capacity' \in Nat /\ call' = call /\ allowance' = allowance + Worth(capacity, capacity')
  BY LimitsAssumption DEF StoreCapacity
<1>3. Held("allow") \in Nat /\ Held("sweep") \in Nat
  BY AccountTypes
<1>4. /\ Held("allow")' = IF call["allow"].at = "out" THEN capacity' ELSE Held("allow")
      /\ Held("sweep")' = IF call["sweep"].at = "out" THEN capacity' ELSE Held("sweep")
      /\ call["allow"].at = "out" => Held("allow") = capacity
      /\ call["sweep"].at = "out" => Held("sweep") = capacity
  BY <1>2 DEF Held
<1>5. /\ Most' \in Nat /\ Least' \in Nat /\ Worth(capacity, capacity') \in Nat
      /\ Most' - Least' <= Most - Least + Worth(capacity, capacity')
      /\ Most' + capacity' - Least' <= Most + capacity - Least + Worth(capacity, capacity')
  <2> DEFINE h == Held("allow")
             i == Held("allow")'
             s == Held("sweep")
             t == Held("sweep")'
             d == capacity'
  <2>1. /\ h \in Nat /\ i \in {h, d} /\ (i # h => h = capacity)
        /\ s \in Nat /\ t \in {s, d} /\ (t # s => s = capacity)
        /\ d \in Nat /\ capacity \in Nat
    BY <1>1, <1>2, <1>3, <1>4
  <2>2. /\ Most = AtLeast(capacity, h) /\ Most' = AtLeast(d, i)
        /\ Least = AtMost(capacity, s) /\ Least' = AtMost(d, t)
    BY DEF Most, Least
  <2> HIDE DEF h, i, s, t, d
  <2>3. /\ Worth(capacity, d) \in Nat /\ AtLeast(d, i) \in Nat /\ AtMost(d, t) \in Nat
        /\ AtLeast(d, i) - AtMost(d, t)
             <= AtLeast(capacity, h) - AtMost(capacity, s) + Worth(capacity, d)
        /\ AtLeast(d, i) + d - AtMost(d, t)
             <= AtLeast(capacity, h) + capacity - AtMost(capacity, s) + Worth(capacity, d)
    BY <2>1, WorthCovers
  <2> QED
    BY <2>2, <2>3 DEF d
<1>6. Earned(now + late[a]) \in Nat
  BY <1>1, EarnedMonotone
<1>7. a \in DOMAIN buckets => /\ buckets[a].tokens \in Nat
                              /\ Earned(buckets[a].last_refill + late[a]) \in Nat
  BY <1>1, EarnedMonotone DEF TypeOK, Bucket
<1>8. /\ a \in DOMAIN buckets =>
           Spent(a) + buckets[a].tokens + Most' - Least'
             <= allowance' + Earned(buckets[a].last_refill + late[a])
      /\ a \in DOMAIN ideal \ DOMAIN buckets =>
           Spent(a) + Most' + capacity' - Least' <= allowance' + Earned(now + late[a])
      /\ a \notin DOMAIN ideal =>
           admitted[a] = 0 /\ Most' + capacity' - Least' <= allowance'
  BY <1>1, <1>2, <1>5, <1>6, <1>7 DEF Account
<1> QED
  BY <1>8 DEF Account, Spent, Earned, StoreCapacity

LEMMA AccountNext == AccountInv /\ [Next]_vars => AccountInv'
<1> SUFFICES ASSUME AccountInv, [Next]_vars, NEW a \in Ips PROVE Account(a)'
  BY BehindNext, RatesBoundedNext, ClockOrderNext DEF AccountInv, BehindInv, TypeInv
<1>t. TypeOK /\ TypeOK' /\ NoneAhead /\ Account(a) /\ now \in Nat
  BY TypeNext DEF AccountInv, BehindInv, TypeInv, TypeOK
<1>1. /\ Most \in Nat /\ Least \in Nat /\ capacity \in Nat
      /\ capacity <= Most /\ Least <= capacity
  BY <1>t, AccountTypes
<1>2. ASSUME UNCHANGED <<buckets, historyVars, capacity>>, now <= now',
             \A k \in Callers : Held(k)' = Held(k) \/ Held(k)' = capacity
      PROVE  Account(a)'
  <2>1. Most' <= Most /\ Least <= Least'
    <3>1. Held("allow") \in Nat /\ Held("sweep") \in Nat
      BY <1>t, AccountTypes
    <3>2. /\ Held("allow")' = Held("allow") \/ Held("allow")' = capacity
          /\ Held("sweep")' = Held("sweep") \/ Held("sweep")' = capacity
      BY <1>2 DEF Callers
    <3> QED
      BY <1>1, <1>2, <3>1, <3>2 DEF Most, Least, AtLeast, AtMost
  <2> QED
    BY <1>t, <1>2, <2>1, AccountKept DEF historyVars
<1>3. ASSUME NEW k \in Callers, LoadCapacity(k) PROVE Account(a)'
  BY <1>t, <1>2, <1>3 DEF LoadCapacity, TypeOK, Call, limitVars, Held
<1>4. ASSUME NEW k \in Callers, LoadRefill(k) PROVE Account(a)'
  BY <1>t, <1>2, <1>4 DEF LoadRefill, TypeOK, Call, limitVars, Held, Idle
<1>5. ASSUME NEW k \in Callers, ReadClock(k) PROVE Account(a)'
  BY <1>t, <1>2, <1>5 DEF ReadClock, TypeOK, Call, limitVars, Held
<1>6. CASE Decide
  <2>1. CASE a = ip
    BY <1>6, <1>t, <2>1, AccountDecide
  <2>2. CASE a # ip
    <3>1. /\ a \in DOMAIN buckets' <=> a \in DOMAIN buckets
          /\ a \in DOMAIN buckets => buckets'[a] = buckets[a]
          /\ a \in DOMAIN ideal' <=> a \in DOMAIN ideal
          /\ admitted'[a] = admitted[a] /\ late'[a] = late[a]
          /\ allowance' = allowance /\ capacity' = capacity /\ now <= now'
      BY <1>6, <1>t, <2>2 DEF Decide, Put, TypeOK, limitVars
    <3>2. Most' <= Most /\ Least <= Least'
      <4>1. call'["allow"].at = "out" /\ call'["sweep"] = call["sweep"]
        BY <1>6, <1>t DEF Decide, TypeOK, Callers, Idle
      <4> QED
        BY <1>1, <3>1, <4>1 DEF Most, Least, AtLeast, AtMost, Held
    <3> QED
      BY <1>t, <3>1, <3>2, AccountKept
  <2> QED
    BY <2>1, <2>2
<1>7. CASE Sweep
  <2>1. CASE a \in DOMAIN buckets /\ a \notin DOMAIN buckets'
    BY <1>7, <1>t, <2>1, AccountForgotten
  <2>2. CASE ~(a \in DOMAIN buckets /\ a \notin DOMAIN buckets')
    <3>1. /\ a \in DOMAIN buckets' <=> a \in DOMAIN buckets
          /\ a \in DOMAIN buckets => buckets'[a] = buckets[a]
          /\ UNCHANGED <<historyVars, capacity>> /\ now <= now'
      BY <1>7, <1>t, <2>2 DEF Sweep, historyVars, limitVars
    <3>2. Most' <= Most /\ Least <= Least'
      <4>1. call'["sweep"].at = "out" /\ call'["allow"] = call["allow"]
        BY <1>7, <1>t DEF Sweep, TypeOK, Callers, Idle
      <4> QED
        BY <1>1, <3>1, <4>1 DEF Most, Least, AtLeast, AtMost, Held
    <3> QED
      BY <1>t, <3>1, <3>2, AccountKept DEF historyVars
  <2> QED
    BY <2>1, <2>2
<1>8. ASSUME NEW l \in Limits, StoreCapacity(l) PROVE Account(a)'
  BY <1>8, <1>t, AccountReload
<1>9. CASE StoreRefill \/ Tick \/ UNCHANGED vars
  BY <1>t, <1>2, <1>9 DEF StoreRefill, Tick, vars, limitVars, historyVars, Held
<1> QED
  BY <1>3, <1>4, <1>5, <1>6, <1>7, <1>8, <1>9 DEF Next

(* allow() lets an address in no more often than the bursts it was granted  *)
(* and the highest rate of all the time there was pay for, whatever clock   *)
(* readings and limits the calls of allow and sweep work with.              *)
THEOREM AdmissionsBoundedHolds == Spec => []AdmissionsBounded
<1>1. AccountInv => AdmissionsBounded
  <2> SUFFICES ASSUME AccountInv, NEW a \in Ips
               PROVE  Spent(a) <= allowance + Earned(now + late[a])
    BY DEF AdmissionsBounded, Spent, Earned
  <2>t. TypeOK /\ ClockOrder /\ Account(a)
    BY DEF AccountInv, BehindInv, TypeInv
  <2>1. /\ Most \in Nat /\ Least \in Nat /\ Spent(a) \in Nat /\ capacity \in Nat
        /\ capacity <= Most /\ Least <= capacity
        /\ allowance \in Nat /\ late[a] \in Nat /\ now \in Nat
    BY <2>t, AccountTypes
  <2>2. Earned(now + late[a]) \in Nat
    BY <2>1, EarnedMonotone
  <2>3. CASE a \in DOMAIN buckets
    <3>1. /\ buckets[a].tokens \in Nat /\ buckets[a].last_refill \in Nat
          /\ buckets[a].last_refill <= now
      BY <2>t, <2>3 DEF TypeOK, Bucket, ClockOrder
    <3>2. /\ Earned(buckets[a].last_refill + late[a]) \in Nat
          /\ Earned(buckets[a].last_refill + late[a]) <= Earned(now + late[a])
      BY <2>1, <3>1, EarnedMonotone
    <3>3. Spent(a) + buckets[a].tokens + Most - Least
            <= allowance + Earned(buckets[a].last_refill + late[a])
      BY <2>t, <2>3 DEF Account
    <3> QED
      BY <2>1, <2>2, <3>1, <3>2, <3>3
  <2>4. CASE a \in DOMAIN ideal \ DOMAIN buckets
    <3>1. Spent(a) + Most + capacity - Least <= allowance + Earned(now + late[a])
      BY <2>t, <2>4 DEF Account
    <3> QED
      BY <2>1, <2>2, <3>1
  <2>5. CASE a \notin DOMAIN ideal
    <3>1. Spent(a) = 0
      BY <2>t, <2>5, UnitAssumption DEF Account, Spent
    <3> QED
      BY <2>1, <2>2, <3>1
  <2> QED
    BY <2>3, <2>4, <2>5
<1> QED
  BY AccountInit, AccountNext, <1>1, PTL DEF Spec
=============================================================================
