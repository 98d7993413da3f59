----------------------------- MODULE RateLimiter -----------------------------
(***************************************************************************)
(* The per-IP token buckets of src/rate_limiter.rs.  allow(), called by    *)
(* the accept loop alone, and sweep(), called by the janitor, both load    *)
(* the two limits and read the clock BEFORE they take the mutex, so all of *)
(* it can be out of date inside; set_limit() stores the two limits one     *)
(* after the other.  Each load, clock reading, critical section and store  *)
(* is a step.                                                              *)
(*                                                                         *)
(* Tokens are counted in grains, Unit of which make a token: a rate below  *)
(* one token per tick of the clock leaves a fraction in the bucket.  The   *)
(* rounding of f64 is left out.                                            *)
(***************************************************************************)
EXTENDS Integers

CONSTANTS Ips,       \* client addresses
          Loopback,  \* the addresses for which is_loopback() holds
          Limits,    \* <<capacity, refill>> in grains and grains per tick
          Unit,      \* grains in a token
          MaxRate,   \* the highest refill among Limits
          MaxNow,    \* bound on the clock
          MaxReloads \* bound on the calls of set_limit

ASSUME UnitAssumption     == Unit \in Nat \ {0}
ASSUME LimitsAssumption   ==
         Limits # {} /\ \A l \in Limits : l \in Nat \X Nat /\ l[1] >= Unit
ASSUME MaxRateAssumption  == MaxRate \in Nat /\ \A l \in Limits : l[2] <= MaxRate
ASSUME LoopbackAssumption == Loopback \subseteq Ips
ASSUME BoundsAssumption   == MaxNow \in Nat /\ MaxReloads \in Nat

VARIABLES buckets,   \* Inner.buckets: the map, a function on the tracked IPs
          capacity,  \* Inner.capacity
          refill,    \* Inner.refill_per_sec_bits; 0 means disabled
          storing,   \* what set_limit has still to store in refill, or -1
          now,       \* the monotonic clock
          call,      \* the calls of allow and sweep under way: where and locals
          ip,        \* the argument of allow
          verdict,   \* its last answer
          ideal,     \* history: the buckets of a limiter that never forgets
          late,      \* history: how long calls that found their bucket swept
                     \* were between their clock reading and the lock
          admitted,  \* history: the connections let in on a token
          allowance, \* history: the bursts granted, see AdmissionsBounded
          reloads    \* how often set_limit has been called

limitVars   == <<capacity, refill, storing, reloads>>
historyVars == <<ideal, late, admitted, allowance>>
vars        == <<buckets, limitVars, now, call, ip, verdict, historyVars>>

Callers == {"allow", "sweep"}
Idle    == [at |-> "out", capacity |-> 0, refill |-> 0, now |-> 0]
Bucket  == [tokens : Nat, last_refill : Nat]
Call    == [at : {"out", "refill", "clock", "lock"},
            capacity : Nat, refill : Nat, now : Nat]

TypeOK ==
  /\ DOMAIN buckets \subseteq Ips
  /\ \A a \in DOMAIN buckets : buckets[a] \in Bucket
  /\ capacity \in Nat /\ refill \in Nat /\ storing \in Nat \cup {-1}
  /\ now \in Nat
  /\ call \in [Callers -> Call]
  /\ ip \in Ips /\ verdict \in BOOLEAN
  /\ DOMAIN ideal \subseteq Ips
  /\ \A a \in DOMAIN ideal : ideal[a] \in [tokens : Int, last_refill : Nat]
  /\ late \in [Ips -> Nat] /\ admitted \in [Ips -> Nat] /\ allowance \in Nat
  /\ reloads \in Nat

Init ==
  /\ buckets = [a \in {} |-> 0]
  /\ \E l \in Limits : capacity = l[1] /\ refill = l[2]
  /\ storing = -1 /\ reloads = 0
  /\ now = 0
  /\ call = [k \in Callers |-> Idle]
  /\ ip \in Ips /\ verdict = TRUE
  /\ ideal = [a \in {} |-> 0] /\ late = [a \in Ips |-> 0]
  /\ admitted = [a \in Ips |-> 0] /\ allowance = capacity

------------------------------------------------------------------------------
AtMost(n, bound) == IF n < bound THEN n ELSE bound

(* saturating_duration_since: the clock was read before the lock was taken *)
Elapsed(b, t) == IF t > b.last_refill THEN t - b.last_refill ELSE 0

(* what b holds when refilled with c's limits up to c's reading of the clock *)
Level(b, c) == AtMost(b.tokens + Elapsed(b, c.now) * c.refill, c.capacity)

(* Definitions named Mut... are slips the properties must catch; each one   *)
(* is a variant of the definition that follows it and is used nowhere else. *)
MutFresh(c) == [tokens |-> 0, last_refill |-> c.now]  \* starts empty
Fresh(c)    == [tokens |-> c.capacity, last_refill |-> c.now]

MutHasToken(n) == n > 0  \* any fraction of a token is enough
HasToken(n)    == n >= Unit

Entry(a, c) == IF a \in DOMAIN buckets THEN buckets[a] ELSE Fresh(c)

MutAfter(b, c, taken) ==  \* last_refill left as it was: time is credited twice
  [tokens |-> Level(b, c) - (IF taken THEN Unit ELSE 0), last_refill |-> b.last_refill]

(* b refilled, and a token taken from it *)
After(b, c, taken) ==
  [tokens |-> Level(b, c) - (IF taken THEN Unit ELSE 0), last_refill |-> c.now]

Put(m, a, b) == [x \in DOMAIN m \cup {a} |-> IF x = a THEN b ELSE m[x]]

(* The bucket of a in a limiter that never forgets: full the first time.    *)
IdealEntry(a, c) ==
  IF a \in DOMAIN ideal THEN ideal[a] ELSE [tokens |-> c.capacity, last_refill |-> c.now]

MutIsFull(b, c) == Level(b, c) + Unit > c.capacity  \* full to the last token
IsFull(b, c)    == ~(Level(b, c) < c.capacity)

------------------------------------------------------------------------------
(* What allow and sweep begin with. *)

LoadCapacity(k) ==
  /\ call[k].at = "out"
  /\ call' = [call EXCEPT ![k].at = "refill", ![k].capacity = capacity]
  /\ IF k = "allow" THEN ip' \in Ips ELSE UNCHANGED ip
  /\ UNCHANGED <<buckets, limitVars, now, verdict, historyVars>>

(* allow() returns here when the limiter is off and for loopback. *)
Exempt(k) == k = "allow" /\ (refill = 0 \/ ip \in Loopback)

LoadRefill(k) ==
  /\ call[k].at = "refill"
  /\ IF Exempt(k)
       THEN /\ call' = [call EXCEPT ![k] = Idle]
            /\ verdict' = TRUE
       ELSE /\ call' = [call EXCEPT ![k].at = "clock", ![k].refill = refill]
            /\ UNCHANGED verdict
  /\ UNCHANGED <<buckets, limitVars, now, ip, historyVars>>

ReadClock(k) ==
  /\ call[k].at = "clock"
  /\ call' = [call EXCEPT ![k].at = "lock", ![k].now = now]
  /\ UNCHANGED <<buckets, limitVars, now, ip, verdict, historyVars>>

(* The critical sections. *)

Decide ==
  LET c == call["allow"]
      allowed == HasToken(Level(Entry(ip, c), c))
  IN  /\ c.at = "lock"
      /\ call' = [call EXCEPT !["allow"] = Idle]
      /\ verdict' = allowed
      /\ buckets' = Put(buckets, ip, After(Entry(ip, c), c, allowed))
      /\ ideal' = Put(ideal, ip, After(IdealEntry(ip, c), c, allowed))
      /\ late' = IF ip \in DOMAIN ideal \ DOMAIN buckets
                   THEN [late EXCEPT ![ip] = @ + now - c.now] ELSE late
      /\ admitted' = IF allowed THEN [admitted EXCEPT ![ip] = @ + 1] ELSE admitted
      /\ UNCHANGED <<limitVars, now, ip, allowance>>

Sweep ==
  LET c == call["sweep"]
  IN  /\ c.at = "lock"
      /\ call' = [call EXCEPT !["sweep"] = Idle]
      /\ buckets' = [a \in {b \in DOMAIN buckets : ~IsFull(buckets[b], c)} |-> buckets[a]]
      /\ UNCHANGED <<limitVars, now, ip, verdict, historyVars>>

------------------------------------------------------------------------------
(* What a reload from one burst to another can be worth to an address.      *)
Worth(old, new) == IF new > old THEN 2 * (new - old) ELSE old - new

StoreCapacity(l) ==
  /\ storing = -1
  /\ reloads < MaxReloads /\ reloads' = reloads + 1
  /\ capacity' = l[1] /\ storing' = l[2]
  /\ allowance' = allowance + Worth(capacity, l[1])
  /\ UNCHANGED <<buckets, refill, now, call, ip, verdict, ideal, late, admitted>>

StoreRefill ==
  /\ storing # -1
  /\ refill' = storing /\ storing' = -1
  /\ UNCHANGED <<buckets, capacity, reloads, now, call, ip, verdict, historyVars>>

Tick ==
  /\ now < MaxNow
  /\ now' = now + 1
  /\ UNCHANGED <<buckets, limitVars, call, ip, verdict, historyVars>>

Next ==
  \/ \E k \in Callers : LoadCapacity(k) \/ LoadRefill(k) \/ ReadClock(k)
  \/ Decide \/ Sweep
  \/ (\E l \in Limits : StoreCapacity(l)) \/ StoreRefill
  \/ Tick

Spec == Init /\ [][Next]_vars

------------------------------------------------------------------------------
(* A client is refused only if a limiter that never forgets, given the same *)
(* readings of the clock and of the limits, stale ones included, has no     *)
(* token for it: no sweep, and no bucket made anew, costs a client a token. *)
Refuses == call["allow"].at = "lock" /\ call'["allow"].at = "out" /\ ~verdict'

NoFalseRefusal ==
  [][Refuses => ~HasToken(Level(IdealEntry(ip, call["allow"]), call["allow"]))]_vars

(* "Forgetting it loses no state" (sweep, run_janitor), as far as it is     *)
(* true: until a reload, a client is ahead of a limiter that never forgets  *)
(* by no more than it earned while calls that found its bucket swept were   *)
(* between their clock and the lock - by nothing, if none ever was.         *)
Today == [capacity |-> capacity, refill |-> refill, now |-> now]

Ahead(a) == IF a \in DOMAIN buckets
              THEN buckets[a].tokens - ideal[a].tokens
              ELSE capacity - Level(ideal[a], Today)

Gift(a) == late[a] * refill

ForgettingIsBounded ==
  reloads = 0 => \A a \in DOMAIN ideal : Ahead(a) <= Gift(a)

(* "burst: how many connections may arrive back-to-back before throttling", *)
(* "rate_per_sec: sustained new-connections/sec allowed per IP" (new):      *)
(* whatever clock readings and limits allow and sweep work with, and        *)
(* whichever reloads fall in between, torn ones included, an address is let *)
(* in on a token (so, whenever it is not exempt) no more often than a burst *)
(* and the highest rate of all the time there was allow.  On top of that    *)
(* come the time by which its own late calls were late (as with Gift),      *)
(* and for a reload the change of the burst, twice when it grows: a bucket  *)
(* forgotten as full to the old burst is made anew with the new one, and a  *)
(* sweep that has still the old one can have it forgotten once more.        *)
AdmissionsBounded ==
  \A a \in Ips : Unit * admitted[a] <= allowance + MaxRate * (now + late[a])
=============================================================================
