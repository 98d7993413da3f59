----------------------------- MODULE RouteProofs -----------------------------
(***************************************************************************)
(* Proofs about Route, for any number of connections.  RouteInv adds to    *)
(* its types                                                               *)
(*   Aimed          which stages a connection of each target can be in;    *)
(*   Ledger         each counter, or the sum of those that share the       *)
(*                  outcomes of one step, is the number of connections     *)
(*                  past that step;                                        *)
(*   AttemptsSpent  which attempt a connection is at, after how many that  *)
(*                  failed.                                                *)
(* Resting on the types only, Waits bounds connect_with_backoff's time by  *)
(* the attempt it is at, and Remaining measures how far each connection is *)
(* from its end.                                                           *)
(***************************************************************************)
EXTENDS Route, FiniteSetTheorems, TLAPS

Proxied == {"passthrough", "terminate"}
Targets == Proxied \cup {"fallback"}
Begun   == Stages \ {"out", "sniff", "routed"}
Shaken  == Begun \ {"entering", "handshake"}
Gone    == {"leaving", "left", "done"}

(* how many connections with a target in T are at a stage in S *)
Num(T, S) == Cardinality({c \in Conns : target[c] \in T /\ at[c] \in S})

Aimed ==
  \A c \in Conns :
    /\ at[c] \in {"out", "sniff"} => target[c] = "none"
    /\ at[c] \in (Stages \ {"out", "sniff", "done"}) => target[c] # "none"
    /\ at[c] \in {"delay", "connect", "giving_up", "relay", "relayed"} => target[c] \in Proxied
    /\ at[c] \in {"alpn", "serving"} => target[c] = "fallback"
    /\ at[c] = "handshake" => target[c] # "passthrough"

Ledger ==
  /\ stats["probe_timeout"] + stats["probe_io_error"] = Num({"none"}, {"done"})
  /\ stats["sni_present"] + stats["sni_absent"] = Num(Targets, Stages)
  /\ stats["proxied"] = Num(Proxied, Begun)
  /\ stats["fallback"] = Num({"fallback"}, Begun)
  /\ stats["active_proxied"] = Num(Proxied, Serving)
  /\ stats["active_fallback"] = Num({"fallback"}, Serving)
  /\ stats["proxied_completed"] = Num(Proxied, {"done"})
  /\ stats["fallback_completed"] = Num({"fallback"}, {"done"})
  /\ stats["proxy_tls_success"] + stats["proxy_tls_failure"] <= Num({"terminate"}, Shaken)
  /\ stats["fallback_tls_success"] + stats["fallback_tls_failure"] = Num({"fallback"}, Shaken)
  /\ stats["fallback_alpn"] + Num({"fallback"}, {"alpn"}) = stats["fallback_tls_success"]

AttemptsSpent ==
  \A c \in Conns :
    /\ at[c] \notin {"giving_up"} \cup Gone => failed[c] = attempt[c] - 1
    /\ at[c] = "giving_up" => failed[c] = max_attempts

RouteInv == TypeOK /\ Aimed /\ Ledger /\ AttemptsSpent

------------------------------------------------------------------------------
(* Counting connections. *)

LEMMA SubsetFinite ==
  ASSUME NEW A, A \subseteq Conns
  PROVE  IsFiniteSet(A) /\ Cardinality(A) \in Nat
BY ConnsAssumption, FS_Subset, FS_CardinalityType

(* A set that gains or loses no one but c changes by whether c is in it.    *)
LEMMA OneMoves ==
  ASSUME NEW A, NEW B, A \subseteq Conns, B \subseteq Conns, NEW c, A \ {c} = B \ {c}
  PROVE  Cardinality(B) = Cardinality(A) + (IF c \in B THEN 1 ELSE 0) - (IF c \in A THEN 1 ELSE 0)
<1>1. IsFiniteSet(A) /\ Cardinality(A) \in Nat /\ IsFiniteSet(B) /\ Cardinality(B) \in Nat
  BY SubsetFinite
<1>2. CASE (c \in A) <=> (c \in B)
  <2>1. A = B
    BY <1>2
  <2>. QED  BY <1>1, <1>2, <2>1
<1>3. CASE c \in A /\ c \notin B
  <2>1. B = A \ {c}
    BY <1>3
  <2>2. Cardinality(B) = Cardinality(A) - 1
    BY <1>1, <1>3, <2>1, FS_RemoveElement
  <2>. QED  BY <1>1, <1>3, <2>2
<1>4. CASE c \notin A /\ c \in B
  <2>1. B = A \cup {c}
    BY <1>4
  <2>2. Cardinality(B) = Cardinality(A) + 1
    BY <1>1, <1>4, <2>1, FS_AddElement
  <2>. QED  BY <1>1, <1>4, <2>2
<1>. QED  BY <1>2, <1>3, <1>4

Moves(c) == \A d \in Conns \ {c} : at'[d] = at[d] /\ target'[d] = target[d]

Is(c, T, S) == IF target[c] \in T /\ at[c] \in S THEN 1 ELSE 0

Shift(c, T, S) ==
  /\ Num(T, S) \in Nat /\ Num(T, S)' \in Nat
  /\ Num(T, S)' = Num(T, S) + Is(c, T, S)' - Is(c, T, S)

(* ... for the numbers in the ledger *)
Shifts(c) ==
  /\ Shift(c, {"none"}, {"done"}) /\ Shift(c, Targets, Stages)
  /\ Shift(c, Proxied, Begun) /\ Shift(c, {"fallback"}, Begun)
  /\ Shift(c, Proxied, Serving) /\ Shift(c, {"fallback"}, Serving)
  /\ Shift(c, Proxied, {"done"}) /\ Shift(c, {"fallback"}, {"done"})
  /\ Shift(c, {"terminate"}, Shaken) /\ Shift(c, {"fallback"}, Shaken)
  /\ Shift(c, {"fallback"}, {"alpn"})

LEMMA NumShift ==
  ASSUME NEW c \in Conns, Moves(c), NEW T, NEW S
  PROVE  Shift(c, T, S)
<1>. DEFINE A == {d \in Conns : target[d] \in T /\ at[d] \in S}
<1>1. A \subseteq Conns /\ A' \subseteq Conns /\ A \ {c} = A' \ {c}
  BY DEF Moves
<1>2. (c \in A <=> target[c] \in T /\ at[c] \in S) /\ (c \in A' <=> target'[c] \in T /\ at'[c] \in S)
  OBVIOUS
<1>. HIDE DEF A
<1>3. Cardinality(A') = Cardinality(A) + (IF c \in A' THEN 1 ELSE 0) - (IF c \in A THEN 1 ELSE 0)
  BY <1>1, OneMoves
<1>4. Cardinality(A) \in Nat /\ Cardinality(A') \in Nat
  BY <1>1, SubsetFinite
<1>5. Num(T, S) = Cardinality(A) /\ Num(T, S)' = Cardinality(A')
  BY DEF Num, A
<1>6. Is(c, T, S) = (IF c \in A THEN 1 ELSE 0) /\ Is(c, T, S)' = (IF c \in A' THEN 1 ELSE 0)
  BY <1>2 DEF Is
<1>. QED  BY <1>3, <1>4, <1>5, <1>6 DEF Shift

LEMMA MoveShifts ==
  ASSUME NEW c \in Conns, Moves(c)
  PROVE  Shifts(c)
BY NumShift DEF Shifts

LEMMA StageKinds ==
  /\ \A s \in Stages : s \in Begun <=> s \notin {"out", "sniff", "routed"}
  /\ \A s \in Stages : s \in Shaken <=> s \notin {"out", "sniff", "routed", "entering", "handshake"}
  /\ \A s \in Stages : s \in Serving <=> s \notin {"out", "sniff", "routed", "entering", "left", "done"}
  /\ \A t : t \in Proxied <=> t \in {"passthrough", "terminate"}
  /\ \A t : t \in Targets <=> t \in {"passthrough", "terminate", "fallback"}
BY DEF Begun, Serving, Between, Shaken, Proxied, Targets

------------------------------------------------------------------------------
(* The steps of one connection. *)

LEMMA StepMoves ==
  ASSUME TypeOK, NEW c \in Conns, OwnStep(c) \/ PeerStep(c)
  PROVE  /\ at' \in [Conns -> Stages]
         /\ target' \in [Conns -> {"none", "passthrough", "terminate", "fallback"}]
         /\ Moves(c)
<1>. USE DEF TypeOK, Stages, Moves, Go
<1>1. CASE OwnStep(c)
  BY <1>1 DEF OwnStep, SniffTimeout, CountRoute, Enter, HandshakeFails, CountAlpn, Sleep,
              AttemptFails, GiveUp, CountToClient, Leave, Complete
<1>2. CASE PeerStep(c)
  BY <1>2 DEF PeerStep, Arrive, SniffError, Hello, BuildFails, HandshakeDone, Connected,
              AttemptFails, ServeEnds, RelayDone, RelayBreaks
<1>. QED  BY <1>1, <1>2

LEMMA StepAimed ==
  ASSUME TypeOK, Aimed, NEW c \in Conns, OwnStep(c) \/ PeerStep(c)
  PROVE  Aimed'
<1>. SUFFICES ASSUME NEW d \in Conns
              PROVE  /\ at'[d] \in {"out", "sniff"} => target'[d] = "none"
                     /\ at'[d] \in (Stages \ {"out", "sniff", "done"}) => target'[d] # "none"
                     /\ at'[d] \in {"delay", "connect", "giving_up", "relay", "relayed"}
                          => target'[d] \in Proxied
                     /\ at'[d] \in {"alpn", "serving"} => target'[d] = "fallback"
                     /\ at'[d] = "handshake" => target'[d] # "passthrough"
  BY DEF Aimed
<1>1. CASE d # c
  BY <1>1, StepMoves DEF Moves, Aimed
<1>. USE DEF TypeOK, Aimed, Stages, Proxied, Go
<1>2. CASE d = c /\ OwnStep(c)
  BY <1>2 DEF OwnStep, SniffTimeout, CountRoute, Enter, HandshakeFails, CountAlpn, Sleep,
              AttemptFails, GiveUp, CountToClient, Leave, Complete
<1>3. CASE d = c /\ PeerStep(c)
  BY <1>3 DEF PeerStep, Arrive, SniffError, Hello, BuildFails, HandshakeDone, Connected,
              AttemptFails, ServeEnds, RelayDone, RelayBreaks
<1>. QED  BY <1>1, <1>2, <1>3

LEMMA StepLedger ==
  ASSUME TypeOK, Aimed, Ledger, NEW c \in Conns, OwnStep(c) \/ PeerStep(c)
  PROVE  Ledger'
<1>1. /\ Shifts(c) /\ at[c] \in Stages /\ at'[c] \in Stages
      /\ stats \in [Counters -> Nat] /\ at \in [Conns -> Stages] /\ Aimed'
  BY StepMoves, MoveShifts, StepAimed DEF TypeOK
<1>2. target[c] \in {"none", "passthrough", "terminate", "fallback"}
      /\ target \in [Conns -> {"none", "passthrough", "terminate", "fallback"}]
  BY DEF TypeOK
<1>. USE <1>1, <1>2, StageKinds DEF Go, Count, Aimed, Ledger, Counters, Shifts, Shift, Is
<1>3. CASE SniffTimeout(c)
  BY <1>3 DEF SniffTimeout
<1>4. CASE CountRoute(c)
  BY <1>4 DEF CountRoute, Side
<1>5. CASE Enter(c)
  BY <1>5 DEF Enter, Active
<1>6. CASE HandshakeFails(c)
  BY <1>6 DEF HandshakeFails
<1>7. CASE CountAlpn(c)
  BY <1>7 DEF CountAlpn
<1>8. CASE Sleep(c)
  BY <1>8 DEF Sleep
<1>9. CASE AttemptFails(c, attempt_timeout) \/ AttemptFails(c, 0)
  BY <1>9 DEF AttemptFails
<1>10. CASE GiveUp(c)
  BY <1>10 DEF GiveUp
<1>11. CASE CountToClient(c)
  BY <1>11 DEF CountToClient
<1>12. CASE Leave(c)
  BY <1>12 DEF Leave, Active
<1>13. CASE Complete(c)
  BY <1>13 DEF Complete, Completed
<1>14. CASE Arrive(c)
  BY <1>14 DEF Arrive
<1>15. CASE SniffError(c)
  BY <1>15 DEF SniffError
<1>16. CASE Hello(c)
  BY <1>16 DEF Hello
<1>17. CASE BuildFails(c)
  BY <1>17 DEF BuildFails
<1>18. CASE HandshakeDone(c)
  BY <1>18 DEF HandshakeDone
<1>19. CASE Connected(c)
  BY <1>19 DEF Connected
<1>20. CASE ServeEnds(c)
  BY <1>20 DEF ServeEnds
<1>21. CASE RelayDone(c)
  BY <1>21 DEF RelayDone
<1>22. CASE RelayBreaks(c)
  BY <1>22 DEF RelayBreaks
<1>. QED
  BY <1>3, <1>4, <1>5, <1>6, <1>7, <1>8, <1>9, <1>10,
     <1>11, <1>12, <1>13, <1>14, <1>15, <1>16, <1>17, <1>18, <1>19, <1>20,
     <1>21, <1>22 DEF OwnStep, PeerStep

LEMMA Delays ==
  /\ GetDelay(1) = 0 /\ GetDelay(2) = 200 /\ GetDelay(3) = 400 /\ GetDelay(4) = 800
  /\ \A n \in 1..max_attempts : GetDelay(n) \in Nat
<1>1. 2^0 = 1 /\ 2^1 = 2 /\ 2^2 = 4
  OBVIOUS
<1>2. GetDelay(1) = 0
  BY DEF GetDelay
<1>3. GetDelay(2) = 200
  <2>1. GetDelay(2) = AtMost(base_delay * 2^0, max_delay)
    BY DEF GetDelay
  <2>. QED  BY <1>1, <2>1 DEF AtMost, base_delay, max_delay
<1>4. GetDelay(3) = 400
  <2>1. GetDelay(3) = AtMost(base_delay * 2^1, max_delay)
    BY DEF GetDelay
  <2>. QED  BY <1>1, <2>1 DEF AtMost, base_delay, max_delay
<1>5. GetDelay(4) = 800
  <2>1. GetDelay(4) = AtMost(base_delay * 2^2, max_delay)
    BY DEF GetDelay
  <2>. QED  BY <1>1, <2>1 DEF AtMost, base_delay, max_delay
<1>6. \A n \in 1..max_attempts : n = 1 \/ n = 2 \/ n = 3 \/ n = 4
  BY DEF max_attempts
<1>. HIDE DEF GetDelay
<1>. QED  BY <1>2, <1>3, <1>4, <1>5, <1>6

LEMMA StepCounts ==
  ASSUME TypeOK, NEW c \in Conns, Step(c)
  PROVE  stats' = stats \/ (\E k \in Counters : Count(k)) \/ Leave(c)
<1>1. CASE OwnStep(c)
  BY <1>1 DEF OwnStep, SniffTimeout, CountRoute, Side, Enter, Active, HandshakeFails, CountAlpn,
     Sleep, AttemptFails, GiveUp, CountToClient, Complete, Completed, Counters
<1>2. CASE PeerStep(c)
  BY <1>2 DEF PeerStep, Arrive, SniffError, Hello, BuildFails, HandshakeDone, Connected,
     AttemptFails, ServeEnds, RelayDone, RelayBreaks, Counters
<1>. QED  BY <1>1, <1>2 DEF Step

(* What a step of c makes of its attempts: another one, none, or a failure  *)
(* counted ...                                                              *)
Retry(c) ==
  /\ at[c] = "connect" /\ at' = [at EXCEPT ![c] = "delay"]
  /\ attempt[c] < max_attempts /\ attempt' = [attempt EXCEPT ![c] = attempt[c] + 1]
  /\ failed' = [failed EXCEPT ![c] = failed[c] + 1]
  /\ Count("connect_retries")

LastFails(c) ==
  /\ at[c] = "connect" /\ at' = [at EXCEPT ![c] = "giving_up"]
  /\ attempt[c] = max_attempts /\ attempt' = attempt
  /\ failed' = [failed EXCEPT ![c] = failed[c] + 1]
  /\ stats' = stats

(* ... or nothing                                                           *)
Neither ==
  /\ attempt' = attempt /\ failed' = failed
  /\ stats'["connect_retries"] = stats["connect_retries"]
  /\ stats'["connect_failures"] = stats["connect_failures"]
  /\ \A d \in Conns : at[d] \in Gone => at'[d] \in Gone
  /\ \A d \in Conns : at'[d] = "giving_up" <=> at[d] = "giving_up"

LEMMA StepTries ==
  ASSUME TypeOK, NEW c \in Conns, Step(c)
  PROVE  Retry(c) \/ LastFails(c) \/ GiveUp(c) \/ Neither
<1>0. attempt[c] < max_attempts \/ attempt[c] = max_attempts
  <2>1. attempt[c] \in {1, 2, 3, 4} /\ max_attempts = 4
    BY DEF TypeOK, max_attempts
  <2>. QED  BY <2>1
<1>. USE DEF TypeOK, Counters, Go, Count
<1>1. ASSUME NEW ms, AttemptFails(c, ms) PROVE Retry(c) \/ LastFails(c)
  <2>1. CASE attempt[c] < max_attempts
    BY <1>1, <2>1 DEF AttemptFails, Retry
  <2>2. CASE ~(attempt[c] < max_attempts)
    BY <1>0, <1>1, <2>2 DEF AttemptFails, LastFails
  <2>. QED  BY <2>1, <2>2
<1>2. CASE OwnStep(c) /\ ~AttemptFails(c, attempt_timeout) /\ ~GiveUp(c)
  BY <1>2 DEF OwnStep, SniffTimeout, CountRoute, Side, Enter, Active, HandshakeFails, CountAlpn,
     Sleep, CountToClient, Leave, Complete, Completed, Neither, Gone
<1>3. CASE PeerStep(c) /\ ~AttemptFails(c, 0)
  BY <1>3 DEF PeerStep, Arrive, SniffError, Hello, BuildFails, HandshakeDone, Connected,
     ServeEnds, RelayDone, RelayBreaks, Neither, Gone
<1>. QED  BY <1>1, <1>2, <1>3 DEF Step

LEMMA StepSpent ==
  ASSUME TypeOK, AttemptsSpent, NEW c \in Conns, Step(c)
  PROVE  AttemptsSpent'
<1>1. failed \in [Conns -> 0..max_attempts] /\ attempt \in [Conns -> 1..max_attempts]
      /\ at \in [Conns -> Stages] /\ max_attempts = 4
  BY DEF TypeOK, max_attempts
<1>2. CASE Retry(c)
  BY <1>1, <1>2 DEF Retry, AttemptsSpent, Gone
<1>3. CASE LastFails(c)
  BY <1>1, <1>3 DEF LastFails, AttemptsSpent, Gone
<1>4. CASE GiveUp(c)
  BY <1>1, <1>4 DEF GiveUp, Go, AttemptsSpent, Gone
<1>5. CASE Neither
  BY <1>5 DEF Neither, AttemptsSpent
<1>. QED  BY <1>2, <1>3, <1>4, <1>5, StepTries

LEMMA StepTypes ==
  ASSUME TypeOK, Aimed, Ledger, AttemptsSpent, NEW c \in Conns, Step(c)
  PROVE  TypeOK'
<1>1. at' \in [Conns -> Stages] /\ target' \in [Conns -> {"none", "passthrough", "terminate", "fallback"}]
  BY StepMoves DEF Step
<1>2. failed' \in [Conns -> 0..max_attempts]
  <2>1. ASSUME NEW ms, AttemptFails(c, ms) PROVE failed' \in [Conns -> 0..max_attempts]
    <3>1. failed[c] + 1 \in 0..max_attempts
      <4>1. at[c] = "connect" /\ attempt[c] \in 1..max_attempts
        BY <2>1 DEF AttemptFails, Go, TypeOK
      <4>2. failed[c] + 1 = attempt[c]
        BY <4>1 DEF AttemptsSpent, Gone, TypeOK, max_attempts
      <4>. QED  BY <4>1, <4>2 DEF max_attempts
    <3>. QED  BY <2>1, <3>1 DEF AttemptFails, TypeOK
  <2>2. CASE OwnStep(c) /\ ~AttemptFails(c, attempt_timeout)
    BY <2>2 DEF OwnStep, SniffTimeout, CountRoute, Enter, HandshakeFails, CountAlpn, Sleep,
       GiveUp, CountToClient, Leave, Complete, TypeOK
  <2>3. CASE PeerStep(c) /\ ~AttemptFails(c, 0)
    BY <2>3 DEF PeerStep, Arrive, SniffError, Hello, BuildFails, HandshakeDone, Connected,
       ServeEnds, RelayDone, RelayBreaks, TypeOK
  <2>. QED  BY <2>1, <2>2, <2>3 DEF Step
<1>3. attempt' \in [Conns -> 1..max_attempts] /\ waited' \in [Conns -> Nat]
  <2>. USE DEF TypeOK
  <2>1. CASE Sleep(c)
    <3>1. GetDelay(attempt[c]) \in Nat
      BY Delays
    <3>. QED  BY <2>1, <3>1 DEF Sleep, Wait
  <2>2. CASE AttemptFails(c, attempt_timeout) \/ AttemptFails(c, 0)
    <3>1. PICK ms \in Nat : AttemptFails(c, ms)
      BY <2>2 DEF attempt_timeout
    <3>2. waited' \in [Conns -> Nat]
      BY <3>1 DEF AttemptFails, Wait
    <3>3. attempt[c] < max_attempts => attempt[c] + 1 \in 1..max_attempts
      BY DEF max_attempts
    <3>4. attempt' = attempt
          \/ (attempt[c] < max_attempts /\ attempt' = [attempt EXCEPT ![c] = @ + 1])
      BY <3>1 DEF AttemptFails
    <3>. QED  BY <3>2, <3>3, <3>4
  <2>3. CASE OwnStep(c) /\ ~Sleep(c) /\ ~AttemptFails(c, attempt_timeout)
    BY <2>3 DEF OwnStep, SniffTimeout, CountRoute, Enter, HandshakeFails, CountAlpn,
       GiveUp, CountToClient, Leave, Complete, Waited
  <2>4. CASE PeerStep(c) /\ ~AttemptFails(c, 0)
    BY <2>4 DEF PeerStep, Arrive, SniffError, Hello, BuildFails, HandshakeDone, Connected,
       ServeEnds, RelayDone, RelayBreaks, Waited
  <2>. QED  BY <2>1, <2>2, <2>3, <2>4 DEF Step
<1>4. stats' \in [Counters -> Nat]
  <2>1. CASE Leave(c)
    <3>1. Ledger' /\ Shifts(c)
      BY StepLedger, StepMoves, MoveShifts DEF Step
    <3>2. stats'["active_proxied"] \in Nat /\ stats'["active_fallback"] \in Nat
      BY <3>1 DEF Ledger, Shifts, Shift
    <3>. QED  BY <2>1, <3>2 DEF TypeOK, Leave, Active, Counters
  <2>2. CASE \E k \in Counters : Count(k)
    BY <2>2 DEF TypeOK, Count
  <2>. QED  BY <2>1, <2>2, StepCounts DEF TypeOK
<1>. QED  BY <1>1, <1>2, <1>3, <1>4 DEF TypeOK

------------------------------------------------------------------------------
LEMMA InitInv == Init => RouteInv
<1>. SUFFICES ASSUME Init PROVE RouteInv
  OBVIOUS
<1>1. \A T, S : "out" \notin S \/ "none" \notin T => Num(T, S) = 0
  <2>. SUFFICES ASSUME NEW T, NEW S, "out" \notin S \/ "none" \notin T PROVE Num(T, S) = 0
    OBVIOUS
  <2>1. {c \in Conns : target[c] \in T /\ at[c] \in S} = {}
    BY DEF Init
  <2>. QED  BY <2>1, FS_EmptySet DEF Num
<1>2. TypeOK
  BY DEF Init, TypeOK, Stages, max_attempts
<1>3. Aimed
  BY DEF Init, Aimed
<1>4. Ledger
  <2>1. \A k \in Counters : stats[k] = 0
    BY DEF Init
  <2>. QED  BY <1>1, <2>1 DEF Ledger, Proxied, Targets, Begun, Shaken, Serving, Between, Counters
<1>5. AttemptsSpent
  BY DEF Init, AttemptsSpent
<1>. QED  BY <1>2, <1>3, <1>4, <1>5 DEF RouteInv

LEMMA NextInv == RouteInv /\ [Next]_vars => RouteInv'
<1>. SUFFICES ASSUME RouteInv, [Next]_vars PROVE RouteInv'
  OBVIOUS
<1>. USE DEF RouteInv
<1>1. ASSUME NEW c \in Conns, Step(c) PROVE RouteInv'
  BY <1>1, StepTypes, StepAimed, StepLedger, StepSpent DEF Step
<1>2. CASE UNCHANGED vars
  BY <1>2 DEF vars, TypeOK, Aimed, Ledger, Num, AttemptsSpent
<1>. QED  BY <1>1, <1>2 DEF Next, Over

LEMMA RouteInvHolds == Spec => []RouteInv
BY InitInv, NextInv, PTL DEF Spec

(* The counters and gauges stay natural numbers, the gauges too, though     *)
(* ActiveGuard lowers them: no guard is dropped that did not raise one.     *)
THEOREM TypeCorrect == Spec => []TypeOK
BY RouteInvHolds, PTL DEF RouteInv

(* The gauges against the connections themselves.                           *)
LEMMA NobodyBetween ==
  ASSUME TypeOK, \A c \in Conns : at[c] \notin Between, NEW T
  PROVE  /\ Num(T, Begun) = Num(T, Serving) + Num(T, {"done"})
         /\ Num(T, Serving) \in Nat /\ Num(T, {"done"}) \in Nat
<1>. DEFINE A == {c \in Conns : target[c] \in T /\ at[c] \in Serving}
            B == {c \in Conns : target[c] \in T /\ at[c] \in {"done"}}
<1>1. /\ IsFiniteSet(A) /\ IsFiniteSet(B)
      /\ Cardinality(A) \in Nat /\ Cardinality(B) \in Nat
  BY SubsetFinite
<1>2. A \cup B = {c \in Conns : target[c] \in T /\ at[c] \in Begun} /\ A \cap B = {}
  <2>1. \A c \in Conns : at[c] \in Begun <=> at[c] \in Serving \/ at[c] \in {"done"}
    BY DEF TypeOK, Begun, Serving, Between, Stages
  <2>2. "done" \notin Serving
    BY DEF Serving
  <2>. QED  BY <2>1, <2>2
<1>3. /\ Num(T, Serving) = Cardinality(A) /\ Num(T, {"done"}) = Cardinality(B)
      /\ Num(T, Begun) = Cardinality(A \cup B)
  BY <1>2 DEF Num
<1>. HIDE DEF A, B
<1>4. Cardinality(A \cup B) = Cardinality(A) + Cardinality(B) - Cardinality(A \cap B)
  BY <1>1, FS_Union
<1>5. Cardinality(A \cap B) = 0
  BY <1>2, FS_EmptySet
<1>. QED  BY <1>1, <1>3, <1>4, <1>5

(* However many connections there are: whenever none of them is in the      *)
(* middle of beginning or ending, each gauge is the number of connections   *)
(* being served (begin_proxied, begin_fallback, Drop for ActiveGuard).      *)
THEOREM GaugesMatchRealityHolds == Spec => []GaugesMatchReality
<1>1. ASSUME RouteInv, \A c \in Conns : at[c] \notin Between
      PROVE  /\ stats["active_proxied"]
                  = Cardinality({c \in Conns : at[c] \in Serving /\ target[c] # "fallback"})
             /\ stats["active_fallback"]
                  = Cardinality({c \in Conns : at[c] \in Serving /\ target[c] = "fallback"})
             /\ stats["proxied"] - stats["proxied_completed"] = stats["active_proxied"]
             /\ stats["fallback"] - stats["fallback_completed"] = stats["active_fallback"]
  <2>1. TypeOK /\ Aimed /\ Ledger
    BY <1>1 DEF RouteInv
  <2>2. {c \in Conns : target[c] \in Proxied /\ at[c] \in Serving}
          = {c \in Conns : at[c] \in Serving /\ target[c] # "fallback"}
    BY <2>1 DEF TypeOK, Aimed, Proxied, Serving, Between
  <2>3. {c \in Conns : target[c] \in {"fallback"} /\ at[c] \in Serving}
          = {c \in Conns : at[c] \in Serving /\ target[c] = "fallback"}
    OBVIOUS
  <2>4. /\ Num(Proxied, Serving)
             = Cardinality({c \in Conns : at[c] \in Serving /\ target[c] # "fallback"})
        /\ Num({"fallback"}, Serving)
             = Cardinality({c \in Conns : at[c] \in Serving /\ target[c] = "fallback"})
    BY <2>2, <2>3 DEF Num
  <2>5. /\ Num(Proxied, Begun) = Num(Proxied, Serving) + Num(Proxied, {"done"})
        /\ Num(Proxied, Serving) \in Nat /\ Num(Proxied, {"done"}) \in Nat
    BY <1>1, <2>1, NobodyBetween
  <2>6. /\ Num({"fallback"}, Begun) = Num({"fallback"}, Serving) + Num({"fallback"}, {"done"})
        /\ Num({"fallback"}, Serving) \in Nat /\ Num({"fallback"}, {"done"}) \in Nat
    BY <1>1, <2>1, NobodyBetween
  <2>7. /\ stats["proxied"] = Num(Proxied, Begun)
        /\ stats["fallback"] = Num({"fallback"}, Begun)
        /\ stats["active_proxied"] = Num(Proxied, Serving)
        /\ stats["active_fallback"] = Num({"fallback"}, Serving)
        /\ stats["proxied_completed"] = Num(Proxied, {"done"})
        /\ stats["fallback_completed"] = Num({"fallback"}, {"done"})
    BY <2>1 DEF Ledger
  <2>. QED  BY <2>4, <2>5, <2>6, <2>7
<1>2. RouteInv => GaugesMatchReality
  BY <1>1 DEF GaugesMatchReality
<1>. QED  BY <1>2, RouteInvHolds, PTL

(* Once all is quiet, whoever is not out is done.                           *)
LEMMA QuietCounts ==
  ASSUME TypeOK, Quiet
  PROVE  /\ \A T, S : "out" \notin S /\ "done" \in S => Num(T, S) = Num(T, {"done"})
         /\ \A T, S : "out" \notin S /\ "done" \notin S => Num(T, S) = 0
<1>. SUFFICES ASSUME NEW T, NEW S, "out" \notin S
              PROVE  /\ "done" \in S => Num(T, S) = Num(T, {"done"})
                     /\ "done" \notin S => Num(T, S) = 0
  OBVIOUS
<1>1. CASE "done" \in S
  <2>1. {c \in Conns : target[c] \in T /\ at[c] \in S}
          = {c \in Conns : target[c] \in T /\ at[c] \in {"done"}}
    BY <1>1 DEF Quiet
  <2>. QED  BY <1>1, <2>1 DEF Num
<1>2. CASE "done" \notin S
  <2>1. {c \in Conns : target[c] \in T /\ at[c] \in S} = {}
    BY <1>2 DEF Quiet
  <2>. QED  BY <1>2, <2>1, FS_EmptySet DEF Num
<1>. QED  BY <1>1, <1>2

LEMMA NumSplit ==
  ASSUME NEW T1, NEW T2, NEW S, T1 \cap T2 = {}
  PROVE  /\ Num(T1 \cup T2, S) = Num(T1, S) + Num(T2, S)
         /\ Num(T1, S) \in Nat /\ Num(T2, S) \in Nat
<1>. DEFINE A == {c \in Conns : target[c] \in T1 /\ at[c] \in S}
            B == {c \in Conns : target[c] \in T2 /\ at[c] \in S}
<1>1. /\ IsFiniteSet(A) /\ IsFiniteSet(B)
      /\ Cardinality(A) \in Nat /\ Cardinality(B) \in Nat
  BY SubsetFinite
<1>2. A \cup B = {c \in Conns : target[c] \in T1 \cup T2 /\ at[c] \in S} /\ A \cap B = {}
  OBVIOUS
<1>3. /\ Num(T1, S) = Cardinality(A) /\ Num(T2, S) = Cardinality(B)
      /\ Num(T1 \cup T2, S) = Cardinality(A \cup B)
  BY <1>2 DEF Num
<1>. HIDE DEF A, B
<1>4. Cardinality(A \cup B) = Cardinality(A) + Cardinality(B) - Cardinality(A \cap B)
  BY <1>1, FS_Union
<1>5. Cardinality(A \cap B) = 0
  BY <1>2, FS_EmptySet
<1>. QED  BY <1>1, <1>3, <1>4, <1>5

(* ActiveGuard's "can never drift from reality": when nobody is under way,  *)
(* every counter adds up, however the connections ended.                    *)
THEOREM BooksBalanceHolds == Spec => []BooksBalance
<1>1. ASSUME RouteInv PROVE BooksBalance
  <2>. SUFFICES ASSUME Quiet
       PROVE /\ stats["probe_timeout"] + stats["probe_io_error"] + stats["proxied"] + stats["fallback"]
                  = Cardinality(Finished)
             /\ stats["sni_present"] + stats["sni_absent"] = stats["proxied"] + stats["fallback"]
             /\ stats["active_proxied"] = 0 /\ stats["proxied_completed"] = stats["proxied"]
             /\ stats["active_fallback"] = 0 /\ stats["fallback_completed"] = stats["fallback"]
             /\ stats["proxy_tls_success"] + stats["proxy_tls_failure"] <= stats["proxied"]
             /\ stats["fallback_alpn"] = stats["fallback_tls_success"]
             /\ stats["fallback_tls_success"] + stats["fallback_tls_failure"] = stats["fallback"]
    BY DEF BooksBalance
  <2>1. TypeOK /\ Aimed /\ Ledger
    BY <1>1 DEF RouteInv
  <2>2. /\ \A T : Num(T, Begun) = Num(T, {"done"}) /\ Num(T, Shaken) = Num(T, {"done"})
        /\ \A T : Num(T, Serving) = 0 /\ Num(T, {"alpn"}) = 0
    <3>1. "out" \notin Begun /\ "done" \in Begun /\ "out" \notin Shaken /\ "done" \in Shaken
          /\ "out" \notin Serving /\ "done" \notin Serving
      BY DEF Begun, Shaken, Serving, Between, Stages
    <3>. QED  BY <2>1, <3>1, QuietCounts
  <2>3. Num(Targets, Stages) = Num(Targets, {"done"})
    <3>1. {c \in Conns : target[c] \in Targets /\ at[c] \in Stages}
            = {c \in Conns : target[c] \in Targets /\ at[c] \in {"done"}}
      BY <2>1 DEF Quiet, Aimed, Targets, Proxied, Stages
    <3>. QED  BY <3>1 DEF Num
  <2>4. Num(Targets, {"done"}) = Num(Proxied, {"done"}) + Num({"fallback"}, {"done"})
    BY NumSplit DEF Targets, Proxied
  <2>5. Cardinality(Finished) = Num({"none"}, {"done"}) + Num(Targets, {"done"})
    <3>1. Finished = {c \in Conns : target[c] \in {"none"} \cup Targets /\ at[c] \in {"done"}}
      BY <2>1 DEF Finished, TypeOK, Targets, Proxied
    <3>2. Num({"none"} \cup Targets, {"done"}) = Num({"none"}, {"done"}) + Num(Targets, {"done"})
      BY NumSplit DEF Targets, Proxied
    <3>. QED  BY <3>1, <3>2 DEF Num
  <2>6. /\ Num({"terminate"}, {"done"}) <= Num(Proxied, {"done"})
        /\ Num(Proxied, {"done"}) \in Nat /\ Num({"fallback"}, {"done"}) \in Nat
        /\ Num({"none"}, {"done"}) \in Nat /\ Num({"terminate"}, {"done"}) \in Nat
    <3>1. PICK P, T : P = {"passthrough"} /\ T = {"terminate"}
      OBVIOUS
    <3>2. P \cap T = {} /\ Proxied = P \cup T
      BY <3>1 DEF Proxied
    <3>3. /\ Num(Proxied, {"done"}) = Num(P, {"done"}) + Num(T, {"done"})
          /\ Num(P, {"done"}) \in Nat /\ Num(T, {"done"}) \in Nat
      BY <3>2, NumSplit
    <3>4. Num({"fallback"}, {"done"}) \in Nat /\ Num({"none"}, {"done"}) \in Nat
      BY NumSplit
    <3>. QED  BY <3>1, <3>3, <3>4
  <2>7. \A k \in Counters : stats[k] \in Nat
    BY <2>1 DEF TypeOK
  <2>8. /\ stats["proxied"] = Num(Proxied, {"done"})
        /\ stats["fallback"] = Num({"fallback"}, {"done"})
        /\ stats["active_proxied"] = 0 /\ stats["active_fallback"] = 0
        /\ stats["proxied_completed"] = Num(Proxied, {"done"})
        /\ stats["fallback_completed"] = Num({"fallback"}, {"done"})
        /\ stats["fallback_alpn"] + 0 = stats["fallback_tls_success"]
    BY <2>1, <2>2 DEF Ledger
  <2>9. /\ stats["proxy_tls_success"] + stats["proxy_tls_failure"] <= Num({"terminate"}, {"done"})
        /\ stats["fallback_tls_success"] + stats["fallback_tls_failure"] = Num({"fallback"}, {"done"})
    BY <2>1, <2>2 DEF Ledger
  <2>10. /\ stats["probe_timeout"] + stats["probe_io_error"] = Num({"none"}, {"done"})
         /\ stats["sni_present"] + stats["sni_absent"] = Num(Targets, {"done"})
    BY <2>1, <2>3 DEF Ledger
  <2>11. stats["proxy_tls_success"] + stats["proxy_tls_failure"] <= stats["proxied"]
    <3>1. stats["proxy_tls_success"] \in Nat /\ stats["proxy_tls_failure"] \in Nat
      BY <2>7 DEF Counters
    <3>. QED  BY <2>6, <2>8, <2>9, <3>1
  <2>12. stats["fallback_alpn"] \in Nat
    BY <2>7 DEF Counters
  <2>13. stats["probe_timeout"] + stats["probe_io_error"] \in Nat
    BY <2>6, <2>10
  <2>. QED  BY <2>4, <2>5, <2>6, <2>8, <2>9, <2>10, <2>11, <2>12, <2>13
<1>. QED  BY <1>1, RouteInvHolds, PTL

------------------------------------------------------------------------------
(* connect_with_backoff's time: what the attempts before the nth can have   *)
(* taken, delays and all, and the delay before the nth on top of it.        *)
Before(n) == IF n = 1 THEN 0 ELSE IF n = 2 THEN 3000 ELSE IF n = 3 THEN 6200 ELSE 9600

Waits ==
  \A c \in Conns :
    waited[c] <= (IF at[c] = "delay" THEN Before(attempt[c])
                  ELSE IF at[c] = "connect" THEN Before(attempt[c]) + GetDelay(attempt[c])
                  ELSE IF at[c] = "giving_up" THEN 13400
                  ELSE 0)

LEMMA StepWaits ==
  ASSUME TypeOK, Waits, NEW c \in Conns, Step(c)
  PROVE  Waits'
<1>. SUFFICES ASSUME NEW d \in Conns
              PROVE  waited'[d] <= (IF at'[d] = "delay" THEN Before(attempt'[d])
                       ELSE IF at'[d] = "connect" THEN Before(attempt'[d]) + GetDelay(attempt'[d])
                       ELSE IF at'[d] = "giving_up" THEN 13400
                       ELSE 0)
  BY DEF Waits
<1>1. /\ at[d] \in Stages /\ waited[d] \in Nat /\ attempt[d] \in {1, 2, 3, 4}
      /\ waited \in [Conns -> Nat] /\ at \in [Conns -> Stages] /\ attempt \in [Conns -> 1..max_attempts]
      /\ max_attempts = 4 /\ attempt_timeout = 3000
  BY DEF TypeOK, max_attempts, attempt_timeout
<1>2. waited[d] <= (IF at[d] = "delay" THEN Before(attempt[d])
                    ELSE IF at[d] = "connect" THEN Before(attempt[d]) + GetDelay(attempt[d])
                    ELSE IF at[d] = "giving_up" THEN 13400
                    ELSE 0)
  BY DEF Waits
<1>3. Before(1) = 0 /\ Before(2) = 3000 /\ Before(3) = 6200 /\ Before(4) = 9600
  BY DEF Before
<1>. HIDE DEF Before, GetDelay
<1>4. CASE Sleep(c)
  <2>1. CASE d = c
    <3>1. at[d] = "delay" /\ at'[d] = "connect" /\ attempt'[d] = attempt[d]
          /\ waited'[d] = waited[d] + GetDelay(attempt[d])
      BY <1>1, <1>4, <2>1 DEF Sleep, Go, Wait
    <3>2. waited[d] <= Before(attempt[d])
      BY <1>2, <3>1
    <3>3. Before(attempt[d]) \in Nat /\ GetDelay(attempt[d]) \in Nat
      BY <1>1, <1>3, Delays
    <3>. QED  BY <1>1, <3>1, <3>2, <3>3
  <2>2. CASE d # c
    BY <1>1, <1>2, <1>4, <2>2 DEF Sleep, Go, Wait
  <2>. QED  BY <2>1, <2>2
<1>5. ASSUME NEW ms \in {0, 3000}, AttemptFails(c, ms), d = c
      PROVE  waited'[d] <= (IF at'[d] = "delay" THEN Before(attempt'[d])
               ELSE IF at'[d] = "connect" THEN Before(attempt'[d]) + GetDelay(attempt'[d])
               ELSE IF at'[d] = "giving_up" THEN 13400
               ELSE 0)
  <2>1. at[d] = "connect" /\ waited'[d] = waited[d] + ms
        /\ waited[d] <= Before(attempt[d]) + GetDelay(attempt[d])
    BY <1>1, <1>2, <1>5 DEF AttemptFails, Go, Wait
  <2>2. CASE attempt[d] < 4
    <3>1. at'[d] = "delay" /\ attempt'[d] = attempt[d] + 1
      BY <1>1, <1>5, <2>2 DEF AttemptFails, Go
    <3>2. attempt[d] = 1 \/ attempt[d] = 2 \/ attempt[d] = 3
      BY <1>1, <2>2
    <3>. QED  BY <1>1, <1>3, <1>5, <2>1, <3>1, <3>2, Delays
  <2>3. CASE attempt[d] = 4
    <3>1. at'[d] = "giving_up"
      BY <1>1, <1>5, <2>3 DEF AttemptFails, Go
    <3>. QED  BY <1>1, <1>3, <1>5, <2>1, <2>3, <3>1, Delays
  <2>. QED  BY <1>1, <2>2, <2>3
<1>6. ASSUME NEW ms, AttemptFails(c, ms), d # c
      PROVE  waited'[d] = waited[d] /\ at'[d] = at[d] /\ attempt'[d] = attempt[d]
  BY <1>1, <1>6 DEF AttemptFails, Go, Wait, Count
<1>7. CASE AttemptFails(c, attempt_timeout) \/ AttemptFails(c, 0)
  BY <1>1, <1>2, <1>5, <1>6, <1>7
<1>8. CASE OwnStep(c) /\ ~Sleep(c) /\ ~AttemptFails(c, attempt_timeout)
  <2>1. \A n \in {1, 2, 3, 4} : 0 <= Before(n)
    BY <1>3
  <2>. QED  BY <1>1, <1>2, <1>8, <2>1 DEF OwnStep, SniffTimeout, CountRoute, Enter, HandshakeFails,
       CountAlpn, GiveUp, CountToClient, Leave, Complete, Waited, Go
<1>9. CASE PeerStep(c) /\ ~AttemptFails(c, 0)
  <2>1. \A n \in {1, 2, 3, 4} : 0 <= Before(n)
    BY <1>3
  <2>. QED  BY <1>1, <1>2, <1>9, <2>1 DEF PeerStep, Arrive, SniffError, Hello, BuildFails,
       HandshakeDone, Connected, ServeEnds, RelayDone, RelayBreaks, Waited, Go
<1>. QED  BY <1>4, <1>7, <1>8, <1>9 DEF Step

(* A dead service holds a client, and its slot in the limiters, for at most *)
(* the 13.4 seconds ConnectRetryPolicy::DEFAULT adds up to.                 *)
THEOREM StuckAtMostHolds == Spec => []StuckAtMost
<1>1. Init => Waits
  BY DEF Init, Waits
<1>2. ASSUME RouteInv, Waits, [Next]_vars PROVE Waits'
  <2>1. CASE UNCHANGED vars
    BY <1>2, <2>1 DEF vars, Waits
  <2>. QED  BY <1>2, <2>1, StepWaits DEF RouteInv, Next, Over
<1>3. ASSUME TypeOK, Waits PROVE StuckAtMost
  <2>. SUFFICES ASSUME NEW c \in Conns PROVE waited[c] <= 4 * 3000 + (200 + 400 + 800)
    BY DEF StuckAtMost
  <2>1. attempt[c] \in {1, 2, 3, 4} /\ waited[c] \in Nat
    BY <1>3 DEF TypeOK, max_attempts
  <2>2. Before(1) = 0 /\ Before(2) = 3000 /\ Before(3) = 6200 /\ Before(4) = 9600
    BY DEF Before
  <2>3. waited[c] <= Before(attempt[c]) \/ waited[c] <= Before(attempt[c]) + GetDelay(attempt[c])
        \/ waited[c] <= 13400 \/ waited[c] <= 0
    BY <1>3 DEF Waits
  <2>. HIDE DEF Before, GetDelay
  <2>. QED  BY <2>1, <2>2, <2>3, Delays
<1>4. RouteInv => TypeOK
  BY DEF RouteInv
<1>5. RouteInv /\ Waits /\ [Next]_vars => Waits'
  BY <1>2
<1>6. TypeOK /\ Waits => StuckAtMost
  BY <1>3
<1>. QED  BY <1>1, <1>4, <1>5, <1>6, RouteInvHolds, PTL DEF Spec
------------------------------------------------------------------------------
(* connect_retries and connect_failures, against the attempts that failed.  *)

LEMMA RetriesFinite ==
  /\ IsFiniteSet(Retries) /\ Cardinality(Retries) \in Nat
  /\ IsFiniteSet(GivenUp) /\ Cardinality(GivenUp) \in Nat
<1>1. IsFiniteSet(Conns \X (1..(max_attempts - 1)))
  <2>1. 1 \in Int /\ max_attempts - 1 \in Int
    BY DEF max_attempts
  <2>. QED  BY <2>1, FS_Interval, ConnsAssumption, FS_Product
<1>2. Retries \subseteq Conns \X (1..(max_attempts - 1)) /\ GivenUp \subseteq Conns
  BY DEF Retries, GivenUp
<1>. QED  BY <1>1, <1>2, ConnsAssumption, FS_Subset, FS_CardinalityType

LEMMA StepExplained ==
  ASSUME TypeOK, AttemptsSpent, RetriesExplained, NEW c \in Conns, Step(c)
  PROVE  RetriesExplained'
<1>. DEFINE R == Retries
            G == GivenUp
<1>1. /\ IsFiniteSet(R) /\ Cardinality(R) \in Nat
      /\ IsFiniteSet(G) /\ Cardinality(G) \in Nat
      /\ stats["connect_retries"] = Cardinality(R)
      /\ stats["connect_failures"] = Cardinality(G)
  BY RetriesFinite DEF RetriesExplained
<1>2. RetriesExplained' <=> /\ stats'["connect_retries"] = Cardinality(R')
                           /\ stats'["connect_failures"] = Cardinality(G')
  BY DEF RetriesExplained
<1>3. failed \in [Conns -> 0..max_attempts] /\ attempt \in [Conns -> 1..max_attempts]
      /\ at \in [Conns -> Stages] /\ stats \in [Counters -> Nat] /\ max_attempts = 4
  BY DEF TypeOK, max_attempts
<1>4. CASE Retry(c)
  <2>0. at[c] = "connect" /\ failed' = [failed EXCEPT ![c] = failed[c] + 1]
        /\ attempt[c] < max_attempts
    BY <1>4 DEF Retry
  <2>1. failed[c] = attempt[c] - 1 /\ attempt[c] \in 1..(max_attempts - 1)
    BY <1>3, <2>0 DEF AttemptsSpent, Gone
  <2>2. failed' = [failed EXCEPT ![c] = attempt[c]]
    <3>1. failed[c] + 1 = attempt[c]
      BY <1>3, <2>1
    <3>. QED  BY <2>0, <3>1
  <2>3. R' = R \cup {<<c, attempt[c]>>} /\ <<c, attempt[c]>> \notin R
    <3>1. <<c, attempt[c]>> \notin R
      BY <1>3, <2>1 DEF Retries
    <3>2. ASSUME NEW d \in Conns, NEW n \in 1..(max_attempts - 1)
          PROVE  n <= failed'[d] <=> n <= failed[d] \/ (d = c /\ n = attempt[c])
      <4>1. CASE d = c
        BY <1>3, <2>1, <2>2, <4>1
      <4>2. CASE d # c
        BY <1>3, <2>2, <4>2
      <4>. QED  BY <4>1, <4>2
    <3>3. <<c, attempt[c]>> \in Conns \X (1..(max_attempts - 1))
      BY <2>1
    <3>. QED  BY <3>1, <3>2, <3>3 DEF Retries
  <2>4. G' = G
    <3>1. failed[c] # max_attempts /\ failed'[c] # max_attempts
      BY <1>3, <2>1, <2>2
    <3>. QED  BY <1>3, <1>4, <2>2, <3>1 DEF Retry, GivenUp
  <2>5. /\ stats'["connect_retries"] = stats["connect_retries"] + 1
        /\ stats'["connect_failures"] = stats["connect_failures"]
    BY <1>3, <1>4 DEF Retry, Count, Counters
  <2>. HIDE DEF R, G
  <2>6. Cardinality(R') = Cardinality(R) + 1
    BY <1>1, <2>3, FS_AddElement
  <2>. QED  BY <1>1, <1>2, <2>4, <2>5, <2>6
<1>5. CASE LastFails(c)
  <2>0. at[c] = "connect" /\ failed' = [failed EXCEPT ![c] = failed[c] + 1]
        /\ attempt[c] = max_attempts
    BY <1>5 DEF LastFails
  <2>1. failed[c] = max_attempts - 1 /\ failed' = [failed EXCEPT ![c] = max_attempts]
    <3>1. failed[c] = max_attempts - 1
      BY <2>0 DEF AttemptsSpent, Gone
    <3>2. failed[c] + 1 = max_attempts
      BY <1>3, <3>1
    <3>. QED  BY <2>0, <3>1, <3>2
  <2>2. R' = R
    <3>1. ASSUME NEW d \in Conns, NEW n \in 1..(max_attempts - 1)
          PROVE  n <= failed'[d] <=> n <= failed[d]
      <4>1. CASE d = c
        BY <1>3, <2>1, <4>1
      <4>2. CASE d # c
        BY <1>3, <2>1, <4>2
      <4>. QED  BY <4>1, <4>2
    <3>. QED  BY <3>1 DEF Retries
  <2>3. G' = G
    <3>1. failed[c] # max_attempts /\ at'[c] = "giving_up"
      BY <1>3, <1>5, <2>1 DEF LastFails
    <3>. QED  BY <1>3, <1>5, <2>1, <3>1 DEF LastFails, GivenUp
  <2>. QED  BY <1>1, <1>2, <1>5, <2>2, <2>3 DEF LastFails
<1>6. CASE GiveUp(c)
  <2>1. R' = R
    BY <1>6 DEF GiveUp, Retries
  <2>2. G' = G \cup {c} /\ c \notin G
    BY <1>3, <1>6 DEF GiveUp, Go, GivenUp, AttemptsSpent
  <2>3. /\ stats'["connect_retries"] = stats["connect_retries"]
        /\ stats'["connect_failures"] = stats["connect_failures"] + 1
    BY <1>3, <1>6 DEF GiveUp, Count, Counters
  <2>. HIDE DEF R, G
  <2>4. Cardinality(G') = Cardinality(G) + 1
    BY <1>1, <2>2, FS_AddElement
  <2>. QED  BY <1>1, <1>2, <2>1, <2>3, <2>4
<1>7. CASE Neither
  <2>1. R' = R /\ G' = G
    BY <1>7 DEF Neither, Retries, GivenUp
  <2>. QED  BY <1>1, <1>2, <1>7, <2>1 DEF Neither
<1>. QED  BY <1>4, <1>5, <1>6, <1>7, StepTries

(* Every attempt that failed is counted, once, as a retry or, the last of   *)
(* max_attempts, as a failure, and nothing else is: after any number of     *)
(* connections the two counters say exactly how often the service did not   *)
(* answer and how many connections gave up on it.                           *)
THEOREM RetriesExplainedHolds == Spec => []RetriesExplained
<1>1. Init => RetriesExplained
  <2>. SUFFICES ASSUME Init PROVE RetriesExplained
    OBVIOUS
  <2>1. Retries = {} /\ GivenUp = {}
    BY DEF Init, Retries, GivenUp, max_attempts
  <2>. QED  BY <2>1, FS_EmptySet DEF Init, RetriesExplained, Counters
<1>2. ASSUME RouteInv, RetriesExplained, [Next]_vars
      PROVE  RetriesExplained'
  <2>1. CASE UNCHANGED vars
    BY <1>2, <2>1 DEF vars, RetriesExplained, Retries, GivenUp
  <2>. QED  BY <1>2, <2>1, StepExplained DEF RouteInv, Next, Over
<1>3. RouteInv /\ RetriesExplained /\ [Next]_vars => RetriesExplained'
  BY <1>2
<1>. QED  BY <1>1, <1>3, RouteInvHolds, PTL DEF Spec
------------------------------------------------------------------------------
(* How many steps a connection still has before it at most.  The only way   *)
(* back, from a failed attempt to the delay before the next, uses up an     *)
(* attempt.                                                                 *)
Attempts(c) == 2 * (max_attempts - attempt[c])

Remaining(c) ==
  CASE at[c] = "out" -> 17
    [] at[c] = "sniff" -> 16
    [] at[c] = "routed" -> 15
    [] at[c] = "entering" -> 14
    [] at[c] = "handshake" -> 13
    [] at[c] = "delay" -> 6 + Attempts(c)
    [] at[c] = "connect" -> 5 + Attempts(c)
    [] at[c] \in {"alpn", "relay"} -> 4
    [] at[c] \in {"serving", "relayed", "giving_up"} -> 3
    [] at[c] = "leaving" -> 2
    [] at[c] = "left" -> 1
    [] at[c] = "done" -> 0

(* No step of a connection is ever undone, and none delays another's.       *)
GetsOn ==
  \A c \in Conns : Step(c) =>
    /\ Remaining(c) \in 0..17 /\ Remaining(c)' \in 0..17
    /\ Remaining(c)' < Remaining(c)
    /\ \A d \in Conns \ {c} : Remaining(d)' = Remaining(d)

LEMMA AttemptsTyped ==
  ASSUME TypeOK, NEW c \in Conns
  PROVE  Attempts(c) \in 0..6
<1>1. attempt[c] \in {1, 2, 3, 4} /\ max_attempts = 4
  BY DEF TypeOK, max_attempts
<1>. QED  BY <1>1 DEF Attempts

LEMMA StepGetsOn ==
  ASSUME TypeOK, TypeOK', NEW c \in Conns, Step(c)
  PROVE  /\ Remaining(c) \in 0..17 /\ Remaining(c)' \in 0..17
         /\ Remaining(c)' < Remaining(c)
         /\ \A d \in Conns \ {c} : Remaining(d)' = Remaining(d)
<1>1. Attempts(c) \in 0..6 /\ Attempts(c)' \in 0..6
  <2>1. attempt'[c] \in {1, 2, 3, 4} /\ max_attempts = 4
    BY DEF TypeOK, max_attempts
  <2>. QED  BY <2>1, AttemptsTyped DEF Attempts
<1>2. at[c] \in Stages /\ at'[c] \in Stages
  BY DEF TypeOK
<1>3. Remaining(c) \in 0..17 /\ Remaining(c)' \in 0..17
  BY <1>1, <1>2 DEF Remaining, Stages
<1>4. Remaining(c)' < Remaining(c)
  <2>1. ASSUME NEW ms, AttemptFails(c, ms) PROVE Remaining(c)' < Remaining(c)
    <3>1. CASE attempt[c] < max_attempts
      <4>1. at[c] = "connect" /\ at'[c] = "delay" /\ attempt'[c] = attempt[c] + 1
        BY <2>1, <3>1 DEF AttemptFails, Go, TypeOK
      <4>2. attempt[c] \in {1, 2, 3, 4} /\ max_attempts = 4
        BY DEF TypeOK, max_attempts
      <4>3. Attempts(c)' = Attempts(c) - 2
        BY <4>1, <4>2 DEF Attempts
      <4>. QED  BY <1>1, <4>1, <4>3 DEF Remaining
    <3>2. CASE ~(attempt[c] < max_attempts)
      <4>1. at[c] = "connect" /\ at'[c] = "giving_up"
        BY <2>1, <3>2 DEF AttemptFails, Go, TypeOK
      <4>. QED  BY <1>1, <4>1 DEF Remaining
    <3>. QED  BY <3>1, <3>2
  <2>2. CASE Sleep(c)
    <3>1. at[c] = "delay" /\ at'[c] = "connect" /\ Attempts(c)' = Attempts(c)
      BY <2>2 DEF Sleep, Go, TypeOK, Attempts
    <3>. QED  BY <1>1, <3>1 DEF Remaining
  <2>3. CASE Connected(c)
    <3>1. at[c] = "connect" /\ at'[c] = "relay"
      BY <2>3 DEF Connected, Go, TypeOK
    <3>. QED  BY <1>1, <3>1 DEF Remaining
  <2>4. CASE Enter(c) \/ HandshakeDone(c)
    <3>1. \/ at[c] = "entering" /\ at'[c] \in {"delay", "handshake"}
          \/ at[c] = "handshake" /\ at'[c] \in {"delay", "alpn"}
      BY <2>4 DEF Enter, HandshakeDone, Go, TypeOK
    <3>. QED  BY <1>1, <3>1 DEF Remaining
  <2>5. CASE OwnStep(c) /\ ~Sleep(c) /\ ~Enter(c) /\ ~AttemptFails(c, attempt_timeout)
    <3>1. \/ at[c] = "sniff" /\ at'[c] = "done"
          \/ at[c] = "routed" /\ at'[c] = "entering"
          \/ at[c] = "handshake" /\ at'[c] = "leaving"
          \/ at[c] = "alpn" /\ at'[c] = "serving"
          \/ at[c] \in {"giving_up", "relayed"} /\ at'[c] = "leaving"
          \/ at[c] = "leaving" /\ at'[c] = "left"
          \/ at[c] = "left" /\ at'[c] = "done"
      BY <2>5 DEF OwnStep, SniffTimeout, CountRoute, HandshakeFails, CountAlpn, GiveUp, CountToClient,
         Leave, Complete, Go, TypeOK
    <3>. QED  BY <3>1 DEF Remaining
  <2>6. CASE PeerStep(c) /\ ~Connected(c) /\ ~HandshakeDone(c) /\ ~AttemptFails(c, 0)
    <3>1. \/ at[c] = "out" /\ at'[c] = "sniff"
          \/ at[c] = "sniff" /\ at'[c] \in {"done", "routed"}
          \/ at[c] = "handshake" /\ at'[c] = "leaving"
          \/ at[c] = "serving" /\ at'[c] = "leaving"
          \/ at[c] = "relay" /\ at'[c] \in {"relayed", "leaving"}
      BY <2>6 DEF PeerStep, Arrive, SniffError, Hello, BuildFails, ServeEnds, RelayDone, RelayBreaks,
         Go, TypeOK
    <3>. QED  BY <3>1 DEF Remaining
  <2>. QED  BY <2>1, <2>2, <2>3, <2>4, <2>5, <2>6 DEF Step
<1>5. ASSUME NEW d \in Conns \ {c} PROVE Remaining(d)' = Remaining(d)
  <2>1. at'[d] = at[d]
    BY StepMoves DEF Step, Moves
  <2>2. attempt'[d] = attempt[d]
    BY StepTries DEF Retry, LastFails, GiveUp, Neither, TypeOK
  <2>. QED  BY <2>1, <2>2 DEF Remaining, Attempts
<1>. QED  BY <1>3, <1>4, <1>5

(* What Settles needs besides the scheduling: whatever the client and the   *)
(* service do, a connection takes at most 17 steps, each one for good, so   *)
(* that it cannot go round in connect_with_backoff or anywhere else.        *)
THEOREM ConnectionsGetOn == Spec => [][GetsOn]_vars
<1>1. TypeOK /\ TypeOK' /\ [Next]_vars => [GetsOn]_vars
  BY StepGetsOn DEF GetsOn
<1>. QED  BY <1>1, TypeCorrect, PTL DEF Spec
=============================================================================
