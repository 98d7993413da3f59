--------------------------- MODULE AcceptLoopProofs ---------------------------
(***************************************************************************)
(* Proofs about AcceptLoop and the connection limiter.  Every step of the  *)
(* composition is a step or a stutter of each limiter (ConnStep, IpStep),  *)
(* so what is proved of a limiter for any order of its operations, of the  *)
(* connection limiter below and of the per-IP one in IpLimiterProofs,      *)
(* holds here too.  LoopInv adds what relates the limiters to the loop,    *)
(* the sockets and the accept queue:                                       *)
(*   OneInHand      the loop holds at most one accepted socket, and only   *)
(*                  between accept() and spawn or discard;                 *)
(*   PermitToSpare  while it discards a socket whose permit it has given   *)
(*                  back, nobody else can have taken that permit;          *)
(*   BacklogQueued  the accept queue holds each queued connection once;    *)
(*   ShutdownPhase  how far the loop is from gone, by main's phase.        *)
(***************************************************************************)
EXTENDS AcceptLoop, FiniteSetTheorems, TLAPS

IpP == INSTANCE IpLimiterProofs

InHand == \/ loop \in {"rate", "ip", "decide", "spawn", "discard"}
          \/ loop \in {"drop", "return"} /\ resume = "discard"

OneInHand ==
  \A p \in Peers : conn[p] = "accepted" =>
    InHand /\ \A q \in Peers : conn[q] = "accepted" => q = p

PermitToSpare == loop = "discard" => permits > 0

BacklogQueued ==
  \A i \in 1..Len(backlog) :
    /\ conn[backlog[i]] = "queued"
    /\ \A j \in 1..Len(backlog) : backlog[i] = backlog[j] => i = j

ShutdownPhase ==
  /\ loop \in {"drop", "return"} /\ main # "serving" => resume = "gone"
  /\ main = "cancelling" => loop \in {"drop", "return", "gone"}
  /\ main \in {"draining", "drained", "expired"} => loop = "gone"

(* TypeOK without the limiters' parts *)
LoopTyped ==
  /\ loop \in {"acquire", "count", "accept", "rate", "ip", "decide", "spawn",
               "drop", "return", "discard", "backoff", "gone"}
  /\ resume \in {"discard", "backoff", "gone"}
  /\ conn \in [Peers -> {"idle", "queued", "accepted", "running", "closing"}]
  /\ backlog \in Seq(Peers)
  /\ main \in {"serving", "cancelling", "draining", "drained", "expired"}
  /\ polls \in 0..Grace

ConnInv == Conn!TypeOK /\ Conn!PermitsAccounted

LoopInv ==
  /\ LoopTyped
  /\ ConnInv
  /\ IpP!PhantomInv
  /\ SlotsOwned
  /\ OneInHand
  /\ PermitToSpare
  /\ BacklogQueued
  /\ ShutdownPhase
  /\ DrainCutsNothing

------------------------------------------------------------------------------
(* The limiters' assumptions hold of the constants they are given here. *)

LEMMA HandlesFinite == IsFiniteSet(Handles)
<1>1. IsFiniteSet(Peers)
  BY IpsAssumption, FS_Product DEF Peers
<1>. QED  BY <1>1, FS_AddElement DEF Handles

LEMMA ConnCardinality == \A S : Conn!Cardinality(S) = Cardinality(S)
BY DEF Conn!Cardinality, Cardinality

LEMMA IpFinite == \A S : IpP!IsFiniteSet(S) <=> IsFiniteSet(S)
BY DEF IpP!IsFiniteSet, IsFiniteSet

LEMMA IpCardinality ==
  \A S : IpP!Cardinality(S) = Cardinality(S) /\ Ip!Cardinality(S) = Cardinality(S)
BY DEF IpP!Cardinality, Ip!Cardinality, Cardinality

LEMMA IpAssumptions ==
  IpP!IpsAssumption /\ IpP!LimitsAssumption /\ IpP!LoopbackAssumption
BY IpFinite, IpsAssumption, LimitsAssumption, LoopbackAssumption
   DEF IpP!IpsAssumption, IpP!LimitsAssumption, IpP!LoopbackAssumption,
       IpsAssumption, LimitsAssumption, LoopbackAssumption

------------------------------------------------------------------------------
(* The connection limiter by itself: ConnInv is inductive, for any order of *)
(* its operations.                                                          *)

(* Conn!Holders and Conn!Held, as one handle's state changes. *)

LEMMA HoldersFinite ==
  /\ IsFiniteSet(Conn!Holders) /\ Cardinality(Conn!Holders) \in Nat
  /\ IsFiniteSet(Conn!Held) /\ Cardinality(Conn!Held) \in Nat
<1>1. Conn!Holders \subseteq Handles /\ Conn!Held \subseteq Handles
  BY DEF Conn!Holders, Conn!Held
<1>. QED  BY <1>1, HandlesFinite, ConnCardinality, FS_Subset, FS_CardinalityType

(* Conn!Held is a subset of Conn!Holders: no more slots are counted than permits out. *)
LEMMA HeldAreHolders ==
  Cardinality(Conn!Held) <= Cardinality(Conn!Holders)
<1>1. Conn!Held \subseteq Conn!Holders
  BY DEF Conn!Held, Conn!Holders
<1>. QED  BY <1>1, HoldersFinite, FS_Subset

LEMMA SwapElement ==
  ASSUME NEW S, IsFiniteSet(S), NEW x \in S, NEW y, y \notin S
  PROVE  Cardinality((S \ {x}) \cup {y}) = Cardinality(S)
<1>. DEFINE R == S \ {x}
<1>1. IsFiniteSet(R) /\ Cardinality(R) = Cardinality(S) - 1
  BY FS_RemoveElement
<1>2. Cardinality(R \cup {y}) = Cardinality(R) + 1
  <2>. HIDE DEF R
  <2>1. y \notin R
    BY DEF R
  <2>. QED  BY <1>1, <2>1, FS_AddElement
<1>3. Cardinality(S) \in Nat
  BY FS_CardinalityType
<1>. QED  BY <1>1, <1>2, <1>3

LEMMA InitConnInv ==
  Conn!Init => ConnInv
<1>. SUFFICES ASSUME Conn!Init PROVE ConnInv
  OBVIOUS
<1>1. Conn!Holders = {} /\ Conn!Held = {}
  BY DEF Conn!Init, Conn!Holders, Conn!Held
<1>2. Conn!PermitsAccounted
  BY <1>1, ConnCardinality, FS_EmptySet, MaxConnectionsAssumption DEF Conn!Init, Conn!PermitsAccounted
<1>3. Conn!TypeOK
  BY MaxConnectionsAssumption DEF Conn!Init, Conn!TypeOK, Conn!SlotState
<1>. QED  BY <1>2, <1>3 DEF ConnInv

LEMMA NextConnInv ==
  ConnInv /\ [Conn!Next]_(Conn!vars) => ConnInv'
<1>. SUFFICES ASSUME ConnInv, [Conn!Next]_(Conn!vars) PROVE ConnInv'
  OBVIOUS
<1>. USE MaxConnectionsAssumption DEF ConnInv, Conn!SlotState
<1>0. /\ permits + Cardinality(Conn!Holders) = MaxConnections
      /\ connections = Cardinality(Conn!Held)
  BY ConnCardinality DEF Conn!PermitsAccounted
<1>1. ASSUME NEW h \in Handles, Conn!AcquirePermit(h) PROVE ConnInv'
  <2>1. /\ Conn!Holders' = Conn!Holders \cup {h} /\ h \notin Conn!Holders
        /\ Conn!Held' = Conn!Held
    BY <1>1 DEF Conn!AcquirePermit, Conn!TypeOK, Conn!Holders, Conn!Held
  <2>2. Cardinality(Conn!Holders') = Cardinality(Conn!Holders) + 1
    BY <2>1, HoldersFinite, FS_AddElement
  <2>3. Conn!TypeOK'
    BY <1>1 DEF Conn!AcquirePermit, Conn!TypeOK
  <2>4. Conn!PermitsAccounted'
    BY <1>0, ConnCardinality, <1>1, <2>1, <2>2, <2>3, HoldersFinite DEF Conn!AcquirePermit, Conn!TypeOK, Conn!PermitsAccounted
  <2>. QED  BY <2>3, <2>4
<1>2. ASSUME NEW h \in Handles, Conn!CountUp(h) PROVE ConnInv'
  <2>1. /\ Conn!Holders' = Conn!Holders
        /\ Conn!Held' = Conn!Held \cup {h} /\ h \notin Conn!Held
    BY <1>2 DEF Conn!CountUp, Conn!TypeOK, Conn!Holders, Conn!Held
  <2>2. Cardinality(Conn!Held') = Cardinality(Conn!Held) + 1
    BY <2>1, HoldersFinite, FS_AddElement
  <2>3. Conn!TypeOK'
    BY <1>2 DEF Conn!CountUp, Conn!TypeOK
  <2>4. Conn!PermitsAccounted'
    BY <1>0, ConnCardinality, <1>2, <2>1, <2>2 DEF Conn!CountUp, Conn!PermitsAccounted
  <2>. QED  BY <2>3, <2>4
<1>3. ASSUME NEW h \in Handles, Conn!CountDown(h) PROVE ConnInv'
  <2>1. /\ Conn!Holders' = Conn!Holders
        /\ Conn!Held' = Conn!Held \ {h} /\ h \in Conn!Held
    BY <1>3 DEF Conn!CountDown, Conn!TypeOK, Conn!Holders, Conn!Held
  <2>2. /\ Cardinality(Conn!Held') = Cardinality(Conn!Held) - 1
        /\ Cardinality(Conn!Held') \in Nat
    BY <2>1, HoldersFinite, FS_RemoveElement, FS_CardinalityType
  <2>3. Conn!TypeOK'
    BY <1>0, ConnCardinality, <1>3, <2>2 DEF Conn!CountDown, Conn!TypeOK
  <2>4. Conn!PermitsAccounted'
    BY <1>0, ConnCardinality, <1>3, <2>1, <2>2 DEF Conn!CountDown, Conn!PermitsAccounted
  <2>. QED  BY <2>3, <2>4
<1>4. ASSUME NEW h \in Handles, Conn!ReturnPermit(h) PROVE ConnInv'
  <2>1. /\ Conn!Holders' = Conn!Holders \ {h} /\ h \in Conn!Holders
        /\ Conn!Held' = Conn!Held
    BY <1>4 DEF Conn!ReturnPermit, Conn!TypeOK, Conn!Holders, Conn!Held
  <2>2. /\ Cardinality(Conn!Holders') = Cardinality(Conn!Holders) - 1
        /\ Cardinality(Conn!Holders') \in Nat
    BY <2>1, HoldersFinite, FS_RemoveElement, FS_CardinalityType
  <2>3. Conn!TypeOK'
    BY <1>0, ConnCardinality, <1>4, <2>2, HoldersFinite DEF Conn!ReturnPermit, Conn!TypeOK
  <2>4. Conn!PermitsAccounted'
    BY <1>0, ConnCardinality, <1>4, <2>1, <2>2, HoldersFinite DEF Conn!ReturnPermit, Conn!TypeOK, Conn!PermitsAccounted
  <2>. QED  BY <2>3, <2>4
<1>5. ASSUME NEW g \in Handles, NEW h \in Handles, Conn!Move(g, h) PROVE ConnInv'
  <2>1. /\ Conn!Holders' = (Conn!Holders \ {g}) \cup {h} /\ g \in Conn!Holders /\ h \notin Conn!Holders
        /\ Conn!Held' = (Conn!Held \ {g}) \cup {h} /\ g \in Conn!Held /\ h \notin Conn!Held
    BY <1>5 DEF Conn!Move, Conn!TypeOK, Conn!Holders, Conn!Held
  <2>2. Cardinality(Conn!Holders') = Cardinality(Conn!Holders)
    BY <2>1, HoldersFinite, SwapElement
  <2>3. Cardinality(Conn!Held') = Cardinality(Conn!Held)
    BY <2>1, HoldersFinite, SwapElement
  <2>4. Conn!TypeOK'
    BY <1>5 DEF Conn!Move, Conn!TypeOK
  <2>5. Conn!PermitsAccounted'
    BY <1>0, ConnCardinality, <1>5, <2>2, <2>3 DEF Conn!Move, Conn!PermitsAccounted
  <2>. QED  BY <2>4, <2>5
<1>6. CASE UNCHANGED Conn!vars
  BY <1>6, ConnCardinality DEF Conn!vars, Conn!TypeOK, Conn!PermitsAccounted, Conn!Holders, Conn!Held
<1>. QED  BY <1>1, <1>2, <1>3, <1>4, <1>5, <1>6 DEF Conn!Next, Conn!Step

LEMMA ConnInvGauge ==
  ConnInv => Conn!GaugeCoversPermits
<1>. SUFFICES ASSUME ConnInv PROVE Conn!GaugeCoversPermits
  OBVIOUS
<1>. QED  BY HeldAreHolders, HoldersFinite, ConnCardinality
          DEF ConnInv, Conn!TypeOK, Conn!PermitsAccounted, Conn!GaugeCoversPermits, Conn!Available

(* limiter.rs: "so the two can never drift apart".  Whoever uses the slots, *)
(* in whatever order: every permit is in the semaphore or belongs to one    *)
(* handle, the counter counts the complete slots and so never reads as      *)
(* negative, and the gauge connections_available, read between any two      *)
(* atomic steps, never reports fewer free slots than an acquire could take. *)
THEOREM ConnectionLimiterCorrect ==
  Conn!Spec => [](Conn!TypeOK /\ Conn!PermitsAccounted /\ Conn!GaugeCoversPermits)
<1>1. ConnInv => Conn!TypeOK /\ Conn!PermitsAccounted /\ Conn!GaugeCoversPermits
  BY ConnInvGauge DEF ConnInv
<1>. QED  BY <1>1, InitConnInv, NextConnInv, PTL DEF Conn!Spec

------------------------------------------------------------------------------
(* Every step of the composition is a step or a stutter of each limiter.    *)

LEMMA ConnStep == [Next]_vars => [Conn!Next]_(Conn!vars)
<1>. SUFFICES ASSUME [Next]_vars PROVE Conn!Next \/ UNCHANGED Conn!vars
  OBVIOUS
<1>. USE DEF Handles, Conn!vars, connVars
<1>1. ASSUME NEW p \in Peers, Connect(p) \/ RouteEnds(p) \/ DropIpSlot(p)
      PROVE  UNCHANGED Conn!vars
  BY <1>1 DEF Connect, RouteEnds, DropIpSlot
<1>2. ASSUME NEW p \in Peers, DropConnSlot(p) PROVE Conn!Next
  BY <1>2 DEF DropConnSlot, Conn!CountDown, Conn!Step, Conn!Next
<1>3. ASSUME NEW p \in Peers, ReturnConnSlot(p) PROVE Conn!Next
  BY <1>3 DEF ReturnConnSlot, Conn!ReturnPermit, Conn!Step, Conn!Next
<1>4. CASE Accept \/ AcceptFails
  BY <1>4 DEF Accept, AcceptFails
<1>5. CASE LoopStep
  <2>1. CASE AcquireSlot
    BY <2>1 DEF AcquireSlot, Conn!AcquirePermit, Conn!Step, Conn!Next
  <2>2. CASE CountSlot
    BY <2>2 DEF CountSlot, Conn!CountUp, Conn!Step, Conn!Next
  <2>3. CASE RateAllows \/ RateRejects \/ BackoffOver
    BY <2>3 DEF RateAllows, RateRejects, BackoffOver
  <2>4. ASSUME NEW p \in Peers, LoadIpLimit(p) \/ IpAllows(p) \/ IpRejects(p) \/ Discard(p)
        PROVE  UNCHANGED Conn!vars
    BY <2>4 DEF LoadIpLimit, IpAllows, IpRejects, Discard
  <2>5. ASSUME NEW p \in Peers, Spawn(p) PROVE Conn!Next
    BY <2>5 DEF Spawn, Conn!Move, Conn!Next
  <2>6. CASE DropSlot
    BY <2>6 DEF DropSlot, Conn!CountDown, Conn!Step, Conn!Next
  <2>7. CASE ReturnSlot
    BY <2>7 DEF ReturnSlot, Conn!ReturnPermit, Conn!Step, Conn!Next
  <2>. QED  BY <1>5, <2>1, <2>2, <2>3, <2>4, <2>5, <2>6, <2>7 DEF LoopStep
<1>6. CASE Shutdown \/ MainStep
  BY <1>6 DEF Shutdown, MainStep, CloseListener, Drained, GraceElapsed, PollAgain
<1>7. ASSUME NEW n \in Limits, Reload(n) PROVE UNCHANGED Conn!vars
  BY <1>7 DEF Reload
<1>8. CASE Terminated \/ UNCHANGED vars
  BY <1>8 DEF Terminated, vars
<1>. QED  BY <1>1, <1>2, <1>3, <1>4, <1>5, <1>6, <1>7, <1>8 DEF Next, TaskDrops

LEMMA IpStep == [Next]_vars => [IpP!Next]_(IpP!vars)
<1>. SUFFICES ASSUME [Next]_vars PROVE IpP!Next \/ UNCHANGED IpP!vars
  OBVIOUS
<1>. USE DEF Peers, IpP!Peers, IpP!vars, ipVars
<1>1. ASSUME NEW p \in Peers, Connect(p) \/ RouteEnds(p) \/ DropConnSlot(p) \/ ReturnConnSlot(p)
      PROVE  UNCHANGED IpP!vars
  BY <1>1 DEF Connect, RouteEnds, DropConnSlot, ReturnConnSlot
<1>2. ASSUME NEW p \in Peers, DropIpSlot(p) PROVE IpP!Next
  <2>1. IpP!DropSlot(p)
    BY <1>2 DEF DropIpSlot, Ip!DropSlot, IpP!DropSlot, Ip!AfterDrop, IpP!AfterDrop, Ip!Ip, IpP!Ip
  <2>. QED  BY <2>1 DEF IpP!Step, IpP!Next
<1>3. CASE Accept \/ AcceptFails
  BY <1>3 DEF Accept, AcceptFails
<1>4. CASE LoopStep
  <2>1. CASE AcquireSlot \/ CountSlot \/ RateAllows \/ RateRejects \/ DropSlot \/ ReturnSlot \/ BackoffOver
    BY <2>1 DEF AcquireSlot, CountSlot, RateAllows, RateRejects, DropSlot, ReturnSlot, BackoffOver
  <2>2. ASSUME NEW p \in Peers, LoadIpLimit(p) PROVE IpP!Next
    BY <2>2 DEF LoadIpLimit, Ip!LoadLimit, IpP!LoadLimit, IpP!Step, IpP!Next
  <2>3. ASSUME NEW p \in Peers, IpAllows(p) PROVE IpP!Next
    <3>1. IpP!PassUnlimited(p) \/ IpP!Reserve(p)
      BY <2>3 DEF IpAllows, Ip!PassUnlimited, IpP!PassUnlimited, Ip!Reserve, IpP!Reserve,
                  Ip!Decide, IpP!Decide, Ip!Unlimited, IpP!Unlimited, Ip!HasRoom, IpP!HasRoom,
                  Ip!WithCount, IpP!WithCount, Ip!Count, IpP!Count, Ip!Ip, IpP!Ip
    <3>. QED  BY <3>1 DEF IpP!Step, IpP!Next
  <2>4. ASSUME NEW p \in Peers, IpRejects(p) PROVE IpP!Next
    <3>1. IpP!Reject(p)
      BY <2>4 DEF IpRejects, Ip!Reject, IpP!Reject,
                  Ip!Decide, IpP!Decide, Ip!Unlimited, IpP!Unlimited, Ip!HasRoom, IpP!HasRoom,
                  Ip!WithCount, IpP!WithCount, Ip!Count, IpP!Count, Ip!Ip, IpP!Ip
    <3>. QED  BY <3>1 DEF IpP!Step, IpP!Next
  <2>5. ASSUME NEW p \in Peers, Spawn(p) \/ Discard(p) PROVE UNCHANGED IpP!vars
    BY <2>5 DEF Spawn, Discard
  <2>. QED  BY <1>4, <2>1, <2>2, <2>3, <2>4, <2>5 DEF LoopStep
<1>5. CASE Shutdown \/ MainStep
  BY <1>5 DEF Shutdown, MainStep, CloseListener, Drained, GraceElapsed, PollAgain
<1>6. ASSUME NEW n \in Limits, Reload(n) PROVE IpP!Next
  BY <1>6 DEF Reload, Ip!SetLimit, IpP!SetLimit, IpP!Next
<1>7. CASE Terminated \/ UNCHANGED vars
  BY <1>7 DEF Terminated, vars
<1>. QED  BY <1>1, <1>2, <1>3, <1>4, <1>5, <1>6, <1>7 DEF Next, TaskDrops

LEMMA LimitersNext ==
  ConnInv /\ IpP!PhantomInv /\ [Next]_vars => ConnInv' /\ IpP!PhantomInv'
BY ConnStep, IpStep, NextConnInv, IpP!NextPhantomInv, IpAssumptions

LEMMA IpTyped == IpP!TypeOK <=> Ip!TypeOK
BY DEF IpP!TypeOK, Ip!TypeOK, IpP!Peers, Ip!Peers

(* The accept loop, its tasks, the reloads and the shutdown move slots and  *)
(* per-IP counts through the limiters' operations and in no other way: what *)
(* each limiter sees of the process is a behaviour of the limiter alone.    *)
THEOREM UsesConnectionLimiter == Spec => Conn!Spec
<1>1. Init => Conn!Init
  BY DEF Init
<1>. QED  BY <1>1, ConnStep, PTL DEF Spec, Conn!Spec

(* The same of the per-IP limiter: an address's count moves only with a     *)
(* try_acquire or the drop of a slot, the limit only with a reload.         *)
THEOREM UsesIpLimiter == Spec => IpP!Spec
<1>1. Init => IpP!Init
  BY DEF Init, Ip!Init, IpP!Init, Ip!Peers, IpP!Peers
<1>. QED  BY <1>1, IpStep, PTL DEF Spec, IpP!Spec

------------------------------------------------------------------------------
(* LoopInv, one conjunct at a time. *)

LEMMA NextLoopTyped ==
  LoopTyped /\ [Next]_vars => LoopTyped'
<1>. SUFFICES ASSUME LoopTyped, [Next]_vars PROVE LoopTyped'
  OBVIOUS
<1>. USE DEF LoopTyped
<1>1. ASSUME NEW p \in Peers, Connect(p) PROVE LoopTyped'
  BY <1>1 DEF Connect, loopVars, mainVars
<1>2. ASSUME NEW p \in Peers, RouteEnds(p) \/ TaskDrops(p) PROVE LoopTyped'
  BY <1>2 DEF RouteEnds, TaskDrops, DropIpSlot, DropConnSlot, ReturnConnSlot, loopVars, mainVars
<1>3. CASE Accept \/ AcceptFails
  BY <1>3 DEF Accept, AcceptFails, Goto, DropThen, mainVars
<1>4. CASE LoopStep
  BY <1>4 DEF LoopStep, AcquireSlot, CountSlot, RateAllows, RateRejects, LoadIpLimit, IpAllows,
              IpRejects, Spawn, Discard, DropSlot, ReturnSlot, BackoffOver, Goto, DropThen, mainVars
<1>5. CASE Shutdown \/ MainStep
  <2>1. CASE Shutdown \/ Drained \/ GraceElapsed
    BY <2>1 DEF Shutdown, Drained, GraceElapsed, loopVars
  <2>2. CASE CloseListener
    BY <2>2 DEF CloseListener, loopVars
  <2>3. CASE PollAgain
    BY <2>3, GraceAssumption DEF PollAgain, loopVars, GraceAssumption
  <2>. QED  BY <1>5, <2>1, <2>2, <2>3 DEF MainStep
<1>6. ASSUME NEW n \in Limits, Reload(n) PROVE LoopTyped'
  BY <1>6 DEF Reload, loopVars, mainVars
<1>7. CASE Terminated \/ UNCHANGED vars
  BY <1>7 DEF Terminated, vars, loopVars, mainVars
<1>. QED  BY <1>1, <1>2, <1>3, <1>4, <1>5, <1>6, <1>7 DEF Next

LEMMA NextShutdownPhase ==
  LoopTyped /\ ShutdownPhase /\ [Next]_vars => ShutdownPhase'
<1>. SUFFICES ASSUME LoopTyped, ShutdownPhase, [Next]_vars PROVE ShutdownPhase'
  OBVIOUS
<1>. USE DEF LoopTyped, ShutdownPhase
<1>1. ASSUME NEW p \in Peers, Connect(p) \/ RouteEnds(p) \/ TaskDrops(p) PROVE ShutdownPhase'
  BY <1>1 DEF Connect, RouteEnds, TaskDrops, DropIpSlot, DropConnSlot, ReturnConnSlot,
              loopVars, mainVars
<1>2. CASE Accept \/ AcceptFails
  BY <1>2 DEF Accept, AcceptFails, Goto, DropThen, mainVars
<1>3. CASE LoopStep
  BY <1>3 DEF LoopStep, AcquireSlot, CountSlot, RateAllows, RateRejects, LoadIpLimit, IpAllows,
              IpRejects, Spawn, Discard, DropSlot, ReturnSlot, BackoffOver, Goto, DropThen, mainVars
<1>4. CASE Shutdown
  BY <1>4 DEF Shutdown
<1>5. CASE MainStep
  BY <1>5 DEF MainStep, CloseListener, Drained, GraceElapsed, PollAgain, loopVars
<1>6. ASSUME NEW n \in Limits, Reload(n) PROVE ShutdownPhase'
  BY <1>6 DEF Reload, loopVars, mainVars
<1>7. CASE Terminated \/ UNCHANGED vars
  BY <1>7 DEF Terminated, vars, loopVars, mainVars
<1>. QED  BY <1>1, <1>2, <1>3, <1>4, <1>5, <1>6, <1>7 DEF Next

LEMMA NextBacklogQueued ==
  LoopTyped /\ BacklogQueued /\ [Next]_vars => BacklogQueued'
<1>. SUFFICES ASSUME LoopTyped, BacklogQueued, [Next]_vars PROVE BacklogQueued'
  OBVIOUS
<1>. USE DEF LoopTyped, BacklogQueued
<1>1. ASSUME NEW p \in Peers, Connect(p) PROVE BacklogQueued'
  <2>1. /\ Len(backlog') = Len(backlog) + 1
        /\ backlog'[Len(backlog) + 1] = p
        /\ \A i \in 1..Len(backlog) : backlog'[i] = backlog[i]
    BY <1>1 DEF Connect
  <2>2. \A i \in 1..Len(backlog) : backlog[i] \in Peers /\ backlog[i] # p
    BY <1>1 DEF Connect
  <2>3. conn'[p] = "queued" /\ \A q \in Peers : q # p => conn'[q] = conn[q]
    BY <1>1 DEF Connect
  <2>. QED  BY <2>1, <2>2, <2>3
<1>2. ASSUME backlog # <<>>, backlog' = Tail(backlog),
             \A q \in Peers : q # Head(backlog) => conn'[q] = conn[q]
      PROVE  BacklogQueued'
  <2>1. /\ Head(backlog) = backlog[1] /\ Len(backlog) \in Nat \ {0}
        /\ Len(backlog') = Len(backlog) - 1
        /\ \A i \in 1..Len(backlog') : backlog'[i] = backlog[i + 1]
    BY <1>2
  <2>2. \A i \in 2..Len(backlog) : backlog[i] \in Peers /\ backlog[i] # Head(backlog)
    BY <2>1
  <2>3. \A i \in 1..Len(backlog') : i + 1 \in 2..Len(backlog)
    BY <2>1
  <2>. QED  BY <1>2, <2>1, <2>2, <2>3
<1>3. CASE Accept
  BY <1>2, <1>3 DEF Accept
<1>4. CASE AcceptFails
  BY <1>2, <1>4 DEF AcceptFails
<1>5. ASSUME backlog' = backlog,
             \A q \in Peers : conn[q] = "queued" => conn'[q] = "queued"
      PROVE  BacklogQueued'
  <2>1. \A i \in 1..Len(backlog) : backlog[i] \in Peers
    OBVIOUS
  <2>. QED  BY <1>5, <2>1
<1>6. ASSUME NEW p \in Peers, RouteEnds(p) \/ TaskDrops(p) PROVE BacklogQueued'
  <2>1. /\ backlog' = backlog
        /\ \A q \in Peers : conn[q] = "queued" => conn'[q] = "queued"
    BY <1>6 DEF RouteEnds, TaskDrops, DropIpSlot, DropConnSlot, ReturnConnSlot
  <2>. QED  BY <1>5, <2>1
<1>7. CASE LoopStep
  <2>1. /\ backlog' = backlog
        /\ \A q \in Peers : conn[q] = "queued" => conn'[q] = "queued"
    BY <1>7 DEF LoopStep, AcquireSlot, CountSlot, RateAllows, RateRejects, LoadIpLimit, IpAllows,
                IpRejects, Spawn, Discard, DropSlot, ReturnSlot, BackoffOver
  <2>. QED  BY <1>5, <2>1
<1>8. CASE CloseListener
  BY <1>8 DEF CloseListener
<1>9. CASE Shutdown \/ Drained \/ GraceElapsed \/ PollAgain
  BY <1>5, <1>9 DEF Shutdown, Drained, GraceElapsed, PollAgain
<1>10. ASSUME NEW n \in Limits, Reload(n) PROVE BacklogQueued'
  BY <1>5, <1>10 DEF Reload
<1>11. CASE Terminated \/ UNCHANGED vars
  BY <1>5, <1>11 DEF Terminated, vars
<1>. QED  BY <1>1, <1>3, <1>4, <1>6, <1>7, <1>8, <1>9, <1>10, <1>11 DEF Next, MainStep

(* The loop's hand is empty where it acquires, accepts or backs off, full   *)
(* where it judges, and emptied by spawn and discard.                       *)
LEMMA NextOneInHand ==
  LoopTyped /\ OneInHand /\ [Next]_vars => OneInHand'
<1>. SUFFICES ASSUME LoopTyped, OneInHand, [Next]_vars PROVE OneInHand'
  OBVIOUS
<1>. USE DEF LoopTyped, OneInHand, InHand
<1>1. ASSUME NEW p \in Peers, Connect(p) \/ RouteEnds(p) \/ TaskDrops(p) PROVE OneInHand'
  BY <1>1 DEF Connect, RouteEnds, TaskDrops, DropIpSlot, DropConnSlot, ReturnConnSlot, loopVars
<1>2. CASE Accept \/ AcceptFails
  <2>1. \A q \in Peers : conn[q] # "accepted"
    BY <1>2 DEF Accept, AcceptFails, Goto, DropThen
  <2>2. CASE Accept
    BY <2>1, <2>2 DEF Accept, Goto
  <2>3. CASE AcceptFails
    BY <2>1, <2>3 DEF AcceptFails, DropThen
  <2>. QED  BY <1>2, <2>2, <2>3
<1>3. CASE LoopStep
  BY <1>3 DEF LoopStep, AcquireSlot, CountSlot, RateAllows, RateRejects, LoadIpLimit, IpAllows,
              IpRejects, Spawn, Discard, DropSlot, ReturnSlot, BackoffOver, Goto, DropThen
<1>4. CASE Shutdown
  BY <1>4 DEF Shutdown
<1>5. CASE MainStep
  BY <1>5 DEF MainStep, CloseListener, Drained, GraceElapsed, PollAgain, loopVars
<1>6. ASSUME NEW n \in Limits, Reload(n) PROVE OneInHand'
  BY <1>6 DEF Reload, loopVars
<1>7. CASE Terminated \/ UNCHANGED vars
  BY <1>7 DEF Terminated, vars, loopVars
<1>. QED  BY <1>1, <1>2, <1>3, <1>4, <1>5, <1>6, <1>7 DEF Next

LEMMA NextPermitToSpare ==
  LoopTyped /\ Conn!TypeOK /\ PermitToSpare /\ [Next]_vars => PermitToSpare'
<1>. SUFFICES ASSUME LoopTyped, Conn!TypeOK, PermitToSpare, [Next]_vars PROVE PermitToSpare'
  OBVIOUS
<1>. USE DEF LoopTyped, Conn!TypeOK, PermitToSpare
<1>1. ASSUME NEW p \in Peers, Connect(p) \/ RouteEnds(p) \/ DropIpSlot(p) \/ DropConnSlot(p)
      PROVE  PermitToSpare'
  BY <1>1 DEF Connect, RouteEnds, DropIpSlot, DropConnSlot, Conn!CountDown, loopVars, connVars
<1>2. ASSUME NEW p \in Peers, ReturnConnSlot(p) PROVE PermitToSpare'
  BY <1>2, MaxConnectionsAssumption
     DEF ReturnConnSlot, Conn!ReturnPermit, loopVars, MaxConnectionsAssumption
<1>3. CASE Accept \/ AcceptFails
  BY <1>3 DEF Accept, AcceptFails, Goto, DropThen
<1>4. CASE LoopStep
  <2>1. CASE ReturnSlot
    BY <2>1, MaxConnectionsAssumption
       DEF ReturnSlot, Conn!ReturnPermit, Goto, MaxConnectionsAssumption
  <2>2. CASE ~ReturnSlot
    BY <1>4, <2>2
       DEF LoopStep, AcquireSlot, CountSlot, RateAllows, RateRejects, LoadIpLimit, IpAllows,
           IpRejects, Spawn, Discard, DropSlot, BackoffOver, Goto, DropThen
  <2>. QED  BY <2>1, <2>2
<1>5. CASE Shutdown \/ MainStep
  BY <1>5 DEF Shutdown, MainStep, CloseListener, Drained, GraceElapsed, PollAgain,
              loopVars, connVars
<1>6. ASSUME NEW n \in Limits, Reload(n) PROVE PermitToSpare'
  BY <1>6 DEF Reload, loopVars, connVars
<1>7. CASE Terminated \/ UNCHANGED vars
  BY <1>7 DEF Terminated, vars, loopVars, connVars
<1>. QED  BY <1>1, <1>2, <1>3, <1>4, <1>5, <1>6, <1>7 DEF Next, TaskDrops

(* Each action is checked once against the owner table: the slots it moves  *)
(* are those of one peer or of the loop, every other row is unchanged.      *)
LEMMA NextSlotsOwned ==
  ASSUME LoopTyped, Conn!TypeOK, Ip!TypeOK, SlotsOwned, OneInHand, BacklogQueued, [Next]_vars
  PROVE  SlotsOwned'
<1>. USE LoopAssumption
     DEF LoopTyped, Conn!TypeOK, Conn!SlotState, Ip!TypeOK, Ip!Peers, Handles, Peers, LoopAssumption,
         SlotsOwned, LoopSlotOwned, PeerSlotsOwned, OneInHand, InHand
<1>1. ASSUME NEW p \in Peers, Connect(p) PROVE SlotsOwned'
  BY <1>1 DEF Connect, ipVars, connVars, loopVars
<1>2. ASSUME NEW p \in Peers, RouteEnds(p) PROVE SlotsOwned'
  BY <1>2 DEF RouteEnds, ipVars, connVars, loopVars
<1>3. ASSUME NEW p \in Peers, DropIpSlot(p) PROVE SlotsOwned'
  BY <1>3 DEF DropIpSlot, Ip!DropSlot, connVars, loopVars
<1>4. ASSUME NEW p \in Peers, DropConnSlot(p) PROVE SlotsOwned'
  BY <1>4 DEF DropConnSlot, Conn!CountDown, ipVars, loopVars
<1>5. ASSUME NEW p \in Peers, ReturnConnSlot(p) PROVE SlotsOwned'
  BY <1>5 DEF ReturnConnSlot, Conn!ReturnPermit, ipVars, loopVars
<1>0. backlog # <<>> => Head(backlog) \in Peers /\ conn[Head(backlog)] = "queued"
  <2>1. backlog # <<>> => 1 \in 1..Len(backlog) /\ Head(backlog) = backlog[1]
    OBVIOUS
  <2>. QED  BY <2>1 DEF BacklogQueued
<1>6. CASE Accept
  <2>1. \A q \in Peers : conn[q] # "accepted"
    BY <1>6 DEF Accept, Goto
  <2>. QED  BY <1>0, <1>6, <2>1 DEF Accept, Goto, ipVars, connVars
<1>7. CASE AcceptFails
  <2>1. \A q \in Peers : conn[q] # "accepted"
    BY <1>7 DEF AcceptFails, DropThen, Goto
  <2>2. CASE UNCHANGED conn
    BY <1>7, <2>1, <2>2 DEF AcceptFails, DropThen, Goto, ipVars, connVars
  <2>3. CASE backlog # <<>> /\ conn' = [conn EXCEPT ![Head(backlog)] = "idle"]
    BY <1>0, <1>7, <2>1, <2>3 DEF AcceptFails, DropThen, Goto, ipVars, connVars
  <2>. QED  BY <1>7, <2>2, <2>3 DEF AcceptFails
<1>8. CASE AcquireSlot
  BY <1>8 DEF AcquireSlot, Goto, Conn!AcquirePermit, ipVars
<1>9. CASE CountSlot
  BY <1>9 DEF CountSlot, Goto, Conn!CountUp, ipVars
<1>10. CASE RateAllows \/ RateRejects \/ BackoffOver
  BY <1>10 DEF RateAllows, RateRejects, BackoffOver, Goto, DropThen, ipVars, connVars
<1>11. ASSUME NEW p \in Peers, LoadIpLimit(p) PROVE SlotsOwned'
  BY <1>11 DEF LoadIpLimit, Goto, Ip!LoadLimit, connVars
<1>12. ASSUME NEW p \in Peers, IpAllows(p) PROVE SlotsOwned'
  BY <1>12 DEF IpAllows, Goto, Ip!PassUnlimited, Ip!Reserve, Ip!Decide, connVars
<1>13. ASSUME NEW p \in Peers, IpRejects(p) PROVE SlotsOwned'
  BY <1>13 DEF IpRejects, DropThen, Goto, Ip!Reject, Ip!Decide, connVars
<1>14. ASSUME NEW p \in Peers, Spawn(p) PROVE SlotsOwned'
  BY <1>14 DEF Spawn, Goto, Conn!Move, ipVars
<1>15. ASSUME NEW p \in Peers, Discard(p) PROVE SlotsOwned'
  BY <1>15 DEF Discard, Goto, ipVars, connVars
<1>16. CASE DropSlot
  BY <1>16 DEF DropSlot, Goto, Conn!CountDown, ipVars
<1>17. CASE ReturnSlot
  BY <1>17 DEF ReturnSlot, Goto, Conn!ReturnPermit, ipVars
<1>18. CASE Shutdown
  BY <1>18 DEF Shutdown, ipVars, connVars
<1>19. CASE MainStep
  BY <1>19 DEF MainStep, CloseListener, Drained, GraceElapsed, PollAgain, ipVars, connVars, loopVars
<1>20. ASSUME NEW n \in Limits, Reload(n) PROVE SlotsOwned'
  BY <1>20 DEF Reload, Ip!SetLimit, connVars, loopVars
<1>21. CASE Terminated \/ UNCHANGED vars
  BY <1>21 DEF Terminated, vars, ipVars, connVars, loopVars
<1>. QED  BY <1>1, <1>2, <1>3, <1>4, <1>5, <1>6, <1>7, <1>8, <1>9, <1>10, <1>11, <1>12, <1>13,
             <1>14, <1>15, <1>16, <1>17, <1>18, <1>19, <1>20, <1>21
          DEF Next, TaskDrops, LoopStep

LEMMA NextDrainCutsNothing ==
  ASSUME LoopTyped, Conn!TypeOK, Ip!TypeOK, Conn!PermitsAccounted, SlotsOwned, OneInHand,
         ShutdownPhase, DrainCutsNothing, [Next]_vars
  PROVE  DrainCutsNothing'
<1>. USE DEF LoopTyped, DrainCutsNothing
<1>1. ASSUME NEW p \in Peers, Connect(p) \/ RouteEnds(p) \/ DropConnSlot(p) \/ ReturnConnSlot(p)
      PROVE  DrainCutsNothing'
  BY <1>1 DEF Connect, RouteEnds, DropConnSlot, ReturnConnSlot, mainVars, ipVars
<1>2. ASSUME NEW p \in Peers, DropIpSlot(p) PROVE DrainCutsNothing'
  BY <1>2 DEF DropIpSlot, Ip!DropSlot, Ip!TypeOK, Ip!Peers, Peers, mainVars
<1>3. CASE Accept \/ AcceptFails \/ LoopStep
  <2>1. loop # "gone" /\ UNCHANGED mainVars
    BY <1>3 DEF Accept, AcceptFails, LoopStep, AcquireSlot, CountSlot, RateAllows, RateRejects,
                LoadIpLimit, IpAllows, IpRejects, Spawn, Discard, DropSlot, ReturnSlot,
                BackoffOver, Goto, DropThen
  <2>. QED  BY <2>1 DEF ShutdownPhase, mainVars
<1>4. CASE Drained
  <2>1. Cardinality(Conn!Held) = 0
    <3>1. /\ connections \in Nat /\ connections <= 0
          /\ connections = Cardinality(Conn!Held)
      BY <1>4, ConnCardinality DEF Drained, Conn!TypeOK, Conn!PermitsAccounted
    <3>. QED  BY <3>1
  <2>2. Conn!Held = {}
    BY <2>1, HoldersFinite, FS_EmptySet
  <2>3. \A p \in Peers : conn_slot[p] # "held"
    BY <2>2 DEF Conn!Held, Handles
  <2>4. \A p \in Peers : conn[p] # "accepted"
    BY <1>4 DEF Drained, OneInHand, InHand, ShutdownPhase
  <2>5. \A p \in Peers : conn[p] # "running" /\ ip_slot[p] = "none"
    BY <2>3, <2>4 DEF SlotsOwned, PeerSlotsOwned
  <2>. QED  BY <1>4, <2>4, <2>5 DEF Drained, ipVars
<1>5. CASE Shutdown \/ CloseListener \/ GraceElapsed \/ PollAgain
  BY <1>5 DEF Shutdown, CloseListener, GraceElapsed, PollAgain
<1>6. ASSUME NEW n \in Limits, Reload(n) PROVE DrainCutsNothing'
  BY <1>6 DEF Reload, Ip!SetLimit, loopVars, mainVars
<1>7. CASE Terminated \/ UNCHANGED vars
  BY <1>7 DEF Terminated, vars, mainVars, ipVars
<1>. QED  BY <1>1, <1>2, <1>3, <1>4, <1>5, <1>6, <1>7 DEF Next, TaskDrops, MainStep

------------------------------------------------------------------------------
(* LoopInv is inductive, and what follows from it. *)

LEMMA InitLoopInv == Init => LoopInv
<1>. SUFFICES ASSUME Init PROVE LoopInv
  OBVIOUS
<1>1. LoopTyped
  BY GraceAssumption DEF Init, LoopTyped, GraceAssumption
<1>2. ConnInv
  BY InitConnInv DEF Init
<1>3. IpP!PhantomInv
  BY IpP!InitPhantomInv, IpAssumptions DEF Init, Ip!Init, IpP!Init, Ip!Peers, IpP!Peers
<1>4. SlotsOwned
  BY LoopAssumption
     DEF Init, Ip!Init, Ip!Peers, Conn!Init, Handles, Peers, LoopAssumption,
         SlotsOwned, LoopSlotOwned, PeerSlotsOwned
<1>5. OneInHand /\ PermitToSpare /\ BacklogQueued /\ ShutdownPhase /\ DrainCutsNothing
  BY DEF Init, OneInHand, PermitToSpare, BacklogQueued, ShutdownPhase, DrainCutsNothing
<1>. QED  BY <1>1, <1>2, <1>3, <1>4, <1>5 DEF LoopInv

LEMMA NextLoopInv == LoopInv /\ [Next]_vars => LoopInv'
<1>. SUFFICES ASSUME LoopInv, [Next]_vars PROVE LoopInv'
  OBVIOUS
<1>. USE DEF LoopInv
<1>1. Conn!TypeOK /\ Ip!TypeOK /\ Conn!PermitsAccounted
  BY IpTyped DEF ConnInv, IpP!PhantomInv
<1>2. LoopTyped' /\ ConnInv' /\ IpP!PhantomInv'
  BY NextLoopTyped, LimitersNext
<1>3. SlotsOwned' /\ OneInHand'
  BY <1>1, NextSlotsOwned, NextOneInHand
<1>4. PermitToSpare' /\ BacklogQueued'
  BY <1>1, NextPermitToSpare, NextBacklogQueued
<1>5. ShutdownPhase' /\ DrainCutsNothing'
  BY <1>1, NextShutdownPhase, NextDrainCutsNothing
<1>. QED  BY <1>2, <1>3, <1>4, <1>5

LEMMA LoopInvTyped == LoopInv => TypeOK
BY IpTyped DEF LoopInv, LoopTyped, TypeOK, ConnInv, IpP!PhantomInv

(* Each open socket is charged to a permit that is out: a running one to    *)
(* its task's, the one in the loop's hand to the loop's, or, once the loop  *)
(* has given that back, to the permit to spare.                             *)
LEMMA LoopInvSockets == LoopInv => SocketsWithinLimit
<1>. SUFFICES ASSUME LoopInv PROVE SocketsWithinLimit
  OBVIOUS
<1>. USE DEF LoopInv
<1>. DEFINE H == Conn!Holders
<1>1. /\ permits \in Nat /\ Cardinality(H) \in Nat /\ IsFiniteSet(H)
      /\ permits + Cardinality(H) = MaxConnections
  BY HoldersFinite, FS_CardinalityType, ConnCardinality, MaxConnectionsAssumption
     DEF ConnInv, Conn!TypeOK, Conn!PermitsAccounted, MaxConnectionsAssumption
<1>2. \A q \in Peers : conn[q] = "running" => q \in H
  BY DEF SlotsOwned, PeerSlotsOwned, Conn!Holders, Handles
<1>3. CASE \A q \in Peers : conn[q] # "accepted"
  <2>1. OpenSockets \subseteq H
    BY <1>2, <1>3 DEF OpenSockets
  <2>2. Cardinality(OpenSockets) <= Cardinality(H) /\ Cardinality(OpenSockets) \in Nat
    BY <1>1, <2>1, FS_Subset, FS_CardinalityType
  <2>. QED  BY <1>1, <2>2, MaxConnectionsAssumption DEF SocketsWithinLimit, MaxConnectionsAssumption
<1>4. ASSUME NEW p \in Peers, conn[p] = "accepted" PROVE SocketsWithinLimit
  <2>. DEFINE R == OpenSockets \ {p}
  <2>1. R \subseteq H /\ p \notin R /\ OpenSockets = R \cup {p} /\ Loop \notin R
    BY <1>2, <1>4, LoopAssumption DEF OpenSockets, OneInHand, Peers, LoopAssumption
  <2>2. IsFiniteSet(R) /\ Cardinality(R) \in Nat /\ Cardinality(R) <= Cardinality(H)
    BY <1>1, <2>1, FS_Subset, FS_CardinalityType
  <2>3. Cardinality(OpenSockets) = Cardinality(R) + 1
    <3>. HIDE DEF R
    <3>. QED  BY <2>1, <2>2, FS_AddElement
  <2>4. CASE loop = "discard"
    <3>1. permits > 0
      BY <2>4 DEF PermitToSpare
    <3>. QED  BY <1>1, <2>2, <2>3, <3>1, MaxConnectionsAssumption
              DEF SocketsWithinLimit, MaxConnectionsAssumption
  <2>5. CASE loop # "discard"
    <3>1. Loop \in H
      BY <1>4, <2>5 DEF OneInHand, InHand, SlotsOwned, LoopSlotOwned, Conn!Holders, Handles
    <3>2. R \cup {Loop} \subseteq H
      BY <2>1, <3>1
    <3>3. Cardinality(R \cup {Loop}) = Cardinality(R) + 1
      <4>. HIDE DEF R
      <4>. QED  BY <2>1, <2>2, FS_AddElement
    <3>4. Cardinality(R \cup {Loop}) <= Cardinality(H)
      <4>. HIDE DEF R, H
      <4>. QED  BY <1>1, <3>2, FS_Subset
    <3>. QED  BY <1>1, <2>2, <2>3, <3>3, <3>4, MaxConnectionsAssumption
              DEF SocketsWithinLimit, MaxConnectionsAssumption
  <2>. QED  BY <2>4, <2>5
<1>. QED  BY <1>3, <1>4

(* The composition's state is always well formed.                           *)
THEOREM TypeCorrect == Spec => []TypeOK
BY InitLoopInv, NextLoopInv, LoopInvTyped, PTL DEF Spec

(* main.rs, accept_loop: the slot is acquired before accept(), so that the  *)
(* process never has more than max_connections accepted sockets open, the   *)
(* one being judged or discarded included.                                  *)
THEOREM SocketsWithinLimitHolds == Spec => []SocketsWithinLimit
BY InitLoopInv, NextLoopInv, LoopInvSockets, PTL DEF Spec

(* Each slot has one owner that will drop it, on every path of the loop and *)
(* of a task, cancellation by the shutdown included.                        *)
THEOREM SlotsOwnedHolds == Spec => []SlotsOwned
<1>1. LoopInv => SlotsOwned
  BY DEF LoopInv
<1>. QED  BY <1>1, InitLoopInv, NextLoopInv, PTL DEF Spec

(* wait_for_drain returns on a zero count only when no session is open and  *)
(* no per-IP slot is held, and none comes after.                            *)
THEOREM DrainCutsNothingHolds == Spec => []DrainCutsNothing
<1>1. LoopInv => DrainCutsNothing
  BY DEF LoopInv
<1>. QED  BY <1>1, InitLoopInv, NextLoopInv, PTL DEF Spec

(* What the loop and the tasks do with the connection limiter's slots keeps *)
(* its counter and its semaphore accounted for, between any two steps.      *)
THEOREM PermitsAccountedHolds == Spec => []PermitsAccounted
<1>1. LoopInv => PermitsAccounted
  BY ConnCardinality
     DEF LoopInv, ConnInv, PermitsAccounted, Conn!PermitsAccounted
<1>. QED  BY <1>1, InitLoopInv, NextLoopInv, PTL DEF Spec

(* The gauge connections_available never hides a free slot: the accept loop *)
(* is never able to take a permit when the gauge says that there is none.   *)
THEOREM GaugeCoversPermitsHolds == Spec => []Conn!GaugeCoversPermits
<1>1. LoopInv => Conn!GaugeCoversPermits
  BY ConnInvGauge DEF LoopInv
<1>. QED  BY <1>1, InitLoopInv, NextLoopInv, PTL DEF Spec

(* No address is charged for a slot it does not hold, nor remembered when   *)
(* it holds none, even when reloads switch the per-IP cap off and on.       *)
THEOREM NoPhantomCountHolds == Spec => []NoPhantomCount
<1>1. LoopInv => NoPhantomCount
  BY IpCardinality
     DEF LoopInv, IpP!PhantomInv, NoPhantomCount, IpP!NoPhantomCount,
         Ip!NoPhantomCount, IpP!Counted, Ip!Counted, IpP!Peers, Ip!Peers, IpP!Ip, Ip!Ip
<1>. QED  BY <1>1, InitLoopInv, NextLoopInv, PTL DEF Spec

------------------------------------------------------------------------------
(* AcceptLoop implements Admission while no reload sets the limit to or     *)
(* from 0: offers and releases are LoadLimit and DropSlot; an admission is  *)
(* safe because the loop holds a permit of its own while it decides.        *)

open   == {p \in Peers : ip_slot[p] \in {"counted", "uncounted"}}
offers == {<<p, loaded[p]>> : p \in {q \in Peers : ip_slot[q] = "deciding"}}

PromiseInv == LoopInv /\ IpP!ExactInv

LEMMA PromiseFinite == \A S : Promise!Cardinality(S) = Cardinality(S)
BY DEF Promise!Cardinality, Cardinality

(* While the loop decides, every admitted connection holds a permit and so  *)
(* does the loop.                                                           *)
LEMMA RoomForOne == LoopInv /\ loop = "decide" => Cardinality(open) < MaxConnections
<1>. SUFFICES ASSUME LoopInv, loop = "decide" PROVE Cardinality(open) < MaxConnections
  OBVIOUS
<1>. USE DEF LoopInv
<1>. DEFINE H == Conn!Holders
<1>1. /\ permits \in Nat /\ Cardinality(H) \in Nat /\ IsFiniteSet(H)
      /\ permits + Cardinality(H) = MaxConnections
  BY HoldersFinite, FS_CardinalityType, ConnCardinality, MaxConnectionsAssumption
     DEF ConnInv, Conn!TypeOK, Conn!PermitsAccounted, MaxConnectionsAssumption
<1>2. \A p \in open : p \in H
  BY DEF open, LoopTyped, SlotsOwned, PeerSlotsOwned, Conn!Holders, Handles
<1>3. Loop \in H /\ Loop \notin open
  BY LoopAssumption DEF open, Peers, LoopAssumption, SlotsOwned, LoopSlotOwned, Conn!Holders, Handles
<1>4. open \subseteq H \ {Loop}
  BY <1>2, <1>3
<1>5. IsFiniteSet(H \ {Loop}) /\ Cardinality(H \ {Loop}) = Cardinality(H) - 1
  <2>. HIDE DEF H
  <2>. QED  BY <1>1, <1>3, FS_RemoveElement
<1>6. Cardinality(open) <= Cardinality(H \ {Loop}) /\ Cardinality(open) \in Nat
  <2>. HIDE DEF H
  <2>. QED  BY <1>4, <1>5, FS_Subset, FS_CardinalityType
<1>. QED  BY <1>1, <1>5, <1>6, MaxConnectionsAssumption DEF MaxConnectionsAssumption

LEMMA OpenIsCounted ==
  ASSUME IpP!ExactInv, NEW a \in Ips \ Loopback
  PROVE  Promise!OpenFrom(a) = IpP!Counted(a)
BY DEF IpP!ExactInv, IpP!PhantomInv, IpP!TypeOK, IpP!SlotKinds, IpP!Now, IpP!Peers, Peers,
       IpP!Ip, IpP!Counted, Promise!OpenFrom

LEMMA CountIsOpen ==
  ASSUME IpP!ExactInv, NEW a \in Ips \ Loopback
  PROVE  IpP!Count(a) = Cardinality(Promise!OpenFrom(a))
BY OpenIsCounted, IpCardinality DEF IpP!ExactInv, IpP!ExactCount

(* The abstract steps, each from what its concrete step does to the slots.  *)

LEMMA Answered ==
  ASSUME NEW p \in Peers, NEW n \in Limits, Promise!Admit(p, n) \/ Promise!Refuse(p, n)
  PROVE  Promise!Next
BY DEF Promise!Next, Promise!Peers, Peers

LEMMA OfferStep ==
  ASSUME PromiseInv, NEW p \in Peers, Ip!LoadLimit(p)
  PROVE  Promise!Next
<1>. USE DEF PromiseInv, LoopInv, IpP!PhantomInv, IpP!TypeOK, IpP!Peers, Peers
<1>1. p \notin open /\ open' = open
  BY DEF Ip!LoadLimit, open
<1>2. offers' = offers \cup {<<p, max_per_ip>>}
  BY DEF Ip!LoadLimit, offers
<1>. QED  BY <1>1, <1>2 DEF Ip!LoadLimit, open, offers, Promise!Offer, Promise!Next, Promise!Peers

LEMMA AdmitStep ==
  ASSUME PromiseInv, NEW p \in Peers, loop = "decide", Ip!PassUnlimited(p) \/ Ip!Reserve(p)
  PROVE  Promise!Next
<1>. USE DEF PromiseInv, LoopInv, IpP!PhantomInv, IpP!TypeOK, IpP!Peers, Peers
<1>0. PICK n \in Limits : n = loaded[p]
  BY DEF Ip!PassUnlimited, Ip!Reserve, IpP!ExactInv, IpP!SlotKinds
<1>1. n \in Nat /\ <<p, n>> \in offers
  BY <1>0 DEF Ip!PassUnlimited, Ip!Reserve, offers
<1>2. Cardinality(open) < MaxConnections
  BY RoomForOne
<1>3. p[1] \in Loopback \/ n = 0 \/ Cardinality(Promise!OpenFrom(p[1])) < n
  <2>1. CASE Ip!PassUnlimited(p)
    BY <1>0, <2>1 DEF Ip!PassUnlimited, Ip!Unlimited, Ip!Ip
  <2>2. CASE Ip!Reserve(p)
    <3>1. p[1] \in Ips \ Loopback /\ Ip!Count(p[1]) < n
      BY <1>0, <2>2 DEF Ip!Reserve, Ip!Unlimited, Ip!HasRoom, Ip!Ip
    <3>2. Ip!Count(p[1]) = Cardinality(Promise!OpenFrom(p[1]))
      BY <3>1, CountIsOpen DEF Ip!Count, IpP!Count
    <3>. QED  BY <3>1, <3>2
  <2>. QED  BY <2>1, <2>2
<1>4. /\ open' = open \cup {p}
      /\ offers' = offers \ {<<p, n>>}
      /\ max_per_ip' = max_per_ip
  BY <1>0 DEF Ip!PassUnlimited, Ip!Reserve, Ip!Decide, open, offers
<1>5. Promise!Admit(p, n)
  BY <1>1, <1>2, <1>3, <1>4, PromiseFinite DEF Promise!Admit, Promise!OpenFrom, open, offers
<1>. QED  BY <1>5, Answered

LEMMA RefuseStep ==
  ASSUME PromiseInv, NEW p \in Peers, Ip!Reject(p)
  PROVE  Promise!Next
<1>. USE DEF PromiseInv, LoopInv, IpP!PhantomInv, IpP!TypeOK, IpP!Peers, Peers
<1>0. PICK n \in Limits : n = loaded[p]
  BY DEF Ip!Reject, IpP!ExactInv, IpP!SlotKinds
<1>1. n \in Nat /\ <<p, n>> \in offers
  BY <1>0 DEF Ip!Reject, offers
<1>2. /\ p[1] \in Ips \ Loopback /\ n # 0
      /\ Cardinality(Promise!OpenFrom(p[1])) >= n
  <2>1. p[1] \in Ips \ Loopback /\ n # 0 /\ ~(Ip!Count(p[1]) < n)
    BY <1>0 DEF Ip!Reject, Ip!Unlimited, Ip!HasRoom, Ip!Ip
  <2>2. Ip!Count(p[1]) = Cardinality(Promise!OpenFrom(p[1])) /\ Ip!Count(p[1]) \in Nat
    BY <2>1, CountIsOpen DEF Ip!Count, IpP!Count
  <2>. QED  BY <1>1, <2>1, <2>2
<1>3. /\ open' = open
      /\ offers' = offers \ {<<p, n>>}
      /\ max_per_ip' = max_per_ip
  BY <1>0 DEF Ip!Reject, Ip!Decide, open, offers
<1>4. Promise!Refuse(p, n)
  BY <1>1, <1>2, <1>3, PromiseFinite DEF Promise!Refuse, Promise!OpenFrom, open, offers
<1>. QED  BY <1>4, Answered

LEMMA ReleaseStep ==
  ASSUME PromiseInv, NEW p \in Peers, Ip!DropSlot(p)
  PROVE  Promise!Next
<1>. USE DEF PromiseInv, LoopInv, IpP!PhantomInv, IpP!TypeOK, IpP!Peers, Peers
<1>1. p \in open /\ open' = open \ {p}
  BY DEF Ip!DropSlot, open
<1>2. offers' = offers /\ max_per_ip' = max_per_ip
  BY DEF Ip!DropSlot, offers
<1>. QED  BY <1>1, <1>2 DEF open, offers, Promise!Release, Promise!Next, Promise!Peers

LEMMA PromiseStep == PromiseInv /\ [Next]_vars => [Promise!Next]_(Promise!vars)
<1>. SUFFICES ASSUME PromiseInv, [Next]_vars PROVE Promise!Next \/ UNCHANGED Promise!vars
  OBVIOUS
<1>1. UNCHANGED ipVars => UNCHANGED Promise!vars
  BY DEF ipVars, Promise!vars
<1>2. ASSUME NEW p \in Peers, Connect(p) \/ RouteEnds(p) \/ DropConnSlot(p) \/ ReturnConnSlot(p)
      PROVE  UNCHANGED ipVars
  BY <1>2 DEF Connect, RouteEnds, DropConnSlot, ReturnConnSlot
<1>3. ASSUME NEW p \in Peers, DropIpSlot(p) PROVE Promise!Next
  BY <1>3, ReleaseStep DEF DropIpSlot
<1>4. CASE Accept \/ AcceptFails
  BY <1>1, <1>4 DEF Accept, AcceptFails
<1>5. CASE LoopStep
  <2>1. CASE AcquireSlot \/ CountSlot \/ RateAllows \/ RateRejects \/ DropSlot \/ ReturnSlot \/ BackoffOver
    BY <1>1, <2>1 DEF AcquireSlot, CountSlot, RateAllows, RateRejects, DropSlot, ReturnSlot, BackoffOver
  <2>2. ASSUME NEW p \in Peers, LoadIpLimit(p) PROVE Promise!Next
    BY <2>2, OfferStep DEF LoadIpLimit
  <2>3. ASSUME NEW p \in Peers, IpAllows(p) PROVE Promise!Next
    BY <2>3, AdmitStep DEF IpAllows, Goto
  <2>4. ASSUME NEW p \in Peers, IpRejects(p) PROVE Promise!Next
    BY <2>4, RefuseStep DEF IpRejects
  <2>5. ASSUME NEW p \in Peers, Spawn(p) \/ Discard(p) PROVE UNCHANGED ipVars
    BY <2>5 DEF Spawn, Discard
  <2>. QED  BY <1>1, <1>5, <2>1, <2>2, <2>3, <2>4, <2>5 DEF LoopStep
<1>6. CASE Shutdown \/ MainStep
  BY <1>1, <1>6 DEF Shutdown, MainStep, CloseListener, Drained, GraceElapsed, PollAgain
<1>7. ASSUME NEW n \in Limits, Reload(n) PROVE Promise!Next
  BY <1>7 DEF Reload, Ip!SetLimit, Promise!SetLimit, Promise!Next
<1>8. CASE Terminated \/ UNCHANGED vars
  BY <1>1, <1>8 DEF Terminated, vars
<1>. QED  BY <1>1, <1>2, <1>3, <1>4, <1>5, <1>6, <1>7, <1>8 DEF Next, TaskDrops

LEMMA PromiseInit == Init => Promise!Init /\ PromiseInv
<1>. SUFFICES ASSUME Init PROVE Promise!Init /\ PromiseInv
  OBVIOUS
<1>1. Promise!Init
  BY DEF Init, Ip!Init, Ip!Peers, Peers, Promise!Init
<1>2. IpP!ExactInv
  BY IpP!InitExactInv, IpAssumptions DEF Init, Ip!Init, IpP!Init, Ip!Peers, IpP!Peers
<1>. QED  BY <1>1, <1>2, InitLoopInv DEF PromiseInv

(* While the per-IP limit is not switched off or on, what the accept loop,  *)
(* the limiters and the tasks do together is what Admission promises:       *)
(* a connection is admitted only below both limits, its IP's being the one  *)
(* in force when it was offered, and refused only at its IP's limit.        *)
THEOREM ImplementsAdmission ==
  ASSUME 0 \notin Limits
  PROVE  Spec => AdmissionPromise
<1>1. PromiseInv /\ [Next]_vars => PromiseInv'
  <2>1. IpP!StableLimits
    BY DEF IpP!StableLimits
  <2>. QED  BY <2>1, NextLoopInv, IpStep, IpP!NextExactInv, IpAssumptions DEF PromiseInv
<1>. QED  BY <1>1, PromiseInit, PromiseStep, PTL DEF Spec, AdmissionPromise, Promise!Spec

(* Under the same condition the per-IP map is exact, however the loop, the  *)
(* tasks and the reloads interleave: no count is lost and none invented.    *)
THEOREM ExactCountHolds ==
  ASSUME 0 \notin Limits
  PROVE  Spec => []ExactCount
<1>1. PromiseInv /\ [Next]_vars => PromiseInv'
  <2>1. IpP!StableLimits
    BY DEF IpP!StableLimits
  <2>. QED  BY <2>1, NextLoopInv, IpStep, IpP!NextExactInv, IpAssumptions DEF PromiseInv
<1>2. PromiseInv => ExactCount
  BY IpCardinality
     DEF PromiseInv, IpP!ExactInv, ExactCount, IpP!ExactCount, Ip!ExactCount,
         IpP!Count, Ip!Count, IpP!Counted, Ip!Counted, IpP!Peers, Ip!Peers, IpP!Ip, Ip!Ip
<1>. QED  BY <1>1, <1>2, PromiseInit, PTL DEF Spec
=============================================================================
