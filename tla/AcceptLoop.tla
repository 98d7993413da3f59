------------------------------ MODULE AcceptLoop ------------------------------
(***************************************************************************)
(* The life of a connection from the kernel's accept queue to the release  *)
(* of its slots, and the graceful shutdown: main::accept_loop, the task it *)
(* spawns per connection, main's select! and main::wait_for_drain.  The    *)
(* two limiters are shared objects, composed in by INSTANCE.               *)
(*                                                                         *)
(* The accept loop, every connection task, the SIGHUP reload and main run  *)
(* concurrently on the runtime's threads.  The loop and the shutdown       *)
(* signal are branches of one select! in one task: the loop can only be    *)
(* cancelled where it awaits (acquiring, accepting, backing off).          *)
(*                                                                         *)
(* What route() does with the connection is abstracted to how long it      *)
(* takes; the rate limiter to its two answers.  The two counters of        *)
(* rejected connections, each one fetch_add between the drop of the slot   *)
(* and `continue`, are left out: nothing here reads them.                  *)
(***************************************************************************)
EXTENDS ClientAddresses, Sequences

CONSTANTS MaxConnections,  \* see ConnectionLimiter
          Loop,            \* the accept loop's own variable, as a place for a slot
          Grace            \* SHUTDOWN_GRACE in polls of POLL_INTERVAL

ASSUME MaxConnectionsAssumption == MaxConnections \in Nat \ {0}
ASSUME LoopAssumption  == Loop \notin Ips \X Ports
ASSUME GraceAssumption == Grace \in Nat

VARIABLES slots, max_per_ip, ip_slot, loaded,  \* the per-IP limiter
          permits, connections, conn_slot,     \* the connection limiter
          loop,     \* where the accept loop is
          resume,   \* where it goes once the slot it is dropping is gone
          conn,     \* what became of each peer's connection
          backlog,  \* the kernel's accept queue
          main,     \* where main is
          polls     \* polls of wait_for_drain so far

ipVars   == <<slots, max_per_ip, ip_slot, loaded>>
connVars == <<permits, connections, conn_slot>>
loopVars == <<loop, resume>>
mainVars == <<main, polls>>
vars     == <<ipVars, connVars, loopVars, conn, backlog, mainVars>>

Peers   == Ips \X Ports
Handles == Peers \cup {Loop}

Ip   == INSTANCE IpLimiter
Conn == INSTANCE ConnectionLimiter

TypeOK ==
  /\ Ip!TypeOK
  /\ Conn!TypeOK
  /\ loop \in {"acquire", "count", "accept", "rate", "ip", "decide", "spawn",
               "drop", "return", "discard", "backoff", "gone"}
  /\ resume \in {"discard", "backoff", "gone"}
  /\ conn \in [Peers -> {"idle", "queued", "accepted", "running", "closing"}]
  /\ backlog \in Seq(Peers)
  /\ main \in {"serving", "cancelling", "draining", "drained", "expired"}
  /\ polls \in 0..Grace

Init ==
  /\ Ip!Init
  /\ Conn!Init
  /\ loop = "acquire" /\ resume = "discard"
  /\ conn = [p \in Peers |-> "idle"]
  /\ backlog = <<>>
  /\ main = "serving" /\ polls = 0

------------------------------------------------------------------------------
(* The clients and the kernel. *)

Connect(p) ==
  /\ conn[p] = "idle"
  /\ main = "serving"
  /\ conn' = [conn EXCEPT ![p] = "queued"]
  /\ backlog' = Append(backlog, p)
  /\ UNCHANGED <<ipVars, connVars, loopVars, mainVars>>

------------------------------------------------------------------------------
(* accept_loop.  The slot is acquired before accept() is called. *)

Goto(here, there) == loop = here /\ loop' = there

AcquireSlot ==
  /\ Goto("acquire", "count")
  /\ Conn!AcquirePermit(Loop)
  /\ UNCHANGED <<ipVars, resume, conn, backlog, mainVars>>

CountSlot ==
  /\ Goto("count", "accept")
  /\ Conn!CountUp(Loop)
  /\ UNCHANGED <<ipVars, resume, conn, backlog, mainVars>>

Accept ==
  /\ Goto("accept", "rate")
  /\ backlog # <<>>
  /\ conn' = [conn EXCEPT ![Head(backlog)] = "accepted"]
  /\ backlog' = Tail(backlog)
  /\ UNCHANGED <<ipVars, connVars, resume, mainVars>>

DropThen(here, next) == Goto(here, "drop") /\ resume' = next

(* accept() fails: out of descriptors, or the peer reset while it queued. *)
AcceptFails ==
  /\ DropThen("accept", "backoff")
  /\ \/ UNCHANGED <<conn, backlog>>
     \/ /\ backlog # <<>>
        /\ conn' = [conn EXCEPT ![Head(backlog)] = "idle"]
        /\ backlog' = Tail(backlog)
  /\ UNCHANGED <<ipVars, connVars, mainVars>>

RateAllows ==
  /\ Goto("rate", "ip")
  /\ UNCHANGED <<ipVars, connVars, resume, conn, backlog, mainVars>>

RateRejects ==
  /\ DropThen("rate", "discard")
  /\ UNCHANGED <<ipVars, connVars, conn, backlog, mainVars>>

LoadIpLimit(p) ==
  /\ conn[p] = "accepted"
  /\ Goto("ip", "decide")
  /\ Ip!LoadLimit(p)
  /\ UNCHANGED <<connVars, resume, conn, backlog, mainVars>>

IpAllows(p) ==
  /\ conn[p] = "accepted"
  /\ Goto("decide", "spawn")
  /\ Ip!PassUnlimited(p) \/ Ip!Reserve(p)
  /\ UNCHANGED <<connVars, resume, conn, backlog, mainVars>>

IpRejects(p) ==
  /\ conn[p] = "accepted"
  /\ DropThen("decide", "discard")
  /\ Ip!Reject(p)
  /\ UNCHANGED <<connVars, conn, backlog, mainVars>>

(* Definitions named Mut... are slips the properties must catch; each one   *)
(* is a variant of the definition that follows it and is used nowhere else. *)
MutSpawn(p) ==  \* `let _ = conn_slot`: the slot is dropped at once
  /\ conn[p] = "accepted"
  /\ DropThen("spawn", "acquire")
  /\ conn' = [conn EXCEPT ![p] = "running"]
  /\ UNCHANGED <<ipVars, connVars, backlog, mainVars>>

(* tokio::spawn: the task owns both slots before it is first polled. *)
Spawn(p) ==
  /\ conn[p] = "accepted"
  /\ Goto("spawn", "acquire")
  /\ Conn!Move(Loop, p)
  /\ conn' = [conn EXCEPT ![p] = "running"]
  /\ UNCHANGED <<ipVars, resume, backlog, mainVars>>

(* drop(conn_slot), on every path that does not spawn *)
DropSlot ==
  /\ Goto("drop", "return")
  /\ Conn!CountDown(Loop)
  /\ UNCHANGED <<ipVars, resume, conn, backlog, mainVars>>

ReturnSlot ==
  /\ Goto("return", resume)
  /\ Conn!ReturnPermit(Loop)
  /\ UNCHANGED <<ipVars, resume, conn, backlog, mainVars>>

(* `continue`: the rejected socket is closed with the iteration's locals *)
Discard(p) ==
  /\ conn[p] = "accepted"
  /\ Goto("discard", "acquire")
  /\ conn' = [conn EXCEPT ![p] = "idle"]
  /\ UNCHANGED <<ipVars, connVars, resume, backlog, mainVars>>

BackoffOver ==
  /\ Goto("backoff", "acquire")
  /\ UNCHANGED <<ipVars, connVars, resume, conn, backlog, mainVars>>

LoopStep ==
  \/ AcquireSlot \/ CountSlot
  \/ RateAllows \/ RateRejects
  \/ \E p \in Peers : LoadIpLimit(p) \/ IpAllows(p) \/ IpRejects(p) \/ Spawn(p) \/ Discard(p)
  \/ DropSlot \/ ReturnSlot \/ BackoffOver

------------------------------------------------------------------------------
(* A connection task.  route() consumes and closes the stream; then the     *)
(* locals go in reverse order of declaration: _ip_slot, then _conn_slot.    *)

RouteEnds(p) ==
  /\ conn[p] = "running"
  /\ conn' = [conn EXCEPT ![p] = "closing"]
  /\ UNCHANGED <<ipVars, connVars, loopVars, backlog, mainVars>>

DropIpSlot(p) ==
  /\ conn[p] = "closing"
  /\ Ip!DropSlot(p)
  /\ UNCHANGED <<connVars, loopVars, conn, backlog, mainVars>>

MutDropConnSlot(p) ==  \* the two locals declared in the other order
  /\ conn[p] = "closing"
  /\ Conn!CountDown(p)
  /\ UNCHANGED <<ipVars, loopVars, conn, backlog, mainVars>>

DropConnSlot(p) ==
  /\ conn[p] = "closing"
  /\ ip_slot[p] = "none"
  /\ Conn!CountDown(p)
  /\ UNCHANGED <<ipVars, loopVars, conn, backlog, mainVars>>

ReturnConnSlot(p) ==
  /\ conn[p] = "closing"
  /\ Conn!ReturnPermit(p)
  /\ conn' = [conn EXCEPT ![p] = "idle"]
  /\ UNCHANGED <<ipVars, loopVars, backlog, mainVars>>

TaskDrops(p) == DropIpSlot(p) \/ DropConnSlot(p) \/ ReturnConnSlot(p)

------------------------------------------------------------------------------
(* main: shutdown_signal wins the select!, the loop's future is dropped (a  *)
(* slot it holds first, the listener last), then wait_for_drain.            *)

Shutdown ==
  /\ main = "serving"
  /\ loop \in {"acquire", "accept", "backoff"}
  /\ main' = "cancelling"
  /\ loop' = IF loop = "accept" THEN "drop" ELSE "gone"
  /\ resume' = "gone"
  /\ UNCHANGED <<ipVars, connVars, conn, backlog, polls>>

CloseListener ==
  /\ main = "cancelling"
  /\ loop = "gone"
  /\ main' = "draining"
  /\ conn' = [p \in Peers |-> IF conn[p] = "queued" THEN "idle" ELSE conn[p]]
  /\ backlog' = <<>>
  /\ UNCHANGED <<ipVars, connVars, loopVars, polls>>

Drained ==
  /\ main = "draining"
  /\ connections <= 0
  /\ main' = "drained"
  /\ UNCHANGED <<ipVars, connVars, loopVars, conn, backlog, polls>>

GraceElapsed ==
  /\ main = "draining"
  /\ connections > 0
  /\ polls >= Grace
  /\ main' = "expired"
  /\ UNCHANGED <<ipVars, connVars, loopVars, conn, backlog, polls>>

MutPollAgain ==  \* the deadline computed anew in each iteration
  /\ main = "draining"
  /\ connections > 0
  /\ polls < Grace
  /\ UNCHANGED vars

PollAgain ==
  /\ main = "draining"
  /\ connections > 0
  /\ polls < Grace
  /\ polls' = polls + 1
  /\ UNCHANGED <<ipVars, connVars, loopVars, conn, backlog, main>>

MainStep == CloseListener \/ Drained \/ GraceElapsed \/ PollAgain

Done == main \in {"drained", "expired"}

(* hot_reload sets a new per-IP limit while all of this goes on. *)
Reload(n) ==
  /\ ~Done
  /\ n # max_per_ip
  /\ Ip!SetLimit(n)
  /\ UNCHANGED <<connVars, loopVars, conn, backlog, mainVars>>

Terminated == Done /\ UNCHANGED vars

Next ==
  \/ \E p \in Peers : Connect(p) \/ RouteEnds(p) \/ TaskDrops(p)
  \/ Accept \/ AcceptFails \/ LoopStep
  \/ Shutdown \/ MainStep
  \/ \E n \in Limits : Reload(n)
  \/ Terminated

Spec == Init /\ [][Next]_vars

(* The runtime keeps polling what is ready: the loop, the tasks' drops and  *)
(* main; accept() returns while a connection is queued.  Nothing is assumed *)
(* of clients, signals or route().                                          *)
CodeFairness ==
  /\ WF_vars(LoopStep)
  /\ WF_vars(Accept)
  /\ \A p \in Peers : WF_vars(TaskDrops(p))
  /\ WF_vars(MainStep)

FairSpec == Spec /\ CodeFairness

(* For service, the environment must do its part: sessions end while main  *)
(* serves (nothing makes them end during a drain), and accept() does not    *)
(* fail for ever while connections are queued.                              *)
Environment ==
  /\ \A p \in Peers : WF_vars(main = "serving" /\ RouteEnds(p))
  /\ SF_vars(Accept)

ServedSpec == FairSpec /\ Environment

------------------------------------------------------------------------------
OpenSockets == {p \in Peers : conn[p] \in {"accepted", "running"}}
InFlight    == {p \in Peers : conn[p] \in {"accepted", "running", "closing"}}

(* max_connections bounds the accepted sockets at every instant, the ones   *)
(* being judged or discarded included ("stops pulling new sockets", main.rs)*)
SocketsWithinLimit == Cardinality(OpenSockets) <= MaxConnections

(* Each slot is owned by exactly the activity that must release it, on all  *)
(* paths: the loop's from acquire to spawn or drop, a task's until route()  *)
(* is over, the per-IP slot released before the global one.                 *)
LoopSlotOwned ==
  /\ loop = "count" => conn_slot[Loop] = "permit"
  /\ loop \in {"accept", "rate", "ip", "decide", "spawn", "drop"} => conn_slot[Loop] = "held"
  /\ loop = "return" => conn_slot[Loop] = "uncounted"
  /\ loop \in {"acquire", "discard", "backoff", "gone"} => conn_slot[Loop] = "none"

PeerSlotsOwned(p) ==
  /\ conn[p] \in {"idle", "queued"} => conn_slot[p] = "none" /\ ip_slot[p] = "none"
  /\ conn[p] = "accepted" =>
       /\ conn_slot[p] = "none"
       /\ ip_slot[p] \in CASE loop = "decide" -> {"deciding"}
                           [] loop = "spawn"  -> {"counted", "uncounted"}
                           [] OTHER           -> {"none"}
  /\ conn[p] = "running" =>
       conn_slot[p] = "held" /\ ip_slot[p] \in {"counted", "uncounted"}
  /\ conn[p] = "closing" =>
       /\ conn_slot[p] \in {"held", "uncounted"}
       /\ ip_slot[p] \in IF conn_slot[p] = "held" THEN {"counted", "uncounted", "none"}
                                                  ELSE {"none"}

SlotsOwned == LoopSlotOwned /\ \A p \in Peers : PeerSlotsOwned(p)

(* A drain that ends by itself cuts nothing off: when wait_for_drain has    *)
(* seen zero, no socket is open, no per-IP slot is held, and none will be.  *)
DrainCutsNothing ==
  main = "drained" => \A p \in Peers : conn[p] \notin {"accepted", "running"}
                                       /\ ip_slot[p] = "none"

(* Admission implemented: open is what holds a per-IP slot, an offer is a   *)
(* try_acquire_slot that has loaded its limit.                              *)
Promise ==
  INSTANCE Admission WITH
    open   <- {p \in Peers : ip_slot[p] \in {"counted", "uncounted"}},
    offers <- {<<p, loaded[p]>> : p \in {q \in Peers : ip_slot[q] = "deciding"}},
    limit  <- max_per_ip

AdmissionPromise == Promise!Spec

(* What each limiter keeps by itself, it keeps in the hands of the loop and *)
(* of the tasks, whatever the order they use it in: the counter and the     *)
(* semaphore of limiter.rs accounted for ...                                *)
PermitsAccounted == Conn!PermitsAccounted

(* ... the map of ip_limiter.rs exact, while no reload sets the cap to or   *)
(* from 0; and, whatever the reloads, no count above what is held and no    *)
(* idle entry.                                                              *)
ExactCount     == Ip!ExactCount
NoPhantomCount == Ip!NoPhantomCount

(* Once a shutdown signal is taken, main returns, whatever sessions do.     *)
ShutdownCompletes == main = "cancelling" ~> Done

(* A queued client is taken off the accept queue: no path of the loop or    *)
(* of a task loses a permit for good.                                       *)
QueuedIsTaken == \A p \in Peers : conn[p] = "queued" ~> conn[p] # "queued"

(* README, `reprox_connections_available`: "A sustained `0` means          *)
(* `max_connections` is the current bottleneck": while it stays 0, every   *)
(* slot is taken by a connection, or connections queue, again and again.   *)
SustainedZeroMeansBottleneck ==
  <>[](Conn!Available = 0)
    => []<>(Cardinality(InFlight) = MaxConnections \/ backlog # <<>>)
=============================================================================
