-------------------------------- MODULE Route --------------------------------
(***************************************************************************)
(* The stages a connection passes in Router::route, with the timer of each *)
(* (src/route/router.rs, proxy.rs, the handshake of serve.rs), and the     *)
(* counters and gauges it moves on the way (Stats and ActiveGuard of       *)
(* src/metrics.rs).  Every fetch_add and fetch_sub is a step of its own,   *)
(* so that another connection's step may fall between any two.             *)
(*                                                                         *)
(* Each connection runs once.  The routing table is what it says of the    *)
(* connection's SNI: passthrough, terminate or fallback.  The three ALPN   *)
(* counters are one, and so are a relay's bytes: moved or not, each way.   *)
(* The durations ActiveGuard adds up are left out, and what the site       *)
(* counts for each HTTP request is HttpSite's.                             *)
(*                                                                         *)
(* All of these atomics are used with Ordering::Relaxed, which orders      *)
(* nothing between one counter and another.  No property below depends on  *)
(* such an order: each compares counters at moments when every fetch_add   *)
(* and fetch_sub that it is about has been made, and sums of those come    *)
(* out the same in any order.  What Stats::snapshot loads meanwhile is     *)
(* promised nothing, and is left out.                                      *)
(***************************************************************************)
EXTENDS Integers, FiniteSets

CONSTANT Conns  \* connections, each of which route() is called for once

ASSUME ConnsAssumption == IsFiniteSet(Conns)

VARIABLES at,       \* where each connection is
          target,   \* what its SNI was looked up to be
          attempt,  \* connect_with_backoff's attempt number, 1-indexed
          waited,   \* milliseconds connect_with_backoff has taken so far
          failed,   \* history: how many of its attempts have failed
          stats     \* the counters

vars == <<at, target, attempt, waited, failed, stats>>

Stages == {"out", "sniff", "routed", "entering", "handshake", "alpn", "delay",
           "connect", "giving_up", "relay", "relayed", "serving",
           "leaving", "left", "done"}

Counters == {"probe_timeout", "probe_io_error", "sni_present", "sni_absent",
             "proxied", "fallback", "active_proxied", "active_fallback",
             "proxied_completed", "fallback_completed",
             "proxy_tls_success", "proxy_tls_failure",
             "fallback_tls_success", "fallback_tls_failure", "fallback_alpn",
             "connect_retries", "connect_failures", "to_service", "to_client"}

(* ConnectRetryPolicy::DEFAULT, in milliseconds *)
attempt_timeout == 3000
max_attempts    == 4
base_delay      == 200
max_delay       == 2000

TypeOK ==
  /\ at \in [Conns -> Stages]
  /\ target \in [Conns -> {"none", "passthrough", "terminate", "fallback"}]
  /\ attempt \in [Conns -> 1..max_attempts]
  /\ waited \in [Conns -> Nat]
  /\ failed \in [Conns -> 0..max_attempts]
  /\ stats \in [Counters -> Nat]

Init ==
  /\ at = [c \in Conns |-> "out"]
  /\ target = [c \in Conns |-> "none"]
  /\ attempt = [c \in Conns |-> 1]
  /\ waited = [c \in Conns |-> 0]
  /\ failed = [c \in Conns |-> 0]
  /\ stats = [k \in Counters |-> 0]

------------------------------------------------------------------------------
Go(c, here, there) == at[c] = here /\ at' = [at EXCEPT ![c] = there]

Count(k) == stats' = [stats EXCEPT ![k] = @ + 1]

Arrive(c) ==
  /\ Go(c, "out", "sniff")
  /\ UNCHANGED <<target, attempt, waited, failed, stats>>

(* LazyConfigAcceptor under start_handshake_timeout_secs *)
SniffError(c) ==
  /\ Go(c, "sniff", "done")
  /\ Count("probe_io_error")
  /\ UNCHANGED <<target, attempt, waited, failed>>

(* Definitions named Mut... are slips the properties must catch; each one   *)
(* is a variant of the definition that follows it and is used nowhere else. *)
MutSniffTimeout(c) ==  \* the deadline renewed with every read
  /\ Go(c, "sniff", "sniff")
  /\ UNCHANGED <<target, attempt, waited, failed, stats>>

SniffTimeout(c) ==
  /\ Go(c, "sniff", "done")
  /\ Count("probe_timeout")
  /\ UNCHANGED <<target, attempt, waited, failed>>

Hello(c) ==
  /\ Go(c, "sniff", "routed")
  /\ \E t \in {"passthrough", "terminate", "fallback"}, sni \in {"sni_present", "sni_absent"} :
       /\ sni = "sni_absent" => t = "fallback"
       /\ target' = [target EXCEPT ![c] = t]
       /\ Count(sni)
  /\ UNCHANGED <<attempt, waited, failed>>

(* begin_proxied and begin_fallback: the total, then the gauge *)
Side(c)      == IF target[c] = "fallback" THEN "fallback" ELSE "proxied"
Active(c)    == IF target[c] = "fallback" THEN "active_fallback" ELSE "active_proxied"
Completed(c) == IF target[c] = "fallback" THEN "fallback_completed" ELSE "proxied_completed"

CountRoute(c) ==
  /\ Go(c, "routed", "entering")
  /\ Count(Side(c))
  /\ UNCHANGED <<target, attempt, waited, failed>>

MutEnter(c) ==  \* the gauge raised for the fallback side only
  /\ Go(c, "entering", IF target[c] = "passthrough" THEN "delay" ELSE "handshake")
  /\ IF target[c] = "fallback" THEN Count(Active(c)) ELSE UNCHANGED stats
  /\ UNCHANGED <<target, attempt, waited, failed>>

Enter(c) ==
  /\ Go(c, "entering", IF target[c] = "passthrough" THEN "delay" ELSE "handshake")
  /\ Count(Active(c))
  /\ UNCHANGED <<target, attempt, waited, failed>>

(* `build_server_config(...)?` for a route with its own alpn_protocols *)
BuildFails(c) ==
  /\ target[c] = "terminate"
  /\ Go(c, "handshake", "leaving")
  /\ UNCHANGED <<target, attempt, waited, failed, stats>>

(* The TLS handshake under handshake_timeout_secs. *)
HandshakeDone(c) ==
  /\ Go(c, "handshake", IF target[c] = "terminate" THEN "delay" ELSE "alpn")
  /\ Count(IF target[c] = "terminate" THEN "proxy_tls_success" ELSE "fallback_tls_success")
  /\ UNCHANGED <<target, attempt, waited, failed>>

(* an error, or the timeout *)
HandshakeFails(c) ==
  /\ Go(c, "handshake", "leaving")
  /\ Count(IF target[c] = "terminate" THEN "proxy_tls_failure" ELSE "fallback_tls_failure")
  /\ UNCHANGED <<target, attempt, waited, failed>>

CountAlpn(c) ==
  /\ Go(c, "alpn", "serving")
  /\ Count("fallback_alpn")
  /\ UNCHANGED <<target, attempt, waited, failed>>

ServeEnds(c) ==
  /\ Go(c, "serving", "leaving")
  /\ UNCHANGED <<target, attempt, waited, failed, stats>>

------------------------------------------------------------------------------
(* connect_with_backoff; what it has waited is of no interest once it ends. *)

AtMost(n, bound) == IF n < bound THEN n ELSE bound

MutGetDelay(n) == IF n <= 1 THEN 0 ELSE AtMost(base_delay * 2^n, max_delay)  \* attempt, not attempt - 2

(* the shift saturates from attempt 34 on only *)
GetDelay(n) == IF n <= 1 THEN 0 ELSE AtMost(base_delay * 2^(n - 2), max_delay)

Wait(c, ms) == waited' = [waited EXCEPT ![c] = @ + ms]
Waited(c)   == waited' = [waited EXCEPT ![c] = 0]

Sleep(c) ==
  /\ Go(c, "delay", "connect")
  /\ Wait(c, GetDelay(attempt[c]))
  /\ UNCHANGED <<target, attempt, failed, stats>>

Connected(c) ==
  /\ Go(c, "connect", "relay")
  /\ Waited(c)
  /\ UNCHANGED <<target, attempt, failed, stats>>

(* refused, or at attempt_timeout *)
AttemptFails(c, ms) ==
  /\ Wait(c, ms)
  /\ failed' = [failed EXCEPT ![c] = @ + 1]
  /\ IF attempt[c] < max_attempts
       THEN /\ Go(c, "connect", "delay")
            /\ attempt' = [attempt EXCEPT ![c] = @ + 1]
            /\ Count("connect_retries")
       ELSE /\ Go(c, "connect", "giving_up")
            /\ UNCHANGED <<attempt, stats>>
  /\ UNCHANGED target

MutGiveUp(c) ==  \* the early return ahead of the count
  /\ Go(c, "giving_up", "leaving")
  /\ Waited(c)
  /\ UNCHANGED <<target, attempt, failed, stats>>

GiveUp(c) ==
  /\ Go(c, "giving_up", "leaving")
  /\ Count("connect_failures")
  /\ Waited(c)
  /\ UNCHANGED <<target, attempt, failed>>

(* copy_bidirectional returns Ok: one direction's bytes, then the other's *)
RelayDone(c) ==
  /\ Go(c, "relay", "relayed")
  /\ Count("to_service") \/ UNCHANGED stats
  /\ UNCHANGED <<target, attempt, waited, failed>>

CountToClient(c) ==
  /\ Go(c, "relayed", "leaving")
  /\ Count("to_client") \/ UNCHANGED stats
  /\ UNCHANGED <<target, attempt, waited, failed>>

(* or Err, and then how much it moved is not known *)
RelayBreaks(c) ==
  /\ Go(c, "relay", "leaving")
  /\ UNCHANGED <<target, attempt, waited, failed, stats>>

------------------------------------------------------------------------------
(* Drop for ActiveGuard, on every way out: the gauge, then the completion. *)

MutLeave(c) ==  \* the gauge forgotten
  /\ Go(c, "leaving", "left")
  /\ UNCHANGED <<target, attempt, waited, failed, stats>>

Leave(c) ==
  /\ Go(c, "leaving", "left")
  /\ stats' = [stats EXCEPT ![Active(c)] = @ - 1]
  /\ UNCHANGED <<target, attempt, waited, failed>>

MutComplete(c) ==  \* every completion filed under proxied
  /\ Go(c, "left", "done")
  /\ Count("proxied_completed")
  /\ UNCHANGED <<target, attempt, waited, failed>>

Complete(c) ==
  /\ Go(c, "left", "done")
  /\ Count(Completed(c))
  /\ UNCHANGED <<target, attempt, waited, failed>>

(* What the task does by itself, expiring timers included ... *)
OwnStep(c) ==
  \/ SniffTimeout(c) \/ CountRoute(c) \/ Enter(c) \/ HandshakeFails(c) \/ CountAlpn(c)
  \/ Sleep(c) \/ AttemptFails(c, attempt_timeout) \/ GiveUp(c) \/ CountToClient(c)
  \/ Leave(c) \/ Complete(c)

(* ... and what needs the client or the service. *)
PeerStep(c) ==
  \/ Arrive(c) \/ SniffError(c) \/ Hello(c) \/ BuildFails(c) \/ HandshakeDone(c)
  \/ Connected(c) \/ AttemptFails(c, 0) \/ ServeEnds(c)
  \/ RelayDone(c) \/ RelayBreaks(c)

Step(c) == OwnStep(c) \/ PeerStep(c)

(* When every connection is done, nothing is left to do. *)
Over == (\A c \in Conns : at[c] = "done") /\ UNCHANGED vars

Next == (\E c \in Conns : Step(c)) \/ Over

Spec == Init /\ [][Next]_vars

(* The runtime polls a task whose timer has expired or that is ready. *)
FairSpec == Spec /\ \A c \in Conns : WF_vars(OwnStep(c))

------------------------------------------------------------------------------
(* "These numbers can never drift from reality" (ActiveGuard): once all is  *)
(* quiet, every connection that came is counted under exactly one outcome,  *)
(* every one begun is completed, the gauges are back at zero, and each      *)
(* handshake has its result.                                                *)
Finished == {c \in Conns : at[c] = "done"}
Quiet    == \A c \in Conns : at[c] \in {"out", "done"}

BooksBalance ==
  Quiet =>
    /\ stats["probe_timeout"] + stats["probe_io_error"] + stats["proxied"] + stats["fallback"]
         = Cardinality(Finished)
    /\ stats["sni_present"] + stats["sni_absent"] = stats["proxied"] + stats["fallback"]
    /\ stats["active_proxied"] = 0 /\ stats["proxied_completed"] = stats["proxied"]
    /\ stats["active_fallback"] = 0 /\ stats["fallback_completed"] = stats["fallback"]
    /\ stats["proxy_tls_success"] + stats["proxy_tls_failure"] <= stats["proxied"]
    /\ stats["fallback_alpn"] = stats["fallback_tls_success"]
    /\ stats["fallback_tls_success"] + stats["fallback_tls_failure"] = stats["fallback"]

(* "Can never drift from reality", while connections are still served too:  *)
(* whenever none of them is between the two counters of its beginning or of *)
(* its end, each gauge is the number of connections served on its side and  *)
(* the connections begun less those completed.                              *)
Between  == {"entering", "left"}
Serving  == Stages \ (Between \cup {"out", "sniff", "routed", "done"})

GaugesMatchReality ==
  (\A c \in Conns : at[c] \notin Between) =>
    /\ stats["active_proxied"]
         = Cardinality({c \in Conns : at[c] \in Serving /\ target[c] # "fallback"})
    /\ stats["active_fallback"]
         = Cardinality({c \in Conns : at[c] \in Serving /\ target[c] = "fallback"})
    /\ stats["proxied"] - stats["proxied_completed"] = stats["active_proxied"]
    /\ stats["fallback"] - stats["fallback_completed"] = stats["active_fallback"]

(* "The two metrics together distinguish [...] slow to accept from [...]    *)
(* down" (connect_with_backoff): every attempt that failed is counted once, *)
(* the last of max_attempts as a failure once its connection has given up,  *)
(* any other one as a retry, and no attempt that succeeded is counted.      *)
Retries == {try \in Conns \X (1..(max_attempts - 1)) : try[2] <= failed[try[1]]}
GivenUp == {c \in Conns : failed[c] = max_attempts /\ at[c] # "giving_up"}

RetriesExplained ==
  /\ stats["connect_retries"] = Cardinality(Retries)
  /\ stats["connect_failures"] = Cardinality(GivenUp)

(* ConnectRetryPolicy::DEFAULT: a client's connection and its slot are      *)
(* stuck with a dead service for at most 4 * 3s + (200+400+800)ms.          *)
StuckAtMost == \A c \in Conns : waited[c] <= 4 * 3000 + (200 + 400 + 800)

(* Whatever the client and the service do, or fail to do, a connection that *)
(* came is being served, relayed or gone after a while.                     *)
Settles == \A c \in Conns : at[c] = "sniff" ~> at[c] \in {"serving", "relay", "done"}
=============================================================================
