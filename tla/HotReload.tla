------------------------------ MODULE HotReload ------------------------------
(***************************************************************************)
(* main::hot_reload and everything it swaps while connections are being    *)
(* routed: the certificate resolver of src/tls.rs, the RouterState of      *)
(* src/route/router.rs, the two per-IP limiters.                           *)
(*                                                                         *)
(* The operator edits config.toml, the certificate file and the key file   *)
(* one at a time, at any moment; the reload reads the three files in three *)
(* steps and installs the result in six.  Configurations and key pairs     *)
(* are numbered in the order they are written; key n matches certificate n *)
(* only.                                                                   *)
(*                                                                         *)
(* A configuration's number stands for the routes, the TLS settings and    *)
(* the limits in it.  The settings a reload never applies and the warning  *)
(* about them are left out.                                                *)
(***************************************************************************)
EXTENDS Integers

CONSTANTS Conns,     \* connections routed at the same time
          MaxEdits   \* bound on the edits of the three files together

ASSUME MaxEditsAssumption == MaxEdits \in Nat

VARIABLES disk_config, disk_ok,  \* config.toml, and whether it loads
          disk_cert, disk_key,   \* the PEM files; 0 is one that does not parse (one
                                 \* that is missing fails validate(): ~disk_ok)
          issued,                \* the newest key pair either file has held
          edits,                 \* edits so far
          hup,                   \* a SIGHUP is pending; several coalesce
          at,                    \* where hot_reload is
          new_config, new_cert, new_key,  \* its locals
          resolver,              \* ReloadableCertResolver's CertifiedKey
          router,                \* the config of Router's RouterState
          ip_limit,              \* IpLimiter.max_per_ip
          rate,                  \* RateLimiter: <<capacity, refill>>
          current_config,        \* hot_reload's current_config
          current_cert,          \* history: the certificate it was adopted with
          versions,              \* history: every <<config, certificate>> adopted
          stage,                 \* how far each connection is
          floor,                 \* history: <<config, certificate>> when it was accepted
          snapshot,              \* the RouterState route() took
          served                 \* the certificate its handshake got

diskVars   == <<disk_config, disk_ok, disk_cert, disk_key, issued, edits>>
localVars  == <<new_config, new_cert, new_key>>
limitVars  == <<ip_limit, rate>>
connVars   == <<stage, floor, snapshot, served>>
adoptVars  == <<current_config, current_cert, versions>>
reloadVars == <<at, localVars, resolver, router, limitVars, adoptVars>>
vars       == <<diskVars, hup, reloadVars, connVars>>

Issued == 1..(MaxEdits + 1)

TypeOK ==
  /\ disk_config \in Issued /\ disk_ok \in BOOLEAN
  /\ issued \in Issued /\ disk_cert \in 0..issued /\ disk_key \in 0..issued
  /\ edits \in 0..MaxEdits
  /\ hup \in BOOLEAN
  /\ at \in {"wait", "config", "cert", "key", "swap_cert", "swap_router",
             "swap_ip", "swap_capacity", "swap_refill", "adopt"}
  /\ new_config \in Issued /\ new_cert \in Issued /\ new_key \in Issued
  /\ resolver \in [cert : Issued, key : Issued]
  /\ router \in Issued /\ current_config \in Issued
  /\ ip_limit \in Issued /\ rate \in Issued \X Issued
  /\ current_cert \in Issued /\ versions \subseteq Issued \X Issued
  /\ stage \in [Conns -> {"none", "accepted", "routed", "secured"}]
  /\ floor \in [Conns -> versions]
  /\ snapshot \in [Conns -> Issued] /\ served \in [Conns -> Issued]

(* main has loaded a valid configuration and a matching pair. *)
Init ==
  /\ disk_config = 1 /\ disk_ok = TRUE /\ disk_cert = 1 /\ disk_key = 1 /\ issued = 1
  /\ edits = 0 /\ hup = FALSE /\ at = "wait"
  /\ new_config = 1 /\ new_cert = 1 /\ new_key = 1
  /\ resolver = [cert |-> 1, key |-> 1]
  /\ router = 1 /\ ip_limit = 1 /\ rate = <<1, 1>> /\ current_config = 1
  /\ current_cert = 1 /\ versions = {<<1, 1>>}
  /\ stage = [c \in Conns |-> "none"] /\ floor = [c \in Conns |-> <<1, 1>>]
  /\ snapshot = [c \in Conns |-> 1] /\ served = [c \in Conns |-> 1]

------------------------------------------------------------------------------
(* The operator. *)

Edit == edits < MaxEdits /\ edits' = edits + 1

WriteConfig(ok) ==
  /\ Edit
  /\ disk_config' = edits + 2
  /\ disk_ok' = ok
  /\ UNCHANGED <<disk_cert, disk_key, issued, hup, reloadVars, connVars>>

(* A renewal replaces one file, then the other; a file may also go bad. *)
Newest(n) == IF n > issued THEN n ELSE issued

WriteCert(n) ==
  /\ Edit
  /\ n \in {0, issued, issued + 1} \ {disk_cert}
  /\ disk_cert' = n /\ issued' = Newest(n)
  /\ UNCHANGED <<disk_config, disk_ok, disk_key, hup, reloadVars, connVars>>

WriteKey(n) ==
  /\ Edit
  /\ n \in {0, issued, issued + 1} \ {disk_key}
  /\ disk_key' = n /\ issued' = Newest(n)
  /\ UNCHANGED <<disk_config, disk_ok, disk_cert, hup, reloadVars, connVars>>

SendHup ==
  /\ ~hup
  /\ hup' = TRUE
  /\ UNCHANGED <<diskVars, reloadVars, connVars>>

------------------------------------------------------------------------------
(* hot_reload.  Every failure is logged and goes back to waiting. *)

Goto(here, there) == at = here /\ at' = there

Others == UNCHANGED <<diskVars, connVars>>

ReceiveHup ==
  /\ Goto("wait", "config")
  /\ hup
  /\ hup' = FALSE
  /\ UNCHANGED <<localVars, resolver, router, limitVars, adoptVars>>
  /\ Others

(* Definitions named Mut... are slips the properties must catch; each one   *)
(* is a variant of the definition that follows it and is used nowhere else. *)
MutLoadConfig ==  \* current_config replaced before the pair is loaded
  /\ IF disk_ok
       THEN /\ Goto("config", "cert")
            /\ new_config' = disk_config /\ current_config' = disk_config
       ELSE Goto("config", "wait") /\ UNCHANGED <<new_config, current_config>>
  /\ UNCHANGED <<hup, new_cert, new_key, resolver, router, limitVars,
                 current_cert, versions>>
  /\ Others

LoadConfig ==
  /\ IF disk_ok
       THEN Goto("config", "cert") /\ new_config' = disk_config
       ELSE Goto("config", "wait") /\ UNCHANGED new_config
  /\ UNCHANGED <<hup, new_cert, new_key, resolver, router, limitVars, adoptVars>>
  /\ Others

MutLoadCert ==  \* a file without certificates accepted
  /\ Goto("cert", "key") /\ new_cert' = disk_cert
  /\ UNCHANGED <<hup, new_config, new_key, resolver, router, limitVars, adoptVars>>
  /\ Others

LoadCert ==
  /\ IF disk_cert # 0
       THEN Goto("cert", "key") /\ new_cert' = disk_cert
       ELSE Goto("cert", "wait") /\ UNCHANGED new_cert
  /\ UNCHANGED <<hup, new_config, new_key, resolver, router, limitVars, adoptVars>>
  /\ Others

MutLoadKey ==  \* keys_match not called
  /\ IF disk_key # 0
       THEN Goto("key", "swap_cert") /\ new_key' = disk_key
       ELSE Goto("key", "wait") /\ UNCHANGED new_key
  /\ UNCHANGED <<hup, new_config, new_cert, resolver, router, limitVars, adoptVars>>
  /\ Others

(* load_key, and keys_match against the certificate already read *)
LoadKey ==
  /\ IF disk_key = new_cert
       THEN Goto("key", "swap_cert") /\ new_key' = disk_key
       ELSE Goto("key", "wait") /\ UNCHANGED new_key
  /\ UNCHANGED <<hup, new_config, new_cert, resolver, router, limitVars, adoptVars>>
  /\ Others

SwapCert ==
  /\ Goto("swap_cert", "swap_router")
  /\ resolver' = [cert |-> new_cert, key |-> new_key]
  /\ UNCHANGED <<hup, localVars, router, limitVars, adoptVars>>
  /\ Others

MutSwapRouter ==  \* reload(current_config.clone())
  /\ Goto("swap_router", "swap_ip")
  /\ router' = current_config
  /\ UNCHANGED <<hup, localVars, resolver, limitVars, adoptVars>>
  /\ Others

(* Router::reload: a new RouterState, ServerConfig included *)
SwapRouter ==
  /\ Goto("swap_router", "swap_ip")
  /\ router' = new_config
  /\ UNCHANGED <<hup, localVars, resolver, limitVars, adoptVars>>
  /\ Others

SwapIpLimit ==
  /\ Goto("swap_ip", "swap_capacity")
  /\ ip_limit' = new_config
  /\ UNCHANGED <<hup, localVars, resolver, router, rate, adoptVars>>
  /\ Others

SwapCapacity ==
  /\ Goto("swap_capacity", "swap_refill")
  /\ rate' = <<new_config, rate[2]>>
  /\ UNCHANGED <<hup, localVars, resolver, router, ip_limit, adoptVars>>
  /\ Others

SwapRefill ==
  /\ Goto("swap_refill", "adopt")
  /\ rate' = <<rate[1], new_config>>
  /\ UNCHANGED <<hup, localVars, resolver, router, ip_limit, adoptVars>>
  /\ Others

MutAdopt ==  \* signals that came meanwhile discarded
  /\ Goto("adopt", "wait")
  /\ current_config' = new_config
  /\ current_cert' = new_cert
  /\ versions' = versions \cup {<<new_config, new_cert>>}
  /\ hup' = FALSE
  /\ UNCHANGED <<localVars, resolver, router, limitVars>>
  /\ Others

Adopt ==
  /\ Goto("adopt", "wait")
  /\ current_config' = new_config
  /\ current_cert' = new_cert
  /\ versions' = versions \cup {<<new_config, new_cert>>}
  /\ UNCHANGED <<hup, localVars, resolver, router, limitVars>>
  /\ Others

ReloadStep ==
  \/ ReceiveHup \/ LoadConfig \/ LoadCert \/ LoadKey
  \/ SwapCert \/ SwapRouter \/ SwapIpLimit \/ SwapCapacity \/ SwapRefill \/ Adopt

------------------------------------------------------------------------------
(* A connection: accepted and spawned; route() takes its snapshot when the  *)
(* task is first polled; the handshake asks the shared resolver.            *)

Accept(c) ==
  /\ stage[c] = "none"
  /\ stage' = [stage EXCEPT ![c] = "accepted"]
  /\ floor' = [floor EXCEPT ![c] = <<current_config, current_cert>>]
  /\ UNCHANGED <<diskVars, hup, reloadVars, snapshot, served>>

Route(c) ==
  /\ stage[c] = "accepted"
  /\ stage' = [stage EXCEPT ![c] = "routed"]
  /\ snapshot' = [snapshot EXCEPT ![c] = router]
  /\ UNCHANGED <<diskVars, hup, reloadVars, floor, served>>

Handshake(c) ==
  /\ stage[c] = "routed"
  /\ stage' = [stage EXCEPT ![c] = "secured"]
  /\ served' = [served EXCEPT ![c] = resolver.cert]
  /\ UNCHANGED <<diskVars, hup, reloadVars, floor, snapshot>>

Close(c) ==
  /\ stage[c] # "none"
  /\ stage' = [stage EXCEPT ![c] = "none"]
  /\ floor' = [floor EXCEPT ![c] = <<1, 1>>]
  /\ snapshot' = [snapshot EXCEPT ![c] = 1]
  /\ served' = [served EXCEPT ![c] = 1]
  /\ UNCHANGED <<diskVars, hup, reloadVars>>

Next ==
  \/ \E ok \in BOOLEAN : WriteConfig(ok)
  \/ \E n \in 0..(MaxEdits + 1) : WriteCert(n) \/ WriteKey(n)
  \/ SendHup
  \/ ReloadStep
  \/ \E c \in Conns : Accept(c) \/ Route(c) \/ Handshake(c) \/ Close(c)

Spec == Init /\ [][Next]_vars

FairSpec == Spec /\ WF_vars(ReloadStep)

------------------------------------------------------------------------------
(* "the private key ... does not match": the resolver never holds a key and *)
(* a certificate that do not belong together, though a renewal may replace  *)
(* the files between the two reads.                                         *)
InstalledPairMatches == resolver.cert = resolver.key

(* "rather than ... ending up in a half-applied mix of old and new state":  *)
(* whenever a reload is not past its last possible failure, everything      *)
(* swappable is that of the last reload that completed.                     *)
NotHalfApplied ==
  at \in {"wait", "config", "cert", "key"} =>
    /\ router = current_config
    /\ resolver.cert = current_cert
    /\ ip_limit = current_config
    /\ rate = <<current_config, current_config>>

(* A connection accepted after "reload complete" is routed by that          *)
(* configuration or a later one, and shown that certificate or a later one. *)
ReloadTakesEffect ==
  \A c \in Conns :
    /\ stage[c] \in {"routed", "secured"} => snapshot[c] >= floor[c][1]
    /\ stage[c] = "secured" => served[c] >= floor[c][2]

(* No SIGHUP is lost: one sent after the last edit, were a reload already   *)
(* under way, ends with what is on disk installed, if it is loadable.       *)
DiskLoadable == disk_ok /\ disk_cert # 0 /\ disk_cert = disk_key

LastHupWins ==
  (hup /\ edits = MaxEdits /\ DiskLoadable)
    ~> (at = "wait" /\ current_config = disk_config /\ router = disk_config
        /\ resolver = [cert |-> disk_cert, key |-> disk_key])

------------------------------------------------------------------------------
(* What the documentation says and the code does not do.                    *)

(* README.md:367-369: no "window where one connection sees routes from one  *)
(* version mixed with a certificate from another": what it sees is a pair   *)
(* some reload adopted, or the pair being installed.                        *)
Installing == IF at \in {"wait", "config", "cert", "key"} THEN {}
              ELSE {<<new_config, new_cert>>}

NoMixedConnection ==
  \A c \in Conns :
    stage[c] = "secured" => <<snapshot[c], served[c]>> \in versions \cup Installing
=============================================================================
