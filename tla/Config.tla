-------------------------------- MODULE Config --------------------------------
(***************************************************************************)
(* ServiceConfig of src/config.rs: what a configuration file and the       *)
(* environment make together (normalised, overridden, validated), and what *)
(* becomes of it in a running process: main bakes some settings into what  *)
(* it builds at startup, each SIGHUP applies the others, and               *)
(* warn_about_unreloadable_changes reports the ones it cannot apply.       *)
(*                                                                         *)
(* A setting has two acceptable values, "first" and "second", and a        *)
(* "refused" one that stands for all that validate() turns down: a zero, a *)
(* path that is not there, a TLS version that is neither 1.2 nor 1.3, a    *)
(* metrics address that is not loopback, a rate that is not positive.  The *)
(* default of an omitted setting is "first".  An environment variable for  *)
(* a number or an address may also be "garbled": its parser rejects it.    *)
(*                                                                         *)
(* The swaps of a reload and the files of the certificate are HotReload's; *)
(* here a reload is its load, with the warnings, and then either the       *)
(* failure to read the certificate or the adoption.                        *)
(***************************************************************************)
EXTENDS Integers, Sequences, SequencesExt

CONSTANTS Files,  \* what config.toml may say; it parses as TOML
          Envs    \* the environments the process may be started in

(* what serde makes of a [[routes]] entry (alpn is empty or has one list),  *)
(* but for tls_passthrough, which nothing here depends on                   *)
ProxyTarget ==
  [sni : [host : STRING, dots : Nat, upper : BOOLEAN],
   upstream : [host : STRING, port : Int],
   alpn : SUBSET Seq([name : STRING, len : Nat])]

ASSUME FilesAssumption == \A f \in Files : f.routes \in Seq(ProxyTarget)

(* What main builds once: the listeners, the semaphore, the site. *)
Baked == {"listen_addr", "metrics_addr", "max_connections", "static_dir"}

(* What cert_resolver.update, router.reload and the two set_limit replace;  *)
(* the ServerConfig that RouterState::new builds takes its TLS versions     *)
(* from the new configuration.                                              *)
Live == {"tls_min_version", "tls_cert_path", "tls_key_path", "server_header",
         "start_handshake_timeout_secs", "handshake_timeout_secs",
         "max_connections_per_ip", "connection_rate_per_ip", "connection_burst_per_ip"}

Settings  == Baked \cup Live
Required  == {"listen_addr", "tls_cert_path", "tls_key_path", "static_dir"}
Optional  == {"metrics_addr", "max_connections_per_ip", "connection_rate_per_ip",
              "connection_burst_per_ip"}
Unchecked == {"listen_addr", "server_header", "max_connections_per_ip"}
Checked   == Settings \ Unchecked

(* warn_about_unreloadable_changes compares these *)
Warned == Baked \cup {"tls_min_version"}

(* apply_env_overrides knows all but one of them *)
Overridable == Settings \ {"start_handshake_timeout_secs"}

VARIABLES file, env,       \* on disk; of the process
          at,              \* wait, or loaded: hot_reload has a new_config
          new_config,
          current_config,  \* hot_reload's current_config
          running,         \* the settings in force, and the router's table
          warned,          \* history: the settings the last load warned about
          told             \* history: all that were warned about since the start

configVars  == <<new_config, current_config, running>>
historyVars == <<warned, told>>
vars        == <<file, env, at, configVars, historyVars>>

------------------------------------------------------------------------------
(* try_load: a set with the configuration, or empty. *)

(* serde: omitted settings *)
Parses(f) == \A s \in Required : f.set[s] # "unset"

Defaulted(set) ==
  [s \in Settings |-> IF set[s] = "unset" /\ s \notin Optional THEN "first" ELSE set[s]]

(* Definitions named Mut... are slips the properties must catch; each one   *)
(* is a variant of the definition that follows it and is used nowhere else. *)
MutCanonical(name) == [name EXCEPT !.upper = FALSE]  \* the trailing dot kept

(* trim_end_matches('.'), to_ascii_lowercase *)
Canonical(name) == [name EXCEPT !.dots = 0, !.upper = FALSE]

Normalised(routes) ==
  [i \in DOMAIN routes |-> [routes[i] EXCEPT !.sni = Canonical(@)]]

MutOverridden(set, e) ==  \* only where the file says nothing
  [s \in Settings |->
     IF s \in Overridable /\ e[s] \notin {"unset", "garbled"} /\ set[s] = "unset"
       THEN e[s] ELSE set[s]]

(* apply_env_overrides: what cannot be parsed is ignored *)
Overridden(set, e) ==
  [s \in Settings |->
     IF s \in Overridable /\ e[s] \notin {"unset", "garbled"} THEN e[s] ELSE set[s]]

(* validate_upstream: host:port, the host an address or a plausible name,   *)
(* the port (-1 if there is none or it is no number) not 0                  *)
UpstreamOk(u) == u.host \in {"address", "name"} /\ u.port \in 1..65535

(* validate_alpn_protocols: none given, or a list that the extension can    *)
(* carry, each protocol told by its name and its length                     *)
AlpnOk(alpn) ==
  \A protocols \in alpn :
    /\ protocols # <<>>
    /\ \A p \in ToSet(protocols) : p.len \in 1..255
    /\ IsInjective(protocols)
    /\ FoldLeft(LAMBDA n, p : n + 1 + p.len, 0, protocols) <= 65535

RoutesOk(routes) ==
  /\ \A i, j \in DOMAIN routes : routes[i].sni = routes[j].sni => i = j
  /\ \A r \in ToSet(routes) : r.sni.host # "" /\ UpstreamOk(r.upstream) /\ AlpnOk(r.alpn)

(* validate(), and with it the limits that the other modules assume *)
Valid(c) == RoutesOk(c.routes) /\ \A s \in Checked : c.set[s] # "refused"

(* `written` is history: the routes as the file spelled them *)
Built(f, set) == [set |-> set, routes |-> Normalised(f.routes), written |-> f.routes]

MutLoaded(f, e) ==  \* validated before the environment has its say
  {Built(f, Overridden(Defaulted(f.set), e)) :
     c \in {d \in {Built(f, Defaulted(f.set))} : Parses(f) /\ Valid(d)}}

Loaded(f, e) ==
  {c \in {Built(f, Overridden(Defaulted(f.set), e))} : Parses(f) /\ Valid(c)}

------------------------------------------------------------------------------
(* What runs: RouterState::new inserts the routes in turn, a later one      *)
(* shadowing an earlier one of the same name; route() looks a name up.      *)
Matches(routes, name) == {i \in DOMAIN routes : routes[i].sni = name}

Lookup(routes, name) ==
  {routes[i].upstream : i \in {j \in Matches(routes, name) :
                                 \A k \in Matches(routes, name) : k <= j}}

TypeOK ==
  /\ file \in Files /\ env \in Envs
  /\ at \in {"wait", "loaded"}
  /\ \A c \in {new_config, current_config, running} : DOMAIN c.set = Settings
  /\ warned \subseteq told /\ told \subseteq Warned

(* main builds everything from the configuration it loads. *)
Init ==
  /\ file \in Files /\ env \in Envs
  /\ at = "wait"
  /\ running \in Loaded(file, env)
  /\ new_config = running /\ current_config = running
  /\ warned = {} /\ told = {}

(* The process ends, whatever it was doing, and is started again, perhaps  *)
(* in another environment; main returns the error of a file that does not   *)
(* load, so it is started with one that does.                               *)
Restart ==
  /\ env' \in Envs
  /\ at' = "wait"
  /\ running' \in Loaded(file, env')
  /\ new_config' = running' /\ current_config' = running'
  /\ warned' = {} /\ told' = {}
  /\ UNCHANGED file

Edit ==
  /\ file' \in Files \ {file}
  /\ UNCHANGED <<env, at, configVars, historyVars>>

------------------------------------------------------------------------------
(* hot_reload.  A SIGHUP that finds a file that does not load changes       *)
(* nothing and is no step here.                                             *)

MutDiffers(c) ==  \* one setting not compared
  {s \in Warned \ {"static_dir"} : current_config.set[s] # c.set[s]}

MutDiffersAll(c) ==  \* the live settings compared too
  {s \in Settings : current_config.set[s] # c.set[s]}

(* current_config.warn_about_unreloadable_changes(&new_config) *)
Differs(c) == {s \in Warned : current_config.set[s] # c.set[s]}

(* The warnings come before the certificate is read. *)
Load ==
  /\ at = "wait"
  /\ at' = "loaded"
  /\ new_config' \in Loaded(file, env)
  /\ warned' = Differs(new_config') /\ told' = told \cup warned'
  /\ UNCHANGED <<file, env, current_config, running>>

CertificateFails ==
  /\ at = "loaded"
  /\ at' = "wait"
  /\ new_config' = current_config
  /\ UNCHANGED <<file, env, current_config, running, historyVars>>

(* the live settings replaced, the baked ones left as they are *)
Applied(c) ==
  [c EXCEPT !.set = [s \in Settings |-> IF s \in Live THEN c.set[s] ELSE running.set[s]]]

Adopt ==
  /\ at = "loaded"
  /\ at' = "wait"
  /\ running' = Applied(new_config)
  /\ current_config' = new_config
  /\ UNCHANGED <<file, env, new_config, historyVars>>

Next == Edit \/ Restart \/ Load \/ CertificateFails \/ Adopt

Spec == Init /\ [][Next]_vars

------------------------------------------------------------------------------
(* Whatever file, environment and sequence of reloads brought it about, a   *)
(* mix of two configurations included, what runs is what the code behind it *)
(* takes for granted: a limiter with a permit, a bucket that fills, timers  *)
(* that are not 0, upstreams that can be connected to, metrics on loopback. *)
SoundToRunOn ==
  /\ \A s \in Checked : running.set[s] # "refused"
  /\ \A r \in ToSet(running.routes) : UpstreamOk(r.upstream) /\ AlpnOk(r.alpn)

(* "Router::new builds its lookup table with a plain HashMap insert, which  *)
(* would silently let a later duplicate shadow an earlier one" (validate):  *)
(* a client that names a route, however the file spells the name, reaches   *)
(* that route's upstream and no other's.                                    *)
AsProbed(name) == [name EXCEPT !.dots = 0, !.upper = FALSE]

NamesReachTheirRoute ==
  \A r \in ToSet(running.written) :
    Lookup(running.routes, AsProbed(r.sni)) = {r.upstream}

(* "every field can be overridden by the corresponding REPROX_* environment *)
(* variable" (ServiceConfig), and stays so: no reload of an edited file     *)
(* takes a setting back from the environment.                               *)
EnvironmentWins ==
  \A s \in Overridable :
    env[s] \in {"first", "second"} => running.set[s] = env[s]

(* The comparison is with the configuration last adopted, not with the one  *)
(* that the baked settings run with (main.rs 243), so a second SIGHUP finds *)
(* nothing to warn about.  Yet the two never part without a word: a baked   *)
(* setting that is not what was last adopted has been warned about since    *)
(* the process started.                                                     *)
NoSilentDrift ==
  \A s \in Baked : current_config.set[s] # running.set[s] => s \in told

------------------------------------------------------------------------------
(* What the documentation says and the code does not do.                    *)

(* "What does not take effect from a SIGHUP reload: listen_addr,            *)
(* metrics_addr, tls_min_version, max_connections, and static_dir"          *)
(* (hot_reload), and the warning about each says so: what the operator is   *)
(* warned about is left as it is until a restart.                           *)
WarnedIsNotApplied ==
  [][Adopt => \A s \in warned : running'.set[s] = running.set[s]]_vars
=============================================================================
