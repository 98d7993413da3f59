----------------------------- MODULE ConfigProofs -----------------------------
(***************************************************************************)
(* Proofs about Config, for any files and environments.  Every             *)
(* configuration the process holds, the mix in force included, is Sound    *)
(* (validated, normalised, with the environment's say in it), and what a   *)
(* loaded configuration would change of the adopted one has been told of.  *)
(***************************************************************************)
EXTENDS Config, TLAPS

Shaped(c) == c = [set |-> c.set, routes |-> c.routes, written |-> c.written]
             /\ c.set = [s \in Settings |-> c.set[s]]

Sound(c) ==
  /\ Shaped(c)
  /\ \E f \in Files : c.written = f.routes
  /\ c.routes = Normalised(c.written)
  /\ Valid(c)
  /\ \A s \in Overridable : env[s] \in {"first", "second"} => c.set[s] = env[s]

ConfigInv ==
  /\ TypeOK
  /\ Sound(new_config) /\ Sound(current_config) /\ Sound(running)
  /\ at = "loaded" => Differs(new_config) \subseteq told
  /\ NoSilentDrift

------------------------------------------------------------------------------
LEMMA LoadedIsSound ==
  ASSUME NEW f \in Files, NEW c \in Loaded(f, env)
  PROVE  Sound(c)
<1>1. c = Built(f, Overridden(Defaulted(f.set), env)) /\ Valid(c)
  BY DEF Loaded
<1>2. c = [set |-> Overridden(Defaulted(f.set), env), routes |-> Normalised(f.routes),
           written |-> f.routes]
  BY <1>1 DEF Built
<1>3. Shaped(c)
  BY <1>2 DEF Shaped, Overridden
<1>4. \A s \in Overridable : env[s] \in {"first", "second"} => c.set[s] = env[s]
  BY <1>2 DEF Overridden, Overridable
<1>. QED  BY <1>1, <1>2, <1>3, <1>4 DEF Sound

(* The mix of a reload: the new routes, and each setting from one of two    *)
(* configurations that were validated.                                      *)
LEMMA MixIsSound ==
  ASSUME Sound(new_config), Sound(running)
  PROVE  /\ Sound(Applied(new_config))
         /\ \A s \in Baked : Applied(new_config).set[s] = running.set[s]
<1>. DEFINE m == Applied(new_config)
<1>1. m = [set |-> [s \in Settings |-> IF s \in Live THEN new_config.set[s] ELSE running.set[s]],
           routes |-> new_config.routes, written |-> new_config.written]
  BY DEF Applied, Sound, Shaped
<1>. HIDE DEF m
<1>2. /\ m.routes = new_config.routes /\ m.written = new_config.written
      /\ \A s \in Settings : m.set[s] = (IF s \in Live THEN new_config.set[s] ELSE running.set[s])
      /\ Shaped(m)
  BY <1>1 DEF Shaped
<1>3. Checked \subseteq Settings /\ Overridable \subseteq Settings /\ Baked \subseteq Settings
      /\ Baked \cap Live = {}
  BY DEF Checked, Overridable, Settings, Baked, Live
<1>4. Valid(m)
  BY <1>2, <1>3 DEF Sound, Valid
<1>5. \A s \in Overridable : env[s] \in {"first", "second"} => m.set[s] = env[s]
  BY <1>2, <1>3 DEF Sound
<1>6. Sound(m)
  BY <1>2, <1>4, <1>5 DEF Sound
<1>7. \A s \in Baked : m.set[s] = running.set[s]
  BY <1>2, <1>3
<1>. QED  BY <1>6, <1>7 DEF m

LEMMA InitInv == Init => ConfigInv
<1>. SUFFICES ASSUME Init PROVE ConfigInv
  OBVIOUS
<1>1. Sound(running) /\ Sound(new_config) /\ Sound(current_config)
  BY LoadedIsSound DEF Init
<1>. QED  BY <1>1 DEF Init, ConfigInv, TypeOK, NoSilentDrift, Sound, Shaped

LEMMA NextInv == ConfigInv /\ [Next]_vars => ConfigInv'
<1>. SUFFICES ASSUME ConfigInv, [Next]_vars PROVE ConfigInv'
  OBVIOUS
<1>. USE DEF ConfigInv, configVars, historyVars
<1>1. CASE Edit
  BY <1>1 DEF Edit, TypeOK, Sound, NoSilentDrift, Differs
<1>2. CASE Restart
  <2>1. file \in Files /\ running' \in Loaded(file, env')
    BY <1>2 DEF Restart, TypeOK
  <2>2. Sound(running)'
    <3>1. \A e, c : c \in Loaded(file, e) => Shaped(c) /\ c.written = file.routes
            /\ c.routes = Normalised(c.written) /\ Valid(c)
            /\ \A s \in Overridable : e[s] \in {"first", "second"} => c.set[s] = e[s]
      BY DEF Loaded, Built, Overridden, Overridable, Shaped
    <3>. QED  BY <2>1, <3>1 DEF Sound, Shaped, Valid, Normalised
  <2>. QED  BY <1>2, <2>2 DEF Restart, TypeOK, NoSilentDrift, Sound, Shaped
<1>3. CASE Load
  <2>1. Sound(new_config')
    BY <1>3, LoadedIsSound DEF Load, TypeOK
  <2>2. Sound(new_config)' /\ Sound(current_config)' /\ Sound(running)'
    BY <1>3, <2>1 DEF Load, Sound
  <2>3. TypeOK'
    BY <1>3, <2>2 DEF Load, TypeOK, Sound, Shaped, Differs
  <2>. QED  BY <1>3, <2>2, <2>3 DEF Load, NoSilentDrift, Differs
<1>4. CASE CertificateFails
  BY <1>4 DEF CertificateFails, TypeOK, Sound, NoSilentDrift
<1>5. CASE Adopt
  <2>1. Sound(running') /\ \A s \in Baked : running'.set[s] = running.set[s]
    BY <1>5, MixIsSound DEF Adopt
  <2>2. Sound(new_config)' /\ Sound(current_config)' /\ Sound(running)'
    BY <1>5, <2>1 DEF Adopt, Sound
  <2>3. NoSilentDrift'
    <3>. SUFFICES ASSUME NEW s \in Baked, new_config.set[s] # running.set[s] PROVE s \in told
      BY <1>5, <2>1 DEF Adopt, NoSilentDrift
    <3>1. CASE current_config.set[s] = new_config.set[s]
      BY <3>1 DEF NoSilentDrift
    <3>2. CASE current_config.set[s] # new_config.set[s]
      BY <1>5, <3>2 DEF Adopt, Differs, Warned
    <3>. QED  BY <3>1, <3>2
  <2>4. TypeOK'
    BY <1>5, <2>2 DEF Adopt, TypeOK, Sound, Shaped
  <2>. QED  BY <1>5, <2>2, <2>3, <2>4 DEF Adopt
<1>6. CASE UNCHANGED vars
  BY <1>6 DEF vars, TypeOK, Sound, NoSilentDrift, Differs
<1>. QED  BY <1>1, <1>2, <1>3, <1>4, <1>5, <1>6 DEF Next

LEMMA ConfigInvHolds == Spec => []ConfigInv
BY InitInv, NextInv, PTL DEF Spec

(* Whatever is loaded, adopted or mixed has every setting, and what a load  *)
(* warns about is among the settings that can be warned about.              *)
THEOREM TypeCorrect == Spec => []TypeOK
<1>1. ConfigInv => TypeOK
  BY DEF ConfigInv
<1>. QED  BY <1>1, ConfigInvHolds, PTL

(* No reload installs a setting or a route that validate() would refuse,    *)
(* though what it makes is a mix that validate() has never seen.            *)
THEOREM SoundToRunOnHolds == Spec => []SoundToRunOn
<1>1. ConfigInv => SoundToRunOn
  BY DEF ConfigInv, Sound, Valid, RoutesOk, SoundToRunOn
<1>. QED  BY <1>1, ConfigInvHolds, PTL

(* No sequence of edits and reloads takes a setting back from the           *)
(* environment (apply_env_overrides).                                       *)
THEOREM EnvironmentWinsHolds == Spec => []EnvironmentWins
<1>1. ConfigInv => EnvironmentWins
  BY DEF ConfigInv, Sound, EnvironmentWins
<1>. QED  BY <1>1, ConfigInvHolds, PTL

(* warn_about_unreloadable_changes compares with the wrong configuration    *)
(* and still leaves no departure of a startup-only setting untold.          *)
THEOREM NoSilentDriftHolds == Spec => []NoSilentDrift
<1>1. ConfigInv => NoSilentDrift
  BY DEF ConfigInv
<1>. QED  BY <1>1, ConfigInvHolds, PTL

(* Of the routes in force, exactly one answers to a name the file spells.   *)
LEMMA OneMatches ==
  ASSUME NEW written \in Seq(ProxyTarget), RoutesOk(Normalised(written)), NEW i \in DOMAIN written
  PROVE  Lookup(Normalised(written), AsProbed(written[i].sni)) = {written[i].upstream}
<1>. DEFINE routes == Normalised(written)
            name == AsProbed(written[i].sni)
<1>1. written[i] \in ProxyTarget /\ DOMAIN routes = DOMAIN written /\ i \in Nat
      /\ DOMAIN written = 1..Len(written)
  BY DEF Normalised
<1>2. routes[i] = [written[i] EXCEPT !.sni = Canonical(@)]
  BY DEF Normalised
<1>3. routes[i].sni = name /\ routes[i].upstream = written[i].upstream
  BY <1>1, <1>2 DEF ProxyTarget, Canonical, AsProbed
<1>. HIDE DEF routes, name
<1>4. Matches(routes, name) = {i}
  BY <1>1, <1>3 DEF RoutesOk, Matches, routes
<1>5. {j \in {i} : \A k \in {i} : k <= j} = {i}
  BY <1>1
<1>6. Lookup(routes, name) = {routes[j].upstream : j \in {i}}
  BY <1>4, <1>5 DEF Lookup
<1>. QED  BY <1>3, <1>6 DEF routes, name

(* A client that names a route, however the file spells it, reaches that    *)
(* route's upstream: no later entry shadows it (validate, RouterState::new).*)
THEOREM NamesReachTheirRouteHolds == Spec => []NamesReachTheirRoute
<1>1. ASSUME ConfigInv PROVE NamesReachTheirRoute
  <2>1. running.written \in Seq(ProxyTarget) /\ running.routes = Normalised(running.written)
        /\ RoutesOk(running.routes)
    BY <1>1, FilesAssumption DEF ConfigInv, Sound, Valid
  <2>2. \A r \in ToSet(running.written) : \E i \in DOMAIN running.written : r = running.written[i]
    BY DEF ToSet
  <2>. QED  BY <2>1, <2>2, OneMatches DEF NamesReachTheirRoute
<1>2. ConfigInv => NamesReachTheirRoute
  BY <1>1
<1>. QED  BY <1>2, ConfigInvHolds, PTL
===============================================================================
