--------------------------- MODULE HotReloadProofs ---------------------------
(***************************************************************************)
(* Proofs about HotReload.  ReloadInv adds to its types                    *)
(*   NeverBack   configurations and certificates are read in the order     *)
(*               they were written, so what is being installed is never    *)
(*               older than what is installed;                             *)
(*   Placed      which version each swapped part holds, by the position of *)
(*               the reload;                                               *)
(*   Remembered  what a connection's floor says was adopted before it.     *)
(***************************************************************************)
EXTENDS HotReload, TLAPS

(* the positions from which a reload can still fail *)
MayFail == {"wait", "config", "cert", "key"}

NeverBack ==
  /\ disk_config <= edits + 1 /\ issued <= edits + 1
  /\ current_config <= new_config /\ new_config <= disk_config
  /\ current_cert <= new_cert /\ new_cert <= issued
  /\ disk_cert # 0 => new_cert <= disk_cert

Swapped(positions, new, current) == IF at \in positions THEN new ELSE current

Placed ==
  /\ at \notin MayFail => new_key = new_cert
  /\ resolver = LET n == Swapped(MayFail \cup {"swap_cert"}, current_cert, new_cert)
                IN  [cert |-> n, key |-> n]
  /\ router = Swapped(MayFail \cup {"swap_cert", "swap_router"}, current_config, new_config)
  /\ ip_limit = Swapped({"swap_capacity", "swap_refill", "adopt"}, new_config, current_config)
  /\ rate = <<Swapped({"swap_refill", "adopt"}, new_config, current_config),
              Swapped({"adopt"}, new_config, current_config)>>

Remembered ==
  /\ {<<1, 1>>, <<current_config, current_cert>>} \subseteq versions
  /\ \A c \in Conns : floor[c][1] <= current_config /\ floor[c][2] <= current_cert

ReloadInv == TypeOK /\ NeverBack /\ Placed /\ Remembered /\ ReloadTakesEffect

------------------------------------------------------------------------------
LEMMA InitReloadInv == Init => ReloadInv
<1>. SUFFICES ASSUME Init PROVE ReloadInv
  OBVIOUS
<1>. USE MaxEditsAssumption DEF Init
<1>1. TypeOK
  <2>1. 1 \in Issued
    BY DEF Issued
  <2>2. /\ floor \in [Conns -> versions]
        /\ resolver \in [cert : Issued, key : Issued]
        /\ rate \in Issued \X Issued /\ versions \subseteq Issued \X Issued
    BY <2>1
  <2>3. edits \in 0..MaxEdits /\ disk_cert \in 0..issued /\ disk_key \in 0..issued
    OBVIOUS
  <2>4. snapshot \in [Conns -> Issued] /\ served \in [Conns -> Issued]
    BY <2>1
  <2>5. stage \in [Conns -> {"none", "accepted", "routed", "secured"}]
    OBVIOUS
  <2>. QED  BY <2>1, <2>2, <2>3, <2>4, <2>5 DEF TypeOK
<1>2. NeverBack /\ Remembered /\ ReloadTakesEffect
  BY DEF NeverBack, Remembered, ReloadTakesEffect
<1>3. Placed
  BY DEF Placed, Swapped, MayFail
<1>. QED  BY <1>1, <1>2, <1>3 DEF ReloadInv

(* The operator's edits: numbers only grow, and only the disk changes.      *)
LEMMA EditKeepsInv ==
  ASSUME ReloadInv, \/ \E ok \in BOOLEAN : WriteConfig(ok)
                    \/ \E n \in 0..(MaxEdits + 1) : WriteCert(n) \/ WriteKey(n)
                    \/ SendHup
  PROVE  ReloadInv'
<1>1. UNCHANGED <<reloadVars, connVars>> /\ edits' \in {edits, edits + 1}
  BY DEF WriteConfig, WriteCert, WriteKey, SendHup, Edit, diskVars
<1>2. Placed' /\ Remembered' /\ ReloadTakesEffect'
  BY <1>1 DEF ReloadInv, Placed, Swapped, Remembered, ReloadTakesEffect,
              reloadVars, localVars, limitVars, adoptVars, connVars
<1>3. CASE \E ok \in BOOLEAN : WriteConfig(ok)
  <2>1. TypeOK'
    BY <1>1, <1>3, MaxEditsAssumption
       DEF ReloadInv, TypeOK, NeverBack, Issued, WriteConfig, Edit,
           reloadVars, localVars, limitVars, adoptVars, connVars
  <2>2. NeverBack'
    BY <1>1, <1>3 DEF ReloadInv, TypeOK, NeverBack, Issued, WriteConfig, Edit,
                      reloadVars, localVars, adoptVars
  <2>. QED  BY <1>2, <2>1, <2>2 DEF ReloadInv
<1>4. CASE \E n \in 0..(MaxEdits + 1) : WriteCert(n) \/ WriteKey(n)
  <2>1. TypeOK'
    BY <1>1, <1>4, MaxEditsAssumption
       DEF ReloadInv, TypeOK, NeverBack, Issued, WriteCert, WriteKey, Newest, Edit,
           reloadVars, localVars, limitVars, adoptVars, connVars
  <2>2. NeverBack'
    BY <1>1, <1>4 DEF ReloadInv, TypeOK, NeverBack, Issued, WriteCert, WriteKey, Newest,
                      Edit, reloadVars, localVars, adoptVars
  <2>. QED  BY <1>2, <2>1, <2>2 DEF ReloadInv
<1>5. CASE SendHup
  BY <1>2, <1>5 DEF ReloadInv, TypeOK, NeverBack, SendHup, diskVars,
                    reloadVars, localVars, limitVars, adoptVars, connVars
<1>. QED  BY <1>3, <1>4, <1>5

(* Reading the three files: the locals change, nothing installed does.      *)
LEMMA ReadKeepsInv ==
  ASSUME ReloadInv, ReceiveHup \/ LoadConfig \/ LoadCert \/ LoadKey
  PROVE  ReloadInv'
<1>. USE DEF ReloadInv, ReceiveHup, LoadConfig, LoadCert, LoadKey, Goto, Others,
             diskVars, localVars, limitVars, adoptVars, connVars
<1>1. TypeOK'
  <2>1. issued <= MaxEdits + 1
    BY DEF TypeOK, Issued
  <2>2. new_config' \in Issued /\ new_cert' \in Issued /\ new_key' \in Issued
    BY <2>1, MaxEditsAssumption DEF TypeOK, Issued
  <2>. QED  BY <2>2 DEF TypeOK
<1>2. NeverBack'
  BY DEF NeverBack, TypeOK, Issued
<1>3. Placed'
  BY DEF Placed, Swapped, MayFail
<1>4. Remembered' /\ ReloadTakesEffect'
  BY DEF Remembered, ReloadTakesEffect
<1>. QED  BY <1>1, <1>2, <1>3, <1>4

(* Installing: each swap moves one part from the adopted to the new version.*)
LEMMA SwapKeepsInv ==
  ASSUME ReloadInv, SwapCert \/ SwapRouter \/ SwapIpLimit \/ SwapCapacity \/ SwapRefill
  PROVE  ReloadInv'
<1>. USE DEF ReloadInv, SwapCert, SwapRouter, SwapIpLimit, SwapCapacity, SwapRefill,
             Goto, Others, diskVars, localVars, limitVars, adoptVars, connVars
<1>1. TypeOK'
  BY DEF TypeOK, Issued
<1>2. NeverBack'
  BY DEF NeverBack
<1>3. Placed'
  BY DEF Placed, Swapped, MayFail, TypeOK
<1>4. Remembered' /\ ReloadTakesEffect'
  BY DEF Remembered, ReloadTakesEffect
<1>. QED  BY <1>1, <1>2, <1>3, <1>4

LEMMA AdoptKeepsInv ==
  ASSUME ReloadInv, Adopt
  PROVE  ReloadInv'
<1>. USE DEF ReloadInv, Adopt, Goto, Others, diskVars, localVars, limitVars, connVars
<1>1. TypeOK'
  BY DEF TypeOK, Issued
<1>2. NeverBack'
  BY DEF NeverBack, TypeOK, Issued
<1>3. Placed'
  BY DEF Placed, Swapped, MayFail
<1>4. Remembered'
  BY DEF Remembered, NeverBack, TypeOK, Issued
<1>5. ReloadTakesEffect'
  BY DEF ReloadTakesEffect
<1>. QED  BY <1>1, <1>2, <1>3, <1>4, <1>5

(* A connection takes what is installed, which is what was adopted when it  *)
(* was accepted, or newer.                                                  *)
LEMMA ConnectionKeepsInv ==
  ASSUME ReloadInv, NEW c \in Conns, Accept(c) \/ Route(c) \/ Handshake(c) \/ Close(c)
  PROVE  ReloadInv'
<1>. USE DEF ReloadInv, Accept, Route, Handshake, Close,
             diskVars, reloadVars, localVars, limitVars, adoptVars
<1>1. TypeOK'
  <2>1. 1 \in Issued
    BY MaxEditsAssumption DEF Issued
  <2>2. stage' \in [Conns -> {"none", "accepted", "routed", "secured"}]
    BY DEF TypeOK
  <2>3. floor' \in [Conns -> versions']
    BY DEF TypeOK, Remembered
  <2>4. snapshot' \in [Conns -> Issued] /\ served' \in [Conns -> Issued]
    BY <2>1 DEF TypeOK
  <2>. QED  BY <2>2, <2>3, <2>4 DEF TypeOK
<1>2. NeverBack' /\ Placed'
  BY DEF NeverBack, Placed, Swapped
<1>3. Remembered'
  BY DEF Remembered, TypeOK, Issued
<1>4. router >= current_config /\ resolver.cert >= current_cert
  BY DEF Placed, Swapped, NeverBack, TypeOK, Issued
<1>5. ReloadTakesEffect'
  BY <1>4 DEF ReloadTakesEffect, Remembered, TypeOK, Issued
<1>. QED  BY <1>1, <1>2, <1>3, <1>5

LEMMA NextReloadInv == ReloadInv /\ [Next]_vars => ReloadInv'
<1>. SUFFICES ASSUME ReloadInv, [Next]_vars PROVE ReloadInv'
  OBVIOUS
<1>1. CASE ReloadStep
  BY <1>1, ReadKeepsInv, SwapKeepsInv, AdoptKeepsInv DEF ReloadStep
<1>2. CASE UNCHANGED vars
  BY <1>2 DEF vars, diskVars, reloadVars, localVars, limitVars, adoptVars, connVars, ReloadInv,
              TypeOK, NeverBack, Placed, Swapped, Remembered, ReloadTakesEffect
<1>. QED  BY <1>1, <1>2, EditKeepsInv, ConnectionKeepsInv DEF Next

------------------------------------------------------------------------------
(* hot_reload's locals and everything it swaps stay well formed, for any    *)
(* number of edits and of connections.                                      *)
THEOREM TypeCorrect == Spec => []TypeOK
<1>1. ReloadInv => TypeOK
  BY DEF ReloadInv
<1>. QED  BY <1>1, InitReloadInv, NextReloadInv, PTL DEF Spec

(* load_certified_key: the resolver never holds a certificate and a key     *)
(* that do not belong together, however the renewal of the two files and    *)
(* the reads interleave.                                                    *)
THEOREM InstalledPairMatchesHolds == Spec => []InstalledPairMatches
<1>1. ReloadInv => InstalledPairMatches
  BY DEF ReloadInv, Placed, InstalledPairMatches
<1>. QED  BY <1>1, InitReloadInv, NextReloadInv, PTL DEF Spec

(* hot_reload: until a reload is past its last possible failure, all that   *)
(* is in force is what the last completed one adopted.                      *)
THEOREM NotHalfAppliedHolds == Spec => []NotHalfApplied
<1>1. ReloadInv => NotHalfApplied
  BY DEF ReloadInv, Placed, Swapped, MayFail, NotHalfApplied
<1>. QED  BY <1>1, InitReloadInv, NextReloadInv, PTL DEF Spec

(* A connection accepted after a reload completed is never routed by an     *)
(* older configuration nor shown an older certificate, whatever reloads run *)
(* while it waits to be polled and to shake hands.                          *)
THEOREM ReloadTakesEffectHolds == Spec => []ReloadTakesEffect
<1>1. ReloadInv => ReloadTakesEffect
  BY DEF ReloadInv
<1>. QED  BY <1>1, InitReloadInv, NextReloadInv, PTL DEF Spec
=============================================================================
