----------------------------- MODULE MCHotReload -----------------------------
(* Small instances of HotReload. *)
EXTENDS HotReload, TLC

CONSTANTS c1
=============================================================================
