---------------------------- MODULE MCStateStore -----------------------------
(* Two keys and two values, one of them what a V2 installation left. *)
EXTENDS StateStore

CONSTANTS tool, inventory, v1, v2
=============================================================================
