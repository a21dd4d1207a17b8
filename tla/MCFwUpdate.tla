----------------------------- MODULE MCFwUpdate -----------------------------
(* Small instances of FwUpdate. *)
EXTENDS FwUpdate

CONSTANTS d1, d2
=============================================================================
