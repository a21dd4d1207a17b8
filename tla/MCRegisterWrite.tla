-------------------------- MODULE MCRegisterWrite --------------------------
(* Small instances of RegisterWrite. *)
EXTENDS RegisterWrite

CONSTANTS r1, r2
=============================================================================
