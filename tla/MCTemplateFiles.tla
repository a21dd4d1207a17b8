-------------------------- MODULE MCTemplateFiles --------------------------
(* One shipped file and two of the user, of two types. *)
EXTENDS TemplateFiles

CONSTANTS a, b, s1, u1, u2

T(t, v) == [type |-> t, version |-> v]
MCHolds(p) == IF p = u2 THEN {T(a, 1), T(b, 1)} ELSE {T(a, 1)}
MCUploads == {T(a, 2)}
MCByHand == {{s1}, {u2}}
=============================================================================
