--------------------------- MODULE ValueDelivery ---------------------------
(***************************************************************************)
(* What the service promises of the values that are set over MQTT: a       *)
(* register is written only while its last value is open, what is written  *)
(* is the last value at that time, and a value stays open until it was     *)
(* itself written or refused, or is given up.  A newer value that is set   *)
(* during a write is open after it.                                        *)
(***************************************************************************)
CONSTANTS
  Registers,  \* registers that can be written
  Values,     \* values of a register
  NoValue     \* no value was written yet

VARIABLES
  wanted,     \* register -> the last value that was set
  open,       \* registers whose last value is still to be written
  attempt,    \* the write that is in progress, a set of one record or none
  written     \* register -> the last value that the device was given

vars == <<wanted, open, attempt, written>>

Init ==
  /\ wanted \in [Registers -> Values]
  /\ open = {}
  /\ attempt = {}
  /\ written = [r \in Registers |-> NoValue]

Set(r, v) ==
  /\ wanted' = [wanted EXCEPT ![r] = v]
  /\ open' = open \cup {r}
  /\ UNCHANGED <<attempt, written>>

\* A text that is no value may have the last value written once more.
SetAgain(r) ==
  /\ open' = open \cup {r}
  /\ UNCHANGED <<wanted, attempt, written>>

Begin(r) ==
  /\ attempt = {}
  /\ r \in open
  /\ attempt' = {[register |-> r, value |-> wanted[r]]}
  /\ UNCHANGED <<wanted, open, written>>

\* The device has got the value or not; the outcome may settle this value, but no other one.
End(r, v) ==
  /\ attempt = {[register |-> r, value |-> v]}
  /\ attempt' = {}
  /\ written' \in {written, [written EXCEPT ![r] = v]}
  /\ \/ open' = open
     \/ v = wanted[r] /\ open' = open \ {r}
  /\ UNCHANGED wanted

GiveUp(r) ==
  /\ attempt = {}
  /\ open' = open \ {r}
  /\ UNCHANGED <<wanted, attempt, written>>

Next ==
  \/ \E r \in Registers, v \in Values : Set(r, v) \/ End(r, v)
  \/ \E r \in Registers : SetAgain(r) \/ Begin(r) \/ GiveUp(r)

Spec == Init /\ [][Next]_vars
=============================================================================
