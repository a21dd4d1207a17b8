--------------------------- MODULE EventDelivery ---------------------------
(***************************************************************************)
(* What Fast Modbus promises of the events of a device: none is lost.  A   *)
(* device keeps an event until the service has applied it; an event may be *)
(* applied again, but never before all the earlier ones.                   *)
(*                                                                         *)
(* The events of a device are numbered from 1.                             *)
(***************************************************************************)
EXTENDS Naturals

CONSTANTS
  Devices,    \* devices with events
  MaxEvents   \* bound: number of events of a device

VARIABLES
  occurred,   \* device -> number of its events so far
  applied,    \* device -> the service has applied all the events up to this one
  dropped     \* device -> the device has dropped all the events up to this one

vars == <<occurred, applied, dropped>>

Init ==
  /\ occurred = [d \in Devices |-> 0]
  /\ applied = [d \in Devices |-> 0]
  /\ dropped = [d \in Devices |-> 0]

Occur(d) ==
  /\ occurred[d] < MaxEvents
  /\ occurred' = [occurred EXCEPT ![d] = @ + 1]
  /\ UNCHANGED <<applied, dropped>>

\* Devices drop what was applied, and the service applies what they still hold.
Exchange ==
  /\ applied' \in [Devices -> 0..MaxEvents]
  /\ dropped' \in [Devices -> 0..MaxEvents]
  /\ \A d \in Devices : /\ dropped[d] <= dropped'[d] /\ dropped'[d] <= applied[d]
                        /\ applied[d] <= applied'[d] /\ applied'[d] <= occurred[d]
  /\ UNCHANGED occurred

Next == Exchange \/ \E d \in Devices : Occur(d)

Spec == Init /\ [][Next]_vars
=============================================================================
