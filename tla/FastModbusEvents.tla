-------------------------- MODULE FastModbusEvents --------------------------
(***************************************************************************)
(* How the events of devices are read (serial_client_events_reader.cpp,    *)
(* modbus_ext_common.cpp).  A request carries the least address that may   *)
(* answer and the confirmation of the packet that was received last; one   *)
(* device answers with a packet of events, or none has any.  Requests may  *)
(* be heard by some of the devices only, and answers may be lost.          *)
(*                                                                         *)
(* Devices are external: all the service relies on is that a device drops  *)
(* the events of a packet when it hears its confirmation, and that the     *)
(* flag of a packet with new events differs from the flag of the packet    *)
(* before it.  A device stands for its registers with events.              *)
(***************************************************************************)
EXTENDS Integers

CONSTANTS
  Devices,        \* addresses of the devices with events
  MaxEvents,      \* bound: number of events of a device
  ErrorEvents,    \* the events, as <<device, number>>, whose value is its error_value
  MaxReadErrors   \* MAX_EVENT_READ_ERRORS

ASSUME EventsAssumption ==
  /\ Devices \subseteq Nat \ {0}
  /\ MaxEvents \in Nat
  /\ ErrorEvents \subseteq Devices \X (1..MaxEvents)
  /\ MaxReadErrors \in Nat

VARIABLES
  occurred,      \* device -> number of its events so far
  dropped,       \* device -> its last event that was confirmed,
  sent, flag,    \* the last event in, and the flag of, its last packet
  last,          \* LastAccessedSlaveId
  conf,          \* EventState
  readErrors,    \* ReadErrors
  clearErrors,   \* ClearErrorsOnSuccessfulRead
  reading,       \* the thread is in the loop of ReadEvents
  enabled,       \* DevicesWithEnabledEvents
  excluded,      \* devices whose registers are excluded from polling
  error,         \* devices whose registers with events have a read error
  applied,       \* history: all the events of the device up to this one were applied
  own,           \* history: excluded devices with an error set beside the reading of events
  broken         \* history: devices whose last value is its error_value

deviceVars == <<occurred, dropped, sent, flag>>
readerVars == <<last, conf, readErrors, clearErrors>>
enabledVars == <<enabled, excluded>>
registerVars == <<error, applied, own, broken>>
eventsVars == <<deviceVars, readerVars, reading, enabledVars, registerVars>>

NoConfirmation == [id |-> 0, flag |-> 0]

EventsInit ==
  /\ occurred = [d \in Devices |-> 0]
  /\ dropped = [d \in Devices |-> 0]
  /\ sent = [d \in Devices |-> 0]
  /\ flag = [d \in Devices |-> 0]
  /\ last = 0
  /\ conf = NoConfirmation
  /\ readErrors = 0
  /\ clearErrors = FALSE
  /\ reading = FALSE
  /\ enabled = {}
  /\ excluded = {}
  /\ error = {}
  /\ applied = [d \in Devices |-> 0]
  /\ own = {}
  /\ broken = {}

-----------------------------------------------------------------------------
(* The devices.                                                            *)

Occur(d) ==
  /\ occurred[d] < MaxEvents
  /\ occurred' = [occurred EXCEPT ![d] = @ + 1]
  /\ UNCHANGED <<dropped, sent, flag, readerVars, reading, enabledVars, registerVars>>

\* The last event that is confirmed when the devices in heard hear the request.
Confirmed(heard, d) ==
  IF d \in heard /\ conf.id = d /\ conf.flag = flag[d] THEN sent[d] ELSE dropped[d]

\* The devices that have an answer to it.
Answering(heard) == {d \in heard : d >= last /\ Confirmed(heard, d) < occurred[d]}

Hear(heard) == dropped' = [d \in Devices |-> Confirmed(heard, d)]

\* A packet is sent again, as long or not, until it is confirmed.
SendEvents(heard, d, n) ==
  /\ d \in Answering(heard)
  /\ n \in Confirmed(heard, d) + 1..occurred[d]
  /\ Hear(heard)
  /\ sent' = [sent EXCEPT ![d] = n]
  /\ flag' = [flag EXCEPT ![d] = IF sent[d] = Confirmed(heard, d) THEN 1 - @ ELSE @]
  /\ UNCHANGED occurred

SendNoEvents(heard) ==
  /\ heard # {}
  /\ Answering(heard) = {}
  /\ Hear(heard)
  /\ UNCHANGED <<occurred, sent, flag>>

-----------------------------------------------------------------------------
(* TSerialClientEventsReader::ReadEvents.                                  *)

\* The loop is entered when events are enabled, and left when its time is over.
CanRead == reading \/ enabled # {}

EndReading ==
  /\ reading
  /\ reading' = FALSE
  /\ UNCHANGED <<deviceVars, readerVars, enabledVars, registerVars>>

\* Mutant: the confirmation is set before the answer is checked.
MutantConfirmsLost(d, received) == [id |-> d, flag |-> flag'[d]]

Confirmation(d, received) == IF received THEN [id |-> d, flag |-> flag'[d]] ELSE conf

TooManyErrors(n) == n > MaxReadErrors

\* Mutant: the errors of an outage are not remembered.
MutantForgetsOutage == clearErrors

ErrorsAreSet == TRUE

\* Registers that are excluded from polling are marked. (The one of a device with events
\* only that stays polled is marked too, and left out here.)
SetReadErrors == error' = error \cup excluded

\* ReadEventsFailed.
Failed ==
  /\ IF TooManyErrors(readErrors + 1)
     THEN /\ readErrors' = 0
          /\ clearErrors' = ErrorsAreSet
          /\ SetReadErrors
     ELSE /\ readErrors' = readErrors + 1
          /\ UNCHANGED <<clearErrors, error>>
  /\ reading' = TRUE
  /\ UNCHANGED <<last, applied, own, broken, enabledVars>>

\* ClearReadErrors; err and others are error and own after the events of the packet.
ClearReadErrors(err, others) ==
  /\ readErrors' = 0
  /\ clearErrors' = FALSE
  /\ error' = IF clearErrors THEN err \ excluded ELSE err
  /\ own' = IF clearErrors THEN others \ excluded ELSE others
  /\ UNCHANGED enabledVars

\* What event n of d does to the devices that are in error.
Shown(errors, d, n) == IF <<d, n>> \in ErrorEvents THEN errors \cup {d} ELSE errors \ {d}

\* TModbusExtEventsVisitor: the events of a packet are applied in order, and the last
\* one leaves the register with a value or with its error_value.
ReceiveEvents(heard, d, n) ==
  /\ CanRead
  /\ SendEvents(heard, d, n)
  /\ conf' = Confirmation(d, TRUE)
  /\ last' = d
  /\ applied' = [applied EXCEPT ![d] = IF dropped'[d] <= @ /\ @ < n THEN n ELSE @]
  /\ broken' = Shown(broken, d, n)
  /\ ClearReadErrors(Shown(error, d, n), own \ {d})
  /\ reading' = TRUE

\* The answer is lost or malformed.
LoseEvents(heard, d, n) ==
  /\ CanRead
  /\ SendEvents(heard, d, n)
  /\ conf' = Confirmation(d, FALSE)
  /\ Failed

\* Mutant: the next reading starts where this one has ended.
MutantKeepsAddress == last

FirstAddress == 0

ReceiveNoEvents(heard) ==
  /\ CanRead
  /\ SendNoEvents(heard)
  /\ last' = FirstAddress
  /\ conf' = NoConfirmation
  /\ ClearReadErrors(error, own)
  /\ reading' = FALSE
  /\ UNCHANGED <<applied, broken>>

LoseNoEvents(heard) ==
  /\ CanRead
  /\ SendNoEvents(heard)
  /\ Failed
  /\ UNCHANGED conf

\* Nobody has heard the request.
NoAnswer ==
  /\ CanRead
  /\ Failed
  /\ UNCHANGED <<deviceVars, conf>>

-----------------------------------------------------------------------------
(* The connection of a device.                                             *)

\* A failing poll, or a reboot event.
Disconnect(d) ==
  /\ d \in enabled
  /\ enabled' = enabled \ {d}
  /\ UNCHANGED <<deviceVars, readerVars, reading, excluded, registerVars>>

\* RescheduleDisconnectedDevices includes its registers in polling.
Reschedule(d) ==
  /\ ~ reading
  /\ d \in excluded \ enabled
  /\ excluded' = excluded \ {d}
  /\ own' = own \ {d}
  /\ UNCHANGED <<deviceVars, readerVars, reading, enabled, error, applied, broken>>

\* A poll enables the events of the device again and reads its registers.  They are
\* excluded from polling before they are read: with no answer, and until it comes, they
\* have an error and the reading of events knows nothing of it.
EnableEvents(d, answered) ==
  /\ ~ reading
  /\ d \notin enabled \cup excluded
  /\ enabled' = enabled \cup {d}
  /\ excluded' = excluded \cup {d}
  /\ IF answered
     THEN /\ error' = error \ {d}
          /\ own' = own \ {d}
          /\ broken' = broken \ {d}
     ELSE /\ error' = error \cup {d}
          /\ own' = own \cup {d}
          /\ UNCHANGED broken
  /\ UNCHANGED <<deviceVars, readerVars, reading, applied>>

\* While the port is closed the registers are marked, and clearErrors is not set.
ClosedPortCycle ==
  /\ ~ reading
  /\ SetReadErrors
  /\ own' = own \cup excluded
  /\ UNCHANGED <<deviceVars, readerVars, reading, enabledVars, applied, broken>>

-----------------------------------------------------------------------------
Received(heard) ==
  \/ \E d \in heard, n \in 1..MaxEvents : ReceiveEvents(heard, d, n)
  \/ ReceiveNoEvents(heard)

Lost(heard) ==
  \/ \E d \in heard, n \in 1..MaxEvents : LoseEvents(heard, d, n)
  \/ LoseNoEvents(heard)

Read == NoAnswer \/ \E heard \in SUBSET Devices : Received(heard) \/ Lost(heard)

Connection ==
  \/ ClosedPortCycle
  \/ \E d \in Devices :
       \/ Disconnect(d)
       \/ Reschedule(d)
       \/ \E answered \in BOOLEAN : EnableEvents(d, answered)

EventsNext == Read \/ EndReading \/ Connection \/ \E d \in Devices : Occur(d)

EventsSpec == EventsInit /\ [][EventsNext]_eventsVars

\* The thread goes on reading events while they are enabled.  Requests that all
\* devices hear are answered now and then, and so are those with a confirmation.
EventsFairSpec ==
  /\ EventsSpec
  /\ SF_eventsVars(Received(Devices))
  /\ SF_eventsVars(Received(Devices) /\ dropped' # dropped)

-----------------------------------------------------------------------------
EventsTypeOK ==
  /\ occurred \in [Devices -> 0..MaxEvents]
  /\ dropped \in [Devices -> 0..MaxEvents]
  /\ sent \in [Devices -> 0..MaxEvents]
  /\ flag \in [Devices -> {0, 1}]
  /\ last \in Devices \cup {0}
  /\ conf \in [id : Devices \cup {0}, flag : {0, 1}]
  /\ readErrors \in 0..MaxReadErrors
  /\ clearErrors \in BOOLEAN
  /\ reading \in BOOLEAN
  /\ enabled \subseteq Devices
  /\ excluded \subseteq Devices
  /\ error \subseteq Devices
  /\ applied \in [Devices -> 0..MaxEvents]
  /\ own \subseteq Devices
  /\ broken \subseteq Devices

Delivery == INSTANCE EventDelivery WITH occurred <- occurred, applied <- applied, dropped <- dropped

\* modbus_ext_common.cpp, ReadEvents: with requests and answers lost in any order, no
\* device drops an event that the service has not applied, and none is skipped.
NoEventLost == Delivery!Spec

\* serial_client_events_reader.cpp, ReadEventsFailed and ClearReadErrors: an error of a
\* register that is not polled is cleared by the next success in reading events, unless it
\* was set beside the reading of events (a closed port, a first read with no answer) or its
\* last event is its error_value: those stay until an event, an outage or a reconnection.
OutageEnds == (error \cap excluded) \ (own \cup broken) # {} => clearErrors

\* Every event is applied in the end, as long as some device has its events enabled.
EventsArrive ==
  []<>(enabled # {}) =>
    \A d \in Devices : applied[d] < occurred[d] ~> applied[d] = occurred[d]

\* README.md:515: a register whose value is its error_value has an error. The code does not keep
\* this when ErrorEvents is not empty: README.md beside this module tells the counterexample.
ErrorValueIsError == broken \subseteq error
=============================================================================
