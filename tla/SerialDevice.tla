---------------------------- MODULE SerialDevice ----------------------------
(***************************************************************************)
(* One configured device as the serial thread sees it (serial_device.cpp,  *)
(* serial_client_device_access_handler.cpp, serial_client_events_reader.cpp*)
(* and the device drivers): the connection state, the preparation of a     *)
(* session, the reading of a range of registers and what each of them does *)
(* to the registers.                                                       *)
(*                                                                         *)
(* The operators are pure: they take a *view* of the device and return     *)
(* the view, or the set of views, the code may leave behind.  The state    *)
(* machines that use them (RegisterPoller) store the view in variables.    *)
(***************************************************************************)
EXTENDS Integers, FiniteSets

CONSTANTS
  Devices, Registers,
  DeviceOf,           \* Register -> Device
  HighPriority,       \* registers with a read_period_ms
  Sporadic,           \* registers with sporadic mode ONLY_EVENTS
  SemiSporadic,       \* registers with sporadic mode EVENTS_AND_POLLING
  FwDependent,        \* registers that need a minimum firmware version
  Marked,             \* registers with an unsupported_value
  FastModbus,         \* modbus devices on a port that supports Fast Modbus
  WbDevices,          \* Wiren Board devices: firmware version is asked for
  SetupDevices,       \* devices with a non-empty setup section
  PartialSetup,       \* of these the ones with "partial" setup registers (some bits only)
  ReconnectDisabled,  \* device_timeout_ms or device_max_fail_cycles is -1
  MaxFailCycles       \* device_max_fail_cycles of the other devices

ASSUME DeviceAssumption ==
  /\ IsFiniteSet(Registers)
  /\ DeviceOf \in [Registers -> Devices]
  /\ HighPriority \subseteq Registers
  /\ Sporadic \subseteq Registers
  /\ SemiSporadic \subseteq Registers \ Sporadic
  /\ FwDependent \subseteq Registers
  /\ Marked \subseteq Registers
  /\ FastModbus \subseteq Devices
  /\ WbDevices \subseteq FastModbus
  /\ SetupDevices \subseteq Devices
  /\ PartialSetup \subseteq SetupDevices
  /\ ReconnectDisabled \subseteq Devices
  /\ MaxFailCycles \in Nat

ConnectionState == {"UNKNOWN", "CONNECTED", "DISCONNECTED"}
Availability == {"UNKNOWN", "AVAILABLE", "UNAVAILABLE"}

RegistersOf(d) == {r \in Registers : DeviceOf[r] = d}

\* SetSporadicOnly(false) is called for the first channel without events only.
SporadicOnly(d) == RegistersOf(d) \subseteq Sporadic

(***************************************************************************)
(* conn, rem      ConnectionState, RemainingFailCycles of the device       *)
(* lost           the device became DISCONNECTED: the callbacks have run   *)
(* excluded       registers with ExcludedFromPolling                       *)
(* unsupported    registers the firmware is too old for                    *)
(* avail          TRegisterAvailability of every register                  *)
(* defined        registers that hold a value                              *)
(* events         the device is in DevicesWithEnabledEvents                *)
(* opened         history: since the last disconnection Prepare with the   *)
(*                setup section and EnableEvents have both returned without*)
(*                an error.  It says nothing of what was enabled: an answer*)
(*                that refuses the events or no answer at all is no error  *)
(***************************************************************************)
View ==
  [conn : ConnectionState, rem : 0..MaxFailCycles, lost : BOOLEAN,
   excluded : SUBSET Registers, unsupported : SUBSET Registers,
   avail : [Registers -> Availability], defined : SUBSET Registers,
   events : BOOLEAN, opened : BOOLEAN]

-----------------------------------------------------------------------------
(* Connection state.                                                       *)

\* The callbacks run only when the state changes; the events reader's one
\* forgets that the device has events.
SetDisconnected(v) ==
  IF v.conn = "DISCONNECTED" THEN v
  ELSE [v EXCEPT !.conn = "DISCONNECTED", !.lost = TRUE,
                 !.events = FALSE, !.opened = FALSE]

TransferOk(d, v) ==
  IF d \in ReconnectDisabled THEN v
  ELSE [v EXCEPT !.conn = "CONNECTED", !.rem = MaxFailCycles]

\* n failed transfers in a row; timedOut: device_timeout_ms has passed since
\* the last successful one.
TransferFailed(d, v, n, timedOut) ==
  IF d \in ReconnectDisabled \/ n = 0 THEN v
  ELSE LET w == [v EXCEPT !.rem = IF v.rem > n THEN v.rem - n ELSE 0]
       IN IF w.rem = 0 /\ timedOut THEN SetDisconnected(w) ELSE w

FailedViews(d, v) == {TransferFailed(d, v, 1, t) : t \in BOOLEAN}

-----------------------------------------------------------------------------
(* Preparation of a session.                                               *)

\* A Wiren Board device that is not connected is asked for its firmware
\* version; when it answers, every register it supports is included in polling.
PrepareImplViews(d, v) ==
  IF d \notin WbDevices \/ v.conn = "CONNECTED" THEN {v}
  ELSE {v} \cup
       {[v EXCEPT !.unsupported = (v.unsupported \ RegistersOf(d)) \cup old,
                  !.excluded = (v.excluded \ RegistersOf(d)) \cup old]
        : old \in SUBSET (FwDependent \cap RegistersOf(d))}

\* What the setup section has left behind, and the failed transfers it has
\* counted, when it throws.  Before "partial" registers are written they are
\* read: an answer counts as a success, and one that does not come as a failure.
FailedSetups(d, v) ==
  IF d \in PartialSetup THEN {v, TransferOk(d, v)} \X {0, 1} ELSE {<<v, 0>>}

\* The results of Prepare: ok = FALSE when it throws, which is one more failure.
PrepareResults(d, v, withSetup) ==
  LET begun == PrepareImplViews(d, v)
      setup == withSetup /\ v.conn # "CONNECTED" /\ d \in SetupDevices
      failed(w) == IF setup THEN FailedSetups(d, w) ELSE {<<w, 0>>}
  IN {[ok |-> TRUE, view |-> IF setup THEN TransferOk(d, w) ELSE w] : w \in begun}
     \cup UNION {{[ok |-> FALSE, view |-> TransferFailed(d, s[1], s[2] + 1, t)] :
                    s \in failed(w), t \in BOOLEAN} : w \in begun}

\* What the answers to the "enable events" requests leave: on and off are the
\* registers reported as enabled and as not enabled.
EventsAnswered(v, on, off) ==
  [v EXCEPT !.excluded = (v.excluded \cup (on \cap Sporadic)) \ off,
            !.avail = [r \in Registers |-> IF r \in on THEN "AVAILABLE" ELSE v.avail[r]],
            !.events = on # {}]

\* EnableSporadicOnlyDevicePolling: one register of a device that has only
\* registers with events stays polled, to notice that the device is lost.
IncludeOne(d, v) ==
  LET out == RegistersOf(d) \cap v.excluded
  IN IF SporadicOnly(d) /\ out # {}
     THEN {[v EXCEPT !.excluded = v.excluded \ {r}] : r \in out}
     ELSE {v}

\* The registers the device is asked to send events for.
EventsAsked(d, v) == (Sporadic \cup SemiSporadic) \cap (RegistersOf(d) \ v.unsupported)

\* Some of the requests have been answered.
PartlyEnabledViews(d, v) ==
  UNION {{EventsAnswered(v, on, answered \ on) : on \in SUBSET answered}
         : answered \in SUBSET EventsAsked(d, v)}

\* All of them have been answered.
EnabledViews(d, v) ==
  UNION {IncludeOne(d, EventsAnswered(v, on, EventsAsked(d, v) \ on)) : on \in SUBSET EventsAsked(d, v)}

\* Mutant: an error of the requests does not disconnect the device.
MutantEventsErrorIgnored(d, v) ==
  IF d \notin FastModbus THEN {[ok |-> TRUE, view |-> v]}
  ELSE {[ok |-> ok, view |-> w] : ok \in BOOLEAN, w \in PartlyEnabledViews(d, v)}

\* A Modbus exception or a timeout ends the requests and is only logged: the call
\* returns (ok) with some of the events enabled, or none.  Any other error
\* disconnects the device.
EnableEventsResults(d, v) ==
  IF d \notin FastModbus THEN {[ok |-> TRUE, view |-> v]}
  ELSE IF EventsAsked(d, v) = {} THEN {[ok |-> TRUE, view |-> [v EXCEPT !.events = FALSE]]}
  ELSE {[ok |-> TRUE, view |-> w] : w \in PartlyEnabledViews(d, v) \cup EnabledViews(d, v)}
       \cup {[ok |-> FALSE, view |-> SetDisconnected(w)] : w \in PartlyEnabledViews(d, v)}

\* TSerialClientDeviceAccessHandler::PrepareToAccess; same: the device is the
\* last one that was accessed.
PrepareToAccessResults(d, v, same) ==
  LET wasDisconnected == v.conn # "CONNECTED"
      prepared == PrepareResults(d, v, TRUE)
      done(x) == [x EXCEPT !.view.opened = TRUE]
  IN IF ~wasDisconnected /\ same THEN {[ok |-> TRUE, view |-> v]}
     ELSE IF ~wasDisconnected THEN prepared
     ELSE {p \in prepared : ~p.ok}
          \cup UNION {{IF e.ok THEN done(e) ELSE e : e \in EnableEventsResults(d, p.view)}
                      : p \in {q \in prepared : q.ok}}

-----------------------------------------------------------------------------
(* Reading.                                                                *)

\* TRegister::SetAvailable(UNAVAILABLE) also excludes the register.
MarkUnavailable(v, regs) ==
  [v EXCEPT !.avail = [r \in Registers |-> IF r \in regs THEN "UNAVAILABLE" ELSE v.avail[r]],
            !.excluded = v.excluded \cup regs]

\* TRegister::SetValue for some registers; a value that is the configured
\* unsupported_value makes its register unavailable.
SetValuesViews(v, regs) ==
  {MarkUnavailable([v EXCEPT !.defined = v.defined \cup regs,
                             !.avail = [r \in Registers |-> IF r \in regs THEN "AVAILABLE"
                                                            ELSE v.avail[r]]],
                   unsup) : unsup \in SUBSET (regs \cap Marked)}

\* A driver that reads register by register (serial_device.cpp) and has one
\* register in the range; a register already known unavailable is not read.
GenericReadViews(d, v, regs) ==
  LET toRead == {r \in regs : v.avail[r] # "UNAVAILABLE"}
      ok == TransferOk(d, v)
  IN IF toRead = {} THEN {v}
     ELSE SetValuesViews(ok, toRead)
          \cup {ok}                            \* internal error of the device
          \cup {MarkUnavailable(ok, toRead)}   \* permanent error
          \cup FailedViews(d, v)

\* A Modbus range is one transaction; a permanent error counts as failed.
ModbusReadViews(d, v, regs) ==
  SetValuesViews(TransferOk(d, v), regs)
  \cup FailedViews(d, MarkUnavailable(v, regs))
  \cup FailedViews(d, v)

ReadViews(d, v, regs) ==
  IF d \in FastModbus THEN ModbusReadViews(d, v, regs) ELSE GenericReadViews(d, v, regs)

\* Mutant: a register without a value leaves the queue whether excluded or not.
MutantUndefinedDropped(v, regs) ==
  {r \in regs : r \notin v.excluded /\ r \in v.defined}

\* TPollableDevice::ScheduleNextPoll: the registers of a range that was read
\* that go back to the queue.
KeptRegisters(v, regs) ==
  {r \in regs : r \notin v.excluded \/ r \notin v.defined}
=============================================================================
