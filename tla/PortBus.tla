------------------------------ MODULE PortBus ------------------------------
(***************************************************************************)
(* One port and the devices on its bus: a cycle of TSerialClient accesses a *)
(* device through TSerialClientDeviceAccessHandler, its driver sends a       *)
(* request and takes an answer from the line, TPortOpenCloseLogic closes a   *)
(* port on which nothing is heard. Answers come late and out of their turn,   *)
(* are mangled or lost, meters lose their sessions and change the settings    *)
(* of the port. Which device and which register come next is left open        *)
(* (PollSchedule), and so are the values (RegisterPoller, ModbusRegisters).   *)
(***************************************************************************)
EXTENDS DeviceDrivers, Sequences, FiniteSets

CONSTANTS
  Devices, Registers,
  Asked(_),           \* bound: registers and commands that a driver is asked for
  Buses,              \* the drivers of the devices, for each bus that is looked at
  MaxUnread,          \* bound: answers under way or on the line
  MaxFailCycles,      \* connection_max_fail_cycles
  Ids,                \* bound: number of transaction numbers (2^16 in the code)
  None

ASSUME BusesAssumption == Buses \subseteq [Devices -> Drivers]
\* "-tcp" is added to the protocol of every device of a Modbus TCP port, others are refused there.
ASSUME TcpAssumption ==
  \A bus \in Buses, d, e \in Devices : bus[d].ids = "each" => bus[e].ids = "each"
ASSUME AskedAssumption ==
  \A bus \in Buses, d \in Devices : Asked(bus[d]) \subseteq Registers \X Commands
ASSUME CountsAssumption == MaxUnread \in Nat /\ MaxFailCycles \in Nat /\ Ids \in Nat \ {0, 1}

VARIABLES
  driver,             \* of every device
  open, remaining,    \* the port, RemainingFailCycles
  settings,           \* "port": those of the configuration, "meter": 7E1
  last,               \* LastAccessedDevice
  connected,          \* GetConnectionState() = CONNECTED
  opened,             \* ConnectedSlaves of TEMDevice
  session,            \* the device has an open session
  coming, line,       \* answers under way, answers received and not read
  request, pc,        \* what the thread is doing
  ids,                \* TransactionIds, RequestID
  clean,              \* the bus was silent at the access, and the device has played its part since
  missed              \* answers to requests it heard that a device has missed in a row, since anything
                      \* went wrong on the bus
vars == <<driver, open, remaining, settings, last, connected, opened, session, coming, line,
          request, pc, ids, clean, missed>>
observed == <<clean, missed>>

Requests == [device : Devices, register : Registers, command : Commands, id : 0 .. Ids - 1]
Answers ==
  [device : Devices, register : Registers, command : Commands, id : 0 .. Ids - 1,
   kind : {"value", "closed"}, intact : BOOLEAN]

ASSUME NoneAssumption == None \notin Devices \union Requests

Settings == {"port", "meter"}
Steps == {"idle", "connect", "send", "wait"}

Init ==
  /\ driver \in Buses
  /\ open = FALSE /\ remaining = 0 /\ settings = "port"
  /\ last = None
  /\ connected = [d \in Devices |-> FALSE]
  /\ opened = [d \in Devices |-> FALSE]
  /\ session = [d \in Devices |-> FALSE]
  /\ coming = <<>> /\ line = <<>>
  /\ request = None /\ pc = "idle"
  /\ ids = [d \in Devices |-> 0]
  /\ clean = FALSE /\ missed = [d \in Devices |-> 0]

-----------------------------------------------------------------------------
(* The port. *)

\* OpenIfAllowed, and Open itself: the settings applied last stay, noise is skipped.
OpenPort ==
  /\ pc = "idle" /\ ~open
  /\ open' = TRUE /\ remaining' = MaxFailCycles
  /\ line' = <<>>
  /\ UNCHANGED <<driver, settings, last, connected, opened, session, coming, request, pc, ids, observed>>

LessOne(n) == IF n > 0 THEN n - 1 ELSE 0

\* CloseIfNeeded at the end of a cycle that polled a device; whether the time is over is open.
\* What is under way comes late, or is lost with a connection that is closed.
CloseIfNeeded(failed) ==
  LET left == LessOne(IF failed THEN remaining ELSE MaxFailCycles)
  IN /\ remaining' = left
     /\ \/ UNCHANGED <<open, coming>>
        \/ /\ failed /\ left = 0
           /\ open' = FALSE
           /\ coming' \in {coming, <<>>}

\* The access is over. After a write of a task the port is not looked at.
Finish(command, failed) ==
  /\ request' = None /\ pc' = "idle"
  /\ IF command = "write"
       THEN UNCHANGED <<open, remaining, coming>>
       ELSE CloseIfNeeded(failed)

\* SetTransferResult(false): the device is disconnected when its cycles and its time are over. A
\* device that was never connected is not a failed one for the port.
TransferFailed(d, command) ==
  \E state \in {connected[d], FALSE} :
    /\ connected' = [connected EXCEPT ![d] = state]
    /\ \E failed \in {FALSE, ~state} : Finish(command, failed)

-----------------------------------------------------------------------------
(* Access to a device. *)

Meter(d) == driver[d].settings = "meter"
Has(d, moment) == moment \in driver[d].discards

\* LastAccessedDevice->EndSession for another device, or for none.
Ended(d) == last # None /\ last # d
SessionsLeft(d) ==
  IF Ended(d) /\ driver[last].session = "prepare" THEN [session EXCEPT ![last] = FALSE] ELSE session
SettingsLeft(d) == IF Ended(d) /\ Meter(last) THEN "port" ELSE settings
LineLeft(d) == IF Ended(d) /\ Meter(last) THEN <<>> ELSE line

\* Mutant: a device that is connected is not prepared again after another one was accessed.
MutantOnlyDisconnected(d) == ~connected[d]

MustPrepare(d) == last # d \/ ~connected[d]

\* Prepare of the driver: applying settings flushes the line, SkipNoise empties it.
SettingsPrepared(d) == IF MustPrepare(d) /\ Meter(d) THEN "meter" ELSE SettingsLeft(d)
LinePrepared(d) ==
  IF MustPrepare(d) /\ (Meter(d) \/ Has(d, "prepare")) THEN <<>> ELSE LineLeft(d)
OpensSession(d) == MustPrepare(d) /\ driver[d].session = "prepare"

\* A request for which the device is prepared. EnsureSlaveConnected comes before it.
Access(d, register, command) ==
  /\ pc = "idle" /\ open
  /\ command = "write" => driver[d].writes # "no"
  /\ settings' = SettingsPrepared(d)
  /\ line' = LinePrepared(d)
  /\ session' = IF OpensSession(d) THEN [SessionsLeft(d) EXCEPT ![d] = TRUE] ELSE SessionsLeft(d)
  /\ connected' = IF OpensSession(d) THEN [connected EXCEPT ![d] = TRUE] ELSE connected
  /\ last' = d
  /\ request' = [device |-> d, register |-> register, command |-> command, id |-> ids[d]]
  /\ pc' = IF driver[d].session \in {"talk", "blind"} /\ ~opened[d] THEN "connect" ELSE "send"
  /\ clean' = (coming = <<>>)
  /\ UNCHANGED <<driver, open, remaining, opened, coming, ids, missed>>

\* Prepare has thrown: PrepareToAccess leaves the settings of the meter and forgets who was last.
PrepareFails(d) ==
  /\ pc = "idle" /\ open
  /\ OpensSession(d)
  /\ settings' = SettingsPrepared(d)
  /\ line' = LinePrepared(d)
  /\ session' = [SessionsLeft(d) EXCEPT ![d] = FALSE]
  /\ last' = IF Ended(d) THEN None ELSE last
  /\ TransferFailed(d, "read")
  /\ UNCHANGED <<driver, opened, ids, observed>>

\* TransactionIds are those of the port, RequestID is that of the device.
NextIds(d) ==
  IF driver[d].ids = "each"
    THEN [x \in Devices |-> IF driver[x].ids = "each" THEN (ids[x] + 1) % Ids ELSE ids[x]]
    ELSE [ids EXCEPT ![d] = (@ + 1) % Ids]

Fail ==
  /\ TransferFailed(request.device, request.command)
  /\ UNCHANGED <<driver, settings, last, session, ids>>

\* The device is there with the settings of the port.
Audible(d) == settings = driver[d].settings

\* The exchange has ended, with the answer to the request or without. Counting begins again after
\* every disturbance; a request with settings that are not those of the device counts for nothing.
Observe(answered, there) ==
  /\ clean' = FALSE
  /\ missed' =
       IF ~there THEN [d \in Devices |-> 0]
         ELSE IF ~Audible(request.device) THEN missed
         ELSE [missed EXCEPT ![request.device] =
                 IF answered \/ ~Resynchronizes(driver[request.device]) THEN 0
                   ELSE IF @ < 2 THEN @ + 1 ELSE @]

-----------------------------------------------------------------------------
(* An exchange with the device. *)

\* EnsureSlaveConnected: SkipNoise and ConnectionSetup.
Connect ==
  /\ pc = "connect" /\ Audible(request.device)
  /\ line' = <<>>
  /\ opened' = [opened EXCEPT ![request.device] = TRUE]
  /\ session' = [session EXCEPT ![request.device] = TRUE]
  /\ pc' = "send"
  /\ UNCHANGED <<driver, open, remaining, settings, last, connected, coming, request, ids, observed>>

ConnectFails ==
  /\ pc = "connect"
  /\ line' = <<>>
  /\ opened' = [opened EXCEPT ![request.device] = FALSE]
  /\ Fail /\ Observe(FALSE, ~Audible(request.device))

InSession(d) == session[d] \/ driver[d].session = "none"

AnswerOf(d, sent) ==
  [device |-> d, register |-> sent.register, command |-> sent.command, id |-> sent.id,
   kind |-> IF InSession(d) THEN "value" ELSE "closed",
   intact |-> TRUE]

\* A device answers a request it hears; a meter under IEC 62056-21 or DLMS only in a session.
Hears(d) == Audible(d) /\ (driver[d].session = "prepare" => session[d])

Numbered == driver[request.device].ids = "each"
Sent == [request EXCEPT !.id = IF Numbered THEN NextIds(request.device)[request.device] ELSE @]

\* No answer is so late that its number comes round again.
NotOutlived(answer) == ~Numbered \/ answer.id \notin {Sent.id, (Sent.id + 1) % Ids}
NoneOutlived == \A i \in DOMAIN coming : NotOutlived(coming[i])

\* Mutant: no driver clears the line before a request.
MutantNoSkipNoise == line

LineSent == IF Has(request.device, "request") THEN <<>> ELSE line

Send(answers) ==
  /\ pc = "send"
  /\ line' = LineSent
  /\ request' = Sent
  /\ ids' = IF Numbered THEN NextIds(request.device) ELSE ids
  /\ NoneOutlived
  /\ coming' = coming \o answers
  /\ answers # <<>> => Len(coming') + Len(line') <= MaxUnread
  /\ UNCHANGED <<driver, open, remaining, settings, last, connected, opened, session, missed>>

\* WriteRegisterImpl of A-OK returns without reading an answer, and SetTransferResult(true) follows.
Silent == request.command = "write" /\ driver[request.device].writes = "silent"

SendHeard ==
  /\ pc = "send" /\ Hears(request.device) /\ ~Silent
  /\ Send(<<AnswerOf(request.device, Sent)>>)
  /\ pc' = "wait" /\ UNCHANGED clean

\* The answer is mangled on its way.
SendMangled ==
  /\ pc = "send" /\ Hears(request.device) /\ ~Silent
  /\ Send(<<[AnswerOf(request.device, Sent) EXCEPT !.intact = FALSE]>>)
  /\ pc' = "wait" /\ clean' = FALSE

\* The request or the answer is lost on the line.
SendLost ==
  /\ pc = "send" /\ Hears(request.device) /\ ~Silent
  /\ Send(<<>>)
  /\ pc' = "wait" /\ clean' = FALSE

\* A request with settings that are not those of the device, or out of its session: nothing is
\* wrong with the line, and there is no answer.
SendUnheard ==
  /\ pc = "send" /\ ~Hears(request.device) /\ ~Silent
  /\ Send(<<>>)
  /\ pc' = "wait" /\ UNCHANGED clean

SendSilent ==
  /\ pc = "send" /\ Silent
  /\ line' = LineSent
  /\ Finish(request.command, FALSE)
  /\ connected' = [connected EXCEPT ![request.device] = TRUE]
  /\ clean' = FALSE
  /\ UNCHANGED <<driver, settings, last, opened, session, ids, missed>>

\* Bytes reach the port: unreadable with other settings, lost when it is closed.
Received(answer) == [answer EXCEPT !.intact = @ /\ Audible(answer.device)]

Arrive ==
  /\ coming # <<>>
  /\ line' = IF open THEN Append(line, Received(Head(coming))) ELSE line
  /\ coming' = Tail(coming)
  /\ UNCHANGED <<driver, open, remaining, settings, last, connected, opened, session, request, pc,
                 ids, observed>>

\* What ReadFrame hands to the driver, and what it leaves.
\* The frames of another protocol are no frames.
Taken ==
  IF \/ driver[request.device].takes = "all" /\ Len(line) > 1
     \/ driver[Head(line).device] # driver[request.device]
    THEN [Head(line) EXCEPT !.intact = FALSE]
    ELSE Head(line)
Left == IF driver[request.device].takes = "frame" THEN Tail(line) ELSE <<>>

\* The transaction numbers of Modbus TCP: frames with another one are passed over.
Skipped ==
  Numbered /\ Taken.intact /\ Taken.id # request.id

Waiting == pc = "wait" /\ line # <<>>

Skip ==
  /\ Waiting /\ Skipped
  /\ line' = Left
  /\ UNCHANGED <<driver, open, remaining, settings, last, connected, opened, session, coming,
                 request, pc, ids, observed>>

Closed == Taken.intact /\ Taken.kind = "closed" /\ Taken.device = request.device
Accepted ==
  Taken.kind = "value" /\ ~Skipped /\ Matches(driver[request.device], request, Taken)
True(answer) ==
  /\ answer.device = request.device
  /\ answer.register = request.register
  /\ answer.command = request.command

\* SetTransferResult(true).
Accept ==
  /\ Waiting /\ Accepted
  /\ line' = Left
  /\ Finish(request.command, FALSE)
  /\ connected' = [connected EXCEPT ![request.device] = TRUE]
  /\ ids' = IF driver[request.device].ids = "answered" THEN NextIds(request.device) ELSE ids
  /\ Observe(True(Taken), clean)
  /\ UNCHANGED <<driver, settings, last, opened, session>>

\* NO_OPEN_SESSION: EnsureSlaveConnected(port, true), and the request is sent again.
Reconnect ==
  /\ Waiting /\ Closed /\ driver[request.device].session = "talk"
  /\ line' = Left
  /\ opened' = [opened EXCEPT ![request.device] = FALSE]
  /\ pc' = "connect"
  /\ UNCHANGED <<driver, open, remaining, settings, last, connected, session, coming, request, ids,
                 observed>>

\* What is wrong with the answer makes the driver clear the line, or not.
Wrong ==
  IF ~Taken.intact \/ Closed THEN {"malformed"}
    ELSE IF Taken.device # request.device THEN {"device"}
    ELSE {"command", "register", "id"}

Refuse ==
  /\ Waiting /\ ~Skipped
  /\ ~Accepted /\ ~(Closed /\ driver[request.device].session = "talk")
  /\ line' = IF Wrong \intersect driver[request.device].discards # {} THEN <<>> ELSE Left
  /\ UNCHANGED opened
  /\ Fail /\ Observe(FALSE, clean)

\* TResponseTimeoutException, whether the answer is lost or only late.
TimedOut ==
  /\ pc = "wait" /\ line = <<>>
  /\ UNCHANGED <<line, opened>>
  /\ Fail /\ Observe(FALSE, clean /\ coming = <<>>)

-----------------------------------------------------------------------------
(* Others. *)

\* A task of an RPC request with settings of its own: PrepareToAccess(nullptr), then the guard.
RunTask ==
  /\ pc = "idle"
  /\ open' = TRUE
  /\ session' = SessionsLeft(None) /\ last' = None
  /\ settings' = "port" /\ line' = <<>>
  /\ UNCHANGED <<driver, remaining, connected, opened, coming, request, pc, ids, observed>>

\* The time of a device is over while the port is closed.
ClosedPortCycle(d) ==
  /\ pc = "idle" /\ ~open /\ connected[d]
  /\ connected' = [connected EXCEPT ![d] = FALSE]
  /\ UNCHANGED <<driver, open, remaining, settings, last, opened, session, coming, line, request, pc,
                 ids, observed>>

\* A device is switched off and on, or closes its session by itself, in a pause of the bus.
Restart(d) ==
  /\ pc = "idle" /\ session[d]
  /\ session' = [session EXCEPT ![d] = FALSE]
  /\ UNCHANGED <<driver, open, remaining, settings, last, connected, opened, coming, line, request,
                 pc, ids, observed>>

Poll(d) == \E pair \in Asked(driver[d]) : Access(d, pair[1], pair[2])

Next ==
  \/ \E d \in Devices : Poll(d) \/ PrepareFails(d)
  \/ OpenPort
  \/ Connect \/ ConnectFails
  \/ SendHeard \/ SendMangled \/ SendLost \/ SendUnheard \/ SendSilent
  \/ Skip \/ Accept \/ Reconnect \/ Refuse \/ TimedOut
  \/ Arrive
  \/ RunTask
  \/ \E d \in Devices : Restart(d) \/ ClosedPortCycle(d)

Spec == Init /\ [][Next]_vars

-----------------------------------------------------------------------------
(* Properties. *)

TypeOK ==
  /\ driver \in Buses
  /\ open \in BOOLEAN /\ remaining \in 0 .. MaxFailCycles /\ settings \in Settings
  /\ last \in Devices \union {None}
  /\ connected \in [Devices -> BOOLEAN]
  /\ opened \in [Devices -> BOOLEAN]
  /\ session \in [Devices -> BOOLEAN]
  /\ coming \in Seq(Answers) /\ line \in Seq(Answers)
  /\ Len(coming) + Len(line) <= MaxUnread
  /\ request \in Requests \union {None} /\ pc \in Steps
  /\ pc = "idle" <=> request = None
  /\ ids \in [Devices -> 0 .. Ids - 1]
  /\ clean \in BOOLEAN /\ missed \in [Devices -> 0 .. 2]

\* Where answers tell which request they belong to, none is ever taken for that to another one,
\* however late it comes, whatever device was asked in between and however often the port and
\* the session were opened again.
NotMixedUp ==
  Waiting /\ Accepted /\ Names(driver[request.device]) => True(Taken)

\* A meter with settings of its own is never asked with those of the port: EndSession and the
\* guards of RPC tasks take its settings away, Prepare brings them back before the next request.
MeterSettings ==
  pc \in {"connect", "send"} /\ Meter(request.device) => settings = "meter"

\* A driver without sessions that throws away what is late, or numbers its requests, misses at most
\* one answer in a row of a device that plays its part and hears its requests: no late or mangled
\* answer, and no session or answer that another driver leaves behind, puts it out of step for good.
\* Settings that another driver leaves behind do: while they stay, the device hears nothing, and the
\* requests it cannot hear neither count here nor end the count (SettingsRestored, below).
CatchesUp ==
  \A d \in Devices : missed[d] <= 1

\* "Ends communication session with the device. Called before communicating with another device"
\* (serial_device.h): a device without settings of its own is asked with those of the port. Not so
\* after PrepareFails, which applies the settings of a meter and forgets it: no request to such a
\* device is heard from then on until the meter is prepared and ended. No run states this.
SettingsRestored ==
  pc \in {"connect", "send"} /\ ~Meter(request.device) => settings = "port"
=============================================================================
