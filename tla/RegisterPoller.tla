--------------------------- MODULE RegisterPoller ---------------------------
(***************************************************************************)
(* The poll loop of one port (serial_client.cpp,                           *)
(* serial_client_register_poller.cpp, pollable_device.cpp) with the tasks  *)
(* that share the bus with it and the RPC thread that suspends and resumes *)
(* the poll of a device.                                                   *)
(*                                                                         *)
(* The serial thread runs TSerialClient::Cycle for ever: it runs the       *)
(* queued tasks (WaitForPollAndFlush), then reads events or polls.  A poll *)
(* takes TSerialClientRegisterPoller::Mutex several times; between two of  *)
(* these sections SuspendPoll and ResumePoll of the RPC thread may run.    *)
(* Tasks do not hold that mutex.  Each action below is one section.        *)
(*                                                                         *)
(* Time is abstracted: a deadline, a timeout or a rate limit may or may    *)
(* not have been reached (PollSchedule is about the times).                *)
(***************************************************************************)
EXTENDS SerialDevice

CONSTANTS
  RpcDevices,     \* devices that device/Load, Set and the like access
  SetPollDevices, \* devices that device/SetPoll suspends and resumes
  None            \* no device

ASSUME PollerAssumption ==
  /\ RpcDevices \subseteq Devices
  /\ SetPollDevices \subseteq Devices
  /\ None \notin Devices

VARIABLES
  conn, rem,      \* device -> ConnectionState, RemainingFailCycles
  excluded, unsupported, avail, defined, \* state of the registers (View)
  events,         \* DevicesWithEnabledEvents
  queued,         \* registers in the queue of their TPollableDevice
  entries,        \* pollable -> entries in Scheduler
  waiting,        \* DisconnectedDevicesWaitingForReschedule
  suspended,      \* DevicesWithSpendedPoll: "no", "armed" or "expired"
  pc,             \* where the serial thread is
  target,         \* the register a task writes, the device of an RPC task
  last,           \* LastAccessedDevice
  expired,        \* devices RescheduleDevicesWithSpendedPoll has collected
  opened,         \* history: devices prepared since their last disconnection (View)
  overlapped      \* history: devices suspended while in waiting

deviceVars == <<conn, rem, excluded, unsupported, avail, defined, events, opened>>
vars == <<deviceVars, queued, entries, waiting, suspended, pc, target, last, expired, overlapped>>

\* A TPollableDevice exists for every device and priority with registers.
Priority == {"High", "Low"}
RegistersAt(p) ==
  {r \in RegistersOf(p[1]) : r \in HighPriority <=> p[2] = "High"}
Pollables == {p \in Devices \X Priority : RegistersAt(p) # {}}
QueueOf(p) == RegistersAt(p) \cap queued
Suspended(d) == suspended[d] # "no"

ThreadState == {"tasks", "write", "session", "collect", "resume", "closed", "dead"}

\* Only a write task has a register, only an RPC task has a device.
TargetType == CASE pc = "write" -> Registers [] pc = "session" -> Devices [] OTHER -> {None}

TypeOK ==
  /\ conn \in [Devices -> ConnectionState]
  /\ rem \in [Devices -> 0..MaxFailCycles]
  /\ excluded \subseteq Registers
  /\ unsupported \subseteq Registers
  /\ avail \in [Registers -> Availability]
  /\ defined \subseteq Registers
  /\ events \subseteq Devices
  /\ queued \subseteq Registers
  /\ entries \in [Pollables -> Nat]
  /\ waiting \subseteq Devices
  /\ suspended \in [Devices -> {"no", "armed", "expired"}]
  /\ pc \in ThreadState
  /\ target \in TargetType
  /\ last \in Devices \cup {None}
  /\ expired \subseteq Devices
  /\ opened \subseteq Devices
  /\ overlapped \subseteq Devices

Init ==
  /\ conn = [d \in Devices |-> "UNKNOWN"]
  /\ rem = [d \in Devices |-> 0]
  /\ excluded = {}
  /\ unsupported = {}
  /\ avail = [r \in Registers |-> "UNKNOWN"]
  /\ defined = {}
  /\ events = {}
  /\ queued = Registers
  /\ entries = [p \in Pollables |-> 1]
  /\ waiting = {}
  /\ suspended = [d \in Devices |-> "no"]
  /\ pc = "tasks"
  /\ target = None
  /\ last = None
  /\ expired = {}
  /\ opened = {}
  /\ overlapped = {}

-----------------------------------------------------------------------------
(* The view of a device, and storing the one an operation left.            *)

ViewOf(d) ==
  [conn |-> conn[d], rem |-> rem[d], lost |-> FALSE, excluded |-> excluded,
   unsupported |-> unsupported, avail |-> avail, defined |-> defined,
   events |-> d \in events, opened |-> d \in opened]

With(S, x, in) == IF in THEN S \cup {x} ELSE S \ {x}

\* Mutant: a suspended device that is disconnected again is rescheduled.
MutantStoreSuspended(d, v) ==
  /\ conn' = [conn EXCEPT ![d] = v.conn]
  /\ rem' = [rem EXCEPT ![d] = v.rem]
  /\ excluded' = v.excluded
  /\ unsupported' = v.unsupported
  /\ avail' = v.avail
  /\ defined' = v.defined
  /\ events' = With(events, d, v.events)
  /\ opened' = With(opened, d, v.opened)
  /\ waiting' = IF v.lost THEN waiting \cup {d} ELSE waiting

\* OnDeviceConnectionStateChanged of the poller is part of it: it has queued the
\* device when the operation disconnected it and its poll is not suspended.
Store(d, v) ==
  /\ conn' = [conn EXCEPT ![d] = v.conn]
  /\ rem' = [rem EXCEPT ![d] = v.rem]
  /\ excluded' = v.excluded
  /\ unsupported' = v.unsupported
  /\ avail' = v.avail
  /\ defined' = v.defined
  /\ events' = With(events, d, v.events)
  /\ opened' = With(opened, d, v.opened)
  /\ waiting' = IF v.lost /\ ~Suspended(d) THEN waiting \cup {d} ELSE waiting

-----------------------------------------------------------------------------
(* Tasks: WaitForPollAndFlush runs them before each poll.                  *)

\* PrepareToAccess leaves the old device when it fails on another one.
Access(d, result) ==
  /\ Store(d, result.view)
  /\ last' = IF result.ok \/ last = d THEN d ELSE None

\* A write task prepares the session of a device that is not disconnected when
\* the firmware supports the register.
BeginWrite(r) ==
  LET d == DeviceOf[r]
  IN /\ pc = "tasks"
     /\ r \notin unsupported
     /\ conn[d] # "DISCONNECTED"
     /\ \E result \in PrepareToAccessResults(d, ViewOf(d), last = d) :
          /\ Access(d, result)
          /\ pc' = IF result.ok THEN "write" ELSE "tasks"
          /\ target' = IF result.ok THEN r ELSE None
     /\ UNCHANGED <<queued, entries, suspended, expired, overlapped>>

\* TSerialDevice::WriteRegister, and the value the handler stores on success.
WriteViews(r, v) ==
  SetValuesViews(TransferOk(DeviceOf[r], v), {r})
  \cup {TransferOk(DeviceOf[r], v)} \cup FailedViews(DeviceOf[r], v)

EndWrite ==
  /\ pc = "write"
  /\ \E v \in WriteViews(target, ViewOf(DeviceOf[target])) : Store(DeviceOf[target], v)
  /\ pc' = "tasks"
  /\ target' = None
  /\ UNCHANGED <<queued, entries, suspended, last, expired, overlapped>>

\* An RPC task closes the session of the last device and prepares its own one
\* without the setup section.
BeginSession(d) ==
  /\ pc = "tasks"
  /\ d \in RpcDevices
  /\ \E result \in PrepareResults(d, ViewOf(d), FALSE) :
       /\ Store(d, result.view)
       /\ pc' = IF result.ok THEN "session" ELSE "tasks"
       /\ target' = IF result.ok THEN d ELSE None
  /\ last' = None
  /\ UNCHANGED <<queued, entries, suspended, expired, overlapped>>

\* The registers of the task are its own objects: only the device changes.
SessionTransfer ==
  /\ pc = "session"
  /\ \E v \in {TransferOk(target, ViewOf(target))} \cup FailedViews(target, ViewOf(target)) :
       Store(target, v)
  /\ pc' = "tasks"
  /\ target' = None
  /\ UNCHANGED <<queued, entries, suspended, last, expired, overlapped>>

-----------------------------------------------------------------------------
(* The events branch of TSerialClientRegisterAndEventsReader::OpenPortCycle.*)

EventRegisters == {r \in Sporadic \cup SemiSporadic : DeviceOf[r] \in FastModbus}

\* An event with the new value of a register.
RegisterEvent(r) ==
  /\ pc = "tasks"
  /\ events # {}
  /\ \E v \in SetValuesViews(ViewOf(DeviceOf[r]), {r}) : Store(DeviceOf[r], v)
  /\ last' = None
  /\ UNCHANGED <<queued, entries, suspended, pc, target, expired, overlapped>>

\* The device says that it has been restarted: it has to be set up again.
RebootEvent(d) ==
  /\ pc = "tasks"
  /\ events # {}
  /\ Store(d, [SetDisconnected(ViewOf(d)) EXCEPT !.events = FALSE])
  /\ last' = None
  /\ UNCHANGED <<queued, entries, suspended, pc, target, expired, overlapped>>

-----------------------------------------------------------------------------
(* The sections of a poll.                                                 *)

\* TPollableDevice::RescheduleAllRegisters of both pollables of the devices:
\* excluded registers that are not queued are included and queued again.
RescheduleAllRegisters(devs) ==
  LET regs == {r \in excluded \ queued : DeviceOf[r] \in devs}
  IN /\ avail' = [r \in Registers |-> IF r \in regs THEN "UNKNOWN" ELSE avail[r]]
     /\ excluded' = excluded \ regs
     /\ queued' = queued \cup regs

\* Mutants: an entry that is not there is not added; nothing is removed.
MutantOnlyMoved(n) == n
MutantAddedAgain(n) == n + 1

\* Remove one entry of a pollable, if there is one, then add one.
Readded(n) == IF n = 0 THEN 1 ELSE n

\* RescheduleDisconnectedDevices, at the start of OpenPortCycle and
\* ClosedPortCycle.
RescheduleDisconnectedDevices ==
  /\ pc = "tasks"
  /\ RescheduleAllRegisters(waiting)
  /\ entries' = [p \in Pollables |->
                   IF p[1] \in waiting THEN Readded(entries[p]) ELSE entries[p]]
  /\ waiting' = {}
  /\ pc' = "collect"
  /\ UNCHANGED <<conn, rem, unsupported, defined, events, opened, suspended, target, last,
                 expired, overlapped>>

\* Mutant: the comparison with the resumption time is the wrong way round.
MutantCollectArmed ==
  /\ pc = "collect"
  /\ expired' = {d \in Devices : suspended[d] = "armed"}
  /\ pc' = "resume"
  /\ UNCHANGED <<deviceVars, queued, entries, waiting, suspended, target, last, overlapped>>

\* RescheduleDevicesWithSpendedPoll: the devices whose time is over are
\* collected under the mutex and resumed one by one after it is released.
CollectExpired ==
  /\ pc = "collect"
  /\ expired' = {d \in Devices : suspended[d] = "expired"}
  /\ pc' = "resume"
  /\ UNCHANGED <<deviceVars, queued, entries, waiting, suspended, target, last, overlapped>>

\* ResumePoll of a device whose poll is suspended.
Resume(d) ==
  /\ Suspended(d)
  /\ RescheduleAllRegisters({d})
  /\ entries' = [p \in Pollables |-> IF p[1] = d THEN entries[p] + 1 ELSE entries[p]]
  /\ suspended' = [suspended EXCEPT ![d] = "no"]
  /\ UNCHANGED <<conn, rem, unsupported, defined, events, opened, waiting, target, last, overlapped>>

ResumeExpired(d) ==
  /\ pc = "resume"
  /\ d \in expired
  /\ Resume(d)
  /\ expired' = expired \ {d}
  /\ UNCHANGED pc

\* The RPC thread has resumed it in between: the exception is not a
\* TSerialDeviceException, nothing catches it and the process terminates.
ResumeTwice(d) ==
  /\ pc = "resume"
  /\ d \in expired
  /\ ~Suspended(d)
  /\ pc' = "dead"
  /\ UNCHANGED <<deviceVars, queued, entries, waiting, suspended, target, last, expired, overlapped>>

PollAllowed == pc = "resume" /\ expired = {}

\* A Modbus range takes nothing from an unavailable register, but the register
\* leaves the queue.
Droppable(p) ==
  IF p[1] \in FastModbus THEN {r \in QueueOf(p) : avail[r] = "UNAVAILABLE"} ELSE {}

RangesOf(p) ==
  IF p[1] \in FastModbus THEN SUBSET (QueueOf(p) \ Droppable(p))
  ELSE {{r} : r \in QueueOf(p)}

\* Scheduler entry of a pollable that was popped: ScheduleNextPoll of the poller
\* adds it again while the pollable has registers.
Rescheduled(p, queue) ==
  [entries EXCEPT ![p] = IF RegistersAt(p) \cap queue # {} THEN @ ELSE @ - 1]

\* OpenPortCycle selects a pollable and reads a range of its ready registers.
Poll(p) ==
  /\ PollAllowed
  /\ entries[p] > 0
  /\ \E dropped \in SUBSET Droppable(p), regs \in RangesOf(p) \ {{}} :
     \E access \in PrepareToAccessResults(p[1], ViewOf(p[1]), last = p[1]) :
     \E v \in IF access.ok THEN ReadViews(p[1], access.view, regs) ELSE {access.view} :
       /\ Access(p[1], [access EXCEPT !.view = v])
       /\ queued' = (queued \ (dropped \cup regs)) \cup KeptRegisters(v, regs)
       /\ entries' = Rescheduled(p, queued')
  /\ pc' = "tasks"
  /\ UNCHANGED <<suspended, target, expired, overlapped>>

\* The range is empty: nothing is ready, nothing fits in the time limit, or all
\* that was ready is unavailable.  The entry of the pollable stays.
PollNothing(p) ==
  /\ PollAllowed
  /\ entries[p] > 0
  /\ \E dropped \in SUBSET Droppable(p) : queued' = queued \ dropped
  /\ pc' = "tasks"
  /\ UNCHANGED <<deviceVars, entries, waiting, suspended, target, last, expired, overlapped>>

\* No entry is ready.
PollIdle ==
  /\ PollAllowed
  /\ pc' = "tasks"
  /\ UNCHANGED <<deviceVars, queued, entries, waiting, suspended, target, last, expired, overlapped>>

\* ClosedPortCycle fails the ready registers of one pollable after another; the
\* mutex is held until a pollable without ready registers ends the loop.
PollClosed(p) ==
  /\ PollAllowed \/ pc = "closed"
  /\ entries[p] > 0
  /\ \E regs \in SUBSET QueueOf(p), timedOut \in BOOLEAN :
       /\ Store(p[1], TransferFailed(p[1], ViewOf(p[1]), Cardinality(regs), timedOut))
       /\ queued' = (queued \ regs) \cup KeptRegisters(ViewOf(p[1]), regs)
       /\ pc' = IF regs = {} THEN "tasks" ELSE "closed"
  /\ entries' = Rescheduled(p, queued')
  /\ UNCHANGED <<suspended, target, last, expired, overlapped>>

EndClosed ==
  /\ pc = "closed"
  /\ pc' = "tasks"
  /\ UNCHANGED <<deviceVars, queued, entries, waiting, suspended, target, last, expired, overlapped>>

-----------------------------------------------------------------------------
(* The RPC thread and the clock.                                           *)

MutexFree == pc \notin {"closed", "dead"}

\* device/SetPoll with poll = false.  A repeated request only prolongs.
SuspendPoll(d) ==
  /\ MutexFree
  /\ d \in SetPollDevices
  /\ entries' = [p \in Pollables |->
                   IF p[1] = d /\ ~Suspended(d) /\ entries[p] > 0 THEN entries[p] - 1
                   ELSE entries[p]]
  /\ suspended' = [suspended EXCEPT ![d] = "armed"]
  /\ conn' = [conn EXCEPT ![d] = "DISCONNECTED"]
  /\ events' = IF conn[d] # "DISCONNECTED" THEN events \ {d} ELSE events
  /\ opened' = opened \ {d}
  /\ overlapped' = IF ~Suspended(d) /\ d \in waiting THEN overlapped \cup {d} ELSE overlapped
  /\ UNCHANGED <<rem, excluded, unsupported, avail, defined, queued, waiting, pc, target, last, expired>>

\* device/SetPoll with poll = true.
ResumePoll(d) ==
  /\ MutexFree
  /\ d \in SetPollDevices
  /\ Resume(d)
  /\ UNCHANGED <<pc, expired>>

\* SUSPEND_POLL_TIMEOUT has passed since the last request.
Expire(d) ==
  /\ MutexFree
  /\ suspended[d] = "armed"
  /\ suspended' = [suspended EXCEPT ![d] = "expired"]
  /\ UNCHANGED <<deviceVars, queued, entries, waiting, pc, target, last, expired, overlapped>>

\* systemd restarts the service.
Restart ==
  /\ pc = "dead"
  /\ conn' = [d \in Devices |-> "UNKNOWN"]
  /\ rem' = [d \in Devices |-> 0]
  /\ excluded' = {} /\ unsupported' = {} /\ defined' = {} /\ events' = {} /\ opened' = {}
  /\ avail' = [r \in Registers |-> "UNKNOWN"]
  /\ queued' = Registers
  /\ entries' = [p \in Pollables |-> 1]
  /\ waiting' = {}
  /\ suspended' = [d \in Devices |-> "no"]
  /\ pc' = "tasks"
  /\ target' = None
  /\ last' = None
  /\ expired' = {}
  /\ overlapped' = {}

-----------------------------------------------------------------------------
Tasks ==
  \/ \E r \in Registers : BeginWrite(r)
  \/ \E d \in Devices : BeginSession(d)
  \/ EndWrite \/ SessionTransfer

Events ==
  \/ \E r \in EventRegisters : RegisterEvent(r)
  \/ \E d \in {DeviceOf[r] : r \in EventRegisters} : RebootEvent(d)

PollStep ==
  \/ CollectExpired
  \/ \E d \in Devices : ResumeExpired(d) \/ ResumeTwice(d)
  \/ \E p \in Pollables : Poll(p) \/ PollNothing(p) \/ PollClosed(p)
  \/ PollIdle \/ EndClosed

Rpc == \E d \in Devices : SuspendPoll(d) \/ ResumePoll(d)

Clock == \E d \in Devices : Expire(d)

Next == Tasks \/ Events \/ RescheduleDisconnectedDevices \/ PollStep \/ Rpc \/ Clock \/ Restart

Spec == Init /\ [][Next]_vars

(***************************************************************************)
(* The serial thread never stops on its own, and tasks do not arrive faster*)
(* than it runs them: it reaches the poll again and again.                 *)
(***************************************************************************)
Fairness ==
  /\ SF_vars(RescheduleDisconnectedDevices)
  /\ WF_vars(EndWrite \/ SessionTransfer)
  /\ WF_vars(PollStep)
  /\ WF_vars(Restart)
  /\ \A d \in Devices : WF_vars(Expire(d))

FairSpec == Spec /\ Fairness

-----------------------------------------------------------------------------
(* Properties.                                                             *)

\* As long as the poll of a device is not suspended, none of its pollables with
\* registers to read is missing from the scheduler, whatever the order of polls,
\* disconnections, suspensions and resumptions.
NoLostEntry ==
  \A p \in Pollables : ~Suspended(p[1]) /\ QueueOf(p) # {} => entries[p] > 0

\* SuspendPoll takes a device out of the scheduler and nothing but its
\* resumption puts it back, once; excepted are the devices suspended while they
\* waited for RescheduleDisconnectedDevices.
SuspendIsolation ==
  \A p \in Pollables : p[1] \notin overlapped =>
    IF Suspended(p[1]) THEN entries[p] = 0 /\ p[1] \notin waiting ELSE entries[p] <= 1

\* The double entries of the excepted devices do not pile up.
BoundedEntries ==
  \A p \in Pollables : entries[p] <= IF Suspended(p[1]) THEN 1 ELSE 2

\* A register without events is never forgotten: it is queued, or excluded so
\* that the next RescheduleAllRegisters queues it.  (Devices of which Prepare
\* includes registers itself are another matter.)
RegistersStayPolled ==
  \A r \in Registers \ (Sporadic \cup SemiSporadic) :
    DeviceOf[r] \notin WbDevices => r \in queued \/ r \in excluded

\* Without RPC tasks, suspensions and "partial" setup registers, which each connect
\* a device that is not prepared (README.md tells how), a device that counts as
\* connected has had the whole call of Prepare with its setup section since it was
\* last lost, and after it a call of EnableEvents that no error has ended: an error
\* in between leaves it disconnected.  Whether it has accepted the events is
\* another matter: an exception or a timeout of these requests is only logged.
ConnectedIsPrepared ==
  \A d \in Devices \ (RpcDevices \cup SetPollDevices \cup PartialSetup) :
    conn[d] = "CONNECTED" => d \in opened

\* A suspension ends by itself unless it is prolonged.
SuspendEnds ==
  \A d \in Devices : suspended[d] = "expired" ~> suspended[d] # "expired"

-----------------------------------------------------------------------------
(* What the documentation promises and the code does not keep: no run      *)
(* states it, README.md tells the counterexamples.                         *)

\* README.md:1769: device/SetPoll with poll = false stops the poll of the device.
SuspendedNotPolled ==
  \A p \in Pollables : Suspended(p[1]) => entries[p] = 0

\* README.md:972: the first successful request of a disconnected device is a
\* reconnection, and the setup section is sent again.
SetUpOnReconnect ==
  [][\A d \in Devices :
       conn[d] = "DISCONNECTED" /\ conn'[d] = "CONNECTED" => d \in opened']_vars
=============================================================================
