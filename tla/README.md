# TLA+ models of wb-mqtt-serial

wb-mqtt-serial polls devices on serial and TCP buses and publishes their
registers to MQTT. Every port has one thread that owns the bus (the *serial
thread*). MQTT callbacks and RPC requests run in other threads and reach the bus
through a queue of tasks. This directory holds TLA+ models of that program, the
TLC configurations that check them on small instances and proofs that TLAPS
checks for all instances.

## The system

| component | state | operations | what makes it correct |
|---|---|---|---|
| `TSerialClient` (serial_client.cpp) | task queue, last accessed device | `Cycle`: run the tasks, then read events or poll | tasks, events and polls share the bus; none is forgotten |
| `TSerialClientRegisterAndEventsReader` | entries EVENTS and POLLING of a balancer | `OpenPortCycle`, `ClosedPortCycle` | both get their share of the time |
| `TSerialClientRegisterPoller` | scheduler with two queues, disconnected devices, suspended devices | polls, `SuspendPoll`, `ResumePoll`, rescheduling | every register that is to be polled is polled; a suspended device is not |
| `TPollableDevice` | queue of registers of a device and a priority | read a range, schedule the next poll, reschedule all | no register is lost |
| `TSerialDevice` (and drivers) | connection state, fail cycles | `Prepare`, read, write, `SetTransferResult` | a device is connected only after it has been prepared |
| `TSerialClientDeviceAccessHandler` | last accessed device | `PrepareToAccess` | setup and events after each reconnection |
| `TSerialClientEventsReader` | devices with enabled events, read errors | enable events, read events, reboots | a register is polled or its events arrive |
| `TRegister` | value, availability, exclusion from polling | `SetValue`, `SetAvailable`, `SetError` | |
| `TRegisterHandler`, write task | value to write, dirty flag, first failure | `SetTextValue`, `Flush`, retries | the last value is written or given up |
| `TScheduler` (poll_plan.h) | two priority queues, time balance | `AccumulateNext`, `UpdateSelectionTime` | low priority is not starved |
| Fast Modbus (modbus_ext_common.cpp) | packet confirmation | read events, enable events, scan | no event is lost or wrongly confirmed |
| `TPortOpenCloseLogic` and the ports (port/) | open or closed, failed cycles, settings, bytes not read yet | open, close, write bytes, read a frame, skip noise | an answer is taken for the request it belongs to |
| drivers (devices/) | sessions, request numbers | request and answer, open and end a session, settings of a meter | each recognises its answers and leaves the bus as it found it |
| Modbus registers (modbus_common.cpp) | cache of words, holes, setup packets | read ranges, write channels, write the setup section | nothing is written or marked that was not meant |
| RPC requests (rpc/) | executors with their threads, cache of parameters | device/Load, LoadConfig, Set, Probe, port/Load, Scan, Setup | each is answered once and ends; what is cached is what the device has |
| firmware update (rpc_fw_...) | lock, list of updates, task | Update, Restore, ClearError | one at a time; an image is complete or the user is told |
| MQTT driver (serial_port_driver.cpp) | published values and errors | publish, on messages | what is published is what was read |
| templates (templates_map.cpp, files_watcher.cpp) | map of templates, kept schemas | file events, Upload, Delete | the map and the schemas follow the directories |
| configuration, expressions | none at run time | | |

The hard parts are the interleavings of the serial thread with the RPC thread
that suspends and resumes polls, answers that are late, lost or repeated and the
protocols that have to live with them, the many ways a device can be disconnected and
reconnected in the middle of an operation of several transactions, and the
state of a register (queued, excluded, available, defined) that reads, writes,
events and preparations change in any order. `PROJECT.json` lists the hazards
one by one, each at its line.

## Modules

| module | what it is |
|---|---|
| `SerialDevice` | pure operators: what `Prepare`, enabling events, reads and failures do to a device and its registers |
| `RegisterPoller` | the state machine of one port: tasks, events, poll sections, RPC thread, clock |
| `MCRegisterPoller` | the instances for TLC |
| `RegisterPollerProofs` | lemmas about the operators of `SerialDevice` (types, what they keep, when a device is opened) and the theorems of `RegisterPoller` |
| `PollSchedule` | the scheduler with two priorities and the balancing of events and polls, with durations |
| `MCPollSchedule` | its instances |
| `RegisterWrite` | a value set over MQTT on its way to the device, between the MQTT and the serial thread; implements `ValueDelivery` |
| `ValueDelivery` | what a value that is set is promised (abstract specification) |
| `MCRegisterWrite`, `RegisterWriteProofs` | its instances and theorems |
| `EventDelivery` | what reading events promises: no event is lost (abstract specification) |
| `FastModbusEvents` | how events are read: requests, confirmations, losses, read errors; implements `EventDelivery` |
| `MCFastModbusEvents` | its instances |
| `ChannelPublish` | what a channel publishes of its registers |
| `MCChannelPublish`, `ChannelPublishProofs` | its instances and theorems |
| `FwUpdate` | firmware updates: lock, task, list of updates, bootloaders, lost and late answers |
| `MCFwUpdate`, `FwUpdateProofs` | its instances and theorems |
| `RequestLines` | in what order the requests to a port are answered (abstract specification) |
| `TaskExecutors` | the threads that serve ports that are not configured |
| `RpcRequests` | the RPC requests that use the bus, over `TaskExecutors` or the serial client, and the cache of parameters; implements `RequestLines` |
| `MCRpcRequests`, `RpcRequestsProofs` | its instances and theorems |
| `ModbusRegisters` | ranges, partial registers, the setup section of one Modbus device |
| `MCModbusRegisters` | its instances |
| `ModbusProofs` | the theorems of `FastModbusEvents` and `ModbusRegisters` |
| `DeviceDrivers` | one record per driver: what it compares, reads, throws away; its sessions, numbers and settings |
| `PortBus` | two or more devices of any drivers on one port, with late answers, closed ports and sessions that end |
| `MCPortBus` | its instances |
| `SerialPortProofs` | the theorems of `PollSchedule` and `PortBus` |
| `TemplateFiles` | directories of templates, the watcher, uploads and deletions, schemas |
| `MCTemplateFiles`, `TemplateFilesProofs` | its instances and theorems |

`RegisterPoller` and `PollSchedule` look at the same loop: the first keeps every
step that changes what is queued and abstracts the times, the second keeps the
times and takes a poll as one step. `RegisterWrite` takes the poll as one step
that may change whether the port is open, the device connected and the register
supported. `RegisterPoller` takes an event as one step that gives a register a
value; `FastModbusEvents` is that step, with what it takes to get an event across
a bus that loses messages. `ChannelPublish` sees all of this from one channel: any
read, write, event or change of the connection may come next, and what it adds are
the callbacks and what they publish. `PortBus` opens the one step that a request is
in all of these, down to the bytes on the line, for every driver; `ModbusRegisters`
opens it in the other direction, down to the words of a Modbus device. `RpcRequests`
takes the poll as something that connects and loses the device, and `FwUpdate` is
one task among those that the serial thread runs. `TemplateFiles` shares no state
with the others: templates are read when the service starts or asks for a schema.

The parts of `FastModbusEvents` and `PollSchedule` have names like `EventsSpec` and
`ScheduleSpec`, because their theorems are in one module with those of another component.

### SerialDevice

An operator takes a *view* (the part of the state that an operation on one
device can change) and returns the views the code may leave behind. `conn` and
`rem` are `ConnectionState` and `RemainingFailCycles`; `excluded`, `avail` and
`defined` are the state of the registers; `events` says whether the device is in
`DevicesWithEnabledEvents`. `lost` records that the callbacks of a disconnection
have run. `opened` is a history variable: since the last disconnection `Prepare` with
the setup section and `EnableEvents` have both returned without an error. It does not
say that events are enabled: an exception or a time-out of these requests is only logged
(serial_client_events_reader.cpp:317), with some of the events enabled or none, and
`EnableEventsResults` has these outcomes among those that are `ok`.

An operation of several transactions (a setup section, the requests to enable
events) returns the view of every point where it may stop. Failures are counted
as the code counts them: a failing range of Modbus registers, a failing partial
setup read and a failing `Prepare` each call `SetTransferResult(false)`.

### RegisterPoller

One action per section between two releases of
`TSerialClientRegisterPoller::Mutex`, or per task. `pc` is the place of the
serial thread: `tasks` (between two polls), `write` and `session` (inside a
task), `collect` and `resume` (inside `RescheduleDevicesWithSpendedPoll`),
`closed` (the loop of `ClosedPortCycle`, mutex held) and `dead` (an exception
that nothing catches has ended the process, systemd restarts it). `queued` is
the union of the queues of the pollables, `entries` counts the scheduler's
entries of each pollable, `waiting` is
`DisconnectedDevicesWaitingForReschedule`, `suspended` is
`DevicesWithSpendedPoll` with `armed` before and `expired` after the resumption
time.

Abstractions:

- Time is nondeterministic: a deadline, a time-out or the rate limit may or may
  not have been reached; any scheduled pollable may be the next.
- A `SuspendPoll` in the middle of a `PrepareToAccess` is placed before or after
  it.
- A range of a driver that is not Modbus holds one register (distinct
  addresses). A Modbus device without Fast Modbus is a Fast Modbus device
  without registers with events.
- The serial number register, error bits, values and logging are left out.

### PollSchedule

A step of the loop is an action: `Wait` (`WaitForPollAndFlush`, with tasks of
any length up to a bound), the choice between events and polls
(`EventsSelected`, `PollSelected`), and the outcomes of a selected poll: a read
of high or of low priority, a read that is too long for the time that is left
(`PollTooLong`) and nothing to read. `total` is the
`TotalTime` of the scheduler of the poller, `balance` that of the balancer of
events and polls: the same two operations serve both. Deadlines (`due`,
`pollDue`, `eventsDue`) are relative to now. `lowSkipped`, `highSkipped` and
`eventsAge` are history: the time for which a priority that is due was passed
over, and the time since events were read.
`SuspendPoll` and `ResumePoll` take a pollable out of the scheduler and
put it back.

Abstractions: a pollable has one register, a read takes between `MinSpent` and
`MaxSpent` whatever the estimate was, and the rate limit of low priority
registers is off (it is a number of registers per second).

### RegisterWrite

One action per section under `SetValueMutex` or `TasksMutex`. A write to the
device and the section that follows it are one action, because what the MQTT
thread does between the two could as well be done before the write. `temp` is
the value that `Flush` has taken. `tasks`, `batch` and `retry` count the write
tasks of a register in the queue, in the local vector of the serial thread and
in `retryTasks`; tasks of different registers run in any order. `Cycle` stands
for the poll between two waits. `pending` and `invalid` are history: the
registers whose last value is neither written nor given up, and those whose last
text could not be converted (the code marks such a register before the
conversion throws). Times are whole seconds, as `duration_cast` makes them.

`ValueDelivery` knows neither flags nor tasks: registers whose last value is `open`, the write
in progress and what the device was given. The refinement (`LastValueDelivered`) takes for open a
register that is marked and has a task (`HasTask`), so it says of the program's own state what
`NothingForgotten` and `WrittenOnce` say with the help of `pending`, and that what is written is
the last value when the write begins. `SetAgain` is the text that cannot be converted: when it
comes between two tasks of its register, the last value is written once more.

### FastModbusEvents

An action is one request of `ModbusExt::ReadEvents` with what comes of it:
`ReceiveEvents` and `ReceiveNoEvents` when the answer arrives, `LoseEvents` and
`LoseNoEvents` when it is lost or malformed, `NoAnswer` when nobody has heard the
request. `heard` is the set of devices that hear it. `last` is
`LastAccessedSlaveId`, `conf` is `EventState`, `readErrors` and `clearErrors` are
`ReadErrors` and `ClearErrorsOnSuccessfulRead`; `reading` says that the thread is
in the loop of `ReadEvents`, where no poll can come between two requests.
`enabled` is `DevicesWithEnabledEvents` and `excluded` holds the devices whose
registers are excluded from polling: a disconnection empties the first at once
and the second only when the device is rescheduled. `ClosedPortCycle` marks the
registers with an error as `ReadEventsFailed` does, but without `clearErrors`, and
`EnableEvents` is a poll that enables the events and then reads the registers, or has no
answer to that. `applied`, `own` and `broken` are history: the events applied, the
registers excluded from polling whose error was set by one of these two, and the
registers whose last value is their error_value.

The devices are not in this repository. The model assumes of them what the
service relies on: a device answers only a request whose address is not above its
own, keeps the events of a packet until it hears a confirmation with its own
address and the flag of that packet, repeats the packet until then (as long or
not), and gives a packet with new events the other flag. The events of a device are
numbered; which value an event carries matters only when it is the error_value.

Abstractions:

- A device stands for its registers with events, so a packet's last event decides
  their error. The register of a device with events only that stays polled is left
  out, and so are the requests that disable unexpected events.
- A reboot event is `Disconnect`, a step of its own.
- The loop may end after any request: its time is not counted.
- The error of a write that a device refuses is another one, and is left out.
- Packets with a right checksum have well-formed records.

`EventDelivery` has the variables `occurred`, `applied` and `dropped` alone, and one
action for whatever the two sides exchange: a device drops only what was applied,
and what is applied next is what comes next.

### ChannelPublish

A behaviour is about one channel, chosen at the start: its registers, which of them
are press counters, have events only, a read period or can be written, and the
publishing policy. `value`, `errors` and `avail` are the state of `TRegister`,
`excluded` and `queued` decide which registers are read. An operation changes the
registers and leaves in `calls` the callbacks that it makes; `Call` is one of them,
through `ProcessPolledRegister` or the write task to `OnValueRead` or `UpdateError`,
and nothing else happens until `calls` is empty: all of it runs in the serial
thread, and a range is read as a whole before its callbacks are made. `cachedValue`,
`cachedError` and `publishZero` are the members of `TDeviceChannel`, `shownValue`
and `shownError` what it has given to the MQTT library. `silent` is history: errors
were cleared (`PrepareImpl`) or a register became available (`OnEnabledEvent`) and
no callback has come since. `fresh` is history: the counters that were not seen
above zero since the last disconnection.

Abstractions:

- Whether an unchanged value is due under `PublishSomeUnchanged`, and whether a
  register with a read period was read too seldom, are choices.
- A disconnection is a step of its own, before or after the callbacks of the reads
  that caused it: those publish errors only.
- A pushbutton is a channel with the policy `All`. `error_value`,
  `unsupported_value`, registers that the firmware does not support, registers that
  are both polled and sent by events, and devices with events only are left out, and
  so are texts (`OnValue`, `OffValue`, formats).

### FwUpdate

`task` is what the serial thread does with an accepted request: an action for each
request on the bus (`ReadInfo`, `Reboot`, `WriteInfo`, `WriteBlock`) with its
outcomes, and for the lookups and downloads over HTTP, which succeed or fail.
`inProgress` is `TFwUpdateLock::InProgress`, `entries` is `TFwUpdateState::Devices`.
`mode` and `image` are the devices, external code: a bootloader takes a block, takes
a block it has already for an error ("written", exception 0x04), and starts the
firmware after the last one. `unread` is an answer that came too late. `late`,
`excused` and `hidden` are history.

`FlashIntact` needs `~late`: an exception 0x04 that answers a block after its
time-out is taken for the answer to the next block, which is then skipped. That
takes an answer later than the time-out of one of the most patient requests of the
service; nothing in the protocol can tell the two apart.

Abstractions: one update is in progress on the port; the texts of the release index,
its caches and the JSON that is published (after the mutex of the state is released,
so that two publications may change places) are left out. `GetFirmwareInfo` only
reads, and is left out.

Other things the code does that this model or reading it for the model has shown:
`onError` is moved from when `RunTask` throws; `WriteInfo` ignores an exception
answer; after a component has failed, `GetFirmwareInfo` of its device is refused with
"Task is already executing." until the entry is cleared; `Restore` is accepted for a
device that runs its application; when the automatic restoration after a bootloader
update fails, its error is lost.

### TaskExecutors and RpcRequests

`TaskExecutors` is at the level of mutexes and the condition variable. `caller` is
`RunTask`, which holds `TaskExecutorsMutex` from the search for an executor to the
notification; `thread` is the place of each thread, and the state `checked` is that
between the predicate of `wait` and the wait itself. An executor that is destroyed
is told so by `Running = FALSE`, which is written without the mutex; `Hung` is a
thread that has missed it, and `RequestsEnd` excuses those (the caller then waits in
`join` for ever, with the mutex of all executors).

`RpcRequests` extends it: a behaviour is about ports that are not configured, served
by `TaskExecutors`, or about a configured device, whose tasks the serial client runs
between polls (`PollConnects`, `PollFails`). A request is one action: the serial
thread does nothing else meanwhile. For `RequestLines` the line of a port is what its thread
runs, then its queue, then the task that `RunTask` carries; that of the configured port is
`tasks`. `cache` is the entry of the device in
`TRPCDeviceParametersCache`. `bypassed` is history: the device was changed in a way that the
cache is not told of (a Set, a raw request, a write without an answer, a device found by a
scan or probe and not set up).

Abstractions: the device has one parameter; continuous reading is left out (`PrepareSession`
switches it on, the check of unsupported parameters off and on, and port/Load, a raw request
or a Set may write its register); a condition variable does not wake
spuriously; an executor keeps the sort of port (TCP or serial) of its first request.

Other things seen: the fallback of `ReadDeviceModel` cannot be reached; a Set of
nothing is answered twice (rpc_device_set_task.cpp:21); `LoadConfig` without "force"
answers from the configuration file when it has all parameters; `LoadConfig` puts a
copy back into the cache when the device is disconnected between the retries of
`PrepareSession`.

### ModbusRegisters

`Preparation` is `PrepareImpl` of the Modbus drivers: the cache is filled for the
partial registers of the setup section, then the section is written packet by
packet. `Session` holds the reads of ranges and the writes of channels. `mem` and
`continuous` are the device, external code. A register is a first address, a width
and a part of the word. A range is a set of positions of a queue of registers: it grows
over neighbours (`Near`, `MayShare`) as far as `MaxRead` words and holes of `MaxHole`
allow (`Fits`), or ends earlier when the time for the poll is over (`Ranges`). `Queues`
holds all orders of some of the polled registers. `HasHoles` is `HasHolesFlg`, which the
register that was refused for its length may have set too. The history variables name
what a write may not be blamed for: `unseen` words of the cache that changed behind it,
items that were `refused` or `skipped`, registers `blamed` after a restart of the
device that nobody noticed. `SetupApplied` speaks of an item that is `Alone`: two items may
be given the same bits, and then the first of them promises nothing.

Abstractions: the device changes by itself and restarts only outside of a
preparation; registers of single-bit types, `min_read_registers`,
`ContinuePollingOnIllegalModbusException` and the time-outs of MWAC devices are left
out.

Other things seen: `FillSetupRegistersCache` passes the shift of a Modbus I/O module
where `breakOnError` is expected (modbus_common.cpp:848); a partial setup item whose
register the device does not have makes `Prepare` fail for ever; discrete inputs and
coils that are still unknown and are read together are all marked unavailable by one
exception.

### DeviceDrivers and PortBus

A driver is a record: which fields of an answer it compares (`checks`, for reads and
writes), how much it reads (`takes`), when it empties the line (`discards`), whether
requests have numbers (`ids`), sessions, settings of its own, and writes. The records
are read from src/devices, and `PortBus` interprets them: `Access` is
`PrepareToAccess` with the `EndSession` of the device before, `Send...` puts a request
on the bus, `Arrive` brings bytes, `Accept`, `Skip`, `Refuse`, `Reconnect` and
`TimedOut` are what the driver does with them, and `CloseIfNeeded` ends a cycle. A
frame of one protocol is garbage to the others. `coming` and `line` are the answers
under way and those received and not read; `clean` and `missed` are history: they
count the answers that a device has given in time and that its driver did not take.

Abstractions: `UNKNOWN` and `DISCONNECTED` are one state; times are choices; an answer
comes before its transaction number comes round again (`NoneOutlived`: 65536
requests); the requests of RPC tasks and what answers them are left out, a task only
takes the bus and its settings (`RunTask`); devices restart in pauses of the bus; a
TCP connection is not closed by its peer in the middle of an access; A-OK devices do not answer
writes.

The classification itself shows which drivers cannot tell a late answer from the right
one. `Names` holds of Modbus TCP, Mercury 200, Milur and LLS; in `CatchesUp` the
drivers are those that clear the line or number each request (`Resynchronizes`).
Modbus RTU, Energomera CE, S2K, Dooya, WinDeco, Uniel and the Mercury and Milur meters
do neither: after one late answer each request may find the answer to the one before
until one is lost or malformed. An IEC or DLMS meter that has lost its session misses
answers until it is disconnected.

A request that its device cannot hear (`SendUnheard`), because the port has the settings of
another one or its session is over, is not a fault of the line and leaves `clean` as it
is. `missed` counts answers to requests that the device hears with the settings of the port
and is left alone by the others: without that the settings a failed `Prepare` of a
meter leaves behind (`SettingsRestored`, below) would violate `CatchesUp`, and with it they do not
hide an answer missed before. One of the buses puts such a meter beside a driver that numbers its requests.

Defects seen while reading the drivers, not modelled: `TEMDevice::Talk` sends again for
as long as the device says it has no session (em_device.cpp:88); a Milur with an address
of four bytes never recognises "session closed"; Milur compares the register after
`Talk` has returned, so that an answer for another register does not clear the line;
Pulsar keeps its number after a failure; Somfy looks its parameters up in the write
cache under another address than it stores them (somfy_sdn_device.cpp:275 and 318); A-OK
writes of zone bits use and leave `DataCache` (a_ok_device.cpp:205) and A-OK accepts a bad
checksum after a frame time-out; the check for a complete frame of Somfy is never true;
Dooya does not check the answer to an angle; a `TTcpPort` that is closed reads an empty
frame; when the end of an IEC session cannot be written, its settings stay;
`TPortOpenCloseLogic` closes a port when the one device polled in a cycle is
disconnected, while README.md:218 speaks of all devices, it needs one cycle less than
configured, and an RPC task opens the port without setting `RemainingFailCycles`.

### TemplateFiles

`files` are the two directories, `events` what inotify has for the watcher, `templates`
is `TTemplateMap::Templates` with an entry per file, `schemas` is the cache of
`TDevicesConfedSchemasMap` as the template each was made of. Two threads: the watcher
(`FileWritten`, `FileDeleted`, `InvalidateCache`) and the thread of the requests (`rpc`),
in which an upload is `WriteFile`, `UpdateUploaded`, `RemoveFile`, `ForgetTemplate`,
`AnswerRequest`, and a schema is made in two steps with the mutex of the schemas held.
Anybody else may write (`OpenFile`, which leaves a file that is no template, and
`CloseFile`) or remove a file. `Restart` is the end and the start of the service.

History: `unheard` are files whose last change no event tells of (made while nobody
watched, or not finished, or put back between a request's removal and its
`DeleteTemplate`), `touched` those that a request could not know of, `stale` the types
whose template was dropped for a broken file.

Abstractions: a template is its type and a version; deprecated templates, the schema
they are validated with and templates that are in use are left out (a refused request
changes nothing); `UpdateTemplate` and `InvalidateCache` of a request are one step,
because only this thread makes schemas; a removal that fails and an overflow of the
queue of inotify are left out.

What the properties exclude the code does: a change between `LoadTemplates` and the
watch is missed; a file that is put back at the wrong moment has no entry until it
changes again; a file that is broken takes its template out of the map and leaves
its schema (main.cpp:246: the exception comes before `InvalidateCache`); after a
deletion and a quick upload the late event of the deletion drops the new entry until the
event of the upload comes; two user files of one type both stay when they were there
before.

## Runs

| run | result | what it shows |
|---|---|---|
| `PollTasks` | pass | a polled device and one with events, writes, events, reboots, failing setups, a closed port, a suspended poll: `NoLostEntry`, `RegistersStayPolled`, `ConnectedIsPrepared` (404 643 states) |
| `PollSuspend` | pass | one device with both priorities and RPC sessions, suspended and resumed between any two sections: `SuspendIsolation`, `BoundedEntries`, and the liveness property `SuspendEnds` (37 887 states) |
| `PollSchedule` | pass | a register with a read period, one without whose read is longer than every limit, and events: `LowNotStarved`, `HighNotStarved`, `PollsInTime`, `EventsInTime` (about 440 000 states) |
| `Writes` | pass | one register, three sets, every outcome of a write: `NothingForgotten`, `WrittenOnce`, `LastValueDelivered` (the refinement of `ValueDelivery`), and the liveness property `Resolved` (197 612 states) |
| `Events` | pass | two devices, two events each, any hearing and any loss, a closed port, devices that do not answer: `NoEventLost` (the refinement of `EventDelivery`), `OutageEnds`, and the liveness property `EventsArrive` (218 584 states) |
| `Channel` | pass | a channel of a polled and an event register, one register with a read period under each policy, one press counter: `ErrorsNotHidden`, `ErrorsEnd`, `ValueShown`, `PolledZeroHidden` (801 048 states) |
| `FwUpdate` | pass | updates and restorations of a device with two components, with lost and late answers and restarts of the service: `LockHeldByTask`, `FlashIntact`, `StrandedIsShown`, and the liveness property `UpdateEnds` (30 583 states) |
| `Rpc` | pass | two clients, three temporary ports and two executors, or a configured device: `AnsweredOnce`, `ServedInOrder` (the refinement of `RequestLines`), `CacheFollowsDevice`, and the liveness property `RequestsEnd` (129 398 states) |
| `Modbus` | pass | channels side by side with holes, parts of words and three setup sections, with and without a shift: `NeighboursKept`, `SetupApplied`, `SupportedAvailable` (32 168 states) |
| `SetupWritten` | violated | full setup registers before a partial one are dropped and reported as written |
| `Bus` | pass | fifteen buses of two devices that meet every driver: `NotMixedUp`, `MeterSettings`, `CatchesUp` (1 370 758 states) |
| `Templates` | pass | a shipped file and two of the user, two types: `FollowsDisk`, `SchemasFollow`, `UploadHolds` and the action property `OthersKept` (2 240 329 states) |

The type invariants are proved for all instances and are not part of the runs.

Bounds of the poller: one or two devices with one or two registers and `MaxFailCycles` = 1.
Two registers are enough for a range, both priorities, and a request answered for
one and not for the other; two devices for a session that changes the device.
No state
constraint is used, and no counter of the model is unbounded: that `entries`
stays small is itself a property.

Bounds of the schedule: one pollable of each priority, `Lag` = 4,
`MaxPollTime` = 4, a read of 3 and a low priority estimate of 5, so that the
low priority read never fits and has to be forced; `ReadEventsPeriod` = 4.
`Horizon` and `EventsHorizon` are the ages that `PollsInTime` and `EventsInTime`
forbid: they are where the ages stop being counted. Events are in time only if
tasks are short compared with reads, and reads about as long as they were
estimated: the time of tasks, and what a poll leaves over when its read does not
fit, count as time of events, and forced polls can then starve the events. The
instance satisfies this, and `PROJECT.json` lists the hazard.

Bounds of the writes: one register (registers share only the thread), two
values, so that a new value may equal the one being written, and three sets, so
that a set can follow a value that was set during a write. `MaxWriteFailTime` = 1
leaves one second in which retries go on and one in which they end.

Bounds of the events: two devices, so that the address of a request and the
confirmation of one device can meet the other; two events each, so that a packet
can be repeated with one more event and a second packet can have the other flag;
`MaxReadErrors` = 1, so that the counter has one failure that is forgiven and one
that is not. The events of a device are finite: `EventsArrive` says nothing of a
device that has events faster than they can be read.

Bounds of the channels: two values, one of them zero, and at most two registers:
two are enough for a callback of one register that publishes the state of the
other. The two registers differ in how they are updated, so that an error of one
kind meets values of the other.

Bounds of the firmware update: one device (there is one task; that `entries` are kept
apart by device is proved), two components, so that one can fail and the other go on;
three blocks, so that a block can be lost before, between and after others; three
tries, so that a block can be lost, answered late and answered.

Bounds of the requests: two clients and three ports for two executors, so that one
must be destroyed for another while a task is on its way to it; one parameter with
two values, so that a copy can differ.

Bounds of Modbus: five addresses and at most four registers, `MaxRead` = 3,
`MaxWrite` = 2 and `MaxHole` = 1, so that ranges and packets end for each of these
reasons; sixteen configurations of channels with devices that have all addresses or lack
some, and twelve of setup sections that begin or end with partial items.

Bounds of the bus: two devices, two registers, two answers under way or unread, four
transaction numbers (so that a number comes round), one failed cycle. Each driver meets
one that ends its session, changes the settings or leaves answers behind.

Bounds of the templates: others change one shipped or one user file in a behaviour, so
that their changes meet those of a request; uploads and deletions have both user files
for themselves or one of them changed; two events wait at most, so that the watcher is
behind by one request.

Fairness of the poller (`FairSpec`, for `SuspendEnds`): the serial thread goes on (weak
fairness of the steps of a poll and of a task's end), time passes (`Expire`),
systemd restarts the service (`Restart=on-failure`), and tasks do not arrive
faster than they are run (strong fairness of `RescheduleDisconnectedDevices`):
`WaitForPollAndFlush` runs tasks as long as the queue is not empty, so the code
itself gives no more.

Fairness of the writes (for `Resolved`): both threads go on, seconds pass, and
strong fairness of `Attempt`: a `PrepareToAccess` that fails does not start the
time limit (`Flush` is not called), but a device whose preparation keeps failing
is disconnected after `MaxFailCycles`, and then the limit counts.

Fairness of the events (for `EventsArrive`): while events are enabled the thread
goes on reading them (`EVENTS` is scheduled after each reading), and strong
fairness of the requests that all devices hear and whose answer arrives, also of
those that make a device drop events: a bus that loses every such request, or
only the confirmations, delivers nothing. The property assumes that some device
has its events enabled again and again; without one no request is sent.

Fairness of the firmware update (`UpdateEnds`): the serial thread goes on with its task.
Fairness of the requests (`RequestsEnd`): each thread goes on when it is not waiting for
a mutex or a notification, and the serial client runs its tasks. Neither assumes
anything of the devices or of the bus: time-outs end what they do not answer.

## Proofs

`RegisterPollerProofs`, for all devices, registers and constants that
satisfy `DeviceAssumption` and `PollerAssumption`:

- `TypeCorrect`: the type invariant.
- `IsolationCorrect`, `EntriesBounded`: `SuspendIsolation` and `BoundedEntries`
  are inductive together. Every action either leaves the entries alone, or takes
  entries of pollables that have one (`Taking`), or is one of the four actions of
  suspension and rescheduling.
- `NoEntryLost`: an entry is dropped only together with the last register of the
  queue, or by a suspension, and whoever queues a register again adds the entry.
- `RegistersCovered`: the inductive invariant `PlainInv` adds to
  `RegistersStayPolled` that an unavailable register is excluded. It rests on
  lemmas that every device operation keeps these two facts.
- `ConnectedPrepared`: the inductive invariant `OpenedInv` adds that the device of a
  write in progress is opened and that only the devices of RPC tasks are in a
  session. The theorem is about the devices without partial setup registers that no RPC
  accesses or suspends; of the others it is false, in the ways told below
  (`SetUpOnReconnect`). And it says that the requests to enable events have been made,
  not that the device has accepted them.

`SerialPortProofs` about `PollSchedule`, for all sets of pollables, costs, periods and lags
that satisfy its assumption:

- `ScheduleTypeCorrect`; it needs that a nonempty set of deadlines has an earliest one,
  which follows from the well-founded order of the naturals (`LeastNatural`).
- `LowPriorityServed`, `HighPriorityServed`: while a pollable of one priority is
  due, the balance moves by the time the other priority spends, and it is
  limited to twice the lag on both sides. The inductive invariant `ShareInv` bounds
  what the waiting pollable has seen by the distance of the balance from the
  point where its priority is forced, plus one read.

`RegisterWriteProofs`, for all registers, values and numbers of sets:

- `NothingIsForgotten`, `WriteOnce`: `WriteInv` states both directions of one
  equivalence (an unsettled value is marked and has a task; a register that is
  marked and has a task is unsettled or holds an invalid text) and adds that the
  serial thread has run its whole batch when it takes new tasks and that a
  register stays marked while it is tried. Neither of the two facts is inductive
  alone: the write of a value settles it only because a register that is tried
  is marked, and the next task finds nothing to do only because it is not.
- `ValuesDelivered`: the refinement of `ValueDelivery`, a step simulation under `WriteInv`. The steps
  that pass a task on (`QueueDelivers`) change neither a mark nor whether a marked register has a
  task; a `Defer` or a `Cancel` gives up or changes nothing; and after a write the mark stays
  exactly when a newer value was set (`WriteDelivers`).
- `TypeCorrect`.

`ModbusProofs` about `FastModbusEvents`, for all devices, numbers of events and losses:

- `EventsDelivered`: the refinement of `EventDelivery`, a step simulation under the
  inductive invariant `DeliveryInv`. It bounds what a device may drop when it hears
  the confirmation that the service keeps (`Confirmable`): either the kept flag is
  that of the device's last packet, and then that packet was applied, or it is the
  other one, and confirms nothing. This is the argument of the alternating bit, with one bit
  kept by the service for all the devices: a packet that is not yet dropped keeps
  its flag, so a confirmation cannot match a packet whose answer was lost.
- `OutagesEnd`: inductive with the types. Registers come to be excluded only by
  `EnableEvents`, which leaves them without an error or in `own`, and only a success, which
  clears the errors of all excluded registers, forgets that there are any; in between they
  are told apart from those of `ClosedPortCycle` over disconnections and reschedulings.
- `EventsTypeCorrect`.

`ChannelPublishProofs`, for all channels with at least one register, all values and
policies:

- `ErrorsAreShown`, `ErrorsAreCleared`, `ValuesAreShown`: `PublishInv`. A callback
  publishes the error of all the registers together or, with a register that is
  still unknown, nothing (`CallPublishes`), and an error that is not shown has a
  callback to make (`ErrorPending`). A value that is not published is equal to the
  remembered one, and that was published or contains a hidden zero
  (`ValueRemembered`); without this second half `ValueShown` is not inductive.
- `ZeroIsHidden`: for a channel of one polled counter, as long as it is fresh the
  flag is off and the callbacks that are left find an error or a zero. With events
  (`ZeroHidden`, below), or with a second register in the channel that is read first, a
  callback lifts the flag with a value from before the restart.

`FwUpdateProofs`, for all devices, components, numbers of blocks and retries:

- `LockHeld`: `LockInv` says that the lock and the task come and go together and that
  an active entry of a bootloader is that of the flash that is running; `OpTypes`
  says what each operation may flash.
- `FlashedIntact`: `FlashInv` relates the block that is sent to the last one that the
  bootloader has taken: equal, when an answer was lost, or one less. Without a late
  answer an exception 0x04 then means that very block.
- `StrandedShown` rests on both: a device leaves the application only when an entry of
  its firmware is there, and every way to fail turns that entry into an error.
- `TypeCorrect`.

`SerialPortProofs` about `PortBus`, for all devices, registers, bounds and buses of the drivers
of `DeviceDrivers` (`BusesAssumption`) on which all devices number their requests or none does
(`TcpAssumption`: a Modbus TCP port takes no other devices, serial_config.cpp:994):

- `MetersAskedInTheirSettings`: `SettingsInv` says that the device that is asked was
  accessed last, and that the settings of a meter stay as long as it is connected
  and no other device is accessed, which is when it is not prepared again.
- `AnswersNotMixedUp`: for drivers that compare device and register the argument is
  short (`CommandsInv`: one that is never written answers no writes). For transaction
  numbers it is `NumbersInv`: no answer has the number that comes next, under way or on the
  line, except on the line while a request waits, and then not behind the answer to that
  request. It rests on three facts of the Modbus TCP driver: it reads one frame at a time,
  a malformed frame makes it clear the line, and all devices of a port share the count.
- `DevicesCatchUp`: `CatchUpInv`, about requests that are heard; one that is not leaves the device as
  far behind as it was (`UnheardNotBehind`). A driver that clears the line before it asks misses no clean
  answer: nothing is under way when it asks, and what comes then is the one answer it waits
  for (`KindInv`: without sessions no device answers that it has none). A driver that numbers
  its requests may miss one only when what it found instead was mangled, and throwing
  that away leaves nothing behind that is in the way of the next answer; that nothing
  it meets later has the number it waits for is `NumbersInv` again.
- `TypeCorrect`.

`RpcRequestsProofs`, for all clients, ports and bounds (`ExecutorsAssumption`: there is at least
one of each; `RpcAssumption`: `SerialClient` is none of the ports that are not configured):

- `RequestsAnsweredOnce`: `PoolInv` and `OwnerInv` say where a request is, in one queue or with
  one thread, and whose mutex each thread holds; `TasksInv` says the same of the tasks of the
  serial client. A request is answered where it leaves them.
- `RequestsServedInOrder`: the refinement of `RequestLines`. Giving a task to an executor and
  swapping its queues leave the line as it is (`CallerKeepsLines`, `ThreadServes`), because a thread
  swaps only with an empty batch; and an executor that is joined runs nothing and is not that of
  the request for which it is destroyed (`JoinDrops`, from `PoolInv` and `OwnerInv`).
- `CacheIsDevice`: `CacheInv` adds that what is cached of a device that is away is what the
  configuration file says, and that a connected device with another value than the file's
  has been `bypassed`: coming back, the poll writes the value of the file.
- `TypeCorrect`.

`ModbusProofs` about `ModbusRegisters`, for all registers, setup items, words and bounds for which the words of
a polled register, shifted or not, have addresses (`ModbusAssumption`):

- `NeighboursAreKept`: `CacheInv`. The cache of words that the driver fills holds what the device
  has, apart from words in `unseen`; a write of part of a word takes its neighbours from there.
- `SetupIsApplied`: `SetupInv` follows the preparation packet by packet (`Settled`) and uses
  `CacheInv` for the items that are parts of words.
- `SupportedStayAvailable`: `ReadingInv`, which needs what a range is, for ranges of any length:
  its registers are near each other and fit (`AddedNear`, `AddedFits`, `RangeFacts`), the words that
  are read cover them (`WordsAreCovered`), without a hole there is no word between them
  (`NothingBetween`), and a register that is still unknown is read alone (`UnknownReadAlone`). So
  an answer that is refused means that a register of the range is missing (`RefusedMeansMissing`).
- `TypeCorrect`.

`TemplateFilesProofs`, for any finite directories without a common file, any types, versions,
changes by others, uploads and lengths of the queue of events (`FilesAssumption`, which also says
that what is no file or no template is none of the templates). All rest on `Sound`: the types,
what a request in each of its places holds (`RequestOK`) and the order of the entries of a type
(`Ordered`): those of the user come after those that are shipped, and no file has two.

- `DiskFollowed`: `DiskInv`. Each file that no event was lost of has an event that is not read
  yet, or is at the point of a request where the map is to be changed, or is `Follow`ed by its
  entry. And the last event of a file does not say that it is gone while it is there:
  without this the first part would not be inductive, because an event is handled by
  what it says and not by what the directory holds. `Busy` is why the request and the
  watcher may come in any order: whoever is last finds the file as it is.
- `SchemasFollowed`: `SchemaInv` says that a schema is `Made` of the entry that is in use, and
  that the entry of which one is being made is still that one (`Found`), for types that are
  neither in `outdated` nor in `stale`. `InvalidateCache` needs the mutex that `GetSchema`
  holds, so a schema of an entry that has left the map is removed after it was stored.
  That the entry says what the file says is `DiskInv`.
- `UploadsHold`: `UploadInv`. Undisturbed, a request is `Alone`: the files of the user
  that have its type are its own two. And what it has written is `InPlace`: the events under
  way of its file cannot remove the entry, the watcher that reads one of them puts the
  same entry back, and a schema is not made while a request is served.
- `RequestsKeepOthers` (`OthersKept`, an action property): `KeepInv` says which type the files have
  that a request is about to replace or to remove, unless `touched` has them.
- `TypeCorrect`.

## Only model-checked

- Liveness (`SuspendEnds`, `Resolved`, `EventsArrive`, `UpdateEnds`, `RequestsEnd`) is out of
  reach of the provers.
- `PollsInTime` and `EventsInTime` are no theorems for all constants: they hold of an
  instance whose `Horizon` and `EventsHorizon` are large enough for its durations. With tasks
  as long as the threshold in every cycle, together with reads that never fit
  (`PollTooLong`), or with a low priority pollable that holds unsupported registers only
  (`Unavailable`), events or polls can wait without a bound. A bound in terms of the constants would need
  the assumptions on durations that "Bounds of the schedule" names.

## Where the code and its documents disagree

`SetupWritten` is a run. The others were found in the same way, by a run that checked
the one property, which is still in its module where it is named here:

- `SuspendedNotPolled` (RegisterPoller): README.md:1769 says that `poll` = false stops the
  poll of a device. A device that is suspended while it waits for rescheduling gets its
  entries from `RescheduleDisconnectedDevices` (serial_client_register_poller.cpp:342) and is
  polled; `ResumePoll` adds them a second time.
- `SetUpOnReconnect` (RegisterPoller): README.md:972 says that the setup section is written
  again after a reconnection. The registers of a partial item are read first, the answer
  connects the device (modbus_common.cpp:848), and when the write that follows fails it
  stays connected. Another way there: an RPC session during a suspension connects the
  device, and nothing writes its setup after the poll is resumed (README.md:1773).
- README.md:469 says that a channel without a read period is read in the time that the
  others leave. A pollable whose ready registers are all unsupported returns an empty
  range, which counts as a lack of time (serial_client_register_poller.cpp:241): its entry stays
  on top of its queue and blocks those behind it, and, once low priority is forced, the
  registers with a read period too.
- `GivenUpLate` (RegisterWrite): README.md:364 gives a value `max_write_fail_time_s`. A value
  that is set while an older one fails inherits the time of that one (register_handler.cpp:94).
- `ErrorValueIsError` (FastModbusEvents): README.md:515 says that `error_value` is an error. The
  packet that ends an outage brings it before `ClearReadErrors` removes the errors of
  the outage, this one with them (serial_client_events_reader.cpp:405).
- README.md:278 (`enable_wb_continuous_read`): the driver goes on as if continuous reading were on
  after it was switched off for a check of unsupported parameters whose second reading timed
  out (rpc_helpers.cpp:188), after a scan or probe has made a device CONNECTED that nothing has
  prepared (rpc_port_scan_serial_client_task.cpp:137), and after a port/Load, a raw
  request or a Set of its register. Not modelled.
- `ZeroHidden` (ChannelPublish): README.md:1894 says that the zero of a press counter after a
  restart is not published. When the end of an outage of events comes with the restart, a
  callback with the value from before lifts the flag (serial_port_driver.cpp:327).
- `ErrorsPublished` (FwUpdate): architecture/firmware-update.md:286 says that all errors are
  published. `SetError` finds only an entry that `Update` has made (rpc_fw_update_state.cpp:95):
  an unknown software type or a failed lookup publishes nothing, and the failure of a
  component is only logged.
- `SettingsRestored` (PortBus): serial_device.h:218 says that `EndSession` is called before
  another device is accessed. `OpenPort`, `PrepareFails`, an access to another device:
  `Prepare` has applied the settings of the meter (iec_common.cpp:220) and thrown, the device is
  not remembered (serial_client_device_access_handler.cpp:41), and the other one is asked
  with 7E1 until some meter has been opened and left.
- `DeleteHolds` (TemplateFiles): docs/user-templates_plan.md:42 says that lists and schemas are
  updated when a request is answered. The watcher may drop the entry first; `DeleteTemplate`
  of the request then finds none and removes no schema, and the watcher has yet to do it.

Four more things that the models show and no document contradicts. A cycle with a closed
port sets read errors of registers with events (serial_client.cpp:248), and a failed first
read after events were enabled does; neither sets `ClearErrorsOnSuccessfulRead`, so that
when the port is back before the devices are disconnected, the error stays until the
register has an event, or an outage of the events or a reconnection ends it. The last register of
a disconnected device can leave its queue: one that has a value and answers with a
permanent exception, which does not connect the device; `ScheduleNextPoll` then adds
no entry and nothing reschedules the device (README.md:972 says that a disconnected
device is polled with growing pauses). The exclusion that a partly successful
`EnableEvents` has set survives a disconnection: when the next `EnableEvents` is not
answered, which is only logged, the first successful read drops the register, which is then neither polled
nor reported by events (README.md:495). And `Prepare` of a Wiren Board device may include
registers in polling that are in no queue (modbus_device.cpp:72: an RPC session between a
disconnection and its rescheduling, or during a suspension), which `RescheduleAllRegisters`
does not find; `RegistersStayPolled` is stated for devices whose `Prepare` includes nothing.

## Hazards without a model

`PROJECT.json` lists the hazards with the properties that cover them, or with the reason why
none does: most often that the code does not avoid them, as told above. Others were seen and are not
modelled: the rate limiter compares `Count > RateLimit` and truncates the start of its
period (poll_plan.h:131); a string register that is empty at the first read counts as
unchanged (serial_port_driver.cpp:330); `OnDeviceConnectionStateChanged` pushes to a list without
the mutex that the RPC thread holds (serial_client_register_poller.cpp:310); the confirmation of a
packet is recorded before its events are iterated (modbus_ext_common.cpp:309); tasks that
arrive faster than they are run starve the poll (serial_client.cpp:97); `TEMDevice::Talk` may
repeat without end (em_device.cpp:88).

## Not modelled, and the plan

- Configuration (serial_config.cpp and the generators of schemas): a translation of JSON,
  done once at the start, without state afterwards.
- Condition expressions (expression_evaluator.cpp): a parser and an evaluator without state. A
  reference definition over bounded syntax trees would be the next module.
- Values: formats, scales, the texts of MQTT messages.
- Frames, checksums and time-outs in milliseconds of the protocols; the state machines of
  HDLC and DLMS, which are a library's.
- Delays between the polls of disconnected devices, and the rate limit of low priority
  registers: abstracted in both models of the poll.
- Bounds for `PollsInTime` and `EventsInTime` in terms of the durations, and then their proofs.
