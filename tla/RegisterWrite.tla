--------------------------- MODULE RegisterWrite ---------------------------
(***************************************************************************)
(* How a value set over MQTT reaches a register (register_handler.cpp,     *)
(* write_channel_serial_client_task.cpp, the task queue of                 *)
(* serial_client.cpp).  The MQTT thread changes the value to write and     *)
(* adds a task; the serial thread runs tasks, retries them once per cycle  *)
(* and gives a value up after MaxWriteFailTime.                            *)
(*                                                                         *)
(* Every section under SetValueMutex or TasksMutex is one step.  A write   *)
(* and the section that follows it are one step too: what the MQTT thread  *)
(* does between them it could do before the write.                         *)
(***************************************************************************)
EXTENDS Integers

CONSTANTS
  Registers,         \* registers that can be written
  Values,            \* values of a register
  NoRegister,        \* no register is being set
  NoValue,           \* no value was written yet
  MaxWriteFailTime,  \* max_write_fail_time_s of the device
  MaxSets            \* bound: number of values set over MQTT

ASSUME WriteAssumption ==
  /\ NoRegister \notin Registers
  /\ NoValue \notin Values
  /\ MaxWriteFailTime \in Nat
  /\ MaxSets \in Nat

VARIABLES
  valueToSet, dirty, writeFail,  \* the state of TRegisterHandler,
  failTime,      \* whole seconds since its WriteFirstTryTime
  setting,       \* the MQTT thread has set this register and not yet added a task
  tasks,         \* register -> its tasks in the queue,
  batch,         \* taken from the queue by the serial thread,
  retry,         \* and kept for the next cycle
  pc,            \* where the serial thread is
  cur, temp,     \* the register of its task and the value it writes
  portOpen, connected, supported, \* state of the port, the device, the registers
  sets,          \* number of values set so far
  wrote,         \* history: the last value that was written to the device
  pending,       \* history: registers whose last value is neither written nor given up
  invalid,       \* history: registers whose last text could not be converted
  age            \* history: seconds since the last value was set

handlerVars == <<valueToSet, dirty, writeFail, failTime>>
queueVars == <<tasks, batch, retry>>
deviceVars == <<portOpen, connected, supported>>
historyVars == <<sets, wrote, pending, invalid, age>>
vars == <<handlerVars, setting, queueVars, pc, cur, temp, deviceVars, historyVars>>

ThreadState == {"wait", "run", "access", "write", "end", "cycle"}

\* Seconds are counted until they make no difference.
Longest == MaxWriteFailTime + 1

NoTasks == [r \in Registers |-> 0]

Init ==
  /\ valueToSet \in [Registers -> Values]
  /\ dirty = [r \in Registers |-> FALSE]
  /\ writeFail = [r \in Registers |-> FALSE]
  /\ failTime = [r \in Registers |-> 0]
  /\ setting = NoRegister
  /\ tasks = NoTasks
  /\ batch = NoTasks
  /\ retry = NoTasks
  /\ pc = "wait"
  /\ cur = NoRegister
  /\ temp = NoValue
  /\ portOpen \in BOOLEAN
  /\ connected \in BOOLEAN
  /\ supported \in [Registers -> BOOLEAN]
  /\ sets = 0
  /\ wrote = [r \in Registers |-> NoValue]
  /\ pending = {}
  /\ invalid = {}
  /\ age = [r \in Registers |-> 0]

-----------------------------------------------------------------------------
(* The MQTT thread: TSerialPortDriver::SetValueToChannel.                  *)

SetTextValue(r, v) ==
  /\ setting = NoRegister
  /\ sets < MaxSets
  /\ dirty' = [dirty EXCEPT ![r] = TRUE]
  /\ valueToSet' = [valueToSet EXCEPT ![r] = v]
  /\ setting' = r
  /\ sets' = sets + 1
  /\ pending' = pending \cup {r}
  /\ invalid' = invalid \ {r}
  /\ age' = [age EXCEPT ![r] = 0]
  /\ UNCHANGED <<writeFail, failTime, queueVars, pc, cur, temp, deviceVars, wrote>>

\* The text cannot be converted: Dirty is set before the conversion throws.
SetInvalidValue(r) ==
  /\ setting = NoRegister
  /\ sets < MaxSets
  /\ dirty' = [dirty EXCEPT ![r] = TRUE]
  /\ sets' = sets + 1
  /\ invalid' = invalid \cup {r}
  /\ UNCHANGED <<valueToSet, writeFail, failTime, setting, queueVars, pc, cur, temp, deviceVars,
                 wrote, pending, age>>

AddTask ==
  /\ setting # NoRegister
  /\ tasks' = [tasks EXCEPT ![setting] = @ + 1]
  /\ setting' = NoRegister
  /\ UNCHANGED <<handlerVars, batch, retry, pc, cur, temp, deviceVars, historyVars>>

-----------------------------------------------------------------------------
(* The serial thread: TSerialClient::WaitForPollAndFlush.                  *)

TakeTasks ==
  /\ pc = "wait"
  /\ tasks # NoTasks
  /\ batch' = tasks
  /\ tasks' = NoTasks
  /\ pc' = "run"
  /\ UNCHANGED <<handlerVars, setting, retry, cur, temp, deviceVars, historyVars>>

EndBatch ==
  /\ pc = "run"
  /\ batch = NoTasks
  /\ pc' = "wait"
  /\ UNCHANGED <<handlerVars, setting, queueVars, cur, temp, deviceVars, historyVars>>

\* The wait is over and the queue is empty.
EndWait ==
  /\ pc = "wait"
  /\ tasks = NoTasks
  /\ tasks' = retry
  /\ retry' = NoTasks
  /\ pc' = "cycle"
  /\ UNCHANGED <<handlerVars, setting, batch, cur, temp, deviceVars, historyVars>>

\* The poll, and the opening of the port, change what the next tasks find.
Cycle ==
  /\ pc = "cycle"
  /\ portOpen' \in BOOLEAN
  /\ connected' \in BOOLEAN
  /\ supported' \in [Registers -> BOOLEAN]
  /\ pc' = "wait"
  /\ UNCHANGED <<handlerVars, setting, queueVars, cur, temp, historyVars>>

-----------------------------------------------------------------------------
(* TWriteChannelSerialClientTask::Run.                                     *)

\* Tasks of different registers are run in any order.
BeginTask(r) ==
  /\ pc = "run"
  /\ batch[r] > 0
  /\ batch' = [batch EXCEPT ![r] = @ - 1]
  /\ IF dirty[r] THEN pc' = "access" /\ cur' = r
                 ELSE UNCHANGED <<pc, cur>>
  /\ UNCHANGED <<handlerVars, setting, tasks, retry, temp, deviceVars, historyVars>>

\* Mutant: every failure counts as the first one.
MutantAlwaysFirst(r) == 0

\* The time since the first failure of the value, which may be this one.
FirstTry(r) == IF writeFail[r] THEN failTime[r] ELSE 0

GivesUp(r) == FirstTry(r) > MaxWriteFailTime

\* The port is closed or the device is disconnected: NeedRetryAfterWriteFail.
Defer ==
  /\ pc = "access"
  /\ ~ portOpen \/ (supported[cur] /\ ~ connected)
  /\ pc' = "run"
  /\ writeFail' = [writeFail EXCEPT ![cur] = ~ GivesUp(cur)]
  /\ failTime' = [failTime EXCEPT ![cur] = FirstTry(cur)]
  /\ IF GivesUp(cur)
     THEN /\ dirty' = [dirty EXCEPT ![cur] = FALSE]
          /\ pending' = pending \ {cur}
          /\ UNCHANGED retry
     ELSE /\ retry' = [retry EXCEPT ![cur] = @ + 1]
          /\ UNCHANGED <<dirty, pending>>
  /\ UNCHANGED <<valueToSet, setting, tasks, batch, cur, temp, deviceVars, sets, wrote, invalid, age>>

\* Another task of the register will follow this one.
Followed(r) == tasks[r] + batch[r] + retry[r] > 0 \/ setting = r

\* The firmware does not support the register.  Dirty stays: the value is given up
\* unless another task finds the register supported.
Cancel ==
  /\ pc = "access"
  /\ portOpen /\ ~ supported[cur]
  /\ pc' = "run"
  /\ pending' = IF Followed(cur) THEN pending ELSE pending \ {cur}
  /\ UNCHANGED <<handlerVars, setting, queueVars, cur, temp, deviceVars, sets, wrote, invalid, age>>

Accessible == portOpen /\ supported[cur] /\ connected

\* PrepareToAccess fails, which may disconnect the device.
PrepareFailed ==
  /\ pc = "access"
  /\ Accessible
  /\ connected' \in BOOLEAN
  /\ pc' = "end"
  /\ UNCHANGED <<handlerVars, setting, queueVars, cur, temp, portOpen, supported, historyVars>>

\* Mutant: a write that is tried again has the value that was taken first.
MutantTakenOnce == IF writeFail[cur] /\ temp # NoValue THEN temp ELSE valueToSet[cur]

TakenValue == valueToSet[cur]

\* TRegisterHandler::Flush takes the value it writes.
BeginFlush ==
  /\ pc = "access"
  /\ Accessible
  /\ temp' = TakenValue
  /\ pc' = "write"
  /\ UNCHANGED <<handlerVars, setting, queueVars, cur, deviceVars, historyVars>>

\* Mutants: a value that was set during the write is forgotten; the handler stays
\* dirty until the next task.
MutantForgets == FALSE
MutantStaysDirty == TRUE

\* Nothing is left to write unless the value was changed meanwhile.
StaysDirty == temp # valueToSet[cur]

\* The outcome of a write of temp settles the value of the register.
Outcome == IF temp = valueToSet[cur] THEN pending \ {cur} ELSE pending

Settled ==
  /\ dirty' = [dirty EXCEPT ![cur] = StaysDirty]
  /\ writeFail' = [writeFail EXCEPT ![cur] = FALSE]
  /\ pending' = Outcome
  /\ UNCHANGED failTime

WriteOk ==
  /\ pc = "write"
  /\ wrote' = [wrote EXCEPT ![cur] = temp]
  /\ connected' = TRUE
  /\ Settled
  /\ pc' = "end"
  /\ UNCHANGED <<valueToSet, setting, queueVars, cur, temp, portOpen, supported, sets, invalid, age>>

\* An exception that a retry would not change: HandleWriteErrorNoRetry.
WriteRejected ==
  /\ pc = "write"
  /\ connected' \in BOOLEAN
  /\ Settled
  /\ pc' = "end"
  /\ UNCHANGED <<valueToSet, setting, queueVars, cur, temp, portOpen, supported, sets, wrote, invalid, age>>

\* Any other error: HandleWriteErrorRetryWrite.  The device may have got the value.
WriteFailed ==
  /\ pc = "write"
  /\ connected' \in BOOLEAN
  /\ wrote' \in {wrote, [wrote EXCEPT ![cur] = temp]}
  /\ failTime' = [failTime EXCEPT ![cur] = FirstTry(cur)]
  /\ writeFail' = [writeFail EXCEPT ![cur] = ~ GivesUp(cur)]
  /\ dirty' = [dirty EXCEPT ![cur] = IF GivesUp(cur) THEN StaysDirty ELSE @]
  /\ pending' = IF GivesUp(cur) THEN Outcome ELSE pending
  /\ pc' = "end"
  /\ UNCHANGED <<valueToSet, setting, queueVars, cur, temp, portOpen, supported, sets, invalid, age>>

EndTask ==
  /\ pc = "end"
  /\ retry' = IF dirty[cur] THEN [retry EXCEPT ![cur] = @ + 1] ELSE retry
  /\ pc' = "run"
  /\ UNCHANGED <<handlerVars, setting, tasks, batch, cur, temp, deviceVars, historyVars>>

-----------------------------------------------------------------------------
\* A second passes.
Tick ==
  LET later(time) == [r \in Registers |-> IF time[r] < Longest THEN time[r] + 1 ELSE Longest]
  IN /\ failTime' = later(failTime)
     /\ age' = later(age)
     /\ UNCHANGED <<valueToSet, dirty, writeFail, setting, queueVars, pc, cur, temp, deviceVars,
                    sets, wrote, pending, invalid>>

Mqtt == \/ \E r \in Registers, v \in Values : SetTextValue(r, v)
        \/ \E r \in Registers : SetInvalidValue(r)
        \/ AddTask

Attempt == Defer \/ Cancel \/ BeginFlush

Serial == \/ TakeTasks \/ EndBatch \/ EndWait \/ Cycle
          \/ \E r \in Registers : BeginTask(r)
          \/ Attempt \/ PrepareFailed
          \/ WriteOk \/ WriteRejected \/ WriteFailed \/ EndTask

Next == Mqtt \/ Serial \/ Tick

Spec == Init /\ [][Next]_vars

\* Both threads go on, time passes, and a device that is connected is accessible now
\* and then: its preparation does not fail for ever.
FairSpec ==
  /\ Spec
  /\ WF_vars(Serial) /\ WF_vars(AddTask) /\ WF_vars(Tick)
  /\ SF_vars(Attempt)

-----------------------------------------------------------------------------
TypeOK ==
  /\ valueToSet \in [Registers -> Values]
  /\ dirty \in [Registers -> BOOLEAN]
  /\ writeFail \in [Registers -> BOOLEAN]
  /\ failTime \in [Registers -> 0..Longest]
  /\ setting \in Registers \cup {NoRegister}
  /\ tasks \in [Registers -> Nat]
  /\ batch \in [Registers -> Nat]
  /\ retry \in [Registers -> Nat]
  /\ pc \in ThreadState
  /\ cur \in Registers \cup {NoRegister}
  /\ pc \in {"access", "write", "end"} => cur \in Registers
  /\ temp \in Values \cup {NoValue}
  /\ portOpen \in BOOLEAN
  /\ connected \in BOOLEAN
  /\ supported \in [Registers -> BOOLEAN]
  /\ sets \in Nat
  /\ wrote \in [Registers -> Values \cup {NoValue}]
  /\ pending \subseteq Registers
  /\ invalid \subseteq Registers
  /\ age \in [Registers -> 0..Longest]

\* Some task will see to the register.
HasTask(r) ==
  \/ Followed(r)
  \/ cur = r /\ pc \in {"access", "write", "end"}

\* register_handler.cpp: whenever the MQTT thread changes the value, and however the
\* serial thread ends its attempts, a value that is neither written nor given up is
\* still marked and a task for it is on its way.
NothingForgotten == \A r \in pending : dirty[r] /\ HasTask(r)

\* A value that was written, rejected or given up is not written again by what is
\* left of its tasks (only a text that cannot be converted may have that effect).
WrittenOnce == [][pc = "access" /\ pc' = "write" => cur \in pending \cup invalid]_vars

\* The flags and the tasks of the two threads implement ValueDelivery: a register is open as long
\* as it is marked and a task will see to it. However the two threads meet, only such a register
\* is written, with its last value, and only the outcome of that very value settles it.
\* (SetTextValue, Flush, NeedFlush, WaitForPollAndFlush)
Delivery == INSTANCE ValueDelivery WITH
  wanted <- valueToSet,
  open <- {r \in Registers : dirty[r] /\ HasTask(r)},
  attempt <- IF pc = "write" THEN {[register |-> cur, value |-> temp]} ELSE {},
  written <- wrote

LastValueDelivered == Delivery!Spec

\* Every value is written or given up in the end.
Resolved == \A r \in Registers : r \in pending ~> r \notin pending

\* README.md:364: attempts to write a value go on for max_write_fail_time_s.  It is
\* not given up before, unless the device refuses it.  The code does not keep this:
\* README.md beside this module tells the counterexample.
GivenUpLate ==
  [][\A r \in Registers :
       r \in pending \ pending' /\ pc' = "run" /\ (portOpen => supported[r])
         => age[r] >= MaxWriteFailTime]_vars
=============================================================================
