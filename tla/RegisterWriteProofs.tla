------------------------ MODULE RegisterWriteProofs ------------------------
(***************************************************************************)
(* Proofs about RegisterWrite: no value set over MQTT is forgotten, and    *)
(* none is written again after it was settled, for any number of registers *)
(* and values, and any interleaving of the two threads.                    *)
(***************************************************************************)
EXTENDS RegisterWrite, TLAPS

USE WriteAssumption DEF WriteAssumption

\* What the serial thread does when it ends a task or gives one up.
LEMMA FirstTryType ==
  ASSUME TypeOK, NEW r \in Registers
  PROVE  FirstTry(r) \in 0..Longest /\ GivesUp(r) \in BOOLEAN
BY DEF TypeOK, FirstTry, GivesUp, Longest

\* The types that all steps of the serial thread keep, by step.
LEMMA MqttType ==
  ASSUME TypeOK, Mqtt
  PROVE  TypeOK'
<1>1. ASSUME NEW r \in Registers, NEW v \in Values, SetTextValue(r, v)
      PROVE  TypeOK'
  BY <1>1 DEF SetTextValue, TypeOK, Longest, queueVars, deviceVars
<1>2. ASSUME NEW r \in Registers, SetInvalidValue(r)
      PROVE  TypeOK'
  BY <1>2 DEF SetInvalidValue, TypeOK, queueVars, deviceVars
<1>3. CASE AddTask
  BY <1>3 DEF AddTask, TypeOK, handlerVars, deviceVars, historyVars
<1> QED
  BY <1>1, <1>2, <1>3 DEF Mqtt

LEMMA QueueType ==
  ASSUME TypeOK, TakeTasks \/ EndBatch \/ EndWait \/ Cycle
  PROVE  TypeOK'
<1>1. NoTasks \in [Registers -> Nat]
  BY DEF NoTasks
<1>2. CASE TakeTasks
  BY <1>1, <1>2 DEF TakeTasks, TypeOK, ThreadState, handlerVars, deviceVars, historyVars
<1>3. CASE EndBatch
  BY <1>3 DEF EndBatch, TypeOK, ThreadState, handlerVars, queueVars, deviceVars, historyVars
<1>4. CASE EndWait
  BY <1>1, <1>4 DEF EndWait, TypeOK, ThreadState, handlerVars, deviceVars, historyVars
<1>5. CASE Cycle
  BY <1>5 DEF Cycle, TypeOK, ThreadState, handlerVars, queueVars, historyVars
<1> QED
  BY <1>2, <1>3, <1>4, <1>5

LEMMA TaskType ==
  ASSUME TypeOK, (\E r \in Registers : BeginTask(r)) \/ Attempt \/ PrepareFailed \/ EndTask
  PROVE  TypeOK'
<1>1. ASSUME NEW r \in Registers, BeginTask(r)
      PROVE  TypeOK'
  BY <1>1 DEF BeginTask, TypeOK, ThreadState, handlerVars, deviceVars, historyVars
<1>2. CASE Defer
  <2>1. cur \in Registers
    BY <1>2 DEF Defer, TypeOK
  <2>2. FirstTry(cur) \in 0..Longest /\ GivesUp(cur) \in BOOLEAN
    BY <2>1, FirstTryType
  <2>3. writeFail' \in [Registers -> BOOLEAN] /\ failTime' \in [Registers -> 0..Longest]
    BY <1>2, <2>2 DEF Defer, TypeOK
  <2>4. CASE GivesUp(cur)
    BY <1>2, <2>3, <2>4 DEF Defer, TypeOK, ThreadState, deviceVars
  <2>5. CASE ~ GivesUp(cur)
    <3>1. retry' \in [Registers -> Nat] /\ UNCHANGED <<dirty, pending>>
      BY <1>2, <2>1, <2>5 DEF Defer, TypeOK
    <3> QED
      BY <1>2, <2>3, <3>1 DEF Defer, TypeOK, ThreadState, deviceVars
  <2> QED
    BY <2>4, <2>5
<1>3. CASE Cancel
  BY <1>3 DEF Cancel, TypeOK, ThreadState, handlerVars, queueVars, deviceVars
<1>4. CASE BeginFlush
  BY <1>4 DEF BeginFlush, TakenValue, TypeOK, ThreadState, handlerVars, queueVars, deviceVars, historyVars
<1>5. CASE PrepareFailed
  BY <1>5 DEF PrepareFailed, TypeOK, ThreadState, handlerVars, queueVars, historyVars
<1>6. CASE EndTask
  BY <1>6 DEF EndTask, TypeOK, ThreadState, handlerVars, deviceVars, historyVars
<1> QED
  BY <1>1, <1>2, <1>3, <1>4, <1>5, <1>6 DEF Attempt

LEMMA WriteType ==
  ASSUME TypeOK, WriteOk \/ WriteRejected \/ WriteFailed
  PROVE  TypeOK'
<1>1. cur \in Registers
  BY DEF WriteOk, WriteRejected, WriteFailed, TypeOK
<1>2. StaysDirty \in BOOLEAN /\ Outcome \subseteq Registers
  BY DEF StaysDirty, Outcome, TypeOK
<1>3. CASE WriteOk
  BY <1>1, <1>2, <1>3 DEF WriteOk, Settled, TypeOK, ThreadState, queueVars
<1>4. CASE WriteRejected
  BY <1>1, <1>2, <1>4 DEF WriteRejected, Settled, TypeOK, ThreadState, queueVars
<1>5. CASE WriteFailed
  <2>1. FirstTry(cur) \in 0..Longest /\ GivesUp(cur) \in BOOLEAN
    BY <1>1, FirstTryType
  <2> QED
    BY <1>1, <1>2, <1>5, <2>1 DEF WriteFailed, TypeOK, ThreadState, queueVars
<1> QED
  BY <1>3, <1>4, <1>5

LEMMA TickType ==
  ASSUME TypeOK, Tick
  PROVE  TypeOK'
BY DEF Tick, TypeOK, Longest, queueVars, deviceVars

\* The type invariant: flags, times up to the limit, counts of tasks that are never
\* negative, and a register for every task that is run.
THEOREM TypeCorrect == Spec => []TypeOK
<1>1. Init => TypeOK
  BY DEF Init, TypeOK, NoTasks, ThreadState, Longest
<1>2. TypeOK /\ [Next]_vars => TypeOK'
  <2> SUFFICES ASSUME TypeOK, [Next]_vars PROVE TypeOK'
    OBVIOUS
  <2>1. CASE UNCHANGED vars
    BY <2>1 DEF TypeOK, vars, handlerVars, queueVars, deviceVars, historyVars
  <2> QED
    BY <2>1, MqttType, QueueType, TaskType, WriteType, TickType DEF Next, Serial
<1> QED
  BY <1>1, <1>2, PTL DEF Spec
-----------------------------------------------------------------------------
(* The inductive invariant.                                                *)

\* The serial thread takes new tasks only when it has run all it had.
BatchDone == pc \in {"wait", "cycle"} => batch = NoTasks

\* Only a marked register is tried, and it stays marked until the outcome.
DirtyWhileTried == pc \in {"access", "write"} => dirty[cur]

\* A register that will be written has a value that is not settled.
OnlyUnsettled == \A r \in Registers : dirty[r] /\ HasTask(r) => r \in pending \cup invalid

WriteInv == TypeOK /\ BatchDone /\ DirtyWhileTried /\ NothingForgotten /\ OnlyUnsettled

LEMMA MqttInv ==
  ASSUME WriteInv, Mqtt
  PROVE  WriteInv'
<1>0. TypeOK'
  BY MqttType DEF WriteInv
<1>1. BatchDone'
  BY DEF WriteInv, BatchDone, Mqtt, SetTextValue, SetInvalidValue, AddTask, queueVars
<1>2. ASSUME NEW r \in Registers, NEW v \in Values, SetTextValue(r, v)
      PROVE  WriteInv'
  BY <1>0, <1>1, <1>2 DEF SetTextValue, WriteInv, TypeOK, DirtyWhileTried, NothingForgotten, OnlyUnsettled,
     HasTask, Followed, queueVars
<1>3. ASSUME NEW r \in Registers, SetInvalidValue(r)
      PROVE  WriteInv'
  BY <1>0, <1>1, <1>3 DEF SetInvalidValue, WriteInv, TypeOK, DirtyWhileTried, NothingForgotten, OnlyUnsettled,
     HasTask, Followed, queueVars
<1>4. CASE AddTask
  <2>1. \A r \in Registers : HasTask(r)' <=> HasTask(r)
    BY <1>4 DEF AddTask, WriteInv, TypeOK, HasTask, Followed
  <2> QED
    BY <1>0, <1>1, <1>4, <2>1 DEF AddTask, WriteInv, TypeOK, DirtyWhileTried, NothingForgotten, OnlyUnsettled,
       handlerVars, historyVars
<1> QED
  BY <1>2, <1>3, <1>4 DEF Mqtt

LEMMA QueueInv ==
  ASSUME WriteInv, TakeTasks \/ EndBatch \/ EndWait \/ Cycle
  PROVE  WriteInv'
<1>0. TypeOK'
  BY QueueType DEF WriteInv
<1>1. UNCHANGED <<dirty, pending, invalid, cur>> /\ pc' \in {"run", "wait", "cycle"}
  BY DEF TakeTasks, EndBatch, EndWait, Cycle, handlerVars, historyVars
<1>2. BatchDone'
  BY DEF WriteInv, BatchDone, NoTasks, TakeTasks, EndBatch, EndWait, Cycle, queueVars
<1>3. \A r \in Registers : HasTask(r)' <=> HasTask(r)
  <2> SUFFICES ASSUME NEW r \in Registers PROVE HasTask(r)' <=> HasTask(r)
    OBVIOUS
  <2>1. tasks'[r] + batch'[r] + retry'[r] = tasks[r] + batch[r] + retry[r] /\ setting' = setting
    BY DEF WriteInv, BatchDone, NoTasks, TypeOK, TakeTasks, EndBatch, EndWait, Cycle, queueVars
  <2>2. pc \in {"run", "wait", "cycle"}
    BY DEF TakeTasks, EndBatch, EndWait, Cycle
  <2> QED
    BY <1>1, <2>1, <2>2 DEF HasTask, Followed
<1>4. pending \subseteq Registers
  BY DEF WriteInv, TypeOK
<1> QED
  BY <1>0, <1>1, <1>2, <1>3, <1>4 DEF WriteInv, DirtyWhileTried, NothingForgotten, OnlyUnsettled

LEMMA TaskInv ==
  ASSUME WriteInv, (\E r \in Registers : BeginTask(r)) \/ Attempt \/ PrepareFailed \/ EndTask
  PROVE  WriteInv'
<1>0. TypeOK'
  BY TaskType DEF WriteInv
<1>1. BatchDone' /\ invalid' = invalid
  BY DEF WriteInv, BatchDone, BeginTask, Attempt, Defer, Cancel, BeginFlush, PrepareFailed, EndTask, historyVars
<1>2. ASSUME NEW r \in Registers, BeginTask(r)
      PROVE  WriteInv'
  BY <1>0, <1>1, <1>2 DEF BeginTask, WriteInv, TypeOK, DirtyWhileTried, NothingForgotten, OnlyUnsettled,
     HasTask, Followed, handlerVars, historyVars
<1>3. CASE Defer
  BY <1>0, <1>1, <1>3 DEF Defer, WriteInv, TypeOK, DirtyWhileTried, NothingForgotten, OnlyUnsettled,
     HasTask, Followed
<1>4. CASE Cancel
  BY <1>0, <1>1, <1>4 DEF Cancel, WriteInv, TypeOK, DirtyWhileTried, NothingForgotten, OnlyUnsettled,
     HasTask, Followed, handlerVars, queueVars
<1>5. CASE BeginFlush
  BY <1>0, <1>1, <1>5 DEF BeginFlush, WriteInv, TypeOK, DirtyWhileTried, NothingForgotten, OnlyUnsettled,
     HasTask, Followed, handlerVars, queueVars, historyVars
<1>6. CASE PrepareFailed
  BY <1>0, <1>1, <1>6 DEF PrepareFailed, WriteInv, TypeOK, DirtyWhileTried, NothingForgotten, OnlyUnsettled,
     HasTask, Followed, handlerVars, queueVars, historyVars
<1>7. CASE EndTask
  BY <1>0, <1>1, <1>7 DEF EndTask, WriteInv, TypeOK, DirtyWhileTried, NothingForgotten, OnlyUnsettled,
     HasTask, Followed, handlerVars, historyVars
<1> QED
  BY <1>2, <1>3, <1>4, <1>5, <1>6, <1>7 DEF Attempt

LEMMA WriteStepInv ==
  ASSUME WriteInv, WriteOk \/ WriteRejected \/ WriteFailed
  PROVE  WriteInv'
<1>0. TypeOK'
  BY WriteType DEF WriteInv
<1>1. BatchDone' /\ DirtyWhileTried'
  BY DEF WriteInv, BatchDone, DirtyWhileTried, WriteOk, WriteRejected, WriteFailed
<1>2. cur \in Registers /\ pc = "write" /\ pc' = "end" /\ UNCHANGED <<setting, queueVars, cur, invalid>>
  BY DEF WriteInv, TypeOK, WriteOk, WriteRejected, WriteFailed
<1>3. \A r \in Registers : HasTask(r)' <=> HasTask(r)
  BY <1>2 DEF HasTask, Followed, queueVars
<1>4. dirty[cur] /\ HasTask(cur) /\ cur \in pending \cup invalid
  BY <1>2 DEF WriteInv, DirtyWhileTried, OnlyUnsettled, HasTask
<1>5. \/ dirty' = dirty /\ pending' = pending
      \/ dirty' = [dirty EXCEPT ![cur] = StaysDirty] /\ pending' = Outcome
  BY <1>2, <1>4 DEF WriteInv, TypeOK, WriteOk, WriteRejected, WriteFailed, Settled
<1> QED
  BY <1>0, <1>1, <1>2, <1>3, <1>4, <1>5 DEF WriteInv, TypeOK, NothingForgotten, OnlyUnsettled, StaysDirty, Outcome

LEMMA WriteInvariant == Spec => []WriteInv
<1>1. Init => WriteInv
  <2>1. Init => TypeOK
    BY DEF Init, TypeOK, NoTasks, ThreadState, Longest
  <2> QED
    BY <2>1 DEF Init, WriteInv, BatchDone, DirtyWhileTried, NothingForgotten, OnlyUnsettled
<1>2. WriteInv /\ [Next]_vars => WriteInv'
  <2> SUFFICES ASSUME WriteInv, [Next]_vars PROVE WriteInv'
    OBVIOUS
  <2>1. CASE Tick
    BY <2>1, TickType DEF Tick, WriteInv, BatchDone, DirtyWhileTried, NothingForgotten, OnlyUnsettled,
       HasTask, Followed, queueVars
  <2>2. CASE UNCHANGED vars
    BY <2>2 DEF WriteInv, TypeOK, BatchDone, DirtyWhileTried, NothingForgotten, OnlyUnsettled,
       HasTask, Followed, vars, handlerVars, queueVars, deviceVars, historyVars
  <2> QED
    BY <2>1, <2>2, MqttInv, QueueInv, TaskInv, WriteStepInv DEF Next, Serial
<1> QED
  BY <1>1, <1>2, PTL DEF Spec

\* No value that was set over MQTT is forgotten, whatever the interleaving of the two
\* threads: until it is written, refused or given up, its register stays marked and a
\* task for it is queued, kept for the next cycle, running or about to be added.
THEOREM NothingIsForgotten == Spec => []NothingForgotten
<1>1. WriteInv => NothingForgotten
  BY DEF WriteInv
<1> QED
  BY <1>1, WriteInvariant, PTL

\* The tasks that are left over when a value is settled (one was added for every value
\* that was set) do not write it again.
THEOREM WriteOnce == Spec => WrittenOnce
<1>1. WriteInv /\ [Next]_vars => [pc = "access" /\ pc' = "write" => cur \in pending \cup invalid]_vars
  <2> SUFFICES ASSUME WriteInv, pc = "access" PROVE cur \in pending \cup invalid
    OBVIOUS
  <2> QED
    BY DEF WriteInv, TypeOK, DirtyWhileTried, OnlyUnsettled, HasTask
<1> QED
  BY <1>1, WriteInvariant, PTL DEF Spec, WrittenOnce
-----------------------------------------------------------------------------
(* The refinement of ValueDelivery. Each step of the two threads is one of its actions or leaves *)
(* its variables alone.                                                                          *)

Open == {r \in Registers : dirty[r] /\ HasTask(r)}

Attempted == IF pc = "write" THEN {[register |-> cur, value |-> temp]} ELSE {}

\* What a step that changes neither the flags nor whether a register has a task leaves alone.
LEMMA OpenStays ==
  ASSUME UNCHANGED dirty, \A r \in Registers : dirty[r] => (HasTask(r)' <=> HasTask(r))
  PROVE  Open' = Open
BY DEF Open

LEMMA MqttDelivers ==
  ASSUME WriteInv, Mqtt
  PROVE  [Delivery!Next]_(Delivery!vars)
<1>1. ASSUME NEW r \in Registers, NEW v \in Values, SetTextValue(r, v)
      PROVE  Delivery!Set(r, v)
  <2>1. /\ dirty' = [dirty EXCEPT ![r] = TRUE] /\ setting' = r /\ dirty \in [Registers -> BOOLEAN]
        /\ setting = NoRegister /\ UNCHANGED <<tasks, batch, retry, pc, cur, temp, wrote>>
        /\ valueToSet' = [valueToSet EXCEPT ![r] = v]
    BY <1>1 DEF SetTextValue, WriteInv, TypeOK, queueVars
  <2>2. \A q \in Registers : HasTask(q)' <=> HasTask(q) \/ q = r
    BY <2>1 DEF HasTask, Followed
  <2>3. Open' = Open \cup {r}
    BY <2>1, <2>2 DEF Open
  <2> QED
    BY <2>1, <2>3 DEF Delivery!Set, Open
<1>2. ASSUME NEW r \in Registers, SetInvalidValue(r)
      PROVE  Delivery!SetAgain(r) \/ UNCHANGED Delivery!vars
  <2>1. /\ dirty' = [dirty EXCEPT ![r] = TRUE] /\ dirty \in [Registers -> BOOLEAN]
        /\ UNCHANGED <<setting, tasks, batch, retry, pc, cur, temp, wrote, valueToSet>>
    BY <1>2 DEF SetInvalidValue, WriteInv, TypeOK, queueVars
  <2>2. \A q \in Registers : HasTask(q)' <=> HasTask(q)
    BY <2>1 DEF HasTask, Followed
  <2>3. CASE HasTask(r)
    <3>1. Open' = Open \cup {r}
      BY <2>1, <2>2, <2>3 DEF Open
    <3> QED
      BY <2>1, <3>1 DEF Delivery!SetAgain, Open
  <2>4. CASE ~HasTask(r)
    <3>1. Open' = Open
      BY <2>1, <2>2, <2>4 DEF Open
    <3> QED
      BY <2>1, <3>1 DEF Delivery!vars, Open
  <2> QED
    BY <2>3, <2>4
<1>3. CASE AddTask
  <2>1. \A r \in Registers : HasTask(r)' <=> HasTask(r)
    BY <1>3 DEF AddTask, WriteInv, TypeOK, HasTask, Followed
  <2>2. UNCHANGED <<valueToSet, dirty, pc, cur, temp, wrote>>
    BY <1>3 DEF AddTask, handlerVars, historyVars
  <2> QED
    BY <2>1, <2>2, OpenStays DEF Delivery!vars, Open
<1> QED
  BY <1>1, <1>2, <1>3 DEF Mqtt, Delivery!Next

\* Tasks go from one queue to the next; none of a marked register is lost on the way.
LEMMA QueueDelivers ==
  ASSUME WriteInv, TakeTasks \/ EndBatch \/ EndWait \/ Cycle \/ PrepareFailed \/ EndTask
                     \/ (\E r \in Registers : BeginTask(r))
  PROVE  UNCHANGED Delivery!vars
<1>1. UNCHANGED <<valueToSet, dirty, wrote, temp>> /\ pc # "write" /\ pc' # "write"
  BY DEF TakeTasks, EndBatch, EndWait, Cycle, PrepareFailed, EndTask, BeginTask, handlerVars, historyVars
<1>2. CASE TakeTasks \/ EndBatch \/ EndWait \/ Cycle
  <2> SUFFICES ASSUME NEW r \in Registers PROVE HasTask(r)' <=> HasTask(r)
    BY <1>1, OpenStays DEF Delivery!vars, Open
  <2>1. tasks'[r] + batch'[r] + retry'[r] = tasks[r] + batch[r] + retry[r] /\ setting' = setting
    BY <1>2 DEF WriteInv, BatchDone, NoTasks, TypeOK, TakeTasks, EndBatch, EndWait, Cycle, queueVars
  <2>2. pc \in {"run", "wait", "cycle"} /\ pc' \in {"run", "wait", "cycle"}
    BY <1>2 DEF TakeTasks, EndBatch, EndWait, Cycle
  <2> QED
    BY <2>1, <2>2 DEF HasTask, Followed
<1>3. CASE PrepareFailed
  <2>1. \A r \in Registers : HasTask(r)' <=> HasTask(r)
    BY <1>3 DEF PrepareFailed, HasTask, Followed, queueVars
  <2> QED
    BY <1>1, <2>1, OpenStays DEF Delivery!vars, Open
<1>4. CASE EndTask
  <2> SUFFICES ASSUME NEW r \in Registers, dirty[r] PROVE HasTask(r)' <=> HasTask(r)
    BY <1>1, OpenStays DEF Delivery!vars, Open
  <2>1. pc = "end" /\ pc' = "run" /\ UNCHANGED <<setting, tasks, batch, cur>>
    BY <1>4 DEF EndTask
  <2>2. CASE r = cur
    <3>1. retry' = [retry EXCEPT ![cur] = @ + 1]
      BY <1>4, <2>2 DEF EndTask
    <3>2. tasks[r] \in Nat /\ batch[r] \in Nat /\ retry[r] \in Nat /\ retry'[r] = retry[r] + 1
      BY <2>2, <3>1 DEF WriteInv, TypeOK
    <3> QED
      BY <2>1, <2>2, <3>2 DEF HasTask, Followed
  <2>3. CASE r # cur
    <3>1. retry'[r] = retry[r]
      BY <1>4, <2>3 DEF EndTask, WriteInv, TypeOK
    <3> QED
      BY <2>1, <2>3, <3>1 DEF HasTask, Followed
  <2> QED
    BY <2>2, <2>3
<1>5. ASSUME NEW q \in Registers, BeginTask(q)
      PROVE  UNCHANGED Delivery!vars
  <2> SUFFICES ASSUME NEW r \in Registers, dirty[r] PROVE HasTask(r)' <=> HasTask(r)
    BY <1>1, OpenStays DEF Delivery!vars, Open
  <2>1. /\ pc = "run" /\ batch[q] > 0 /\ batch' = [batch EXCEPT ![q] = @ - 1]
        /\ UNCHANGED <<setting, tasks, retry>>
    BY <1>5 DEF BeginTask
  <2>2. tasks[r] \in Nat /\ batch[r] \in Nat /\ retry[r] \in Nat
    BY DEF WriteInv, TypeOK
  <2>3. CASE r = q
    <3>1. pc' = "access" /\ cur' = r
      BY <1>5, <2>3 DEF BeginTask
    <3> QED
      BY <2>1, <2>2, <2>3, <3>1 DEF HasTask, Followed
  <2>4. CASE r # q
    <3>1. batch'[r] = batch[r]
      BY <2>1, <2>4 DEF WriteInv, TypeOK
    <3>2. ~(cur' = r /\ pc' \in {"access", "write", "end"})
      BY <1>5, <2>4 DEF BeginTask
    <3> QED
      BY <2>1, <3>1, <3>2 DEF HasTask, Followed
  <2> QED
    BY <2>3, <2>4
<1> QED
  BY <1>2, <1>3, <1>4, <1>5

\* A task defers its register, which stays open unless its time is over, cancels it, or writes.
LEMMA AttemptDelivers ==
  ASSUME WriteInv, Attempt
  PROVE  [Delivery!Next]_(Delivery!vars)
<1>0. cur \in Registers /\ pc = "access" /\ dirty[cur] /\ HasTask(cur)
  BY DEF WriteInv, TypeOK, DirtyWhileTried, HasTask, Attempt, Defer, Cancel, BeginFlush
<1>1. CASE Defer
  <2>1. /\ UNCHANGED <<valueToSet, setting, tasks, batch, cur, wrote>> /\ pc' = "run"
    BY <1>1 DEF Defer
  <2>2. CASE GivesUp(cur)
    <3>1. dirty' = [dirty EXCEPT ![cur] = FALSE] /\ UNCHANGED retry
      BY <1>1, <2>2 DEF Defer
    <3>2. \A r \in Registers \ {cur} : HasTask(r)' <=> HasTask(r)
      BY <1>0, <2>1, <3>1 DEF HasTask, Followed
    <3>3. Open' = Open \ {cur}
      BY <1>0, <3>1, <3>2 DEF Open, WriteInv, TypeOK
    <3>4. PICK r \in Registers : r = cur
      BY <1>0
    <3>5. Delivery!GiveUp(r)
      BY <1>0, <2>1, <3>3, <3>4 DEF Delivery!GiveUp, Open
    <3> QED
      BY <3>5 DEF Delivery!Next
  <2>3. CASE ~GivesUp(cur)
    <3>1. retry' = [retry EXCEPT ![cur] = @ + 1] /\ UNCHANGED dirty
      BY <1>1, <2>3 DEF Defer
    <3>2. \A r \in Registers : HasTask(r)' <=> HasTask(r)
      BY <1>0, <2>1, <3>1 DEF HasTask, Followed, WriteInv, TypeOK
    <3> QED
      BY <1>0, <2>1, <3>1, <3>2, OpenStays DEF Delivery!vars, Open
  <2> QED
    BY <2>2, <2>3
<1>2. CASE Cancel
  <2>1. UNCHANGED <<valueToSet, dirty, setting, tasks, batch, retry, cur, wrote>> /\ pc' = "run"
    BY <1>2 DEF Cancel, handlerVars, queueVars
  <2>2. \A r \in Registers \ {cur} : HasTask(r)' <=> HasTask(r)
    BY <2>1 DEF HasTask, Followed
  <2>3. Open' = Open \/ Open' = Open \ {cur}
    BY <1>0, <2>1, <2>2 DEF Open
  <2>4. PICK r \in Registers : r = cur
    BY <1>0
  <2>5. UNCHANGED Delivery!vars \/ Delivery!GiveUp(r)
    BY <1>0, <2>1, <2>3, <2>4 DEF Delivery!vars, Delivery!GiveUp, Open
  <2> QED
    BY <2>5 DEF Delivery!Next
<1>3. CASE BeginFlush
  <2>1. /\ UNCHANGED <<valueToSet, dirty, setting, tasks, batch, retry, cur, wrote>>
        /\ pc' = "write" /\ temp' = valueToSet[cur]
    BY <1>3 DEF BeginFlush, TakenValue, handlerVars, queueVars, historyVars
  <2>2. \A r \in Registers : HasTask(r)' <=> HasTask(r)
    BY <1>0, <2>1 DEF HasTask, Followed
  <2>3. Open' = Open
    BY <2>1, <2>2 DEF Open
  <2>4. PICK r \in Registers : r = cur
    BY <1>0
  <2>5. Delivery!Begin(r)
    BY <1>0, <2>1, <2>3, <2>4 DEF Delivery!Begin, Open
  <2> QED
    BY <2>5 DEF Delivery!Next
<1> QED
  BY <1>1, <1>2, <1>3 DEF Attempt

\* A write has taken a value.
Taken == pc = "write" => temp \in Values

LEMMA TakenInvariant == Spec => []Taken
<1>1. Init => Taken
  BY DEF Init, Taken
<1>2. TypeOK /\ Taken /\ [Next]_vars => Taken'
  <2> SUFFICES ASSUME TypeOK, Taken, [Next]_vars, pc' = "write" PROVE temp' \in Values
    BY DEF Taken
  <2>1. CASE BeginFlush
    BY <2>1 DEF BeginFlush, TakenValue, TypeOK
  <2>2. CASE Mqtt \/ Tick \/ UNCHANGED vars
    BY <2>2 DEF Mqtt, SetTextValue, SetInvalidValue, AddTask, Tick, vars, Taken
  <2> QED
    BY <2>1, <2>2 DEF Next, Serial, Attempt, TakeTasks, EndBatch, EndWait, Cycle, BeginTask, Defer, Cancel,
       PrepareFailed, WriteOk, WriteRejected, WriteFailed, EndTask
<1> QED
  BY <1>1, <1>2, TypeCorrect, PTL DEF Spec

\* A write settles the value that it wrote, and no other.
LEMMA WriteDelivers ==
  ASSUME WriteInv, Taken, WriteOk \/ WriteRejected \/ WriteFailed
  PROVE  [Delivery!Next]_(Delivery!vars)
<1>1. /\ cur \in Registers /\ pc = "write" /\ pc' = "end"
      /\ UNCHANGED <<valueToSet, setting, tasks, batch, retry, cur>>
  BY DEF WriteInv, TypeOK, WriteOk, WriteRejected, WriteFailed, queueVars
<1>2. \A r \in Registers : HasTask(r)' <=> HasTask(r)
  BY <1>1 DEF HasTask, Followed
<1>3. dirty[cur] /\ HasTask(cur)
  BY <1>1 DEF WriteInv, DirtyWhileTried, HasTask
<1>4. dirty' = dirty \/ dirty' = [dirty EXCEPT ![cur] = StaysDirty]
  BY DEF WriteInv, TypeOK, WriteOk, WriteRejected, WriteFailed, Settled
<1>5. wrote' \in {wrote, [wrote EXCEPT ![cur] = temp]}
  BY DEF WriteOk, WriteRejected, WriteFailed
<1>6. Open' = Open \/ (temp = valueToSet[cur] /\ Open' = Open \ {cur})
  <2>1. CASE dirty' = dirty
    BY <1>2, <2>1, OpenStays
  <2>2. CASE dirty' = [dirty EXCEPT ![cur] = StaysDirty] /\ StaysDirty
    <3>1. dirty' = dirty
      BY <1>1, <1>3, <2>2 DEF WriteInv, TypeOK
    <3> QED
      BY <1>2, <3>1, OpenStays
  <2>3. CASE dirty' = [dirty EXCEPT ![cur] = StaysDirty] /\ ~StaysDirty
    <3>1. \A r \in Registers : dirty'[r] <=> dirty[r] /\ r # cur
      BY <1>1, <2>3 DEF StaysDirty, WriteInv, TypeOK
    <3> QED
      BY <1>2, <2>3, <3>1 DEF Open, StaysDirty
  <2> QED
    BY <1>4, <2>1, <2>2, <2>3
<1>7. temp \in Values
  BY <1>1 DEF Taken
<1>8. PICK r \in Registers, v \in Values : r = cur /\ v = temp
  BY <1>1, <1>7
<1>9. Delivery!End(r, v)
  BY <1>1, <1>5, <1>6, <1>8 DEF Delivery!End, Open
<1> QED
  BY <1>9 DEF Delivery!Next

\* The marks and the tasks implement ValueDelivery, for any registers, values and interleavings:
\* what is written is the last value, and only the outcome of the last value settles it.
THEOREM ValuesDelivered == Spec => LastValueDelivered
<1>1. Init => Delivery!Init
  BY DEF Init, Delivery!Init
<1>2. WriteInv /\ Taken /\ [Next]_vars => [Delivery!Next]_(Delivery!vars)
  <2> SUFFICES ASSUME WriteInv, Taken, [Next]_vars PROVE [Delivery!Next]_(Delivery!vars)
    OBVIOUS
  <2>1. CASE Tick
    <3>1. UNCHANGED <<valueToSet, dirty, setting, tasks, batch, retry, pc, cur, temp, wrote>>
      BY <2>1 DEF Tick, queueVars
    <3> QED
      BY <3>1 DEF Delivery!vars, HasTask, Followed
  <2>2. CASE UNCHANGED vars
    BY <2>2 DEF vars, handlerVars, queueVars, historyVars, Delivery!vars, HasTask, Followed
  <2> QED
    BY <2>1, <2>2, MqttDelivers, QueueDelivers, AttemptDelivers, WriteDelivers DEF Next, Serial
<1> QED
  BY <1>1, <1>2, WriteInvariant, TakenInvariant, PTL DEF Spec, LastValueDelivered, Delivery!Spec
=============================================================================
