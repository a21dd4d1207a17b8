--------------------------- MODULE FwUpdateProofs ---------------------------
(***************************************************************************)
(* Proofs about FwUpdate: the lock and the list of updates agree with the  *)
(* task, an acknowledged image is complete, and no update of a firmware    *)
(* leaves a device in its bootloader unseen, for any number of devices,    *)
(* components, blocks and retries.                                         *)
(***************************************************************************)
EXTENDS FwUpdate, TLAPS

USE FwAssumption DEF FwAssumption

-----------------------------------------------------------------------------
(* Types *)

LEMMA IdleType ==
  ASSUME NEW d \in Devices
  PROVE  Idle(d) \in Task /\ Idle(d).step = "none" /\ Idle(d).dev = d
BY DEF Idle, Task, Step, Operation, SoftwareType

\* The ways to go on after a component.
LEMMA NextComponentType ==
  ASSUME task \in Task, inProgress \in BOOLEAN, NEW left \in SUBSET Components, NextComponent(left)
  PROVE  /\ task' \in Task
         /\ inProgress' \in BOOLEAN
         /\ task'.dev = task.dev
         /\ \/ task'.step = "none" /\ inProgress' = FALSE
            \/ /\ task'.step = "lookup" /\ task'.type = "component" /\ task'.op = task.op
               /\ inProgress' = inProgress
<1>1. CASE left = {}
  <2>1. task' = Idle(task.dev) /\ inProgress' = FALSE
    BY <1>1 DEF NextComponent, Release
  <2>2. task.dev \in Devices
    BY DEF Task
  <2> QED
    BY <2>1, <2>2, IdleType
<1>2. CASE left # {}
  <2>1. PICK c \in left :
          /\ task' = [task EXCEPT !.step = "lookup", !.type = "component", !.left = left \ {c},
                                  !.block = 1, !.try = 0]
          /\ inProgress' = inProgress
    BY <1>2 DEF NextComponent
  <2>2. task' = [step |-> "lookup", op |-> task.op, dev |-> task.dev, type |-> "component",
                 left |-> left \ {c}, preserve |-> task.preserve, block |-> 1, try |-> 0]
    BY <2>1 DEF Task
  <2> QED
    BY <2>1, <2>2 DEF Task, Step, SoftwareType
<1> QED
  BY <1>1, <1>2

LEMMA EndWithErrorType ==
  ASSUME TypeOK, NEW t, EndWithError(t)
  PROVE  /\ task' = Idle(task.dev) /\ task' \in Task /\ inProgress' = FALSE
         /\ hidden' \in BOOLEAN
         /\ entries' \in [Devices -> [SoftwareType -> EntryState]]
<1>1. task.dev \in Devices
  BY DEF TypeOK, Task
<1>2. task' = Idle(task.dev) /\ inProgress' = FALSE /\ hidden' = ~HasEntry(t)
  BY DEF EndWithError, Release
<1>3. HasEntry(t) \in BOOLEAN /\ (HasEntry(t) => t \in SoftwareType)
  BY DEF HasEntry
<1>4. entries' \in [Devices -> [SoftwareType -> EntryState]]
  BY <1>1, <1>3 DEF EndWithError, TypeOK, EntryState
<1> QED
  BY <1>1, <1>2, <1>3, <1>4, IdleType

\* The type of a failing step.
LEMMA FailType ==
  ASSUME TypeOK, Fail
  PROVE  /\ task' \in Task /\ inProgress' \in BOOLEAN /\ hidden' \in BOOLEAN
         /\ entries' \in [Devices -> [SoftwareType -> EntryState]]
         /\ task'.dev = task.dev
         /\ \/ task'.step = "none" /\ inProgress' = FALSE
            \/ /\ task'.step = "lookup" /\ task'.type = "component" /\ task'.op = task.op
               /\ task.type = "component" /\ inProgress' = inProgress
<1>1. CASE task.type = "component"
  <2>1. NextComponent(task.left) /\ hidden' = TRUE /\ entries' = entries
    BY <1>1 DEF Fail
  <2>2. task.left \in SUBSET Components
    BY DEF TypeOK, Task
  <2> QED
    BY <1>1, <2>1, <2>2, NextComponentType DEF TypeOK
<1>2. CASE task.type # "component"
  <2>1. EndWithError(IF task.op = "restore" THEN "firmware" ELSE task.op)
    BY <1>2 DEF Fail
  <2>2. task.dev \in Devices
    BY DEF TypeOK, Task
  <2> QED
    BY <2>1, <2>2, EndWithErrorType, IdleType
<1> QED
  BY <1>1, <1>2

LEMMA ShowType ==
  ASSUME TypeOK, NEW s \in EntryState, Show(s)
  PROVE  entries' \in [Devices -> [SoftwareType -> EntryState]]
<1>1. task.dev \in Devices /\ task.type \in SoftwareType
  BY DEF TypeOK, Task
<1> QED
  BY <1>1 DEF Show, TypeOK

\* What a transaction on the bus keeps.
LEMMA ExchangeType ==
  ASSUME TypeOK, NEW answer \in Answer, NEW r \in Reads(answer), Exchange(r)
  PROVE  /\ r.got \in Answer /\ unread' \in Answer /\ late' \in BOOLEAN /\ excused' \subseteq Devices
         /\ late => late'
         /\ (unread = "none" /\ ~late') => (unread' = "none" /\ r.got \in {answer, "none"})
<1>1. unread' = r.rest /\ late' = r.late /\ excused' \subseteq Devices
  BY DEF Exchange
<1>2. unread \in Answer /\ late \in BOOLEAN /\ "none" \in Answer
  BY DEF TypeOK, Answer
<1>3. \/ unread # "none" /\ r = [got |-> unread, rest |-> answer, late |-> late]
      \/ unread = "none" /\ r = [got |-> answer, rest |-> "none", late |-> late]
      \/ unread = "none" /\ r = [got |-> "none", rest |-> "none", late |-> late]
      \/ unread = "none" /\ r = [got |-> "none", rest |-> answer, late |-> TRUE]
  BY Zenon DEF Reads
<1>4. CASE unread # "none" /\ r = [got |-> unread, rest |-> answer, late |-> late]
  BY <1>1, <1>2, <1>4
<1>5. CASE unread = "none" /\ r = [got |-> answer, rest |-> "none", late |-> late]
  BY <1>1, <1>2, <1>5
<1>6. CASE unread = "none" /\ r = [got |-> "none", rest |-> "none", late |-> late]
  BY <1>1, <1>2, <1>6
<1>7. CASE unread = "none" /\ r = [got |-> "none", rest |-> answer, late |-> TRUE]
  BY <1>1, <1>2, <1>7
<1> QED
  BY <1>3, <1>4, <1>5, <1>6, <1>7

LEMMA BlockAnswerType ==
  ASSUME NEW d
  PROVE  BlockAnswer(d) \in Answer
BY DEF BlockAnswer, Answer

LEMMA StepType ==
  ASSUME TypeOK, [Next]_vars
  PROVE  TypeOK'
<1> SUFFICES ASSUME Next
             PROVE  TypeOK'
  BY DEF vars, TypeOK
<1>0. /\ task \in Task /\ task.dev \in Devices /\ task.type \in SoftwareType
      /\ task.left \in SUBSET Components /\ task.block \in 1..Blocks /\ task.try \in 0..MaxRetries - 1
  BY DEF TypeOK, Task
<1>1. ASSUME NEW d \in Devices, NEW op \in Operation, Accept(d, op)
      PROVE  TypeOK'
  BY <1>1 DEF Accept, TypeOK, Task, Step
<1>3. ASSUME NEW d \in Devices, NEW t \in SoftwareType, ClearError(d, t)
      PROVE  TypeOK'
  BY <1>3 DEF ClearError, TypeOK, EntryState
<1>4. CASE ReadInfo
  <2>1. unread' \in Answer /\ late' \in BOOLEAN
    BY <1>4 DEF ReadInfo, Answer
  <2>2. mode' = mode /\ image' = image /\ excused' = excused
    BY <1>4 DEF ReadInfo, TypeOK
  <2>3. CASE Release /\ UNCHANGED <<entries, hidden>>
    BY <1>0, <2>1, <2>2, <2>3, IdleType DEF Release, TypeOK
  <2>4. ASSUME NEW info \in DeviceInfos(task.dev), task.op = "component",
               NextComponent(info.left), UNCHANGED <<entries, hidden>>
        PROVE  TypeOK'
    <3>1. info.left \in SUBSET Components
      BY DEF DeviceInfos
    <3> QED
      BY <2>1, <2>2, <2>4, <3>1, NextComponentType DEF TypeOK
  <2>5. CASE EndWithError("unknown")
    BY <2>1, <2>2, <2>5, EndWithErrorType DEF TypeOK
  <2>6. ASSUME NEW info \in DeviceInfos(task.dev),
               task' = [task EXCEPT !.step = "lookup",
                          !.type = IF task.op = "bootloader" THEN "bootloader" ELSE "firmware",
                          !.preserve = info.preserve, !.left = info.left],
               UNCHANGED <<inProgress, entries, hidden>>
        PROVE  TypeOK'
    <3>1. info.left \in SUBSET Components /\ info.preserve \in BOOLEAN
      BY DEF DeviceInfos
    <3>2. task' \in Task
      BY <1>0, <2>6, <3>1 DEF Task, Step, SoftwareType
    <3> QED
      BY <2>1, <2>2, <2>6, <3>2 DEF TypeOK
  <2> QED
    BY <1>4, <2>3, <2>4, <2>5, <2>6 DEF ReadInfo
<1>5. CASE Lookup
  <2>1. UNCHANGED <<mode, image, unread, late, excused>>
    BY <1>5 DEF Lookup
  <2>2. CASE Show("active") /\ task' = [task EXCEPT !.step = "download"] /\ UNCHANGED <<inProgress, hidden>>
    <3>1. entries' \in [Devices -> [SoftwareType -> EntryState]]
      BY <2>2, ShowType DEF EntryState
    <3>2. task' \in Task
      BY <1>0, <2>2 DEF Task, Step
    <3> QED
      BY <2>1, <2>2, <3>1, <3>2 DEF TypeOK
  <2>3. CASE Release /\ UNCHANGED <<entries, hidden>>
    BY <1>0, <2>1, <2>3, IdleType DEF Release, TypeOK
  <2>4. CASE Fail
    BY <2>1, <2>4, FailType DEF TypeOK
  <2>5. CASE NextComponent(task.left) /\ UNCHANGED <<entries, hidden>>
    BY <1>0, <2>1, <2>5, NextComponentType DEF TypeOK
  <2> QED
    BY <1>5, <2>2, <2>3, <2>4, <2>5 DEF Lookup
<1>6. CASE Download
  <2>1. UNCHANGED <<mode, image, unread, late, excused>>
    BY <1>6 DEF Download
  <2>2. CASE Fail
    BY <2>1, <2>2, FailType DEF TypeOK
  <2>3. CASE /\ task' = [task EXCEPT !.step = IF Reboots THEN "reboot" ELSE "info"]
             /\ UNCHANGED <<inProgress, entries, hidden>>
    <3>1. task' \in Task
      BY <1>0, <2>3 DEF Task, Step
    <3> QED
      BY <2>1, <2>3, <3>1 DEF TypeOK
  <2> QED
    BY <1>6, <2>2, <2>3 DEF Download
<1>7. CASE Reboot
  <2>1. PICK heard \in BOOLEAN :
          /\ mode' = IF heard THEN [mode EXCEPT ![task.dev] = "boot"] ELSE mode
          /\ \E r \in Reads(IF heard THEN "reboot" ELSE "none") :
               /\ Exchange(r)
               /\ \/ task' = [task EXCEPT !.step = "info"] /\ UNCHANGED <<inProgress, entries, hidden>>
                  \/ Fail
    BY <1>7 DEF Reboot
  <2>2. (IF heard THEN "reboot" ELSE "none") \in Answer
    BY DEF Answer
  <2>3. unread' \in Answer /\ late' \in BOOLEAN /\ excused' \subseteq Devices
    BY <2>1, <2>2, ExchangeType
  <2>4. mode' \in [Devices -> {"app", "boot"}] /\ image' = image
    BY <1>0, <1>7, <2>1 DEF Reboot, TypeOK
  <2>5. CASE Fail
    BY <2>3, <2>4, <2>5, FailType DEF TypeOK
  <2>6. CASE task' = [task EXCEPT !.step = "info"] /\ UNCHANGED <<inProgress, entries, hidden>>
    <3>1. task' \in Task
      BY <1>0, <2>6 DEF Task, Step
    <3> QED
      BY <2>3, <2>4, <2>6, <3>1 DEF TypeOK
  <2> QED
    BY <2>1, <2>5, <2>6
<1>8. CASE WriteInfo
  <2>1. PICK heard \in BOOLEAN :
          /\ image' = IF heard /\ Receives(task.dev)
                      THEN [image EXCEPT ![task.dev] = NoImage] ELSE image
          /\ \E r \in Reads(IF ~heard THEN "none" ELSE IF Receives(task.dev) THEN "ok" ELSE "refused") :
               /\ Exchange(r)
               /\ \/ /\ task' = [task EXCEPT !.step = "block", !.block = 1, !.try = 0]
                     /\ UNCHANGED <<inProgress, entries, hidden>>
                  \/ Fail
    BY <1>8 DEF WriteInfo
  <2>2. (IF ~heard THEN "none" ELSE IF Receives(task.dev) THEN "ok" ELSE "refused") \in Answer
    BY DEF Answer
  <2>3. unread' \in Answer /\ late' \in BOOLEAN /\ excused' \subseteq Devices
    BY <2>1, <2>2, ExchangeType
  <2>4. image' \in [Devices -> Image] /\ mode' = mode
    BY <1>0, <1>8, <2>1 DEF WriteInfo, TypeOK, Image, NoImage
  <2>5. CASE Fail
    BY <2>3, <2>4, <2>5, FailType DEF TypeOK
  <2>6. CASE /\ task' = [task EXCEPT !.step = "block", !.block = 1, !.try = 0]
             /\ UNCHANGED <<inProgress, entries, hidden>>
    <3>0. task' = [step |-> "block", op |-> task.op, dev |-> task.dev, type |-> task.type,
                   left |-> task.left, preserve |-> task.preserve, block |-> 1, try |-> 0]
      BY <1>0, <2>6 DEF Task
    <3>1. task' \in Task
      BY <1>0, <3>0 DEF Task, Step
    <3> QED
      BY <2>3, <2>4, <2>6, <3>1 DEF TypeOK
  <2> QED
    BY <2>1, <2>5, <2>6
<1>9. CASE WriteBlock
  <2>1. PICK heard \in BOOLEAN :
          /\ IF heard /\ BlockAnswer(task.dev) = "ok" THEN TakeBlock(task.dev) ELSE UNCHANGED <<mode, image>>
          /\ \E r \in Reads(IF heard THEN BlockAnswer(task.dev) ELSE "none") :
               /\ Exchange(r)
               /\ IF Accepted(r.got)
                  THEN Acknowledged
                  ELSE IF task.try < MaxRetries - 1
                       THEN task' = [task EXCEPT !.try = @ + 1] /\ UNCHANGED <<inProgress, entries, hidden>>
                       ELSE Fail
    BY <1>9 DEF WriteBlock
  <2>2. (IF heard THEN BlockAnswer(task.dev) ELSE "none") \in Answer
    BY BlockAnswerType DEF Answer
  <2>3. unread' \in Answer /\ late' \in BOOLEAN /\ excused' \subseteq Devices
    BY <2>1, <2>2, ExchangeType
  <2>4. image' \in [Devices -> Image] /\ mode' \in [Devices -> {"app", "boot"}]
    <3>2. CASE TakeBlock(task.dev)
      <4>1. [last |-> task.block, hole |-> image[task.dev].hole \/ task.block # image[task.dev].last + 1] \in Image
        BY <1>0 DEF TypeOK, Image
      <4> QED
        BY <1>0, <3>2, <4>1 DEF TakeBlock, TypeOK
    <3> QED
      BY <2>1, <3>2 DEF TypeOK
  <2>5. CASE Fail
    BY <2>3, <2>4, <2>5, FailType DEF TypeOK
  <2>6. CASE Acknowledged
    <3>1. task' \in Task
      <4>1. CASE task.block = Blocks
        BY <1>0, <2>6, <4>1 DEF Acknowledged, Task, Step
      <4>2. CASE task.block # Blocks
        <5>1. task' = [step |-> task.step, op |-> task.op, dev |-> task.dev, type |-> task.type,
                       left |-> task.left, preserve |-> task.preserve,
                       block |-> task.block + 1, try |-> 0]
          BY <1>0, <2>6, <4>2 DEF Acknowledged, Task
        <5>2. task.block + 1 \in 1..Blocks
          BY <1>0, <4>2
        <5> QED
          BY <1>0, <5>1, <5>2 DEF Task
      <4> QED
        BY <4>1, <4>2
    <3> QED
      BY <2>3, <2>4, <2>6, <3>1 DEF Acknowledged, TypeOK
  <2>7. CASE /\ task.try < MaxRetries - 1
             /\ task' = [task EXCEPT !.try = @ + 1] /\ UNCHANGED <<inProgress, entries, hidden>>
    <3>1. task' \in Task
      BY <1>0, <2>7 DEF Task, Step
    <3> QED
      BY <2>3, <2>4, <2>7, <3>1 DEF TypeOK
  <2> QED
    BY <2>1, <2>5, <2>6, <2>7
<1>10. CASE Finish
  <2>1. /\ entries' \in [Devices -> [SoftwareType -> EntryState]]
        /\ UNCHANGED <<mode, image, unread, late, excused, hidden>>
    BY <1>10, ShowType DEF Finish, EntryState
  <2>2. CASE task' = [task EXCEPT !.step = "lookup", !.type = "firmware", !.block = 1, !.try = 0] /\ UNCHANGED inProgress
    <3>1. task' = [step |-> "lookup", op |-> task.op, dev |-> task.dev, type |-> "firmware",
                   left |-> task.left, preserve |-> task.preserve, block |-> 1, try |-> 0]
      BY <1>0, <2>2 DEF Task
    <3>2. task' \in Task
      BY <1>0, <3>1 DEF Task, Step, SoftwareType
    <3> QED
      BY <2>1, <2>2, <3>2 DEF TypeOK
  <2>3. CASE Release
    BY <1>0, <2>1, <2>3, IdleType DEF Release, TypeOK
  <2>4. CASE NextComponent(task.left)
    BY <1>0, <2>1, <2>4, NextComponentType DEF TypeOK
  <2> QED
    BY <1>10, <2>2, <2>3, <2>4 DEF Finish
<1>12. CASE Restart
  BY <1>0, <1>12, IdleType DEF Restart, TypeOK, EntryState, Answer
<1> QED
  BY <1>1, <1>3, <1>4, <1>5, <1>6, <1>7, <1>8, <1>9, <1>10, <1>12 DEF Next, TaskStep

LEMMA InitType == Init => TypeOK
<1> SUFFICES ASSUME Init
             PROVE  TypeOK
  OBVIOUS
<1>1. task \in Task
  BY IdleType DEF Init
<1>2. image \in [Devices -> Image]
  <2>1. NoImage \in Image
    BY DEF NoImage, Image
  <2> QED
    BY <2>1 DEF Init
<1>3. entries \in [Devices -> [SoftwareType -> EntryState]]
  BY DEF Init, EntryState
<1> QED
  BY <1>1, <1>2, <1>3 DEF Init, TypeOK, Answer

\* The type invariant of the updates.
THEOREM TypeCorrect == Spec => []TypeOK
BY InitType, StepType, PTL DEF Spec

-----------------------------------------------------------------------------
(* The lock *)

Flashing == task.step \in {"lookup", "download", "reboot", "info", "block", "finish"}

\* What is flashed fits what was asked for.
OpTypes ==
  /\ Running("reboot") => Reboots
  /\ Flashing =>
       /\ task.op # "unknown"
       /\ task.type = "bootloader" => task.op = "bootloader"
       /\ task.type = "firmware" => task.op \in {"firmware", "restore", "bootloader"}

LockInv ==
  /\ inProgress <=> task.step # "none"
  /\ \A d \in Devices : entries[d]["bootloader"] = "active" =>
       task.dev = d /\ task.type = "bootloader" /\ Flashing

\* What a task that is over, or goes on with a component, leaves behind.
LEMMA OverTypes ==
  ASSUME \/ task'.step = "none"
         \/ task'.step = "lookup" /\ task'.type = "component" /\ task'.op # "unknown"
  PROVE  OpTypes'
BY DEF OpTypes, Flashing, Running, Reboots

\* A bootloader's entry is not left active by a failure.
LEMMA FailLock ==
  ASSUME TypeOK, OpTypes, LockInv, Flashing, Fail
  PROVE  OpTypes' /\ LockInv'
<1>1. \/ task'.step = "none" /\ inProgress' = FALSE
      \/ /\ task'.step = "lookup" /\ task'.type = "component" /\ task'.op = task.op
         /\ task.type = "component" /\ inProgress' = inProgress
  BY FailType
<1>2. OpTypes'
  BY <1>1, OverTypes DEF OpTypes
<1>3. inProgress' <=> task'.step # "none"
  BY <1>1 DEF LockInv, Flashing
<1>4. \A d \in Devices : entries'[d]["bootloader"] # "active"
  <2>1. CASE task.type = "component"
    <3>1. entries' = entries
      BY <2>1 DEF Fail
    <3> QED
      BY <2>1, <3>1 DEF LockInv
  <2>2. CASE task.type # "component"
    <3> DEFINE t == IF task.op = "restore" THEN "firmware" ELSE task.op
    <3>1. entries' = IF HasEntry(t) THEN [entries EXCEPT ![task.dev][t] = "error"] ELSE entries
      BY <2>2 DEF Fail, EndWithError
    <3>2. \A d \in Devices : entries[d]["bootloader"] = "active" =>
            task.dev = d /\ t = "bootloader" /\ HasEntry(t)
      BY DEF LockInv, OpTypes, HasEntry, SoftwareType
    <3>3. task.dev \in Devices /\ HasEntry(t) => t \in SoftwareType
      BY DEF HasEntry
    <3> HIDE DEF t
    <3> QED
      BY <3>1, <3>2, <3>3 DEF TypeOK, SoftwareType
  <2> QED
    BY <2>1, <2>2
<1> QED
  BY <1>2, <1>3, <1>4 DEF LockInv

LEMMA LockStep ==
  ASSUME TypeOK, OpTypes, LockInv, [Next]_vars
  PROVE  OpTypes' /\ LockInv'
<1>0. task \in Task /\ task.dev \in Devices /\ Idle(task.dev).step = "none"
  BY IdleType DEF TypeOK, Task
<1>1. CASE UNCHANGED vars
  BY <1>1 DEF vars, OpTypes, LockInv, Flashing, Running, Reboots
<1>2. ASSUME NEW d \in Devices, NEW op \in Operation, Accept(d, op)
      PROVE  OpTypes' /\ LockInv'
  <2>1. task'.step = "queued" /\ inProgress' /\ entries' = entries /\ ~inProgress
    BY <1>0, <1>2 DEF Accept, Task
  <2>2. \A x \in Devices : entries[x]["bootloader"] # "active"
    BY <2>1 DEF LockInv, Flashing
  <2> QED
    BY <2>1, <2>2 DEF OpTypes, LockInv, Flashing, Running
<1>4. ASSUME NEW d \in Devices, NEW t \in SoftwareType, ClearError(d, t)
      PROVE  OpTypes' /\ LockInv'
  <2>1. \A x \in Devices : entries'[x]["bootloader"] = "active" => entries[x]["bootloader"] = "active"
    BY <1>4 DEF ClearError, TypeOK, SoftwareType
  <2> QED
    BY <1>4, <2>1 DEF ClearError, OpTypes, LockInv, Flashing, Running, Reboots
<1>5. CASE ReadInfo
  <2>1. task.step = "queued" /\ inProgress
    BY <1>5 DEF ReadInfo, Running, LockInv
  <2>2. \A x \in Devices : entries[x]["bootloader"] # "active"
    BY <2>1 DEF LockInv, Flashing
  <2>3. CASE Release /\ UNCHANGED <<entries, hidden>>
    <3>1. task'.step = "none" /\ inProgress' = FALSE /\ entries' = entries
      BY <1>0, <2>3 DEF Release
    <3> QED
      BY <2>2, <3>1, OverTypes DEF LockInv
  <2>4. ASSUME NEW info \in DeviceInfos(task.dev), task.op = "component",
               NextComponent(info.left), UNCHANGED <<entries, hidden>>
        PROVE  OpTypes' /\ LockInv'
    <3>1. info.left \in SUBSET Components
      BY DEF DeviceInfos
    <3>2. \/ task'.step = "none" /\ inProgress' = FALSE
          \/ /\ task'.step = "lookup" /\ task'.type = "component" /\ task'.op = task.op
             /\ inProgress' = inProgress
      BY <2>4, <3>1, NextComponentType DEF TypeOK
    <3>3. OpTypes'
      BY <2>4, <3>2, OverTypes
    <3> QED
      BY <2>1, <2>2, <2>4, <3>2, <3>3 DEF LockInv
  <2>5. CASE task.op = "unknown" /\ EndWithError("unknown")
    <3>1. task'.step = "none" /\ inProgress' = FALSE
      BY <1>0, <2>5, EndWithErrorType
    <3>2. entries' = entries
      BY <2>5 DEF EndWithError, HasEntry, SoftwareType
    <3> QED
      BY <2>2, <3>1, <3>2, OverTypes DEF LockInv
  <2>6. ASSUME NEW info \in DeviceInfos(task.dev), task.op # "component", task.op # "unknown",
               task' = [task EXCEPT !.step = "lookup",
                          !.type = IF task.op = "bootloader" THEN "bootloader" ELSE "firmware",
                          !.preserve = info.preserve, !.left = info.left],
               UNCHANGED <<inProgress, entries, hidden>>
        PROVE  OpTypes' /\ LockInv'
    <3>1. /\ task'.step = "lookup" /\ task'.op = task.op
          /\ task'.type = IF task.op = "bootloader" THEN "bootloader" ELSE "firmware"
          /\ task.op \in Operation
      BY <1>0, <2>6 DEF Task
    <3>2. OpTypes'
      BY <2>6, <3>1 DEF OpTypes, Flashing, Running, Operation, SoftwareType
    <3> QED
      BY <2>1, <2>2, <2>6, <3>1, <3>2 DEF LockInv
  <2> QED
    BY <1>5, <2>3, <2>4, <2>5, <2>6 DEF ReadInfo
<1>6. CASE Lookup
  <2>0. task.step = "lookup" /\ Flashing /\ inProgress
    BY <1>6 DEF Lookup, Running, Flashing, LockInv
  <2>1. CASE Show("active") /\ task' = [task EXCEPT !.step = "download"] /\ UNCHANGED <<inProgress, hidden>>
    <3>1. /\ task'.step = "download" /\ task'.op = task.op /\ task'.type = task.type
          /\ task'.dev = task.dev /\ inProgress' = inProgress
      BY <1>0, <2>1 DEF Task
    <3>2. OpTypes'
      BY <2>0, <3>1 DEF OpTypes, Flashing, Running
    <3>3. task.type \in SoftwareType
      BY <1>0 DEF Task
    <3>4. \A d \in Devices : entries'[d]["bootloader"] = "active" =>
            entries[d]["bootloader"] = "active" \/ (d = task.dev /\ task.type = "bootloader")
      BY <1>0, <2>1, <3>3 DEF Show, TypeOK, SoftwareType
    <3>5. Flashing'
      BY <3>1 DEF Flashing
    <3> QED
      BY <2>0, <3>1, <3>2, <3>4, <3>5 DEF LockInv
  <2>2. CASE task.op = "restore" /\ Release /\ UNCHANGED <<entries, hidden>>
    <3>1. task'.step = "none" /\ inProgress' = FALSE /\ entries' = entries
      BY <1>0, <2>2 DEF Release
    <3>2. task.type # "bootloader"
      BY <2>0, <2>2 DEF OpTypes
    <3> QED
      BY <3>1, <3>2, OverTypes DEF LockInv
  <2>3. CASE Fail
    BY <2>0, <2>3, FailLock
  <2>4. CASE task.type = "component" /\ NextComponent(task.left) /\ UNCHANGED <<entries, hidden>>
    <3>1. task.left \in SUBSET Components
      BY <1>0 DEF Task
    <3>2. \/ task'.step = "none" /\ inProgress' = FALSE
          \/ /\ task'.step = "lookup" /\ task'.type = "component" /\ task'.op = task.op
             /\ inProgress' = inProgress
      BY <2>4, <3>1, NextComponentType DEF TypeOK
    <3>3. OpTypes'
      BY <2>0, <3>2, OverTypes DEF OpTypes
    <3> QED
      BY <2>0, <2>4, <3>2, <3>3 DEF LockInv
  <2> QED
    BY <1>6, <2>1, <2>2, <2>3, <2>4 DEF Lookup
<1>7. CASE Download
  <2>0. Flashing /\ task.step = "download"
    BY <1>7 DEF Download, Running, Flashing
  <2>1. CASE Fail
    BY <2>0, <2>1, FailLock
  <2>2. CASE /\ task' = [task EXCEPT !.step = IF Reboots THEN "reboot" ELSE "info"]
             /\ UNCHANGED <<inProgress, entries, hidden>>
    <3>1. /\ task'.step = (IF Reboots THEN "reboot" ELSE "info") /\ task'.op = task.op
          /\ task'.type = task.type /\ task'.dev = task.dev
      BY <1>0, <2>2 DEF Task
    <3>2. OpTypes'
      BY <2>0, <3>1 DEF OpTypes, Flashing, Running, Reboots
    <3> QED
      BY <2>0, <2>2, <3>1, <3>2 DEF LockInv, Flashing
  <2> QED
    BY <1>7, <2>1, <2>2 DEF Download
<1>8. ASSUME Flashing, task'.step \in {"info", "block", "finish"}, task'.op = task.op,
             task'.type = task.type, task'.dev = task.dev, UNCHANGED <<inProgress, entries, hidden>>
      PROVE  OpTypes' /\ LockInv'
  BY <1>8 DEF OpTypes, LockInv, Flashing, Running
<1>9. CASE Reboot
  <2>1. Flashing
    BY <1>9 DEF Reboot, Running, Flashing
  <2>2. Fail \/ (task' = [task EXCEPT !.step = "info"] /\ UNCHANGED <<inProgress, entries, hidden>>)
    BY <1>9 DEF Reboot
  <2>3. CASE task' = [task EXCEPT !.step = "info"] /\ UNCHANGED <<inProgress, entries, hidden>>
    <3>1. task'.step = "info" /\ task'.op = task.op /\ task'.type = task.type /\ task'.dev = task.dev
      BY <1>0, <2>3 DEF Task
    <3> QED
      BY <1>8, <2>1, <2>3, <3>1
  <2>4. CASE Fail
    BY <2>1, <2>4, FailLock
  <2> QED
    BY <2>2, <2>3, <2>4
<1>10. CASE WriteInfo
  <2>1. Flashing
    BY <1>10 DEF WriteInfo, Running, Flashing
  <2>2. Fail \/ (/\ task' = [task EXCEPT !.step = "block", !.block = 1, !.try = 0]
                 /\ UNCHANGED <<inProgress, entries, hidden>>)
    BY <1>10 DEF WriteInfo
  <2>3. CASE /\ task' = [task EXCEPT !.step = "block", !.block = 1, !.try = 0]
             /\ UNCHANGED <<inProgress, entries, hidden>>
    <3>1. task'.step = "block" /\ task'.op = task.op /\ task'.type = task.type /\ task'.dev = task.dev
      BY <1>0, <2>3 DEF Task
    <3> QED
      BY <1>8, <2>1, <2>3, <3>1
  <2>4. CASE Fail
    BY <2>1, <2>4, FailLock
  <2> QED
    BY <2>2, <2>3, <2>4
<1>11. CASE WriteBlock
  <2>1. Flashing /\ task.step = "block"
    BY <1>11 DEF WriteBlock, Running, Flashing
  <2>2. \/ Fail
        \/ Acknowledged
        \/ task' = [task EXCEPT !.try = @ + 1] /\ UNCHANGED <<inProgress, entries, hidden>>
    BY <1>11 DEF WriteBlock
  <2>3. CASE Acknowledged
    <3>1. /\ task'.step \in {"block", "finish"} /\ task'.op = task.op
          /\ task'.type = task.type /\ task'.dev = task.dev
      <4>1. CASE task.block = Blocks
        BY <1>0, <2>1, <2>3, <4>1 DEF Acknowledged, Task
      <4>2. CASE task.block # Blocks
        BY <1>0, <2>1, <2>3, <4>2 DEF Acknowledged, Task
      <4> QED
        BY <4>1, <4>2
    <3> QED
      BY <1>8, <2>1, <2>3, <3>1 DEF Acknowledged
  <2>4. CASE task' = [task EXCEPT !.try = @ + 1] /\ UNCHANGED <<inProgress, entries, hidden>>
    <3>1. task'.step = "block" /\ task'.op = task.op /\ task'.type = task.type /\ task'.dev = task.dev
      BY <1>0, <2>1, <2>4 DEF Task
    <3> QED
      BY <1>8, <2>1, <2>4, <3>1
  <2>5. CASE Fail
    BY <2>1, <2>5, FailLock
  <2> QED
    BY <2>2, <2>3, <2>4, <2>5
<1>12. CASE Finish
  <2>0. Flashing /\ inProgress
    BY <1>12 DEF Finish, Running, Flashing, LockInv
  <2>1. task.type \in SoftwareType /\ task.left \in SUBSET Components
    BY <1>0 DEF Task
  <2>2. \A d \in Devices : entries'[d]["bootloader"] # "active"
    BY <1>0, <1>12, <2>1 DEF Finish, Show, LockInv, TypeOK, SoftwareType
  <2>3. CASE /\ task' = [task EXCEPT !.step = "lookup", !.type = "firmware", !.block = 1, !.try = 0]
             /\ task.type = "bootloader" /\ UNCHANGED inProgress
    <3>1. task'.step = "lookup" /\ task'.op = task.op /\ task'.type = "firmware"
      BY <1>0, <2>3 DEF Task
    <3>2. OpTypes'
      BY <2>0, <2>3, <3>1 DEF OpTypes, Flashing, Running
    <3> QED
      BY <2>0, <2>2, <2>3, <3>1, <3>2 DEF LockInv
  <2>4. CASE Release
    <3>1. task'.step = "none" /\ inProgress' = FALSE
      BY <1>0, <2>4 DEF Release
    <3> QED
      BY <2>2, <3>1, OverTypes DEF LockInv
  <2>5. CASE NextComponent(task.left)
    <3>1. \/ task'.step = "none" /\ inProgress' = FALSE
          \/ /\ task'.step = "lookup" /\ task'.type = "component" /\ task'.op = task.op
             /\ inProgress' = inProgress
      BY <2>1, <2>5, NextComponentType DEF TypeOK
    <3>2. OpTypes'
      BY <2>0, <3>1, OverTypes DEF OpTypes
    <3> QED
      BY <2>0, <2>2, <3>1, <3>2 DEF LockInv
  <2> QED
    BY <1>12, <2>3, <2>4, <2>5 DEF Finish
<1>14. CASE Restart
  <2>1. task'.step = "none" /\ inProgress' = FALSE
    BY <1>0, <1>14 DEF Restart
  <2>2. \A d \in Devices : entries'[d]["bootloader"] # "active"
    BY <1>14 DEF Restart, SoftwareType
  <2> QED
    BY <2>1, <2>2, OverTypes DEF LockInv
<1> QED
  BY <1>1, <1>2, <1>4, <1>5, <1>6, <1>7, <1>9, <1>10, <1>11, <1>12, <1>14 DEF Next, TaskStep

LEMMA LockInit == Init => OpTypes /\ LockInv
<1> SUFFICES ASSUME Init
             PROVE  OpTypes /\ LockInv
  OBVIOUS
<1>1. task.step = "none"
  BY IdleType DEF Init
<1>2. \A d \in Devices : entries[d]["bootloader"] = "none"
  BY DEF Init, SoftwareType
<1> QED
  BY <1>1, <1>2 DEF Init, OpTypes, LockInv, Flashing, Running

LEMMA LockAlways == Spec => [](OpTypes /\ LockInv)
<1>1. TypeOK /\ (OpTypes /\ LockInv) /\ [Next]_vars => (OpTypes /\ LockInv)'
  BY LockStep
<1> QED
  BY LockInit, <1>1, TypeCorrect, PTL DEF Spec

\* The lock is held exactly while a task runs, and an active bootloader is flashed.
THEOREM LockHeld == Spec => []LockHeldByTask
<1>1. LockInv => LockHeldByTask
  BY DEF LockInv, LockHeldByTask, Flashing, Busy
<1> QED
  BY LockAlways, <1>1, PTL

-----------------------------------------------------------------------------
(* The image *)

\* What a device has of the image before the block that is sent: everything, unless it
\* does not take the image at all, or has started it and the last block is sent again.
Received(i) ==
  IF Receives(task.dev)
  THEN /\ ~i.hole /\ i.last \in {task.block - 1, task.block}
       /\ ~(task.type = "firmware" /\ Complete(i))
  ELSE task.block = 1 \/ (Complete(i) /\ task.block = Blocks)

FlashInv ==
  /\ Flashing /\ ~late => unread = "none"
  /\ Running("block") /\ ~late => Received(image[task.dev])
  /\ FlashIntact

\* Steps that do not touch the bus.
LEMMA FlashQuiet ==
  ASSUME FlashInv, late' \/ (Flashing' => unread' = "none"), task'.step \notin {"block", "finish"}
  PROVE  FlashInv'
BY DEF FlashInv, FlashIntact, Running

LEMMA FailQuiet ==
  ASSUME TypeOK, Fail
  PROVE  task'.step \in {"none", "lookup"}
BY FailType

\* One block: what was lost is sent again, what was taken twice is answered with 0x04.
LEMMA BlockFlash ==
  ASSUME TypeOK, FlashInv, WriteBlock
  PROVE  FlashInv'
<1>0. /\ task \in Task /\ task.dev \in Devices /\ task.block \in 1..Blocks
      /\ task.step = "block" /\ Flashing
  BY DEF TypeOK, Task, WriteBlock, Running, Flashing
<1>1. PICK heard \in BOOLEAN :
        /\ IF heard /\ BlockAnswer(task.dev) = "ok" THEN TakeBlock(task.dev) ELSE UNCHANGED <<mode, image>>
        /\ \E r \in Reads(IF heard THEN BlockAnswer(task.dev) ELSE "none") :
             /\ Exchange(r)
             /\ IF Accepted(r.got)
                THEN Acknowledged
                ELSE IF task.try < MaxRetries - 1
                     THEN task' = [task EXCEPT !.try = @ + 1] /\ UNCHANGED <<inProgress, entries, hidden>>
                     ELSE Fail
  BY DEF WriteBlock
<1> DEFINE answer == IF heard THEN BlockAnswer(task.dev) ELSE "none"
<1>2. PICK r \in Reads(answer) :
        /\ Exchange(r)
        /\ IF Accepted(r.got)
           THEN Acknowledged
           ELSE IF task.try < MaxRetries - 1
                THEN task' = [task EXCEPT !.try = @ + 1] /\ UNCHANGED <<inProgress, entries, hidden>>
                ELSE Fail
  BY <1>1
<1>3. answer \in Answer
  BY BlockAnswerType DEF Answer
<1>4. (late => late') /\ (unread = "none" /\ ~late' => unread' = "none" /\ r.got \in {answer, "none"})
  <2> HIDE DEF answer
  <2> QED
    BY <1>2, <1>3, ExchangeType
<1>5. late' \/ unread' = "none"
  BY <1>0, <1>4 DEF FlashInv
<1>6. CASE Fail
  BY <1>5, <1>6, FailQuiet, FlashQuiet
<1>7. CASE late'
  BY <1>7 DEF FlashInv, FlashIntact
<1>8. ASSUME ~late', ~Fail
      PROVE  FlashInv'
  <2> DEFINE i == image[task.dev]
             sent == heard /\ BlockAnswer(task.dev) = "ok"
             receives == Receives(task.dev)
  <2>1. ~late /\ Received(i) /\ r.got \in {answer, "none"}
    BY <1>0, <1>4, <1>8 DEF FlashInv, Running
  <2>2. i \in Image /\ i.last \in 0..Blocks /\ i.hole \in BOOLEAN
    BY <1>0 DEF TypeOK, Image
  <2>3. receives <=> (task.type = "component" <=> mode[task.dev] = "app")
    BY DEF Receives
  <2>4. i = [last |-> i.last, hole |-> i.hole]
    BY <2>2 DEF Image
  <2>5. Complete(i) <=> i.last = Blocks /\ ~i.hole
    <3> HIDE DEF i
    <3>1. CASE i.last = Blocks /\ ~i.hole
      <4>1. i = [last |-> Blocks, hole |-> FALSE]
        BY <2>2, <2>4, <3>1
      <4> QED
        BY <3>1, <4>1 DEF Complete
    <3>2. CASE ~(i.last = Blocks /\ ~i.hole)
      BY <2>2, <3>2 DEF Complete
    <3> QED
      BY <3>1, <3>2
  <2>6. CASE sent
    <3>1. receives /\ i.last # task.block
      BY <2>6 DEF BlockAnswer
    <3>2. i.last = task.block - 1 /\ ~i.hole
      BY <2>1, <3>1 DEF Received
    <3>3. TakeBlock(task.dev)
      BY <1>1, <2>6
    <3>4. image'[task.dev] = [last |-> task.block, hole |-> i.hole \/ task.block # i.last + 1]
      BY <1>0, <3>3 DEF TakeBlock, TypeOK
    <3>5. (i.hole \/ task.block # i.last + 1) = FALSE
      BY <1>0, <2>2, <3>2
    <3>6. image'[task.dev] = [last |-> task.block, hole |-> FALSE]
      BY <3>4, <3>5
    <3>7. Complete(image'[task.dev]) <=> task.block = Blocks
      <4>1. Complete([last |-> task.block, hole |-> FALSE]) <=> task.block = Blocks
        BY DEF Complete
      <4> QED
        BY <3>6, <4>1
    <3>8. mode'[task.dev] = IF task.block = Blocks /\ task.type = "firmware" THEN "app" ELSE mode[task.dev]
      BY <1>0, <3>3, <3>7 DEF TakeBlock, TypeOK
    <3>9. CASE Accepted(r.got)
      <4>1. Acknowledged
        BY <1>2, <3>9
      <4>2. CASE task.block = Blocks
        <5>1. task'.step = "finish" /\ task'.dev = task.dev /\ task'.type = task.type
          BY <1>0, <4>1, <4>2 DEF Acknowledged, Task
        <5> QED
          BY <1>5, <3>7, <3>8, <4>2, <5>1 DEF FlashInv, FlashIntact, Running
      <4>3. CASE task.block # Blocks
        <5>1. task'.block = task.block + 1 /\ task'.dev = task.dev /\ task'.type = task.type /\ task'.step = "block"
          BY <1>0, <4>1, <4>3 DEF Acknowledged, Task
        <5>2. Receives(task.dev)'
          BY <2>3, <3>1, <3>8, <4>3, <5>1 DEF Receives
        <5>3. Received(image[task.dev])'
          BY <1>0, <3>6, <3>7, <4>3, <5>1, <5>2 DEF Received
        <5> QED
          BY <1>5, <5>1, <5>3 DEF FlashInv, FlashIntact, Running
      <4> QED
        BY <4>2, <4>3
    <3>10. CASE ~Accepted(r.got)
      <4>1. task'.block = task.block /\ task'.dev = task.dev /\ task'.type = task.type /\ task'.step = "block"
        BY <1>0, <1>2, <1>8, <3>10 DEF Task
      <4>2. CASE Receives(task.dev)'
        <5>1. ~(task.type = "firmware" /\ task.block = Blocks)
          BY <3>8, <4>1, <4>2 DEF Receives
        <5> QED
          BY <1>5, <3>6, <3>7, <4>1, <4>2, <5>1 DEF FlashInv, FlashIntact, Running, Received
      <4>3. CASE ~Receives(task.dev)'
        <5>1. task.block = Blocks
          BY <2>3, <3>1, <3>8, <4>1, <4>3 DEF Receives
        <5> QED
          BY <1>5, <3>7, <4>1, <4>3, <5>1 DEF FlashInv, FlashIntact, Running, Received
      <4> QED
        BY <4>2, <4>3
    <3> QED
      BY <3>9, <3>10
  <2>7. CASE ~sent
    <3>1. image' = image /\ mode' = mode
      BY <1>1, <2>7
    <3>2. CASE Accepted(r.got)
      <4>1. r.got = "written" /\ BlockAnswer(task.dev) = "written"
        BY <2>1, <2>7, <3>2 DEF Accepted, BlockAnswer
      <4>2. i.last = task.block /\ (receives \/ Complete(i))
        BY <4>1 DEF BlockAnswer
      <4>3. Acknowledged
        BY <1>2, <3>2
      <4>4. CASE task.block = Blocks
        <5>1. task'.step = "finish" /\ task'.dev = task.dev /\ task'.type = task.type
          BY <1>0, <4>3, <4>4 DEF Acknowledged, Task
        <5>2. Complete(i)
          BY <2>1, <2>5, <4>2, <4>4 DEF Received
        <5>3. task.type = "firmware" => mode[task.dev] = "app"
          BY <2>1, <2>3, <5>2 DEF Received
        <5> QED
          BY <1>5, <3>1, <5>1, <5>2, <5>3 DEF FlashInv, FlashIntact, Running
      <4>5. CASE task.block # Blocks
        <5>1. task'.block = task.block + 1 /\ task'.dev = task.dev /\ task'.type = task.type /\ task'.step = "block"
          BY <1>0, <4>3, <4>5 DEF Acknowledged, Task
        <5>2. receives /\ ~i.hole /\ ~Complete(i)
          BY <2>1, <2>5, <4>2, <4>5 DEF Received
        <5>3. Receives(task.dev)'
          BY <2>3, <3>1, <5>1, <5>2 DEF Receives
        <5>4. Received(image[task.dev])'
          BY <1>0, <3>1, <4>2, <5>1, <5>2, <5>3 DEF Received, Complete
        <5> QED
          BY <1>5, <5>1, <5>4 DEF FlashInv, FlashIntact, Running
      <4> QED
        BY <4>4, <4>5
    <3>3. CASE ~Accepted(r.got)
      <4>1. task'.block = task.block /\ task'.dev = task.dev /\ task'.type = task.type /\ task'.step = "block"
        BY <1>0, <1>2, <1>8, <3>3 DEF Task
      <4>2. Received(image[task.dev])'
        BY <2>1, <3>1, <4>1 DEF Received, Receives, Complete
      <4> QED
        BY <1>5, <4>1, <4>2 DEF FlashInv, FlashIntact, Running
    <3> QED
      BY <3>2, <3>3
  <2> QED
    BY <2>6, <2>7
<1> QED
  BY <1>6, <1>7, <1>8

LEMMA FlashStep ==
  ASSUME TypeOK, LockInv, FlashInv, [Next]_vars
  PROVE  FlashInv'
<1>0. task \in Task /\ task.dev \in Devices /\ Idle(task.dev).step = "none" /\ task.left \in SUBSET Components
  BY IdleType DEF TypeOK, Task
<1>1. ASSUME UNCHANGED <<task, mode, image, unread, late>>
      PROVE  FlashInv'
  BY <1>1 DEF FlashInv, FlashIntact, Flashing, Running, Received, Receives, Complete
<1>2. ASSUME UNCHANGED <<unread, late>>, Flashing, task'.step \notin {"block", "finish"}
      PROVE  FlashInv'
  BY <1>2, FlashQuiet DEF FlashInv
<1>3. ASSUME NEW d \in Devices, NEW op \in Operation, Accept(d, op)
      PROVE  FlashInv'
  <2>1. task'.step = "queued"
    BY <1>0, <1>3 DEF Accept, Task
  <2> QED
    BY <2>1, FlashQuiet DEF Flashing
<1>4. CASE ReadInfo
  <2>1. unread' = "none"
    BY <1>4 DEF ReadInfo
  <2>2. task'.step \in {"none", "lookup"}
    <3>1. CASE Release
      BY <1>0, <3>1 DEF Release
    <3>2. CASE EndWithError("unknown")
      BY <1>0, <3>2, EndWithErrorType
    <3>3. ASSUME NEW left \in SUBSET Components, NextComponent(left)
          PROVE  task'.step \in {"none", "lookup"}
      BY <3>3, NextComponentType DEF TypeOK
    <3>4. ASSUME NEW info \in DeviceInfos(task.dev),
                 task' = [task EXCEPT !.step = "lookup",
                            !.type = IF task.op = "bootloader" THEN "bootloader" ELSE "firmware",
                            !.preserve = info.preserve, !.left = info.left]
          PROVE  task'.step \in {"none", "lookup"}
      BY <1>0, <3>4 DEF Task
    <3>5. \A info \in DeviceInfos(task.dev) : info.left \in SUBSET Components
      BY DEF DeviceInfos
    <3> QED
      BY <1>4, <3>1, <3>2, <3>3, <3>4, <3>5 DEF ReadInfo
  <2> QED
    BY <2>1, <2>2, FlashQuiet
<1>5. CASE Lookup
  <2>1. Flashing /\ UNCHANGED <<unread, late>>
    BY <1>5 DEF Lookup, Running, Flashing
  <2>2. task'.step \in {"none", "lookup", "download"}
    <3>1. CASE Release
      BY <1>0, <3>1 DEF Release
    <3>2. CASE Fail
      BY <3>2, FailQuiet
    <3>3. CASE NextComponent(task.left)
      BY <1>0, <3>3, NextComponentType DEF TypeOK
    <3>4. CASE task' = [task EXCEPT !.step = "download"]
      BY <1>0, <3>4 DEF Task
    <3> QED
      BY <1>5, <3>1, <3>2, <3>3, <3>4 DEF Lookup
  <2> QED
    BY <1>2, <2>1, <2>2
<1>6. CASE Download
  <2>1. Flashing /\ UNCHANGED <<unread, late>>
    BY <1>6 DEF Download, Running, Flashing
  <2>2. task'.step \in {"none", "lookup", "reboot", "info"}
    <3>1. CASE Fail
      BY <3>1, FailQuiet
    <3>2. CASE task' = [task EXCEPT !.step = IF Reboots THEN "reboot" ELSE "info"]
      BY <1>0, <3>2 DEF Task
    <3> QED
      BY <1>6, <3>1, <3>2 DEF Download
  <2> QED
    BY <1>2, <2>1, <2>2
<1>7. CASE Reboot
  <2>1. PICK heard \in BOOLEAN :
          \E r \in Reads(IF heard THEN "reboot" ELSE "none") :
            Exchange(r) /\ (Fail \/ task' = [task EXCEPT !.step = "info"])
    BY <1>7 DEF Reboot
  <2>2. (IF heard THEN "reboot" ELSE "none") \in Answer
    BY DEF Answer
  <2>3. late' \/ unread' = "none"
    BY <1>7, <2>1, <2>2, ExchangeType DEF FlashInv, Reboot, Running, Flashing
  <2>4. task'.step \in {"none", "lookup", "info"}
    <3>1. CASE Fail
      BY <3>1, FailQuiet
    <3>2. CASE task' = [task EXCEPT !.step = "info"]
      BY <1>0, <3>2 DEF Task
    <3> QED
      BY <2>1, <3>1, <3>2
  <2> QED
    BY <2>3, <2>4, FlashQuiet
<1>8. CASE WriteInfo
  <2> DEFINE answer(heard) == IF ~heard THEN "none" ELSE IF Receives(task.dev) THEN "ok" ELSE "refused"
  <2>1. PICK heard \in BOOLEAN :
          /\ image' = IF heard /\ Receives(task.dev)
                      THEN [image EXCEPT ![task.dev] = NoImage] ELSE image
          /\ \E r \in Reads(answer(heard)) :
               /\ Exchange(r)
               /\ IF r.got # "none"
                  THEN /\ task' = [task EXCEPT !.step = "block", !.block = 1, !.try = 0]
                       /\ UNCHANGED <<inProgress, entries, hidden>>
                  ELSE Fail
    BY <1>8 DEF WriteInfo
  <2>2. answer(heard) \in Answer
    BY DEF Answer
  <2>3. PICK r \in Reads(answer(heard)) :
          /\ Exchange(r)
          /\ IF r.got # "none"
             THEN task' = [task EXCEPT !.step = "block", !.block = 1, !.try = 0]
             ELSE Fail
    BY <2>1
  <2>4. unread = "none" /\ ~late' => unread' = "none" /\ r.got \in {answer(heard), "none"}
    <3> HIDE DEF answer
    <3> QED
      BY <2>2, <2>3, ExchangeType
  <2>5. late => late'
    <3> HIDE DEF answer
    <3> QED
      BY <2>2, <2>3, ExchangeType
  <2>6. late' \/ unread' = "none"
    BY <1>8, <2>4, <2>5 DEF FlashInv, WriteInfo, Running, Flashing
  <2>7. CASE r.got = "none"
    BY <2>3, <2>6, <2>7, FailQuiet, FlashQuiet
  <2>8. CASE late'
    BY <2>8 DEF FlashInv, FlashIntact
  <2>9. CASE ~late' /\ r.got # "none"
    <3>1. unread = "none" /\ heard
      BY <1>8, <2>4, <2>5, <2>9 DEF FlashInv, WriteInfo, Running, Flashing
    <3>2. /\ task'.step = "block" /\ task'.block = 1 /\ task'.dev = task.dev /\ task'.type = task.type
      BY <1>0, <2>3, <2>9 DEF Task
    <3>3. Receives(task.dev)' <=> Receives(task.dev)
      BY <1>8, <3>2 DEF Receives, WriteInfo
    <3>4. CASE Receives(task.dev)
      <4>1. image'[task.dev] = [last |-> 0, hole |-> FALSE]
        BY <1>0, <2>1, <3>1, <3>4 DEF TypeOK, NoImage
      <4>2. Received(image[task.dev])'
        BY <3>2, <3>3, <3>4, <4>1 DEF Received, Complete
      <4> QED
        BY <2>6, <3>2, <4>2 DEF FlashInv, FlashIntact, Running
    <3>5. CASE ~Receives(task.dev)
      <4>1. Received(image[task.dev])'
        BY <3>2, <3>3, <3>5 DEF Received
      <4> QED
        BY <2>6, <3>2, <4>1 DEF FlashInv, FlashIntact, Running
    <3> QED
      BY <3>4, <3>5
  <2> QED
    BY <2>7, <2>8, <2>9
<1>9. CASE WriteBlock
  BY <1>9, BlockFlash
<1>10. CASE Finish
  <2>1. Flashing /\ UNCHANGED <<unread, late>>
    BY <1>10 DEF Finish, Running, Flashing
  <2>2. task'.step \in {"none", "lookup"}
    <3>1. CASE Release
      BY <1>0, <3>1 DEF Release
    <3>2. CASE NextComponent(task.left)
      BY <1>0, <3>2, NextComponentType DEF TypeOK
    <3>3. CASE task' = [task EXCEPT !.step = "lookup", !.type = "firmware", !.block = 1, !.try = 0]
      BY <1>0, <3>3 DEF Task
    <3> QED
      BY <1>10, <3>1, <3>2, <3>3 DEF Finish
  <2> QED
    BY <1>2, <2>1, <2>2
<1>11. CASE Restart
  <2>1. task'.step = "none"
    BY <1>0, <1>11 DEF Restart
  <2> QED
    BY <2>1, FlashQuiet DEF Flashing
<1>12. CASE \/ \E d \in Devices, t \in SoftwareType : ClearError(d, t)
            \/ UNCHANGED vars
  BY <1>1, <1>12 DEF ClearError, vars
<1> QED
  BY <1>3, <1>4, <1>5, <1>6, <1>7, <1>8, <1>9, <1>10, <1>11, <1>12 DEF Next, TaskStep

\* An image of which every block was acknowledged is complete, in order, and running.
THEOREM FlashedIntact == Spec => []FlashIntact
<1>1. Init => FlashInv
  BY IdleType DEF Init, FlashInv, FlashIntact, Flashing, Running
<1>2. TypeOK /\ (OpTypes /\ LockInv) /\ FlashInv /\ [Next]_vars => FlashInv'
  BY FlashStep
<1>3. FlashInv => FlashIntact
  BY DEF FlashInv
<1> QED
  BY <1>1, <1>2, <1>3, TypeCorrect, LockAlways, PTL DEF Spec

-----------------------------------------------------------------------------
(* Devices in their bootloaders *)

Excused(d) == mode[d] = "boot" => d \in excused
Shown(d) == mode[d] = "boot" => d \in excused \/ entries[d]["firmware"] = "error"

\* What a task must not lose track of: before it flashes a firmware its device is shown,
\* while it does the entry is active, and an update of a bootloader is excused.
TaskShown ==
  /\ task.step \in {"queued", "lookup"} => Shown(task.dev)
  /\ Flashing =>
       /\ task.type = "component" => Shown(task.dev)
       /\ late => Excused(task.dev)
       /\ task.op \in {"firmware", "restore"} /\ task.type = "firmware" /\ task.step # "lookup" =>
            entries[task.dev]["firmware"] = "active"
  /\ task.op = "bootloader" /\ task.step # "none" =>
       /\ Excused(task.dev)
       /\ Running("queued") \/ (task.type = "bootloader" /\ task.step \in {"lookup", "download", "reboot"}) =>
            task.dev \in excused

StrandedInv == TaskShown /\ StrandedIsShown

\* The devices that no task works on.
Others == \A d \in Devices : Busy(d) \/ Shown(d)

LEMMA OthersShown == StrandedIsShown <=> Others
BY DEF StrandedIsShown, Others, Shown

\* A task that is over, or goes on with a component, leaves its device shown.
LEMMA OverShown ==
  ASSUME TypeOK, TypeOK', Others, task'.dev = task.dev, Shown(task.dev)',
         \A d \in Devices \ {task.dev} : mode'[d] = mode[d] /\ entries'[d] = entries[d]
                                         /\ (mode[d] = "boot" /\ d \in excused => d \in excused'),
         \/ task'.step = "none"
         \/ /\ task'.step = "lookup" /\ task'.type = "component" /\ task'.op = task.op
            /\ late' => Excused(task.dev)'
            /\ task.op = "bootloader" => Excused(task.dev)'
  PROVE  StrandedInv'
<1>1. Others'
  BY DEF Others, Busy, Shown
<1>2. TaskShown'
  BY DEF TaskShown, Flashing, Running, Shown, Excused
<1> QED
  BY <1>1, <1>2 DEF StrandedInv, StrandedIsShown, Others, Shown

\* A failure: the entry of a firmware that was being flashed gets the error.
LEMMA FailShown ==
  ASSUME TypeOK, TypeOK', OpTypes, StrandedInv, Flashing, Fail,
         \A d \in Devices \ {task.dev} : mode'[d] = mode[d] /\ (mode[d] = "boot" /\ d \in excused => d \in excused'),
         Shown(task.dev) /\ (task.step = "lookup" \/ task.type = "component") =>
           (mode'[task.dev] = "boot" => task.dev \in excused' \/ entries[task.dev]["firmware"] = "error"),
         late' => Excused(task.dev)',
         task.op = "bootloader" => Excused(task.dev)'
  PROVE  StrandedInv'
<1>0. task \in Task /\ task.dev \in Devices
  BY DEF TypeOK, Task
<1>1. /\ task'.dev = task.dev
      /\ \/ task'.step = "none"
         \/ task'.step = "lookup" /\ task'.type = "component" /\ task'.op = task.op
  BY FailType
<1>2. CASE task.type = "component"
  <2>1. entries' = entries
    BY <1>2 DEF Fail
  <2>2. Shown(task.dev)
    BY <1>2 DEF StrandedInv, TaskShown
  <2>3. Shown(task.dev)'
    BY <1>1, <1>2, <2>1, <2>2 DEF Shown
  <2>4. \A d \in Devices \ {task.dev} :
          mode'[d] = mode[d] /\ entries'[d] = entries[d] /\ (mode[d] = "boot" /\ d \in excused => d \in excused')
    BY <2>1
  <2>5. Others
    BY OthersShown DEF StrandedInv
  <2>6. CASE task'.step = "none"
    BY <1>1, <2>3, <2>4, <2>5, <2>6, OverShown
  <2>7. CASE task'.step = "lookup" /\ task'.type = "component" /\ task'.op = task.op
    BY <1>1, <2>3, <2>4, <2>5, <2>7, OverShown
  <2> QED
    BY <1>1, <2>6, <2>7
<1>3. CASE task.type # "component"
  <2> DEFINE t == IF task.op = "restore" THEN "firmware" ELSE task.op
  <2>1. entries' = IF HasEntry(t) THEN [entries EXCEPT ![task.dev][t] = "error"] ELSE entries
    BY <1>3 DEF Fail, EndWithError
  <2>2. HasEntry(t) => t \in SoftwareType /\ entries[task.dev][t] # "none"
    BY DEF HasEntry
  <2>3. task.op # "bootloader" =>
          /\ task.type = "firmware" /\ t = "firmware"
          /\ task.step # "lookup" => HasEntry(t)
    BY <1>0, <1>3 DEF OpTypes, Task, SoftwareType, StrandedInv, TaskShown, HasEntry
  <2>4. \A d \in Devices \ {task.dev} : entries'[d] = entries[d]
    <3> HIDE DEF t
    <3> QED
      BY <2>1 DEF TypeOK
  <2>5. task.op # "bootloader" /\ HasEntry(t) => entries'[task.dev]["firmware"] = "error"
    BY <1>0, <2>1, <2>3 DEF TypeOK, SoftwareType
  <2>6. ~HasEntry(t) => entries' = entries
    BY <2>1
  <2>7. Shown(task.dev)'
    <3>1. CASE task.op = "bootloader"
      BY <1>1, <3>1 DEF Excused, Shown
    <3>2. CASE task.op # "bootloader" /\ HasEntry(t)
      BY <1>1, <2>5, <3>2 DEF Shown
    <3>3. CASE task.op # "bootloader" /\ ~HasEntry(t)
      <4>1. task.step = "lookup" /\ Shown(task.dev)
        BY <2>3, <3>3 DEF StrandedInv, TaskShown
      <4> QED
        BY <1>1, <2>6, <3>3, <4>1 DEF Shown
    <3> QED
      BY <3>1, <3>2, <3>3
  <2>8. task'.step = "none"
    BY <1>0, <1>3, EndWithErrorType, IdleType DEF Fail
  <2> QED
    BY <1>1, <2>4, <2>7, <2>8, OverShown, OthersShown DEF StrandedInv
<1> QED
  BY <1>2, <1>3

\* A step of a task on the bus that does not end it.
LEMMA BusShown ==
  ASSUME TypeOK, OpTypes, StrandedInv, Flashing, task.step # "lookup", UNCHANGED entries,
         task'.dev = task.dev, task'.op = task.op, task'.type = task.type,
         task'.step \in {"info", "block", "finish"},
         \A d \in Devices \ {task.dev} : mode'[d] = mode[d] /\ (mode[d] = "boot" /\ d \in excused => d \in excused'),
         task.type = "component" => (mode'[task.dev] = "boot" =>
           task.dev \in excused' \/ entries[task.dev]["firmware"] = "error"),
         late' => Excused(task.dev)',
         task.op = "bootloader" => Excused(task.dev)'
  PROVE  StrandedInv'
<1>1. TaskShown'
  BY DEF StrandedInv, TaskShown, Flashing, Running, Shown
<1>2. \A d \in Devices : mode'[d] = "boot" => d \in excused' \/ Busy(d)' \/ entries'[d]["firmware"] = "error"
  BY DEF StrandedInv, StrandedIsShown, Busy
<1> QED
  BY <1>1, <1>2 DEF StrandedInv, StrandedIsShown

\* What a transaction does to the devices that are in their bootloaders.
LEMMA ExchangeShown ==
  ASSUME TypeOK, StrandedInv, Flashing, task.op = "bootloader" => task.dev \in excused \/ mode'[task.dev] = mode[task.dev]
                                                                  \/ mode'[task.dev] = "app",
         late => task.dev \in excused \/ mode'[task.dev] = mode[task.dev] \/ mode'[task.dev] = "app" \/ Running("reboot"),
         \A d \in Devices \ {task.dev} : mode'[d] = mode[d],
         NEW answer \in Answer, NEW r \in Reads(answer), Exchange(r), task'.dev = task.dev
  PROVE  /\ \A d \in Devices \ {task.dev} : mode[d] = "boot" /\ d \in excused => d \in excused'
         /\ late' => Excused(task.dev)'
         /\ task.op = "bootloader" => Excused(task.dev)'
         /\ task.dev \in excused /\ mode'[task.dev] = "boot" => task.dev \in excused'
<1>1. task.dev \in Devices /\ task.step # "none"
  BY DEF TypeOK, Task, Flashing
<1>2. excused' = {d \in Devices : mode'[d] = "boot" /\ (d \in excused \/ (r.late /\ d = task.dev))} /\ late' = r.late
  BY DEF Exchange
<1>3. task.op = "bootloader" => Excused(task.dev)
  BY <1>1 DEF StrandedInv, TaskShown
<1> QED
  BY <1>1, <1>2, <1>3 DEF Excused

LEMMA RebootShown ==
  ASSUME TypeOK, TypeOK', OpTypes, StrandedInv, Reboot
  PROVE  StrandedInv'
<1>0. task \in Task /\ task.dev \in Devices /\ Flashing /\ task.step = "reboot" /\ task.type # "component"
  BY DEF TypeOK, Task, Reboot, Running, Flashing, OpTypes, Reboots
<1>1. PICK heard \in BOOLEAN :
        /\ mode' = IF heard THEN [mode EXCEPT ![task.dev] = "boot"] ELSE mode
        /\ \E r \in Reads(IF heard THEN "reboot" ELSE "none") :
             /\ Exchange(r)
             /\ \/ task' = [task EXCEPT !.step = "info"] /\ UNCHANGED <<inProgress, entries, hidden>>
                \/ Fail
  BY DEF Reboot
<1>2. (IF heard THEN "reboot" ELSE "none") \in Answer
  BY DEF Answer
<1>3. PICK r \in Reads(IF heard THEN "reboot" ELSE "none") :
        /\ Exchange(r)
        /\ \/ task' = [task EXCEPT !.step = "info"] /\ UNCHANGED <<inProgress, entries, hidden>>
           \/ Fail
  BY <1>1
<1>4. \A d \in Devices \ {task.dev} : mode'[d] = mode[d]
  BY <1>0, <1>1 DEF TypeOK
<1>5. task.op = "bootloader" => task.dev \in excused
  BY <1>0 DEF StrandedInv, TaskShown, OpTypes, Reboots, Running, SoftwareType
<1>6. task'.dev = task.dev
  <2>1. CASE Fail
    BY <2>1, FailType
  <2>2. CASE task' = [task EXCEPT !.step = "info"]
    BY <1>0, <2>2 DEF Task
  <2> QED
    BY <1>3, <2>1, <2>2
<1>7. /\ \A d \in Devices \ {task.dev} : mode[d] = "boot" /\ d \in excused => d \in excused'
      /\ late' => Excused(task.dev)'
      /\ task.op = "bootloader" => Excused(task.dev)'
  BY <1>0, <1>2, <1>3, <1>4, <1>5, <1>6, ExchangeShown DEF Running
<1>8. CASE Fail
  BY <1>0, <1>4, <1>7, <1>8, FailShown
<1>9. CASE task' = [task EXCEPT !.step = "info"] /\ UNCHANGED <<inProgress, entries, hidden>>
  <2>1. task'.op = task.op /\ task'.type = task.type /\ task'.step = "info"
    BY <1>0, <1>9 DEF Task
  <2> QED
    BY <1>0, <1>4, <1>6, <1>7, <1>9, <2>1, BusShown
<1> QED
  BY <1>3, <1>8, <1>9

LEMMA InfoShown ==
  ASSUME TypeOK, TypeOK', OpTypes, StrandedInv, WriteInfo
  PROVE  StrandedInv'
<1>0. task \in Task /\ task.dev \in Devices /\ Flashing /\ task.step = "info" /\ mode' = mode
  BY DEF TypeOK, Task, WriteInfo, Running, Flashing
<1> DEFINE answer(heard) == IF ~heard THEN "none" ELSE IF Receives(task.dev) THEN "ok" ELSE "refused"
<1>1. PICK heard \in BOOLEAN :
        \E r \in Reads(answer(heard)) :
          /\ Exchange(r)
          /\ \/ /\ task' = [task EXCEPT !.step = "block", !.block = 1, !.try = 0]
                /\ UNCHANGED <<inProgress, entries, hidden>>
             \/ Fail
  BY DEF WriteInfo
<1>2. answer(heard) \in Answer
  BY DEF Answer
<1> HIDE DEF answer
<1>3. PICK r \in Reads(answer(heard)) :
        /\ Exchange(r)
        /\ \/ /\ task' = [task EXCEPT !.step = "block", !.block = 1, !.try = 0]
              /\ UNCHANGED <<inProgress, entries, hidden>>
           \/ Fail
  BY <1>1
<1>4. CASE Fail
  <2>1. task'.dev = task.dev
    BY <1>4, FailType
  <2>2. /\ \A d \in Devices \ {task.dev} : mode[d] = "boot" /\ d \in excused => d \in excused'
        /\ late' => Excused(task.dev)'
        /\ task.op = "bootloader" => Excused(task.dev)'
        /\ task.dev \in excused /\ mode'[task.dev] = "boot" => task.dev \in excused'
    BY <1>0, <1>2, <1>3, <2>1, ExchangeShown
  <2> QED
    BY <1>0, <1>4, <2>2, FailShown DEF Shown
<1>5. CASE /\ task' = [task EXCEPT !.step = "block", !.block = 1, !.try = 0]
           /\ UNCHANGED <<inProgress, entries, hidden>>
  <2>1. task'.dev = task.dev /\ task'.op = task.op /\ task'.type = task.type /\ task'.step = "block"
    BY <1>0, <1>5 DEF Task
  <2>2. /\ \A d \in Devices \ {task.dev} : mode[d] = "boot" /\ d \in excused => d \in excused'
        /\ late' => Excused(task.dev)'
        /\ task.op = "bootloader" => Excused(task.dev)'
        /\ task.dev \in excused /\ mode'[task.dev] = "boot" => task.dev \in excused'
    BY <1>0, <1>2, <1>3, <2>1, ExchangeShown
  <2>3. task.type = "component" => Shown(task.dev)
    BY <1>0 DEF StrandedInv, TaskShown
  <2> QED
    BY <1>0, <1>5, <2>1, <2>2, <2>3, BusShown DEF Shown
<1> QED
  BY <1>3, <1>4, <1>5

LEMMA BlockShown ==
  ASSUME TypeOK, TypeOK', OpTypes, StrandedInv, WriteBlock
  PROVE  StrandedInv'
<1>0. task \in Task /\ task.dev \in Devices /\ Flashing /\ task.step = "block"
  BY DEF TypeOK, Task, WriteBlock, Running, Flashing
<1> DEFINE answer(heard) == IF heard THEN BlockAnswer(task.dev) ELSE "none"
<1>1. PICK heard \in BOOLEAN :
        /\ IF heard /\ BlockAnswer(task.dev) = "ok" THEN TakeBlock(task.dev) ELSE UNCHANGED <<mode, image>>
        /\ \E r \in Reads(answer(heard)) :
             /\ Exchange(r)
             /\ \/ Acknowledged
                \/ task' = [task EXCEPT !.try = @ + 1] /\ UNCHANGED <<inProgress, entries, hidden>>
                \/ Fail
  BY DEF WriteBlock
<1>2. answer(heard) \in Answer
  BY BlockAnswerType DEF Answer
<1> HIDE DEF answer
<1>3. PICK r \in Reads(answer(heard)) :
        /\ Exchange(r)
        /\ \/ Acknowledged
           \/ task' = [task EXCEPT !.try = @ + 1] /\ UNCHANGED <<inProgress, entries, hidden>>
           \/ Fail
  BY <1>1
<1>4. /\ \A d \in Devices \ {task.dev} : mode'[d] = mode[d]
      /\ mode'[task.dev] \in {mode[task.dev], "app"}
  BY <1>0, <1>1 DEF TakeBlock, TypeOK
<1>5. CASE Fail
  <2>1. task'.dev = task.dev
    BY <1>5, FailType
  <2>2. /\ \A d \in Devices \ {task.dev} : mode[d] = "boot" /\ d \in excused => d \in excused'
        /\ late' => Excused(task.dev)'
        /\ task.op = "bootloader" => Excused(task.dev)'
        /\ task.dev \in excused /\ mode'[task.dev] = "boot" => task.dev \in excused'
    BY <1>0, <1>2, <1>3, <1>4, <2>1, ExchangeShown
  <2> QED
    BY <1>0, <1>4, <1>5, <2>2, FailShown DEF Shown
<1>6. CASE \/ Acknowledged
           \/ task' = [task EXCEPT !.try = @ + 1] /\ UNCHANGED <<inProgress, entries, hidden>>
  <2>1. /\ task'.dev = task.dev /\ task'.op = task.op /\ task'.type = task.type
        /\ task'.step \in {"block", "finish"} /\ UNCHANGED entries
    <3>1. CASE Acknowledged /\ task.block = Blocks
      BY <1>0, <3>1 DEF Acknowledged, Task
    <3>2. CASE Acknowledged /\ task.block # Blocks
      BY <1>0, <3>2 DEF Acknowledged, Task
    <3>3. CASE task' = [task EXCEPT !.try = @ + 1] /\ UNCHANGED <<inProgress, entries, hidden>>
      BY <1>0, <3>3 DEF Task
    <3> QED
      BY <1>6, <3>1, <3>2, <3>3
  <2>2. /\ \A d \in Devices \ {task.dev} : mode[d] = "boot" /\ d \in excused => d \in excused'
        /\ late' => Excused(task.dev)'
        /\ task.op = "bootloader" => Excused(task.dev)'
        /\ task.dev \in excused /\ mode'[task.dev] = "boot" => task.dev \in excused'
    BY <1>0, <1>2, <1>3, <1>4, <2>1, ExchangeShown
  <2>3. task.type = "component" => Shown(task.dev)
    BY <1>0 DEF StrandedInv, TaskShown
  <2> QED
    BY <1>0, <1>4, <2>1, <2>2, <2>3, BusShown DEF Shown
<1> QED
  BY <1>3, <1>5, <1>6

\* The end of a flash: a firmware that was flashed runs, unless an answer came late.
LEMMA FinishShown ==
  ASSUME TypeOK, TypeOK', OpTypes, FlashIntact, StrandedInv, Finish
  PROVE  StrandedInv'
<1>0. task \in Task /\ task.dev \in Devices /\ Flashing /\ task.step = "finish"
      /\ task.left \in SUBSET Components /\ task.type \in SoftwareType
  BY DEF TypeOK, Task, Finish, Running, Flashing
<1>1. /\ UNCHANGED <<mode, excused, late>>
      /\ entries' = [entries EXCEPT ![task.dev][task.type] = "none"]
  BY DEF Finish, Show
<1>2. \A d \in Devices \ {task.dev} : entries'[d] = entries[d]
  BY <1>0, <1>1 DEF TypeOK
<1>3. task.type # "firmware" => entries'[task.dev]["firmware"] = entries[task.dev]["firmware"]
  BY <1>0, <1>1 DEF TypeOK, SoftwareType
<1>4. Excused(task.dev) \/ (task.type = "component" /\ Shown(task.dev))
  BY <1>0 DEF FlashIntact, StrandedInv, TaskShown, OpTypes, Excused, Running, SoftwareType
<1>5. CASE task.type = "bootloader"
  <2>1. task' = [task EXCEPT !.step = "lookup", !.type = "firmware", !.block = 1, !.try = 0]
    BY <1>5 DEF Finish
  <2>2. task'.dev = task.dev /\ task'.step = "lookup" /\ task'.op = task.op /\ task'.type = "firmware"
    BY <1>0, <2>1 DEF Task
  <2>3. TaskShown'
    BY <1>0, <1>1, <1>4, <1>5, <2>2 DEF TaskShown, Shown, Excused, Flashing, Running, StrandedInv
  <2>4. \A d \in Devices : mode'[d] = "boot" => d \in excused' \/ Busy(d)' \/ entries'[d]["firmware"] = "error"
    BY <1>0, <1>1, <1>2, <2>2 DEF StrandedInv, StrandedIsShown, Busy
  <2> QED
    BY <2>3, <2>4 DEF StrandedInv, StrandedIsShown
<1>6. CASE task.type # "bootloader"
  <2>1. /\ task'.dev = task.dev
        /\ \/ task'.step = "none"
           \/ /\ task'.step = "lookup" /\ task'.type = "component" /\ task'.op = task.op
              /\ task.op \notin {"restore", "bootloader"}
    <3>1. CASE Release
      BY <1>0, <3>1, IdleType DEF Release
    <3>2. CASE NextComponent(task.left) /\ task.op \notin {"restore", "bootloader"}
      BY <1>0, <3>2, NextComponentType DEF TypeOK
    <3> QED
      BY <1>6, <3>1, <3>2 DEF Finish
  <2>2. Shown(task.dev)'
    BY <1>1, <1>3, <1>4, <2>1 DEF Shown, Excused
  <2>3. late' => Excused(task.dev)'
    BY <1>0, <1>1, <2>1 DEF Excused, StrandedInv, TaskShown
  <2>4. \A d \in Devices \ {task.dev} :
          mode'[d] = mode[d] /\ entries'[d] = entries[d] /\ (mode[d] = "boot" /\ d \in excused => d \in excused')
    BY <1>1, <1>2
  <2>5. task'.step # "none" => task.op # "bootloader"
    BY <2>1
  <2>6. Others
    BY OthersShown DEF StrandedInv
  <2>7. CASE task'.step = "none"
    BY <2>1, <2>2, <2>4, <2>6, <2>7, OverShown
  <2>8. CASE task'.step # "none"
    BY <2>1, <2>2, <2>3, <2>4, <2>5, <2>6, <2>8, OverShown
  <2> QED
    BY <2>7, <2>8
<1> QED
  BY <1>5, <1>6

LEMMA ReadShown ==
  ASSUME TypeOK, TypeOK', LockInv, StrandedInv, ReadInfo
  PROVE  StrandedInv'
<1>0. task \in Task /\ task.dev \in Devices /\ task.step = "queued" /\ ~late'
      /\ UNCHANGED <<mode, excused>> /\ Shown(task.dev)
  BY DEF TypeOK, Task, ReadInfo, Running, StrandedInv, TaskShown
<1>1. Others
  BY OthersShown DEF StrandedInv
<1>2. ASSUME UNCHANGED entries, task'.dev = task.dev,
             \/ task'.step = "none"
             \/ task'.step = "lookup" /\ task'.type = "component" /\ task'.op = task.op /\ task.op # "bootloader"
      PROVE  StrandedInv'
  <2>1. Shown(task.dev)'
    BY <1>0, <1>2 DEF Shown
  <2>2. CASE task'.step = "none"
    BY <1>0, <1>1, <1>2, <2>1, <2>2, OverShown
  <2>3. CASE task'.step # "none"
    BY <1>0, <1>1, <1>2, <2>1, <2>3, OverShown
  <2> QED
    BY <2>2, <2>3
<1>3. CASE Release /\ UNCHANGED <<entries, hidden>>
  BY <1>0, <1>2, <1>3, IdleType DEF Release
<1>4. ASSUME NEW info \in DeviceInfos(task.dev), task.op = "component",
             NextComponent(info.left), UNCHANGED <<entries, hidden>>
      PROVE  StrandedInv'
  <2>1. info.left \in SUBSET Components
    BY DEF DeviceInfos
  <2>2. /\ task'.dev = task.dev
        /\ \/ task'.step = "none"
           \/ task'.step = "lookup" /\ task'.type = "component" /\ task'.op = task.op
    BY <1>4, <2>1, NextComponentType DEF TypeOK
  <2> QED
    BY <1>2, <1>4, <2>2
<1>5. CASE EndWithError("unknown")
  <2>1. entries' = entries
    BY <1>5 DEF EndWithError, HasEntry, SoftwareType
  <2>2. task'.dev = task.dev /\ task'.step = "none"
    BY <1>0, <1>5, EndWithErrorType, IdleType
  <2> QED
    BY <1>2, <2>1, <2>2
<1>6. ASSUME NEW info \in DeviceInfos(task.dev), task.op # "component", task.op # "unknown",
             task' = [task EXCEPT !.step = "lookup",
                        !.type = IF task.op = "bootloader" THEN "bootloader" ELSE "firmware",
                        !.preserve = info.preserve, !.left = info.left],
             UNCHANGED <<inProgress, entries, hidden>>
      PROVE  StrandedInv'
  <2>1. /\ task'.step = "lookup" /\ task'.op = task.op /\ task'.dev = task.dev
        /\ task'.type = IF task.op = "bootloader" THEN "bootloader" ELSE "firmware"
    BY <1>0, <1>6 DEF Task
  <2>2. TaskShown'
    BY <1>0, <1>6, <2>1 DEF TaskShown, Shown, Excused, Flashing, Running, StrandedInv
  <2>3. \A d \in Devices : mode'[d] = "boot" => d \in excused' \/ Busy(d)' \/ entries'[d]["firmware"] = "error"
    BY <1>0, <1>6, <2>1 DEF StrandedInv, StrandedIsShown, Busy
  <2> QED
    BY <2>2, <2>3 DEF StrandedInv, StrandedIsShown
<1> QED
  BY <1>3, <1>4, <1>5, <1>6 DEF ReadInfo

LEMMA LookupShown ==
  ASSUME TypeOK, TypeOK', OpTypes, StrandedInv, Lookup
  PROVE  StrandedInv'
<1>0. /\ task \in Task /\ task.dev \in Devices /\ task.step = "lookup" /\ Flashing
      /\ task.left \in SUBSET Components /\ task.type \in SoftwareType
      /\ UNCHANGED <<mode, excused, late>> /\ Shown(task.dev)
      /\ late => Excused(task.dev)
      /\ task.op = "bootloader" => Excused(task.dev)
  BY DEF TypeOK, Task, Lookup, Running, Flashing, StrandedInv, TaskShown
<1>1. Others
  BY OthersShown DEF StrandedInv
<1>2. CASE Show("active") /\ task' = [task EXCEPT !.step = "download"] /\ UNCHANGED <<inProgress, hidden>>
  <2>1. /\ task'.step = "download" /\ task'.op = task.op /\ task'.dev = task.dev /\ task'.type = task.type
    BY <1>0, <1>2 DEF Task
  <2>2. /\ \A d \in Devices \ {task.dev} : entries'[d] = entries[d]
        /\ task.type = "firmware" => entries'[task.dev]["firmware"] = "active"
        /\ task.type # "firmware" => entries'[task.dev]["firmware"] = entries[task.dev]["firmware"]
    BY <1>0, <1>2 DEF Show, TypeOK, SoftwareType
  <2>3. TaskShown'
    BY <1>0, <2>1, <2>2 DEF TaskShown, Shown, Excused, Flashing, Running, StrandedInv
  <2>4. \A d \in Devices : mode'[d] = "boot" => d \in excused' \/ Busy(d)' \/ entries'[d]["firmware"] = "error"
    BY <1>0, <2>1, <2>2 DEF StrandedInv, StrandedIsShown, Busy
  <2> QED
    BY <2>3, <2>4 DEF StrandedInv, StrandedIsShown
<1>3. CASE Fail
  <2>1. late' => Excused(task.dev)'
    <3>1. task'.dev = task.dev
      BY <1>3, FailType
    <3> QED
      BY <1>0, <3>1 DEF Excused
  <2>2. task.op = "bootloader" => Excused(task.dev)'
    <3>1. task'.dev = task.dev
      BY <1>3, FailType
    <3> QED
      BY <1>0, <3>1 DEF Excused
  <2> QED
    BY <1>0, <1>3, <2>1, <2>2, FailShown DEF Shown
<1>4. CASE Release /\ UNCHANGED <<entries, hidden>>
  <2>1. task'.step = "none" /\ task'.dev = task.dev
    BY <1>0, <1>4, IdleType DEF Release
  <2>2. Shown(task.dev)'
    BY <1>0, <1>4, <2>1 DEF Shown
  <2> QED
    BY <1>0, <1>1, <1>4, <2>1, <2>2, OverShown
<1>5. CASE NextComponent(task.left) /\ UNCHANGED <<entries, hidden>>
  <2>1. /\ task'.dev = task.dev
        /\ \/ task'.step = "none"
           \/ task'.step = "lookup" /\ task'.type = "component" /\ task'.op = task.op
    BY <1>0, <1>5, NextComponentType DEF TypeOK
  <2>2. Shown(task.dev)'
    BY <1>0, <1>5, <2>1 DEF Shown
  <2>3. /\ late' => Excused(task.dev)'
        /\ task.op = "bootloader" => Excused(task.dev)'
    BY <1>0, <2>1 DEF Excused
  <2>4. CASE task'.step = "none"
    BY <1>0, <1>1, <1>5, <2>1, <2>2, <2>4, OverShown
  <2>5. CASE task'.step # "none"
    BY <1>0, <1>1, <1>5, <2>1, <2>2, <2>3, <2>5, OverShown
  <2> QED
    BY <2>4, <2>5
<1> QED
  BY <1>2, <1>3, <1>4, <1>5 DEF Lookup

LEMMA DownloadShown ==
  ASSUME TypeOK, TypeOK', OpTypes, StrandedInv, Download
  PROVE  StrandedInv'
<1>0. /\ task \in Task /\ task.dev \in Devices /\ task.step = "download" /\ Flashing
      /\ UNCHANGED <<mode, excused, late>>
      /\ late => Excused(task.dev)
      /\ task.op = "bootloader" => Excused(task.dev)
      /\ task.type = "component" => Shown(task.dev)
  BY DEF TypeOK, Task, Download, Running, Flashing, StrandedInv, TaskShown
<1>1. CASE Fail
  <2>1. task'.dev = task.dev
    BY <1>1, FailType
  <2>2. late' => Excused(task.dev)'
    BY <1>0, <2>1 DEF Excused
  <2>3. task.op = "bootloader" => Excused(task.dev)'
    BY <1>0, <2>1 DEF Excused
  <2> QED
    BY <1>0, <1>1, <2>2, <2>3, FailShown DEF Shown
<1>2. CASE /\ task' = [task EXCEPT !.step = IF Reboots THEN "reboot" ELSE "info"]
           /\ UNCHANGED <<inProgress, entries, hidden>>
  <2>1. /\ task'.step = (IF Reboots THEN "reboot" ELSE "info")
        /\ task'.op = task.op /\ task'.dev = task.dev /\ task'.type = task.type
    BY <1>0, <1>2 DEF Task
  <2>2. TaskShown'
    BY <1>0, <1>2, <2>1 DEF TaskShown, Shown, Excused, Flashing, Running, StrandedInv
  <2>3. \A d \in Devices : mode'[d] = "boot" => d \in excused' \/ Busy(d)' \/ entries'[d]["firmware"] = "error"
    BY <1>0, <1>2, <2>1 DEF StrandedInv, StrandedIsShown, Busy
  <2> QED
    BY <2>2, <2>3 DEF StrandedInv, StrandedIsShown
<1> QED
  BY <1>1, <1>2 DEF Download

LEMMA StrandedStep ==
  ASSUME TypeOK, TypeOK', OpTypes, LockInv, FlashIntact, StrandedInv, [Next]_vars
  PROVE  StrandedInv'
<1>0. task \in Task /\ task.dev \in Devices /\ Idle(task.dev).step = "none"
  BY IdleType DEF TypeOK, Task
<1>1. ASSUME UNCHANGED <<task, entries, mode, late, excused>>
      PROVE  StrandedInv'
  BY <1>1 DEF StrandedInv, TaskShown, StrandedIsShown, Shown, Excused, Flashing, Running, Busy
<1>2. ASSUME NEW d \in Devices, NEW op \in Operation, Accept(d, op)
      PROVE  StrandedInv'
  <2>1. task'.step = "queued" /\ task'.dev = d /\ task'.op = op
    BY <1>0, <1>2 DEF Accept, Task
  <2>2. task.step = "none"
    BY <1>2 DEF Accept, LockInv
  <2>3. \A x \in Devices : Shown(x)
    BY <2>2 DEF StrandedInv, StrandedIsShown, Shown, Busy
  <2>4. \A x \in Devices : mode'[x] = "boot" => x \in excused' \/ entries'[x]["firmware"] = "error"
    BY <1>2, <2>3 DEF Accept, Shown
  <2>5. op = "bootloader" => d \in excused'
    BY <1>2 DEF Accept
  <2>6. TaskShown'
    BY <2>1, <2>4, <2>5 DEF TaskShown, Shown, Excused, Flashing, Running
  <2> QED
    BY <2>4, <2>6 DEF StrandedInv, StrandedIsShown
<1>3. ASSUME NEW d \in Devices, NEW t \in SoftwareType, ClearError(d, t)
      PROVE  StrandedInv'
  <2>1. /\ UNCHANGED <<task, mode, late>>
        /\ excused' = IF mode[d] = "boot" THEN excused \union {d} ELSE excused
        /\ \A x \in Devices : entries[x]["firmware"] = "error" => entries'[x]["firmware"] = "error" \/ x = d
        /\ \A x \in Devices : entries[x]["firmware"] = "active" => entries'[x]["firmware"] = "active"
    BY <1>3 DEF ClearError, TypeOK, SoftwareType
  <2>2. TaskShown'
    BY <1>0, <2>1 DEF StrandedInv, TaskShown, Shown, Excused, Flashing, Running
  <2>3. \A x \in Devices : mode'[x] = "boot" => x \in excused' \/ Busy(x)' \/ entries'[x]["firmware"] = "error"
    BY <2>1 DEF StrandedInv, StrandedIsShown, Busy
  <2> QED
    BY <2>2, <2>3 DEF StrandedInv, StrandedIsShown
<1>4. CASE Restart
  <2>1. task'.step = "none" /\ \A d \in Devices : mode'[d] = "boot" => d \in excused'
    BY <1>0, <1>4 DEF Restart
  <2> QED
    BY <2>1 DEF StrandedInv, StrandedIsShown, TaskShown, Flashing
<1>5. CASE UNCHANGED vars
  BY <1>1, <1>5 DEF vars
<1> QED
  BY <1>2, <1>3, <1>4, <1>5, ReadShown, LookupShown, DownloadShown, RebootShown, InfoShown, BlockShown,
     FinishShown DEF Next, TaskStep

\* No update of a firmware leaves a device in its bootloader without an error on display.
THEOREM StrandedShown == Spec => []StrandedIsShown
<1>1. Init => StrandedInv
  <2> SUFFICES ASSUME Init
               PROVE  StrandedInv
    OBVIOUS
  <2>1. task.step = "none"
    BY IdleType DEF Init
  <2> QED
    BY <2>1 DEF Init, StrandedInv, StrandedIsShown, TaskShown, Flashing
<1>2. /\ TypeOK /\ TypeOK' /\ (OpTypes /\ LockInv) /\ FlashIntact /\ StrandedInv /\ [Next]_vars
      => StrandedInv'
  BY StrandedStep
<1>3. StrandedInv => StrandedIsShown
  BY DEF StrandedInv
<1> QED
  BY <1>1, <1>2, <1>3, TypeCorrect, LockAlways, FlashedIntact, PTL DEF Spec
=============================================================================
