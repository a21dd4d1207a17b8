------------------------------ MODULE FwUpdate ------------------------------
(***************************************************************************)
(* Firmware updates over the bus (src/rpc, rpc_fw_...): requests Update,   *)
(* Restore and ClearError, the lock that admits one update at a time, the  *)
(* task that flashes a device from the serial                              *)
(* thread, the list of updates that is published, and the devices with     *)
(* their bootloaders, over a bus that loses and delays messages.           *)
(***************************************************************************)
EXTENDS Naturals

CONSTANTS
  Devices,    \* the devices, each an address on a port
  Legacy,     \* the devices that do not keep the port settings in the bootloader
  Components, \* the numbers of the components of a device
  Blocks,     \* data blocks of an image
  MaxRetries  \* MAX_WRITE_RETRIES

ASSUME FwAssumption ==
  /\ Legacy \subseteq Devices
  /\ Components \subseteq Nat
  /\ Blocks \in Nat \ {0}
  /\ MaxRetries \in Nat \ {0}

SoftwareType == {"firmware", "bootloader", "component"}
Operation == SoftwareType \union {"restore", "unknown"}
EntryState == {"none", "active", "error"}
Step == {"none", "queued", "lookup", "download", "reboot", "info", "block", "finish"}
Answer == {"none", "reboot", "ok", "written", "refused"}

\* What runs on the serial thread: the request, what is flashed and how far it is.
Task ==
  [step : Step, op : Operation, dev : Devices, type : SoftwareType,
   left : SUBSET Components, preserve : BOOLEAN, block : 1..Blocks, try : 0..MaxRetries - 1]

\* What a bootloader has of an image: its last block, and whether a block is missing.
Image == [last : 0..Blocks, hole : BOOLEAN]
NoImage == [last |-> 0, hole |-> FALSE]
Idle(d) == [step |-> "none", op |-> "firmware", dev |-> d, type |-> "firmware",
            left |-> {}, preserve |-> FALSE, block |-> 1, try |-> 0]

VARIABLES
  inProgress, \* TFwUpdateLock::InProgress
  task,       \* the accepted update, step "none" when there is none
  entries,    \* TFwUpdateState::Devices
  mode,       \* the devices: application or bootloader
  image,      \* what their bootloaders have received
  unread,     \* an answer that came too late and is not read yet
  late,       \* history: an answer of the current flash came too late
  excused,    \* history: devices in the bootloader that no error entry need tell of
  hidden      \* history: a failure after the answer "Ok" left no error entry

vars == <<inProgress, task, entries, mode, image, unread, late, excused, hidden>>

Init ==
  /\ inProgress = FALSE
  /\ task \in {Idle(d) : d \in Devices}
  /\ entries = [d \in Devices |-> [t \in SoftwareType |-> "none"]]
  /\ mode \in [Devices -> {"app", "boot"}]
  /\ image = [d \in Devices |-> NoImage]
  /\ unread = "none"
  /\ late = FALSE
  /\ excused = {d \in Devices : mode[d] = "boot"}
  /\ hidden = FALSE

Running(s) == task.step = s
Busy(d) == task.step # "none" /\ task.dev = d

-----------------------------------------------------------------------------
(* Requests *)

\* Update and Restore: one at a time. A request that does not parse, or that no port
\* takes, gives the lock back before anybody can see it taken.
Accept(d, op) ==
  /\ ~inProgress
  /\ inProgress' = TRUE
  /\ task' = [task EXCEPT !.step = "queued", !.op = op, !.dev = d]
  /\ excused' = IF op = "bootloader" THEN excused \union {d} ELSE excused
  /\ hidden' = FALSE
  /\ UNCHANGED <<entries, mode, image, unread, late>>

\* Only an entry with an error is removed.
ClearError(d, t) ==
  /\ entries[d][t] = "error"
  /\ entries' = [entries EXCEPT ![d][t] = "none"]
  /\ excused' = IF mode[d] = "boot" THEN excused \union {d} ELSE excused
  /\ UNCHANGED <<inProgress, task, mode, image, unread, late, hidden>>

-----------------------------------------------------------------------------
(* The task *)

Show(s) == entries' = [entries EXCEPT ![task.dev][task.type] = s]

\* Mutant: the lock is forgotten.
MutantKeepsLock ==
  /\ inProgress' = inProgress
  /\ task' = Idle(task.dev)

\* The task is over; the lock is released on every way out of Run.
Release ==
  /\ inProgress' = FALSE
  /\ task' = Idle(task.dev)

\* TFwUpdateState::SetError finds the entry by device and type, or does nothing.
HasEntry(t) == t \in SoftwareType /\ entries[task.dev][t] # "none"
EndWithError(t) ==
  /\ entries' = IF HasEntry(t) THEN [entries EXCEPT ![task.dev][t] = "error"] ELSE entries
  /\ hidden' = ~HasEntry(t)
  /\ Release

\* DoComponentsUpdate goes on with the next component, the end of the loop is the
\* end of the update.
NextComponent(left) ==
  IF left = {}
  THEN Release
  ELSE \E c \in left :
         /\ \A x \in left : c <= x
         /\ task' = [task EXCEPT !.step = "lookup", !.type = "component", !.left = left \ {c},
                                    !.block = 1, !.try = 0]
         /\ UNCHANGED inProgress

\* Mutant: the error of a restoration is set for its own type.
MutantRestoreError ==
  IF task.type = "component"
  THEN NextComponent(task.left) /\ hidden' = TRUE /\ UNCHANGED entries
  ELSE EndWithError(task.op)

\* An exception while something is flashed or looked up; that of a component is only logged.
Fail ==
  IF task.type = "component"
  THEN NextComponent(task.left) /\ hidden' = TRUE /\ UNCHANGED entries
  ELSE EndWithError(IF task.op = "restore" THEN "firmware" ELSE task.op)

\* Reading the signature must succeed, the other reads may fail: without an answer the
\* device is taken for one that does not keep its port settings, or has no components.
\* A device in the bootloader answers neither.
DeviceInfos(d) ==
  [preserve : IF d \in Legacy \/ mode[d] = "boot" THEN {FALSE} ELSE BOOLEAN,
   left : IF mode[d] = "boot" THEN {{}} ELSE SUBSET Components]

\* Opening the port, PrepareToAccess, the port settings, SkipNoise and the device info.
ReadInfo ==
  /\ Running("queued")
  /\ unread' = "none"
  /\ late' = FALSE
  /\ UNCHANGED <<mode, image, excused>>
  /\ \/ \E info \in DeviceInfos(task.dev) :
          IF task.op = "component"
          THEN NextComponent(info.left) /\ UNCHANGED <<entries, hidden>>
          ELSE IF task.op = "unknown"
               THEN EndWithError("unknown")
               ELSE /\ task' = [task EXCEPT
                                  !.step = "lookup",
                                  !.type = IF task.op = "bootloader" THEN "bootloader" ELSE "firmware",
                                  !.preserve = info.preserve, !.left = info.left]
                    /\ UNCHANGED <<inProgress, entries, hidden>>
     \/ Release /\ UNCHANGED <<entries, hidden>>

\* GetReleasedFirmware and GetReleasedBootloader, from a cache or from the server: either
\* may not know the device. A restoration has not answered yet: its error is the answer.
Lookup ==
  /\ Running("lookup")
  /\ UNCHANGED <<mode, image, unread, late, excused>>
  /\ \/ /\ Show("active")
        /\ task' = [task EXCEPT !.step = "download"]
        /\ UNCHANGED <<inProgress, hidden>>
     \/ IF task.op = "restore" THEN Release /\ UNCHANGED <<entries, hidden>> ELSE Fail
     \/ /\ task.type = "component" \* it has this version
        /\ NextComponent(task.left)
        /\ UNCHANGED <<entries, hidden>>

\* Does this flash start with a reboot? Not a restoration, not a component, and not the
\* firmware that follows a bootloader.
Reboots == task.type = "bootloader" \/ (task.type = "firmware" /\ task.op = "firmware")

\* DownloadAndParseWBFW.
Download ==
  /\ Running("download")
  /\ UNCHANGED <<mode, image, unread, late, excused>>
  /\ \/ /\ task' = [task EXCEPT !.step = IF Reboots THEN "reboot" ELSE "info"]
        /\ UNCHANGED <<inProgress, entries, hidden>>
     \/ Fail

-----------------------------------------------------------------------------
(* The bus *)

\* A transaction in which the device has sent answer (or "none"): what the service reads,
\* and what is left unread. An answer that waits is read in place of the new one.
Reads(answer) ==
  IF unread # "none"
  THEN {[got |-> unread, rest |-> answer, late |-> late]}
  ELSE {[got |-> answer, rest |-> "none", late |-> late],
        [got |-> "none", rest |-> "none", late |-> late]}
       \union (IF answer = "none" THEN {} ELSE {[got |-> "none", rest |-> answer, late |-> TRUE]})

\* The effects of a transaction on the bus; a late answer may hide what the device lacks.
Exchange(r) ==
  /\ unread' = r.rest
  /\ late' = r.late
  /\ excused' = {d \in Devices : mode'[d] = "boot" /\ (d \in excused \/ (r.late /\ d = task.dev))}

\* The reboot, with or without an answer: a device that keeps its settings must answer.
Reboot ==
  /\ Running("reboot")
  /\ UNCHANGED image
  /\ \E heard \in BOOLEAN :
       /\ mode' = IF heard THEN [mode EXCEPT ![task.dev] = "boot"] ELSE mode
       /\ \E r \in Reads(IF heard THEN "reboot" ELSE "none") :
            /\ Exchange(r)
            /\ IF r.got = "reboot" \/ (r.got = "none" /\ ~task.preserve)
               THEN /\ task' = [task EXCEPT !.step = "info"]
                    /\ UNCHANGED <<inProgress, entries, hidden>>
               ELSE Fail

\* Who takes an image: the bootloader, or the application for a component.
Receives(d) == (task.type = "component") = (mode[d] = "app")

\* WriteInfo: any answer will do.
WriteInfo ==
  /\ Running("info")
  /\ UNCHANGED mode
  /\ \E heard \in BOOLEAN :
       /\ image' = IF heard /\ Receives(task.dev)
                   THEN [image EXCEPT ![task.dev] = NoImage] ELSE image
       /\ \E r \in Reads(IF ~heard THEN "none" ELSE IF Receives(task.dev) THEN "ok" ELSE "refused") :
            /\ Exchange(r)
            /\ IF r.got # "none"
               THEN /\ task' = [task EXCEPT !.step = "block", !.block = 1, !.try = 0]
                    /\ UNCHANGED <<inProgress, entries, hidden>>
               ELSE Fail

Complete(i) == i = [last |-> Blocks, hole |-> FALSE]

\* What the device answers to a block: "written" (0x04) when it has just taken that block.
BlockAnswer(d) ==
  IF image[d].last = task.block /\ (Receives(d) \/ Complete(image[d]))
  THEN "written"
  ELSE IF Receives(d) THEN "ok" ELSE "refused"

\* What the device does with it. With the last block it starts the new firmware, unless a
\* block is missing.
TakeBlock(d) ==
  /\ image' = [image EXCEPT ![d] =
                 [last |-> task.block, hole |-> @.hole \/ task.block # @.last + 1]]
  /\ mode' = IF Complete(image'[d]) /\ task.type = "firmware"
             THEN [mode EXCEPT ![d] = "app"] ELSE mode

\* A block was acknowledged: the next one, or the end of the image.
Acknowledged ==
  /\ task' = IF task.block = Blocks
             THEN [task EXCEPT !.step = "finish"]
             ELSE [task EXCEPT !.block = @ + 1, !.try = 0]
  /\ UNCHANGED <<inProgress, entries, hidden>>

\* Mutant: any exception counts as written.
MutantAnyException(answer) == answer \in {"ok", "written", "refused"}

\* The answers that WriteDataBlock takes for a success.
Accepted(answer) == answer \in {"ok", "written"}

\* Mutant: tries are not counted.
MutantNotCounted ==
  /\ Running("block")
  /\ \E heard \in BOOLEAN :
       /\ IF heard /\ BlockAnswer(task.dev) = "ok" THEN TakeBlock(task.dev) ELSE UNCHANGED <<mode, image>>
       /\ \E r \in Reads(IF heard THEN BlockAnswer(task.dev) ELSE "none") :
            /\ Exchange(r)
            /\ IF Accepted(r.got)
               THEN Acknowledged
               ELSE UNCHANGED <<task, inProgress, entries, hidden>>

\* WriteDataBlock and the loop of WriteData: any other answer, or none, is tried again.
WriteBlock ==
  /\ Running("block")
  /\ \E heard \in BOOLEAN :
       /\ IF heard /\ BlockAnswer(task.dev) = "ok" THEN TakeBlock(task.dev) ELSE UNCHANGED <<mode, image>>
       /\ \E r \in Reads(IF heard THEN BlockAnswer(task.dev) ELSE "none") :
            /\ Exchange(r)
            /\ IF Accepted(r.got)
               THEN Acknowledged
               ELSE IF task.try < MaxRetries - 1
                    THEN /\ task' = [task EXCEPT !.try = @ + 1]
                         /\ UNCHANGED <<inProgress, entries, hidden>>
                    ELSE Fail

\* The end of DoFlash: the entry is removed, and what is next to flash is looked up.
Finish ==
  /\ Running("finish")
  /\ Show("none")
  /\ UNCHANGED <<mode, image, unread, late, excused>>
  /\ UNCHANGED hidden
  /\ IF task.type = "bootloader"
     THEN /\ task' = [task EXCEPT !.step = "lookup", !.type = "firmware", !.block = 1, !.try = 0]
          /\ UNCHANGED inProgress
     ELSE IF task.op \in {"restore", "bootloader"} THEN Release ELSE NextComponent(task.left)

TaskStep ==
  \/ ReadInfo \/ Lookup \/ Download \/ Reboot \/ WriteInfo \/ WriteBlock \/ Finish

-----------------------------------------------------------------------------
(* The environment *)

\* The process ends and is started again: the list of updates is published empty.
Restart ==
  /\ inProgress' = FALSE
  /\ task' = Idle(task.dev)
  /\ entries' = [d \in Devices |-> [t \in SoftwareType |-> "none"]]
  /\ unread' = "none"
  /\ excused' = {d \in Devices : mode[d] = "boot"}
  /\ hidden' = FALSE
  /\ UNCHANGED <<mode, image, late>>

Next ==
  \/ \E d \in Devices, op \in Operation : Accept(d, op)
  \/ \E d \in Devices, t \in SoftwareType : ClearError(d, t)
  \/ TaskStep
  \/ Restart

Spec == Init /\ [][Next]_vars

\* The serial thread goes on with its task.
FairSpec == Spec /\ WF_vars(TaskStep)

-----------------------------------------------------------------------------
(* Properties *)

TypeOK ==
  /\ inProgress \in BOOLEAN
  /\ task \in Task
  /\ entries \in [Devices -> [SoftwareType -> EntryState]]
  /\ mode \in [Devices -> {"app", "boot"}]
  /\ image \in [Devices -> Image]
  /\ unread \in Answer
  /\ late \in BOOLEAN
  /\ excused \subseteq Devices
  /\ hidden \in BOOLEAN

\* The lock is held from the moment a request is accepted until its task is over, on
\* every one of the ways out of Run, and a bootloader that is shown as being flashed is
\* being flashed.
LockHeldByTask ==
  /\ inProgress <=> task.step # "none"
  /\ \A d \in Devices : entries[d]["bootloader"] = "active" => Busy(d)

\* When every block of an image was acknowledged, the device has all of them in order and
\* runs the firmware: answers that were lost and blocks that were sent again have not
\* changed the image. It takes that no answer came after its timeout.
FlashIntact ==
  Running("finish") /\ ~late =>
    /\ Complete(image[task.dev])
    /\ task.type = "firmware" => mode[task.dev] = "app"

\* A device that an update of its firmware leaves in the bootloader is shown with an error
\* until it is restored or the user clears the error.
StrandedIsShown ==
  \A d \in Devices :
    mode[d] = "boot" => d \in excused \/ Busy(d) \/ entries[d]["firmware"] = "error"

\* Every accepted update ends and frees the lock, whatever fails.
UpdateEnds == inProgress ~> ~inProgress

\* All errors of an update that was answered with "Ok" are published. The code does not keep this:
\* README.md beside this module tells the counterexamples.
ErrorsPublished == ~hidden
=============================================================================
