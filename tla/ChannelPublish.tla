--------------------------- MODULE ChannelPublish ---------------------------
(***************************************************************************)
(* What a channel shows in MQTT (serial_port_driver.cpp, register.cpp):    *)
(* its registers are read, written and reported by events, alone or        *)
(* together, and each time a callback publishes a value, an error, both or *)
(* nothing.  All of this runs in the serial thread, one callback after the *)
(* other; the calls of a range come after all its registers were read.     *)
(*                                                                         *)
(* Times are left out: a value may or may not be due for publishing.       *)
(***************************************************************************)
EXTENDS Naturals

CONSTANTS
  Channels,    \* the channels to look at; a behaviour is about one of them
  Values,      \* values of a register
  Undefined    \* no value

(* registers: of the channel; counters: those of type press_counter;       *)
(* sporadic: those updated by events only; timed: those with a read        *)
(* period; writable; policy: when a value is published that has not        *)
(* changed.                                                                *)
ChannelType ==
  [registers : SUBSET STRING, counters : SUBSET STRING, sporadic : SUBSET STRING,
   timed : SUBSET STRING, writable : SUBSET STRING,
   policy : {"OnlyOnChange", "SomeUnchanged", "All"}]

ASSUME ChannelAssumption ==
  /\ Channels \subseteq ChannelType
  /\ \A c \in Channels :
       /\ c.registers # {}
       /\ c.counters \cup c.sporadic \cup c.timed \cup c.writable \subseteq c.registers
       /\ c.counters \cap c.writable = {}
  /\ 0 \in Values /\ Undefined \notin Values

VARIABLES
  channel,
  value, errors, avail,    \* register -> Value, ErrorState, Available
  excluded, queued,        \* registers excluded from polling, and in a queue
  conn,                    \* ConnectionState
  waiting,                 \* it waits for RescheduleDisconnectedDevices
  outage,                  \* ClearErrorsOnSuccessfulRead
  calls,                   \* callbacks to make, as <<reason, register>>
  cachedValue, cachedError,     \* CachedCurrentValue, CachedErrorText
  publishZero,                  \* PublishNextZeroPressCounter
  shownValue, shownError,       \* what was published in MQTT
  silent,   \* history: errors or availability have changed without a callback
  fresh      \* history: counters that were not seen above zero since the disconnection

registerVars == <<value, errors, avail>>
pollVars == <<excluded, queued>>
deviceVars == <<conn, waiting, outage>>
cacheVars == <<cachedValue, cachedError, publishZero>>
shownVars == <<shownValue, shownError>>
vars == <<channel, registerVars, pollVars, deviceVars, calls, cacheVars, shownVars, silent, fresh>>

Registers == channel.registers

Init ==
  /\ channel \in Channels
  /\ value = [r \in Registers |-> Undefined]
  /\ errors = [r \in Registers |-> {}]
  /\ avail = [r \in Registers |-> "UNKNOWN"]
  /\ excluded = {}
  /\ queued = Registers
  /\ conn = "UNKNOWN"
  /\ waiting = FALSE
  /\ outage = FALSE
  /\ calls = {}
  /\ cachedValue = Undefined
  /\ cachedError = {}
  /\ publishZero = TRUE
  /\ shownValue = Undefined
  /\ shownError = {}
  /\ silent = FALSE
  /\ fresh = {}

-----------------------------------------------------------------------------
(* TDeviceChannel.                                                         *)

ErrorText == UNION {errors'[r] : r \in Registers}

HasValuesOfAllRegisters == \A r \in Registers : avail[r] # "UNKNOWN"

ShouldNotPublishPressCounter ==
  ~ publishZero /\ \E r \in channel.counters : value[r] = 0

PublishValueAndError ==
  /\ cachedValue' = value /\ shownValue' = value
  /\ cachedError' = ErrorText /\ shownError' = ErrorText

\* Mutant: an error is published only when there is one.
MutantNoRecovery == ErrorText # {} /\ cachedError # ErrorText

ErrorIsChanged == cachedError # ErrorText

PublishError ==
  /\ cachedError' = IF ErrorIsChanged THEN ErrorText ELSE cachedError
  /\ shownError' = IF ErrorIsChanged THEN ErrorText ELSE shownError

\* Mutant: an error is published with the first values only.
MutantWithValues ==
  IF HasValuesOfAllRegisters
  THEN PublishError /\ UNCHANGED <<cachedValue, shownValue, publishZero>>
  ELSE UNCHANGED <<cacheVars, shownVars>>

UpdateError ==
  /\ PublishError
  /\ UNCHANGED <<cachedValue, shownValue, publishZero>>

\* The register r is the one that was read.
MustPublish(r) ==
  \/ channel.policy = "All"
  \/ r \in channel.sporadic \cap excluded
  \/ cachedValue # value
  \/ channel.policy = "SomeUnchanged" /\ ErrorIsChanged

\* The value that was published last is old enough.
MayPublish == channel.policy = "SomeUnchanged"

\* A zero that is not published is remembered as if it were.
HideValue ==
  /\ ShouldNotPublishPressCounter
  /\ PublishError
  /\ cachedValue' = value
  /\ UNCHANGED <<shownValue, publishZero>>

ShowValue(r) ==
  /\ ~ ShouldNotPublishPressCounter
  /\ publishZero' = TRUE
  /\ \/ (MustPublish(r) \/ MayPublish) /\ PublishValueAndError
     \/ ~ MustPublish(r) /\ PublishError /\ UNCHANGED <<cachedValue, shownValue>>

UpdateValueAndError(r) ==
  IF \E s \in Registers : value[s] = Undefined
  THEN UpdateError
  ELSE HideValue \/ ShowValue(r)

\* TSerialPortDriver::OnValueRead.
OnValueRead(r) ==
  IF HasValuesOfAllRegisters
  THEN UpdateValueAndError(r) /\ silent' = FALSE
  ELSE UNCHANGED <<cacheVars, shownVars, silent>>

-----------------------------------------------------------------------------
(* The callbacks.                                                          *)

\* Mutant: any error of a polled register hides its value.
MutantAnyError(reason, r) == errors'[r] # {}

\* A polled register goes to the error callback if it has an error of reading or
\* writing, a written one if it has an error of writing.
GoesToError(reason, r) ==
  errors'[r] \cap (IF reason = "write" THEN {"w"} ELSE {"r", "w"}) # {}

\* Reasons "fail" and "clear" set and clear the error of reading right before the call.
Call(reason, r) ==
  /\ <<reason, r>> \in calls
  /\ calls' = calls \ {<<reason, r>>}
  /\ errors' = [errors EXCEPT ![r] = IF reason = "fail" THEN @ \cup {"r"}
                                     ELSE IF reason = "clear" THEN @ \ {"r"} ELSE @]
  /\ IF GoesToError(reason, r)
     THEN UpdateError /\ silent' = (silent /\ ~ HasValuesOfAllRegisters)
     ELSE OnValueRead(r)
  /\ UNCHANGED <<channel, value, avail, pollVars, deviceVars, fresh>>

AtRest == calls = {}

-----------------------------------------------------------------------------
(* Polls.                                                                  *)

\* Registers of a range keep or leave the queue (TPollableDevice::ScheduleNextPoll).
Requeue(range) == queued' = queued \ {r \in range : r \in excluded' /\ value'[r] # Undefined}

\* SetLastPollTime: which registers of the range are polled too seldom.
PollTimes(range, late) ==
  [r \in Registers |-> IF r \notin range \cap channel.timed THEN errors[r]
                       ELSE IF r \in late THEN errors[r] \cup {"p"} ELSE errors[r] \ {"p"}]

Readable(range) ==
  range # {} /\ range \subseteq {r \in queued : avail[r] # "UNAVAILABLE"}

ReadOk(range, late, seen) ==
  /\ AtRest /\ Readable(range)
  /\ value' = [r \in Registers |-> IF r \in range THEN seen[r] ELSE value[r]]
  /\ avail' = [r \in Registers |-> IF r \in range THEN "AVAILABLE" ELSE avail[r]]
  /\ errors' = [r \in Registers |-> IF r \in range THEN PollTimes(range, late)[r] \ {"r"} ELSE errors[r]]
  /\ fresh' = {r \in fresh : value'[r] = 0 \/ r \notin range}
  /\ conn' = "CONNECTED"
  /\ calls' = {"poll"} \X range
  /\ UNCHANGED excluded
  /\ Requeue(range)
  /\ UNCHANGED <<channel, waiting, outage, cacheVars, shownVars, silent>>

\* No answer, or a permanent exception.
ReadFailed(range, late, unavailable) ==
  /\ AtRest /\ Readable(range)
  /\ errors' = [r \in Registers |-> IF r \in range THEN PollTimes(range, late)[r] \cup {"r"} ELSE errors[r]]
  /\ IF unavailable
     THEN /\ avail' = [r \in Registers |-> IF r \in range THEN "UNAVAILABLE" ELSE avail[r]]
          /\ excluded' = excluded \cup range
     ELSE UNCHANGED <<avail, excluded>>
  /\ calls' = {"poll"} \X range
  /\ UNCHANGED value
  /\ Requeue(range)
  /\ UNCHANGED <<channel, deviceVars, cacheVars, shownVars, silent, fresh>>

\* A range takes unavailable registers from the queue without reading them.
SkipUnavailable(r) ==
  /\ AtRest
  /\ r \in queued /\ avail[r] = "UNAVAILABLE"
  /\ queued' = queued \ {r}
  /\ UNCHANGED <<channel, registerVars, excluded, deviceVars, calls, cacheVars, shownVars, silent, fresh>>

\* The port is closed.
ReadClosed(range) ==
  /\ AtRest
  /\ range # {} /\ range \subseteq queued
  /\ calls' = {"fail"} \X range
  /\ UNCHANGED <<value, excluded>>
  /\ Requeue(range)
  /\ UNCHANGED <<channel, errors, avail, deviceVars, cacheVars, shownVars, silent, fresh>>

-----------------------------------------------------------------------------
(* Writes.                                                                 *)

WriteOk(r, v) ==
  /\ AtRest /\ conn # "DISCONNECTED"
  /\ value' = [value EXCEPT ![r] = v]
  /\ avail' = [avail EXCEPT ![r] = "AVAILABLE"]
  /\ errors' = [errors EXCEPT ![r] = @ \ {"w"}]
  /\ calls' = {<<"write", r>>}
  /\ conn' = "CONNECTED"
  /\ UNCHANGED <<channel, pollVars, waiting, outage, cacheVars, shownVars, silent, fresh>>

\* Also when the port is closed, the device disconnected or its preparation fails.
WriteFailed(r) ==
  /\ AtRest
  /\ errors' = [errors EXCEPT ![r] = @ \cup {"w"}]
  /\ calls' = {<<"write", r>>}
  /\ UNCHANGED <<channel, value, avail, pollVars, deviceVars, cacheVars, shownVars, silent, fresh>>

-----------------------------------------------------------------------------
(* Events.                                                                 *)

Event(r, v) ==
  /\ AtRest
  /\ value' = [value EXCEPT ![r] = v]
  /\ avail' = [avail EXCEPT ![r] = "AVAILABLE"]
  /\ errors' = [errors EXCEPT ![r] = @ \ {"r"}]
  /\ fresh' = IF v = 0 THEN fresh ELSE fresh \ {r}
  /\ calls' = {<<"poll", r>>}
  /\ UNCHANGED <<channel, pollVars, deviceVars, cacheVars, shownVars, silent>>

EventRegisters == channel.sporadic \cap excluded

\* ReadEventsFailed, or ClosedPortCycle, which does not say that there are errors to clear.
SetReadErrors ==
  /\ AtRest
  /\ outage' \in {outage, TRUE}
  /\ calls' = {"fail"} \X EventRegisters
  /\ UNCHANGED <<channel, registerVars, pollVars, conn, waiting, cacheVars, shownVars, silent, fresh>>

ClearReadErrors ==
  /\ AtRest /\ outage
  /\ outage' = FALSE
  /\ calls' = {"clear"} \X EventRegisters
  /\ UNCHANGED <<channel, registerVars, pollVars, conn, waiting, cacheVars, shownVars, silent, fresh>>

-----------------------------------------------------------------------------
(* The connection of the device.                                           *)

\* Mutant: a counter may be published as zero after a disconnection.
MutantPublishesZero == TRUE

PublishesZero == FALSE

\* Failing reads or a reboot event.  What failing reads publish are errors: whether
\* before or after the disconnection makes no difference.
Disconnect ==
  /\ AtRest /\ conn # "DISCONNECTED"
  /\ conn' = "DISCONNECTED"
  /\ waiting' = TRUE
  /\ publishZero' = PublishesZero
  /\ fresh' = channel.counters
  /\ UNCHANGED <<channel, registerVars, pollVars, outage, calls, cachedValue, cachedError, shownVars, silent>>

Reschedule ==
  /\ AtRest /\ waiting
  /\ waiting' = FALSE
  /\ LET regs == excluded \ queued
     IN /\ avail' = [r \in Registers |-> IF r \in regs THEN "UNKNOWN" ELSE avail[r]]
        /\ excluded' = excluded \ regs
        /\ queued' = queued \cup regs
  /\ UNCHANGED <<channel, value, errors, conn, outage, calls, cacheVars, shownVars, silent, fresh>>

\* PrepareImpl of a Wiren Board device whose firmware supports all the registers.
Prepare ==
  /\ AtRest /\ conn # "CONNECTED"
  /\ errors' = [r \in Registers |-> errors[r] \ {"r"}]
  /\ excluded' = {}
  /\ silent' = TRUE
  /\ UNCHANGED <<channel, value, avail, queued, deviceVars, calls, cacheVars, shownVars, fresh>>

\* The device answers; it accepts events of some of the registers and refuses others.
Connect(accepted, refused) ==
  /\ AtRest /\ conn # "CONNECTED"
  /\ conn' = "CONNECTED"
  /\ avail' = [r \in Registers |-> IF r \in accepted THEN "AVAILABLE" ELSE avail[r]]
  /\ excluded' = (excluded \cup accepted) \ refused
  /\ silent' = (silent \/ accepted # {})
  /\ UNCHANGED <<channel, value, errors, queued, waiting, outage, calls, cacheVars, shownVars, fresh>>

-----------------------------------------------------------------------------
Poll ==
  \E range \in SUBSET Registers :
    \/ \E late \in SUBSET (range \cap channel.timed) :
         \/ \E seen \in [range -> Values] : ReadOk(range, late, seen)
         \/ \E unavailable \in BOOLEAN : ReadFailed(range, late, unavailable)
    \/ ReadClosed(range)

Write == \E r \in channel.writable : WriteFailed(r) \/ \E v \in Values : WriteOk(r, v)

Events ==
  \/ \E r \in channel.sporadic, v \in Values : Event(r, v)
  \/ SetReadErrors
  \/ ClearReadErrors

Connection ==
  \/ Disconnect
  \/ Reschedule
  \/ Prepare
  \/ \E accepted \in SUBSET channel.sporadic :
       \E refused \in SUBSET (channel.sporadic \ accepted) : Connect(accepted, refused)

Next ==
  \/ \E reason \in {"poll", "write", "fail", "clear"}, r \in Registers : Call(reason, r)
  \/ Poll
  \/ \E r \in Registers : SkipUnavailable(r)
  \/ Write
  \/ Events
  \/ Connection

Spec == Init /\ [][Next]_vars

-----------------------------------------------------------------------------
ErrorNames == {"r", "w", "p"}

TypeOK ==
  /\ channel \in Channels
  /\ value \in [Registers -> Values \cup {Undefined}]
  /\ errors \in [Registers -> SUBSET ErrorNames]
  /\ avail \in [Registers -> {"UNKNOWN", "AVAILABLE", "UNAVAILABLE"}]
  /\ excluded \subseteq Registers /\ queued \subseteq Registers
  /\ waiting \in BOOLEAN /\ outage \in BOOLEAN
  /\ publishZero \in BOOLEAN /\ silent \in BOOLEAN
  /\ conn \in {"UNKNOWN", "CONNECTED", "DISCONNECTED"}
  /\ calls \subseteq {"poll", "write", "fail", "clear"} \X Registers
  /\ cachedValue \in [Registers -> Values] \cup {Undefined}
  /\ cachedError \subseteq ErrorNames
  /\ shownValue \in [Registers -> Values] \cup {Undefined}
  /\ shownError \subseteq ErrorNames
  /\ fresh \subseteq channel.counters

\* ProcessPolledRegister, TDeviceChannel::UpdateError: an error of reading or writing
\* is never hidden, whatever the other registers of the channel do.
ErrorsNotHidden ==
  AtRest => \A r \in Registers : errors[r] \cap {"r", "w"} \subseteq shownError

\* Every register has a value or is known to have none, and there was a callback since
\* the device was prepared.
Settled == AtRest /\ HasValuesOfAllRegisters /\ ~ silent

\* TDeviceChannel::UpdateValueAndError: an error that is over does not stay in MQTT.
ErrorsEnd ==
  Settled =>
    shownError \subseteq UNION {errors[r] : r \in Registers}

\* TSerialPortDriver::OnValueRead: without errors, MQTT shows the values of all the
\* registers, though reads and writes of some of them were not published.
ValueShown ==
  Settled
    /\ (\A r \in Registers : value[r] # Undefined /\ errors[r] \cap {"r", "w"} = {})
    /\ ~ ShouldNotPublishPressCounter
    => shownValue = value

\* After a disconnection of the device, a counter is published as zero.
ZeroShown(r) ==
  r \in fresh /\ shownValue # shownValue' /\ shownValue'[r] = 0

\* DoNotPublishNextZeroPressCounter: a channel of one polled counter does not show a zero
\* after a disconnection before the counter was read above zero.
PolledZeroHidden ==
  [][\A r \in channel.counters :
       Registers = {r} /\ channel.sporadic = {} => ~ ZeroShown(r)]_vars

\* README.md:1894: no counter shows a zero that was read right after a restart. No run states it:
\* README.md beside this module tells the counterexample.
ZeroHidden == [][\A r \in channel.counters : ~ ZeroShown(r)]_vars
=============================================================================
