----------------------- MODULE ChannelPublishProofs -----------------------
(***************************************************************************)
(* Proofs about ChannelPublish: what MQTT shows of any channel, with any   *)
(* registers, values and policy.                                           *)
(***************************************************************************)
EXTENDS ChannelPublish, TLAPS

LEMMA Constants ==
  /\ 0 \in Values /\ Undefined \notin Values
  /\ \A c \in Channels :
       /\ c.registers # {}
       /\ c.counters \subseteq c.registers /\ c.sporadic \subseteq c.registers
       /\ c.timed \subseteq c.registers /\ c.writable \subseteq c.registers
       /\ c.counters \cap c.writable = {}
BY ChannelAssumption DEF ChannelAssumption

LEMMA RegisterSets ==
  ASSUME TypeOK
  PROVE  /\ Registers # {}
         /\ channel.counters \subseteq Registers /\ channel.sporadic \subseteq Registers
         /\ channel.timed \subseteq Registers /\ channel.writable \subseteq Registers
         /\ channel.counters \cap channel.writable = {}
BY Constants DEF TypeOK, Registers

-----------------------------------------------------------------------------
(* The callbacks.                                                          *)

\* An update of the error publishes the error of all the registers together.
LEMMA ErrorPublished ==
  ASSUME cachedError = shownError, PublishError
  PROVE  cachedError' = ErrorText /\ shownError' = ErrorText
BY DEF PublishError, ErrorIsChanged

\* So does an update of the value, whichever branch it takes.
LEMMA ValuePublished ==
  ASSUME cachedError = shownError, NEW r, UpdateValueAndError(r)
  PROVE  cachedError' = ErrorText /\ shownError' = ErrorText
BY ErrorPublished
   DEF UpdateValueAndError, UpdateError, HideValue, ShowValue, PublishValueAndError

LEMMA UpdateType ==
  ASSUME TypeOK, value' = value, errors' \in [Registers -> SUBSET ErrorNames],
         NEW r \in Registers,
         UpdateValueAndError(r) \/ UpdateError
  PROVE  /\ cachedValue' \in [Registers -> Values] \cup {Undefined}
         /\ shownValue' \in [Registers -> Values] \cup {Undefined}
         /\ cachedError' \subseteq ErrorNames /\ shownError' \subseteq ErrorNames
         /\ publishZero' \in BOOLEAN
<1>1. ErrorText \subseteq ErrorNames
  BY DEF ErrorText
<1>2. CASE UpdateError
  BY <1>1, <1>2 DEF UpdateError, PublishError, TypeOK
<1>3. CASE UpdateValueAndError(r) /\ ~ UpdateError
  <2>1. value \in [Registers -> Values]
    <3>1. \A s \in Registers : value[s] # Undefined
      BY <1>3 DEF UpdateValueAndError
    <3> QED
      BY <3>1 DEF TypeOK
  <2>2. CASE HideValue
    BY <1>1, <2>1, <2>2 DEF HideValue, PublishError, TypeOK
  <2>3. CASE ShowValue(r)
    BY <1>1, <2>1, <2>3 DEF ShowValue, PublishValueAndError, PublishError, TypeOK
  <2> QED
    BY <1>3, <2>2, <2>3 DEF UpdateValueAndError
<1> QED
  BY <1>2, <1>3

LEMMA CallErrors ==
  ASSUME TypeOK, NEW reason \in {"poll", "write", "fail", "clear"}, NEW r \in Registers,
         Call(reason, r)
  PROVE  /\ errors' \in [Registers -> SUBSET ErrorNames]
         /\ \A s \in Registers : s # r => errors'[s] = errors[s]
         /\ reason \in {"poll", "write"} => errors'[r] = errors[r]
         /\ reason = "fail" => errors'[r] = errors[r] \cup {"r"}
         /\ reason = "clear" => errors'[r] = errors[r] \ {"r"}
<1>1. errors \in [Registers -> SUBSET ErrorNames]
  BY DEF TypeOK
<1>2. CASE reason = "fail"
  BY <1>1, <1>2 DEF Call, ErrorNames
<1>3. CASE reason = "clear"
  BY <1>1, <1>3 DEF Call, ErrorNames
<1>4. CASE reason \in {"poll", "write"}
  BY <1>1, <1>4 DEF Call
<1> QED
  BY <1>2, <1>3, <1>4

LEMMA CallType ==
  ASSUME TypeOK, NEW reason \in {"poll", "write", "fail", "clear"}, NEW r \in Registers,
         Call(reason, r)
  PROVE  TypeOK'
<1>1. /\ errors' \in [Registers -> SUBSET ErrorNames]
      /\ value' = value /\ avail' = avail /\ calls' \subseteq calls
      /\ UNCHANGED <<channel, pollVars, deviceVars, fresh>>
  BY CallErrors DEF Call
<1>2. /\ cachedValue' \in [Registers -> Values] \cup {Undefined}
      /\ shownValue' \in [Registers -> Values] \cup {Undefined}
      /\ cachedError' \subseteq ErrorNames /\ shownError' \subseteq ErrorNames
      /\ publishZero' \in BOOLEAN
  <2>1. CASE UpdateValueAndError(r) \/ UpdateError
    BY <1>1, <2>1, UpdateType
  <2>2. CASE UNCHANGED <<cacheVars, shownVars>>
    BY <2>2 DEF cacheVars, shownVars, TypeOK
  <2> QED
    BY <2>1, <2>2 DEF Call, OnValueRead
<1>3. silent' \in BOOLEAN
  BY DEF Call, OnValueRead, TypeOK
<1> QED
  BY <1>1, <1>2, <1>3 DEF TypeOK, Registers, pollVars, deviceVars
-----------------------------------------------------------------------------
(* The type invariant.                                                     *)

LEMMA ErrorType ==
  ASSUME TypeOK
  PROVE  errors \in [Registers -> SUBSET ErrorNames] /\ {"r", "w", "p"} = ErrorNames
BY DEF TypeOK, ErrorNames

LEMMA PollTimesType ==
  ASSUME TypeOK, NEW range, NEW late, NEW s \in Registers
  PROVE  /\ PollTimes(range, late)[s] \subseteq ErrorNames
         /\ PollTimes(range, late)[s] \cap {"r", "w"} = errors[s] \cap {"r", "w"}
BY ErrorType DEF PollTimes

LEMMA PollType ==
  ASSUME TypeOK, Poll
  PROVE  TypeOK'
<1>1. ASSUME NEW range \in SUBSET Registers, NEW late, NEW seen \in [range -> Values],
             ReadOk(range, late, seen)
      PROVE  TypeOK'
  <2>1. errors' \in [Registers -> SUBSET ErrorNames]
    BY <1>1, PollTimesType, ErrorType DEF ReadOk
  <2>2. value' \in [Registers -> Values \cup {Undefined}]
    BY <1>1 DEF ReadOk, TypeOK
  <2>3. avail' \in [Registers -> {"UNKNOWN", "AVAILABLE", "UNAVAILABLE"}]
    BY <1>1 DEF ReadOk, TypeOK
  <2>4. calls' \subseteq {"poll", "write", "fail", "clear"} \X Registers
    BY <1>1 DEF ReadOk
  <2>5. queued' \subseteq Registers /\ fresh' \subseteq channel.counters
    BY <1>1 DEF ReadOk, Requeue, TypeOK
  <2> QED
    BY <1>1, <2>1, <2>2, <2>3, <2>4, <2>5 DEF ReadOk, TypeOK, Registers, cacheVars, shownVars
<1>2. ASSUME NEW range \in SUBSET Registers, NEW late, NEW unavailable \in BOOLEAN,
             ReadFailed(range, late, unavailable)
      PROVE  TypeOK'
  <2>1. errors' \in [Registers -> SUBSET ErrorNames]
    BY <1>2, PollTimesType, ErrorType DEF ReadFailed
  <2>2. /\ avail' \in [Registers -> {"UNKNOWN", "AVAILABLE", "UNAVAILABLE"}]
        /\ excluded' \subseteq Registers
    BY <1>2 DEF ReadFailed, TypeOK
  <2>3. /\ calls' \subseteq {"poll", "write", "fail", "clear"} \X Registers
        /\ queued' \subseteq Registers
    BY <1>2 DEF ReadFailed, Requeue, TypeOK
  <2> QED
    BY <1>2, <2>1, <2>2, <2>3 DEF ReadFailed, TypeOK, Registers, deviceVars, cacheVars, shownVars
<1>3. ASSUME NEW range \in SUBSET Registers, ReadClosed(range)
      PROVE  TypeOK'
  <2>1. /\ calls' \subseteq {"poll", "write", "fail", "clear"} \X Registers
        /\ queued' \subseteq Registers
    BY <1>3 DEF ReadClosed, Requeue, TypeOK
  <2> QED
    BY <1>3, <2>1 DEF ReadClosed, TypeOK, Registers, deviceVars, cacheVars, shownVars
<1> QED
  BY <1>1, <1>2, <1>3 DEF Poll

LEMMA SkipType ==
  ASSUME TypeOK, NEW r \in Registers, SkipUnavailable(r)
  PROVE  TypeOK'
BY DEF SkipUnavailable, TypeOK, Registers, registerVars, deviceVars, cacheVars, shownVars

LEMMA WriteType ==
  ASSUME TypeOK, Write
  PROVE  TypeOK'
<1>1. PICK r \in Registers : WriteFailed(r) \/ \E v \in Values : WriteOk(r, v)
  BY RegisterSets DEF Write
<1>2. CASE WriteFailed(r)
  BY <1>2, ErrorType
     DEF WriteFailed, TypeOK, Registers, pollVars, deviceVars, cacheVars, shownVars
<1>3. ASSUME NEW v \in Values, WriteOk(r, v)
      PROVE  TypeOK'
  BY <1>3, ErrorType DEF WriteOk, TypeOK, Registers, pollVars, cacheVars, shownVars
<1> QED
  BY <1>1, <1>2, <1>3

LEMMA EventsType ==
  ASSUME TypeOK, Events
  PROVE  TypeOK'
<1>1. ASSUME NEW r \in Registers, NEW v \in Values, Event(r, v)
      PROVE  TypeOK'
  BY <1>1, ErrorType DEF Event, TypeOK, Registers, pollVars, deviceVars, cacheVars, shownVars
<1>2. CASE SetReadErrors \/ ClearReadErrors
  <2>1. calls' \subseteq {"poll", "write", "fail", "clear"} \X Registers
    BY <1>2, RegisterSets DEF SetReadErrors, ClearReadErrors, EventRegisters
  <2> QED
    BY <1>2, <2>1
       DEF SetReadErrors, ClearReadErrors, TypeOK, Registers, registerVars, pollVars,
           cacheVars, shownVars
<1> QED
  BY <1>1, <1>2, RegisterSets DEF Events

LEMMA ConnectionType ==
  ASSUME TypeOK, Connection
  PROVE  TypeOK'
<1>1. CASE Disconnect
  BY <1>1 DEF Disconnect, PublishesZero, TypeOK, Registers, registerVars, pollVars, shownVars
<1>2. CASE Reschedule
  BY <1>2 DEF Reschedule, TypeOK, Registers, cacheVars, shownVars
<1>3. CASE Prepare
  BY <1>3 DEF Prepare, TypeOK, Registers, deviceVars, cacheVars, shownVars
<1>4. ASSUME NEW accepted \in SUBSET Registers, NEW refused, Connect(accepted, refused)
      PROVE  TypeOK'
  BY <1>4 DEF Connect, TypeOK, Registers, cacheVars, shownVars
<1> QED
  BY <1>1, <1>2, <1>3, <1>4, RegisterSets DEF Connection

\* The type invariant: a value that is published has a value of every register.
THEOREM TypeCorrect == Spec => []TypeOK
<1>1. Init => TypeOK
  BY Constants DEF Init, TypeOK, Registers
<1>2. TypeOK /\ [Next]_vars => TypeOK'
  <2> SUFFICES ASSUME TypeOK, [Next]_vars PROVE TypeOK'
    OBVIOUS
  <2>1. CASE UNCHANGED vars
    BY <2>1 DEF vars, TypeOK, Registers, registerVars, pollVars, deviceVars, cacheVars, shownVars
  <2> QED
    BY <2>1, CallType, PollType, SkipType, WriteType, EventsType, ConnectionType DEF Next
<1> QED
  BY <1>1, <1>2, PTL DEF Spec

-----------------------------------------------------------------------------
(* What is published.                                                      *)

\* An error that is not shown has a callback to make that shows it.
ErrorPending(r) ==
  \/ errors[r] \cap {"r", "w"} \subseteq shownError
  \/ <<"poll", r>> \in calls
  \/ <<"write", r>> \in calls /\ "w" \in errors[r]

\* The value that is remembered was published, or it has a zero that was hidden.
HasZero(values) == \E n \in channel.counters : values[n] = 0

ValueRemembered ==
  cachedValue = shownValue \/ (~ publishZero /\ HasZero(cachedValue))

PublishInv ==
  /\ TypeOK
  /\ cachedError = shownError
  /\ ValueRemembered
  /\ \A r \in Registers : ErrorPending(r)
  /\ ErrorsEnd
  /\ ValueShown

LEMMA InitPublish == ASSUME Init, TypeOK PROVE PublishInv
BY RegisterSets
   DEF Init, PublishInv, ValueRemembered, ErrorPending, ErrorsEnd, ValueShown,
       Settled, AtRest, HasValuesOfAllRegisters, Registers

\* A callback publishes the error of all the registers, or has nothing to publish.
LEMMA CallPublishes ==
  ASSUME PublishInv, NEW reason \in {"poll", "write", "fail", "clear"}, NEW r \in Registers,
         Call(reason, r)
  PROVE  /\ cachedError' = shownError'
         /\ \/ shownError' = ErrorText
            \/ /\ UNCHANGED <<cacheVars, shownVars, silent>>
               /\ ~ GoesToError(reason, r)
               /\ ~ HasValuesOfAllRegisters
<1>1. cachedError = shownError
  BY DEF PublishInv
<1>2. CASE UpdateError
  BY <1>1, <1>2, ErrorPublished DEF UpdateError
<1>3. CASE UpdateValueAndError(r)
  BY <1>1, <1>3, ValuePublished
<1>4. CASE /\ UNCHANGED <<cacheVars, shownVars, silent>>
           /\ ~ GoesToError(reason, r) /\ ~ HasValuesOfAllRegisters
  BY <1>1, <1>4 DEF cacheVars, shownVars
<1> QED
  BY <1>2, <1>3, <1>4 DEF Call, OnValueRead

\* A value that is not published is hidden, or was published before.
LEMMA UpdateRemembers ==
  ASSUME ValueRemembered, NEW r \in Registers, value' = value, channel' = channel,
         HideValue \/ ShowValue(r)
  PROVE  ValueRemembered' /\ (ShouldNotPublishPressCounter' \/ shownValue' = value)
<1>1. CASE HideValue
  BY <1>1 DEF HideValue, ShouldNotPublishPressCounter, ValueRemembered, HasZero
<1>2. CASE ShowValue(r)
  <2>1. CASE PublishValueAndError
    BY <2>1 DEF PublishValueAndError, ValueRemembered
  <2>2. CASE ~ MustPublish(r) /\ UNCHANGED <<cachedValue, shownValue>>
    <3>1. cachedValue = value
      BY <2>2 DEF MustPublish
    <3>2. cachedValue = shownValue
      BY <1>2, <3>1 DEF ShowValue, ShouldNotPublishPressCounter, ValueRemembered, HasZero
    <3> QED
      BY <2>2, <3>1, <3>2 DEF ValueRemembered
  <2> QED
    BY <1>2, <2>1, <2>2 DEF ShowValue
<1> QED
  BY <1>1, <1>2

LEMMA Unremembered ==
  ASSUME ValueRemembered, UNCHANGED <<channel, cachedValue, shownValue>>,
         publishZero' = publishZero \/ ~ publishZero'
  PROVE  ValueRemembered'
BY DEF ValueRemembered, HasZero

LEMMA CallPublish ==
  ASSUME PublishInv, NEW reason \in {"poll", "write", "fail", "clear"}, NEW r \in Registers,
         Call(reason, r)
  PROVE  PublishInv'
<1> DEFINE Nothing == UNCHANGED <<cacheVars, shownVars, silent>>
<1>1. TypeOK' /\ cachedError' = shownError'
  BY CallType, CallPublishes DEF PublishInv
<1>2. /\ UNCHANGED <<channel, value, avail>> /\ Registers' = Registers
      /\ calls' = calls \ {<<reason, r>>}
      /\ HasValuesOfAllRegisters' = HasValuesOfAllRegisters
  BY DEF Call, Registers, HasValuesOfAllRegisters
<1>3. CASE shownError' = ErrorText
  <2>1. \A s \in Registers : errors'[s] \subseteq shownError'
    BY <1>3 DEF ErrorText
  <2>2. (\A s \in Registers : ErrorPending(s))' /\ ErrorsEnd'
    BY <1>2, <1>3, <2>1 DEF ErrorPending, ErrorsEnd, ErrorText
  <2>3. ValueRemembered' /\ ValueShown'
    <3>1. ValueRemembered
      BY DEF PublishInv
    <3>2. CASE HideValue \/ ShowValue(r)
      BY <1>2, <3>1, <3>2, UpdateRemembers DEF ValueShown
    <3>3. CASE UpdateError /\ (GoesToError(reason, r) \/ \E s \in Registers : value[s] = Undefined)
      <4>1. ValueRemembered'
        BY <1>2, <3>1, <3>3, Unremembered DEF UpdateError
      <4>2. CASE GoesToError(reason, r)
        BY <1>2, <4>1, <4>2 DEF GoesToError, ValueShown
      <4>3. CASE \E s \in Registers : value[s] = Undefined
        BY <1>2, <4>1, <4>3 DEF ValueShown
      <4> QED
        BY <3>3, <4>2, <4>3
    <3>4. CASE Nothing /\ ~ HasValuesOfAllRegisters
      BY <1>2, <3>1, <3>4, Unremembered DEF cacheVars, shownVars, ValueShown, Settled
    <3> QED
      BY <3>2, <3>3, <3>4 DEF Call, OnValueRead, UpdateValueAndError
  <2> QED
    BY <1>1, <2>2, <2>3 DEF PublishInv
<1>4. CASE Nothing /\ ~ GoesToError(reason, r) /\ ~ HasValuesOfAllRegisters
  <2>1. ErrorsEnd' /\ ValueShown'
    BY <1>2, <1>4 DEF ErrorsEnd, ValueShown, Settled
  <2>2. ValueRemembered'
    BY <1>2, <1>4, Unremembered DEF PublishInv, cacheVars, shownVars
  <2>3. ASSUME NEW s \in Registers
        PROVE  ErrorPending(s)'
    <3>1. ErrorPending(s) /\ shownError' = shownError
      BY <1>4 DEF PublishInv, shownVars
    <3>2. CASE s # r
      BY <1>2, <3>1, <3>2, CallErrors DEF ErrorPending, PublishInv
    <3>3. CASE s = r /\ reason # "write"
      BY <1>4, <3>3 DEF GoesToError, ErrorPending
    <3>4. CASE s = r /\ reason = "write"
      BY <1>2, <1>4, <3>1, <3>4, CallErrors DEF GoesToError, ErrorPending, PublishInv
    <3> QED
      BY <3>2, <3>3, <3>4
  <2> QED
    BY <1>1, <1>2, <2>1, <2>2, <2>3 DEF PublishInv
<1> QED
  BY <1>3, <1>4, CallPublishes

\* A step that publishes nothing either makes calls, or leaves the registers alone, or
\* changes them silently.
LEMMA QuietStep ==
  ASSUME PublishInv, TypeOK', AtRest, UNCHANGED <<channel, cachedValue, cachedError, shownVars>>,
         publishZero' = publishZero \/ ~ publishZero',
         \A r \in Registers :
           \/ errors'[r] \cap {"r", "w"} \subseteq errors[r]
           \/ <<"poll", r>> \in calls'
           \/ <<"write", r>> \in calls' /\ "w" \in errors'[r],
         \/ calls' # {} \/ silent' \/ ~ HasValuesOfAllRegisters'
         \/ HasValuesOfAllRegisters /\ UNCHANGED <<silent, errors, value>>
  PROVE  PublishInv'
<1>1. Registers' = Registers /\ shownValue' = shownValue /\ shownError' = shownError
  BY DEF Registers, shownVars
<1>2. (\A r \in Registers : ErrorPending(r))'
  <2>1. \A r \in Registers : errors[r] \cap {"r", "w"} \subseteq shownError
    BY DEF PublishInv, ErrorPending, AtRest
  <2> QED
    BY <1>1, <2>1 DEF ErrorPending
<1>3. ErrorsEnd' /\ ValueShown'
  <2>1. CASE calls' # {} \/ silent' \/ ~ HasValuesOfAllRegisters'
    BY <2>1 DEF ErrorsEnd, ValueShown, Settled, AtRest
  <2>2. CASE HasValuesOfAllRegisters /\ UNCHANGED <<silent, errors, value>>
    BY <1>1, <2>2
       DEF PublishInv, ErrorsEnd, ValueShown, Settled, AtRest, ShouldNotPublishPressCounter
  <2> QED
    BY <2>1, <2>2
<1> QED
  BY <1>1, <1>2, <1>3, Unremembered DEF PublishInv

LEMMA PollPublish == ASSUME PublishInv, Poll PROVE PublishInv'
<1>1. TypeOK /\ TypeOK'
  BY PollType DEF PublishInv
<1>2. ASSUME NEW range \in SUBSET Registers, NEW late, NEW seen \in [range -> Values],
             ReadOk(range, late, seen)
      PROVE  PublishInv'
  <2>1. /\ \A r \in range : <<"poll", r>> \in calls'
        /\ \A r \in Registers \ range : errors'[r] = errors[r]
        /\ range # {} /\ AtRest
    BY <1>2 DEF ReadOk, Readable
  <2>2. calls' # {}
    BY <2>1
  <2> QED
    BY <1>1, <1>2, <2>1, <2>2, QuietStep DEF ReadOk, cacheVars, shownVars
<1>3. ASSUME NEW range \in SUBSET Registers, NEW late, NEW unavailable \in BOOLEAN,
             ReadFailed(range, late, unavailable)
      PROVE  PublishInv'
  <2>1. /\ \A r \in range : <<"poll", r>> \in calls'
        /\ \A r \in Registers \ range : errors'[r] = errors[r]
        /\ range # {} /\ AtRest
    BY <1>3 DEF ReadFailed, Readable
  <2>2. calls' # {}
    BY <2>1
  <2> QED
    BY <1>1, <1>3, <2>1, <2>2, QuietStep DEF ReadFailed, cacheVars, shownVars
<1>4. ASSUME NEW range \in SUBSET Registers, ReadClosed(range)
      PROVE  PublishInv'
  <2>1. /\ \A r \in range : <<"fail", r>> \in calls'
        /\ range # {} /\ AtRest /\ errors' = errors
    BY <1>4 DEF ReadClosed
  <2>2. calls' # {}
    BY <2>1
  <2> QED
    BY <1>1, <1>4, <2>1, <2>2, QuietStep DEF ReadClosed, cacheVars, shownVars
<1> QED
  BY <1>2, <1>3, <1>4 DEF Poll

LEMMA SkipPublish ==
  ASSUME PublishInv, NEW r \in Registers, SkipUnavailable(r)
  PROVE  PublishInv'
<1>1. TypeOK' /\ UNCHANGED <<channel, registerVars, calls, cacheVars, shownVars, silent>>
  BY SkipType DEF SkipUnavailable, PublishInv
<1> QED
  BY <1>1, QuietStep
     DEF SkipUnavailable, registerVars, cacheVars, shownVars, HasValuesOfAllRegisters, Registers

LEMMA WritePublish == ASSUME PublishInv, Write PROVE PublishInv'
<1>1. TypeOK /\ TypeOK'
  BY WriteType DEF PublishInv
<1>2. PICK r \in Registers : WriteFailed(r) \/ \E v \in Values : WriteOk(r, v)
  BY <1>1, RegisterSets DEF Write
<1>3. CASE WriteFailed(r)
  <2>1. \A s \in Registers : errors'[s] \subseteq errors[s] \/ (s = r /\ "w" \in errors'[s])
    BY <1>1, <1>3, ErrorType DEF WriteFailed
  <2> QED
    BY <1>1, <1>3, <2>1, QuietStep DEF WriteFailed, cacheVars, shownVars
<1>4. ASSUME NEW v \in Values, WriteOk(r, v)
      PROVE  PublishInv'
  <2>1. \A s \in Registers : errors'[s] \subseteq errors[s]
    BY <1>1, <1>4, ErrorType DEF WriteOk
  <2> QED
    BY <1>1, <1>4, <2>1, QuietStep DEF WriteOk, cacheVars, shownVars
<1> QED
  BY <1>2, <1>3, <1>4

LEMMA EventsPublish == ASSUME PublishInv, Events PROVE PublishInv'
<1>1. TypeOK /\ TypeOK'
  BY EventsType DEF PublishInv
<1>2. ASSUME NEW r \in Registers, NEW v \in Values, Event(r, v)
      PROVE  PublishInv'
  <2>1. \A s \in Registers : errors'[s] \subseteq errors[s]
    BY <1>1, <1>2, ErrorType DEF Event
  <2> QED
    BY <1>1, <1>2, <2>1, QuietStep DEF Event, cacheVars, shownVars
<1>3. CASE SetReadErrors \/ ClearReadErrors
  <2>1. AtRest /\ UNCHANGED <<channel, registerVars, cacheVars, shownVars, silent>>
    BY <1>3 DEF SetReadErrors, ClearReadErrors
  <2> QED
    BY <1>1, <2>1, QuietStep
       DEF registerVars, cacheVars, shownVars, HasValuesOfAllRegisters, Registers
<1> QED
  BY <1>1, <1>2, <1>3, RegisterSets DEF Events

LEMMA ConnectionPublish == ASSUME PublishInv, Connection PROVE PublishInv'
<1>1. TypeOK /\ TypeOK'
  BY ConnectionType DEF PublishInv
<1>2. CASE Disconnect
  BY <1>1, <1>2, QuietStep
     DEF Disconnect, PublishesZero, registerVars, shownVars, HasValuesOfAllRegisters, Registers
<1>3. CASE Reschedule
  <2>1. HasValuesOfAllRegisters' => HasValuesOfAllRegisters
    BY <1>3 DEF Reschedule, HasValuesOfAllRegisters, Registers
  <2> QED
    BY <1>1, <1>3, <2>1, QuietStep DEF Reschedule, cacheVars, shownVars
<1>4. CASE Prepare
  BY <1>1, <1>4, QuietStep DEF Prepare, cacheVars, shownVars
<1>5. ASSUME NEW accepted \in SUBSET Registers, NEW refused, Connect(accepted, refused)
      PROVE  PublishInv'
  <2>1. silent' \/ (HasValuesOfAllRegisters' = HasValuesOfAllRegisters /\ silent' = silent)
    <3>1. CASE accepted # {}
      BY <1>5, <3>1 DEF Connect
    <3>2. CASE accepted = {}
      <4>1. avail' = avail /\ silent' = silent
        BY <1>1, <1>5, <3>2 DEF Connect, TypeOK
      <4> QED
        BY <1>5, <4>1 DEF Connect, HasValuesOfAllRegisters, Registers
    <3> QED
      BY <3>1, <3>2
  <2> QED
    BY <1>1, <1>5, <2>1, QuietStep DEF Connect, cacheVars, shownVars
<1> QED
  BY <1>1, <1>2, <1>3, <1>4, <1>5, RegisterSets DEF Connection

LEMMA PublishCorrect == Spec => []PublishInv
<1>1. Init => PublishInv
  <2>1. Init => TypeOK
    BY Constants DEF Init, TypeOK, Registers
  <2> QED
    BY <2>1, InitPublish
<1>2. PublishInv /\ [Next]_vars => PublishInv'
  <2> SUFFICES ASSUME PublishInv, [Next]_vars PROVE PublishInv'
    OBVIOUS
  <2>1. CASE UNCHANGED vars
    BY <2>1
       DEF vars, PublishInv, TypeOK, ErrorPending, ValueRemembered, HasZero, ErrorsEnd, ValueShown,
           Settled, AtRest, HasValuesOfAllRegisters, ShouldNotPublishPressCounter, Registers,
           registerVars, pollVars, deviceVars, cacheVars, shownVars
  <2> QED
    BY <2>1, CallPublish, PollPublish, SkipPublish, WritePublish, EventsPublish, ConnectionPublish
       DEF Next
<1> QED
  BY <1>1, <1>2, PTL DEF Spec

\* ErrorsNotHidden: an error of reading or writing is shown when no callback is left.
THEOREM ErrorsAreShown == Spec => []ErrorsNotHidden
<1>1. PublishInv => ErrorsNotHidden
  BY DEF PublishInv, ErrorPending, ErrorsNotHidden, AtRest
<1> QED
  BY <1>1, PublishCorrect, PTL

\* ErrorsEnd: MQTT shows no error that the registers do not have.
THEOREM ErrorsAreCleared == Spec => []ErrorsEnd
<1>1. PublishInv => ErrorsEnd
  BY DEF PublishInv
<1> QED
  BY <1>1, PublishCorrect, PTL

\* ValueShown: without errors MQTT shows the values of all the registers.
THEOREM ValuesAreShown == Spec => []ValueShown
<1>1. PublishInv => ValueShown
  BY DEF PublishInv
<1> QED
  BY <1>1, PublishCorrect, PTL

-----------------------------------------------------------------------------
(* Counters.                                                               *)

Alone(r) == r \in channel.counters /\ Registers = {r} /\ channel.sporadic = {}

\* Until a polled counter is seen above zero, what its callbacks find is an error or zero.
CounterHidden(r) ==
  /\ calls \subseteq {<<"poll", r>>, <<"fail", r>>}
  /\ r \in fresh => /\ ~ publishZero
                    /\ <<"poll", r>> \in calls => errors[r] \cap {"r", "w"} # {} \/ value[r] = 0

CounterInv == TypeOK /\ \A r \in Registers : Alone(r) => CounterHidden(r)

LEMMA CallCounter ==
  ASSUME CounterInv, NEW reason \in {"poll", "write", "fail", "clear"}, NEW s \in Registers,
         Call(reason, s), NEW r \in Registers, Alone(r)
  PROVE  /\ CounterHidden(r)'
         /\ r \in fresh => shownValue' = shownValue
<1>1. s = r /\ CounterHidden(r)
  BY DEF CounterInv, Alone
<1>2. /\ calls' \subseteq calls /\ UNCHANGED <<value, fresh>>
      /\ reason \in {"poll", "fail"}
      /\ reason = "poll" => <<"poll", r>> \in calls
  BY <1>1 DEF Call, CounterHidden
<1>3. ASSUME r \in fresh
      PROVE  UNCHANGED <<shownValue, publishZero>>
  <2>1. CASE GoesToError(reason, s)
    BY <2>1 DEF Call, UpdateError
  <2>2. CASE ~ GoesToError(reason, s)
    <3>1. reason = "poll" /\ value[r] = 0 /\ ~ publishZero
      BY <1>1, <1>2, <1>3, <2>2, CallErrors DEF CounterHidden, GoesToError, CounterInv
    <3>2. ShouldNotPublishPressCounter
      BY <3>1 DEF ShouldNotPublishPressCounter, Alone
    <3> QED
      BY <2>2, <3>2
         DEF Call, OnValueRead, UpdateValueAndError, UpdateError, HideValue, ShowValue, cacheVars, shownVars
  <2> QED
    BY <2>1, <2>2
<1>4. errors[r] \subseteq errors'[r]
  BY <1>1, <1>2, CallErrors DEF CounterInv
<1> QED
  BY <1>1, <1>2, <1>3, <1>4 DEF CounterHidden

\* The other steps publish nothing and make no other calls of such a counter.
LEMMA OtherCounter ==
  ASSUME CounterInv, NEW r \in Registers, Alone(r),
         Poll \/ Write \/ Events \/ Connection \/ (\E s \in Registers : SkipUnavailable(s))
  PROVE  CounterHidden(r)' /\ shownValue' = shownValue
<1>1. CounterHidden(r) /\ TypeOK /\ r \notin channel.writable
  BY RegisterSets DEF CounterInv, Alone
<1>2. ASSUME NEW range \in SUBSET Registers, NEW late, NEW seen \in [range -> Values],
             ReadOk(range, late, seen)
      PROVE  CounterHidden(r)' /\ shownValue' = shownValue
  <2>1. range = {r} /\ calls' \subseteq {<<"poll", r>>}
    BY <1>2 DEF ReadOk, Readable, Alone
  <2>2. r \in fresh' => r \in fresh /\ value'[r] = 0
    BY <1>2, <2>1 DEF ReadOk
  <2> QED
    BY <1>1, <1>2, <2>1, <2>2 DEF ReadOk, CounterHidden, cacheVars, shownVars
<1>3. ASSUME NEW range \in SUBSET Registers, NEW late, NEW unavailable \in BOOLEAN,
             ReadFailed(range, late, unavailable)
      PROVE  CounterHidden(r)' /\ shownValue' = shownValue
  <2>1. range = {r} /\ calls' \subseteq {<<"poll", r>>}
    BY <1>3 DEF ReadFailed, Readable, Alone
  <2>2. "r" \in errors'[r]
    BY <1>1, <1>3, <2>1 DEF ReadFailed
  <2> QED
    BY <1>1, <1>3, <2>1, <2>2 DEF ReadFailed, CounterHidden, cacheVars, shownVars
<1>4. ASSUME NEW range \in SUBSET Registers, ReadClosed(range)
      PROVE  CounterHidden(r)' /\ shownValue' = shownValue
  <2>1. calls' \subseteq {<<"fail", r>>}
    BY <1>4 DEF ReadClosed, Alone
  <2> QED
    BY <1>1, <1>4, <2>1 DEF ReadClosed, CounterHidden, cacheVars, shownVars
<1>5. CASE Poll
  BY <1>2, <1>3, <1>4, <1>5 DEF Poll
<1>6. CASE \E s \in Registers : SkipUnavailable(s)
  BY <1>1, <1>6 DEF SkipUnavailable, CounterHidden, registerVars, cacheVars, shownVars
<1>7. ~ Write
  BY <1>1, RegisterSets DEF Write, Alone
<1>8. CASE Events
  <2>1. SetReadErrors \/ ClearReadErrors
    BY <1>8 DEF Events, Alone
  <2>2. calls' = {}
    BY <2>1 DEF SetReadErrors, ClearReadErrors, EventRegisters, Alone
  <2>3. UNCHANGED <<fresh, publishZero, shownValue>>
    BY <2>1 DEF SetReadErrors, ClearReadErrors, cacheVars, shownVars
  <2> QED
    BY <1>1, <2>2, <2>3 DEF CounterHidden
<1>9. CASE Connection
  <2>1. calls' = {} /\ shownValue' = shownValue
    BY <1>9 DEF Connection, Disconnect, Reschedule, Prepare, Connect, AtRest, shownVars
  <2>2. ~ publishZero' \/ UNCHANGED <<publishZero, fresh>>
    BY <1>9 DEF Connection, Disconnect, PublishesZero, Reschedule, Prepare, Connect, cacheVars
  <2> QED
    BY <1>1, <2>1, <2>2 DEF CounterHidden
<1> QED
  BY <1>5, <1>6, <1>7, <1>8, <1>9

LEMMA CounterStep ==
  ASSUME CounterInv, [Next]_vars
  PROVE  /\ CounterInv'
         /\ \A r \in Registers : Alone(r) /\ r \in fresh => shownValue' = shownValue
<1>1. channel' = channel /\ Registers' = Registers
  BY DEF Next, Call, Poll, ReadOk, ReadFailed, ReadClosed, SkipUnavailable, Write, WriteOk,
         WriteFailed, Events, Event, SetReadErrors, ClearReadErrors, Connection, Disconnect,
         Reschedule, Prepare, Connect, vars, Registers
<1>2. CASE UNCHANGED vars
  BY <1>2
     DEF vars, CounterInv, CounterHidden, Alone, TypeOK, Registers, registerVars, pollVars,
         deviceVars, cacheVars, shownVars
<1>3. CASE Next
  <2>1. TypeOK'
    BY <1>3, CallType, PollType, SkipType, WriteType, EventsType, ConnectionType
       DEF Next, CounterInv
  <2>2. ASSUME NEW r \in Registers, Alone(r)
        PROVE  CounterHidden(r)' /\ (r \in fresh => shownValue' = shownValue)
    BY <1>3, <2>2, CallCounter, OtherCounter DEF Next
  <2>3. \A r \in Registers : Alone(r)' => Alone(r)
    BY <1>1 DEF Alone
  <2> QED
    BY <1>1, <2>1, <2>2, <2>3 DEF CounterInv
<1> QED
  BY <1>2, <1>3

\* PolledZeroHidden: a channel of one polled counter shows no zero after a disconnection
\* until the counter was read above zero.
THEOREM ZeroIsHidden == Spec => PolledZeroHidden
<1>1. Init => CounterInv
  BY Constants DEF Init, TypeOK, Registers, CounterInv, CounterHidden
<1>2. CounterInv /\ [Next]_vars => CounterInv'
  BY CounterStep
<1>3. CounterInv /\ [Next]_vars =>
        [\A r \in channel.counters :
           Registers = {r} /\ channel.sporadic = {} => ~ ZeroShown(r)]_vars
  <2> SUFFICES ASSUME CounterInv, [Next]_vars, NEW r \in channel.counters,
                      Registers = {r}, channel.sporadic = {}
               PROVE  ~ ZeroShown(r)
    OBVIOUS
  <2>1. r \in Registers /\ Alone(r)
    BY DEF Alone
  <2> QED
    BY <2>1, CounterStep DEF ZeroShown
<1> QED
  BY <1>1, <1>2, <1>3, PTL DEF Spec, PolledZeroHidden
=============================================================================
