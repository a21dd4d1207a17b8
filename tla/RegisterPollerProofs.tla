------------------------ MODULE RegisterPollerProofs ------------------------
(***************************************************************************)
(* Theorems about the poll loop of a port: type correctness, the isolation  *)
(* of suspended devices and the entries of the scheduler; first the lemmas  *)
(* about the operators of SerialDevice, which return views of a device when *)
(* they are given one.                                                      *)
(***************************************************************************)
EXTENDS RegisterPoller, FiniteSetTheorems, TLAPS

\* The result of the preparation of a session (PrepareResults).
Result == [ok : BOOLEAN, view : View]

\* SetDisconnected keeps the fields of the device in their ranges.
LEMMA SetDisconnectedType ==
  ASSUME NEW v \in View
  PROVE  SetDisconnected(v) \in View
BY DEF SetDisconnected, View, ConnectionState

\* A successful transfer leaves the full number of cycles.
LEMMA TransferOkType ==
  ASSUME NEW d, NEW v \in View
  PROVE  TransferOk(d, v) \in View
<1>1. MaxFailCycles \in 0..MaxFailCycles
  BY DeviceAssumption DEF DeviceAssumption
<1>2. [v EXCEPT !.conn = "CONNECTED", !.rem = MaxFailCycles] \in View
  BY <1>1 DEF View, ConnectionState
<1> QED
  BY <1>2 DEF TransferOk

\* Failed transfers never take more cycles than there are.
LEMMA TransferFailedType ==
  ASSUME NEW d, NEW v \in View, NEW n \in Nat, NEW t \in BOOLEAN
  PROVE  TransferFailed(d, v, n, t) \in View
<1> DEFINE w == [v EXCEPT !.rem = IF v.rem > n THEN v.rem - n ELSE 0]
<1>1. w \in View
  BY DeviceAssumption DEF DeviceAssumption, View
<1>2. SetDisconnected(w) \in View
  BY <1>1, SetDisconnectedType
<1> QED
  BY <1>1, <1>2 DEF TransferFailed

LEMMA FailedViewsType ==
  ASSUME NEW d, NEW v \in View
  PROVE  FailedViews(d, v) \subseteq View
BY TransferFailedType DEF FailedViews

LEMMA PrepareImplType ==
  ASSUME NEW d, NEW v \in View
  PROVE  PrepareImplViews(d, v) \subseteq View
<1>1. ASSUME NEW old \in SUBSET (FwDependent \cap RegistersOf(d))
      PROVE  [v EXCEPT !.unsupported = (v.unsupported \ RegistersOf(d)) \cup old,
                       !.excluded = (v.excluded \ RegistersOf(d)) \cup old] \in View
  <2>1. old \subseteq Registers
    BY DEF RegistersOf
  <2> QED
    BY <2>1 DEF View
<1> QED
  BY <1>1 DEF PrepareImplViews

LEMMA FailedSetupsType ==
  ASSUME NEW d, NEW v \in View
  PROVE  FailedSetups(d, v) \subseteq View \X {0, 1}
BY TransferOkType DEF FailedSetups

\* Prepare ends with a view, whether it throws or not.
LEMMA PrepareType ==
  ASSUME NEW d, NEW v \in View, NEW withSetup \in BOOLEAN
  PROVE  PrepareResults(d, v, withSetup) \subseteq Result
<1> DEFINE setup == withSetup /\ v.conn # "CONNECTED" /\ d \in SetupDevices
           failed(w) == IF setup THEN FailedSetups(d, w) ELSE {<<w, 0>>}
<1>1. ASSUME NEW w \in PrepareImplViews(d, v)
      PROVE  [ok |-> TRUE, view |-> IF setup THEN TransferOk(d, w) ELSE w] \in Result
  <2>1. w \in View
    BY PrepareImplType
  <2>2. TransferOk(d, w) \in View
    BY <2>1, TransferOkType
  <2> QED
    BY <2>1, <2>2 DEF Result
<1>2. ASSUME NEW w \in PrepareImplViews(d, v), NEW s \in failed(w), NEW t \in BOOLEAN
      PROVE  [ok |-> FALSE, view |-> TransferFailed(d, s[1], s[2] + 1, t)] \in Result
  <2>1. w \in View
    BY PrepareImplType
  <2>2. s \in View \X {0, 1}
    BY <2>1, FailedSetupsType
  <2>3. s[1] \in View /\ s[2] + 1 \in Nat
    BY <2>2
  <2>4. TransferFailed(d, s[1], s[2] + 1, t) \in View
    BY <2>3, TransferFailedType
  <2> QED
    BY <2>4 DEF Result
<1> QED
  BY <1>1, <1>2 DEF PrepareResults

LEMMA EventsAnsweredType ==
  ASSUME NEW v \in View, NEW on \in SUBSET Registers, NEW off \in SUBSET Registers
  PROVE  EventsAnswered(v, on, off) \in View
<1>1. [r \in Registers |-> IF r \in on THEN "AVAILABLE" ELSE v.avail[r]]
        \in [Registers -> Availability]
  BY DEF View, Availability
<1>2. (v.excluded \cup (on \cap Sporadic)) \ off \in SUBSET Registers
  BY DeviceAssumption DEF DeviceAssumption, View
<1> QED
  BY <1>1, <1>2 DEF EventsAnswered, View

LEMMA IncludeOneType ==
  ASSUME NEW d, NEW v \in View
  PROVE  IncludeOne(d, v) \subseteq View
BY DEF IncludeOne, View

LEMMA PartlyEnabledType ==
  ASSUME NEW d, NEW v \in View
  PROVE  PartlyEnabledViews(d, v) \subseteq View
<1>1. EventsAsked(d, v) \subseteq Registers
  BY DEF EventsAsked, RegistersOf
<1>2. ASSUME NEW answered \in SUBSET EventsAsked(d, v)
      PROVE  {EventsAnswered(v, on, answered \ on) : on \in SUBSET answered} \subseteq View
  BY <1>1, EventsAnsweredType
<1> QED
  BY <1>2 DEF PartlyEnabledViews

LEMMA EnabledType ==
  ASSUME NEW d, NEW v \in View
  PROVE  EnabledViews(d, v) \subseteq View
<1>1. EventsAsked(d, v) \subseteq Registers
  BY DEF EventsAsked, RegistersOf
<1>2. ASSUME NEW on \in SUBSET EventsAsked(d, v)
      PROVE  IncludeOne(d, EventsAnswered(v, on, EventsAsked(d, v) \ on)) \subseteq View
  <2>1. EventsAnswered(v, on, EventsAsked(d, v) \ on) \in View
    BY <1>1, EventsAnsweredType
  <2> QED
    BY <2>1, IncludeOneType
<1> QED
  BY <1>2 DEF EnabledViews

\* Enabling the events ends with a view, whatever part of it was answered.
LEMMA EnableEventsType ==
  ASSUME NEW d, NEW v \in View
  PROVE  EnableEventsResults(d, v) \subseteq Result
<1>1. [v EXCEPT !.events = FALSE] \in View
  BY DEF View
<1>2. \A w \in PartlyEnabledViews(d, v) \cup EnabledViews(d, v) : [ok |-> TRUE, view |-> w] \in Result
  BY PartlyEnabledType, EnabledType DEF Result
<1>3. \A w \in PartlyEnabledViews(d, v) : [ok |-> FALSE, view |-> SetDisconnected(w)] \in Result
  BY PartlyEnabledType, SetDisconnectedType DEF Result
<1>4. [ok |-> TRUE, view |-> v] \in Result /\ [ok |-> TRUE, view |-> [v EXCEPT !.events = FALSE]] \in Result
  BY <1>1 DEF Result
<1> QED
  BY <1>2, <1>3, <1>4 DEF EnableEventsResults

\* PrepareToAccess ends with a view, whether the session is open or not.
LEMMA PrepareToAccessType ==
  ASSUME NEW d, NEW v \in View, NEW same \in BOOLEAN
  PROVE  PrepareToAccessResults(d, v, same) \subseteq Result
<1> DEFINE prepared == PrepareResults(d, v, TRUE)
           done(x) == [x EXCEPT !.view.opened = TRUE]
           accessed(p) == {IF e.ok THEN done(e) ELSE e : e \in EnableEventsResults(d, p.view)}
<1>1. prepared \subseteq Result
  BY PrepareType
<1>2. \A x \in Result : done(x) \in Result
  BY DEF Result, View
<1>3. \A p \in prepared : accessed(p) \subseteq Result
  <2>1. ASSUME NEW p \in prepared
        PROVE  EnableEventsResults(d, p.view) \subseteq Result
    <3>1. p.view \in View
      BY <1>1 DEF Result
    <3> QED
      BY <3>1, EnableEventsType
  <2> QED
    BY <1>2, <2>1
<1>4. [ok |-> TRUE, view |-> v] \in Result
  BY DEF Result
<1> HIDE DEF prepared, done
<1> QED
  BY <1>1, <1>3, <1>4 DEF PrepareToAccessResults, prepared, done

LEMMA MarkUnavailableType ==
  ASSUME NEW v \in View, NEW regs \in SUBSET Registers
  PROVE  MarkUnavailable(v, regs) \in View
<1>1. [r \in Registers |-> IF r \in regs THEN "UNAVAILABLE" ELSE v.avail[r]]
        \in [Registers -> Availability]
  BY DEF View, Availability
<1> QED
  BY <1>1 DEF MarkUnavailable, View

LEMMA SetValuesType ==
  ASSUME NEW v \in View, NEW regs \in SUBSET Registers
  PROVE  SetValuesViews(v, regs) \subseteq View
<1> DEFINE w == [v EXCEPT !.defined = v.defined \cup regs,
                          !.avail = [r \in Registers |-> IF r \in regs THEN "AVAILABLE"
                                                         ELSE v.avail[r]]]
<1>1. [r \in Registers |-> IF r \in regs THEN "AVAILABLE" ELSE v.avail[r]]
        \in [Registers -> Availability]
  BY DEF View, Availability
<1>2. w \in View
  BY <1>1 DEF View
<1>3. \A unsup \in SUBSET (regs \cap Marked) : MarkUnavailable(w, unsup) \in View
  BY <1>2, MarkUnavailableType
<1> HIDE DEF w
<1> QED
  BY <1>3 DEF SetValuesViews, w

\* Reading a range ends with a view, whatever the device answers.
LEMMA ReadType ==
  ASSUME NEW d, NEW v \in View, NEW regs \in SUBSET Registers
  PROVE  ReadViews(d, v, regs) \subseteq View
<1>1. GenericReadViews(d, v, regs) \subseteq View
  <2> DEFINE toRead == {r \in regs : v.avail[r] # "UNAVAILABLE"}
  <2>1. TransferOk(d, v) \in View
    BY TransferOkType
  <2>2. toRead \in SUBSET Registers
    OBVIOUS
  <2>3. SetValuesViews(TransferOk(d, v), toRead) \subseteq View
    BY <2>1, <2>2, SetValuesType
  <2>4. MarkUnavailable(TransferOk(d, v), toRead) \in View
    BY <2>1, <2>2, MarkUnavailableType
  <2>5. FailedViews(d, v) \subseteq View
    BY FailedViewsType
  <2> HIDE DEF toRead
  <2> QED
    BY <2>1, <2>3, <2>4, <2>5 DEF GenericReadViews, toRead
<1>2. ModbusReadViews(d, v, regs) \subseteq View
  <2>1. SetValuesViews(TransferOk(d, v), regs) \subseteq View
    BY TransferOkType, SetValuesType
  <2>2. FailedViews(d, MarkUnavailable(v, regs)) \subseteq View
    BY MarkUnavailableType, FailedViewsType
  <2>3. FailedViews(d, v) \subseteq View
    BY FailedViewsType
  <2> QED
    BY <2>1, <2>2, <2>3 DEF ModbusReadViews
<1> QED
  BY <1>1, <1>2 DEF ReadViews

-----------------------------------------------------------------------------
(* No operation forgets that a register without events is excluded, and a     *)
(* register becomes unavailable only together with its exclusion.            *)

Plain == {r \in Registers \ (Sporadic \cup SemiSporadic) : DeviceOf[r] \notin WbDevices}

Keeps(v, w) ==
  \A r \in Plain : /\ r \in v.excluded => r \in w.excluded
                   /\ w.avail[r] = "UNAVAILABLE" => r \in w.excluded \/ v.avail[r] = "UNAVAILABLE"

LEMMA KeepsTransitive ==
  ASSUME NEW u, NEW v, NEW w, Keeps(u, v), Keeps(v, w)
  PROVE  Keeps(u, w)
BY DEF Keeps

LEMMA KeepsSame ==
  ASSUME NEW v, NEW w, w.excluded = v.excluded, w.avail = v.avail
  PROVE  Keeps(v, w)
BY DEF Keeps

LEMMA SetDisconnectedKeeps ==
  ASSUME NEW v \in View
  PROVE  Keeps(v, SetDisconnected(v))
<1>1. SetDisconnected(v).excluded = v.excluded /\ SetDisconnected(v).avail = v.avail
  BY DEF SetDisconnected, View
<1> QED
  BY <1>1, KeepsSame

LEMMA TransferOkKeeps ==
  ASSUME NEW d, NEW v \in View
  PROVE  Keeps(v, TransferOk(d, v))
<1>1. TransferOk(d, v).excluded = v.excluded /\ TransferOk(d, v).avail = v.avail
  BY DEF TransferOk, View
<1> QED
  BY <1>1, KeepsSame

LEMMA TransferFailedKeeps ==
  ASSUME NEW d, NEW v \in View, NEW n \in Nat, NEW t \in BOOLEAN
  PROVE  Keeps(v, TransferFailed(d, v, n, t))
<1> DEFINE w == [v EXCEPT !.rem = IF v.rem > n THEN v.rem - n ELSE 0]
<1>1. w \in View
  BY DeviceAssumption DEF DeviceAssumption, View
<1>2. w.excluded = v.excluded /\ w.avail = v.avail
  BY DEF View
<1>3. Keeps(v, v) /\ Keeps(v, w) /\ Keeps(w, SetDisconnected(w))
  BY <1>1, <1>2, KeepsSame, SetDisconnectedKeeps
<1>4. Keeps(v, SetDisconnected(w))
  BY <1>3, KeepsTransitive
<1> QED
  BY <1>3, <1>4 DEF TransferFailed

LEMMA PrepareImplKeeps ==
  ASSUME NEW d, NEW v \in View, NEW w \in PrepareImplViews(d, v)
  PROVE  Keeps(v, w)
<1>1. CASE w = v
  BY <1>1, KeepsSame
<1>2. CASE w # v
  <2>1. PICK old \in SUBSET (FwDependent \cap RegistersOf(d)) :
          w = [v EXCEPT !.unsupported = (v.unsupported \ RegistersOf(d)) \cup old,
                        !.excluded = (v.excluded \ RegistersOf(d)) \cup old]
    BY <1>2 DEF PrepareImplViews
  <2>2. w.avail = v.avail /\ w.excluded = (v.excluded \ RegistersOf(d)) \cup old
    BY <2>1 DEF View
  <2>3. Plain \cap RegistersOf(d) = {}
    BY <1>2 DEF PrepareImplViews, Plain, RegistersOf
  <2> QED
    BY <2>2, <2>3 DEF Keeps
<1> QED
  BY <1>1, <1>2

LEMMA PrepareKeeps ==
  ASSUME NEW d, NEW v \in View, NEW withSetup \in BOOLEAN, NEW p \in PrepareResults(d, v, withSetup)
  PROVE  Keeps(v, p.view)
<1> DEFINE setup == withSetup /\ v.conn # "CONNECTED" /\ d \in SetupDevices
           failed(w) == IF setup THEN FailedSetups(d, w) ELSE {<<w, 0>>}
<1>1. ASSUME NEW w \in PrepareImplViews(d, v),
             p = [ok |-> TRUE, view |-> IF setup THEN TransferOk(d, w) ELSE w]
      PROVE  Keeps(v, p.view)
  <2>1. w \in View /\ Keeps(v, w)
    BY PrepareImplType, PrepareImplKeeps
  <2>2. Keeps(w, TransferOk(d, w))
    BY <2>1, TransferOkKeeps
  <2> QED
    BY <1>1, <2>1, <2>2, KeepsTransitive
<1>2. ASSUME NEW w \in PrepareImplViews(d, v), NEW s \in failed(w), NEW t \in BOOLEAN,
             p = [ok |-> FALSE, view |-> TransferFailed(d, s[1], s[2] + 1, t)]
      PROVE  Keeps(v, p.view)
  <2>1. w \in View /\ Keeps(v, w)
    BY PrepareImplType, PrepareImplKeeps
  <2>2. s \in View \X {0, 1}
    BY <2>1, FailedSetupsType
  <2>3. s[1] = w \/ s[1] = TransferOk(d, w)
    BY DEF FailedSetups
  <2>4. Keeps(w, s[1])
    BY <2>1, <2>3, KeepsSame, TransferOkKeeps
  <2>5. s[1] \in View /\ s[2] + 1 \in Nat
    BY <2>2
  <2>6. Keeps(s[1], TransferFailed(d, s[1], s[2] + 1, t))
    BY <2>5, TransferFailedKeeps
  <2>7. Keeps(w, TransferFailed(d, s[1], s[2] + 1, t))
    BY <2>4, <2>6, KeepsTransitive
  <2>8. Keeps(v, TransferFailed(d, s[1], s[2] + 1, t))
    BY <2>1, <2>7, KeepsTransitive
  <2> QED
    BY <1>2, <2>8
<1> QED
  BY <1>1, <1>2 DEF PrepareResults

LEMMA EventsAnsweredKeeps ==
  ASSUME NEW d, NEW v \in View, NEW on \in SUBSET EventsAsked(d, v), NEW off \in SUBSET EventsAsked(d, v)
  PROVE  Keeps(v, EventsAnswered(v, on, off))
<1> DEFINE w == EventsAnswered(v, on, off)
<1>1. /\ w.excluded = (v.excluded \cup (on \cap Sporadic)) \ off
      /\ w.avail = [r \in Registers |-> IF r \in on THEN "AVAILABLE" ELSE v.avail[r]]
  BY DEF EventsAnswered, View
<1>2. \A r \in Plain : r \in Registers /\ r \notin on /\ r \notin off
  BY DEF Plain, EventsAsked
<1> QED
  BY <1>1, <1>2 DEF Keeps

LEMMA IncludeOneKeeps ==
  ASSUME NEW d, NEW v \in View, NEW w \in IncludeOne(d, v)
  PROVE  Keeps(v, w)
<1>1. CASE w = v
  BY <1>1, KeepsSame
<1>2. CASE w # v
  <2>1. PICK r \in RegistersOf(d) : w = [v EXCEPT !.excluded = v.excluded \ {r}]
    BY <1>2 DEF IncludeOne
  <2>2. r \in Sporadic
    BY <1>2, <2>1 DEF IncludeOne, SporadicOnly
  <2>3. w.avail = v.avail /\ w.excluded = v.excluded \ {r}
    BY <2>1 DEF View
  <2> QED
    BY <2>2, <2>3 DEF Keeps, Plain
<1> QED
  BY <1>1, <1>2

LEMMA PartlyEnabledKeeps ==
  ASSUME NEW d, NEW v \in View, NEW w \in PartlyEnabledViews(d, v)
  PROVE  Keeps(v, w)
<1>1. PICK answered \in SUBSET EventsAsked(d, v) :
        \E on \in SUBSET answered : w = EventsAnswered(v, on, answered \ on)
  BY DEF PartlyEnabledViews
<1> PICK on \in SUBSET answered : w = EventsAnswered(v, on, answered \ on)
  BY <1>1
<1>2. on \in SUBSET EventsAsked(d, v) /\ answered \ on \in SUBSET EventsAsked(d, v)
  OBVIOUS
<1> QED
  BY <1>2, EventsAnsweredKeeps

LEMMA EnabledKeeps ==
  ASSUME NEW d, NEW v \in View, NEW w \in EnabledViews(d, v)
  PROVE  Keeps(v, w)
<1>1. PICK on \in SUBSET EventsAsked(d, v) : w \in IncludeOne(d, EventsAnswered(v, on, EventsAsked(d, v) \ on))
  BY DEF EnabledViews
<1> DEFINE u == EventsAnswered(v, on, EventsAsked(d, v) \ on)
<1>2. EventsAsked(d, v) \subseteq Registers
  BY DEF EventsAsked, RegistersOf
<1>3. u \in View
  BY <1>2, EventsAnsweredType
<1>4. Keeps(v, u)
  BY EventsAnsweredKeeps
<1>5. Keeps(u, w)
  BY <1>1, <1>3, IncludeOneKeeps
<1> HIDE DEF u
<1> QED
  BY <1>4, <1>5, KeepsTransitive

LEMMA EnableEventsKeeps ==
  ASSUME NEW d, NEW v \in View, NEW e \in EnableEventsResults(d, v)
  PROVE  Keeps(v, e.view)
<1>1. CASE e.view = v \/ e.view = [v EXCEPT !.events = FALSE]
  <2>1. e.view.excluded = v.excluded /\ e.view.avail = v.avail
    BY <1>1 DEF View
  <2> QED
    BY <2>1, KeepsSame
<1>2. CASE e.view \in PartlyEnabledViews(d, v) \cup EnabledViews(d, v)
  BY <1>2, PartlyEnabledKeeps, EnabledKeeps
<1>3. ASSUME NEW w \in PartlyEnabledViews(d, v), e.view = SetDisconnected(w)
      PROVE  Keeps(v, e.view)
  <2>1. w \in View /\ Keeps(v, w)
    BY PartlyEnabledType, PartlyEnabledKeeps
  <2>2. Keeps(w, SetDisconnected(w))
    BY <2>1, SetDisconnectedKeeps
  <2> QED
    BY <1>3, <2>1, <2>2, KeepsTransitive
<1>4. \/ e.view = v \/ e.view = [v EXCEPT !.events = FALSE]
      \/ e.view \in PartlyEnabledViews(d, v) \cup EnabledViews(d, v)
      \/ \E w \in PartlyEnabledViews(d, v) : e.view = SetDisconnected(w)
  <2>1. CASE d \notin FastModbus
    BY <2>1 DEF EnableEventsResults
  <2>2. CASE d \in FastModbus /\ EventsAsked(d, v) = {}
    BY <2>2 DEF EnableEventsResults
  <2>3. CASE d \in FastModbus /\ EventsAsked(d, v) # {}
    BY <2>3 DEF EnableEventsResults
  <2> QED
    BY <2>1, <2>2, <2>3
<1> QED
  BY <1>1, <1>2, <1>3, <1>4

LEMMA PrepareToAccessKeeps ==
  ASSUME NEW d, NEW v \in View, NEW same \in BOOLEAN, NEW a \in PrepareToAccessResults(d, v, same)
  PROVE  Keeps(v, a.view)
<1>1. CASE a.view = v
  BY <1>1, KeepsSame
<1>2. CASE a \in PrepareResults(d, v, TRUE)
  BY <1>2, PrepareKeeps
<1>3. ASSUME NEW p \in PrepareResults(d, v, TRUE), NEW e \in EnableEventsResults(d, p.view),
             a = e \/ a = [e EXCEPT !.view.opened = TRUE]
      PROVE  Keeps(v, a.view)
  <2>1. p.view \in View
    <3>1. p \in Result
      BY PrepareType
    <3> QED
      BY <3>1 DEF Result
  <2>2. Keeps(v, p.view)
    BY PrepareKeeps
  <2>3. Keeps(p.view, e.view)
    BY <2>1, EnableEventsKeeps
  <2>4. a.view.excluded = e.view.excluded /\ a.view.avail = e.view.avail
    <3>1. e \in Result
      BY <2>1, EnableEventsType
    <3> QED
      BY <1>3, <3>1 DEF Result, View
  <2>5. Keeps(e.view, a.view)
    BY <2>4, KeepsSame
  <2> QED
    BY <2>2, <2>3, <2>5, KeepsTransitive
<1>4. CASE v.conn = "CONNECTED"
  <2>1. CASE same
    BY <1>1, <1>4, <2>1 DEF PrepareToAccessResults
  <2>2. CASE ~same
    BY <1>2, <1>4, <2>2 DEF PrepareToAccessResults
  <2> QED
    BY <2>1, <2>2
<1>5. CASE v.conn # "CONNECTED"
  <2> DEFINE accessed(p) == {IF e.ok THEN [e EXCEPT !.view.opened = TRUE] ELSE e :
                               e \in EnableEventsResults(d, p.view)}
  <2>1. CASE \E p \in PrepareResults(d, v, TRUE) : a \in accessed(p)
    BY <1>3, <2>1
  <2>2. \/ a \in PrepareResults(d, v, TRUE)
        \/ a \in UNION {accessed(p) : p \in {q \in PrepareResults(d, v, TRUE) : q.ok}}
    BY <1>5 DEF PrepareToAccessResults
  <2> HIDE DEF accessed
  <2> QED
    BY <1>2, <2>1, <2>2
<1> QED
  BY <1>4, <1>5

LEMMA MarkUnavailableKeeps ==
  ASSUME NEW v \in View, NEW regs \in SUBSET Registers
  PROVE  Keeps(v, MarkUnavailable(v, regs))
<1> DEFINE w == MarkUnavailable(v, regs)
<1>1. /\ w.excluded = v.excluded \cup regs
      /\ w.avail = [r \in Registers |-> IF r \in regs THEN "UNAVAILABLE" ELSE v.avail[r]]
  BY DEF MarkUnavailable, View
<1> QED
  BY <1>1 DEF Keeps, Plain

LEMMA SetValuesKeeps ==
  ASSUME NEW v \in View, NEW regs \in SUBSET Registers, NEW w \in SetValuesViews(v, regs)
  PROVE  Keeps(v, w)
<1> DEFINE u == [v EXCEPT !.defined = v.defined \cup regs,
                          !.avail = [r \in Registers |-> IF r \in regs THEN "AVAILABLE"
                                                         ELSE v.avail[r]]]
<1>1. [r \in Registers |-> IF r \in regs THEN "AVAILABLE" ELSE v.avail[r]]
        \in [Registers -> Availability]
  BY DEF View, Availability
<1>2. u \in View
  BY <1>1 DEF View
<1>3. /\ u.excluded = v.excluded
      /\ u.avail = [r \in Registers |-> IF r \in regs THEN "AVAILABLE" ELSE v.avail[r]]
  BY DEF View
<1>4. Keeps(v, u)
  BY <1>3 DEF Keeps, Plain
<1>5. PICK unsup \in SUBSET (regs \cap Marked) : w = MarkUnavailable(u, unsup)
  BY DEF SetValuesViews
<1>6. Keeps(u, w)
  BY <1>2, <1>5, MarkUnavailableKeeps
<1> HIDE DEF u
<1> QED
  BY <1>4, <1>6, KeepsTransitive

LEMMA FailedKeeps ==
  ASSUME NEW d, NEW v \in View, NEW w \in FailedViews(d, v)
  PROVE  Keeps(v, w)
BY TransferFailedKeeps DEF FailedViews

LEMMA ReadKeeps ==
  ASSUME NEW d, NEW v \in View, NEW regs \in SUBSET Registers, NEW w \in ReadViews(d, v, regs)
  PROVE  Keeps(v, w)
<1>1. ASSUME NEW some \in SUBSET Registers, w \in SetValuesViews(TransferOk(d, v), some)
      PROVE  Keeps(v, w)
  <2>1. TransferOk(d, v) \in View /\ Keeps(v, TransferOk(d, v))
    BY TransferOkType, TransferOkKeeps
  <2>2. Keeps(TransferOk(d, v), w)
    BY <1>1, <2>1, SetValuesKeeps
  <2> QED
    BY <2>1, <2>2, KeepsTransitive
<1>2. ASSUME NEW some \in SUBSET Registers, w = MarkUnavailable(TransferOk(d, v), some)
      PROVE  Keeps(v, w)
  <2>1. TransferOk(d, v) \in View /\ Keeps(v, TransferOk(d, v))
    BY TransferOkType, TransferOkKeeps
  <2>2. Keeps(TransferOk(d, v), w)
    BY <1>2, <2>1, MarkUnavailableKeeps
  <2> QED
    BY <2>1, <2>2, KeepsTransitive
<1>3. CASE w \in FailedViews(d, MarkUnavailable(v, regs))
  <2>1. MarkUnavailable(v, regs) \in View /\ Keeps(v, MarkUnavailable(v, regs))
    BY MarkUnavailableType, MarkUnavailableKeeps
  <2>2. Keeps(MarkUnavailable(v, regs), w)
    BY <1>3, <2>1, FailedKeeps
  <2> QED
    BY <2>1, <2>2, KeepsTransitive
<1>4. CASE w = v \/ w = TransferOk(d, v) \/ w \in FailedViews(d, v)
  BY <1>4, KeepsSame, TransferOkKeeps, FailedKeeps
<1>5. {r \in regs : v.avail[r] # "UNAVAILABLE"} \in SUBSET Registers
  OBVIOUS
<1> QED
  BY <1>1, <1>2, <1>3, <1>4, <1>5 DEF ReadViews, GenericReadViews, ModbusReadViews

-----------------------------------------------------------------------------
(* A device that is connected has been prepared: OpenedView.                 *)

OpenedView(v) == v.conn = "CONNECTED" => v.opened

LEMMA SetDisconnectedOpened ==
  ASSUME NEW v \in View
  PROVE  SetDisconnected(v).conn = "DISCONNECTED"
BY DEF SetDisconnected, View

LEMMA TransferOkOpened ==
  ASSUME NEW d, NEW v \in View, v.opened
  PROVE  TransferOk(d, v).opened
BY DEF TransferOk, View

LEMMA TransferFailedOpened ==
  ASSUME NEW d, NEW v \in View, NEW n \in Nat, NEW t \in BOOLEAN, OpenedView(v)
  PROVE  OpenedView(TransferFailed(d, v, n, t))
<1> DEFINE w == [v EXCEPT !.rem = IF v.rem > n THEN v.rem - n ELSE 0]
<1>1. w \in View
  BY DeviceAssumption DEF DeviceAssumption, View
<1>2. OpenedView(w)
  BY DEF OpenedView, View
<1>3. OpenedView(SetDisconnected(w))
  BY <1>1, SetDisconnectedOpened DEF OpenedView
<1> QED
  BY <1>2, <1>3 DEF TransferFailed

LEMMA FailedOpened ==
  ASSUME NEW d, NEW v \in View, OpenedView(v), NEW w \in FailedViews(d, v)
  PROVE  OpenedView(w)
BY TransferFailedOpened DEF FailedViews

LEMMA PrepareImplOpened ==
  ASSUME NEW d, NEW v \in View, NEW w \in PrepareImplViews(d, v)
  PROVE  w.conn = v.conn /\ w.opened = v.opened
<1>1. CASE w = v
  BY <1>1
<1>2. CASE w # v
  <2>1. PICK old \in SUBSET (FwDependent \cap RegistersOf(d)) :
          w = [v EXCEPT !.unsupported = (v.unsupported \ RegistersOf(d)) \cup old,
                        !.excluded = (v.excluded \ RegistersOf(d)) \cup old]
    BY <1>2 DEF PrepareImplViews
  <2> QED
    BY <2>1 DEF View
<1> QED
  BY <1>1, <1>2

\* Without "partial" setup registers a failed preparation connects no device, and
\* preparing a connected device changes nothing.
LEMMA PrepareOpened ==
  ASSUME NEW d, d \notin PartialSetup, NEW v \in View, OpenedView(v),
         NEW withSetup \in BOOLEAN, NEW p \in PrepareResults(d, v, withSetup)
  PROVE  /\ ~p.ok => OpenedView(p.view)
         /\ p.ok /\ v.conn = "CONNECTED" => p.view = v
<1> DEFINE setup == withSetup /\ v.conn # "CONNECTED" /\ d \in SetupDevices
           failed(w) == IF setup THEN FailedSetups(d, w) ELSE {<<w, 0>>}
<1>1. ASSUME NEW w \in PrepareImplViews(d, v),
             p = [ok |-> TRUE, view |-> IF setup THEN TransferOk(d, w) ELSE w]
      PROVE  p.ok /\ (v.conn = "CONNECTED" => p.view = v)
  BY <1>1 DEF PrepareImplViews
<1>2. ASSUME NEW w \in PrepareImplViews(d, v), NEW s \in failed(w), NEW t \in BOOLEAN,
             p = [ok |-> FALSE, view |-> TransferFailed(d, s[1], s[2] + 1, t)]
      PROVE  ~p.ok /\ OpenedView(p.view)
  <2>1. w \in View /\ OpenedView(w)
    BY PrepareImplType, PrepareImplOpened DEF OpenedView
  <2>2. s = <<w, 0>>
    BY DEF FailedSetups
  <2>3. OpenedView(TransferFailed(d, w, 0 + 1, t))
    BY <2>1, TransferFailedOpened
  <2> QED
    BY <1>2, <2>2, <2>3
<1> QED
  BY <1>1, <1>2 DEF PrepareResults

\* A device for which PrepareToAccess returns true is opened, and none becomes
\* connected without being opened.
LEMMA PrepareToAccessOpened ==
  ASSUME NEW d, d \notin PartialSetup, NEW v \in View, OpenedView(v),
         NEW same \in BOOLEAN, NEW a \in PrepareToAccessResults(d, v, same)
  PROVE  OpenedView(a.view) /\ (a.ok => a.view.opened)
<1>1. CASE v.conn = "CONNECTED"
  <2>1. CASE same
    BY <1>1, <2>1 DEF PrepareToAccessResults, OpenedView
  <2>2. CASE ~same
    <3>1. a \in PrepareResults(d, v, TRUE)
      BY <1>1, <2>2 DEF PrepareToAccessResults
    <3>2. a \in Result
      BY <3>1, PrepareType
    <3> QED
      BY <1>1, <3>1, <3>2, PrepareOpened DEF OpenedView, Result
  <2> QED
    BY <2>1, <2>2
<1>2. CASE v.conn # "CONNECTED"
  <2> DEFINE accessed(p) == {IF e.ok THEN [e EXCEPT !.view.opened = TRUE] ELSE e :
                               e \in EnableEventsResults(d, p.view)}
  <2>1. ASSUME NEW p \in PrepareResults(d, v, TRUE), NEW e \in EnableEventsResults(d, p.view)
        PROVE  /\ e.ok => [e EXCEPT !.view.opened = TRUE].view.opened
               /\ ~e.ok => OpenedView(e.view)
    <3>1. p.view \in View
      <4>1. p \in Result
        BY PrepareType
      <4> QED
        BY <4>1 DEF Result
    <3>2. e \in Result
      BY <3>1, EnableEventsType
    <3>3. e.ok => [e EXCEPT !.view.opened = TRUE].view.opened
      BY <3>2 DEF Result, View
    <3>4. ~e.ok => \E w \in PartlyEnabledViews(d, p.view) : e.view = SetDisconnected(w)
      <4>1. CASE d \in FastModbus /\ EventsAsked(d, p.view) # {}
        BY <4>1 DEF EnableEventsResults
      <4>2. CASE d \notin FastModbus \/ EventsAsked(d, p.view) = {}
        BY <4>2 DEF EnableEventsResults
      <4> QED
        BY <4>1, <4>2
    <3>5. ~e.ok => e.view.conn = "DISCONNECTED"
      BY <3>1, <3>4, PartlyEnabledType, SetDisconnectedOpened
    <3> QED
      BY <3>3, <3>5 DEF OpenedView
  <2>2. \/ a \in {p \in PrepareResults(d, v, TRUE) : ~p.ok}
        \/ a \in UNION {accessed(p) : p \in {q \in PrepareResults(d, v, TRUE) : q.ok}}
    BY <1>2 DEF PrepareToAccessResults
  <2>3. CASE a \in PrepareResults(d, v, TRUE) /\ ~a.ok
    BY <2>3, PrepareOpened
  <2>4. CASE \E p \in PrepareResults(d, v, TRUE) : a \in accessed(p)
    <3>1. PICK p \in PrepareResults(d, v, TRUE) : a \in accessed(p)
      BY <2>4
    <3>2. PICK e \in EnableEventsResults(d, p.view) :
            a = IF e.ok THEN [e EXCEPT !.view.opened = TRUE] ELSE e
      BY <3>1
    <3> QED
      BY <2>1, <3>2 DEF OpenedView
  <2> HIDE DEF accessed
  <2> QED
    BY <2>2, <2>3, <2>4
<1> QED
  BY <1>1, <1>2

LEMMA SetValuesOpened ==
  ASSUME NEW v \in View, NEW regs \in SUBSET Registers, NEW w \in SetValuesViews(v, regs)
  PROVE  w.conn = v.conn /\ w.opened = v.opened
BY DEF SetValuesViews, MarkUnavailable, View

\* Reading a device that is opened leaves it connected only if it is opened.
LEMMA ReadOpened ==
  ASSUME NEW d, NEW v \in View, v.opened, NEW regs \in SUBSET Registers, NEW w \in ReadViews(d, v, regs)
  PROVE  OpenedView(w)
<1>1. TransferOk(d, v) \in View /\ TransferOk(d, v).opened
  BY TransferOkType, TransferOkOpened
<1>2. ASSUME NEW some \in SUBSET Registers, w \in SetValuesViews(TransferOk(d, v), some)
      PROVE  OpenedView(w)
  BY <1>1, <1>2, SetValuesOpened DEF OpenedView
<1>3. ASSUME NEW some \in SUBSET Registers, w = MarkUnavailable(TransferOk(d, v), some)
      PROVE  OpenedView(w)
  BY <1>1, <1>3 DEF MarkUnavailable, OpenedView, View
<1>4. CASE w \in FailedViews(d, MarkUnavailable(v, regs))
  <2>1. MarkUnavailable(v, regs) \in View
    BY MarkUnavailableType
  <2>2. OpenedView(MarkUnavailable(v, regs))
    BY DEF MarkUnavailable, OpenedView, View
  <2> QED
    BY <1>4, <2>1, <2>2, FailedOpened
<1>5. CASE w = v \/ w = TransferOk(d, v) \/ w \in FailedViews(d, v)
  BY <1>1, <1>5, FailedOpened DEF OpenedView
<1>6. {r \in regs : v.avail[r] # "UNAVAILABLE"} \in SUBSET Registers
  OBVIOUS
<1> QED
  BY <1>2, <1>3, <1>4, <1>5, <1>6 DEF ReadViews, GenericReadViews, ModbusReadViews

-----------------------------------------------------------------------------
(* The poll loop. *)

LEMMA ViewOfType ==
  ASSUME TypeOK, NEW d \in Devices
  PROVE  ViewOf(d) \in View
BY DEF ViewOf, View, TypeOK

\* The part of the type invariant that the operations on a device change.
DeviceTypeOK ==
  /\ conn \in [Devices -> ConnectionState]
  /\ rem \in [Devices -> 0..MaxFailCycles]
  /\ excluded \subseteq Registers
  /\ unsupported \subseteq Registers
  /\ avail \in [Registers -> Availability]
  /\ defined \subseteq Registers
  /\ events \subseteq Devices
  /\ opened \subseteq Devices
  /\ waiting \subseteq Devices

\* The other part of it.
SchedulerTypeOK ==
  /\ queued \subseteq Registers
  /\ entries \in [Pollables -> Nat]
  /\ suspended \in [Devices -> {"no", "armed", "expired"}]
  /\ pc \in ThreadState
  /\ target \in TargetType
  /\ last \in Devices \cup {None}
  /\ expired \subseteq Devices
  /\ overlapped \subseteq Devices

LEMMA TypeParts == TypeOK <=> DeviceTypeOK /\ SchedulerTypeOK
BY DEF TypeOK, DeviceTypeOK, SchedulerTypeOK

\* Storing a view keeps the types.
LEMMA StoreType ==
  ASSUME TypeOK, NEW d \in Devices, NEW v \in View, Store(d, v)
  PROVE  DeviceTypeOK'
BY DEF Store, With, View, TypeOK, DeviceTypeOK

LEMMA AccessType ==
  ASSUME TypeOK, NEW d \in Devices, NEW result \in Result, Access(d, result)
  PROVE  DeviceTypeOK' /\ last' \in Devices \cup {None}
<1>1. result.view \in View
  BY DEF Result
<1>2. DeviceTypeOK'
  BY <1>1, StoreType DEF Access
<1> QED
  BY <1>2 DEF Access

LEMMA WriteViewsType ==
  ASSUME NEW r \in Registers, NEW v \in View
  PROVE  WriteViews(r, v) \subseteq View
<1>1. TransferOk(DeviceOf[r], v) \in View
  BY TransferOkType
<1>2. SetValuesViews(TransferOk(DeviceOf[r], v), {r}) \subseteq View
  BY <1>1, SetValuesType
<1>3. FailedViews(DeviceOf[r], v) \subseteq View
  BY FailedViewsType
<1> QED
  BY <1>1, <1>2, <1>3 DEF WriteViews

\* Including the excluded registers of some devices keeps the types.
LEMMA RescheduleType ==
  ASSUME TypeOK, NEW devs, RescheduleAllRegisters(devs)
  PROVE  /\ avail' \in [Registers -> Availability]
         /\ excluded' \subseteq Registers
         /\ queued' \subseteq Registers
BY DEF RescheduleAllRegisters, TypeOK, Availability

\* A poll removes entries only of pollables that have one.
LEMMA RescheduledType ==
  ASSUME TypeOK, NEW p \in Pollables, entries[p] > 0, NEW queue
  PROVE  Rescheduled(p, queue) \in [Pollables -> Nat]
<1>1. entries \in [Pollables -> Nat]
  BY DEF TypeOK
<1>2. entries[p] \in Nat /\ entries[p] - 1 \in Nat
  BY <1>1
<1> QED
  BY <1>1, <1>2 DEF Rescheduled

\* Only the pollables of a device are touched by its operations.
LEMMA PollableDevice ==
  ASSUME NEW p \in Pollables
  PROVE  p[1] \in Devices
BY DEF Pollables

-----------------------------------------------------------------------------
LEMMA InitType == Init => TypeOK
<1>1. MaxFailCycles \in Nat
  BY DeviceAssumption DEF DeviceAssumption
<1> QED
  BY <1>1 DEF Init, TypeOK, TargetType, ConnectionState, Availability, ThreadState

LEMMA TypeStep == TypeOK /\ [Next]_vars => TypeOK'
<1> SUFFICES ASSUME TypeOK, [Next]_vars
             PROVE  TypeOK'
  OBVIOUS
<1> USE DEF ThreadState, TargetType
<1>1. ASSUME NEW r \in Registers, BeginWrite(r)
      PROVE  TypeOK'
  <2>1. DeviceOf[r] \in Devices
    BY DeviceAssumption DEF DeviceAssumption
  <2>2. PICK result \in PrepareToAccessResults(DeviceOf[r], ViewOf(DeviceOf[r]), last = DeviceOf[r]) :
          /\ Access(DeviceOf[r], result)
          /\ pc' = IF result.ok THEN "write" ELSE "tasks"
          /\ target' = IF result.ok THEN r ELSE None
    BY <1>1 DEF BeginWrite
  <2>3. result \in Result
    BY <2>1, <2>2, ViewOfType, PrepareToAccessType
  <2>4. DeviceTypeOK' /\ last' \in Devices \cup {None}
    BY <2>1, <2>2, <2>3, AccessType
  <2>5. SchedulerTypeOK'
    BY <1>1, <2>2, <2>4 DEF BeginWrite, TypeOK, SchedulerTypeOK
  <2> QED
    BY <2>4, <2>5 DEF TypeOK, DeviceTypeOK, SchedulerTypeOK
<1>2. ASSUME EndWrite
      PROVE  TypeOK'
  <2>1. target \in Registers /\ DeviceOf[target] \in Devices
    BY <1>2, DeviceAssumption DEF EndWrite, TypeOK, DeviceAssumption
  <2>2. PICK v \in WriteViews(target, ViewOf(DeviceOf[target])) : Store(DeviceOf[target], v)
    BY <1>2 DEF EndWrite
  <2>3. v \in View
    BY <2>1, <2>2, ViewOfType, WriteViewsType
  <2>4. DeviceTypeOK'
    BY <2>1, <2>2, <2>3, StoreType
  <2>5. SchedulerTypeOK'
    BY <1>2 DEF EndWrite, TypeOK, SchedulerTypeOK
  <2> QED
    BY <2>4, <2>5 DEF TypeOK, DeviceTypeOK, SchedulerTypeOK
<1>3. ASSUME NEW d \in Devices, BeginSession(d)
      PROVE  TypeOK'
  <2>1. PICK result \in PrepareResults(d, ViewOf(d), FALSE) :
          /\ Store(d, result.view)
          /\ pc' = IF result.ok THEN "session" ELSE "tasks"
          /\ target' = IF result.ok THEN d ELSE None
    BY <1>3 DEF BeginSession
  <2>2. result.view \in View
    <3>1. result \in Result
      BY <2>1, ViewOfType, PrepareType
    <3> QED
      BY <3>1 DEF Result
  <2>3. DeviceTypeOK'
    BY <2>1, <2>2, StoreType
  <2>4. SchedulerTypeOK'
    BY <1>3, <2>1 DEF BeginSession, TypeOK, SchedulerTypeOK
  <2> QED
    BY <2>3, <2>4 DEF TypeOK, DeviceTypeOK, SchedulerTypeOK
<1>4. ASSUME SessionTransfer
      PROVE  TypeOK'
  <2>1. target \in Devices
    BY <1>4 DEF SessionTransfer, TypeOK
  <2>2. PICK v \in {TransferOk(target, ViewOf(target))} \cup FailedViews(target, ViewOf(target)) :
          Store(target, v)
    BY <1>4 DEF SessionTransfer
  <2>3. v \in View
    BY <2>1, <2>2, ViewOfType, TransferOkType, FailedViewsType
  <2>4. DeviceTypeOK'
    BY <2>1, <2>2, <2>3, StoreType
  <2>5. SchedulerTypeOK'
    BY <1>4 DEF SessionTransfer, TypeOK, SchedulerTypeOK
  <2> QED
    BY <2>4, <2>5 DEF TypeOK, DeviceTypeOK, SchedulerTypeOK
<1>5. ASSUME NEW r \in EventRegisters, RegisterEvent(r)
      PROVE  TypeOK'
  <2>1. r \in Registers /\ DeviceOf[r] \in Devices
    BY DeviceAssumption DEF EventRegisters, DeviceAssumption
  <2>2. PICK v \in SetValuesViews(ViewOf(DeviceOf[r]), {r}) : Store(DeviceOf[r], v)
    BY <1>5 DEF RegisterEvent
  <2>3. v \in View
    BY <2>1, <2>2, ViewOfType, SetValuesType
  <2>4. DeviceTypeOK'
    BY <2>1, <2>2, <2>3, StoreType
  <2>5. SchedulerTypeOK'
    BY <1>5 DEF RegisterEvent, TypeOK, SchedulerTypeOK
  <2> QED
    BY <2>4, <2>5 DEF TypeOK, DeviceTypeOK, SchedulerTypeOK
<1>6. ASSUME NEW d \in Devices, RebootEvent(d)
      PROVE  TypeOK'
  <2> DEFINE v == [SetDisconnected(ViewOf(d)) EXCEPT !.events = FALSE]
  <2>1. SetDisconnected(ViewOf(d)) \in View
    BY ViewOfType, SetDisconnectedType
  <2>2. v \in View
    BY <2>1 DEF View
  <2>3. DeviceTypeOK'
    BY <1>6, <2>2, StoreType DEF RebootEvent
  <2>4. SchedulerTypeOK'
    BY <1>6 DEF RebootEvent, TypeOK, SchedulerTypeOK
  <2> QED
    BY <2>3, <2>4 DEF TypeOK, DeviceTypeOK, SchedulerTypeOK
<1>7. ASSUME RescheduleDisconnectedDevices
      PROVE  TypeOK'
  <2>1. /\ avail' \in [Registers -> Availability]
        /\ excluded' \subseteq Registers
        /\ queued' \subseteq Registers
    BY <1>7, RescheduleType DEF RescheduleDisconnectedDevices
  <2>2. entries' \in [Pollables -> Nat]
    BY <1>7 DEF RescheduleDisconnectedDevices, Readded, TypeOK
  <2> QED
    BY <1>7, <2>1, <2>2 DEF RescheduleDisconnectedDevices, TypeOK
<1>8. ASSUME CollectExpired
      PROVE  TypeOK'
  BY <1>8 DEF CollectExpired, TypeOK, deviceVars
<1>9. ASSUME NEW d \in Devices, Resume(d), pc' = pc, expired' \subseteq Devices
      PROVE  TypeOK'
  <2>1. /\ avail' \in [Registers -> Availability]
        /\ excluded' \subseteq Registers
        /\ queued' \subseteq Registers
    BY <1>9, RescheduleType DEF Resume
  <2>2. entries' \in [Pollables -> Nat]
    BY <1>9 DEF Resume, TypeOK
  <2>3. suspended' \in [Devices -> {"no", "armed", "expired"}]
    BY <1>9 DEF Resume, TypeOK
  <2> QED
    BY <1>9, <2>1, <2>2, <2>3 DEF Resume, TypeOK
<1>10. ASSUME NEW d \in Devices, ResumeExpired(d) \/ ResumePoll(d)
       PROVE  TypeOK'
  BY <1>9, <1>10 DEF ResumeExpired, ResumePoll, TypeOK
<1>11. ASSUME NEW d \in Devices, ResumeTwice(d)
       PROVE  TypeOK'
  BY <1>11 DEF ResumeTwice, TypeOK, deviceVars
<1>12. ASSUME NEW p \in Pollables, Poll(p)
       PROVE  TypeOK'
  <2>1. p[1] \in Devices
    BY PollableDevice
  <2>2. PICK dropped \in SUBSET Droppable(p), regs \in RangesOf(p) \ {{}} :
        \E access \in PrepareToAccessResults(p[1], ViewOf(p[1]), last = p[1]) :
        \E v \in IF access.ok THEN ReadViews(p[1], access.view, regs) ELSE {access.view} :
          /\ Access(p[1], [access EXCEPT !.view = v])
          /\ queued' = (queued \ (dropped \cup regs)) \cup KeptRegisters(v, regs)
          /\ entries' = Rescheduled(p, queued')
    BY <1>12 DEF Poll
  <2>3. PICK access \in PrepareToAccessResults(p[1], ViewOf(p[1]), last = p[1]) :
        \E v \in IF access.ok THEN ReadViews(p[1], access.view, regs) ELSE {access.view} :
          /\ Access(p[1], [access EXCEPT !.view = v])
          /\ queued' = (queued \ (dropped \cup regs)) \cup KeptRegisters(v, regs)
          /\ entries' = Rescheduled(p, queued')
    BY <2>2
  <2>4. PICK v \in IF access.ok THEN ReadViews(p[1], access.view, regs) ELSE {access.view} :
          /\ Access(p[1], [access EXCEPT !.view = v])
          /\ queued' = (queued \ (dropped \cup regs)) \cup KeptRegisters(v, regs)
          /\ entries' = Rescheduled(p, queued')
    BY <2>3
  <2>5. regs \subseteq Registers /\ KeptRegisters(v, regs) \subseteq Registers
    BY DEF RangesOf, QueueOf, RegistersAt, RegistersOf, KeptRegisters
  <2>6. access \in Result
    BY <2>1, <2>3, ViewOfType, PrepareToAccessType
  <2>7. v \in View
    BY <2>1, <2>4, <2>5, <2>6, ReadType DEF Result
  <2>8. [access EXCEPT !.view = v] \in Result
    BY <2>6, <2>7 DEF Result
  <2>9. DeviceTypeOK' /\ last' \in Devices \cup {None}
    BY <2>1, <2>4, <2>8, AccessType
  <2>10. entries' \in [Pollables -> Nat]
    BY <1>12, <2>4, RescheduledType DEF Poll
  <2>11. queued' \subseteq Registers
    BY <2>4, <2>5 DEF TypeOK
  <2>12. SchedulerTypeOK'
    BY <1>12, <2>9, <2>10, <2>11 DEF Poll, PollAllowed, TypeOK, SchedulerTypeOK
  <2> QED
    BY <2>9, <2>12 DEF TypeOK, DeviceTypeOK, SchedulerTypeOK
<1>13. ASSUME NEW p \in Pollables, PollNothing(p)
       PROVE  TypeOK'
  BY <1>13 DEF PollNothing, PollAllowed, TypeOK, deviceVars
<1>14. ASSUME NEW p \in Pollables, PollClosed(p)
       PROVE  TypeOK'
  <2>1. p[1] \in Devices
    BY PollableDevice
  <2>2. PICK regs \in SUBSET QueueOf(p), timedOut \in BOOLEAN :
          /\ Store(p[1], TransferFailed(p[1], ViewOf(p[1]), Cardinality(regs), timedOut))
          /\ queued' = (queued \ regs) \cup KeptRegisters(ViewOf(p[1]), regs)
          /\ pc' = IF regs = {} THEN "tasks" ELSE "closed"
    BY <1>14 DEF PollClosed
  <2>3. regs \subseteq Registers /\ KeptRegisters(ViewOf(p[1]), regs) \subseteq Registers
    BY DEF QueueOf, RegistersAt, RegistersOf, KeptRegisters
  <2>4. Cardinality(regs) \in Nat
    BY <2>3, DeviceAssumption, FS_Subset, FS_CardinalityType DEF DeviceAssumption
  <2>5. DeviceTypeOK'
    BY <2>1, <2>2, <2>4, ViewOfType, TransferFailedType, StoreType
  <2>6. entries' \in [Pollables -> Nat]
    BY <1>14, RescheduledType DEF PollClosed
  <2>7. queued' \subseteq Registers
    BY <2>2, <2>3 DEF TypeOK
  <2>8. SchedulerTypeOK'
    BY <1>14, <2>2, <2>6, <2>7 DEF PollClosed, PollAllowed, TypeOK, SchedulerTypeOK
  <2> QED
    BY <2>5, <2>8 DEF TypeOK, DeviceTypeOK, SchedulerTypeOK
<1>15. ASSUME PollIdle \/ EndClosed
       PROVE  TypeOK'
  BY <1>15 DEF PollIdle, EndClosed, PollAllowed, TypeOK, deviceVars
<1>16. ASSUME NEW d \in Devices, SuspendPoll(d)
       PROVE  TypeOK'
  <2>1. entries' \in [Pollables -> Nat]
    BY <1>16 DEF SuspendPoll, TypeOK
  <2> QED
    BY <1>16, <2>1 DEF SuspendPoll, TypeOK, ConnectionState
<1>17. ASSUME NEW d \in Devices, Expire(d)
       PROVE  TypeOK'
  BY <1>17 DEF Expire, TypeOK, deviceVars
<1>18. ASSUME Restart
       PROVE  TypeOK'
  <2>1. 0 \in 0..MaxFailCycles
    BY DeviceAssumption DEF DeviceAssumption
  <2> QED
    BY <1>18, <2>1 DEF Restart, TypeOK, ConnectionState, Availability
<1>19. CASE UNCHANGED vars
  BY <1>19 DEF vars, deviceVars, TypeOK
<1> QED
  <2>1. CASE Tasks
    BY <1>1, <1>2, <1>3, <1>4, <2>1 DEF Tasks
  <2>2. CASE Events
    BY <1>5, <1>6, <2>2, DeviceAssumption DEF Events, EventRegisters, DeviceAssumption
  <2>3. CASE PollStep
    BY <1>8, <1>10, <1>11, <1>12, <1>13, <1>14, <1>15, <2>3 DEF PollStep
  <2>4. CASE Rpc \/ Clock
    BY <1>10, <1>16, <1>17, <2>4 DEF Rpc, Clock
  <2> QED
    BY <1>7, <1>18, <1>19, <2>1, <2>2, <2>3, <2>4 DEF Next

\* Every reachable state is well typed; in particular no device is left with
\* fewer than zero fail cycles and no pollable with fewer than zero entries.
THEOREM TypeCorrect == Spec => []TypeOK
<1>1. Init => TypeOK
  BY InitType
<1> QED
  BY <1>1, TypeStep, PTL DEF Spec
-----------------------------------------------------------------------------
(* The entries of the scheduler.  Most steps only take from the queues, and   *)
(* take the entry of a pollable only when its queue has become empty.        *)

Taking ==
  /\ UNCHANGED <<suspended, overlapped>>
  /\ queued' \subseteq queued
  /\ \A p \in Pollables : /\ entries'[p] <= entries[p]
                          /\ RegistersAt(p) \cap queued' # {} => entries'[p] = entries[p]
  /\ \A d \in waiting' \ waiting : ~Suspended(d)

LEMMA StoreWaiting ==
  ASSUME NEW d, NEW v, Store(d, v)
  PROVE  \A e \in waiting' \ waiting : ~Suspended(e)
BY DEF Store

\* Steps that leave the queues and the scheduler alone.
LEMMA SameEntries ==
  ASSUME TypeOK, UNCHANGED <<queued, entries, suspended, overlapped>>,
         \A d \in waiting' \ waiting : ~Suspended(d)
  PROVE  Taking
<1>1. \A p \in Pollables : entries[p] \in Nat
  BY DEF TypeOK
<1> QED
  BY <1>1 DEF Taking

\* A poll of one pollable.
LEMMA PolledEntries ==
  ASSUME TypeOK, NEW p \in Pollables, entries[p] > 0, queued' \subseteq queued,
         entries' = Rescheduled(p, queued'), UNCHANGED <<suspended, overlapped>>,
         \A d \in waiting' \ waiting : ~Suspended(d)
  PROVE  Taking
<1>1. entries \in [Pollables -> Nat]
  BY DEF TypeOK
<1>2. ASSUME NEW q \in Pollables
      PROVE  /\ entries'[q] <= entries[q]
             /\ RegistersAt(q) \cap queued' # {} => entries'[q] = entries[q]
  BY <1>1 DEF Rescheduled
<1> QED
  BY <1>2 DEF Taking

LEMMA TasksTake == TypeOK /\ (Tasks \/ Events) => Taking
<1> SUFFICES ASSUME TypeOK, Tasks \/ Events
             PROVE  Taking
  OBVIOUS
<1>1. UNCHANGED <<queued, entries, suspended, overlapped>>
  BY DEF Tasks, Events, BeginWrite, EndWrite, BeginSession, SessionTransfer, RegisterEvent, RebootEvent
<1>2. \E d, v : Store(d, v)
  <2>1. ASSUME NEW r \in Registers, BeginWrite(r)
        PROVE  \E d, v : Store(d, v)
    BY <2>1 DEF BeginWrite, Access
  <2>2. ASSUME NEW d \in Devices, BeginSession(d)
        PROVE  \E e, v : Store(e, v)
    BY <2>2 DEF BeginSession
  <2>3. EndWrite => \E d, v : Store(d, v)
    BY DEF EndWrite
  <2>4. SessionTransfer => \E d, v : Store(d, v)
    BY DEF SessionTransfer
  <2>5. ASSUME NEW r \in EventRegisters, RegisterEvent(r)
        PROVE  \E d, v : Store(d, v)
    BY <2>5 DEF RegisterEvent
  <2>6. ASSUME NEW d, RebootEvent(d)
        PROVE  \E e, v : Store(e, v)
    BY <2>6 DEF RebootEvent
  <2> QED
    BY <2>1, <2>2, <2>3, <2>4, <2>5, <2>6 DEF Tasks, Events
<1>3. \A d \in waiting' \ waiting : ~Suspended(d)
  BY <1>2, StoreWaiting
<1> QED
  BY <1>1, <1>3, SameEntries

LEMMA PollTakes ==
  ASSUME TypeOK, NEW p \in Pollables, Poll(p) \/ PollNothing(p) \/ PollClosed(p)
  PROVE  Taking
<1>1. CASE Poll(p)
  <2>1. PICK dropped, regs, access, v :
          /\ dropped \in SUBSET Droppable(p) /\ regs \in RangesOf(p) \ {{}}
          /\ Access(p[1], [access EXCEPT !.view = v])
          /\ queued' = (queued \ (dropped \cup regs)) \cup KeptRegisters(v, regs)
          /\ entries' = Rescheduled(p, queued')
    BY <1>1 DEF Poll
  <2>2. regs \subseteq queued
    BY <2>1 DEF RangesOf, QueueOf
  <2>3. queued' \subseteq queued
    BY <2>1, <2>2 DEF KeptRegisters
  <2>4. \A d \in waiting' \ waiting : ~Suspended(d)
    BY <2>1, StoreWaiting DEF Access
  <2> QED
    BY <1>1, <2>1, <2>3, <2>4, PolledEntries DEF Poll
<1>2. CASE PollNothing(p)
  <2>1. queued' \subseteq queued /\ UNCHANGED <<entries, waiting, suspended, overlapped>>
    BY <1>2 DEF PollNothing
  <2>2. \A q \in Pollables : entries[q] \in Nat
    BY DEF TypeOK
  <2> QED
    BY <2>1, <2>2 DEF Taking
<1>3. CASE PollClosed(p)
  <2>1. PICK regs \in SUBSET QueueOf(p), timedOut \in BOOLEAN :
          /\ Store(p[1], TransferFailed(p[1], ViewOf(p[1]), Cardinality(regs), timedOut))
          /\ queued' = (queued \ regs) \cup KeptRegisters(ViewOf(p[1]), regs)
    BY <1>3 DEF PollClosed
  <2>2. queued' \subseteq queued
    BY <2>1 DEF KeptRegisters, QueueOf
  <2>3. \A d \in waiting' \ waiting : ~Suspended(d)
    BY <2>1, StoreWaiting
  <2> QED
    BY <1>3, <2>2, <2>3, PolledEntries DEF PollClosed
<1> QED
  BY <1>1, <1>2, <1>3

LEMMA QuietTakes ==
  ASSUME TypeOK,
         CollectExpired \/ PollIdle \/ EndClosed \/ (\E d \in Devices : ResumeTwice(d)) \/ UNCHANGED vars
  PROVE  Taking
BY SameEntries DEF CollectExpired, PollIdle, EndClosed, ResumeTwice, vars

\* The steps that do more.
LEMMA Steps ==
  ASSUME TypeOK, [Next]_vars
  PROVE  \/ Taking
         \/ RescheduleDisconnectedDevices
         \/ \E d \in Devices : Resume(d) \/ SuspendPoll(d) \/ Expire(d)
         \/ Restart
BY TasksTake, PollTakes, QuietTakes
   DEF Next, PollStep, Rpc, Clock, ResumeExpired, ResumePoll
-----------------------------------------------------------------------------
(* Isolation of suspended devices: SuspendIsolation and BoundedEntries are    *)
(* inductive together with the types.                                        *)

Isolation == SuspendIsolation /\ BoundedEntries

LEMMA IsolationStep == TypeOK /\ Isolation /\ [Next]_vars => Isolation'
<1> SUFFICES ASSUME TypeOK, Isolation, [Next]_vars, NEW p \in Pollables
             PROVE  /\ p[1] \notin overlapped' =>
                         IF Suspended(p[1])' THEN entries'[p] = 0 /\ p[1] \notin waiting'
                         ELSE entries'[p] <= 1
                    /\ entries'[p] <= IF Suspended(p[1])' THEN 1 ELSE 2
  BY DEF Isolation, SuspendIsolation, BoundedEntries
<1> DEFINE Before == /\ p[1] \notin overlapped =>
                          IF Suspended(p[1]) THEN entries[p] = 0 /\ p[1] \notin waiting
                          ELSE entries[p] <= 1
                     /\ entries[p] <= IF Suspended(p[1]) THEN 1 ELSE 2
<1>1. Before
  BY DEF Isolation, SuspendIsolation, BoundedEntries
<1>2. p[1] \in Devices /\ entries[p] \in Nat
  BY PollableDevice DEF TypeOK
<1>3. entries'[p] \in Nat
  BY TypeStep DEF TypeOK
<1>4. CASE Taking
  BY <1>1, <1>2, <1>3, <1>4 DEF Taking, Suspended
<1>5. CASE RescheduleDisconnectedDevices
  <2>1. entries'[p] = IF p[1] \in waiting THEN Readded(entries[p]) ELSE entries[p]
    BY <1>5 DEF RescheduleDisconnectedDevices
  <2> QED
    BY <1>1, <1>2, <1>5, <2>1 DEF RescheduleDisconnectedDevices, Readded, Suspended
<1>6. ASSUME NEW d \in Devices, Resume(d)
      PROVE  /\ p[1] \notin overlapped' =>
                  IF Suspended(p[1])' THEN entries'[p] = 0 /\ p[1] \notin waiting'
                  ELSE entries'[p] <= 1
             /\ entries'[p] <= IF Suspended(p[1])' THEN 1 ELSE 2
  <2>1. entries'[p] = IF p[1] = d THEN entries[p] + 1 ELSE entries[p]
    BY <1>6 DEF Resume
  <2>2. suspended'[p[1]] = IF p[1] = d THEN "no" ELSE suspended[p[1]]
    BY <1>2, <1>6 DEF Resume, TypeOK
  <2>3. waiting' = waiting /\ overlapped' = overlapped
    BY <1>6 DEF Resume
  <2> QED
    BY <1>1, <1>2, <1>6, <2>1, <2>2, <2>3 DEF Resume, Suspended
<1>7. ASSUME NEW d \in Devices, SuspendPoll(d)
      PROVE  /\ p[1] \notin overlapped' =>
                  IF Suspended(p[1])' THEN entries'[p] = 0 /\ p[1] \notin waiting'
                  ELSE entries'[p] <= 1
             /\ entries'[p] <= IF Suspended(p[1])' THEN 1 ELSE 2
  <2>1. entries'[p] = IF p[1] = d /\ ~Suspended(d) /\ entries[p] > 0 THEN entries[p] - 1
                      ELSE entries[p]
    BY <1>7 DEF SuspendPoll
  <2>2. suspended'[p[1]] = IF p[1] = d THEN "armed" ELSE suspended[p[1]]
    BY <1>2, <1>7 DEF SuspendPoll, TypeOK
  <2>3. /\ waiting' = waiting
        /\ overlapped' = IF ~Suspended(d) /\ d \in waiting THEN overlapped \cup {d} ELSE overlapped
    BY <1>7 DEF SuspendPoll
  <2> QED
    BY <1>1, <1>2, <2>1, <2>2, <2>3 DEF Suspended
<1>8. ASSUME NEW d \in Devices, Expire(d)
      PROVE  /\ p[1] \notin overlapped' =>
                  IF Suspended(p[1])' THEN entries'[p] = 0 /\ p[1] \notin waiting'
                  ELSE entries'[p] <= 1
             /\ entries'[p] <= IF Suspended(p[1])' THEN 1 ELSE 2
  <2>1. Suspended(p[1])' = Suspended(p[1])
    BY <1>2, <1>8 DEF Expire, Suspended, TypeOK
  <2>2. UNCHANGED <<entries, waiting, overlapped>>
    BY <1>8 DEF Expire
  <2> QED
    BY <1>1, <2>1, <2>2
<1>9. CASE Restart
  BY <1>2, <1>9 DEF Restart, Suspended
<1> QED
  BY <1>4, <1>5, <1>6, <1>7, <1>8, <1>9, Steps

LEMMA InitIsolation == Init => Isolation
BY PollableDevice DEF Init, Isolation, SuspendIsolation, BoundedEntries, Suspended

\* SuspendPoll takes a device out of the scheduler and nothing but its resumption
\* puts it back, whatever the serial thread does meanwhile.
THEOREM IsolationCorrect == Spec => []SuspendIsolation
<1>1. Init => TypeOK /\ Isolation
  BY InitType, InitIsolation
<1>2. TypeOK /\ Isolation /\ [Next]_vars => TypeOK' /\ Isolation'
  BY TypeStep, IsolationStep
<1>3. Isolation => SuspendIsolation
  BY DEF Isolation
<1> QED
  BY <1>1, <1>2, <1>3, PTL DEF Spec

\* No sequence of suspensions, resumptions and disconnections piles up entries.
THEOREM EntriesBounded == Spec => []BoundedEntries
<1>1. Init => TypeOK /\ Isolation
  BY InitType, InitIsolation
<1>2. TypeOK /\ Isolation /\ [Next]_vars => TypeOK' /\ Isolation'
  BY TypeStep, IsolationStep
<1>3. Isolation => BoundedEntries
  BY DEF Isolation
<1> QED
  BY <1>1, <1>2, <1>3, PTL DEF Spec

-----------------------------------------------------------------------------
(* NoLostEntry is inductive together with the types.                         *)

LEMMA NoLostEntryStep == TypeOK /\ NoLostEntry /\ [Next]_vars => NoLostEntry'
<1> SUFFICES ASSUME TypeOK, NoLostEntry, [Next]_vars, NEW p \in Pollables,
                    ~Suspended(p[1])', RegistersAt(p) \cap queued' # {}
             PROVE  entries'[p] > 0
  BY DEF NoLostEntry, QueueOf
<1>1. ~Suspended(p[1]) /\ RegistersAt(p) \cap queued # {} => entries[p] > 0
  BY DEF NoLostEntry, QueueOf
<1>2. p[1] \in Devices /\ entries[p] \in Nat
  BY PollableDevice DEF TypeOK
<1>3. CASE Taking
  BY <1>1, <1>2, <1>3 DEF Taking, Suspended
<1>4. CASE RescheduleDisconnectedDevices
  <2>1. entries'[p] = IF p[1] \in waiting THEN Readded(entries[p]) ELSE entries[p]
    BY <1>4 DEF RescheduleDisconnectedDevices
  <2>2. p[1] \notin waiting => RegistersAt(p) \cap queued' = RegistersAt(p) \cap queued
    BY <1>4 DEF RescheduleDisconnectedDevices, RescheduleAllRegisters, RegistersAt, RegistersOf
  <2> QED
    BY <1>1, <1>2, <1>4, <2>1, <2>2 DEF RescheduleDisconnectedDevices, Readded, Suspended
<1>5. ASSUME NEW d \in Devices, Resume(d)
      PROVE  entries'[p] > 0
  <2>1. entries'[p] = IF p[1] = d THEN entries[p] + 1 ELSE entries[p]
    BY <1>5 DEF Resume
  <2>2. p[1] # d => /\ RegistersAt(p) \cap queued' = RegistersAt(p) \cap queued
                    /\ suspended'[p[1]] = suspended[p[1]]
    BY <1>2, <1>5 DEF Resume, RescheduleAllRegisters, RegistersAt, RegistersOf, TypeOK
  <2> QED
    BY <1>1, <1>2, <2>1, <2>2 DEF Suspended
<1>6. ASSUME NEW d \in Devices, SuspendPoll(d)
      PROVE  entries'[p] > 0
  <2>1. entries'[p] = IF p[1] = d /\ ~Suspended(d) /\ entries[p] > 0 THEN entries[p] - 1
                      ELSE entries[p]
    BY <1>6 DEF SuspendPoll
  <2>2. suspended'[p[1]] = IF p[1] = d THEN "armed" ELSE suspended[p[1]]
    BY <1>2, <1>6 DEF SuspendPoll, TypeOK
  <2> QED
    BY <1>1, <1>2, <1>6, <2>1, <2>2 DEF SuspendPoll, Suspended
<1>7. ASSUME NEW d \in Devices, Expire(d)
      PROVE  entries'[p] > 0
  <2>1. Suspended(p[1])' = Suspended(p[1])
    BY <1>2, <1>7 DEF Expire, Suspended, TypeOK
  <2> QED
    BY <1>1, <1>7, <2>1 DEF Expire
<1>8. CASE Restart
  BY <1>8 DEF Restart
<1> QED
  BY <1>3, <1>4, <1>5, <1>6, <1>7, <1>8, Steps

\* As long as the poll of a device is not suspended, each of its pollables with
\* registers in the queue has an entry in the scheduler.
THEOREM NoEntryLost == Spec => []NoLostEntry
<1>1. Init => TypeOK /\ NoLostEntry
  <2>1. Init => NoLostEntry
    BY DEF Init, NoLostEntry
  <2> QED
    BY <2>1, InitType
<1>2. TypeOK /\ NoLostEntry /\ [Next]_vars => TypeOK' /\ NoLostEntry'
  BY TypeStep, NoLostEntryStep
<1> QED
  BY <1>1, <1>2, PTL DEF Spec

-----------------------------------------------------------------------------
(* Registers without events.  RegistersStayPolled needs to know that a        *)
(* register that is unavailable is excluded: only then may a Modbus range     *)
(* take it out of the queue unread.                                          *)

PlainInv ==
  \A r \in Plain : /\ r \in queued \/ r \in excluded
                   /\ avail[r] = "UNAVAILABLE" => r \in excluded

\* The view of a device carries over to the state it is stored in.
Carries ==
  \A r \in Plain : /\ r \in excluded => r \in excluded'
                   /\ avail'[r] = "UNAVAILABLE" => r \in excluded' \/ avail[r] = "UNAVAILABLE"

LEMMA StoreCarries ==
  ASSUME NEW d, NEW v, Keeps(ViewOf(d), v), Store(d, v)
  PROVE  Carries /\ excluded' = v.excluded
BY DEF Carries, Keeps, ViewOf, Store

LEMMA TasksCarry == TypeOK /\ (Tasks \/ Events) => Carries /\ queued' = queued
<1> SUFFICES ASSUME TypeOK, Tasks \/ Events
             PROVE  Carries /\ queued' = queued
  OBVIOUS
<1> USE DeviceAssumption DEF DeviceAssumption
<1>1. ASSUME NEW r \in Registers, BeginWrite(r)
      PROVE  Carries /\ queued' = queued
  <2>1. PICK result \in PrepareToAccessResults(DeviceOf[r], ViewOf(DeviceOf[r]), last = DeviceOf[r]) :
          Store(DeviceOf[r], result.view)
    BY <1>1 DEF BeginWrite, Access
  <2>2. Keeps(ViewOf(DeviceOf[r]), result.view)
    BY <2>1, ViewOfType, PrepareToAccessKeeps
  <2> QED
    BY <1>1, <2>1, <2>2, StoreCarries DEF BeginWrite
<1>2. ASSUME EndWrite
      PROVE  Carries /\ queued' = queued
  <2>1. target \in Registers
    BY <1>2 DEF EndWrite, TypeOK, TargetType
  <2> DEFINE d == DeviceOf[target]
             ok == TransferOk(d, ViewOf(d))
  <2>2. ViewOf(d) \in View /\ ok \in View /\ Keeps(ViewOf(d), ok)
    BY <2>1, ViewOfType, TransferOkType, TransferOkKeeps
  <2>3. PICK v \in WriteViews(target, ViewOf(d)) : Store(d, v)
    BY <1>2 DEF EndWrite
  <2>4. CASE v \in SetValuesViews(ok, {target})
    <3>1. Keeps(ok, v)
      BY <2>1, <2>2, <2>4, SetValuesKeeps
    <3>2. Keeps(ViewOf(d), v)
      BY <2>2, <3>1, KeepsTransitive
    <3> QED
      BY <1>2, <2>3, <3>2, StoreCarries DEF EndWrite
  <2>5. CASE v = ok \/ v \in FailedViews(d, ViewOf(d))
    <3>1. Keeps(ViewOf(d), v)
      BY <2>2, <2>5, FailedKeeps
    <3> QED
      BY <1>2, <2>3, <3>1, StoreCarries DEF EndWrite
  <2> QED
    BY <2>4, <2>5 DEF WriteViews
<1>3. ASSUME NEW d \in Devices, BeginSession(d)
      PROVE  Carries /\ queued' = queued
  <2>1. PICK result \in PrepareResults(d, ViewOf(d), FALSE) : Store(d, result.view)
    BY <1>3 DEF BeginSession
  <2>2. Keeps(ViewOf(d), result.view)
    BY <2>1, ViewOfType, PrepareKeeps
  <2> QED
    BY <1>3, <2>1, <2>2, StoreCarries DEF BeginSession
<1>4. ASSUME SessionTransfer
      PROVE  Carries /\ queued' = queued
  <2>1. target \in Devices
    BY <1>4 DEF SessionTransfer, TypeOK, TargetType
  <2>2. PICK v \in {TransferOk(target, ViewOf(target))} \cup FailedViews(target, ViewOf(target)) :
          Store(target, v)
    BY <1>4 DEF SessionTransfer
  <2>3. Keeps(ViewOf(target), v)
    BY <2>1, <2>2, ViewOfType, TransferOkKeeps, FailedKeeps
  <2> QED
    BY <1>4, <2>2, <2>3, StoreCarries DEF SessionTransfer
<1>5. ASSUME NEW r \in EventRegisters, RegisterEvent(r)
      PROVE  Carries /\ queued' = queued
  <2>1. r \in Registers
    BY DEF EventRegisters
  <2>2. PICK v \in SetValuesViews(ViewOf(DeviceOf[r]), {r}) : Store(DeviceOf[r], v)
    BY <1>5 DEF RegisterEvent
  <2>3. Keeps(ViewOf(DeviceOf[r]), v)
    BY <2>1, <2>2, ViewOfType, SetValuesKeeps
  <2> QED
    BY <1>5, <2>2, <2>3, StoreCarries DEF RegisterEvent
<1>6. ASSUME NEW d \in Devices, RebootEvent(d)
      PROVE  Carries /\ queued' = queued
  <2> DEFINE u == SetDisconnected(ViewOf(d))
             v == [u EXCEPT !.events = FALSE]
  <2>1. u \in View /\ Keeps(ViewOf(d), u)
    BY ViewOfType, SetDisconnectedType, SetDisconnectedKeeps
  <2>2. v.excluded = u.excluded /\ v.avail = u.avail
    BY <2>1 DEF View
  <2>3. Keeps(ViewOf(d), v)
    BY <2>1, <2>2, KeepsSame, KeepsTransitive
  <2> QED
    BY <1>6, <2>3, StoreCarries DEF RebootEvent
<1> QED
  BY <1>1, <1>2, <1>3, <1>4, <1>5, <1>6 DEF Tasks, Events, EventRegisters

LEMMA PollCarries ==
  ASSUME TypeOK, PlainInv, NEW p \in Pollables, Poll(p)
  PROVE  PlainInv'
<1>1. p[1] \in Devices
  BY PollableDevice
<1>2. PICK dropped \in SUBSET Droppable(p), regs \in RangesOf(p) \ {{}} :
      \E access \in PrepareToAccessResults(p[1], ViewOf(p[1]), last = p[1]) :
      \E v \in IF access.ok THEN ReadViews(p[1], access.view, regs) ELSE {access.view} :
        /\ Access(p[1], [access EXCEPT !.view = v])
        /\ queued' = (queued \ (dropped \cup regs)) \cup KeptRegisters(v, regs)
        /\ entries' = Rescheduled(p, queued')
  BY DEF Poll
<1>3. PICK access \in PrepareToAccessResults(p[1], ViewOf(p[1]), last = p[1]) :
      \E v \in IF access.ok THEN ReadViews(p[1], access.view, regs) ELSE {access.view} :
        /\ Access(p[1], [access EXCEPT !.view = v])
        /\ queued' = (queued \ (dropped \cup regs)) \cup KeptRegisters(v, regs)
        /\ entries' = Rescheduled(p, queued')
  BY <1>2
<1>4. PICK v \in IF access.ok THEN ReadViews(p[1], access.view, regs) ELSE {access.view} :
        /\ Access(p[1], [access EXCEPT !.view = v])
        /\ queued' = (queued \ (dropped \cup regs)) \cup KeptRegisters(v, regs)
        /\ entries' = Rescheduled(p, queued')
  BY <1>3
<1>5. regs \in SUBSET Registers
  BY DEF RangesOf, QueueOf, RegistersAt, RegistersOf
<1>6. access \in Result /\ access.view \in View
  <2>1. access \in Result
    BY <1>1, ViewOfType, PrepareToAccessType
  <2> QED
    BY <2>1 DEF Result
<1>7. Keeps(ViewOf(p[1]), access.view)
  BY <1>1, ViewOfType, PrepareToAccessKeeps
<1>8. Keeps(access.view, v)
  BY <1>4, <1>5, <1>6, ReadKeeps, KeepsSame
<1>9. Keeps(ViewOf(p[1]), v)
  BY <1>7, <1>8, KeepsTransitive
<1>10. Store(p[1], v)
  <2>1. [access EXCEPT !.view = v].view = v
    BY <1>6 DEF Result
  <2> QED
    BY <1>4, <2>1 DEF Access
<1>11. Carries /\ excluded' = v.excluded
  BY <1>9, <1>10, StoreCarries
<1>12. \A r \in Plain : r \in dropped => r \in excluded
  BY DEF PlainInv, Droppable
<1> QED
  BY <1>4, <1>11, <1>12 DEF PlainInv, Carries, KeptRegisters

LEMMA PollClosedCarries ==
  ASSUME TypeOK, PlainInv, NEW p \in Pollables, PollClosed(p)
  PROVE  PlainInv'
<1> DEFINE before == ViewOf(p[1])
<1>1. before \in View
  BY PollableDevice, ViewOfType
<1>2. PICK regs \in SUBSET QueueOf(p), timedOut \in BOOLEAN :
        /\ Store(p[1], TransferFailed(p[1], before, Cardinality(regs), timedOut))
        /\ queued' = (queued \ regs) \cup KeptRegisters(before, regs)
  BY DEF PollClosed
<1>3. Cardinality(regs) \in Nat
  <2>1. regs \subseteq Registers
    BY DEF QueueOf, RegistersAt, RegistersOf
  <2> QED
    BY <2>1, DeviceAssumption, FS_Subset, FS_CardinalityType DEF DeviceAssumption
<1>4. Keeps(before, TransferFailed(p[1], before, Cardinality(regs), timedOut))
  BY <1>1, <1>3, TransferFailedKeeps
<1>5. Carries
  BY <1>2, <1>4, StoreCarries
<1>6. before.excluded = excluded
  BY DEF ViewOf
<1> QED
  BY <1>2, <1>5, <1>6 DEF PlainInv, Carries, KeptRegisters

LEMMA PlainStep == TypeOK /\ PlainInv /\ [Next]_vars => PlainInv'
<1> SUFFICES ASSUME TypeOK, PlainInv, [Next]_vars
             PROVE  PlainInv'
  OBVIOUS
<1>1. CASE Tasks \/ Events
  BY <1>1, TasksCarry DEF PlainInv, Carries
<1>2. ASSUME NEW devs, RescheduleAllRegisters(devs)
      PROVE  PlainInv'
  BY <1>2 DEF RescheduleAllRegisters, PlainInv, Plain
<1>3. CASE RescheduleDisconnectedDevices
  BY <1>2, <1>3 DEF RescheduleDisconnectedDevices
<1>4. ASSUME NEW d \in Devices, ResumeExpired(d) \/ ResumePoll(d)
      PROVE  PlainInv'
  BY <1>2, <1>4 DEF ResumeExpired, ResumePoll, Resume
<1>5. ASSUME NEW p \in Pollables, Poll(p) \/ PollClosed(p)
      PROVE  PlainInv'
  BY <1>5, PollCarries, PollClosedCarries
<1>6. ASSUME NEW p \in Pollables, PollNothing(p)
      PROVE  PlainInv'
  BY <1>6 DEF PollNothing, deviceVars, Droppable, PlainInv
<1>7. ASSUME NEW d \in Devices, SuspendPoll(d)
      PROVE  PlainInv'
  BY <1>7 DEF SuspendPoll, PlainInv
<1>8. CASE \/ CollectExpired \/ PollIdle \/ EndClosed \/ UNCHANGED vars
           \/ \E d \in Devices : ResumeTwice(d) \/ Expire(d)
  BY <1>8 DEF CollectExpired, PollIdle, EndClosed, ResumeTwice, Expire, vars, deviceVars, PlainInv
<1>9. CASE Restart
  BY <1>9 DEF Restart, PlainInv, Plain
<1> QED
  BY <1>1, <1>3, <1>4, <1>5, <1>6, <1>7, <1>8, <1>9 DEF Next, PollStep, Rpc, Clock

\* A register without events (and without a minimum firmware version to check) is
\* in the queue, or excluded in the way RescheduleAllRegisters looks for.
THEOREM RegistersCovered == Spec => []RegistersStayPolled
<1>1. Init => TypeOK /\ PlainInv
  <2>1. Init => PlainInv
    BY DEF Init, PlainInv, Plain
  <2> QED
    BY <2>1, InitType
<1>2. TypeOK /\ PlainInv /\ [Next]_vars => TypeOK' /\ PlainInv'
  BY TypeStep, PlainStep
<1>3. PlainInv => RegistersStayPolled
  BY DEF PlainInv, Plain, RegistersStayPolled
<1> QED
  BY <1>1, <1>2, <1>3, PTL DEF Spec

-----------------------------------------------------------------------------
(* Connected devices are opened.  Between the two steps of a write task the   *)
(* device has been prepared and nobody else can use the port.                *)

Undisturbed == Devices \ (RpcDevices \cup SetPollDevices \cup PartialSetup)

OpenedInv ==
  /\ \A d \in Undisturbed : conn[d] = "CONNECTED" => d \in opened
  /\ pc = "write" /\ DeviceOf[target] \in Undisturbed => DeviceOf[target] \in opened
  /\ pc = "session" => target \in RpcDevices

LEMMA ViewOfOpened ==
  ASSUME OpenedInv, NEW d \in Undisturbed
  PROVE  OpenedView(ViewOf(d))
BY DEF OpenedInv, OpenedView, ViewOf

\* Storing a view keeps the devices opened; the program counter is checked by the
\* callers.
LEMMA StoreOpened ==
  ASSUME TypeOK, OpenedInv, NEW d \in Devices, NEW v \in View, Store(d, v),
         d \in Undisturbed => OpenedView(v)
  PROVE  /\ \A e \in Undisturbed : conn'[e] = "CONNECTED" => e \in opened'
         /\ v.opened => d \in opened'
<1>1. conn' = [conn EXCEPT ![d] = v.conn] /\ opened' = With(opened, d, v.opened)
  BY DEF Store
<1>2. ASSUME NEW e \in Undisturbed, conn'[e] = "CONNECTED"
      PROVE  e \in opened'
  <2>1. e \in Devices
    BY DEF Undisturbed
  <2>2. CASE e = d
    BY <1>1, <1>2, <2>1, <2>2 DEF TypeOK, OpenedView, With
  <2>3. CASE e # d
    BY <1>1, <1>2, <2>1, <2>3 DEF TypeOK, OpenedInv, With
  <2> QED
    BY <2>2, <2>3
<1> QED
  BY <1>1, <1>2 DEF With

LEMMA OpenedStep == TypeOK /\ OpenedInv /\ [Next]_vars => OpenedInv'
<1> SUFFICES ASSUME TypeOK, OpenedInv, [Next]_vars
             PROVE  OpenedInv'
  OBVIOUS
<1> USE DeviceAssumption DEF DeviceAssumption
<1>1. ASSUME NEW r \in Registers, BeginWrite(r)
      PROVE  OpenedInv'
  <2> DEFINE d == DeviceOf[r]
  <2>1. PICK result \in PrepareToAccessResults(d, ViewOf(d), last = d) :
          /\ Access(d, result)
          /\ pc' = IF result.ok THEN "write" ELSE "tasks"
          /\ target' = IF result.ok THEN r ELSE None
    BY <1>1 DEF BeginWrite
  <2>2. d \in Devices /\ result \in Result /\ result.view \in View
    <3>1. result \in Result
      BY <2>1, ViewOfType, PrepareToAccessType
    <3> QED
      BY <3>1 DEF Result
  <2>3. d \in Undisturbed => OpenedView(result.view) /\ (result.ok => result.view.opened)
    BY <2>1, <2>2, ViewOfType, ViewOfOpened, PrepareToAccessOpened DEF Undisturbed
  <2>4. /\ \A e \in Undisturbed : conn'[e] = "CONNECTED" => e \in opened'
        /\ result.view.opened => d \in opened'
    BY <2>1, <2>2, <2>3, StoreOpened DEF Access
  <2> QED
    BY <2>1, <2>3, <2>4 DEF OpenedInv
<1>2. ASSUME EndWrite
      PROVE  OpenedInv'
  <2> DEFINE d == DeviceOf[target]
             ok == TransferOk(d, ViewOf(d))
  <2>1. target \in Registers /\ d \in Devices
    BY <1>2 DEF EndWrite, TypeOK, TargetType
  <2>2. PICK v \in WriteViews(target, ViewOf(d)) : Store(d, v)
    BY <1>2 DEF EndWrite
  <2>3. ViewOf(d) \in View /\ ok \in View /\ v \in View
    BY <2>1, <2>2, ViewOfType, TransferOkType, WriteViewsType
  <2>4. ASSUME d \in Undisturbed
        PROVE  OpenedView(v)
    <3>1. ViewOf(d).opened
      BY <1>2, <2>4 DEF EndWrite, OpenedInv, ViewOf
    <3>2. ok.opened
      BY <2>3, <3>1, TransferOkOpened
    <3>3. CASE v \in SetValuesViews(ok, {target})
      BY <2>1, <2>3, <3>2, <3>3, SetValuesOpened DEF OpenedView
    <3>4. CASE v = ok \/ v \in FailedViews(d, ViewOf(d))
      BY <2>3, <3>1, <3>2, <3>4, FailedOpened DEF OpenedView
    <3> QED
      BY <2>2, <3>3, <3>4 DEF WriteViews
  <2> QED
    BY <1>2, <2>1, <2>2, <2>3, <2>4, StoreOpened DEF EndWrite, OpenedInv
<1>3. ASSUME NEW d \in Devices, BeginSession(d)
      PROVE  OpenedInv'
  <2>1. PICK result \in PrepareResults(d, ViewOf(d), FALSE) :
          /\ Store(d, result.view)
          /\ pc' = IF result.ok THEN "session" ELSE "tasks"
          /\ target' = IF result.ok THEN d ELSE None
    BY <1>3 DEF BeginSession
  <2>2. result.view \in View
    <3>1. result \in Result
      BY <2>1, ViewOfType, PrepareType
    <3> QED
      BY <3>1 DEF Result
  <2>3. d \in RpcDevices /\ d \notin Undisturbed
    BY <1>3 DEF BeginSession, Undisturbed
  <2>4. \A e \in Undisturbed : conn'[e] = "CONNECTED" => e \in opened'
    BY <2>1, <2>2, <2>3, StoreOpened
  <2> QED
    BY <2>1, <2>3, <2>4 DEF OpenedInv
<1>4. ASSUME SessionTransfer
      PROVE  OpenedInv'
  <2>1. target \in Devices /\ target \notin Undisturbed
    BY <1>4 DEF SessionTransfer, TypeOK, TargetType, OpenedInv, Undisturbed
  <2>2. PICK v \in {TransferOk(target, ViewOf(target))} \cup FailedViews(target, ViewOf(target)) :
          Store(target, v)
    BY <1>4 DEF SessionTransfer
  <2>3. v \in View
    BY <2>1, <2>2, ViewOfType, TransferOkType, FailedViewsType
  <2> QED
    BY <1>4, <2>1, <2>2, <2>3, StoreOpened DEF SessionTransfer, OpenedInv
<1>5. ASSUME NEW r \in Registers, RegisterEvent(r)
      PROVE  OpenedInv'
  <2> DEFINE d == DeviceOf[r]
  <2>1. PICK v \in SetValuesViews(ViewOf(d), {r}) : Store(d, v)
    BY <1>5 DEF RegisterEvent
  <2>2. d \in Devices /\ ViewOf(d) \in View /\ v \in View
    BY <2>1, ViewOfType, SetValuesType
  <2>3. d \in Undisturbed => OpenedView(v)
    BY <2>1, <2>2, ViewOfOpened, SetValuesOpened DEF OpenedView
  <2> QED
    BY <1>5, <2>1, <2>2, <2>3, StoreOpened DEF RegisterEvent, OpenedInv
<1>6. ASSUME NEW d \in Devices, RebootEvent(d)
      PROVE  OpenedInv'
  <2> DEFINE u == SetDisconnected(ViewOf(d))
             v == [u EXCEPT !.events = FALSE]
  <2>1. u \in View /\ u.conn = "DISCONNECTED"
    BY ViewOfType, SetDisconnectedType, SetDisconnectedOpened
  <2>2. v \in View /\ OpenedView(v)
    BY <2>1 DEF View, OpenedView
  <2> QED
    BY <1>6, <2>2, StoreOpened DEF RebootEvent, OpenedInv
<1>7. ASSUME NEW p \in Pollables, Poll(p)
      PROVE  OpenedInv'
  <2> DEFINE d == p[1]
  <2>1. d \in Devices
    BY PollableDevice
  <2>2. PICK dropped \in SUBSET Droppable(p), regs \in RangesOf(p) \ {{}} :
        \E access \in PrepareToAccessResults(p[1], ViewOf(p[1]), last = p[1]) :
        \E v \in IF access.ok THEN ReadViews(p[1], access.view, regs) ELSE {access.view} :
          /\ Access(p[1], [access EXCEPT !.view = v])
          /\ queued' = (queued \ (dropped \cup regs)) \cup KeptRegisters(v, regs)
          /\ entries' = Rescheduled(p, queued')
    BY <1>7 DEF Poll
  <2>3. PICK access \in PrepareToAccessResults(p[1], ViewOf(p[1]), last = p[1]) :
        \E v \in IF access.ok THEN ReadViews(p[1], access.view, regs) ELSE {access.view} :
          Access(p[1], [access EXCEPT !.view = v])
    BY <2>2
  <2>4. PICK v \in IF access.ok THEN ReadViews(p[1], access.view, regs) ELSE {access.view} :
          Access(p[1], [access EXCEPT !.view = v])
    BY <2>3
  <2>5. regs \in SUBSET Registers
    BY DEF RangesOf, QueueOf, RegistersAt, RegistersOf
  <2>6. access \in Result /\ access.view \in View
    <3>1. access \in Result
      BY <2>1, <2>3, ViewOfType, PrepareToAccessType
    <3> QED
      BY <3>1 DEF Result
  <2>7. v \in View
    BY <2>4, <2>5, <2>6, ReadType
  <2>8. Store(d, v)
    <3>1. [access EXCEPT !.view = v].view = v
      BY <2>6 DEF Result
    <3> QED
      BY <2>4, <3>1 DEF Access
  <2>9. ASSUME d \in Undisturbed
        PROVE  OpenedView(v)
    <3>1. OpenedView(access.view) /\ (access.ok => access.view.opened)
      BY <2>1, <2>3, <2>9, ViewOfType, ViewOfOpened, PrepareToAccessOpened DEF Undisturbed
    <3>2. CASE access.ok
      BY <2>4, <2>5, <2>6, <3>1, <3>2, ReadOpened
    <3>3. CASE ~access.ok
      BY <2>4, <3>1, <3>3
    <3> QED
      BY <3>2, <3>3
  <2>10. \A e \in Undisturbed : conn'[e] = "CONNECTED" => e \in opened'
    BY <2>1, <2>7, <2>8, <2>9, StoreOpened
  <2> QED
    BY <1>7, <2>10 DEF Poll, OpenedInv
<1>8. ASSUME NEW p \in Pollables, PollClosed(p)
      PROVE  OpenedInv'
  <2> DEFINE d == p[1]
  <2>1. d \in Devices /\ ViewOf(d) \in View
    BY PollableDevice, ViewOfType
  <2>2. PICK regs \in SUBSET QueueOf(p), timedOut \in BOOLEAN :
          /\ Store(p[1], TransferFailed(p[1], ViewOf(p[1]), Cardinality(regs), timedOut))
          /\ pc' = IF regs = {} THEN "tasks" ELSE "closed"
    BY <1>8 DEF PollClosed
  <2> DEFINE v == TransferFailed(d, ViewOf(d), Cardinality(regs), timedOut)
  <2>3. Cardinality(regs) \in Nat
    <3>1. regs \subseteq Registers
      BY DEF QueueOf, RegistersAt, RegistersOf
    <3> QED
      BY <3>1, FS_Subset, FS_CardinalityType
  <2>4. v \in View /\ (d \in Undisturbed => OpenedView(v))
    BY <2>1, <2>3, ViewOfOpened, TransferFailedType, TransferFailedOpened
  <2>5. \A e \in Undisturbed : conn'[e] = "CONNECTED" => e \in opened'
    BY <2>1, <2>2, <2>4, StoreOpened
  <2> QED
    BY <2>2, <2>5 DEF OpenedInv
<1>9. ASSUME NEW d \in Devices, SuspendPoll(d)
      PROVE  OpenedInv'
  <2>1. d \in SetPollDevices /\ d \notin Undisturbed
    BY <1>9 DEF SuspendPoll, Undisturbed
  <2>2. \A e \in Devices : e # d => conn'[e] = conn[e] /\ (e \in opened' <=> e \in opened)
    BY <1>9 DEF SuspendPoll, TypeOK
  <2>3. UNCHANGED <<pc, target>>
    BY <1>9 DEF SuspendPoll
  <2> QED
    BY <2>1, <2>2, <2>3 DEF OpenedInv, Undisturbed
<1>10. CASE \/ RescheduleDisconnectedDevices \/ CollectExpired \/ PollIdle \/ EndClosed
            \/ \E p \in Pollables : PollNothing(p)
            \/ \E d \in Devices : ResumeExpired(d) \/ ResumePoll(d) \/ ResumeTwice(d) \/ Expire(d)
  <2>1. UNCHANGED <<conn, opened, target>>
    BY <1>10 DEF RescheduleDisconnectedDevices, CollectExpired, PollIdle, EndClosed, PollNothing,
                 ResumeExpired, ResumePoll, Resume, ResumeTwice, Expire, deviceVars
  <2>2. pc' = pc \/ pc' \notin {"write", "session"}
    BY <1>10 DEF RescheduleDisconnectedDevices, CollectExpired, PollIdle, EndClosed, PollNothing,
                 ResumeExpired, ResumePoll, Resume, ResumeTwice, Expire
  <2> QED
    BY <2>1, <2>2 DEF OpenedInv
<1>11. CASE Restart
  BY <1>11 DEF Restart, OpenedInv, Undisturbed
<1>12. CASE UNCHANGED vars
  BY <1>12 DEF vars, deviceVars, OpenedInv
<1> QED
  BY <1>1, <1>2, <1>3, <1>4, <1>5, <1>6, <1>7, <1>8, <1>9, <1>10, <1>11, <1>12
     DEF Next, Tasks, Events, EventRegisters, PollStep, Rpc, Clock

\* A device that no RPC disturbs and that has no "partial" setup registers counts as
\* connected only when Prepare with the setup section and the call of EnableEvents
\* have both returned without an error since it was last lost.
THEOREM ConnectedPrepared == Spec => []ConnectedIsPrepared
<1>1. Init => TypeOK /\ OpenedInv
  <2>1. Init => OpenedInv
    BY DEF Init, OpenedInv, Undisturbed
  <2> QED
    BY <2>1, InitType
<1>2. TypeOK /\ OpenedInv /\ [Next]_vars => TypeOK' /\ OpenedInv'
  BY TypeStep, OpenedStep
<1>3. OpenedInv => ConnectedIsPrepared
  BY DEF OpenedInv, Undisturbed, ConnectedIsPrepared
<1> QED
  BY <1>1, <1>2, <1>3, PTL DEF Spec
=============================================================================
