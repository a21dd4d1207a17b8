------------------------- MODULE SerialPortProofs -------------------------
(***************************************************************************)
(* Proofs about a serial port, from its two models. PollSchedule, whatever *)
(* the periods, costs and durations: its types, and that neither priority   *)
(* starves the other. PortBus, for any registers, counts and buses of the   *)
(* drivers of DeviceDrivers: its types, a meter is asked with its own       *)
(* settings, an answer that names its request is not taken for that to      *)
(* another one, and drivers catch up after an answer they have missed.      *)
(***************************************************************************)
EXTENDS PortBus, PollSchedule, SequenceTheorems, WellFoundedInduction, TLAPS

-----------------------------------------------------------------------------
(* The order of the deadlines.                                             *)

\* A set of naturals has a least element.
LEMMA LeastNatural ==
  ASSUME NEW T, T \subseteq Nat, T # {}
  PROVE  \E x \in T : \A y \in T : x <= y
<1> DEFINE R == OpToRel(<, Nat)
<1>1. IsWellFoundedOn(R, Nat)
  BY NatLessThanWellFounded
<1>2. \A x \in Nat, y \in Nat : y < x => <<y, x>> \in R
  BY DEF OpToRel
<1> HIDE DEF R
<1>3. PICK x \in T : \A y \in T : ~ (<<y, x>> \in R)
  BY <1>1, WFMin
<1>4. ASSUME NEW y \in T PROVE x <= y
  <2>1. ~ (y < x)
    BY <1>2, <1>3
  <2> QED
    BY <2>1
<1> QED
  BY <1>4

\* A set of deadlines has an earliest one: the top of a queue exists.
LEMMA LeastDeadline ==
  ASSUME NEW D, D \subseteq Deadlines, D # {}
  PROVE  \E t \in D : \A u \in D : t <= u
<1> USE ScheduleAssumption DEF ScheduleAssumption
<1> DEFINE T == {t + Horizon : t \in D}
<1>1. \A t \in D : t \in Int /\ t + Horizon \in Nat
  BY DEF Deadlines
<1>2. T \subseteq Nat /\ T # {}
  BY <1>1
<1>3. PICK x \in T : \A y \in T : x <= y
  <2> HIDE DEF T
  <2> QED
    BY <1>2, LeastNatural
<1>4. PICK t \in D : x = t + Horizon
  BY <1>3
<1>5. ASSUME NEW u \in D PROVE t <= u
  <2>1. x <= u + Horizon
    BY <1>3
  <2>2. t \in Int /\ u \in Int
    BY <1>1
  <2> HIDE DEF T
  <2> QED
    BY <1>4, <2>1, <2>2
<1> QED
  BY <1>5

\* A set of deadlines that are not Never is a set of deadlines, and so is what is
\* earlier by some time.
LEMMA DeadlineFacts ==
  /\ Deadlines \subseteq Int
  /\ 0 \in Deadlines
  /\ Never \in Deadlines
  /\ \A n \in Nat : n < Never => n \in Deadlines
BY ScheduleAssumption DEF ScheduleAssumption, Deadlines

LEMMA EarlierType ==
  ASSUME NEW t \in Deadlines, NEW n \in Nat
  PROVE  Earlier(t, n) \in Deadlines
BY ScheduleAssumption DEF ScheduleAssumption, Deadlines, Earlier, Upper

LEMMA EarliestType ==
  ASSUME due \in [Pollables -> Deadlines], NEW S, S \subseteq Pollables
  PROVE  Earliest(S) \in Deadlines
<1>1. CASE S = {}
  BY <1>1, DeadlineFacts DEF Earliest
<1>2. CASE S # {}
  <2> DEFINE D == {due[p] : p \in S}
  <2>1. D \subseteq Deadlines /\ D # {}
    BY <1>2
  <2>2. \E t \in D : \A u \in D : t <= u
    <3> HIDE DEF D
    <3> QED
      BY <2>1, LeastDeadline
  <2>3. \E t \in D : \A p \in S : t <= due[p]
    BY <2>2
  <2>4. Earliest(S) \in D
    BY <1>2, <2>3 DEF Earliest
  <2> QED
    BY <2>1, <2>4
<1> QED
  BY <1>1, <1>2

LEMMA NextPollType ==
  ASSUME NEW d \in [Pollables -> Deadlines], NEW n \in Nat
  PROVE  NextPoll(d, n) \in Deadlines
<1>1. CASE \A p \in Pollables : d[p] = Never
  <2>1. EmptyPeriod \in Deadlines
    BY ScheduleAssumption, DeadlineFacts DEF ScheduleAssumption
  <2> QED
    BY <1>1, <2>1, EarlierType DEF NextPoll
<1>2. CASE ~ \A p \in Pollables : d[p] = Never
  <2> DEFINE D == {d[p] : p \in Pollables}
  <2>1. D \subseteq Deadlines /\ D # {}
    BY <1>2
  <2>2. \E t \in D : \A u \in D : t <= u
    <3> HIDE DEF D
    <3> QED
      BY <2>1, LeastDeadline
  <2>3. \E t \in D : \A p \in Pollables : t <= d[p]
    BY <2>2
  <2>4. NextPoll(d, n) \in D
    BY <1>2, <2>3 DEF NextPoll
  <2> QED
    BY <2>1, <2>4
<1> QED
  BY <1>1, <1>2

-----------------------------------------------------------------------------
(* The balance of a scheduler, and the limits it gives.                    *)

LEMMA TotalTimeBounded ==
  ASSUME NEW lag \in Nat, NEW time \in -2 * lag..2 * lag, NEW spent \in Nat
  PROVE  /\ IncrementTotalTime(time, lag, spent) \in -2 * lag..2 * lag
         /\ DecrementTotalTime(time, lag, spent) \in -2 * lag..2 * lag
BY DEF IncrementTotalTime, DecrementTotalTime, Lower, Upper

LEMMA SchedulerTypes ==
  ASSUME ScheduleTypeOK
  PROVE  /\ HighDue \in Deadlines /\ LowDue \in Deadlines
         /\ WaitingTime \in Nat
         /\ MaxPollingTime \in Deadlines
         /\ Lower(HighDue, MaxPollingTime) \in Deadlines
<1> USE ScheduleAssumption DEF ScheduleAssumption, ScheduleTypeOK
<1>1. HighDue \in Deadlines /\ LowDue \in Deadlines
  BY EarliestType DEF HighDue, LowDue, Pollables
<1>2. WaitingTime \in Nat
  BY DEF WaitingTime, Upper, Lower, Deadlines
<1>3. LowPriorityPollLimit(balance, Threshold, eventsDue) \in Nat
  BY DEF LowPriorityPollLimit, Upper, Deadlines
<1>4. MaxPollingTime \in Nat /\ MaxPollingTime < Never
  BY <1>3 DEF MaxPollingTime, Lower
<1>5. MaxPollingTime \in Deadlines
  BY <1>4, DeadlineFacts
<1>6. Lower(HighDue, MaxPollingTime) \in Deadlines
  BY <1>1, <1>5 DEF Lower
<1> QED
  BY <1>1, <1>2, <1>5, <1>6

LEMMA AgesType ==
  ASSUME ScheduleTypeOK, NEW n \in Nat, Ages(n)
  PROVE  eventsAge' \in 0..EventsHorizon
BY ScheduleAssumption DEF ScheduleAssumption, ScheduleTypeOK, Ages, Lower

LEMMA AddEventsType ==
  ASSUME ScheduleTypeOK, NEW n \in Nat, AddEvents(n)
  PROVE  eventsDue' \in Deadlines
<1>1. ReadEventsPeriod \in Deadlines
  BY ScheduleAssumption, DeadlineFacts DEF ScheduleAssumption
<1> QED
  BY <1>1, EarlierType DEF ScheduleTypeOK, AddEvents

-----------------------------------------------------------------------------
(* The type invariant.                                                     *)

LEMMA WaitType ==
  ASSUME ScheduleTypeOK, NEW task \in 0..MaxTask, NEW rounding \in {0, 1}, NEW enabled \in BOOLEAN,
         Wait(task, rounding, enabled)
  PROVE  ScheduleTypeOK'
<1> USE ScheduleAssumption DEF ScheduleAssumption
<1> DEFINE idle == WaitingTime + task
<1>1. idle \in Nat
  BY SchedulerTypes
<1> HIDE DEF idle
<1>2. due' = [p \in Pollables |-> Earlier(due[p], idle)]
  BY DEF Wait, idle
<1>3. due' \in [Pollables -> Deadlines]
  BY <1>1, <1>2, EarlierType DEF ScheduleTypeOK
<1>4. pollDue' \in Deadlines /\ eventsDue' \in Deadlines
  BY <1>1, EarlierType DEF Wait, ScheduleTypeOK, idle
<1>5. balance' \in -2 * Threshold..2 * Threshold
  <2>1. Upper(idle + rounding, 1) \in Nat
    BY <1>1 DEF Upper
  <2> QED
    BY <2>1, TotalTimeBounded DEF Wait, ScheduleTypeOK, idle
<1>6. eventsAge' \in 0..EventsHorizon
  BY <1>1, AgesType DEF Wait, idle
<1>7. events' \in BOOLEAN
  BY DEF Wait, ScheduleTypeOK
<1> QED
  BY <1>3, <1>4, <1>5, <1>6, <1>7 DEF Wait, ScheduleTypeOK

LEMMA ReadEventsType ==
  ASSUME ScheduleTypeOK, NEW spent \in 1..MaxEventsSpent, NEW enabled \in BOOLEAN,
         ReadEvents(spent, enabled)
  PROVE  ScheduleTypeOK'
<1> USE ScheduleAssumption DEF ScheduleAssumption
<1>1. spent \in Nat
  OBVIOUS
<1>2. due' \in [Pollables -> Deadlines]
  BY <1>1, EarlierType DEF ReadEvents, ScheduleTypeOK
<1>3. ReadEventsPeriod \in Deadlines
  BY DeadlineFacts
<1>4. pollDue' \in Deadlines /\ eventsDue' \in Deadlines
  BY <1>1, <1>3, EarlierType DEF ReadEvents, ScheduleTypeOK
<1>5. balance' \in -2 * Threshold..2 * Threshold
  BY <1>1, TotalTimeBounded DEF ReadEvents, ScheduleTypeOK
<1> QED
  BY <1>2, <1>4, <1>5 DEF ReadEvents, ScheduleTypeOK

\* What both polls do to the state.
LEMMA ReadType ==
  ASSUME ScheduleTypeOK, NEW p \in Pollables, NEW spent \in MinSpent..MaxSpent, NEW enabled \in BOOLEAN,
         Read(p, spent), PollChanges(spent, enabled)
  PROVE  /\ due' \in [Pollables -> Deadlines]
         /\ balance' \in -2 * Threshold..2 * Threshold
         /\ pollDue' \in Deadlines
         /\ eventsDue' \in Deadlines
         /\ events' \in BOOLEAN
         /\ tooSmall' \in BOOLEAN
         /\ phase' \in {"wait", "cycle"}
         /\ emptied' \subseteq Pollables
         /\ eventsAge' \in 0..EventsHorizon
<1> USE ScheduleAssumption DEF ScheduleAssumption
<1>1. spent \in Nat
  OBVIOUS
<1>2. \A q \in Pollables : Period[q] \in Deadlines
  BY DeadlineFacts
<1>3. due' \in [Pollables -> Deadlines]
  BY <1>1, <1>2, EarlierType DEF Read, ScheduleTypeOK
<1>4. pollDue' \in Deadlines
  BY <1>1, <1>3, NextPollType DEF Read
<1>5. balance' \in -2 * Threshold..2 * Threshold
  BY <1>1, TotalTimeBounded DEF Read, ScheduleTypeOK
<1>6. eventsDue' \in Deadlines /\ eventsAge' \in 0..EventsHorizon
  BY <1>1, AddEventsType, AgesType DEF PollChanges
<1>7. emptied' \subseteq Pollables
  BY DEF Read, ScheduleTypeOK
<1> QED
  BY <1>3, <1>4, <1>5, <1>6, <1>7 DEF Read, PollChanges

LEMMA PollType ==
  ASSUME ScheduleTypeOK, NEW p \in Pollables, NEW spent \in MinSpent..MaxSpent, NEW enabled \in BOOLEAN,
         PollHigh(p, spent, enabled) \/ PollLow(p, spent, enabled)
  PROVE  ScheduleTypeOK'
<1> USE ScheduleAssumption DEF ScheduleAssumption
<1>1. Read(p, spent) /\ PollChanges(spent, enabled)
  BY DEF PollHigh, PollLow
<1>2. total' \in -2 * Lag..2 * Lag
  <2>1. spent \in Nat /\ Lag \in Nat /\ total \in -2 * Lag..2 * Lag
    BY DEF ScheduleTypeOK
  <2>2. \/ total' = IncrementTotalTime(total, Lag, spent)
        \/ total' = DecrementTotalTime(total, Lag, spent)
    BY DEF PollHigh, PollLow
  <2> QED
    BY <2>1, <2>2, TotalTimeBounded
<1>3. lowSkipped' \in Nat /\ highSkipped' \in Nat
  BY DEF PollHigh, PollLow, ScheduleTypeOK
<1> QED
  BY <1>1, <1>2, <1>3, ReadType DEF ScheduleTypeOK

LEMMA PollTooLongType ==
  ASSUME ScheduleTypeOK, NEW p \in Pollables, PollTooLong(p)
  PROVE  ScheduleTypeOK'
<1>1. pollDue' \in Deadlines
  BY SchedulerTypes DEF PollTooLong
<1>2. eventsDue' \in Deadlines
  BY AddEventsType DEF PollTooLong
<1> QED
  BY <1>1, <1>2 DEF PollTooLong, ScheduleTypeOK

LEMMA PollNothingType ==
  ASSUME ScheduleTypeOK, NEW rounding \in {0, 1}, PollNothing(rounding)
  PROVE  ScheduleTypeOK'
<1> USE ScheduleAssumption DEF ScheduleAssumption
<1>1. pollDue' \in Deadlines
  BY NextPollType DEF PollNothing, ScheduleTypeOK
<1>2. eventsDue' \in Deadlines
  BY AddEventsType DEF PollNothing
<1>3. balance' \in -2 * Threshold..2 * Threshold
  BY TotalTimeBounded DEF PollNothing, ScheduleTypeOK
<1> QED
  BY <1>1, <1>2, <1>3 DEF PollNothing, ScheduleTypeOK

\* Suspending and resuming polls only moves an entry.
LEMMA SuspensionType ==
  ASSUME ScheduleTypeOK, NEW p \in Pollables, SuspendPoll(p) \/ ResumePoll(p)
  PROVE  ScheduleTypeOK'
BY DeadlineFacts DEF ScheduleTypeOK, SuspendPoll, ResumePoll

\* Every variable of the scheduler and of the balancer keeps its type: the balances
\* stay within twice their limits and the deadlines between -Horizon and Never.
THEOREM ScheduleTypeCorrect == ScheduleSpec => []ScheduleTypeOK
<1>1. ScheduleInit => ScheduleTypeOK
  <2> SUFFICES ASSUME ScheduleInit PROVE ScheduleTypeOK
    OBVIOUS
  <2>1. total \in -2 * Lag..2 * Lag /\ balance \in -2 * Threshold..2 * Threshold
    BY ScheduleAssumption DEF ScheduleAssumption, ScheduleInit
  <2>2. lowSkipped \in Nat /\ highSkipped \in Nat /\ eventsAge \in 0..EventsHorizon
    BY ScheduleAssumption DEF ScheduleAssumption, ScheduleInit
  <2>3. due \in [Pollables -> Deadlines]
    BY DeadlineFacts DEF ScheduleInit
  <2> QED
    BY <2>1, <2>2, <2>3, DeadlineFacts DEF ScheduleInit, ScheduleTypeOK
<1>2. ScheduleTypeOK /\ [ScheduleNext]_scheduleVars => ScheduleTypeOK'
  <2> SUFFICES ASSUME ScheduleTypeOK, [ScheduleNext]_scheduleVars PROVE ScheduleTypeOK'
    OBVIOUS
  <2>1. CASE \E task \in 0..MaxTask, rounding \in {0, 1}, enabled \in BOOLEAN :
               Wait(task, rounding, enabled)
    BY <2>1, WaitType
  <2>2. CASE NotReady
    BY <2>2 DEF NotReady, ScheduleTypeOK
  <2>3. CASE DropEvents
    BY <2>3, DeadlineFacts DEF DropEvents, ScheduleTypeOK
  <2>4. CASE \E spent \in 1..MaxEventsSpent, enabled \in BOOLEAN : ReadEvents(spent, enabled)
    BY <2>4, ReadEventsType
  <2>5. CASE \E p \in Pollables, spent \in MinSpent..MaxSpent, enabled \in BOOLEAN :
               PollHigh(p, spent, enabled) \/ PollLow(p, spent, enabled)
    BY <2>5, PollType
  <2>6. CASE \E p \in Pollables : PollTooLong(p)
    BY <2>6, PollTooLongType
  <2>7. CASE \E rounding \in {0, 1} : PollNothing(rounding)
    BY <2>7, PollNothingType
  <2>8. CASE \E p \in Pollables : SuspendPoll(p) \/ ResumePoll(p)
    BY <2>8, SuspensionType
  <2>9. CASE UNCHANGED scheduleVars
    BY <2>9 DEF scheduleVars, ScheduleTypeOK
  <2> QED
    BY <2>1, <2>2, <2>3, <2>4, <2>5, <2>6, <2>7, <2>8, <2>9 DEF ScheduleNext
<1> QED
  BY <1>1, <1>2, PTL DEF ScheduleSpec

-----------------------------------------------------------------------------
(* Neither priority starves the other.                                     *)

\* As long as low priority is not forced, the time it was passed over for is in the
\* balance, which started at -2 * Lag or later; a forced low priority poll that is
\* due is the next.
LowShare == total < Lag => lowSkipped <= total + 2 * Lag

\* As long as low priority is forced, the time that high priority was passed over for
\* has left the balance.
HighShare == Lag <= total => highSkipped <= 2 * Lag - total

ShareInv == LowNotStarved /\ HighNotStarved /\ LowShare /\ HighShare

Shares == <<total, lowSkipped, highSkipped>>

LEMMA ShareBounds ==
  ASSUME NEW t \in -2 * Lag..2 * Lag
  PROVE  /\ 0 <= Lag + MaxSpent /\ 0 <= 3 * Lag + MaxSpent
         /\ 0 <= t + 2 * Lag /\ 0 <= 2 * Lag - t
<1>1. Lag \in Nat /\ MaxSpent \in Nat
  BY ScheduleAssumption DEF ScheduleAssumption
<1> QED
  BY <1>1

LEMMA PollHighShares ==
  ASSUME ScheduleTypeOK, ShareInv, NEW p \in Pollables, NEW spent \in MinSpent..MaxSpent,
         NEW enabled \in BOOLEAN, PollHigh(p, spent, enabled)
  PROVE  ShareInv'
<1> USE ScheduleAssumption DEF ScheduleAssumption, ScheduleTypeOK
<1>1. spent \in Nat /\ spent <= MaxSpent
  OBVIOUS
<1>2. total' = IncrementTotalTime(total, Lag, spent)
  BY DEF PollHigh
<1>3. total' \in -2 * Lag..2 * Lag
  BY <1>1, <1>2, TotalTimeBounded
<1>bounds. 0 <= 3 * Lag + MaxSpent /\ 0 <= total' + 2 * Lag
  BY <1>3, ShareBounds
<1>4. HighNotStarved' /\ HighShare'
  BY <1>3 DEF PollHigh, HighNotStarved, HighShare
<1>5. CASE LowDue <= 0
  <2>1. ~ (LowDue > 0)
    BY <1>5, SchedulerTypes DEF Deadlines
  <2>2. total < Lag
    BY <2>1 DEF PollHigh, HighSelected, SelectsHigh, ShouldSelectLowPriority
  <2>3. lowSkipped' = lowSkipped + spent
    BY <1>5 DEF PollHigh
  <2>4. LowNotStarved' /\ LowShare'
    <3>1. lowSkipped <= total + 2 * Lag
      BY <2>2 DEF ShareInv, LowShare
    <3>2. lowSkipped \in Nat /\ total \in Int /\ Lag \in Nat /\ MaxSpent \in Nat
      OBVIOUS
    <3>3. lowSkipped' <= 3 * Lag + MaxSpent
      BY <1>1, <2>2, <2>3, <3>1, <3>2
    <3>4. total' < Lag => lowSkipped' <= total' + 2 * Lag
      BY <1>1, <1>2, <2>3, <3>1, <3>2 DEF IncrementTotalTime, Lower
    <3> QED
      BY <3>3, <3>4 DEF LowNotStarved, LowShare
  <2> QED
    BY <1>4, <2>4 DEF ShareInv
<1>6. CASE ~ (LowDue <= 0)
  <2>1. lowSkipped' = 0
    BY <1>6 DEF PollHigh
  <2>2. LowNotStarved' /\ LowShare'
    BY <1>bounds, <2>1 DEF LowShare, LowNotStarved
  <2> QED
    BY <1>4, <2>2 DEF ShareInv
<1> QED
  BY <1>5, <1>6

LEMMA PollLowShares ==
  ASSUME ScheduleTypeOK, ShareInv, NEW p \in Pollables, NEW spent \in MinSpent..MaxSpent,
         NEW enabled \in BOOLEAN, PollLow(p, spent, enabled)
  PROVE  ShareInv'
<1> USE ScheduleAssumption DEF ScheduleAssumption, ScheduleTypeOK
<1>1. spent \in Nat /\ spent <= MaxSpent
  OBVIOUS
<1>2. total' = DecrementTotalTime(total, Lag, spent)
  BY DEF PollLow
<1>3. total' \in -2 * Lag..2 * Lag
  BY <1>1, <1>2, TotalTimeBounded
<1>bounds. 0 <= Lag + MaxSpent /\ 0 <= 2 * Lag - total'
  BY <1>3, ShareBounds
<1>4. LowNotStarved' /\ LowShare'
  BY <1>3 DEF PollLow, LowNotStarved, LowShare
<1>5. CASE HighDue <= 0
  <2>1. HighDue # Never
    BY <1>5
  <2>2. Lag <= total
    BY <1>5, <2>1 DEF PollLow, LowSelected, SelectsLow, SelectsHigh, ShouldSelectLowPriority
  <2>3. highSkipped' = highSkipped + spent
    BY <1>5 DEF PollLow
  <2>4. HighNotStarved' /\ HighShare'
    <3>1. highSkipped <= 2 * Lag - total
      BY <2>2 DEF ShareInv, HighShare
    <3>2. highSkipped \in Nat /\ total \in Int /\ Lag \in Nat \ {0} /\ MaxSpent \in Nat
      OBVIOUS
    <3>3. highSkipped' <= Lag + MaxSpent
      BY <1>1, <2>2, <2>3, <3>1, <3>2
    <3>4. Lag <= total' => highSkipped' <= 2 * Lag - total'
      BY <1>1, <1>2, <2>3, <3>1, <3>2 DEF DecrementTotalTime, Upper
    <3> QED
      BY <3>3, <3>4 DEF HighNotStarved, HighShare
  <2> QED
    BY <1>4, <2>4 DEF ShareInv
<1>6. CASE ~ (HighDue <= 0)
  <2>1. highSkipped' = 0
    BY <1>6 DEF PollLow
  <2>2. HighNotStarved' /\ HighShare'
    BY <1>bounds, <2>1 DEF HighShare, HighNotStarved
  <2> QED
    BY <1>4, <2>2 DEF ShareInv
<1> QED
  BY <1>5, <1>6

\* The invariant is inductive together with the types; only polls change the shares.
LEMMA ShareInvariant == ScheduleSpec => []ShareInv
<1>1. ScheduleInit => ShareInv
  BY ScheduleAssumption
  DEF ScheduleAssumption, ScheduleInit, ShareInv, LowNotStarved, HighNotStarved, LowShare, HighShare
<1>2. ScheduleTypeOK /\ ShareInv /\ [ScheduleNext]_scheduleVars => ShareInv'
  <2> SUFFICES ASSUME ScheduleTypeOK, ShareInv, [ScheduleNext]_scheduleVars PROVE ShareInv'
    OBVIOUS
  <2>1. CASE \E p \in Pollables, spent \in MinSpent..MaxSpent, enabled \in BOOLEAN :
               PollHigh(p, spent, enabled) \/ PollLow(p, spent, enabled)
    BY <2>1, PollHighShares, PollLowShares
  <2>2. CASE ~ \E p \in Pollables, spent \in MinSpent..MaxSpent, enabled \in BOOLEAN :
                 PollHigh(p, spent, enabled) \/ PollLow(p, spent, enabled)
    <3>1. UNCHANGED Shares
      BY <2>2 DEF Shares, ScheduleNext, scheduleVars, Wait, NotReady, ReadEvents, DropEvents, PollTooLong,
                  PollNothing, SuspendPoll, ResumePoll
    <3> QED
      BY <3>1 DEF Shares, ShareInv, LowNotStarved, HighNotStarved, LowShare, HighShare
  <2> QED
    BY <2>1, <2>2
<1> QED
  BY <1>1, <1>2, ScheduleTypeCorrect, PTL DEF ScheduleSpec

\* poll_plan.h: a register without a read period that is due waits for at most
\* 3 * MAX_LOW_PRIORITY_LAG of high priority polls, plus one read.
THEOREM LowPriorityServed == ScheduleSpec => []LowNotStarved
<1>1. ShareInv => LowNotStarved
  BY DEF ShareInv
<1> QED
  BY <1>1, ShareInvariant, PTL

\* poll_plan.h: a register with a read period that is due waits for at most
\* MAX_LOW_PRIORITY_LAG of low priority polls, plus one read.
THEOREM HighPriorityServed == ScheduleSpec => []HighNotStarved
<1>1. ShareInv => HighNotStarved
  BY DEF ShareInv
<1> QED
  BY <1>1, ShareInvariant, PTL

-----------------------------------------------------------------------------
(* The bus: facts about numbers and sequences. *)

LEMMA Bounds ==
  /\ MaxUnread \in Nat /\ MaxFailCycles \in Nat /\ Ids \in Nat /\ Ids > 1
  /\ 0 \in 0..Ids - 1 /\ 0 \in 0..MaxFailCycles
BY CountsAssumption DEF CountsAssumption

USE Bounds

\* A number that follows another one is a number, and not the same.
LEMMA NextNumber ==
  ASSUME NEW n \in 0..Ids - 1
  PROVE  (n + 1) % Ids \in 0..Ids - 1 /\ (n + 1) % Ids # n
<1>1. CASE n + 1 < Ids
  <2>1. (n + 1) % Ids = n + 1
    BY <1>1
  <2> QED
    BY <1>1, <2>1
<1>2. CASE n + 1 = Ids
  <2>1. (n + 1) % Ids = 0
    BY <1>2
  <2> QED
    BY <1>2, <2>1
<1> QED
  BY <1>1, <1>2

Elements(s) == {s[i] : i \in 1..Len(s)}

LEMMA EmptyElements == ASSUME NEW S PROVE <<>> \in Seq(S) /\ Len(<<>>) = 0 /\ Elements(<<>>) = {}
BY EmptySeq DEF Elements

LEMMA TailElements ==
  ASSUME NEW S, NEW s \in Seq(S), s # <<>>
  PROVE  /\ Head(s) \in S /\ Head(s) = s[1] /\ Head(s) \in Elements(s)
         /\ Tail(s) \in Seq(S) /\ Len(s) \in Nat \ {0} /\ Len(Tail(s)) = Len(s) - 1
         /\ \A i \in 1..Len(Tail(s)) : Tail(s)[i] = s[i + 1]
         /\ Elements(Tail(s)) \subseteq Elements(s)
<1>1. Len(s) \in Nat \ {0}
  BY EmptySeq, LenProperties
<1>2. /\ Head(s) \in S /\ Tail(s) \in Seq(S) /\ Len(Tail(s)) = Len(s) - 1
      /\ \A i \in 1..Len(Tail(s)) : Tail(s)[i] = s[i + 1]
  BY HeadTailProperties
<1>3. Head(s) = s[1] /\ Head(s) \in Elements(s)
  BY <1>1 DEF Elements
<1>4. Elements(Tail(s)) \subseteq Elements(s)
  BY <1>1, <1>2 DEF Elements
<1> QED
  BY <1>1, <1>2, <1>3, <1>4

LEMMA HeadAndTail ==
  ASSUME NEW S, NEW s \in Seq(S), s # <<>>
  PROVE  Elements(s) = Elements(Tail(s)) \union {Head(s)}
<1>1. /\ Head(s) = s[1] /\ Len(s) \in Nat \ {0} /\ Len(Tail(s)) = Len(s) - 1
      /\ \A i \in 1..Len(Tail(s)) : Tail(s)[i] = s[i + 1]
      /\ Elements(Tail(s)) \subseteq Elements(s) /\ Head(s) \in Elements(s)
  BY TailElements
<1>2. ASSUME NEW i \in 1..Len(s) PROVE s[i] \in Elements(Tail(s)) \union {Head(s)}
  <2>1. CASE i = 1
    BY <1>1, <2>1
  <2>2. CASE i # 1
    <3>1. i - 1 \in 1..Len(Tail(s)) /\ (i - 1) + 1 = i
      BY <1>1, <2>2
    <3>2. Tail(s)[i - 1] = s[i]
      BY <1>1, <3>1
    <3> QED
      BY <3>1, <3>2 DEF Elements
  <2> QED
    BY <2>1, <2>2
<1> QED
  BY <1>1, <1>2 DEF Elements

LEMMA AppendElements ==
  ASSUME NEW S, NEW s \in Seq(S), NEW e \in S
  PROVE  /\ Append(s, e) \in Seq(S) /\ Len(Append(s, e)) = Len(s) + 1 /\ Len(s) \in Nat
         /\ \A i \in 1..Len(s) : Append(s, e)[i] = s[i]
         /\ Append(s, e)[Len(s) + 1] = e
         /\ Elements(Append(s, e)) = Elements(s) \union {e}
<1>1. /\ Append(s, e) \in Seq(S) /\ Len(Append(s, e)) = Len(s) + 1 /\ Len(s) \in Nat
      /\ \A i \in 1..Len(s) : Append(s, e)[i] = s[i]
      /\ Append(s, e)[Len(s) + 1] = e
  BY AppendProperties, LenProperties
<1>2. Elements(Append(s, e)) = Elements(s) \union {e}
  BY <1>1 DEF Elements
<1> QED
  BY <1>1, <1>2

LEMMA SentElements ==
  ASSUME NEW S, NEW s \in Seq(S), NEW e \in S
  PROVE  /\ s \o <<e>> = Append(s, e)
         /\ s \o <<>> = s
BY AppendIsConcat, ConcatEmptySeq

-----------------------------------------------------------------------------
(* What the actions have in common. *)

LEMMA FinishType ==
  ASSUME TypeOK, NEW command, NEW failed \in BOOLEAN, Finish(command, failed)
  PROVE  /\ open' \in BOOLEAN /\ remaining' \in 0..MaxFailCycles
         /\ coming' \in {coming, <<>>}
         /\ request' = None /\ pc' = "idle"
<1>1. LessOne(IF failed THEN remaining ELSE MaxFailCycles) \in 0..MaxFailCycles
  BY DEF TypeOK, LessOne
<1> QED
  BY <1>1 DEF TypeOK, Finish, CloseIfNeeded

LEMMA FailedType ==
  ASSUME TypeOK, NEW d \in Devices, NEW command, TransferFailed(d, command)
  PROVE  /\ open' \in BOOLEAN /\ remaining' \in 0..MaxFailCycles
         /\ coming' \in {coming, <<>>}
         /\ request' = None /\ pc' = "idle"
         /\ connected' \in [Devices -> BOOLEAN]
         /\ \A x \in Devices : connected'[x] => connected[x]
<1>1. PICK state \in {connected[d], FALSE} :
        /\ connected' = [connected EXCEPT ![d] = state]
        /\ \E failed \in {FALSE, ~state} : Finish(command, failed)
  BY DEF TransferFailed
<1>2. state \in BOOLEAN
  BY DEF TypeOK
<1>3. PICK failed \in BOOLEAN : Finish(command, failed)
  BY <1>1, <1>2
<1> QED
  BY <1>1, <1>2, <1>3, FinishType DEF TypeOK

LEMMA NextIdsType ==
  ASSUME TypeOK, NEW d \in Devices
  PROVE  NextIds(d) \in [Devices -> 0..Ids - 1]
<1>1. \A x \in Devices : ids[x] \in 0..Ids - 1 /\ (ids[x] + 1) % Ids \in 0..Ids - 1
  BY NextNumber DEF TypeOK
<1> QED
  BY <1>1 DEF NextIds, TypeOK

LEMMA ObserveType ==
  ASSUME TypeOK, request # None, NEW answered \in BOOLEAN, NEW there \in BOOLEAN,
         Observe(answered, there)
  PROVE  clean' \in BOOLEAN /\ missed' \in [Devices -> 0..2]
<1>1. request.device \in Devices /\ missed[request.device] \in 0..2
  BY DEF TypeOK, Requests
<1>2. CASE ~there
  <2>1. missed' = [d \in Devices |-> 0]
    BY <1>2 DEF Observe
  <2>2. missed' \in [Devices -> 0..2]
    BY <2>1
  <2> QED
    BY <1>2, <2>2 DEF Observe
<1>3. CASE there /\ ~Audible(request.device)
  BY <1>3 DEF Observe, TypeOK
<1>4. CASE there /\ Audible(request.device)
  <2>1. PICK n \in 0..2 : missed' = [missed EXCEPT ![request.device] = n]
    <3>1. (IF missed[request.device] < 2 THEN missed[request.device] + 1
             ELSE missed[request.device]) \in 0..2
      BY <1>1
    <3> QED
      BY <1>4, <3>1 DEF Observe
  <2> QED
    BY <1>1, <2>1 DEF Observe, TypeOK
<1> QED
  BY <1>2, <1>3, <1>4

\* Bytes that have come, are read or thrown away stay within the bound.
LEMMA LineType ==
  ASSUME TypeOK
  PROVE  /\ Len(coming) \in Nat /\ Len(line) \in Nat
         /\ <<>> \in Seq(Answers) /\ Len(<<>>) = 0
         /\ line # <<>> =>
              /\ Left \in Seq(Answers) /\ Len(Left) <= Len(line)
              /\ Elements(Left) \subseteq Elements(line)
              /\ Taken.device = Head(line).device /\ Taken.device \in Devices
         /\ request # None => request \in Requests
<1>1. CASE line # <<>>
  <2>1. /\ Head(line) \in Answers
        /\ Tail(line) \in Seq(Answers) /\ Len(Tail(line)) <= Len(line)
        /\ Elements(Tail(line)) \subseteq Elements(line)
    BY <1>1, TailElements DEF TypeOK
  <2>2. Taken.device = Head(line).device /\ Taken.device \in Devices
    BY <2>1 DEF Taken, Answers
  <2> QED
    BY <2>1, <2>2, EmptyElements, LenProperties DEF Left, TypeOK
<1>2. CASE line = <<>>
  BY <1>2, EmptyElements, LenProperties DEF TypeOK
<1> QED
  BY <1>1, <1>2 DEF TypeOK

LEMMA AnswerType ==
  ASSUME TypeOK, pc = "send", NEW good \in BOOLEAN
  PROVE  /\ Sent \in Requests
         /\ [AnswerOf(request.device, Sent) EXCEPT !.intact = good] \in Answers
         /\ AnswerOf(request.device, Sent) \in Answers
<1>1. request \in Requests /\ request.device \in Devices
  BY DEF TypeOK, Requests
<1>2. NextIds(request.device)[request.device] \in 0..Ids - 1
  BY <1>1, NextIdsType
<1>3. Sent \in Requests
  BY <1>1, <1>2 DEF Sent, Requests
<1> QED
  BY <1>1, <1>3 DEF AnswerOf, Requests, Answers

LEMMA SendType ==
  ASSUME TypeOK, NEW answers, Send(answers), pc' = "wait", clean' \in BOOLEAN,
         answers = <<>> \/ \E answer \in Answers : answers = <<answer>>
  PROVE  TypeOK'
<1>1. request \in Requests /\ request.device \in Devices
  BY DEF Send, TypeOK, Requests
<1>2. Sent \in Requests /\ pc = "send"
  BY AnswerType DEF Send
<1>3. ids' \in [Devices -> 0..Ids - 1]
  BY <1>1, NextIdsType DEF Send, TypeOK
<1>4. line' \in Seq(Answers) /\ Len(line') <= Len(line) /\ Len(line') \in Nat
  BY LineType DEF Send, LineSent, TypeOK
<1>5. coming' \in Seq(Answers) /\ Len(coming') + Len(line') <= MaxUnread
  <2>1. CASE answers = <<>>
    <3>1. coming' = coming
      BY <2>1, SentElements DEF Send, TypeOK
    <3> QED
      BY <1>4, <3>1, LineType DEF TypeOK
  <2>2. CASE \E answer \in Answers : answers = <<answer>>
    <3>1. PICK answer \in Answers : answers = <<answer>>
      BY <2>2
    <3>2. coming' = Append(coming, answer)
      BY <3>1, SentElements DEF Send, TypeOK
    <3>3. answers # <<>>
      BY <3>1
    <3> QED
      BY <3>2, <3>3, AppendElements DEF Send, TypeOK
  <2> QED
    BY <2>1, <2>2
<1>6. request' \in Requests /\ request' # None /\ pc' \in Steps /\ pc' # "idle"
  BY <1>2, NoneAssumption DEF Send, Steps, Requests, TypeOK
<1> QED
  BY <1>3, <1>4, <1>5, <1>6 DEF Send, TypeOK

LEMMA AccessType ==
  ASSUME TypeOK, NEW d \in Devices, NEW register \in Registers, NEW command \in Commands,
         Access(d, register, command)
  PROVE  TypeOK'
<1>1. ids[d] \in 0..Ids - 1 /\ driver \in [Devices -> Drivers]
  BY BusesAssumption DEF TypeOK
<1>2. request' \in Requests /\ request' # None
  BY <1>1, NoneAssumption DEF Access, Requests
<1>3. line' \in {line, <<>>}
  BY DEF Access, LinePrepared, LineLeft
<1>4. line' \in Seq(Answers) /\ Len(coming) + Len(line') <= MaxUnread
  <2>1. line' \in Seq(Answers) /\ Len(line') <= Len(line) /\ Len(line') \in Nat
    <3>1. CASE line' = line
      BY <3>1, LineType DEF TypeOK
    <3>2. CASE line' = <<>>
      BY <3>2, LineType
    <3> QED
      BY <1>3, <3>1, <3>2
  <2> QED
    BY <2>1, LineType DEF TypeOK
<1>5. SessionsLeft(d) \in [Devices -> BOOLEAN]
  BY DEF TypeOK, SessionsLeft
<1>6. session' \in [Devices -> BOOLEAN] /\ connected' \in [Devices -> BOOLEAN]
  BY <1>5 DEF Access, TypeOK
<1>7. settings' \in Settings
  BY DEF Access, SettingsPrepared, SettingsLeft, Settings, TypeOK
<1>8. pc' \in {"connect", "send"} /\ last' \in Devices \union {None} /\ clean' \in BOOLEAN
  BY DEF Access
<1> QED
  BY <1>2, <1>4, <1>6, <1>7, <1>8 DEF Access, TypeOK, Steps

\* The end of an exchange: what is on the line is shorter, and nothing is being done.
LEMMA EndType ==
  ASSUME TypeOK,
         open' \in BOOLEAN, remaining' \in 0..MaxFailCycles,
         coming' \in {coming, <<>>}, line' \in Seq(Answers), Len(line') <= Len(line),
         request' = None, pc' = "idle"
  PROVE  /\ coming' \in Seq(Answers) /\ line' \in Seq(Answers)
         /\ Len(coming') + Len(line') <= MaxUnread
         /\ request' \in Requests \union {None} /\ pc' \in Steps /\ (pc' = "idle" <=> request' = None)
<1>1. Len(line') \in Nat
  BY LenProperties
<1>2. coming' \in Seq(Answers) /\ Len(coming') <= Len(coming) /\ Len(coming') \in Nat
  <2>1. CASE coming' = coming
    BY <2>1, LineType DEF TypeOK
  <2>2. CASE coming' = <<>>
    BY <2>2, LineType
  <2> QED
    BY <2>1, <2>2
<1>3. Len(coming') + Len(line') <= MaxUnread
  BY <1>1, <1>2, LineType DEF TypeOK
<1> QED
  BY <1>2, <1>3 DEF Steps

LEMMA StepType == TypeOK /\ [Next]_vars => TypeOK'
<1> SUFFICES ASSUME TypeOK, [Next]_vars PROVE TypeOK'
  OBVIOUS
<1>l. driver \in [Devices -> Drivers]
  BY BusesAssumption DEF TypeOK
<1>r. request # None => request \in Requests /\ request.device \in Devices
  BY DEF TypeOK, Requests
<1>e. Len(<<>>) <= Len(line) /\ <<>> \in Seq(Answers)
  BY LineType
<1>1. ASSUME NEW d \in Devices, Poll(d) PROVE TypeOK'
  <2>1. PICK pair \in Asked(driver[d]) : Access(d, pair[1], pair[2])
    BY <1>1 DEF Poll
  <2>2. pair[1] \in Registers /\ pair[2] \in Commands
    BY <2>1, AskedAssumption DEF TypeOK
  <2> QED
    BY <1>1, <2>1, <2>2, AccessType
<1>2. ASSUME NEW d \in Devices, PrepareFails(d) PROVE TypeOK'
  <2>1. SessionsLeft(d) \in [Devices -> BOOLEAN]
    BY DEF TypeOK, SessionsLeft
  <2>2. line' \in Seq(Answers) /\ Len(line') <= Len(line)
    BY <1>2, <1>e, LineType DEF PrepareFails, LinePrepared, LineLeft, TypeOK
  <2>3. settings' \in Settings
    BY <1>2 DEF PrepareFails, SettingsPrepared, SettingsLeft, Settings, TypeOK
  <2>4. last' \in Devices \union {None} /\ session' \in [Devices -> BOOLEAN]
    BY <1>2, <2>1 DEF PrepareFails, TypeOK
  <2>5. UNCHANGED <<driver, opened, ids, observed>>
    BY <1>2 DEF PrepareFails
  <2>6. TransferFailed(d, "read")
    BY <1>2 DEF PrepareFails
  <2>7. connected' \in [Devices -> BOOLEAN]
    BY <2>6, FailedType
  <2> QED
    BY <2>2, <2>3, <2>4, <2>5, <2>6, <2>7, FailedType, EndType DEF TypeOK, observed
<1>3. CASE OpenPort
  <2>1. Len(coming) + Len(line') <= MaxUnread /\ line' \in Seq(Answers)
    BY <1>3, <1>e, LineType DEF OpenPort, TypeOK
  <2> QED
    BY <1>3, <2>1 DEF OpenPort, TypeOK, observed
<1>4. CASE Connect
  <2>1. Len(coming) + Len(line') <= MaxUnread /\ line' \in Seq(Answers)
    BY <1>4, <1>e, LineType DEF Connect, TypeOK
  <2>2. pc' \in Steps /\ pc' # "idle" /\ request # None
    BY <1>4 DEF Connect, TypeOK, Steps
  <2> QED
    BY <1>4, <2>1, <2>2, <1>r DEF Connect, TypeOK, observed
<1>5. CASE ConnectFails
  <2>1. request # None
    BY <1>5 DEF ConnectFails, TypeOK
  <2>2. TransferFailed(request.device, request.command) /\ Observe(FALSE, ~Audible(request.device))
    BY <1>5 DEF ConnectFails, Fail
  <2>3. clean' \in BOOLEAN /\ missed' \in [Devices -> 0..2]
    BY <2>1, <2>2, ObserveType
  <2>4. connected' \in [Devices -> BOOLEAN]
    BY <2>1, <2>2, <1>r, FailedType
  <2>5. line' \in Seq(Answers) /\ Len(line') <= Len(line)
    BY <1>5, <1>e DEF ConnectFails
  <2>6. opened' \in [Devices -> BOOLEAN] /\ UNCHANGED <<driver, settings, last, session, ids>>
    BY <1>5 DEF ConnectFails, Fail, TypeOK
  <2> QED
    BY <2>1, <2>2, <2>3, <2>4, <2>5, <2>6, <1>r, FailedType, EndType DEF TypeOK
<1>6. CASE SendHeard
  <2>1. pc = "send"
    BY <1>6 DEF SendHeard
  <2>2. AnswerOf(request.device, Sent) \in Answers
    BY <2>1, AnswerType
  <2> QED
    BY <1>6, <2>2, SendType DEF SendHeard, TypeOK
<1>7. CASE SendMangled
  <2>1. pc = "send"
    BY <1>7 DEF SendMangled
  <2>2. [AnswerOf(request.device, Sent) EXCEPT !.intact = FALSE] \in Answers
    BY <2>1, AnswerType
  <2> QED
    BY <1>7, <2>2, SendType DEF SendMangled, TypeOK
<1>8. CASE SendLost \/ SendUnheard
  BY <1>8, SendType DEF SendLost, SendUnheard, TypeOK
<1>9. CASE SendSilent
  <2>1. request # None /\ Finish(request.command, FALSE)
    BY <1>9 DEF SendSilent, TypeOK
  <2>2. connected' \in [Devices -> BOOLEAN]
    BY <1>9 DEF SendSilent, TypeOK
  <2>3. line' \in Seq(Answers) /\ Len(line') <= Len(line)
    BY <1>9, <1>e, LineType DEF SendSilent, LineSent, TypeOK
  <2>4. clean' \in BOOLEAN /\ UNCHANGED <<driver, settings, last, opened, session, ids, missed>>
    BY <1>9 DEF SendSilent
  <2> QED
    BY <2>1, <2>2, <2>3, <2>4, FinishType, EndType DEF TypeOK
<1>10. CASE Skip
  <2>1. line' \in Seq(Answers) /\ Len(coming) + Len(line') <= MaxUnread
    <3>1. line' \in Seq(Answers) /\ Len(line') <= Len(line)
      BY <1>10, LineType DEF Skip, Waiting
    <3>2. Len(line') \in Nat
      BY <3>1, LenProperties
    <3> QED
      BY <3>1, <3>2, LineType DEF TypeOK
  <2> QED
    BY <1>10, <2>1 DEF Skip, TypeOK, observed
<1>11. CASE Accept
  <2>1. request # None /\ Finish(request.command, FALSE) /\ Observe(True(Taken), clean)
    BY <1>11 DEF Accept, Waiting, TypeOK
  <2>2. connected' \in [Devices -> BOOLEAN]
    BY <1>11 DEF Accept, TypeOK
  <2>3. line' \in Seq(Answers) /\ Len(line') <= Len(line)
    BY <1>11, LineType DEF Accept, Waiting
  <2>4. ids' \in [Devices -> 0..Ids - 1]
    BY <1>11, <2>1, <1>r, NextIdsType DEF Accept, TypeOK
  <2>5. True(Taken) \in BOOLEAN /\ clean \in BOOLEAN
    BY DEF True, TypeOK
  <2>6. clean' \in BOOLEAN /\ missed' \in [Devices -> 0..2]
    BY <2>1, <2>5, ObserveType
  <2>7. UNCHANGED <<driver, settings, last, opened, session>>
    BY <1>11 DEF Accept
  <2> QED
    BY <2>1, <2>2, <2>3, <2>4, <2>6, <2>7, FinishType, EndType DEF TypeOK
<1>12. CASE Reconnect
  <2>1. line' \in Seq(Answers) /\ Len(coming) + Len(line') <= MaxUnread
    <3>1. line' \in Seq(Answers) /\ Len(line') <= Len(line)
      BY <1>12, LineType DEF Reconnect, Waiting
    <3>2. Len(line') \in Nat
      BY <3>1, LenProperties
    <3> QED
      BY <3>1, <3>2, LineType DEF TypeOK
  <2>2. opened' \in [Devices -> BOOLEAN] /\ pc' \in Steps /\ pc' # "idle" /\ request # None
    BY <1>12 DEF Reconnect, Waiting, TypeOK, Steps
  <2> QED
    BY <1>12, <2>1, <2>2 DEF Reconnect, TypeOK, observed
<1>13. CASE Refuse \/ TimedOut
  <2>1. request # None /\ Fail
    BY <1>13 DEF Refuse, TimedOut, Waiting, TypeOK
  <2>2. PICK there \in BOOLEAN : Observe(FALSE, there)
    BY <1>13 DEF Refuse, TimedOut, TypeOK
  <2>3. clean' \in BOOLEAN /\ missed' \in [Devices -> 0..2]
    BY <2>1, <2>2, ObserveType
  <2>4. TransferFailed(request.device, request.command) /\ UNCHANGED <<driver, settings, last, session, ids>>
    BY <2>1 DEF Fail
  <2>5. connected' \in [Devices -> BOOLEAN]
    BY <2>1, <2>4, <1>r, FailedType
  <2>6. line' \in Seq(Answers) /\ Len(line') <= Len(line)
    BY <1>13, <1>e, LineType DEF Refuse, TimedOut, Waiting, TypeOK
  <2>7. opened' = opened
    BY <1>13 DEF Refuse, TimedOut
  <2> QED
    BY <2>1, <2>3, <2>4, <2>5, <2>6, <2>7, <1>r, FailedType, EndType DEF TypeOK
<1>14. CASE Arrive
  <2>1. Head(coming) \in Answers /\ Tail(coming) \in Seq(Answers) /\ Len(Tail(coming)) = Len(coming) - 1
    BY <1>14, TailElements DEF Arrive, TypeOK
  <2>2. Received(Head(coming)) \in Answers
    BY <2>1 DEF Received, Answers, Audible
  <2>3. coming' \in Seq(Answers) /\ line' \in Seq(Answers) /\ Len(coming') + Len(line') <= MaxUnread
    BY <1>14, <2>1, <2>2, AppendElements, LineType DEF Arrive, TypeOK
  <2> QED
    BY <1>14, <2>3 DEF Arrive, TypeOK, observed
<1>15. CASE RunTask
  <2>1. Len(coming) + Len(line') <= MaxUnread /\ line' \in Seq(Answers)
    BY <1>15, <1>e, LineType DEF RunTask, TypeOK
  <2>2. session' \in [Devices -> BOOLEAN]
    BY <1>15 DEF RunTask, SessionsLeft, TypeOK
  <2> QED
    BY <1>15, <2>1, <2>2 DEF RunTask, TypeOK, Settings, observed
<1>16. ASSUME NEW d \in Devices, Restart(d) \/ ClosedPortCycle(d) PROVE TypeOK'
  BY <1>16 DEF Restart, ClosedPortCycle, TypeOK, observed
<1>17. CASE UNCHANGED vars
  BY <1>17 DEF vars, TypeOK
<1> QED
  BY <1>1, <1>2, <1>3, <1>4, <1>5, <1>6, <1>7, <1>8, <1>9, <1>10, <1>11, <1>12, <1>13, <1>14,
     <1>15, <1>16, <1>17 DEF Next

LEMMA InitType == Init => TypeOK
<1> SUFFICES ASSUME Init PROVE TypeOK
  OBVIOUS
<1>1. <<>> \in Seq(Answers) /\ Len(<<>>) = 0
  BY EmptyElements
<1>2. coming \in Seq(Answers) /\ line \in Seq(Answers)
  BY <1>1 DEF Init
<1>3. Len(coming) + Len(line) <= MaxUnread
  BY <1>1 DEF Init
<1>4. ids \in [Devices -> 0..Ids - 1] /\ missed \in [Devices -> 0..2]
  BY DEF Init
<1> QED
  BY <1>2, <1>3, <1>4 DEF Init, TypeOK, Settings, Steps

\* TypeOK: the state of the port, of the devices and of the bus has its types, and no more answers
\* are under way than the bound allows.
THEOREM TypeCorrect == Spec => []TypeOK
BY InitType, StepType, PTL DEF Spec

-----------------------------------------------------------------------------
(* The settings of a meter. *)

\* The device that is asked was accessed last. Its settings are those of the meter while it is
\* asked, and as long as no other one is accessed and it stays connected: then it is not prepared
\* again.
SettingsInv ==
  /\ request # None =>
       /\ last = request.device
       /\ Meter(last) => settings = "meter"
  /\ last # None /\ connected[last] /\ Meter(last) => settings = "meter"

\* An access keeps the settings of the meter or applies them.
LEMMA PreparedSettings ==
  ASSUME TypeOK, SettingsInv, NEW d \in Devices, Meter(d)
  PROVE  SettingsPrepared(d) = "meter"
BY NoneAssumption DEF SettingsInv, SettingsPrepared, MustPrepare, SettingsLeft, Ended

\* At the end of an exchange only the device that is asked may become connected.
LEMMA EndSettings ==
  ASSUME TypeOK, SettingsInv, request # None, request' = None, UNCHANGED <<driver, settings, last>>
  PROVE  SettingsInv'
BY DEF SettingsInv, Meter

LEMMA SettingsStep == TypeOK /\ SettingsInv /\ [Next]_vars => SettingsInv'
<1> SUFFICES ASSUME TypeOK, SettingsInv, [Next]_vars PROVE SettingsInv'
  OBVIOUS
<1>r. request # None => request \in Requests /\ request.device \in Devices
  BY DEF TypeOK, Requests
<1>1. ASSUME NEW d \in Devices, Poll(d) PROVE SettingsInv'
  <2>1. PICK pair \in Asked(driver[d]) : Access(d, pair[1], pair[2])
    BY <1>1 DEF Poll
  <2>2. last' = d /\ settings' = SettingsPrepared(d) /\ driver' = driver
    BY <2>1 DEF Access
  <2>3. request'.device = d
    BY <2>1 DEF Access
  <2>4. Meter(d) => settings' = "meter"
    BY <2>2, PreparedSettings
  <2> QED
    BY <2>2, <2>3, <2>4 DEF SettingsInv, Meter
<1>2. ASSUME NEW d \in Devices, PrepareFails(d) PROVE SettingsInv'
  <2>1. TransferFailed(d, "read") /\ driver' = driver /\ settings' = SettingsPrepared(d)
    BY <1>2 DEF PrepareFails
  <2>2. request' = None
    BY <2>1, FailedType
  <2>3. last' \in {None, d}
    BY <1>2 DEF PrepareFails, Ended
  <2>4. Meter(d) => settings' = "meter"
    BY <2>1, PreparedSettings
  <2> QED
    BY <2>1, <2>2, <2>3, <2>4 DEF SettingsInv, Meter
<1>3. CASE OpenPort
  BY <1>3 DEF OpenPort, SettingsInv, Meter
<1>4. CASE Connect \/ SendHeard \/ SendMangled \/ SendLost \/ SendUnheard \/ Skip \/ Reconnect \/ Arrive
  <2>1. UNCHANGED <<driver, settings, last, connected>> /\ (request # None => request'.device = request.device)
    BY <1>4, <1>r DEF Connect, SendHeard, SendMangled, SendLost, SendUnheard, Send, Sent, Skip, Reconnect,
       Arrive, Requests
  <2>2. request' # None => request # None
    BY <1>4 DEF Connect, SendHeard, SendMangled, SendLost, SendUnheard, Send, Skip, Reconnect, Arrive, TypeOK
  <2> QED
    BY <2>1, <2>2 DEF SettingsInv, Meter
<1>5. CASE ConnectFails \/ Refuse \/ TimedOut
  <2>1. request # None /\ Fail
    BY <1>5 DEF ConnectFails, Refuse, TimedOut, Waiting, TypeOK
  <2>2. TransferFailed(request.device, request.command) /\ UNCHANGED <<driver, settings, last>>
    BY <2>1 DEF Fail
  <2>3. request' = None
    BY <2>1, <2>2, <1>r, FailedType
  <2> QED
    BY <2>1, <2>2, <2>3, EndSettings
<1>6. CASE SendSilent \/ Accept
  <2>1. request # None /\ request' = None /\ UNCHANGED <<driver, settings, last>>
    BY <1>6 DEF SendSilent, Accept, Waiting, Finish, TypeOK
  <2> QED
    BY <2>1, EndSettings
<1>7. CASE RunTask
  BY <1>7 DEF RunTask, SettingsInv, Meter, TypeOK
<1>8. ASSUME NEW d \in Devices, Restart(d) \/ ClosedPortCycle(d) PROVE SettingsInv'
  BY <1>8 DEF Restart, ClosedPortCycle, SettingsInv, Meter, TypeOK
<1>9. CASE UNCHANGED vars
  BY <1>9 DEF vars, SettingsInv, Meter
<1> QED
  BY <1>1, <1>2, <1>3, <1>4, <1>5, <1>6, <1>7, <1>8, <1>9 DEF Next

\* MeterSettings: for any devices and drivers, a meter with settings of its own is not asked with
\* those of the port, whatever is accessed before it.
THEOREM MetersAskedInTheirSettings == Spec => []MeterSettings
<1>1. Init => TypeOK /\ SettingsInv
  <2>1. Init => SettingsInv
    BY DEF Init, SettingsInv
  <2> QED
    BY <2>1, InitType
<1>2. TypeOK /\ SettingsInv => MeterSettings
  BY DEF TypeOK, SettingsInv, MeterSettings
<1> QED
  BY <1>1, <1>2, StepType, SettingsStep, PTL DEF Spec

-----------------------------------------------------------------------------
(* Answers and their requests. *)

Each(d) == driver[d].ids = "each"
Following(d) == (ids[d] + 1) % Ids
WaitsNumbered == pc = "wait" /\ Numbered

\* All numbered devices are on the same count, and the request that waits has the last number. No
\* answer has the next one, but on the line while a request waits; then none comes behind an answer
\* with the number of the request. An answer with that number is the answer to it.
NumbersInv ==
  /\ \A d, e \in Devices : Each(d) /\ Each(e) => ids[d] = ids[e]
  /\ \A a \in Elements(coming) : Each(a.device) => a.id # Following(a.device)
  /\ ~WaitsNumbered => \A a \in Elements(line) : Each(a.device) => a.id # Following(a.device)
  /\ WaitsNumbered =>
       /\ request.id = ids[request.device]
       /\ \A a \in Elements(coming) \union Elements(line) :
            Each(a.device) /\ a.id = request.id => True(a)
       /\ \A i, j \in 1..Len(line) :
            i < j /\ Each(line[i].device) /\ line[i].id = request.id /\ Each(line[j].device)
              => line[j].id # Following(line[j].device)

\* A device that is never written gets no writes and answers none.
CommandsInv ==
  /\ request # None /\ driver[request.device].writes = "no" => request.command = "read"
  /\ \A a \in Elements(coming) \union Elements(line) :
       driver[a.device].writes = "no" => a.command = "read"

\* Modbus TCP is the only driver that numbers every request.
LEMMA NumberedIsTcp ==
  ASSUME TypeOK, NEW d \in Devices, Each(d)
  PROVE  driver[d] = ModbusTcp
<1>1. driver[d] \in Drivers
  BY BusesAssumption DEF TypeOK
<1>2. \A one \in Drivers : one.ids = "each" => one = ModbusTcp
  <2>1. /\ ModbusRtu.ids = "none" /\ ModbusRtuForced.ids = "none" /\ Pulsar.ids = "answered"
        /\ EnergomeraCe.ids = "none" /\ Mercury200.ids = "none" /\ Lls.ids = "none"
    BY DEF Plain, ModbusRtu, ModbusRtuForced, Pulsar, EnergomeraCe, Mercury200, Lls
  <2>2. /\ Ivtm.ids = "none" /\ Uniel.ids = "none" /\ S2k.ids = "none" /\ Mercury230.ids = "none"
        /\ Milur.ids = "none" /\ MilurLongAddress.ids = "none"
    BY DEF Plain, Ivtm, Uniel, S2k, Em, Mercury230, Milur, MilurLongAddress
  <2>3. /\ Dooya.ids = "none" /\ WinDeco.ids = "none" /\ Somfy.ids = "none" /\ Aok.ids = "none"
        /\ Dlms.ids = "none" /\ IecModeC.ids = "none" /\ EnergomeraFastRead.ids = "none"
    BY DEF Plain, Dooya, WinDeco, Somfy, Aok, Dlms, IecModeC, EnergomeraFastRead
  <2> QED
    BY <2>1, <2>2, <2>3 DEF Drivers
<1> QED
  BY <1>1, <1>2 DEF Each

LEMMA NumberedDriver ==
  ASSUME TypeOK, NEW d \in Devices, Each(d)
  PROVE  /\ driver[d].takes = "frame" /\ driver[d].session = "none" /\ driver[d].settings = "port"
         /\ "malformed" \in driver[d].discards /\ driver[d].writes = "yes"
<1>1. driver[d] = ModbusTcp
  BY NumberedIsTcp
<1>2. ModbusTcp.takes = "frame" /\ ModbusTcp.session = "none" /\ "malformed" \in ModbusTcp.discards
  BY DEF ModbusTcp, ModbusRtu, Plain, Both, ModbusErrors
<1>3. ModbusTcp.settings = "port" /\ ModbusTcp.writes = "yes"
  BY DEF ModbusTcp, ModbusRtu, Plain, Both, ModbusErrors
<1> QED
  BY <1>1, <1>2, <1>3

LEMMA ElementType ==
  ASSUME TypeOK, NEW a \in Elements(coming) \union Elements(line)
  PROVE  a \in Answers /\ a.device \in Devices /\ a.id \in 0..Ids - 1 /\ a.command \in Commands
<1>1. a \in Answers
  BY ElementOfSeq DEF Elements, TypeOK
<1> QED
  BY <1>1 DEF Answers

\* What is taken whole is the first frame on the line, of a device with the same driver.
LEMMA TakenWhole ==
  ASSUME TypeOK, Waiting, Taken.intact
  PROVE  /\ Taken = Head(line) /\ Taken \in Elements(line)
         /\ driver[Taken.device] = driver[request.device]
         /\ Taken.device \in Devices
<1>1. Head(line) \in Answers /\ Head(line) \in Elements(line)
  BY TailElements DEF Waiting, TypeOK
<1> QED
  BY <1>1 DEF Taken, Answers

LEMMA Answered ==
  ASSUME TypeOK, NumbersInv, CommandsInv
  PROVE  NotMixedUp
<1> SUFFICES ASSUME Waiting, Accepted, Names(driver[request.device]) PROVE True(Taken)
  BY DEF NotMixedUp
<1>1. request \in Requests /\ request # None
  BY DEF Waiting, TypeOK
<1>2. Taken.intact
  BY DEF Accepted, Matches
<1>3. CASE Numbered
  <2>1. Taken.id = request.id
    BY <1>2, <1>3 DEF Accepted, Skipped
  <2> QED
    BY <1>2, <1>3, <2>1, TakenWhole DEF NumbersInv, WaitsNumbered, Waiting, Numbered, Each
<1>4. CASE ~Numbered
  <2>1. /\ {"device", "register"} \subseteq Checked(driver[request.device], request)
        /\ \/ driver[request.device].writes = "no"
           \/ "command" \in Checked(driver[request.device], request)
    BY <1>1, <1>4 DEF Names, Numbered, Checked, Requests
  <2>2. Taken.device = request.device /\ Taken.register = request.register
    BY <2>1 DEF Accepted, Matches
  <2>3. Taken.command = request.command
    BY <1>1, <1>2, <2>1, TakenWhole DEF Accepted, Matches, CommandsInv
  <2> QED
    BY <2>2, <2>3 DEF True
<1> QED
  BY <1>3, <1>4

\* Every action but Send keeps or shortens what is under way and on the line, or moves an answer
\* from one to the other.
LEMMA NoNewAnswers ==
  ASSUME TypeOK, [Next]_vars, ~(SendHeard \/ SendMangled)
  PROVE  /\ driver' = driver
         /\ Elements(coming') \subseteq Elements(coming)
         /\ ~Arrive => Elements(line') \subseteq Elements(line)
<1>r. request # None => request.device \in Devices
  BY DEF TypeOK, Requests
<1>e. Elements(<<>>) = {} /\ (coming' \in {coming, <<>>} => Elements(coming') \subseteq Elements(coming))
  BY EmptyElements
<1>f. line' \in {line, <<>>} => Elements(line') \subseteq Elements(line)
  BY EmptyElements
<1>1. ASSUME NEW d \in Devices, Poll(d) \/ PrepareFails(d)
      PROVE  /\ driver' = driver /\ coming' \in {coming, <<>>} /\ line' \in {line, <<>>}
  <2>1. CASE Poll(d)
    BY <2>1 DEF Poll, Access, LinePrepared, LineLeft
  <2>2. CASE PrepareFails(d)
    BY <2>2, FailedType DEF PrepareFails, LinePrepared, LineLeft
  <2> QED
    BY <1>1, <2>1, <2>2
<1>2. CASE OpenPort \/ Connect \/ RunTask
  BY <1>2, <1>e, <1>f DEF OpenPort, Connect, RunTask
<1>3. CASE ConnectFails \/ Refuse \/ TimedOut
  <2>1. request # None /\ Fail
    BY <1>3 DEF ConnectFails, Refuse, TimedOut, Waiting, TypeOK
  <2>2. driver' = driver /\ coming' \in {coming, <<>>}
    BY <2>1, <1>r, FailedType DEF Fail
  <2>3. Elements(line') \subseteq Elements(line)
    BY <1>3, <1>f, LineType DEF ConnectFails, Refuse, TimedOut, Waiting
  <2> QED
    BY <2>2, <2>3, <1>e
<1>4. CASE SendLost \/ SendUnheard
  <2>1. coming' = coming /\ line' \in {line, <<>>} /\ driver' = driver
    BY <1>4, SentElements DEF SendLost, SendUnheard, Send, LineSent, TypeOK
  <2> QED
    BY <2>1, <1>e, <1>f
<1>5. CASE SendSilent \/ Accept
  <2>1. driver' = driver /\ Finish(request.command, FALSE)
    BY <1>5 DEF SendSilent, Accept
  <2>2. coming' \in {coming, <<>>}
    BY <2>1, FinishType
  <2>3. Elements(line') \subseteq Elements(line)
    BY <1>5, <1>f, LineType DEF SendSilent, LineSent, Accept, Waiting
  <2> QED
    BY <2>1, <2>2, <2>3, <1>e
<1>6. CASE Skip \/ Reconnect
  BY <1>6, LineType DEF Skip, Reconnect, Waiting
<1>7. CASE Arrive
  BY <1>7, TailElements DEF Arrive, TypeOK
<1>8. ASSUME NEW d \in Devices, Restart(d) \/ ClosedPortCycle(d)
      PROVE  UNCHANGED <<driver, coming, line>>
  BY <1>8 DEF Restart, ClosedPortCycle
<1>9. CASE UNCHANGED vars
  BY <1>9 DEF vars
<1> QED
  BY <1>1, <1>2, <1>3, <1>4, <1>5, <1>6, <1>7, <1>8, <1>9, <1>e, <1>f DEF Next

LEMMA ArriveElements ==
  ASSUME TypeOK, Arrive
  PROVE  /\ Head(coming) \in Elements(coming) /\ Head(coming) \in Answers
         /\ Received(Head(coming)) \in Answers
         /\ Received(Head(coming)).device = Head(coming).device
         /\ Received(Head(coming)).id = Head(coming).id
         /\ Received(Head(coming)).register = Head(coming).register
         /\ Received(Head(coming)).command = Head(coming).command
         /\ Received(Head(coming)).kind = Head(coming).kind
         /\ Elements(line') \subseteq Elements(line) \union {Received(Head(coming))}
<1>1. Head(coming) \in Elements(coming) /\ Head(coming) \in Answers
  BY TailElements DEF Arrive, TypeOK
<1>2. /\ Received(Head(coming)) \in Answers
      /\ Received(Head(coming)).device = Head(coming).device
      /\ Received(Head(coming)).id = Head(coming).id
      /\ Received(Head(coming)).register = Head(coming).register
      /\ Received(Head(coming)).command = Head(coming).command
      /\ Received(Head(coming)).kind = Head(coming).kind
  BY <1>1 DEF Received, Answers, Audible
<1> QED
  BY <1>1, <1>2, AppendElements DEF Arrive, TypeOK

LEMMA CommandsStep == TypeOK /\ CommandsInv /\ [Next]_vars => CommandsInv'
<1> SUFFICES ASSUME TypeOK, CommandsInv, [Next]_vars PROVE CommandsInv'
  OBVIOUS
<1>1. CASE SendHeard \/ SendMangled
  <2>1. PICK a \in Answers :
          /\ Send(<<a>>)
          /\ a.device = request.device /\ a.command = request.command
    <3>1. pc = "send"
      BY <1>1 DEF SendHeard, SendMangled
    <3>2. /\ AnswerOf(request.device, Sent) \in Answers
          /\ [AnswerOf(request.device, Sent) EXCEPT !.intact = FALSE] \in Answers
      BY <3>1, AnswerType
    <3>3. request \in Requests /\ Sent.command = request.command
      BY <3>1 DEF TypeOK, Sent, Requests
    <3> QED
      BY <1>1, <3>2, <3>3 DEF SendHeard, SendMangled, AnswerOf
  <2>2. request # None /\ driver' = driver
    BY <2>1 DEF Send, TypeOK
  <2>3. request'.device = request.device /\ request'.command = request.command
    BY <2>1, <2>2 DEF Send, Sent, TypeOK, Requests
  <2>4. Elements(coming') = Elements(coming) \union {a}
    <3>1. coming \in Seq(Answers) /\ coming' = coming \o <<a>>
      BY <2>1 DEF Send, TypeOK
    <3>2. coming' = Append(coming, a)
      BY <3>1, SentElements
    <3>3. Elements(Append(coming, a)) = Elements(coming) \union {a}
      BY <3>1, AppendElements
    <3> QED
      BY <3>2, <3>3
  <2>5. Elements(line') \subseteq Elements(line)
    BY <2>1, EmptyElements DEF Send, LineSent
  <2> QED
    BY <2>1, <2>2, <2>3, <2>4, <2>5 DEF CommandsInv
<1>2. CASE ~(SendHeard \/ SendMangled)
  <2>1. \A a \in Elements(coming') \union Elements(line') :
          driver'[a.device].writes = "no" => a.command = "read"
    <3>1. CASE Arrive
      BY <1>2, <3>1, NoNewAnswers, ArriveElements DEF CommandsInv
    <3>2. CASE ~Arrive
      BY <1>2, <3>2, NoNewAnswers DEF CommandsInv
    <3> QED
      BY <3>1, <3>2
  <2>2. request' # None /\ driver'[request'.device].writes = "no" => request'.command = "read"
    <3>1. ASSUME NEW d \in Devices, Poll(d)
          PROVE  request' # None /\ driver'[request'.device].writes = "no" => request'.command = "read"
      <4>1. PICK pair \in Asked(driver[d]) : Access(d, pair[1], pair[2])
        BY <3>1 DEF Poll
      <4>2. pair[2] \in Commands
        BY <4>1, AskedAssumption DEF TypeOK
      <4> QED
        BY <4>1, <4>2 DEF Access, Commands
    <3>2. \/ request' = None
          \/ request' = request
          \/ SendLost \/ SendUnheard
          \/ \E d \in Devices : Poll(d)
      <4>1. ASSUME NEW d \in Devices, PrepareFails(d) PROVE request' = None
        BY <4>1, FailedType DEF PrepareFails
      <4>2. CASE ConnectFails \/ Refuse \/ TimedOut
        <5>1. request \in Requests /\ TransferFailed(request.device, request.command)
          BY <4>2 DEF ConnectFails, Refuse, TimedOut, Waiting, Fail, TypeOK
        <5> QED
          BY <5>1, FailedType DEF Requests
      <4> QED
        BY <1>2, <4>1, <4>2 DEF Next, vars, OpenPort, Connect, SendSilent, Skip, Accept, Finish,
           Reconnect, Arrive, RunTask, Restart, ClosedPortCycle
    <3>3. CASE SendLost \/ SendUnheard
      <4>1. request \in Requests /\ request # None /\ request' = Sent
        BY <3>3 DEF SendLost, SendUnheard, Send, TypeOK
      <4> QED
        BY <1>2, <4>1, NoNewAnswers DEF Sent, Requests, CommandsInv
    <3> QED
      BY <1>2, <3>1, <3>2, <3>3, NoNewAnswers DEF CommandsInv
  <2> QED
    BY <2>1, <2>2 DEF CommandsInv
<1> QED
  BY <1>1, <1>2

\* Without a numbered request under way it is enough that no answer has the next number.
LEMMA CountsKept ==
  ASSUME TypeOK, NumbersInv, driver' = driver, ~WaitsNumbered',
         \A d \in Devices : Each(d) => ids'[d] = ids[d],
         \A a \in Elements(coming') \union Elements(line') :
           a.device \in Devices /\ (Each(a.device) => a.id # Following(a.device))
  PROVE  NumbersInv'
<1>1. \A d \in Devices : Each(d)' = Each(d) /\ (Each(d) => Following(d)' = Following(d))
  BY DEF Each, Following
<1>2. \A d, e \in Devices : Each(d)' /\ Each(e)' => ids'[d] = ids'[e]
  BY <1>1 DEF NumbersInv
<1>3. \A a \in Elements(coming') \union Elements(line') : Each(a.device)' => a.id # Following(a.device)'
  BY <1>1
<1> QED
  BY <1>2, <1>3 DEF NumbersInv

\* What is left of the line when an exchange has ended has no answer with the next number.
LEMMA LeftBehind ==
  ASSUME TypeOK, NumbersInv, Waiting, ~Skipped, Taken.intact
  PROVE  \A a \in Elements(Left) : Each(a.device) => a.id # Following(a.device)
<1>1. CASE ~Numbered
  BY <1>1, LineType DEF NumbersInv, WaitsNumbered, Waiting
<1>2. CASE Numbered
  <2>1. Each(request.device) /\ request.device \in Devices
    BY <1>2 DEF Numbered, Each, Waiting, TypeOK, Requests
  <2>2. Left = Tail(line)
    BY <2>1, NumberedDriver DEF Left
  <2>3. Taken = line[1] /\ line[1].id = request.id /\ Each(line[1].device)
    BY <1>2, TakenWhole, TailElements DEF Skipped, Numbered, Each, Waiting, TypeOK
  <2>4. ASSUME NEW a \in Elements(Left), Each(a.device) PROVE a.id # Following(a.device)
    <3>1. PICK i \in 1..Len(Tail(line)) : a = Tail(line)[i]
      BY <2>2, <2>4 DEF Elements
    <3>2. i + 1 \in 1..Len(line) /\ 1 \in 1..Len(line) /\ 1 < i + 1 /\ a = line[i + 1]
      BY <3>1, TailElements DEF Waiting, TypeOK
    <3> QED
      BY <1>2, <2>3, <2>4, <3>2 DEF NumbersInv, WaitsNumbered, Waiting
  <2> QED
    BY <2>4
<1> QED
  BY <1>1, <1>2

\* A malformed answer makes a numbering driver clear the line.
LEMMA RefusedLine ==
  ASSUME TypeOK, NumbersInv, Refuse
  PROVE  \A a \in Elements(line') : Each(a.device) => a.id # Following(a.device)
<1>1. CASE Taken.intact
  BY <1>1, LeftBehind, EmptyElements DEF Refuse
<1>2. CASE ~Taken.intact
  <2>1. CASE ~Numbered
    BY <2>1, EmptyElements, LineType DEF Refuse, NumbersInv, WaitsNumbered, Waiting
  <2>2. CASE Numbered
    <3>1. Each(request.device) /\ request.device \in Devices
      BY <2>2 DEF Numbered, Each, Refuse, Waiting, TypeOK, Requests
    <3>2. Wrong = {"malformed"} /\ "malformed" \in driver[request.device].discards
      BY <1>2, <3>1, NumberedDriver DEF Wrong
    <3>3. line' = <<>>
      BY <3>2 DEF Refuse
    <3> QED
      BY <3>3, EmptyElements
  <2> QED
    BY <2>1, <2>2
<1> QED
  BY <1>1, <1>2

\* A numbered request and its answer: no answer under way has its number or the next one.
LEMMA NumberedSend ==
  ASSUME TypeOK, NumbersInv, NEW answers, Send(answers), pc' = "wait", Numbered,
         answers = <<>> \/ \E answer \in Answers :
           /\ answers = <<answer>>
           /\ answer.device = request.device /\ answer.register = request.register
           /\ answer.command = request.command /\ answer.id = Sent.id
  PROVE  NumbersInv'
<1>1. request \in Requests /\ request.device \in Devices /\ Each(request.device) /\ pc = "send"
  BY DEF Send, TypeOK, Requests, Numbered, Each
<1>2. driver' = driver /\ \A d \in Devices : Each(d)' = Each(d)
  BY DEF Send, Each
<1>3. \A d \in Devices : Each(d) => ids'[d] = Following(d) /\ Following(d) = Following(request.device)
  BY <1>1 DEF Send, NextIds, Each, Following, NumbersInv, TypeOK
<1>4. /\ request' = Sent /\ Sent.id = Following(request.device)
      /\ Sent.device = request.device /\ Sent.register = request.register /\ Sent.command = request.command
  BY <1>1, <1>3 DEF Send, Sent, Requests, NextIds, Following, Each
<1>5. \A d \in Devices : Each(d) => ids'[d] = Sent.id /\ Following(d)' = (Sent.id + 1) % Ids
  BY <1>3, <1>4 DEF Following
<1>6. (Sent.id + 1) % Ids # Sent.id
  BY <1>1, AnswerType, NextNumber DEF Requests
<1>7. \A a \in Elements(coming) : a.id \notin {Sent.id, (Sent.id + 1) % Ids}
  BY DEF Send, NoneOutlived, NotOutlived, Elements, TypeOK
<1>8. \A a \in Elements(line') : a \in Elements(line) /\ a.device \in Devices /\ (Each(a.device) => a.id # Sent.id)
  <2>1. \A a \in Elements(line') : a \in Elements(line)
    BY EmptyElements DEF Send, LineSent
  <2> QED
    BY <1>1, <1>3, <1>4, <2>1, ElementType DEF NumbersInv, WaitsNumbered
<1>9. \A a \in Elements(coming') :
        /\ a.device \in Devices
        /\ a.id # (Sent.id + 1) % Ids
        /\ a.id = Sent.id => True(a)
  <2>1. CASE answers = <<>>
    <3>1. coming' = coming
      BY <2>1, SentElements DEF Send, TypeOK
    <3> QED
      BY <3>1, <1>7, ElementType
  <2>2. CASE answers # <<>>
    <3>1. PICK answer \in Answers :
            /\ answers = <<answer>>
            /\ answer.device = request.device /\ answer.register = request.register
            /\ answer.command = request.command /\ answer.id = Sent.id
      BY <2>2
    <3>2. coming \in Seq(Answers) /\ coming' = coming \o <<answer>>
      BY <3>1 DEF Send, TypeOK
    <3>3. coming' = Append(coming, answer)
      BY <3>2, SentElements
    <3>4. Elements(Append(coming, answer)) = Elements(coming) \union {answer}
      BY <3>2, AppendElements
    <3>5. Elements(coming') = Elements(coming) \union {answer}
      BY <3>3, <3>4
    <3> QED
      BY <1>1, <1>6, <1>7, <3>1, <3>5, ElementType DEF True
  <2> QED
    BY <2>1, <2>2
<1>10. WaitsNumbered' /\ \A a : True(a)' = True(a)
  BY <1>1, <1>2, <1>4 DEF WaitsNumbered, Numbered, Each, True
<1>11. \A d, e \in Devices : Each(d)' /\ Each(e)' => ids'[d] = ids'[e]
  BY <1>2, <1>5
<1>12. \A a \in Elements(coming') : Each(a.device)' => a.id # Following(a.device)'
  BY <1>2, <1>5, <1>9
<1>13. request'.id = ids'[request'.device]
  BY <1>1, <1>4, <1>5
<1>14. \A a \in Elements(coming') \union Elements(line') :
         Each(a.device)' /\ a.id = request'.id => True(a)'
  BY <1>2, <1>4, <1>8, <1>9, <1>10
<1>15. (\A i, j \in 1..Len(line) :
          i < j /\ Each(line[i].device) /\ line[i].id = request.id /\ Each(line[j].device)
            => line[j].id # Following(line[j].device))'
  <2>1. ASSUME NEW i \in 1..Len(line'), driver'[line'[i].device].ids = "each", line'[i].id = request'.id
        PROVE  FALSE
    <3>1. line'[i] \in Elements(line')
      BY DEF Elements
    <3>2. Each(line'[i].device)
      BY <1>2, <2>1 DEF Each
    <3> QED
      BY <1>4, <1>8, <2>1, <3>1, <3>2
  <2> QED
    BY <2>1 DEF Each
<1> QED
  BY <1>10, <1>11, <1>12, <1>13, <1>14, <1>15 DEF NumbersInv

\* While a numbered request waits, answers come and frames with other numbers are passed over.
LEMMA NumberedArrive ==
  ASSUME TypeOK, NumbersInv, Arrive, WaitsNumbered
  PROVE  NumbersInv'
<1>1. /\ UNCHANGED <<driver, ids, request, pc>> /\ WaitsNumbered'
      /\ \A d : Each(d)' = Each(d) /\ Following(d)' = Following(d) /\ \A a : True(a)' = True(a)
  BY DEF Arrive, WaitsNumbered, Numbered, Each, Following, True
<1>2. Elements(coming') \subseteq Elements(coming)
  BY TailElements DEF Arrive, TypeOK
<1>3. \A a \in Elements(coming') \union Elements(line') :
        Each(a.device) /\ a.id = request.id => True(a)
  BY <1>2, ArriveElements DEF NumbersInv, True
<1>4. (\A i, j \in 1..Len(line) :
         i < j /\ Each(line[i].device) /\ line[i].id = request.id /\ Each(line[j].device)
           => line[j].id # Following(line[j].device))'
  <2>1. CASE open
    <3>1. line' = Append(line, Received(Head(coming))) /\ line \in Seq(Answers)
      BY <2>1 DEF Arrive, TypeOK
    <3>2. /\ Len(line') = Len(line) + 1 /\ Len(line) \in Nat
          /\ \A i \in 1..Len(line) : line'[i] = line[i]
          /\ line'[Len(line) + 1] = Received(Head(coming))
      BY <3>1, ArriveElements, AppendElements
    <3>3. Each(line'[Len(line) + 1].device) =>
            line'[Len(line) + 1].id # Following(line'[Len(line) + 1].device)
      BY <3>2, ArriveElements DEF NumbersInv
    <3>4. ASSUME NEW i \in 1..Len(line'), NEW j \in 1..Len(line'), i < j,
                 Each(line'[i].device), line'[i].id = request.id, Each(line'[j].device)
          PROVE  line'[j].id # Following(line'[j].device)
      <4>1. CASE j = Len(line) + 1
        BY <3>3, <3>4, <4>1
      <4>2. CASE j # Len(line) + 1
        <5>1. i \in 1..Len(line) /\ j \in 1..Len(line)
          BY <3>2, <3>4, <4>2
        <5> QED
          BY <3>2, <3>4, <5>1 DEF NumbersInv
      <4> QED
        BY <4>1, <4>2
    <3> QED
      BY <1>1, <3>4 DEF Each, Following
  <2>2. CASE ~open
    BY <1>1, <2>2 DEF Arrive, NumbersInv, Each, Following
  <2> QED
    BY <2>1, <2>2
<1> QED
  BY <1>1, <1>2, <1>3, <1>4 DEF NumbersInv

LEMMA NumberedSkip ==
  ASSUME TypeOK, NumbersInv, Skip
  PROVE  NumbersInv'
<1>1. Numbered /\ WaitsNumbered /\ Each(request.device) /\ request.device \in Devices
  BY DEF Skip, Skipped, Waiting, WaitsNumbered, Numbered, Each, TypeOK, Requests
<1>2. line' = Tail(line) /\ line # <<>> /\ line \in Seq(Answers)
  BY <1>1, NumberedDriver DEF Skip, Left, Waiting, TypeOK
<1>3. /\ UNCHANGED <<driver, ids, request, pc, coming>> /\ WaitsNumbered'
      /\ \A d : Each(d)' = Each(d) /\ Following(d)' = Following(d) /\ \A a : True(a)' = True(a)
  BY <1>1 DEF Skip, WaitsNumbered, Numbered, Each, Following, True
<1>4. /\ Len(line) \in Nat /\ Len(line') = Len(line) - 1
      /\ \A i \in 1..Len(line') : line'[i] = line[i + 1]
      /\ Elements(line') \subseteq Elements(line)
  BY <1>2, TailElements
<1>5. (\A i, j \in 1..Len(line) :
         i < j /\ Each(line[i].device) /\ line[i].id = request.id /\ Each(line[j].device)
           => line[j].id # Following(line[j].device))'
  <2>1. ASSUME NEW i \in 1..Len(line'), NEW j \in 1..Len(line'), i < j,
               Each(line'[i].device), line'[i].id = request.id, Each(line'[j].device)
        PROVE  line'[j].id # Following(line'[j].device)
    <3>1. i + 1 \in 1..Len(line) /\ j + 1 \in 1..Len(line) /\ i + 1 < j + 1
      BY <1>4, <2>1
    <3> QED
      BY <1>1, <1>4, <2>1, <3>1 DEF NumbersInv
  <2> QED
    BY <1>3, <2>1 DEF Each, Following
<1> QED
  BY <1>1, <1>3, <1>4, <1>5 DEF NumbersInv

LEMMA NumbersStep == TypeOK /\ NumbersInv /\ [Next]_vars => NumbersInv'
<1> SUFFICES ASSUME TypeOK, NumbersInv, [Next]_vars PROVE NumbersInv'
  OBVIOUS
<1>r. request # None => request \in Requests /\ request.device \in Devices
  BY DEF TypeOK, Requests
<1>a. \A a \in Elements(coming) : a.device \in Devices /\ (Each(a.device) => a.id # Following(a.device))
  BY ElementType DEF NumbersInv
<1>b. ~WaitsNumbered =>
        \A a \in Elements(line) : a.device \in Devices /\ (Each(a.device) => a.id # Following(a.device))
  BY ElementType DEF NumbersInv
<1>1. CASE SendHeard \/ SendMangled \/ SendLost \/ SendUnheard
  <2>1. PICK answers :
          /\ Send(answers) /\ pc' = "wait"
          /\ answers = <<>> \/ \E answer \in Answers :
               /\ answers = <<answer>>
               /\ answer.device = request.device /\ answer.register = request.register
               /\ answer.command = request.command /\ answer.id = Sent.id
    <3>1. pc = "send" /\ request \in Requests
      BY <1>1 DEF SendHeard, SendMangled, SendLost, SendUnheard, TypeOK
    <3>2. /\ AnswerOf(request.device, Sent) \in Answers
          /\ [AnswerOf(request.device, Sent) EXCEPT !.intact = FALSE] \in Answers
      BY <3>1, AnswerType
    <3>3. Sent.register = request.register /\ Sent.command = request.command
      BY <3>1 DEF Sent, Requests
    <3> QED
      BY <1>1, <3>2, <3>3 DEF SendHeard, SendMangled, SendLost, SendUnheard, AnswerOf
  <2>2. CASE Numbered
    BY <2>1, <2>2, NumberedSend
  <2>3. CASE ~Numbered
    <3>1. /\ request # None /\ pc # "wait" /\ request' = Sent /\ Sent.device = request.device
          /\ UNCHANGED <<driver, ids>>
      BY <2>1, <2>3, <1>r DEF Send, Sent, TypeOK, Requests
    <3>2. ~WaitsNumbered /\ ~WaitsNumbered'
      BY <2>3, <3>1 DEF WaitsNumbered, Numbered
    <3>3. Elements(line') \subseteq Elements(line)
      BY <2>1, EmptyElements DEF Send, LineSent
    <3>4. \A a \in Elements(coming') : a \in Elements(coming) \/ a.device = request.device
      <4>1. CASE answers = <<>>
        BY <2>1, <4>1, SentElements DEF Send, TypeOK
      <4>2. CASE answers # <<>>
        <5>1. PICK answer \in Answers : answers = <<answer>> /\ answer.device = request.device
          BY <2>1, <4>2
        <5>2. coming \in Seq(Answers) /\ coming' = coming \o <<answer>>
          BY <2>1, <5>1 DEF Send, TypeOK
        <5>3. coming' = Append(coming, answer)
          BY <5>2, SentElements
        <5>4. Elements(Append(coming, answer)) = Elements(coming) \union {answer}
          BY <5>2, AppendElements
        <5> QED
          BY <5>1, <5>3, <5>4
      <4> QED
        BY <4>1, <4>2
    <3> QED
      BY <1>r, <1>a, <1>b, <2>3, <3>1, <3>2, <3>3, <3>4, CountsKept DEF Numbered, Each
  <2> QED
    BY <2>2, <2>3
<1>2. CASE Skip
  BY <1>2, NumberedSkip
<1>3. CASE Arrive
  <2>1. CASE WaitsNumbered
    BY <1>3, <2>1, NumberedArrive
  <2>2. CASE ~WaitsNumbered
    <3>1. UNCHANGED <<driver, ids>> /\ ~WaitsNumbered'
      BY <1>3, <2>2 DEF Arrive, WaitsNumbered, Numbered
    <3>2. Elements(coming') \subseteq Elements(coming)
      BY <1>3, TailElements DEF Arrive, TypeOK
    <3> QED
      BY <1>3, <1>a, <1>b, <2>2, <3>1, <3>2, ArriveElements, CountsKept
  <2> QED
    BY <2>1, <2>2
<1>4. CASE Accept \/ Reconnect \/ Refuse \/ TimedOut
  <2>1. Elements(coming') \subseteq Elements(coming) /\ driver' = driver
    BY <1>4, NoNewAnswers DEF SendHeard, SendMangled, Accept, Reconnect, Refuse, TimedOut, Waiting
  <2>2. pc' # "wait" /\ request # None
    <3>1. CASE Accept \/ Reconnect
      BY <3>1 DEF Accept, Reconnect, Finish, Waiting, TypeOK
    <3>2. CASE Refuse \/ TimedOut
      <4>1. request # None /\ TransferFailed(request.device, request.command)
        BY <3>2 DEF Refuse, TimedOut, Waiting, Fail, TypeOK
      <4> QED
        BY <4>1, <1>r, FailedType
    <3> QED
      BY <1>4, <3>1, <3>2
  <2>3. \A d \in Devices : Each(d) => ids'[d] = ids[d]
    <3>1. CASE Accept
      BY <2>2, <3>1, <1>r DEF Accept, NextIds, Each, TypeOK
    <3>2. CASE Reconnect \/ Refuse \/ TimedOut
      BY <3>2 DEF Reconnect, Refuse, TimedOut, Fail
    <3> QED
      BY <1>4, <3>1, <3>2
  <2>4. \A a \in Elements(line') : Each(a.device) => a.id # Following(a.device)
    <3>1. CASE Accept
      <4>1. Waiting /\ ~Skipped /\ Taken.intact /\ line' = Left
        BY <3>1 DEF Accept, Accepted, Matches
      <4> QED
        BY <4>1, LeftBehind
    <3>2. CASE Reconnect
      <4>1. Waiting /\ Taken.intact /\ line' = Left /\ driver[request.device].session = "talk"
        BY <3>2 DEF Reconnect, Closed
      <4>2. ~Numbered
        BY <2>2, <4>1, <1>r, NumberedDriver DEF Numbered, Each
      <4>3. ~Skipped
        BY <4>2 DEF Skipped
      <4> QED
        BY <4>1, <4>3, LeftBehind
    <3>3. CASE Refuse
      BY <3>3, RefusedLine
    <3>4. CASE TimedOut
      BY <3>4, EmptyElements DEF TimedOut
    <3> QED
      BY <1>4, <3>1, <3>2, <3>3, <3>4
  <2>5. Elements(line') \subseteq Elements(line)
    BY <1>4, <2>2, NoNewAnswers DEF SendHeard, SendMangled, Arrive, Accept, Reconnect, Refuse, TimedOut,
       Waiting
  <2>6. \A a \in Elements(line') : a.device \in Devices
    BY <2>5, ElementType
  <2> QED
    BY <1>a, <2>1, <2>2, <2>3, <2>4, <2>6, CountsKept DEF WaitsNumbered
<1>5. CASE /\ ~Arrive
           /\ \/ OpenPort \/ Connect \/ ConnectFails \/ SendSilent \/ RunTask
              \/ \E d \in Devices : Poll(d) \/ PrepareFails(d) \/ Restart(d) \/ ClosedPortCycle(d)
  <2>1. pc # "wait" /\ pc' # "wait" /\ ids' = ids
    <3>1. CASE ConnectFails
      <4>1. TransferFailed(request.device, request.command) /\ request # None /\ ids' = ids
        BY <3>1 DEF ConnectFails, Fail, TypeOK
      <4> QED
        BY <3>1, <4>1, <1>r, FailedType DEF ConnectFails
    <3>2. ASSUME NEW d \in Devices, PrepareFails(d) PROVE pc # "wait" /\ pc' # "wait" /\ ids' = ids
      BY <3>2, FailedType DEF PrepareFails
    <3>3. ASSUME NEW d \in Devices, Poll(d) PROVE pc # "wait" /\ pc' # "wait" /\ ids' = ids
      BY <3>3 DEF Poll, Access
    <3> QED
      BY <1>5, <3>1, <3>2, <3>3 DEF OpenPort, Connect, SendSilent, Finish, RunTask, Restart, ClosedPortCycle
  <2>2. ~SendHeard /\ ~SendMangled
    BY <2>1 DEF SendHeard, SendMangled
  <2> QED
    BY <1>5, <1>a, <1>b, <2>1, <2>2, NoNewAnswers, CountsKept DEF WaitsNumbered
<1>6. CASE UNCHANGED vars
  BY <1>6 DEF vars, NumbersInv, WaitsNumbered, Numbered, Each, Following, True
<1> QED
  BY <1>1, <1>2, <1>3, <1>4, <1>5, <1>6 DEF Next

\* NotMixedUp: for any registers, number of answers under way and bus of these drivers, an answer
\* that names its request is never taken for that to another one.
THEOREM AnswersNotMixedUp == Spec => []NotMixedUp
<1>1. Init => TypeOK /\ NumbersInv /\ CommandsInv
  <2> SUFFICES ASSUME Init PROVE NumbersInv /\ CommandsInv
    BY InitType
  <2>1. Elements(coming) = {} /\ Elements(line) = {}
    BY EmptyElements DEF Init
  <2> QED
    BY <2>1 DEF Init, NumbersInv, CommandsInv, WaitsNumbered
<1> QED
  BY <1>1, StepType, NumbersStep, CommandsStep, Answered, PTL DEF Spec
-----------------------------------------------------------------------------
(* Answers that are missed. *)

LEMMA ComparedFields ==
  ASSUME NEW one \in Drivers, NEW command \in Commands
  PROVE  one.checks[command] \subseteq Compared
<1>1. /\ ModbusRtu.checks[command] \subseteq Compared /\ ModbusRtuForced.checks[command] \subseteq Compared
      /\ ModbusTcp.checks[command] \subseteq Compared /\ Pulsar.checks[command] \subseteq Compared
      /\ EnergomeraCe.checks[command] \subseteq Compared /\ Mercury200.checks[command] \subseteq Compared
  BY DEF Plain, ModbusRtu, ModbusRtuForced, ModbusTcp, Pulsar, EnergomeraCe, Mercury200, Both, Commands, Compared
<1>2. /\ Lls.checks[command] \subseteq Compared /\ Ivtm.checks[command] \subseteq Compared
      /\ Uniel.checks[command] \subseteq Compared /\ S2k.checks[command] \subseteq Compared
      /\ Mercury230.checks[command] \subseteq Compared /\ Milur.checks[command] \subseteq Compared
      /\ MilurLongAddress.checks[command] \subseteq Compared
  BY DEF Plain, Lls, Ivtm, Uniel, S2k, Em, Mercury230, Milur, MilurLongAddress, Both, Commands, Compared
<1>3. /\ Dooya.checks[command] \subseteq Compared /\ WinDeco.checks[command] \subseteq Compared
      /\ Somfy.checks[command] \subseteq Compared /\ Aok.checks[command] \subseteq Compared
  BY DEF Plain, Dooya, WinDeco, Somfy, Aok, Both, Commands, Compared
<1>4. /\ Dlms.checks[command] \subseteq Compared /\ IecModeC.checks[command] \subseteq Compared
      /\ EnergomeraFastRead.checks[command] \subseteq Compared
  BY DEF Plain, Dlms, IecModeC, EnergomeraFastRead, Both, Commands, Compared
<1> QED
  BY <1>1, <1>2, <1>3, <1>4 DEF Drivers

\* A device without sessions never answers that it has none.
KindInv ==
  \A a \in Elements(coming) \union Elements(line) :
    driver[a.device].session = "none" => a.kind = "value"

LEMMA KindStep == TypeOK /\ KindInv /\ [Next]_vars => KindInv'
<1> SUFFICES ASSUME TypeOK, KindInv, [Next]_vars PROVE KindInv'
  OBVIOUS
<1>1. CASE SendHeard \/ SendMangled
  <2>1. PICK a \in Answers :
          Send(<<a>>) /\ (driver[a.device].session = "none" => a.kind = "value")
    <3>1. /\ AnswerOf(request.device, Sent) \in Answers
          /\ [AnswerOf(request.device, Sent) EXCEPT !.intact = FALSE] \in Answers
      BY <1>1, AnswerType DEF SendHeard, SendMangled
    <3> QED
      BY <1>1, <3>1 DEF SendHeard, SendMangled, AnswerOf, InSession
  <2>2. coming \in Seq(Answers) /\ coming' = coming \o <<a>> /\ driver' = driver
    BY <2>1 DEF Send, TypeOK
  <2>3. coming' = Append(coming, a)
    BY <2>2, SentElements
  <2>4. Elements(Append(coming, a)) = Elements(coming) \union {a}
    BY <2>2, AppendElements
  <2>5. Elements(line') \subseteq Elements(line)
    BY <2>1, EmptyElements DEF Send, LineSent
  <2> QED
    BY <2>1, <2>2, <2>3, <2>4, <2>5 DEF KindInv
<1>2. CASE Arrive
  BY <1>2, NoNewAnswers, ArriveElements DEF KindInv, SendHeard, SendMangled, Send, Arrive
<1>3. CASE ~(SendHeard \/ SendMangled \/ Arrive)
  BY <1>3, NoNewAnswers DEF KindInv
<1> QED
  BY <1>1, <1>2, <1>3

Steady(d) == Resynchronizes(driver[d])
Behind == \E d \in Devices : missed[d] > 0
Sound == \A a \in Elements(coming) \union Elements(line) : a.intact
Right(a) == True(a) /\ a.id = request.id /\ a.kind = "value" /\ a.intact

\* The answer to a clean request that the device hears is still to come or on the line. Nothing else is
\* still to come, and nothing is on the line but what the numbers of the requests tell from it.
AnswerReady ==
  /\ Audible(request.device)
  /\ \A a \in Elements(coming) : Right(a)
  /\ \E a \in Elements(coming) \union Elements(line) : Right(a)
  /\ \/ Each(request.device)
     \/ coming = <<>> /\ Len(line) = 1
     \/ Len(coming) = 1 /\ line = <<>>

\* Only numbered devices ever miss the answer to a clean request, that is on a bus where all are
\* numbered and nothing changes the settings, so that all hear what they are asked: what they find there instead was mangled, and throwing
\* it away leaves nothing behind that would be in the way of the next answer.
CatchUpInv ==
  /\ \A d \in Devices : missed[d] <= 1 /\ (missed[d] > 0 => Each(d))
  /\ (\E d \in Devices : Each(d)) => settings = "port"
  /\ request # None => open
  /\ Behind /\ (pc = "idle" \/ clean) => Sound
  /\ clean /\ request # None /\ Steady(request.device) /\ Audible(request.device) =>
       (pc = "send" /\ coming = <<>>) \/ (pc = "wait" /\ AnswerReady)

LEMMA AllNumbered ==
  ASSUME TypeOK, NEW d \in Devices, NEW e \in Devices, Each(d)
  PROVE  Each(e) /\ Steady(e)
<1>1. Each(e)
  BY TcpAssumption DEF TypeOK, Each
<1> QED
  BY <1>1, NumberedDriver DEF Steady, Resynchronizes, Each

\* The device that is asked, when some device has missed an answer.
LEMMA BehindNumbered ==
  ASSUME TypeOK, CatchUpInv, Behind, NEW d \in Devices
  PROVE  Each(d) /\ Steady(d) /\ settings = "port"
BY AllNumbered DEF Behind, CatchUpInv

LEMMA UnheardNotBehind ==
  ASSUME TypeOK, CatchUpInv, request # None, ~Audible(request.device)
  PROVE  \A d \in Devices : missed[d] = 0
<1>1. request.device \in Devices /\ \A d \in Devices : missed[d] \in 0..2
  BY DEF TypeOK, Requests
<1>2. ASSUME Behind PROVE FALSE
  <2>1. Each(request.device) /\ settings = "port"
    BY <1>1, <1>2, BehindNumbered
  <2>2. driver[request.device].settings = "port"
    BY <1>1, <2>1, NumberedDriver
  <2> QED
    BY <2>1, <2>2 DEF Audible
<1> QED
  BY <1>1, <1>2 DEF Behind

\* The end of an exchange or of a pause that leaves no more answers missed.
LEMMA EndCatchUp ==
  ASSUME TypeOK, TypeOK', CatchUpInv, request' = None, UNCHANGED <<driver, settings>>,
         \/ \A d \in Devices : missed'[d] = 0
         \/ /\ \A d \in Devices : missed'[d] <= missed[d]
            /\ Elements(coming') \subseteq Elements(coming) /\ Elements(line') \subseteq Elements(line)
            /\ Behind => Sound
  PROVE  CatchUpInv'
<1>1. \A d \in Devices : missed[d] \in 0..2 /\ missed'[d] \in 0..2
  BY DEF TypeOK
<1>2. \A d \in Devices : Each(d)' = Each(d)
  BY DEF Each
<1>3. CASE \A d \in Devices : missed'[d] = 0
  BY <1>2, <1>3 DEF CatchUpInv, Behind
<1>4. CASE /\ \A d \in Devices : missed'[d] <= missed[d]
           /\ Elements(coming') \subseteq Elements(coming) /\ Elements(line') \subseteq Elements(line)
           /\ Behind => Sound
  <2>1. Behind' => Behind
    BY <1>1, <1>4 DEF Behind
  <2>2. Behind' => Sound'
    BY <1>4, <2>1 DEF Sound
  <2>3. \A d \in Devices : missed'[d] <= 1 /\ (missed'[d] > 0 => Each(d)')
    BY <1>1, <1>2, <1>4 DEF CatchUpInv
  <2> QED
    BY <1>2, <2>2, <2>3 DEF CatchUpInv
<1> QED
  BY <1>3, <1>4

\* What a driver that catches up finds on the line after a clean request: its answer, or something
\* mangled before it.
LEMMA FindsAnswer ==
  ASSUME TypeOK, NumbersInv, KindInv, CatchUpInv, Waiting, clean, Steady(request.device), ~Skipped,
         Audible(request.device),
         Taken.intact \/ Behind \/ ~Each(request.device)
  PROVE  Right(Taken) /\ Accepted
<1>1. request \in Requests /\ request # None /\ request.device \in Devices
  BY DEF Waiting, TypeOK, Requests
<1>2. AnswerReady /\ line # <<>> /\ Head(line) \in Elements(line)
  BY <1>1, TailElements DEF CatchUpInv, Waiting, TypeOK
<1>3. Right(Taken)
  <2>1. CASE ~Each(request.device)
    <3>1. (coming = <<>> /\ Len(line) = 1) \/ (Len(coming) = 1 /\ line = <<>>)
      BY <1>2, <2>1 DEF AnswerReady
    <3>2. coming = <<>> /\ Len(line) = 1
      BY <1>2, <3>1
    <3>3. PICK a \in Elements(line) : Right(a)
      BY <1>2, <3>2, EmptyElements DEF AnswerReady
    <3>4. a = line[1] /\ Head(line) = line[1]
      BY <1>2, <3>2, <3>3, TailElements DEF Elements, TypeOK
    <3>5. Right(Head(line))
      BY <3>3, <3>4
    <3>6. Taken = Head(line)
      BY <3>2, <3>5 DEF Taken, Right, True
    <3> QED
      BY <3>5, <3>6
  <2>2. CASE Each(request.device)
    <3>1. Numbered
      BY <2>2 DEF Each, Numbered
    <3>2. Head(line).device \in Devices
      BY <1>2, ElementType
    <3>3. Each(Head(line).device)
      BY <1>1, <2>2, <3>2, AllNumbered
    <3>4. driver[request.device] = ModbusTcp /\ driver[Head(line).device] = ModbusTcp
      BY <1>1, <2>2, <3>2, <3>3, NumberedIsTcp
    <3>5. driver[request.device].takes = "frame"
      BY <1>1, <2>2, NumberedDriver
    <3>6. Taken = Head(line)
      BY <3>4, <3>5 DEF Taken
    <3>7. Taken.intact
      <4>1. Behind => Head(line).intact
        BY <1>2 DEF CatchUpInv, Sound
      <4> QED
        BY <2>2, <3>6, <4>1
    <3>8. Taken.id = request.id
      BY <3>1, <3>7 DEF Skipped
    <3>9. True(Taken)
      BY <1>2, <3>1, <3>3, <3>6, <3>8 DEF NumbersInv, WaitsNumbered, Waiting
    <3>10. Taken.kind = "value"
      BY <1>2, <3>2, <3>3, <3>6, NumberedDriver DEF KindInv
    <3> QED
      BY <3>7, <3>8, <3>9, <3>10 DEF Right
  <2> QED
    BY <2>1, <2>2
<1>4. Accepted
  <2>1. driver[request.device] \in Drivers /\ request.command \in Commands
    BY <1>1, BusesAssumption DEF TypeOK, Requests
  <2>2. Checked(driver[request.device], request) \subseteq Compared
    BY <2>1, ComparedFields DEF Checked
  <2>3. \A field \in Compared : Taken[field] = request[field]
    BY <1>3 DEF Right, True, Compared
  <2> QED
    BY <1>3, <2>2, <2>3 DEF Accepted, Matches, Right
<1> QED
  BY <1>3, <1>4
\* The actions that observe the end of an exchange.
LEMMA ObservedCatchUp ==
  ASSUME TypeOK, TypeOK', NumbersInv, KindInv, CatchUpInv, Accept \/ Refuse \/ TimedOut
  PROVE  CatchUpInv'
<1>r. request \in Requests /\ request # None /\ request.device \in Devices /\ pc = "wait"
  BY DEF Accept, Refuse, TimedOut, Waiting, TypeOK, Requests
<1>1. /\ UNCHANGED <<driver, settings>> /\ request' = None
      /\ coming' \in {coming, <<>>} /\ Elements(coming') \subseteq Elements(coming)
  <2>1. CASE Accept
    BY <2>1, FinishType, EmptyElements DEF Accept
  <2>2. CASE Refuse \/ TimedOut
    BY <2>2, <1>r, FailedType, EmptyElements DEF Refuse, TimedOut, Fail
  <2> QED
    BY <2>1, <2>2
<1>2. Elements(line') \subseteq Elements(line)
  BY LineType, EmptyElements DEF Accept, Refuse, TimedOut, Waiting
<1>3. missed[request.device] \in 0..2 /\ \A d \in Devices : missed[d] \in 0..2
  BY <1>r DEF TypeOK
<1>4. ASSUME NEW answered \in BOOLEAN, Observe(answered, FALSE) PROVE CatchUpInv'
  BY <1>1, <1>4, EndCatchUp DEF Observe
<1>d. ASSUME ~Audible(request.device), NEW answered \in BOOLEAN, NEW there \in BOOLEAN, Observe(answered, there)
      PROVE  CatchUpInv'
  <2>1. \A d \in Devices : missed'[d] = 0
    <3>1. \A d \in Devices : missed[d] = 0
      BY <1>r, <1>d, UnheardNotBehind
    <3>2. missed' = missed \/ missed' = [d \in Devices |-> 0]
      BY <1>d DEF Observe
    <3> QED
      BY <3>1, <3>2
  <2> QED
    BY <1>1, <2>1, EndCatchUp
<1>5. ASSUME NEW answered \in BOOLEAN, Observe(answered, TRUE), answered \/ ~Steady(request.device), clean,
             Audible(request.device)
      PROVE  CatchUpInv'
  <2>1. missed' = [missed EXCEPT ![request.device] = 0]
    BY <1>5 DEF Observe, Steady
  <2>2. \A d \in Devices : missed'[d] <= missed[d]
    <3>1. \A d \in Devices : missed'[d] \in {missed[d], 0}
      BY <1>r, <2>1 DEF TypeOK
    <3> QED
      BY <1>3, <3>1
  <2>3. Behind => Sound
    BY <1>5 DEF CatchUpInv
  <2> QED
    BY <1>1, <1>2, <2>2, <2>3, EndCatchUp
<1>6. CASE Accept
  <2>1. True(Taken) \in BOOLEAN /\ clean \in BOOLEAN /\ Observe(True(Taken), clean) /\ Waiting /\ Accepted
    BY <1>6 DEF Accept, True, TypeOK
  <2>2. clean /\ Steady(request.device) /\ Audible(request.device) => True(Taken)
    BY <2>1, FindsAnswer DEF Accepted, Matches, Right
  <2> QED
    BY <1>4, <1>5, <1>d, <2>1, <2>2
<1>7. CASE Refuse
  <2>1. Observe(FALSE, clean) /\ Waiting /\ ~Skipped /\ ~Accepted
    BY <1>7 DEF Refuse
  <2>2. CASE clean /\ Steady(request.device) /\ Audible(request.device)
    <3>1. ~Behind /\ Each(request.device) /\ ~Taken.intact
      BY <2>1, <2>2, FindsAnswer
    <3>2. \A d \in Devices : missed[d] = 0 /\ Each(d)
      BY <1>r, <1>3, <3>1, AllNumbered DEF Behind
    <3>3. Wrong = {"malformed"} /\ "malformed" \in driver[request.device].discards
      BY <1>r, <3>1, NumberedDriver DEF Wrong
    <3>4. line' = <<>>
      BY <1>7, <3>3 DEF Refuse
    <3>5. missed' = [missed EXCEPT ![request.device] = 1]
      <4>1. missed[request.device] = 0 /\ Observe(FALSE, TRUE)
        BY <1>r, <2>1, <2>2, <3>2 DEF Observe
      <4>2. (IF missed[request.device] < 2 THEN missed[request.device] + 1 ELSE missed[request.device]) = 1
        BY <4>1
      <4> QED
        BY <2>2, <4>1, <4>2 DEF Observe, Steady
    <3>6. \A d \in Devices : missed'[d] <= 1 /\ Each(d)'
      BY <1>r, <1>1, <3>2, <3>5 DEF Each, TypeOK
    <3>7. AnswerReady
      BY <1>r, <2>2 DEF CatchUpInv
    <3>8. Sound'
      BY <1>1, <3>4, <3>7, EmptyElements DEF Sound, AnswerReady, Right
    <3>9. settings' = "port"
      BY <1>r, <1>1, <3>2 DEF CatchUpInv
    <3> QED
      BY <1>1, <3>6, <3>8, <3>9 DEF CatchUpInv
  <2>3. CASE clean /\ ~Steady(request.device) /\ Audible(request.device)
    BY <1>5, <2>1, <2>3
  <2>4. CASE ~clean
    BY <1>4, <2>1, <2>4 DEF TypeOK
  <2>5. CASE ~Audible(request.device)
    BY <1>d, <2>1, <2>5 DEF TypeOK
  <2> QED
    BY <2>2, <2>3, <2>4, <2>5
<1>8. CASE TimedOut
  <2>1. Observe(FALSE, clean /\ coming = <<>>) /\ line = <<>>
    BY <1>8 DEF TimedOut
  <2>2. CASE clean /\ coming = <<>> /\ Audible(request.device)
    <3>1. ~Steady(request.device)
      BY <1>r, <2>1, <2>2, EmptyElements DEF CatchUpInv, AnswerReady
    <3> QED
      BY <1>5, <2>1, <2>2, <3>1
  <2>3. CASE ~(clean /\ coming = <<>>)
    <3>1. Observe(FALSE, FALSE)
      BY <2>1, <2>3 DEF Observe
    <3> QED
      BY <1>4, <3>1
  <2>4. CASE ~Audible(request.device)
    <3>1. PICK there \in BOOLEAN : Observe(FALSE, there)
      BY <2>1 DEF TypeOK
    <3> QED
      BY <1>d, <2>4, <3>1
  <2> QED
    BY <2>2, <2>3, <2>4
<1> QED
  BY <1>6, <1>7, <1>8

\* The answer to a clean request is the only one under way, and it is complete.
LEMMA SentCatchUp ==
  ASSUME TypeOK, TypeOK', KindInv', CatchUpInv, SendHeard
  PROVE  CatchUpInv'
<1>a. PICK answer : answer = AnswerOf(request.device, Sent)
  OBVIOUS
<1>1. /\ request \in Requests /\ request # None /\ request.device \in Devices /\ pc = "send" /\ pc' = "wait"
      /\ UNCHANGED <<driver, settings, open, missed, clean>> /\ request' = Sent
      /\ line' = LineSent /\ coming' = coming \o <<answer>> /\ Audible(request.device)
  BY <1>a DEF SendHeard, Send, Hears, TypeOK, Requests
<1>2. coming \in Seq(Answers) /\ line \in Seq(Answers) /\ answer \in Answers
  BY <1>1, <1>a, AnswerType DEF TypeOK
<1>3. coming' = Append(coming, answer)
  BY <1>1, <1>2, SentElements
<1>4. /\ Elements(coming') = Elements(coming) \union {answer}
      /\ Len(coming') = Len(coming) + 1 /\ Elements(line') \subseteq Elements(line)
  <2>1. /\ Elements(Append(coming, answer)) = Elements(coming) \union {answer}
        /\ Len(Append(coming, answer)) = Len(coming) + 1
    BY <1>2, AppendElements
  <2>2. Elements(line') \subseteq Elements(line)
    BY <1>1, EmptyElements DEF LineSent
  <2> QED
    BY <1>3, <2>1, <2>2
<1>5. /\ Sent.device = request.device /\ Sent.register = request.register /\ Sent.command = request.command
      /\ Sent \in Requests
  BY <1>1, AnswerType DEF Sent, Requests
<1>6. /\ answer.device = Sent.device /\ answer.register = Sent.register /\ answer.command = Sent.command
      /\ answer.id = Sent.id /\ answer.intact
  BY <1>5, <1>a DEF AnswerOf
<1>7. \A d \in Devices : Each(d)' = Each(d) /\ Steady(d)' = Steady(d)
  BY <1>1 DEF Each, Steady
<1>8. request' # None
  BY <1>1, <1>5, NoneAssumption
<1>9. Behind' /\ clean' => Sound'
  BY <1>1, <1>4, <1>6 DEF CatchUpInv, Behind, Sound
<1>10. ASSUME clean, Steady(request.device) PROVE AnswerReady'
  <2>1. coming = <<>>
    BY <1>1, <1>10 DEF CatchUpInv
  <2>2. Elements(coming') = {answer} /\ Len(coming') = 1
    BY <1>4, <2>1, EmptyElements
  <2>3. answer.kind = "value"
    BY <1>1, <1>5, <1>6, <1>10, <2>2 DEF KindInv, Steady, Resynchronizes
  <2>4. Right(answer)'
    BY <1>1, <1>6, <2>3 DEF Right, True
  <2>5. Each(request.device) \/ line' = <<>>
    BY <1>1, <1>10 DEF LineSent, Has, Steady, Resynchronizes, Each
  <2> QED
    <3>1. Audible(request.device)'
      BY <1>1, <1>5 DEF Audible
    <3>2. \A a \in Elements(coming') : Right(a)'
      BY <2>2, <2>4
    <3>3. \/ Each(request.device)'
          \/ Len(coming') = 1 /\ line' = <<>>
      BY <1>1, <1>5, <2>2, <2>5 DEF Each
    <3> QED
      BY <2>2, <3>1, <3>2, <3>3 DEF AnswerReady
<1> QED
  BY <1>1, <1>5, <1>7, <1>8, <1>9, <1>10 DEF CatchUpInv

\* Skipping and receiving: the answer that is waited for stays where it was or comes to the line.
LEMMA WaitingCatchUp ==
  ASSUME TypeOK, TypeOK', CatchUpInv, Skip \/ Arrive
  PROVE  CatchUpInv'
<1>1. /\ UNCHANGED <<driver, settings, open, missed, clean, request, pc>>
      /\ \A d : Each(d)' = Each(d) /\ Steady(d)' = Steady(d) /\ Audible(d)' = Audible(d)
      /\ \A a : Right(a)' = Right(a)
  BY DEF Skip, Arrive, observed, Each, Steady, Audible, Right, True
<1>2. coming \in Seq(Answers) /\ line \in Seq(Answers) /\ (request # None => request.device \in Devices)
  BY DEF TypeOK, Requests
<1>3. CASE Skip
  <2>1. Numbered /\ Each(request.device) /\ request # None /\ Waiting /\ line' = Left /\ coming' = coming
    BY <1>3 DEF Skip, Skipped, Numbered, Each, Waiting, TypeOK
  <2>2. line # <<>> /\ line' = Tail(line)
    BY <1>2, <2>1, NumberedDriver DEF Left, Waiting
  <2>3. Elements(line) = Elements(line') \union {Head(line)}
    BY <1>2, <2>2, HeadAndTail
  <2>4. ~Right(Head(line))
    <3>1. Taken.intact /\ Taken.id # request.id
      BY <1>3 DEF Skip, Skipped
    <3> QED
      BY <2>1, <3>1, TakenWhole DEF Right
  <2>5. Behind' /\ (pc' = "idle" \/ clean') => Sound'
    BY <1>1, <2>1, <2>3 DEF CatchUpInv, Behind, Sound
  <2>6. AnswerReady => AnswerReady'
    BY <1>1, <2>1, <2>3, <2>4 DEF AnswerReady, Audible, Each
  <2> QED
    BY <1>1, <2>5, <2>6, <2>1 DEF CatchUpInv, Waiting
<1>4. CASE Arrive
  <2>1. coming # <<>> /\ coming' = Tail(coming)
    BY <1>4 DEF Arrive
  <2>2. /\ Elements(coming) = Elements(coming') \union {Head(coming)}
        /\ Len(coming) \in Nat /\ Len(coming') = Len(coming) - 1
        /\ Head(coming) \in Answers /\ Head(coming).device \in Devices
    <3>1. /\ Len(coming) \in Nat /\ Len(coming') = Len(coming) - 1
          /\ Head(coming) \in Answers /\ Head(coming) \in Elements(coming)
      BY <1>2, <2>1, TailElements
    <3>2. Elements(coming) = Elements(coming') \union {Head(coming)}
      BY <1>2, <2>1, HeadAndTail
    <3> QED
      BY <3>1, <3>2 DEF Answers
  <2>3. open => line' = Append(line, Received(Head(coming)))
    BY <1>4 DEF Arrive
  <2>4. /\ open => Elements(line') = Elements(line) \union {Received(Head(coming))} /\ Len(line') = Len(line) + 1
        /\ ~open => line' = line
    BY <1>2, <1>4, <2>3, ArriveElements, AppendElements DEF Arrive
  <2>5. Audible(Head(coming).device) /\ Head(coming).intact => Received(Head(coming)) = Head(coming)
    BY <2>2 DEF Received, Answers
  <2>6. ASSUME Behind, pc = "idle" \/ clean PROVE Sound'
    <3>1. Sound /\ Audible(Head(coming).device)
      BY <2>2, <2>6, BehindNumbered, NumberedDriver DEF CatchUpInv, Audible
    <3> QED
      BY <2>2, <2>4, <2>5, <3>1 DEF Sound
  <2>7. ASSUME AnswerReady, open PROVE AnswerReady'
    <3>1. Right(Head(coming)) /\ Audible(Head(coming).device)
      BY <2>2, <2>7 DEF AnswerReady, Right, True
    <3>2. Received(Head(coming)) = Head(coming)
      BY <2>5, <3>1 DEF Right
    <3>3. Elements(line') = Elements(line) \union {Head(coming)}
      BY <2>4, <2>7, <3>2
    <3>4. Each(request.device) \/ (coming' = <<>> /\ Len(line') = 1)
      <4>1. ASSUME ~Each(request.device) PROVE Len(coming) = 1 /\ line = <<>>
        BY <2>1, <2>7, <4>1 DEF AnswerReady
      <4>2. ASSUME Len(coming) = 1, line = <<>> PROVE coming' = <<>> /\ Len(line') = 1
        BY <2>2, <2>4, <2>7, <4>2, EmptyElements, EmptySeq DEF TypeOK
      <4> QED
        BY <4>1, <4>2
    <3> QED
      BY <1>1, <2>2, <2>7, <3>1, <3>3, <3>4 DEF AnswerReady, Audible, Each
  <2>8. Behind' = Behind
    BY <1>1 DEF Behind
  <2> QED
    BY <1>1, <2>1, <2>6, <2>7, <2>8 DEF CatchUpInv
<1> QED
  BY <1>3, <1>4
LEMMA CatchUpStep ==
  TypeOK /\ TypeOK' /\ NumbersInv /\ KindInv /\ KindInv' /\ CatchUpInv /\ [Next]_vars => CatchUpInv'
<1> SUFFICES ASSUME TypeOK, TypeOK', NumbersInv, KindInv, KindInv', CatchUpInv, [Next]_vars PROVE CatchUpInv'
  OBVIOUS
<1>r. request # None => request \in Requests /\ request.device \in Devices
  BY DEF TypeOK, Requests
<1>m. \A d \in Devices : missed[d] \in 0..2
  BY DEF TypeOK
<1>1. ASSUME NEW d \in Devices, Poll(d) PROVE CatchUpInv'
  <2>1. PICK pair \in Asked(driver[d]) : Access(d, pair[1], pair[2])
    BY <1>1 DEF Poll
  <2>2. /\ pc = "idle" /\ open /\ UNCHANGED <<driver, open, coming, missed>>
        /\ request'.device = d /\ settings' = SettingsPrepared(d) /\ line' = LinePrepared(d)
        /\ clean' = (coming = <<>>)
        /\ pc' = IF driver[d].session \in {"talk", "blind"} /\ ~opened[d] THEN "connect" ELSE "send"
    BY <2>1 DEF Access
  <2>3. \A e : Each(e)' = Each(e) /\ Steady(e)' = Steady(e)
    BY <2>2 DEF Each, Steady
  <2>4. (\E e \in Devices : Each(e)) => settings' = "port"
    <3>1. ASSUME NEW e \in Devices, Each(e) PROVE settings' = "port"
      <4>1. \A x \in Devices : ~Meter(x)
        BY <3>1, AllNumbered, NumberedDriver DEF Meter
      <4>2. last = None \/ last \in Devices
        BY DEF TypeOK
      <4> QED
        BY <2>2, <3>1, <4>1, <4>2 DEF SettingsPrepared, SettingsLeft, Ended, CatchUpInv
    <3> QED
      BY <3>1
  <2>5. Behind' => Sound'
    <3>1. Elements(line') \subseteq Elements(line)
      BY <2>2, EmptyElements DEF LinePrepared, LineLeft
    <3> QED
      BY <2>2, <3>1 DEF CatchUpInv, Behind, Sound
  <2>6. Steady(d) => pc' = "send"
    BY <2>2 DEF Steady, Resynchronizes
  <2> QED
    BY <2>2, <2>3, <2>4, <2>5, <2>6 DEF CatchUpInv
<1>2. ASSUME NEW d \in Devices, PrepareFails(d) PROVE CatchUpInv'
  <2>1. driver' = driver /\ missed' = missed /\ TransferFailed(d, "read") /\ driver[d].session = "prepare"
    BY <1>2 DEF PrepareFails, OpensSession, observed
  <2>2. request' = None
    BY <2>1, FailedType
  <2>3. \A e \in Devices : ~Each(e)
    BY <2>1, AllNumbered, NumberedDriver
  <2> QED
    BY <2>1, <2>2, <2>3 DEF CatchUpInv, Behind, Each
<1>3. CASE OpenPort \/ RunTask
  <2>1. /\ UNCHANGED <<driver, coming, request, pc, missed>> /\ line' = <<>> /\ pc = "idle" /\ request = None
        /\ settings' \in {settings, "port"}
    BY <1>3 DEF OpenPort, RunTask, observed, TypeOK
  <2>2. Behind' => Sound'
    BY <2>1, EmptyElements DEF CatchUpInv, Behind, Sound
  <2> QED
    BY <2>1, <2>2 DEF CatchUpInv, Each
<1>4. CASE Connect \/ Reconnect
  <2>1. /\ UNCHANGED <<driver, settings, open, coming, request, clean, missed>>
        /\ request # None /\ pc # "idle" /\ pc' # "idle"
        /\ Elements(line') \subseteq Elements(line)
    BY <1>4, LineType, EmptyElements DEF Connect, Reconnect, Waiting, observed, TypeOK
  <2>2. clean => ~Steady(request.device)
    <3>1. CASE Connect
      BY <2>1, <3>1 DEF Connect, CatchUpInv
    <3>2. CASE Reconnect
      BY <3>2 DEF Reconnect, Steady, Resynchronizes
    <3> QED
      BY <1>4, <3>1, <3>2
  <2>3. Behind' /\ clean' => Sound'
    BY <2>1 DEF CatchUpInv, Behind, Sound
  <2> QED
    BY <2>1, <2>2, <2>3 DEF CatchUpInv, Each, Steady
<1>5. CASE ConnectFails
  <2>1. /\ request # None /\ TransferFailed(request.device, request.command) /\ UNCHANGED <<driver, settings>>
        /\ missed' = [d \in Devices |-> 0] \/ (~Audible(request.device) /\ missed' = missed)
    BY <1>5 DEF ConnectFails, Fail, Observe, TypeOK
  <2>2. request' = None
    BY <2>1, <1>r, FailedType
  <2>3. \A d \in Devices : missed'[d] = 0
    BY <2>1, UnheardNotBehind
  <2> QED
    BY <2>1, <2>2, <2>3, EndCatchUp
<1>6. CASE SendHeard
  BY <1>6, SentCatchUp
<1>7. CASE SendMangled \/ SendLost
  <2>1. /\ UNCHANGED <<driver, settings, open, missed>>
        /\ pc = "send" /\ pc' = "wait" /\ clean' = FALSE /\ request # None
    BY <1>7 DEF SendMangled, SendLost, Send, TypeOK
  <2> QED
    BY <2>1 DEF CatchUpInv, Each
<1>14. CASE SendUnheard
  <2>1. /\ UNCHANGED <<driver, settings, open, missed, clean>> /\ Send(<<>>) /\ ~Hears(request.device)
        /\ pc = "send" /\ pc' = "wait" /\ request # None
        /\ request'.device = request.device
    BY <1>14, <1>r DEF SendUnheard, Send, Sent, TypeOK, Requests
  <2>2. coming' = coming /\ Elements(line') \subseteq Elements(line)
    BY <2>1, SentElements, EmptyElements DEF Send, LineSent, TypeOK
  <2>3. Steady(request.device) => ~Audible(request.device)
    BY <2>1 DEF Steady, Resynchronizes, Hears
  <2>4. Behind' /\ clean' => Sound'
    BY <2>1, <2>2 DEF CatchUpInv, Behind, Sound
  <2> QED
    BY <2>1, <2>3, <2>4 DEF CatchUpInv, Each, Steady, Audible
<1>8. CASE SendSilent
  <2>1. /\ request # None /\ UNCHANGED <<driver, settings, missed>> /\ Finish(request.command, FALSE)
        /\ driver[request.device].writes = "silent"
    BY <1>8 DEF SendSilent, Silent, TypeOK
  <2>2. \A d \in Devices : ~Each(d)
    BY <1>r, <2>1, AllNumbered, NumberedDriver
  <2>3. request' = None
    BY <2>1, FinishType
  <2>4. \A d \in Devices : missed'[d] = 0
    BY <1>m, <2>1, <2>2 DEF CatchUpInv
  <2> QED
    BY <2>1, <2>3, <2>4, EndCatchUp
<1>9. CASE Skip \/ Arrive
  BY <1>9, WaitingCatchUp
<1>10. CASE Accept \/ Refuse \/ TimedOut
  BY <1>10, ObservedCatchUp
<1>11. CASE UNCHANGED <<driver, open, settings, coming, line, request, pc, clean, missed>>
  <2>1. /\ \A d : Each(d)' = Each(d) /\ Steady(d)' = Steady(d) /\ Audible(d)' = Audible(d)
        /\ \A a : Right(a)' = Right(a)
    BY <1>11 DEF Each, Steady, Audible, Right, True
  <2>2. AnswerReady' = AnswerReady /\ Behind' = Behind /\ Sound' = Sound
    BY <1>11, <2>1 DEF AnswerReady, Behind, Sound, Audible, Each
  <2> QED
    BY <1>11, <2>1, <2>2 DEF CatchUpInv
<1>12. ASSUME NEW d \in Devices, Restart(d) \/ ClosedPortCycle(d) PROVE CatchUpInv'
  BY <1>11, <1>12 DEF Restart, ClosedPortCycle, observed
<1>13. CASE UNCHANGED vars
  BY <1>11, <1>13 DEF vars
<1> QED
  BY <1>1, <1>2, <1>3, <1>4, <1>5, <1>6, <1>7, <1>8, <1>9, <1>10, <1>12, <1>13, <1>14 DEF Next

\* CatchesUp: on any bus of these drivers, with any number of answers under way, a driver without
\* sessions that clears the line before a request or numbers its requests misses at most one
\* answer in a row of a device that plays its part and hears its requests.
THEOREM DevicesCatchUp == Spec => []CatchesUp
<1>1. Init => TypeOK /\ NumbersInv /\ KindInv /\ CatchUpInv
  <2> SUFFICES ASSUME Init PROVE NumbersInv /\ KindInv /\ CatchUpInv
    BY InitType
  <2>1. Elements(coming) = {} /\ Elements(line) = {}
    BY EmptyElements DEF Init
  <2> QED
    BY <2>1 DEF Init, NumbersInv, KindInv, WaitsNumbered, CatchUpInv, Behind
<1>2. CatchUpInv => CatchesUp
  BY DEF CatchUpInv, CatchesUp
<1> QED
  BY <1>1, <1>2, StepType, NumbersStep, KindStep, CatchUpStep, PTL DEF Spec
=============================================================================
