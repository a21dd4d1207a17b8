---------------------------- MODULE PollSchedule ----------------------------
(***************************************************************************)
(* How the serial thread divides its time (poll_plan.h, serial_client.cpp, *)
(* serial_client_register_poller.cpp): a balancer chooses between reading  *)
(* events (high priority) and polling (low priority), and the scheduler of *)
(* the poller between pollables with a read period (high) and without one  *)
(* (low).  Both are a TScheduler: two queues by deadline and a balance of  *)
(* the time spent for each of them.                                        *)
(*                                                                         *)
(* Times are integers (milliseconds of the code) relative to now; a        *)
(* deadline that is not positive has come.  The rate limit is off.         *)
(***************************************************************************)
EXTENDS Integers

CONSTANTS
  High, Low,        \* pollables with and without read_period_ms
  Period,           \* pollable -> time between two polls (0: as soon as possible)
  Cost,             \* pollable -> estimated time of a read
  Unavailable,      \* pollables whose registers may all turn out to be unsupported
  Suspendable,      \* pollables that RPC requests suspend and resume
  HasEvents,        \* some device has registers with events
  MinSpent,         \* the shortest and
  MaxSpent,         \* the longest read, with retries and timeouts
  MaxEventsSpent,   \* the longest reading of events
  MaxTask,          \* the longest time the tasks of a cycle take
  MaxPollTime,      \* MAX_POLL_TIME
  ReadEventsPeriod, \* ReadEventsPeriod of the port
  EmptyPeriod,      \* how long an empty scheduler is left alone
  Lag,              \* MAX_LOW_PRIORITY_LAG
  Threshold,        \* BALANCING_THRESHOLD
  Never,            \* the deadline of an empty queue, later than any other
  Horizon,          \* deadlines that are over for longer are all the same
  EventsHorizon     \* and so are events that wait for longer

Pollables == High \cup Low

ASSUME ScheduleAssumption ==
  /\ High \cap Low = {}
  /\ Period \in [Pollables -> Nat]
  /\ Cost \in [Pollables -> Nat]
  /\ Unavailable \subseteq Pollables
  /\ Suspendable \subseteq Pollables
  /\ HasEvents \in BOOLEAN
  /\ MinSpent \in Nat \ {0}
  /\ MaxSpent \in Nat
  /\ MaxEventsSpent \in Nat
  /\ MaxTask \in Nat
  /\ MaxPollTime \in Nat
  /\ ReadEventsPeriod \in Nat
  /\ EmptyPeriod \in Nat
  /\ Lag \in Nat \ {0}
  /\ Threshold \in Nat
  /\ Horizon \in Nat
  /\ EventsHorizon \in Nat
  /\ Never \in Nat
  /\ Never > MaxPollTime /\ Never > ReadEventsPeriod /\ Never > EmptyPeriod
  /\ \A p \in Pollables : Never > Period[p]

VARIABLES
  due,         \* pollable -> deadline of its entry in the scheduler, or Never
  total,       \* TotalTime of the scheduler
  balance,     \* TotalTime of the balancer
  pollDue,     \* deadline of the POLLING entry of the balancer
  eventsDue,   \* deadline of its EVENTS entry, Never without one
  events,      \* some device has events enabled
  tooSmall,    \* LastCycleWasTooSmallToPoll
  phase,       \* the thread waits, or is about to read events or to poll
  emptied,     \* pollables whose queue holds nothing that can be read
  lowSkipped,  \* history: time of high priority polls since a low priority one
               \* was due but not read
  highSkipped, \* history: the same with the priorities exchanged
  eventsAge    \* history: time since events were read or enabled

scheduleVars == <<due, total, balance, pollDue, eventsDue, events, tooSmall, phase, emptied,
                  lowSkipped, highSkipped, eventsAge>>

Lower(a, b) == IF a < b THEN a ELSE b
Upper(a, b) == IF a < b THEN b ELSE a

-----------------------------------------------------------------------------
(* TTotalTimeBalancer and TScheduler with a given lag; highDue and lowDue  *)
(* are the deadlines of its queues.                                        *)

\* Mutant: time of low priority is not subtracted.
MutantKept(time, lag, spent) == time

IncrementTotalTime(time, lag, spent) == Lower(time + spent, 2 * lag)
DecrementTotalTime(time, lag, spent) == Upper(time - spent, -2 * lag)

\* Mutant: high priority is chosen whenever it is ready.
MutantNeverForced(time, lag, highDue) == highDue = Never

ShouldSelectLowPriority(time, lag, highDue) == time >= lag \/ highDue = Never

SelectsHigh(time, lag, highDue, lowDue) ==
  highDue <= 0 /\ (ShouldSelectLowPriority(time, lag, highDue) => lowDue > 0)

SelectsLow(time, lag, highDue, lowDue) ==
  lowDue <= 0 /\ ~SelectsHigh(time, lag, highDue, lowDue)

\* The time a low priority item may take.
LowPriorityPollLimit(time, lag, highDue) ==
  IF highDue > 0 THEN highDue ELSE Upper(time - lag, 0)

-----------------------------------------------------------------------------
Earliest(S) ==
  IF S = {} THEN Never
  ELSE CHOOSE t \in {due[p] : p \in S} : \A p \in S : t <= due[p]

HighDue == Earliest(High)
LowDue == Earliest(Low)

\* A time that is over counts as over for at most Horizon.
Earlier(time, t) == IF time = Never THEN Never ELSE Upper(time - t, -Horizon)

\* TSerialClientRegisterPoller::GetDeadline, spent after the start of the poll.
NextPoll(d, spent) ==
  IF \A p \in Pollables : d[p] = Never THEN Earlier(EmptyPeriod, spent)
  ELSE CHOOSE t \in {d[p] : p \in Pollables} : \A p \in Pollables : t <= d[p]

\* The entry on top of a queue.
Top(p, S) == p \in S /\ due[p] = Earliest(S)

\* The age of events that are still enabled.
Ages(t) == eventsAge' = IF events /\ events' THEN Lower(eventsAge + t, EventsHorizon) ELSE 0

ScheduleInit ==
  /\ due = [p \in Pollables |-> 0]
  /\ total = 0
  /\ balance = 0
  /\ pollDue = 0
  /\ eventsDue = Never
  /\ events = FALSE
  /\ tooSmall = FALSE
  /\ phase = "wait"
  /\ emptied = {}
  /\ lowSkipped = 0
  /\ highSkipped = 0
  /\ eventsAge = 0

-----------------------------------------------------------------------------
(* TSerialClient::OpenPortCycle: WaitForPollAndFlush.                      *)

WaitingTime == Upper(0, Lower(Lower(pollDue, eventsDue), MaxPollTime))

\* The thread sleeps until the first deadline, or runs tasks for longer; a write
\* may connect or disconnect a device.  The time after a poll that was too long
\* for the limit counts as time of events; it is rounded up.
Wait(task, rounding, enabled) ==
  LET idle == WaitingTime + task
  IN /\ phase = "wait"
     /\ events' = IF task = 0 THEN events ELSE enabled /\ HasEvents
     /\ due' = [p \in Pollables |-> Earlier(due[p], idle)]
     /\ pollDue' = Earlier(pollDue, idle)
     /\ eventsDue' = Earlier(eventsDue, idle)
     /\ balance' = IF tooSmall
                   THEN IncrementTotalTime(balance, Threshold, Upper(idle + rounding, 1))
                   ELSE balance
     /\ phase' = "cycle"
     /\ Ages(idle)
     /\ UNCHANGED <<total, tooSmall, emptied, lowSkipped, highSkipped>>

-----------------------------------------------------------------------------
(* TSerialClientRegisterAndEventsReader::OpenPortCycle.                    *)

EventsSelected == phase = "cycle" /\ SelectsHigh(balance, Threshold, eventsDue, pollDue)
PollSelected == phase = "cycle" /\ SelectsLow(balance, Threshold, eventsDue, pollDue)

\* Neither is ready.
NotReady ==
  /\ phase = "cycle"
  /\ eventsDue > 0 /\ pollDue > 0
  /\ phase' = "wait"
  /\ UNCHANGED <<due, total, balance, pollDue, eventsDue, events, tooSmall, emptied,
                 lowSkipped, highSkipped, eventsAge>>

\* Events are read for a while; a reboot may disable them.
ReadEvents(spent, enabled) ==
  /\ EventsSelected
  /\ events
  /\ events' = enabled
  /\ due' = [p \in Pollables |-> Earlier(due[p], spent)]
  /\ pollDue' = Earlier(pollDue, spent)
  /\ eventsDue' = Earlier(ReadEventsPeriod, spent)
  /\ balance' = IncrementTotalTime(balance, Threshold, spent)
  /\ phase' = "wait"
  /\ eventsAge' = 0
  /\ UNCHANGED <<total, tooSmall, emptied, lowSkipped, highSkipped>>

\* No device has events: the entry is removed.
DropEvents ==
  /\ EventsSelected
  /\ ~events
  /\ eventsDue' = Never
  /\ phase' = "wait"
  /\ UNCHANGED <<due, total, balance, pollDue, events, tooSmall, emptied,
                 lowSkipped, highSkipped, eventsAge>>

-----------------------------------------------------------------------------
(* TSerialClientRegisterPoller::OpenPortCycle under the limits of the      *)
(* balancer.                                                               *)

MaxPollingTime == Lower(LowPriorityPollLimit(balance, Threshold, eventsDue), MaxPollTime)

\* Mutant: a forced poll obeys the limit like any other.
MutantNotAtLeastOne == ~events

ReadAtLeastOneRegister == ShouldSelectLowPriority(balance, Threshold, eventsDue) \/ ~events

HighSelected(p) == Top(p, High) /\ SelectsHigh(total, Lag, HighDue, LowDue)
LowSelected(p) == Top(p, Low) /\ SelectsLow(total, Lag, HighDue, LowDue)

\* TPollableDevice::ReadRegisterRange finds something to read.
Fits(p) ==
  /\ p \notin emptied
  /\ IF p \in High
     THEN Cost[p] <= MaxPollingTime \/ ReadAtLeastOneRegister
     ELSE \/ Cost[p] <= Lower(MaxPollingTime, LowPriorityPollLimit(total, Lag, HighDue))
          \/ ReadAtLeastOneRegister /\ ShouldSelectLowPriority(total, Lag, HighDue)

\* Mutant: only reading events adds the entry.
MutantEventsNotAdded(spent) == eventsDue' = Earlier(eventsDue, spent)

\* After a poll the EVENTS entry is added if events are enabled and it is missing.
AddEvents(spent) ==
  eventsDue' = IF events' /\ eventsDue = Never THEN Earlier(ReadEventsPeriod, spent)
               ELSE Earlier(eventsDue, spent)

\* The poll connects or disconnects a device: events are enabled or not.
PollChanges(spent, enabled) ==
  /\ events' = (enabled /\ HasEvents)
  /\ AddEvents(spent)
  /\ Ages(spent)
  /\ phase' = "wait"

\* A range of the pollable is read, and its entry added with the next deadline.
Read(p, spent) ==
  /\ Fits(p)
  /\ due' = [q \in Pollables |-> Earlier(IF q = p THEN Period[q] ELSE due[q], spent)]
  /\ pollDue' = NextPoll(due', spent)
  /\ balance' = DecrementTotalTime(balance, Threshold, spent)
  /\ tooSmall' = FALSE
  /\ emptied' \in {emptied} \cup {emptied \cup {p} : q \in Unavailable \cap {p}}

PollHigh(p, spent, enabled) ==
  /\ PollSelected
  /\ HighSelected(p)
  /\ Read(p, spent)
  /\ PollChanges(spent, enabled)
  /\ total' = IncrementTotalTime(total, Lag, spent)
  /\ lowSkipped' = IF LowDue <= 0 THEN lowSkipped + spent ELSE 0
  /\ highSkipped' = 0

PollLow(p, spent, enabled) ==
  /\ PollSelected
  /\ LowSelected(p)
  /\ Read(p, spent)
  /\ PollChanges(spent, enabled)
  /\ total' = DecrementTotalTime(total, Lag, spent)
  /\ lowSkipped' = 0
  /\ highSkipped' = IF HighDue <= 0 THEN highSkipped + spent ELSE 0

\* Nothing fits in the limits: NotEnoughTime.
PollTooLong(p) ==
  /\ PollSelected
  /\ HighSelected(p) \/ LowSelected(p)
  /\ ~Fits(p)
  /\ pollDue' = IF p \in High THEN MaxPollingTime ELSE Lower(HighDue, MaxPollingTime)
  /\ tooSmall' = TRUE
  /\ phase' = "wait"
  /\ UNCHANGED <<due, total, balance, events, emptied, lowSkipped, highSkipped, eventsAge>>
  /\ AddEvents(0)

\* No entry is ready; the time this takes is rounded up.
PollNothing(rounding) ==
  /\ PollSelected
  /\ HighDue > 0 /\ LowDue > 0
  /\ pollDue' = NextPoll(due, 0)
  /\ balance' = DecrementTotalTime(balance, Threshold, rounding)
  /\ tooSmall' = FALSE
  /\ phase' = "wait"
  /\ UNCHANGED <<due, total, events, emptied, lowSkipped, highSkipped, eventsAge>>
  /\ AddEvents(0)

-----------------------------------------------------------------------------
(* SuspendPoll and ResumePoll of RPC requests, between any two sections.   *)

SuspendPoll(p) ==
  /\ p \in Suspendable
  /\ due[p] # Never
  /\ due' = [due EXCEPT ![p] = Never]
  /\ UNCHANGED <<total, balance, pollDue, eventsDue, events, tooSmall, phase, emptied,
                 lowSkipped, highSkipped, eventsAge>>

ResumePoll(p) ==
  /\ p \in Suspendable
  /\ due[p] = Never
  /\ due' = [due EXCEPT ![p] = 0]
  /\ UNCHANGED <<total, balance, pollDue, eventsDue, events, tooSmall, phase, emptied,
                 lowSkipped, highSkipped, eventsAge>>

-----------------------------------------------------------------------------
ScheduleNext ==
  \/ \E task \in 0..MaxTask, rounding \in {0, 1}, enabled \in BOOLEAN : Wait(task, rounding, enabled)
  \/ NotReady \/ DropEvents
  \/ \E spent \in 1..MaxEventsSpent, enabled \in BOOLEAN : ReadEvents(spent, enabled)
  \/ \E p \in Pollables, spent \in MinSpent..MaxSpent, enabled \in BOOLEAN :
       PollHigh(p, spent, enabled) \/ PollLow(p, spent, enabled)
  \/ \E p \in Pollables : PollTooLong(p)
  \/ \E rounding \in {0, 1} : PollNothing(rounding)
  \/ \E p \in Pollables : SuspendPoll(p) \/ ResumePoll(p)

ScheduleSpec == ScheduleInit /\ [][ScheduleNext]_scheduleVars

-----------------------------------------------------------------------------
Deadlines == -Horizon..Never

ScheduleTypeOK ==
  /\ due \in [Pollables -> Deadlines]
  /\ total \in -2 * Lag..2 * Lag
  /\ balance \in -2 * Threshold..2 * Threshold
  /\ pollDue \in Deadlines
  /\ eventsDue \in Deadlines
  /\ events \in BOOLEAN
  /\ tooSmall \in BOOLEAN
  /\ phase \in {"wait", "cycle"}
  /\ emptied \subseteq Pollables
  /\ lowSkipped \in Nat
  /\ highSkipped \in Nat
  /\ eventsAge \in 0..EventsHorizon

\* A low priority pollable that is due is passed over for a bounded time of high
\* priority polls.
LowNotStarved == lowSkipped <= 3 * Lag + MaxSpent

\* A high priority pollable that is due is passed over for a bounded time of low
\* priority polls.
HighNotStarved == highSkipped <= Lag + MaxSpent

\* README.md:469: registers without a read period are read in the time the others
\* leave.  Whatever the two balancers do to each other, every pollable with
\* something to read is read before it is late by Horizon,
PollsInTime == \A p \in Pollables \ emptied : due[p] > -Horizon

\* and the events of the devices are read before they wait for EventsHorizon.
EventsInTime == eventsAge < EventsHorizon
=============================================================================
