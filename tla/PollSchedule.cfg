SPECIFICATION ScheduleSpec
CONSTANTS
  h1 = h1
  l1 = l1
  l2 = l2
  High = {h1}
  Low = {l2}
  Period <- MCPeriod
  Cost <- MCCost
  Unavailable = {}
  Suspendable = {l2}
  HasEvents = TRUE
  MinSpent = 3
  MaxSpent = 3
  MaxEventsSpent = 1
  MaxTask = 1
  MaxPollTime = 4
  ReadEventsPeriod = 4
  EmptyPeriod = 8
  Lag = 4
  Threshold = 3
  Never = 1000
  Horizon = 32
  EventsHorizon = 30
INVARIANTS
  LowNotStarved
  HighNotStarved
  PollsInTime
  EventsInTime
