SPECIFICATION FairSpec
CONSTANTS
  d1 = d1
  d2 = d2
  Devices = {d1}
  Legacy = {}
  Components = {0, 1}
  Blocks = 3
  MaxRetries = 3
INVARIANTS
  LockHeldByTask
  FlashIntact
  StrandedIsShown
PROPERTIES
  UpdateEnds
