SPECIFICATION FairSpec
CONSTANTS
  r1 = r1
  r2 = r2
  Registers = {r1}
  Values = {0, 1}
  NoRegister = NoRegister
  NoValue = NoValue
  MaxWriteFailTime = 1
  MaxSets = 3
INVARIANTS
  NothingForgotten
PROPERTIES
  WrittenOnce
  LastValueDelivered
  Resolved
