SPECIFICATION Spec
CONSTANTS
  d1 = d1
  d2 = d2
  r1 = r1
  r2 = r2
  None = None
  Devices <- MCDevices
  Registers <- MCRegisters
  Asked <- MCAsked
  Buses <- MCBuses
  MaxUnread = 2
  MaxFailCycles = 1
  Ids = 4
INVARIANTS
  NotMixedUp
  MeterSettings
  CatchesUp
CHECK_DEADLOCK FALSE
