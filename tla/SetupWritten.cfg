SPECIFICATION Spec
CONSTANTS
  Addresses = {0, 1, 2, 3, 4}
  Configs <- MCConfigs
  MaxRead = 3
  MaxWrite = 2
  MaxHole = 1
INVARIANTS
  SetupWritten
CHECK_DEADLOCK FALSE
