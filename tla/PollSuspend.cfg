SPECIFICATION FairSpec
CONSTANTS
  meter = meter
  relay = relay
  m1 = m1
  m2 = m2
  r1 = r1
  r2 = r2
  None = None
  Devices = {meter}
  Registers = {m1, m2}
  DeviceOf <- MCDeviceOf
  HighPriority = {m2}
  Sporadic = {}
  SemiSporadic = {}
  FwDependent = {}
  Marked = {}
  FastModbus = {}
  WbDevices = {}
  SetupDevices = {meter}
  PartialSetup = {}
  ReconnectDisabled = {}
  MaxFailCycles = 1
  RpcDevices = {meter}
  SetPollDevices = {meter}
INVARIANTS
  SuspendIsolation
  BoundedEntries
PROPERTIES
  SuspendEnds
