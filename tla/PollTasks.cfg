SPECIFICATION Spec
CONSTANTS
  meter = meter
  relay = relay
  m1 = m1
  m2 = m2
  r1 = r1
  r2 = r2
  None = None
  Devices = {meter, relay}
  Registers = {m1, r1}
  DeviceOf <- MCDeviceOf
  HighPriority = {}
  Sporadic = {r1}
  SemiSporadic = {}
  FwDependent = {}
  Marked = {m1}
  FastModbus = {relay}
  WbDevices = {}
  SetupDevices = {relay}
  PartialSetup = {}
  ReconnectDisabled = {}
  MaxFailCycles = 1
  RpcDevices = {}
  SetPollDevices = {meter}
INVARIANTS
  NoLostEntry
  RegistersStayPolled
  ConnectedIsPrepared
