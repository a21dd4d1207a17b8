SPECIFICATION FairSpec
CONSTANTS
  c1 = c1
  c2 = c2
  p1 = p1
  p2 = p2
  p3 = p3
  Clients = {c1, c2}
  Ports = {p1, p2, p3}
  MaxExecutors = 2
  Values = {1, 2}
  FileValue = 1
  NoValue = 0
  SerialClient = SerialClient
INVARIANTS
  AnsweredOnce
  
PROPERTIES
  ServedInOrder
  RequestsEnd
CHECK_DEADLOCK FALSE
