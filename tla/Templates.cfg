SPECIFICATION Spec
CONSTANTS
  a = a
  b = b
  s1 = s1
  u1 = u1
  u2 = u2
  None = None
  Broken = Broken
  Types = {a, b}
  Versions = {1, 2}
  Shipped = {s1}
  User = {u1, u2}
  ByHand <- MCByHand
  Holds <- MCHolds
  Uploads <- MCUploads
  MaxEvents = 2
INVARIANTS
  FollowsDisk
  SchemasFollow
  UploadHolds
PROPERTIES
  OthersKept
CHECK_DEADLOCK FALSE
