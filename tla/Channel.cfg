SPECIFICATION Spec
CONSTANTS
  Channels <- PassChannels
  Values = {0, 1}
  Undefined = Undefined
INVARIANTS
  ErrorsNotHidden
  ErrorsEnd
  ValueShown
PROPERTIES
  PolledZeroHidden
