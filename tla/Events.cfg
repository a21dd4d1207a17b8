SPECIFICATION EventsFairSpec
CONSTANTS
  Devices = {1, 2}
  MaxEvents = 2
  ErrorEvents = {}
  MaxReadErrors = 1
INVARIANTS
  OutageEnds
PROPERTIES
  NoEventLost
  EventsArrive
