SPECIFICATION ListenerFairSpec
CONSTANTS
  Leaves = {1, 2, 3}
  MaxBlock = 2
  Missing = Missing
CHECK_DEADLOCK FALSE
INVARIANTS
  CursorCovers
PROPERTIES
  CursorMonotone
  EventsHandled
