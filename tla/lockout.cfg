SPECIFICATION Spec
CONSTANTS
  Attempts = {a1, a2, a3, a4, a5}
  MaxAttempts = 2
  LockFor = 2
  MaxNow = 3
SYMMETRY Symmetry
CHECK_DEADLOCK FALSE
INVARIANT LockedUnlessMissed
PROPERTIES
  LockedOnlyAfterARow
  LiftedOnlyByEarlierLogin
