SPECIFICATION Spec
CONSTANTS
  Users = {u1, u2}
  Requests = {r1, r2, r3, r4}
  None = None
SYMMETRY Symmetry
CHECK_DEADLOCK FALSE
INVARIANTS
  RevokedTokenMintsNothing
  OldPasswordSignedOut
PROPERTY OwnSessionsOnly
