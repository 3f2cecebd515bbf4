SPECIFICATION Spec
CONSTANTS
  Users = {u1, u2}
  Codes = {c1, c2}
  Requests = {r1, r2, r3, r4}
  ResendLimit = 2
  None = None
SYMMETRY Symmetry
CHECK_DEADLOCK FALSE
INVARIANTS
  TypeOK
  StaleCodeRefused
  OtherCodeNeedsDeletion
  SpentCodeTookEffect
  LimitNeedsOverlap
