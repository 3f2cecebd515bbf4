SPECIFICATION Spec
CONSTANTS
  Credentials = {c1, c2}
  Refreshes = {r1, r2}
  Scans = {s1, s2, s3}
  Second = 2
  TTL = 1
  MaxNow = 3
  None = None
  Forged = Forged
SYMMETRY Symmetry
CHECK_DEADLOCK FALSE
INVARIANTS
  TypeOK
  OneScanPerUpsert
  StaleTokenRefused
  RefusalHasCause
  ExpiryWindow
PROPERTY ImplementsPermits
