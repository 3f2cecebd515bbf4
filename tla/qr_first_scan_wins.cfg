SPECIFICATION Spec
CONSTANTS
  Credentials = {c1}
  Refreshes = {r1, r2}
  Scans = {s1, s2}
  Second = 1
  TTL = 40
  MaxNow = 0
  None = None
  Forged = Forged
SYMMETRY Symmetry
CHECK_DEADLOCK FALSE
INVARIANT FirstScanWins
