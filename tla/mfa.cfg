SPECIFICATION Spec
CONSTANTS
  Requests = {r1, r2, r3, r4, r5}
  Secrets = {s1, s2}
  None = None
SYMMETRY Symmetry
CHECK_DEADLOCK FALSE
INVARIANTS
  TypeOK
  SessionHadFactor
PROPERTIES
  SecretReplacedOnlyByRace
  DisabledOnlyWithItsCode
