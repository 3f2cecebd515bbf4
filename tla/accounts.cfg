SPECIFICATION Spec
CONSTANTS
  Emails = {e1, e2, e3}
  Requests = {r1, r2, r3, r4}
  None = None
SYMMETRY Symmetry
CHECK_DEADLOCK FALSE
INVARIANTS
  TypeOK
  OneAccountPerInvitation
  StaffInvited
  LostInvitationHasCause
PROPERTY ImplementsDirectory
