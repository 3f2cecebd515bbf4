SPECIFICATION Spec
CONSTANTS
  Requests = {r1, r2}
  Leaves = {l1, l2}
  TreeDepth = 3
  ZeroLeaf = ZeroLeaf
  ZeroRoot = ZeroRoot
  Missing = Missing
SYMMETRY Symmetry
CHECK_DEADLOCK FALSE
INVARIANTS
  TypeOK
  SentIsCreated
  RecordedWasSent
  CreatedOrReplaced
  RootIsOfOneTree
  ServedPathProves
