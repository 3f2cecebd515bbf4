SPECIFICATION TreeSpec
CONSTANTS
  Requests = {i1, i2}
  Leaves = {l1, l2}
  TreeDepth = 2
  ZeroLeaf = ZeroLeaf
  ZeroRoot = ZeroRoot
  Missing = Missing
SYMMETRY Symmetry
CHECK_DEADLOCK FALSE
INVARIANT EveryLeafAdded
