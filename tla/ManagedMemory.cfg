SPECIFICATION FairSpec
CONSTANTS
  Buffers = {1, 2}
  Views = {11, 12}
  Sizes = {0, 1}
  MaxRefs = 2
  MaxRoots = 1
  NoOwner = NoOwner
INVARIANTS
  ReferencesValid
  ViewKeepsSource
PROPERTY DeadFreed
CHECK_DEADLOCK FALSE
