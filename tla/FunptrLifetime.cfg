SPECIFICATION FairSpec
CONSTANTS
  Closures = {c1}
  Statics = {s1}
  Views = {v1, v2}
  Ptrs = {p1, p2}
  NoFn = NoFn
  NoView = NoView
  NoPtr = NoPtr
INVARIANTS
  LiveClosureUsable
  PassedUsable
  StaticMemoryKept
  CallbackHasCif
  
PROPERTIES
  DeadMemReleased
  DeadSpecReleased
CHECK_DEADLOCK FALSE
