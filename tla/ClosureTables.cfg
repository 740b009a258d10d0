SPECIFICATION FairSpec
CONSTANTS
  Threads = {t1, t2}
  Closures = {c1}
  Statics = {s1}
  Boxes = {b1, b2}
  MaxKey = 3
  MaxRetrievals = 2
  NoThread = NoThread
  NoBox = NoBox
  NoFn = NoFn
INVARIANTS
  TablesExclusive
  LiveClosureIsBound
  RetrieveFindsLive
  NoOrphanEntry
  StaticTablesAgree
PROPERTIES
  
  CallsReturn
  DeadEntryRemoved
CHECK_DEADLOCK FALSE
