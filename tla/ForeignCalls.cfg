SPECIFICATION FairSpec
CONSTANTS
  OcamlThreads = {o1}
  CThreads = {c1, c2}
  Errnos = {0, 1}
  MaxOcamlFrames = 5
  MaxCFrames = 3
  MaxFrames = 7
  MaxKeys = 1
  NoThread = NoThread
INVARIANTS
  TypeOK
  LockBalanced
  OcamlIsRegistered
  
  ExitedUnregistered
PROPERTY LockGranted
CHECK_DEADLOCK FALSE
