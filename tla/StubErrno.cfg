SPECIFICATION StubSpec
CONSTANTS
  OcamlThreads = {o1}
  CThreads = {}
  Errnos = {0, 1}
  MaxOcamlFrames = 4
  MaxCFrames = 3
  MaxFrames = 7
  MaxKeys = 1
  NoThread = NoThread
INVARIANT StubErrnoIsCallees
CHECK_DEADLOCK FALSE
