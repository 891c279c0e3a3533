SPECIFICATION FairSpec
CONSTANTS
  Streams = {"fw"}
  Instance = "echo"
  Kind <- MCKind
  Dest <- MCDest
  HostBytes = 5
  DestBytes = 0
  Window = 5
  MaxWrte = 5
  Buf = 1
  ReadBuf = 1
  Exits = {}
  Closers = {}
CHECK_DEADLOCK FALSE
PROPERTIES LoopReturns
