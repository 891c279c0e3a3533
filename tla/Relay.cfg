SPECIFICATION FairSpec
CONSTANTS
  Streams = {"sh", "fw"}
  Instance = "mixed"
  Kind <- MCKind
  Dest <- MCDest
  HostBytes = 3
  DestBytes = 1
  Window = 3
  MaxWrte = 3
  Buf = 1
  ReadBuf = 1
  Exits = {"sh"}
  Closers = {"fw"}
CHECK_DEADLOCK FALSE
INVARIANTS TypeOK NothingLost DrainIsComplete
PROPERTIES LoopReturns Delivered Answered EndIsSeen
