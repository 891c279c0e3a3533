SPECIFICATION FairSpec
CONSTANTS
  Streams = {"sh", "fw"}
  Instance = "deaf"
  Kind <- MCKind
  Dest <- MCDest
  HostBytes = 2
  DestBytes = 0
  Window = 0
  MaxWrte = 2
  Buf = 1
  ReadBuf = 1
  Exits = {}
  Closers = {}
CHECK_DEADLOCK FALSE
PROPERTIES Delivered
