SPECIFICATION FairSpec
CONSTANTS
  Streams = {"s1", "s2"}
  Paths <- MCPaths
  Numbers = {"1", "33188"}
  Mode = "33188"
  Scripts <- MCScripts
  OldFiles <- MCOld
  HeaderSize = 3
  IdSize = 1
  Chunk = 2
  MaxPayload = 5
  OldSize = 3
  OsFails = {TRUE, FALSE}
  Cuts = {}
  Persists = FALSE
  Closes = TRUE
  NoFile = NoFile
  Instance = "sessions"
CHECK_DEADLOCK FALSE
INVARIANTS InSync AnsweredOnce PullIsWhole
PROPERTIES OkayMeansStored KeepsPromise HandlerReturns PullEnds
