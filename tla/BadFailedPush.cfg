SPECIFICATION Spec
CONSTANTS
  Streams = {"s1"}
  Paths <- MCPaths
  Numbers = {"1", "33188"}
  Mode = "33188"
  Scripts <- MCScripts
  OldFiles <- MCOld
  HeaderSize = 2
  IdSize = 1
  Chunk = 2
  MaxPayload = 5
  OldSize = 3
  OsFails = {TRUE, FALSE}
  Cuts = {}
  Persists = TRUE
  Closes = FALSE
  NoFile = NoFile
  Instance = "pushes"
CHECK_DEADLOCK FALSE
INVARIANTS AnsweredOnce
