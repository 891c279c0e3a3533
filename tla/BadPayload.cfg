SPECIFICATION Spec
CONSTANTS
  Streams = {"s1"}
  Paths <- MCPaths
  Numbers = {"1", "33188"}
  Mode = "33188"
  Scripts <- MCScripts
  OldFiles <- MCOld
  HeaderSize = 2
  IdSize = 1
  Chunk = 4
  MaxPayload = 3
  OldSize = 3
  OsFails = {FALSE}
  Cuts = {}
  Persists = FALSE
  Closes = FALSE
  NoFile = NoFile
  Instance = "pull"
CHECK_DEADLOCK FALSE
INVARIANTS PayloadFits
