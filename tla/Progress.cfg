SPECIFICATION FairSpec
CONSTANTS
  Remotes = {7}
  Services = {"shell", "sync", "unknown"}
  Requests = {"recv"}
  Versions = {1}
  Closers = {"shell"}
  MaxWrites = 1
  MaxBus = 1
  MaxNoise = 0
  Restarts = FALSE
  MaxSlots = 8
  SqSize = 32
  MaxTx = 1
  Reorder = FALSE
  OsFails <- Succeeds
  MaxFaults = 0
  MaxEvents = 0
PROPERTIES
  OpenAnswered
  WriteAcked
  SyncAnswered
  ClosedStreamsReleased
CHECK_DEADLOCK FALSE
