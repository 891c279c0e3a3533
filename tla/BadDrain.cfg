SPECIFICATION FairSpec
CONSTANTS
  Remotes = {7}
  Services = {"forward"}
  Requests = {}
  Versions = {1}
  Closers = {"forward"}
  MaxWrites = 1
  MaxBus = 1
  MaxNoise = 0
  Restarts = FALSE
  MaxSlots = 8
  SqSize = 32
  MaxTx = 1
  Reorder = FALSE
  OsFails <- Succeeds
  MaxFaults = 0
  MaxEvents = 0
PROPERTY
  ClosedStreamsReleased
CHECK_DEADLOCK FALSE
