SPECIFICATION Spec
CONSTANTS
  Remotes = {7}
  Services = {"shell"}
  Requests = {}
  Versions = {1}
  Closers = {}
  MaxWrites = 1
  MaxBus = 1
  MaxNoise = 1
  Restarts = TRUE
  MaxSlots = 8
  SqSize = 32
  MaxTx = 1
  Reorder = FALSE
  OsFails <- Succeeds
  MaxFaults = 0
  MaxEvents = 0
INVARIANT
  OneSession
CHECK_DEADLOCK FALSE
