SPECIFICATION Spec
CONSTANTS
  Remotes = {7}
  Services = {"sync"}
  Requests = {"stat", "stathuge"}
  Versions = {1}
  Closers = {}
  MaxWrites = 1
  MaxBus = 1
  MaxNoise = 0
  Restarts = FALSE
  MaxSlots = 8
  SqSize = 32
  MaxTx = 1
  Reorder = FALSE
  OsFails <- Succeeds
  MaxFaults = 0
  MaxEvents = 0
INVARIANT
  NoPanic
CHECK_DEADLOCK FALSE
