SPECIFICATION Spec
CONSTANTS
  Remotes = {7}
  Services = {"sync"}
  Requests = {"send", "data", "done"}
  Versions = {1}
  Closers = {}
  MaxWrites = 2
  MaxBus = 1
  MaxNoise = 0
  Restarts = FALSE
  MaxSlots = 8
  SqSize = 32
  MaxTx = 1
  Reorder = FALSE
  OsFails <- MayFail
  MaxFaults = 0
  MaxEvents = 0
INVARIANT
  FlowControl
CHECK_DEADLOCK FALSE
