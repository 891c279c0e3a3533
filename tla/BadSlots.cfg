SPECIFICATION Spec
CONSTANTS
  Remotes = {7, 8, 9}
  Services = {"shell"}
  Requests = {}
  Versions = {1}
  Closers = {}
  MaxWrites = 0
  MaxBus = 1
  MaxNoise = 0
  Restarts = FALSE
  MaxSlots = 8
  SqSize = 32
  MaxTx = 1
  Reorder = FALSE
  OsFails <- Succeeds
  MaxFaults = 0
  MaxEvents = 0
INVARIANT
  SlotsSuffice
CHECK_DEADLOCK FALSE
