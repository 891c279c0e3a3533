SPECIFICATION Spec
CONSTANTS
  Remotes = {7}
  Services = {"shell", "sync"}
  Requests = {"send"}
  Versions = {0}
  Closers = {}
  MaxWrites = 1
  MaxBus = 1
  MaxNoise = 1
  Restarts = TRUE
  MaxSlots = 2
  SqSize = 5
  MaxTx = 1
  Reorder = FALSE
  OsFails <- MayFail
  MaxFaults = 1
  MaxEvents = 1
CHECK_DEADLOCK FALSE
INVARIANTS WritesOwnTheirSlot LoopArmed SqNeverFull Driven
