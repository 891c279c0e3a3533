SPECIFICATION Spec
CONSTANTS
  Remotes = {7, 8}
  Services = {"shell", "forward"}
  Requests = {}
  Versions = {1}
  Closers = {}
  MaxWrites = 0
  MaxBus = 1
  MaxNoise = 0
  Restarts = FALSE
  MaxSlots = 8
  SqSize = 32
  MaxTx = 2
  Reorder = TRUE
  OsFails <- Succeeds
  MaxFaults = 0
  MaxEvents = 0
CHECK_DEADLOCK FALSE
INVARIANTS SessionsAgree
PROPERTIES InOrderDelivery
