SPECIFICATION Spec
CONSTANTS
  Remotes = {7}
  Services <- AllServices
  Requests <- AllRequests
  Versions <- AllVersions
  Closers <- Kinds
  MaxWrites = 2
  MaxBus = 2
  MaxNoise = 0
  Restarts = FALSE
  MaxSlots = 8
  SqSize = 32
  MaxTx = 2
  Reorder = FALSE
  OsFails <- Succeeds
  MaxFaults = 0
  MaxEvents = 0
CHECK_DEADLOCK FALSE
INVARIANTS TypeOK ProtocolObeyed FlowControl HostLearnsOfClose DeviceLearnsOfClose Driven NoPanic
