SPECIFICATION Spec
CONSTANTS
  Udcs = {u1, u2}
  NoUdc = NoUdc
  MaxRuns = 3
  MaxFaults = 0
CHECK_DEADLOCK FALSE
PROPERTY BindsAvailable
