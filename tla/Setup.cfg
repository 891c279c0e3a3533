SPECIFICATION Spec
CONSTANTS
  Udcs = {u1, u2}
  NoUdc = NoUdc
  MaxRuns = 4
  MaxFaults = 2
CHECK_DEADLOCK FALSE
INVARIANTS SetupIsWhole SetupRepeats BindIsTrue
