SPECIFICATION Spec
CONSTANTS
  FdCounts = {3}
  Hasty = TRUE
  MaxEpochs = 3
  MaxMinor = 0
  MaxFaults = 0
CHECK_DEADLOCK FALSE
PROPERTIES SessionIsFresh
