SPECIFICATION FairSpec
CONSTANTS
  FdCounts = {2, 3}
  Hasty = FALSE
  MaxEpochs = 3
  MaxMinor = 2
  MaxFaults = 2
CHECK_DEADLOCK FALSE
INVARIANTS EnableNotLost
PROPERTIES SessionIsFresh HostIsServed
