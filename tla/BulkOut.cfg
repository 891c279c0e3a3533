SPECIFICATION FairSpec
CONSTANTS
  HeaderSize = 3
  PacketSize = 2
  BufSize = 6
  Lengths = {0, 1, 4, 6}
  MaxMsgs = 3
  MaxDamaged = 2
INVARIANT MessagesWhole
PROPERTY AllHandled
CHECK_DEADLOCK FALSE
