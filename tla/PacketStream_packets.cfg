SPECIFICATION FairSpec
CONSTANTS
  NumPackets = 2
  Lengths = {1, 5}
  MaxRefusals = 1
  BufSize = 9
  LowWater = 3
CHECK_DEADLOCK FALSE
INVARIANTS
  WholeUnlessRefused
  ClosedAtTheEnd
PROPERTIES
  ChannelSpec
  EverythingArrives
  EndNoticed
