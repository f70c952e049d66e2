SPECIFICATION FairSpec
CONSTANTS
  LastServer = 3
  BufferFrames = 1
  MaxFailures = 3
  MaxMessages = 2
CHECK_DEADLOCK FALSE
INVARIANTS
  SettledIsDelivered
  NoGap
  SocketsShut
PROPERTIES
  EveryMessageArrives
  AckedUnlessLost
  ConnectReturns
