SPECIFICATION FairSpec
CONSTANTS
  Senders = {s1}
  MaxConnects = 2
  MaxSends = 2
  MaxFrames = 0
  MaxBeats = 0
  MaxSeq = 0
  FrameKinds = {"msg"}
  PipeCapacity = 1
  Liberties = {"close_before_connect", "close_after_failure"}
CHECK_DEADLOCK FALSE
PROPERTIES
  CloseEnds
  DestructorReturns
  SenderReturns
  MessagesGoOut
