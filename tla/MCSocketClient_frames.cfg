SPECIFICATION FairSpec
CONSTANTS
  Senders = {s1}
  MaxConnects = 2
  MaxSends = 0
  MaxFrames = 2
  MaxBeats = 0
  MaxSeq = 2
  FrameKinds = {"msg", "zero", "invalid", "badseq"}
  PipeCapacity = 1
  Liberties = {}
CHECK_DEADLOCK FALSE
INVARIANTS
  AcksInOrder
PROPERTIES
  EarlyFramesRead
