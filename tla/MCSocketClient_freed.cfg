SPECIFICATION Spec
CONSTANTS
  Senders = {s1}
  MaxConnects = 1
  MaxSends = 0
  MaxFrames = 0
  MaxBeats = 0
  MaxSeq = 0
  FrameKinds = {"msg"}
  PipeCapacity = 1
  Liberties = {}
CHECK_DEADLOCK FALSE
INVARIANTS
  NoUseAfterFree
