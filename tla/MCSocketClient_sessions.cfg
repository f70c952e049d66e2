SPECIFICATION Spec
CONSTANTS
  Senders = {s1, s2}
  MaxConnects = 2
  MaxSends = 1
  MaxFrames = 0
  MaxBeats = 1
  MaxSeq = 0
  FrameKinds = {"msg"}
  PipeCapacity = 1
  Liberties = {"close_before_connect", "close_after_failure"}
CHECK_DEADLOCK FALSE
SYMMETRY SendersSymmetry
INVARIANTS
  SocketOwned
  NoLostWakeup
  CloseNoticed
  CutOnlyFirst
  OnlyCallbackLeft
PROPERTIES
  OutboxSpec
