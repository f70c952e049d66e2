SPECIFICATION FairSpec
CONSTANTS
  MaxFrames = 3
  MaxSeq = 2
CHECK_DEADLOCK FALSE
INVARIANTS
  OneTimer
  SilentAfterClose
  CrashesOnlyForApplication
  HandedIsAcked
PROPERTIES
  NeverSilent
