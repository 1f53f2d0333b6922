SPECIFICATION LifeSpec
CONSTANTS
  Surfaces = {s1, s2}
  NumImages = 1
  MaxHeld = 1
  Modes = {"FIFO"}
  FlipFifoSize = 2
  SavedSlots = 3
  MaxSeqno = 1
  MaxFrames = 3
  MaxFaults = 0
INVARIANTS  CrashesAreKnown
CHECK_DEADLOCK FALSE
