SPECIFICATION StartupSpec
CONSTANTS
  Surfaces = {s1}
  NumImages = 1
  MaxHeld = 1
  Modes = {"FIFO"}
  FlipFifoSize = 2
  SavedSlots = 3
  MaxSeqno = 2
  MaxFrames = 2
  MaxFaults = 0
PROPERTY OldestReachesScreen
CHECK_DEADLOCK FALSE
