SPECIFICATION FrameSpec
CONSTANTS
  Surfaces = {s1}
  NumImages = 2
  MaxHeld = 2
  Modes = {"FIFO", "IMMEDIATE"}
  FlipFifoSize = 2
  SavedSlots = 3
  MaxSeqno = 3
  MaxFrames = 3
  MaxFaults = 1
INVARIANTS  OldestStays EventFindsItsEntry InFlightIsQueued AcquiredNotShown
PROPERTIES AcquireReturns OldestReachesScreen
