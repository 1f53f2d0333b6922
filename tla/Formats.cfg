SPECIFICATION FormatsSpec
CONSTANTS
  Infos <- MCInfos
  WordBits = 19
  MemorySize = 500000
  Offsets <- MCOffsets
  None = None
INVARIANTS RenderedWhereLaidOut  SampledWhereLaidOut WordsAreOfTheText StencilWordsSayTheState
CHECK_DEADLOCK FALSE
