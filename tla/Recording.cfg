SPECIFICATION PartsSpec
CONSTANTS
  BlockSize = 32
  Shaders <- MCShaders
  Passes <- MCPasses
  Images = {"i1"}
  None = None
  IndexBuffers = {"ib"}
  MaxJobs = 2
  MaxDraws = 4
  NumBlocks = 6
  MaxRun = 3
  Primaries = {p1}
  Secondaries = {s1, s2}
  ListBlocks = 22
  Objects = {o1, o2}
  Unknown = Unknown
INVARIANTS WritesStayInBlocks  HeldOnce  CopiedIndicesNameHandles
PROPERTIES LostOnlyByGrowing FreeingKeepsFits
SYMMETRY PoolSymmetry
CHECK_DEADLOCK FALSE
