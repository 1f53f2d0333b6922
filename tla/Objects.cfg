SPECIFICATION PartsSpec
CONSTANTS
  Sets = {s1, s2}
  KindOrder <- MCKinds
  PoolSize <- MCPoolSize
  Layouts <- MCLayouts
  Values = {v1, v2}
  Undefined = Undefined
  Ids = {1, 2}
  Infos <- MCInfos
  MaxSize = 2
  Pages = 5
  Stages <- MCStages
  NumEvents = 5
  PerMonitor = 3
  Selections <- MCSelections
  Uninitialised = Uninitialised
  Refused = Refused
  NoQuery = NoQuery
  MaxJobs = 2
INVARIANTS SetsHoldWhatWasWritten StopsOnlyWhereKnown DestroyReturnsEverything MappingsStay FileStaysOpen ResultsAreOfTheQuery
SYMMETRY SetSymmetry
CHECK_DEADLOCK FALSE
