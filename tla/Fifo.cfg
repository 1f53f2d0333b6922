SPECIFICATION Spec
CONSTANTS
  MaxElems = 3
  Data = {d1, d2}
  Undefined = undefined
INVARIANT CellsAccountedFor
PROPERTY ImplementsQueue
CHECK_DEADLOCK FALSE
