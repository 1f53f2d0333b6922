SPECIFICATION Spec
CONSTANTS
  Images = {i1, i2}
  Buffers = {b1}
  MaxPasses = 3
  MaxDraws = 2
  MaxHandles = 5
INVARIANTS SentIsRecorded NamesAreThere
SYMMETRY ImageSymmetry
