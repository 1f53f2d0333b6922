SPECIFICATION Spec
CONSTANTS
  layout = layout
  CommandBuffers = {first, second}
  Layouts = {layout}
  Pipelines <- MCPipelines
  Sets = {set1, set2}
  Viewports = {viewport}
  VertexBuffers = {buffer}
  Values = {value}
  Ranges <- MCRanges
  Bindings = {0, 1}
  Words = {0, 1, 2, 3, 4}
  None = None
  Destroyed = Destroyed
  MaxRegions = 2
  MaxCommands = 5
SYMMETRY EmulationSymmetry
INVARIANTS DrawsUseWhatWasBound ProgramsGetTheirWords OnlyBufferViewsStay
CHECK_DEADLOCK FALSE
