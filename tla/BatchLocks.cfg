SPECIFICATION Spec
CONSTANTS
  None = None
  Ids = {a, b}
  Places = {1, 2}
  ZIndexes = {0}
  MonthRanges = {"undefined"}
  Locks = {TRUE, FALSE}
  PatchShapes = {{"containerId"}}
  OpTypes = {"MOVE_ELEMENTS", "UPDATE_ELEMENTS"}
  Span = 1
  MaxBatch = 2
PROPERTY LocksAuthoritative
