SPECIFICATION Spec
CONSTANTS
  None = None
  Ids = {a, b}
  Places = {1, 2}
  ZIndexes = {0}
  MonthRanges = {"undefined", "range"}
  Locks = {FALSE}
  PatchShapes = {{"metaContainerId"}, {"place"}}
  OpTypes = {"DELETE_ELEMENTS", "UPDATE_ELEMENTS"}
  Span = 1
  MaxBatch = 1
PROPERTY ManagedOnlyByReconcile
