SPECIFICATION JobSpec
CONSTANTS
  None = None
  a = a
  b = b
  c = c
  Ids = {a, b, c}
  Places = {1, 2}
  ZIndexes = {0}
  MonthRanges = {"undefined", "null", "range"}
  Locks = {TRUE, FALSE}
  PatchShapes = {{"place"}, {"containerId"}, {"metaContainerId"}, {"locked"}, {"monthRange"}, {"id"}, {"id", "metaContainerId"}}
  OpTypes = {"CREATE_ELEMENT", "DELETE_ELEMENTS", "MOVE_ELEMENTS", "UPDATE_ELEMENTS", "REORDER_ELEMENT", "RECONCILE_MONTH_RANGE"}
  Span = 2
  MaxBatch = 2
  Jobs = {"cascade", "context", "drag", "reconcile"}
INVARIANT TypeOK
INVARIANT ActsOnCurrentBoard
INVARIANT CollectsCascade
PROPERTY Terminates
PROPERTY DeleteLeavesNoOrphan
PROPERTY DragsRespectLocks
PROPERTY ManagedSealed
PROPERTY ReconcileIntegrity
