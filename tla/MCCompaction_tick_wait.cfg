\* Two workers: Compact waits only for its last task.
CONSTANTS
  Keys <- MCKeys
  Cols <- MCCols
  Types <- MCTypes
  BlockSchema <- MCBlockSchema
  Corrupt <- MCNoCorrupt
  NumCPU = 2
  MergeCanFail = FALSE
  SinkCanFail = FALSE
  DeleteCanFail = FALSE
  SyncWrites = TRUE
  MaxCrashes = 0
SPECIFICATION Spec
INVARIANT TickDeletesMerged
