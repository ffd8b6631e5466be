\* The final flush of a tick on an empty accumulator.
CONSTANTS
  Keys <- MCKeys
  Cols <- MCCols
  Types <- MCTypes
  BlockSchema <- MCBlockSchema
  Corrupt <- MCNoCorrupt
  NumCPU = 1
  MergeCanFail = FALSE
  SinkCanFail = FALSE
  DeleteCanFail = FALSE
  SyncWrites = TRUE
  MaxCrashes = 0
SPECIFICATION Spec
INVARIANT NoEmptyMerge
