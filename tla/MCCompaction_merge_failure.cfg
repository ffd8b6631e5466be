\* flush.Merge may return (nil, nil) after an ORC writer error.
CONSTANTS
  Keys <- MCKeys
  Cols <- MCCols
  Types <- MCTypes
  BlockSchema <- MCBlockSchema
  Corrupt <- MCNoCorrupt
  NumCPU = 1
  MergeCanFail = TRUE
  SinkCanFail = FALSE
  DeleteCanFail = FALSE
  SyncWrites = TRUE
  MaxCrashes = 0
SPECIFICATION Spec
INVARIANT NoLoss
