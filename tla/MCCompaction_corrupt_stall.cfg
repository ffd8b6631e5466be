\* Progress under the fairness of the tick timer, the Range goroutine and
\* the workers; the sink and the ORC writer do not fail.
CONSTANTS
  Keys <- MCKeys
  Cols <- MCCols
  Types <- MCTypes
  BlockSchema <- MCBlockSchema
  Corrupt <- MCCorruptFirst
  NumCPU = 1
  MergeCanFail = FALSE
  SinkCanFail = FALSE
  DeleteCanFail = FALSE
  SyncWrites = TRUE
  MaxCrashes = 0
SPECIFICATION FairSpec
PROPERTY EventuallyShipped
