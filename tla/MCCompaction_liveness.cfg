\* Progress under the fairness of the tick timer, the Range goroutine and
\* the workers; the sink and the ORC writer do not fail.  The buffer syncs
\* in the background, as disk.Open configures it; there is no crash.
CONSTANTS
  Keys <- MCKeys
  Cols <- MCCols
  Types <- MCTypes
  BlockSchema <- MCBlockSchema
  Corrupt <- MCNoCorrupt
  NumCPU = 2
  MergeCanFail = FALSE
  SinkCanFail = FALSE
  DeleteCanFail = FALSE
  SyncWrites = FALSE
  MaxCrashes = 0
SPECIFICATION FairSpec
PROPERTY EventuallyShipped
