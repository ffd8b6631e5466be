\* Safety of the pipeline with two workers, a corrupt block, a schema break,
\* failing sink appends, failing deletes and one machine crash, on a buffer
\* that syncs every commit; and its refinement of BufferSink.
CONSTANTS
  Keys <- MCKeysCorrupt
  Cols <- MCCols
  Types <- MCTypes
  BlockSchema <- MCBlockSchema
  Corrupt <- MCCorruptMiddle
  NumCPU = 2
  MergeCanFail = FALSE
  SinkCanFail = TRUE
  DeleteCanFail = TRUE
  SyncWrites = TRUE
  MaxCrashes = 1
SPECIFICATION Spec
INVARIANTS
  TypeOK
  NoLoss
  NoLossInv
  FilesArePartitions
PROPERTY
  Refinement
