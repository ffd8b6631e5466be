# TLA+ verification of Talaria's write path

This directory holds TLA+ models of the write path of this repository:

- the badger-backed row buffer;
- the compactor that turns buffered row blocks into ORC files;
- the flusher that writes those files to the sink;
- the column set that ingestion fills row by row;
- the Parquet ingest decoder that repartitions and chunks a payload;
- the codec of the Thrift query endpoint.

Beside the models are the TLC configurations that check them on small instances, and TLAPS proofs of the main invariants for every value of the constants.

## The system

| Part | Source | What it does |
|---|---|---|
| Row buffer | `src/internal/storage/disk/disk.go` | `disk.Storage` wraps badger, opened with `SyncWrites = false` and `Truncate = true`. `Append` writes a key with a TTL. `Range` iterates keys in byte order and stops when the callback returns `true`. `Delete` deletes keys in one transaction, committing in chunks on `ErrTxnTooBig`. `GC` runs once a minute and calls `purge`, which deletes expired keys. `Close` sets `closed`, after which every call fails with `errClosed`. |
| Compactor | `src/internal/storage/compact/compact.go` | `compact.New` starts `NumCPU` workers (`async.Consume`) on a channel of capacity `NumCPU`, and a repeating `Compact` tick. See the walk-through below. |
| Flusher | `src/internal/storage/flush/flush.go` | `Merge` encodes the blocks as ORC and names the file after `blocks[0]`. On a writer error it returns `(nil, nil)`. `Append` hands the file to the sink writer. |
| Column set | `src/internal/column/column.go` | `Columns` maps names to columns. `Append` rejects invalid names, appends to an existing column, drops unsupported types, or creates a new column padded with `Max()-1` nulls. `FillNulls` pads every column to `Max()`. |
| Parquet ingest | `src/internal/encoding/block/from_parquet.go` | `FromParquetBy` ranges the rows. Each row goes to the `Columns` of its partition value: `Row.AppendTo` appends its fields in Go map order, then `FillNulls` runs. The partition map is cut into blocks by `makeBlocks` once `max` bytes are in it. |
| Talaria writer | `src/internal/storage/writer/talaria/talaria.go` | A lazily connected gRPC client. |
| Thrift codec | `src/internal/presto/trino_codec.go` | Renames `trino.*` calls to `presto.*` and remembers each request's wire name by seq. |

How `Compact` works:

- It ranges the buffer from the first key to the last.
- A key is `<<hash, time>>`, and the keys are visited in that order.
- It accumulates a run of records with the same hash whose schemas union cleanly.
- On a break it sends the run to the channel and starts afresh, without the record that broke it.
- After `Range` it sends one last run and waits for that task's `Outcome`.
- A task runs `Merge`, then `dest.Append`, then `buffer.Delete` of the run's keys.
- `Close` cancels the tick, then closes the buffer and the sink.

## Modules

| Module | Models | Depends on |
|---|---|---|
| `Compaction.tla` | The row buffer, the compactor and the flusher, composed: the buffer's state, the `Compact` goroutine, the worker pool, the sink, and the environment (ingest, TTL purge, Close, machine crash). | `BufferSink` (refinement) |
| `BufferSink.tla` | The abstract promise of the write path: blocks are ingested, expire, are shipped, and are forgotten only once shipped. | — |
| `MCCompaction.tla` + `MCCompaction*.cfg` | Small instances of `Compaction`. | `Compaction` |
| `CompactionProofs.tla` | TLAPS proofs about `Compaction`, its refinement of `BufferSink` included. | `Compaction`, `TLAPS` |
| `Columns.tla` | `column.Columns` driven by the per-row loop of `FromParquetBy`. | — |
| `MCColumns.tla` + `MCColumns*.cfg` | Small instances of `Columns`. | `Columns` |
| `ThriftCodec.tla` | The Thrift server codec's name translation and seq-keyed `methodName` map under net/rpc. | — |
| `MCThriftCodec.tla` + `MCThriftCodec.cfg` | Small instances of `ThriftCodec`. | `ThriftCodec` |
| `ThriftCodecProofs.tla` | TLAPS proof of `RepliesMatchCalls`. | `ThriftCodec`, `TLAPS` |
| `ParquetIngest.tla` | `FromParquetBy`: open, the Range callback with its chunk cut, and the last `makeBlocks`. | — |
| `MCParquetIngest.tla` + `MCParquetIngest*.cfg` | Small instances of `ParquetIngest`. | `ParquetIngest` |
| `ParquetIngestProofs.tla` | TLAPS proof of `RowsOnce`. | `ParquetIngest`, `TLAPS` |

### `Compaction`: state

| Variable | Code |
|---|---|
| `buf` | the keys in badger |
| `durable` | the keys badger's files on disk hold |
| `crashes` | machine crashes so far (bounded by `MaxCrashes`) |
| `appended`, `expired` | history of appends and TTL deletes (kept for the properties) |
| `sink` | files appended to `dest`, each `[keys, merged]`; `merged` is false when `Merge` returned `(nil, nil)` |
| `closed` | `disk.Storage.closed` |
| `cancelled` | the tick's `async.Repeat` has been cancelled |
| `tick`, `pending`, `hash`, `accum`, `schema` | the `Compact` goroutine and its locals (`pending` is the unvisited part of the `Range` snapshot) |
| `chan` | `s.tasks` |
| `worker`, `phase` | the task each worker runs, and whether it is before `dest.Append` or before `buffer.Delete` |

How blocks are abstracted:

- A block is abstracted to three things: its key, its schema (the constant `BlockSchema`) and whether it decodes (`Corrupt`).
- A schema is a set of `<<column, type>>` pairs.
- `Schema.Union` succeeds iff the common columns agree on their type.

### `Compaction`: actions

| Action | Code |
|---|---|
| `BufferAppend` | `disk.Append` |
| `Expire` | `purge` |
| `Close` | `compact.Close` |
| `StartTick` | start of `Compact` and `Range` |
| `VisitCorrupt` | `FromBuffer` error: returns `true` and stops `Range` |
| `VisitAccumulate` | the accumulate branch |
| `VisitBreak` | the merge-and-reset branch |
| `EndScan` | the final `s.merge` |
| `LastTaskDone` | `Outcome()` returns |
| `Take` | a worker receives a task |
| `MergeAppend` | `Merger.Merge` and `dest.Append` |
| `Delete` | `buffer.Delete` |
| `SyncToDisk` | badger writing its unsynced writes to disk (only when `~SyncWrites`) |
| `Crash` | the machine crashes and the service restarts: badger reopens with `durable`, and `compact.New` starts an idle tick and empty workers; the sink keeps its files |

A commit (`BufferAppend`, `Expire`, `Delete`) reaches `durable` at once only when `SyncWrites` is true (`Persist`). `Close` syncs.

Failures are enabled by constants:

- `MergeCanFail`: ORC writer errors;
- `SinkCanFail`: sink write errors;
- `DeleteCanFail`: delete errors, including the partial delete after a committed `ErrTxnTooBig` chunk.

With an empty run, `Merge` either panics on `blocks[0]` or returns `(nil, nil)`.

### `Columns`

State:

- `cols`, the content of each column;
- `created`, the names the map holds;
- `row`, the number of `FillNulls` calls;
- `used`, the names already appended in this row;
- `filter`, the schema given to `MakeColumns`, chosen in `Init` from `Filters`.

Actions:

- `ColumnsAppend` has one disjunct per branch of `Columns.Append`.
- `FillNulls` is `Columns.FillNulls`.
- `Next` lets the fields of a row come in any order, each name at most once. This is the Go map order of `Row.AppendTo`.

The value appended for a field is its row number (or `Null`). Where a value lands therefore shows which row it came from.

### `BufferSink` and the refinement

`BufferSink` has `buf`, `appended`, `expired` and `shipped`. Its actions are `Ingest`, `Expire`, `Ship(S)` and `Forget(S)`, and `Forget` may drop only shipped blocks. `Compaction` instantiates it with `shipped <- Shipped`, the keys of the merged files in the sink, and `Refinement == Abs!Spec`. The step mapping:

- `BufferAppend` is `Ingest`;
- `Expire` is `Expire`;
- `MergeAppend` is `Ship(Shipped')`;
- `Delete` is `Forget(buf \ buf')`;
- everything else, a crash under `SyncWrites` included, is a stutter.

### `ParquetIngest`

- A row is abstracted to the outcome of `convertToStringForParquet` (a partition, the empty value, or `Unconvertible`) and to whether its columns fail to encode (`bad`).
- The input payload and `hasCol` (the schema has the partition column) are chosen in `Init` from every payload of up to `MaxLen` rows.
- A row carries `bytes`, the bytes `out.AppendTo(columns)` plus `columns.FillNulls()` add to `size` for it (lines 84-85): from 1 (the nonempty partition value) to `MaxRowBytes`. `Max` and `size` count bytes, as in the code. `Row.AppendTo` is outside `src/`, so a row's byte count is a free choice.
- `makeBlocks` is not under `src/`; it is modelled from the spec. It gives one block per nonempty partition, and it fails, deterministically, when the chunk holds a row that does not encode.

Actions:

- `Open`: the `parquet.FromBuffer` error, or the skip of a file without the partition column.
- `Visit`: one call of the Range callback. It cuts the chunk if `size >= max`, and stops the Range if `makeBlocks` fails. Then it stops on an unconvertible value, skips an empty one, or appends the row to its partition.
- `RangeEnd`.
- `WriteLast`: the last `makeBlocks`, returning `(nil, err)` on failure.

### `ThriftCodec`

net/rpc reads the requests of a connection in one goroutine, runs each call in its own goroutine, and serializes the responses.

- `ReadRequestHeader(s, n)` models the whole header handler:
  - it rejects a non-Call message (`ReadNonCall`, which ends the reading loop);
  - it translates the name through `nameCache`;
  - it stores the wire name under the seq.
- `WriteResponse(c)` models `LoadAndDelete` of the call's seq. The response carries the name found; when there is none, the write fails.
- A method name is `<<service, method>>`, and `getWireNameFor` rewrites the service.
- The constant `SeqReuse` says whether a client may send a seq that a call in flight already holds.

## Runs

| Run | Checks | Result and meaning |
|---|---|---|
| `compaction_safety` | `TypeOK`, `NoLoss`, `NoLossInv`, `FilesArePartitions`, `Refinement` | Passes with a corrupt block, 2 workers, failing sink writes and deletes, and one crash anywhere on a buffer that syncs. No block is lost, each file holds one partition, and `Compaction` implements `BufferSink`. |
| `compaction_liveness` | `EventuallyShipped` under `FairSpec` | Passes without failures: every block is eventually shipped, expired or closed. |
| `compaction_merge_failure` | `NoLoss` | **Violated**: `Merge` returns `(nil, nil)` and the keys are still deleted (finding). |
| `compaction_tick_wait` | `TickDeletesMerged` | **Violated** with 2 workers: spec §8 invariant 5 does not hold (finding). |
| `compaction_empty_merge` | `NoEmptyMerge` | **Violated**: the final merge of an empty run panics on `blocks[0]` (finding). |
| `compaction_corrupt_stall` | `EventuallyShipped` | **Violated**: one undecodable block stops every later tick (finding). |
| `columns_shape` | `TypeOK`, `SchemaAligned` | Passes with and without a `MakeColumns` schema. With a schema naming every valid column, the rows stay aligned (spec §8.2). The column-set tests pass no schema; that case is `columns_misaligned`. |
| `columns_misaligned` | `Aligned` | **Violated** without a schema: a column created by a row's first field is padded one null short, so its value lands in the previous row (finding; spec §8.2). |
| `parquet_blocks` | `RowsOnce`, `ChunkBound`, `ConvertibleAllOrError` | Passes over every payload of up to 4 rows. No row is returned twice or under another partition, and no block has more than `max` rows. When every value converts, a call returns every partitioned row or an error: if a middle chunk fails, the retry at line 90 fails too. |
| `parquet_unconvertible` | `AllOrError` | **Violated**: a value that does not convert stops the Range; the rows before it are returned as a success (finding). |
| `codec_replies` | `RepliesMatchCalls` | Passes with 4 calls over 2 seqs and no reuse of an in-flight seq: every response carries its own request's wire name. With `SeqReuse = TRUE` it fails, because the map is keyed by the client's seq; that is recorded as a hazard. |

Each property of a passing run has a mutant in `PROJECT.json`: a plausible bug in the mapped code under which TLC finds the property violated.

### Bounds

The compaction runs use 3 or 4 keys over two partitions, `<<1,1>>`, `<<1,2>>`, `<<2,1>>` (and `<<2,2>>`). `<<1,2>>` has a schema that conflicts with the other keys. These keys are enough to produce:

- runs of length 2;
- a break by schema and a break by hash;
- a corrupt record in the middle;
- two runs in flight at once with 2 workers.

A key whose hash is 0 is not among the runs' keys. With one, `FilesArePartitions` fails: after a hash-0 record the `previous == 0` sentinel of `Compact` (compact.go:91) lets any record accumulate. This is recorded as a hazard.

Crashes and `SyncWrites`:

- `compaction_safety` allows one crash (`MaxCrashes = 1`). One crash is enough to hit each window: mid-tick, and between a worker's append and its delete.
- `compaction_safety` sets `SyncWrites = TRUE`, not the code's `false` (`disk.go:74`). With `false`, a crash loses the appends badger has not yet synced. Spec §4.4 accepts this on purpose: durability is "best effort, crash may lose the last seconds of writes", and producers retry. So `NoLoss` is checked, and proved, only under `Durability`: writes are synced, or the machine does not crash. The model has no clock for badger's sync interval, so it does not check how many seconds of writes a crash may lose.
- The other compaction runs have no crash. `compaction_liveness` keeps `SyncWrites = FALSE`, as the code has it, so badger's background sync happens. The violation runs set `SyncWrites = TRUE`: with no crash `durable` is never read, and leaving it free only multiplies the states.

The Parquet runs use:

- payloads of up to 4 rows over two partitions;
- rows of 1 or 2 bytes and `Max = 3`, so that:
  - a payload has up to two cuts;
  - a chunk reaches the bound `Max - 1 + MaxRowBytes = 4` (a 2-byte row on 2 bytes);
  - a cut made one byte late (`size > max`) gives 5;
- a failed middle chunk followed by the retry on the same map.

The column runs use:

- two valid names and one invalid name;
- one supported type and `Unsupported`;
- 3 rows, the least in which a column created in row 1 or 2 can be misplaced;
- `Filters = {{}, {a, b}}` in `columns_shape` (`MakeColumns(nil)` and a schema naming both valid columns), and `{{}}` in `columns_misaligned`.

### Fairness

`FairSpec` assumes weak fairness of:

- the tick: the timer fires while the compactor has not been cancelled;
- the `Range` steps;
- the return of `Outcome`;
- each worker: `async.Consume` goroutines run whenever they have a task.

Ingest, expiry, `Close`, badger's sync and crashes are the environment and have no fairness. The liveness run has no crashes.

## Proofs

TLC checks the properties on small instances. TLAPS proves the theorems below for every value of the constants that satisfies the named assumptions. Every safety invariant of a passing run has a theorem. Each proof follows the same plan:

1. state an inductive strengthening;
2. check the strengthening with TLC as an invariant of the run;
3. prove `Init => Inv` and `Inv /\ [Next]_vars => Inv'`, one step per action;
4. conclude with `PTL`.

### `CompactionProofs.tla`

The module assumes `ConstantsAssumption` of `Compaction.tla`: any keys, any schemas, any `NumCPU >= 1`, any `MaxCrashes`, and any combination of the failure flags. One conjunct says that a block schema maps each column name to one type. That is what a `typeof.Schema` is (spec §3: "a mapping from column name to type"), and every MC schema satisfies it.

- **`TypeCorrect`**: `Spec => []TypeOK`. There is one step per action, with lemmas for tasks built by `Enqueue`.
- **`NoLossTheorem`** and **`NoLossInvTheorem`**: `~MergeCanFail /\ Durability => (Spec => []NoLoss)`, and the same for the whole `NoLossInv`. Here `Durability == SyncWrites \/ MaxCrashes = 0`. `NoLoss` alone is not inductive, for two reasons:
  - a `Delete` removes keys from `buf`, and `NoLoss` does not say they are shipped;
  - a crash replaces `buf` by `durable`, and `NoLoss` does not relate the two.

  The strengthening `NoLossInv == TypeOK /\ NoLoss /\ DeleteAfterShip /\ DurableBuf` adds two conjuncts:
  - `DeleteAfterShip`: a worker in phase `delete` holds only shipped keys. `MergeAppend` establishes it, because without writer errors a nonempty run always merges and an empty one ships nothing.
  - `DurableBuf`: with `SyncWrites` the disk holds the buffer.
- **`RefinementTheorem`**: `~MergeCanFail /\ Durability => (Spec => Refinement)`. From `[]NoLossInv`, `NextRefines` maps every step to a `BufferSink` step or a stutter:
  - `DeleteAfterShip` makes `Delete` a `Forget` of shipped keys;
  - `DurableBuf` makes a crash a stutter.
- **`PartitionTheorem`**: `NoZeroHash => (Spec => []FilesArePartitions)`.
  - `NoZeroHash` excludes keys whose partition hash is 0. Hash 0 is the "no run yet" sentinel of `compact.go:91`, and that hazard stays in `PROJECT.json`.
  - The strengthening `PartitionInv` adds `RunCoherent` and `TasksCoherent`. The accumulated run, every task in the channel, and every worker's task hold keys of one hash with pairwise mergeable schemas. The run's keys also have the run's hash, and their schemas lie inside the run's schema.
  - Without these conjuncts nothing ties a file to the run it was cut from. TLC checked them on `compaction_safety`: 1.4M distinct states.

### `ThriftCodecProofs.tla`

- **`RepliesTheorem`**: `~SeqReuse => (Spec => []RepliesMatchCalls)`, for any seqs, methods and `MaxCalls`.
- The inductive invariant says:
  - the calls in flight have distinct seqs, and `methodName` holds each one's wire name under its seq;
  - call ids are below `next`, and each names one call;
  - every reply carries the wire name of a read call with its id.

### `ParquetIngestProofs.tla`

These theorems hold for any `Max >= 1`, `MaxRowBytes >= 1` and `MaxLen`.

- **`RowsOnceTheorem`**: `Spec => []RowsOnce`. The inductive invariant says:
  - every row in the chunk and in the blocks cut has been read and lies under its own partition;
  - the blocks cut are disjoint;
  - `out` is empty until the call ends.

  The lemma `MadeDisjoint` shows that the blocks one `makeBlocks` makes are disjoint.
- **`ChunkBoundTheorem`**: `Spec => []ChunkBound`, for any `MaxRowBytes >= 1`. No block holds more than `Bound == Max - 1 + MaxRowBytes` bytes: spec §4.7's "at most ~10 MB", with the overshoot the code really allows. The strengthening `Sized` says three things: `size <= Bound`, every partition of the chunk holds at most `size` bytes, and every block cut holds at most `Bound` bytes.
  - The check of line 36 comes before the row's bytes are added at lines 84-85. So a row is added only when `size <= Max - 1`, and `size` reaches at most `Bound`.
  - `Bytes(S)` is the cardinality of the set of pairs `<<j, u>>` with `u` in `1..bytes` of row `j`. It is a sum written without `RECURSIVE`, so the provers can use it. The lemma `AddBytes` shows that adding a row adds at most its bytes; it rests on `FS_Union`, `FS_Product` and `FS_Interval`.
- **`AllOrErrorTheorem`**: `Spec => []ConvertibleAllOrError`. The strengthening `CompleteInv` adds three conjuncts:
  - `Fresh`: nothing has been read before `Open`.
  - `Covered`: while the rows are ranged, the blocks cut plus the chunk hold exactly the partitioned rows visited so far.
  - `Stopped`: a Range that stopped before the end stopped on a failing `makeBlocks` or on an unconvertible value.

  `Stopped` is what makes the retry at line 90 fail again: a chunk whose `makeBlocks` failed at line 39 is left unchanged, so `WriteLast` either returns an error or returns all the rows. The lemmas `MadeRows`, `UnionRows` and `AppendRows` compute the rows of the blocks made from a chunk.

### `ColumnsProofs.tla`

- **`ColumnsTypeCorrect`** and **`SchemaAlignedTheorem`**: `Spec => []TypeOK` and `[]SchemaAligned`, for any names and `MaxRows`.
- The strengthening `ColInv` says that there is a row count `L` with two properties:
  - `Shape(L)`: every column has `L` values, or `L + 1` if it was appended to since the last `FillNulls`.
  - With a schema naming every valid column, `AlignedRow(L)`: the created columns are exactly the schema's, and a column's `L + 1`-th value belongs to the current row or is a null.
- `Max()` is a `CHOOSE` over the lengths. The lemma `MaxShape` shows that under `Shape(L)` it is `L` or `L + 1`.

### What stays with TLC

- **Liveness.** `EventuallyShipped` under `FairSpec` is checked by TLC only. TLAPS does not handle `ENABLED` or fairness here.
- **Violation runs.** The findings are TLC counterexamples.
- **Mutants.** Every property is checked against its mutants by TLC.
- **Recursive definitions.** No proof module reaches a `RECURSIVE` operator, so nothing about what a recursive definition computes is proved.
- **Seq reuse in the codec.** `RepliesMatchCalls` with `SeqReuse` is false and stays a hazard.

## Not modelled

- **Duplicate delivery.** A crash between `dest.Append` and `Delete`, a delete after `Close`, and overlapping ticks can ship a run twice. `sink` is a set of files, so it does not count duplicates; a bag-valued sink would.
- **The `isClosed` check-then-act window** in `disk.Storage`. A call that passes the check after `Close` fails inside badger with its closed-database error. That is the same outcome as the closed branch: an error, nothing written.
- **The Talaria writer.** Its only state is the client pointer, which `New` sets once. The `client == nil` branch of `tryConnect` is dead, and reconnecting is left to the gRPC client library, outside the repository. A failed `IngestORC` is `SinkCanFail` in `Compaction`.
- **`ReadRequestBody` of the Thrift codec.** It reads the arguments and touches no codec state.
- **badger itself**: the value log, the LSM levels and the GC internals, outside the repository. Only what `disk.Storage` sees is modelled: commits, a sync, and what survives a crash.
- **A block whose `Select` fails** in `flush.Merge` (`flush.go:73-77`). The block is skipped, and `Merge` still returns a file without it; the compactor then deletes every key of the run. `MergeOutcomes` has only the whole-run outcomes, so `NoLoss` assumes this does not happen, as part of `~MergeCanFail`.
- **A key whose value cannot be copied** in `disk.Range` (`disk.go:136-138`). The key is skipped silently, and the model hands every key to the callback. This affects only when a key is shipped, not whether it is lost.
- Build files, CI and tests: no runtime state.
