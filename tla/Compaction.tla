----------------------------- MODULE Compaction -----------------------------
(***************************************************************************)
(* The write-to-sink pipeline of Talaria: the badger-backed row buffer     *)
(* (internal/storage/disk), the compactor that ranges it on every tick and *)
(* hands runs of equal-hash keys to a worker pool (internal/storage/       *)
(* compact), and the flusher that merges the blocks of a run and writes    *)
(* the file to the sink (internal/storage/flush).                          *)
(*                                                                         *)
(* A key is a pair <<hash, time>> (the first and the second word of the    *)
(* 24-byte key); a block is abstracted to the hash of its key, its schema  *)
(* and whether it decodes.  Goroutines are the ranging tick, the NumCPU    *)
(* merge workers and the environment (ingest, TTL purge, Close).           *)
(***************************************************************************)
EXTENDS Naturals, Sequences, FiniteSets

CONSTANTS
  Keys,          \* the keys <<hash, time>>: uint32 key.HashOf, then sortBy
  Cols,          \* column names
  Types,         \* column types
  BlockSchema,   \* the schema of the block stored under each key
  Corrupt,       \* the keys whose value block.FromBuffer fails to decode
  NumCPU,        \* runtime.NumCPU(): number of workers and channel capacity
  MergeCanFail,  \* whether the ORC writer in flush.Merge may fail
  SinkCanFail,   \* whether the sink writer may fail
  DeleteCanFail, \* whether a badger delete transaction may fail
  SyncWrites,    \* badger Options.SyncWrites (disk.Open sets it to false)
  MaxCrashes     \* bound on the machine crashes of a behaviour

Schemas == SUBSET (Cols \X Types)
Workers == 1..NumCPU
Hashes == {k[1] : k \in Keys}

ASSUME ConstantsAssumption ==
  /\ Keys \subseteq Nat \X Nat
  /\ BlockSchema \in [Keys -> Schemas]
  \* a typeof.Schema maps a column name to one type
  /\ \A k \in Keys : \A p, q \in BlockSchema[k] : p[1] = q[1] => p[2] = q[2]
  /\ Corrupt \subseteq Keys
  /\ NumCPU \in Nat \ {0}
  /\ MergeCanFail \in BOOLEAN
  /\ SinkCanFail \in BOOLEAN
  /\ DeleteCanFail \in BOOLEAN
  /\ SyncWrites \in BOOLEAN
  /\ MaxCrashes \in Nat

NoTask == [keys |-> {}, last |-> FALSE]

VARIABLES
  buf,        \* keys present in the badger row buffer
  durable,    \* the keys the buffer's files on disk hold
  crashes,    \* number of machine crashes so far
  appended,   \* history: keys ever appended to the buffer
  expired,    \* history: keys removed by the TTL purge
  sink,       \* files appended to the destination: [keys, merged]
  closed,     \* disk.Storage.closed
  cancelled,  \* the compactor's async.Repeat task has been cancelled
  tick,       \* the Compact goroutine: "idle", "scanning" or "waiting"
  pending,    \* keys of the Range snapshot not visited yet
  hash,       \* Compact's local 'hash' (0 before the first record)
  accum,      \* Compact's local 'merged' keys
  schema,     \* Compact's local 'schema'
  chan,       \* s.tasks: queued merge tasks [keys, last]
  worker,     \* the task each worker of async.Consume runs
  phase       \* "idle", "merge" (before dest.Append) or "delete"

vars == <<buf, durable, crashes, appended, expired, sink, closed, cancelled, tick, pending,
          hash, accum, schema, chan, worker, phase>>

Tasks == [keys : SUBSET Keys, last : BOOLEAN]
Files == [keys : SUBSET Keys, merged : BOOLEAN]

-----------------------------------------------------------------------------
(* Key codec and schemas.                                                  *)

\* key.HashOf: the partition hash at the front of the key.
HashOf(k) == k[1]

\* The lexicographic order of the 24-byte keys: hash first, then time.
KeyLeq(a, b) == a[1] < b[1] \/ (a[1] = b[1] /\ a[2] <= b[2])

\* k is the first key of S in key order: the next one Range visits.
IsFirst(k, S) == \A j \in S : KeyLeq(k, j)

\* typeof.Schema.Union succeeds iff the common columns have equal types.
UnionOK(s1, s2) == \A p \in s1, q \in s2 : p[1] = q[1] => p[2] = q[2]

\* The name-wise merge of two schemas.
Union(s1, s2) == s1 \cup s2

-----------------------------------------------------------------------------
(* Initial state: compact.New starts the workers and the repeating tick on *)
(* a freshly opened buffer.                                                *)

Init ==
  /\ buf = {}
  /\ durable = {}
  /\ crashes = 0
  /\ appended = {}
  /\ expired = {}
  /\ sink = {}
  /\ closed = FALSE
  /\ cancelled = FALSE
  /\ tick = "idle"
  /\ pending = {}
  /\ hash = 0
  /\ accum = {}
  /\ schema = {}
  /\ chan = <<>>
  /\ worker = [w \in Workers |-> NoTask]
  /\ phase = [w \in Workers |-> "idle"]

-----------------------------------------------------------------------------
(* The environment: ingestion, TTL purge, shutdown and machine crashes.    *)

\* Mutant: commits are never written through to disk.
PersistNever == durable' = durable

\* A committed badger transaction reaches the disk at once only with
\* SyncWrites; otherwise it waits for a later sync (SyncToDisk).
Persist == durable' = IF SyncWrites THEN buf' ELSE durable

\* disk.Append: a new key is written unless the store is closed.
BufferAppend(k) ==
  /\ ~closed
  /\ k \notin appended
  /\ buf' = buf \cup {k}
  /\ appended' = appended \cup {k}
  /\ Persist
  /\ UNCHANGED <<crashes, expired, sink, closed, cancelled, tick, pending, hash, accum,
                 schema, chan, worker, phase>>

\* disk.GC -> purge: a key whose TTL has passed is deleted.
Expire(k) ==
  /\ ~closed
  /\ k \in buf
  /\ buf' = buf \ {k}
  /\ expired' = expired \cup {k}
  /\ Persist
  /\ UNCHANGED <<crashes, appended, sink, closed, cancelled, tick, pending, hash, accum,
                 schema, chan, worker, phase>>

\* compact.Close: cancel the repeating tick, then close buffer and sink;
\* badger's Close syncs what it holds.  Neither the running tick nor the
\* workers are stopped.
Close ==
  /\ ~cancelled
  /\ cancelled' = TRUE
  /\ closed' = TRUE
  /\ durable' = buf
  /\ UNCHANGED <<buf, crashes, appended, expired, sink, tick, pending, hash,
                 accum, schema, chan, worker, phase>>

\* Badger writes its unsynced value log and memtable out to disk.
SyncToDisk ==
  /\ ~SyncWrites
  /\ durable # buf
  /\ durable' = buf
  /\ UNCHANGED <<buf, crashes, appended, expired, sink, closed, cancelled, tick,
                 pending, hash, accum, schema, chan, worker, phase>>

\* The machine crashes and the service restarts: badger reopens with what
\* reached the disk (opts.Truncate drops the unsynced tail), and
\* compact.New starts a new tick and an empty worker pool.  Files already
\* written to the sink stay.
Crash ==
  /\ ~cancelled
  /\ crashes < MaxCrashes
  /\ crashes' = crashes + 1
  /\ buf' = durable
  /\ tick' = "idle"
  /\ pending' = {}
  /\ hash' = 0
  /\ accum' = {}
  /\ schema' = {}
  /\ chan' = <<>>
  /\ worker' = [w \in Workers |-> NoTask]
  /\ phase' = [w \in Workers |-> "idle"]
  /\ UNCHANGED <<durable, appended, expired, sink, closed, cancelled>>

-----------------------------------------------------------------------------
(* The Compact goroutine.                                                  *)

\* s.tasks <- work blocks while the channel holds NumCPU tasks.
Enqueue(t) ==
  /\ Len(chan) < NumCPU
  /\ chan' = Append(chan, t)

\* A timer tick starts Compact; disk.Range opens a snapshot of the buffer.
StartTick ==
  /\ tick = "idle"
  /\ ~cancelled
  /\ ~closed
  /\ tick' = "scanning"
  /\ pending' = buf
  /\ hash' = 0
  /\ accum' = {}
  /\ schema' = {}
  /\ UNCHANGED <<buf, durable, crashes, appended, expired, sink, closed, cancelled, chan, worker,
                 phase>>

\* block.FromBuffer fails: the callback returns true and Range stops.
VisitCorrupt ==
  /\ tick = "scanning"
  /\ \E k \in pending : IsFirst(k, pending) /\ k \in Corrupt
  /\ pending' = {}
  /\ UNCHANGED <<buf, durable, crashes, appended, expired, sink, closed, cancelled, tick, hash,
                 accum, schema, chan, worker, phase>>

\* Mutant: the run is cut on schema conflicts only, not on the hash.
AccumulatesAnyHash(k) == hash = 0 \/ UnionOK(schema, BlockSchema[k])

\* The record extends the run: it is the first one (previous == 0), or it
\* has the previous hash and its schema unions cleanly with the run's.
Accumulates(k) == hash = 0 \/ (UnionOK(schema, BlockSchema[k]) /\ HashOf(k) = hash)

\* First record, or same hash with a clean union: accumulate the block.
VisitAccumulate ==
  /\ tick = "scanning"
  /\ \E k \in pending :
       /\ IsFirst(k, pending)
       /\ k \notin Corrupt
       /\ Accumulates(k)
       /\ pending' = pending \ {k}
       /\ hash' = HashOf(k)
       /\ accum' = accum \cup {k}
       /\ schema' = Union(schema, BlockSchema[k])
  /\ UNCHANGED <<buf, durable, crashes, appended, expired, sink, closed, cancelled, tick, chan,
                 worker, phase>>

\* Hash or schema break: flush the run, reset, and go on without the record.
VisitBreak ==
  /\ tick = "scanning"
  /\ \E k \in pending :
       /\ IsFirst(k, pending)
       /\ k \notin Corrupt
       /\ ~Accumulates(k)
       /\ Enqueue([keys |-> accum, last |-> FALSE])
       /\ pending' = pending \ {k}
       /\ hash' = HashOf(k)
       /\ accum' = {}
       /\ schema' = {}
  /\ UNCHANGED <<buf, durable, crashes, appended, expired, sink, closed, cancelled, tick, worker,
                 phase>>

\* Mutant: the final merge after Range is dropped (an empty task is sent).
EndScanNoFinalMerge ==
  /\ tick = "scanning"
  /\ pending = {}
  /\ Enqueue([keys |-> {}, last |-> TRUE])
  /\ tick' = "waiting"
  /\ UNCHANGED <<buf, durable, crashes, appended, expired, sink, closed, cancelled, pending, hash,
                 accum, schema, worker, phase>>

\* Range returned: merge one last time and wait for that task's Outcome.
EndScan ==
  /\ tick = "scanning"
  /\ pending = {}
  /\ Enqueue([keys |-> accum, last |-> TRUE])
  /\ tick' = "waiting"
  /\ UNCHANGED <<buf, durable, crashes, appended, expired, sink, closed, cancelled, pending, hash,
                 accum, schema, worker, phase>>

\* Mutant: Compact returns once its last task has left the channel.
LastTaskDoneDequeued ==
  /\ tick = "waiting"
  /\ \A i \in 1..Len(chan) : ~chan[i].last
  /\ tick' = "idle"
  /\ UNCHANGED <<buf, durable, crashes, appended, expired, sink, closed, cancelled, pending, hash,
                 accum, schema, chan, worker, phase>>

\* The last task is neither queued nor running: Compact returns.
LastTaskDone ==
  /\ tick = "waiting"
  /\ \A i \in 1..Len(chan) : ~chan[i].last
  /\ \A w \in Workers : ~worker[w].last
  /\ tick' = "idle"
  /\ UNCHANGED <<buf, durable, crashes, appended, expired, sink, closed, cancelled, pending, hash,
                 accum, schema, chan, worker, phase>>

-----------------------------------------------------------------------------
(* The merge workers (async.Consume over s.tasks).                         *)

\* An idle worker takes the oldest task from the channel.
Take(w) ==
  /\ phase[w] = "idle"
  /\ chan # <<>>
  /\ worker' = [worker EXCEPT ![w] = Head(chan)]
  /\ phase' = [phase EXCEPT ![w] = "merge"]
  /\ chan' = Tail(chan)
  /\ UNCHANGED <<buf, durable, crashes, appended, expired, sink, closed, cancelled, tick, pending,
                 hash, accum, schema>>

\* What flush.Merge yields for a task: a file ("ok"), (nil, nil) after a
\* writer error ("nil"), or, with no blocks, an index panic on blocks[0].
MergeOutcomes(t) ==
  IF t.keys = {} THEN {"nil", "panic"}
  ELSE IF MergeCanFail THEN {"ok", "nil"} ELSE {"ok"}

\* Mutant: the worker's slot is reset to a task value without its flag.
FinishPartialReset(w) ==
  /\ worker' = [worker EXCEPT ![w] = [keys |-> {}]]
  /\ phase' = [phase EXCEPT ![w] = "idle"]

\* The task returns and the worker goes back to the channel.
Finish(w) ==
  /\ worker' = [worker EXCEPT ![w] = NoTask]
  /\ phase' = [phase EXCEPT ![w] = "idle"]

\* Mutant: the append error is logged without returning, so the task goes
\* on to delete the keys.
MergeAppendNoReturn(w) ==
  /\ phase[w] = "merge"
  /\ \E out \in MergeOutcomes(worker[w]) :
       \/ /\ out = "panic"
          /\ Finish(w)
          /\ UNCHANGED sink
       \/ /\ out # "panic"
          /\ sink' = sink \cup {[keys |-> worker[w].keys, merged |-> out = "ok"]}
          /\ phase' = [phase EXCEPT ![w] = "delete"]
          /\ UNCHANGED worker
       \/ /\ out # "panic"
          /\ SinkCanFail
          /\ phase' = [phase EXCEPT ![w] = "delete"]
          /\ UNCHANGED <<sink, worker>>
  /\ UNCHANGED <<buf, durable, crashes, appended, expired, closed, cancelled, tick, pending, hash,
                 accum, schema, chan>>

\* merge task: Merge the blocks, then dest.Append the output.  On an append
\* error the task ends without deleting.
MergeAppend(w) ==
  /\ phase[w] = "merge"
  /\ \E out \in MergeOutcomes(worker[w]) :
       \/ /\ out = "panic"
          /\ Finish(w)
          /\ UNCHANGED sink
       \/ /\ out # "panic"
          /\ sink' = sink \cup {[keys |-> worker[w].keys, merged |-> out = "ok"]}
          /\ phase' = [phase EXCEPT ![w] = "delete"]
          /\ UNCHANGED worker
       \/ /\ out # "panic"
          /\ SinkCanFail
          /\ Finish(w)
          /\ UNCHANGED sink
  /\ UNCHANGED <<buf, durable, crashes, appended, expired, closed, cancelled, tick, pending, hash,
                 accum, schema, chan>>

\* merge task: buffer.Delete(keys...).  disk.Delete fails when closed; an
\* error after a committed ErrTxnTooBig chunk leaves part of the keys.
Delete(w) ==
  /\ phase[w] = "delete"
  /\ \/ /\ ~closed
        /\ buf' = buf \ worker[w].keys
     \/ /\ closed
        /\ UNCHANGED buf
     \/ /\ ~closed
        /\ DeleteCanFail
        /\ \E kept \in SUBSET worker[w].keys :
             /\ kept # {}
             /\ buf' = buf \ (worker[w].keys \ kept)
  /\ Finish(w)
  /\ Persist
  /\ UNCHANGED <<crashes, appended, expired, sink, closed, cancelled, tick,
                 pending, hash, accum, schema, chan>>

-----------------------------------------------------------------------------

\* After Close every goroutine has returned: the process has shut down.
Terminated ==
  /\ cancelled
  /\ tick = "idle"
  /\ chan = <<>>
  /\ \A w \in Workers : phase[w] = "idle"
  /\ UNCHANGED vars

Next ==
  \/ \E k \in Keys : BufferAppend(k) \/ Expire(k)
  \/ Close \/ SyncToDisk \/ Crash
  \/ StartTick \/ VisitCorrupt \/ VisitAccumulate \/ VisitBreak
  \/ EndScan \/ LastTaskDone
  \/ \E w \in Workers : Take(w) \/ MergeAppend(w) \/ Delete(w)
  \/ Terminated

\* The tick timer fires while the compactor runs, Range and the workers are
\* goroutines that the Go scheduler keeps running; ingest, expiry and Close
\* are the environment and need not happen.
Fairness ==
  /\ WF_vars(StartTick)
  /\ WF_vars(VisitCorrupt \/ VisitAccumulate \/ VisitBreak \/ EndScan)
  /\ WF_vars(LastTaskDone)
  /\ \A w \in Workers : WF_vars(Take(w) \/ MergeAppend(w) \/ Delete(w))

Spec == Init /\ [][Next]_vars
FairSpec == Spec /\ Fairness

-----------------------------------------------------------------------------
(* Properties.                                                             *)

\* Keys delivered to the sink inside a correctly merged file.
Shipped == UNION {f.keys : f \in {g \in sink : g.merged}}

TypeOK ==
  /\ buf \subseteq Keys
  /\ durable \subseteq Keys
  /\ crashes \in 0..MaxCrashes
  /\ appended \subseteq Keys
  /\ expired \subseteq Keys
  /\ sink \subseteq Files
  /\ closed \in BOOLEAN
  /\ cancelled \in BOOLEAN
  /\ tick \in {"idle", "scanning", "waiting"}
  /\ pending \subseteq Keys
  /\ hash \in Hashes \cup {0}
  /\ accum \subseteq Keys
  /\ schema \in Schemas
  /\ chan \in Seq(Tasks)
  /\ worker \in [Workers -> Tasks]
  /\ phase \in [Workers -> {"idle", "merge", "delete"}]

\* No data loss (spec section 3, Lifecycle): a row block stays in the
\* buffer until it has been merged and written to the sink, unless its TTL
\* expired first.  Breaking it takes a tick, a worker's merge and append and
\* its delete, against ingest and purge.
NoLoss == appended \subseteq buf \cup Shipped \cup expired

\* The strengthening of NoLoss that is inductive: a worker that is about to
\* delete its run's keys from the buffer has already shipped them, so a
\* failed or unmerged append never reaches buffer.Delete.
DeleteAfterShip ==
  \A w \in Workers : phase[w] = "delete" => worker[w].keys \subseteq Shipped

\* With SyncWrites every committed change of the buffer is on disk.
DurableBuf == SyncWrites => durable = buf

NoLossInv == TypeOK /\ NoLoss /\ DeleteAfterShip /\ DurableBuf

\* The write path seen through the abstract promise of BufferSink: the
\* shipped blocks are the keys of the merged files in the sink.
Abs == INSTANCE BufferSink WITH shipped <- Shipped

\* Compaction implements BufferSink: every step of the tick, the workers,
\* ingest, expiry, Close and a crash-restart is a BufferSink step or leaves
\* its state alone; in particular buffer.Delete (compact.go:126) and a
\* restart from disk only ever drop blocks already shipped.
Refinement == Abs!Spec

\* Every file written to the sink holds the blocks of one partition whose
\* schemas union cleanly (spec S5: a tick groups contiguous equal-hash runs;
\* flush.Merge needs one target schema).
FilesArePartitions ==
  \A f \in sink :
    \A a, b \in f.keys :
      /\ HashOf(a) = HashOf(b)
      /\ UnionOK(BlockSchema[a], BlockSchema[b])

\* Spec section 8, invariant 5: when a tick has completed, every key handed
\* to Merge whose file was appended has been deleted from the buffer (no
\* worker is between dest.Append and buffer.Delete).
TickDeletesMerged ==
  tick = "idle" => \A w \in Workers : phase[w] # "delete"

\* Compact never hands an empty run to flush.Merge (which reads blocks[0]).
NoEmptyMerge ==
  /\ \A i \in 1..Len(chan) : chan[i].keys # {}
  /\ \A w \in Workers : phase[w] = "merge" => worker[w].keys # {}

\* Every appended block that decodes is eventually written to the sink,
\* unless it expires or the store is closed first.
EventuallyShipped ==
  \A k \in Keys \ Corrupt :
    k \in appended ~> (k \in Shipped \/ k \in expired \/ closed)
=============================================================================
