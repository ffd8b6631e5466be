-------------------------- MODULE CompactionProofs --------------------------
(***************************************************************************)
(* Proofs about the compaction pipeline of Compaction.tla, for every value *)
(* of its constants that satisfies ConstantsAssumption.                    *)
(***************************************************************************)
EXTENDS Compaction, TLAPS

USE ConstantsAssumption

-----------------------------------------------------------------------------
(* Type correctness.                                                       *)

\* A task built from the accumulator is a task.
LEMMA TaskOfAccum ==
  ASSUME NEW a \in SUBSET Keys, NEW l \in BOOLEAN
  PROVE  [keys |-> a, last |-> l] \in Tasks
BY DEF Tasks

\* Enqueue keeps the channel a sequence of tasks.
LEMMA EnqueueType ==
  ASSUME NEW t \in Tasks, chan \in Seq(Tasks), Enqueue(t)
  PROVE  chan' \in Seq(Tasks)
BY DEF Enqueue

LEMMA InitTypeOK == Init => TypeOK
<1> SUFFICES ASSUME Init PROVE TypeOK
  OBVIOUS
<1>1. NoTask \in Tasks
  BY DEF NoTask, Tasks
<1>2. chan \in Seq(Tasks)
  BY DEF Init
<1>3. worker \in [Workers -> Tasks]
  BY <1>1 DEF Init
<1>4. crashes \in 0..MaxCrashes
  BY DEF Init
<1>5. QED
  BY <1>2, <1>3, <1>4 DEF Init, TypeOK, Schemas

LEMMA NextTypeOK == TypeOK /\ [Next]_vars => TypeOK'
<1> SUFFICES ASSUME TypeOK, [Next]_vars PROVE TypeOK'
  OBVIOUS
<1>1. ASSUME NEW k \in Keys, BufferAppend(k) PROVE TypeOK'
  BY <1>1 DEF BufferAppend, Persist, TypeOK
<1>2. ASSUME NEW k \in Keys, Expire(k) PROVE TypeOK'
  BY <1>2 DEF Expire, Persist, TypeOK
<1>3. CASE Close \/ SyncToDisk
  BY <1>3 DEF Close, SyncToDisk, TypeOK
<1>16. CASE Crash
  <2>1. NoTask \in Tasks
    BY DEF NoTask, Tasks
  <2>2. QED
    BY <1>16, <2>1 DEF Crash, TypeOK, Schemas
<1>4. CASE StartTick
  BY <1>4 DEF StartTick, TypeOK, Schemas
<1>5. CASE VisitCorrupt
  BY <1>5 DEF VisitCorrupt, TypeOK
<1>6. CASE VisitAccumulate
  <2>1. PICK k \in pending : HashOf(k) = hash' /\ accum' = accum \cup {k}
                             /\ pending' = pending \ {k}
                             /\ schema' = Union(schema, BlockSchema[k])
    BY <1>6 DEF VisitAccumulate
  <2>2. k \in Keys /\ hash' \in Hashes
    BY <2>1 DEF TypeOK, HashOf, Hashes
  <2>3. schema' \in Schemas
    BY <2>1, <2>2 DEF TypeOK, Union, Schemas
  <2>4. QED
    BY <1>6, <2>1, <2>2, <2>3 DEF VisitAccumulate, TypeOK
<1>7. CASE VisitBreak
  <2>1. PICK k \in pending : HashOf(k) = hash'
                             /\ Enqueue([keys |-> accum, last |-> FALSE])
    BY <1>7 DEF VisitBreak
  <2>2. k \in Keys /\ hash' \in Hashes
    BY <2>1 DEF TypeOK, HashOf, Hashes
  <2>3. chan' \in Seq(Tasks)
    BY <2>1, TaskOfAccum, EnqueueType DEF TypeOK
  <2>4. QED
    BY <1>7, <2>2, <2>3 DEF VisitBreak, TypeOK, Schemas
<1>8. CASE EndScan
  <2>1. chan' \in Seq(Tasks)
    BY <1>8, TaskOfAccum, EnqueueType DEF EndScan, TypeOK
  <2>2. QED
    BY <1>8, <2>1 DEF EndScan, TypeOK
<1>9. CASE LastTaskDone
  BY <1>9 DEF LastTaskDone, TypeOK
<1>10. ASSUME NEW w \in Workers, Take(w) PROVE TypeOK'
  BY <1>10 DEF Take, TypeOK
<1>11. ASSUME NEW w \in Workers, MergeAppend(w) PROVE TypeOK'
  <2>1. [keys |-> worker[w].keys, merged |-> TRUE] \in Files
        /\ [keys |-> worker[w].keys, merged |-> FALSE] \in Files
    BY DEF TypeOK, Tasks, Files
  <2>2. NoTask \in Tasks
    BY DEF NoTask, Tasks
  <2>3. QED
    BY <1>11, <2>1, <2>2 DEF MergeAppend, Finish, TypeOK
<1>12. ASSUME NEW w \in Workers, Delete(w) PROVE TypeOK'
  <2>1. NoTask \in Tasks
    BY DEF NoTask, Tasks
  <2>2. QED
    BY <1>12, <2>1 DEF Delete, Finish, Persist, TypeOK
<1>13. CASE Terminated
  BY <1>13 DEF Terminated, vars, TypeOK
<1>14. CASE UNCHANGED vars
  BY <1>14 DEF vars, TypeOK
<1>15. QED
  BY <1>1, <1>2, <1>3, <1>4, <1>5, <1>6, <1>7, <1>8, <1>9, <1>10, <1>11,
     <1>12, <1>13, <1>14, <1>16 DEF Next

\* Every reachable state is well typed.
THEOREM TypeCorrect == Spec => []TypeOK
BY InitTypeOK, NextTypeOK, PTL DEF Spec
-----------------------------------------------------------------------------
(* No data loss, when flush.Merge does not fail.                           *)

\* Writing more files to the sink never unships a key.
LEMMA ShippedGrows ==
  ASSUME sink \subseteq sink'
  PROVE  Shipped \subseteq Shipped'
BY DEF Shipped

\* The keys of a merged file in the sink are shipped.
LEMMA MergedFileShipped ==
  ASSUME NEW f \in sink', f.merged = TRUE
  PROVE  f.keys \subseteq Shipped'
BY DEF Shipped

\* Without writer errors a nonempty run always merges.
LEMMA MergeSucceeds ==
  ASSUME ~MergeCanFail, NEW t, t.keys # {}, NEW out \in MergeOutcomes(t)
  PROVE  out = "ok"
BY DEF MergeOutcomes

\* What the theorem assumes of the constants: the ORC writer does not
\* fail, and a crash finds every committed change on disk (or none occurs).
Durability == SyncWrites \/ MaxCrashes = 0

LEMMA InitNoLossInv == Init => NoLossInv
BY InitTypeOK DEF Init, NoLossInv, NoLoss, DeleteAfterShip, DurableBuf

\* With SyncWrites the disk follows every change of the buffer.
LEMMA PersistDurable ==
  ASSUME Persist PROVE SyncWrites => durable' = buf'
BY DEF Persist

LEMMA NextNoLossInv ==
  ASSUME ~MergeCanFail, Durability
  PROVE  NoLossInv /\ [Next]_vars => NoLossInv'
<1> SUFFICES ASSUME NoLossInv, [Next]_vars PROVE NoLossInv'
  OBVIOUS
<1>0. TypeOK'
  BY NextTypeOK DEF NoLossInv
<1> USE <1>0 DEF NoLossInv
<1>1. ASSUME NEW k \in Keys, BufferAppend(k) PROVE NoLossInv'
  BY <1>1, PersistDurable DEF BufferAppend, NoLoss, DeleteAfterShip, Shipped,
                              DurableBuf
<1>2. ASSUME NEW k \in Keys, Expire(k) PROVE NoLossInv'
  BY <1>2, PersistDurable DEF Expire, NoLoss, DeleteAfterShip, Shipped,
                              DurableBuf
<1>3. ASSUME NEW w \in Workers, MergeAppend(w) PROVE NoLossInv'
  <2>1. Shipped \subseteq Shipped'
    BY <1>3, ShippedGrows DEF MergeAppend, Finish
  <2>2. NoLoss' /\ DurableBuf'
    BY <1>3, <2>1 DEF MergeAppend, Finish, NoLoss, DurableBuf
  <2>3. PICK out \in MergeOutcomes(worker[w]) :
          \/ out = "panic" /\ Finish(w) /\ UNCHANGED sink
          \/ /\ sink' = sink \cup {[keys |-> worker[w].keys, merged |-> out = "ok"]}
             /\ phase' = [phase EXCEPT ![w] = "delete"]
             /\ UNCHANGED worker
          \/ SinkCanFail /\ Finish(w) /\ UNCHANGED sink
    BY <1>3 DEF MergeAppend
  <2>4. worker'[w].keys \subseteq Shipped' \/ phase'[w] # "delete"
    <3>1. CASE out = "panic" /\ Finish(w) /\ UNCHANGED sink
      BY <3>1 DEF Finish, TypeOK
    <3>2. CASE SinkCanFail /\ Finish(w) /\ UNCHANGED sink
      BY <3>2 DEF Finish, TypeOK
    <3>3. CASE /\ sink' = sink \cup {[keys |-> worker[w].keys, merged |-> out = "ok"]}
               /\ UNCHANGED worker
      <4>1. CASE worker[w].keys = {}
        BY <3>3, <4>1
      <4>2. CASE worker[w].keys # {}
        <5>1. out = "ok"
          BY <4>2, MergeSucceeds
        <5>2. [keys |-> worker[w].keys, merged |-> TRUE] \in sink'
          BY <3>3, <5>1
        <5>. QED
          BY <3>3, <5>2, MergedFileShipped
      <4>. QED
        BY <4>1, <4>2
    <3>. QED
      BY <2>3, <3>1, <3>2, <3>3
  <2>5. \A v \in Workers \ {w} : phase'[v] = phase[v] /\ worker'[v] = worker[v]
    BY <1>3 DEF MergeAppend, Finish, TypeOK
  <2>6. DeleteAfterShip'
    BY <1>3, <2>1, <2>4, <2>5 DEF DeleteAfterShip
  <2>. QED
    BY <2>2, <2>6
<1>4. ASSUME NEW w \in Workers, Delete(w) PROVE NoLossInv'
  <2>1. worker[w].keys \subseteq Shipped
    BY <1>4 DEF Delete, DeleteAfterShip
  <2>2. buf \ worker[w].keys \subseteq buf'
    BY <1>4 DEF Delete
  <2>3. NoLoss'
    BY <1>4, <2>1, <2>2 DEF Delete, NoLoss, Shipped
  <2>4. DeleteAfterShip'
    BY <1>4 DEF Delete, Finish, DeleteAfterShip, Shipped, TypeOK
  <2>5. DurableBuf'
    BY <1>4, PersistDurable DEF Delete, DurableBuf
  <2>. QED
    BY <2>3, <2>4, <2>5
<1>5. ASSUME NEW w \in Workers, Take(w) PROVE NoLossInv'
  BY <1>5 DEF Take, NoLoss, DeleteAfterShip, Shipped, TypeOK, DurableBuf
<1>6. CASE \/ StartTick \/ VisitCorrupt \/ VisitAccumulate
           \/ VisitBreak \/ EndScan \/ LastTaskDone \/ Terminated
           \/ UNCHANGED vars
  <2>1. UNCHANGED <<buf, durable, appended, expired, sink, worker, phase>>
    BY <1>6 DEF StartTick, VisitCorrupt, VisitAccumulate, VisitBreak,
                EndScan, LastTaskDone, Terminated, vars
  <2>. QED
    BY <2>1 DEF NoLoss, DeleteAfterShip, Shipped, DurableBuf
<1>7. CASE Close \/ SyncToDisk
  <2>1. UNCHANGED <<buf, appended, expired, sink, worker, phase>>
    BY <1>7 DEF Close, SyncToDisk
  <2>2. DurableBuf'
    BY <1>7 DEF Close, SyncToDisk, DurableBuf
  <2>. QED
    BY <2>1, <2>2 DEF NoLoss, DeleteAfterShip, Shipped
\* A crash finds the buffer on disk as it was: the crash-free case of
\* Durability leaves no crash to take.
<1>8. CASE Crash
  <2>1. SyncWrites
    BY <1>8 DEF Crash, Durability, TypeOK
  <2>2. buf' = buf /\ durable' = durable
    BY <1>8, <2>1 DEF Crash, DurableBuf
  <2>3. UNCHANGED <<appended, expired, sink>>
    BY <1>8 DEF Crash
  <2>4. \A w \in Workers : phase'[w] = "idle"
    BY <1>8 DEF Crash
  <2>. QED
    BY <2>2, <2>3, <2>4 DEF NoLoss, DeleteAfterShip, Shipped, DurableBuf
<1>9. QED
  BY <1>1, <1>2, <1>3, <1>4, <1>5, <1>6, <1>7, <1>8 DEF Next

\* When the ORC writer does not fail and the buffer syncs every commit
\* (or the machine never crashes), every block appended to the buffer is
\* always still in the buffer, delivered to the sink in a merged file, or
\* expired by its TTL: the compactor deletes a key only after shipping it,
\* and a crash at any point, restarting the compactor, loses nothing.
THEOREM NoLossTheorem == ~MergeCanFail /\ Durability => (Spec => []NoLoss)
<1> SUFFICES ASSUME ~MergeCanFail, Durability PROVE Spec => []NoLoss
  OBVIOUS
<1>1. NoLossInv => NoLoss
  BY DEF NoLossInv
<1>. QED
  BY InitNoLossInv, NextNoLossInv, <1>1, PTL DEF Spec
-----------------------------------------------------------------------------
(* Refinement of BufferSink.                                               *)

LEMMA InitRefines == Init => Abs!Init
BY DEF Init, Abs!Init, Shipped

\* Every step of Compaction from a NoLossInv state is a BufferSink step
\* or leaves the buffer, the histories and the shipped keys alone.
LEMMA NextRefines ==
  ASSUME Durability
  PROVE  NoLossInv /\ [Next]_vars => [Abs!Next]_Abs!vars
<1> SUFFICES ASSUME NoLossInv, [Next]_vars PROVE [Abs!Next]_Abs!vars
  OBVIOUS
<1> USE DEF NoLossInv
<1>1. ASSUME NEW k \in Keys, BufferAppend(k) PROVE Abs!Ingest(k)
  BY <1>1 DEF BufferAppend, Abs!Ingest, Shipped
<1>2. ASSUME NEW k \in Keys, Expire(k) PROVE Abs!Expire(k)
  BY <1>2 DEF Expire, Abs!Expire, Shipped
\* A merge task ships the keys of its file when the file is merged.
<1>3. ASSUME NEW w \in Workers, MergeAppend(w) PROVE Abs!Ship(Shipped')
  <2>1. Shipped \subseteq Shipped'
    BY <1>3, ShippedGrows DEF MergeAppend, Finish
  <2>2. UNCHANGED <<buf, appended, expired>>
    BY <1>3 DEF MergeAppend
  <2>. QED
    BY <2>1, <2>2 DEF Abs!Ship
\* buffer.Delete forgets the keys it removed, all of which are shipped.
<1>4. ASSUME NEW w \in Workers, Delete(w) PROVE Abs!Forget(buf \ buf')
  <2>1. buf' \subseteq buf /\ buf \ buf' \subseteq worker[w].keys
    BY <1>4 DEF Delete
  <2>2. worker[w].keys \subseteq Shipped
    BY <1>4 DEF Delete, DeleteAfterShip
  <2>3. UNCHANGED <<appended, expired, sink>>
    BY <1>4 DEF Delete
  <2>. QED
    BY <2>1, <2>2, <2>3 DEF Abs!Forget, Shipped
<1>5. CASE \/ \E w \in Workers : Take(w)
           \/ StartTick \/ VisitCorrupt \/ VisitAccumulate \/ VisitBreak
           \/ EndScan \/ LastTaskDone \/ Terminated \/ Close \/ SyncToDisk
           \/ UNCHANGED vars
  BY <1>5 DEF Take, StartTick, VisitCorrupt, VisitAccumulate, VisitBreak,
              EndScan, LastTaskDone, Terminated, Close, SyncToDisk, vars,
              Abs!vars, Shipped
\* A restart reloads exactly the buffer: durable = buf by DurableBuf.
<1>6. CASE Crash
  <2>1. SyncWrites
    BY <1>6 DEF Crash, Durability, TypeOK
  <2>. QED
    BY <1>6, <2>1 DEF Crash, DurableBuf, Abs!vars, Shipped
<1>7. QED
  <2>1. \A S \in SUBSET Keys : Abs!Ship(S) \/ Abs!Forget(S) => Abs!Next
    BY DEF Abs!Next
  <2>2. Shipped' \in SUBSET Keys /\ (buf \ buf') \in SUBSET Keys
    BY NextTypeOK DEF Shipped, TypeOK, Files
  <2>. QED
    BY <1>1, <1>2, <1>3, <1>4, <1>5, <1>6, <2>1, <2>2 DEF Next, Abs!Next

\* When the buffer syncs every commit (or the machine never crashes), the
\* write path implements BufferSink: the only ways a block leaves the
\* buffer are its TTL and buffer.Delete after the block was shipped, and a
\* crash-restart (compact.New on the reopened store) is invisible.  The
\* argument is NoLossInv: DeleteAfterShip makes every Delete a Forget of
\* shipped keys, and DurableBuf makes a crash a stutter.
THEOREM RefinementTheorem == ~MergeCanFail /\ Durability => (Spec => Refinement)
<1> SUFFICES ASSUME ~MergeCanFail, Durability PROVE Spec => Abs!Spec
  BY DEF Refinement
<1>1. Spec => []NoLossInv
  BY InitNoLossInv, NextNoLossInv, PTL DEF Spec
<1>2. Spec => [][Abs!Next]_Abs!vars
  BY <1>1, NextRefines, PTL DEF Spec
<1>. QED
  BY <1>2, InitRefines, PTL DEF Spec, Abs!Spec

\* Under the same assumptions every reachable state satisfies the whole of
\* NoLossInv: the state is well typed, no block is lost, a worker reaches
\* buffer.Delete (compact.go:126) only for keys already in a merged file,
\* and, with SyncWrites, the disk holds the buffer.
THEOREM NoLossInvTheorem == ~MergeCanFail /\ Durability => (Spec => []NoLossInv)
<1> SUFFICES ASSUME ~MergeCanFail, Durability PROVE Spec => []NoLossInv
  OBVIOUS
<1>. QED
  BY InitNoLossInv, NextNoLossInv, PTL DEF Spec

-----------------------------------------------------------------------------
(* Files are partitions, when no key hashes to 0.                          *)

\* What the theorem assumes: no key's partition hash is 0.  Compact uses
\* hash 0 for "no record yet" (compact.go:91), so a record hashing to 0
\* would let the next record of any partition join its run.
NoZeroHash == \A k \in Keys : HashOf(k) # 0

\* A set of keys whose blocks share a partition and pairwise union.
Coherent(S) ==
  \A a, b \in S : HashOf(a) = HashOf(b) /\ UnionOK(BlockSchema[a], BlockSchema[b])

\* The run Compact accumulates is coherent, every key of it carries the
\* run's hash, and the run's schema covers every block's schema.
RunCoherent ==
  /\ Coherent(accum)
  /\ \A a \in accum : HashOf(a) = hash /\ BlockSchema[a] \subseteq schema

\* Every queued and every running task is a coherent run.
TasksCoherent ==
  /\ \A i \in 1..Len(chan) : Coherent(chan[i].keys)
  /\ \A w \in Workers : Coherent(worker[w].keys)

PartitionInv == TypeOK /\ RunCoherent /\ TasksCoherent /\ FilesArePartitions

\* A run extended by a record with its hash whose schema unions with the
\* run's schema stays coherent.
LEMMA CoherentAdd ==
  ASSUME NEW S \in SUBSET Keys, NEW k \in Keys, NEW sch, NEW h,
         Coherent(S),
         \A a \in S : HashOf(a) = h /\ BlockSchema[a] \subseteq sch,
         S # {} => UnionOK(sch, BlockSchema[k]) /\ HashOf(k) = h
  PROVE  Coherent(S \cup {k})
<1>1. UnionOK(BlockSchema[k], BlockSchema[k])
  BY DEF UnionOK
<1>2. ASSUME NEW a \in S
      PROVE  /\ HashOf(a) = HashOf(k)
             /\ UnionOK(BlockSchema[a], BlockSchema[k])
             /\ UnionOK(BlockSchema[k], BlockSchema[a])
  <2>1. UnionOK(sch, BlockSchema[k]) /\ HashOf(k) = h
    BY <1>2
  <2>. QED
    BY <1>2, <2>1 DEF UnionOK
<1>. QED
  BY <1>1, <1>2 DEF Coherent

\* Nothing is coherent that is not a set of keys: the empty run is.
LEMMA CoherentEmpty == Coherent({})
BY DEF Coherent

LEMMA InitPartitionInv == Init => PartitionInv
<1> SUFFICES ASSUME Init PROVE PartitionInv
  OBVIOUS
<1>1. \A w \in Workers : Coherent(worker[w].keys)
  BY CoherentEmpty DEF Init, NoTask
<1>2. RunCoherent
  BY DEF Init, RunCoherent, Coherent
<1>3. \A i \in 1..Len(chan) : Coherent(chan[i].keys)
  BY DEF Init
<1>. QED
  BY <1>1, <1>2, <1>3, InitTypeOK DEF Init, PartitionInv, TasksCoherent, FilesArePartitions

\* Sending a coherent run keeps every queued task coherent.
LEMMA EnqueueCoherent ==
  ASSUME chan \in Seq(Tasks), \A i \in 1..Len(chan) : Coherent(chan[i].keys),
         NEW t, Coherent(t.keys), Enqueue(t)
  PROVE  \A i \in 1..Len(chan') : Coherent(chan'[i].keys)
BY DEF Enqueue

\* A worker that returns holds the empty run.
LEMMA FinishCoherent ==
  ASSUME worker \in [Workers -> Tasks], \A v \in Workers : Coherent(worker[v].keys),
         NEW w \in Workers, Finish(w)
  PROVE  \A v \in Workers : Coherent(worker'[v].keys)
BY CoherentEmpty DEF Finish, NoTask

LEMMA NextPartitionInv ==
  ASSUME NoZeroHash
  PROVE  PartitionInv /\ [Next]_vars => PartitionInv'
<1> SUFFICES ASSUME PartitionInv, [Next]_vars PROVE PartitionInv'
  OBVIOUS
<1> USE DEF PartitionInv
<1>0. TypeOK'
  BY NextTypeOK
<1>1. CASE UNCHANGED <<hash, accum, schema, chan, worker, sink>>
  BY <1>0, <1>1 DEF RunCoherent, TasksCoherent, FilesArePartitions
<1>2. CASE Crash \/ StartTick
  <2>1. accum' = {} /\ \A a \in accum' : BlockSchema[a] \subseteq schema'
    BY <1>2 DEF Crash, StartTick
  <2>2. TasksCoherent'
    <3>1. CASE Crash
      <4>1. chan' = <<>> /\ \A v \in Workers : worker'[v].keys = {}
        BY <3>1 DEF Crash, NoTask
      <4>. QED
        BY <4>1 DEF TasksCoherent, Coherent
    <3>2. CASE StartTick
      BY <3>2 DEF StartTick, TasksCoherent
    <3>. QED
      BY <1>2, <3>1, <3>2
  <2>. QED
    BY <1>0, <1>2, <2>1, <2>2, CoherentEmpty
       DEF Crash, StartTick, RunCoherent, FilesArePartitions
\* The record joins the run: by NoZeroHash a nonempty run has a nonzero
\* hash, so Accumulates demands the run's hash and a clean union.
<1>3. CASE VisitAccumulate
  <2>1. PICK k \in pending :
          /\ Accumulates(k)
          /\ hash' = HashOf(k) /\ accum' = accum \cup {k}
          /\ schema' = Union(schema, BlockSchema[k])
    BY <1>3 DEF VisitAccumulate
  <2>2. k \in Keys /\ accum \in SUBSET Keys
    BY DEF TypeOK
  <2>3. accum # {} => UnionOK(schema, BlockSchema[k]) /\ HashOf(k) = hash
    <3>1. accum # {} => hash # 0
      BY <2>2 DEF RunCoherent, NoZeroHash
    <3>. QED
      BY <2>1, <3>1 DEF Accumulates
  <2>4. Coherent(accum')
    BY <2>1, <2>2, <2>3, CoherentAdd DEF RunCoherent
  <2>5. \A a \in accum' : HashOf(a) = hash' /\ BlockSchema[a] \subseteq schema'
    BY <2>1, <2>3 DEF RunCoherent, Union
  <2>. QED
    BY <1>0, <1>3, <2>4, <2>5
       DEF VisitAccumulate, RunCoherent, TasksCoherent, FilesArePartitions
\* The run is sent to the workers and a new, empty one started.
<1>4. CASE VisitBreak \/ EndScan
  <2>1. /\ Enqueue([keys |-> accum, last |-> FALSE]) \/ Enqueue([keys |-> accum, last |-> TRUE])
        /\ UNCHANGED <<worker, sink>>
    BY <1>4 DEF VisitBreak, EndScan
  <2>2. \A i \in 1..Len(chan') : Coherent(chan'[i].keys)
    BY <2>1, EnqueueCoherent DEF TypeOK, RunCoherent, TasksCoherent
  <2>3. RunCoherent'
    <3>1. CASE VisitBreak
      BY <3>1, CoherentEmpty DEF VisitBreak, RunCoherent
    <3>2. CASE EndScan
      BY <3>2 DEF EndScan, RunCoherent
    <3>. QED
      BY <1>4, <3>1, <3>2
  <2>. QED
    BY <1>0, <2>1, <2>2, <2>3 DEF TasksCoherent, FilesArePartitions
\* A worker takes the oldest queued run.
<1>5. ASSUME NEW w \in Workers, Take(w) PROVE PartitionInv'
  <2>1. chan # <<>> /\ chan \in Seq(Tasks)
    BY <1>5 DEF Take, TypeOK
  <2>2. \A i \in 1..Len(chan') : Coherent(chan'[i].keys)
    BY <1>5, <2>1 DEF Take, TasksCoherent
  <2>3. \A v \in Workers : Coherent(worker'[v].keys)
    BY <1>5, <2>1 DEF Take, TasksCoherent, TypeOK
  <2>. QED
    BY <1>0, <1>5, <2>2, <2>3 DEF Take, RunCoherent, TasksCoherent, FilesArePartitions
\* The file written holds the worker's coherent run.
<1>6. ASSUME NEW w \in Workers, MergeAppend(w) PROVE PartitionInv'
  <2>1. \A v \in Workers : Coherent(worker'[v].keys)
    BY <1>6, FinishCoherent DEF MergeAppend, TasksCoherent, TypeOK
  <2>2. FilesArePartitions'
    BY <1>6 DEF MergeAppend, FilesArePartitions, TasksCoherent, Coherent
  <2>. QED
    BY <1>0, <1>6, <2>1, <2>2 DEF MergeAppend, RunCoherent, TasksCoherent
<1>7. ASSUME NEW w \in Workers, Delete(w) PROVE PartitionInv'
  <2>1. \A v \in Workers : Coherent(worker'[v].keys)
    BY <1>7, FinishCoherent DEF Delete, TasksCoherent, TypeOK
  <2>. QED
    BY <1>0, <1>7, <2>1 DEF Delete, RunCoherent, TasksCoherent, FilesArePartitions
<1>8. QED
  <2>1. ASSUME NEW k \in Keys, BufferAppend(k) \/ Expire(k)
        PROVE  UNCHANGED <<hash, accum, schema, chan, worker, sink>>
    BY <2>1 DEF BufferAppend, Expire
  <2>2. CASE Close \/ SyncToDisk \/ VisitCorrupt \/ LastTaskDone \/ Terminated
                \/ UNCHANGED vars
    <3>. UNCHANGED <<hash, accum, schema, chan, worker, sink>>
      BY <2>2 DEF Close, SyncToDisk, VisitCorrupt, LastTaskDone, Terminated, vars
    <3>. QED
      BY <1>1
  <2>. QED
    BY <1>1, <1>2, <1>3, <1>4, <1>5, <1>6, <1>7, <2>1, <2>2 DEF Next

\* When no key hashes to 0, every file Compact writes to the sink holds
\* the blocks of one partition whose schemas pairwise union: the run cut
\* at compact.go:91 keeps equal hashes and clean unions, is handed whole
\* to one worker through s.tasks, and that worker appends exactly its keys.
THEOREM PartitionTheorem == NoZeroHash => (Spec => []FilesArePartitions)
<1> SUFFICES ASSUME NoZeroHash PROVE Spec => []FilesArePartitions
  OBVIOUS
<1>1. Spec => []PartitionInv
  BY InitPartitionInv, NextPartitionInv, PTL DEF Spec
<1>. QED
  BY <1>1, PTL DEF PartitionInv
=============================================================================
