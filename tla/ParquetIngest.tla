--------------------------- MODULE ParquetIngest ---------------------------
(***************************************************************************)
(* block.FromParquetBy (internal/encoding/block/from_parquet.go): decode a *)
(* Parquet payload row by row, repartition the rows by the value of the    *)
(* partitionBy column, and cut the result into chunks of about 10MB, each  *)
(* turned into one block per partition by makeBlocks.                      *)
(*                                                                         *)
(* A row is abstracted to its partition value after                        *)
(* convertToStringForParquet (a partition, the empty string, or a value    *)
(* the conversion rejects) and whether its columns fail to encode in       *)
(* makeBlocks.  The content of the columns is the business of Columns.tla; *)
(* here a partition's columns are the set of the rows appended to them,    *)
(* and a row carries the bytes AppendTo and FillNulls add to 'size'.       *)
(***************************************************************************)
EXTENDS Naturals, Sequences, FiniteSets

CONSTANTS
  Parts,          \* nonempty partition values
  Empty,          \* the partition value ""
  Unconvertible,  \* a value convertToStringForParquet rejects
  PartValues,     \* the partition values rows of the input may carry
  Max,            \* the chunk size limit 'max' (10MB), in bytes
  MaxRowBytes,    \* bound on the bytes one row adds to its columns
  MaxLen          \* bound on the number of rows of the payload

ASSUME IngestAssumption ==
  /\ Empty \notin Parts /\ Unconvertible \notin Parts \cup {Empty}
  /\ PartValues \subseteq Parts \cup {Empty, Unconvertible}
  /\ Max \in Nat \ {0}
  /\ MaxRowBytes \in Nat \ {0}
  /\ MaxLen \in Nat

\* A row: its partition value, whether its columns fail to encode, and
\* the bytes out.AppendTo(columns) + columns.FillNulls() add for it (at
\* least one: the row holds its nonempty partition value).
RowKinds == [part : PartValues, bad : BOOLEAN, bytes : 1..MaxRowBytes]
Blocks == [part : Parts, rows : SUBSET Nat]

VARIABLES
  input,   \* the rows of the payload
  hasCol,  \* the payload's schema has the partitionBy column
  pc,      \* "open", "range", "last" (Range returned) or "done"
  i,       \* the index of the next row Range hands to the callback
  result,  \* the map partition -> columns of the current chunk
  size,    \* bytes appended to the current chunk
  blocks,  \* the blocks of the chunks already cut
  ret,     \* "none", then what FromParquetBy returns: "ok" or "err"
  out      \* the blocks it returns

vars == <<input, hasCol, pc, i, result, size, blocks, ret, out>>

NoRows == [p \in Parts |-> {}]

-----------------------------------------------------------------------------

\* makeBlocks: one block per partition of the chunk; it fails when the
\* columns of some row cannot be encoded.
MakeBlocks(res) == {[part |-> p, rows |-> res[p]] : p \in {q \in Parts : res[q] # {}}}
MakeBlocksFails(res) == \E p \in Parts : \E j \in res[p] : input[j].bad

Init ==
  /\ input \in UNION {[1..n -> RowKinds] : n \in 0..MaxLen}
  /\ hasCol \in BOOLEAN
  /\ pc = "open"
  /\ i = 1
  /\ result = NoRows
  /\ size = 0
  /\ blocks = {}
  /\ ret = "none"
  /\ out = {}

\* parquet.FromBuffer fails, or the schema has no partition column and the
\* file is skipped, or the rows are ranged.
Open ==
  /\ pc = "open"
  /\ \/ ret' = "err" /\ pc' = "done"
     \/ ~hasCol /\ ret' = "ok" /\ pc' = "done"
     \/ hasCol /\ pc' = "range" /\ UNCHANGED ret
  /\ UNCHANGED <<input, hasCol, i, result, size, blocks, out>>

\* Mutant: the chunk is cut only once it exceeds the limit.
FlushDueLate == size > Max

\* The chunk is cut before the next row once it holds 'max' bytes.
FlushDue == size >= Max

\* Mutant: the map is not reset after a chunk is cut.
ChunkedKeepResult ==
  IF FlushDue THEN [res |-> result, blk |-> blocks \cup MakeBlocks(result), sz |-> 0]
  ELSE [res |-> result, blk |-> blocks, sz |-> size]

\* The state of the callback after its chunk check: the chunk, if due, is
\* made into blocks and a fresh map started.
Chunked ==
  IF FlushDue THEN [res |-> NoRows, blk |-> blocks \cup MakeBlocks(result), sz |-> 0]
  ELSE [res |-> result, blk |-> blocks, sz |-> size]

\* The Range callback for row i: makeBlocks of a due chunk fails and Range
\* stops; or the row's partition value is unconvertible and Range stops;
\* or it is empty and the row is skipped; or the row is appended to the
\* columns of its partition and FillNulls pads them.
Visit ==
  /\ pc = "range"
  /\ i <= Len(input)
  /\ \/ /\ FlushDue /\ MakeBlocksFails(result)
        /\ pc' = "last"
        /\ UNCHANGED <<i, result, size, blocks>>
     \/ /\ ~(FlushDue /\ MakeBlocksFails(result))
        /\ blocks' = Chunked.blk
        /\ \/ /\ input[i].part = Unconvertible
              /\ pc' = "last"
              /\ result' = Chunked.res /\ size' = Chunked.sz
              /\ UNCHANGED i
           \/ /\ input[i].part = Empty
              /\ result' = Chunked.res /\ size' = Chunked.sz
              /\ i' = i + 1
              /\ UNCHANGED pc
           \/ /\ input[i].part \in Parts
              /\ result' = [Chunked.res EXCEPT ![input[i].part] = @ \cup {i}]
              /\ size' = Chunked.sz + input[i].bytes
              /\ i' = i + 1
              /\ UNCHANGED pc
  /\ UNCHANGED <<input, hasCol, ret, out>>

\* Range has visited every row.
RangeEnd ==
  /\ pc = "range"
  /\ i > Len(input)
  /\ pc' = "last"
  /\ UNCHANGED <<input, hasCol, i, result, size, blocks, ret, out>>

\* Mutant: the error of the last makeBlocks is dropped and the blocks so
\* far are returned.
WriteLastIgnoreError ==
  /\ pc = "last"
  /\ pc' = "done"
  /\ ret' = "ok"
  /\ out' = IF MakeBlocksFails(result) THEN blocks ELSE blocks \cup MakeBlocks(result)
  /\ UNCHANGED <<input, hasCol, i, result, size, blocks>>

\* Write the last chunk: on an error return (nil, err), else every block.
WriteLast ==
  /\ pc = "last"
  /\ pc' = "done"
  /\ \/ MakeBlocksFails(result) /\ ret' = "err" /\ out' = {}
     \/ ~MakeBlocksFails(result) /\ ret' = "ok" /\ out' = blocks \cup MakeBlocks(result)
  /\ UNCHANGED <<input, hasCol, i, result, size, blocks>>

\* FromParquetBy has returned.
Done == pc = "done" /\ UNCHANGED vars

Next == Open \/ Visit \/ RangeEnd \/ WriteLast \/ Done

Spec == Init /\ [][Next]_vars

-----------------------------------------------------------------------------
(* Properties.                                                             *)

TypeOK ==
  /\ input \in Seq(RowKinds)
  /\ hasCol \in BOOLEAN
  /\ pc \in {"open", "range", "last", "done"}
  /\ i \in 1..Len(input) + 1
  /\ result \in [Parts -> SUBSET (1..Len(input))]
  /\ size \in Nat
  /\ blocks \subseteq Blocks
  /\ ret \in {"none", "ok", "err"}
  /\ out \subseteq Blocks

\* The rows of the payload that belong to a partition.
Partitioned == {j \in 1..Len(input) : input[j].part \in Parts}

\* The rows FromParquetBy returned, in some block.
Delivered == UNION {b.rows : b \in out}

\* Spec 4.7: a call that returns no error and found the partition column
\* has turned every row with a nonempty partition value into a block, and
\* only those: a makeBlocks error in the middle of the file (line 39) stops
\* the Range, and the retry on the same map at line 90 must surface it.
AllOrError ==
  (pc = "done" /\ ret = "ok" /\ hasCol) => Delivered = Partitioned

\* AllOrError for the payloads whose partition values all convert: then
\* the only ways Range stops early are the ones that end in an error.
ConvertibleAllOrError ==
  (\A j \in 1..Len(input) : input[j].part # Unconvertible) => AllOrError

\* No row is returned in two blocks, and each block holds rows of its own
\* partition only, however the chunks are cut.
RowsOnce ==
  \A b, c \in out :
    /\ \A j \in b.rows : input[j].part = b.part
    /\ b # c => b.rows \cap c.rows = {}

\* The bytes of a set of rows: one unit <<j, u>> per byte of row j.
Bytes(S) == Cardinality(UNION {{j} \X (1..input[j].bytes) : j \in S})

\* Spec 4.7: blocks are sliced to "at most ~10 MB" each.  The check at
\* line 36 comes before the row is added, so a chunk may pass 'max', but
\* by less than one row: no returned block exceeds max - 1 bytes plus the
\* bytes of the row that crossed the limit.
ChunkBound == \A b \in out : Bytes(b.rows) <= Max - 1 + MaxRowBytes
=============================================================================
