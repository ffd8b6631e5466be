------------------------ MODULE ParquetIngestProofs ------------------------
(***************************************************************************)
(* Proofs that FromParquetBy returns every row at most once, in a block   *)
(* of its own partition, in blocks that pass 'max' by less than a row,     *)
(* and, when every partition value converts, every partitioned row or an  *)
(* error: for any chunk size, any row sizes and any payload.               *)
(***************************************************************************)
EXTENDS ParquetIngest, FiniteSetTheorems, TLAPS

USE IngestAssumption

\* Rows in the current chunk and in the blocks cut so far have been read,
\* and sit under their own partition.
Labelled ==
  /\ \A p \in Parts : \A j \in result[p] : j < i /\ input[j].part = p
  /\ \A b \in blocks : \A j \in b.rows : j < i /\ input[j].part = b.part

\* The blocks cut so far share no row with each other or with the chunk.
Disjoint ==
  /\ \A b, c \in blocks : b # c => b.rows \cap c.rows = {}
  /\ \A b \in blocks : \A p \in Parts : b.rows \cap result[p] = {}

\* Nothing is returned before the call ends, and then nothing, or the
\* blocks cut and the last chunk's.
Returned ==
  /\ pc # "done" => out = {}
  /\ out = {} \/ out = blocks \cup MakeBlocks(result)

IngestInv == TypeOK /\ Labelled /\ Disjoint /\ Returned

\* A row of the payload adds between 1 and MaxRowBytes bytes.
LEMMA RowBytesType ==
  ASSUME TypeOK, NEW j \in 1..Len(input)
  PROVE  input[j].bytes \in 1..MaxRowBytes /\ input[j].bytes \in Nat
<1>1. input[j] \in RowKinds
  BY DEF TypeOK
<1>. QED
  BY <1>1 DEF RowKinds

\* The blocks of a chunk whose rows are labelled with their partition.
LEMMA MadeBlocks ==
  ASSUME NEW res \in [Parts -> SUBSET Nat],
         \A p \in Parts : \A j \in res[p] : input[j].part = p,
         NEW b \in MakeBlocks(res)
  PROVE  /\ b.part \in Parts /\ b.rows = res[b.part]
         /\ \A j \in b.rows : input[j].part = b.part
BY DEF MakeBlocks

\* makeBlocks yields blocks.
LEMMA MadeBlocksTyped ==
  ASSUME NEW res \in [Parts -> SUBSET Nat]
  PROVE  MakeBlocks(res) \subseteq Blocks
BY DEF MakeBlocks, Blocks

\* Blocks made from one labelled chunk are disjoint: two of them with a
\* common row have the same partition, hence are the same block.
LEMMA MadeDisjoint ==
  ASSUME NEW res \in [Parts -> SUBSET Nat],
         \A p \in Parts : \A j \in res[p] : input[j].part = p,
         NEW b \in MakeBlocks(res), NEW c \in MakeBlocks(res), b # c
  PROVE  b.rows \cap c.rows = {}
<1>1. b.part # c.part
  BY MadeBlocks DEF MakeBlocks
<1>. QED
  BY <1>1, MadeBlocks

LEMMA InitIngestInv == Init => IngestInv
<1> SUFFICES ASSUME Init PROVE IngestInv
  OBVIOUS
<1>1. input \in Seq(RowKinds)
  <2>1. PICK n \in 0..MaxLen : input \in [1..n -> RowKinds]
    BY DEF Init
  <2>. QED
    BY <2>1
<1>. QED
  BY <1>1 DEF Init, IngestInv, TypeOK, Labelled, Disjoint, Returned, NoRows

LEMMA NextIngestInv == IngestInv /\ [Next]_vars => IngestInv'
<1> SUFFICES ASSUME IngestInv, [Next]_vars PROVE IngestInv'
  OBVIOUS
<1> USE DEF IngestInv
<1>1. CASE Open
  BY <1>1 DEF Open, TypeOK, Labelled, Disjoint, Returned
<1>2. CASE Visit
  <2>1. CASE FlushDue /\ MakeBlocksFails(result) /\ pc' = "last"
             /\ UNCHANGED <<i, result, size, blocks>>
    BY <1>2, <2>1 DEF Visit, TypeOK, Labelled, Disjoint, Returned
  <2>2. CASE ~(FlushDue /\ MakeBlocksFails(result))
    <3> DEFINE ch == Chunked
    <3>0. i \in 1..Len(input) /\ pc = "range" /\ blocks' = ch.blk
          /\ UNCHANGED <<input, out>>
      BY <1>2, <2>2 DEF Visit, TypeOK
    \* After the chunk check the state is still labelled and disjoint.
    <3>1. /\ ch.res \in [Parts -> SUBSET (1..Len(input))]
          /\ ch.blk \subseteq Blocks /\ ch.sz \in Nat
          /\ \A p \in Parts : \A j \in ch.res[p] : j < i /\ input[j].part = p
          /\ \A b \in ch.blk : \A j \in b.rows : j < i /\ input[j].part = b.part
          /\ \A b, c \in ch.blk : b # c => b.rows \cap c.rows = {}
          /\ \A b \in ch.blk : \A p \in Parts : b.rows \cap ch.res[p] = {}
      <4>1. CASE FlushDue
        <5>1. ch = [res |-> NoRows, blk |-> blocks \cup MakeBlocks(result), sz |-> 0]
          BY <4>1 DEF Chunked
        <5>2. result \in [Parts -> SUBSET Nat]
              /\ \A p \in Parts : \A j \in result[p] : input[j].part = p
          BY DEF TypeOK, Labelled
        <5>3. \A b \in MakeBlocks(result) :
                /\ b.part \in Parts /\ b.rows = result[b.part]
                /\ \A j \in b.rows : input[j].part = b.part
          BY <5>2, MadeBlocks
        <5>4. \A b, c \in MakeBlocks(result) : b # c => b.rows \cap c.rows = {}
          BY <5>2, MadeDisjoint
        <5>5. MakeBlocks(result) \subseteq Blocks
          BY <5>2, MadeBlocksTyped
        <5>. QED
          BY <5>1, <5>3, <5>4, <5>5 DEF NoRows, TypeOK, Labelled, Disjoint
      <4>2. CASE ~FlushDue
        BY <4>2 DEF Chunked, TypeOK, Labelled, Disjoint
      <4>. QED
        BY <4>1, <4>2
    <3>2. CASE /\ input[i].part = Unconvertible /\ pc' = "last"
               /\ result' = ch.res /\ size' = ch.sz /\ UNCHANGED i
      BY <3>0, <3>1, <3>2, <1>2 DEF Visit, TypeOK, Labelled, Disjoint, Returned
    <3>3. CASE /\ input[i].part = Empty
               /\ result' = ch.res /\ size' = ch.sz /\ i' = i + 1
               /\ UNCHANGED pc
      BY <3>0, <3>1, <3>3, <1>2 DEF Visit, TypeOK, Labelled, Disjoint, Returned,
                                    Blocks
    \* Row i joins its partition's columns; no block holds it yet.
    <3>4. CASE /\ input[i].part \in Parts
               /\ result' = [ch.res EXCEPT ![input[i].part] = @ \cup {i}]
               /\ size' = ch.sz + input[i].bytes /\ i' = i + 1 /\ UNCHANGED pc
      <4>0. input[i].bytes \in Nat
        BY <3>0, RowBytesType
      <4>1. TypeOK'
        BY <3>0, <3>1, <3>4, <4>0, <1>2 DEF Visit, TypeOK
      <4>2. Labelled'
        BY <3>0, <3>1, <3>4 DEF Labelled, TypeOK, Blocks
      <4>3. Disjoint'
        BY <3>0, <3>1, <3>4 DEF Disjoint, TypeOK, Blocks
      <4>4. Returned'
        BY <3>0, <3>4 DEF Returned
      <4>. QED
        BY <4>1, <4>2, <4>3, <4>4
    <3>. QED
      BY <1>2, <2>2, <3>2, <3>3, <3>4 DEF Visit
  <2>. QED
    BY <1>2, <2>1, <2>2 DEF Visit
<1>3. CASE RangeEnd
  BY <1>3 DEF RangeEnd, TypeOK, Labelled, Disjoint, Returned
<1>4. CASE WriteLast
  <2>1. MakeBlocks(result) \subseteq Blocks
    BY MadeBlocksTyped DEF TypeOK
  <2>. QED
    BY <1>4, <2>1 DEF WriteLast, TypeOK, Labelled, Disjoint, Returned, MakeBlocks
<1>5. CASE Done \/ UNCHANGED vars
  BY <1>5 DEF Done, vars, TypeOK, Labelled, Disjoint, Returned
<1>6. QED
  BY <1>1, <1>2, <1>3, <1>4, <1>5 DEF Next

LEMMA IngestInvRowsOnce == IngestInv => RowsOnce
<1> SUFFICES ASSUME IngestInv, NEW b \in out, NEW c \in out
             PROVE  /\ \A j \in b.rows : input[j].part = b.part
                    /\ b # c => b.rows \cap c.rows = {}
  BY DEF RowsOnce
<1>1. out = blocks \cup MakeBlocks(result)
  BY DEF IngestInv, Returned
<1>2. result \in [Parts -> SUBSET Nat]
      /\ \A p \in Parts : \A j \in result[p] : input[j].part = p
  BY DEF IngestInv, TypeOK, Labelled
<1>3. \A d \in MakeBlocks(result) :
        /\ d.part \in Parts /\ d.rows = result[d.part]
        /\ \A j \in d.rows : input[j].part = d.part
  BY <1>2, MadeBlocks
<1>4. \A d, e \in MakeBlocks(result) : d # e => d.rows \cap e.rows = {}
  BY <1>2, MadeDisjoint
<1>. QED
  BY <1>1, <1>3, <1>4 DEF IngestInv, Labelled, Disjoint

\* Whatever the payload and the chunk size, FromParquetBy returns no row
\* twice and puts every row in a block of its own partition: the chunk
\* cut at line 36 hands the map to makeBlocks and starts a fresh one, so a
\* row lives in exactly one chunk and, there, under one partition.
THEOREM RowsOnceTheorem == Spec => []RowsOnce
BY InitIngestInv, NextIngestInv, IngestInvRowsOnce, PTL DEF Spec

-----------------------------------------------------------------------------
(* Chunk size.                                                             *)

\* Bound is the most bytes a block may hold: the limit, less one, plus
\* the row that crossed it.
Bound == Max - 1 + MaxRowBytes

\* The counter 'size' stays within Bound, no partition's columns hold more
\* bytes than the counter, and no block cut so far more than Bound.
Sized ==
  /\ size <= Bound
  /\ \A p \in Parts : Bytes(result[p]) <= size
  /\ \A b \in blocks : Bytes(b.rows) <= Bound

\* The byte units of a set of rows, whose number Bytes counts.
Units(S) == UNION {{j} \X (1..input[j].bytes) : j \in S}

\* A set of rows of the payload is finite.
LEMMA RowsFinite ==
  ASSUME NEW n \in Nat, NEW S \in SUBSET (1..n)
  PROVE  IsFiniteSet(S) /\ Cardinality(S) \in Nat
<1>1. IsFiniteSet(1..n)
  BY FS_Interval
<1>2. IsFiniteSet(S)
  BY <1>1, FS_Subset
<1>. QED
  BY <1>2, FS_CardinalityType

\* The byte units of rows of the payload form a finite set.
LEMMA UnitsFinite ==
  ASSUME TypeOK, NEW S \in SUBSET (1..Len(input))
  PROVE  IsFiniteSet(Units(S)) /\ Bytes(S) \in Nat
<1>1. Units(S) \subseteq (1..Len(input)) \X (1..MaxRowBytes)
  <2> SUFFICES ASSUME NEW j \in S, NEW u \in 1..input[j].bytes
               PROVE  <<j, u>> \in (1..Len(input)) \X (1..MaxRowBytes)
    BY DEF Units
  <2>1. input[j].bytes \in 1..MaxRowBytes
    BY RowBytesType
  <2>. QED
    BY <2>1
<1>2. IsFiniteSet((1..Len(input)) \X (1..MaxRowBytes))
  <2>1. Len(input) \in Nat
    BY DEF TypeOK
  <2>2. IsFiniteSet(1..Len(input)) /\ IsFiniteSet(1..MaxRowBytes)
    BY <2>1, FS_Interval
  <2>. QED
    BY <2>2, FS_Product
<1>3. IsFiniteSet(Units(S))
  BY <1>1, <1>2, FS_Subset
<1>. QED
  BY <1>3, FS_CardinalityType DEF Bytes, Units

\* Appending row x to a set of rows adds at most the bytes of x.
LEMMA AddBytes ==
  ASSUME TypeOK, NEW S \in SUBSET (1..Len(input)), NEW x \in 1..Len(input)
  PROVE  /\ Bytes(S \cup {x}) \in Nat
         /\ Bytes(S \cup {x}) <= Bytes(S) + input[x].bytes
<1> DEFINE X == {x} \X (1..input[x].bytes)
<1>0. input[x].bytes \in Nat
  BY RowBytesType
<1>1. Units(S \cup {x}) = Units(S) \cup X
  BY DEF Units
<1>2. IsFiniteSet(X) /\ Cardinality(X) = input[x].bytes
  <2> DEFINE n == input[x].bytes
  <2>1. IsFiniteSet({x}) /\ Cardinality({x}) = 1
    BY FS_Singleton
  <2>2. IsFiniteSet(1..n) /\ Cardinality(1..n) = IF 1 > n THEN 0 ELSE n - 1 + 1
    <3>1. \A a, b \in Int : /\ IsFiniteSet(a..b)
                            /\ Cardinality(a..b) = IF a > b THEN 0 ELSE b - a + 1
      BY FS_Interval
    <3>2. n \in Int /\ 1 \in Int
      BY <1>0 DEF n
    <3>. QED
      BY <3>1, <3>2, Zenon
  <2>3. Cardinality(1..n) = n
    BY <1>0, <2>2 DEF n
  <2>4. IsFiniteSet({x} \X (1..n)) /\ Cardinality({x} \X (1..n)) = Cardinality({x}) * Cardinality(1..n)
    BY <2>1, <2>2, FS_Product
  <2>. QED
    BY <1>0, <2>1, <2>3, <2>4
<1>3. IsFiniteSet(Units(S)) /\ Bytes(S) \in Nat
  BY UnitsFinite
<1>4. /\ Cardinality(Units(S) \cup X)
           = Cardinality(Units(S)) + Cardinality(X) - Cardinality(Units(S) \cap X)
      /\ Cardinality(Units(S) \cap X) \in Nat
  <2>1. IsFiniteSet(Units(S) \cap X)
    BY <1>3, FS_Intersection
  <2>. QED
    BY <1>2, <1>3, <2>1, FS_Union, FS_CardinalityType
<1>5. Bytes(S \cup {x}) = Cardinality(Units(S) \cup X) /\ Bytes(S) = Cardinality(Units(S))
  BY <1>1 DEF Bytes, Units
<1>6. Bytes(S \cup {x}) \in Nat
  <2>1. S \cup {x} \in SUBSET (1..Len(input))
    OBVIOUS
  <2>. QED
    BY <2>1, UnitsFinite
<1>. QED
  BY <1>0, <1>2, <1>3, <1>4, <1>5, <1>6

LEMMA InitSized == Init => Sized
<1> SUFFICES ASSUME Init PROVE Sized
  OBVIOUS
<1>1. \A p \in Parts : Bytes(result[p]) = 0
  <2>1. Units({}) = {}
    BY DEF Units
  <2>. QED
    BY <2>1, FS_EmptySet DEF Init, NoRows, Bytes, Units
<1>. QED
  BY <1>1 DEF Init, Sized, Bound

\* The blocks of a chunk are no larger than the counter, hence than Bound.
LEMMA MadeBlocksSized ==
  ASSUME TypeOK, Sized, NEW b \in MakeBlocks(result)
  PROVE  Bytes(b.rows) <= Bound
<1>1. b.part \in Parts /\ b.rows = result[b.part]
  BY DEF MakeBlocks
<1>2. Bytes(result[b.part]) \in Nat /\ size \in Nat
  <2>1. result[b.part] \in SUBSET (1..Len(input))
    BY <1>1 DEF TypeOK
  <2>. QED
    BY <2>1, UnitsFinite DEF TypeOK
<1>. QED
  BY <1>1, <1>2 DEF Sized, Bound

LEMMA NextSized == IngestInv /\ Sized /\ [Next]_vars => Sized'
<1> SUFFICES ASSUME IngestInv, Sized, [Next]_vars PROVE Sized'
  OBVIOUS
<1> USE DEF IngestInv
\* Sized' with the payload unchanged, as the next state sees it.
<1>0. ASSUME input' = input,
             size' <= Bound,
             \A p \in Parts : Bytes(result'[p]) <= size',
             \A b \in blocks' : Bytes(b.rows) <= Bound
      PROVE  Sized'
  BY <1>0 DEF Sized, Bytes, Bound
<1>1. CASE UNCHANGED <<input, result, size, blocks>>
  BY <1>1, <1>0 DEF Sized
<1>2. CASE Visit /\ ~(FlushDue /\ MakeBlocksFails(result))
  <2> DEFINE ch == Chunked
  <2>0. i \in 1..Len(input) /\ blocks' = ch.blk /\ UNCHANGED input
    BY <1>2 DEF Visit, TypeOK
  \* After the chunk check the counter is below the limit.
  <2>1. /\ ch.res \in [Parts -> SUBSET (1..Len(input))]
        /\ ch.sz \in Nat /\ ch.sz <= Max - 1
        /\ \A p \in Parts : Bytes(ch.res[p]) <= ch.sz
        /\ \A b \in ch.blk : Bytes(b.rows) <= Bound
    <3>1. CASE FlushDue
      <4>1. ch = [res |-> NoRows, blk |-> blocks \cup MakeBlocks(result), sz |-> 0]
        BY <3>1 DEF Chunked
      <4>2. \A b \in MakeBlocks(result) : Bytes(b.rows) <= Bound
        BY MadeBlocksSized
      <4>3. Bytes({}) = 0
        <5>1. Units({}) = {}
          BY DEF Units
        <5>. QED
          BY <5>1, FS_EmptySet DEF Bytes, Units
      <4>. QED
        BY <4>1, <4>2, <4>3 DEF NoRows, Sized
    <3>2. CASE ~FlushDue
      <4>1. size \in Nat
        BY DEF TypeOK
      <4>. QED
        BY <3>2, <4>1 DEF Chunked, FlushDue, Sized, TypeOK
    <3>. QED
      BY <3>1, <3>2
  <2>2. CASE result' = ch.res /\ size' = ch.sz
    BY <1>0, <2>0, <2>1, <2>2 DEF Bound
  \* Row i joins its partition's columns, and its bytes join the counter.
  <2>3. CASE /\ input[i].part \in Parts
             /\ result' = [ch.res EXCEPT ![input[i].part] = @ \cup {i}]
             /\ size' = ch.sz + input[i].bytes
    <3> DEFINE q == input[i].part
    <3>0. /\ q \in Parts /\ ch.res[q] \in SUBSET (1..Len(input))
          /\ input[i].bytes \in 1..MaxRowBytes
      BY <2>0, <2>1, <2>3, RowBytesType DEF TypeOK
    <3>1. /\ Bytes(ch.res[q] \cup {i}) \in Nat
          /\ Bytes(ch.res[q] \cup {i}) <= Bytes(ch.res[q]) + input[i].bytes
      BY <2>0, <3>0, AddBytes DEF IngestInv
    <3>3. ASSUME NEW p \in Parts PROVE Bytes(result'[p]) <= size'
      <4>1. CASE p = q
        <5>1. result'[p] = ch.res[q] \cup {i}
          BY <2>1, <2>3, <3>0, <4>1
        <5>2. Bytes(ch.res[q]) <= ch.sz /\ Bytes(ch.res[q]) \in Nat
          BY <2>1, <3>0, UnitsFinite
        <5>. QED
          BY <2>1, <3>0, <3>1, <5>1, <5>2, <2>3
      <4>2. CASE p # q
        <5>1. result'[p] = ch.res[p]
          BY <2>1, <2>3, <4>2
        <5>2. Bytes(ch.res[p]) \in Nat
          BY <2>1, UnitsFinite
        <5>. QED
          BY <2>1, <2>3, <3>0, <5>1, <5>2
      <4>. QED
        BY <4>1, <4>2
    <3>4. size' <= Bound
      BY <2>1, <2>3, <3>0 DEF Bound
    <3>. QED
      BY <1>0, <2>0, <2>1, <3>3, <3>4
  <2>. QED
    BY <1>2, <2>2, <2>3 DEF Visit
<1>3. QED
  <2>1. CASE Visit /\ FlushDue /\ MakeBlocksFails(result)
    BY <2>1, <1>1 DEF Visit
  <2>. QED
    BY <1>1, <1>2, <2>1 DEF Next, Open, RangeEnd, WriteLast, Done, vars

LEMMA SizedChunkBound == IngestInv /\ Sized => ChunkBound
<1> SUFFICES ASSUME IngestInv, Sized, NEW b \in out PROVE Bytes(b.rows) <= Bound
  BY DEF ChunkBound, Bound
<1>1. CASE b \in blocks
  BY <1>1 DEF Sized
<1>2. CASE b \in MakeBlocks(result)
  BY <1>2, MadeBlocksSized DEF IngestInv
<1>. QED
  BY <1>1, <1>2 DEF IngestInv, Returned

\* Whatever the payload, the limit and the size of the rows, no block
\* FromParquetBy returns holds more than max - 1 bytes plus one row: the
\* check at line 36 cuts the chunk once 'size' reaches max, before the
\* next row's bytes are added at lines 84-85, and makeBlocks gives each
\* partition's columns of one chunk a block of their own.
THEOREM ChunkBoundTheorem == Spec => []ChunkBound
<1>1. Init => IngestInv /\ Sized
  BY InitIngestInv, InitSized
<1>2. IngestInv /\ Sized /\ [Next]_vars => (IngestInv /\ Sized)'
  BY NextIngestInv, NextSized
<1>. QED
  BY <1>1, <1>2, SizedChunkBound, PTL DEF Spec

-----------------------------------------------------------------------------
(* All or error.                                                           *)

\* The rows held by a set of blocks and a chunk.
RowsOf(bl, res) == (UNION {b.rows : b \in bl}) \cup (UNION {res[p] : p \in Parts})

\* The partitioned rows Range has handed to the callback so far.
RangedRows == {j \in 1..(i - 1) : input[j].part \in Parts}

\* Before the Range nothing has been read or cut.
Fresh == pc = "open" => i = 1 /\ blocks = {} /\ result = NoRows

\* During the Range, the blocks and the chunk hold exactly the partitioned
\* rows read so far.
Covered == pc \in {"range", "last"} => hasCol /\ RowsOf(blocks, result) = RangedRows

\* Range stops before the last row only on a chunk that fails to encode or
\* on a value that does not convert.
Stopped ==
  (pc = "last" /\ i <= Len(input)) =>
     MakeBlocksFails(result) \/ input[i].part = Unconvertible

CompleteInv == IngestInv /\ Fresh /\ Covered /\ Stopped /\ ConvertibleAllOrError

\* makeBlocks loses no row of the chunk and adds none.
LEMMA MadeRows ==
  ASSUME NEW res \in [Parts -> SUBSET Nat]
  PROVE  UNION {b.rows : b \in MakeBlocks(res)} = UNION {res[p] : p \in Parts}
<1>1. ASSUME NEW b \in MakeBlocks(res), NEW j \in b.rows
      PROVE  j \in UNION {res[p] : p \in Parts}
  BY <1>1 DEF MakeBlocks
<1>2. ASSUME NEW p \in Parts, NEW j \in res[p]
      PROVE  j \in UNION {b.rows : b \in MakeBlocks(res)}
  <2>1. [part |-> p, rows |-> res[p]] \in MakeBlocks(res)
    BY <1>2 DEF MakeBlocks
  <2>. QED
    BY <2>1
<1>. QED
  BY <1>1, <1>2

\* The rows of two sets of blocks.
LEMMA UnionRows ==
  ASSUME NEW A, NEW B
  PROVE  UNION {b.rows : b \in A \cup B}
           = (UNION {b.rows : b \in A}) \cup (UNION {b.rows : b \in B})
<1>1. ASSUME NEW y, y \in UNION {b.rows : b \in A \cup B}
      PROVE  y \in (UNION {b.rows : b \in A}) \cup (UNION {b.rows : b \in B})
  <2>1. PICK b \in A \cup B : y \in b.rows
    BY <1>1
  <2>2. b.rows \in {c.rows : c \in A} \/ b.rows \in {c.rows : c \in B}
    BY <2>1
  <2>. QED
    BY <2>1, <2>2
<1>2. ASSUME NEW y, y \in (UNION {b.rows : b \in A}) \cup (UNION {b.rows : b \in B})
      PROVE  y \in UNION {b.rows : b \in A \cup B}
  <2>1. PICK b \in A \cup B : y \in b.rows
    BY <1>2
  <2>2. b.rows \in {c.rows : c \in A \cup B}
    BY <2>1
  <2>. QED
    BY <2>1, <2>2
<1>. QED
  BY <1>1, <1>2

\* Appending a row to one partition's columns adds it to the chunk's rows.
LEMMA AppendRows ==
  ASSUME NEW res \in [Parts -> SUBSET Nat], NEW q \in Parts, NEW x
  PROVE  UNION {[res EXCEPT ![q] = @ \cup {x}][p] : p \in Parts}
           = (UNION {res[p] : p \in Parts}) \cup {x}
<1> DEFINE new == [res EXCEPT ![q] = @ \cup {x}]
<1>1. \A p \in Parts : new[p] = IF p = q THEN res[q] \cup {x} ELSE res[p]
  OBVIOUS
<1>2. ASSUME NEW y, y \in (UNION {res[p] : p \in Parts}) \cup {x}
      PROVE  y \in UNION {new[p] : p \in Parts}
  <2>1. CASE y = x
    <3>1. y \in new[q] /\ new[q] \in {new[p] : p \in Parts}
      BY <1>1, <2>1
    <3>. QED
      BY <3>1
  <2>2. CASE y # x
    <3>1. PICK p \in Parts : y \in res[p]
      BY <1>2, <2>2
    <3>2. y \in new[p] /\ new[p] \in {new[r] : r \in Parts}
      BY <1>1, <3>1
    <3>. QED
      BY <3>2
  <2>. QED
    BY <2>1, <2>2
<1>3. ASSUME NEW y, y \in UNION {new[p] : p \in Parts}
      PROVE  y \in (UNION {res[p] : p \in Parts}) \cup {x}
  <2>1. PICK p \in Parts : y \in new[p]
    BY <1>3
  <2>2. y = x \/ (y \in res[p] /\ res[p] \in {res[r] : r \in Parts})
    BY <1>1, <2>1
  <2>. QED
    BY <2>2
<1>. QED
  BY <1>2, <1>3

LEMMA InitCompleteInv == Init => CompleteInv
<1> SUFFICES ASSUME Init PROVE CompleteInv
  OBVIOUS
<1>. QED
  BY InitIngestInv DEF Init, CompleteInv, Fresh, Covered, Stopped,
                       ConvertibleAllOrError, AllOrError

LEMMA NextCompleteInv == CompleteInv /\ [Next]_vars => CompleteInv'
<1> SUFFICES ASSUME CompleteInv, [Next]_vars PROVE CompleteInv'
  OBVIOUS
<1> USE DEF CompleteInv
<1>0. IngestInv'
  BY NextIngestInv
<1>1. CASE Open
  BY <1>0, <1>1 DEF Open, Fresh, Covered, Stopped, ConvertibleAllOrError,
                    AllOrError, RangedRows, RowsOf, NoRows
<1>2. CASE Visit
  <2>0. /\ pc = "range" /\ hasCol /\ i \in 1..Len(input)
        /\ RowsOf(blocks, result) = RangedRows
        /\ UNCHANGED <<input, hasCol, ret, out>>
        /\ pc' \in {"range", "last"}
    BY <1>2 DEF Visit, Covered, IngestInv, TypeOK
  <2>1. ConvertibleAllOrError' /\ Fresh'
    BY <2>0 DEF ConvertibleAllOrError, AllOrError, Fresh
  <2>2. CASE FlushDue /\ MakeBlocksFails(result)
    <3>1. UNCHANGED <<i, result, blocks>> /\ pc' = "last"
      BY <1>2, <2>2 DEF Visit
    <3>2. Covered'
      BY <2>0, <3>1 DEF Covered, RangedRows, RowsOf
    <3>3. Stopped'
      BY <2>0, <2>2, <3>1 DEF Stopped, MakeBlocksFails
    <3>. QED
      BY <1>0, <2>1, <3>2, <3>3
  <2>3. CASE ~(FlushDue /\ MakeBlocksFails(result))
    <3> DEFINE ch == Chunked
    <3>0. result \in [Parts -> SUBSET Nat]
      BY DEF IngestInv, TypeOK
    \* The chunk check moves rows from the chunk to blocks, losing none.
    <3>1. RowsOf(ch.blk, ch.res) = RowsOf(blocks, result)
      <4>2. CASE FlushDue
        <5>1. ch.blk = blocks \cup MakeBlocks(result) /\ ch.res = NoRows
          BY <4>2 DEF Chunked
        <5>2. UNION {b.rows : b \in ch.blk}
                = (UNION {b.rows : b \in blocks}) \cup (UNION {b.rows : b \in MakeBlocks(result)})
          BY <5>1, UnionRows
        <5>3. UNION {ch.res[p] : p \in Parts} = {}
          BY <5>1 DEF NoRows
        <5>. QED
          BY <3>0, <5>2, <5>3, MadeRows DEF RowsOf
      <4>3. CASE ~FlushDue
        BY <4>3 DEF Chunked
      <4>. QED
        BY <4>2, <4>3
    <3>2. blocks' = ch.blk /\ ch.res \in [Parts -> SUBSET Nat]
      BY <1>2, <2>3, <3>0 DEF Visit, Chunked, NoRows
    <3>3. CASE /\ input[i].part = Unconvertible /\ pc' = "last"
               /\ result' = ch.res /\ UNCHANGED i
      <4>1. RowsOf(blocks', result') = RowsOf(ch.blk, ch.res)
        BY <3>2, <3>3 DEF RowsOf
      <4>2. RangedRows' = RangedRows
        BY <2>0, <3>3 DEF RangedRows
      <4>. QED
        BY <1>0, <2>0, <2>1, <3>1, <3>3, <4>1, <4>2 DEF Covered, Stopped
    <3>4. CASE /\ input[i].part = Empty /\ result' = ch.res
               /\ i' = i + 1 /\ UNCHANGED pc
      <4>1. RangedRows' = RangedRows
        <5>1. input[i].part \notin Parts
          BY <3>4, IngestAssumption
        <5>. QED
          BY <2>0, <3>4, <5>1 DEF RangedRows
      <4>2. RowsOf(blocks', result') = RowsOf(ch.blk, ch.res)
        BY <3>2, <3>4 DEF RowsOf
      <4>. QED
        BY <1>0, <2>0, <2>1, <3>1, <3>4, <4>1, <4>2 DEF Covered, Stopped
    \* Row i joins the chunk and the rows read.
    <3>5. CASE /\ input[i].part \in Parts
               /\ result' = [ch.res EXCEPT ![input[i].part] = @ \cup {i}]
               /\ i' = i + 1 /\ UNCHANGED pc
      <4>1. RangedRows' = RangedRows \cup {i}
        BY <2>0, <3>5 DEF RangedRows
      <4>2. UNION {result'[p] : p \in Parts} = (UNION {ch.res[p] : p \in Parts}) \cup {i}
        <5>1. UNION {[ch.res EXCEPT ![input[i].part] = @ \cup {i}][p] : p \in Parts}
                = (UNION {ch.res[p] : p \in Parts}) \cup {i}
          BY <3>2, <3>5, AppendRows
        <5>. QED
          BY <5>1, <3>5
      <4>3. RowsOf(blocks', result') = RowsOf(ch.blk, ch.res) \cup {i}
        BY <3>2, <4>2 DEF RowsOf
      <4>. QED
        BY <1>0, <2>0, <2>1, <3>1, <4>1, <4>3, <3>5 DEF Covered, Stopped
    <3>. QED
      BY <1>2, <2>3, <3>3, <3>4, <3>5 DEF Visit
  <2>. QED
    BY <2>2, <2>3
<1>3. CASE RangeEnd
  <2>1. UNCHANGED <<input, hasCol, i, result, blocks>> /\ pc = "range"
        /\ pc' = "last" /\ i > Len(input)
    BY <1>3 DEF RangeEnd
  <2>2. Covered'
    BY <2>1 DEF Covered, RangedRows, RowsOf
  <2>. QED
    <3>1. i \in Nat /\ Len(input) \in Nat
      BY DEF IngestInv, TypeOK
    <3>. QED
      BY <1>0, <2>1, <2>2, <3>1 DEF Fresh, Stopped, ConvertibleAllOrError, AllOrError
\* The last chunk is written: with no failing chunk and no unconvertible
\* value, Range went to the end, and the blocks hold every partitioned row.
<1>4. CASE WriteLast
  <2>1. Fresh' /\ Covered' /\ Stopped'
    BY <1>4 DEF WriteLast, Fresh, Covered, Stopped
  <2>2. ASSUME ret' = "ok", \A j \in 1..Len(input) : input[j].part # Unconvertible
        PROVE  Delivered' = Partitioned'
    <3>1. ~MakeBlocksFails(result) /\ out' = blocks \cup MakeBlocks(result)
          /\ UNCHANGED <<input, i>> /\ pc = "last"
      BY <1>4, <2>2 DEF WriteLast
    <3>2. i = Len(input) + 1
      BY <2>2, <3>1 DEF Stopped, IngestInv, TypeOK
    <3>3. RowsOf(blocks, result) = Partitioned
      BY <3>1, <3>2 DEF Covered, RangedRows, Partitioned
    <3>4. Delivered' = RowsOf(blocks, result)
      <4>1. result \in [Parts -> SUBSET Nat]
        BY DEF IngestInv, TypeOK
      <4>2. UNION {b.rows : b \in out'}
              = (UNION {b.rows : b \in blocks}) \cup (UNION {b.rows : b \in MakeBlocks(result)})
        BY <3>1, UnionRows
      <4>. QED
        BY <4>1, <4>2, MadeRows DEF Delivered, RowsOf
    <3>. QED
      BY <3>1, <3>3, <3>4 DEF Partitioned
  <2>3. ConvertibleAllOrError'
    BY <1>4, <2>2 DEF WriteLast, ConvertibleAllOrError, AllOrError
  <2>. QED
    BY <1>0, <2>1, <2>3
<1>5. CASE Done \/ UNCHANGED vars
  BY <1>0, <1>5 DEF Done, vars, Fresh, Covered, Stopped, ConvertibleAllOrError,
                    AllOrError, RangedRows, RowsOf, Delivered, Partitioned, MakeBlocksFails
<1>6. QED
  BY <1>0, <1>1, <1>2, <1>3, <1>4, <1>5 DEF Next

\* Whatever the payload and the chunk size, a call whose partition values
\* all convert and that finds the partition column either returns an
\* error or returns every partitioned row: a makeBlocks failure in the
\* middle of the Range (line 39) stops it with the chunk untouched, so the
\* makeBlocks of the last chunk (line 90) meets the same rows and fails.
THEOREM AllOrErrorTheorem == Spec => []ConvertibleAllOrError
BY InitCompleteInv, NextCompleteInv, PTL DEF Spec, CompleteInv
=============================================================================
