---------------------------- MODULE MCCompaction ----------------------------
(* Small instances of the compaction pipeline for TLC.                     *)
EXTENDS Compaction

\* Partition 1 holds two rows, partition 2 one: a hash break follows the
\* run of partition 1.
MCKeys == {<<1, 1>>, <<1, 2>>, <<2, 1>>}

\* A fourth key, in partition 2.
MCKeysCorrupt == MCKeys \cup {<<2, 2>>}

MCCols == {"a"}
MCTypes == {"int", "str"}

\* The block at <<1, 2>> carries column a as a string where the others carry
\* an int: its union with the run before it fails.
MCBlockSchema ==
  [k \in Keys |-> IF k = <<1, 2>> THEN {<<"a", "str">>} ELSE {<<"a", "int">>}]

\* The first block in key order does not decode.
MCCorruptFirst == {<<1, 1>>}

\* The first block of partition 2 does not decode.
MCCorruptMiddle == {<<2, 1>>}
MCNoCorrupt == {}
=============================================================================
