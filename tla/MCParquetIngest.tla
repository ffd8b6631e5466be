-------------------------- MODULE MCParquetIngest --------------------------
(* Small instances of ParquetIngest: two partitions, payloads of up to     *)
(* MaxLen rows, chunks of Max rows.                                        *)
EXTENDS ParquetIngest

CONSTANTS P1, P2

MCParts == {P1, P2}

\* Every kind of partition value, the unconvertible one included.
MCAllValues == {P1, P2, Empty, Unconvertible}

\* Partition values that convertToStringForParquet always accepts.
MCConvertible == {P1, P2, Empty}
=============================================================================
