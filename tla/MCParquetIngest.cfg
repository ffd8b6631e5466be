\* Payloads of up to 4 rows over two partitions, the empty and the
\* unconvertible value, rows of 1 or 2 bytes whose columns may fail to
\* encode, a limit of 3 bytes: the cut, a chunk that passes the limit by
\* one row, the failure of a middle chunk, the stop on a value that does
\* not convert and the retry on the last chunk all happen.
CONSTANTS
  P1 = P1
  P2 = P2
  Empty = Empty
  Unconvertible = Unconvertible
  Parts <- MCParts
  PartValues <- MCAllValues
  Max = 3
  MaxRowBytes = 2
  MaxLen = 4
SPECIFICATION Spec
INVARIANTS
  RowsOnce
  ChunkBound
  ConvertibleAllOrError
