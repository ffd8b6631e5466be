\* A partition value convertToStringForParquet rejects (an empty byte
\* slice prints as "[]", which loses its brackets) stops the Range, and the
\* rows read so far are returned without an error.
CONSTANTS
  P1 = P1
  P2 = P2
  Empty = Empty
  Unconvertible = Unconvertible
  Parts <- MCParts
  PartValues <- MCAllValues
  Max = 2
  MaxRowBytes = 1
  MaxLen = 4
SPECIFICATION Spec
INVARIANTS
  AllOrError
