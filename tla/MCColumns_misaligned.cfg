\* Rows appended without a MakeColumns schema: columns are created as the
\* fields of a row come in.
CONSTANTS
  Names <- MCNames
  ValidNames <- MCValidNames
  Types <- MCTypes
  Unsupported = "unsupported"
  Null = Null
  Filters <- MCNoFilter
  MaxRows = 3
SPECIFICATION Spec
INVARIANTS Aligned
