\* Rows of valid, invalid and unsupported fields in any order, for 3 rows,
\* without a schema and with a schema naming both valid columns.
CONSTANTS
  Names <- MCNames
  ValidNames <- MCValidNames
  Types <- MCTypes
  Unsupported = "unsupported"
  Null = Null
  Filters <- MCFilters
  MaxRows = 3
SPECIFICATION Spec
INVARIANTS
  TypeOK
  SchemaAligned
