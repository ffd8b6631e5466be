------------------------------ MODULE Columns ------------------------------
(***************************************************************************)
(* column.Columns (internal/column/column.go): a set of named, appendable, *)
(* nullable columns that ingestion fills one row at a time and evens out  *)
(* with FillNulls at the end of every row.                                 *)
(*                                                                         *)
(* The caller is block.Row.AppendTo, which appends the fields of one row   *)
(* by ranging over a Go map: in any order, each name at most once, then   *)
(* calls FillNulls (from_parquet.go).  The value appended for a field is   *)
(* the number of its row, or Null, so that where a value lands tells which *)
(* row it came from.  'filter' is the schema given to MakeColumns, whose  *)
(* columns exist from the start; the callers may pass any of Filters.      *)
(***************************************************************************)
EXTENDS Naturals, Sequences

CONSTANTS
  Names,        \* column names used by the rows
  ValidNames,   \* the names matching ^[a-zA-Z_][a-zA-Z0-9_]*$
  Types,        \* typeof types, Unsupported included
  Unsupported,  \* typeof.Unsupported
  Null,         \* the null marker Append(nil) records
  Filters,      \* the schemas callers pass to MakeColumns ({} for nil)
  MaxRows       \* bound on the number of rows

ASSUME ColumnsAssumption ==
  /\ ValidNames \subseteq Names
  /\ Unsupported \in Types
  /\ Null \notin Nat
  /\ MaxRows \in Nat
  /\ Filters \subseteq SUBSET Names

Cells == Nat \cup {Null}

VARIABLES
  cols,     \* the contents of every column, for the names in 'created'
  created,  \* the names the Columns map holds
  row,      \* index of the row being appended (FillNulls calls so far)
  used,     \* names already appended in this row
  filter    \* the schema MakeColumns was given

vars == <<cols, created, row, used, filter>>

-----------------------------------------------------------------------------

\* IsValidName: the regular expression on column names.
IsValidName(n) == n \in ValidNames

\* Columns.Max: the largest count of a column (0 for no column).
Max ==
  IF created = {} THEN 0
  ELSE CHOOSE m \in {Len(cols[n]) : n \in created} :
         \A n \in created : Len(cols[n]) <= m

\* n nulls.
Nulls(n) == [i \in 1..n |-> Null]

\* The new column of Columns.Append: Max() - 1 nulls, then the value.
NewColumn(v) == Nulls(IF Max > 0 THEN Max - 1 ELSE 0) \o <<v>>

Init ==
  /\ cols = [n \in Names |-> <<>>]
  /\ filter \in Filters
  /\ created = filter
  /\ row = 0
  /\ used = {}

\* Mutant: the name is never validated.
ColumnsAppendNoNameCheck(n, v, t) ==
  /\ row < MaxRows
  /\ n \notin used
  /\ used' = used \cup {n}
  /\ UNCHANGED <<row, filter>>
  /\ \/ /\ n \in created
        /\ cols' = [cols EXCEPT ![n] = Append(@, v)]
        /\ UNCHANGED created
     \/ /\ n \notin created
        /\ t = Unsupported
        /\ UNCHANGED <<cols, created>>
     \/ /\ n \notin created
        /\ t # Unsupported
        /\ cols' = [cols EXCEPT ![n] = NewColumn(v)]
        /\ created' = created \cup {n}

\* Columns.Append of a field of the current row: the name is rejected, or
\* appended to its column, or dropped as unsupported, or creates a column
\* padded with Max() - 1 nulls.
ColumnsAppend(n, v, t) ==
  /\ row < MaxRows
  /\ n \notin used
  /\ used' = used \cup {n}
  /\ UNCHANGED <<row, filter>>
  /\ \/ /\ ~IsValidName(n)
        /\ UNCHANGED <<cols, created>>
     \/ /\ IsValidName(n)
        /\ n \in created
        /\ cols' = [cols EXCEPT ![n] = Append(@, v)]
        /\ UNCHANGED created
     \/ /\ IsValidName(n)
        /\ n \notin created
        /\ t = Unsupported
        /\ UNCHANGED <<cols, created>>
     \/ /\ IsValidName(n)
        /\ n \notin created
        /\ t # Unsupported
        /\ cols' = [cols EXCEPT ![n] = NewColumn(v)]
        /\ created' = created \cup {n}

\* Mutant: every column is padded up to Max - 1 only.
FillNullsShort ==
  /\ row < MaxRows
  /\ cols' = [n \in Names |->
               IF n \in created /\ Len(cols[n]) < Max - 1
               THEN cols[n] \o Nulls(Max - 1 - Len(cols[n])) ELSE cols[n]]
  /\ row' = row + 1
  /\ used' = {}
  /\ UNCHANGED <<created, filter>>

\* FillNulls, called after every row: every column shorter than Max gets nulls.
FillNulls ==
  /\ row < MaxRows
  /\ cols' = [n \in Names |->
               IF n \in created THEN cols[n] \o Nulls(Max - Len(cols[n]))
               ELSE cols[n]]
  /\ row' = row + 1
  /\ used' = {}
  /\ UNCHANGED <<created, filter>>

\* All rows are in; the decoder stops.
Done == row = MaxRows /\ UNCHANGED vars

Next ==
  \/ \E n \in Names, v \in {row, Null}, t \in Types : ColumnsAppend(n, v, t)
  \/ FillNulls
  \/ Done

Spec == Init /\ [][Next]_vars

-----------------------------------------------------------------------------
(* Properties.                                                             *)

TypeOK ==
  /\ cols \in [Names -> Seq(Cells)]
  /\ filter \in Filters
  /\ created \subseteq filter \cup ValidNames
  /\ row \in 0..MaxRows
  /\ used \subseteq Names

\* Spec section 8, invariant 2: the values of one row are read back at one
\* position of every column: two columns never hold values of different
\* rows at the same position, so rows are neither shifted nor merged by the
\* padding of a column created in the middle of a block.
Aligned ==
  \A n, m \in created : \A i \in 1..Len(cols[n]) :
    (i <= Len(cols[m]) /\ cols[n][i] # Null /\ cols[m][i] # Null)
      => cols[n][i] = cols[m][i]

\* Aligned, for a block whose MakeColumns schema names every valid column
\* (as FromParquetBy's filter may): then no column is created in the
\* middle of a block and FillNulls alone keeps the rows aligned.
SchemaAligned == ValidNames \subseteq filter => Aligned
=============================================================================
