--------------------------- MODULE ColumnsProofs ---------------------------
(***************************************************************************)
(* Proofs that column.Columns stays well typed and that the rows of a     *)
(* block built on a schema naming every valid column stay aligned: for    *)
(* any names, types, filters and number of rows.                          *)
(***************************************************************************)
EXTENDS Columns, TLAPS

USE ColumnsAssumption

\* Within a row every column has the same length L, except the columns
\* already appended in this row, which may be one longer.
Shape(L) ==
  \A n \in created : Len(cols[n]) = L \/ (Len(cols[n]) = L + 1 /\ n \in used)

\* The cell of the current row holds the current row's value or a null.
Current(L) ==
  \A n \in created : Len(cols[n]) = L + 1 => cols[n][L + 1] \in {row, Null}

\* On a schema naming every valid column, no column is ever created and
\* the rows are aligned.
AlignedRow(L) == ValidNames \subseteq filter => created = filter /\ Current(L) /\ Aligned

ColInv == TypeOK /\ \E L \in Nat : Shape(L) /\ AlignedRow(L)

-----------------------------------------------------------------------------
(* Lemmas about the operators of column.go.                                *)

\* k nulls are k cells, all null.
LEMMA NullsType ==
  ASSUME NEW k \in Nat
  PROVE  /\ Nulls(k) \in Seq(Cells)
         /\ Len(Nulls(k)) = k
         /\ \A i \in 1..k : Nulls(k)[i] = Null
BY DEF Nulls, Cells

\* Columns.Max on a state of the given shape: the longest column, L + 1 if
\* a column was appended in this row, else L, and 0 with no column.
LEMMA MaxShape ==
  ASSUME TypeOK, NEW L \in Nat, Shape(L)
  PROVE  /\ Max \in Nat
         /\ \A n \in created : Len(cols[n]) <= Max
         /\ (\E n \in created : Len(cols[n]) = L + 1) => Max = L + 1
         /\ (created # {} /\ ~\E n \in created : Len(cols[n]) = L + 1) => Max = L
         /\ created = {} => Max = 0
<1> DEFINE S == {Len(cols[n]) : n \in created}
           IsMax(m) == \A n \in created : Len(cols[n]) <= m
<1>0. \A n \in created : Len(cols[n]) \in Nat
  BY DEF TypeOK
<1>1. CASE created = {}
  BY <1>1 DEF Max
<1>2. CASE \E n \in created : Len(cols[n]) = L + 1
  <2>1. PICK n0 \in created : Len(cols[n0]) = L + 1
    BY <1>2
  <2>2. \E m \in S : IsMax(m)
    BY <2>1, <1>0 DEF Shape
  <2>3. Max \in S /\ IsMax(Max)
    BY <2>1, <2>2 DEF Max
  <2>4. Max = L + 1
    BY <2>1, <2>3, <1>0 DEF Shape
  <2>. QED
    BY <1>2, <2>3, <2>4
<1>3. CASE created # {} /\ ~\E n \in created : Len(cols[n]) = L + 1
  <2>1. \A n \in created : Len(cols[n]) = L
    BY <1>3 DEF Shape
  <2>2. \E m \in S : IsMax(m)
    BY <1>3, <2>1
  <2>3. Max \in S /\ IsMax(Max)
    BY <1>3, <2>2 DEF Max
  <2>. QED
    BY <1>3, <2>1, <2>3
<1>. QED
  BY <1>1, <1>2, <1>3

\* The column a new name gets: one cell per row so far, the value last.
LEMMA NewColumnType ==
  ASSUME NEW v \in Cells, Max \in Nat
  PROVE  /\ NewColumn(v) \in Seq(Cells)
         /\ Len(NewColumn(v)) = (IF Max > 0 THEN Max - 1 ELSE 0) + 1
<1>1. (IF Max > 0 THEN Max - 1 ELSE 0) \in Nat
  OBVIOUS
<1>. QED
  BY <1>1, NullsType DEF NewColumn

\* FillNulls pads a column with nulls up to k cells, keeping its cells.
LEMMA PadType ==
  ASSUME NEW c \in Seq(Cells), NEW k \in Nat, Len(c) <= k
  PROVE  /\ c \o Nulls(k - Len(c)) \in Seq(Cells)
         /\ Len(c \o Nulls(k - Len(c))) = k
         /\ \A i \in 1..k : (c \o Nulls(k - Len(c)))[i] = IF i <= Len(c) THEN c[i] ELSE Null
<1> DEFINE d == Nulls(k - Len(c))
<1>1. k - Len(c) \in Nat
  OBVIOUS
<1>2. d \in Seq(Cells) /\ Len(d) = k - Len(c) /\ \A j \in 1..(k - Len(c)) : d[j] = Null
  BY <1>1, NullsType
<1>3. c \o d \in Seq(Cells) /\ Len(c \o d) = k
  BY <1>2
<1>4. ASSUME NEW i \in 1..k PROVE (c \o d)[i] = IF i <= Len(c) THEN c[i] ELSE Null
  <2>1. CASE i <= Len(c)
    BY <1>2, <2>1
  <2>2. CASE ~(i <= Len(c))
    <3>1. (c \o d)[i] = d[i - Len(c)] /\ i - Len(c) \in 1..(k - Len(c))
      BY <1>2, <2>2
    <3>. QED
      BY <1>2, <2>2, <3>1
  <2>. QED
    BY <2>1, <2>2
<1>. QED
  BY <1>3, <1>4

-----------------------------------------------------------------------------
(* The invariant.                                                          *)

LEMMA InitColInv == Init => ColInv
<1> SUFFICES ASSUME Init PROVE ColInv
  OBVIOUS
<1>1. TypeOK
  BY DEF Init, TypeOK, Cells
<1>2. Shape(0) /\ AlignedRow(0)
  BY DEF Init, Shape, AlignedRow, Current, Aligned
<1>. QED
  BY <1>1, <1>2 DEF ColInv

LEMMA NextColInv == ColInv /\ [Next]_vars => ColInv'
<1> SUFFICES ASSUME TypeOK, NEW L \in Nat, Shape(L), AlignedRow(L), [Next]_vars
             PROVE  ColInv'
  BY DEF ColInv
<1>0. /\ Max \in Nat
      /\ \A x \in created : Len(cols[x]) <= Max
      /\ (\E x \in created : Len(cols[x]) = L + 1) => Max = L + 1
      /\ (created # {} /\ ~\E x \in created : Len(cols[x]) = L + 1) => Max = L
      /\ created = {} => Max = 0
  BY MaxShape
<1>1. ASSUME NEW n \in Names, NEW v \in {row, Null}, NEW t \in Types,
             ColumnsAppend(n, v, t)
      PROVE  ColInv'
  <2>0. /\ v \in Cells /\ n \notin used /\ used' = used \cup {n}
        /\ UNCHANGED <<row, filter>> /\ used' \subseteq Names
    BY <1>1 DEF ColumnsAppend, TypeOK, Cells
  \* The field is rejected or dropped: only 'used' grows.
  <2>1. CASE UNCHANGED <<cols, created>>
    <3>1. TypeOK'
      BY <2>0, <2>1 DEF TypeOK
    <3>2. Shape(L)' /\ AlignedRow(L)'
      BY <2>0, <2>1 DEF Shape, AlignedRow, Current, Aligned
    <3>. QED
      BY <3>1, <3>2 DEF ColInv
  \* The value is appended to the name's column.
  <2>2. CASE /\ IsValidName(n) /\ n \in created
             /\ cols' = [cols EXCEPT ![n] = Append(@, v)] /\ UNCHANGED created
    <3>1. Len(cols[n]) = L /\ cols[n] \in Seq(Cells)
      BY <2>0, <2>2 DEF Shape, TypeOK
    <3>2. /\ cols'[n] = Append(cols[n], v)
          /\ Len(cols'[n]) = L + 1 /\ cols'[n][L + 1] = v
          /\ \A i \in 1..L : cols'[n][i] = cols[n][i]
          /\ \A x \in Names \ {n} : cols'[x] = cols[x]
      BY <2>2, <3>1 DEF TypeOK
    <3>3. TypeOK'
      BY <2>0, <2>2, <3>1, <3>2 DEF TypeOK
    <3>4. Shape(L)'
      BY <2>0, <2>2, <3>2 DEF Shape, TypeOK
    <3>5. AlignedRow(L)'
      <4> SUFFICES ASSUME ValidNames \subseteq filter
                   PROVE  created' = filter' /\ Current(L)' /\ Aligned'
        BY <2>0 DEF AlignedRow
      <4>1. created = filter /\ Current(L) /\ Aligned
        BY <2>0 DEF AlignedRow
      <4>2. Current(L)'
        BY <2>0, <2>2, <3>2, <4>1 DEF Current, TypeOK
      \* Cells other than the new one are the old cells.
      <4>3. ASSUME NEW x \in created, NEW i \in 1..Len(cols'[x]), ~(x = n /\ i = L + 1)
            PROVE  i \in 1..Len(cols[x]) /\ cols'[x][i] = cols[x][i]
        BY <3>1, <3>2, <4>3 DEF TypeOK
      \* A cell of another column at the new position holds this row or null.
      <4>4. ASSUME NEW x \in created, L + 1 <= Len(cols'[x]), cols'[x][L + 1] # Null
            PROVE  cols'[x][L + 1] = row
        <5>1. CASE x = n
          BY <2>0, <3>2, <4>4, <5>1
        <5>2. CASE x # n
          <6>1. Len(cols[x]) = L + 1 /\ cols'[x] = cols[x]
            BY <3>2, <4>4, <5>2 DEF Shape, TypeOK
          <6>. QED
            BY <4>1, <4>4, <6>1 DEF Current
        <5>. QED
          BY <5>1, <5>2
      <4>5. Aligned'
        <5> SUFFICES ASSUME NEW a \in created, NEW b \in created,
                            NEW i \in 1..Len(cols'[a]), i <= Len(cols'[b]),
                            cols'[a][i] # Null, cols'[b][i] # Null
                     PROVE  cols'[a][i] = cols'[b][i]
          BY <2>2 DEF Aligned
        <5>0. i \in 1..Len(cols'[b])
          BY DEF TypeOK
        <5>1. CASE i = L + 1 /\ (a = n \/ b = n)
          BY <4>4, <5>0, <5>1
        <5>2. CASE ~(i = L + 1 /\ (a = n \/ b = n))
          <6>1. i \in 1..Len(cols[a]) /\ cols'[a][i] = cols[a][i]
                /\ i \in 1..Len(cols[b]) /\ cols'[b][i] = cols[b][i]
            BY <4>3, <5>0, <5>2
          <6>. QED
            BY <4>1, <6>1 DEF Aligned
        <5>. QED
          BY <5>1, <5>2
      <4>. QED
        BY <2>0, <2>2, <4>1, <4>2, <4>5
    <3>. QED
      BY <3>3, <3>4, <3>5 DEF ColInv
  \* A new column, padded to the longest column less one cell.  No schema
  \* that names every valid column gets here.
  <2>3. CASE /\ IsValidName(n) /\ n \notin created /\ t # Unsupported
             /\ cols' = [cols EXCEPT ![n] = NewColumn(v)]
             /\ created' = created \cup {n}
    <3>1. ~(ValidNames \subseteq filter)
      BY <2>3 DEF AlignedRow, IsValidName
    <3>2. /\ NewColumn(v) \in Seq(Cells)
          /\ Len(NewColumn(v)) = (IF Max > 0 THEN Max - 1 ELSE 0) + 1
      BY <1>0, <2>0, NewColumnType
    <3>3. /\ cols'[n] = NewColumn(v)
          /\ \A x \in Names \ {n} : cols'[x] = cols[x]
      BY <2>3 DEF TypeOK
    <3>4. TypeOK'
      BY <2>0, <2>3, <3>2, <3>3 DEF TypeOK, IsValidName
    <3>5. \A K \in Nat : AlignedRow(K)'
      BY <2>0, <3>1 DEF AlignedRow
    <3>6. \E K \in Nat : Shape(K)'
      <4>1. CASE \E x \in created : Len(cols[x]) = L + 1
        <5>1. Len(cols'[n]) = L + 1
          BY <1>0, <3>2, <3>3, <4>1
        <5>. QED
          BY <2>0, <2>3, <3>3, <5>1 DEF Shape
      <4>2. CASE created # {} /\ ~\E x \in created : Len(cols[x]) = L + 1
        <5>0. Max = L
          BY <1>0, <4>2
        <5>1. Len(cols'[n]) = (IF L > 0 THEN L - 1 ELSE 0) + 1
          BY <5>0, <3>2, <3>3
        <5>2. Len(cols'[n]) = L \/ Len(cols'[n]) = L + 1
          BY <5>1
        <5>. QED
          BY <2>0, <2>3, <3>3, <5>2 DEF Shape
      <4>3. CASE created = {}
        <5>1. Len(cols'[n]) = 1 /\ created' = {n}
          BY <1>0, <2>3, <3>2, <3>3, <4>3
        <5>. QED
          BY <2>0, <5>1 DEF Shape
      <4>. QED
        BY <4>1, <4>2, <4>3
    <3>. QED
      BY <3>4, <3>5, <3>6 DEF ColInv
  <2>. QED
    BY <1>1, <2>1, <2>2, <2>3 DEF ColumnsAppend
\* FillNulls pads every column to Max(): the next row starts even.
<1>2. CASE FillNulls
  <2> DEFINE M == Max
  <2>0. /\ row' = row + 1 /\ row < MaxRows /\ used' = {}
        /\ UNCHANGED <<created, filter>>
        /\ \A x \in Names : cols'[x] = IF x \in created THEN cols[x] \o Nulls(M - Len(cols[x]))
                                                      ELSE cols[x]
    BY <1>2 DEF FillNulls
  <2>1. ASSUME NEW x \in created
        PROVE  /\ cols'[x] \in Seq(Cells) /\ Len(cols'[x]) = M
               /\ \A i \in 1..M : cols'[x][i] = IF i <= Len(cols[x]) THEN cols[x][i] ELSE Null
    <3>1. cols[x] \in Seq(Cells) /\ Len(cols[x]) <= M /\ x \in Names /\ M \in Nat
      BY <1>0 DEF TypeOK
    <3>2. cols'[x] = cols[x] \o Nulls(M - Len(cols[x]))
      BY <2>0, <3>1
    <3>3. /\ cols[x] \o Nulls(M - Len(cols[x])) \in Seq(Cells)
          /\ Len(cols[x] \o Nulls(M - Len(cols[x]))) = M
          /\ \A i \in 1..M : (cols[x] \o Nulls(M - Len(cols[x])))[i]
                               = IF i <= Len(cols[x]) THEN cols[x][i] ELSE Null
      BY <3>1, PadType
    <3>. QED
      BY <3>2, <3>3
  <2>2. TypeOK'
    <3>1. cols' \in [Names -> Seq(Cells)]
      BY <1>2, <2>0, <2>1 DEF FillNulls, TypeOK
    <3>. QED
      BY <2>0, <3>1 DEF TypeOK
  \* The new L is the current Max().
  <2>3. ASSUME NEW K \in Nat, K = M PROVE Shape(K)'
    BY <2>0, <2>1, <2>3 DEF Shape
  <2>4. ASSUME NEW K \in Nat, K = M PROVE AlignedRow(K)'
    <3> SUFFICES ASSUME ValidNames \subseteq filter
                 PROVE  created' = filter' /\ Current(K)' /\ Aligned'
      BY <2>0 DEF AlignedRow
    <3>1. created = filter /\ Aligned
      BY <2>0 DEF AlignedRow
    <3>2. Current(K)'
      BY <1>0, <2>0, <2>1, <2>4 DEF Current
    <3>3. Aligned'
      <4> SUFFICES ASSUME NEW a \in created, NEW b \in created,
                          NEW i \in 1..Len(cols'[a]), i <= Len(cols'[b]),
                          cols'[a][i] # Null, cols'[b][i] # Null
                   PROVE  cols'[a][i] = cols'[b][i]
        BY <2>0 DEF Aligned
      <4>1. i \in 1..M
        BY <2>1
      <4>2. i \in 1..Len(cols[a]) /\ i <= Len(cols[b])
            /\ cols'[a][i] = cols[a][i] /\ cols'[b][i] = cols[b][i]
        BY <2>1, <4>1 DEF TypeOK
      <4>. QED
        BY <3>1, <4>2 DEF Aligned, TypeOK
    <3>. QED
      BY <2>0, <3>1, <3>2, <3>3
  <2>. QED
    BY <1>0, <2>2, <2>3, <2>4 DEF ColInv
<1>3. CASE Done \/ UNCHANGED vars
  <2>1. UNCHANGED vars
    BY <1>3 DEF Done
  <2>2. TypeOK' /\ Shape(L)' /\ AlignedRow(L)'
    BY <2>1 DEF vars, TypeOK, Shape, AlignedRow, Current, Aligned
  <2>. QED
    BY <2>2 DEF ColInv
<1>4. QED
  BY <1>1, <1>2, <1>3 DEF Next

\* The invariant gives the two properties the run checks.
LEMMA ColInvProperties == ColInv => TypeOK /\ SchemaAligned
BY DEF ColInv, AlignedRow, SchemaAligned

\* Whatever the names, types, filter and rows, a Columns set stays well
\* typed: every column a sequence of cells, every created name valid or
\* named by the MakeColumns schema.
THEOREM ColumnsTypeCorrect == Spec => []TypeOK
BY InitColInv, NextColInv, ColInvProperties, PTL DEF Spec

\* On a MakeColumns schema naming every valid column, no column is ever
\* created by Append, and the values of one row sit at one position of
\* every column: Append fills the row's cell of its column, and FillNulls
\* pads all columns to the same length.
THEOREM SchemaAlignedTheorem == Spec => []SchemaAligned
BY InitColInv, NextColInv, ColInvProperties, PTL DEF Spec
=============================================================================
