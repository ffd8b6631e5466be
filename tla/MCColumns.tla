----------------------------- MODULE MCColumns -----------------------------
(* Small instances of Columns for TLC.                                     *)
EXTENDS Columns

\* Two valid names and one that fails the name expression.
MCNames == {"a", "b", "bad"}
MCValidNames == {"a", "b"}
MCTypes == {"int", "unsupported"}
\* MakeColumns(nil), and MakeColumns with a schema naming both valid columns.
MCFilters == {{}, {"a", "b"}}
MCNoFilter == {{}}
=============================================================================
