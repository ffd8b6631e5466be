--------------------------- MODULE MCThriftCodec ---------------------------
(* Small instances of ThriftCodec for TLC.                                 *)
EXTENDS ThriftCodec

\* Two methods, named by model values.
MCMethods == {"getTableMetadata", "getSplits"}
=============================================================================
