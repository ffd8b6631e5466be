----------------------------- MODULE BufferSink -----------------------------
(***************************************************************************)
(* What the write path promises (spec sections 3 and 4.5), with no tick,   *)
(* no runs, no workers and no disk: blocks enter a buffer, copies of them  *)
(* are shipped to the sink, and a block leaves the buffer only when its    *)
(* TTL expires or after it has been shipped.  Compaction refines it.       *)
(***************************************************************************)
CONSTANT Keys

VARIABLES
  buf,       \* blocks in the buffer
  appended,  \* blocks ever appended
  expired,   \* blocks removed by their TTL
  shipped    \* blocks delivered to the sink

vars == <<buf, appended, expired, shipped>>

Init ==
  /\ buf = {}
  /\ appended = {}
  /\ expired = {}
  /\ shipped = {}

\* A new block is buffered.
Ingest(k) ==
  /\ k \notin appended
  /\ buf' = buf \cup {k}
  /\ appended' = appended \cup {k}
  /\ UNCHANGED <<expired, shipped>>

\* A buffered block outlives its TTL.
Expire(k) ==
  /\ k \in buf
  /\ buf' = buf \ {k}
  /\ expired' = expired \cup {k}
  /\ UNCHANGED <<appended, shipped>>

\* A set of blocks is delivered to the sink; they stay in the buffer.
Ship(S) ==
  /\ shipped' = shipped \cup S
  /\ UNCHANGED <<buf, appended, expired>>

\* Shipped blocks are dropped from the buffer.
Forget(S) ==
  /\ S \subseteq shipped
  /\ buf' = buf \ S
  /\ UNCHANGED <<appended, expired, shipped>>

Next ==
  \/ \E k \in Keys : Ingest(k) \/ Expire(k)
  \/ \E S \in SUBSET Keys : Ship(S) \/ Forget(S)

Spec == Init /\ [][Next]_vars
=============================================================================
