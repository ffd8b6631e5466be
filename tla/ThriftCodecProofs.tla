------------------------- MODULE ThriftCodecProofs -------------------------
(***************************************************************************)
(* Proof that the seq-keyed methodName map of the Thrift server codec      *)
(* hands every response its own request's wire name, for any number of    *)
(* seqs, methods and calls, when clients do not reuse a seq in flight.     *)
(***************************************************************************)
EXTENDS ThriftCodec, TLAPS

USE CodecAssumption

\* The map holds, under the seq of every call in flight, that call's wire
\* name: two calls in flight never share a seq, so neither overwrites nor
\* deletes the other's entry.
InflightNamed ==
  /\ \A c, d \in inflight : c.seq = d.seq => c = d
  /\ \A c \in inflight : methodName[c.seq] = c.wire

\* Calls are numbered in the order they are read: ids are below next and
\* name one call each.
IdsFresh ==
  /\ \A c \in read : c.id < next
  /\ \A c, d \in read : c.id = d.id => c = d

\* Every reply carries the wire name of the call it answers.
RepliesNamed ==
  \A r \in replies : \E c \in read : c.id = r.id /\ r.name = c.wire

CodecInv ==
  /\ TypeOK
  /\ InflightNamed
  /\ IdsFresh
  /\ RepliesNamed
  /\ failed = {}

LEMMA InitCodecInv == Init => CodecInv
BY DEF Init, CodecInv, TypeOK, InflightNamed, IdsFresh, RepliesNamed

LEMMA NextCodecInv ==
  ASSUME ~SeqReuse
  PROVE  CodecInv /\ [Next]_vars => CodecInv'
<1> SUFFICES ASSUME CodecInv, [Next]_vars PROVE CodecInv'
  OBVIOUS
<1> USE DEF CodecInv
<1>1. ASSUME NEW s \in Seqs, NEW n \in Names, ReadRequestHeader(s, n)
      PROVE  CodecInv'
  <2> DEFINE e == [id |-> next, seq |-> s, wire |-> n]
  <2>1. /\ read' = read \cup {e} /\ inflight' = inflight \cup {e}
        /\ methodName' = [methodName EXCEPT ![s] = n]
        /\ \A c \in inflight : c.seq # s
    BY <1>1 DEF ReadRequestHeader, SeqFree
  <2>2. e \in Calls /\ e \notin read
    BY <1>1 DEF ReadRequestHeader, TypeOK, IdsFresh, Calls
  <2>3. TypeOK'
    BY <1>1, <2>1, <2>2 DEF ReadRequestHeader, TypeOK, Names, GetWireNameFor,
                            Services
  <2>4. InflightNamed'
    BY <2>1, <2>2 DEF InflightNamed, TypeOK, Calls
  <2>5. IdsFresh'
    BY <1>1, <2>1 DEF ReadRequestHeader, IdsFresh, TypeOK, Calls
  <2>6. RepliesNamed' /\ failed' = {}
    BY <1>1, <2>1 DEF ReadRequestHeader, RepliesNamed
  <2>. QED
    BY <2>3, <2>4, <2>5, <2>6
<1>2. CASE ReadNonCall
  BY <1>2 DEF ReadNonCall, TypeOK, InflightNamed, IdsFresh, RepliesNamed
\* The response of c finds c's wire name under its seq and answers c.
<1>3. ASSUME NEW c \in inflight, WriteResponse(c) PROVE CodecInv'
  <2>1. methodName[c.seq] = c.wire /\ c.wire # None /\ c \in read
    BY DEF InflightNamed, TypeOK, Calls
  <2>2. /\ replies' = replies \cup {[id |-> c.id, name |-> c.wire]}
        /\ failed' = failed
    BY <1>3, <2>1 DEF WriteResponse
  <2>3. TypeOK'
    BY <1>3, <2>2 DEF WriteResponse, TypeOK, Calls
  <2>4. InflightNamed'
    BY <1>3 DEF WriteResponse, InflightNamed, TypeOK, Calls
  <2>5. RepliesNamed'
    BY <1>3, <2>1, <2>2 DEF WriteResponse, RepliesNamed
  <2>. QED
    BY <1>3, <2>2, <2>3, <2>4, <2>5 DEF WriteResponse, IdsFresh
<1>4. CASE Done \/ UNCHANGED vars
  BY <1>4 DEF Done, vars, TypeOK, InflightNamed, IdsFresh, RepliesNamed
<1>5. QED
  BY <1>1, <1>2, <1>3, <1>4 DEF Next

LEMMA CodecInvReplies == CodecInv => RepliesMatchCalls
BY DEF CodecInv, RepliesNamed, IdsFresh, RepliesMatchCalls

\* When no client reuses the seq of a call still in flight, net/rpc's
\* concurrent calls, finishing in any order, are each answered, under the
\* wire name their own request carried (trino_codec.go ReadRequestHeader
\* and WriteResponse).
THEOREM RepliesTheorem == ~SeqReuse => (Spec => []RepliesMatchCalls)
<1> SUFFICES ASSUME ~SeqReuse PROVE Spec => []RepliesMatchCalls
  OBVIOUS
<1>. QED
  BY InitCodecInv, NextCodecInv, CodecInvReplies, PTL DEF Spec
=============================================================================
