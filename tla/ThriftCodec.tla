---------------------------- MODULE ThriftCodec ----------------------------
(***************************************************************************)
(* The server codec of the Presto/Trino Thrift endpoint                    *)
(* (internal/presto/trino_codec.go) under net/rpc: one goroutine reads the *)
(* requests of a connection in order (ReadRequestHeader), every call runs  *)
(* in a goroutine of its own, and the responses are written one at a time  *)
(* (WriteResponse) in whatever order the calls finish.  The codec carries  *)
(* each request's wire name to its response through the methodName map,   *)
(* keyed by the client's sequence number.                                  *)
(*                                                                         *)
(* A method name is a pair <<service, method>>; getWireNameFor rewrites    *)
(* the service "trino" to "presto".                                        *)
(***************************************************************************)
EXTENDS Naturals, FiniteSets

CONSTANTS
  Seqs,      \* the sequence numbers clients use
  Methods,   \* method names after the service prefix
  None,      \* no entry in methodName
  MaxCalls,  \* bound on the number of requests on the connection
  SeqReuse   \* whether a client may reuse the seq of a call still in flight

Services == {"trino", "presto"}
Names == Services \X Methods

ASSUME CodecAssumption ==
  /\ None \notin Names
  /\ MaxCalls \in Nat
  /\ SeqReuse \in BOOLEAN

VARIABLES
  methodName,  \* c.methodName: seq -> wire name
  nameCache,   \* the names c.nameCache has translated
  read,        \* history: every call read, [id, seq, wire]
  inflight,    \* calls read and not answered
  replies,     \* responses written: [id, name]
  failed,      \* ids of calls whose WriteResponse found no seq
  next,        \* number of requests read
  reading      \* the reading loop is running

vars == <<methodName, nameCache, read, inflight, replies, failed, next, reading>>

Calls == [id : Nat, seq : Seqs, wire : Names]

-----------------------------------------------------------------------------

\* getWireNameFor: strings.Replace(name, "trino", "presto", 1).
GetWireNameFor(n) == <<"presto", n[2]>>

Init ==
  /\ methodName = [s \in Seqs |-> None]
  /\ nameCache = {}
  /\ read = {}
  /\ inflight = {}
  /\ replies = {}
  /\ failed = {}
  /\ next = 0
  /\ reading = TRUE

\* The seq is free to use: always when clients may reuse it, otherwise
\* when no call in flight holds it.
SeqFree(s) == SeqReuse \/ \A c \in inflight : c.seq # s

\* Mutant: the translated name is stored instead of the wire name.
ReadRequestHeaderStoresName(s, n) ==
  /\ reading
  /\ next < MaxCalls
  /\ SeqFree(s)
  /\ nameCache' = nameCache \cup {GetWireNameFor(n)}
  /\ methodName' = [methodName EXCEPT ![s] = GetWireNameFor(n)]
  /\ read' = read \cup {[id |-> next, seq |-> s, wire |-> n]}
  /\ inflight' = inflight \cup {[id |-> next, seq |-> s, wire |-> n]}
  /\ next' = next + 1
  /\ UNCHANGED <<replies, failed, reading>>

\* ReadRequestHeader of a Call message: translate the name (through the
\* cache), remember the wire name under the seq, start the call.
ReadRequestHeader(s, n) ==
  /\ reading
  /\ next < MaxCalls
  /\ SeqFree(s)
  /\ nameCache' = nameCache \cup {GetWireNameFor(n)}
  /\ methodName' = [methodName EXCEPT ![s] = n]
  /\ read' = read \cup {[id |-> next, seq |-> s, wire |-> n]}
  /\ inflight' = inflight \cup {[id |-> next, seq |-> s, wire |-> n]}
  /\ next' = next + 1
  /\ UNCHANGED <<replies, failed, reading>>

\* A message that is not a Call: the header read fails and net/rpc stops
\* reading the connection.
ReadNonCall ==
  /\ reading
  /\ next < MaxCalls
  /\ reading' = FALSE
  /\ UNCHANGED <<methodName, nameCache, read, inflight, replies, failed, next>>

\* WriteResponse for a finished call: LoadAndDelete the seq; the response
\* carries the name found, or the write fails when there is none.
WriteResponse(c) ==
  /\ inflight' = inflight \ {c}
  /\ methodName' = [methodName EXCEPT ![c.seq] = None]
  /\ \/ /\ methodName[c.seq] # None
        /\ replies' = replies \cup {[id |-> c.id, name |-> methodName[c.seq]]}
        /\ UNCHANGED failed
     \/ /\ methodName[c.seq] = None
        /\ failed' = failed \cup {c.id}
        /\ UNCHANGED replies
  /\ UNCHANGED <<nameCache, read, next, reading>>

\* The connection is drained: nothing more happens.
Done ==
  /\ inflight = {}
  /\ (~reading \/ next = MaxCalls)
  /\ UNCHANGED vars

Next ==
  \/ \E s \in Seqs, n \in Names : ReadRequestHeader(s, n)
  \/ ReadNonCall
  \/ \E c \in inflight : WriteResponse(c)
  \/ Done

Spec == Init /\ [][Next]_vars

-----------------------------------------------------------------------------
(* Properties.                                                             *)

TypeOK ==
  /\ methodName \in [Seqs -> Names \cup {None}]
  /\ nameCache \subseteq Names
  /\ read \subseteq Calls
  /\ inflight \subseteq read
  /\ failed \subseteq 0..MaxCalls
  /\ next \in 0..MaxCalls
  /\ reading \in BOOLEAN

\* Every call that has finished was answered, under the name the client
\* sent on the wire (ReadRequestHeader keeps wireName so that a trino.*
\* client gets a trino.* reply): the seq-keyed methodName map hands each
\* response its own request's name whatever order the calls finish in.
RepliesMatchCalls ==
  /\ failed = {}
  /\ \A r \in replies, c \in read : r.id = c.id => r.name = c.wire
=============================================================================
