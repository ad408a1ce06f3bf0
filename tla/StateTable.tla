----------------------------- MODULE StateTable -----------------------------
(***************************************************************************)
(* The State Table (STt) of the TOE: the TCP state of every session, and a *)
(* lock per accessor that makes a read followed by a write one step to the *)
(* others.                                                                 *)
(*                                                                         *)
(* RXe ("rx") and TAi/TxAppConnect ("tx") query it with reads and writes;  *)
(* a read locks the session for its reader until the reader's next write.  *)
(* TAi/TxAppStream reads without a lock; Timers (TIm) close sessions.  A   *)
(* query that finds its session locked by the other is parked in a 'Wait'  *)
(* register, which the process looks at when its input streams have        *)
(* nothing to offer.                                                       *)
(*                                                                         *)
(* An iteration of the process is one action.  It takes its query and      *)
(* writes its answer in one step: a write that would stall on a full       *)
(* stream delays the whole iteration.                                      *)
(***************************************************************************)
EXTENDS Naturals, Sequences

CONSTANTS
    MaxSessions,     \* TOE_MAX_SESSIONS
    QryDepth,        \* depth of the streams into STt
    RepDepth,        \* depth of the streams out of STt
    RelDepth         \* depth of ssSTtToSLc_SessReleaseCmd

ASSUME TableAssumption ==
    /\ MaxSessions \in Nat \ {0}
    /\ QryDepth \in Nat \ {0}
    /\ RepDepth \in Nat \ {0}
    /\ RelDepth \in Nat \ {0}

Session  == 0 .. MaxSessions - 1
TcpState == {"CLOSED", "SYN_SENT", "SYN_RECEIVED", "ESTABLISHED",
             "FIN_WAIT_1", "FIN_WAIT_2", "CLOSING", "TIME_WAIT", "LAST_ACK"}
Port     == {"rx", "tx"}
Other(p) == IF p = "rx" THEN "tx" ELSE "rx"

(***************************************************************************)
(* A query.  'base' is history: the state the writer has read before, or   *)
(* "none" for a write that follows no read.                                *)
(***************************************************************************)
StateQuery == [sess : Session, write : BOOLEAN, state : TcpState,
               base : TcpState \cup {"none"}]
ReadQuery(s)        == [sess |-> s, write |-> FALSE, state |-> "CLOSED",
                        base |-> "none"]
WriteQuery(s, t, b) == [sess |-> s, write |-> TRUE, state |-> t, base |-> b]

\* Per accessor: the wait flag, the access it is about, the lock.
PortEntry == [wait : BOOLEAN, access : StateQuery,
              locked : BOOLEAN, sess : Session]

VARIABLES
    table,                  \* SESS_STATE_TABLE
    port,                   \* stt_rx*, stt_tx*
    closeWait, closeSess,   \* stt_closeWait, stt_closeSessionID
    qry, rep,               \* query and reply streams of the two accessors
    strReq, strRep,         \* request and reply streams of TAi/TxAppStream
    timClose,               \* stream of close commands from TIm
    slcRel                  \* stream of release commands to SLc

sttVars    == <<table, port, closeWait, closeSess>>
streamVars == <<qry, rep, strReq, strRep, timClose, slcRel>>

TableTypeOK ==
    /\ table \in [Session -> TcpState]
    /\ port \in [Port -> PortEntry]
    /\ closeWait \in BOOLEAN /\ closeSess \in Session
    /\ qry \in [Port -> Seq(StateQuery)]
    /\ rep \in [Port -> Seq(TcpState)]
    /\ strReq \in Seq(Session) /\ strRep \in Seq(TcpState)
    /\ timClose \in Seq(Session) /\ slcRel \in Seq(Session)
    /\ \A p \in Port : Len(qry[p]) <= QryDepth /\ Len(rep[p]) <= RepDepth
    /\ Len(slcRel) <= RelDepth

TableInit ==
    /\ table = [s \in Session |-> "CLOSED"]
    /\ port = [p \in Port |-> [wait |-> FALSE, access |-> ReadQuery(0),
                               locked |-> FALSE, sess |-> 0]]
    /\ closeWait = FALSE /\ closeSess = 0
    /\ qry = [p \in Port |-> <<>>] /\ rep = [p \in Port |-> <<>>]
    /\ strReq = <<>> /\ strRep = <<>>
    /\ timClose = <<>> /\ slcRel = <<>>

----------------------------------------------------------------------------
\* Mutant of Locks: the lock is taken, but nobody looks at it.
LocksNothing(p, s) == FALSE /\ port[p].sess = s

Locks(p, s) == port[p].locked /\ port[p].sess = s

Releases(p, q) == p = "rx" /\ q.state = "CLOSED"

\* Mutant of Unlocked: the lock outlives the write.
UnlockedNever(e) == [e EXCEPT !.wait = FALSE]

Unlocked(e) == [e EXCEPT !.wait = FALSE, !.locked = FALSE]

Room(str, depth) == Len(str) < depth

Write(p, q) ==
    /\ q.write
    /\ IF Releases(p, q)
         THEN Room(slcRel, RelDepth) /\ slcRel' = Append(slcRel, q.sess)
         ELSE UNCHANGED slcRel
    /\ table' = [table EXCEPT ![q.sess] = q.state]
    /\ port' = [port EXCEPT ![p] = Unlocked([@ EXCEPT !.access = q])]
    /\ UNCHANGED rep

Read(p, q) ==
    /\ ~q.write
    /\ Room(rep[p], RepDepth)
    /\ rep' = [rep EXCEPT ![p] = Append(@, table[q.sess])]
    /\ port' = [port EXCEPT ![p] = [wait |-> FALSE, access |-> q,
                                    locked |-> TRUE, sess |-> q.sess]]
    /\ UNCHANGED <<table, slcRel>>

Park(p, q) ==
    /\ port' = [port EXCEPT ![p].wait = TRUE, ![p].access = q]
    /\ UNCHANGED <<table, rep, slcRel>>

\* A session becomes CLOSED at the request of TIm.
Close(s) ==
    /\ Room(slcRel, RelDepth)
    /\ slcRel' = Append(slcRel, s)
    /\ table' = [table EXCEPT ![s] = "CLOSED"]
    /\ closeWait' = FALSE

----------------------------------------------------------------------------
(***************************************************************************)
(* The branches of the process, in the order it tries them.                *)
(***************************************************************************)
QueryReady(p) == qry[p] # <<>> /\ ~port[p].wait
CloseReady    == timClose # <<>> /\ ~closeWait
InputReady    == QueryReady("tx") \/ strReq # <<>> \/ QueryReady("rx") \/ CloseReady

TakeQuery(p) ==
    LET q == Head(qry[p]) IN
    /\ QueryReady(p)
    /\ qry' = [qry EXCEPT ![p] = Tail(@)]
    /\ IF Locks(Other(p), q.sess) THEN Park(p, q) ELSE Write(p, q) \/ Read(p, q)
    /\ UNCHANGED <<closeWait, closeSess, strReq, strRep, timClose>>

TakeConnect == TakeQuery("tx")

TakeStream ==
    /\ ~QueryReady("tx") /\ strReq # <<>>
    /\ Room(strRep, RepDepth)
    /\ strRep' = Append(strRep, table[Head(strReq)])
    /\ strReq' = Tail(strReq)
    /\ UNCHANGED <<sttVars, qry, rep, timClose, slcRel>>

TakeRx == ~QueryReady("tx") /\ strReq = <<>> /\ TakeQuery("rx")

TakeClose ==
    LET s == Head(timClose) IN
    /\ ~QueryReady("tx") /\ strReq = <<>> /\ ~QueryReady("rx") /\ CloseReady
    /\ timClose' = Tail(timClose)
    /\ closeSess' = s
    /\ IF Locks("rx", s) \/ Locks("tx", s)
         THEN closeWait' = TRUE /\ UNCHANGED <<table, slcRel>>
         ELSE Close(s)
    /\ UNCHANGED <<port, qry, rep, strReq, strRep>>

\* A parked query is tried again; while it stays locked nothing happens.
Retry(p) ==
    LET q == port[p].access IN
    /\ port[p].wait /\ ~Locks(Other(p), q.sess)
    /\ Write(p, q) \/ Read(p, q)
    /\ UNCHANGED <<closeWait, closeSess, qry, strReq, strRep, timClose>>

RetryConnect == ~InputReady /\ Retry("tx")

RetryRx == ~InputReady /\ ~port["tx"].wait /\ Retry("rx")

RetryClose ==
    /\ ~InputReady /\ ~port["tx"].wait /\ ~port["rx"].wait
    /\ closeWait /\ ~Locks("rx", closeSess) /\ ~Locks("tx", closeSess)
    /\ Close(closeSess)
    /\ UNCHANGED <<port, closeSess, qry, rep, strReq, strRep, timClose>>

state_table ==
    TakeConnect \/ TakeStream \/ TakeRx \/ TakeClose
    \/ RetryConnect \/ RetryRx \/ RetryClose

=============================================================================
