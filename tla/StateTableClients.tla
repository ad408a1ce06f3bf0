-------------------------- MODULE StateTableClients --------------------------
(***************************************************************************)
(* The State Table and the four processes that use it:                     *)
(*   Fsm  RXe/FiniteStateMachine: reads the state of the session a segment *)
(*        belongs to, then writes the state the segment leads to;          *)
(*   Tac  TAi/TxAppConnect: writes SYN_SENT when a session has been        *)
(*        created, and reads then writes to close one;                     *)
(*   Sml  TAi/StreamMetaLoader: reads without a lock;                      *)
(*   TIm  Timers: close sessions whose timers expire.                      *)
(* SLc, which takes the release commands, is only the reader of a stream.  *)
(***************************************************************************)
EXTENDS StateTable

CONSTANTS
    MaxSegments,     \* bound: segments that RXe handles
    MaxConnects,     \* bound: open and close requests that Tac handles
    MaxReads,        \* bound: reads by Sml
    MaxCloses        \* bound: close commands of TIm

ASSUME ClientAssumption ==
    /\ MaxSegments \in Nat /\ MaxConnects \in Nat
    /\ MaxReads \in Nat /\ MaxCloses \in Nat

VARIABLES
    cli,         \* [Port -> [pc, sess]] the FSMs of Fsm ("rx") and Tac ("tx")
    smlWait,     \* Sml waits for its reply
    left         \* how many operations of each kind are left

clientVars == <<cli, smlWait, left>>
vars == <<sttVars, streamVars, clientVars>>

Budget == [rx |-> MaxSegments, tx |-> MaxConnects, sml |-> MaxReads, tim |-> MaxCloses]
Spend(k) == left[k] > 0 /\ left' = [left EXCEPT ![k] = @ - 1]

Init ==
    /\ TableInit
    /\ cli = [p \in Port |-> [pc |-> "idle", sess |-> 0]]
    /\ smlWait = FALSE
    /\ left = Budget

----------------------------------------------------------------------------
SendRead(p, s) ==
    /\ cli[p].pc = "idle" /\ Spend(p)
    /\ Len(qry[p]) < QryDepth
    /\ qry' = [qry EXCEPT ![p] = Append(@, ReadQuery(s))]
    /\ cli' = [cli EXCEPT ![p] = [pc |-> "wait", sess |-> s]]
    /\ UNCHANGED <<sttVars, rep, strReq, strRep, timClose, slcRel, smlWait>>

\* The reply is read and the state it leads to, one of 'next', is written.
Answer(p, next(_)) ==
    LET old == Head(rep[p]) IN
    /\ cli[p].pc = "wait" /\ rep[p] # <<>>
    /\ Len(qry[p]) < QryDepth
    /\ \E new \in next(old) :
         qry' = [qry EXCEPT ![p] = Append(@, WriteQuery(cli[p].sess, new, old))]
    /\ rep' = [rep EXCEPT ![p] = Tail(@)]
    /\ cli' = [cli EXCEPT ![p].pc = "idle"]
    /\ UNCHANGED <<sttVars, strReq, strRep, timClose, slcRel, smlWait, left>>

----------------------------------------------------------------------------
(***************************************************************************)
(* RXe/FiniteStateMachine.  The states a segment may lead to: which one it *)
(* is depends on the sequence and acknowledgment numbers of the segment,   *)
(* which are not part of this model.                                       *)
(***************************************************************************)
AckNext(old) ==
    {old} \cup CASE old = "SYN_RECEIVED" -> {"ESTABLISHED"}
                 [] old = "CLOSING"      -> {"TIME_WAIT"}
                 [] old = "LAST_ACK"     -> {"CLOSED"}
                 [] OTHER                -> {}
SynNext(old) ==
    CASE old \in {"CLOSED", "SYN_SENT"} -> {"SYN_RECEIVED"}
      [] old = "SYN_RECEIVED"           -> {old, "CLOSED"}
      [] OTHER                          -> {old}
SynAckNext(old) == IF old = "SYN_SENT" THEN {"ESTABLISHED", "CLOSED"} ELSE {old}
FinNext(old) ==
    {old} \cup CASE old = "ESTABLISHED"                    -> {"LAST_ACK"}
                 [] old \in {"FIN_WAIT_1", "FIN_WAIT_2"}   -> {"TIME_WAIT", "CLOSING"}
                 [] OTHER                                  -> {}
RstNext(old) == {old, "CLOSED"}

FsmNext(old) == AckNext(old) \cup SynNext(old) \cup SynAckNext(old)
                \cup FinNext(old) \cup RstNext(old)

FsmLoad(s)    == SendRead("rx", s)
FsmTransition == Answer("rx", FsmNext)

----------------------------------------------------------------------------
(***************************************************************************)
(* TAi/TxAppConnect.                                                       *)
(***************************************************************************)
TacSynSent(s) ==
    /\ cli["tx"].pc = "idle" /\ Spend("tx")
    /\ Len(qry["tx"]) < QryDepth
    /\ qry' = [qry EXCEPT !["tx"] = Append(@, WriteQuery(s, "SYN_SENT", "none"))]
    /\ UNCHANGED <<sttVars, rep, strReq, strRep, timClose, slcRel, cli, smlWait>>

\* SLc has created a session: the reply names an id that was free.
TacOpen(s) == table[s] = "CLOSED" /\ TacSynSent(s)

TacNext(old) ==
    IF old \in {"ESTABLISHED", "FIN_WAIT_2", "FIN_WAIT_1"} THEN {"FIN_WAIT_1"}
                                                           ELSE {old}
TacCloseReq(s) == SendRead("tx", s)
TacCloseConn   == Answer("tx", TacNext)

----------------------------------------------------------------------------
SmlRead(s) ==
    /\ ~smlWait /\ Spend("sml")
    /\ strReq' = Append(strReq, s)
    /\ smlWait' = TRUE
    /\ UNCHANGED <<sttVars, qry, rep, strRep, timClose, slcRel, cli>>

SmlReply ==
    /\ smlWait /\ strRep # <<>>
    /\ strRep' = Tail(strRep)
    /\ smlWait' = FALSE
    /\ UNCHANGED <<sttVars, qry, rep, strReq, timClose, slcRel, cli, left>>

TImClose(s) ==
    /\ Spend("tim") /\ Len(timClose) < QryDepth
    /\ timClose' = Append(timClose, s)
    /\ UNCHANGED <<sttVars, qry, rep, strReq, strRep, slcRel, cli, smlWait>>

SLcRelease ==
    /\ slcRel # <<>>
    /\ slcRel' = Tail(slcRel)
    /\ UNCHANGED <<sttVars, qry, rep, strReq, strRep, timClose, clientVars>>

----------------------------------------------------------------------------
STt == state_table /\ UNCHANGED clientVars

Next ==
    \/ STt \/ FsmTransition \/ TacCloseConn \/ SmlReply \/ SLcRelease
    \/ \E s \in Session :
         FsmLoad(s) \/ TacOpen(s) \/ TacCloseReq(s) \/ SmlRead(s) \/ TImClose(s)

Spec == Init /\ [][Next]_vars

\* Every process is a free-running loop: what it can do it does at last.
FairSpec ==
    /\ Spec
    /\ WF_vars(STt) /\ WF_vars(FsmTransition) /\ WF_vars(TacCloseConn)
    /\ WF_vars(SmlReply) /\ WF_vars(SLcRelease)

----------------------------------------------------------------------------
\* The state, the streams and the clients keep their types, and no stream
\* holds more than its depth.
TypeOK ==
    /\ TableTypeOK
    /\ cli \in [Port -> [pc : {"idle", "wait"}, sess : Session]]
    /\ smlWait \in BOOLEAN
    /\ DOMAIN left = DOMAIN Budget /\ \A k \in DOMAIN left : left[k] \in 0 .. Budget[k]

\* The writes of p that STt has not carried out yet.
Pending(p) ==
    {qry[p][i] : i \in 1 .. Len(qry[p])}
    \cup (IF port[p].wait THEN {port[p].access} ELSE {})

\* No lost update: from the moment a state has been read for Fsm or Tac to
\* the moment the write computed from it takes effect, nobody changes the
\* state of that session, however the queries, the locks, the parked
\* accesses and the close commands interleave.  Types and depths hold, too.
NoLostUpdate ==
    /\ TypeOK
    /\ \A p \in Port :
           /\ rep[p] # <<>> => Head(rep[p]) = table[cli[p].sess]
           /\ \A q \in Pending(p) :
                q.write /\ q.base # "none" => table[q.sess] = q.base

\* Whatever is asked is done in the end: again and again every read has been
\* answered and no query or close command is parked, so that no pair of
\* accessors waits on each other for ever.
AllServed ==
    []<>(/\ \A p \in Port : cli[p].pc = "idle" /\ ~port[p].wait
         /\ ~closeWait)
=============================================================================
