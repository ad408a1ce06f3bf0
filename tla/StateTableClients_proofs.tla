----------------------- MODULE StateTableClients_proofs -----------------------
(***************************************************************************)
(* No update of the State Table is lost, for every number of sessions,     *)
(* every depth of the streams and every budget of the clients.             *)
(***************************************************************************)
EXTENDS StateTableClients, TLAPS

(***************************************************************************)
(* What makes NoLostUpdate inductive: where the one read, reply or write   *)
(* computed from a read that a port has under way can be, and that the     *)
(* lock of the port is on its session until STt has carried out the write. *)
(***************************************************************************)
Based(q) == q.write /\ q.base # "none"

\* A reply waits for its reader: nothing else of this port is under way.
ReplyAlone(p) ==
    rep[p] # <<>> =>
        /\ Len(rep[p]) = 1 /\ qry[p] = <<>> /\ ~port[p].wait
        /\ cli[p].pc = "wait"
        /\ port[p].locked /\ port[p].sess = cli[p].sess
        /\ rep[p][1] = table[cli[p].sess]

\* A client that has read asks nothing more before it has its reply.
ReadIsLast(p) ==
    /\ \A i \in 1 .. Len(qry[p]) :
         ~qry[p][i].write => /\ i = Len(qry[p]) /\ cli[p].pc = "wait"
                             /\ qry[p][i].sess = cli[p].sess
    /\ port[p].wait /\ ~port[p].access.write =>
         qry[p] = <<>> /\ cli[p].pc = "wait" /\ port[p].access.sess = cli[p].sess

\* A write computed from a read is the next thing STt does for its port.
BasedIsNext(p) ==
    /\ \A i \in 1 .. Len(qry[p]) :
         Based(qry[p][i]) => /\ i = 1 /\ ~port[p].wait
                             /\ port[p].locked /\ port[p].sess = qry[p][i].sess
                             /\ qry[p][i].base = table[qry[p][i].sess]
    /\ port[p].wait => ~Based(port[p].access)

PortInv(p) == ReplyAlone(p) /\ ReadIsLast(p) /\ BasedIsNext(p)

Exclusion == \A s \in Session : ~(Locks("rx", s) /\ Locks("tx", s))

LockInv == TypeOK /\ Exclusion /\ \A p \in Port : PortInv(p)

(***************************************************************************)
(* Type correctness.                                                       *)
(***************************************************************************)

\* What STt does with a query keeps the types of what it writes.
LEMMA ServeType ==
    ASSUME TypeOK, NEW p \in Port, NEW q \in StateQuery,
           Write(p, q) \/ Read(p, q) \/ Park(p, q)
    PROVE  /\ table' \in [Session -> TcpState]
           /\ port' \in [Port -> PortEntry]
           /\ rep' \in [Port -> Seq(TcpState)]
           /\ \A r \in Port : Len(rep'[r]) <= RepDepth
           /\ slcRel' \in Seq(Session) /\ Len(slcRel') <= RelDepth
<1>1. q.sess \in Session /\ q.state \in TcpState /\ q.write \in BOOLEAN
  BY DEF StateQuery
<1>2. port[p] \in PortEntry /\ rep[p] \in Seq(TcpState) /\ Len(rep[p]) <= RepDepth
  BY DEF TypeOK, TableTypeOK
<1>3. CASE Write(p, q)
  <2>1. [port[p] EXCEPT !.access = q] \in PortEntry
    BY <1>2 DEF PortEntry
  <2>2. Unlocked([port[p] EXCEPT !.access = q]) \in PortEntry
    BY <2>1 DEF Unlocked, PortEntry
  <2>3. port' \in [Port -> PortEntry]
    BY <1>3, <2>2 DEF Write, TypeOK, TableTypeOK
  <2>4. slcRel' \in Seq(Session) /\ Len(slcRel') <= RelDepth
    <3>1. slcRel \in Seq(Session) /\ Len(slcRel) <= RelDepth
      BY DEF TypeOK, TableTypeOK
    <3>2. CASE Releases(p, q)
      <4>1. Len(slcRel) < RelDepth /\ slcRel' = Append(slcRel, q.sess)
        BY <1>3, <3>2 DEF Write, Room
      <4> QED
        BY <1>1, <3>1, <4>1, TableAssumption
    <3>3. CASE ~Releases(p, q)
      BY <1>3, <3>1, <3>3 DEF Write
    <3> QED
      BY <3>2, <3>3
  <2> QED
    BY <1>1, <1>3, <2>3, <2>4 DEF Write, TypeOK, TableTypeOK
<1>4. CASE Read(p, q)
  <2>1. [wait |-> FALSE, access |-> q, locked |-> TRUE, sess |-> q.sess] \in PortEntry
    BY <1>1 DEF PortEntry
  <2>2. port' \in [Port -> PortEntry]
    BY <1>4, <2>1 DEF Read, TypeOK, TableTypeOK
  <2>3. table[q.sess] \in TcpState
    BY <1>1 DEF TypeOK, TableTypeOK
  <2>4. /\ rep' \in [Port -> Seq(TcpState)]
        /\ \A r \in Port : Len(rep'[r]) <= RepDepth
    BY <1>2, <1>4, <2>3, TableAssumption DEF Read, Room, TypeOK, TableTypeOK
  <2> QED
    BY <1>4, <2>2, <2>4 DEF Read, TypeOK, TableTypeOK
<1>5. CASE Park(p, q)
  <2>1. [[port[p] EXCEPT !.wait = TRUE] EXCEPT !.access = q] \in PortEntry
    BY <1>2 DEF PortEntry
  <2>2. port' \in [Port -> PortEntry]
    BY <1>5, <2>1 DEF Park, TypeOK, TableTypeOK
  <2> QED
    BY <1>5, <2>2 DEF Park, TypeOK, TableTypeOK
<1> QED
  BY <1>3, <1>4, <1>5

\* A client that writes in its stream keeps the type of the streams.
LEMMA PostType ==
    ASSUME TypeOK, NEW p \in Port, NEW q \in StateQuery, Len(qry[p]) < QryDepth,
           qry' = [qry EXCEPT ![p] = Append(@, q)]
    PROVE  /\ qry' \in [Port -> Seq(StateQuery)]
           /\ \A r \in Port : Len(qry'[r]) <= QryDepth
BY TableAssumption DEF TypeOK, TableTypeOK

LEMMA SpendType ==
    ASSUME TypeOK, NEW k \in {"rx", "tx", "sml", "tim"}, Spend(k)
    PROVE  DOMAIN left' = DOMAIN Budget /\ \A j \in DOMAIN left' : left'[j] \in 0 .. Budget[j]
<1>1. DOMAIN Budget = {"rx", "tx", "sml", "tim"}
  BY DEF Budget
<1>2. \A j \in DOMAIN Budget : Budget[j] \in Nat
  BY ClientAssumption DEF Budget
<1> QED
  BY <1>1, <1>2 DEF Spend, TypeOK

LEMMA QueryTypes ==
    /\ \A s \in Session : ReadQuery(s) \in StateQuery
    /\ \A s \in Session, t \in TcpState, b \in TcpState \cup {"none"} :
         WriteQuery(s, t, b) \in StateQuery
BY DEF ReadQuery, WriteQuery, StateQuery, TcpState

\* The clients know only the states of the table.
LEMMA ClientStates ==
    ASSUME NEW old \in TcpState
    PROVE  FsmNext(old) \subseteq TcpState /\ TacNext(old) \subseteq TcpState
<1>1. AckNext(old) \subseteq TcpState
  BY DEF AckNext, TcpState
<1>2. SynNext(old) \subseteq TcpState
  BY DEF SynNext, TcpState
<1>3. SynAckNext(old) \subseteq TcpState
  BY DEF SynAckNext, TcpState
<1>4. FinNext(old) \subseteq TcpState
  BY DEF FinNext, TcpState
<1>5. RstNext(old) \subseteq TcpState
  BY DEF RstNext, TcpState
<1>6. TacNext(old) \subseteq TcpState
  BY DEF TacNext, TcpState
<1> QED
  BY <1>1, <1>2, <1>3, <1>4, <1>5, <1>6 DEF FsmNext

LEMMA InitType == Init => TypeOK
<1> SUFFICES ASSUME Init
             PROVE  TypeOK
  OBVIOUS
<1>1. 0 \in Session /\ "CLOSED" \in TcpState
  BY TableAssumption DEF Session, TcpState
<1>2. [wait |-> FALSE, access |-> ReadQuery(0), locked |-> FALSE, sess |-> 0] \in PortEntry
  BY <1>1, QueryTypes DEF PortEntry
<1>3. TableTypeOK
  <2>1. table \in [Session -> TcpState] /\ port \in [Port -> PortEntry]
    BY <1>1, <1>2 DEF Init, TableInit
  <2>2. /\ qry \in [Port -> Seq(StateQuery)] /\ rep \in [Port -> Seq(TcpState)]
        /\ \A p \in Port : qry[p] = <<>> /\ rep[p] = <<>>
    BY DEF Init, TableInit
  <2> QED
    BY <1>1, <2>1, <2>2, TableAssumption DEF Init, TableInit, TableTypeOK
<1>4. DOMAIN left = DOMAIN Budget /\ \A k \in DOMAIN left : left[k] \in 0 .. Budget[k]
  BY ClientAssumption DEF Init, Budget
<1> QED
  BY <1>1, <1>3, <1>4 DEF Init, TypeOK

\* A query that is ready is a query.
LEMMA HeadType ==
    ASSUME TypeOK, NEW p \in Port, qry[p] # <<>>
    PROVE  /\ Head(qry[p]) \in StateQuery
           /\ Tail(qry[p]) \in Seq(StateQuery) /\ Len(Tail(qry[p])) < Len(qry[p])
BY DEF TypeOK, TableTypeOK

LEMMA TakeQueryType ==
    ASSUME TypeOK, NEW p \in Port, TakeQuery(p), UNCHANGED clientVars
    PROVE  TypeOK'
<1> DEFINE q == Head(qry[p])
<1>1. qry[p] # <<>> /\ qry' = [qry EXCEPT ![p] = Tail(@)]
  BY DEF TakeQuery, QueryReady
<1>2. q \in StateQuery /\ Tail(qry[p]) \in Seq(StateQuery) /\ Len(Tail(qry[p])) < Len(qry[p])
  BY <1>1, HeadType
<1>3. Write(p, q) \/ Read(p, q) \/ Park(p, q)
  BY DEF TakeQuery
<1>4. /\ qry' \in [Port -> Seq(StateQuery)]
      /\ \A r \in Port : Len(qry'[r]) <= QryDepth
  BY <1>1, <1>2, TableAssumption DEF TypeOK, TableTypeOK
<1>5. /\ table' \in [Session -> TcpState]
      /\ port' \in [Port -> PortEntry]
      /\ rep' \in [Port -> Seq(TcpState)]
      /\ \A r \in Port : Len(rep'[r]) <= RepDepth
      /\ slcRel' \in Seq(Session) /\ Len(slcRel') <= RelDepth
  BY <1>2, <1>3, ServeType
<1>6. UNCHANGED <<closeWait, closeSess, strReq, strRep, timClose, cli, smlWait, left>>
  BY DEF TakeQuery, clientVars
<1> QED
  BY <1>4, <1>5, <1>6 DEF TypeOK, TableTypeOK

LEMMA RetryType ==
    ASSUME TypeOK, NEW p \in Port, Retry(p), UNCHANGED clientVars
    PROVE  TypeOK'
<1> DEFINE q == port[p].access
<1>1. q \in StateQuery
  BY DEF TypeOK, TableTypeOK, PortEntry
<1>2. Write(p, q) \/ Read(p, q)
  BY DEF Retry
<1>3. /\ table' \in [Session -> TcpState]
      /\ port' \in [Port -> PortEntry]
      /\ rep' \in [Port -> Seq(TcpState)]
      /\ \A r \in Port : Len(rep'[r]) <= RepDepth
      /\ slcRel' \in Seq(Session) /\ Len(slcRel') <= RelDepth
  BY <1>1, <1>2, ServeType
<1>4. UNCHANGED <<closeWait, closeSess, qry, strReq, strRep, timClose, cli, smlWait, left>>
  BY DEF Retry, clientVars
<1> QED
  BY <1>3, <1>4 DEF TypeOK, TableTypeOK

LEMMA CloseType ==
    ASSUME TypeOK, NEW s \in Session, Close(s)
    PROVE  /\ table' \in [Session -> TcpState]
           /\ slcRel' \in Seq(Session) /\ Len(slcRel') <= RelDepth
           /\ closeWait' \in BOOLEAN
<1>1. "CLOSED" \in TcpState
  BY DEF TcpState
<1>2. slcRel \in Seq(Session) /\ Len(slcRel) < RelDepth /\ slcRel' = Append(slcRel, s)
  BY DEF Close, Room, TypeOK, TableTypeOK
<1>3. slcRel' \in Seq(Session) /\ Len(slcRel') <= RelDepth
  BY <1>2, TableAssumption
<1>4. table' \in [Session -> TcpState]
  BY <1>1 DEF Close, TypeOK, TableTypeOK
<1> QED
  BY <1>3, <1>4 DEF Close

LEMMA SttType == TypeOK /\ STt => TypeOK'
<1> SUFFICES ASSUME TypeOK, state_table, UNCHANGED clientVars
             PROVE  TypeOK'
  BY DEF STt
<1>1. CASE TakeConnect \/ TakeRx
  BY <1>1, TakeQueryType DEF TakeConnect, TakeRx, Port
<1>2. CASE RetryConnect \/ RetryRx
  BY <1>2, RetryType DEF RetryConnect, RetryRx, Port
<1>3. CASE TakeStream
  <2>1. Head(strReq) \in Session /\ Tail(strReq) \in Seq(Session)
    BY <1>3 DEF TakeStream, TypeOK, TableTypeOK
  <2>2. strRep' \in Seq(TcpState) /\ strReq' \in Seq(Session)
    BY <1>3, <2>1 DEF TakeStream, TypeOK, TableTypeOK
  <2> QED
    BY <1>3, <2>2 DEF TakeStream, TypeOK, TableTypeOK, sttVars, clientVars
<1>4. CASE TakeClose
  <2>1. Head(timClose) \in Session /\ Tail(timClose) \in Seq(Session)
    BY <1>4 DEF TakeClose, CloseReady, TypeOK, TableTypeOK
  <2>2. /\ table' \in [Session -> TcpState]
        /\ slcRel' \in Seq(Session) /\ Len(slcRel') <= RelDepth
        /\ closeWait' \in BOOLEAN
    <3>1. CASE Close(Head(timClose))
      BY <2>1, <3>1, CloseType
    <3>2. CASE closeWait' = TRUE /\ UNCHANGED <<table, slcRel>>
      BY <3>2 DEF TypeOK, TableTypeOK
    <3> QED
      BY <1>4, <3>1, <3>2 DEF TakeClose
  <2> QED
    BY <1>4, <2>1, <2>2 DEF TakeClose, TypeOK, TableTypeOK, clientVars
<1>5. CASE RetryClose
  <2>1. /\ table' \in [Session -> TcpState]
        /\ slcRel' \in Seq(Session) /\ Len(slcRel') <= RelDepth
        /\ closeWait' \in BOOLEAN
    BY <1>5, CloseType DEF RetryClose, TypeOK, TableTypeOK
  <2> QED
    BY <1>5, <2>1 DEF RetryClose, TypeOK, TableTypeOK, clientVars
<1> QED
  BY <1>1, <1>2, <1>3, <1>4, <1>5 DEF state_table

\* The posting of a query, common to the two steps of a client.
LEMMA SendReadType ==
    ASSUME TypeOK, NEW p \in Port, NEW s \in Session, SendRead(p, s)
    PROVE  TypeOK'
<1>1. /\ qry' \in [Port -> Seq(StateQuery)]
      /\ \A r \in Port : Len(qry'[r]) <= QryDepth
  BY QueryTypes, PostType DEF SendRead
<1>2. DOMAIN left' = DOMAIN Budget /\ \A j \in DOMAIN left' : left'[j] \in 0 .. Budget[j]
  BY SpendType DEF SendRead, Port
<1>3. cli' \in [Port -> [pc : {"idle", "wait"}, sess : Session]]
  BY DEF SendRead, TypeOK
<1> QED
  BY <1>1, <1>2, <1>3 DEF SendRead, sttVars, TypeOK, TableTypeOK

LEMMA AnswerType ==
    ASSUME TypeOK, NEW p \in Port, (FsmTransition /\ p = "rx") \/ (TacCloseConn /\ p = "tx")
    PROVE  /\ TypeOK'
           /\ \E new \in TcpState :
                qry' = [qry EXCEPT ![p] =
                          Append(@, WriteQuery(cli[p].sess, new, Head(rep[p])))]
<1>1. Head(rep[p]) \in TcpState /\ Tail(rep[p]) \in Seq(TcpState) /\ Len(Tail(rep[p])) <= RepDepth
  BY TableAssumption DEF FsmTransition, TacCloseConn, Answer, TypeOK, TableTypeOK
<1>2. PICK new \in TcpState :
        qry' = [qry EXCEPT ![p] = Append(@, WriteQuery(cli[p].sess, new, Head(rep[p])))]
  BY <1>1, ClientStates DEF FsmTransition, TacCloseConn, Answer
<1>3. WriteQuery(cli[p].sess, new, Head(rep[p])) \in StateQuery
  BY <1>1, QueryTypes DEF TypeOK
<1>4. /\ qry' \in [Port -> Seq(StateQuery)]
      /\ \A r \in Port : Len(qry'[r]) <= QryDepth
  BY <1>2, <1>3, PostType DEF FsmTransition, TacCloseConn, Answer
<1>5. /\ rep' \in [Port -> Seq(TcpState)]
      /\ \A r \in Port : Len(rep'[r]) <= RepDepth
  <2>1. rep' = [rep EXCEPT ![p] = Tail(rep[p])]
    BY DEF FsmTransition, TacCloseConn, Answer
  <2> QED
    BY <1>1, <2>1 DEF TypeOK, TableTypeOK
<1>6. cli' \in [Port -> [pc : {"idle", "wait"}, sess : Session]]
  BY SMTT(40) DEF FsmTransition, TacCloseConn, Answer, TypeOK
<1>7. UNCHANGED <<sttVars, strReq, strRep, timClose, slcRel, smlWait, left>>
  BY DEF FsmTransition, TacCloseConn, Answer
<1> QED
  BY <1>2, <1>4, <1>5, <1>6, <1>7 DEF sttVars, TypeOK, TableTypeOK

LEMMA NextType == TypeOK /\ [Next]_vars => TypeOK'
<1> SUFFICES ASSUME TypeOK, [Next]_vars
             PROVE  TypeOK'
  OBVIOUS
<1>1. CASE STt
  BY <1>1, SttType
<1>2. CASE FsmTransition \/ TacCloseConn
  BY <1>2, AnswerType DEF Port
<1>3. CASE SmlReply
  <2>1. Tail(strRep) \in Seq(TcpState)
    BY <1>3 DEF SmlReply, TypeOK, TableTypeOK
  <2> QED
    BY <1>3, <2>1 DEF SmlReply, TypeOK, TableTypeOK, sttVars
<1>4. CASE SLcRelease
  <2>1. Tail(slcRel) \in Seq(Session) /\ Len(Tail(slcRel)) <= RelDepth
    BY <1>4, TableAssumption DEF SLcRelease, TypeOK, TableTypeOK
  <2> QED
    BY <1>4, <2>1 DEF SLcRelease, TypeOK, TableTypeOK, sttVars, clientVars
<1>5. ASSUME NEW s \in Session, FsmLoad(s) \/ TacCloseReq(s)
      PROVE  TypeOK'
  BY <1>5, SendReadType DEF FsmLoad, TacCloseReq, Port
<1>6. ASSUME NEW s \in Session, TacOpen(s)
      PROVE  TypeOK'
  <2>1. /\ qry' \in [Port -> Seq(StateQuery)]
        /\ \A r \in Port : Len(qry'[r]) <= QryDepth
    BY <1>6, QueryTypes, PostType DEF TacOpen, TacSynSent, Port, TcpState
  <2>2. DOMAIN left' = DOMAIN Budget /\ \A j \in DOMAIN left' : left'[j] \in 0 .. Budget[j]
    BY <1>6, SpendType DEF TacOpen, TacSynSent
  <2> QED
    BY <1>6, <2>1, <2>2 DEF TacOpen, TacSynSent, sttVars, TypeOK, TableTypeOK
<1>7. ASSUME NEW s \in Session, SmlRead(s)
      PROVE  TypeOK'
  <2>1. DOMAIN left' = DOMAIN Budget /\ \A j \in DOMAIN left' : left'[j] \in 0 .. Budget[j]
    BY <1>7, SpendType DEF SmlRead
  <2> QED
    BY <1>7, <2>1 DEF SmlRead, sttVars, TypeOK, TableTypeOK
<1>8. ASSUME NEW s \in Session, TImClose(s)
      PROVE  TypeOK'
  <2>1. DOMAIN left' = DOMAIN Budget /\ \A j \in DOMAIN left' : left'[j] \in 0 .. Budget[j]
    BY <1>8, SpendType DEF TImClose
  <2> QED
    BY <1>8, <2>1 DEF TImClose, sttVars, TypeOK, TableTypeOK
<1>9. CASE UNCHANGED vars
  BY <1>9 DEF vars, sttVars, streamVars, clientVars, TypeOK, TableTypeOK
<1> QED
  BY <1>1, <1>2, <1>3, <1>4, <1>5, <1>6, <1>7, <1>8, <1>9 DEF Next

(***************************************************************************)
(* The locks.                                                              *)
(***************************************************************************)

\* A port that is left alone keeps its invariant if the states of the
\* session it has locked are left alone.
LEMMA PortKept ==
    ASSUME TypeOK, NEW p \in Port, PortInv(p),
           qry'[p] = qry[p], rep'[p] = rep[p], port'[p] = port[p], cli'[p] = cli[p],
           \A s \in Session : Locks(p, s) => table'[s] = table[s]
    PROVE  PortInv(p)'
<1>1. /\ qry[p] \in Seq(StateQuery)
      /\ cli[p].sess \in Session
      /\ \A i \in 1 .. Len(qry[p]) : qry[p][i].sess \in Session
  <2>1. qry[p] \in Seq(StateQuery) /\ cli[p].sess \in Session
    BY DEF TypeOK, TableTypeOK
  <2>2. \A i \in 1 .. Len(qry[p]) : qry[p][i] \in StateQuery
    BY <2>1
  <2> QED
    BY <2>1, <2>2 DEF StateQuery
<1>2. ReplyAlone(p)'
  BY <1>1 DEF PortInv, ReplyAlone, Locks
<1>3. ReadIsLast(p)'
  BY DEF PortInv, ReadIsLast
<1>4. BasedIsNext(p)'
  BY <1>1 DEF PortInv, BasedIsNext, Based, Locks
<1> QED
  BY <1>2, <1>3, <1>4 DEF PortInv

\* The query at the head of a stream, and what is left of the stream.
LEMMA HeadTail ==
    ASSUME TypeOK, NEW p \in Port, qry[p] # <<>>
    PROVE  /\ Head(qry[p]) = qry[p][1] /\ Len(qry[p]) \in Nat \ {0}
           /\ Len(Tail(qry[p])) = Len(qry[p]) - 1
           /\ \A i \in 1 .. Len(Tail(qry[p])) : Tail(qry[p])[i] = qry[p][i + 1]
BY DEF TypeOK, TableTypeOK

LEMMA NoneLeft == ASSUME NEW S, NEW str \in Seq(S), Len(str) = 0
                  PROVE  str = <<>>
OBVIOUS

\* What STt does with a query of p leaves the other port's session alone.
LEMMA ServeOther ==
    ASSUME LockInv, NEW p \in Port, NEW q \in StateQuery, ~Locks(Other(p), q.sess),
           Write(p, q) \/ Read(p, q)
    PROVE  /\ rep'[Other(p)] = rep[Other(p)] /\ port'[Other(p)] = port[Other(p)]
           /\ \A s \in Session : Locks(Other(p), s) => table'[s] = table[s]
           /\ Exclusion'
<1>1. Other(p) \in Port /\ Other(p) # p
  BY DEF Other, Port
<1>2. /\ rep \in [Port -> Seq(TcpState)] /\ port \in [Port -> PortEntry]
      /\ table \in [Session -> TcpState] /\ q.sess \in Session
  BY DEF LockInv, TypeOK, TableTypeOK, StateQuery
<1>3. rep'[Other(p)] = rep[Other(p)] /\ port'[Other(p)] = port[Other(p)]
  BY <1>1, <1>2 DEF Write, Read
<1>4. \A s \in Session : Locks(Other(p), s) => table'[s] = table[s]
  BY <1>2 DEF Write, Read
<1>5. \A s \in Session : Locks(p, s)' => s = q.sess
  <2>1. CASE Write(p, q)
    <3>1. port'[p] = Unlocked([port[p] EXCEPT !.access = q])
      BY <1>2, <2>1 DEF Write
    <3>2. port'[p].locked = FALSE
      BY <1>2, <3>1 DEF Unlocked, PortEntry
    <3> QED
      BY <3>2 DEF Locks
  <2>2. CASE Read(p, q)
    BY <1>2, <2>2 DEF Read, Locks
  <2> QED
    BY <2>1, <2>2
<1>6. \A s \in Session : ~(Locks(p, s) /\ Locks(Other(p), s))'
  BY <1>3, <1>5 DEF Locks
<1> QED
  BY <1>3, <1>4, <1>6 DEF Exclusion, Port, Other

LEMMA TakeQueryLock ==
    ASSUME LockInv, NEW p \in Port, TakeQuery(p), UNCHANGED clientVars
    PROVE  LockInv'
<1> DEFINE q == Head(qry[p])
           o == Other(p)
<1>1. qry[p] # <<>> /\ ~port[p].wait /\ qry' = [qry EXCEPT ![p] = Tail(qry[p])] /\ cli' = cli
  BY DEF TakeQuery, QueryReady, clientVars
<1>2. /\ qry \in [Port -> Seq(StateQuery)] /\ port \in [Port -> PortEntry]
      /\ rep \in [Port -> Seq(TcpState)] /\ table \in [Session -> TcpState]
  BY DEF LockInv, TypeOK, TableTypeOK
<1>3. /\ q = qry[p][1] /\ Len(qry[p]) \in Nat \ {0}
      /\ Len(Tail(qry[p])) = Len(qry[p]) - 1
      /\ \A i \in 1 .. Len(Tail(qry[p])) : Tail(qry[p])[i] = qry[p][i + 1]
  BY <1>1, HeadTail DEF LockInv
<1>4. q \in StateQuery /\ q.sess \in Session /\ Tail(qry[p]) \in Seq(StateQuery)
  <2>1. q \in StateQuery /\ Tail(qry[p]) \in Seq(StateQuery)
    BY <1>1, HeadType DEF LockInv
  <2> QED
    BY <2>1 DEF StateQuery
<1>5. o \in Port /\ o # p /\ Port = {p, o}
  BY DEF Other, Port
<1>6. rep[p] = <<>>
  BY <1>1 DEF LockInv, PortInv, ReplyAlone
\* What is left is not computed from a read, and a read is alone.
<1>7. \A i \in 1 .. Len(qry'[p]) :
         /\ ~Based(qry'[p][i])
         /\ ~qry'[p][i].write => /\ i = Len(qry'[p]) /\ cli[p].pc = "wait"
                                 /\ qry'[p][i].sess = cli[p].sess
  <2>1. qry'[p] = Tail(qry[p])
    BY <1>1, <1>2
  <2> SUFFICES ASSUME NEW i \in 1 .. Len(Tail(qry[p]))
               PROVE  /\ ~Based(qry[p][i + 1])
                      /\ ~qry[p][i + 1].write =>
                            /\ i = Len(Tail(qry[p])) /\ cli[p].pc = "wait"
                            /\ qry[p][i + 1].sess = cli[p].sess
    BY <1>3, <2>1
  <2>2. i + 1 \in 1 .. Len(qry[p]) /\ i + 1 # 1
    BY <1>3
  <2> QED
    BY <1>3, <2>2 DEF LockInv, PortInv, ReadIsLast, BasedIsNext
<1>8. ~q.write => /\ qry'[p] = <<>> /\ cli[p].pc = "wait" /\ q.sess = cli[p].sess
  <2>1. ~q.write => /\ 1 = Len(qry[p]) /\ cli[p].pc = "wait" /\ q.sess = cli[p].sess
    <3>1. 1 \in 1 .. Len(qry[p])
      BY <1>3
    <3>2. ~qry[p][1].write => /\ 1 = Len(qry[p]) /\ cli[p].pc = "wait"
                              /\ qry[p][1].sess = cli[p].sess
      BY <3>1 DEF LockInv, PortInv, ReadIsLast
    <3> QED
      BY <1>3, <3>2
  <2>2. Len(Tail(qry[p])) = 0 => Tail(qry[p]) = <<>>
    BY <1>4, NoneLeft
  <2>3. qry'[p] = Tail(qry[p])
    BY <1>1, <1>2
  <2> QED
    BY <1>3, <2>1, <2>2, <2>3
<1>9. TypeOK'
  BY TakeQueryType DEF LockInv
<1>10. CASE Locks(o, q.sess) /\ Park(p, q)
  <2>1. ~Based(q)
    <3>1. Based(q) => Locks(p, q.sess)
      BY <1>3 DEF LockInv, PortInv, BasedIsNext, Locks
    <3> QED
      BY <1>4, <1>5, <1>10, <3>1 DEF LockInv, Exclusion, Port
  <2>2. /\ port'[p].wait /\ port'[p].access = q
        /\ port'[o] = port[o]
        /\ port'[p].locked = port[p].locked /\ port'[p].sess = port[p].sess
    BY <1>2, <1>5, <1>10 DEF Park, PortEntry
  <2>3. UNCHANGED <<table, rep>>
    BY <1>10 DEF Park
  <2>4. PortInv(o)'
    BY <1>1, <1>2, <1>5, <2>2, <2>3, PortKept DEF LockInv
  <2>5. PortInv(p)'
    BY <1>1, <1>6, <1>7, <1>8, <2>1, <2>2, <2>3
       DEF PortInv, ReplyAlone, ReadIsLast, BasedIsNext, Based
  <2>6. Exclusion'
    BY <1>5, <2>2 DEF LockInv, Exclusion, Locks, Port
  <2> QED
    BY <1>5, <1>9, <2>4, <2>5, <2>6 DEF LockInv
<1>11. CASE ~Locks(o, q.sess) /\ (Write(p, q) \/ Read(p, q))
  <2>1. /\ rep'[o] = rep[o] /\ port'[o] = port[o]
        /\ \A s \in Session : Locks(o, s) => table'[s] = table[s]
        /\ Exclusion'
    BY <1>4, <1>11, ServeOther
  <2>2. PortInv(o)'
    BY <1>1, <1>2, <1>5, <2>1, PortKept DEF LockInv
  <2>3. ASSUME Write(p, q)
        PROVE  PortInv(p)'
    <3>1. ~port'[p].wait /\ rep' = rep
      <4>1. port'[p] = Unlocked([port[p] EXCEPT !.access = q])
        BY <1>2, <2>3 DEF Write
      <4>2. ~port'[p].wait
        BY <1>2, <4>1 DEF Unlocked, PortEntry
      <4> QED
        BY <2>3, <4>2 DEF Write
    <3> QED
      BY <1>1, <1>6, <1>7, <3>1 DEF PortInv, ReplyAlone, ReadIsLast, BasedIsNext, Based
  <2>4. ASSUME Read(p, q)
        PROVE  PortInv(p)'
    <3>1. /\ ~port'[p].wait /\ port'[p].locked /\ port'[p].sess = q.sess
          /\ ~q.write /\ table' = table
      BY <1>2, <2>4 DEF Read
    <3>2. rep'[p] = <<table[q.sess]>>
      BY <1>2, <1>4, <1>6, <2>4 DEF Read
    <3>3. Len(rep'[p]) = 1 /\ rep'[p][1] = table[q.sess]
      BY <3>2
    <3> QED
      BY <1>1, <1>7, <1>8, <3>1, <3>3 DEF PortInv, ReplyAlone, ReadIsLast, BasedIsNext, Based
  <2>5. PortInv(p)'
    BY <1>11, <2>3, <2>4
  <2> QED
    BY <1>5, <1>9, <2>1, <2>2, <2>5 DEF LockInv
<1> QED
  BY <1>10, <1>11 DEF TakeQuery

LEMMA RetryLock ==
    ASSUME LockInv, NEW p \in Port, Retry(p), UNCHANGED clientVars
    PROVE  LockInv'
<1> DEFINE q == port[p].access
           o == Other(p)
<1>1. /\ port[p].wait /\ qry' = qry /\ cli' = cli /\ ~Locks(o, q.sess)
      /\ Write(p, q) \/ Read(p, q)
  BY DEF Retry, clientVars
<1>2. /\ qry \in [Port -> Seq(StateQuery)] /\ port \in [Port -> PortEntry]
      /\ rep \in [Port -> Seq(TcpState)] /\ table \in [Session -> TcpState]
  BY DEF LockInv, TypeOK, TableTypeOK
<1>3. q \in StateQuery /\ q.sess \in Session
  BY <1>2 DEF PortEntry, StateQuery
<1>4. o \in Port /\ o # p /\ Port = {p, o}
  BY DEF Other, Port
<1>5. TypeOK'
  BY RetryType DEF LockInv
<1>6. /\ rep'[o] = rep[o] /\ port'[o] = port[o]
      /\ \A s \in Session : Locks(o, s) => table'[s] = table[s]
      /\ Exclusion'
  BY <1>1, <1>3, ServeOther
<1>7. PortInv(o)'
  BY <1>1, <1>4, <1>6, PortKept DEF LockInv
<1>8. rep[p] = <<>>
  BY <1>1 DEF LockInv, PortInv, ReplyAlone
<1>9. \A i \in 1 .. Len(qry[p]) : ~Based(qry[p][i])
  BY <1>1 DEF LockInv, PortInv, BasedIsNext
<1>10. CASE Write(p, q)
  <2>1. ~port'[p].wait /\ rep' = rep
    <3>1. port'[p] = Unlocked([port[p] EXCEPT !.access = q])
      BY <1>2, <1>10 DEF Write
    <3>2. ~port'[p].wait
      BY <1>2, <3>1 DEF Unlocked, PortEntry
    <3> QED
      BY <1>10, <3>2 DEF Write
  <2>2. PortInv(p)'
    BY <1>1, <1>8, <1>9, <2>1 DEF LockInv, PortInv, ReplyAlone, ReadIsLast, BasedIsNext, Based
  <2> QED
    BY <1>4, <1>5, <1>6, <1>7, <2>2 DEF LockInv
<1>11. CASE Read(p, q)
  <2>1. /\ ~port'[p].wait /\ port'[p].locked /\ port'[p].sess = q.sess
        /\ ~q.write /\ table' = table
    BY <1>2, <1>11 DEF Read
  <2>2. rep'[p] = <<table[q.sess]>>
    BY <1>2, <1>3, <1>8, <1>11 DEF Read
  <2>3. Len(rep'[p]) = 1 /\ rep'[p][1] = table[q.sess]
    BY <2>2
  <2>4. qry[p] = <<>> /\ cli[p].pc = "wait" /\ q.sess = cli[p].sess
    BY <1>1, <2>1 DEF LockInv, PortInv, ReadIsLast
  <2>5. Len(qry'[p]) = 0
    BY <1>1, <2>4
  <2>6. PortInv(p)'
    BY <1>1, <2>1, <2>3, <2>4, <2>5 DEF PortInv, ReplyAlone, ReadIsLast, BasedIsNext, Based
  <2> QED
    BY <1>4, <1>5, <1>6, <1>7, <2>6 DEF LockInv
<1> QED
  BY <1>1, <1>10, <1>11

\* A step that touches neither the table nor a port keeps the locks.
LEMMA StreamsLock ==
    ASSUME LockInv, TypeOK', UNCHANGED <<table, port, qry, rep, cli>>
    PROVE  LockInv'
<1>1. \A p \in Port : PortInv(p)'
  BY PortKept DEF LockInv
<1>2. Exclusion'
  BY DEF LockInv, Exclusion, Locks
<1> QED
  BY <1>1, <1>2 DEF LockInv

\* A session is closed by TIm only when nobody has locked it.
LEMMA CloseLock ==
    ASSUME LockInv, TypeOK', NEW s \in Session, Close(s),
           ~Locks("rx", s), ~Locks("tx", s), UNCHANGED <<port, qry, rep, cli>>
    PROVE  LockInv'
<1>1. \A r \in Session : r # s => table'[r] = table[r]
  BY DEF Close, LockInv, TypeOK, TableTypeOK
<1>2. \A p \in Port, r \in Session : Locks(p, r) => table'[r] = table[r]
  BY <1>1 DEF Port
<1>3. \A p \in Port : PortInv(p)'
  BY <1>2, PortKept DEF LockInv
<1>4. Exclusion'
  BY DEF LockInv, Exclusion, Locks
<1> QED
  BY <1>3, <1>4 DEF LockInv

LEMMA SttLock == LockInv /\ STt => LockInv'
<1> SUFFICES ASSUME LockInv, state_table, UNCHANGED clientVars
             PROVE  LockInv'
  BY DEF STt
<1>1. TypeOK' /\ cli' = cli
  BY SttType DEF LockInv, STt, clientVars
<1>2. CASE TakeConnect \/ TakeRx
  BY <1>2, TakeQueryLock DEF TakeConnect, TakeRx, Port
<1>3. CASE RetryConnect \/ RetryRx
  BY <1>3, RetryLock DEF RetryConnect, RetryRx, Port
<1>4. CASE TakeStream
  BY <1>1, <1>4, StreamsLock DEF TakeStream, sttVars
<1>5. CASE TakeClose
  <2>1. Head(timClose) \in Session /\ UNCHANGED <<port, qry, rep>>
    BY <1>5 DEF TakeClose, CloseReady, LockInv, TypeOK, TableTypeOK
  <2>2. CASE Locks("rx", Head(timClose)) \/ Locks("tx", Head(timClose))
    BY <1>1, <1>5, <2>1, <2>2, StreamsLock DEF TakeClose
  <2>3. CASE ~(Locks("rx", Head(timClose)) \/ Locks("tx", Head(timClose)))
    BY <1>1, <1>5, <2>1, <2>3, CloseLock DEF TakeClose
  <2> QED
    BY <2>2, <2>3
<1>6. CASE RetryClose
  BY <1>1, <1>6, CloseLock DEF RetryClose, LockInv, TypeOK, TableTypeOK
<1> QED
  BY <1>2, <1>3, <1>4, <1>5, <1>6 DEF state_table

\* A client at rest adds a query that is not computed from a read.
LEMMA PostLock ==
    ASSUME LockInv, TypeOK', NEW p \in Port, NEW q \in StateQuery, ~Based(q),
           cli[p].pc = "idle", qry' = [qry EXCEPT ![p] = Append(@, q)],
           UNCHANGED <<table, port, rep>>,
           \A r \in Port \ {p} : cli'[r] = cli[r],
           ~q.write => cli'[p] = [pc |-> "wait", sess |-> q.sess],
           q.write => cli'[p] = cli[p]
    PROVE  LockInv'
<1>1. /\ qry[p] \in Seq(StateQuery) /\ rep[p] = <<>>
      /\ qry'[p] = Append(qry[p], q)
  BY DEF LockInv, TypeOK, TableTypeOK, PortInv, ReplyAlone
<1>2. /\ Len(qry[p]) \in Nat /\ Len(qry'[p]) = Len(qry[p]) + 1
      /\ qry'[p][Len(qry[p]) + 1] = q
      /\ \A i \in 1 .. Len(qry[p]) : qry'[p][i] = qry[p][i]
  BY <1>1
\* The client is idle: it has no read under way.
<1>3. /\ \A i \in 1 .. Len(qry[p]) : qry[p][i].write
      /\ port[p].wait => port[p].access.write
  BY DEF LockInv, PortInv, ReadIsLast
<1>4. PortInv(p)'
  <2>1. ReplyAlone(p)'
    BY <1>1 DEF ReplyAlone
  <2>2. ReadIsLast(p)'
    BY <1>2, <1>3 DEF ReadIsLast
  <2>3. BasedIsNext(p)'
    BY <1>2 DEF LockInv, PortInv, BasedIsNext, Based
  <2> QED
    BY <2>1, <2>2, <2>3 DEF PortInv
<1>5. \A r \in Port \ {p} : PortInv(r)'
  <2> SUFFICES ASSUME NEW r \in Port \ {p}
               PROVE  PortInv(r)'
    OBVIOUS
  <2>1. qry'[r] = qry[r]
    BY DEF LockInv, TypeOK, TableTypeOK
  <2> QED
    BY <2>1, PortKept DEF LockInv
<1>6. Exclusion'
  BY DEF LockInv, Exclusion, Locks
<1> QED
  BY <1>4, <1>5, <1>6 DEF LockInv

\* A client that has its reply writes what it has computed from it.
LEMMA AnswerLock ==
    ASSUME LockInv, NEW p \in Port,
           (FsmTransition /\ p = "rx") \/ (TacCloseConn /\ p = "tx")
    PROVE  LockInv'
<1>1. TypeOK'
  BY AnswerType DEF LockInv
<1>2. PICK new \in TcpState :
        qry' = [qry EXCEPT ![p] = Append(@, WriteQuery(cli[p].sess, new, Head(rep[p])))]
  BY AnswerType DEF LockInv
<1>3. /\ rep[p] # <<>> /\ rep' = [rep EXCEPT ![p] = Tail(rep[p])]
      /\ cli' = [cli EXCEPT ![p].pc = "idle"]
      /\ UNCHANGED <<table, port>>
  BY DEF FsmTransition, TacCloseConn, Answer, sttVars
<1>4. /\ qry \in [Port -> Seq(StateQuery)] /\ rep \in [Port -> Seq(TcpState)]
      /\ cli \in [Port -> [pc : {"idle", "wait"}, sess : Session]]
  BY DEF LockInv, TypeOK, TableTypeOK
<1>5. /\ Len(rep[p]) = 1 /\ qry[p] = <<>> /\ ~port[p].wait
      /\ port[p].locked /\ port[p].sess = cli[p].sess
      /\ rep[p][1] = table[cli[p].sess]
  BY <1>3 DEF LockInv, PortInv, ReplyAlone
<1>6. Head(rep[p]) = table[cli[p].sess] /\ rep'[p] = <<>>
  <2>1. Tail(rep[p]) \in Seq(TcpState) /\ Len(Tail(rep[p])) = 0
    BY <1>3, <1>4, <1>5
  <2> QED
    BY <1>3, <1>4, <1>5, <2>1, NoneLeft
<1>7. qry'[p] = <<WriteQuery(cli[p].sess, new, Head(rep[p]))>>
  BY <1>2, <1>4, <1>5
<1>8. Len(qry'[p]) = 1 /\ qry'[p][1] = WriteQuery(cli[p].sess, new, Head(rep[p]))
  BY <1>7
<1>9. PortInv(p)'
  <2>1. ReplyAlone(p)'
    BY <1>6 DEF ReplyAlone
  <2>2. ReadIsLast(p)'
    BY <1>3, <1>5, <1>8 DEF ReadIsLast, WriteQuery
  <2>3. BasedIsNext(p)'
    BY <1>3, <1>5, <1>6, <1>8 DEF BasedIsNext, Based, WriteQuery
  <2> QED
    BY <2>1, <2>2, <2>3 DEF PortInv
<1>10. \A r \in Port \ {p} : PortInv(r)'
  <2> SUFFICES ASSUME NEW r \in Port \ {p}
               PROVE  PortInv(r)'
    OBVIOUS
  <2>1. qry'[r] = qry[r] /\ rep'[r] = rep[r] /\ cli'[r] = cli[r]
    BY <1>2, <1>3, <1>4
  <2> QED
    BY <1>3, <2>1, PortKept DEF LockInv
<1>11. Exclusion'
  BY <1>3 DEF LockInv, Exclusion, Locks
<1> QED
  BY <1>1, <1>9, <1>10, <1>11 DEF LockInv

LEMMA NextLock == LockInv /\ [Next]_vars => LockInv'
<1> SUFFICES ASSUME LockInv, [Next]_vars
             PROVE  LockInv'
  OBVIOUS
<1>1. TypeOK'
  BY NextType DEF LockInv
<1>2. CASE STt
  BY <1>2, SttLock
<1>3. CASE FsmTransition \/ TacCloseConn
  BY <1>3, AnswerLock DEF Port
<1>4. CASE SmlReply \/ SLcRelease
  BY <1>1, <1>4, StreamsLock DEF SmlReply, SLcRelease, sttVars, clientVars
<1>5. ASSUME NEW s \in Session, FsmLoad(s) \/ TacCloseReq(s)
      PROVE  LockInv'
  <2>1. PICK p \in Port : SendRead(p, s)
    BY <1>5 DEF FsmLoad, TacCloseReq, Port
  <2>2. ReadQuery(s) \in StateQuery /\ ~ReadQuery(s).write /\ ReadQuery(s).sess = s
    BY QueryTypes DEF ReadQuery
  <2>3. /\ cli[p].pc = "idle" /\ qry' = [qry EXCEPT ![p] = Append(@, ReadQuery(s))]
        /\ UNCHANGED <<table, port, rep>>
        /\ cli' = [cli EXCEPT ![p] = [pc |-> "wait", sess |-> s]]
    BY <2>1 DEF SendRead, sttVars
  <2>4. cli'[p] = [pc |-> "wait", sess |-> s] /\ \A r \in Port \ {p} : cli'[r] = cli[r]
    BY <2>3 DEF LockInv, TypeOK
  <2> QED
    BY <1>1, <2>2, <2>3, <2>4, PostLock DEF Based
<1>6. ASSUME NEW s \in Session, TacOpen(s)
      PROVE  LockInv'
  <2>1. /\ WriteQuery(s, "SYN_SENT", "none") \in StateQuery
        /\ WriteQuery(s, "SYN_SENT", "none").write
        /\ ~Based(WriteQuery(s, "SYN_SENT", "none"))
    BY QueryTypes DEF WriteQuery, Based, TcpState
  <2>2. /\ cli["tx"].pc = "idle" /\ "tx" \in Port
        /\ qry' = [qry EXCEPT !["tx"] = Append(@, WriteQuery(s, "SYN_SENT", "none"))]
        /\ UNCHANGED <<table, port, rep, cli>>
    BY <1>6 DEF TacOpen, TacSynSent, sttVars, Port
  <2> QED
    BY <1>1, <2>1, <2>2, PostLock
<1>7. ASSUME NEW s \in Session, SmlRead(s) \/ TImClose(s)
      PROVE  LockInv'
  BY <1>1, <1>7, StreamsLock DEF SmlRead, TImClose, sttVars
<1>8. CASE UNCHANGED vars
  BY <1>1, <1>8, StreamsLock DEF vars, sttVars, streamVars, clientVars
<1> QED
  BY <1>2, <1>3, <1>4, <1>5, <1>6, <1>7, <1>8 DEF Next

LEMMA InitLock == Init => LockInv
<1> SUFFICES ASSUME Init
             PROVE  LockInv
  OBVIOUS
<1>1. TypeOK
  BY InitType
<1>2. \A p \in Port : /\ qry[p] = <<>> /\ rep[p] = <<>>
                      /\ ~port[p].wait /\ ~port[p].locked
  BY DEF Init, TableInit
<1>3. \A p \in Port : Len(qry[p]) = 0
  BY <1>2
<1>4. \A p \in Port : PortInv(p)
  BY <1>2, <1>3 DEF PortInv, ReplyAlone, ReadIsLast, BasedIsNext
<1>5. Exclusion
  BY <1>2 DEF Exclusion, Locks, Port
<1> QED
  BY <1>1, <1>4, <1>5 DEF LockInv

LEMMA LockInvImplies == LockInv => NoLostUpdate
<1> SUFFICES ASSUME LockInv
             PROVE  NoLostUpdate
  OBVIOUS
<1>1. ASSUME NEW p \in Port, rep[p] # <<>>
      PROVE  Head(rep[p]) = table[cli[p].sess]
  <2>1. rep[p] \in Seq(TcpState)
    BY DEF LockInv, TypeOK, TableTypeOK
  <2> QED
    BY <1>1, <2>1 DEF LockInv, PortInv, ReplyAlone
<1>2. ASSUME NEW p \in Port, NEW q \in Pending(p), q.write, q.base # "none"
      PROVE  table[q.sess] = q.base
  BY <1>2 DEF Pending, LockInv, PortInv, BasedIsNext, Based
<1> QED
  BY <1>1, <1>2 DEF NoLostUpdate, LockInv

\* No update of the State Table is lost: the state that a write of RXe or of
\* TAi was computed from is still the state of the session when STt carries
\* the write out, whatever the other accessor and the timers ask meanwhile.
THEOREM NoUpdateIsLost == Spec => []NoLostUpdate
<1>1. Spec => []LockInv
  BY InitLock, NextLock, PTL DEF Spec
<1> QED
  BY <1>1, LockInvImplies, PTL

===============================================================================
