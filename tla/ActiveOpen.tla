------------------------------ MODULE ActiveOpen ------------------------------
(*****************************************************************************)
(* Opening and closing of connections, and the resources they hold.  TAi     *)
(* (Tac) takes a free port from PRt (Fpt), has SLc enter the connection, and *)
(* starts the handshake; TIm (Rtt, Clt, Smx) repeats what is not answered,   *)
(* gives up after MaxRetries, and ends closed connections; RXe asks PRt for  *)
(* the state of the port of every segment (Irr, Lpt, Fpt, Orm) before it     *)
(* looks the connection up.                                                  *)
(*                                                                           *)
(* STt and SLc are reduced to their effect, one step per request: modules    *)
(* StateTable and SessionLookup show that their streams add nothing to it.   *)
(* The local port stands for the 4-tuple of a connection.  A port number has *)
(* two bytes; the lower half of the numbers are the static ports, to listen  *)
(* on, the upper half (bit 15 set) the dynamic ones of active connections.   *)
(* SLc keeps its tuples in little-endian order and tells PRt of a released   *)
(* port in that order; PRt reads it as a native number.                      *)
(*****************************************************************************)
EXTENDS Naturals, Sequences, FiniteSets
SX == INSTANCE SequencesExt

CONSTANTS
    MaxSessions,  \* TOE_MAX_SESSIONS
    ByteValues,   \* number of values of a byte (256), two of which make a port number
    MaxRetries,   \* 4: timeouts in a row before a session is aborted
    StreamDepth,  \* depth of the streams
    Budgets       \* bounds: opens, closes, clients, FINs of the peer's own, losses and
                  \* spurious timeouts of a run

SizeAssumption ==
    /\ {MaxSessions, ByteValues, StreamDepth} \subseteq Nat \ {0} /\ ByteValues % 2 = 0
    /\ MaxRetries \in Nat
    /\ Budgets \subseteq [opens : Nat, closes : Nat, clients : Nat, fins : Nat, losses : Nat, spurious : Nat]
ASSUME SizeAssumption

VARIABLES
    ch,      \* the streams, by name
    left,    \* what is left of the budget
    app,     \* application: replies awaited, listening?, what it heard last of each session
    tac,     \* Tac: state, session it closes
    lai,     \* Lai: has it a listen request pending?
    lpt,     \* Lpt: the ports open for listening
    fpt,     \* Fpt: ACTIVE_PORT_TABLE (ports in use), search and position; the history of
             \* ports released under another number, and of ports freed under their number
    orm,     \* Orm: the table whose answer is next, or "none"
    rxe,     \* RXe: segments whose port is being looked up
    slc,     \* SLc: free ids, port and valid flag per id
    stt,     \* STt: state per id
    tst,     \* TSt: acknowledgment each session waits for, <<isn, 1 or 2>>
    isn,     \* last initial sequence number drawn by TXe
    rtt,     \* Rtt: RETRANSMIT_TIMER_TABLE
    clt,     \* Clt: sessions whose close timer is active
    peer,    \* the remote side: connections it has accepted, those it has closed, and
             \* the FINs it still has to send
    refused  \* ports whose connection SLc refused to enter

vars == <<ch, left, app, tac, lai, lpt, fpt, orm, rxe, slc, stt, tst, isn, rtt, clt, peer, refused>>
prt == <<lpt, fpt, orm>>
tim == <<rtt, clt>>
tables == <<slc, stt, tst, isn, refused>>

Session == 0..(MaxSessions - 1)
StaPorts == (ByteValues * ByteValues) \div 2
DynPorts == StaPorts
StaPort == 0..(StaPorts - 1)
DynPort == 0..(DynPorts - 1)
Port == 0..(StaPorts + DynPorts - 1)
IsDynamic(p) == p >= StaPorts
NoPort == StaPorts + DynPorts

\* byteSwap16: a number of one byte order read in the other.
Swapped(p) == (p % ByteValues) * ByteValues + (p \div ByteValues)

Stream == {"opnReq", "opnRep", "clsReq", "lsnReq", "lsnRep", "prtLsnReq", "prtLsnRep",
           "freeReq", "freeRep", "slcReq", "slcRep", "slcRel", "prtClose",
           "tacEv", "rttEv", "rxeEv", "setCmd", "rxeCmd", "cltSet",
           "rttClose", "cltClose", "timNotif", "raiNotif", "actSts",
           "lptQry", "fptQry", "range", "lptRsp", "fptRsp", "prtRep",
           "wire", "net"}
Put(f, c, m) == [f EXCEPT ![c] = Append(@, m)]
Pop(f, c) == [f EXCEPT ![c] = Tail(@)]
Some(c) == ch[c] # <<>>
Room(c) == Len(ch[c]) < StreamDepth
Holds(c, i) == \E k \in 1..Len(ch[c]) : ch[c][k].id = i
\* Take the head of a, put m into b.
Pass(a, b, m) == Some(a) /\ Room(b) /\ ch' = Put(Pop(ch, a), b, m)

Status(i, s) == [id |-> i, state |-> s]
Event(t, i, n) == [type |-> t, id |-> i, rt |-> n]
Cmd(i, c) == [id |-> i, cmd |-> c]
Idle == [retries |-> 0, active |-> FALSE, type |-> "SYN"]

Init ==
    /\ ch = [c \in Stream |-> <<>>]
    /\ left \in Budgets
    /\ app = [waiting |-> 0, listen |-> "NO", heard |-> [i \in Session |-> "CLOSED"]]
    /\ tac = [st |-> "IDLE", id |-> 0] /\ lai = FALSE
    /\ lpt = {}
    /\ fpt = [used |-> {}, search |-> FALSE, eval |-> FALSE, state |-> "USED", pos |-> 0,
              lost |-> {}, stray |-> {}]
    /\ orm = "none" /\ rxe = <<>>
    /\ slc = [free |-> [k \in 1..MaxSessions |-> k - 1],
              port |-> [i \in Session |-> NoPort], valid |-> [i \in Session |-> FALSE]]
    /\ stt = [i \in Session |-> "CLOSED"] /\ tst = [i \in Session |-> <<0, 1>>] /\ isn = 0
    /\ rtt = [i \in Session |-> Idle]
    /\ clt = {}
    /\ peer = [accepted |-> {}, closed |-> {}, owed |-> {}] /\ refused = {}

-----------------------------------------------------------------------------
(* The application, which reads every reply. *)

Spend(k) == left[k] > 0 /\ left' = [left EXCEPT ![k] = @ - 1]

\* One request at a time, once the application has its listening port.
AppOpen ==
    /\ app.listen = "DONE" /\ app.waiting = 0 /\ Room("opnReq") /\ Spend("opens")
    /\ ch' = Put(ch, "opnReq", "server")
    /\ app' = [app EXCEPT !.waiting = @ + 1]
    /\ UNCHANGED <<tac, lai, prt, rxe, tables, tim, peer>>

AppListen ==
    /\ app.listen = "NO" /\ \E p \in Port : ch' = Put(ch, "lsnReq", p)
    /\ app' = [app EXCEPT !.listen = "ASKED"]
    /\ UNCHANGED <<left, tac, lai, prt, rxe, tables, tim, peer>>

AppClose(i) ==
    /\ app.heard[i] = "ESTABLISHED" /\ Room("clsReq") /\ Spend("closes")
    /\ ch' = Put(ch, "clsReq", i)
    /\ app' = [app EXCEPT !.heard[i] = "CLOSING"]
    /\ UNCHANGED <<tac, lai, prt, rxe, tables, tim, peer>>

\* A reply of Tac.  It awaits one while waiting is not 0.
AppReply ==
    LET r == Head(ch["opnRep"]) IN
    /\ Some("opnRep") /\ ch' = Pop(ch, "opnRep")
    /\ app' = [app EXCEPT !.heard[r.id] = r.state, !.waiting = IF @ > 0 THEN @ - 1 ELSE 0]
    /\ UNCHANGED <<left, tac, lai, prt, rxe, tables, tim, peer>>

AppNotified ==
    LET r == Head(ch["raiNotif"]) IN
    /\ Some("raiNotif") /\ ch' = Pop(ch, "raiNotif")
    /\ app' = [app EXCEPT !.heard[r.id] = r.state]
    /\ UNCHANGED <<left, tac, lai, prt, rxe, tables, tim, peer>>

AppListening ==
    /\ Some("lsnRep") /\ ch' = Pop(ch, "lsnRep")
    /\ app' = [app EXCEPT !.listen = "DONE"]
    /\ UNCHANGED <<left, tac, lai, prt, rxe, tables, tim, peer>>

-----------------------------------------------------------------------------
(* Tac.  The branches of IDLE in the order of the code.  A reply to the     *)
(* application is dropped when its stream is full; the application is told  *)
(* to provide enough room, and does.                                        *)

TacOpen == tac.st = "IDLE" /\ Some("opnReq") /\ Room("freeReq")

TacRequestPort ==
    /\ TacOpen
    /\ ch' = Put(Pop(ch, "opnReq"), "freeReq", 1)
    /\ tac' = [tac EXCEPT !.st = "GET_FREE_PORT"]
    /\ UNCHANGED <<left, app, lai, prt, rxe, tables, tim, peer>>

TacEnter ==
    /\ tac.st = "GET_FREE_PORT"
    /\ Pass("freeRep", "slcReq", Head(ch["freeRep"]))
    /\ tac' = [tac EXCEPT !.st = "IDLE"]
    /\ UNCHANGED <<left, app, lai, prt, rxe, tables, tim, peer>>

TacConnect ==
    LET r == Head(ch["slcRep"]) IN
    /\ tac.st = "IDLE" /\ ~TacOpen /\ Some("slcRep")
    /\ IF r.hit THEN /\ Pass("slcRep", "tacEv", Event("SYN", r.id, 0))
                     /\ stt' = [stt EXCEPT ![r.id] = "SYN_SENT"]
                ELSE /\ ch' = Put(Pop(ch, "slcRep"), "opnRep", Status(r.id, "CLOSED"))
                     /\ UNCHANGED stt
    /\ UNCHANGED <<left, app, tac, lai, prt, rxe, slc, tst, isn, refused, tim, peer>>

\* The state reported by RXe, or by TIm, is passed on.
TacTell(c) ==
    /\ tac.st = "IDLE" /\ ~TacOpen /\ ~Some("slcRep")
    /\ c = "timNotif" => ~Some("actSts")
    /\ Some(c) /\ ch' = Put(Pop(ch, c), "opnRep", Head(ch[c]))
    /\ UNCHANGED <<left, app, tac, lai, prt, rxe, tables, tim, peer>>

\* The state is read and written back under the lock of STt.
TacClose ==
    LET i == Head(ch["clsReq"]) IN
    /\ tac.st = "IDLE" /\ ~TacOpen /\ \A c \in {"slcRep", "actSts", "timNotif"} : ~Some(c)
    /\ Some("clsReq")
    /\ IF stt[i] \in {"ESTABLISHED", "FIN_WAIT_2", "FIN_WAIT_1"}
         THEN /\ Pass("clsReq", "tacEv", Event("FIN", i, 0))
              /\ stt' = [stt EXCEPT ![i] = "FIN_WAIT_1"]
         ELSE /\ ch' = Pop(ch, "clsReq")
              /\ UNCHANGED stt
    /\ UNCHANGED <<left, app, tac, lai, prt, rxe, slc, tst, isn, refused, tim, peer>>

Tac == TacRequestPort \/ TacEnter \/ TacConnect \/ TacTell("actSts") \/ TacTell("timNotif") \/ TacClose

Lai ==
    /\ IF lai THEN Pass("prtLsnRep", "lsnRep", Head(ch["prtLsnRep"]))
              ELSE Pass("lsnReq", "prtLsnReq", Head(ch["lsnReq"]))
    /\ lai' = ~lai
    /\ UNCHANGED <<left, app, tac, prt, rxe, tables, tim, peer>>

-----------------------------------------------------------------------------
(* PRt.  Tables answer with the port they were asked for only in the model. *)

LptOpen ==
    LET p == Head(ch["prtLsnReq"]) IN
    /\ Pass("prtLsnReq", "prtLsnRep", IF IsDynamic(p) THEN "CLOSED" ELSE "OPENED")
    /\ lpt' = IF IsDynamic(p) THEN lpt ELSE lpt \cup {p}
    /\ UNCHANGED <<left, app, tac, lai, fpt, orm, rxe, tables, tim, peer>>

LptState ==
    LET p == Head(ch["lptQry"]) IN
    /\ ~(Some("prtLsnReq") /\ Room("prtLsnRep"))
    /\ Pass("lptQry", "lptRsp", [port |-> p, open |-> p \in lpt])
    /\ UNCHANGED <<left, app, tac, lai, prt, rxe, tables, tim, peer>>

FptSearch ==
    /\ fpt.search
    /\ fpt' = [fpt EXCEPT !.search = FALSE, !.eval = TRUE,
                          !.state = IF fpt.pos \in fpt.used THEN "USED" ELSE "FREE"]
    /\ UNCHANGED <<left, ch, app, tac, lai, lpt, orm, rxe, tables, tim, peer>>

NextDynPort == (fpt.pos + 1) % DynPorts

\* The position moves on even if the port found could not be handed out.
FptEval ==
    /\ ~fpt.search /\ fpt.eval
    /\ IF fpt.state = "FREE" /\ Room("freeRep")
         THEN /\ ch' = Put(ch, "freeRep", StaPorts + fpt.pos)
              /\ fpt' = [fpt EXCEPT !.eval = FALSE, !.used = @ \cup {fpt.pos}, !.pos = NextDynPort]
         ELSE /\ fpt' = [fpt EXCEPT !.search = fpt.state # "FREE", !.pos = NextDynPort]
              /\ UNCHANGED ch
    /\ UNCHANGED <<left, app, tac, lai, lpt, orm, rxe, tables, tim, peer>>

FptIdle == ~fpt.search /\ ~fpt.eval

FptState ==
    LET p == Head(ch["fptQry"]) IN
    /\ FptIdle
    /\ Pass("fptQry", "fptRsp", [port |-> p, open |-> p - StaPorts \in fpt.used])
    /\ UNCHANGED <<left, app, tac, lai, prt, rxe, tables, tim, peer>>

FptRequest ==
    /\ FptIdle /\ ~Some("fptQry") /\ Some("freeReq")
    /\ ch' = Pop(ch, "freeReq")
    /\ fpt' = [fpt EXCEPT !.search = TRUE]
    /\ UNCHANGED <<left, app, tac, lai, lpt, orm, rxe, tables, tim, peer>>

\* Mutant of Freed: bit 15 is not looked at.
FreedLowBits(p) == {p % StaPorts, p - StaPorts}

\* The number is the one SLc has written; one that looks static is ignored, except
\* in simulation, which stops there.
Freed(p) == IF IsDynamic(p) THEN {p - StaPorts} ELSE {}

\* The entry of a dynamic port p, none of a static one.
EntryOf(p) == {d \in DynPort : p = StaPorts + d}

\* History: SLc meant the port Swapped(p).  That one is lost unless it is p itself, and
\* p, if it is dynamic, is freed by a connection that has another port.
FptRelease ==
    LET p == Head(ch["prtClose"])
        other == Swapped(p) # p
    IN  /\ FptIdle /\ ~Some("fptQry") /\ ~Some("freeReq") /\ Some("prtClose")
        /\ ch' = Pop(ch, "prtClose")
        /\ fpt' = [fpt EXCEPT !.used = @ \ Freed(p),
                              !.lost = IF other THEN @ \cup EntryOf(Swapped(p)) ELSE @,
                              !.stray = IF other THEN @ \cup EntryOf(p) ELSE @]
        /\ UNCHANGED <<left, app, tac, lai, lpt, orm, rxe, tables, tim, peer>>

Lpt == LptOpen \/ LptState
Fpt == FptSearch \/ FptEval \/ FptState \/ FptRequest \/ FptRelease

OrmQuery ==
    /\ orm = "none" /\ Some("range")
    /\ orm' = Head(ch["range"]) /\ ch' = Pop(ch, "range")
    /\ UNCHANGED <<left, app, tac, lai, lpt, fpt, rxe, tables, tim, peer>>

Awaited(t) == orm = t

OrmForward(t) ==
    /\ Awaited(t)
    /\ Pass(t \o "Rsp", "prtRep", Head(ch[t \o "Rsp"]))
    /\ orm' = "none"
    /\ UNCHANGED <<left, app, tac, lai, lpt, fpt, rxe, tables, tim, peer>>

Orm == OrmQuery \/ OrmForward("lpt") \/ OrmForward("fpt")

-----------------------------------------------------------------------------
(* SLc and STt, in one step per request. *)

Entered(i, p) == [slc EXCEPT !.free = Tail(@), !.port[i] = p, !.valid[i] = TRUE]

SlcLookup ==
    LET p   == Head(ch["slcReq"])
        ids == {i \in Session : slc.valid[i] /\ slc.port[i] = p}
        i   == IF ids # {} THEN CHOOSE j \in ids : TRUE ELSE Head(slc.free)
    IN  /\ Some("slcReq")
        /\ IF ids # {} \/ slc.free # <<>>
             THEN /\ Pass("slcReq", "slcRep", [hit |-> TRUE, id |-> i])
                  /\ slc' = IF ids = {} THEN Entered(i, p) ELSE slc
                  /\ UNCHANGED refused
             ELSE /\ Pass("slcReq", "slcRep", [hit |-> FALSE, id |-> 0])
                  /\ refused' = refused \cup {p - StaPorts}
                  /\ UNCHANGED slc
        /\ UNCHANGED <<left, app, tac, lai, prt, rxe, stt, tst, isn, tim, peer>>


SlcRelease ==
    LET i == Head(ch["slcRel"]) IN
    /\ ~Some("slcReq") /\ Some("slcRel")
    /\ IF slc.valid[i]
         THEN /\ Pass("slcRel", "prtClose", Swapped(slc.port[i]))
              /\ slc' = [slc EXCEPT !.free = Append(@, i), !.valid[i] = FALSE]
         ELSE /\ ch' = Pop(ch, "slcRel")
              /\ UNCHANGED slc
    /\ UNCHANGED <<left, app, tac, lai, prt, rxe, stt, tst, isn, refused, tim, peer>>

\* A session closed by TIm; Smx lets Clt go first.
SttClose ==
    LET c == IF Some("cltClose") THEN "cltClose" ELSE "rttClose" IN
    /\ Pass(c, "slcRel", Head(ch[c]))
    /\ stt' = [stt EXCEPT ![Head(ch[c])] = "CLOSED"]
    /\ UNCHANGED <<left, app, tac, lai, prt, rxe, slc, tst, isn, refused, tim, peer>>

-----------------------------------------------------------------------------
(* EVe and TXe: events become segments, and set the retransmit timer.       *)

\* EVe takes events of RXe before those of TIm before those of TAi.
Selected == IF Some("rxeEv") THEN "rxeEv" ELSE IF Some("rttEv") THEN "rttEv" ELSE "tacEv"

Segment(k, p, n) == [kind |-> k, port |-> p, num |-> n]

\* Mutant of ArmTimer: the first transmission does not set the timer.
ArmTimerRetry(f, ev, type) == IF ev.rt > 0 THEN Put(f, "setCmd", [id |-> ev.id, type |-> type]) ELSE f

ArmTimer(f, ev, type) == Put(f, "setCmd", [id |-> ev.id, type |-> type])

TxeSend(ev, kind, n, type) ==
    /\ Room("wire") /\ Room("setCmd")
    /\ ch' = ArmTimer(Put(Pop(ch, Selected), "wire", Segment(kind, slc.port[ev.id], n)), ev, type)

\* SYN and SYN_ACK: the first time with a new initial sequence number.
TxeSyn ==
    LET ev == Head(ch[Selected])
        n  == IF ev.rt = 0 THEN <<isn + 1, 1>> ELSE <<tst[ev.id][1], 1>>
    IN  /\ Some(Selected) /\ ev.type \in {"SYN", "SYN_ACK"}
        /\ TxeSend(ev, ev.type, n, ev.type)
        /\ IF ev.rt = 0 THEN tst' = [tst EXCEPT ![ev.id] = n] /\ isn' = isn + 1
                        ELSE UNCHANGED <<tst, isn>>
        /\ UNCHANGED <<left, app, tac, lai, prt, rxe, slc, stt, refused, tim, peer>>

\* The FIN takes a sequence number of its own.  RT: it is sent again.
TxeFin ==
    LET ev == Head(ch[Selected])
        n  == <<tst[ev.id][1], 2>>
    IN  /\ Some(Selected) /\ ev.type \in {"FIN", "RT"}
        /\ TxeSend(ev, "FIN", n, "RT")
        /\ tst' = [tst EXCEPT ![ev.id] = n]
        /\ UNCHANGED <<left, app, tac, lai, prt, rxe, slc, stt, isn, refused, tim, peer>>

TXe == TxeSyn \/ TxeFin

-----------------------------------------------------------------------------
(* The remote side and the network.  It closes a connection when it gets our  *)
(* FIN, or later, and then acknowledges that FIN first, or before it, on its  *)
(* own account.  Our acknowledgments are left out: it repeats no segment that *)
(* has got through.                                                           *)

FinOf(n) == {f \in peer.owed : f.num[1] = n[1]}
Fin(p, n) == Segment("FIN", p, n)

\* A connection it has accepted stays accepted; another SYN it accepts or refuses.
PeerAnswer ==
    LET s == Head(ch["wire"])
        n == s.num
    IN
    \/ /\ s.kind = "SYN" /\ Pass("wire", "net", Segment("SYN_ACK", s.port, n))
       /\ peer' = [peer EXCEPT !.accepted = @ \cup {n[1]}]
    \/ /\ s.kind = "SYN" /\ n[1] \notin peer.accepted
       /\ Pass("wire", "net", Segment("RST", s.port, n))
       /\ UNCHANGED peer
    \/ /\ s.kind = "SYN_ACK" /\ Pass("wire", "net", Segment("ACK", s.port, n))
       /\ peer' = [peer EXCEPT !.accepted = @ \cup {n[1]}]
    \/ /\ s.kind = "SYN_ACK" /\ n[1] \notin peer.accepted
       /\ Pass("wire", "net", Segment("RST", s.port, n))
       /\ UNCHANGED peer
    \/ /\ s.kind = "FIN" /\ n[1] \notin peer.closed
       /\ Pass("wire", "net", Fin(s.port, n))
       /\ peer' = [peer EXCEPT !.closed = @ \cup {n[1]}]
    \/ /\ s.kind = "FIN" /\ Pass("wire", "net", Segment("ACK", s.port, n))
       /\ peer' = [peer EXCEPT !.closed = @ \cup {n[1]},
                               !.owed = IF n[1] \in peer.closed /\ FinOf(n) = {} THEN @
                                        ELSE (@ \ FinOf(n)) \cup {Fin(s.port, n)}]

\* No answer is faster than the command that sets the timer.
Peer == Some("wire") /\ ~Some("setCmd") /\ PeerAnswer /\ UNCHANGED <<left, app, tac, lai, prt, rxe, tables, tim>>

\* It closes an established connection on its own account.
PeerClose(i) ==
    /\ slc.valid[i] /\ stt[i] \in {"ESTABLISHED", "FIN_WAIT_1"}
    /\ tst[i][1] \in peer.accepted \ peer.closed /\ Spend("fins")
    /\ peer' = [peer EXCEPT !.closed = @ \cup {tst[i][1]},
                            !.owed = @ \cup {Fin(slc.port[i], <<tst[i][1], 1>>)}]
    /\ UNCHANGED <<ch, app, tac, lai, prt, rxe, tables, tim>>

PeerFin ==
    \E f \in peer.owed :
       /\ Room("net") /\ ch' = Put(ch, "net", f)
       /\ peer' = [peer EXCEPT !.owed = @ \ {f}]
       /\ UNCHANGED <<left, app, tac, lai, prt, rxe, tables, tim>>

\* The peer repeats a FIN that is lost.
Lose(c) ==
    /\ Some(c) /\ Spend("losses")
    /\ ch' = Pop(ch, c)
    /\ peer' = [peer EXCEPT !.owed = IF c = "net" /\ Head(ch[c]).kind = "FIN" THEN @ \cup {Head(ch[c])} ELSE @]
    /\ UNCHANGED <<app, tac, lai, prt, rxe, tables, tim>>

Client ==
    /\ app.listen = "DONE" /\ Room("net") /\ Spend("clients")
    /\ \E p \in StaPort : ch' = Put(ch, "net", Segment("SYN", p, <<0, 1>>))
    /\ UNCHANGED <<app, tac, lai, prt, rxe, tables, tim, peer>>

-----------------------------------------------------------------------------
(* RXe. *)

\* Irr routes the request by the range of the port.
Irr(p) == IF IsDynamic(p) THEN "fptQry" ELSE "lptQry"

RxeAsk ==
    /\ Len(rxe) < 2
    /\ Some("net") /\ Room(Irr(Head(ch["net"]).port)) /\ Room("range")
    /\ LET p == Head(ch["net"]).port
       IN  ch' = Put(Put(Pop(ch, "net"), Irr(p), p), "range", IF IsDynamic(p) THEN "fpt" ELSE "lpt")
    /\ rxe' = Append(rxe, Head(ch["net"]))
    /\ UNCHANGED <<left, app, tac, lai, prt, tables, tim, peer>>

\* The segment whose port state is there, and the session its connection is
\* looked up to; one is made for a SYN, and for a SYN_ACK that comes too late.
Current == Head(rxe)
Answered == rxe # <<>> /\ Some("prtRep")
Owner == {i \in Session : slc.valid[i] /\ slc.port[i] = Current.port}
Target == IF Owner # {} THEN Owner
          ELSE IF Current.kind \in {"SYN", "SYN_ACK"} /\ slc.free # <<>> THEN {Head(slc.free)}
          ELSE {}
LookUp(i) == slc' = IF Owner = {} THEN Entered(i, Current.port) ELSE slc
Acked(i) == Current.num = tst[i]

\* The port is closed, or no session has the connection and none is made for it.
RxeDrop ==
    /\ ~Head(ch["prtRep"]).open \/ Target = {}
    /\ rxe' = Tail(rxe) /\ ch' = Pop(ch, "prtRep")
    /\ UNCHANGED <<left, app, tac, lai, prt, tables, tim, peer>>

\* SYN of a client, also to a session that is still being released.
RxeSyn(i) ==
    /\ Head(ch["prtRep"]).open /\ Current.kind = "SYN"
    /\ rxe' = Tail(rxe) /\ LookUp(i)
    /\ IF stt[i] \in {"CLOSED", "SYN_SENT", "SYN_RECEIVED"}
         THEN LET rt == IF stt[i] = "SYN_RECEIVED" THEN 1 ELSE 0 IN
              /\ Room("rxeEv") /\ ch' = Put(Pop(ch, "prtRep"), "rxeEv", Event("SYN_ACK", i, rt))
              /\ stt' = [stt EXCEPT ![i] = "SYN_RECEIVED"]
         ELSE ch' = Pop(ch, "prtRep") /\ UNCHANGED stt
    /\ UNCHANGED <<left, app, tac, lai, prt, tst, isn, refused, tim, peer>>

\* Any other segment to a session: the new state, and what goes to EVe, TAi and Clt.
RxeStep(kind, i, new, to, timer) ==
    /\ Head(ch["prtRep"]).open /\ Current.kind = kind
    /\ rxe' = Tail(rxe) /\ LookUp(i)
    /\ timer # "none" => Room("rxeCmd")
    /\ to # "none" => Room(to)
    /\ new = "CLOSED" => Room("slcRel")
    /\ LET c1 == Pop(ch, "prtRep")
           c2 == IF timer = "none" THEN c1 ELSE Put(c1, "rxeCmd", Cmd(i, timer))
           c3 == CASE to = "none"  -> c2
                   [] to = "rxeEv" -> Put(c2, to, Event("FIN", i, 0))
                   [] OTHER        -> Put(c2, to, Status(i, new))
       IN  ch' = IF new = "CLOSED" THEN Put(c3, "slcRel", i) ELSE c3
    /\ stt' = [stt EXCEPT ![i] = new]
    /\ UNCHANGED <<left, app, tac, lai, prt, tst, isn, refused, tim, peer>>

\* Mutant of TimerCmd: the timer is stopped by any acknowledgment.
TimerCmdStop(i) == "STOP"

TimerCmd(i) == IF Acked(i) THEN "STOP" ELSE "LOAD"

RxeSynAck(i) ==
    IF stt[i] # "SYN_SENT" THEN RxeStep("SYN_ACK", i, stt[i], "none", TimerCmd(i))
    ELSE IF Acked(i)       THEN RxeStep("SYN_ACK", i, "ESTABLISHED", "actSts", TimerCmd(i))
    ELSE                        RxeStep("SYN_ACK", i, "CLOSED", "none", TimerCmd(i))

\* A RST with another number is out of the window.  Ran keeps the
\* notification of a reset, which has no data, from the application.
RxeRst(i) ==
    IF ~Acked(i)              THEN RxeStep("RST", i, stt[i], "none", "none")
    ELSE IF stt[i] = "SYN_SENT" THEN RxeStep("RST", i, "CLOSED", "actSts", "STOP")
    ELSE                           RxeStep("RST", i, "CLOSED", "none", "STOP")

\* A plain acknowledgment.  That of our FIN leaves FIN_WAIT_1 as it is.  In the states
\* left out RXe answers with a RST, which is not followed.
RxeAck(i) ==
    LET step(new, to) == RxeStep("ACK", i, new, to, TimerCmd(i)) IN
    CASE Acked(i) /\ stt[i] = "SYN_RECEIVED" -> step("ESTABLISHED", "none")
      [] Acked(i) /\ stt[i] = "CLOSING"      -> step("TIME_WAIT", "cltSet")
      [] Acked(i) /\ stt[i] = "LAST_ACK"     -> step("CLOSED", "none")
      [] OTHER                               -> step(stt[i], "none")

InOrder(i) == Current.num[1] = tst[i][1]

RxeFin(i) ==
    LET step(new, to) == RxeStep("FIN", i, new, to, TimerCmd(i)) IN
    CASE InOrder(i) /\ stt[i] = "ESTABLISHED"              -> step("LAST_ACK", "rxeEv")
      [] InOrder(i) /\ stt[i] = "FIN_WAIT_1" /\ Acked(i)   -> step("TIME_WAIT", "cltSet")
      [] InOrder(i) /\ stt[i] = "FIN_WAIT_1" /\ ~Acked(i)  -> step("CLOSING", "none")
      [] OTHER                                             -> step(stt[i], "none")

RXe ==
    \/ RxeAsk
    \/ Answered /\ (RxeDrop \/ \E i \in Target : RxeSyn(i) \/ RxeSynAck(i) \/ RxeRst(i) \/ RxeAck(i) \/ RxeFin(i))

-----------------------------------------------------------------------------
(* TIm.  Rtt and Clt scan their tables and count down; the seconds they count *)
(* are so many scans that a timer may expire at any time, so positions and    *)
(* times are left out.  A command that has been read waits for as long as its *)
(* session is the one last visited, and may then be overtaken by a SET: the   *)
(* outcome is the one of the SET coming first.                                *)

Stopped(e) == [e EXCEPT !.active = FALSE, !.retries = 0]
Loaded(e)  == [e EXCEPT !.retries = 0]

RttCommand ==
    LET c == Head(ch["rxeCmd"]) IN
    /\ Some("rxeCmd") /\ ch' = Pop(ch, "rxeCmd")
    /\ rtt' = [rtt EXCEPT ![c.id] = IF c.cmd = "LOAD" THEN Loaded(@) ELSE Stopped(@)]
    /\ UNCHANGED <<left, app, tac, lai, prt, rxe, tables, clt, peer>>

RttSet ==
    LET c == Head(ch["setCmd"]) IN
    /\ ~Some("rxeCmd") /\ Some("setCmd")
    /\ ch' = Pop(ch, "setCmd")
    /\ rtt' = [rtt EXCEPT ![c.id] = [@ EXCEPT !.type = c.type, !.active = TRUE]]
    /\ UNCHANGED <<left, app, tac, lai, prt, rxe, tables, clt, peer>>

Exhausted(e) == e.retries >= MaxRetries

\* A segment of the session, or the command it leads to, is under way.
Answering(i) ==
    \/ \E c \in {"wire", "net"}, k \in 1..StreamDepth : k <= Len(ch[c]) /\ ch[c][k].port = slc.port[i]
    \/ \E k \in 1..Len(rxe) : rxe[k].port = slc.port[i]
    \/ Holds("rxeCmd", i)

RttExpire(i) ==
    LET e == rtt[i]
        to == IF e.type = "SYN" THEN "timNotif" ELSE "raiNotif"
        off(n) == rtt' = [rtt EXCEPT ![i] = [e EXCEPT !.active = FALSE, !.retries = n]]
    IN
    /\ ~Some("rxeCmd") /\ ~Some("setCmd")
    /\ e.active /\ Room("rttEv")
    /\ IF Answering(i) THEN Spend("spurious") ELSE UNCHANGED left
    /\ IF Exhausted(e)
         THEN /\ Room("rttClose") /\ Room(to) /\ off(0)
              /\ ch' = Put(Put(ch, "rttClose", i), to, Status(i, "CLOSED"))
         ELSE /\ off(e.retries + 1)
              /\ ch' = Put(ch, "rttEv", Event(e.type, i, e.retries + 1))
    /\ UNCHANGED <<app, tac, lai, prt, rxe, tables, clt, peer>>

Rtt == RttCommand \/ RttSet \/ \E i \in Session : RttExpire(i)

CltSet ==
    /\ Some("cltSet") /\ ch' = Pop(ch, "cltSet")
    /\ clt' = clt \cup {Head(ch["cltSet"]).id}
    /\ UNCHANGED <<left, app, tac, lai, prt, rxe, tables, rtt, peer>>

CltExpire ==
    \E i \in clt :
       /\ ~Some("cltSet") /\ Room("cltClose")
       /\ ch' = Put(ch, "cltClose", i) /\ clt' = clt \ {i}
       /\ UNCHANGED <<left, app, tac, lai, prt, rxe, tables, rtt, peer>>

Clt == CltSet \/ CltExpire

-----------------------------------------------------------------------------
App == AppReply \/ AppNotified \/ AppListening
TOE == Tac \/ Lai \/ Lpt \/ Fpt \/ Orm \/ SlcLookup \/ SlcRelease \/ SttClose
       \/ TXe \/ RXe \/ Rtt \/ Clt

Next ==
    \/ App \/ TOE \/ Peer \/ PeerFin \/ AppOpen \/ AppListen \/ Client
    \/ (\E i \in Session : AppClose(i) \/ PeerClose(i)) \/ Lose("wire") \/ Lose("net")

Spec == Init /\ [][Next]_vars

\* Every process is a free-running loop; the application reads its streams; the remote
\* side answers, and sends the FINs it has to send.
FairSpec ==
    /\ Spec
    /\ WF_vars(AppReply) /\ WF_vars(AppNotified) /\ WF_vars(AppListening)
    /\ WF_vars(Tac) /\ WF_vars(Lai) /\ WF_vars(Lpt) /\ WF_vars(Fpt) /\ WF_vars(Orm)
    /\ WF_vars(SlcLookup) /\ WF_vars(SlcRelease) /\ WF_vars(SttClose) /\ WF_vars(TXe)
    /\ WF_vars(RXe) /\ WF_vars(Rtt) /\ WF_vars(Clt) /\ WF_vars(Peer) /\ WF_vars(PeerFin)

-----------------------------------------------------------------------------
\* Streams, tables and positions stay in range; no session is retried more
\* than MaxRetries times in a row.
TypeOK ==
    /\ \A c \in Stream \ {"opnRep"} : Len(ch[c]) <= StreamDepth
    /\ fpt.used \subseteq DynPort /\ fpt.pos \in DynPort /\ lpt \subseteq StaPort
    /\ stt \in [Session -> {"CLOSED", "SYN_SENT", "SYN_RECEIVED", "ESTABLISHED", "FIN_WAIT_1", "CLOSING",
                            "TIME_WAIT", "LAST_ACK"}]
    /\ clt \subseteq Session
    /\ \A i \in Session : rtt[i].retries \in 0..MaxRetries

\* Who holds a dynamic port: Tac and SLc on its way to a connection, a
\* connection, SLc on its way back.  A session made by a late SYN_ACK stays
\* CLOSED and holds nothing.
InRequest(p) == SX!Contains(ch["freeRep"] \o ch["slcReq"], p)
Connected(p) == {i \in Session : slc.valid[i] /\ slc.port[i] = p /\ (stt[i] # "CLOSED" \/ Holds("slcRep", i))}
InRelease(p) == SX!Contains(ch["prtClose"], Swapped(p)) \/ \E i \in Session : slc.valid[i] /\ slc.port[i] = p

\* How many requests and connections hold the port.
Holders(p) == Cardinality(Connected(p)) + (IF InRequest(p) THEN 1 ELSE 0)

\* A dynamic port is in use while one request or one connection holds it, and no
\* longer than that, unless SLc refuses its lookup or releases it under a number that
\* is not its own: no port is lost in any other way.  Two connections never share a
\* local port, and the port of a connection stays open, except for one that is freed
\* by the release of another.  Types and depths hold, too.
PortsConserved ==
    /\ TypeOK
    /\ \A d \in DynPort :
          LET p == StaPorts + d IN
          /\ d \in fpt.used => Holders(p) > 0 \/ InRelease(p) \/ d \in refused \cup fpt.lost
          /\ d \notin fpt.stray => Holders(p) <= 1 /\ (Holders(p) = 1 => d \in fpt.used)

\* Every request to open a connection is answered, as long as there is a free port
\* (Fpt searches a full table for ever) and no connection gets the port of another.
OpenIsAnswered ==
    \/ app.waiting > 0 ~> app.waiting = 0 \/ fpt.used = DynPort
    \/ <>(\E p \in Port : Holders(p) > 1)

Closing == {"FIN_WAIT_1", "CLOSING", "TIME_WAIT", "LAST_ACK"}

\* A connection whose close was begun by either side ends up closed, whatever segments
\* are lost: retries, the close timer or the peer's own FIN end it.  The peer of one
\* whose port was freed by another release is not heard any more.
ClosingEnds ==
    \A i \in Session :
       stt[i] \in Closing ~> stt[i] = "CLOSED" \/ \E d \in fpt.stray : slc.port[i] = StaPorts + d
=============================================================================
