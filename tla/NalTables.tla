------------------------------ MODULE NalTables ------------------------------
(*****************************************************************************)
(* The host sub-system of NAL (hss.cpp): the tables that name connections,   *)
(* and the processes that keep the copies of these names current.            *)
(*   - pTcpAgency keeps a row per TCP session: its id, its triple (remote    *)
(*     address and port, local port), and whether the session is privileged  *)
(*     (of FMC) or to be closed;                                             *)
(*   - axi4liteProcessing copies what FMC writes into the control link;      *)
(*     pMrtAgency answers from the message routing table (MRT), which gives  *)
(*     the address of every node of the cluster;                             *)
(*   - pCacheInvalDetection tells the processes that cache answers of the    *)
(*     two agencies (module NalTcp) when an answer may have changed;         *)
(*   - pPortLogic, with pTcpLsn and pTcpCls, opens the ports of FMC and of   *)
(*     the role, and has the sessions of a role closed that is replaced.     *)
(* Layer 4 is up: the reset branches of the processes are left out, as are   *)
(* the own rank, the saved port lists and the status words of the link.      *)
(*****************************************************************************)
EXTENDS Naturals, Sequences, FiniteSets

CONSTANTS
    MaxSessions,  \* MAX_NAL_SESSIONS
    Ip, NoIp,     \* addresses, and the value 0 of an entry that is not set
    Mrts,         \* the MRTs FMC installs, by version
    StreamDepth   \* depth of the streams

TablesAssumption ==
    /\ MaxSessions \in Nat \ {0} /\ StreamDepth \in Nat \ {0}
    /\ NoIp \notin Ip
    /\ Mrts # <<>> /\ \A v \in DOMAIN Mrts :
           DOMAIN Mrts[v] = DOMAIN Mrts[1] /\ \A r \in DOMAIN Mrts[v] : Mrts[v][r] \in Ip \cup {NoIp}
ASSUME TablesAssumption

VARIABLES
    ch,     \* the streams, by name
    role,   \* layer_7_enabled, role_decoupled
    link,   \* ctrlLink: the MRT and its version, next word FMC writes
    a4l,    \* axi4liteProcessing: its copy of the link, state, version it has announced
    mrt,    \* pMrtAgency: localMRT
    rows,   \* pTcpAgency: the table
    inval,  \* pCacheInvalDetection: state, role_state, mrt_version_current
    prt,    \* pPortLogic: state; has it opened the port of FMC, of the role?
    lsn,    \* pTcpLsn: the port it waits for, or "none"
    cls     \* pTcpCls: state

tables == <<role, link, a4l, mrt, rows, inval, prt, lsn, cls>>

Rank == DOMAIN Mrts[1]
Invalid == 0                \* INVALID_MRT_VALUE; here ranks number from 1
Sid == 0..(MaxSessions - 1)
NoSid == MaxSessions        \* UNUSED_SESSION_ENTRY_VALUE
Row == 1..MaxSessions
Triple == [ip : Ip, rport : {"eph", "lsn"}, lport : {"fmc", "role", "dyn"}]
NoTriple == [ip |-> NoIp, rport |-> "none", lport |-> "none"]  \* UNUSED_TABLE_ENTRY_VALUE

Stream == {"tripleReq", "tripleRep", "sidReq", "sidRep", "addRrh", "addCon", "del", "priv",
           "markDel", "delReq", "delRep", "mrtUpd", "ipReq", "ipRep", "nidReq", "nidRep",
           "version", "invalDel", "inval2", "inval3", "toOpen", "opened", "startCls",
           "lsnReq", "lsnRep", "clsReq",
           "notif", "dreq", "rdpReq", "rxMeta", "rxData", "roleRx", "fmcRx",
           "roleCredit", "fmcCredit", "roleMeta", "roleData", "fmcMeta", "fmcData",
           "wrpSid", "wrpLen", "wrpData", "sndReq", "sndRep", "toeData",
           "conReq", "conRep", "opnReq", "opnRep"}
Put(f, c, m) == [f EXCEPT ![c] = Append(@, m)]
Pop(f, c) == [f EXCEPT ![c] = Tail(@)]
Some(c) == ch[c] # <<>>
Room(c) == Len(ch[c]) < StreamDepth
\* Take the head of a, put m into b.
Pass(a, b, m) == Some(a) /\ Room(b) /\ ch' = Put(Pop(ch, a), b, m)
Min(S) == CHOOSE x \in S : \A y \in S : x <= y

TablesInit ==
    /\ ch = [c \in Stream |-> <<>>]
    /\ role = [l7 |-> TRUE, dec |-> FALSE]
    /\ link = [mrt |-> Mrts[1], ver |-> 1, next |-> 0]
    /\ a4l = [mrt |-> Mrts[1], ver |-> 1, done |-> 1, st |-> "CONFIG", next |-> 1]
    /\ mrt = Mrts[1]
    /\ rows = [i \in Row |-> [sid |-> 0, triple |-> NoTriple, used |-> FALSE, del |-> FALSE, priv |-> FALSE]]
    /\ inval = [st |-> "WAIT_FOR_VALID", dec |-> FALSE, ver |-> 1]
    /\ prt = [st |-> "IDLE", fmc |-> FALSE, role |-> FALSE]
    /\ lsn = "none" /\ cls = "IDLE"

-----------------------------------------------------------------------------
(* The control link and the MRT. *)

\* FMC writes the entries of the next MRT one after the other, then its version.
FmcUpdate ==
    LET new == Mrts[link.ver + 1] IN
    /\ link.next > 0
    /\ link' = IF link.next \in Rank
               THEN [link EXCEPT !.mrt[link.next] = new[link.next], !.next = @ + 1]
               ELSE [link EXCEPT !.ver = @ + 1, !.next = 0]
    /\ UNCHANGED <<ch, role, a4l, mrt, rows, inval, prt, lsn, cls>>

\* A pass over the link.  Passes that find nothing change nothing; the model
\* starts one when there is, or may soon be, something to find.
A4lConfig ==
    /\ a4l.st = "CONFIG" /\ (link.next > 0 \/ a4l.ver # link.ver \/ a4l.mrt # link.mrt)
    /\ a4l' = [a4l EXCEPT !.ver = link.ver, !.st = "MRT"]
    /\ UNCHANGED <<ch, role, link, mrt, rows, inval, prt, lsn, cls>>

A4lMrt ==
    LET r == a4l.next
        changed == link.mrt[r] # a4l.mrt[r]
    IN
    /\ a4l.st = "MRT" /\ (changed => Room("mrtUpd"))
    /\ ch' = IF changed THEN Put(ch, "mrtUpd", <<r, link.mrt[r]>>) ELSE ch
    /\ a4l' = IF r + 1 \in Rank
              THEN [a4l EXCEPT !.mrt[r] = link.mrt[r], !.next = r + 1]
              ELSE [a4l EXCEPT !.mrt[r] = link.mrt[r], !.next = 1, !.st = "FINISH"]
    /\ UNCHANGED <<role, link, mrt, rows, inval, prt, lsn, cls>>

A4lFinish ==
    LET new == a4l.ver # a4l.done IN
    /\ a4l.st = "FINISH" /\ (new => Room("version"))
    /\ ch' = IF new THEN Put(ch, "version", a4l.ver) ELSE ch
    /\ a4l' = [a4l EXCEPT !.done = a4l.ver, !.st = "CONFIG"]
    /\ UNCHANGED <<role, link, mrt, rows, inval, prt, lsn, cls>>

\* The address of a node, NoIp if there is none.
IpOf(table, r) == IF r \in Rank THEN table[r] ELSE NoIp
\* The first node with an address; of NoIp, the first entry that is not set.
NidOf(table, ip) == IF \E r \in Rank : table[r] = ip THEN Min({r \in Rank : table[r] = ip}) ELSE Invalid

MrtUpdate ==
    LET u == Head(ch["mrtUpd"]) IN
    /\ Some("mrtUpd") /\ ch' = Pop(ch, "mrtUpd")
    /\ mrt' = [mrt EXCEPT ![u[1]] = u[2]]
    /\ UNCHANGED <<role, link, a4l, rows, inval, prt, lsn, cls>>

MrtAnswer ==
    /\ ~Some("mrtUpd")
    /\ \/ Pass("ipReq", "ipRep", IpOf(mrt, Head(ch["ipReq"])))
       \/ ~Some("ipReq") /\ Pass("nidReq", "nidRep", NidOf(mrt, Head(ch["nidReq"])))
    /\ UNCHANGED tables

MrtAgency == MrtUpdate \/ MrtAnswer

-----------------------------------------------------------------------------
(* pTcpAgency serves one request per iteration, in this order. *)

Asked == <<Some("tripleReq") /\ Room("tripleRep"), Some("sidReq") /\ Room("sidRep"),
           Some("addRrh") \/ Some("addCon"), Some("del") /\ Room("invalDel"),
           Some("priv"), Some("markDel"), Some("delReq") /\ Room("delRep")>>
Turn(k) == Asked[k] /\ \A j \in 1..(k - 1) : ~Asked[j]

Visible(i) == rows[i].used /\ ~rows[i].del
\* The first row of a set, if there is one.
FirstOr(S, f(_), none) == IF S = {} THEN none ELSE f(Min(S))
TripleOf(s) == FirstOr({i \in Row : Visible(i) /\ rows[i].sid = s}, LAMBDA i : rows[i].triple, NoTriple)
SidOf(t) == FirstOr({i \in Row : Visible(i) /\ rows[i].triple = t}, LAMBDA i : rows[i].sid, NoSid)

GetTriple ==
    /\ Turn(1) /\ Pass("tripleReq", "tripleRep", TripleOf(Head(ch["tripleReq"])))
    /\ UNCHANGED tables

GetSid ==
    /\ Turn(2) /\ Pass("sidReq", "sidRep", SidOf(Head(ch["sidReq"])))
    /\ UNCHANGED tables

\* A session that is known, or for which there is no row, is not entered.  The
\* mark of an earlier owner of the row stays.
Entered(e) ==
    LET free == {i \in Row : ~rows[i].used} IN
    IF (\E i \in Row : Visible(i) /\ rows[i].sid = e.sid) \/ free = {} THEN rows
    ELSE [rows EXCEPT ![Min(free)] = [@ EXCEPT !.sid = e.sid, !.triple = e.triple, !.used = TRUE, !.priv = FALSE]]

AddNewTriple ==
    LET c == IF Some("addRrh") THEN "addRrh" ELSE "addCon" IN
    /\ Turn(3) /\ ch' = Pop(ch, c)
    /\ rows' = Entered(Head(ch[c]))
    /\ UNCHANGED <<role, link, a4l, mrt, inval, prt, lsn, cls>>

RowsOf(s) == {i \in Row : rows[i].used /\ rows[i].sid = s}

DeleteEntryBySid ==
    LET S == RowsOf(Head(ch["del"])) IN
    /\ Turn(4)
    /\ IF S = {} THEN ch' = Pop(ch, "del") /\ rows' = rows
       ELSE /\ ch' = Put(Pop(ch, "del"), "invalDel", TRUE)
            /\ rows' = [rows EXCEPT ![Min(S)].used = FALSE, ![Min(S)].priv = FALSE]
    /\ UNCHANGED <<role, link, a4l, mrt, inval, prt, lsn, cls>>

MarkAsPriv ==
    LET S == RowsOf(Head(ch["priv"])) IN
    /\ Turn(5) /\ ch' = Pop(ch, "priv")
    /\ rows' = IF S = {} THEN rows ELSE [rows EXCEPT ![Min(S)].priv = TRUE, ![Min(S)].del = FALSE]
    /\ UNCHANGED <<role, link, a4l, mrt, inval, prt, lsn, cls>>

\* Mutant of Marked: the sessions of FMC are marked, too.
MarkedAll == [i \in Row |-> [rows[i] EXCEPT !.del = rows[i].used]]
Marked == [i \in Row |-> IF rows[i].priv THEN rows[i] ELSE [rows[i] EXCEPT !.del = rows[i].used]]

MarkToDel ==
    /\ Turn(6) /\ ch' = Pop(ch, "markDel") /\ rows' = Marked
    /\ UNCHANGED <<role, link, a4l, mrt, inval, prt, lsn, cls>>

GetNextDelRow ==
    LET S == {i \in Row : rows[i].del} IN
    /\ Turn(7)
    /\ ch' = Put(Pop(ch, "delReq"), "delRep", FirstOr(S, LAMBDA i : rows[i].sid, NoSid))
    /\ rows' = IF S = {} THEN rows ELSE [rows EXCEPT ![Min(S)].used = FALSE, ![Min(S)].del = FALSE]
    /\ UNCHANGED <<role, link, a4l, mrt, inval, prt, lsn, cls>>

TcpAgency ==
    \/ GetTriple \/ GetSid \/ AddNewTriple \/ DeleteEntryBySid \/ MarkAsPriv \/ MarkToDel \/ GetNextDelRow

-----------------------------------------------------------------------------
(* pCacheInvalDetection.  The UDP processes take their signals (0 and 1) at  *)
(* once; those of pTcpRDp (2) and pTcpWRp (3) wait in streams.               *)

RoleChanged == role.dec # inval.dec \/ ~role.l7

InvalStart ==
    /\ inval.st = "WAIT_FOR_VALID"
    /\ inval' = [inval EXCEPT !.st = "VALID", !.dec = role.dec]
    /\ UNCHANGED ch

\* A role that leaves is noted, one that arrives makes all caches invalid.
InvalRole ==
    /\ inval.st = "VALID" /\ RoleChanged
    /\ inval' = IF role.dec THEN [inval EXCEPT !.dec = TRUE] ELSE [inval EXCEPT !.st = "INV_SEND_0"]
    /\ UNCHANGED ch

InvalVersion ==
    LET v == Head(ch["version"]) IN
    /\ inval.st = "VALID" /\ ~RoleChanged /\ Some("version") /\ ch' = Pop(ch, "version")
    /\ inval' = IF v # inval.ver THEN [inval EXCEPT !.ver = v, !.st = "INV_SEND_0"] ELSE inval

InvalDelete ==
    /\ inval.st = "VALID" /\ ~RoleChanged /\ ~Some("version") /\ Some("invalDel")
    /\ ch' = Pop(ch, "invalDel")
    /\ inval' = [inval EXCEPT !.st = "INV_SEND_2"]

InvalSend ==
    \/ /\ inval.st = "INV_SEND_0"
       /\ inval' = [inval EXCEPT !.st = "INV_SEND_2"] /\ UNCHANGED ch
    \/ /\ inval.st = "INV_SEND_2" /\ Room("inval2") /\ ch' = Put(ch, "inval2", TRUE)
       /\ inval' = [inval EXCEPT !.st = "INV_SEND_3"]
    \/ /\ inval.st = "INV_SEND_3" /\ Room("inval3") /\ ch' = Put(ch, "inval3", TRUE)
       /\ inval' = [inval EXCEPT !.st = "WAIT_FOR_VALID"]

CacheInval ==
    /\ InvalStart \/ InvalRole \/ InvalVersion \/ InvalDelete \/ InvalSend
    /\ UNCHANGED <<role, link, a4l, mrt, rows, prt, lsn, cls>>

-----------------------------------------------------------------------------
(* pPortLogic for one TCP port of the role; what it tells the status memory  *)
(* (PORT_SEND_UPDATE) is left out.                                           *)

RoleOff == ~role.l7 \/ role.dec
PrtGo(st) == prt' = [prt EXCEPT !.st = st]

PrtIdle ==
    /\ prt.st = "IDLE" /\ UNCHANGED ch
    /\ IF ~prt.fmc THEN PrtGo("NEW_FMC_REQ")
       ELSE IF RoleOff THEN PrtGo("L7_RESET")
       ELSE ~prt.role /\ PrtGo("NEW_TCP_REQ")

PrtReset ==
    /\ prt.st = "L7_RESET" /\ UNCHANGED ch
    /\ PrtGo(IF prt.role THEN "START_TCP_CLS_1" ELSE "IDLE")

PrtRequest ==
    \/ prt.st = "NEW_FMC_REQ" /\ Room("toOpen") /\ ch' = Put(ch, "toOpen", "fmc") /\ PrtGo("NEW_FMC_REP")
    \/ prt.st = "NEW_TCP_REQ" /\ Room("toOpen") /\ ch' = Put(ch, "toOpen", "role") /\ PrtGo("NEW_TCP_REP")

PrtReply ==
    /\ Some("opened") /\ ch' = Pop(ch, "opened")
    /\ \/ prt.st = "NEW_FMC_REP" /\ prt' = [prt EXCEPT !.st = "IDLE", !.fmc = Head(ch["opened"])]
       \/ prt.st = "NEW_TCP_REP" /\ prt' = [prt EXCEPT !.st = "IDLE", !.role = Head(ch["opened"])]

\* The sessions of the role are marked at once, and closed when the
\* reconfiguration has ended.
PrtMark ==
    /\ prt.st = "START_TCP_CLS_1" /\ Room("markDel") /\ ch' = Put(ch, "markDel", TRUE)
    /\ PrtGo(IF role.dec THEN "WAIT_PR" ELSE "START_TCP_CLS_2")

PrtWaitPr == prt.st = "WAIT_PR" /\ ~role.dec /\ PrtGo("START_TCP_CLS_2") /\ UNCHANGED ch

PrtClose ==
    /\ prt.st = "START_TCP_CLS_2" /\ Room("startCls") /\ ch' = Put(ch, "startCls", TRUE)
    /\ prt' = [prt EXCEPT !.st = "IDLE", !.role = FALSE]

PortLogic ==
    /\ PrtIdle \/ PrtReset \/ PrtRequest \/ PrtReply \/ PrtMark \/ PrtWaitPr \/ PrtClose
    /\ UNCHANGED <<role, link, a4l, mrt, rows, inval, lsn, cls>>

\* pTcpLsn.  Its watchdog answers for TOE if that takes too long.
LsnRequest ==
    /\ lsn = "none" /\ Some("toOpen") /\ Room("lsnReq")
    /\ ch' = Put(Pop(ch, "toOpen"), "lsnReq", Head(ch["toOpen"]))
    /\ lsn' = Head(ch["toOpen"])
LsnReply == lsn # "none" /\ Pass("lsnRep", "opened", Head(ch["lsnRep"])) /\ lsn' = "none"
LsnTimeout ==
    /\ lsn # "none" /\ ~Some("lsnRep") /\ Room("opened")
    /\ ch' = Put(ch, "opened", FALSE) /\ lsn' = "none"
    /\ UNCHANGED <<role, link, a4l, mrt, rows, inval, prt, cls>>

TcpLsn == (LsnRequest \/ LsnReply) /\ UNCHANGED <<role, link, a4l, mrt, rows, inval, prt, cls>>

\* pTcpCls has TOE close the marked sessions until there is none.
TcpCls ==
    /\ \/ /\ cls = "IDLE" /\ Some("startCls") /\ ch' = Pop(ch, "startCls") /\ cls' = "NEXT"
       \/ /\ cls = "NEXT" /\ Room("delReq") /\ ch' = Put(ch, "delReq", TRUE) /\ cls' = "WAIT4RESP"
       \/ /\ cls = "WAIT4RESP" /\ Some("delRep") /\ Head(ch["delRep"]) # NoSid
          /\ Pass("delRep", "clsReq", Head(ch["delRep"])) /\ cls' = "NEXT"
       \/ /\ cls = "WAIT4RESP" /\ Some("delRep") /\ Room("clsReq") /\ Head(ch["delRep"]) = NoSid
          /\ ch' = Pop(ch, "delRep") /\ cls' = "IDLE"
    /\ UNCHANGED <<role, link, a4l, mrt, rows, inval, prt, lsn>>

A4l == A4lConfig \/ A4lMrt \/ A4lFinish
Tables == FmcUpdate \/ A4l \/ MrtAgency \/ TcpAgency \/ CacheInval \/ PortLogic \/ TcpLsn \/ TcpCls
=============================================================================
