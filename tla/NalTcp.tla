-------------------------------- MODULE NalTcp --------------------------------
(*****************************************************************************)
(* The TCP sub-system of NAL (tss.cpp) between TOE and the role or FMC:      *)
(* pTcpRRh asks TOE for the data it is notified of, no more than the FIFO to *)
(* the role or FMC has room for; pTcpRDp finds out whose data they are, and  *)
(* forwards or drops them; pRoleTcpRxDeq and pFmcTcpRxDeq give the room back;*)
(* pTcpWRp finds the session a message is to be sent on, has pTcpCOn open    *)
(* one if there is none, and pTcpWBu asks TOE for room for it.  Both paths   *)
(* cache what the agencies of module NalTables tell them.                    *)
(*                                                                           *)
(* The local port "role" stands for the listening port of the role, "dyn"    *)
(* for a dynamic one; the remote port is that of a server or of a client.    *)
(* Received packets are moved as a whole, messages to be sent word by word;  *)
(* a word counts 1.                                                          *)
(*****************************************************************************)
EXTENDS NalTables

CONSTANTS
    CfrmIp,     \* piMMIO_CfrmIp4Addr: the host that may talk to FMC
    Free,       \* NAL_MAX_FIFO_DEPTHS_BYTES
    Split,      \* NAL_STREAMING_SPLIT_TCP
    NotifLen,   \* length of what a notification announces
    Works       \* the workloads: connections, data, messages (each of so many words) and
                \* events of a run

TcpAssumption ==
    /\ CfrmIp \in Ip
    /\ {Free, Split, NotifLen} \subseteq Nat \ {0}
ASSUME TcpAssumption

VARIABLES
    left,  \* what is left of the workload
    toe,   \* TOE: sessions, ports it listens on, sends it has accepted
    rrh, rdp, wrp, wbu, con,   \* pTcpRRh, pTcpRDp, pTcpWRp, pTcpWBu, pTcpCOn
    mixed  \* history: what has been attributed to the wrong connection ("rx", "tx"),
           \* and whether a length was told that has no session id ("cut")

tcp == <<rrh, rdp, wrp, wbu, con>>
vars == <<ch, tables, left, toe, tcp, mixed>>

Dst == {"fmc", "role"}
NoCache == [on |-> FALSE, sid |-> NoSid, triple |-> NoTriple, rank |-> Invalid, ip |-> NoIp]
Free0 == [d \in Dst |-> Free]
NoMsg == [rank |-> Invalid, rport |-> "none", len |-> 0]

Init ==
    /\ TablesInit
    /\ left \in Works
    /\ toe = [sess |-> [s \in Sid |-> [st |-> "FREE", triple |-> NoTriple, avail |-> 0, old |-> FALSE]],
              listen |-> {}, granted |-> <<>>]
    /\ rrh = [st |-> "WAIT_NOTIF", msg |-> <<>>, cam |-> <<>>, waiting |-> <<>>, again |-> <<>>,
              free |-> Free0, back |-> FALSE, id |-> NoSid, dst |-> "role", upd |-> FALSE, req |-> 0, rest |-> 0]
    /\ rdp = [st |-> "WAIT_META", id |-> NoSid, triple |-> NoTriple, rank |-> Invalid, cache |-> NoCache]
    /\ wrp = [st |-> "WAIT_META", msg |-> NoMsg, ip |-> NoIp, triple |-> NoTriple, sid |-> NoSid,
              cur |-> 0, stream |-> FALSE, cache |-> NoCache]
    /\ wbu = [st |-> "WAIT_META", sid |-> NoSid, req |-> 0, cnt |-> 0, ok |-> 0, again |-> FALSE]
    /\ con = <<>>
    /\ mixed = {}

RoleQuiet ==
    LET mine(c) == \E k \in DOMAIN ch[c] : ch[c][k].triple.lport # "fmc" IN
    /\ \A k \in DOMAIN rrh.waiting : rrh.waiting[k].dst = "fmc"
    /\ \A k \in DOMAIN rrh.again : rrh.again[k].dst = "fmc"
    /\ rrh.st \in {"START", "PROCESS_REQ", "WAIT"} => rrh.dst = "fmc"
    /\ rrh.st = "PROCESS_NOTIF" => rrh.msg.triple.lport = "fmc"
    /\ ~mine("notif") /\ ~mine("rxMeta") /\ ~mine("rxData") /\ ~Some("roleRx") /\ ~Some("roleCredit")
    /\ \A c \in {"dreq", "rdpReq"} : \A k \in DOMAIN ch[c] : toe.sess[ch[c][k].sid].triple.lport = "fmc"
    /\ wrp.st = "WAIT_META" /\ con = <<>> /\ wbu.st = "WAIT_META"
    /\ ~Some("roleMeta") /\ ~Some("roleData") /\ ~Some("wrpSid") /\ ~Some("addCon")

-----------------------------------------------------------------------------
(* TOE, the peers, the role and FMC. *)

Live(s) == toe.sess[s].st = "UP"
Spend(k) == left[k] > 0 /\ left' = [left EXCEPT ![k] = @ - 1]
World == UNCHANGED <<tables, tcp, mixed>>
\* What is forwarded under the first name belongs to the second.
Claim(way, a, b) == mixed' = IF a # b THEN mixed \cup {way} ELSE mixed

\* The network is slower than NAL: an id is given to a new connection only
\* after NAL has forgotten the old one; only the last step, two processes that
\* take the signal that their caches are invalid, may still be open.
Forgotten(s) ==
    /\ RowsOf(s) = {} /\ ~Some("del") /\ ~Some("invalDel") /\ inval.st \in {"WAIT_FOR_VALID", "VALID"}
    /\ inval.dec = role.dec
    /\ \A k \in DOMAIN ch["notif"] : ch["notif"][k].sid # s
    /\ \A k \in DOMAIN ch["wrpSid"] : ch["wrpSid"][k] # s
    /\ \A k \in DOMAIN ch["sidRep"] : ch["sidRep"][k] # s
    /\ wrp.st # "WAIT_META" => wrp.sid # s
    /\ wbu.st # "WAIT_META" => wbu.sid # s
    /\ ~\E c \in {"sndReq", "sndRep", "toeData"} : Some(c)
Unused == {s \in Sid : toe.sess[s].st = "FREE" /\ Forgotten(s)}
Session(t) == [st |-> "UP", triple |-> t, avail |-> 0, old |-> FALSE]

PeerConnect(t) ==
    /\ t \in left.conns /\ t.lport \in toe.listen /\ ~RoleOff /\ Unused # {}
    /\ left' = [left EXCEPT !.conns = @ \ {t}]
    /\ toe' = [toe EXCEPT !.sess[Min(Unused)] = Session(t)]
    /\ UNCHANGED ch /\ World

\* Nodes of the cluster send while the MRT is not being rewritten, and stop
\* when the role they talk to is replaced.  A round trip passes before the
\* server of a new connection sends.
PeerSend(s) ==
    LET t == toe.sess[s].triple IN
    /\ Live(s) /\ ~toe.sess[s].old /\ Room("notif") /\ Spend("data")
    /\ t.lport # "fmc" => ~RoleOff /\ link.next = 0 /\ mrt = link.mrt
    /\ ~Some("opnRep") /\ ~Some("addCon")
    /\ ch' = Put(ch, "notif", [sid |-> s, triple |-> IF t.rport = "lsn" THEN [t EXCEPT !.lport = "dyn"] ELSE t,
                               len |-> NotifLen])
    /\ toe' = [toe EXCEPT !.sess[s].avail = @ + NotifLen]
    /\ World

\* TOE gives a session up, after its data have been delivered.
ToeAbort(s) ==
    /\ Live(s) /\ toe.sess[s].avail = 0 /\ Room("notif") /\ Spend("aborts")
    /\ ~Some("rdpReq") /\ rdp.st = "WAIT_META"
    /\ ~Some("opnRep") /\ ~Some("addCon")
    /\ ch' = Put(ch, "notif", [sid |-> s, triple |-> toe.sess[s].triple, len |-> 0])
    /\ toe' = [toe EXCEPT !.sess[s].st = "FREE"]
    /\ World

ToeClose ==
    LET s == Head(ch["clsReq"]) IN
    /\ Some("clsReq") /\ ch' = Pop(ch, "clsReq")
    /\ toe' = [toe EXCEPT !.sess[s].st = "FREE"]
    /\ UNCHANGED left /\ World

ToeListen ==
    /\ Pass("lsnReq", "lsnRep", TRUE)
    /\ toe' = [toe EXCEPT !.listen = @ \cup {Head(ch["lsnReq"])}]
    /\ UNCHANGED left /\ World

\* A request for no data is answered by the id alone.
ToeRead ==
    LET r == Head(ch["dreq"])
        d == [sid |-> r.sid, triple |-> toe.sess[r.sid].triple, len |-> r.len]
    IN
    /\ Some("dreq") /\ Room("rxMeta") /\ Room("rxData")
    /\ ch' = IF r.len > 0 THEN Put(Put(Pop(ch, "dreq"), "rxMeta", d), "rxData", d)
             ELSE Put(Pop(ch, "dreq"), "rxMeta", d)
    /\ toe' = [toe EXCEPT !.sess[r.sid].avail = @ - r.len]
    /\ UNCHANGED left /\ World

\* Servers accept, unless the port is that of a client.
ToeOpen ==
    LET t == Head(ch["opnReq"])
        ok == t.rport = "lsn" /\ Unused # {}
    IN
    /\ Pass("opnReq", "opnRep", [ok |-> ok, sid |-> IF ok THEN Min(Unused) ELSE NoSid])
    /\ toe' = IF ok THEN [toe EXCEPT !.sess[Min(Unused)] = Session(t)] ELSE toe
    /\ UNCHANGED left /\ World

SndReply(e, n) == [error |-> e, space |-> n]
ToeSend ==
    LET r == Head(ch["sndReq"]) IN
    /\ Some("sndReq")
    /\ \/ /\ Live(r.sid) /\ Pass("sndReq", "sndRep", SndReply("NO_ERROR", r.len))
          /\ toe' = [toe EXCEPT !.granted = Append(@, [sid |-> r.sid, len |-> r.len])]
          /\ UNCHANGED left
       \/ /\ Live(r.sid) /\ Spend("full") /\ Pass("sndReq", "sndRep", SndReply("NO_SPACE", 1))
          /\ UNCHANGED toe
       \/ /\ ~Live(r.sid) /\ Pass("sndReq", "sndRep", SndReply("NO_CONNECTION", 0))
          /\ UNCHANGED <<toe, left>>
    /\ World

\* TOE takes the words of the sends it has accepted, in their order.
ToeTake ==
    LET g == Head(toe.granted) IN
    /\ Some("toeData") /\ toe.granted # <<>>
    /\ ch' = Pop(ch, "toeData")
    /\ toe' = [toe EXCEPT !.granted = IF g.len = 1 THEN Tail(@) ELSE <<[g EXCEPT !.len = @ - 1]>> \o Tail(@)]
    /\ Claim("tx", Head(ch["toeData"]).triple, toe.sess[g.sid].triple)
    /\ UNCHANGED <<left, tables, tcp>>

Words(m) == [k \in 1..left.words |-> [rank |-> m.rank, last |-> k = left.words]]

\* The role sends a message to a node; its length may be left open (0).
RoleSend(m) ==
    /\ m \in left.msgs /\ ~RoleOff /\ prt.role /\ ch["roleData"] = <<>> /\ Room("roleMeta")
    /\ link.next = 0 /\ mrt = link.mrt
    /\ left' = [left EXCEPT !.msgs = @ \ {m}]
    /\ ch' = [Put(ch, "roleMeta", m) EXCEPT !["roleData"] = Words(m)]
    /\ UNCHANGED toe /\ World

\* FMC answers on the session it was called on.
FmcTake ==
    /\ Some("fmcRx") /\ Room("fmcCredit")
    /\ LET p == Head(ch["fmcRx"])
           done == Put(Pop(ch, "fmcRx"), "fmcCredit", p.len)
       IN \/ ch' = done /\ UNCHANGED left
          \/ /\ Room("fmcMeta") /\ ch["fmcData"] = <<>> /\ Spend("replies")
             /\ ch' = [Put(done, "fmcMeta", p) EXCEPT !["fmcData"] = Words(NoMsg)]
    /\ UNCHANGED toe /\ World

\* pRoleTcpRxDeq; a role that is not there is bypassed.
RoleTake ==
    /\ Pass("roleRx", "roleCredit", Head(ch["roleRx"]).len)
    /\ UNCHANGED <<left, toe>> /\ World

\* A role is replaced, or reset, when its traffic is quiet, and for longer
\* than pPortLogic and pCacheInvalDetection need to see it.
RoleLeaves(k, r) ==
    /\ role = [l7 |-> TRUE, dec |-> FALSE] /\ prt.st = "IDLE" /\ prt.role /\ RoleQuiet /\ Spend(k)
    /\ role' = r
    /\ toe' = [toe EXCEPT !.sess = [s \in Sid |-> [@[s] EXCEPT !.old = toe.sess[s].triple.lport # "fmc"]]]
    /\ UNCHANGED <<ch, link, a4l, mrt, rows, inval, prt, lsn, cls, tcp, mixed>>

PrStart == RoleLeaves("prs", [l7 |-> TRUE, dec |-> TRUE])
ResetStart == RoleLeaves("resets", [l7 |-> FALSE, dec |-> FALSE])

RoleArrives ==
    /\ RoleOff /\ ~Some("markDel")
    /\ IF role.dec THEN prt.st = "WAIT_PR" /\ inval.dec
       ELSE ~prt.role /\ cls = "IDLE" /\ ~Some("startCls") /\ inval.st \in {"INV_SEND_0", "INV_SEND_2", "INV_SEND_3"}
    /\ role' = [l7 |-> TRUE, dec |-> FALSE]
    /\ UNCHANGED <<ch, link, a4l, mrt, rows, inval, prt, lsn, cls, left, toe, tcp, mixed>>

\* A node is given another place while the role is quiet.
NewMrt ==
    /\ link.next = 0 /\ link.ver < Len(Mrts) /\ RoleQuiet /\ Spend("mrts")
    /\ link' = [link EXCEPT !.next = Min(Rank)]
    /\ UNCHANGED <<ch, role, a4l, mrt, rows, inval, prt, lsn, cls, toe, tcp, mixed>>

LsnLate == LsnTimeout /\ Spend("timeouts") /\ UNCHANGED <<toe, tcp, mixed>>

-----------------------------------------------------------------------------
(* pTcpRRh.  cam is the Cam8: what is known to wait in TOE, by session.      *)

RrhIdle == [rrh EXCEPT !.msg = <<>>, !.id = NoSid, !.dst = "role", !.upd = FALSE, !.req = 0, !.rest = 0]
RRh(st) == rrh.st = st /\ UNCHANGED <<tables, left, toe, rdp, wrp, wbu, con, mixed>>
NotifReady == Some("notif") /\ Room("del")
Back == IF rrh.back THEN "WAIT" ELSE "WAIT_NOTIF"

\* A notification without data: the session is closed.
RrhClosed ==
    LET n == Head(ch["notif"]) IN
    /\ RRh("WAIT_NOTIF") /\ NotifReady /\ n.len = 0
    /\ Pass("notif", "del", n.sid)
    /\ rrh' = [rrh EXCEPT !.st = Back]

RrhNotified ==
    LET n == Head(ch["notif"]) IN
    /\ RRh("WAIT_NOTIF") /\ NotifReady /\ n.len > 0
    /\ ch' = Pop(ch, "notif")
    /\ rrh' = [rrh EXCEPT !.st = "PROCESS_NOTIF", !.msg = n]

RrhReinsert ==
    /\ RRh("WAIT_NOTIF") /\ ~NotifReady /\ rrh.again # <<>> /\ ~rrh.back
    /\ rrh' = [rrh EXCEPT !.st = "START", !.waiting = Append(@, Head(rrh.again)), !.again = Tail(@)]
    /\ UNCHANGED ch

RrhPending ==
    /\ RRh("WAIT_NOTIF") /\ ~NotifReady /\ rrh.again = <<>> /\ rrh.waiting # <<>> /\ ~rrh.back
    /\ rrh' = [rrh EXCEPT !.st = "START"]
    /\ UNCHANGED ch

With(cam, s, n) == [i \in DOMAIN cam \cup {s} |-> IF i = s THEN n ELSE cam[i]]
\* Mutant of Without: the entry is not deleted.
WithoutNone(cam, s) == cam
Without(cam, s) == [i \in DOMAIN cam \ {s} |-> cam[i]]

RrhProcess ==
    LET n == rrh.msg
        known == n.sid \in DOMAIN rrh.cam
        mgmt == n.triple.ip = CfrmIp /\ n.triple.lport = "fmc"
        next == IF rrh.back THEN "WAIT" ELSE "START"
        entry == Put(ch, "addRrh", [sid |-> n.sid, triple |-> n.triple])
    IN
    /\ RRh("PROCESS_NOTIF") /\ Room("addRrh") /\ Room("priv")
    /\ IF known
       THEN rrh' = [rrh EXCEPT !.st = next, !.msg = <<>>, !.cam[n.sid] = @ + n.len] /\ UNCHANGED ch
       ELSE /\ rrh' = [rrh EXCEPT !.st = next, !.msg = <<>>, !.cam = With(@, n.sid, n.len),
                                  !.waiting = Append(@, [sid |-> n.sid, dst |-> IF mgmt THEN "fmc" ELSE "role"])]
            /\ ch' = IF mgmt THEN Put(entry, "priv", n.sid) ELSE entry

RrhStart ==
    LET w == Head(rrh.waiting)
        found == rrh.cam[w.sid]
        room == rrh.free[w.dst]
    IN
    /\ RRh("START") /\ rrh.waiting # <<>>
    /\ rrh' = [rrh EXCEPT !.st = "PROCESS_REQ", !.waiting = Tail(@), !.id = w.sid, !.dst = w.dst,
                          !.upd = found >= room,
                          !.req = IF found >= room THEN room ELSE found,
                          !.rest = IF found >= room THEN found - room ELSE 0]
    /\ UNCHANGED ch

Request == [sid |-> rrh.id, len |-> rrh.req]

\* The agency serves a request in each cycle: it has entered the session when
\* its data are asked for, two states later.
RrhRequest ==
    /\ RRh("PROCESS_REQ") /\ Room("dreq") /\ Room("rdpReq") /\ ~Some("addRrh") /\ ~Some("priv")
    /\ ch' = Put(Put(ch, "dreq", Request), "rdpReq", Request)
    /\ rrh' = LET r == [RrhIdle EXCEPT !.st = "WAIT", !.back = FALSE, !.dst = rrh.dst] IN
              IF rrh.upd
              THEN [r EXCEPT !.cam[rrh.id] = rrh.rest, !.again = Append(@, [sid |-> rrh.id, dst |-> rrh.dst]),
                             !.free[rrh.dst] = 0]
              ELSE [r EXCEPT !.cam = Without(@, rrh.id), !.free[rrh.dst] = @ - rrh.req]

Credit == IF rrh.dst = "fmc" THEN "fmcCredit" ELSE "roleCredit"
Capped(n) == IF n > Free THEN Free ELSE n

\* RRH_WAIT_FMC and RRH_WAIT_ROLE: until room is given back no other request.
RrhCredit ==
    /\ RRh("WAIT") /\ Some(Credit) /\ ch' = Pop(ch, Credit)
    /\ rrh' = [RrhIdle EXCEPT !.st = "WAIT_NOTIF", !.back = FALSE, !.free[rrh.dst] = Capped(@ + Head(ch[Credit]))]

RrhLook ==
    /\ RRh("WAIT") /\ ~Some(Credit) /\ Some("notif")
    /\ rrh' = [rrh EXCEPT !.st = "WAIT_NOTIF", !.back = TRUE]
    /\ UNCHANGED ch

TcpRRh == RrhClosed \/ RrhNotified \/ RrhReinsert \/ RrhPending \/ RrhProcess \/ RrhStart \/ RrhRequest
          \/ RrhCredit \/ RrhLook

-----------------------------------------------------------------------------
(* pTcpRDp. *)

RDp(st) == rdp.st = st /\ UNCHANGED <<tables, left, toe, rrh, wrp, wbu, con>>
\* What is not read any more is not kept.
RdpIdle(cache) == [st |-> "WAIT_META", id |-> NoSid, triple |-> NoTriple, rank |-> Invalid, cache |-> cache]

\* Mutant of Cleared: the signal is taken, the cache stays.
ClearedKept(cache) == cache
Cleared(cache) == NoCache
\* Mutant of Hit: the id is not compared.
HitAny(cache, s) == cache.on
Hit(cache, s) == cache.on /\ cache.sid = s

RdpInval ==
    /\ RDp("WAIT_META") /\ Some("inval2") /\ ch' = Pop(ch, "inval2")
    /\ rdp' = [rdp EXCEPT !.cache = Cleared(@)]
    /\ UNCHANGED mixed

RdpTake ==
    LET s == Head(ch["rdpReq"]).sid
        c == rdp.cache
    IN
    /\ RDp("WAIT_META") /\ ~Some("inval2") /\ Some("rdpReq") /\ Room("tripleReq")
    /\ IF Hit(c, s)
       THEN /\ ch' = Pop(ch, "rdpReq")
            /\ rdp' = [rdp EXCEPT !.st = "FILTER_META", !.id = s, !.triple = c.triple, !.rank = c.rank]
       ELSE /\ ch' = Put(Pop(ch, "rdpReq"), "tripleReq", s)
            /\ rdp' = [rdp EXCEPT !.st = "W8FORREQS_1", !.id = s, !.cache.on = FALSE]
    /\ UNCHANGED mixed

Cached(t, r) == [on |-> TRUE, sid |-> rdp.id, triple |-> t, rank |-> r, ip |-> NoIp]

\* The port of FMC needs no node; the rank of an earlier packet stays.
RdpTriple ==
    LET t == Head(ch["tripleRep"]) IN
    /\ RDp("W8FORREQS_1") /\ Some("tripleRep") /\ Room("nidReq")
    /\ IF t.lport # "fmc"
       THEN /\ ch' = Put(Pop(ch, "tripleRep"), "nidReq", t.ip)
            /\ rdp' = [rdp EXCEPT !.st = "W8FORREQS_2", !.triple = t]
       ELSE /\ ch' = Pop(ch, "tripleRep")
            /\ rdp' = [rdp EXCEPT !.st = "FILTER_META", !.triple = t, !.cache = Cached(t, Invalid)]
    /\ UNCHANGED mixed

RdpNid ==
    LET r == Head(ch["nidRep"]) IN
    /\ RDp("W8FORREQS_2") /\ Some("nidRep") /\ ch' = Pop(ch, "nidRep")
    /\ rdp' = [rdp EXCEPT !.st = "FILTER_META", !.rank = r, !.cache = Cached(rdp.triple, r)]
    /\ UNCHANGED mixed

\* Data for FMC are taken from the CFRM only, data for the role from nodes of
\* the cluster.  What is dropped gives no room back.
Verdict(id) ==
    IF id # rdp.id THEN "DROP_PACKET"
    ELSE IF rdp.triple.lport = "fmc"
    THEN IF rdp.triple.ip = CfrmIp THEN "STREAM_FMC" ELSE "DROP_PACKET"
    ELSE IF rdp.rank = Invalid \/ RoleOff THEN "DROP_PACKET" ELSE "STREAM_ROLE"

RdpFilter ==
    LET v == Verdict(Head(ch["rxMeta"]).sid) IN
    /\ RDp("FILTER_META") /\ Some("rxMeta") /\ ch' = Pop(ch, "rxMeta")
    /\ rdp' = [rdp EXCEPT !.st = v, !.cache.on = @ /\ v # "DROP_PACKET"]
    /\ UNCHANGED mixed

\* No change of the MRT is on its way to the caches.
MrtSettled ==
    /\ link.next = 0 /\ a4l.done = link.ver /\ inval.ver = link.ver /\ mrt = link.mrt
    /\ inval.st = "VALID" /\ ~Some("inval2") /\ ~Some("inval3")

RdpStream ==
    LET p == Head(ch["rxData"])
        claim == [rdp.triple EXCEPT !.ip = IpOf(mrt, rdp.rank)]
    IN
    \/ /\ RDp("STREAM_ROLE") /\ Pass("rxData", "roleRx", [sid |-> rdp.id, len |-> p.len])
       /\ rdp' = RdpIdle(rdp.cache)
       /\ IF MrtSettled THEN Claim("rx", claim, p.triple) ELSE UNCHANGED mixed
    \/ /\ RDp("STREAM_FMC") /\ Pass("rxData", "fmcRx", [sid |-> rdp.id, len |-> p.len])
       /\ rdp' = RdpIdle(rdp.cache)
       /\ Claim("rx", rdp.triple, p.triple)

RdpDrop ==
    /\ RDp("DROP_PACKET") /\ Some("rxData") /\ ch' = Pop(ch, "rxData")
    /\ rdp' = RdpIdle([rdp.cache EXCEPT !.on = FALSE])
    /\ UNCHANGED mixed

TcpRDp == RdpInval \/ RdpTake \/ RdpTriple \/ RdpNid \/ RdpFilter \/ RdpStream \/ RdpDrop

-----------------------------------------------------------------------------
(* pTcpWRp. *)

WrpIdle == [wrp EXCEPT !.st = "WAIT_META", !.msg = NoMsg, !.ip = NoIp, !.triple = NoTriple, !.sid = NoSid,
                       !.cur = 0, !.stream = FALSE]
WRp(st) == wrp.st = st /\ UNCHANGED <<tables, left, toe, rrh, rdp, wbu, con>>

WrpInval ==
    /\ WRp("WAIT_META") /\ Some("inval3") /\ ch' = Pop(ch, "inval3")
    /\ wrp' = [wrp EXCEPT !.cache = Cleared(@)]
    /\ UNCHANGED mixed

\* FMC first; it names the session itself and never the length.
WrpFmc ==
    LET s == Head(ch["fmcMeta"]).sid IN
    /\ WRp("WAIT_META") /\ ~Some("inval3") /\ Pass("fmcMeta", "wrpSid", s)
    /\ wrp' = [wrp EXCEPT !.st = "STREAM_FMC", !.sid = s, !.stream = TRUE, !.cur = 0,
                          !.triple = toe.sess[s].triple]
    /\ UNCHANGED mixed

WrpRole ==
    LET m == Head(ch["roleMeta"])
        hit == wrp.cache.on /\ wrp.cache.rank = m.rank
        w == [wrp EXCEPT !.msg = m, !.cur = 0]
    IN
    /\ WRp("WAIT_META") /\ ~Some("inval3") /\ ~(Some("fmcMeta") /\ Room("wrpSid"))
    /\ Some("roleMeta") /\ Room("ipReq")
    /\ IF m.rank \notin Rank
       THEN wrp' = [w EXCEPT !.st = "DROP_PACKET"] /\ ch' = Pop(ch, "roleMeta")
       ELSE IF hit
       THEN wrp' = [w EXCEPT !.st = "W8FORREQS_11", !.ip = wrp.cache.ip] /\ ch' = Pop(ch, "roleMeta")
       ELSE /\ wrp' = [w EXCEPT !.st = "W8FORREQS_1", !.cache.on = FALSE]
            /\ ch' = Put(Pop(ch, "roleMeta"), "ipReq", m.rank)
    /\ UNCHANGED mixed

WrpIp ==
    /\ WRp("W8FORREQS_1") /\ Some("ipRep") /\ ch' = Pop(ch, "ipRep")
    /\ wrp' = [wrp EXCEPT !.st = "W8FORREQS_11", !.ip = Head(ch["ipRep"])]
    /\ UNCHANGED mixed

WrpSession ==
    LET t == [ip |-> wrp.ip, rport |-> wrp.msg.rport, lport |-> "role"] IN
    /\ WRp("W8FORREQS_11") /\ Room("sidReq")
    /\ IF wrp.ip = NoIp
       THEN wrp' = [wrp EXCEPT !.st = "DROP_PACKET"] /\ UNCHANGED ch
       ELSE IF wrp.cache.on /\ wrp.cache.triple = t
       THEN wrp' = [wrp EXCEPT !.st = "W8FORREQS_22", !.triple = t, !.sid = wrp.cache.sid] /\ UNCHANGED ch
       ELSE /\ wrp' = [wrp EXCEPT !.st = "W8FORREQS_2", !.triple = t, !.cache.on = FALSE]
            /\ ch' = Put(ch, "sidReq", t)
    /\ UNCHANGED mixed

WrpCache(s) == [on |-> TRUE, sid |-> s, triple |-> wrp.triple, rank |-> wrp.msg.rank, ip |-> wrp.ip]

WrpSid ==
    LET s == Head(ch["sidRep"]) IN
    /\ WRp("W8FORREQS_2") /\ Some("sidRep") /\ ch' = Pop(ch, "sidRep")
    /\ wrp' = [wrp EXCEPT !.st = "W8FORREQS_22", !.sid = s, !.cache = WrpCache(s)]
    /\ UNCHANGED mixed

\* The message goes to session s; its length is known, or counted later.
Announce(f, s) ==
    LET g == Put(f, "wrpSid", s) IN
    IF wrp.msg.len = 0 THEN g ELSE Put(g, "wrpLen", wrp.msg.len)
Resolved == IF MrtSettled THEN Claim("tx", wrp.ip, IpOf(mrt, wrp.msg.rank)) ELSE UNCHANGED mixed

WrpSend ==
    /\ WRp("W8FORREQS_22") /\ Room("wrpSid") /\ Room("conReq") /\ Room("wrpLen")
    /\ IF wrp.sid = NoSid
       THEN /\ ch' = Put(ch, "conReq", wrp.triple)
            /\ wrp' = [wrp EXCEPT !.st = "WAIT_CONNECTION", !.cache.on = FALSE]
            /\ UNCHANGED mixed
       ELSE /\ ch' = Announce(ch, wrp.sid)
            /\ wrp' = [wrp EXCEPT !.st = "STREAM_ROLE", !.cur = 0, !.stream = wrp.msg.len = 0]
            /\ Resolved

WrpConnected ==
    LET r == Head(ch["conRep"]) IN
    /\ WRp("WAIT_CONNECTION") /\ Room("wrpSid") /\ Room("wrpLen") /\ Some("conRep")
    /\ IF ~r.ok
       THEN /\ ch' = Pop(ch, "conRep") /\ wrp' = [wrp EXCEPT !.st = "DROP_PACKET"]
            /\ UNCHANGED mixed
       ELSE /\ ch' = Announce(Pop(ch, "conRep"), r.sid)
            /\ wrp' = [wrp EXCEPT !.st = "STREAM_ROLE", !.sid = r.sid, !.cur = 0, !.stream = wrp.msg.len = 0,
                                  !.cache = WrpCache(r.sid)]
            /\ Resolved

\* A word.  The end of a message of known length is counted; the length of
\* another is told at its end, and whenever Split is reached; the session id
\* was told once, before the message.
WrpStream(c) ==
    LET w == Head(ch[c])
        n == wrp.cur + 1
        last == IF wrp.stream THEN w.last ELSE n >= wrp.msg.len
        tell == wrp.stream /\ (last \/ n >= Split)
        out == Put(Pop(ch, c), "wrpData", [triple |-> wrp.triple, last |-> last \/ (tell /\ c = "roleData")])
    IN
    /\ Some(c) /\ Room("wrpData") /\ Room("wrpLen")
    /\ ch' = IF tell THEN Put(out, "wrpLen", n) ELSE out
    /\ wrp' = IF last THEN WrpIdle ELSE [wrp EXCEPT !.cur = IF tell THEN 0 ELSE n]

\* History: the message goes on after a length that has taken its session id.
Cut(c) == IF wrp.stream /\ ~Head(ch[c]).last /\ wrp.cur + 1 >= Split THEN {"cut"} ELSE {}
Kept(c) == IF c = "roleData" /\ wrp.msg.rank # Head(ch[c]).rank THEN {"tx"} ELSE {}

WrpStreamOf(st, c) == WRp(st) /\ WrpStream(c) /\ mixed' = mixed \cup Cut(c) \cup Kept(c)
WrpStreamFmc == WrpStreamOf("STREAM_FMC", "fmcData")
WrpStreamRole == WrpStreamOf("STREAM_ROLE", "roleData")

WrpDrop ==
    LET n == wrp.cur + 1
        end == Head(ch["roleData"]).last \/ (wrp.msg.len > 0 /\ n >= wrp.msg.len)
    IN
    /\ WRp("DROP_PACKET") /\ Some("roleData") /\ ch' = Pop(ch, "roleData")
    /\ wrp' = IF end THEN WrpIdle ELSE [wrp EXCEPT !.cur = n]
    /\ UNCHANGED mixed

TcpWRp == WrpInval \/ WrpFmc \/ WrpRole \/ WrpIp \/ WrpSession \/ WrpSid \/ WrpSend \/ WrpConnected
          \/ WrpStreamFmc \/ WrpStreamRole \/ WrpDrop

-----------------------------------------------------------------------------
(* pTcpWBu and pTcpCOn. *)

WbuIdle == [st |-> "WAIT_META", sid |-> NoSid, req |-> 0, cnt |-> 0, ok |-> 0, again |-> FALSE]
WBu(st) == wbu.st = st /\ UNCHANGED <<tables, left, toe, rrh, rdp, wrp, con, mixed>>

WbuTake ==
    /\ WBu("WAIT_META") /\ Some("wrpSid") /\ Some("wrpLen")
    /\ ch' = Pop(Pop(ch, "wrpSid"), "wrpLen")
    /\ wbu' = [wbu EXCEPT !.st = "SND_REQ", !.sid = Head(ch["wrpSid"]), !.req = Head(ch["wrpLen"]), !.cnt = 0]

WbuRequest ==
    /\ WBu("SND_REQ") /\ Room("sndReq")
    /\ ch' = Put(ch, "sndReq", [sid |-> wbu.sid, len |-> wbu.req])
    /\ wbu' = [wbu EXCEPT !.st = "WAIT_REP"]

\* When there is too little room, what fits is sent and the rest asked again.
\* (Seven bytes of it stay free; they are less than a word.)
WbuReply ==
    LET r == Head(ch["sndRep"]) IN
    /\ WBu("WAIT_REP") /\ Some("sndRep") /\ ch' = Pop(ch, "sndRep")
    /\ wbu' = CASE r.error = "NO_ERROR" -> [wbu EXCEPT !.st = "STREAM", !.ok = wbu.req, !.again = FALSE, !.cnt = 0]
                [] r.error = "NO_SPACE" -> [wbu EXCEPT !.st = "STREAM", !.ok = r.space, !.again = TRUE, !.cnt = 0]
                [] OTHER -> [wbu EXCEPT !.st = "DROP", !.cnt = wbu.req]

WbuStream ==
    LET n == wbu.cnt + 1
        end == n >= wbu.ok
    IN
    /\ WBu("STREAM") /\ Some("wrpData") /\ Room("toeData")
    /\ ch' = Put(Pop(ch, "wrpData"), "toeData", [Head(ch["wrpData"]) EXCEPT !.last = end])
    /\ wbu' = IF ~end THEN [wbu EXCEPT !.cnt = n]
              ELSE IF wbu.again THEN [wbu EXCEPT !.cnt = n, !.req = @ - n, !.st = "SND_REQ"]
              ELSE WbuIdle

WbuDrop ==
    LET last == Head(ch["wrpData"]).last IN
    /\ WBu("DROP") /\ Some("wrpData") /\ ch' = Pop(ch, "wrpData")
    /\ wbu' = IF last \/ wbu.cnt = 1 THEN WbuIdle ELSE [wbu EXCEPT !.cnt = @ - 1]

TcpWBu == WbuTake \/ WbuRequest \/ WbuReply \/ WbuStream \/ WbuDrop

\* con is the triple of the connection that is being opened.
Con == UNCHANGED <<tables, left, toe, rrh, rdp, wrp, wbu, mixed>>

ConRequest ==
    /\ con = <<>> /\ Pass("conReq", "opnReq", Head(ch["conReq"])) /\ con' = <<Head(ch["conReq"])>> /\ Con

Answer(r) == [ok |-> r.ok, sid |-> r.sid]
ConReply ==
    LET r == Head(ch["opnRep"])
        told == Put(Pop(ch, "opnRep"), "conRep", Answer(r))
    IN
    /\ con # <<>> /\ Some("opnRep") /\ Room("addCon") /\ Room("conRep")
    /\ ch' = IF r.ok THEN Put(told, "addCon", [sid |-> r.sid, triple |-> con[1]]) ELSE told
    /\ con' = <<>> /\ Con

\* The watchdog: pTcpWRp is told that there is no connection.
ConTimeout ==
    /\ con # <<>> /\ ~Some("opnRep") /\ Room("addCon") /\ Room("conRep")
    /\ ch' = Put(ch, "conRep", Answer([ok |-> FALSE, sid |-> NoSid]))
    /\ con' = <<>>
    /\ Spend("timeouts") /\ UNCHANGED <<tables, toe, rrh, rdp, wrp, wbu, mixed>>

TcpCOn == ConRequest \/ ConReply

-----------------------------------------------------------------------------
Hss == Tables /\ UNCHANGED <<left, toe, tcp, mixed>>
Toe == ToeClose \/ ToeListen \/ ToeRead \/ ToeOpen \/ ToeSend \/ ToeTake
Users == FmcTake \/ RoleTake \/ RoleArrives
Events ==
    \/ \E t \in left.conns : PeerConnect(t)
    \/ \E s \in Sid : PeerSend(s) \/ ToeAbort(s)
    \/ \E m \in left.msgs : RoleSend(m)
    \/ PrStart \/ ResetStart \/ NewMrt \/ LsnLate \/ ConTimeout
Tss == TcpRRh \/ TcpRDp \/ TcpWRp \/ TcpWBu \/ TcpCOn

Next == Hss \/ Tss \/ Toe \/ Users \/ Events

\* Every process runs in every cycle; the role and FMC read, FMC writes what it
\* has begun to write, TOE answers, a reconfiguration ends.  Nothing is assumed
\* of peers, messages, closings or timeouts.
Runs(P) == P /\ UNCHANGED <<left, toe, tcp, mixed>>
Fairness ==
    /\ WF_vars(Runs(FmcUpdate)) /\ WF_vars(Runs(A4l)) /\ WF_vars(Runs(MrtAgency)) /\ WF_vars(Runs(TcpAgency))
    /\ WF_vars(Runs(CacheInval)) /\ WF_vars(Runs(PortLogic)) /\ WF_vars(Runs(TcpLsn)) /\ WF_vars(Runs(TcpCls))
    /\ WF_vars(TcpRRh) /\ WF_vars(TcpRDp) /\ WF_vars(TcpWRp) /\ WF_vars(TcpWBu) /\ WF_vars(TcpCOn)
    /\ WF_vars(Toe) /\ WF_vars(RoleTake) /\ WF_vars(FmcTake) /\ WF_vars(RoleArrives)

Spec == Init /\ [][Next]_vars
FairSpec == Spec /\ Fairness

-----------------------------------------------------------------------------
(* Properties *)

Cache == [on : BOOLEAN, sid : Sid \cup {NoSid}, triple : Triple \cup {NoTriple},
          rank : Rank \cup {Invalid}, ip : Ip \cup {NoIp}]

\* The tables, caches and counters of the TCP sub-system keep their types; in
\* particular a session that waits has a length in the CAM, and no counter of
\* free bytes leaves its range.
TypeOK ==
    /\ \A i \in Row : rows[i].sid \in Sid /\ rows[i].triple \in Triple \cup {NoTriple}
    /\ mrt \in [Rank -> Ip \cup {NoIp}]
    /\ rdp.cache \in Cache /\ wrp.cache \in Cache
    /\ rrh.free \in [Dst -> 0..Free]
    /\ \A k \in DOMAIN rrh.waiting : rrh.waiting[k].sid \in DOMAIN rrh.cam
    /\ \A s \in Sid : toe.sess[s].avail \in Nat
    /\ wbu.req \in Nat /\ wbu.cnt \in Nat

ChangesDone ==
    /\ MrtSettled /\ ~RoleOff /\ ~inval.dec
    /\ ~Some("del") /\ ~Some("invalDel") /\ ~Some("markDel") /\ ~Some("startCls")
    /\ cls = "IDLE" /\ prt.role

\* (hss.cpp:873-996, tss.cpp:716, 1269, 1312) What pTcpRDp and pTcpWRp have
\* cached is what the agencies would answer now, whenever no change of the
\* MRT, of a session or of the role is on its way to them.  Types hold, too.
CachesCurrent ==
    /\ TypeOK
    /\ ChangesDone =>
           /\ rdp.st = "WAIT_META" /\ rdp.cache.on =>
                  LET c == rdp.cache IN
                  /\ TripleOf(c.sid) = c.triple
                  /\ c.triple.lport # "fmc" => c.rank = NidOf(mrt, c.triple.ip)
           /\ wrp.st = "WAIT_META" /\ wrp.cache.on =>
                  LET c == wrp.cache IN
                  /\ c.ip = IpOf(mrt, c.rank)
                  /\ SidOf(c.triple) = c.sid \/ Some("addCon")

\* (tss.cpp:842, 1309, 1450, 1488) The role is told the right node and ports of
\* what it receives, and every word TOE takes for a connection was meant for it,
\* except while a change of the MRT is on its way, and until a message longer
\* than Split has been sent: each further length of it takes the session id of
\* a later message.
NoMixup == "rx" \notin mixed /\ ("tx" \in mixed => "cut" \in mixed)

\* (tss.cpp:380, 473-520) What TOE has announced is asked for, and reaches the
\* role or FMC.
NotifiedIsDelivered ==
    \A s \in Sid :
        toe.sess[s].avail > 0 ~>
            toe.sess[s].avail = 0 /\ ~Some("rxData") /\ ~Some("roleRx") /\ ~Some("fmcRx")

\* (hss.cpp:735-761, 1216-1260) When a role is replaced or reset, every session
\* of it that is in the table is closed, and no session of FMC or of the new
\* role.
OldRoleIsCutOff ==
    /\ \A s \in Sid : (toe.sess[s].old /\ RowsOf(s) # {}) ~> ~(toe.sess[s].old /\ Live(s))
    /\ [](\A k \in DOMAIN ch["clsReq"] : toe.sess[ch["clsReq"][k]].old)
=============================================================================
