------------------------------- MODULE UdpPath -------------------------------
(*****************************************************************************)
(* The path of UDP datagrams between the network and the role: the UDP       *)
(* sub-system of NAL (uss.cpp) on top of UOE and the IP layer, with the UDP  *)
(* part of pPortLogic (hss.cpp).                                             *)
(*   - pUdpTX asks the MRT for the address of a rank, and pUoeUdpTxDeq hands *)
(*     the message to UOE;                                                   *)
(*   - pUdpRx asks for the rank of a sender, and pRoleUdpRxDeq hands the     *)
(*     datagram to the role, or throws it away while there is no role;       *)
(*   - pPortLogic opens the ports of the role over pUdpLsn and closes them   *)
(*     over pUdpCls when the role is reconfigured.                           *)
(* External are the role, the network with its neighbours, and TOE.  What    *)
(* they send waits in front of NTS and NAL from the start; it may be read at *)
(* any time.  The MRT stays as it is.                                        *)
(*****************************************************************************)
EXTENDS UdpOffload

CONSTANTS
    Mrt,   \* the MRT: the address of each rank, or NoIp; rank 0 is INVALID_MRT_VALUE
    NoIp,  \* no address
    Works  \* the workloads: frames, messages, segments of TOE, addresses the CAM
           \* knows, ports of the roles, one role after the other, those that are open,
           \* late answers

PathAssumption == DOMAIN Mrt \subseteq Nat \ {0} /\ \A r \in DOMAIN Mrt : Mrt[r] \in Ip \cup {NoIp}
ASSUME PathAssumption

\* There is a role at the start, and the ports that are open are its.
WorksAssumption ==
    \A w \in Works : /\ w.ports \in Seq(SUBSET Nat) /\ w.ports # <<>>
                    /\ w.opened \subseteq w.ports[1] /\ w.late \in Nat
ASSUME WorksAssumption

\* What a frame says to each process, in the words of the model; what the role
\* sends, and what TOE sends.
FrameType == [id : Nat \ {0}, mac : {"own", "bcast", "other"}, type : {"ip", "arp"}, src : Ip, dst : Ip,
              ver : Nat, frag : BOOLEAN, sum : BOOLEAN, ttl : Nat, proto : {"icmp", "udp", "tcp"},
              long : BOOLEAN, pad : BOOLEAN, msg : {"echo", "other"}, op : {"request", "reply"},
              ihl : 5..15, port : Nat, csum : {"sum", "bad", "none"}, n : Nat]
MessageType == [id : Nat \ {0}, rank : Nat, n : Nat \ {0}, known : BOOLEAN]
SegmentType == [kind : {"tcp"}, id : Nat \ {0}, dst : Ip \cup {Bcast}, body : {<<>>}, len : {0}, csum : {<<>>}, hcsum : {<<>>}]

\* Each of them has a name of its own.
Distinct(s) == \A i, j \in DOMAIN s : s[i].id = s[j].id => i = j
Disjoint(s, t) == \A i \in DOMAIN s, j \in DOMAIN t : s[i].id # t[j].id
TrafficAssumption ==
    \A w \in Works : /\ w.frames \in Seq(FrameType) /\ w.msgs \in Seq(MessageType) /\ w.segs \in Seq(SegmentType)
                    /\ Distinct(w.frames) /\ Distinct(w.msgs)
                    /\ Disjoint(w.frames, w.msgs) /\ Disjoint(w.frames, w.segs)
ASSUME TrafficAssumption

\* No answer comes after the watchdog of pUdpLsn gave up, or the role stays.
NeverLate(w) == w.late = 0
OneRole(w) == Len(w.ports) = 1
LateOrReplaced == \A w \in Works : NeverLate(w) \/ OneRole(w)

\* No datagram is empty.
NoneEmpty == \A w \in Works : \A i \in DOMAIN w.frames : w.frames[i].n > 0

VARIABLES
    work,  \* the workload
    role,  \* is the role decoupled?  the ports of this role and of those to come
    utx,   \* pUdpTX: state, message, address, cache
    utd,   \* pUoeUdpTxDeq: state
    urx,   \* pUdpRx: state, datagram, rank, cache
    urd,   \* pRoleUdpRxDeq: state; what the role has got of a datagram
    prt,   \* pPortLogic: state, udp_rx_ports_processed, port it opens
    lsn,   \* pUdpLsn: state; answers of UOE that may still come too late
    cls,   \* pUdpCls: state
    sent   \* how many words of each message are on the wire

nal == <<utx, utd, urx, urd, prt, lsn, cls>>
env == <<work, role, sent>>
vars == <<ch, icc, acc, cam, hops, fate, uoe, mixed, nal, env>>

Nts == UNCHANGED <<icc, acc, cam, hops, uoe>>
Seqs == INSTANCE SequencesExt
Ids(s) == {x.id : x \in Seqs!ToSet(s)}
The(k, s) == CHOOSE x \in Seqs!ToSet(s) : x.id = k
Frame(k) == The(k, work.frames)
Msg(k) == The(k, work.msgs)

NoMeta == [id |-> 0, rank |-> 0, n |-> 0]
NoEntry == [rank |-> 0, ip |-> NoIp, init |-> FALSE]
NoGet == [st |-> "WAIT_META", meta |-> <<>>, w |-> <<>>]

-----------------------------------------------------------------------------
(* pUdpTX and pUoeUdpTxDeq.  A message of unknown length has length 0 and a  *)
(* mark on its last chunk.                                                   *)

TxRest == Nts /\ UNCHANGED <<mixed, utd, urx, urd, prt, lsn, cls, env>>
UtxInval ==
    /\ utx.st = "W8FORMETA" /\ Some("inval0") /\ ch' = Pop(ch, "inval0")
    /\ utx' = [utx EXCEPT !.cache = NoEntry]
    /\ TxRest /\ UNCHANGED fate

UtxMeta ==
    LET m == Head(ch["roleMeta"])
        hit == utx.cache.init /\ utx.cache.rank = m.rank
        rest == Pop(ch, "roleMeta")
    IN
    /\ utx.st = "W8FORMETA" /\ ~Some("inval0") /\ Some("roleMeta") /\ Room("ipReq")
    /\ ch' = IF hit THEN rest ELSE Put(rest, "ipReq", m.rank)
    /\ utx' = [utx EXCEPT !.st = IF hit THEN "FIRST_ACC" ELSE "W8FORREQS", !.meta = m, !.seen = 0, !.ip = utx.cache.ip]
    /\ TxRest /\ UNCHANGED fate

UtxReply ==
    LET ip == Head(ch["ipRep"]) IN
    /\ utx.st = "W8FORREQS" /\ Some("ipRep") /\ ch' = Pop(ch, "ipRep")
    /\ utx' = [utx EXCEPT !.st = "FIRST_ACC", !.ip = ip, !.cache = [rank |-> utx.meta.rank, ip |-> ip, init |-> TRUE]]
    /\ TxRest /\ UNCHANGED fate

\* A message to a rank without address is dropped.
UtxFirst ==
    LET m == utx.meta IN
    /\ utx.st = "FIRST_ACC" /\ Rooms({"txMeta", "txLen"})
    /\ IF utx.ip = NoIp THEN utx' = [utx EXCEPT !.st = "DROP_PACKET"] /\ UNCHANGED ch
       ELSE /\ ch' = Put(Put(ch, "txMeta", [id |-> m.id, port |-> 1, dst |-> utx.ip]), "txLen", m.n)
            /\ utx' = [utx EXCEPT !.st = "ACC"]
    /\ TxRest /\ UNCHANGED fate

\* The last chunk is marked here if the length is known.
UtxData ==
    LET c == Head(ch["roleData"])
        n == utx.seen + Len(c.w)
        end == c.last \/ (utx.meta.n > 0 /\ n >= utx.meta.n)
        drop == utx.st = "DROP_PACKET"
    IN
    /\ utx.st \in {"ACC", "DROP_PACKET"} /\ Some("roleData") /\ (drop \/ Room("txData"))
    /\ ch' = IF drop THEN Pop(ch, "roleData") ELSE Put(Pop(ch, "roleData"), "txData", Chunk(c.w, end))
    /\ utx' = IF end THEN [utx EXCEPT !.st = "W8FORMETA", !.meta = NoMeta, !.seen = 0, !.ip = NoIp]
              ELSE [utx EXCEPT !.seen = n]
    /\ TxRest /\ IF drop /\ end THEN Becomes(utx.meta.id, "dropped") ELSE UNCHANGED fate

UtdDeq ==
    LET c == Head(ch["txData"])
        data == Put(Pop(ch, "txData"), "taiData", c)
        meta == Put(Pop(data, "txMeta"), "taiMeta", Head(ch["txMeta"]))
    IN
    /\ Some("txData") /\ Room("taiData")
    /\ \/ /\ utd = "WAIT_META" /\ Some("txMeta") /\ Some("txLen") /\ Rooms({"taiMeta", "taiLen"})
          /\ ch' = Put(Pop(meta, "txLen"), "taiLen", Head(ch["txLen"]))
       \/ utd = "STREAM_DATA" /\ ch' = data
    /\ utd' = IF c.last THEN "WAIT_META" ELSE "STREAM_DATA"
    /\ Nts /\ UNCHANGED <<fate, mixed, utx, urx, urd, prt, lsn, cls, env>>

UdpTX == UtxInval \/ UtxMeta \/ UtxReply \/ UtxFirst \/ UtxData

-----------------------------------------------------------------------------
(* pUdpRx and pRoleUdpRxDeq *)

RxRest == Nts /\ UNCHANGED <<utx, utd, prt, lsn, cls, env>>
UrxInval ==
    /\ urx.st = "W8FORMETA" /\ Some("inval1") /\ ch' = Pop(ch, "inval1")
    /\ urx' = [urx EXCEPT !.cache = NoEntry]
    /\ RxRest /\ UNCHANGED <<fate, mixed, urd>>

UrxMeta ==
    LET m == Head(ch["uaifMeta"])
        rest == Pop(Pop(ch, "uaifMeta"), "uaifLen")
        hit == urx.cache.init /\ urx.cache.ip = m.src
        got == [urx EXCEPT !.meta = [id |-> m.id, port |-> m.port, n |-> Head(ch["uaifLen"])], !.src = m.src]
    IN
    /\ urx.st = "W8FORMETA" /\ ~Some("inval1") /\ Some("uaifMeta") /\ Some("uaifLen") /\ Room("nidReq")
    /\ \/ role.dec /\ ch' = rest /\ urx' = [got EXCEPT !.st = "DROP_PACKET", !.cache.init = FALSE]
       \/ ~role.dec /\ hit /\ ch' = rest /\ urx' = [got EXCEPT !.st = "FIRST_ACC", !.rank = urx.cache.rank]
       \/ ~role.dec /\ ~hit /\ ch' = Put(rest, "nidReq", m.src) /\ urx' = [got EXCEPT !.st = "W8FORREQS"]
    /\ RxRest /\ UNCHANGED <<fate, mixed, urd>>

UrxReply ==
    LET r == Head(ch["nidRep"]) IN
    /\ urx.st = "W8FORREQS" /\ Some("nidRep") /\ ch' = Pop(ch, "nidRep")
    /\ urx' = [urx EXCEPT !.st = "FIRST_ACC", !.rank = r, !.cache = [rank |-> r, ip |-> urx.src, init |-> TRUE]]
    /\ RxRest /\ UNCHANGED <<fate, mixed, urd>>

\* A datagram of a sender that is not in the MRT is dropped.
UrxFirst ==
    /\ urx.st = "FIRST_ACC" /\ Room("rxMeta")
    /\ IF urx.rank \notin DOMAIN Mrt
       THEN urx' = [urx EXCEPT !.st = "DROP_PACKET", !.cache.init = FALSE] /\ UNCHANGED ch
       ELSE /\ ch' = Put(ch, "rxMeta", [id |-> urx.meta.id, rank |-> urx.rank, port |-> urx.meta.port, n |-> urx.meta.n])
            /\ urx' = [urx EXCEPT !.st = "ACC"]
    /\ RxRest /\ UNCHANGED <<fate, mixed, urd>>

UrxData ==
    LET c == Head(ch["uaifData"])
        drop == urx.st = "DROP_PACKET"
    IN
    /\ urx.st \in {"ACC", "DROP_PACKET"} /\ Some("uaifData") /\ (drop \/ Room("rxData"))
    /\ ch' = IF drop THEN Pop(ch, "uaifData") ELSE Put(Pop(ch, "uaifData"), "rxData", c)
    /\ urx' = IF c.last THEN [urx EXCEPT !.st = "W8FORMETA", !.meta = <<>>, !.src = NoIp, !.rank = 0] ELSE urx
    /\ RxRest /\ UNCHANGED urd /\ Claim(c.w[1][1] = urx.meta.id)
    /\ IF drop /\ c.last THEN Becomes(urx.meta.id, "dropped") ELSE UNCHANGED fate

NidOf(ip) == IF \E r \in DOMAIN Mrt : Mrt[r] = ip
             THEN CHOOSE r \in DOMAIN Mrt : Mrt[r] = ip /\ \A q \in DOMAIN Mrt : Mrt[q] = ip => r <= q
             ELSE 0
\* Is this what was sent in frame f?
Genuine(f, meta, w) ==
    meta.rank = NidOf(f.src) /\ meta.port = f.port /\ meta.n = f.n /\ w = Data(f.id, f.n)

\* The role reads at once.
UrdDeq ==
    LET c == Head(ch["rxData"])
        first == urd.st = "WAIT_META"
        meta == IF first THEN Head(ch["rxMeta"]) ELSE urd.meta
        w == urd.w \o c.w
        rest == Pop(ch, "rxData")
    IN
    /\ Some("rxData") /\ (first => Some("rxMeta"))
    /\ ch' = IF first THEN Pop(rest, "rxMeta") ELSE rest
    /\ urd' = IF c.last THEN NoGet ELSE [st |-> "STREAM_DATA", meta |-> meta, w |-> IF role.dec THEN <<>> ELSE w]
    /\ IF ~c.last THEN UNCHANGED <<fate, mixed>>
       ELSE IF role.dec THEN Becomes(meta.id, "dropped") /\ UNCHANGED mixed
       ELSE Becomes(meta.id, "delivered") /\ Claim(Genuine(Frame(meta.id), meta, w))
    /\ RxRest /\ UNCHANGED urx

UdpRx == UrxInval \/ UrxMeta \/ UrxReply \/ UrxFirst \/ UrxData

\* pMrtAgency
MrtAnswer ==
    /\ \/ Pass("ipReq", "ipRep", IF Head(ch["ipReq"]) \in DOMAIN Mrt THEN Mrt[Head(ch["ipReq"])] ELSE NoIp)
       \/ ~Some("ipReq") /\ Pass("nidReq", "nidRep", NidOf(Head(ch["nidReq"])))
    /\ Nts /\ UNCHANGED <<fate, mixed, nal, env>>

-----------------------------------------------------------------------------
(* Ports: pPortLogic, pUdpLsn and pUdpCls *)

Least(S) == CHOOSE p \in S : \A q \in S : p <= q
PrtRest == Nts /\ UNCHANGED <<fate, mixed, utx, utd, urx, urd, env>>
Ports == role.ports[1]

PrtIdle ==
    /\ prt.st = "IDLE" /\ PrtRest /\ UNCHANGED <<ch, lsn, cls>>
    /\ \/ role.dec /\ prt.ports # {} /\ prt' = [prt EXCEPT !.st = "START_UDP_CLS"]
       \/ ~role.dec /\ prt.ports # Ports /\ prt' = [prt EXCEPT !.st = "NEW_UDP_REQ"]

\* Mutant of PrtClose: the first port stands for all.
PrtCloseFirst ==
    /\ prt.st = "START_UDP_CLS" /\ Room("toClose") /\ ch' = Put(ch, "toClose", Least(prt.ports))
    /\ prt' = [prt EXCEPT !.st = "IDLE", !.ports = {}]
    /\ PrtRest /\ UNCHANGED <<lsn, cls>>
PrtClose ==
    LET left == prt.ports \ {Least(prt.ports)} IN
    /\ prt.st = "START_UDP_CLS" /\ Room("toClose") /\ ch' = Put(ch, "toClose", Least(prt.ports))
    /\ prt' = [prt EXCEPT !.st = IF left = {} THEN "IDLE" ELSE @, !.ports = left]
    /\ PrtRest /\ UNCHANGED <<lsn, cls>>

\* New ports are opened one by one.  A role does not give up a port before it leaves.
PrtRequest ==
    LET diff == Ports \ prt.ports IN
    /\ prt.st = "NEW_UDP_REQ" /\ Room("toOpen") /\ ch' = Put(ch, "toOpen", Least(diff))
    /\ prt' = [prt EXCEPT !.st = "NEW_UDP_REP", !.port = Least(diff)]
    /\ PrtRest /\ UNCHANGED <<lsn, cls>>

PrtReply ==
    /\ prt.st = "NEW_UDP_REP" /\ Some("opened") /\ ch' = Pop(ch, "opened")
    /\ prt' = [st |-> "IDLE", port |-> 0,
               ports |-> IF Head(ch["opened"]) THEN prt.ports \cup {prt.port} ELSE prt.ports]
    /\ PrtRest /\ UNCHANGED <<lsn, cls>>

PortLogic == PrtIdle \/ PrtClose \/ PrtRequest \/ PrtReply

LsnRequest ==
    /\ lsn.st = "SEND_REQ" /\ Some("toOpen") /\ Room("lsnReq")
    /\ ch' = Put(Pop(ch, "toOpen"), "lsnReq", [id |-> 0, port |-> Head(ch["toOpen"])])
    /\ lsn' = [lsn EXCEPT !.st = "WAIT_ACK"]
    /\ PrtRest /\ UNCHANGED <<prt, cls>>

LsnReply ==
    /\ lsn.st = "WAIT_ACK" /\ Pass("lsnRep", "opened", Head(ch["lsnRep"]).open)
    /\ lsn' = [lsn EXCEPT !.st = "SEND_REQ"]
    /\ PrtRest /\ UNCHANGED <<prt, cls>>

\* The watchdog does not wait for UOE; the answer that comes late is the next one's.
LsnTimeout ==
    /\ lsn.st = "WAIT_ACK" /\ lsn.late > 0 /\ ~Some("lsnRep") /\ Room("opened")
    /\ ch' = Put(ch, "opened", FALSE) /\ lsn' = [st |-> "SEND_REQ", late |-> lsn.late - 1]
    /\ PrtRest /\ UNCHANGED <<prt, cls>>

UdpLsn == LsnRequest \/ LsnReply \/ LsnTimeout

UdpCls ==
    /\ \/ /\ cls = "NEXT" /\ Some("toClose") /\ Room("clsReq") /\ cls' = "WAIT4RESP"
          /\ ch' = Put(Pop(ch, "toClose"), "clsReq", [id |-> 0, port |-> Head(ch["toClose"])])
       \/ cls = "WAIT4RESP" /\ Some("clsRep") /\ ch' = Pop(ch, "clsRep") /\ cls' = "NEXT"
    /\ PrtRest /\ UNCHANGED <<prt, lsn>>

-----------------------------------------------------------------------------
(* The environment *)

NetIdle == Nts /\ UNCHANGED <<mixed, nal>>
\* An ARP reply of a neighbour.
ArpReply(ip) == [id |-> 0, mac |-> "own", type |-> "arp", op |-> "reply", src |-> ip, dst |-> Me]

\* A packet leaves; a neighbour answers an ARP request.
Wire ==
    LET p == Head(ch["ethOut"])
        rest == Pop(ch, "ethOut")
        n == sent[p.id] + p.len
    IN
    /\ Some("ethOut") /\ NetIdle /\ UNCHANGED <<work, role>>
    /\ CASE p.kind = "udp" ->
              /\ ch' = rest /\ sent' = [sent EXCEPT ![p.id] = n]
              /\ IF n = Msg(p.id).n THEN Becomes(p.id, "sent") ELSE UNCHANGED fate
         [] p.kind = "arp" /\ p.body = <<"request">> ->
              ch' = Put(rest, "eth", ArpReply(p.dst)) /\ UNCHANGED <<sent, fate>>
         [] OTHER -> ch' = rest /\ UNCHANGED sent /\ Becomes(p.id, IF p.kind = "tcp" THEN "sent" ELSE "answered")

\* TOE takes a segment.
ToeTake ==
    /\ Some("toe") /\ ch' = Pop(ch, "toe") /\ Becomes(Head(ch["toe"]).id, "delivered")
    /\ NetIdle /\ UNCHANGED env

\* A reconfiguration lasts until the traffic of the old role is over.
RoleLeaves ==
    /\ ~role.dec /\ Len(role.ports) > 1 /\ role' = [role EXCEPT !.dec = TRUE]
    /\ NetIdle /\ UNCHANGED <<ch, fate, work, sent>>

RoleArrives ==
    /\ role.dec /\ prt = [st |-> "IDLE", ports |-> {}, port |-> 0] /\ cls = "NEXT" /\ ~Some("toClose")
    /\ urx.st = "W8FORMETA" /\ ~Some("rxData") /\ urd = NoGet
    /\ role' = [dec |-> FALSE, ports |-> Tail(role.ports)]
    /\ ch' = Put(Put(ch, "inval0", TRUE), "inval1", TRUE)
    /\ NetIdle /\ UNCHANGED <<fate, work, sent>>

-----------------------------------------------------------------------------
\* What the role writes for message m: the length, if it knows it, or a last chunk.
Meta(m) == [id |-> m.id, rank |-> m.rank, n |-> IF m.known THEN m.n ELSE 0]
Written(m) == LET w == Data(m.id, m.n)
              IN [i \in 1..Chunks(w) |-> Chunk(Cut(w, i), ~m.known /\ i = Chunks(w))]
Waiting == [eth |-> work.frames, l3toe |-> work.segs,
            roleMeta |-> [i \in DOMAIN work.msgs |-> Meta(work.msgs[i])],
            roleData |-> Seqs!FlattenSeq([i \in DOMAIN work.msgs |-> Written(work.msgs[i])])]

Init ==
    /\ work \in Works
    /\ UdpInit(Waiting, work.opened)
    /\ cam = work.cam
    /\ fate = [k \in {0} \cup Ids(work.frames) \cup Ids(work.msgs) \cup Ids(work.segs) |-> IF k = 0 THEN "none" ELSE "in"]
    /\ sent = [k \in DOMAIN fate |-> 0]
    /\ role = [dec |-> FALSE, ports |-> work.ports]
    /\ utx = [st |-> "W8FORMETA", meta |-> NoMeta, seen |-> 0, ip |-> NoIp, cache |-> NoEntry]
    /\ utd = "WAIT_META"
    /\ urx = [st |-> "W8FORMETA", meta |-> <<>>, src |-> NoIp, rank |-> 0, cache |-> NoEntry]
    /\ urd = NoGet
    /\ prt = [st |-> "IDLE", ports |-> work.opened, port |-> 0]
    /\ lsn = [st |-> "SEND_REQ", late |-> work.late]
    /\ cls = "NEXT"

Uss == UdpTX \/ UtdDeq \/ UdpRx \/ UrdDeq \/ MrtAnswer \/ PortLogic \/ UdpLsn \/ UdpCls
System == \/ IpLayer /\ UNCHANGED <<uoe, mixed, nal, env>>
          \/ (RxEngine \/ TxEngine) /\ UNCHANGED <<nal, env>>
          \/ Uss \/ Wire \/ ToeTake
Next == System \/ RoleLeaves \/ RoleArrives

\* No process stops for ever while it has something to do.
FairSpec == Init /\ [][Next]_vars /\ WF_vars(System)

-----------------------------------------------------------------------------
(* Properties *)

\* The stream of IP headers is not full in the middle of a header: pIpHeaderStripper
\* would drop the packet, and what it has written of the header would stay there.
HeadersFit == ihs.st = "HDR" => Fits("hdr", HdrDepth)

\* What four streams say of a datagram of UOE - IP header, verdict on the
\* checksum, state of the port, and data - is about the same datagram, and the
\* role gets metadata, length and data as they were sent (pRxPacketHandler,
\* pUdpRx, pRoleUdpRxDeq).  With the tokens it gets, pIpHeaderStripper, which does
\* not look, never writes into a full stream, and no header is left half written.
NoMixup == ~mixed /\ Fits("uccDgrm", UccDepth + 1) /\ HeadersFit

\* A frame is handed to TOE or to the role, or answered, only if its own checks
\* allow it, and is thrown away only if one of them fails or UOE may lack
\* tokens or the role: no packet gets the verdict on another.
Sound(f) == /\ f.type = "ip" /\ f.mac \in {"own", "bcast"} /\ ~f.long
            /\ f.ver = 4 /\ ~f.frag /\ f.sum /\ f.dst = Me
ForRole(f) == f.proto = "udp" /\ f.csum # "bad" /\ NidOf(f.src) # 0
FateIsJust ==
    \A f \in Seqs!ToSet(work.frames) :
        /\ fate[f.id] = "delivered" => Sound(f) /\ f.ttl # 1 /\ (f.proto = "tcp" \/ ForRole(f))
        /\ fate[f.id] \in {"refused", "answered", "missed"} =>
               \/ Sound(f) /\ (f.ttl = 1 \/ f.proto = "udp" \/ (f.proto = "icmp" /\ f.msg = "echo"))
               \/ f.type = "arp" /\ f.op = "request" /\ f.dst = Me
        /\ fate[f.id] = "dropped" => ~(Sound(f) /\ (f.ttl = 1 \/ f.proto = "tcp" \/ (f.proto = "icmp" /\ f.msg = "echo")))

\* Every packet on its way to the wire carries checksums over what it carries,
\* goes to a host of the own sub-network, to the one it is for if it is there,
\* and answers the packet it claims to answer; a datagram is a piece of the
\* message of the right length, not longer than a datagram can be.
OnLink(hop, dst) == IF dst \in Local \cup {Bcast} THEN hop = dst ELSE hop = Gateway
PieceOf(m, p) ==
    LET w == SubSeq(p.body, 3, Len(p.body))
        meta == [id |-> m.id, port |-> 1, dst |-> Mrt[m.rank]]
    IN /\ p.dst[2] = Mrt[m.rank] /\ p.len = Len(w) /\ Len(w) \in 1..Mds
       /\ \E i \in 0..(m.n - Len(w)) : w = SubSeq(Data(m.id, m.n), i + 1, i + Len(w))
       /\ p.csum = [meta |-> <<meta>>, len |-> <<Len(w)>>, data |-> w]
       /\ SubSeq(p.body, 1, 2) = <<<<m.id, "ports", 1>>, <<m.id, "sum", Len(w)>>>>
WireIntact ==
    \A p \in Seqs!ToSet(ch["ethOut"]) : p.kind # "arp" =>
        /\ OnLink(p.dst[1], p.dst[2]) /\ p.hcsum = <<p.kind, p.id>>
        /\ p.kind \in {"echo", "unreach", "derr"} => p.dst[2] = Frame(p.id).src /\ p.csum = <<p.id>>
        /\ p.kind = "udp" => PieceOf(Msg(p.id), p)

\* When pPortLogic has nothing to do and nothing is on its way to UOE, the
\* ports that are open are those of the role, and none while there is no role,
\* also after a reconfiguration and when an answer of UOE comes late.
PortsAgree ==
    (/\ prt.ports = IF role.dec THEN {} ELSE Ports
     /\ prt.st = "IDLE" /\ lsn.st = "SEND_REQ" /\ cls = "NEXT" /\ upt.st = "WAIT4REQ"
     /\ \A c \in {"toOpen", "toClose", "lsnReq", "clsReq"} : ~Some(c))
    => upt.open = prt.ports

\* Something becomes of every frame and of every message: no process waits for
\* ever for a stream that another one does not fill or drain.
EveryFate == <>(\A k \in DOMAIN fate : fate[k] # "in")

\* A next hop that was looked up in vain is asked for, and known in the end.
NeighbourLearned == []<>(hops = {})
=============================================================================
