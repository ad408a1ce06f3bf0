-------------------------------- MODULE NtsIp --------------------------------
(*****************************************************************************)
(* The IP layer of NTS, packet by packet.                                    *)
(*   - IPRX (iprx.cpp) detects the protocol of a frame, checks length, header *)
(*     checksum, destination, version and fragmentation in processes that    *)
(*     tell each other their verdicts over streams, and routes the packet;   *)
(*   - ICMP (icmp.cpp) answers echo requests, and reports unreachable ports   *)
(*     and expired packets;                                                  *)
(*   - ARP (arp.cpp) answers requests for its own address, learns bindings    *)
(*     and answers the lookups of IPTX from a CAM;                           *)
(*   - IPTX (iptx.cpp) completes packets of ICMP, UOE and TOE with checksum   *)
(*     and MAC address, and drops those whose next hop is not known.         *)
(* The multiplexers, the CAM and the neighbours on the network are external. *)
(* A process handles a packet in one step; frames the MAC aborts, headers    *)
(* shorter than they say and ICMP messages longer than a stream are left out. *)
(*****************************************************************************)
EXTENDS Naturals, Sequences, FiniteSets

CONSTANTS
    Ip, Me, Gateway,  \* addresses; piMMIO_Ip4Address, piMMIO_GatewayAddr
    Local,            \* the addresses of the own sub-network
    Bcast,            \* IP4_BROADCAST_ADDR
    StreamDepth       \* depth of the streams

IpAssumption ==
    /\ {Me, Gateway} \subseteq Ip /\ Local \subseteq Ip /\ Gateway \in Local
    /\ Bcast \notin Ip /\ StreamDepth \in Nat \ {0}
ASSUME IpAssumption

VARIABLES
    ch,    \* the streams, by name
    icc,   \* pIcmpChecksumChecker: the message whose checksum it computes
    acc,   \* pArpCamController: the address it looks up, or the one it inserts
    cam,   \* the CAM: the addresses it knows
    hops,  \* the next hops that were looked up in vain and are still not known
    fate   \* what became of every frame and message

\* Streams of IPRX, ICMP, ARP, IPTX; of UOE (module UdpOffload); of NAL (module UdpPath).
IpStream == {"eth", "mpd", "arpIn", "ilc", "ica", "iid", "ipVer", "dropFrag", "subSums", "csumValid",
             "icl", "ipr", "icmp", "derr", "uoe", "toe",
             "icmpData", "dropCmd", "icmpCsum0", "icmpCsum1", "ihaData", "ihaHdr", "xyz0", "xyz1",
             "apsMeta", "update", "accMeta", "lkpReq", "lkpRep", "ethOut",
             "l3icmp", "l3udp", "l3toe", "l3", "hcaData", "hcaCsum", "iae", "mai"}
UdpStream == {"cts", "uccDgrm", "psdSum", "hdr", "rphDgrm", "csumVal", "portReq", "portRep", "unreach",
              "lsnReq", "lsnRep", "clsReq", "clsRep", "uaifData", "uaifMeta", "uaifLen",
              "taiData", "taiMeta", "taiLen", "tdhData", "tdhMeta", "tdhLen",
              "uhaData", "uhaMeta", "uhaLen", "ucaData", "ucaCsum", "ihData", "ihPair", "ihLen"}
NalStream == {"roleData", "roleMeta", "txData", "txMeta", "txLen", "rxData", "rxMeta",
              "toOpen", "opened", "toClose", "ipReq", "ipRep", "nidReq", "nidRep", "inval0", "inval1"}
Stream == IpStream \cup UdpStream \cup NalStream

Put(f, c, m) == [f EXCEPT ![c] = Append(@, m)]
Pop(f, c) == [f EXCEPT ![c] = Tail(@)]
Some(c) == ch[c] # <<>>
Room(c) == Len(ch[c]) < StreamDepth
Rooms(C) == \A c \in C : Room(c)
\* Take the head of a, put m into b.
Pass(a, b, m) == Some(a) /\ Room(b) /\ ch' = Put(Pop(ch, a), b, m)

\* Something has become of frame or message k.
Becomes(k, what) == fate' = [fate EXCEPT ![k] = what]
Same == UNCHANGED <<icc, acc, cam, hops>>
Only == Same /\ UNCHANGED fate

-----------------------------------------------------------------------------
(* IPRX *)

IBuf == Pass("eth", "mpd", Head(ch["eth"])) /\ Only

MacProtocolDetector ==
    LET p == Head(ch["mpd"])
        rest == Pop(ch, "mpd")
        mine == p.mac \in {"own", "bcast"}
    IN
    /\ Some("mpd") /\ Rooms({"arpIn", "ilc"}) /\ Same
    /\ IF mine /\ p.type = "arp" THEN ch' = Put(rest, "arpIn", p) /\ UNCHANGED fate
       ELSE IF mine /\ p.type = "ip" THEN ch' = Put(rest, "ilc", p) /\ UNCHANGED fate
       ELSE ch' = rest /\ Becomes(p.id, "dropped")

IpLengthChecker ==
    LET p == Head(ch["ilc"]) IN
    /\ Some("ilc") /\ Room("ica") /\ Same
    /\ IF p.long THEN ch' = Pop(ch, "ilc") /\ Becomes(p.id, "dropped")
       ELSE ch' = Put(Pop(ch, "ilc"), "ica", p) /\ UNCHANGED fate

\* What the streams beside the packet say is about packet id.
SubSums(p) == [id |-> p.id, ok |-> p.sum, match |-> p.dst = Me]
IpChecksumAccumulator ==
    LET p == Head(ch["ica"])
        data == Put(Pop(ch, "ica"), "iid", p)
        ver == Put(data, "ipVer", [id |-> p.id, ver |-> p.ver])
        frag == Put(ver, "dropFrag", [id |-> p.id, drop |-> p.frag])
    IN
    /\ Some("ica") /\ Rooms({"iid", "ipVer", "dropFrag", "subSums"})
    /\ ch' = Put(frag, "subSums", SubSums(p)) /\ Only

IpChecksumChecker ==
    LET s == Head(ch["subSums"]) IN
    Pass("subSums", "csumValid", [id |-> s.id, valid |-> s.ok /\ s.match]) /\ Only

Verdicts == {"csumValid", "ipVer", "dropFrag"}
\* Is the packet valid as far as stream c can say?
Accepts(c) == CASE c = "csumValid" -> Head(ch[c]).valid [] c = "ipVer" -> Head(ch[c]).ver = 4
                [] OTHER -> ~Head(ch[c]).drop

\* Mutant of Taken: only the verdicts that say something against the packet are taken.
TakenIfBad == {c \in Verdicts : ~Accepts(c)} \cup IF \A c \in Verdicts : Accepts(c) THEN Verdicts ELSE {}
\* The verdicts taken for a packet.
Taken == Verdicts

IpInvalidDropper ==
    LET p == Head(ch["iid"])
        rest == [c \in Stream |-> IF c \in Taken \cup {"iid"} THEN Tail(ch[c]) ELSE ch[c]]
    IN
    /\ \A c \in {"iid"} \cup Verdicts : Some(c)
    /\ Room("icl") /\ Same
    /\ IF \A c \in Verdicts : Accepts(c) THEN ch' = Put(rest, "icl", p) /\ UNCHANGED fate
       ELSE ch' = rest /\ Becomes(p.id, "dropped")

\* What follows the total length of the packet is cut off.
IpCutLength == Pass("icl", "ipr", [Head(ch["icl"]) EXCEPT !.pad = FALSE]) /\ Only

Route(p) == IF p.ttl = 1 THEN {"derr"}
            ELSE CASE p.proto = "icmp" -> {"icmp"} [] p.proto = "udp" -> {"uoe"} [] p.proto = "tcp" -> {"toe"}
                   [] OTHER -> {}
\* A packet waits for room in every stream, even those it is not for.
IpPacketRouter ==
    LET p == Head(ch["ipr"])
        out == Route(p)
    IN
    /\ Some("ipr") /\ Rooms({"icmp", "derr", "uoe", "toe"}) /\ Same
    /\ IF out = {} THEN ch' = Pop(ch, "ipr") /\ Becomes(p.id, "dropped")
       ELSE (\E c \in out : ch' = Put(Pop(ch, "ipr"), c, p)) /\ UNCHANGED fate

Iprx == \/ IBuf \/ MacProtocolDetector \/ IpLengthChecker \/ IpChecksumAccumulator \/ IpChecksumChecker
        \/ IpInvalidDropper \/ IpCutLength \/ IpPacketRouter

-----------------------------------------------------------------------------
(* ICMP.  csum names what a checksum was computed over. *)

Packet(kind, id, dst) == [kind |-> kind, id |-> id, dst |-> dst, body |-> <<>>, len |-> 0,
                          csum |-> <<>>, hcsum |-> <<>>]

\* The message is passed on first, with its addresses swapped; the verdict follows.
IccForward ==
    LET p == Head(ch["icmp"]) IN
    /\ icc = <<>> /\ Pass("icmp", "icmpData", Packet("echo", p.id, p.src))
    /\ icc' = <<p>> /\ UNCHANGED <<acc, cam, hops, fate>>

IccVerdict ==
    LET p == icc[1]
        keep == p.msg = "echo"
        told == Put(ch, "dropCmd", ~keep)
    IN
    /\ icc # <<>> /\ Rooms({"dropCmd", "icmpCsum0"})
    /\ ch' = IF keep THEN Put(told, "icmpCsum0", p.id) ELSE told
    /\ icc' = <<>> /\ UNCHANGED <<acc, cam, hops, fate>>

InvalidPacketDropper ==
    LET p == Head(ch["icmpData"])
        rest == Pop(Pop(ch, "icmpData"), "dropCmd")
    IN
    /\ Some("icmpData") /\ Some("dropCmd") /\ Room("xyz0") /\ Same
    /\ IF Head(ch["dropCmd"]) THEN ch' = rest /\ Becomes(p.id, "dropped")
       ELSE ch' = Put(rest, "xyz0", p) /\ UNCHANGED fate

\* A port is unreachable before a packet has expired.
ControlMessageBuilder ==
    LET src == IF Some("unreach") THEN "unreach" ELSE "derr"
        p == Head(ch[src])
        data == Put(Pop(ch, src), "ihaData", [id |-> p.id, kind |-> src])
    IN
    /\ Some(src) /\ Rooms({"ihaData", "ihaHdr", "icmpCsum1"})
    /\ ch' = Put(Put(data, "ihaHdr", [id |-> p.id, src |-> p.src]), "icmpCsum1", p.id)
    /\ Only

IpHeaderAppender ==
    LET d == Head(ch["ihaData"])
        h == Head(ch["ihaHdr"])
    IN
    /\ Some("ihaData") /\ Some("ihaHdr") /\ Room("xyz1")
    /\ ch' = Put(Pop(Pop(ch, "ihaData"), "ihaHdr"), "xyz1", [Packet(d.kind, d.id, h.src) EXCEPT !.body = <<h.id>>])
    /\ Only

IcmpChecksumInserter ==
    LET s == IF Some("xyz0") THEN <<"xyz0", "icmpCsum0">> ELSE <<"xyz1", "icmpCsum1">>
        p == [Head(ch[s[1]]) EXCEPT !.csum = <<Head(ch[s[2]])>>]
    IN
    /\ Some(s[1]) /\ Some(s[2]) /\ Room("l3icmp")
    /\ ch' = Put(Pop(Pop(ch, s[1]), s[2]), "l3icmp", p)
    /\ Only

Icmp == \/ IccForward \/ IccVerdict \/ InvalidPacketDropper \/ ControlMessageBuilder
        \/ IpHeaderAppender \/ IcmpChecksumInserter

-----------------------------------------------------------------------------
(* ARP *)

\* The binding of the sender is always learned.
ArpPacketReceiver ==
    LET p == Head(ch["arpIn"])
        asked == p.op = "request" /\ p.dst = Me
        learn == Put(Pop(ch, "arpIn"), "update", p.src)
    IN
    /\ Some("arpIn") /\ Rooms({"apsMeta", "update"})
    /\ ch' = IF asked THEN Put(learn, "apsMeta", [id |-> p.id, ip |-> p.src]) ELSE learn
    /\ Same /\ IF asked THEN UNCHANGED fate ELSE Becomes(p.id, "learned")

Arp(op, id, ip) == [Packet("arp", id, ip) EXCEPT !.body = <<op>>]
\* Replies before requests.
ArpPacketSender ==
    /\ \/ Pass("apsMeta", "ethOut", Arp("reply", Head(ch["apsMeta"]).id, Head(ch["apsMeta"]).ip))
       \/ ~Some("apsMeta") /\ Pass("accMeta", "ethOut", Arp("request", 0, Head(ch["accMeta"])))
    /\ Only

\* Mutant of Asks: an address that is not known is not asked for.
AsksNever(hit) == FALSE
\* Is there a request for an address the CAM does not know?
Asks(hit) == ~hit

\* Lookups before updates; a broadcast needs no lookup.
AccTake ==
    LET ip == Head(ch["lkpReq"]) IN
    /\ acc = <<>> /\ UNCHANGED <<icc, cam, hops, fate>>
    /\ \/ /\ Some("lkpReq") /\ Room("lkpRep")
          /\ IF ip = Bcast THEN ch' = Put(Pop(ch, "lkpReq"), "lkpRep", [ip |-> ip, hit |-> TRUE]) /\ UNCHANGED acc
             ELSE ch' = Pop(ch, "lkpReq") /\ acc' = <<"LOOKUP", ip>>
       \/ /\ ~Some("lkpReq") /\ Some("update")
          /\ ch' = Pop(ch, "update") /\ acc' = <<"UPDATE", Head(ch["update"])>>

AccReply ==
    LET ip == acc[2]
        hit == ip \in cam
        told == Put(ch, "lkpRep", [ip |-> ip, hit |-> hit])
    IN
    /\ acc # <<>> /\ acc' = <<>> /\ UNCHANGED <<icc, fate>>
    /\ IF acc[1] = "UPDATE"
       THEN cam' = cam \cup {ip} /\ hops' = hops \ {ip} /\ UNCHANGED ch
       ELSE /\ Rooms({"lkpRep", "accMeta"}) /\ UNCHANGED cam
            /\ ch' = IF Asks(hit) THEN Put(told, "accMeta", ip) ELSE told
            /\ hops' = IF hit THEN hops ELSE hops \cup {ip}

Arps == ArpPacketReceiver \/ ArpPacketSender \/ AccTake \/ AccReply

-----------------------------------------------------------------------------
(* IPTX *)

\* L3MUX takes whole packets of one source after the other (external).
L3mux == (\E c \in {"l3icmp", "l3udp", "l3toe"} : Pass(c, "l3", Head(ch[c]))) /\ Only

HeaderChecksumAccumulator ==
    LET p == Head(ch["l3"]) IN
    /\ Some("l3") /\ Rooms({"hcaData", "hcaCsum"})
    /\ ch' = Put(Put(Pop(ch, "l3"), "hcaData", p), "hcaCsum", <<p.kind, p.id>>)
    /\ Only

IpChecksumInsert ==
    /\ Some("hcaData") /\ Some("hcaCsum") /\ Room("iae")
    /\ ch' = Put(Pop(Pop(ch, "hcaData"), "hcaCsum"), "iae", [Head(ch["hcaData"]) EXCEPT !.hcsum = Head(ch["hcaCsum"])])
    /\ Only

NextHop(dst) == IF dst \in Local \/ dst = Bcast THEN dst ELSE Gateway

Ip4AddressExtractor ==
    LET p == Head(ch["iae"]) IN
    /\ Room("lkpReq") /\ Some("iae") /\ Room("mai")
    /\ ch' = Put(Put(Pop(ch, "iae"), "mai", p), "lkpReq", NextHop(p.dst))
    /\ Only

\* A packet without a MAC address is dropped; a sender that cares sends it again.
MacAddressInserter ==
    LET r == Head(ch["lkpRep"])
        p == Head(ch["mai"])
        rest == Pop(Pop(ch, "lkpRep"), "mai")
    IN
    /\ Some("lkpRep") /\ Some("mai") /\ Room("ethOut") /\ Same
    /\ IF r.hit THEN ch' = Put(rest, "ethOut", [p EXCEPT !.dst = <<r.ip, p.dst>>]) /\ UNCHANGED fate
       ELSE ch' = rest /\ Becomes(p.id, "missed")

Iptx == L3mux \/ HeaderChecksumAccumulator \/ IpChecksumInsert \/ Ip4AddressExtractor \/ MacAddressInserter

-----------------------------------------------------------------------------
\* What waits in front of NTS at the start; the streams hold nothing else.
IpInit(waiting) ==
    /\ ch = [c \in Stream |-> IF c \in DOMAIN waiting THEN waiting[c] ELSE <<>>]
    /\ icc = <<>> /\ acc = <<>>
    /\ hops = {}

IpLayer == Iprx \/ Icmp \/ Arps \/ Iptx
=============================================================================
