------------------------------ MODULE UdpOffload ------------------------------
(*****************************************************************************)
(* The UDP offload engine (uoe.cpp), chunk by chunk: a chunk holds one or    *)
(* two words of 32 bits.                                                     *)
(*   - Rx: Ihs strips the IP header off and realigns the datagram, Ucc       *)
(*     checks its checksum, Rph asks Upt whether the port is open and        *)
(*     delivers the datagram, drops it, or has ICMP told that the port is    *)
(*     unreachable.  Header, datagram, verdict and port state come to Rph    *)
(*     over four streams.  Ucc grants Ihs tokens (CTS), one per datagram     *)
(*     that the stream between them has room for.                            *)
(*   - Tx: Tai cuts what the application sends into datagrams, Tdh feeds the *)
(*     checksum of Uca, Uha adds the UDP header and Iha the IP header.       *)
(* The engine is enabled and its port table initialised.                     *)
(*****************************************************************************)
EXTENDS NtsIp

CONSTANTS
    UccDepth,   \* ssIhsToUcc_UdpDgrm: two datagrams of maximum size
    HdrDepth,   \* ssIhsToRph_Ip4Hdr
    CsumDepth,  \* ssUccToRph_CsumVal: UOE_ELASTIC_HEADER_BUFF
    DataDepth,  \* ssUccToRph_UdpDgrm, and the streams of whole datagrams to Tdh and Uha
    Mds         \* UDP_MDS, in words

UdpAssumption ==
    /\ {UccDepth, HdrDepth, CsumDepth, DataDepth, Mds} \subseteq Nat \ {0}
    /\ Mds % 2 = 0
ASSUME UdpAssumption

VARIABLES
    ihs,    \* pIpHeaderStripper: state, chunks of the packet read, word left over
    ucc,    \* pUdpChecksumChecker: state, words it has seen
    rph,    \* pRxPacketHandler
    upt,    \* pUdpPortTable: state, open ports
    tai,    \* pTxApplicationInterface
    tdh,    \* pTxDatagramHandler
    uca,    \* pUdpChecksumAccumulator: what it has summed, is it complete?
    uha,    \* pUdpHeaderAdder
    iha,    \* pIp4HeaderAdder
    mixed   \* has something been handled as part of another datagram?

rx == <<ihs, ucc, rph, upt>>
tx == <<tai, tdh, uca, uha, iha>>
uoe == <<rx, tx>>

Fits(c, depth) == Len(ch[c]) < depth
Claim(ok) == mixed' = (mixed \/ ~ok)
Ip4 == UNCHANGED <<icc, acc, cam, hops>>
Quiet == Ip4 /\ UNCHANGED <<fate, mixed>>

\* A datagram: its ports, then its length, with the checksum ("sum", "bad", or
\* "none"), then its data; the IP packet that carries it; chunk i of a packet.
Data(id, n) == [i \in 1..n |-> <<id, "data", i>>]
Datagram(id, port, csum, n) == <<<<id, "ports", port>>, <<id, csum, n>>>> \o Data(id, n)
Words(p) == [i \in 1..p.ihl |-> <<p.id, "ip", i>>] \o Datagram(p.id, p.port, p.csum, p.n)
Cut(w, i) == SubSeq(w, 2 * i - 1, IF 2 * i < Len(w) THEN 2 * i ELSE Len(w))
Chunks(w) == (Len(w) + 1) \div 2
Chunk(w, last) == [w |-> w, last |-> last]
HdrChunks(p) == (p.ihl + 1) \div 2

NoReq == [id |-> 0, port |-> 0]
NoMsg == [st |-> "IDLE", stream |-> FALSE, left |-> 0, split |-> 0, meta |-> <<>>]

-----------------------------------------------------------------------------
(* Rx: pIpHeaderStripper.  It reads chunk ihs.i + 1 of the packet at the head *)
(* of its input.                                                              *)

Ihs(st) == ihs.st = st /\ Ip4 /\ UNCHANGED <<ucc, rph, upt, tx, mixed>>
Packet0 == Head(ch["uoe"])
\* Read the next chunk of the packet, then go on in state st.
Read(f, st, prev) ==
    LET i == ihs.i + 1
        end == i = Chunks(Words(Packet0))
    IN
    /\ ch' = IF end THEN Pop(f, "uoe") ELSE f
    /\ ihs' = [st |-> st, i |-> IF end THEN 0 ELSE i, prev |-> prev]

\* Without a token the packet is dropped, so that IPRX does not have to wait.
IhsIdle ==
    /\ Ihs("IDLE") /\ UNCHANGED <<ch, fate>> /\ (Some("cts") \/ Some("uoe"))
    /\ ihs' = [ihs EXCEPT !.st = IF Some("cts") THEN "IPW0" ELSE "DROP"]

IhsHeader ==
    LET p == Packet0
        i == ihs.i + 1
        last == i = HdrChunks(p)
        next == IF ~last THEN "HDR" ELSE IF p.ihl % 2 = 1 THEN "UDP_HEADER" ELSE "UDP_HEADER_ALIGNED"
        prev == IF last /\ p.ihl % 2 = 1 THEN <<Cut(Words(p), i)[2]>> ELSE <<>>
    IN
    /\ Ihs(ihs.st) /\ ihs.st \in {"IPW0", "HDR"} /\ Some("uoe")
    /\ IF ~Fits("hdr", HdrDepth) \/ (ihs.st = "IPW0" /\ ~Room("psdSum"))
       THEN ihs' = [ihs EXCEPT !.st = "DROP"] /\ UNCHANGED ch
       ELSE Read(Put(ch, "hdr", [id |-> p.id, i |-> i, src |-> p.src, last |-> last]), next, prev)
    /\ UNCHANGED fate

\* The stream to Ucc is written without a look at its fullness.  The last flag of
\* the only chunk of an empty datagram is not initialised.
IhsUdpHeader ==
    LET p == Packet0
        w == Cut(Words(p), ihs.i + 1)
        end == ihs.i + 1 = Chunks(Words(p))
        aligned == ihs.st = "UDP_HEADER_ALIGNED"
        rest == ~aligned /\ Len(w) = 2
        next == IF end THEN IF rest THEN "RESIDUE" ELSE "DONE" ELSE IF aligned THEN "FORWARD_ALIGNED" ELSE "FORWARD"
        out(last) == Put(Put(ch, "psdSum", p.id), "uccDgrm", Chunk(IF aligned THEN w ELSE ihs.prev \o <<w[1]>>, last))
    IN
    /\ Ihs(ihs.st) /\ ihs.st \in {"UDP_HEADER", "UDP_HEADER_ALIGNED"} /\ Some("uoe")
    /\ \E last \in IF ~end \/ rest THEN {FALSE} ELSE IF aligned THEN {TRUE} ELSE BOOLEAN :
           Read(out(last), next, IF aligned THEN <<>> ELSE Tail(w))
    /\ UNCHANGED fate

\* Half a chunk is kept for the next one when the header has an odd number of words.
IhsForward ==
    LET p == Packet0
        w == Cut(Words(p), ihs.i + 1)
        end == ihs.i + 1 = Chunks(Words(p))
        aligned == ihs.st = "FORWARD_ALIGNED"
        rest == ~aligned /\ Len(w) = 2
        next == IF ~end THEN ihs.st ELSE IF rest THEN "RESIDUE" ELSE "DONE"
    IN
    /\ Ihs(ihs.st) /\ ihs.st \in {"FORWARD", "FORWARD_ALIGNED"} /\ Some("uoe")
    /\ Read(Put(ch, "uccDgrm", Chunk(IF aligned THEN w ELSE ihs.prev \o <<w[1]>>, end /\ ~rest)),
            next, IF aligned THEN <<>> ELSE Tail(w))
    /\ UNCHANGED fate

IhsResidue ==
    /\ Ihs("RESIDUE") /\ ch' = Put(ch, "uccDgrm", Chunk(ihs.prev, TRUE))
    /\ ihs' = [ihs EXCEPT !.st = "DONE", !.prev = <<>>] /\ UNCHANGED fate

IhsDone ==
    /\ Ihs("DONE") /\ Some("cts") /\ ch' = Pop(ch, "cts")
    /\ ihs' = [ihs EXCEPT !.st = "IDLE", !.prev = <<>>] /\ UNCHANGED fate

IhsDrop ==
    LET end == ihs.i + 1 = Chunks(Words(Packet0)) IN
    /\ Ihs("DROP") /\ Some("uoe")
    /\ Read(ch, IF end THEN "IDLE" ELSE "DROP", <<>>)
    /\ IF end THEN Becomes(Packet0.id, "dropped") ELSE UNCHANGED fate

IpHeaderStripper == IhsIdle \/ IhsHeader \/ IhsUdpHeader \/ IhsForward \/ IhsResidue \/ IhsDone \/ IhsDrop

-----------------------------------------------------------------------------
(* Rx: pUdpChecksumChecker *)

Ucc(st) == ucc.st = st /\ Quiet /\ UNCHANGED <<ihs, rph, upt, tx>>

\* Mutant of UccInit: both tokens are given at once.
UccInitTwice ==
    /\ Ucc("INIT") /\ ch' = Put(Put(ch, "cts", 1), "cts", 1) /\ ucc' = [ucc EXCEPT !.st = "IDLE"]
UccInit == Ucc("INIT") /\ ch' = Put(ch, "cts", 1) /\ ucc' = [ucc EXCEPT !.st = "IDLE"]
UccIdle == Ucc("IDLE") /\ Fits("cts", 2) /\ ch' = Put(ch, "cts", 1) /\ ucc' = [ucc EXCEPT !.st = "START"]

\* A datagram whose checksum is 0 was sent without one.
UccStart ==
    LET c == Head(ch["uccDgrm"])
        id == c.w[2][1]
        none == c.w[2][2] = "none"
        rest == Put(Pop(Pop(ch, "uccDgrm"), "psdSum"), "rphDgrm", c)
    IN
    /\ Ucc("START") /\ Some("uccDgrm") /\ Some("psdSum")
    /\ Fits("rphDgrm", DataDepth) /\ Fits("csumVal", CsumDepth)
    /\ ch' = IF none THEN Put(rest, "csumVal", [id |-> id, valid |-> TRUE]) ELSE rest
    /\ ucc' = [st |-> IF none THEN "STREAM" ELSE IF c.w[2][3] = 0 THEN "CHK" ELSE "ACCUMULATE",
               seen |-> IF none THEN <<>> ELSE <<Head(ch["psdSum"])>> \o c.w]

UccStream ==
    LET c == Head(ch["uccDgrm"])
        next == IF ~c.last THEN ucc.st ELSE IF ucc.st = "STREAM" THEN "IDLE" ELSE "CHK"
    IN
    /\ Ucc(ucc.st) /\ ucc.st \in {"STREAM", "ACCUMULATE"} /\ Some("uccDgrm") /\ Fits("rphDgrm", DataDepth)
    /\ ch' = Put(Pop(ch, "uccDgrm"), "rphDgrm", c)
    /\ ucc' = [st |-> next, seen |-> IF ucc.st = "STREAM" THEN <<>> ELSE ucc.seen \o c.w]

\* The sum is right if it was taken over the datagram as it was sent.
UccVerdict ==
    LET id == ucc.seen[3][1]
        sent == <<id>> \o Datagram(id, ucc.seen[2][3], "sum", ucc.seen[3][3])
    IN
    /\ Ucc("CHK") /\ Fits("csumVal", CsumDepth)
    /\ ch' = Put(ch, "csumVal", [id |-> id, valid |-> ucc.seen = sent])
    /\ ucc' = [st |-> "IDLE", seen |-> <<>>]

UdpChecksumChecker == UccInit \/ UccIdle \/ UccStart \/ UccStream \/ UccVerdict

-----------------------------------------------------------------------------
(* Rx: pRxPacketHandler and pUdpPortTable *)

Rph(st) == rph.st = st /\ Ip4 /\ UNCHANGED <<ihs, ucc, upt, tx>>
NoDgrm == [st |-> "IDLE", id |-> 0, port |-> 0, n |-> 0, src |-> Me, hdr |-> FALSE]

RphIdle ==
    LET c == Head(ch["rphDgrm"]).w
        id == c[2][1]
    IN
    /\ Rph("IDLE") /\ Some("rphDgrm") /\ Some("hdr") /\ Fits("portReq", 2)
    /\ ch' = Put(Pop(Pop(ch, "rphDgrm"), "hdr"), "portReq", [id |-> id, port |-> c[1][3]])
    /\ rph' = [st |-> "PORT_LOOKUP", id |-> id, port |-> c[1][3], n |-> c[2][3], src |-> Me, hdr |-> FALSE]
    /\ Claim(Head(ch["hdr"]).id = id /\ Head(ch["hdr"]).i = 1) /\ UNCHANGED fate

RphLookup ==
    LET valid == Head(ch["csumVal"])
        port == Head(ch["portRep"])
        h == Head(ch["hdr"])
        rest == Pop(Pop(Pop(ch, "csumVal"), "portRep"), "hdr")
        next == IF ~valid.valid THEN "DRAIN_DATAGRAM" ELSE IF port.open THEN "STREAM_FIRST" ELSE "UNREACHABLE"
    IN
    /\ Rph("PORT_LOOKUP") /\ Some("portRep") /\ Some("csumVal") /\ Some("hdr") /\ Room("uaifLen")
    /\ ch' = IF next = "STREAM_FIRST" THEN Put(rest, "uaifLen", rph.n) ELSE rest
    /\ rph' = [rph EXCEPT !.st = next, !.src = h.src]
    /\ Claim(valid.id = rph.id /\ port.id = rph.id /\ h.id = rph.id /\ h.i = 2) /\ UNCHANGED fate

\* Mutant of After: the IP header is drained even if it is over.
AfterAlways(hdr) == "DRAIN_IP4HDR"
\* The datagram is over; is its IP header over, too?
After(hdr) == IF hdr THEN "IDLE" ELSE "DRAIN_IP4HDR"
\* The first chunk of data goes with the metadata.
RphStreamFirst ==
    LET c == Head(ch["rphDgrm"])
        h == Head(ch["hdr"])
        meta == [id |-> rph.id, src |-> rph.src, port |-> rph.port]
        full == Put(Put(Pop(Pop(ch, "hdr"), "rphDgrm"), "uaifMeta", meta), "uaifData", c)
        empty == rph.n = 0
    IN
    /\ Rph("STREAM_FIRST") /\ Some("rphDgrm") /\ Some("hdr") /\ Rooms({"uaifData", "uaifMeta"})
    /\ ch' = IF empty THEN Pop(ch, "hdr") ELSE full
    /\ rph' = [rph EXCEPT !.hdr = h.last, !.st = IF empty \/ c.last THEN After(h.last) ELSE "STREAM"]
    /\ Claim(h.id = rph.id /\ h.i = 3) /\ UNCHANGED fate

\* Chunks of the IP header, if there are more, are drained on the way.
RphStream ==
    LET c == Head(ch["rphDgrm"])
        drain == ~c.last /\ ~rph.hdr /\ Some("hdr")
        out == Put(Pop(ch, "rphDgrm"), "uaifData", c)
    IN
    /\ Rph("STREAM") /\ Some("rphDgrm") /\ Rooms({"uaifData", "uaifMeta"})
    /\ ch' = IF drain THEN Pop(out, "hdr") ELSE out
    /\ rph' = [rph EXCEPT !.hdr = @ \/ (drain /\ Head(ch["hdr"]).last),
                          !.st = IF c.last THEN After(rph.hdr) ELSE "STREAM"]
    /\ Claim(c.w[1][1] = rph.id) /\ UNCHANGED fate

RphDrainDatagram ==
    LET c == Head(ch["rphDgrm"]) IN
    /\ Rph("DRAIN_DATAGRAM") /\ Some("rphDgrm") /\ ch' = Pop(ch, "rphDgrm")
    /\ rph' = [rph EXCEPT !.st = IF c.last THEN After(rph.hdr) ELSE "DRAIN_DATAGRAM"]
    /\ Claim(c.w[1][1] = rph.id)
    /\ IF c.last /\ fate[rph.id] = "in" THEN Becomes(rph.id, "dropped") ELSE UNCHANGED fate

\* Mutant of RphDrainHeader: one chunk of the IP header is drained.
RphDrainHeaderOne ==
    /\ Rph("DRAIN_IP4HDR") /\ Some("hdr") /\ ch' = Pop(ch, "hdr")
    /\ rph' = NoDgrm /\ UNCHANGED <<fate, mixed>>
RphDrainHeader ==
    /\ Rph("DRAIN_IP4HDR") /\ Some("hdr") /\ ch' = Pop(ch, "hdr")
    /\ rph' = IF Head(ch["hdr"]).last THEN NoDgrm ELSE rph
    /\ UNCHANGED <<fate, mixed>>

\* The IP header, of which two chunks have been read, and the UDP header go to ICMP.
RphUnreachable ==
    LET h == Head(ch["hdr"]) IN
    /\ Rph("UNREACHABLE") /\ Some("hdr") /\ (h.last => Room("unreach"))
    /\ ch' = IF h.last THEN Put(Pop(ch, "hdr"), "unreach", [id |-> rph.id, src |-> rph.src]) ELSE Pop(ch, "hdr")
    /\ rph' = IF h.last THEN [rph EXCEPT !.hdr = TRUE, !.st = "DRAIN_DATAGRAM"] ELSE rph
    /\ IF h.last THEN Becomes(rph.id, "refused") ELSE UNCHANGED fate
    /\ Claim(h.id = rph.id)

RxPacketHandler == \/ RphIdle \/ RphLookup \/ RphStreamFirst \/ RphStream
                   \/ RphDrainDatagram \/ RphDrainHeader \/ RphUnreachable

\* Lookups first, then openings, then closings.
UptTake ==
    LET c == IF Some("portReq") THEN "portReq" ELSE IF Some("lsnReq") THEN "lsnReq" ELSE "clsReq" IN
    /\ upt.st = "WAIT4REQ" /\ Some(c) /\ ch' = Pop(ch, c)
    /\ upt' = [upt EXCEPT !.st = c, !.req = Head(ch[c])]
    /\ Quiet /\ UNCHANGED <<ihs, ucc, rph, tx>>

UptReply ==
    LET port == upt.req.port
        to == [portReq |-> "portRep", lsnReq |-> "lsnRep", clsReq |-> "clsRep"]
        opened == CASE upt.st = "lsnReq" -> upt.open \cup {port} [] upt.st = "clsReq" -> upt.open \ {port}
                    [] OTHER -> upt.open
    IN
    /\ upt.st # "WAIT4REQ" /\ Fits(to[upt.st], 2)
    /\ ch' = Put(ch, to[upt.st], [id |-> upt.req.id, port |-> port, open |-> port \in opened])
    /\ upt' = [st |-> "WAIT4REQ", req |-> NoReq, open |-> opened]
    /\ Quiet /\ UNCHANGED <<ihs, ucc, rph, tx>>

UdpPortTable == UptTake \/ UptReply
RxEngine == IpHeaderStripper \/ UdpChecksumChecker \/ RxPacketHandler \/ UdpPortTable

-----------------------------------------------------------------------------
(* Tx: pTxApplicationInterface and pTxDatagramHandler *)

Tai(st) == tai.st = st /\ Quiet /\ UNCHANGED <<rx, tdh, uca, uha, iha>>
TaiIdle ==
    LET n == Head(ch["taiLen"]) IN
    /\ Tai("IDLE") /\ Some("taiMeta") /\ Some("taiLen")
    /\ ch' = Pop(Pop(ch, "taiMeta"), "taiLen")
    /\ tai' = [st |-> "DATA", stream |-> n = 0, left |-> n, split |-> 0, meta |-> <<Head(ch["taiMeta"])>>]

\* Mutant of Full: the split is made a chunk too late.
FullLate(n) == n > Mds
Full(n) == n = Mds

\* A datagram ends with the message, or when it is as long as can be.  The
\* length of a message that is streamed is not known; its last chunk is marked.
TaiData ==
    LET c == Head(ch["taiData"])
        n == tai.split + Len(c.w)
        over == IF tai.stream THEN c.last ELSE tai.left = Len(c.w)
        end == over \/ Full(n)
    IN
    /\ Tai("DATA") /\ Some("taiData") /\ Fits("tdhData", DataDepth)
    /\ ch' = Put(Pop(ch, "taiData"), "tdhData", Chunk(c.w, end \/ c.last))
    /\ tai' = [tai EXCEPT !.split = n, !.left = IF tai.stream THEN @ ELSE @ - Len(c.w),
                          !.stream = @ /\ ~over, !.st = IF end THEN "META" ELSE "DATA"]

TaiMeta ==
    LET over == ~tai.stream /\ tai.left = 0 IN
    /\ Tai("META") /\ Rooms({"tdhMeta", "tdhLen"})
    /\ ch' = Put(Put(ch, "tdhMeta", tai.meta[1]), "tdhLen", tai.split)
    /\ tai' = IF over THEN NoMsg ELSE [tai EXCEPT !.st = "DATA", !.split = 0]

TxApplicationInterface == TaiIdle \/ TaiData \/ TaiMeta

Tdh(st) == tdh.st = st /\ Quiet /\ UNCHANGED <<rx, tai, uca, uha, iha>>
\* A chunk for the sum: of the pseudo header, or of the datagram.
Summed(f, what, w, last) == Put(f, "ucaData", [what |-> what, w |-> w, last |-> last])
TdhMeta ==
    LET m == Head(ch["tdhMeta"]) IN
    /\ Tdh("PKT1") /\ Some("tdhMeta") /\ Rooms({"uhaMeta", "ucaData"})
    /\ ch' = Summed(Put(Pop(ch, "tdhMeta"), "uhaMeta", m), "meta", <<m>>, FALSE)
    /\ tdh' = [tdh EXCEPT !.st = "PKT2"]

TdhLen ==
    LET n == Head(ch["tdhLen"]) IN
    /\ Tdh("PKT2") /\ Some("tdhLen") /\ Rooms({"uhaLen", "ucaData"})
    /\ ch' = Summed(Put(Pop(ch, "tdhLen"), "uhaLen", n), "len", <<n>>, FALSE)
    /\ tdh' = [tdh EXCEPT !.st = "PKT3"]

\* The length takes half a chunk of the sum, so that data are added half a
\* chunk behind; what does not fit into the last chunk makes one of its own.
TdhData ==
    LET c == Head(ch["tdhData"])
        fits == Len(c.w) = 1
        sum == tdh.prev \o <<c.w[1]>>
    IN
    /\ Tdh(tdh.st) /\ tdh.st \in {"PKT3", "STREAM"}
    /\ Some("tdhData") /\ Room("ucaData") /\ Fits("uhaData", DataDepth)
    /\ ch' = Summed(Put(Pop(ch, "tdhData"), "uhaData", c), "data", sum, c.last /\ fits)
    /\ tdh' = [prev |-> IF c.last /\ fits THEN <<>> ELSE Tail(c.w),
               st |-> IF ~c.last THEN "STREAM" ELSE IF fits THEN "PKT1" ELSE "RESIDUE"]

TdhResidue ==
    /\ Tdh("RESIDUE") /\ Room("ucaData") /\ ch' = Summed(ch, "data", tdh.prev, TRUE)
    /\ tdh' = [st |-> "PKT1", prev |-> <<>>]

TxDatagramHandler == TdhMeta \/ TdhLen \/ TdhData \/ TdhResidue

-----------------------------------------------------------------------------
(* Tx: pUdpChecksumAccumulator, pUdpHeaderAdder and pIp4HeaderAdder *)

UcaAccumulate ==
    LET c == Head(ch["ucaData"]) IN
    /\ ~uca.done /\ Some("ucaData") /\ ch' = Pop(ch, "ucaData")
    /\ uca' = [sum |-> IF c.what = "data" THEN [uca.sum EXCEPT !.data = @ \o c.w]
                       ELSE [uca.sum EXCEPT ![c.what] = c.w], done |-> c.last]
    /\ Quiet /\ UNCHANGED <<rx, tai, tdh, uha, iha>>

NoSum == [meta |-> <<>>, len |-> <<>>, data |-> <<>>]
UcaDone ==
    /\ uca.done /\ Room("ucaCsum") /\ ch' = Put(ch, "ucaCsum", uca.sum)
    /\ uca' = [sum |-> NoSum, done |-> FALSE]
    /\ Quiet /\ UNCHANGED <<rx, tai, tdh, uha, iha>>

Uha(st) == uha.st = st /\ Quiet /\ UNCHANGED <<rx, tai, tdh, uca, iha>>
\* The header waits for the checksum of the data that follow it.
UhaIdle ==
    LET m == Head(ch["uhaMeta"])
        n == Head(ch["uhaLen"])
        rest == Pop(Pop(Pop(ch, "uhaMeta"), "uhaLen"), "ucaCsum")
        head == [w |-> <<<<m.id, "ports", m.port>>, <<m.id, "sum", n>>>>, last |-> FALSE]
    IN
    /\ Uha("IDLE") /\ Some("uhaLen") /\ Some("uhaMeta") /\ Some("ucaCsum") /\ Rooms({"ihLen", "ihPair", "ihData"})
    /\ ch' = Put(Put(Put(rest, "ihLen", n), "ihPair", [dst |-> m.dst, sum |-> Head(ch["ucaCsum"])]), "ihData", head)
    /\ uha' = [st |-> "STREAM", left |-> n]

\* The length decides where the datagram ends, unless the data end before.
UhaStream ==
    LET c == Head(ch["uhaData"])
        more == uha.left > 2
    IN
    /\ Uha("STREAM") /\ Some("uhaData") /\ Room("ihData")
    /\ ch' = Put(Pop(ch, "uhaData"), "ihData", Chunk(c.w, c.last \/ ~more))
    /\ uha' = IF more /\ ~c.last THEN [uha EXCEPT !.left = @ - 2] ELSE [st |-> "IDLE", left |-> 0]

\* The packet is passed on when it is complete.  Its IP header is written when
\* length, addresses and the UDP header are there.
IhaHeader ==
    LET pair == Head(ch["ihPair"])
        u == Head(ch["ihData"]).w
    IN
    /\ iha = <<>> /\ Some("ihLen") /\ Some("ihData") /\ Some("ihPair")
    /\ ch' = Pop(Pop(Pop(ch, "ihLen"), "ihPair"), "ihData")
    /\ iha' = <<[Packet("udp", u[1][1], pair.dst) EXCEPT !.body = u, !.len = Head(ch["ihLen"]), !.csum = pair.sum]>>
    /\ Quiet /\ UNCHANGED <<rx, tai, tdh, uca, uha>>

IhaForward ==
    LET c == Head(ch["ihData"])
        p == [iha[1] EXCEPT !.body = @ \o c.w]
    IN
    /\ iha # <<>> /\ Some("ihData") /\ Room("l3udp")
    /\ ch' = IF c.last THEN Put(Pop(ch, "ihData"), "l3udp", p) ELSE Pop(ch, "ihData")
    /\ iha' = IF c.last THEN <<>> ELSE <<p>>
    /\ Quiet /\ UNCHANGED <<rx, tai, tdh, uca, uha>>

TxEngine == \/ TxApplicationInterface \/ TxDatagramHandler \/ UcaAccumulate \/ UcaDone
            \/ UhaIdle \/ UhaStream \/ IhaHeader \/ IhaForward

-----------------------------------------------------------------------------
\* The ports in opened have been opened before.
UdpInit(waiting, opened) ==
    /\ IpInit(waiting) /\ mixed = FALSE
    /\ ihs = [st |-> "IDLE", i |-> 0, prev |-> <<>>]
    /\ ucc = [st |-> "INIT", seen |-> <<>>]
    /\ rph = NoDgrm
    /\ upt = [st |-> "WAIT4REQ", req |-> NoReq, open |-> opened]
    /\ tai = NoMsg /\ tdh = [st |-> "PKT1", prev |-> <<>>]
    /\ uca = [sum |-> NoSum, done |-> FALSE] /\ uha = [st |-> "IDLE", left |-> 0] /\ iha = <<>>
=============================================================================
