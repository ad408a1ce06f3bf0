--------------------------- MODULE UdpPath_proofs ---------------------------
(***************************************************************************)
(* Two theorems about the UDP path, whatever frames, messages and segments *)
(* wait, and however long the streams are.                                 *)
(*                                                                         *)
(* PortsAgreeHolds: the ports that are open in UOE are those of the role.  *)
(* A port goes through seven streams and four processes: pPortLogic asks   *)
(* pUdpLsn, or pUdpCls, which ask UOE, and only the answer to an opening   *)
(* comes back.                                                             *)
(*                                                                         *)
(* FatesAreJust: each frame gets its own verdict.  A packet, what has been *)
(* found out about it and what is to be done with it travel in streams of  *)
(* their own, and only their order says what belongs together.             *)
(***************************************************************************)
EXTENDS UdpPath, WellFoundedInduction, TLAPS

----------------------------------------------------------------------------
(***************************************************************************)
(* A fact about numbers.                                                   *)
(***************************************************************************)

\* A non-empty set of natural numbers has a least element.
LEMMA LeastNat ==
    ASSUME NEW T, T \subseteq Nat, T # {}
    PROVE  \E x \in T : \A y \in T : x <= y
<1> DEFINE Below == {ss \in Nat \X Nat : ss[1] < ss[2]}
<1>1. IsWellFoundedOn(Below, Nat)
  BY NatLessThanWellFounded, Zenon DEF OpToRel
<1>2. PICK x \in T : \A y \in T : ~(<<y, x>> \in Below)
  BY <1>1, WFMin
<1>3. ASSUME NEW y \in T
      PROVE  x <= y
  <2>1. <<y, x>> \in Nat \X Nat
    OBVIOUS
  <2>2. ~(y < x)
    BY <1>2, <2>1
  <2> QED
    BY <2>2
<1> QED
  BY <1>3

----------------------------------------------------------------------------

PortStream == {"toOpen", "opened", "toClose", "lsnReq", "lsnRep", "clsReq", "clsRep"}
Elems(s) == {s[i] : i \in 1 .. Len(s)}
Once(s) == \A i, j \in 1 .. Len(s) : s[i] = s[j] => i = j
PortIn(s) == {r.port : r \in Elems(s)}
Request == [id : {0}, port : Nat]
Answer == [id : {0}, port : Nat, open : BOOLEAN]

\* The streams and tables a port goes through.
PortTypes ==
    /\ DOMAIN ch = Stream
    /\ ch["toOpen"] \in Seq(Nat) /\ ch["toClose"] \in Seq(Nat) /\ ch["opened"] \in Seq(BOOLEAN)
    /\ ch["lsnReq"] \in Seq(Request) /\ ch["clsReq"] \in Seq(Request)
    /\ ch["lsnRep"] \in Seq(Answer) /\ ch["clsRep"] \in Seq(Answer)
    /\ prt \in [st : {"IDLE", "START_UDP_CLS", "NEW_UDP_REQ", "NEW_UDP_REP"}, ports : SUBSET Nat, port : Nat]
    /\ lsn \in [st : {"SEND_REQ", "WAIT_ACK"}, late : Nat]
    /\ cls \in {"NEXT", "WAIT4RESP"}
    /\ upt = [st |-> upt.st, req |-> upt.req, open |-> upt.open]
    /\ upt.st \in {"WAIT4REQ", "portReq", "lsnReq", "clsReq"} /\ upt.open \in SUBSET Nat
    /\ upt.st \in {"lsnReq", "clsReq"} => upt.req \in Request
    /\ role \in [dec : BOOLEAN, ports : Seq(SUBSET Nat)] /\ role.ports # <<>>

\* What pPortLogic has noted is what the role wants, as far as it has come.
Noted ==
    /\ role.dec => Len(role.ports) > 1
    /\ prt.ports \subseteq Ports
    /\ prt.st = "NEW_UDP_REQ" => Ports \ prt.ports # {}
    /\ prt.st = "NEW_UDP_REP" => prt.port \in Ports \ prt.ports

\* UOE has a request of pUdpLsn, or of pUdpCls, in its hands.
Opening == upt.st = "lsnReq"
Closing == upt.st = "clsReq"
Held(b) == IF b THEN {upt.req.port} ELSE {}

\* The ports on their way to be opened; those on their way to be closed.
ToBeOpened == Elems(ch["toOpen"]) \cup PortIn(ch["lsnReq"]) \cup Held(Opening)
ToBeClosed == Elems(ch["toClose"]) \cup PortIn(ch["clsReq"]) \cup Held(Closing)

-----------------------------------------------------------------------------
(* No answer is late.  The request of pPortLogic is in one place. *)

\* The stages of a request to open a port.
OpenStreams(to, req, rep, fed) ==
    ch["toOpen"] = to /\ ch["lsnReq"] = req /\ ch["lsnRep"] = rep /\ ch["opened"] = fed

Toward(p) == OpenStreams(<<p>>, <<>>, <<>>, <<>>) /\ lsn.st = "SEND_REQ" /\ ~Opening
AtUoe(p) == OpenStreams(<<>>, <<[id |-> 0, port |-> p]>>, <<>>, <<>>) /\ lsn.st = "WAIT_ACK" /\ ~Opening
InUoe(p) == OpenStreams(<<>>, <<>>, <<>>, <<>>) /\ lsn.st = "WAIT_ACK" /\ Opening /\ upt.req.port = p
Back(p) == OpenStreams(<<>>, <<>>, <<[id |-> 0, port |-> p, open |-> TRUE]>>, <<>>) /\ lsn.st = "WAIT_ACK" /\ ~Opening
Told == OpenStreams(<<>>, <<>>, <<>>, <<TRUE>>) /\ lsn.st = "SEND_REQ" /\ ~Opening
Nowhere == OpenStreams(<<>>, <<>>, <<>>, <<>>) /\ lsn.st = "SEND_REQ" /\ ~Opening

OpeningLine ==
    /\ lsn.late = 0
    /\ prt.st # "NEW_UDP_REP" => Nowhere
    /\ prt.st = "NEW_UDP_REP" =>
          \/ Toward(prt.port) \/ AtUoe(prt.port) \/ InUoe(prt.port)
          \/ Back(prt.port) \/ Told

\* The stages of a request to close a port.
ClosingLine ==
    /\ cls = "NEXT" => ch["clsReq"] = <<>> /\ ch["clsRep"] = <<>> /\ ~Closing
    /\ cls = "WAIT4RESP" =>
          \/ Len(ch["clsReq"]) = 1 /\ ch["clsRep"] = <<>> /\ ~Closing
          \/ ch["clsReq"] = <<>> /\ ch["clsRep"] = <<>> /\ Closing
          \/ ch["clsReq"] = <<>> /\ Len(ch["clsRep"]) = 1 /\ ~Closing
    /\ Once(ch["toClose"])
    /\ Elems(ch["toClose"]) \cap (PortIn(ch["clsReq"]) \cup Held(Closing)) = {}
    /\ ToBeClosed \cap prt.ports = {}
    \* Ports are closed while there is no role, and opened again by the next one.
    /\ prt.st = "START_UDP_CLS" => role.dec /\ prt.ports # {}
    /\ ch["toClose"] # <<>> \/ cls = "WAIT4RESP" => role.dec /\ prt.st \in {"IDLE", "START_UDP_CLS"}

\* The port that has been opened while pPortLogic does not know.
Unknown == IF ch["lsnRep"] # <<>> \/ ch["opened"] # <<>> THEN {prt.port} ELSE {}
OnTime ==
    /\ OpeningLine /\ ClosingLine
    /\ upt.open = prt.ports \cup ToBeClosed \cup Unknown

-----------------------------------------------------------------------------
(* One role.  Nothing is closed; answers may be late. *)

Stays ==
    /\ ~role.dec /\ Len(role.ports) = 1
    /\ prt.st # "START_UDP_CLS" /\ cls = "NEXT" /\ ~Closing
    /\ ch["toClose"] = <<>> /\ ch["clsReq"] = <<>>
    /\ ToBeOpened \cup upt.open \subseteq Ports
    /\ prt.ports \subseteq ToBeOpened \cup upt.open
    /\ prt.st = "NEW_UDP_REP" => prt.port \in ToBeOpened \cup upt.open

IInv == PortTypes /\ Noted /\ (OnTime \/ Stays)

-----------------------------------------------------------------------------
(* What is put into one stream does not change another. *)

LEMMA PutIs ==
    ASSUME NEW f, NEW c, NEW m, c \in DOMAIN f
    PROVE  /\ DOMAIN Put(f, c, m) = DOMAIN f
           /\ Put(f, c, m)[c] = Append(f[c], m)
           /\ \A x \in DOMAIN f : x # c => Put(f, c, m)[x] = f[x]
BY DEF Put

LEMMA PopIs ==
    ASSUME NEW f, NEW c, c \in DOMAIN f
    PROVE  /\ DOMAIN Pop(f, c) = DOMAIN f
           /\ Pop(f, c)[c] = Tail(f[c])
           /\ \A x \in DOMAIN f : x # c => Pop(f, c)[x] = f[x]
BY DEF Pop

\* g has the ports that f has.
SamePorts(f, g) ==
    /\ PortStream \subseteq DOMAIN f /\ DOMAIN g = DOMAIN f
    /\ \A c \in PortStream : g[c] = f[c]

LEMMA PutElsewhere ==
    ASSUME NEW f, NEW g, NEW c, NEW m, c \notin PortStream, SamePorts(f, g)
    PROVE  SamePorts(f, Put(g, c, m))
BY DEF SamePorts, Put

LEMMA PopElsewhere ==
    ASSUME NEW f, NEW g, NEW c, c \notin PortStream, SamePorts(f, g)
    PROVE  SamePorts(f, Pop(g, c))
BY DEF SamePorts, Pop

LEMMA PassElsewhere ==
    ASSUME NEW a, NEW b, NEW m, a \notin PortStream, b \notin PortStream,
           SamePorts(ch, ch), Pass(a, b, m)
    PROVE  SamePorts(ch, ch')
BY PutElsewhere, PopElsewhere DEF Pass

LEMMA IprxElsewhere ==
    ASSUME SamePorts(ch, ch), DOMAIN ch = Stream, Iprx
    PROVE  SamePorts(ch, ch')
<1>1. CASE IBuf
  BY <1>1, PassElsewhere DEF IBuf, PortStream
<1>2. CASE MacProtocolDetector
  BY <1>2, PutElsewhere, PopElsewhere DEF MacProtocolDetector, PortStream
<1>3. CASE IpLengthChecker
  BY <1>3, PutElsewhere, PopElsewhere DEF IpLengthChecker, PortStream
<1>4. CASE IpChecksumAccumulator
  BY <1>4, PutElsewhere, PopElsewhere DEF IpChecksumAccumulator, PortStream
<1>5. CASE IpChecksumChecker
  BY <1>5, PassElsewhere DEF IpChecksumChecker, PortStream
<1>6. CASE IpInvalidDropper
  <2> DEFINE rest == [c \in Stream |-> IF c \in Taken \cup {"iid"} THEN Tail(ch[c]) ELSE ch[c]]
  <2>1. SamePorts(ch, rest)
    BY DEF SamePorts, PortStream, Taken, Verdicts
  <2>2. "icl" \notin PortStream
    BY DEF PortStream
  <2>3. \/ ch' = Put(rest, "icl", Head(ch["iid"]))
        \/ ch' = rest
    BY <1>6, Zenon DEF IpInvalidDropper
  <2> HIDE DEF rest
  <2> QED
    BY <2>1, <2>2, <2>3, PutElsewhere
<1>7. CASE IpCutLength
  BY <1>7, PassElsewhere DEF IpCutLength, PortStream
<1>8. CASE IpPacketRouter
  <2>1. \A c \in Route(Head(ch["ipr"])) : c \notin PortStream
    BY DEF Route, PortStream
  <2>2. "ipr" \notin PortStream
    BY DEF PortStream
  <2>3. \/ ch' = Pop(ch, "ipr")
        \/ \E c \in Route(Head(ch["ipr"])) : ch' = Put(Pop(ch, "ipr"), c, Head(ch["ipr"]))
    BY <1>8, Zenon DEF IpPacketRouter
  <2> QED
    BY <2>1, <2>2, <2>3, PutElsewhere, PopElsewhere
<1> QED
  BY <1>1, <1>2, <1>3, <1>4, <1>5, <1>6, <1>7, <1>8 DEF Iprx

LEMMA IcmpElsewhere ==
    ASSUME SamePorts(ch, ch), Icmp
    PROVE  SamePorts(ch, ch')
<1>1. CASE IccForward
  BY <1>1, PassElsewhere DEF IccForward, PortStream
<1>2. CASE IccVerdict
  BY <1>2, PutElsewhere DEF IccVerdict, PortStream
<1>3. CASE InvalidPacketDropper
  BY <1>3, PutElsewhere, PopElsewhere DEF InvalidPacketDropper, PortStream
<1>4. CASE ControlMessageBuilder
  BY <1>4, PutElsewhere, PopElsewhere DEF ControlMessageBuilder, PortStream
<1>5. CASE IpHeaderAppender
  BY <1>5, PutElsewhere, PopElsewhere DEF IpHeaderAppender, PortStream
<1>6. CASE IcmpChecksumInserter
  BY <1>6, PutElsewhere, PopElsewhere DEF IcmpChecksumInserter, PortStream
<1> QED
  BY <1>1, <1>2, <1>3, <1>4, <1>5, <1>6 DEF Icmp

LEMMA ArpsElsewhere ==
    ASSUME SamePorts(ch, ch), Arps
    PROVE  SamePorts(ch, ch')
<1>1. CASE ArpPacketReceiver
  BY <1>1, PutElsewhere, PopElsewhere DEF ArpPacketReceiver, PortStream
<1>2. CASE ArpPacketSender
  BY <1>2, PassElsewhere DEF ArpPacketSender, PortStream
<1>3. CASE AccTake
  BY <1>3, PutElsewhere, PopElsewhere DEF AccTake, PortStream
<1>4. CASE AccReply
  BY <1>4, PutElsewhere DEF AccReply, PortStream
<1> QED
  BY <1>1, <1>2, <1>3, <1>4 DEF Arps

LEMMA IptxElsewhere ==
    ASSUME SamePorts(ch, ch), Iptx
    PROVE  SamePorts(ch, ch')
<1>1. CASE L3mux
  BY <1>1, PassElsewhere DEF L3mux, PortStream
<1>2. CASE HeaderChecksumAccumulator
  BY <1>2, PutElsewhere, PopElsewhere DEF HeaderChecksumAccumulator, PortStream
<1>3. CASE IpChecksumInsert
  BY <1>3, PutElsewhere, PopElsewhere DEF IpChecksumInsert, PortStream
<1>4. CASE Ip4AddressExtractor
  BY <1>4, PutElsewhere, PopElsewhere DEF Ip4AddressExtractor, PortStream
<1>5. CASE MacAddressInserter
  BY <1>5, PutElsewhere, PopElsewhere DEF MacAddressInserter, PortStream
<1> QED
  BY <1>1, <1>2, <1>3, <1>4, <1>5 DEF Iptx

LEMMA ReadElsewhere ==
    ASSUME NEW f, NEW st, NEW prev, SamePorts(ch, f), Read(f, st, prev)
    PROVE  SamePorts(ch, ch')
BY PopElsewhere DEF Read, PortStream

LEMMA IhsElsewhere ==
    ASSUME SamePorts(ch, ch), IpHeaderStripper
    PROVE  SamePorts(ch, ch')
<1>1. CASE IhsIdle
  BY <1>1, Zenon DEF IhsIdle, PortStream
<1>2. CASE IhsHeader
  BY <1>2, ReadElsewhere, PutElsewhere DEF IhsHeader, PortStream
<1>3. CASE IhsUdpHeader
  BY <1>3, ReadElsewhere, PutElsewhere DEF IhsUdpHeader, PortStream
<1>4. CASE IhsForward
  BY <1>4, ReadElsewhere, PutElsewhere DEF IhsForward, PortStream
<1>5. CASE IhsResidue
  BY <1>5, PutElsewhere DEF IhsResidue, PortStream
<1>6. CASE IhsDone
  BY <1>6, PopElsewhere DEF IhsDone, PortStream
<1>7. CASE IhsDrop
  BY <1>7, ReadElsewhere DEF IhsDrop, PortStream
<1> QED
  BY <1>1, <1>2, <1>3, <1>4, <1>5, <1>6, <1>7 DEF IpHeaderStripper

LEMMA UccElsewhere ==
    ASSUME SamePorts(ch, ch), UdpChecksumChecker
    PROVE  SamePorts(ch, ch')
<1>1. CASE UccInit
  BY <1>1, PutElsewhere DEF UccInit, PortStream
<1>2. CASE UccIdle
  BY <1>2, PutElsewhere DEF UccIdle, PortStream
<1>3. CASE UccStart
  BY <1>3, PutElsewhere, PopElsewhere DEF UccStart, PortStream
<1>4. CASE UccStream
  BY <1>4, PutElsewhere, PopElsewhere DEF UccStream, PortStream
<1>5. CASE UccVerdict
  BY <1>5, PutElsewhere DEF UccVerdict, PortStream
<1> QED
  BY <1>1, <1>2, <1>3, <1>4, <1>5 DEF UdpChecksumChecker

LEMMA RphElsewhere ==
    ASSUME SamePorts(ch, ch), RxPacketHandler
    PROVE  SamePorts(ch, ch')
<1>1. CASE RphIdle
  BY <1>1, PutElsewhere, PopElsewhere DEF RphIdle, PortStream
<1>2. CASE RphLookup
  BY <1>2, PutElsewhere, PopElsewhere DEF RphLookup, PortStream
<1>3. CASE RphStreamFirst
  BY <1>3, PutElsewhere, PopElsewhere DEF RphStreamFirst, PortStream
<1>4. CASE RphStream
  BY <1>4, PutElsewhere, PopElsewhere DEF RphStream, PortStream
<1>5. CASE RphDrainDatagram
  BY <1>5, PutElsewhere, PopElsewhere DEF RphDrainDatagram, PortStream
<1>6. CASE RphDrainHeader
  BY <1>6, PutElsewhere, PopElsewhere DEF RphDrainHeader, PortStream
<1>7. CASE RphUnreachable
  BY <1>7, PutElsewhere, PopElsewhere DEF RphUnreachable, PortStream
<1> QED
  BY <1>1, <1>2, <1>3, <1>4, <1>5, <1>6, <1>7 DEF RxPacketHandler

LEMMA TxEngineElsewhere ==
    ASSUME SamePorts(ch, ch), TxEngine
    PROVE  SamePorts(ch, ch')
<1>1. CASE TaiIdle
  BY <1>1, PutElsewhere, PopElsewhere DEF TaiIdle, PortStream
<1>2. CASE TaiData
  BY <1>2, PutElsewhere, PopElsewhere DEF TaiData, PortStream
<1>3. CASE TaiMeta
  BY <1>3, PutElsewhere, PopElsewhere DEF TaiMeta, PortStream
<1>4. CASE TdhMeta
  BY <1>4, PutElsewhere, PopElsewhere DEF TdhMeta, Summed, PortStream
<1>5. CASE TdhLen
  BY <1>5, PutElsewhere, PopElsewhere DEF TdhLen, Summed, PortStream
<1>6. CASE TdhData
  BY <1>6, PutElsewhere, PopElsewhere DEF TdhData, Summed, PortStream
<1>7. CASE TdhResidue
  BY <1>7, PutElsewhere, PopElsewhere DEF TdhResidue, Summed, PortStream
<1>8. CASE UcaAccumulate
  BY <1>8, PutElsewhere, PopElsewhere DEF UcaAccumulate, PortStream
<1>9. CASE UcaDone
  BY <1>9, PutElsewhere, PopElsewhere DEF UcaDone, PortStream
<1>10. CASE UhaIdle
  BY <1>10, PutElsewhere, PopElsewhere DEF UhaIdle, PortStream
<1>11. CASE UhaStream
  BY <1>11, PutElsewhere, PopElsewhere DEF UhaStream, PortStream
<1>12. CASE IhaHeader
  BY <1>12, PutElsewhere, PopElsewhere DEF IhaHeader, PortStream
<1>13. CASE IhaForward
  BY <1>13, PutElsewhere, PopElsewhere DEF IhaForward, PortStream
<1> QED
  BY <1>1, <1>2, <1>3, <1>4, <1>5, <1>6, <1>7, <1>8, <1>9, <1>10, <1>11, <1>12, <1>13 DEF TxEngine, TxApplicationInterface, TxDatagramHandler

LEMMA UdpTXElsewhere ==
    ASSUME SamePorts(ch, ch), UdpTX \/ UtdDeq
    PROVE  SamePorts(ch, ch')
<1>1. CASE UtxInval
  BY <1>1, PutElsewhere, PopElsewhere DEF UtxInval, PortStream
<1>2. CASE UtxMeta
  BY <1>2, PutElsewhere, PopElsewhere DEF UtxMeta, PortStream
<1>3. CASE UtxReply
  BY <1>3, PutElsewhere, PopElsewhere DEF UtxReply, PortStream
<1>4. CASE UtxFirst
  BY <1>4, PutElsewhere, PopElsewhere DEF UtxFirst, PortStream
<1>5. CASE UtxData
  BY <1>5, PutElsewhere, PopElsewhere DEF UtxData, PortStream
<1>6. CASE UtdDeq
  BY <1>6, PutElsewhere, PopElsewhere DEF UtdDeq, PortStream
<1> QED
  BY <1>1, <1>2, <1>3, <1>4, <1>5, <1>6 DEF UdpTX

LEMMA UdpRxElsewhere ==
    ASSUME SamePorts(ch, ch), UdpRx \/ UrdDeq
    PROVE  SamePorts(ch, ch')
<1>1. CASE UrxInval
  BY <1>1, PutElsewhere, PopElsewhere DEF UrxInval, PortStream
<1>2. CASE UrxMeta
  BY <1>2, PutElsewhere, PopElsewhere DEF UrxMeta, PortStream
<1>3. CASE UrxReply
  BY <1>3, PutElsewhere, PopElsewhere DEF UrxReply, PortStream
<1>4. CASE UrxFirst
  BY <1>4, PutElsewhere, PopElsewhere DEF UrxFirst, PortStream
<1>5. CASE UrxData
  BY <1>5, PutElsewhere, PopElsewhere DEF UrxData, PortStream
<1>6. CASE UrdDeq
  BY <1>6, PutElsewhere, PopElsewhere DEF UrdDeq, PortStream
<1> QED
  BY <1>1, <1>2, <1>3, <1>4, <1>5, <1>6 DEF UdpRx

LEMMA OthersElsewhere ==
    ASSUME SamePorts(ch, ch), MrtAnswer \/ Wire \/ ToeTake \/ RoleLeaves \/ RoleArrives
    PROVE  SamePorts(ch, ch')
<1>1. CASE MrtAnswer
  BY <1>1, PassElsewhere DEF MrtAnswer, PortStream
<1>2. CASE Wire
  BY <1>2, PutElsewhere, PopElsewhere DEF Wire, PortStream
<1>3. CASE ToeTake
  BY <1>3, PopElsewhere DEF ToeTake, PortStream
<1>4. CASE RoleLeaves
  BY <1>4, PutElsewhere, PopElsewhere DEF RoleLeaves, PortStream
<1>5. CASE RoleArrives
  BY <1>5, PutElsewhere DEF RoleArrives, PortStream
<1> QED
  BY <1>1, <1>2, <1>3, <1>4, <1>5

-----------------------------------------------------------------------------
(* Sequences. *)

LEMMA ElemsAppend ==
    ASSUME NEW S, NEW s \in Seq(S), NEW x \in S
    PROVE  /\ Append(s, x) \in Seq(S) /\ Append(s, x) # <<>>
           /\ Elems(Append(s, x)) = Elems(s) \cup {x}
           /\ PortIn(Append(s, x)) = PortIn(s) \cup {x.port}
           /\ Once(s) /\ x \notin Elems(s) => Once(Append(s, x))
<1>1. /\ Append(s, x) \in Seq(S) /\ Append(s, x) # <<>>
      /\ Len(s) \in Nat /\ Len(Append(s, x)) = Len(s) + 1
      /\ Append(s, x)[Len(s) + 1] = x
      /\ \A i \in 1 .. Len(s) : Append(s, x)[i] = s[i]
  OBVIOUS
<1>2. Elems(Append(s, x)) = Elems(s) \cup {x}
  BY <1>1 DEF Elems
<1>3. PortIn(Append(s, x)) = PortIn(s) \cup {x.port}
  BY <1>2, Zenon DEF PortIn
<1>4. ASSUME Once(s), x \notin Elems(s)
      PROVE  Once(Append(s, x))
  BY <1>1, <1>4 DEF Once, Elems
<1> QED
  BY <1>1, <1>2, <1>3, <1>4

LEMMA ElemsTail ==
    ASSUME NEW S, NEW s \in Seq(S), s # <<>>
    PROVE  /\ Tail(s) \in Seq(S) /\ Head(s) \in S
           /\ Elems(s) = {Head(s)} \cup Elems(Tail(s))
           /\ PortIn(s) = {Head(s).port} \cup PortIn(Tail(s))
           /\ Once(s) => Once(Tail(s)) /\ Head(s) \notin Elems(Tail(s))
<1>1. /\ Tail(s) \in Seq(S) /\ Head(s) \in S /\ Head(s) = s[1]
      /\ Len(s) \in Nat \ {0} /\ Len(Tail(s)) = Len(s) - 1
      /\ \A i \in 1 .. Len(Tail(s)) : Tail(s)[i] = s[i + 1]
  OBVIOUS
<1>2. \A i \in 2 .. Len(s) : i - 1 \in 1 .. Len(Tail(s)) /\ Tail(s)[i - 1] = s[i]
  BY <1>1
<1>3. Elems(s) = {Head(s)} \cup Elems(Tail(s))
  <2>1. \A i \in 1 .. Len(Tail(s)) : i + 1 \in 1 .. Len(s)
    BY <1>1
  <2>2. Elems(Tail(s)) \subseteq Elems(s)
    BY <1>1, <2>1 DEF Elems
  <2>3. Head(s) \in Elems(s)
    BY <1>1 DEF Elems
  <2>4. ASSUME NEW x \in Elems(s), x # Head(s)
        PROVE  x \in Elems(Tail(s))
    <3>1. PICK i \in 1 .. Len(s) : x = s[i]
      BY <2>4 DEF Elems
    <3>2. i \in 2 .. Len(s)
      BY <1>1, <2>4, <3>1
    <3> QED
      BY <1>2, <3>1, <3>2 DEF Elems
  <2> QED
    BY <2>2, <2>3, <2>4
<1>4. PortIn(s) = {Head(s).port} \cup PortIn(Tail(s))
  BY <1>3, Zenon DEF PortIn
<1>5. ASSUME Once(s)
      PROVE  Once(Tail(s)) /\ Head(s) \notin Elems(Tail(s))
  BY <1>1, <1>5 DEF Once, Elems
<1> QED
  BY <1>1, <1>3, <1>4, <1>5

LEMMA ElemsEmpty ==
    /\ Elems(<<>>) = {} /\ PortIn(<<>>) = {} /\ Once(<<>>)
BY DEF Elems, PortIn, Once

\* A port that is to be opened, or closed, is one of those there are.
LEMMA LeastIn ==
    ASSUME NEW S, S \subseteq Nat, S # {}
    PROVE  Least(S) \in S
<1>1. \E p \in S : \A q \in S : p <= q
  BY LeastNat
<1> QED
  BY <1>1 DEF Least

-----------------------------------------------------------------------------
(* The steps that have nothing to do with ports. *)

PortState == <<upt, prt, lsn, cls, role>>

LEMMA Apart ==
    ASSUME IInv, SamePorts(ch, ch'), UNCHANGED PortState
    PROVE  IInv'
<1>1. /\ DOMAIN ch' = DOMAIN ch
      /\ ch'["toOpen"] = ch["toOpen"] /\ ch'["opened"] = ch["opened"] /\ ch'["toClose"] = ch["toClose"]
      /\ ch'["lsnReq"] = ch["lsnReq"] /\ ch'["lsnRep"] = ch["lsnRep"]
      /\ ch'["clsReq"] = ch["clsReq"] /\ ch'["clsRep"] = ch["clsRep"]
  BY DEF SamePorts, PortStream
<1>2. upt' = upt /\ prt' = prt /\ lsn' = lsn /\ cls' = cls /\ role' = role
  BY DEF PortState
<1>3. PortTypes'
  BY <1>1, <1>2, Zenon DEF IInv, PortTypes
<1>4. Noted'
  BY <1>2, Zenon DEF IInv, Noted, Ports
<1>5. OpeningLine' = OpeningLine
  BY <1>1, <1>2, Zenon DEF OpeningLine, OpenStreams, Toward, AtUoe, InUoe, Back, Told, Nowhere, Opening
<1>6. ToBeClosed' = ToBeClosed /\ ToBeOpened' = ToBeOpened /\ Closing' = Closing /\ Opening' = Opening
  BY <1>1, <1>2, Zenon DEF ToBeClosed, ToBeOpened, Opening, Closing, Held
<1>7. ClosingLine' = ClosingLine
  BY <1>1, <1>2, <1>6, Zenon DEF ClosingLine, Held
<1>8. OnTime => OnTime'
  BY <1>1, <1>2, <1>5, <1>6, <1>7, Zenon DEF OnTime, Unknown
<1>9. Stays => Stays'
  BY <1>1, <1>2, <1>6, Zenon DEF Stays, Ports
<1> QED
  BY <1>3, <1>4, <1>8, <1>9, Zenon DEF IInv

-----------------------------------------------------------------------------
(* pPortLogic. *)

LEMMA PortsIn ==
    ASSUME IInv
    PROVE  Ports \in SUBSET Nat
<1>1. role.ports \in Seq(SUBSET Nat) /\ role.ports # <<>>
  BY DEF IInv, PortTypes
<1> QED
  BY <1>1 DEF Ports

LEMMA Single ==
    \A x : Head(<<x>>) = x /\ Tail(<<x>>) = <<>>
OBVIOUS

LEMMA TailOfOne ==
    ASSUME NEW S, NEW s \in Seq(S), Len(s) = 1
    PROVE  Tail(s) = <<>>
<1>1. s # <<>>
  OBVIOUS
<1>2. Tail(s) \in Seq(S) /\ Len(Tail(s)) = 0
  BY <1>1
<1>3. \A t \in Seq(S) : Len(t) = 0 => t = <<>>
  OBVIOUS
<1> QED
  BY <1>2, <1>3

LEMMA PrtIdleStep ==
    ASSUME IInv, PrtIdle
    PROVE  IInv'
<1>1. ch' = ch /\ upt' = upt /\ lsn' = lsn /\ cls' = cls /\ role' = role
  BY Zenon DEF PrtIdle, PrtRest, Nts, uoe, rx, env
<1>2. /\ prt.st = "IDLE" /\ prt'.ports = prt.ports
      /\ \/ role.dec /\ prt.ports # {} /\ prt' = [prt EXCEPT !.st = "START_UDP_CLS"]
         \/ ~role.dec /\ prt.ports # Ports /\ prt' = [prt EXCEPT !.st = "NEW_UDP_REQ"]
  BY DEF PrtIdle, IInv, PortTypes
<1>3. PortTypes'
  BY <1>1, <1>2 DEF IInv, PortTypes
<1>4. Noted'
  BY <1>1, <1>2 DEF IInv, PortTypes, Noted, Ports
<1>5. ToBeClosed' = ToBeClosed /\ ToBeOpened' = ToBeOpened /\ Closing' = Closing /\ Opening' = Opening
  BY <1>1, Zenon DEF ToBeClosed, ToBeOpened, Opening, Closing, Held
<1>6. ASSUME OnTime
      PROVE  OnTime'
  <2>1. Nowhere /\ Nowhere' /\ OpeningLine'
    BY <1>1, <1>2, <1>6 DEF OnTime, OpeningLine, Nowhere, OpenStreams, Opening, IInv, PortTypes
  <2>2. ClosingLine'
    BY <1>1, <1>2, <1>5, <1>6 DEF OnTime, ClosingLine, Held, IInv, PortTypes
  <2>3. Unknown = {} /\ Unknown' = {}
    BY <2>1 DEF Unknown, Nowhere, OpenStreams
  <2> QED
    BY <1>1, <1>2, <1>5, <1>6, <2>1, <2>2, <2>3 DEF OnTime
<1>7. ASSUME Stays
      PROVE  Stays'
  BY <1>1, <1>2, <1>5, <1>7 DEF Stays, Ports, IInv, PortTypes
<1> QED
  BY <1>3, <1>4, <1>6, <1>7, Zenon DEF IInv

\* The streams after something is put into c.
LEMMA PortPut ==
    ASSUME NEW c \in PortStream, NEW m, DOMAIN ch = Stream, ch' = Put(ch, c, m)
    PROVE  /\ DOMAIN ch' = Stream /\ ch'[c] = Append(ch[c], m)
           /\ \A x \in PortStream : x # c => ch'[x] = ch[x]
<1>1. PortStream \subseteq Stream
  BY DEF PortStream, Stream, UdpStream, NalStream
<1> QED
  BY <1>1, PutIs

LEMMA PortPop ==
    ASSUME NEW c \in PortStream, DOMAIN ch = Stream, ch' = Pop(ch, c)
    PROVE  /\ DOMAIN ch' = Stream /\ ch'[c] = Tail(ch[c])
           /\ \A x \in PortStream : x # c => ch'[x] = ch[x]
<1>1. PortStream \subseteq Stream
  BY DEF PortStream, Stream, UdpStream, NalStream
<1> QED
  BY <1>1, PopIs

LEMMA PortPass ==
    ASSUME NEW a \in PortStream, NEW b \in PortStream, NEW m, a # b,
           DOMAIN ch = Stream, ch' = Put(Pop(ch, a), b, m)
    PROVE  /\ DOMAIN ch' = Stream /\ ch'[a] = Tail(ch[a]) /\ ch'[b] = Append(ch[b], m)
           /\ \A x \in PortStream : x \notin {a, b} => ch'[x] = ch[x]
<1>1. PortStream \subseteq Stream
  BY DEF PortStream, Stream, UdpStream, NalStream
<1>2. /\ DOMAIN Pop(ch, a) = Stream /\ Pop(ch, a)[a] = Tail(ch[a])
      /\ \A x \in PortStream : x # a => Pop(ch, a)[x] = ch[x]
  BY <1>1, PopIs
<1> QED
  BY <1>1, <1>2, PutIs

LEMMA PrtCloseStep ==
    ASSUME IInv, PrtClose
    PROVE  IInv'
<1> DEFINE p == Least(prt.ports)
           left == prt.ports \ {p}
<1>1. /\ upt' = upt /\ lsn' = lsn /\ cls' = cls /\ role' = role
      /\ prt.st = "START_UDP_CLS" /\ ch' = Put(ch, "toClose", p)
      /\ prt' = [prt EXCEPT !.st = IF left = {} THEN "IDLE" ELSE @, !.ports = left]
  BY Zenon DEF PrtClose, PrtRest, Nts, uoe, rx, env
<1>2. OnTime
  BY <1>1 DEF IInv, Stays
<1>3. role.dec /\ prt.ports # {} /\ prt.ports \subseteq Nat
  BY <1>1, <1>2 DEF OnTime, ClosingLine, IInv, PortTypes
<1>4. p \in prt.ports /\ p \in Nat
  BY <1>3, LeastIn
<1>5. /\ DOMAIN ch' = Stream /\ ch'["toClose"] = Append(ch["toClose"], p)
      /\ ch'["toOpen"] = ch["toOpen"] /\ ch'["opened"] = ch["opened"]
      /\ ch'["lsnReq"] = ch["lsnReq"] /\ ch'["lsnRep"] = ch["lsnRep"]
      /\ ch'["clsReq"] = ch["clsReq"] /\ ch'["clsRep"] = ch["clsRep"]
  BY <1>1, PortPut DEF IInv, PortTypes, PortStream
<1>6. /\ ch'["toClose"] \in Seq(Nat) /\ ch'["toClose"] # <<>>
      /\ Elems(ch'["toClose"]) = Elems(ch["toClose"]) \cup {p}
      /\ Once(ch["toClose"]) /\ p \notin Elems(ch["toClose"]) => Once(ch'["toClose"])
  <2>1. ch["toClose"] \in Seq(Nat)
    BY DEF IInv, PortTypes
  <2> HIDE DEF p
  <2> DEFINE q == Append(ch["toClose"], p)
  <2>2. /\ q \in Seq(Nat) /\ q # <<>> /\ Elems(q) = Elems(ch["toClose"]) \cup {p}
        /\ Once(ch["toClose"]) /\ p \notin Elems(ch["toClose"]) => Once(q)
    BY <1>4, <2>1, ElemsAppend
  <2> QED
    BY <1>5, <2>2, Zenon
<1> HIDE DEF p
<1>7. /\ prt'.ports = left /\ prt'.port = prt.port
      /\ prt'.st = IF left = {} THEN "IDLE" ELSE "START_UDP_CLS"
      /\ prt' \in [st : {"IDLE", "START_UDP_CLS"}, ports : SUBSET Nat, port : Nat]
  BY <1>1, <1>3 DEF IInv, PortTypes
<1>8. PortTypes'
  BY <1>1, <1>5, <1>6, <1>7 DEF IInv, PortTypes
<1>9. Noted'
  BY <1>1, <1>7 DEF IInv, Noted, Ports
<1>10. OpeningLine' /\ Nowhere /\ Nowhere'
  BY <1>1, <1>2, <1>5, <1>7 DEF OnTime, OpeningLine, Nowhere, OpenStreams, Opening
<1>11. Unknown = {} /\ Unknown' = {}
  BY <1>10 DEF Unknown, Nowhere, OpenStreams
<1>12. /\ Closing' = Closing /\ Held(Closing)' = Held(Closing)
       /\ PortIn(ch["clsReq"])' = PortIn(ch["clsReq"])
       /\ ToBeClosed' = ToBeClosed \cup {p}
  BY <1>1, <1>5, <1>6, Zenon DEF Closing, Held, ToBeClosed, PortIn
<1>13. p \notin ToBeClosed
  BY <1>2, <1>4 DEF OnTime, ClosingLine
<1>14. ClosingLine'
  <2>1. Once(ch'["toClose"])
    BY <1>2, <1>6, <1>13 DEF OnTime, ClosingLine, ToBeClosed
  <2>2. Elems(ch'["toClose"]) \cap (PortIn(ch["clsReq"])' \cup Held(Closing)') = {}
    BY <1>2, <1>6, <1>12, <1>13 DEF OnTime, ClosingLine, ToBeClosed
  <2>3. ToBeClosed' \cap prt'.ports = {}
    BY <1>2, <1>7, <1>12 DEF OnTime, ClosingLine
  <2> QED
    BY <1>1, <1>2, <1>3, <1>5, <1>7, <1>12, <2>1, <2>2, <2>3 DEF OnTime, ClosingLine
<1>15. upt'.open = prt'.ports \cup ToBeClosed' \cup Unknown'
  BY <1>1, <1>2, <1>4, <1>7, <1>11, <1>12 DEF OnTime
<1> QED
  BY <1>8, <1>9, <1>10, <1>14, <1>15 DEF IInv, OnTime

LEMMA PrtRequestStep ==
    ASSUME IInv, PrtRequest
    PROVE  IInv'
<1> DEFINE p == Least(Ports \ prt.ports)
<1>1. /\ upt' = upt /\ lsn' = lsn /\ cls' = cls /\ role' = role
      /\ prt.st = "NEW_UDP_REQ" /\ ch' = Put(ch, "toOpen", p)
      /\ prt' = [prt EXCEPT !.st = "NEW_UDP_REP", !.port = p]
  BY Zenon DEF PrtRequest, PrtRest, Nts, uoe, rx, env
<1>2. p \in Ports \ prt.ports /\ Ports \subseteq Nat
  <2>1. Ports \ prt.ports # {} /\ Ports \in SUBSET Nat
    BY <1>1 DEF IInv, Noted, PortTypes, Ports
  <2> QED
    BY <2>1, LeastIn
<1>3. /\ DOMAIN ch' = Stream /\ ch'["toOpen"] = Append(ch["toOpen"], p)
      /\ ch'["toClose"] = ch["toClose"] /\ ch'["opened"] = ch["opened"]
      /\ ch'["lsnReq"] = ch["lsnReq"] /\ ch'["lsnRep"] = ch["lsnRep"]
      /\ ch'["clsReq"] = ch["clsReq"] /\ ch'["clsRep"] = ch["clsRep"]
  BY <1>1, PortPut DEF IInv, PortTypes, PortStream
<1> HIDE DEF p
<1>4. /\ ch'["toOpen"] \in Seq(Nat)
      /\ Elems(ch'["toOpen"]) = Elems(ch["toOpen"]) \cup {p}
  <2>1. ch["toOpen"] \in Seq(Nat) /\ p \in Nat
    BY <1>2 DEF IInv, PortTypes
  <2>2. /\ Append(ch["toOpen"], p) \in Seq(Nat)
        /\ Elems(Append(ch["toOpen"], p)) = Elems(ch["toOpen"]) \cup {p}
    BY <2>1, ElemsAppend
  <2> QED
    BY <1>3, <2>2, Zenon
<1>5. /\ prt'.ports = prt.ports /\ prt'.port = p /\ prt'.st = "NEW_UDP_REP"
      /\ prt' \in [st : {"NEW_UDP_REP"}, ports : SUBSET Nat, port : Nat]
  BY <1>1, <1>2 DEF IInv, PortTypes
<1>6. PortTypes'
  BY <1>1, <1>3, <1>4, <1>5 DEF IInv, PortTypes
<1>7. Noted'
  BY <1>1, <1>2, <1>5 DEF IInv, Noted, Ports
<1>8. /\ Closing' = Closing /\ Opening' = Opening
      /\ Held(Closing)' = Held(Closing) /\ ToBeClosed' = ToBeClosed
      /\ ToBeOpened' = ToBeOpened \cup {p}
  BY <1>1, <1>3, <1>4, Zenon DEF Closing, Opening, Held, ToBeClosed, ToBeOpened
<1>9. ASSUME OnTime
      PROVE  OnTime'
  <2>1. Nowhere
    BY <1>1, <1>9 DEF OnTime, OpeningLine
  <2>2. ch'["toOpen"] = <<p>>
    BY <1>3, <2>1 DEF Nowhere, OpenStreams
  <2>3. Toward(prt.port)'
    BY <1>1, <1>3, <1>5, <2>1, <2>2 DEF Nowhere, OpenStreams, Toward, Opening
  <2>4. OpeningLine'
    BY <1>1, <1>5, <1>9, <2>3 DEF OnTime, OpeningLine
  <2>5. Unknown = {} /\ Unknown' = {}
    BY <2>1, <2>3 DEF Unknown, Nowhere, Toward, OpenStreams
  <2>6. ClosingLine'
    BY <1>1, <1>3, <1>5, <1>8, <1>9 DEF OnTime, ClosingLine
  <2> QED
    BY <1>1, <1>5, <1>8, <1>9, <2>4, <2>5, <2>6 DEF OnTime
<1>10. ASSUME Stays
       PROVE  Stays'
  BY <1>1, <1>2, <1>3, <1>5, <1>8, <1>10 DEF Stays, Ports
<1> QED
  BY <1>6, <1>7, <1>9, <1>10, Zenon DEF IInv

LEMMA PrtReplyStep ==
    ASSUME IInv, PrtReply
    PROVE  IInv'
<1> DEFINE fed == Head(ch["opened"])
<1>1. /\ upt' = upt /\ lsn' = lsn /\ cls' = cls /\ role' = role
      /\ prt.st = "NEW_UDP_REP" /\ ch["opened"] # <<>> /\ ch' = Pop(ch, "opened")
      /\ prt' = [st |-> "IDLE", port |-> 0,
                 ports |-> IF fed THEN prt.ports \cup {prt.port} ELSE prt.ports]
  BY Zenon DEF PrtReply, PrtRest, Nts, uoe, rx, env, Some
<1>2. /\ DOMAIN ch' = Stream /\ ch'["opened"] = Tail(ch["opened"])
      /\ ch'["toClose"] = ch["toClose"] /\ ch'["toOpen"] = ch["toOpen"]
      /\ ch'["lsnReq"] = ch["lsnReq"] /\ ch'["lsnRep"] = ch["lsnRep"]
      /\ ch'["clsReq"] = ch["clsReq"] /\ ch'["clsRep"] = ch["clsRep"]
  BY <1>1, PortPop DEF IInv, PortTypes, PortStream
<1>3. ch'["opened"] \in Seq(BOOLEAN)
  <2>1. ch["opened"] \in Seq(BOOLEAN)
    BY DEF IInv, PortTypes
  <2>2. Tail(ch["opened"]) \in Seq(BOOLEAN)
    BY <1>1, <2>1, ElemsTail
  <2> QED
    BY <1>2, <2>2, Zenon
<1>4. prt.port \in Ports /\ prt.ports \subseteq Ports /\ Ports \in SUBSET Nat
  BY <1>1, PortsIn DEF IInv, Noted
<1>5. /\ prt'.ports = (IF fed THEN prt.ports \cup {prt.port} ELSE prt.ports)
      /\ prt'.st = "IDLE"
      /\ prt' \in [st : {"IDLE"}, ports : SUBSET Nat, port : Nat]
  BY <1>1, <1>4
<1>6. PortTypes'
  BY <1>1, <1>2, <1>3, <1>5 DEF IInv, PortTypes
<1>7. Noted'
  BY <1>1, <1>4, <1>5 DEF IInv, Noted, Ports
<1>8. /\ Closing' = Closing /\ Opening' = Opening
      /\ Held(Closing)' = Held(Closing) /\ ToBeClosed' = ToBeClosed
      /\ ToBeOpened' = ToBeOpened
  BY <1>1, <1>2, Zenon DEF Closing, Opening, Held, ToBeClosed, ToBeOpened
<1>9. ASSUME OnTime
      PROVE  OnTime'
  <2>1. Told
    BY <1>1, <1>9 DEF OnTime, OpeningLine, Toward, AtUoe, InUoe, Back, OpenStreams
  <2>2. fed = TRUE /\ ch'["opened"] = <<>>
    <3>1. ch["opened"] = <<TRUE>>
      BY <2>1 DEF Told, OpenStreams
    <3> QED
      BY <1>2, <3>1, Single, Zenon
  <2>3. Nowhere'
    BY <1>1, <1>2, <2>1, <2>2 DEF Nowhere, Told, OpenStreams, Opening
  <2>4. OpeningLine'
    BY <1>1, <1>5, <1>9, <2>3 DEF OnTime, OpeningLine
  <2>5. Unknown = {prt.port} /\ Unknown' = {}
    BY <1>1, <2>3 DEF Unknown, Nowhere, OpenStreams
  <2>6. ToBeClosed = {}
    <3>1. ch["toClose"] = <<>> /\ cls = "NEXT"
      BY <1>1, <1>9 DEF OnTime, ClosingLine, IInv, PortTypes
    <3> QED
      BY <1>9, <3>1, ElemsEmpty DEF OnTime, ClosingLine, ToBeClosed, Held
  <2>7. ClosingLine'
    BY <1>1, <1>2, <1>5, <1>8, <1>9, <2>6 DEF OnTime, ClosingLine
  <2> QED
    BY <1>1, <1>5, <1>8, <1>9, <2>2, <2>4, <2>5, <2>7 DEF OnTime
<1>10. ASSUME Stays
       PROVE  Stays'
  BY <1>1, <1>2, <1>4, <1>5, <1>8, <1>10 DEF Stays, Ports
<1> QED
  BY <1>6, <1>7, <1>9, <1>10, Zenon DEF IInv

-----------------------------------------------------------------------------
(* pUdpLsn. *)

LEMMA LsnRequestStep ==
    ASSUME IInv, LsnRequest
    PROVE  IInv'
<1> DEFINE p == Head(ch["toOpen"])
           r == [id |-> 0, port |-> p]
<1>1. /\ upt' = upt /\ prt' = prt /\ cls' = cls /\ role' = role
      /\ lsn.st = "SEND_REQ" /\ ch["toOpen"] # <<>>
      /\ ch' = Put(Pop(ch, "toOpen"), "lsnReq", r)
      /\ lsn' = [lsn EXCEPT !.st = "WAIT_ACK"]
  BY Zenon DEF LsnRequest, PrtRest, Nts, uoe, rx, env, Some
<1>2. /\ DOMAIN ch' = Stream
      /\ ch'["toOpen"] = Tail(ch["toOpen"]) /\ ch'["lsnReq"] = Append(ch["lsnReq"], r)
      /\ ch'["toClose"] = ch["toClose"] /\ ch'["opened"] = ch["opened"] /\ ch'["lsnRep"] = ch["lsnRep"]
      /\ ch'["clsReq"] = ch["clsReq"] /\ ch'["clsRep"] = ch["clsRep"]
  BY <1>1, PortPass DEF IInv, PortTypes, PortStream
<1>3. /\ ch'["toOpen"] \in Seq(Nat) /\ p \in Nat
      /\ Elems(ch["toOpen"]) = {p} \cup Elems(ch'["toOpen"])
  <2>1. ch["toOpen"] \in Seq(Nat)
    BY DEF IInv, PortTypes
  <2>2. /\ Tail(ch["toOpen"]) \in Seq(Nat) /\ p \in Nat
        /\ Elems(ch["toOpen"]) = {p} \cup Elems(Tail(ch["toOpen"]))
    BY <1>1, <2>1, ElemsTail
  <2> QED
    BY <1>2, <2>2, Zenon
<1> HIDE DEF p
<1>4. /\ ch'["lsnReq"] \in Seq(Request)
      /\ PortIn(ch'["lsnReq"]) = PortIn(ch["lsnReq"]) \cup {p}
  <2>1. ch["lsnReq"] \in Seq(Request) /\ r \in Request /\ r.port = p
    BY <1>3 DEF IInv, PortTypes, Request
  <2> HIDE DEF r
  <2>2. /\ Append(ch["lsnReq"], r) \in Seq(Request)
        /\ PortIn(Append(ch["lsnReq"], r)) = PortIn(ch["lsnReq"]) \cup {r.port}
    BY <2>1, ElemsAppend
  <2> QED
    BY <1>2, <2>1, <2>2, Zenon
<1>5. lsn'.st = "WAIT_ACK" /\ lsn'.late = lsn.late /\ lsn' \in [st : {"WAIT_ACK"}, late : Nat]
  BY <1>1 DEF IInv, PortTypes
<1>6. PortTypes'
  BY <1>1, <1>2, <1>3, <1>4, <1>5 DEF IInv, PortTypes
<1>7. Noted'
  BY <1>1, Zenon DEF IInv, Noted, Ports
<1>8. /\ Closing' = Closing /\ Opening' = Opening
      /\ Held(Closing)' = Held(Closing) /\ ToBeClosed' = ToBeClosed
  BY <1>1, <1>2, Zenon DEF Closing, Opening, Held, ToBeClosed
<1>9. ToBeOpened' = ToBeOpened
  <2>1. Held(Opening)' = Held(Opening)
    BY <1>1, <1>8, Zenon DEF Held
  <2> QED
    BY <1>3, <1>4, <2>1 DEF ToBeOpened
<1>10. ASSUME OnTime
       PROVE  OnTime'
  <2>1. prt.st = "NEW_UDP_REP" /\ Toward(prt.port)
    BY <1>1, <1>10 DEF OnTime, OpeningLine, AtUoe, InUoe, Back, Told, Nowhere, OpenStreams
  <2>2. p = prt.port /\ ch'["toOpen"] = <<>> /\ ch'["lsnReq"] = <<r>>
    BY <1>2, <2>1 DEF Toward, OpenStreams, p
  <2>3. AtUoe(prt.port)'
    BY <1>1, <1>2, <1>5, <1>8, <2>1, <2>2 DEF Toward, AtUoe, OpenStreams
  <2>4. OpeningLine'
    BY <1>1, <1>5, <1>10, <2>1, <2>3 DEF OnTime, OpeningLine
  <2>5. Unknown = {} /\ Unknown' = {}
    BY <2>1, <2>3 DEF Unknown, AtUoe, Toward, OpenStreams
  <2>6. ClosingLine'
    BY <1>1, <1>2, <1>8, <1>10 DEF OnTime, ClosingLine
  <2> QED
    BY <1>1, <1>8, <1>10, <2>4, <2>5, <2>6 DEF OnTime
<1>11. ASSUME Stays
       PROVE  Stays'
  BY <1>1, <1>2, <1>8, <1>9, <1>11 DEF Stays, Ports
<1> QED
  BY <1>6, <1>7, <1>10, <1>11, Zenon DEF IInv

LEMMA LsnReplyStep ==
    ASSUME IInv, LsnReply
    PROVE  IInv'
<1> DEFINE answer == Head(ch["lsnRep"]).open
<1>1. /\ upt' = upt /\ prt' = prt /\ cls' = cls /\ role' = role
      /\ lsn.st = "WAIT_ACK" /\ ch["lsnRep"] # <<>>
      /\ ch' = Put(Pop(ch, "lsnRep"), "opened", answer)
      /\ lsn' = [lsn EXCEPT !.st = "SEND_REQ"]
  BY Zenon DEF LsnReply, PrtRest, Nts, uoe, rx, env, Some, Pass
<1>2. /\ DOMAIN ch' = Stream
      /\ ch'["lsnRep"] = Tail(ch["lsnRep"]) /\ ch'["opened"] = Append(ch["opened"], answer)
      /\ ch'["toOpen"] = ch["toOpen"] /\ ch'["toClose"] = ch["toClose"] /\ ch'["lsnReq"] = ch["lsnReq"]
      /\ ch'["clsReq"] = ch["clsReq"] /\ ch'["clsRep"] = ch["clsRep"]
  BY <1>1, PortPass DEF IInv, PortTypes, PortStream
<1>3. ch'["lsnRep"] \in Seq(Answer) /\ answer \in BOOLEAN
  <2>1. ch["lsnRep"] \in Seq(Answer)
    BY DEF IInv, PortTypes
  <2>2. Tail(ch["lsnRep"]) \in Seq(Answer) /\ Head(ch["lsnRep"]) \in Answer
    BY <1>1, <2>1, ElemsTail
  <2>3. answer \in BOOLEAN
    BY <2>2 DEF Answer
  <2> QED
    BY <1>2, <2>2, <2>3, Zenon
<1>4. ch'["opened"] \in Seq(BOOLEAN)
  <2>1. ch["opened"] \in Seq(BOOLEAN)
    BY DEF IInv, PortTypes
  <2> HIDE DEF answer
  <2>2. Append(ch["opened"], answer) \in Seq(BOOLEAN)
    BY <1>3, <2>1, ElemsAppend
  <2> QED
    BY <1>2, <2>2, Zenon
<1>5. lsn'.st = "SEND_REQ" /\ lsn'.late = lsn.late /\ lsn' \in [st : {"SEND_REQ"}, late : Nat]
  BY <1>1 DEF IInv, PortTypes
<1>6. PortTypes'
  BY <1>1, <1>2, <1>3, <1>4, <1>5 DEF IInv, PortTypes
<1>7. Noted'
  BY <1>1, Zenon DEF IInv, Noted, Ports
<1>8. /\ Closing' = Closing /\ Opening' = Opening
      /\ Held(Closing)' = Held(Closing) /\ ToBeClosed' = ToBeClosed
      /\ ToBeOpened' = ToBeOpened
  BY <1>1, <1>2, Zenon DEF Closing, Opening, Held, ToBeClosed, ToBeOpened
<1>9. ASSUME OnTime
      PROVE  OnTime'
  <2>1. prt.st = "NEW_UDP_REP" /\ Back(prt.port)
    BY <1>1, <1>9 DEF OnTime, OpeningLine, Toward, AtUoe, InUoe, Told, Nowhere, OpenStreams
  <2>2. ch["opened"] = <<>> /\ ch["lsnRep"] = <<[id |-> 0, port |-> prt.port, open |-> TRUE]>>
    BY <2>1 DEF Back, OpenStreams
  <2>3. answer = TRUE /\ ch'["lsnRep"] = <<>>
    <3>1. Head(ch["lsnRep"]) = [id |-> 0, port |-> prt.port, open |-> TRUE]
      BY <2>2, Single, Zenon
    <3>2. answer = TRUE
      BY <3>1
    <3> QED
      BY <1>2, <2>2, <3>2, Single, Zenon
  <2>4. \A x : Append(<<>>, x) = <<x>>
    OBVIOUS
  <2>5. ch'["opened"] = <<TRUE>>
    BY <1>2, <2>2, <2>3, <2>4, Zenon
  <2>6. Told'
    BY <1>1, <1>2, <1>5, <1>8, <2>1, <2>3, <2>5 DEF Back, Told, OpenStreams
  <2>7. OpeningLine'
    BY <1>1, <1>5, <1>9, <2>1, <2>6 DEF OnTime, OpeningLine
  <2>8. Unknown = {prt.port} /\ Unknown' = {prt.port}
    <3>1. ch'["opened"] # <<>>
      BY <2>5
    <3> QED
      BY <1>1, <3>1 DEF Unknown
  <2>9. ClosingLine'
    BY <1>1, <1>2, <1>8, <1>9 DEF OnTime, ClosingLine
  <2> QED
    BY <1>1, <1>8, <1>9, <2>7, <2>8, <2>9 DEF OnTime
<1>10. ASSUME Stays
       PROVE  Stays'
  BY <1>1, <1>2, <1>8, <1>10 DEF Stays, Ports
<1> QED
  BY <1>6, <1>7, <1>9, <1>10, Zenon DEF IInv

LEMMA LsnTimeoutStep ==
    ASSUME IInv, LsnTimeout
    PROVE  IInv'
<1>1. /\ upt' = upt /\ prt' = prt /\ cls' = cls /\ role' = role
      /\ lsn.late > 0 /\ ch' = Put(ch, "opened", FALSE)
      /\ lsn' = [st |-> "SEND_REQ", late |-> lsn.late - 1]
  BY Zenon DEF LsnTimeout, PrtRest, Nts, uoe, rx, env
<1>2. /\ DOMAIN ch' = Stream /\ ch'["opened"] = Append(ch["opened"], FALSE)
      /\ ch'["toOpen"] = ch["toOpen"] /\ ch'["toClose"] = ch["toClose"]
      /\ ch'["lsnReq"] = ch["lsnReq"] /\ ch'["lsnRep"] = ch["lsnRep"]
      /\ ch'["clsReq"] = ch["clsReq"] /\ ch'["clsRep"] = ch["clsRep"]
  BY <1>1, PortPut DEF IInv, PortTypes, PortStream
<1>3. ch'["opened"] \in Seq(BOOLEAN)
  <2>1. ch["opened"] \in Seq(BOOLEAN)
    BY DEF IInv, PortTypes
  <2>2. \A x \in BOOLEAN : Append(ch["opened"], x) \in Seq(BOOLEAN)
    BY <2>1, ElemsAppend
  <2> QED
    BY <1>2, <2>2, Zenon
<1>4. lsn' \in [st : {"SEND_REQ"}, late : Nat]
  BY <1>1 DEF IInv, PortTypes
<1>5. PortTypes'
  BY <1>1, <1>2, <1>3, <1>4 DEF IInv, PortTypes
<1>6. Noted'
  BY <1>1, Zenon DEF IInv, Noted, Ports
<1>7. Closing' = Closing /\ ToBeOpened' = ToBeOpened
  BY <1>1, <1>2, Zenon DEF Closing, Opening, Held, ToBeOpened
<1>8. Stays
  BY <1>1 DEF IInv, OnTime, OpeningLine
<1>9. Stays'
  BY <1>1, <1>2, <1>7, <1>8 DEF Stays, Ports
<1> QED
  BY <1>5, <1>6, <1>9, Zenon DEF IInv

-----------------------------------------------------------------------------
(* pUdpCls. *)

LEMMA UdpClsStep ==
    ASSUME IInv, UdpCls
    PROVE  IInv'
<1>1. upt' = upt /\ prt' = prt /\ lsn' = lsn /\ role' = role
  BY Zenon DEF UdpCls, PrtRest, Nts, uoe, rx, env
<1>2. Noted'
  BY <1>1, Zenon DEF IInv, Noted, Ports
<1>3. CASE /\ cls = "NEXT" /\ ch["toClose"] # <<>> /\ cls' = "WAIT4RESP"
           /\ ch' = Put(Pop(ch, "toClose"), "clsReq", [id |-> 0, port |-> Head(ch["toClose"])])
  <2> DEFINE p == Head(ch["toClose"])
             r == [id |-> 0, port |-> p]
  <2>1. OnTime /\ role.dec /\ prt.st \in {"IDLE", "START_UDP_CLS"}
    BY <1>3 DEF IInv, OnTime, Stays, ClosingLine
  <2>2. /\ DOMAIN ch' = Stream
        /\ ch'["toClose"] = Tail(ch["toClose"]) /\ ch'["clsReq"] = Append(ch["clsReq"], r)
        /\ ch'["toOpen"] = ch["toOpen"] /\ ch'["opened"] = ch["opened"]
        /\ ch'["lsnReq"] = ch["lsnReq"] /\ ch'["lsnRep"] = ch["lsnRep"] /\ ch'["clsRep"] = ch["clsRep"]
    BY <1>3, PortPass DEF IInv, PortTypes, PortStream
  <2>3. ch["clsReq"] = <<>> /\ ch["clsRep"] = <<>> /\ ~Closing /\ Once(ch["toClose"])
    BY <1>3, <2>1 DEF OnTime, ClosingLine
  <2>4. /\ ch'["toClose"] \in Seq(Nat) /\ p \in Nat
        /\ Elems(ch["toClose"]) = {p} \cup Elems(ch'["toClose"])
        /\ Once(ch'["toClose"]) /\ p \notin Elems(ch'["toClose"])
    <3>1. ch["toClose"] \in Seq(Nat)
      BY DEF IInv, PortTypes
    <3>2. /\ Tail(ch["toClose"]) \in Seq(Nat) /\ p \in Nat
          /\ Elems(ch["toClose"]) = {p} \cup Elems(Tail(ch["toClose"]))
          /\ Once(Tail(ch["toClose"])) /\ p \notin Elems(Tail(ch["toClose"]))
      BY <1>3, <2>3, <3>1, ElemsTail
    <3> QED
      BY <2>2, <3>2, Zenon
  <2> HIDE DEF p
  <2>5. /\ ch'["clsReq"] \in Seq(Request) /\ Len(ch'["clsReq"]) = 1
        /\ PortIn(ch'["clsReq"]) = {p}
    <3>1. r \in Request /\ r.port = p
      BY <2>4 DEF Request
    <3>2. ch["clsReq"] \in Seq(Request)
      BY DEF IInv, PortTypes
    <3> HIDE DEF r
    <3>3. /\ Append(ch["clsReq"], r) \in Seq(Request)
          /\ PortIn(Append(ch["clsReq"], r)) = PortIn(ch["clsReq"]) \cup {r.port}
      BY <3>1, <3>2, ElemsAppend
    <3>4. PortIn(ch["clsReq"]) = {}
      BY <2>3, ElemsEmpty
    <3>5. Len(ch'["clsReq"]) = 1
      BY <2>2, <2>3
    <3> QED
      BY <2>2, <3>1, <3>3, <3>4, <3>5
  <2>6. PortTypes'
    BY <1>1, <1>3, <2>2, <2>4, <2>5 DEF IInv, PortTypes
  <2>7. Closing' = Closing /\ Opening' = Opening /\ Held(Closing)' = {} /\ Held(Closing) = {}
    BY <1>1, <2>3 DEF Closing, Opening, Held
  <2>8. ToBeClosed' = ToBeClosed
    BY <2>3, <2>4, <2>5, <2>7, ElemsEmpty DEF ToBeClosed
  <2>9. OpeningLine' /\ Unknown' = Unknown
    BY <1>1, <2>1, <2>2, <2>7, Zenon
       DEF OnTime, OpeningLine, OpenStreams, Toward, AtUoe, InUoe, Back, Told, Nowhere, Unknown
  <2>10. Elems(ch'["toClose"]) \cap (PortIn(ch["clsReq"])' \cup Held(Closing)') = {}
    BY <2>4, <2>5, <2>7
  <2>11. ClosingLine'
    BY <1>1, <1>3, <2>1, <2>2, <2>3, <2>4, <2>5, <2>7, <2>8, <2>10 DEF OnTime, ClosingLine
  <2> QED
    BY <1>1, <1>2, <2>1, <2>6, <2>8, <2>9, <2>11 DEF IInv, OnTime
<1>4. CASE cls = "WAIT4RESP" /\ ch["clsRep"] # <<>> /\ ch' = Pop(ch, "clsRep") /\ cls' = "NEXT"
  <2>1. OnTime /\ role.dec /\ prt.st \in {"IDLE", "START_UDP_CLS"}
    BY <1>4 DEF IInv, OnTime, Stays, ClosingLine
  <2>2. /\ DOMAIN ch' = Stream /\ ch'["clsRep"] = Tail(ch["clsRep"])
        /\ ch'["toOpen"] = ch["toOpen"] /\ ch'["toClose"] = ch["toClose"] /\ ch'["opened"] = ch["opened"]
        /\ ch'["lsnReq"] = ch["lsnReq"] /\ ch'["lsnRep"] = ch["lsnRep"] /\ ch'["clsReq"] = ch["clsReq"]
    BY <1>4, PortPop DEF IInv, PortTypes, PortStream
  <2>3. ch["clsReq"] = <<>> /\ Len(ch["clsRep"]) = 1 /\ ~Closing
    BY <1>4, <2>1 DEF OnTime, ClosingLine
  <2>4. ch'["clsRep"] = <<>> /\ ch'["clsRep"] \in Seq(Answer)
    <3>1. ch["clsRep"] \in Seq(Answer)
      BY DEF IInv, PortTypes
    <3>2. Tail(ch["clsRep"]) = <<>>
      BY <2>3, <3>1, TailOfOne
    <3>3. \A S : <<>> \in Seq(S)
      OBVIOUS
    <3> QED
      BY <2>2, <3>2, <3>3, Zenon
  <2>5. PortTypes'
    BY <1>1, <1>4, <2>2, <2>4 DEF IInv, PortTypes
  <2>6. /\ Closing' = Closing /\ Opening' = Opening
        /\ Held(Closing)' = Held(Closing) /\ ToBeClosed' = ToBeClosed
    BY <1>1, <2>2, Zenon DEF Closing, Opening, Held, ToBeClosed
  <2>7. OpeningLine' /\ Unknown' = Unknown
    BY <1>1, <2>1, <2>2, <2>6, Zenon
       DEF OnTime, OpeningLine, OpenStreams, Toward, AtUoe, InUoe, Back, Told, Nowhere, Unknown
  <2>8. ClosingLine'
    BY <1>1, <1>4, <2>1, <2>2, <2>3, <2>4, <2>6 DEF OnTime, ClosingLine
  <2> QED
    BY <1>1, <1>2, <2>1, <2>5, <2>6, <2>7, <2>8 DEF IInv, OnTime
<1> QED
  BY <1>3, <1>4, Zenon DEF UdpCls, Some

-----------------------------------------------------------------------------
(* pUdpPortTable. *)

LEMMA UptTakeStep ==
    ASSUME IInv, UptTake, UNCHANGED <<nal, env>>
    PROVE  IInv'
<1> DEFINE c == IF Some("portReq") THEN "portReq" ELSE IF Some("lsnReq") THEN "lsnReq" ELSE "clsReq"
           r == Head(ch[c])
<1>1. /\ prt' = prt /\ lsn' = lsn /\ cls' = cls /\ role' = role
      /\ upt.st = "WAIT4REQ" /\ ch[c] # <<>> /\ ch' = Pop(ch, c)
      /\ upt' = [upt EXCEPT !.st = c, !.req = r]
  BY Zenon DEF UptTake, Some, nal, env
<1>2. c \in {"portReq", "lsnReq", "clsReq"}
  OBVIOUS
<1> HIDE DEF c
<1>3. /\ upt'.st = c /\ upt'.req = r /\ upt'.open = upt.open
      /\ upt' = [st |-> upt'.st, req |-> upt'.req, open |-> upt'.open]
  BY <1>1 DEF IInv, PortTypes
<1> HIDE DEF r
<1>4. Noted'
  BY <1>1, Zenon DEF IInv, Noted, Ports
<1>5. ~Opening /\ ~Closing /\ Held(Opening) = {} /\ Held(Closing) = {}
  BY <1>1 DEF Opening, Closing, Held
<1>6. CASE c = "portReq"
  <2>1. SamePorts(ch, ch')
    <3>1. SamePorts(ch, ch)
      BY DEF SamePorts, IInv, PortTypes, PortStream, Stream, UdpStream, NalStream
    <3>2. "portReq" \notin PortStream
      BY DEF PortStream
    <3> QED
      BY <1>1, <1>6, <3>1, <3>2, PopElsewhere
  <2>2. /\ DOMAIN ch' = DOMAIN ch
        /\ ch'["toOpen"] = ch["toOpen"] /\ ch'["opened"] = ch["opened"] /\ ch'["toClose"] = ch["toClose"]
        /\ ch'["lsnReq"] = ch["lsnReq"] /\ ch'["lsnRep"] = ch["lsnRep"]
        /\ ch'["clsReq"] = ch["clsReq"] /\ ch'["clsRep"] = ch["clsRep"]
    BY <2>1 DEF SamePorts, PortStream
  <2>3. PortTypes'
    BY <1>1, <1>3, <1>6, <2>2 DEF IInv, PortTypes
  <2>4. ~Opening' /\ ~Closing' /\ Held(Opening)' = {} /\ Held(Closing)' = {}
    BY <1>3, <1>6 DEF Opening, Closing, Held
  <2>5. ToBeClosed' = ToBeClosed /\ ToBeOpened' = ToBeOpened
    BY <1>5, <2>2, <2>4, Zenon DEF ToBeClosed, ToBeOpened, PortIn
  <2>6. OnTime => OnTime'
    <3>1. OpeningLine => OpeningLine'
      BY <1>1, <1>5, <2>2, <2>4, Zenon
         DEF OpeningLine, OpenStreams, Toward, AtUoe, InUoe, Back, Told, Nowhere
    <3>2. ClosingLine => ClosingLine'
      BY <1>1, <1>5, <2>2, <2>4, <2>5, Zenon DEF ClosingLine
    <3> QED
      BY <1>1, <1>3, <2>2, <2>5, <3>1, <3>2, Zenon DEF OnTime, Unknown
  <2>7. Stays => Stays'
    BY <1>1, <1>3, <2>2, <2>4, <2>5, Zenon DEF Stays, Ports
  <2> QED
    BY <1>4, <2>3, <2>6, <2>7, Zenon DEF IInv
<1>7. CASE c = "lsnReq"
  <2>1. /\ DOMAIN ch' = Stream /\ ch'["lsnReq"] = Tail(ch["lsnReq"]) /\ ch["lsnReq"] # <<>>
        /\ ch'["toOpen"] = ch["toOpen"] /\ ch'["opened"] = ch["opened"] /\ ch'["toClose"] = ch["toClose"]
        /\ ch'["lsnRep"] = ch["lsnRep"] /\ ch'["clsReq"] = ch["clsReq"] /\ ch'["clsRep"] = ch["clsRep"]
    BY <1>1, <1>7, PortPop DEF IInv, PortTypes, PortStream
  <2>2. /\ ch'["lsnReq"] \in Seq(Request) /\ r \in Request
        /\ PortIn(ch["lsnReq"]) = {r.port} \cup PortIn(ch'["lsnReq"])
    <3>1. ch["lsnReq"] \in Seq(Request) /\ r = Head(ch["lsnReq"])
      BY <1>7 DEF IInv, PortTypes, r
    <3>2. /\ Tail(ch["lsnReq"]) \in Seq(Request) /\ r \in Request
          /\ PortIn(ch["lsnReq"]) = {r.port} \cup PortIn(Tail(ch["lsnReq"]))
      BY <2>1, <3>1, ElemsTail
    <3> QED
      BY <2>1, <3>2, Zenon
  <2>3. PortTypes'
    BY <1>1, <1>3, <1>7, <2>1, <2>2 DEF IInv, PortTypes
  <2>4. Opening' /\ ~Closing' /\ Held(Opening)' = {r.port} /\ Held(Closing)' = {}
    BY <1>3, <1>7 DEF Opening, Closing, Held
  <2>5. ToBeClosed' = ToBeClosed
    BY <1>5, <2>1, <2>4, Zenon DEF ToBeClosed, PortIn
  <2>6. ToBeOpened' = ToBeOpened
    BY <1>5, <2>1, <2>2, <2>4 DEF ToBeOpened
  <2>7. ASSUME OnTime
        PROVE  OnTime'
    <3>1. prt.st = "NEW_UDP_REP" /\ AtUoe(prt.port)
      BY <2>1, <2>7 DEF OnTime, OpeningLine, Toward, InUoe, Back, Told, Nowhere, OpenStreams
    <3>2. ch["lsnReq"] = <<[id |-> 0, port |-> prt.port]>>
      BY <3>1 DEF AtUoe, OpenStreams
    <3>3. r = [id |-> 0, port |-> prt.port] /\ ch'["lsnReq"] = <<>>
      BY <1>7, <2>1, <3>2, Single, Zenon DEF r
    <3>4. InUoe(prt.port)'
      <4>1. upt'.req.port = prt.port
        BY <1>3, <3>3
      <4> QED
        BY <1>1, <2>1, <2>4, <3>1, <3>3, <4>1 DEF AtUoe, InUoe, OpenStreams
    <3>5. OpeningLine'
      BY <1>1, <2>7, <3>1, <3>4 DEF OnTime, OpeningLine
    <3>6. ClosingLine'
      BY <1>1, <1>5, <2>1, <2>4, <2>5, <2>7, Zenon DEF OnTime, ClosingLine
    <3> QED
      BY <1>1, <1>3, <2>1, <2>5, <2>7, <3>5, <3>6, Zenon DEF OnTime, Unknown
  <2>8. Stays => Stays'
    BY <1>1, <1>3, <2>1, <2>4, <2>6, Zenon DEF Stays, Ports
  <2> QED
    BY <1>4, <2>3, <2>7, <2>8, Zenon DEF IInv
<1>8. CASE c = "clsReq"
  <2>1. /\ DOMAIN ch' = Stream /\ ch'["clsReq"] = Tail(ch["clsReq"]) /\ ch["clsReq"] # <<>>
        /\ ch'["toOpen"] = ch["toOpen"] /\ ch'["opened"] = ch["opened"] /\ ch'["toClose"] = ch["toClose"]
        /\ ch'["lsnReq"] = ch["lsnReq"] /\ ch'["lsnRep"] = ch["lsnRep"] /\ ch'["clsRep"] = ch["clsRep"]
    BY <1>1, <1>8, PortPop DEF IInv, PortTypes, PortStream
  <2>2. /\ ch'["clsReq"] \in Seq(Request) /\ r \in Request
        /\ PortIn(ch["clsReq"]) = {r.port} \cup PortIn(ch'["clsReq"])
    <3>1. ch["clsReq"] \in Seq(Request) /\ r = Head(ch["clsReq"])
      BY <1>8 DEF IInv, PortTypes, r
    <3>2. /\ Tail(ch["clsReq"]) \in Seq(Request) /\ r \in Request
          /\ PortIn(ch["clsReq"]) = {r.port} \cup PortIn(Tail(ch["clsReq"]))
      BY <2>1, <3>1, ElemsTail
    <3> QED
      BY <2>1, <3>2, Zenon
  <2>3. PortTypes'
    BY <1>1, <1>3, <1>8, <2>1, <2>2 DEF IInv, PortTypes
  <2>4. ~Opening' /\ Closing' /\ Held(Opening)' = {} /\ Held(Closing)' = {r.port}
    BY <1>3, <1>8 DEF Opening, Closing, Held
  <2>5. OnTime
    BY <2>1 DEF IInv, Stays
  <2>6. cls = "WAIT4RESP" /\ Len(ch["clsReq"]) = 1 /\ ch["clsRep"] = <<>>
    BY <2>1, <2>5 DEF OnTime, ClosingLine, IInv, PortTypes
  <2>7. ch'["clsReq"] = <<>> /\ PortIn(ch'["clsReq"]) = {}
    <3>1. ch["clsReq"] \in Seq(Request)
      BY DEF IInv, PortTypes
    <3> QED
      BY <2>1, <2>6, <3>1, TailOfOne, ElemsEmpty
  <2>8. ToBeClosed' = ToBeClosed
    BY <1>5, <2>1, <2>2, <2>4 DEF ToBeClosed
  <2>9. OpeningLine'
    BY <1>1, <1>5, <2>1, <2>4, <2>5, Zenon
       DEF OnTime, OpeningLine, OpenStreams, Toward, AtUoe, InUoe, Back, Told, Nowhere
  <2>10. ClosingLine'
    <3>1. Elems(ch'["toClose"]) \cap (PortIn(ch["clsReq"])' \cup Held(Closing)') = {}
      BY <1>5, <2>1, <2>2, <2>4, <2>5 DEF OnTime, ClosingLine
    <3> QED
      BY <1>1, <2>1, <2>4, <2>5, <2>6, <2>7, <2>8, <3>1 DEF OnTime, ClosingLine
  <2> QED
    BY <1>1, <1>3, <1>4, <2>1, <2>3, <2>5, <2>8, <2>9, <2>10, Zenon DEF IInv, OnTime, Unknown
<1> QED
  BY <1>2, <1>6, <1>7, <1>8

LEMMA UptReplyStep ==
    ASSUME IInv, UptReply, UNCHANGED <<nal, env>>
    PROVE  IInv'
<1> DEFINE p == upt.req.port
           opened == CASE upt.st = "lsnReq" -> upt.open \cup {p} [] upt.st = "clsReq" -> upt.open \ {p}
                       [] OTHER -> upt.open
           a == [id |-> upt.req.id, port |-> p, open |-> p \in opened]
           to == [portReq |-> "portRep", lsnReq |-> "lsnRep", clsReq |-> "clsRep"]
<1>1. /\ prt' = prt /\ lsn' = lsn /\ cls' = cls /\ role' = role
      /\ upt.st # "WAIT4REQ" /\ ch' = Put(ch, to[upt.st], a)
      /\ upt' = [st |-> "WAIT4REQ", req |-> NoReq, open |-> opened]
  BY Zenon DEF UptReply, nal, env
<1>2. upt.st \in {"portReq", "lsnReq", "clsReq"}
  BY <1>1 DEF IInv, PortTypes
<1>3. /\ upt'.st = "WAIT4REQ" /\ upt'.open = opened
      /\ upt' = [st |-> upt'.st, req |-> upt'.req, open |-> upt'.open]
  BY <1>1
<1>4. Noted'
  BY <1>1, Zenon DEF IInv, Noted, Ports
<1>5. ~Opening' /\ ~Closing' /\ Held(Opening)' = {} /\ Held(Closing)' = {}
  BY <1>3 DEF Opening, Closing, Held
<1>6. CASE upt.st = "portReq"
  <2>1. SamePorts(ch, ch')
    <3>1. SamePorts(ch, ch)
      BY DEF SamePorts, IInv, PortTypes, PortStream, Stream, UdpStream, NalStream
    <3>2. "portRep" \notin PortStream /\ to[upt.st] = "portRep"
      BY <1>6 DEF PortStream
    <3> HIDE DEF a, to
    <3> QED
      BY <1>1, <3>1, <3>2, PutElsewhere
  <2>2. /\ DOMAIN ch' = DOMAIN ch
        /\ ch'["toOpen"] = ch["toOpen"] /\ ch'["opened"] = ch["opened"] /\ ch'["toClose"] = ch["toClose"]
        /\ ch'["lsnReq"] = ch["lsnReq"] /\ ch'["lsnRep"] = ch["lsnRep"]
        /\ ch'["clsReq"] = ch["clsReq"] /\ ch'["clsRep"] = ch["clsRep"]
    BY <2>1 DEF SamePorts, PortStream
  <2>3. opened = upt.open
    BY <1>6
  <2> HIDE DEF opened, a, to
  <2>4. PortTypes'
    BY <1>1, <1>3, <2>2, <2>3 DEF IInv, PortTypes
  <2>5. ~Opening /\ ~Closing /\ Held(Opening) = {} /\ Held(Closing) = {}
    BY <1>6 DEF Opening, Closing, Held
  <2>6. ToBeClosed' = ToBeClosed /\ ToBeOpened' = ToBeOpened
    BY <1>5, <2>2, <2>5, Zenon DEF ToBeClosed, ToBeOpened, PortIn
  <2>7. OnTime => OnTime'
    <3>1. OpeningLine => OpeningLine'
      BY <1>1, <1>5, <2>2, <2>5, Zenon
         DEF OpeningLine, OpenStreams, Toward, AtUoe, InUoe, Back, Told, Nowhere
    <3>2. ClosingLine => ClosingLine'
      BY <1>1, <1>5, <2>2, <2>5, <2>6, Zenon DEF ClosingLine
    <3> QED
      BY <1>1, <1>3, <2>2, <2>3, <2>6, <3>1, <3>2, Zenon DEF OnTime, Unknown
  <2>8. Stays => Stays'
    BY <1>1, <1>3, <1>5, <2>2, <2>3, <2>6, Zenon DEF Stays, Ports
  <2> QED
    BY <1>4, <2>4, <2>7, <2>8, Zenon DEF IInv
<1>7. CASE upt.st = "lsnReq"
  <2>1. upt.req \in Request /\ upt.req.id = 0 /\ p \in Nat
    BY <1>7 DEF IInv, PortTypes, Request
  <2>2. opened = upt.open \cup {p} /\ opened \in SUBSET Nat
    BY <1>7, <2>1 DEF IInv, PortTypes
  <2>3. a = [id |-> 0, port |-> p, open |-> TRUE] /\ a \in Answer /\ to[upt.st] = "lsnRep"
    <3>1. p \in opened
      BY <2>2
    <3>2. (p \in opened) = TRUE
      BY <3>1
    <3> HIDE DEF opened
    <3>3. a = [id |-> 0, port |-> p, open |-> TRUE]
      BY <2>1, <3>2
    <3> QED
      BY <1>7, <2>1, <3>3 DEF Answer
  <2> HIDE DEF opened, a, to, p
  <2>4. /\ DOMAIN ch' = Stream /\ ch'["lsnRep"] = Append(ch["lsnRep"], a)
        /\ ch'["toOpen"] = ch["toOpen"] /\ ch'["opened"] = ch["opened"] /\ ch'["toClose"] = ch["toClose"]
        /\ ch'["lsnReq"] = ch["lsnReq"] /\ ch'["clsReq"] = ch["clsReq"] /\ ch'["clsRep"] = ch["clsRep"]
    BY <1>1, <2>3, PortPut DEF IInv, PortTypes, PortStream
  <2>5. ch'["lsnRep"] \in Seq(Answer)
    <3>1. ch["lsnRep"] \in Seq(Answer)
      BY DEF IInv, PortTypes
    <3>2. Append(ch["lsnRep"], a) \in Seq(Answer)
      BY <2>3, <3>1, ElemsAppend
    <3> QED
      BY <2>4, <3>2, Zenon
  <2>6. PortTypes'
    BY <1>1, <1>3, <2>2, <2>4, <2>5 DEF IInv, PortTypes
  <2>7. Opening /\ ~Closing /\ Held(Opening) = {p} /\ Held(Closing) = {}
    BY <1>7 DEF Opening, Closing, Held, p
  <2>8. ToBeClosed' = ToBeClosed
    BY <1>5, <2>4, <2>7, Zenon DEF ToBeClosed, PortIn
  <2>9. ToBeOpened \cup upt.open = ToBeOpened' \cup upt'.open
    BY <1>3, <1>5, <2>2, <2>4, <2>7 DEF ToBeOpened
  <2>10. ASSUME OnTime
         PROVE  OnTime'
    <3>1. prt.st = "NEW_UDP_REP" /\ InUoe(prt.port)
      BY <2>7, <2>10 DEF OnTime, OpeningLine, Toward, AtUoe, Back, Told, Nowhere
    <3>2. prt.port = p /\ ch["lsnRep"] = <<>> /\ ch["opened"] = <<>>
      BY <3>1 DEF InUoe, OpenStreams, p
    <3>3. ch'["lsnRep"] = <<a>>
      BY <2>4, <3>2
    <3>4. Back(prt.port)'
      BY <1>1, <1>5, <2>3, <2>4, <3>1, <3>2, <3>3 DEF Back, InUoe, OpenStreams
    <3>5. OpeningLine'
      BY <1>1, <2>10, <3>1, <3>4 DEF OnTime, OpeningLine
    <3>6. ClosingLine'
      BY <1>1, <1>5, <2>4, <2>7, <2>8, <2>10, Zenon DEF OnTime, ClosingLine
    <3>7. Unknown = {} /\ Unknown' = {p}
      <4>1. ch'["lsnRep"] # <<>>
        BY <3>3
      <4> QED
        BY <1>1, <3>2, <4>1 DEF Unknown
    <3> QED
      BY <1>1, <1>3, <2>2, <2>8, <2>10, <3>5, <3>6, <3>7 DEF OnTime
  <2>11. ASSUME Stays
         PROVE  Stays'
    BY <1>1, <1>5, <2>4, <2>9, <2>11, Zenon DEF Stays, Ports
  <2> QED
    BY <1>4, <2>6, <2>10, <2>11, Zenon DEF IInv
<1>8. CASE upt.st = "clsReq"
  <2>1. upt.req \in Request /\ upt.req.id = 0 /\ p \in Nat
    BY <1>8 DEF IInv, PortTypes, Request
  <2>2. opened = upt.open \ {p} /\ opened \in SUBSET Nat
    BY <1>8, <2>1 DEF IInv, PortTypes
  <2>3. a \in Answer /\ to[upt.st] = "clsRep"
    <3>1. (p \in opened) \in BOOLEAN
      OBVIOUS
    <3> HIDE DEF opened
    <3> QED
      BY <1>8, <2>1, <3>1 DEF Answer
  <2> HIDE DEF opened, a, to, p
  <2>4. /\ DOMAIN ch' = Stream /\ ch'["clsRep"] = Append(ch["clsRep"], a)
        /\ ch'["toOpen"] = ch["toOpen"] /\ ch'["opened"] = ch["opened"] /\ ch'["toClose"] = ch["toClose"]
        /\ ch'["lsnReq"] = ch["lsnReq"] /\ ch'["lsnRep"] = ch["lsnRep"] /\ ch'["clsReq"] = ch["clsReq"]
    BY <1>1, <2>3, PortPut DEF IInv, PortTypes, PortStream
  <2>5. ch'["clsRep"] \in Seq(Answer)
    <3>1. ch["clsRep"] \in Seq(Answer)
      BY DEF IInv, PortTypes
    <3>2. Append(ch["clsRep"], a) \in Seq(Answer)
      BY <2>3, <3>1, ElemsAppend
    <3> QED
      BY <2>4, <3>2, Zenon
  <2>6. PortTypes'
    BY <1>1, <1>3, <2>2, <2>4, <2>5 DEF IInv, PortTypes
  <2>7. ~Opening /\ Closing /\ Held(Opening) = {} /\ Held(Closing) = {p}
    BY <1>8 DEF Opening, Closing, Held, p
  <2>8. OnTime
    BY <2>7 DEF IInv, Stays
  <2>9. cls = "WAIT4RESP" /\ ch["clsReq"] = <<>> /\ ch["clsRep"] = <<>>
    BY <2>7, <2>8 DEF OnTime, ClosingLine, IInv, PortTypes
  <2>10. ch'["clsRep"] = <<a>> /\ Len(ch'["clsRep"]) = 1
    BY <2>4, <2>9
  <2>11. /\ ToBeClosed = Elems(ch["toClose"]) \cup {p} /\ ToBeClosed' = Elems(ch["toClose"])
         /\ p \notin Elems(ch["toClose"]) /\ p \notin prt.ports
    <3>1. PortIn(ch["clsReq"]) = {} /\ PortIn(ch'["clsReq"]) = {}
      BY <2>4, <2>9, ElemsEmpty
    <3>2. ToBeClosed = Elems(ch["toClose"]) \cup {p}
      BY <2>7, <3>1 DEF ToBeClosed
    <3>3. ToBeClosed' = Elems(ch["toClose"])
      BY <1>5, <2>4, <3>1 DEF ToBeClosed
    <3> QED
      BY <2>7, <2>8, <3>2, <3>3 DEF OnTime, ClosingLine
  <2>12. OpeningLine'
    BY <1>1, <1>5, <2>4, <2>7, <2>8, Zenon
       DEF OnTime, OpeningLine, OpenStreams, Toward, AtUoe, InUoe, Back, Told, Nowhere
  <2>13. Unknown = {} /\ Unknown' = {}
    <3>1. prt.st \in {"IDLE", "START_UDP_CLS"}
      BY <2>8, <2>9 DEF OnTime, ClosingLine
    <3>2. Nowhere
      BY <2>8, <3>1 DEF OnTime, OpeningLine
    <3> QED
      BY <2>4, <3>2 DEF Nowhere, OpenStreams, Unknown
  <2>14. ClosingLine'
    <3>1. Elems(ch'["toClose"]) \cap (PortIn(ch["clsReq"])' \cup Held(Closing)') = {}
      BY <1>5, <2>4, <2>9, ElemsEmpty
    <3>2. ToBeClosed' \cap prt'.ports = {}
      BY <1>1, <2>8, <2>11 DEF OnTime, ClosingLine
    <3> QED
      BY <1>1, <1>5, <2>4, <2>8, <2>9, <2>10, <3>1, <3>2 DEF OnTime, ClosingLine
  <2>15. upt'.open = prt'.ports \cup ToBeClosed' \cup Unknown'
    BY <1>1, <1>3, <2>2, <2>8, <2>11, <2>13 DEF OnTime
  <2> QED
    BY <1>4, <2>6, <2>12, <2>14, <2>15, Zenon DEF IInv, OnTime
<1> QED
  BY <1>2, <1>6, <1>7, <1>8

-----------------------------------------------------------------------------
(* The roles. *)

LEMMA RoleLeavesStep ==
    ASSUME IInv, RoleLeaves
    PROVE  IInv'
<1>1. /\ ch' = ch /\ upt' = upt /\ prt' = prt /\ lsn' = lsn /\ cls' = cls
      /\ ~role.dec /\ Len(role.ports) > 1 /\ role' = [role EXCEPT !.dec = TRUE]
  BY Zenon DEF RoleLeaves, NetIdle, Nts, nal, uoe, rx
<1>2. /\ role'.dec = TRUE /\ role'.ports = role.ports
      /\ role' \in [dec : BOOLEAN, ports : Seq(SUBSET Nat)]
  BY <1>1 DEF IInv, PortTypes
<1>3. PortTypes'
  BY <1>1, <1>2 DEF IInv, PortTypes
<1>4. Noted'
  <2>1. Ports' = Ports
    BY <1>2, Zenon DEF Ports
  <2>2. Len(role'.ports) > 1
    BY <1>1, <1>2
  <2>3. Noted
    BY DEF IInv
  <2>4. prt' = prt
    BY <1>1
  <2>5. prt'.ports \subseteq Ports'
    BY <2>1, <2>3, <2>4, Zenon DEF Noted
  <2>6. prt'.st = "NEW_UDP_REQ" => Ports' \ prt'.ports # {}
    BY <2>1, <2>3, <2>4, Zenon DEF Noted
  <2>7. prt'.st = "NEW_UDP_REP" => prt'.port \in Ports' \ prt'.ports
    BY <2>1, <2>3, <2>4, Zenon DEF Noted
  <2> QED
    BY <2>2, <2>5, <2>6, <2>7, Zenon DEF Noted
<1>5. OnTime
  <2>1. Len(role.ports) > 1
    BY <1>1, Zenon
  <2>2. Len(role.ports) \in Nat
    BY DEF IInv, PortTypes
  <2>3. \A n \in Nat : n > 1 => n # 1
    OBVIOUS
  <2>4. Len(role.ports) # 1
    BY <2>1, <2>2, <2>3, Zenon
  <2> QED
    BY <2>4, Zenon DEF IInv, Stays
<1>6. OpeningLine' = OpeningLine
  BY <1>1, Zenon DEF OpeningLine, OpenStreams, Toward, AtUoe, InUoe, Back, Told, Nowhere, Opening
<1>7. ToBeClosed' = ToBeClosed /\ Closing' = Closing /\ Held(Closing)' = Held(Closing)
  BY <1>1, Zenon DEF ToBeClosed, Closing, Held
<1>8. ClosingLine'
  BY <1>1, <1>2, <1>5, <1>7 DEF OnTime, ClosingLine
<1> QED
  BY <1>1, <1>3, <1>4, <1>5, <1>6, <1>7, <1>8, Zenon DEF IInv, OnTime, Unknown

LEMMA RoleArrivesStep ==
    ASSUME IInv, RoleArrives
    PROVE  IInv'
<1>1. /\ upt' = upt /\ prt' = prt /\ lsn' = lsn /\ cls' = cls
      /\ role.dec /\ prt = [st |-> "IDLE", ports |-> {}, port |-> 0]
      /\ cls = "NEXT" /\ ch["toClose"] = <<>>
      /\ role' = [dec |-> FALSE, ports |-> Tail(role.ports)]
  BY Zenon DEF RoleArrives, NetIdle, Nts, nal, uoe, rx, Some
<1>2. /\ DOMAIN ch' = DOMAIN ch
      /\ ch'["toOpen"] = ch["toOpen"] /\ ch'["opened"] = ch["opened"] /\ ch'["toClose"] = ch["toClose"]
      /\ ch'["lsnReq"] = ch["lsnReq"] /\ ch'["lsnRep"] = ch["lsnRep"]
      /\ ch'["clsReq"] = ch["clsReq"] /\ ch'["clsRep"] = ch["clsRep"]
  <2>1. SamePorts(ch, ch)
    BY DEF SamePorts, IInv, PortTypes, PortStream, Stream, UdpStream, NalStream
  <2>2. SamePorts(ch, ch')
    BY <2>1, OthersElsewhere, Zenon
  <2> QED
    BY <2>2 DEF SamePorts, PortStream
<1>3. /\ role'.dec = FALSE /\ role'.ports \in Seq(SUBSET Nat) /\ role'.ports # <<>>
      /\ role' \in [dec : BOOLEAN, ports : Seq(SUBSET Nat)]
  <2>1. role.ports \in Seq(SUBSET Nat) /\ Len(role.ports) > 1
    BY <1>1 DEF IInv, PortTypes, Noted
  <2>2. Tail(role.ports) \in Seq(SUBSET Nat) /\ Tail(role.ports) # <<>>
    BY <2>1
  <2> QED
    BY <1>1, <2>2
<1>4. PortTypes'
  BY <1>1, <1>2, <1>3 DEF IInv, PortTypes
<1>5. Noted'
  <2>1. ~role'.dec /\ prt'.ports = {} /\ prt'.st = "IDLE"
    BY <1>1, <1>3
  <2> QED
    BY <2>1 DEF Noted
<1>6. OnTime
  BY <1>1 DEF IInv, Stays
<1>7. OpeningLine' = OpeningLine
  BY <1>1, <1>2, Zenon DEF OpeningLine, OpenStreams, Toward, AtUoe, InUoe, Back, Told, Nowhere, Opening
<1>8. ToBeClosed' = ToBeClosed /\ Closing' = Closing /\ Held(Closing)' = Held(Closing)
  BY <1>1, <1>2, Zenon DEF ToBeClosed, Closing, Held
<1>9. ClosingLine'
  BY <1>1, <1>2, <1>6, <1>8 DEF OnTime, ClosingLine
<1> QED
  BY <1>1, <1>2, <1>4, <1>5, <1>6, <1>7, <1>8, <1>9, Zenon DEF IInv, OnTime, Unknown

-----------------------------------------------------------------------------
(* The invariant. *)

LEMMA InitIInv ==
    ASSUME LateOrReplaced, Init
    PROVE  IInv
<1>1. /\ work \in Works /\ UdpInit(Waiting, work.opened)
      /\ role = [dec |-> FALSE, ports |-> work.ports]
      /\ prt = [st |-> "IDLE", ports |-> work.opened, port |-> 0]
      /\ lsn = [st |-> "SEND_REQ", late |-> work.late] /\ cls = "NEXT"
  BY DEF Init
<1>2. /\ work.ports \in Seq(SUBSET Nat) /\ work.ports # <<>>
      /\ work.opened \subseteq work.ports[1] /\ work.late \in Nat
      /\ NeverLate(work) \/ OneRole(work)
  BY <1>1, WorksAssumption DEF WorksAssumption, LateOrReplaced
<1>3. /\ ch = [c \in Stream |-> IF c \in DOMAIN Waiting THEN Waiting[c] ELSE <<>>]
      /\ upt = [st |-> "WAIT4REQ", req |-> NoReq, open |-> work.opened]
  BY <1>1 DEF UdpInit, IpInit
<1>4. DOMAIN Waiting = {"eth", "l3toe", "roleMeta", "roleData"}
  BY DEF Waiting
<1>5. /\ DOMAIN ch = Stream
      /\ ch["toOpen"] = <<>> /\ ch["opened"] = <<>> /\ ch["toClose"] = <<>>
      /\ ch["lsnReq"] = <<>> /\ ch["lsnRep"] = <<>> /\ ch["clsReq"] = <<>> /\ ch["clsRep"] = <<>>
  <2> HIDE DEF Waiting
  <2> QED
    BY <1>3, <1>4 DEF Stream, UdpStream, NalStream
<1>6. \A S : <<>> \in Seq(S)
  OBVIOUS
<1>7. /\ work.ports \in Seq(SUBSET Nat) /\ work.ports # <<>> /\ work.late \in Nat
      /\ work.opened \in SUBSET Nat /\ work.opened \subseteq Ports
  <2>1. work.ports \in Seq(SUBSET Nat) /\ work.ports # <<>> /\ work.late \in Nat
    BY <1>2
  <2>2. Ports = work.ports[1] /\ work.ports[1] \in SUBSET Nat
    BY <1>1, <2>1 DEF Ports
  <2> QED
    BY <1>2, <2>1, <2>2
<1>8. /\ prt.st = "IDLE" /\ prt.ports = work.opened /\ lsn.st = "SEND_REQ" /\ lsn.late = work.late
      /\ role.dec = FALSE /\ role.ports = work.ports
      /\ upt.st = "WAIT4REQ" /\ upt.open = work.opened
      /\ upt = [st |-> upt.st, req |-> upt.req, open |-> upt.open]
      /\ prt \in [st : {"IDLE"}, ports : SUBSET Nat, port : Nat]
      /\ lsn \in [st : {"SEND_REQ"}, late : Nat]
      /\ role \in [dec : BOOLEAN, ports : Seq(SUBSET Nat)]
  BY <1>1, <1>3, <1>7
<1>9. PortTypes
  BY <1>1, <1>5, <1>6, <1>7, <1>8 DEF PortTypes
<1>10. Noted
  BY <1>7, <1>8 DEF Noted
<1>11. ~Opening /\ ~Closing /\ Held(Opening) = {} /\ Held(Closing) = {}
  BY <1>8 DEF Opening, Closing, Held
<1>12. ToBeOpened = {} /\ ToBeClosed = {}
  BY <1>5, <1>11, ElemsEmpty DEF ToBeOpened, ToBeClosed
<1>13. CASE NeverLate(work)
  <2>1. OpeningLine
    BY <1>5, <1>8, <1>11, <1>13 DEF OpeningLine, Nowhere, OpenStreams, NeverLate
  <2>2. ClosingLine
    BY <1>1, <1>5, <1>8, <1>11, <1>12, ElemsEmpty DEF ClosingLine
  <2> QED
    BY <1>5, <1>8, <1>9, <1>10, <1>12, <2>1, <2>2 DEF IInv, OnTime, Unknown
<1>14. CASE OneRole(work)
  BY <1>1, <1>5, <1>7, <1>8, <1>9, <1>10, <1>11, <1>12, <1>14 DEF IInv, Stays, OneRole
<1> QED
  BY <1>2, <1>13, <1>14

LEMMA NextIInv ==
    ASSUME IInv, [Next]_vars
    PROVE  IInv'
<1>1. SamePorts(ch, ch) /\ DOMAIN ch = Stream
  BY DEF SamePorts, IInv, PortTypes, PortStream, Stream, UdpStream, NalStream
<1>2. CASE UNCHANGED vars
  <2>1. ch' = ch /\ UNCHANGED PortState
    BY <1>2, Zenon DEF vars, uoe, rx, nal, env, PortState
  <2> QED
    BY <1>1, <2>1, Apart, Zenon
<1>3. CASE IpLayer /\ UNCHANGED <<uoe, mixed, nal, env>>
  <2>1. SamePorts(ch, ch')
    BY <1>1, <1>3, IprxElsewhere, IcmpElsewhere, ArpsElsewhere, IptxElsewhere, Zenon DEF IpLayer
  <2>2. UNCHANGED PortState
    BY <1>3, Zenon DEF uoe, rx, nal, env, PortState
  <2> QED
    BY <2>1, <2>2, Apart
<1>4. CASE RxEngine /\ UNCHANGED <<nal, env>>
  <2>1. CASE IpHeaderStripper \/ UdpChecksumChecker \/ RxPacketHandler
    <3>1. SamePorts(ch, ch')
      BY <1>1, <2>1, IhsElsewhere, UccElsewhere, RphElsewhere, Zenon
    <3>2. upt' = upt
      BY <2>1, Zenon
         DEF IpHeaderStripper, IhsIdle, IhsHeader, IhsUdpHeader, IhsForward, IhsResidue, IhsDone, IhsDrop, Ihs,
             UdpChecksumChecker, UccInit, UccIdle, UccStart, UccStream, UccVerdict, Ucc,
             RxPacketHandler, RphIdle, RphLookup, RphStreamFirst, RphStream,
             RphDrainDatagram, RphDrainHeader, RphUnreachable, Rph
    <3>3. UNCHANGED PortState
      BY <1>4, <3>2, Zenon DEF nal, env, PortState
    <3> QED
      BY <3>1, <3>3, Apart
  <2>2. CASE UdpPortTable
    BY <1>4, <2>2, UptTakeStep, UptReplyStep, Zenon DEF UdpPortTable
  <2> QED
    BY <1>4, <2>1, <2>2, Zenon DEF RxEngine
<1>5. CASE TxEngine /\ UNCHANGED <<nal, env>>
  <2>1. SamePorts(ch, ch')
    BY <1>1, <1>5, TxEngineElsewhere, Zenon
  <2>2. upt' = upt
    BY <1>5, Zenon
       DEF TxEngine, TxApplicationInterface, TaiIdle, TaiData, TaiMeta, Tai,
           TxDatagramHandler, TdhMeta, TdhLen, TdhData, TdhResidue, Tdh,
           UcaAccumulate, UcaDone, UhaIdle, UhaStream, Uha, IhaHeader, IhaForward, rx
  <2>3. UNCHANGED PortState
    BY <1>5, <2>2, Zenon DEF nal, env, PortState
  <2> QED
    BY <2>1, <2>3, Apart
<1>6. CASE UdpTX \/ UtdDeq
  <2>1. SamePorts(ch, ch')
    BY <1>1, <1>6, UdpTXElsewhere, Zenon
  <2>2. UNCHANGED PortState
    BY <1>6, Zenon
       DEF UdpTX, UtxInval, UtxMeta, UtxReply, UtxFirst, UtxData, TxRest, UtdDeq, Nts, uoe, rx, env, PortState
  <2> QED
    BY <2>1, <2>2, Apart
<1>7. CASE UdpRx \/ UrdDeq
  <2>1. SamePorts(ch, ch')
    BY <1>1, <1>7, UdpRxElsewhere, Zenon
  <2>2. UNCHANGED PortState
    BY <1>7, Zenon
       DEF UdpRx, UrxInval, UrxMeta, UrxReply, UrxFirst, UrxData, UrdDeq, RxRest, Nts, uoe, rx, env, PortState
  <2> QED
    BY <2>1, <2>2, Apart
<1>8. CASE MrtAnswer \/ Wire \/ ToeTake
  <2>1. SamePorts(ch, ch')
    BY <1>1, <1>8, OthersElsewhere, Zenon
  <2>2. UNCHANGED PortState
    BY <1>8, Zenon DEF MrtAnswer, Wire, ToeTake, NetIdle, Nts, uoe, rx, nal, env, PortState
  <2> QED
    BY <2>1, <2>2, Apart
<1>9. CASE PortLogic \/ UdpLsn \/ UdpCls
  BY <1>9, PrtIdleStep, PrtCloseStep, PrtRequestStep, PrtReplyStep,
     LsnRequestStep, LsnReplyStep, LsnTimeoutStep, UdpClsStep, Zenon DEF PortLogic, UdpLsn
<1> QED
  BY <1>2, <1>3, <1>4, <1>5, <1>6, <1>7, <1>8, <1>9, RoleLeavesStep, RoleArrivesStep, Zenon
     DEF Next, System, Uss

LEMMA IInvImplies ==
    ASSUME IInv
    PROVE  PortsAgree
<1> SUFFICES ASSUME prt.ports = (IF role.dec THEN {} ELSE Ports),
                    prt.st = "IDLE", cls = "NEXT", upt.st = "WAIT4REQ",
                    ch["toOpen"] = <<>>, ch["toClose"] = <<>>,
                    ch["lsnReq"] = <<>>, ch["clsReq"] = <<>>
             PROVE  upt.open = prt.ports
  BY DEF PortsAgree, Some
<1>1. Held(Opening) = {} /\ Held(Closing) = {}
  BY DEF Opening, Closing, Held
<1>2. ToBeOpened = {} /\ ToBeClosed = {}
  BY <1>1, ElemsEmpty DEF ToBeOpened, ToBeClosed
<1>3. CASE OnTime
  <2>1. Nowhere
    BY <1>3 DEF OnTime, OpeningLine
  <2>2. Unknown = {}
    BY <2>1 DEF Unknown, Nowhere, OpenStreams
  <2> QED
    BY <1>2, <1>3, <2>2 DEF OnTime
<1>4. CASE Stays
  BY <1>2, <1>4 DEF Stays
<1> QED
  BY <1>3, <1>4 DEF IInv

\* When everything that was asked has been done, the ports open in UOE are those
\* of the role, and none without a role: however many roles follow each other,
\* each with whatever ports, or however many answers of UOE come late to a role
\* that stays (pPortLogic, pUdpLsn, pUdpCls, pUdpPortTable).  With both in one
\* workload it is false: a port that UOE opens after the watchdog gave up is not
\* noted by pPortLogic, which does not close it when the role leaves.
THEOREM PortsAgreeHolds ==
    LateOrReplaced => (FairSpec => []PortsAgree)
<1> SUFFICES ASSUME LateOrReplaced
             PROVE  FairSpec => []PortsAgree
  OBVIOUS
<1>1. Init => IInv
  BY InitIInv
<1>2. IInv /\ [Next]_vars => IInv'
  BY NextIInv
<1>3. IInv => PortsAgree
  BY IInvImplies
<1> QED
  BY <1>1, <1>2, <1>3, PTL DEF FairSpec

-----------------------------------------------------------------------------
(* What is in each stream *)

Frames == Elems(work.frames)

\* What is said of frame k; nothing, if k is the name of something else.
ToUoe(f) == Sound(f) /\ f.ttl # 1 /\ f.proto = "udp"
ToIcmp(f) == Sound(f) /\ f.ttl # 1 /\ f.proto = "icmp"
Replied(f) == \/ Sound(f) /\ (f.ttl = 1 \/ f.proto = "udp" \/ (f.proto = "icmp" /\ f.msg = "echo"))
              \/ f.type = "arp" /\ f.op = "request" /\ f.dst = Me
Wasted(f) == ~(Sound(f) /\ (f.ttl = 1 \/ f.proto = "tcp" \/ (f.proto = "icmp" /\ f.msg = "echo")))
Received(f) == Sound(f) /\ f.ttl # 1 /\ (f.proto = "tcp" \/ ForRole(f))

Foreign(k) == \A f \in Frames : f.id # k
OfUdp(k) == \A f \in Frames : f.id = k => ToUoe(f)
OfIcmp(k) == \A f \in Frames : f.id = k => ToIcmp(f)
OfEcho(k) == \A f \in Frames : f.id = k => ToIcmp(f) /\ f.msg = "echo"
OfNoEcho(k) == \A f \in Frames : f.id = k => ToIcmp(f) /\ f.msg # "echo"
OfExpired(k) == \A f \in Frames : f.id = k => Sound(f) /\ f.ttl = 1
OfTcp(k) == \A f \in Frames : f.id = k => Sound(f) /\ f.ttl # 1 /\ f.proto = "tcp"
OfReply(k) == \A f \in Frames : f.id = k => Replied(f)
OfWaste(k) == \A f \in Frames : f.id = k => Wasted(f)
\* A datagram of sender ip whose checksum is not wrong, and one for the role.
OfSender(k, ip) == \A f \in Frames : f.id = k => ToUoe(f) /\ f.csum # "bad" /\ f.src = ip
OfRole(k) == \A f \in Frames : f.id = k => ToUoe(f) /\ ForRole(f)

Came(x) == x \in Frames \/ (x.id = 0 /\ x.type = "arp" /\ x.op = "reply")
Trimmed(x) == \E f \in Frames : Sound(f) /\ x = [f EXCEPT !.pad = FALSE]

\* What may be in stream c.
Is(c, x) ==
    /\ c \in {"eth", "mpd", "arpIn"} => Came(x)
    /\ c = "arpIn" => x.type = "arp"
    /\ c \in {"ilc", "ica", "iid"} => x \in Frames /\ x.type = "ip" /\ x.mac \in {"own", "bcast"}
    /\ c \in {"ica", "iid"} => ~x.long
    /\ c = "icl" => x \in Frames /\ Sound(x)
    /\ c \in {"ipr", "icmp", "derr", "uoe", "toe"} => Trimmed(x)
    /\ c \in {"icmp", "uoe", "toe"} => x.ttl # 1
    /\ c = "derr" => x.ttl = 1
    /\ c = "icmp" => x.proto = "icmp"
    /\ c = "uoe" => x.proto = "udp"
    /\ c = "toe" => x.proto = "tcp"
    /\ c = "icmpData" => "id" \in DOMAIN x /\ OfIcmp(x.id)
    /\ c = "xyz0" => OfEcho(x.id)
    /\ c = "ihaData" => OfUdp(x.id) \/ OfExpired(x.id)
    /\ c = "unreach" => OfUdp(x.id)
    /\ c \in {"apsMeta", "ethOut"} => OfReply(x.id)
    /\ c \in {"xyz0", "xyz1", "l3icmp", "l3udp", "l3toe", "l3", "hcaData", "iae", "mai"} => "id" \in DOMAIN x /\ OfReply(x.id)
    /\ c \in {"roleMeta", "txMeta", "taiMeta", "tdhMeta", "uhaMeta"} => Foreign(x.id)
    /\ c \in {"roleData", "txData", "taiData", "tdhData", "uhaData", "ihData"} => Foreign(x.w[1][1])
    /\ c = "uaifMeta" => OfSender(x.id, x.src)
    /\ c = "rxMeta" => OfRole(x.id)

IsSeq(s) == s \in Seq(Elems(s))
Kinds(g) ==
    /\ DOMAIN g = Stream
    /\ \A c \in Stream : IsSeq(g[c]) /\ \A x \in Elems(g[c]) : Is(c, x)

LEMMA SeqIs ==
    ASSUME NEW S, NEW s \in Seq(S)
    PROVE  IsSeq(s) /\ Elems(s) \subseteq S
<1>1. \A i \in 1..Len(s) : s[i] \in S
  OBVIOUS
<1>2. s = [i \in 1..Len(s) |-> s[i]] /\ Len(s) \in Nat
  OBVIOUS
<1> QED
  BY <1>1, <1>2 DEF IsSeq, Elems

LEMMA AppendFits ==
    ASSUME NEW s, NEW x, IsSeq(s)
    PROVE  /\ IsSeq(Append(s, x)) /\ \A y \in Elems(Append(s, x)) : y \in Elems(s) \/ y = x
           /\ Len(Append(s, x)) = Len(s) + 1 /\ Len(s) \in Nat
<1>1. PICK S : S = Elems(s) \cup {x}
  OBVIOUS
<1>2. s \in Seq(S)
  BY <1>1 DEF IsSeq
<1>3. Append(s, x) \in Seq(S)
  BY <1>1, <1>2
<1>4. \A i \in 1..Len(Append(s, x)) : Append(s, x)[i] \in Elems(s) \/ Append(s, x)[i] = x
  BY <1>2 DEF Elems
<1>5. \A y \in Elems(Append(s, x)) : y \in Elems(s) \/ y = x
  BY <1>4, Zenon DEF Elems
<1>6. Len(Append(s, x)) = Len(s) + 1 /\ Len(s) \in Nat
  BY <1>2
<1> QED
  BY <1>3, <1>5, <1>6, SeqIs, Zenon

LEMMA TailFits ==
    ASSUME NEW s, IsSeq(s), s # <<>>
    PROVE  /\ IsSeq(Tail(s)) /\ \A y \in Elems(Tail(s)) : y \in Elems(s)
           /\ Head(s) \in Elems(s) /\ Head(s) = s[1] /\ Len(Tail(s)) = Len(s) - 1 /\ Len(s) \in Nat \ {0}
           /\ \A i \in 1 .. Len(s) - 1 : Tail(s)[i] = s[i + 1]
<1>1. PICK S : S = Elems(s)
  OBVIOUS
<1>2. s \in Seq(S)
  BY <1>1 DEF IsSeq
<1>3. Tail(s) \in Seq(S)
  BY <1>2
<1>4. Head(s) \in S /\ Head(s) = s[1] /\ Len(Tail(s)) = Len(s) - 1 /\ Len(s) \in Nat \ {0}
  BY <1>2
<1>5. \A i \in 1 .. Len(s) - 1 : Tail(s)[i] = s[i + 1]
  BY <1>2
<1> QED
  BY <1>1, <1>3, <1>4, <1>5, SeqIs

LEMMA PutFits ==
    ASSUME NEW g, NEW c \in Stream, NEW x, Kinds(g), Is(c, x)
    PROVE  Kinds(Put(g, c, x))
<1>1. IsSeq(g[c]) /\ \A y \in Elems(g[c]) : Is(c, y)
  BY DEF Kinds
<1>2. IsSeq(Append(g[c], x)) /\ \A y \in Elems(Append(g[c], x)) : y \in Elems(g[c]) \/ y = x
  BY <1>1, AppendFits, Zenon
<1>3. \A y \in Elems(Append(g[c], x)) : Is(c, y)
  BY <1>1, <1>2, Zenon
<1>4. DOMAIN g = Stream
  BY DEF Kinds
<1>6. /\ DOMAIN Put(g, c, x) = Stream /\ Put(g, c, x)[c] = Append(g[c], x)
      /\ \A b \in Stream : b # c => Put(g, c, x)[b] = g[b]
  BY <1>4, PutIs
<1>5. ASSUME NEW b \in Stream
      PROVE  IsSeq(Put(g, c, x)[b]) /\ \A y \in Elems(Put(g, c, x)[b]) : Is(b, y)
  <2>1. CASE b = c
    BY <1>2, <1>3, <1>6, <2>1, Zenon
  <2>2. CASE b # c
    BY <1>6, <2>2, Zenon DEF Kinds
  <2> QED
    BY <2>1, <2>2, Zenon
<1> QED
  BY <1>5, <1>6, Zenon DEF Kinds

LEMMA PopFits ==
    ASSUME NEW g, NEW c \in Stream, Kinds(g), g[c] # <<>>
    PROVE  Kinds(Pop(g, c)) /\ Is(c, Head(g[c]))
<1>1. IsSeq(g[c]) /\ \A y \in Elems(g[c]) : Is(c, y)
  BY DEF Kinds
<1>2. IsSeq(Tail(g[c])) /\ (\A y \in Elems(Tail(g[c])) : y \in Elems(g[c])) /\ Head(g[c]) \in Elems(g[c])
  BY <1>1, TailFits, Zenon
<1>3. \A y \in Elems(Tail(g[c])) : Is(c, y)
  BY <1>1, <1>2, Zenon
<1>4. DOMAIN g = Stream
  BY DEF Kinds
<1>6. /\ DOMAIN Pop(g, c) = Stream /\ Pop(g, c)[c] = Tail(g[c])
      /\ \A b \in Stream : b # c => Pop(g, c)[b] = g[b]
  BY <1>4, PopIs
<1>5. ASSUME NEW b \in Stream
      PROVE  IsSeq(Pop(g, c)[b]) /\ \A y \in Elems(Pop(g, c)[b]) : Is(b, y)
  <2>1. CASE b = c
    BY <1>2, <1>3, <1>6, <2>1, Zenon
  <2>2. CASE b # c
    BY <1>6, <2>2, Zenon DEF Kinds
  <2> QED
    BY <2>1, <2>2, Zenon
<1> QED
  BY <1>1, <1>2, <1>5, <1>6, Zenon DEF Kinds

LEMMA PassFits ==
    ASSUME NEW a \in Stream, NEW b \in Stream, NEW x, Kinds(ch), Pass(a, b, x), Is(a, Head(ch[a])) => Is(b, x)
    PROVE  Kinds(ch')
<1>1. ch[a] # <<>> /\ ch' = Put(Pop(ch, a), b, x)
  BY DEF Pass, Some
<1>2. Kinds(Pop(ch, a)) /\ Is(a, Head(ch[a]))
  BY <1>1, PopFits, Zenon
<1> QED
  BY <1>1, <1>2, PutFits, Zenon

-----------------------------------------------------------------------------
(* Frames and what becomes of them *)

LEMMA FramesAre ==
    ASSUME work \in Works
    PROVE  /\ IsSeq(work.frames) /\ Frames \subseteq FrameType
           /\ \A f, g \in Frames : f.id = g.id => f = g
<1>1. work.frames \in Seq(FrameType) /\ Distinct(work.frames)
  BY TrafficAssumption DEF TrafficAssumption
<1>2. DOMAIN work.frames = 1..Len(work.frames)
  BY <1>1
<1>3. \A i, j \in 1..Len(work.frames) : work.frames[i].id = work.frames[j].id => i = j
  BY <1>1, <1>2, Zenon DEF Distinct
<1>4. \A f, g \in Frames : f.id = g.id => f = g
  BY <1>3, Zenon DEF Frames, Elems
<1> QED
  BY <1>1, <1>4, SeqIs, Zenon DEF Frames

\* What is cut off is not looked at.

LEMMA CutKeeps ==
    ASSUME NEW f \in FrameType, NEW x, x = [f EXCEPT !.pad = FALSE]
    PROVE  /\ x \in FrameType /\ "id" \in DOMAIN x /\ "id" \in DOMAIN f
           /\ x.id = f.id /\ x.src = f.src /\ x.ttl = f.ttl /\ x.proto = f.proto /\ x.msg = f.msg
           /\ x.ihl = f.ihl /\ x.port = f.port /\ x.csum = f.csum /\ x.n = f.n
BY DEF FrameType

LEMMA TrimmedIs ==
    ASSUME NEW x, Trimmed(x), work \in Works
    PROVE  \E f \in Frames : /\ Sound(f) /\ x.id = f.id /\ x.src = f.src /\ x.ttl = f.ttl /\ x.proto = f.proto
                             /\ x.msg = f.msg /\ x.ihl = f.ihl /\ x.port = f.port /\ x.csum = f.csum /\ x.n = f.n
                             /\ f \in FrameType /\ x \in FrameType /\ \A g \in Frames : g.id = x.id => g = f
<1>1. PICK f \in Frames : Sound(f) /\ x = [f EXCEPT !.pad = FALSE]
  BY DEF Trimmed
<1>2. f \in FrameType /\ \A g \in Frames : g.id = f.id => g = f
  BY FramesAre
<1>3. /\ x \in FrameType
      /\ x.id = f.id /\ x.src = f.src /\ x.ttl = f.ttl /\ x.proto = f.proto /\ x.msg = f.msg
      /\ x.ihl = f.ihl /\ x.port = f.port /\ x.csum = f.csum /\ x.n = f.n
  BY <1>1, <1>2, CutKeeps
<1> QED
  BY <1>1, <1>2, <1>3, Zenon

\* So says a packet that has passed the dropper of its frame.
LEMMA TrimmedSays ==
    ASSUME NEW x, Trimmed(x), work \in Works
    PROVE  /\ x.ttl = 1 => OfExpired(x.id)
           /\ x.ttl # 1 /\ x.proto = "udp" => OfUdp(x.id)
           /\ x.ttl # 1 /\ x.proto = "icmp" => OfIcmp(x.id)
           /\ x.ttl # 1 /\ x.proto = "icmp" /\ x.msg = "echo" => OfEcho(x.id)
           /\ x.ttl # 1 /\ x.proto = "icmp" /\ x.msg # "echo" => OfNoEcho(x.id)
           /\ x.ttl # 1 /\ x.proto = "tcp" => OfTcp(x.id)
<1>1. PICK f \in Frames : /\ Sound(f) /\ x.id = f.id /\ x.src = f.src /\ x.ttl = f.ttl /\ x.proto = f.proto
                          /\ x.msg = f.msg /\ x.ihl = f.ihl /\ x.port = f.port /\ x.csum = f.csum /\ x.n = f.n
                          /\ f \in FrameType /\ x \in FrameType /\ \A g \in Frames : g.id = x.id => g = f
  BY TrimmedIs, Zenon
<1> QED
  BY <1>1 DEF OfExpired, OfUdp, OfIcmp, OfEcho, OfNoEcho, OfTcp, ToUoe, ToIcmp

LEMMA NoFrameZero ==
    ASSUME work \in Works
    PROVE  Foreign(0)
<1>1. \A f \in Frames : f.id # 0
  BY FramesAre DEF FrameType
<1> QED
  BY <1>1 DEF Foreign

\* Just(f, a): a may become of f.
Just(f, a) ==
    /\ a = "delivered" => Received(f)
    /\ a \in {"refused", "answered", "missed"} => Replied(f)
    /\ a = "dropped" => Wasted(f)
FateLine == work \in Works /\ \A f \in Frames : f.id \in DOMAIN fate /\ Just(f, fate[f.id])

LEMMA FateStep ==
    ASSUME FateLine, NEW k, NEW a, Becomes(k, a), work' = work, \A f \in Frames : f.id = k => Just(f, a)
    PROVE  FateLine'
<1>1. fate' = [fate EXCEPT ![k] = a]
  BY DEF Becomes
<1>2. ASSUME NEW f \in Frames
      PROVE  f.id \in DOMAIN fate' /\ Just(f, fate'[f.id])
  <2>1. f.id \in DOMAIN fate /\ Just(f, fate[f.id])
    BY DEF FateLine
  <2>2. fate'[f.id] = IF f.id = k THEN a ELSE fate[f.id]
    BY <1>1, <2>1
  <2>3. f.id \in DOMAIN fate'
    BY <1>1, <2>1
  <2> QED
    BY <2>1, <2>2, <2>3
<1>3. Frames' = Frames
  BY DEF Frames
<1>4. \A f, b : Just(f, b)' <=> Just(f, b)
  OBVIOUS
<1> QED
  BY <1>2, <1>3 DEF FateLine, Just, Received, Replied, Wasted, Sound, ForRole

LEMMA FateKept ==
    ASSUME FateLine, UNCHANGED <<fate, work>>
    PROVE  FateLine'
BY DEF FateLine, Frames, Just, Received, Replied, Wasted, Sound, ForRole

LEMMA FateImplies ==
    ASSUME FateLine
    PROVE  FateIsJust
<1>1. DOMAIN work.frames = 1..Len(work.frames)
  BY FramesAre DEF FateLine, IsSeq
<1>2. Seqs!ToSet(work.frames) = Frames
  BY <1>1, Zenon DEF Seqs!ToSet, Frames, Elems
<1> QED
  BY <1>2 DEF FateLine, FateIsJust, Just, Received, Replied, Wasted

\* From what a stream says to what may become of the frame.
LEMMA JustThen ==
    ASSUME NEW k
    PROVE  /\ Foreign(k) => OfReply(k) /\ OfWaste(k) /\ OfUdp(k)
           /\ OfUdp(k) \/ OfExpired(k) \/ OfEcho(k) => OfReply(k)
           /\ OfUdp(k) \/ OfNoEcho(k) => OfWaste(k)
           /\ OfReply(k) => \A f \in Frames : f.id = k => Just(f, "refused") /\ Just(f, "answered") /\ Just(f, "missed")
           /\ OfWaste(k) => \A f \in Frames : f.id = k => Just(f, "dropped")
           /\ OfTcp(k) => \A f \in Frames : f.id = k => Just(f, "delivered")
           /\ OfRole(k) => OfUdp(k) /\ \A f \in Frames : f.id = k => Just(f, "delivered")
           /\ \A f \in Frames : Just(f, "sent") /\ Just(f, "learned")
BY DEF Foreign, OfReply, OfWaste, OfUdp, OfExpired, OfEcho, OfNoEcho, OfTcp, OfRole, Just, Replied, Wasted, Received, ToUoe, ToIcmp

\* g has what f has but in the streams of T.
SameBut(T, f, g) ==
    /\ DOMAIN f = Stream /\ DOMAIN g = Stream
    /\ \A c \in Stream : c \notin T => g[c] = f[c]

LEMMA PutSame ==
    ASSUME NEW T, NEW f, NEW g, NEW c, NEW m, c \in T, SameBut(T, f, g)
    PROVE  SameBut(T, f, Put(g, c, m))
BY DEF SameBut, Put

LEMMA PopSame ==
    ASSUME NEW T, NEW f, NEW g, NEW c, c \in T, SameBut(T, f, g)
    PROVE  SameBut(T, f, Pop(g, c))
BY DEF SameBut, Pop

LEMMA PassSame ==
    ASSUME NEW T, NEW a, NEW b, NEW m, a \in T, b \in T, SameBut(T, ch, ch), Pass(a, b, m)
    PROVE  SameBut(T, ch, ch')
BY PutSame, PopSame DEF Pass

-----------------------------------------------------------------------------
(* IPRX: the verdicts and the packets they are on *)

\* p: packets, v: versions, d: fragments, c: verdicts on checksums, s: sums.
Meets(p, v, d, c, s) ==
    /\ Len(v) = Len(p) /\ Len(d) = Len(p) /\ Len(c) + Len(s) = Len(p)
    /\ \A j \in 1..Len(p) : v[j].ver = p[j].ver /\ d[j].drop = p[j].frag
    /\ \A j \in 1..Len(c) : c[j].valid = (p[j].sum /\ p[j].dst = Me)
    /\ \A j \in 1..Len(s) : s[j].ok = p[Len(c) + j].sum /\ s[j].match = (p[Len(c) + j].dst = Me)
HeadsMeet(p, v, d, c) ==
    Head(v).ver = Head(p).ver /\ Head(d).drop = Head(p).frag /\ Head(c).valid = (Head(p).sum /\ Head(p).dst = Me)
VerdictStream == {"iid", "ipVer", "dropFrag", "csumValid", "subSums"}
VerdictsMeet(g) == Meets(g["iid"], g["ipVer"], g["dropFrag"], g["csumValid"], g["subSums"])

LEMMA AppendIs ==
    ASSUME NEW s, NEW x, IsSeq(s)
    PROVE  /\ Len(Append(s, x)) = Len(s) + 1 /\ Len(s) \in Nat
           /\ \A i \in 1..Len(s) : Append(s, x)[i] = s[i]
           /\ Append(s, x)[Len(s) + 1] = x
<1>1. PICK S : S = Elems(s) \cup {x}
  OBVIOUS
<1>2. s \in Seq(S) /\ x \in S
  BY <1>1 DEF IsSeq
<1> QED
  BY <1>2

LEMMA MeetsAppend ==
    ASSUME NEW p, NEW v, NEW d, NEW c, NEW s, Meets(p, v, d, c, s),
           IsSeq(p), IsSeq(v), IsSeq(d), IsSeq(c), IsSeq(s),
           NEW x, NEW y, NEW z, NEW w, y.ver = x.ver, z.drop = x.frag, w.ok = x.sum, w.match = (x.dst = Me)
    PROVE  Meets(Append(p, x), Append(v, y), Append(d, z), c, Append(s, w))
<1>1. PICK p1, v1, d1, s1 : p1 = Append(p, x) /\ v1 = Append(v, y) /\ d1 = Append(d, z) /\ s1 = Append(s, w)
  OBVIOUS
<1>2. Len(p1) = Len(p) + 1 /\ Len(p) \in Nat /\ (\A i \in 1..Len(p) : p1[i] = p[i]) /\ p1[Len(p) + 1] = x
  BY <1>1, AppendIs
<1>3. Len(v1) = Len(v) + 1 /\ Len(v) \in Nat /\ (\A i \in 1..Len(v) : v1[i] = v[i]) /\ v1[Len(v) + 1] = y
  BY <1>1, AppendIs
<1>4. Len(d1) = Len(d) + 1 /\ Len(d) \in Nat /\ (\A i \in 1..Len(d) : d1[i] = d[i]) /\ d1[Len(d) + 1] = z
  BY <1>1, AppendIs
<1>5. Len(s1) = Len(s) + 1 /\ Len(s) \in Nat /\ (\A i \in 1..Len(s) : s1[i] = s[i]) /\ s1[Len(s) + 1] = w
  BY <1>1, AppendIs
<1>6. Len(c) \in Nat
  BY DEF IsSeq
<1>8. Len(v) = Len(p) /\ Len(d) = Len(p) /\ Len(c) + Len(s) = Len(p)
  BY DEF Meets
<1>9. ASSUME NEW j \in 1..Len(p1)
      PROVE  v1[j].ver = p1[j].ver /\ d1[j].drop = p1[j].frag
  <2>1. CASE j = Len(p) + 1
    BY <1>2, <1>3, <1>4, <1>8, <2>1
  <2>2. CASE j \in 1..Len(p)
    BY <1>2, <1>3, <1>4, <1>8, <2>2 DEF Meets
  <2> QED
    BY <1>2, <2>1, <2>2
<1>10. \A j \in 1..Len(c) : c[j].valid = (p1[j].sum /\ p1[j].dst = Me)
  BY <1>2, <1>5, <1>6, <1>8 DEF Meets
<1>11. ASSUME NEW j \in 1..Len(s1)
      PROVE  s1[j].ok = p1[Len(c) + j].sum /\ s1[j].match = (p1[Len(c) + j].dst = Me)
  <2>1. CASE j = Len(s) + 1
    BY <1>2, <1>5, <1>6, <1>8, <2>1
  <2>2. CASE j \in 1..Len(s)
    BY SMTT(40), <1>2, <1>5, <1>6, <1>8, <2>2 DEF Meets
  <2> QED
    BY <1>5, <2>1, <2>2
<1>7. Meets(p1, v1, d1, c, s1)
  BY <1>2, <1>3, <1>4, <1>5, <1>6, <1>8, <1>9, <1>10, <1>11 DEF Meets
<1> QED
  BY <1>1, <1>7

LEMMA MeetsCheck ==
    ASSUME NEW p, NEW v, NEW d, NEW c, NEW s, Meets(p, v, d, c, s),
           IsSeq(p), IsSeq(v), IsSeq(d), IsSeq(c), IsSeq(s), s # <<>>,
           NEW x, x.valid = (Head(s).ok /\ Head(s).match)
    PROVE  Meets(p, v, d, Append(c, x), Tail(s))
<1>1. PICK c1, t : c1 = Append(c, x) /\ t = Tail(s)
  OBVIOUS
<1>2. Len(c1) = Len(c) + 1 /\ Len(c) \in Nat /\ (\A i \in 1..Len(c) : c1[i] = c[i]) /\ c1[Len(c) + 1] = x
  BY <1>1, AppendIs, SMTT(40)
<1>3. Head(s) = s[1] /\ Len(t) = Len(s) - 1 /\ Len(s) \in Nat \ {0} /\ \A i \in 1 .. Len(s) - 1 : t[i] = s[i + 1]
  BY <1>1, TailFits, Zenon
<1>4. Len(p) \in Nat
  BY DEF IsSeq
<1>9. Len(v) = Len(p) /\ Len(d) = Len(p) /\ Len(c) + Len(s) = Len(p)
  BY DEF Meets
<1>10. PICK nc, ns, np, n1, nt : nc = Len(c) /\ ns = Len(s) /\ np = Len(p) /\ n1 = Len(c1) /\ nt = Len(t)
  OBVIOUS
<1>11. n1 = nc + 1 /\ nc \in Nat /\ nt = ns - 1 /\ ns \in Nat \ {0} /\ nc + ns = np
  BY <1>2, <1>3, <1>9, <1>10, Zenon
<1>12. n1 + nt = np
  BY <1>11
<1>6. Len(v) = Len(p) /\ Len(d) = Len(p) /\ Len(c1) + Len(t) = Len(p)
  BY <1>9, <1>10, <1>12, Zenon
<1>7. ASSUME NEW j \in 1..Len(c1)
      PROVE  c1[j].valid = (p[j].sum /\ p[j].dst = Me)
  <2>1. CASE j = Len(c) + 1
    <3>1. s[1].ok = p[j].sum /\ s[1].match = (p[j].dst = Me)
      BY <1>2, <1>3, <2>1 DEF Meets
    <3> QED
      BY <1>2, <1>3, <2>1, <3>1
  <2>2. CASE j \in 1..Len(c)
    BY <1>2, <2>2 DEF Meets
  <2> QED
    BY <1>2, <2>1, <2>2
<1>8. ASSUME NEW j \in 1..Len(t)
      PROVE  t[j].ok = p[Len(c1) + j].sum /\ t[j].match = (p[Len(c1) + j].dst = Me)
  <2>1. j + 1 \in 1..Len(s) /\ Len(c) + (j + 1) = Len(c1) + j /\ t[j] = s[j + 1]
    BY <1>2, <1>3
  <2>2. s[j + 1].ok = p[Len(c) + (j + 1)].sum /\ s[j + 1].match = (p[Len(c) + (j + 1)].dst = Me)
    BY <2>1 DEF Meets
  <2> QED
    BY <2>1, <2>2
<1>5. Meets(p, v, d, c1, t)
  BY <1>6, <1>7, <1>8 DEF Meets
<1> QED
  BY <1>1, <1>5

LEMMA MeetsTail ==
    ASSUME NEW p, NEW v, NEW d, NEW c, NEW s, Meets(p, v, d, c, s),
           IsSeq(p), IsSeq(v), IsSeq(d), IsSeq(c), IsSeq(s), p # <<>>, v # <<>>, d # <<>>, c # <<>>
    PROVE  Meets(Tail(p), Tail(v), Tail(d), Tail(c), s) /\ HeadsMeet(p, v, d, c)
<1>1. PICK p1, v1, d1, c1 : p1 = Tail(p) /\ v1 = Tail(v) /\ d1 = Tail(d) /\ c1 = Tail(c)
  OBVIOUS
<1>2. Head(p) = p[1] /\ Len(p1) = Len(p) - 1 /\ Len(p) \in Nat \ {0} /\ \A i \in 1 .. Len(p) - 1 : p1[i] = p[i + 1]
  BY <1>1, TailFits, Zenon
<1>3. Head(v) = v[1] /\ Len(v1) = Len(v) - 1 /\ Len(v) \in Nat \ {0} /\ \A i \in 1 .. Len(v) - 1 : v1[i] = v[i + 1]
  BY <1>1, TailFits, Zenon
<1>4. Head(d) = d[1] /\ Len(d1) = Len(d) - 1 /\ Len(d) \in Nat \ {0} /\ \A i \in 1 .. Len(d) - 1 : d1[i] = d[i + 1]
  BY <1>1, TailFits, Zenon
<1>5. Head(c) = c[1] /\ Len(c1) = Len(c) - 1 /\ Len(c) \in Nat \ {0} /\ \A i \in 1 .. Len(c) - 1 : c1[i] = c[i + 1]
  BY <1>1, TailFits, Zenon
<1>6. Len(s) \in Nat
  BY DEF IsSeq
<1>7. \A j \in 1..Len(s) : p1[Len(c1) + j] = p[Len(c) + j]
  BY <1>2, <1>5, <1>6 DEF Meets
<1>10. Len(v1) = Len(p1) /\ Len(d1) = Len(p1) /\ Len(c1) + Len(s) = Len(p1)
  BY <1>2, <1>3, <1>4, <1>5, <1>6 DEF Meets
<1>11. ASSUME NEW j \in 1..Len(p1)
      PROVE  v1[j].ver = p1[j].ver /\ d1[j].drop = p1[j].frag
  <2>1. j + 1 \in 1..Len(p) /\ v1[j] = v[j + 1] /\ p1[j] = p[j + 1] /\ d1[j] = d[j + 1]
    BY <1>2, <1>3, <1>4, <1>10
  <2> QED
    BY <2>1 DEF Meets
<1>12. ASSUME NEW j \in 1..Len(c1)
      PROVE  c1[j].valid = (p1[j].sum /\ p1[j].dst = Me)
  <2>1. j + 1 \in 1..Len(c) /\ c1[j] = c[j + 1] /\ p1[j] = p[j + 1]
    BY <1>2, <1>5, <1>6, <1>10
  <2> QED
    BY <2>1 DEF Meets
<1>13. \A j \in 1..Len(s) : s[j].ok = p1[Len(c1) + j].sum /\ s[j].match = (p1[Len(c1) + j].dst = Me)
  BY <1>7 DEF Meets
<1>8. Meets(p1, v1, d1, c1, s)
  BY <1>10, <1>11, <1>12, <1>13 DEF Meets
<1>9. HeadsMeet(p, v, d, c)
  BY <1>2, <1>3, <1>4, <1>5 DEF Meets, HeadsMeet
<1> QED
  BY <1>1, <1>8, <1>9

LEMMA VerdictsKept ==
    ASSUME NEW T, T \cap VerdictStream = {}, SameBut(T, ch, ch'), VerdictsMeet(ch)
    PROVE  VerdictsMeet(ch')
BY DEF SameBut, VerdictStream, VerdictsMeet, Stream, IpStream

-----------------------------------------------------------------------------
(* The steps of IPRX *)

IprxStream == {"eth", "mpd", "arpIn", "ilc", "ica", "iid", "ipVer", "dropFrag", "subSums", "csumValid",
               "icl", "ipr", "icmp", "derr", "uoe", "toe"}
\* The packets for UOE are where they were.
Grown(f, g) == g["uoe"] = f["uoe"] \/ \E x : g["uoe"] = Append(f["uoe"], x)
IpOk == FateLine /\ Kinds(ch) /\ VerdictsMeet(ch)
IprxOk == FateLine' /\ Kinds(ch') /\ VerdictsMeet(ch') /\ SameBut(IprxStream, ch, ch') /\ Grown(ch, ch')

LEMMA SameStart ==
    ASSUME NEW T, Kinds(ch)
    PROVE  SameBut(T, ch, ch) /\ DOMAIN ch = Stream
BY DEF SameBut, Kinds

LEMMA SameLess ==
    ASSUME NEW S, NEW T, S \subseteq T, NEW f, NEW g, SameBut(S, f, g)
    PROVE  SameBut(T, f, g)
BY DEF SameBut

LEMMA NotGrown ==
    ASSUME NEW T, NEW f, NEW g, SameBut(T, f, g), "uoe" \notin T
    PROVE  Grown(f, g)
BY DEF SameBut, Grown, Stream, IpStream

LEMMA IprxDone ==
    ASSUME NEW T, IpOk, FateLine', Kinds(ch'), SameBut(T, ch, ch'),
           T \cap VerdictStream = {}, T \subseteq IprxStream, "uoe" \notin T
    PROVE  IprxOk
BY VerdictsKept, SameLess, NotGrown DEF IpOk, IprxOk

LEMMA IBufKeeps ==
    ASSUME IpOk, IBuf, UNCHANGED work
    PROVE  IprxOk
<1> DEFINE T == {"eth", "mpd"}
<1>1. Pass("eth", "mpd", Head(ch["eth"])) /\ UNCHANGED fate
  BY DEF IBuf, Only
<1>2. Is("eth", Head(ch["eth"])) => Is("mpd", Head(ch["eth"]))
  BY DEF Is
<1>3. "eth" \in Stream /\ "mpd" \in Stream
  BY DEF Stream, IpStream
<1>4. Kinds(ch')
  BY <1>1, <1>2, <1>3, PassFits DEF IpOk
<1>5. SameBut(T, ch, ch')
  BY <1>1, SameStart, PassSame DEF IpOk
<1>6. T \cap VerdictStream = {} /\ T \subseteq IprxStream /\ "uoe" \notin T
  BY DEF VerdictStream, IprxStream
<1> QED
  BY <1>1, <1>4, <1>5, <1>6, IprxDone, FateKept DEF IpOk

LEMMA MacKeeps ==
    ASSUME IpOk, MacProtocolDetector, UNCHANGED work
    PROVE  IprxOk
<1> DEFINE T == {"mpd", "arpIn", "ilc"}
<1>11. T \cap VerdictStream = {} /\ T \subseteq IprxStream /\ "uoe" \notin T
  BY DEF VerdictStream, IprxStream
<1>1. PICK p : p = Head(ch["mpd"])
  OBVIOUS
<1>2. PICK rest : rest = Pop(ch, "mpd")
  OBVIOUS
<1>3. ch["mpd"] # <<>> /\ {"mpd", "arpIn", "ilc"} \subseteq Stream
  BY DEF MacProtocolDetector, Some, Stream, IpStream
<1>4. Kinds(rest) /\ Is("mpd", p)
  BY <1>1, <1>2, <1>3, PopFits DEF IpOk
<1>5. Came(p)
  BY <1>4 DEF Is
<1>6. SameBut(T, ch, rest)
  BY <1>2, SameStart, PopSame DEF IpOk
<1>7. CASE p.mac \in {"own", "bcast"} /\ p.type = "arp" /\ ch' = Put(rest, "arpIn", p) /\ UNCHANGED fate
  <2>1. Is("arpIn", p)
    BY <1>5, <1>7 DEF Is
  <2>2. Kinds(ch')
    BY <1>3, <1>4, <1>7, <2>1, PutFits
  <2>3. SameBut(T, ch, ch')
    BY <1>6, <1>7, PutSame
  <2> QED
    BY <1>7, <2>2, <2>3, <1>11, IprxDone, FateKept DEF IpOk
<1>8. CASE p.mac \in {"own", "bcast"} /\ p.type = "ip" /\ ch' = Put(rest, "ilc", p) /\ UNCHANGED fate
  <2>1. Is("ilc", p)
    BY <1>5, <1>8 DEF Is, Came
  <2>2. Kinds(ch')
    BY <1>3, <1>4, <1>8, <2>1, PutFits
  <2>3. SameBut(T, ch, ch')
    BY <1>6, <1>8, PutSame
  <2> QED
    BY <1>8, <2>2, <2>3, <1>11, IprxDone, FateKept DEF IpOk
<1>9. CASE ~(p.mac \in {"own", "bcast"} /\ p.type \in {"arp", "ip"}) /\ ch' = rest /\ Becomes(p.id, "dropped")
  <2>1. OfWaste(p.id)
    <3>1. CASE p \in Frames
      <4>1. \A f \in Frames : f.id = p.id => f = p
        BY <3>1, FramesAre DEF IpOk, FateLine
      <4>2. p.type \in {"arp", "ip"}
        BY <3>1, FramesAre DEF IpOk, FateLine, FrameType
      <4>3. Wasted(p)
        BY <1>9, <4>2 DEF Wasted, Sound
      <4> QED
        BY <4>1, <4>3 DEF OfWaste
    <3>2. CASE p.id = 0
      <4>1. Foreign(p.id)
        BY <3>2, NoFrameZero DEF IpOk, FateLine
      <4> QED
        BY <4>1, JustThen
    <3> QED
      BY <1>5, <3>1, <3>2 DEF Came
  <2>2. FateLine'
    BY <1>9, <2>1, JustThen, FateStep DEF IpOk
  <2> QED
    BY <1>4, <1>6, <1>9, <1>11, <2>2, IprxDone
<1> QED
  BY <1>1, <1>2, <1>7, <1>8, <1>9 DEF MacProtocolDetector

LEMMA LengthKeeps ==
    ASSUME IpOk, IpLengthChecker, UNCHANGED work
    PROVE  IprxOk
<1> DEFINE T == {"ilc", "ica"}
<1>11. T \cap VerdictStream = {} /\ T \subseteq IprxStream /\ "uoe" \notin T
  BY DEF VerdictStream, IprxStream
<1>1. PICK p : p = Head(ch["ilc"])
  OBVIOUS
<1>2. PICK rest : rest = Pop(ch, "ilc")
  OBVIOUS
<1>3. ch["ilc"] # <<>> /\ {"ilc", "ica"} \subseteq Stream
  BY DEF IpLengthChecker, Some, Stream, IpStream
<1>4. Kinds(rest) /\ Is("ilc", p)
  BY <1>1, <1>2, <1>3, PopFits DEF IpOk
<1>5. p \in Frames /\ p.type = "ip" /\ p.mac \in {"own", "bcast"}
  BY <1>4 DEF Is
<1>6. SameBut(T, ch, rest)
  BY <1>2, SameStart, PopSame DEF IpOk
<1>7. CASE ~p.long /\ ch' = Put(rest, "ica", p) /\ UNCHANGED fate
  <2>1. Is("ica", p)
    BY <1>5, <1>7 DEF Is
  <2>2. Kinds(ch')
    BY <1>3, <1>4, <1>7, <2>1, PutFits
  <2>3. SameBut(T, ch, ch')
    BY <1>6, <1>7, PutSame
  <2> QED
    BY <1>7, <2>2, <2>3, <1>11, IprxDone, FateKept DEF IpOk
<1>8. CASE p.long /\ ch' = rest /\ Becomes(p.id, "dropped")
  <2>1. \A f \in Frames : f.id = p.id => f = p
    BY <1>5, FramesAre DEF IpOk, FateLine
  <2>2. OfWaste(p.id)
    BY <1>8, <2>1 DEF OfWaste, Wasted, Sound
  <2>3. FateLine'
    BY <1>8, <2>2, JustThen, FateStep DEF IpOk
  <2> QED
    BY <1>4, <1>6, <1>8, <1>11, <2>3, IprxDone
<1> QED
  BY <1>1, <1>2, <1>7, <1>8 DEF IpLengthChecker

LEMMA SumsKeep ==
    ASSUME IpOk, IpChecksumAccumulator, UNCHANGED work
    PROVE  IprxOk
<1> DEFINE T == {"ica", "iid", "ipVer", "dropFrag", "subSums"}
<1>1. PICK p, g1, g2, g3, g4 :
          /\ p = Head(ch["ica"]) /\ g1 = Pop(ch, "ica") /\ g2 = Put(g1, "iid", p)
          /\ g3 = Put(g2, "ipVer", [id |-> p.id, ver |-> p.ver]) /\ g4 = Put(g3, "dropFrag", [id |-> p.id, drop |-> p.frag])
  OBVIOUS
<1>2. ch["ica"] # <<>> /\ ch' = Put(g4, "subSums", SubSums(p)) /\ UNCHANGED fate
  BY <1>1 DEF IpChecksumAccumulator, Some, Only
<1>3. T \subseteq Stream /\ T \subseteq IprxStream /\ "uoe" \notin T
  BY DEF Stream, IpStream, IprxStream
<1>4. Kinds(g1) /\ Is("ica", p)
  BY <1>1, <1>2, <1>3, PopFits DEF IpOk
<1>5. Is("iid", p) /\ (\A x : Is("ipVer", x) /\ Is("dropFrag", x) /\ Is("subSums", x))
  BY <1>4 DEF Is
<1>6. Kinds(ch')
  BY <1>1, <1>2, <1>3, <1>4, <1>5, PutFits
<1>7. SameBut(T, ch, ch')
  <2>1. SameBut(T, ch, g1)
    BY <1>1, SameStart, PopSame DEF IpOk
  <2>2. SameBut(T, ch, g2)
    BY <1>1, <2>1, PutSame
  <2>3. SameBut(T, ch, g3)
    BY <1>1, <2>2, PutSame
  <2>4. SameBut(T, ch, g4)
    BY <1>1, <2>3, PutSame
  <2> QED
    BY <1>2, <2>4, PutSame
<1>8. VerdictsMeet(ch')
  <2>1. DOMAIN ch = Stream
    BY SameStart DEF IpOk
  <2>2. /\ ch'["iid"] = Append(ch["iid"], p)
        /\ ch'["ipVer"] = Append(ch["ipVer"], [id |-> p.id, ver |-> p.ver])
        /\ ch'["dropFrag"] = Append(ch["dropFrag"], [id |-> p.id, drop |-> p.frag])
        /\ ch'["csumValid"] = ch["csumValid"]
        /\ ch'["subSums"] = Append(ch["subSums"], SubSums(p))
    BY <1>1, <1>2, <1>3, <2>1 DEF Put, Pop, Stream, IpStream
  <2>3. \A c \in Stream : IsSeq(ch[c])
    BY DEF IpOk, Kinds
  <2>4. SubSums(p).ok = p.sum /\ SubSums(p).match = (p.dst = Me)
    BY DEF SubSums
  <2>5. PICK y, z, w : y = [id |-> p.id, ver |-> p.ver] /\ z = [id |-> p.id, drop |-> p.frag] /\ w = SubSums(p)
    OBVIOUS
  <2>6. y.ver = p.ver /\ z.drop = p.frag /\ w.ok = p.sum /\ w.match = (p.dst = Me)
    BY <2>4, <2>5
  <2>7. IsSeq(ch["iid"]) /\ IsSeq(ch["ipVer"]) /\ IsSeq(ch["dropFrag"]) /\ IsSeq(ch["csumValid"]) /\ IsSeq(ch["subSums"])
    BY <2>3 DEF Stream, IpStream
  <2>8. Meets(ch["iid"], ch["ipVer"], ch["dropFrag"], ch["csumValid"], ch["subSums"])
    BY DEF IpOk, VerdictsMeet
  <2>9. Meets(Append(ch["iid"], p), Append(ch["ipVer"], y), Append(ch["dropFrag"], z), ch["csumValid"], Append(ch["subSums"], w))
    BY <2>6, <2>7, <2>8, MeetsAppend
  <2> QED
    BY <2>2, <2>5, <2>9 DEF VerdictsMeet
<1>9. SameBut(IprxStream, ch, ch') /\ Grown(ch, ch')
  BY <1>3, <1>7, SameLess, NotGrown
<1> QED
  BY <1>2, <1>6, <1>8, <1>9, FateKept DEF IpOk, IprxOk

LEMMA ChecksKeep ==
    ASSUME IpOk, IpChecksumChecker, UNCHANGED work
    PROVE  IprxOk
<1> DEFINE T == {"subSums", "csumValid"}
<1>1. PICK s, x : s = Head(ch["subSums"]) /\ x = [id |-> s.id, valid |-> s.ok /\ s.match]
  OBVIOUS
<1>2. Pass("subSums", "csumValid", x) /\ UNCHANGED fate
  BY <1>1 DEF IpChecksumChecker, Only
<1>3. T \subseteq Stream /\ T \subseteq IprxStream /\ "uoe" \notin T
  BY DEF Stream, IpStream, IprxStream
<1>4. Is("csumValid", x)
  BY DEF Is
<1>5. Kinds(ch')
  BY <1>2, <1>3, <1>4, PassFits DEF IpOk
<1>6. SameBut(T, ch, ch')
  BY <1>2, SameStart, PassSame DEF IpOk
<1>7. VerdictsMeet(ch')
  <2>1. DOMAIN ch = Stream
    BY SameStart DEF IpOk
  <2>2. /\ ch["subSums"] # <<>>
        /\ ch'["iid"] = ch["iid"] /\ ch'["ipVer"] = ch["ipVer"] /\ ch'["dropFrag"] = ch["dropFrag"]
        /\ ch'["csumValid"] = Append(ch["csumValid"], x)
        /\ ch'["subSums"] = Tail(ch["subSums"])
    BY <1>2, <2>1 DEF Pass, Some, Put, Pop, Stream, IpStream
  <2>3. \A c \in Stream : IsSeq(ch[c])
    BY DEF IpOk, Kinds
  <2>4. IsSeq(ch["iid"]) /\ IsSeq(ch["ipVer"]) /\ IsSeq(ch["dropFrag"]) /\ IsSeq(ch["csumValid"]) /\ IsSeq(ch["subSums"])
    BY <2>3 DEF Stream, IpStream
  <2>5. x.valid = (s.ok /\ s.match)
    BY <1>1
  <2>6. Meets(ch["iid"], ch["ipVer"], ch["dropFrag"], ch["csumValid"], ch["subSums"])
    BY DEF IpOk, VerdictsMeet
  <2>7. Meets(ch["iid"], ch["ipVer"], ch["dropFrag"], Append(ch["csumValid"], x), Tail(ch["subSums"]))
    BY <1>1, <2>2, <2>4, <2>5, <2>6, MeetsCheck
  <2> QED
    BY <2>2, <2>7 DEF VerdictsMeet
<1>9. SameBut(IprxStream, ch, ch') /\ Grown(ch, ch')
  BY <1>3, <1>6, SameLess, NotGrown
<1> QED
  BY <1>2, <1>5, <1>7, <1>9, FateKept DEF IpOk, IprxOk

LEMMA DropperKeeps ==
    ASSUME IpOk, IpInvalidDropper, UNCHANGED work
    PROVE  IprxOk
<1> DEFINE T == {"iid", "ipVer", "dropFrag", "csumValid", "icl"}
           Rest == [c \in Stream |-> IF c \in Taken \cup {"iid"} THEN Tail(ch[c]) ELSE ch[c]]
<1>1. PICK p : p = Head(ch["iid"])
  OBVIOUS
<1>2. PICK rest : rest = Rest
  OBVIOUS
<1>3. T \subseteq Stream /\ T \subseteq IprxStream /\ "uoe" \notin T
  BY DEF Stream, IpStream, IprxStream
<1>4. ch["iid"] # <<>> /\ ch["ipVer"] # <<>> /\ ch["dropFrag"] # <<>> /\ ch["csumValid"] # <<>>
  BY DEF IpInvalidDropper, Verdicts, Some
<1>5. \/ ch' = Put(rest, "icl", p) /\ UNCHANGED fate /\ \A c \in Verdicts : Accepts(c)
      \/ ch' = rest /\ Becomes(p.id, "dropped") /\ ~\A c \in Verdicts : Accepts(c)
  BY <1>1, <1>2 DEF IpInvalidDropper
<1>6. /\ DOMAIN rest = Stream
      /\ \A c \in Stream : rest[c] = IF c \in {"iid", "ipVer", "dropFrag", "csumValid"} THEN Tail(ch[c]) ELSE ch[c]
  BY <1>2 DEF Taken, Verdicts
<1>7. Kinds(rest) /\ Is("iid", p)
  <2>1. Is("iid", p)
    BY <1>1, <1>3, <1>4, PopFits DEF IpOk
  <2>2. ASSUME NEW c \in Stream
        PROVE  IsSeq(rest[c]) /\ \A x \in Elems(rest[c]) : Is(c, x)
    <3>1. IsSeq(ch[c]) /\ \A x \in Elems(ch[c]) : Is(c, x)
      BY DEF IpOk, Kinds
    <3>2. CASE c \in {"iid", "ipVer", "dropFrag", "csumValid"}
      <4>1. ch[c] # <<>> /\ rest[c] = Tail(ch[c])
        BY <1>4, <1>6, <3>2
      <4>2. IsSeq(Tail(ch[c])) /\ \A x \in Elems(Tail(ch[c])) : x \in Elems(ch[c])
        BY <3>1, <4>1, TailFits, Zenon
      <4> QED
        BY <3>1, <4>1, <4>2, Zenon
    <3>3. CASE c \notin {"iid", "ipVer", "dropFrag", "csumValid"}
      <4>1. rest[c] = ch[c]
        BY <1>6, <3>3
      <4> QED
        BY <3>1, <4>1, Zenon
    <3> QED
      BY <3>2, <3>3
  <2> QED
    BY <1>6, <2>1, <2>2 DEF Kinds
<1>8. SameBut(T, ch, rest)
  BY <1>6, SameStart DEF SameBut, IpOk
<1>9. Kinds(ch') /\ SameBut(T, ch, ch') /\ FateLine'
  <2>1. p \in Frames /\ p.type = "ip" /\ p.mac \in {"own", "bcast"} /\ ~p.long
    BY <1>7 DEF Is
  <2>2. p \in FrameType /\ \A f \in Frames : f.id = p.id => f = p
    BY <2>1, FramesAre DEF IpOk, FateLine
  <2>3. PICK v, d, c : v = ch["ipVer"] /\ d = ch["dropFrag"] /\ c = ch["csumValid"]
    OBVIOUS
  <2>4. /\ Head(v).ver = p.ver /\ Head(d).drop = p.frag
        /\ Head(c).valid = (p.sum /\ p.dst = Me)
    <3>1. \A x \in Stream : IsSeq(ch[x])
      BY DEF IpOk, Kinds
    <3>2. IsSeq(ch["iid"]) /\ IsSeq(v) /\ IsSeq(d) /\ IsSeq(c) /\ IsSeq(ch["subSums"])
      BY <2>3, <3>1 DEF Stream, IpStream
    <3>3. Meets(ch["iid"], v, d, c, ch["subSums"])
      BY <2>3 DEF IpOk, VerdictsMeet
    <3>4. PICK i, s : i = ch["iid"] /\ s = ch["subSums"]
      OBVIOUS
    <3>6. /\ i # <<>> /\ v # <<>> /\ d # <<>> /\ c # <<>> /\ Meets(i, v, d, c, s)
          /\ IsSeq(i) /\ IsSeq(v) /\ IsSeq(d) /\ IsSeq(c) /\ IsSeq(s)
      BY <1>4, <2>3, <3>2, <3>3, <3>4
    <3>5. HeadsMeet(i, v, d, c)
      BY <3>6, MeetsTail, Zenon
    <3> QED
      BY <1>1, <3>4, <3>5 DEF HeadsMeet
  <2>5. (\A x \in Verdicts : Accepts(x)) <=> (p.ver = 4 /\ ~p.frag /\ p.sum /\ p.dst = Me)
    <3>1. p.frag \in BOOLEAN /\ p.sum \in BOOLEAN
      BY <2>2 DEF FrameType
    <3>2. /\ Accepts("csumValid") <=> (p.sum /\ p.dst = Me)
          /\ Accepts("ipVer") <=> p.ver = 4
          /\ Accepts("dropFrag") <=> ~p.frag
      BY <2>3, <2>4, <3>1 DEF Accepts
    <3> QED
      BY <3>2 DEF Verdicts
  <2>6. CASE ch' = Put(rest, "icl", p) /\ UNCHANGED fate /\ \A x \in Verdicts : Accepts(x)
    <3>1. Is("icl", p)
      BY <2>1, <2>5, <2>6 DEF Is, Sound
    <3>2. Kinds(ch')
      BY <1>3, <1>7, <2>6, <3>1, PutFits
    <3>3. SameBut(T, ch, ch')
      BY <1>8, <2>6, PutSame
    <3> QED
      BY <2>6, <3>2, <3>3, FateKept DEF IpOk
  <2>7. CASE ch' = rest /\ Becomes(p.id, "dropped") /\ ~\A x \in Verdicts : Accepts(x)
    <3>1. OfWaste(p.id)
      BY <2>2, <2>5, <2>7 DEF OfWaste, Wasted, Sound
    <3>2. FateLine'
      BY <2>7, <3>1, JustThen, FateStep DEF IpOk
    <3> QED
      BY <1>7, <1>8, <2>7, <3>2
  <2> QED
    BY <1>5, <2>6, <2>7
<1>10. VerdictsMeet(ch')
  <2>1. /\ ch'["iid"] = Tail(ch["iid"]) /\ ch'["ipVer"] = Tail(ch["ipVer"]) /\ ch'["dropFrag"] = Tail(ch["dropFrag"])
        /\ ch'["csumValid"] = Tail(ch["csumValid"]) /\ ch'["subSums"] = ch["subSums"]
    BY <1>3, <1>5, <1>6 DEF Put, Stream, IpStream
  <2>2. \A c \in Stream : IsSeq(ch[c])
    BY DEF IpOk, Kinds
  <2>3. IsSeq(ch["iid"]) /\ IsSeq(ch["ipVer"]) /\ IsSeq(ch["dropFrag"]) /\ IsSeq(ch["csumValid"]) /\ IsSeq(ch["subSums"])
    BY <2>2 DEF Stream, IpStream
  <2>4. Meets(ch["iid"], ch["ipVer"], ch["dropFrag"], ch["csumValid"], ch["subSums"])
    BY DEF IpOk, VerdictsMeet
  <2>5. Meets(Tail(ch["iid"]), Tail(ch["ipVer"]), Tail(ch["dropFrag"]), Tail(ch["csumValid"]), ch["subSums"])
    BY <1>4, <2>3, <2>4, MeetsTail
  <2> QED
    BY <2>1, <2>5 DEF VerdictsMeet
<1>11. SameBut(IprxStream, ch, ch') /\ Grown(ch, ch')
  BY <1>3, <1>9, SameLess, NotGrown
<1> QED
  BY <1>9, <1>10, <1>11 DEF IprxOk

LEMMA CutterKeeps ==
    ASSUME IpOk, IpCutLength, UNCHANGED work
    PROVE  IprxOk
<1> DEFINE T == {"icl", "ipr"}
<1>1. PICK p, x : p = Head(ch["icl"]) /\ x = [p EXCEPT !.pad = FALSE]
  OBVIOUS
<1>2. Pass("icl", "ipr", x) /\ UNCHANGED fate
  BY <1>1 DEF IpCutLength, Only
<1>3. "icl" \in Stream /\ "ipr" \in Stream /\ T \cap VerdictStream = {} /\ T \subseteq IprxStream /\ "uoe" \notin T
  BY DEF Stream, IpStream, IprxStream, VerdictStream
<1>4. Is("icl", p) => Is("ipr", x)
  BY <1>1 DEF Is, Trimmed
<1>5. Kinds(ch')
  BY <1>1, <1>2, <1>3, <1>4, PassFits DEF IpOk
<1>6. SameBut(T, ch, ch')
  BY <1>2, SameStart, PassSame DEF IpOk
<1> QED
  BY <1>2, <1>3, <1>5, <1>6, IprxDone, FateKept DEF IpOk

LEMMA RouterKeeps ==
    ASSUME IpOk, IpPacketRouter, UNCHANGED work
    PROVE  IprxOk
<1> DEFINE T == {"ipr", "icmp", "derr", "uoe", "toe"}
<1>1. PICK p, rest : p = Head(ch["ipr"]) /\ rest = Pop(ch, "ipr")
  OBVIOUS
<1>2. ch["ipr"] # <<>> /\ T \subseteq Stream /\ T \cap VerdictStream = {} /\ T \subseteq IprxStream
  BY DEF IpPacketRouter, Some, Stream, IpStream, IprxStream, VerdictStream
<1>3. Kinds(rest) /\ Is("ipr", p)
  BY <1>1, <1>2, PopFits DEF IpOk
<1>4. Trimmed(p)
  BY <1>3 DEF Is
<1>5. p.proto \in {"icmp", "udp", "tcp"}
  BY <1>4, TrimmedIs DEF FrameType, IpOk, FateLine
<1>6. Route(p) # {}
  BY <1>5 DEF Route
<1>7. PICK c \in Route(p) : ch' = Put(rest, c, p) /\ UNCHANGED fate
  BY <1>1, <1>6 DEF IpPacketRouter
<1>8. c \in {"icmp", "derr", "uoe", "toe"}
  BY <1>7 DEF Route
<1>9. Is(c, p)
  <2>1. /\ c = "derr" => p.ttl = 1
        /\ c # "derr" => p.ttl # 1
        /\ c = "icmp" => p.proto = "icmp"
        /\ c = "uoe" => p.proto = "udp"
        /\ c = "toe" => p.proto = "tcp"
    <3>1. CASE p.ttl = 1
      <4>1. Route(p) = {"derr"}
        BY <3>1 DEF Route
      <4> QED
        BY <1>7, <3>1, <4>1
    <3>2. CASE p.ttl # 1
      <4>1. /\ p.proto = "icmp" => Route(p) = {"icmp"}
            /\ p.proto = "udp" => Route(p) = {"uoe"}
            /\ p.proto = "tcp" => Route(p) = {"toe"}
        BY <3>2 DEF Route
      <4> QED
        BY <1>5, <1>7, <3>2, <4>1
    <3> QED
      BY <3>1, <3>2
  <2> QED
    BY <1>4, <1>8, <2>1 DEF Is
<1>10. Kinds(ch')
  BY <1>2, <1>3, <1>7, <1>8, <1>9, PutFits
<1>11. SameBut(T, ch, rest)
  BY <1>1, SameStart, PopSame DEF IpOk
<1>12. SameBut(T, ch, ch')
  BY <1>7, <1>8, <1>11, PutSame
<1>13. Grown(ch, ch')
  <2>1. rest["uoe"] = ch["uoe"] /\ DOMAIN rest = Stream /\ "uoe" \in Stream
    BY <1>1, <1>2, SameStart DEF Pop, IpOk
  <2>2. ch'["uoe"] = IF c = "uoe" THEN Append(rest["uoe"], p) ELSE rest["uoe"]
    BY <1>7, <2>1 DEF Put
  <2> QED
    BY <2>1, <2>2 DEF Grown
<1> QED
  BY <1>2, <1>7, <1>10, <1>12, <1>13, VerdictsKept, SameLess, FateKept DEF IpOk, IprxOk

LEMMA IprxKeeps ==
    ASSUME IpOk, Iprx, UNCHANGED work
    PROVE  IprxOk
BY IBufKeeps, MacKeeps, LengthKeeps, SumsKeep, ChecksKeep, DropperKeeps, CutterKeeps, RouterKeeps DEF Iprx

-----------------------------------------------------------------------------
(* ICMP: the messages and whether they are dropped *)

\* What is said of a message of which d says whether it is dropped.
Sorted(d, k) == (d = TRUE => OfNoEcho(k)) /\ (d = FALSE => OfEcho(k))
\* p: messages, d: what is said of them, i: the message whose checksum is computed.
Drops(p, d, i) ==
    /\ Len(p) = Len(d) + Len(i)
    /\ \A j \in 1..Len(d) : d[j] \in BOOLEAN /\ Sorted(d[j], p[j].id)
    /\ i = <<>> \/ \E m : i = <<m>> /\ Is("icmp", m) /\ p[Len(p)].id = m.id
DropLine == Drops(ch["icmpData"], ch["dropCmd"], icc)
IcmpStream == {"icmp", "icmpData", "dropCmd", "icmpCsum0", "icmpCsum1", "xyz0", "xyz1", "unreach", "derr",
               "ihaData", "ihaHdr", "l3icmp"}

LEMMA DropsForward ==
    ASSUME NEW p, NEW d, Drops(p, d, <<>>), IsSeq(p), IsSeq(d), NEW x, NEW m, x.id = m.id, Is("icmp", m)
    PROVE  Drops(Append(p, x), d, <<m>>)
<1>1. PICK q : q = Append(p, x)
  OBVIOUS
<1>2. Len(q) = Len(p) + 1 /\ Len(p) \in Nat /\ (\A i \in 1..Len(p) : q[i] = p[i]) /\ q[Len(p) + 1] = x
  BY <1>1, AppendIs, SMTT(40)
<1>3. Len(p) = Len(d)
  BY <1>2 DEF Drops, IsSeq
<1>4. \A j \in 1..Len(d) : d[j] \in BOOLEAN /\ Sorted(d[j], q[j].id)
  BY <1>2, <1>3 DEF Drops
<1>5. q[Len(q)].id = m.id
  BY <1>2
<1>6. Len(q) = Len(d) + Len(<<m>>)
  BY <1>2, <1>3
<1> QED
  BY <1>1, <1>4, <1>5, <1>6 DEF Drops

LEMMA DropsVerdict ==
    ASSUME NEW p, NEW d, NEW m, Drops(p, d, <<m>>), IsSeq(p), IsSeq(d), NEW x \in BOOLEAN, x <=> m.msg # "echo", work \in Works
    PROVE  Drops(p, Append(d, x), <<>>)
<1>1. PICK e : e = Append(d, x)
  OBVIOUS
<1>2. Len(e) = Len(d) + 1 /\ Len(d) \in Nat /\ (\A i \in 1..Len(d) : e[i] = d[i]) /\ e[Len(d) + 1] = x
  BY <1>1, AppendIs
<1>3. Len(p) = Len(d) + 1 /\ Is("icmp", m) /\ p[Len(p)].id = m.id
  <2>1. Len(<<m>>) = 1 /\ <<m>> # <<>> /\ \A n : <<m>> = <<n>> => m = n
    OBVIOUS
  <2> QED
    BY <2>1 DEF Drops
<1>4. Sorted(x, m.id)
  <2>1. Trimmed(m) /\ m.ttl # 1 /\ m.proto = "icmp"
    BY <1>3 DEF Is
  <2> QED
    BY <2>1, TrimmedSays DEF Sorted
<1>5. ASSUME NEW j \in 1..Len(e)
      PROVE  e[j] \in BOOLEAN /\ Sorted(e[j], p[j].id)
  <2>1. CASE j = Len(d) + 1
    BY <1>2, <1>3, <1>4, <2>1
  <2>2. CASE j \in 1..Len(d)
    BY <1>2, <2>2 DEF Drops
  <2> QED
    BY <1>2, <2>1, <2>2
<1>6. Len(p) = Len(e) + Len(<<>>)
  BY <1>2, <1>3
<1> QED
  BY <1>1, <1>5, <1>6 DEF Drops

LEMMA DropsTail ==
    ASSUME NEW p, NEW d, NEW i, Drops(p, d, i), IsSeq(p), IsSeq(d), p # <<>>, d # <<>>
    PROVE  Drops(Tail(p), Tail(d), i) /\ Head(d) \in BOOLEAN /\ Sorted(Head(d), Head(p).id)
<1>1. PICK q, e : q = Tail(p) /\ e = Tail(d)
  OBVIOUS
<1>2. Head(p) = p[1] /\ Len(q) = Len(p) - 1 /\ Len(p) \in Nat \ {0} /\ (\A j \in 1 .. Len(p) - 1 : q[j] = p[j + 1])
  BY <1>1, TailFits, Zenon
<1>3. Head(d) = d[1] /\ Len(e) = Len(d) - 1 /\ Len(d) \in Nat \ {0} /\ (\A j \in 1 .. Len(d) - 1 : e[j] = d[j + 1])
  BY <1>1, TailFits, Zenon
<1>4. Len(i) \in {0, 1} /\ (i # <<>> => Len(i) = 1) /\ Len(p) = Len(d) + Len(i)
  BY DEF Drops
<1>5. ASSUME NEW j \in 1..Len(e)
      PROVE  e[j] \in BOOLEAN /\ Sorted(e[j], q[j].id)
  <2>1. j + 1 \in 1..Len(d) /\ e[j] = d[j + 1] /\ q[j] = p[j + 1]
    BY <1>2, <1>3, <1>4
  <2> QED
    BY <2>1 DEF Drops
<1>6. Len(q) = Len(e) + Len(i)
  BY <1>2, <1>3, <1>4
<1>7. i # <<>> => q[Len(q)] = p[Len(p)]
  BY <1>2, <1>3, <1>4
<1>8. Drops(q, e, i)
  BY <1>5, <1>6, <1>7 DEF Drops
<1>9. Head(d) \in BOOLEAN /\ Sorted(Head(d), Head(p).id)
  BY <1>2, <1>3 DEF Drops
<1> QED
  BY <1>1, <1>8, <1>9

IcmpOk == FateLine /\ Kinds(ch) /\ DropLine
IcmpKept == FateLine' /\ Kinds(ch') /\ Drops(ch'["icmpData"], ch'["dropCmd"], icc') /\ SameBut(IcmpStream, ch, ch')

LEMMA DropsSame ==
    ASSUME NEW T, SameBut(T, ch, ch'), T \cap {"icmpData", "dropCmd"} = {}, UNCHANGED icc, DropLine
    PROVE  Drops(ch'["icmpData"], ch'["dropCmd"], icc')
BY DEF SameBut, DropLine, Stream, IpStream

LEMMA IccForwardKeeps ==
    ASSUME IcmpOk, IccForward, UNCHANGED work
    PROVE  IcmpKept
<1> DEFINE T == {"icmp", "icmpData"}
<1>1. PICK p, x : p = Head(ch["icmp"]) /\ x = Packet("echo", p.id, p.src)
  OBVIOUS
<1>2. Pass("icmp", "icmpData", x) /\ icc = <<>> /\ icc' = <<p>> /\ UNCHANGED fate
  BY <1>1 DEF IccForward
<1>3. T \subseteq Stream /\ T \subseteq IcmpStream
  BY DEF Stream, IpStream, IcmpStream
<1>4. ch["icmp"] # <<>> /\ ch' = Put(Pop(ch, "icmp"), "icmpData", x)
  BY <1>2 DEF Pass, Some
<1>5. Kinds(Pop(ch, "icmp")) /\ Is("icmp", p)
  BY <1>1, <1>3, <1>4, PopFits DEF IcmpOk
<1>6. x.id = p.id /\ "id" \in DOMAIN x
  BY <1>1 DEF Packet
<1>7. OfIcmp(p.id)
  BY <1>5, TrimmedSays DEF Is, IcmpOk, FateLine
<1>8. Is("icmpData", x)
  BY <1>6, <1>7 DEF Is
<1>9. Kinds(ch')
  BY <1>3, <1>4, <1>5, <1>8, PutFits
<1>10. SameBut(T, ch, ch')
  BY <1>2, SameStart, PassSame DEF IcmpOk
<1>11. Drops(ch'["icmpData"], ch'["dropCmd"], icc')
  <2>1. DOMAIN ch = Stream
    BY SameStart DEF IcmpOk
  <2>2. ch'["icmpData"] = Append(ch["icmpData"], x) /\ ch'["dropCmd"] = ch["dropCmd"]
    BY <1>4, <2>1 DEF Put, Pop, Stream, IpStream
  <2>3. IsSeq(ch["icmpData"]) /\ IsSeq(ch["dropCmd"])
    BY DEF IcmpOk, Kinds, Stream, IpStream
  <2>4. Drops(ch["icmpData"], ch["dropCmd"], <<>>)
    BY <1>2 DEF IcmpOk, DropLine
  <2>5. Drops(Append(ch["icmpData"], x), ch["dropCmd"], <<p>>)
    BY <1>5, <1>6, <2>3, <2>4, DropsForward
  <2> QED
    BY <1>2, <2>2, <2>5
<1> QED
  BY <1>2, <1>3, <1>9, <1>10, <1>11, SameLess, FateKept DEF IcmpOk, IcmpKept

LEMMA IccVerdictKeeps ==
    ASSUME IcmpOk, IccVerdict, UNCHANGED work
    PROVE  IcmpKept
<1> DEFINE T == {"dropCmd", "icmpCsum0"}
<1>1. PICK p, x, told : p = icc[1] /\ x = ~(p.msg = "echo") /\ told = Put(ch, "dropCmd", x)
  OBVIOUS
<1>2. icc # <<>> /\ icc' = <<>> /\ (ch' = told \/ ch' = Put(told, "icmpCsum0", p.id)) /\ UNCHANGED fate
  BY <1>1 DEF IccVerdict
<1>3. T \subseteq Stream /\ T \subseteq IcmpStream
  BY DEF Stream, IpStream, IcmpStream
<1>4. Is("dropCmd", x) /\ Is("icmpCsum0", p.id)
  BY DEF Is
<1>5. Kinds(told)
  BY <1>1, <1>3, <1>4, PutFits DEF IcmpOk
<1>6. Kinds(ch')
  BY <1>2, <1>3, <1>4, <1>5, PutFits
<1>7. SameBut(T, ch, told)
  BY <1>1, SameStart, PutSame DEF IcmpOk
<1>8. SameBut(T, ch, ch')
  BY <1>2, <1>7, PutSame
<1>9. Drops(ch'["icmpData"], ch'["dropCmd"], icc')
  <2>1. DOMAIN ch = Stream
    BY SameStart DEF IcmpOk
  <2>2. ch'["icmpData"] = ch["icmpData"] /\ ch'["dropCmd"] = Append(ch["dropCmd"], x)
    BY <1>1, <1>2, <2>1 DEF Put, Stream, IpStream
  <2>3. IsSeq(ch["icmpData"]) /\ IsSeq(ch["dropCmd"])
    BY DEF IcmpOk, Kinds, Stream, IpStream
  <2>4. Drops(ch["icmpData"], ch["dropCmd"], icc)
    BY DEF IcmpOk, DropLine
  <2>5. icc = <<p>>
    BY <1>1, <1>2, <2>4 DEF Drops
  <2>6. x \in BOOLEAN /\ (x <=> p.msg # "echo")
    BY <1>1
  <2>7. Drops(ch["icmpData"], Append(ch["dropCmd"], x), <<>>)
    BY <2>3, <2>4, <2>5, <2>6, DropsVerdict DEF IcmpOk, FateLine
  <2> QED
    BY <1>2, <2>2, <2>7
<1> QED
  BY <1>2, <1>3, <1>6, <1>8, <1>9, SameLess, FateKept DEF IcmpOk, IcmpKept

LEMMA InvalidPacketKeeps ==
    ASSUME IcmpOk, InvalidPacketDropper, UNCHANGED work
    PROVE  IcmpKept
<1> DEFINE T == {"icmpData", "dropCmd", "xyz0"}
<1>1. PICK p, d, g, rest : p = Head(ch["icmpData"]) /\ d = Head(ch["dropCmd"]) /\ g = Pop(ch, "icmpData") /\ rest = Pop(g, "dropCmd")
  OBVIOUS
<1>2. /\ ch["icmpData"] # <<>> /\ ch["dropCmd"] # <<>> /\ icc' = icc
      /\ \/ d /\ ch' = rest /\ Becomes(p.id, "dropped")
         \/ ~d /\ ch' = Put(rest, "xyz0", p) /\ UNCHANGED fate
  BY <1>1 DEF InvalidPacketDropper, Some, Same
<1>3. T \subseteq Stream /\ T \subseteq IcmpStream
  BY DEF Stream, IpStream, IcmpStream
<1>4. DOMAIN ch = Stream
  BY SameStart DEF IcmpOk
<1>5. Kinds(g) /\ Is("icmpData", p) /\ g["dropCmd"] # <<>>
  <2>1. g["dropCmd"] = ch["dropCmd"]
    BY <1>1, <1>3, <1>4 DEF Pop
  <2> QED
    BY <1>1, <1>2, <1>3, <2>1, PopFits DEF IcmpOk
<1>6. Kinds(rest)
  BY <1>1, <1>3, <1>5, PopFits
<1>7. SameBut(T, ch, rest)
  <2>1. SameBut(T, ch, g)
    BY <1>1, SameStart, PopSame DEF IcmpOk
  <2> QED
    BY <1>1, <2>1, PopSame
<1>8. /\ Drops(Tail(ch["icmpData"]), Tail(ch["dropCmd"]), icc)
      /\ d \in BOOLEAN /\ Sorted(d, p.id)
  <2>1. IsSeq(ch["icmpData"]) /\ IsSeq(ch["dropCmd"])
    BY DEF IcmpOk, Kinds, Stream, IpStream
  <2>2. Drops(ch["icmpData"], ch["dropCmd"], icc)
    BY DEF IcmpOk, DropLine
  <2> QED
    BY <1>1, <1>2, <2>1, <2>2, DropsTail
<1>9. Drops(ch'["icmpData"], ch'["dropCmd"], icc')
  <2>1. ch'["icmpData"] = Tail(ch["icmpData"]) /\ ch'["dropCmd"] = Tail(ch["dropCmd"])
    BY <1>1, <1>2, <1>4 DEF Put, Pop, Stream, IpStream
  <2> QED
    BY <1>2, <1>8, <2>1
<1>10. Kinds(ch') /\ SameBut(T, ch, ch') /\ FateLine'
  <2>1. CASE d /\ ch' = rest /\ Becomes(p.id, "dropped")
    <3>1. OfWaste(p.id)
      BY <1>8, <2>1, JustThen DEF Sorted
    <3>2. FateLine'
      BY <2>1, <3>1, JustThen, FateStep DEF IcmpOk
    <3> QED
      BY <1>6, <1>7, <2>1, <3>2
  <2>2. CASE ~d /\ ch' = Put(rest, "xyz0", p) /\ UNCHANGED fate
    <3>1. OfEcho(p.id)
      BY <1>8, <2>2 DEF Sorted
    <3>2. Is("xyz0", p)
      BY <1>5, <3>1, JustThen DEF Is
    <3> QED
      BY <1>3, <1>6, <1>7, <2>2, <3>2, PutFits, PutSame, FateKept DEF IcmpOk
  <2> QED
    BY <1>2, <2>1, <2>2
<1> QED
  BY <1>3, <1>9, <1>10, SameLess DEF IcmpKept

LEMMA BuilderKeeps ==
    ASSUME IcmpOk, ControlMessageBuilder, UNCHANGED work
    PROVE  IcmpKept
<1> DEFINE T == {"unreach", "derr", "ihaData", "ihaHdr", "icmpCsum1"}
<1>1. PICK src \in {"unreach", "derr"} :
          /\ ch[src] # <<>> /\ icc' = icc /\ UNCHANGED fate
          /\ ch' = Put(Put(Put(Pop(ch, src), "ihaData", [id |-> Head(ch[src]).id, kind |-> src]), "ihaHdr",
                           [id |-> Head(ch[src]).id, src |-> Head(ch[src]).src]), "icmpCsum1", Head(ch[src]).id)
  BY DEF ControlMessageBuilder, Some, Only, Same
<1>2. PICK p, x, y, g1, g2, g3 :
          /\ p = Head(ch[src]) /\ x = [id |-> p.id, kind |-> src] /\ y = [id |-> p.id, src |-> p.src]
          /\ g1 = Pop(ch, src) /\ g2 = Put(g1, "ihaData", x) /\ g3 = Put(g2, "ihaHdr", y)
  OBVIOUS
<1>3. ch' = Put(g3, "icmpCsum1", p.id)
  BY <1>1, <1>2
<1>4. T \subseteq Stream /\ T \subseteq IcmpStream /\ src \in T
  BY DEF Stream, IpStream, UdpStream, IcmpStream
<1>5. Kinds(g1) /\ Is(src, p)
  BY <1>1, <1>2, <1>4, PopFits DEF IcmpOk
<1>6. OfUdp(p.id) \/ OfExpired(p.id)
  BY <1>5, TrimmedSays DEF Is, IcmpOk, FateLine
<1>7. Is("ihaData", x) /\ Is("ihaHdr", y) /\ Is("icmpCsum1", p.id)
  BY <1>2, <1>6 DEF Is
<1>8. Kinds(ch')
  BY <1>2, <1>3, <1>4, <1>5, <1>7, PutFits
<1>9. SameBut(T, ch, ch')
  <2>1. SameBut(T, ch, g1)
    BY <1>2, <1>4, SameStart, PopSame DEF IcmpOk
  <2>2. SameBut(T, ch, g2)
    BY <1>2, <2>1, PutSame
  <2>3. SameBut(T, ch, g3)
    BY <1>2, <2>2, PutSame
  <2> QED
    BY <1>3, <2>3, PutSame
<1> QED
  BY <1>1, <1>4, <1>8, <1>9, SameLess, FateKept, DropsSame DEF IcmpOk, IcmpKept

LEMMA AppenderKeeps ==
    ASSUME IcmpOk, IpHeaderAppender, UNCHANGED work
    PROVE  IcmpKept
<1> DEFINE T == {"ihaData", "ihaHdr", "xyz1"}
<1>1. PICK d, h, x, g1, g2 :
          /\ d = Head(ch["ihaData"]) /\ h = Head(ch["ihaHdr"]) /\ g1 = Pop(ch, "ihaData") /\ g2 = Pop(g1, "ihaHdr")
          /\ x = [Packet(d.kind, d.id, h.src) EXCEPT !.body = <<h.id>>]
  OBVIOUS
<1>2. ch["ihaData"] # <<>> /\ ch["ihaHdr"] # <<>> /\ ch' = Put(g2, "xyz1", x) /\ icc' = icc /\ UNCHANGED fate
  BY <1>1 DEF IpHeaderAppender, Some, Only, Same
<1>3. T \subseteq Stream /\ T \subseteq IcmpStream /\ DOMAIN ch = Stream
  BY SameStart DEF Stream, IpStream, IcmpStream, IcmpOk
<1>4. Kinds(g1) /\ Is("ihaData", d)
  BY <1>1, <1>2, <1>3, PopFits DEF IcmpOk
<1>5. g1["ihaHdr"] # <<>>
  BY <1>1, <1>2, <1>3 DEF Pop
<1>6. Kinds(g2)
  BY <1>1, <1>3, <1>4, <1>5, PopFits
<1>7. x.id = d.id /\ "id" \in DOMAIN x
  BY <1>1 DEF Packet
<1>8. Is("xyz1", x)
  BY <1>4, <1>7, JustThen DEF Is
<1>9. Kinds(ch')
  BY <1>2, <1>3, <1>6, <1>8, PutFits
<1>10. SameBut(T, ch, ch')
  <2>1. SameBut(T, ch, g1)
    BY <1>1, SameStart, PopSame DEF IcmpOk
  <2>2. SameBut(T, ch, g2)
    BY <1>1, <2>1, PopSame
  <2> QED
    BY <1>2, <2>2, PutSame
<1> QED
  BY <1>2, <1>3, <1>9, <1>10, SameLess, FateKept, DropsSame DEF IcmpOk, IcmpKept

LEMMA InserterKeeps ==
    ASSUME IcmpOk, IcmpChecksumInserter, UNCHANGED work
    PROVE  IcmpKept
<1> DEFINE T == {"xyz0", "icmpCsum0", "xyz1", "icmpCsum1", "l3icmp"}
<1>1. PICK s \in {<<"xyz0", "icmpCsum0">>, <<"xyz1", "icmpCsum1">>} :
          /\ ch[s[1]] # <<>> /\ ch[s[2]] # <<>> /\ icc' = icc /\ UNCHANGED fate
          /\ ch' = Put(Pop(Pop(ch, s[1]), s[2]), "l3icmp", [Head(ch[s[1]]) EXCEPT !.csum = <<Head(ch[s[2]])>>])
  BY DEF IcmpChecksumInserter, Some, Only, Same
<1>2. PICK a, b, p, x, g1, g2 :
          /\ a = s[1] /\ b = s[2] /\ p = Head(ch[a]) /\ x = [p EXCEPT !.csum = <<Head(ch[b])>>]
          /\ g1 = Pop(ch, a) /\ g2 = Pop(g1, b)
  OBVIOUS
<1>3. /\ a \in {"xyz0", "xyz1"} /\ b \in {"icmpCsum0", "icmpCsum1"} /\ ch[a] # <<>> /\ ch[b] # <<>>
      /\ ch' = Put(g2, "l3icmp", x)
  BY <1>1, <1>2
<1>4. T \subseteq Stream /\ T \subseteq IcmpStream /\ a \in T /\ b \in T /\ a # b /\ DOMAIN ch = Stream
  BY <1>3, SameStart DEF Stream, IpStream, IcmpStream, IcmpOk
<1>5. Kinds(g1) /\ Is(a, p)
  BY <1>2, <1>3, <1>4, PopFits DEF IcmpOk
<1>6. g1[b] # <<>>
  BY <1>2, <1>3, <1>4 DEF Pop
<1>7. Kinds(g2)
  BY <1>2, <1>4, <1>5, <1>6, PopFits
<1>8. "id" \in DOMAIN p /\ OfReply(p.id)
  BY <1>3, <1>5 DEF Is
<1>9. x.id = p.id /\ "id" \in DOMAIN x
  BY <1>2, <1>8
<1>10. Is("l3icmp", x)
  BY <1>8, <1>9 DEF Is
<1>11. Kinds(ch')
  BY <1>3, <1>4, <1>7, <1>10, PutFits
<1>12. SameBut(T, ch, ch')
  <2>1. SameBut(T, ch, g1)
    BY <1>2, <1>4, SameStart, PopSame DEF IcmpOk
  <2>2. SameBut(T, ch, g2)
    BY <1>2, <1>4, <2>1, PopSame
  <2> QED
    BY <1>3, <2>2, PutSame
<1> QED
  BY <1>1, <1>4, <1>11, <1>12, SameLess, FateKept, DropsSame DEF IcmpOk, IcmpKept

LEMMA IcmpKeeps ==
    ASSUME IcmpOk, Icmp, UNCHANGED work
    PROVE  IcmpKept
BY IccForwardKeeps, IccVerdictKeeps, InvalidPacketKeeps, BuilderKeeps, AppenderKeeps, InserterKeeps DEF Icmp

-----------------------------------------------------------------------------
(* ARP and IPTX *)

OutStream == {"arpIn", "update", "apsMeta", "accMeta", "ethOut", "lkpReq", "lkpRep",
              "l3icmp", "l3udp", "l3toe", "l3", "hcaData", "hcaCsum", "iae", "mai"}
OutOk == FateLine /\ Kinds(ch)
OutKept == FateLine' /\ Kinds(ch') /\ SameBut(OutStream, ch, ch')

LEMMA ReceiverKeeps ==
    ASSUME OutOk, ArpPacketReceiver, UNCHANGED work
    PROVE  OutKept
<1>1. PICK p, x, g1, g2 :
          /\ p = Head(ch["arpIn"]) /\ g1 = Pop(ch, "arpIn") /\ g2 = Put(g1, "update", p.src) /\ x = [id |-> p.id, ip |-> p.src]
  OBVIOUS
<1>2. /\ ch["arpIn"] # <<>>
      /\ \/ p.op = "request" /\ p.dst = Me /\ ch' = Put(g2, "apsMeta", x) /\ UNCHANGED fate
         \/ ch' = g2 /\ Becomes(p.id, "learned")
  BY <1>1 DEF ArpPacketReceiver, Some
<1>3. {"arpIn", "update", "apsMeta"} \subseteq Stream /\ {"arpIn", "update", "apsMeta"} \subseteq OutStream
  BY DEF Stream, IpStream, OutStream
<1>4. Kinds(g1) /\ Is("arpIn", p)
  BY <1>1, <1>2, <1>3, PopFits DEF OutOk
<1>5. Is("update", p.src)
  BY DEF Is
<1>6. Kinds(g2)
  BY <1>1, <1>3, <1>4, <1>5, PutFits
<1>7. SameBut(OutStream, ch, g2)
  <2>1. SameBut(OutStream, ch, g1)
    BY <1>1, <1>3, SameStart, PopSame DEF OutOk
  <2> QED
    BY <1>1, <1>3, <2>1, PutSame
<1>8. CASE p.op = "request" /\ p.dst = Me /\ ch' = Put(g2, "apsMeta", x) /\ UNCHANGED fate
  <2>1. OfReply(p.id)
    <3>1. CASE p \in Frames
      <4>1. \A f \in Frames : f.id = p.id => f = p
        BY <3>1, FramesAre DEF OutOk, FateLine
      <4>2. p.type = "arp"
        BY <1>4 DEF Is
      <4> QED
        BY <1>8, <4>1, <4>2 DEF OfReply, Replied
    <3>2. CASE p.id = 0
      BY <3>2, NoFrameZero, JustThen DEF OutOk, FateLine
    <3> QED
      BY <1>4, <3>1, <3>2 DEF Is, Came
  <2>2. Is("apsMeta", x)
    BY <1>1, <2>1 DEF Is
  <2> QED
    BY <1>3, <1>6, <1>7, <1>8, <2>2, PutFits, PutSame, FateKept DEF OutOk, OutKept
<1>9. CASE ch' = g2 /\ Becomes(p.id, "learned")
  <2>1. FateLine'
    BY <1>9, JustThen, FateStep DEF OutOk
  <2> QED
    BY <1>6, <1>7, <1>9, <2>1 DEF OutKept
<1> QED
  BY <1>2, <1>8, <1>9

LEMMA PassKeeps ==
    ASSUME OutOk, NEW a \in OutStream, NEW b \in OutStream, NEW x, Pass(a, b, x), Is(a, Head(ch[a])) => Is(b, x),
           UNCHANGED <<work, fate>>
    PROVE  OutKept
<1>1. a \in Stream /\ b \in Stream
  BY DEF OutStream, Stream, IpStream
<1>2. Kinds(ch')
  BY <1>1, PassFits DEF OutOk
<1>3. SameBut(OutStream, ch, ch')
  BY SameStart, PassSame DEF OutOk
<1> QED
  BY <1>2, <1>3, FateKept DEF OutOk, OutKept

LEMMA SenderKeeps ==
    ASSUME OutOk, ArpPacketSender, UNCHANGED work
    PROVE  OutKept
<1>1. UNCHANGED fate
  BY DEF ArpPacketSender, Only
<1>2. {"apsMeta", "accMeta", "ethOut"} \subseteq OutStream
  BY DEF OutStream
<1>3. PICK m, n : m = Head(ch["apsMeta"]) /\ n = Head(ch["accMeta"])
  OBVIOUS
<1>4. CASE Pass("apsMeta", "ethOut", Arp("reply", m.id, m.ip))
  <2>1. Arp("reply", m.id, m.ip).id = m.id
    BY DEF Arp, Packet
  <2>2. Is("apsMeta", m) => Is("ethOut", Arp("reply", m.id, m.ip))
    BY <2>1 DEF Is
  <2> QED
    BY <1>1, <1>2, <1>3, <1>4, <2>2, PassKeeps
<1>5. CASE Pass("accMeta", "ethOut", Arp("request", 0, n))
  <2>1. Arp("request", 0, n).id = 0
    BY DEF Arp, Packet
  <2>2. OfReply(0)
    BY NoFrameZero, JustThen DEF OutOk, FateLine
  <2>3. Is("ethOut", Arp("request", 0, n))
    BY <2>1, <2>2 DEF Is
  <2> QED
    BY <1>1, <1>2, <1>5, <2>3, PassKeeps
<1> QED
  BY <1>3, <1>4, <1>5 DEF ArpPacketSender

LEMMA CamKeeps ==
    ASSUME OutOk, AccTake \/ AccReply, UNCHANGED work
    PROVE  OutKept
<1> DEFINE T == {"lkpReq", "lkpRep", "update", "accMeta"}
<1>1. UNCHANGED fate /\ T \subseteq Stream /\ T \subseteq OutStream
  BY DEF AccTake, AccReply, Stream, IpStream, OutStream
<1>2. \A x : \A c \in T : Is(c, x)
  BY DEF Is
<1>3. ASSUME NEW g, Kinds(g), SameBut(OutStream, ch, g), NEW c \in T
      PROVE  /\ \A x : Kinds(Put(g, c, x)) /\ SameBut(OutStream, ch, Put(g, c, x))
             /\ g[c] # <<>> => Kinds(Pop(g, c)) /\ SameBut(OutStream, ch, Pop(g, c))
  BY <1>1, <1>2, <1>3, PutFits, PutSame, PopFits, PopSame
<1>4. Kinds(ch) /\ SameBut(OutStream, ch, ch)
  BY SameStart DEF OutOk
<1>5. CASE AccTake
  <2>1. \/ ch["lkpReq"] # <<>> /\ \E x : ch' = Put(Pop(ch, "lkpReq"), "lkpRep", x)
        \/ ch["lkpReq"] # <<>> /\ ch' = Pop(ch, "lkpReq")
        \/ ch["update"] # <<>> /\ ch' = Pop(ch, "update")
    BY <1>5 DEF AccTake, Some
  <2> QED
    BY <1>1, <1>3, <1>4, <2>1, FateKept DEF OutOk, OutKept
<1>6. CASE AccReply
  <2>1. \/ ch' = ch
        \/ \E x : ch' = Put(ch, "lkpRep", x)
        \/ \E x, y : ch' = Put(Put(ch, "lkpRep", x), "accMeta", y)
    BY <1>6 DEF AccReply
  <2> QED
    BY <1>1, <1>3, <1>4, <2>1, FateKept DEF OutOk, OutKept
<1> QED
  BY <1>5, <1>6

LEMMA ArpsKeep ==
    ASSUME OutOk, Arps, UNCHANGED work
    PROVE  OutKept
BY ReceiverKeeps, SenderKeeps, CamKeeps DEF Arps

\* What IPTX does to a packet leaves its name.
LEMMA NameStays ==
    ASSUME NEW p, "id" \in DOMAIN p, NEW x, NEW y
    PROVE  /\ [p EXCEPT !.hcsum = x].id = p.id /\ "id" \in DOMAIN [p EXCEPT !.hcsum = x]
           /\ [p EXCEPT !.dst = y].id = p.id
OBVIOUS

LEMMA MuxKeeps ==
    ASSUME OutOk, L3mux, UNCHANGED work
    PROVE  OutKept
<1>1. PICK c \in {"l3icmp", "l3udp", "l3toe"} : Pass(c, "l3", Head(ch[c])) /\ UNCHANGED fate
  BY DEF L3mux, Only
<1>2. c \in OutStream /\ "l3" \in OutStream
  BY DEF OutStream
<1>3. Is(c, Head(ch[c])) => Is("l3", Head(ch[c]))
  BY DEF Is
<1> QED
  BY <1>1, <1>2, <1>3, PassKeeps

LEMMA HeaderKeeps ==
    ASSUME OutOk, HeaderChecksumAccumulator, UNCHANGED work
    PROVE  OutKept
<1>1. PICK p, x, g1, g2 : p = Head(ch["l3"]) /\ x = <<p.kind, p.id>> /\ g1 = Pop(ch, "l3") /\ g2 = Put(g1, "hcaData", p)
  OBVIOUS
<1>2. ch["l3"] # <<>> /\ ch' = Put(g2, "hcaCsum", x) /\ UNCHANGED fate
  BY <1>1 DEF HeaderChecksumAccumulator, Some, Only
<1>3. {"l3", "hcaData", "hcaCsum"} \subseteq Stream /\ {"l3", "hcaData", "hcaCsum"} \subseteq OutStream
  BY DEF Stream, IpStream, OutStream
<1>4. Kinds(g1) /\ Is("l3", p)
  BY <1>1, <1>2, <1>3, PopFits DEF OutOk
<1>5. Is("hcaData", p) /\ Is("hcaCsum", x)
  BY <1>4 DEF Is
<1>6. Kinds(ch')
  BY <1>1, <1>2, <1>3, <1>4, <1>5, PutFits
<1>7. SameBut(OutStream, ch, ch')
  <2>1. SameBut(OutStream, ch, g1)
    BY <1>1, <1>3, SameStart, PopSame DEF OutOk
  <2>2. SameBut(OutStream, ch, g2)
    BY <1>1, <1>3, <2>1, PutSame
  <2> QED
    BY <1>2, <1>3, <2>2, PutSame
<1> QED
  BY <1>2, <1>6, <1>7, FateKept DEF OutOk, OutKept

LEMMA ChecksumKeeps ==
    ASSUME OutOk, IpChecksumInsert, UNCHANGED work
    PROVE  OutKept
<1>1. PICK p, x, g1, g2 :
          /\ p = Head(ch["hcaData"]) /\ x = [p EXCEPT !.hcsum = Head(ch["hcaCsum"])]
          /\ g1 = Pop(ch, "hcaData") /\ g2 = Pop(g1, "hcaCsum")
  OBVIOUS
<1>2. ch["hcaData"] # <<>> /\ ch["hcaCsum"] # <<>> /\ ch' = Put(g2, "iae", x) /\ UNCHANGED fate
  BY <1>1 DEF IpChecksumInsert, Some, Only
<1>3. {"hcaData", "hcaCsum", "iae"} \subseteq Stream /\ {"hcaData", "hcaCsum", "iae"} \subseteq OutStream /\ DOMAIN ch = Stream
  BY SameStart DEF Stream, IpStream, OutStream, OutOk
<1>4. Kinds(g1) /\ Is("hcaData", p) /\ g1["hcaCsum"] # <<>>
  <2>1. g1["hcaCsum"] = ch["hcaCsum"]
    BY <1>1, <1>3 DEF Pop
  <2> QED
    BY <1>1, <1>2, <1>3, <2>1, PopFits DEF OutOk
<1>5. Kinds(g2)
  BY <1>1, <1>3, <1>4, PopFits
<1>6. Is("iae", x)
  BY <1>1, <1>4, NameStays DEF Is
<1>7. Kinds(ch')
  BY <1>2, <1>3, <1>5, <1>6, PutFits
<1>8. SameBut(OutStream, ch, ch')
  <2>1. SameBut(OutStream, ch, g1)
    BY <1>1, <1>3, SameStart, PopSame DEF OutOk
  <2>2. SameBut(OutStream, ch, g2)
    BY <1>1, <1>3, <2>1, PopSame
  <2> QED
    BY <1>2, <1>3, <2>2, PutSame
<1> QED
  BY <1>2, <1>7, <1>8, FateKept DEF OutOk, OutKept

LEMMA ExtractorKeeps ==
    ASSUME OutOk, Ip4AddressExtractor, UNCHANGED work
    PROVE  OutKept
<1>1. PICK p, x, g1, g2 : p = Head(ch["iae"]) /\ x = NextHop(p.dst) /\ g1 = Pop(ch, "iae") /\ g2 = Put(g1, "mai", p)
  OBVIOUS
<1>2. ch["iae"] # <<>> /\ ch' = Put(g2, "lkpReq", x) /\ UNCHANGED fate
  BY <1>1 DEF Ip4AddressExtractor, Some, Only
<1>3. {"iae", "mai", "lkpReq"} \subseteq Stream /\ {"iae", "mai", "lkpReq"} \subseteq OutStream
  BY DEF Stream, IpStream, OutStream
<1>4. Kinds(g1) /\ Is("iae", p)
  BY <1>1, <1>2, <1>3, PopFits DEF OutOk
<1>5. Is("mai", p) /\ Is("lkpReq", x)
  BY <1>4 DEF Is
<1>6. Kinds(ch')
  BY <1>1, <1>2, <1>3, <1>4, <1>5, PutFits
<1>7. SameBut(OutStream, ch, ch')
  <2>1. SameBut(OutStream, ch, g1)
    BY <1>1, <1>3, SameStart, PopSame DEF OutOk
  <2>2. SameBut(OutStream, ch, g2)
    BY <1>1, <1>3, <2>1, PutSame
  <2> QED
    BY <1>2, <1>3, <2>2, PutSame
<1> QED
  BY <1>2, <1>6, <1>7, FateKept DEF OutOk, OutKept

LEMMA MacInserterKeeps ==
    ASSUME OutOk, MacAddressInserter, UNCHANGED work
    PROVE  OutKept
<1>1. PICK r, p, x, g1, g2 :
          /\ r = Head(ch["lkpRep"]) /\ p = Head(ch["mai"]) /\ x = [p EXCEPT !.dst = <<r.ip, p.dst>>]
          /\ g1 = Pop(ch, "lkpRep") /\ g2 = Pop(g1, "mai")
  OBVIOUS
<1>2. /\ ch["lkpRep"] # <<>> /\ ch["mai"] # <<>>
      /\ \/ ch' = Put(g2, "ethOut", x) /\ UNCHANGED fate
         \/ ch' = g2 /\ Becomes(p.id, "missed")
  BY <1>1 DEF MacAddressInserter, Some
<1>3. {"lkpRep", "mai", "ethOut"} \subseteq Stream /\ {"lkpRep", "mai", "ethOut"} \subseteq OutStream /\ DOMAIN ch = Stream
  BY SameStart DEF Stream, IpStream, OutStream, OutOk
<1>4. Kinds(g1) /\ Is("mai", p) /\ g1["mai"] # <<>>
  <2>1. g1["mai"] = ch["mai"]
    BY <1>1, <1>3 DEF Pop
  <2> QED
    BY <1>1, <1>2, <1>3, <2>1, PopFits DEF OutOk
<1>5. Kinds(g2)
  BY <1>1, <1>3, <1>4, PopFits
<1>6. Is("ethOut", x) /\ OfReply(p.id)
  <2>1. "id" \in DOMAIN p /\ OfReply(p.id)
    BY <1>4 DEF Is
  <2>2. x.id = p.id
    BY <1>1, <2>1, NameStays
  <2> QED
    BY <2>1, <2>2 DEF Is
<1>7. SameBut(OutStream, ch, g2)
  <2>1. SameBut(OutStream, ch, g1)
    BY <1>1, <1>3, SameStart, PopSame DEF OutOk
  <2> QED
    BY <1>1, <1>3, <2>1, PopSame
<1>8. CASE ch' = Put(g2, "ethOut", x) /\ UNCHANGED fate
  BY <1>3, <1>5, <1>6, <1>7, <1>8, PutFits, PutSame, FateKept DEF OutOk, OutKept
<1>9. CASE ch' = g2 /\ Becomes(p.id, "missed")
  <2>1. FateLine'
    BY <1>6, <1>9, JustThen, FateStep DEF OutOk
  <2> QED
    BY <1>5, <1>7, <1>9, <2>1 DEF OutKept
<1> QED
  BY <1>2, <1>8, <1>9

LEMMA IptxKeeps ==
    ASSUME OutOk, Iptx, UNCHANGED work
    PROVE  OutKept
BY MuxKeeps, HeaderKeeps, ChecksumKeeps, ExtractorKeeps, MacInserterKeeps DEF Iptx

-----------------------------------------------------------------------------
(* What the role sends is of no frame. *)

SendStream == {"inval0", "roleMeta", "roleData", "ipReq", "ipRep", "txMeta", "txLen", "txData",
               "taiData", "taiMeta", "taiLen", "tdhData", "tdhMeta", "tdhLen", "uhaData", "uhaMeta", "uhaLen",
               "ucaData", "ucaCsum", "ihData", "ihPair", "ihLen", "l3udp"}
Silent == {"inval0", "ipReq", "ipRep", "txLen", "taiLen", "tdhLen", "uhaLen", "ucaData", "ucaCsum", "ihPair", "ihLen"}
TxLine ==
    /\ utx = [st |-> utx.st, meta |-> utx.meta, seen |-> utx.seen, ip |-> utx.ip, cache |-> utx.cache]
    /\ Foreign(utx.meta.id)
    /\ tai = [st |-> tai.st, stream |-> tai.stream, left |-> tai.left, split |-> tai.split, meta |-> tai.meta]
    /\ tai.st # "IDLE" => Foreign(tai.meta[1].id)
    /\ iha # <<>> => "id" \in DOMAIN iha[1] /\ Foreign(iha[1].id)
SendOk == FateLine /\ Kinds(ch) /\ TxLine
SendKept == FateLine' /\ Kinds(ch') /\ TxLine' /\ SameBut(SendStream, ch, ch')

\* Where the streams may be between two writes of a step.
Sends(g) == Kinds(g) /\ SameBut(SendStream, ch, g)
LEMMA SendsStart ==
    ASSUME Kinds(ch)
    PROVE  Sends(ch)
BY SameStart DEF Sends

LEMMA SendsPut ==
    ASSUME NEW g, Sends(g), NEW c \in SendStream, NEW x, Is(c, x)
    PROVE  Sends(Put(g, c, x)) /\ \A b \in Stream : b # c => Put(g, c, x)[b] = g[b]
<1>1. c \in Stream
  BY DEF SendStream, Stream, IpStream, UdpStream, NalStream
<1> QED
  BY <1>1, PutFits, PutSame, PutIs DEF Sends, SameBut

LEMMA SendsPop ==
    ASSUME NEW g, Sends(g), NEW c \in SendStream, g[c] # <<>>
    PROVE  Sends(Pop(g, c)) /\ Is(c, Head(g[c])) /\ \A b \in Stream : b # c => Pop(g, c)[b] = g[b]
<1>1. c \in Stream
  BY DEF SendStream, Stream, IpStream, UdpStream, NalStream
<1> QED
  BY <1>1, PopFits, PopSame, PopIs DEF Sends, SameBut

LEMMA SilentIs ==
    ASSUME NEW c \in Silent, NEW x
    PROVE  Is(c, x) /\ c \in SendStream
BY DEF Silent, Is, SendStream

LEMMA SendDone ==
    ASSUME FateLine, Sends(ch'), TxLine', UNCHANGED <<work, fate>>
    PROVE  SendKept
BY FateKept DEF Sends, SendKept

LEMMA UtxInvalKeeps ==
    ASSUME SendOk, UtxInval, UNCHANGED work
    PROVE  SendKept
<1>1. ch["inval0"] # <<>> /\ ch' = Pop(ch, "inval0") /\ utx' = [utx EXCEPT !.cache = NoEntry] /\ UNCHANGED <<fate, tai, iha>>
  BY DEF UtxInval, Some, TxRest, Nts, uoe, tx
<1>2. Sends(ch')
  BY <1>1, SendsStart, SendsPop DEF SendOk, SendStream
<1>3. TxLine'
  BY <1>1 DEF SendOk, TxLine, Foreign, Frames
<1> QED
  BY <1>1, <1>2, <1>3, SendDone DEF SendOk

LEMMA UtxMetaKeeps ==
    ASSUME SendOk, UtxMeta, UNCHANGED work
    PROVE  SendKept
<1>1. PICK m, rest, st2 :
          /\ m = Head(ch["roleMeta"]) /\ rest = Pop(ch, "roleMeta")
          /\ ch["roleMeta"] # <<>> /\ (ch' = rest \/ ch' = Put(rest, "ipReq", m.rank))
          /\ utx' = [utx EXCEPT !.st = st2, !.meta = m, !.seen = 0, !.ip = utx.cache.ip] /\ UNCHANGED <<fate, tai, iha>>
  BY DEF UtxMeta, Some, TxRest, Nts, uoe, tx
<1>2. Sends(rest) /\ Is("roleMeta", m)
  BY <1>1, SendsStart, SendsPop DEF SendOk, SendStream
<1>3. Sends(ch')
  BY <1>1, <1>2, SendsPut, SilentIs DEF Silent
<1>4. Foreign(m.id)
  BY <1>2 DEF Is
<1>5. TxLine'
  BY <1>1, <1>4 DEF SendOk, TxLine, Foreign, Frames
<1> QED
  BY <1>1, <1>3, <1>5, SendDone DEF SendOk

LEMMA UtxReplyKeeps ==
    ASSUME SendOk, UtxReply, UNCHANGED work
    PROVE  SendKept
<1>1. PICK ip, e :
          /\ ch["ipRep"] # <<>> /\ ch' = Pop(ch, "ipRep") /\ UNCHANGED <<fate, tai, iha>>
          /\ utx' = [utx EXCEPT !.st = "FIRST_ACC", !.ip = ip, !.cache = e]
  BY DEF UtxReply, Some, TxRest, Nts, uoe, tx
<1>2. Sends(ch')
  BY <1>1, SendsStart, SendsPop DEF SendOk, SendStream
<1>3. TxLine'
  BY <1>1 DEF SendOk, TxLine, Foreign, Frames
<1> QED
  BY <1>1, <1>2, <1>3, SendDone DEF SendOk

LEMMA UtxFirstKeeps ==
    ASSUME SendOk, UtxFirst, UNCHANGED work
    PROVE  SendKept
<1>1. PICK m, x, g, st2 :
          /\ m = utx.meta /\ x = [id |-> m.id, port |-> 1, dst |-> utx.ip] /\ g = Put(ch, "txMeta", x)
          /\ (ch' = ch \/ ch' = Put(g, "txLen", m.n)) /\ UNCHANGED <<fate, tai, iha>>
          /\ utx' = [utx EXCEPT !.st = st2]
  BY DEF UtxFirst, TxRest, Nts, uoe, tx
<1>2. Is("txMeta", x)
  BY <1>1 DEF SendOk, TxLine, Is
<1>3. Sends(ch')
  BY <1>1, <1>2, SendsStart, SendsPut, SilentIs DEF SendOk, SendStream, Silent
<1>4. TxLine'
  BY <1>1 DEF SendOk, TxLine, Foreign, Frames
<1> QED
  BY <1>1, <1>3, <1>4, SendDone DEF SendOk

LEMMA UtxDataKeeps ==
    ASSUME SendOk, UtxData, UNCHANGED work
    PROVE  SendKept
<1>1. PICK c, rest, n, end :
          /\ c = Head(ch["roleData"]) /\ rest = Pop(ch, "roleData") /\ ch["roleData"] # <<>>
          /\ (ch' = rest \/ ch' = Put(rest, "txData", Chunk(c.w, end))) /\ UNCHANGED <<tai, iha>>
          /\ \/ utx' = [utx EXCEPT !.st = "W8FORMETA", !.meta = NoMeta, !.seen = 0, !.ip = NoIp]
             \/ utx' = [utx EXCEPT !.seen = n]
          /\ Becomes(utx.meta.id, "dropped") \/ UNCHANGED fate
  BY DEF UtxData, Some, TxRest, Nts, uoe, tx
<1>2. Sends(rest) /\ Is("roleData", c)
  BY <1>1, SendsStart, SendsPop DEF SendOk, SendStream
<1>3. Is("txData", Chunk(c.w, end))
  BY <1>2 DEF Is, Chunk
<1>4. Sends(ch')
  BY <1>1, <1>2, <1>3, SendsPut DEF SendStream
<1>5. TxLine'
  <2>1. Foreign(NoMeta.id)
    BY NoFrameZero DEF NoMeta, SendOk, FateLine
  <2> QED
    BY <1>1, <2>1 DEF SendOk, TxLine, Foreign, Frames
<1>6. FateLine'
  <2>1. OfWaste(utx.meta.id)
    BY JustThen DEF SendOk, TxLine
  <2> QED
    BY <1>1, <2>1, JustThen, FateStep, FateKept DEF SendOk
<1> QED
  BY <1>4, <1>5, <1>6 DEF Sends, SendKept

LEMMA UdpTXKeeps ==
    ASSUME SendOk, UdpTX, UNCHANGED work
    PROVE  SendKept
BY UtxInvalKeeps, UtxMetaKeeps, UtxReplyKeeps, UtxFirstKeeps, UtxDataKeeps DEF UdpTX

LEMMA UtdDeqKeeps ==
    ASSUME SendOk, UtdDeq, UNCHANGED work
    PROVE  SendKept
<1>1. PICK c, m, n, g1, g2, g3, g4, g5 :
          /\ c = Head(ch["txData"]) /\ m = Head(ch["txMeta"]) /\ n = Head(ch["txLen"])
          /\ g1 = Pop(ch, "txData") /\ g2 = Put(g1, "taiData", c)
          /\ g3 = Pop(g2, "txMeta") /\ g4 = Put(g3, "taiMeta", m) /\ g5 = Pop(g4, "txLen")
  OBVIOUS
<1>2. /\ ch["txData"] # <<>> /\ UNCHANGED <<fate, utx, tai, iha>>
      /\ \/ ch["txMeta"] # <<>> /\ ch["txLen"] # <<>> /\ ch' = Put(g5, "taiLen", n)
         \/ ch' = g2
  BY <1>1 DEF UtdDeq, Some, Nts, uoe, tx
<1>3. Sends(g2) /\ \A b \in Stream : b \notin {"txData", "taiData"} => g2[b] = ch[b]
  <2>1. Sends(g1) /\ Is("txData", c) /\ \A b \in Stream : b # "txData" => g1[b] = ch[b]
    BY <1>1, <1>2, SendsStart, SendsPop DEF SendOk, SendStream
  <2>2. Is("taiData", c)
    BY <2>1 DEF Is
  <2> QED
    BY <1>1, <2>1, <2>2, SendsPut DEF SendStream
<1>4. ASSUME ch["txMeta"] # <<>>, ch["txLen"] # <<>>, ch' = Put(g5, "taiLen", n)
      PROVE  Sends(ch')
  <2>1. g2["txMeta"] = ch["txMeta"] /\ g2["txLen"] = ch["txLen"]
    BY <1>3 DEF Stream, NalStream
  <2>2. Sends(g3) /\ Is("txMeta", m) /\ g3["txLen"] = ch["txLen"]
    BY <1>1, <1>3, <1>4, <2>1, SendsPop DEF SendStream, Stream, NalStream
  <2>3. Is("taiMeta", m)
    BY <2>2 DEF Is
  <2>4. Sends(g4) /\ g4["txLen"] = ch["txLen"]
    BY <1>1, <2>2, <2>3, SendsPut DEF SendStream, Stream, NalStream
  <2>5. Sends(g5)
    BY <1>1, <1>4, <2>4, SendsPop DEF SendStream
  <2> QED
    BY <1>4, <2>5, SendsPut, SilentIs DEF Silent
<1>5. Sends(ch')
  BY <1>2, <1>3, <1>4
<1>6. TxLine'
  BY <1>2 DEF SendOk, TxLine, Foreign, Frames
<1> QED
  BY <1>2, <1>5, <1>6, SendDone DEF SendOk

LEMMA TaiIdleKeeps ==
    ASSUME SendOk, TaiIdle, UNCHANGED <<work, utx>>
    PROVE  SendKept
<1>1. PICK m, n, b, g1 :
          /\ m = Head(ch["taiMeta"]) /\ g1 = Pop(ch, "taiMeta") /\ ch' = Pop(g1, "taiLen")
          /\ ch["taiMeta"] # <<>> /\ ch["taiLen"] # <<>> /\ UNCHANGED <<fate, iha>>
          /\ tai' = [st |-> "DATA", stream |-> b, left |-> n, split |-> 0, meta |-> <<m>>]
  BY DEF TaiIdle, Tai, Quiet, Some
<1>2. Sends(g1) /\ Is("taiMeta", m) /\ g1["taiLen"] # <<>>
  <2>1. /\ Sends(g1) /\ Is("taiMeta", m) /\ \A c \in Stream : c # "taiMeta" => g1[c] = ch[c]
    BY <1>1, SendsStart, SendsPop DEF SendOk, SendStream
  <2> QED
    BY <1>1, <2>1 DEF Stream, UdpStream
<1>3. Sends(ch')
  BY <1>1, <1>2, SendsPop DEF SendStream
<1>4. Foreign(m.id) /\ tai'.meta[1] = m
  BY <1>1, <1>2 DEF Is
<1>5. Foreign(m.id)'
  BY <1>4 DEF Foreign, Frames
<1>6. TxLine'
  BY <1>1, <1>4 DEF SendOk, TxLine, Foreign, Frames
<1> QED
  BY <1>1, <1>3, <1>6, SendDone DEF SendOk
LEMMA TaiDataKeeps ==
    ASSUME SendOk, TaiData, UNCHANGED <<work, utx>>
    PROVE  SendKept
<1>1. PICK c, g1, b, n, l, s, st2 :
          /\ c = Head(ch["taiData"]) /\ g1 = Pop(ch, "taiData") /\ ch' = Put(g1, "tdhData", Chunk(c.w, b))
          /\ ch["taiData"] # <<>> /\ UNCHANGED <<fate, iha>> /\ tai.st = "DATA"
          /\ tai' = [tai EXCEPT !.split = n, !.left = l, !.stream = s, !.st = st2]
  BY ZenonT(60) DEF TaiData, Tai, Quiet, Some
<1>2. Sends(g1) /\ Is("taiData", c)
  BY <1>1, SendsStart, SendsPop DEF SendOk, SendStream
<1>3. Is("tdhData", Chunk(c.w, b))
  BY <1>2 DEF Is, Chunk
<1>4. Sends(ch')
  BY <1>1, <1>2, <1>3, SendsPut DEF SendStream
<1>5. TxLine'
  BY <1>1 DEF SendOk, TxLine, Foreign, Frames
<1> QED
  BY <1>1, <1>4, <1>5, SendDone DEF SendOk

LEMMA TaiMetaKeeps ==
    ASSUME SendOk, TaiMeta, UNCHANGED <<work, utx>>
    PROVE  SendKept
<1>1. PICK m, g1 :
          /\ m = tai.meta[1] /\ g1 = Put(ch, "tdhMeta", m) /\ ch' = Put(g1, "tdhLen", tai.split)
          /\ UNCHANGED <<fate, iha>> /\ tai.st = "META"
          /\ tai' = NoMsg \/ tai' = [tai EXCEPT !.st = "DATA", !.split = 0]
  BY DEF TaiMeta, Tai, Quiet
<1>2. Is("tdhMeta", m)
  BY <1>1 DEF SendOk, TxLine, Is
<1>3. Sends(ch')
  BY <1>1, <1>2, SendsStart, SendsPut, SilentIs DEF SendOk, SendStream, Silent
<1>4. TxLine'
  <2>1. CASE tai' = NoMsg
    BY <1>1, <2>1 DEF SendOk, TxLine, Foreign, Frames, NoMsg
  <2>2. CASE tai' = [tai EXCEPT !.st = "DATA", !.split = 0]
    <3>1. tai'.meta = tai.meta /\ Foreign(tai.meta[1].id)
      BY <1>1, <2>2 DEF SendOk, TxLine
    <3>2. tai' = [st |-> tai'.st, stream |-> tai'.stream, left |-> tai'.left, split |-> tai'.split, meta |-> tai'.meta]
      BY <2>2 DEF SendOk, TxLine
    <3> QED
      BY <1>1, <3>1, <3>2 DEF SendOk, TxLine, Foreign, Frames
  <2> QED
    BY <1>1, <2>1, <2>2
<1> QED
  BY <1>1, <1>3, <1>4, SendDone DEF SendOk

LEMMA TxLineSame ==
    ASSUME TxLine, UNCHANGED <<work, utx, tai, iha>>
    PROVE  TxLine'
BY DEF TxLine, Foreign, Frames

LEMMA TdhKeeps ==
    ASSUME SendOk, TxDatagramHandler, UNCHANGED <<work, utx>>
    PROVE  SendKept
<1>1. UNCHANGED <<fate, tai, iha>>
  BY DEF TxDatagramHandler, TdhMeta, TdhLen, TdhData, TdhResidue, Tdh, Quiet
<1>2. TxLine'
  BY <1>1, TxLineSame DEF SendOk
<1>3. CASE TdhMeta
  <2>1. PICK m, g1, g2, x :
            /\ m = Head(ch["tdhMeta"]) /\ g1 = Pop(ch, "tdhMeta") /\ g2 = Put(g1, "uhaMeta", m)
            /\ ch["tdhMeta"] # <<>> /\ ch' = Put(g2, "ucaData", x)
    BY <1>3 DEF TdhMeta, Some, Summed
  <2>2. Sends(g1) /\ Is("tdhMeta", m)
    BY <2>1, SendsStart, SendsPop DEF SendOk, SendStream
  <2>3. Is("uhaMeta", m)
    BY <2>2 DEF Is
  <2>4. Sends(ch')
    BY <2>1, <2>2, <2>3, SendsPut, SilentIs DEF SendStream, Silent
  <2> QED
    BY <1>1, <1>2, <2>4, SendDone DEF SendOk
<1>4. CASE TdhLen
  <2>1. PICK m, g1, g2, x :
            /\ m = Head(ch["tdhLen"]) /\ g1 = Pop(ch, "tdhLen") /\ g2 = Put(g1, "uhaLen", m)
            /\ ch["tdhLen"] # <<>> /\ ch' = Put(g2, "ucaData", x)
    BY <1>4 DEF TdhLen, Some, Summed
  <2>2. Sends(g1)
    BY <2>1, SendsStart, SendsPop DEF SendOk, SendStream
  <2>3. Sends(ch')
    BY <2>1, <2>2, SendsPut, SilentIs DEF SendStream, Silent
  <2> QED
    BY <1>1, <1>2, <2>3, SendDone DEF SendOk
<1>5. CASE TdhData
  <2>1. PICK c, g1, g2, x :
            /\ c = Head(ch["tdhData"]) /\ g1 = Pop(ch, "tdhData") /\ g2 = Put(g1, "uhaData", c)
            /\ ch["tdhData"] # <<>> /\ ch' = Put(g2, "ucaData", x)
    BY <1>5 DEF TdhData, Some, Summed
  <2>2. Sends(g1) /\ Is("tdhData", c)
    BY <2>1, SendsStart, SendsPop DEF SendOk, SendStream
  <2>3. Is("uhaData", c)
    BY <2>2 DEF Is
  <2>4. Sends(ch')
    BY <2>1, <2>2, <2>3, SendsPut, SilentIs DEF SendStream, Silent
  <2> QED
    BY <1>1, <1>2, <2>4, SendDone DEF SendOk
<1>6. CASE TdhResidue
  <2>1. PICK x : ch' = Put(ch, "ucaData", x)
    BY <1>6 DEF TdhResidue, Summed
  <2>2. Sends(ch')
    BY <2>1, SendsStart, SendsPut, SilentIs DEF SendOk, Silent
  <2> QED
    BY <1>1, <1>2, <2>2, SendDone DEF SendOk
<1> QED
  BY <1>3, <1>4, <1>5, <1>6 DEF TxDatagramHandler

LEMMA UcaKeeps ==
    ASSUME SendOk, UcaAccumulate \/ UcaDone, UNCHANGED <<work, utx>>
    PROVE  SendKept
<1>1. UNCHANGED <<fate, tai, iha>>
  BY DEF UcaAccumulate, UcaDone, Quiet
<1>2. \/ ch["ucaData"] # <<>> /\ ch' = Pop(ch, "ucaData")
      \/ \E x : ch' = Put(ch, "ucaCsum", x)
  BY DEF UcaAccumulate, UcaDone, Some
<1>3. Sends(ch')
  BY <1>2, SendsStart, SendsPut, SendsPop, SilentIs DEF SendOk, Silent, SendStream
<1> QED
  BY <1>1, <1>3, TxLineSame, SendDone DEF SendOk

LEMMA UhaKeeps ==
    ASSUME SendOk, UhaIdle \/ UhaStream, UNCHANGED <<work, utx>>
    PROVE  SendKept
<1>1. UNCHANGED <<fate, tai, iha>>
  BY DEF UhaIdle, UhaStream, Uha, Quiet
<1>2. CASE UhaIdle
  <2>1. PICK m, n, head, pair, g1, g2, g3, g4, g5 :
            /\ m = Head(ch["uhaMeta"]) /\ head = [w |-> <<<<m.id, "ports", m.port>>, <<m.id, "sum", n>>>>, last |-> FALSE]
            /\ g1 = Pop(ch, "uhaMeta") /\ g2 = Pop(g1, "uhaLen") /\ g3 = Pop(g2, "ucaCsum")
            /\ g4 = Put(g3, "ihLen", n) /\ g5 = Put(g4, "ihPair", pair) /\ ch' = Put(g5, "ihData", head)
            /\ ch["uhaMeta"] # <<>> /\ ch["uhaLen"] # <<>> /\ ch["ucaCsum"] # <<>>
    BY <1>2 DEF UhaIdle, Some
  <2>2. Sends(g1) /\ Is("uhaMeta", m) /\ g1["uhaLen"] = ch["uhaLen"] /\ g1["ucaCsum"] = ch["ucaCsum"]
    BY <2>1, SendsStart, SendsPop DEF SendOk, SendStream, Stream, UdpStream
  <2>3. Sends(g2) /\ g2["ucaCsum"] = ch["ucaCsum"]
    BY <2>1, <2>2, SendsPop DEF SendStream, Stream, UdpStream
  <2>4. Sends(g3)
    BY <2>1, <2>3, SendsPop DEF SendStream
  <2>5. Sends(g4)
    BY <2>1, <2>4, SendsPut, SilentIs DEF Silent
  <2>6. Sends(g5)
    BY <2>1, <2>5, SendsPut, SilentIs DEF Silent
  <2>7. Is("ihData", head)
    <3>1. head.w[1][1] = m.id
      BY <2>1
    <3> QED
      BY <2>2, <3>1 DEF Is
  <2>8. Sends(ch')
    BY <2>1, <2>6, <2>7, SendsPut DEF SendStream
  <2> QED
    BY <1>1, <2>8, TxLineSame, SendDone DEF SendOk
<1>3. CASE UhaStream
  <2>1. PICK c, b, g1 :
            /\ c = Head(ch["uhaData"]) /\ g1 = Pop(ch, "uhaData") /\ ch["uhaData"] # <<>>
            /\ ch' = Put(g1, "ihData", Chunk(c.w, b))
    BY <1>3 DEF UhaStream, Some
  <2>2. Sends(g1) /\ Is("uhaData", c)
    BY <2>1, SendsStart, SendsPop DEF SendOk, SendStream
  <2>3. Is("ihData", Chunk(c.w, b))
    BY <2>2 DEF Is, Chunk
  <2>4. Sends(ch')
    BY <2>1, <2>2, <2>3, SendsPut DEF SendStream
  <2> QED
    BY <1>1, <2>4, TxLineSame, SendDone DEF SendOk
<1> QED
  BY <1>2, <1>3

LEMMA IhaHeaderKeeps ==
    ASSUME SendOk, IhaHeader, UNCHANGED <<work, utx>>
    PROVE  SendKept
<1>1. PICK u, dst, n, s, p, g1, g2 :
          /\ u = Head(ch["ihData"]).w
          /\ p = [Packet("udp", u[1][1], dst) EXCEPT !.body = u, !.len = n, !.csum = s]
          /\ g1 = Pop(ch, "ihLen") /\ g2 = Pop(g1, "ihPair") /\ ch' = Pop(g2, "ihData")
          /\ ch["ihLen"] # <<>> /\ ch["ihData"] # <<>> /\ ch["ihPair"] # <<>>
          /\ iha' = <<p>> /\ UNCHANGED <<fate, tai>>
  BY DEF IhaHeader, Quiet, Some
<1>2. Sends(g1) /\ g1["ihPair"] = ch["ihPair"] /\ g1["ihData"] = ch["ihData"]
  BY <1>1, SendsStart, SendsPop DEF SendOk, SendStream, Stream, UdpStream
<1>3. Sends(g2) /\ g2["ihData"] = ch["ihData"]
  BY <1>1, <1>2, SendsPop DEF SendStream, Stream, UdpStream
<1>4. Sends(ch') /\ Is("ihData", Head(ch["ihData"]))
  BY <1>1, <1>3, SendsPop DEF SendStream
<1>5. Foreign(u[1][1])
  BY <1>1, <1>4 DEF Is
<1>6. p.id = u[1][1] /\ "id" \in DOMAIN p
  BY <1>1 DEF Packet
<1>7. iha'[1] = p
  BY <1>1
<1>8. TxLine'
  BY <1>1, <1>5, <1>6, <1>7 DEF SendOk, TxLine, Foreign, Frames
<1> QED
  BY <1>1, <1>4, <1>8, SendDone DEF SendOk

LEMMA IhaForwardKeeps ==
    ASSUME SendOk, IhaForward, UNCHANGED <<work, utx>>
    PROVE  SendKept
<1>1. PICK p, body, g1 :
          /\ p = [iha[1] EXCEPT !.body = body] /\ g1 = Pop(ch, "ihData")
          /\ ch["ihData"] # <<>> /\ iha # <<>> /\ UNCHANGED <<fate, tai>>
          /\ \/ ch' = Put(g1, "l3udp", p) /\ iha' = <<>>
             \/ ch' = g1 /\ iha' = <<p>>
  BY DEF IhaForward, Quiet, Some
<1>2. Sends(g1)
  BY <1>1, SendsStart, SendsPop DEF SendOk, SendStream
<1>3. "id" \in DOMAIN iha[1] /\ Foreign(iha[1].id)
  BY <1>1 DEF SendOk, TxLine
<1>4. "id" \in DOMAIN p /\ p.id = iha[1].id
  BY <1>1, <1>3
<1>5. Is("l3udp", p)
  BY <1>3, <1>4, JustThen DEF Is
<1>6. Sends(ch')
  BY <1>1, <1>2, <1>5, SendsPut DEF SendStream
<1>7. iha' # <<>> => iha'[1] = p
  BY <1>1
<1>8. TxLine'
  BY <1>1, <1>3, <1>4, <1>7 DEF SendOk, TxLine, Foreign, Frames
<1> QED
  BY <1>1, <1>6, <1>8, SendDone DEF SendOk

LEMMA TxEngineKeeps ==
    ASSUME SendOk, TxEngine, UNCHANGED <<work, utx>>
    PROVE  SendKept
BY TaiIdleKeeps, TaiDataKeeps, TaiMetaKeeps, TdhKeeps, UcaKeeps, UhaKeeps, IhaHeaderKeeps, IhaForwardKeeps
   DEF TxEngine, TxApplicationInterface

-----------------------------------------------------------------------------
(* What the role gets: the rank of a sender, and the datagram *)

RecvStream == {"inval1", "uaifMeta", "uaifLen", "uaifData", "nidReq", "nidRep", "ipReq", "ipRep", "rxMeta", "rxData"}
Mute == {"inval1", "uaifLen", "uaifData", "nidReq", "nidRep", "ipReq", "ipRep", "rxData"}
\* There is one lookup for the sender that pUdpRx waits for, or none.
Asked(q, r) ==
    IF urx.st = "W8FORREQS" THEN (q = <<urx.src>> /\ r = <<>>) \/ (q = <<>> /\ r = <<NidOf(urx.src)>>)
    ELSE q = <<>> /\ r = <<>>
UrxLine ==
    /\ urx = [st |-> urx.st, meta |-> urx.meta, src |-> urx.src, rank |-> urx.rank, cache |-> urx.cache]
    /\ urx.cache = [rank |-> urx.cache.rank, ip |-> urx.cache.ip, init |-> urx.cache.init]
    /\ urx.cache.init = TRUE => urx.cache.rank = NidOf(urx.cache.ip)
    /\ urx.cache.init \in BOOLEAN
    /\ urx.st # "W8FORMETA" => OfSender(urx.meta.id, urx.src)
    /\ urx.st = "FIRST_ACC" => urx.rank = NidOf(urx.src)
UrdLine == urd.st # "WAIT_META" => OfRole(urd.meta.id)
RecvOk == FateLine /\ Kinds(ch) /\ UrxLine /\ UrdLine /\ Asked(ch["nidReq"], ch["nidRep"])
RecvKept ==
    /\ FateLine' /\ Kinds(ch') /\ UrxLine' /\ UrdLine' /\ Asked(ch["nidReq"], ch["nidRep"])'
    /\ SameBut(RecvStream, ch, ch')

Recvs(g) == Kinds(g) /\ SameBut(RecvStream, ch, g)
LEMMA RecvsStart ==
    ASSUME Kinds(ch)
    PROVE  Recvs(ch)
BY SameStart DEF Recvs

LEMMA RecvsPut ==
    ASSUME NEW g, Recvs(g), NEW c \in RecvStream, NEW x, Is(c, x)
    PROVE  /\ Recvs(Put(g, c, x)) /\ Put(g, c, x)[c] = Append(g[c], x)
           /\ \A b \in Stream : b # c => Put(g, c, x)[b] = g[b]
<1>1. c \in Stream
  BY DEF RecvStream, Stream, UdpStream, NalStream
<1> QED
  BY <1>1, PutFits, PutSame, PutIs DEF Recvs, SameBut

LEMMA RecvsPop ==
    ASSUME NEW g, Recvs(g), NEW c \in RecvStream, g[c] # <<>>
    PROVE  /\ Recvs(Pop(g, c)) /\ Is(c, Head(g[c])) /\ Pop(g, c)[c] = Tail(g[c])
           /\ \A b \in Stream : b # c => Pop(g, c)[b] = g[b]
<1>1. c \in Stream
  BY DEF RecvStream, Stream, UdpStream, NalStream
<1> QED
  BY <1>1, PopFits, PopSame, PopIs DEF Recvs, SameBut

LEMMA MuteIs ==
    ASSUME NEW c \in Mute, NEW x
    PROVE  Is(c, x) /\ c \in RecvStream
BY DEF Mute, Is, RecvStream

LEMMA RecvDone ==
    ASSUME FateLine', Recvs(ch'), UrxLine', UrdLine', Asked(ch["nidReq"], ch["nidRep"])'
    PROVE  RecvKept
BY DEF Recvs, RecvKept

LEMMA UrdSame ==
    ASSUME UrdLine, UNCHANGED <<work, urd>>
    PROVE  UrdLine'
BY DEF UrdLine, OfRole, Frames, ToUoe, ForRole, Sound

LEMMA UrxSame ==
    ASSUME UrxLine, UNCHANGED <<work, urx>>
    PROVE  UrxLine'
BY DEF UrxLine, OfSender, Frames, ToUoe, ForRole, Sound

LEMMA UrxInvalKeeps ==
    ASSUME RecvOk, UrxInval, UNCHANGED work
    PROVE  RecvKept
<1>1. ch["inval1"] # <<>> /\ ch' = Pop(ch, "inval1") /\ urx' = [urx EXCEPT !.cache = NoEntry] /\ UNCHANGED <<fate, urd>>
  BY DEF UrxInval, Some
<1>2. Recvs(ch') /\ ch'["nidReq"] = ch["nidReq"] /\ ch'["nidRep"] = ch["nidRep"]
  BY <1>1, RecvsStart, RecvsPop DEF RecvOk, RecvStream, Stream, NalStream
<1>3. /\ urx'.st = urx.st /\ urx'.meta = urx.meta /\ urx'.src = urx.src /\ urx'.rank = urx.rank /\ urx'.cache = NoEntry
      /\ urx' = [st |-> urx'.st, meta |-> urx'.meta, src |-> urx'.src, rank |-> urx'.rank, cache |-> urx'.cache]
  BY <1>1 DEF RecvOk, UrxLine
<1>4. UrxLine'
  BY <1>3 DEF RecvOk, UrxLine, OfSender, Frames, ToUoe, Sound, NoEntry
<1>5. Asked(ch["nidReq"], ch["nidRep"])'
  BY <1>2, <1>3 DEF RecvOk, Asked, NidOf
<1> QED
  BY <1>1, <1>2, <1>4, <1>5, UrdSame, FateKept, RecvDone DEF RecvOk

LEMMA UrxMetaKeeps ==
    ASSUME RecvOk, UrxMeta, UNCHANGED work
    PROVE  RecvKept
<1>1. PICK m, g, rest, k, st2, r, i :
          /\ m = Head(ch["uaifMeta"]) /\ g = Pop(ch, "uaifMeta") /\ rest = Pop(g, "uaifLen") /\ k.id = m.id
          /\ ch["uaifMeta"] # <<>> /\ ch["uaifLen"] # <<>> /\ urx.st = "W8FORMETA" /\ UNCHANGED <<fate, urd>>
          /\ urx' = [st |-> st2, meta |-> k, src |-> m.src, rank |-> r, cache |-> [urx.cache EXCEPT !.init = i]]
          /\ i = FALSE \/ i = urx.cache.init
          /\ \/ st2 = "DROP_PACKET" /\ ch' = rest
             \/ st2 = "FIRST_ACC" /\ ch' = rest /\ r = urx.cache.rank /\ urx.cache.init = TRUE /\ urx.cache.ip = m.src
             \/ st2 = "W8FORREQS" /\ ch' = Put(rest, "nidReq", m.src)
  <2>1. PICK m, g, rest, k :
            /\ m = Head(ch["uaifMeta"]) /\ g = Pop(ch, "uaifMeta") /\ rest = Pop(g, "uaifLen")
            /\ k = [id |-> m.id, port |-> m.port, n |-> Head(ch["uaifLen"])]
    OBVIOUS
  <2>2. ch["uaifMeta"] # <<>> /\ ch["uaifLen"] # <<>> /\ urx.st = "W8FORMETA" /\ UNCHANGED <<fate, urd>> /\ k.id = m.id
    BY <2>1 DEF UrxMeta, Some
  <2>3. PICK u, c : u = urx /\ c = urx.cache
    OBVIOUS
  <2>4. /\ u = [st |-> u.st, meta |-> u.meta, src |-> u.src, rank |-> u.rank, cache |-> c]
        /\ c = [rank |-> c.rank, ip |-> c.ip, init |-> c.init] /\ c.init \in BOOLEAN
    BY <2>3 DEF RecvOk, UrxLine
  <2>5. PICK got : got = [u EXCEPT !.meta = k, !.src = m.src]
    OBVIOUS
  <2>6. \/ ch' = rest /\ urx' = [got EXCEPT !.st = "DROP_PACKET", !.cache.init = FALSE]
        \/ c.init /\ c.ip = m.src /\ ch' = rest /\ urx' = [got EXCEPT !.st = "FIRST_ACC", !.rank = c.rank]
        \/ ch' = Put(rest, "nidReq", m.src) /\ urx' = [got EXCEPT !.st = "W8FORREQS"]
    BY <2>1, <2>3, <2>5 DEF UrxMeta
  <2>7. got = [st |-> u.st, meta |-> k, src |-> m.src, rank |-> u.rank, cache |-> c]
    <3>1. PICK s, e, a, r : s = u.st /\ e = u.meta /\ a = u.src /\ r = u.rank
      OBVIOUS
    <3>2. u = [st |-> s, meta |-> e, src |-> a, rank |-> r, cache |-> c]
      BY <2>4, <3>1, Zenon
    <3>3. got = [st |-> s, meta |-> k, src |-> m.src, rank |-> r, cache |-> c]
      BY <2>5, <3>2
    <3> QED
      BY <3>1, <3>3
  <2>8. c = [c EXCEPT !.init = c.init]
    BY <2>4
  <2>9. \/ ch' = rest /\ urx' = [st |-> "DROP_PACKET", meta |-> k, src |-> m.src, rank |-> u.rank, cache |-> [c EXCEPT !.init = FALSE]]
        \/ /\ c.init /\ c.ip = m.src /\ ch' = rest
           /\ urx' = [st |-> "FIRST_ACC", meta |-> k, src |-> m.src, rank |-> c.rank, cache |-> [c EXCEPT !.init = c.init]]
        \/ /\ ch' = Put(rest, "nidReq", m.src)
           /\ urx' = [st |-> "W8FORREQS", meta |-> k, src |-> m.src, rank |-> u.rank, cache |-> [c EXCEPT !.init = c.init]]
    BY <2>6, <2>7, <2>8
  <2>10. c.init => c.init = TRUE
    BY <2>4
  <2> QED
    BY <2>1, <2>2, <2>3, <2>9, <2>10
<1>2. Recvs(g) /\ Is("uaifMeta", m) /\ g["uaifLen"] # <<>> /\ g["nidReq"] = ch["nidReq"] /\ g["nidRep"] = ch["nidRep"]
  <2>1. Recvs(g) /\ Is("uaifMeta", m) /\ \A b \in Stream : b # "uaifMeta" => g[b] = ch[b]
    BY <1>1, RecvsStart, RecvsPop DEF RecvOk, RecvStream
  <2> QED
    BY <1>1, <2>1 DEF Stream, UdpStream, NalStream
<1>3. Recvs(rest) /\ rest["nidReq"] = <<>> /\ rest["nidRep"] = <<>>
  <2>1. Recvs(rest) /\ \A b \in Stream : b # "uaifLen" => rest[b] = g[b]
    BY <1>1, <1>2, RecvsPop DEF RecvStream
  <2>2. ch["nidReq"] = <<>> /\ ch["nidRep"] = <<>>
    BY <1>1 DEF RecvOk, Asked
  <2> QED
    BY <1>2, <2>1, <2>2 DEF Stream, UdpStream, NalStream
<1>4. Recvs(ch') /\ Asked(ch["nidReq"], ch["nidRep"])'
  <2>1. CASE st2 \in {"DROP_PACKET", "FIRST_ACC"} /\ ch' = rest
    BY <1>1, <1>3, <2>1 DEF Asked
  <2>2. CASE st2 = "W8FORREQS" /\ ch' = Put(rest, "nidReq", m.src)
    <3>1. Recvs(ch') /\ ch'["nidReq"] = Append(<<>>, m.src) /\ ch'["nidRep"] = <<>>
      <4>1. Is("nidReq", m.src) /\ "nidReq" \in RecvStream
        BY MuteIs DEF Mute
      <4>2. /\ Recvs(ch') /\ ch'["nidReq"] = Append(rest["nidReq"], m.src)
            /\ \A b \in Stream : b # "nidReq" => ch'[b] = rest[b]
        BY <1>3, <2>2, <4>1, RecvsPut
      <4> QED
        BY <1>3, <4>2 DEF Stream, NalStream
    <3>2. Append(<<>>, m.src) = <<m.src>>
      OBVIOUS
    <3>3. urx'.src = m.src
      BY <1>1
    <3> QED
      BY <1>1, <2>2, <3>1, <3>2, <3>3 DEF Asked
  <2> QED
    BY <1>1, <2>1, <2>2
<1>5. OfSender(m.id, m.src)
  BY <1>2 DEF Is
<1>6. UrxLine'
  <2>1. PICK c : c = [urx.cache EXCEPT !.init = i]
    OBVIOUS
  <2>2. c = [rank |-> urx.cache.rank, ip |-> urx.cache.ip, init |-> i] /\ i \in BOOLEAN
    BY <1>1, <2>1 DEF RecvOk, UrxLine
  <2>3. c.rank = urx.cache.rank /\ c.ip = urx.cache.ip /\ c.init = i /\ c = [rank |-> c.rank, ip |-> c.ip, init |-> c.init]
    BY <2>2
  <2>4. c.init = TRUE => c.rank = NidOf(c.ip)
    BY <1>1, <2>3 DEF RecvOk, UrxLine
  <2>5. st2 = "FIRST_ACC" => r = NidOf(m.src)
    BY <1>1 DEF RecvOk, UrxLine
  <2>6. urx' = [st |-> st2, meta |-> k, src |-> m.src, rank |-> r, cache |-> c]
    BY <1>1, <2>1
  <2>7. /\ urx'.st = st2 /\ urx'.meta = k /\ urx'.src = m.src /\ urx'.rank = r /\ urx'.cache = c
        /\ urx' = [st |-> urx'.st, meta |-> urx'.meta, src |-> urx'.src, rank |-> urx'.rank, cache |-> urx'.cache]
    BY <2>6
  <2>8. OfSender(k.id, m.src)
    BY <1>1, <1>5
  <2> QED
    BY <2>2, <2>3, <2>4, <2>5, <2>7, <2>8 DEF UrxLine, OfSender, Frames, ToUoe, Sound, NidOf
<1> QED
  BY <1>1, <1>4, <1>6, UrdSame, FateKept, RecvDone DEF RecvOk

LEMMA UrxReplyKeeps ==
    ASSUME RecvOk, UrxReply, UNCHANGED work
    PROVE  RecvKept
<1>1. PICK r : r = Head(ch["nidRep"])
  OBVIOUS
<1>2. /\ ch["nidRep"] # <<>> /\ ch' = Pop(ch, "nidRep") /\ urx.st = "W8FORREQS" /\ UNCHANGED <<fate, urd>>
      /\ urx' = [urx EXCEPT !.st = "FIRST_ACC", !.rank = r, !.cache = [rank |-> r, ip |-> urx.src, init |-> TRUE]]
  BY <1>1 DEF UrxReply, Some
<1>3. ch["nidReq"] = <<>> /\ ch["nidRep"] = <<NidOf(urx.src)>>
  BY <1>2 DEF RecvOk, Asked
<1>4. r = NidOf(urx.src) /\ Tail(ch["nidRep"]) = <<>>
  <2>1. PICK n : n = NidOf(urx.src)
    OBVIOUS
  <2> QED
    BY <1>1, <1>3, <2>1
<1>5. Recvs(ch') /\ ch'["nidReq"] = <<>> /\ ch'["nidRep"] = <<>>
  BY <1>2, <1>3, <1>4, ZenonT(60), RecvsStart, RecvsPop DEF RecvOk, RecvStream, Stream, NalStream
<1>6. PICK c : c = [rank |-> r, ip |-> urx.src, init |-> TRUE]
  OBVIOUS
<1>7. /\ urx'.st = "FIRST_ACC" /\ urx'.meta = urx.meta /\ urx'.src = urx.src /\ urx'.rank = r /\ urx'.cache = c
      /\ urx' = [st |-> urx'.st, meta |-> urx'.meta, src |-> urx'.src, rank |-> urx'.rank, cache |-> urx'.cache]
  BY <1>2, <1>6 DEF RecvOk, UrxLine
<1>8. OfSender(urx.meta.id, urx.src)
  BY <1>2 DEF RecvOk, UrxLine
<1>9. UrxLine'
  BY <1>4, <1>6, <1>7, <1>8 DEF UrxLine, OfSender, Frames, ToUoe, Sound, NidOf
<1>10. Asked(ch["nidReq"], ch["nidRep"])'
  BY <1>5, <1>7 DEF Asked
<1> QED
  BY <1>2, <1>5, <1>9, <1>10, UrdSame, FateKept, RecvDone DEF RecvOk

\* A rank of the MRT is not 0, so that a sender with a rank is known.
LEMMA SenderKnown ==
    ASSUME NEW k, NEW ip, OfSender(k, ip), NidOf(ip) # 0
    PROVE  OfRole(k)
BY DEF OfSender, OfRole, ToUoe, ForRole

LEMMA RankNotZero ==
    ASSUME NEW r \in DOMAIN Mrt
    PROVE  r # 0
BY PathAssumption DEF PathAssumption

LEMMA UrxFirstKeeps ==
    ASSUME RecvOk, UrxFirst, UNCHANGED work
    PROVE  RecvKept
<1>1. urx.st = "FIRST_ACC" /\ UNCHANGED <<fate, urd>> /\ OfSender(urx.meta.id, urx.src) /\ urx.rank = NidOf(urx.src)
  BY DEF UrxFirst, RecvOk, UrxLine
<1>2. ch["nidReq"] = <<>> /\ ch["nidRep"] = <<>>
  BY <1>1 DEF RecvOk, Asked
<1>3. CASE urx' = [urx EXCEPT !.st = "DROP_PACKET", !.cache.init = FALSE] /\ UNCHANGED ch
  <2>1. PICK c : c = [urx.cache EXCEPT !.init = FALSE]
    OBVIOUS
  <2>2. c = [rank |-> urx.cache.rank, ip |-> urx.cache.ip, init |-> FALSE]
    BY <2>1 DEF RecvOk, UrxLine
  <2>3. /\ urx'.st = "DROP_PACKET" /\ urx'.meta = urx.meta /\ urx'.src = urx.src /\ urx'.rank = urx.rank /\ urx'.cache = c
        /\ urx' = [st |-> urx'.st, meta |-> urx'.meta, src |-> urx'.src, rank |-> urx'.rank, cache |-> urx'.cache]
    BY <1>3, <2>1 DEF RecvOk, UrxLine
  <2>4. c.init = FALSE /\ c = [rank |-> c.rank, ip |-> c.ip, init |-> c.init]
    BY <2>2
  <2>5. UrxLine'
    BY <1>1, <2>3, <2>4 DEF UrxLine, OfSender, Frames, ToUoe, Sound
  <2>6. Asked(ch["nidReq"], ch["nidRep"])'
    BY <1>2, <1>3, <2>3 DEF Asked
  <2>7. Recvs(ch')
    BY <1>3, RecvsStart DEF RecvOk
  <2> QED
    BY <1>1, <2>5, <2>6, <2>7, UrdSame, FateKept, RecvDone DEF RecvOk
<1>4. CASE urx.rank \in DOMAIN Mrt /\ urx' = [urx EXCEPT !.st = "ACC"]
           /\ \E p, n : ch' = Put(ch, "rxMeta", [id |-> urx.meta.id, rank |-> urx.rank, port |-> p, n |-> n])
  <2>1. PICK x : x.id = urx.meta.id /\ ch' = Put(ch, "rxMeta", x)
    <3>1. PICK p, n : ch' = Put(ch, "rxMeta", [id |-> urx.meta.id, rank |-> urx.rank, port |-> p, n |-> n])
      BY <1>4
    <3>2. [id |-> urx.meta.id, rank |-> urx.rank, port |-> p, n |-> n].id = urx.meta.id
      OBVIOUS
    <3> QED
      BY <3>1, <3>2
  <2>2. OfRole(urx.meta.id)
    BY <1>1, <1>4, RankNotZero, SenderKnown
  <2>3. Is("rxMeta", x)
    BY <2>1, <2>2 DEF Is
  <2>4. Recvs(ch') /\ ch'["nidReq"] = <<>> /\ ch'["nidRep"] = <<>>
    BY <1>2, <2>1, <2>3, RecvsStart, RecvsPut DEF RecvOk, RecvStream, Stream, NalStream
  <2>5. /\ urx'.st = "ACC" /\ urx'.meta = urx.meta /\ urx'.src = urx.src /\ urx'.rank = urx.rank /\ urx'.cache = urx.cache
        /\ urx' = [st |-> urx'.st, meta |-> urx'.meta, src |-> urx'.src, rank |-> urx'.rank, cache |-> urx'.cache]
    BY <1>4 DEF RecvOk, UrxLine
  <2>6. UrxLine'
    BY <1>1, <2>5 DEF RecvOk, UrxLine, OfSender, Frames, ToUoe, Sound, NidOf
  <2>7. Asked(ch["nidReq"], ch["nidRep"])'
    BY <2>4, <2>5 DEF Asked
  <2> QED
    BY <1>1, <2>4, <2>6, <2>7, UrdSame, FateKept, RecvDone DEF RecvOk
<1> QED
  BY <1>3, <1>4 DEF UrxFirst

LEMMA UrxDataKeeps ==
    ASSUME RecvOk, UrxData, UNCHANGED work
    PROVE  RecvKept
<1>1. PICK c, rest :
          /\ rest = Pop(ch, "uaifData") /\ ch["uaifData"] # <<>> /\ urx.st \in {"ACC", "DROP_PACKET"}
          /\ (ch' = rest \/ ch' = Put(rest, "rxData", c)) /\ UNCHANGED urd
          /\ urx' = [urx EXCEPT !.st = "W8FORMETA", !.meta = <<>>, !.src = NoIp, !.rank = 0] \/ urx' = urx
          /\ Becomes(urx.meta.id, "dropped") \/ UNCHANGED fate
  BY DEF UrxData, Some
<1>2. /\ Recvs(rest) /\ \A b \in Stream : b # "uaifData" => rest[b] = ch[b]
  BY <1>1, RecvsStart, RecvsPop DEF RecvOk, RecvStream
<1>3. Recvs(ch') /\ ch'["nidReq"] = ch["nidReq"] /\ ch'["nidRep"] = ch["nidRep"]
  <2>1. Is("rxData", c) /\ "rxData" \in RecvStream
    BY MuteIs DEF Mute
  <2>2. Recvs(Put(rest, "rxData", c)) /\ \A b \in Stream : b # "rxData" => Put(rest, "rxData", c)[b] = rest[b]
    BY <1>2, <2>1, RecvsPut
  <2>3. rest["nidReq"] = ch["nidReq"] /\ rest["nidRep"] = ch["nidRep"]
    BY <1>2 DEF Stream, NalStream
  <2>4. Put(rest, "rxData", c)["nidReq"] = rest["nidReq"] /\ Put(rest, "rxData", c)["nidRep"] = rest["nidRep"]
    BY <2>2 DEF Stream, NalStream
  <2> QED
    BY <1>1, <1>2, <2>2, <2>3, <2>4
<1>4. ch["nidReq"] = <<>> /\ ch["nidRep"] = <<>> /\ OfSender(urx.meta.id, urx.src)
  BY <1>1 DEF RecvOk, Asked, UrxLine
<1>5. UrxLine'
  <2>1. CASE urx' = urx
    BY <2>1, UrxSame DEF RecvOk
  <2>2. CASE urx' = [urx EXCEPT !.st = "W8FORMETA", !.meta = <<>>, !.src = NoIp, !.rank = 0]
    <3>1. /\ urx'.st = "W8FORMETA" /\ urx'.cache = urx.cache
          /\ urx' = [st |-> urx'.st, meta |-> urx'.meta, src |-> urx'.src, rank |-> urx'.rank, cache |-> urx'.cache]
      BY <2>2 DEF RecvOk, UrxLine
    <3> QED
      BY <3>1 DEF RecvOk, UrxLine, NidOf
  <2> QED
    BY <1>1, <2>1, <2>2
<1>6. urx'.st # "W8FORREQS"
  BY <1>1 DEF RecvOk, UrxLine
<1>7. Asked(ch["nidReq"], ch["nidRep"])'
  BY <1>3, <1>4, <1>6 DEF Asked
<1>8. FateLine'
  <2>1. OfWaste(urx.meta.id)
    <3>1. OfUdp(urx.meta.id)
      BY <1>4 DEF OfSender, OfUdp
    <3> QED
      BY <3>1, JustThen
  <2> QED
    BY <1>1, <2>1, JustThen, FateStep, FateKept DEF RecvOk
<1> QED
  BY <1>1, <1>3, <1>5, <1>7, <1>8, UrdSame, RecvDone DEF RecvOk

LEMMA UdpRxKeeps ==
    ASSUME RecvOk, UdpRx, UNCHANGED work
    PROVE  RecvKept
BY UrxInvalKeeps, UrxMetaKeeps, UrxReplyKeeps, UrxFirstKeeps, UrxDataKeeps DEF UdpRx

LEMMA UrdDeqKeeps ==
    ASSUME RecvOk, UrdDeq, UNCHANGED work
    PROVE  RecvKept
<1>1. PICK m, w, rest :
          /\ m = (IF urd.st = "WAIT_META" THEN Head(ch["rxMeta"]) ELSE urd.meta) /\ rest = Pop(ch, "rxData")
          /\ ch["rxData"] # <<>> /\ (urd.st = "WAIT_META" => ch["rxMeta"] # <<>>) /\ urx' = urx
          /\ ch' = IF urd.st = "WAIT_META" THEN Pop(rest, "rxMeta") ELSE rest
          /\ urd' = NoGet \/ urd' = [st |-> "STREAM_DATA", meta |-> m, w |-> w]
          /\ Becomes(m.id, "dropped") \/ Becomes(m.id, "delivered") \/ UNCHANGED fate
  BY DEF UrdDeq, Some
<1>2. Recvs(rest) /\ \A b \in Stream : b # "rxData" => rest[b] = ch[b]
  BY <1>1, RecvsStart, RecvsPop DEF RecvOk, RecvStream
<1>3. /\ Recvs(ch') /\ OfRole(m.id) /\ ch'["nidReq"] = ch["nidReq"] /\ ch'["nidRep"] = ch["nidRep"]
  <2>1. rest["rxMeta"] = ch["rxMeta"] /\ rest["nidReq"] = ch["nidReq"] /\ rest["nidRep"] = ch["nidRep"]
    BY <1>2 DEF Stream, NalStream
  <2>2. CASE urd.st = "WAIT_META"
    <3>1. /\ Recvs(Pop(rest, "rxMeta")) /\ Is("rxMeta", Head(rest["rxMeta"]))
          /\ \A b \in Stream : b # "rxMeta" => Pop(rest, "rxMeta")[b] = rest[b]
      BY <1>1, <1>2, <2>1, <2>2, RecvsPop DEF RecvStream
    <3> QED
      BY <1>1, <2>1, <2>2, <3>1 DEF Is, Stream, NalStream
  <2>3. CASE urd.st # "WAIT_META"
    BY <1>1, <1>2, <2>1, <2>3 DEF RecvOk, UrdLine
  <2> QED
    BY <2>2, <2>3
<1>4. UrdLine'
  BY <1>1, <1>3 DEF UrdLine, OfRole, Frames, ToUoe, ForRole, Sound, NidOf, NoGet
<1>5. Asked(ch["nidReq"], ch["nidRep"])'
  BY <1>1, <1>3 DEF RecvOk, Asked, NidOf
<1>6. FateLine'
  <2>1. OfWaste(m.id)
    BY <1>3, JustThen
  <2> QED
    BY <1>1, <1>3, <2>1, JustThen, FateStep, FateKept DEF RecvOk
<1> QED
  BY <1>1, <1>3, <1>4, <1>5, <1>6, UrxSame, RecvDone DEF RecvOk

LEMMA MrtKeeps ==
    ASSUME RecvOk, MrtAnswer, UNCHANGED work
    PROVE  RecvKept
<1>1. UNCHANGED <<fate, urx, urd>>
  BY DEF MrtAnswer, nal
<1>2. FateLine' /\ UrxLine' /\ UrdLine'
  BY <1>1, FateKept, UrxSame, UrdSame DEF RecvOk
<1>3. CASE \E x : Pass("ipReq", "ipRep", x)
  <2>1. PICK x : ch["ipReq"] # <<>> /\ ch' = Put(Pop(ch, "ipReq"), "ipRep", x)
    BY <1>3 DEF Pass, Some
  <2>2. PICK rest : rest = Pop(ch, "ipReq")
    OBVIOUS
  <2>3. Recvs(rest) /\ rest["nidReq"] = ch["nidReq"] /\ rest["nidRep"] = ch["nidRep"]
    BY <2>1, <2>2, RecvsStart, RecvsPop DEF RecvOk, RecvStream, Stream, NalStream
  <2>4. Is("ipRep", x) /\ "ipRep" \in RecvStream
    BY MuteIs DEF Mute
  <2>5. Recvs(ch') /\ ch'["nidReq"] = ch["nidReq"] /\ ch'["nidRep"] = ch["nidRep"]
    BY <2>1, <2>2, <2>3, <2>4, RecvsPut DEF Stream, NalStream
  <2>6. Asked(ch["nidReq"], ch["nidRep"])'
    BY <1>1, <2>5 DEF RecvOk, Asked, NidOf
  <2> QED
    BY <1>2, <2>5, <2>6, RecvDone
<1>4. CASE Pass("nidReq", "nidRep", NidOf(Head(ch["nidReq"])))
  <2>1. PICK ip, n, rest : ip = Head(ch["nidReq"]) /\ n = NidOf(ip) /\ rest = Pop(ch, "nidReq")
    OBVIOUS
  <2>2. ch["nidReq"] # <<>> /\ ch' = Put(rest, "nidRep", n)
    BY <1>4, <2>1 DEF Pass, Some
  <2>3. urx.st = "W8FORREQS" /\ ch["nidReq"] = <<urx.src>> /\ ch["nidRep"] = <<>>
    BY <2>2 DEF RecvOk, Asked
  <2>4. ip = urx.src /\ Tail(ch["nidReq"]) = <<>> /\ Append(<<>>, n) = <<n>>
    <3>1. PICK s : s = urx.src
      OBVIOUS
    <3> QED
      BY <2>1, <2>3, <3>1
  <2>5. Recvs(rest) /\ rest["nidReq"] = <<>> /\ rest["nidRep"] = <<>>
    BY ZenonT(40), <2>1, <2>2, <2>3, <2>4, RecvsStart, RecvsPop DEF RecvOk, RecvStream, Stream, NalStream
  <2>6. Is("nidRep", n) /\ "nidRep" \in RecvStream
    BY MuteIs DEF Mute
  <2>7. Recvs(ch') /\ ch'["nidReq"] = <<>> /\ ch'["nidRep"] = <<n>>
    <3>1. Recvs(ch') /\ ch'["nidRep"] = Append(rest["nidRep"], n) /\ \A b \in Stream : b # "nidRep" => ch'[b] = rest[b]
      BY <2>2, <2>5, <2>6, RecvsPut
    <3> QED
      BY <2>4, <2>5, <3>1 DEF Stream, NalStream
  <2>8. Asked(ch["nidReq"], ch["nidRep"])'
    BY <1>1, <2>1, <2>3, <2>4, <2>7 DEF Asked, NidOf
  <2> QED
    BY <1>2, <2>7, <2>8, RecvDone
<1> QED
  BY <1>3, <1>4 DEF MrtAnswer

-----------------------------------------------------------------------------
(* Ports, the wire, TOE and the role *)

OtherStream == {"toOpen", "opened", "toClose", "lsnReq", "lsnRep", "clsReq", "clsRep", "portReq", "portRep",
                "ethOut", "eth", "toe", "inval0", "inval1"}
Wordless == {"toOpen", "opened", "toClose", "lsnReq", "lsnRep", "clsReq", "clsRep", "portReq", "portRep", "inval0", "inval1"}
Others(g) == Kinds(g) /\ SameBut(OtherStream, ch, g)
OtherKept == FateLine' /\ Others(ch')
UptIs == upt.st \in {"WAIT4REQ", "portReq", "lsnReq", "clsReq"} /\ upt = [st |-> upt.st, req |-> upt.req, open |-> upt.open]

LEMMA OthersPut ==
    ASSUME NEW g, Others(g), NEW c \in OtherStream, NEW x, Is(c, x)
    PROVE  Others(Put(g, c, x))
<1>1. c \in Stream
  BY DEF OtherStream, Stream, IpStream, UdpStream, NalStream
<1> QED
  BY <1>1, PutFits, PutSame DEF Others

LEMMA OthersPop ==
    ASSUME NEW g, Others(g), NEW c \in OtherStream, g[c] # <<>>
    PROVE  Others(Pop(g, c)) /\ Is(c, Head(g[c]))
<1>1. c \in Stream
  BY DEF OtherStream, Stream, IpStream, UdpStream, NalStream
<1> QED
  BY <1>1, PopFits, PopSame DEF Others

LEMMA WordlessPut ==
    ASSUME NEW g, Others(g), NEW c \in Wordless, NEW x
    PROVE  Others(Put(g, c, x))
<1>1. c \in OtherStream /\ Is(c, x)
  BY DEF Wordless, OtherStream, Is
<1> QED
  BY <1>1, OthersPut

LEMMA WordlessPop ==
    ASSUME NEW g, Others(g), NEW c \in Wordless, g[c] # <<>>
    PROVE  Others(Pop(g, c))
<1>1. c \in OtherStream
  BY DEF Wordless, OtherStream
<1> QED
  BY <1>1, OthersPop

LEMMA OthersStart ==
    ASSUME Kinds(ch)
    PROVE  Others(ch)
BY SameStart DEF Others

LEMMA PortsKeep ==
    ASSUME OutOk, UptIs, PortLogic \/ UdpLsn \/ UdpCls \/ UptTake \/ UptReply, UNCHANGED work
    PROVE  OtherKept
<1>1. UNCHANGED fate
  BY DEF PortLogic, PrtIdle, PrtClose, PrtRequest, PrtReply, PrtRest, UdpLsn, LsnRequest, LsnReply, LsnTimeout, UdpCls,
         UptTake, UptReply, Quiet
<1>2. Others(ch)
  BY OthersStart DEF OutOk
<1>3. \/ ch' = ch
      \/ \E c \in Wordless : \E x : ch' = Put(ch, c, x)
      \/ \E c \in Wordless : ch[c] # <<>> /\ ch' = Pop(ch, c)
      \/ \E c, d \in Wordless : \E x : ch[c] # <<>> /\ ch' = Put(Pop(ch, c), d, x)
  <2>1. CASE PortLogic
    BY <2>1 DEF PortLogic, PrtIdle, PrtClose, PrtRequest, PrtReply, Some, Wordless
  <2>2. CASE UdpLsn
    <3>1. CASE LsnRequest
      BY <3>1 DEF LsnRequest, Some, Wordless
    <3>2. CASE LsnReply
      BY <3>2 DEF LsnReply, Pass, Some, Wordless
    <3>3. CASE LsnTimeout
      BY <3>3 DEF LsnTimeout, Wordless
    <3> QED
      BY <2>2, <3>1, <3>2, <3>3 DEF UdpLsn
  <2>3. CASE UdpCls
    BY <2>3 DEF UdpCls, Some, Wordless
  <2>4. CASE UptTake
    <3>1. PICK c \in {"portReq", "lsnReq", "clsReq"} : ch[c] # <<>> /\ ch' = Pop(ch, c)
      BY <2>4 DEF UptTake, Some
    <3> QED
      BY <3>1 DEF Wordless
  <2>5. CASE UptReply
    <3>1. PICK st, x : /\ st = upt.st
                       /\ ch' = Put(ch, [portReq |-> "portRep", lsnReq |-> "lsnRep", clsReq |-> "clsRep"][st], x)
      BY <2>5 DEF UptReply
    <3>2. st \in {"portReq", "lsnReq", "clsReq"}
      BY <2>5, <3>1 DEF UptReply, UptIs
    <3>3. [portReq |-> "portRep", lsnReq |-> "lsnRep", clsReq |-> "clsRep"][st] \in Wordless
      BY <3>2 DEF Wordless
    <3> QED
      BY <3>1, <3>3
  <2> QED
    BY <2>1, <2>2, <2>3, <2>4, <2>5
<1>4. Others(ch')
  BY <1>2, <1>3, WordlessPut, WordlessPop
<1> QED
  BY <1>1, <1>4, FateKept DEF OutOk, OtherKept

LEMMA WireKeeps ==
    ASSUME OutOk, Wire, UNCHANGED work
    PROVE  OtherKept
<1>1. PICK p, rest : p = Head(ch["ethOut"]) /\ rest = Pop(ch, "ethOut")
  OBVIOUS
<1>2. ch["ethOut"] # <<>>
  BY DEF Wire, Some
<1>3. Others(rest) /\ Is("ethOut", p)
  BY <1>1, <1>2, OthersStart, OthersPop DEF OutOk, OtherStream
<1>4. OfReply(p.id)
  BY <1>3 DEF Is
<1>5. CASE p.kind = "udp"
  <2>1. ch' = rest /\ (Becomes(p.id, "sent") \/ UNCHANGED fate)
    BY <1>1, <1>5 DEF Wire
  <2>2. FateLine'
    BY <2>1, JustThen, FateStep, FateKept DEF OutOk
  <2> QED
    BY <1>3, <2>1, <2>2 DEF OtherKept
<1>6. CASE p.kind = "arp" /\ p.body = <<"request">>
  <2>1. ch' = Put(rest, "eth", ArpReply(p.dst)) /\ UNCHANGED fate
    BY <1>1, <1>6 DEF Wire
  <2>2. Is("eth", ArpReply(p.dst))
    BY DEF Is, Came, ArpReply
  <2> QED
    BY <1>3, <2>1, <2>2, OthersPut, FateKept DEF OutOk, OtherKept, OtherStream
<1>7. CASE p.kind # "udp" /\ ~(p.kind = "arp" /\ p.body = <<"request">>)
  <2>1. ch' = rest /\ (Becomes(p.id, "sent") \/ Becomes(p.id, "answered"))
    BY <1>1, <1>7 DEF Wire
  <2>2. FateLine'
    BY <1>4, <2>1, JustThen, FateStep DEF OutOk
  <2> QED
    BY <1>3, <2>1, <2>2 DEF OtherKept
<1> QED
  BY <1>5, <1>6, <1>7

LEMMA ToeKeeps ==
    ASSUME OutOk, ToeTake, UNCHANGED work
    PROVE  OtherKept
<1>1. PICK p : p = Head(ch["toe"])
  OBVIOUS
<1>2. ch["toe"] # <<>> /\ ch' = Pop(ch, "toe") /\ Becomes(p.id, "delivered")
  BY <1>1 DEF ToeTake, Some
<1>3. Others(ch') /\ Is("toe", p)
  BY <1>1, <1>2, OthersStart, OthersPop DEF OutOk, OtherStream
<1>4. OfTcp(p.id)
  BY <1>3, TrimmedSays DEF Is, OutOk, FateLine
<1>5. FateLine'
  BY <1>2, <1>4, JustThen, FateStep DEF OutOk
<1> QED
  BY <1>3, <1>5 DEF OtherKept

LEMMA RoleKeeps ==
    ASSUME OutOk, RoleLeaves \/ RoleArrives, UNCHANGED work
    PROVE  OtherKept
<1>1. UNCHANGED fate
  BY DEF RoleLeaves, RoleArrives
<1>2. Others(ch)
  BY OthersStart DEF OutOk
<1>3. ch' = ch \/ \E x, y : ch' = Put(Put(ch, "inval0", x), "inval1", y)
  BY DEF RoleLeaves, RoleArrives
<1>4. Others(ch')
  BY <1>2, <1>3, WordlessPut DEF Wordless
<1> QED
  BY <1>1, <1>4, FateKept DEF OutOk, OtherKept

-----------------------------------------------------------------------------
(* The datagrams that pIpHeaderStripper takes, and the chunks of each *)

Half(n) == (n + 1) \div 2

LEMMA HalfIs ==
    ASSUME NEW n \in Nat
    PROVE  Half(n) \in Nat /\ (2 * Half(n) = n \/ 2 * Half(n) = n + 1)
BY DEF Half

LEMMA CatIs ==
    ASSUME NEW S, NEW s \in Seq(S), NEW t \in Seq(S)
    PROVE  /\ s \o t \in Seq(S) /\ Len(s \o t) = Len(s) + Len(t) /\ Len(s) \in Nat /\ Len(t) \in Nat
           /\ \A i \in 1..Len(s) : (s \o t)[i] = s[i]
           /\ \A i \in 1..Len(t) : (s \o t)[Len(s) + i] = t[i]
<1>1. s \o t \in Seq(S) /\ Len(s \o t) = Len(s) + Len(t) /\ Len(s) \in Nat /\ Len(t) \in Nat
  OBVIOUS
<1>2. \A i \in 1..Len(s) : (s \o t)[i] = s[i]
  OBVIOUS
<1>3. \A i \in 1..Len(t) : (s \o t)[Len(s) + i] = t[i]
  OBVIOUS
<1> QED
  BY <1>1, <1>2, <1>3

Dgram(p) == Datagram(p.id, p.port, p.csum, p.n)
Good(p) == p \in FrameType /\ p.ttl # 1 /\ p.proto = "udp" /\ p.n > 0

\* What is in a packet: the header, and behind it the datagram.
LEMMA PacketIs ==
    ASSUME NEW p, Good(p)
    PROVE  /\ p.n \in Nat \ {0} /\ p.ihl \in 5..15
           /\ Len(Dgram(p)) = p.n + 2 /\ Len(Words(p)) = p.ihl + p.n + 2
           /\ IsSeq(Dgram(p)) /\ IsSeq(Words(p))
           /\ Dgram(p)[1] = <<p.id, "ports", p.port>> /\ Dgram(p)[2] = <<p.id, p.csum, p.n>>
           /\ \A j \in 1 .. p.n + 2 : Words(p)[p.ihl + j] = Dgram(p)[j]
           /\ HdrChunks(p) = Half(p.ihl) /\ Chunks(Dgram(p)) = Half(p.n + 2) /\ Chunks(Words(p)) = Half(p.ihl + p.n + 2)
<1>1. PICK k, n, h, o, s : k = p.id /\ n = p.n /\ h = p.ihl /\ o = p.port /\ s = p.csum
  OBVIOUS
<1>2. n \in Nat \ {0} /\ h \in 5..15
  BY <1>1 DEF Good, FrameType
<1>3. PICK d : d = Data(k, n)
  OBVIOUS
<1>4. d = [i \in 1..n |-> <<k, "data", i>>]
  BY <1>3 DEF Data
<1>5. PICK S : S = {d[i] : i \in 1..n} \cup {<<k, "ports", o>>, <<k, s, n>>}
  OBVIOUS
<1>6. \A i \in 1..n : d[i] \in S
  BY <1>5
<1>7. d \in Seq(S) /\ Len(d) = n
  BY <1>2, <1>4, <1>6
<1>8. PICK e : e = <<<<k, "ports", o>>, <<k, s, n>>>>
  OBVIOUS
<1>9. e \in Seq(S) /\ Len(e) = 2 /\ e[1] = <<k, "ports", o>> /\ e[2] = <<k, s, n>>
  BY <1>5, <1>8
<1>10. PICK D : D = e \o d
  OBVIOUS
<1>23. /\ D \in Seq(S) /\ Len(D) = Len(e) + Len(d)
       /\ \A i \in 1..Len(e) : D[i] = e[i]
  BY <1>7, <1>9, <1>10, CatIs
<1>24. D \in Seq(S) /\ Len(D) = n + 2
  BY <1>2, <1>7, <1>9, <1>23
<1>25. D[1] = e[1] /\ D[2] = e[2]
  BY <1>9, <1>23
<1>11. D \in Seq(S) /\ Len(D) = n + 2 /\ D[1] = e[1] /\ D[2] = e[2]
  BY <1>2, <1>24, <1>25
<1>12. Dgram(p) = D
  BY <1>1, <1>3, <1>8, <1>10 DEF Dgram, Datagram
<1>13. PICK H : H = [i \in 1..h |-> <<k, "ip", i>>]
  OBVIOUS
<1>14. PICK T : T = S \cup {H[i] : i \in 1..h}
  OBVIOUS
<1>15. \A i \in 1..h : H[i] \in T
  BY <1>14
<1>16. H \in Seq(T) /\ Len(H) = h
  BY <1>2, <1>13, <1>15
<1>17. D \in Seq(T)
  BY <1>11, <1>14
<1>18. PICK W : W = H \o D
  OBVIOUS
<1>21. W \in Seq(T)
  BY <1>16, <1>17, <1>18
<1>22. IsSeq(D) /\ IsSeq(W)
  BY <1>11, <1>21, SeqIs
<1>19. Len(W) = h + n + 2 /\ \A j \in 1 .. n + 2 : W[h + j] = D[j]
  BY <1>2, <1>11, <1>16, <1>17, <1>18
<1>20. Words(p) = W
  BY <1>1, <1>12, <1>13, <1>18 DEF Words, Dgram
<1> QED
  BY <1>1, <1>2, <1>9, <1>11, <1>12, <1>19, <1>20, <1>22 DEF HdrChunks, Chunks, Half

\* Chunk j of w: two elements, or the last one.
IsCut(c, w, j) ==
    /\ IsSeq(c) /\ Len(c) = IF 2 * j <= Len(w) THEN 2 ELSE 1
    /\ c[1] = w[2 * j - 1] /\ (2 * j <= Len(w) => c[2] = w[2 * j])

LEMMA CutIs ==
    ASSUME NEW w, IsSeq(w), NEW j \in Nat \ {0}, 2 * j - 1 <= Len(w)
    PROVE  IsCut(Cut(w, j), w, j)
<1>1. PICK S, m, n : S = Elems(w) /\ m = 2 * j /\ n = Len(w)
  OBVIOUS
<1>2. w \in Seq(S) /\ m - 1 \in 1..n /\ n \in Nat /\ m \in Nat
  BY <1>1 DEF IsSeq
<1>3. PICK e : e = IF m < n THEN m ELSE n
  OBVIOUS
<1>4. PICK c : c = SubSeq(w, m - 1, e)
  OBVIOUS
<1>5. e \in Nat /\ e <= n /\ e >= m - 1 /\ (m <= n => e = m) /\ (m > n => e = m - 1)
  BY <1>2, <1>3
<1>6. c \in Seq(S) /\ Len(c) = e - (m - 1) + 1 /\ \A i \in 1 .. e - (m - 1) + 1 : c[i] = w[m - 1 + i - 1]
  BY <1>1, <1>2, <1>4, <1>5
<1>7. Cut(w, j) = c
  BY <1>1, <1>3, <1>4 DEF Cut
<1>8. IsSeq(c)
  BY <1>6, SeqIs
<1>9. Len(c) = IF m <= n THEN 2 ELSE 1
  BY <1>2, <1>5, <1>6
<1>10. c[1] = w[m - 1] /\ (m <= n => c[2] = w[m])
  BY <1>2, <1>5, <1>6
<1> QED
  BY <1>1, <1>7, <1>8, <1>9, <1>10 DEF IsCut

\* The chunk of a packet in which its header ends.
LEMMA HeaderEnds ==
    ASSUME NEW p, Good(p)
    PROVE  /\ HdrChunks(p) \in Nat /\ HdrChunks(p) >= 3 /\ HdrChunks(p) < Chunks(Words(p)) /\ Chunks(Words(p)) \in Nat
           /\ Chunks(Dgram(p)) \in Nat /\ Chunks(Dgram(p)) >= 2
           /\ p.ihl % 2 = 1 => Cut(Words(p), HdrChunks(p))[2] = Dgram(p)[1]
<1>1. PICK k, n, h, c, d : k = p.ihl /\ n = p.n /\ h = HdrChunks(p) /\ c = Chunks(Words(p)) /\ d = Chunks(Dgram(p))
  OBVIOUS
<1>2. n \in Nat \ {0} /\ k \in 5..15 /\ h = Half(k) /\ d = Half(n + 2) /\ c = Half(k + n + 2)
  BY <1>1, PacketIs
<1>3. /\ h \in Nat /\ (2 * h = k \/ 2 * h = k + 1)
      /\ d \in Nat /\ (2 * d = n + 2 \/ 2 * d = n + 3)
      /\ c \in Nat /\ (2 * c = k + n + 2 \/ 2 * c = k + n + 3)
  <2>1. k \in Nat /\ n + 2 \in Nat /\ k + n + 2 \in Nat
    BY <1>2
  <2> QED
    BY <1>2, <2>1, HalfIs
<1>4. h >= 3 /\ h < c /\ d >= 2
  BY <1>2, <1>3
<1>5. ASSUME k % 2 = 1
      PROVE  Cut(Words(p), h)[2] = Dgram(p)[1]
  <2>1. 2 * h = k + 1
    BY <1>2, <1>3, <1>5
  <2>2. IsSeq(Words(p)) /\ Len(Words(p)) = k + n + 2 /\ Words(p)[k + 1] = Dgram(p)[1]
    BY <1>1, <1>2, PacketIs
  <2>3. h \in Nat \ {0} /\ 2 * h - 1 <= Len(Words(p)) /\ 2 * h <= Len(Words(p))
    BY <1>2, <1>3, <2>1, <2>2
  <2>4. IsCut(Cut(Words(p), h), Words(p), h)
    BY <2>2, <2>3, CutIs
  <2> QED
    BY <2>1, <2>2, <2>3, <2>4 DEF IsCut
<1> QED
  BY <1>1, <1>3, <1>4, <1>5

\* Behind the header: chunk i + 1 of the packet, and chunk j of the datagram.
LEMMA Realigned ==
    ASSUME NEW p, Good(p), NEW i \in Nat, i >= HdrChunks(p), i < Chunks(Words(p)),
           NEW w, w = Cut(Words(p), i + 1), NEW j, j = i - HdrChunks(p) + 1, NEW d, d = Dgram(p), NEW e, e = Chunks(Dgram(p))
    PROVE  /\ j \in 1..e /\ IsSeq(w) /\ Len(w) \in {1, 2}
           /\ p.ihl % 2 = 0 => IsCut(w, d, j) /\ (i + 1 = Chunks(Words(p)) <=> j = e)
           /\ p.ihl % 2 = 1 =>
                 /\ 2 * j <= Len(d) /\ w[1] = d[2 * j]
                 /\ Len(w) = 2 => w[2] = d[2 * j + 1] /\ j + 1 \in 1..e
                 /\ i + 1 # Chunks(Words(p)) => Len(w) = 2
                 /\ i + 1 = Chunks(Words(p)) /\ Len(w) = 1 => j = e
                 /\ i + 1 = Chunks(Words(p)) /\ Len(w) = 2 => j + 1 = e /\ 2 * e > Len(d)
                 /\ Len(w) = 1 => i + 1 = Chunks(Words(p))
<1>1. PICK k, n, h, c : k = p.ihl /\ n = p.n /\ h = HdrChunks(p) /\ c = Chunks(Words(p))
  OBVIOUS
<1>2. n \in Nat \ {0} /\ k \in 5..15 /\ h = Half(k) /\ e = Half(n + 2) /\ c = Half(k + n + 2)
  BY <1>1, PacketIs
<1>3. /\ h \in Nat /\ (2 * h = k \/ 2 * h = k + 1)
      /\ e \in Nat /\ (2 * e = n + 2 \/ 2 * e = n + 3)
      /\ c \in Nat /\ (2 * c = k + n + 2 \/ 2 * c = k + n + 3)
  <2>1. k \in Nat /\ n + 2 \in Nat /\ k + n + 2 \in Nat
    BY <1>2
  <2> QED
    BY <1>2, <2>1, HalfIs
<1>4. PICK v : v = Words(p)
  OBVIOUS
<1>5. IsSeq(v) /\ Len(v) = k + n + 2 /\ Len(d) = n + 2 /\ \A m \in 1 .. n + 2 : v[k + m] = d[m]
  BY <1>1, <1>4, PacketIs
<1>6. j = i - h + 1 /\ i >= h /\ i < c
  BY <1>1
<1>7. IsCut(w, v, i + 1)
  <2>1. i + 1 \in Nat \ {0} /\ 2 * (i + 1) - 1 <= Len(v)
    BY SMTT(40), <1>2, <1>3, <1>5, <1>6
  <2> QED
    BY <1>4, <1>5, <2>1, CutIs
<1>8. /\ IsSeq(w) /\ Len(w) = IF 2 * (i + 1) <= k + n + 2 THEN 2 ELSE 1
      /\ w[1] = v[2 * (i + 1) - 1] /\ (2 * (i + 1) <= k + n + 2 => w[2] = v[2 * (i + 1)])
  BY <1>5, <1>7 DEF IsCut
<1>9. ASSUME k % 2 = 0
      PROVE  j \in 1..e /\ IsCut(w, d, j) /\ (i + 1 = c <=> j = e)
  <2>1. 2 * h = k
    BY <1>2, <1>3, <1>9
  <2>2. 2 * (i + 1) - 1 = k + (2 * j - 1) /\ 2 * (i + 1) = k + 2 * j
    BY <1>2, <1>3, <1>6, <2>1
  <2>3. j \in 1..e /\ (i + 1 = c <=> j = e) /\ 2 * j - 1 \in 1 .. n + 2
    BY <1>2, <1>3, <1>6, <2>1
  <2>4. w[1] = d[2 * j - 1]
    BY <1>5, <1>8, <2>2, <2>3
  <2>5. Len(w) = IF 2 * j <= Len(d) THEN 2 ELSE 1
    BY SMTT(40), <1>2, <1>5, <1>8, <2>2, <2>3
  <2>6. 2 * j <= Len(d) => w[2] = d[2 * j]
    <3>1. ASSUME 2 * j <= n + 2
          PROVE  w[2] = d[2 * j]
      <4>1. 2 * j \in 1 .. n + 2 /\ 2 * (i + 1) <= k + n + 2
        BY <1>2, <2>2, <2>3, <3>1
      <4> QED
        BY <1>5, <1>8, <2>2, <4>1
    <3> QED
      BY <1>5, <3>1
  <2> QED
    BY <1>8, <2>3, <2>4, <2>5, <2>6 DEF IsCut
<1>10. ASSUME k % 2 = 1
       PROVE  /\ j \in 1..e /\ 2 * j <= Len(d) /\ w[1] = d[2 * j]
              /\ Len(w) = 2 => w[2] = d[2 * j + 1] /\ j + 1 \in 1..e
              /\ i + 1 # c => Len(w) = 2
              /\ i + 1 = c /\ Len(w) = 1 => j = e
              /\ i + 1 = c /\ Len(w) = 2 => j + 1 = e /\ 2 * e > Len(d)
              /\ Len(w) = 1 => i + 1 = c
  <2>1. 2 * h = k + 1
    BY <1>2, <1>3, <1>10
  <2>2. 2 * (i + 1) - 1 = k + 2 * j /\ 2 * (i + 1) = k + (2 * j + 1)
    BY <1>2, <1>3, <1>6, <2>1
  <2>3. 2 * j \in 1 .. n + 2 /\ j \in 1..e
    BY <1>2, <1>3, <1>6, <2>1
  <2>4. w[1] = d[2 * j]
    BY <1>5, <1>8, <2>2, <2>3
  <2>5. Len(w) = IF 2 * j + 1 <= n + 2 THEN 2 ELSE 1
    BY SMTT(40), <1>2, <1>8, <2>2, <2>3
  <2>6. 2 * j + 1 <= n + 2 => w[2] = d[2 * j + 1]
    <3>1. ASSUME 2 * j + 1 <= n + 2
          PROVE  w[2] = d[2 * j + 1]
      <4>1. 2 * j + 1 \in 1 .. n + 2 /\ 2 * (i + 1) <= k + n + 2
        BY <1>2, <2>2, <2>3, <3>1
      <4> QED
        BY <1>5, <1>8, <2>2, <4>1
    <3> QED
      BY <3>1
  <2>7. i + 1 # c => 2 * j + 1 <= n + 2
    BY <1>2, <1>3, <1>6, <2>1
  <2>8. i + 1 = c => (2 * j + 1 <= n + 2 => j + 1 = e /\ 2 * e > n + 2) /\ (2 * j + 1 > n + 2 => j = e)
    BY <1>2, <1>3, <1>6, <2>1
  <2>9. 2 * j + 1 <= n + 2 => j + 1 \in 1..e
    BY <1>2, <1>3, <1>6, <2>1
  <2>11. /\ i + 1 # c => Len(w) = 2
         /\ i + 1 = c /\ Len(w) = 1 => j = e
         /\ i + 1 = c /\ Len(w) = 2 => j + 1 = e /\ 2 * e > n + 2
         /\ Len(w) = 1 => i + 1 = c
    <3>1. CASE 2 * j + 1 <= n + 2
      BY <2>5, <2>8, <3>1
    <3>2. CASE ~(2 * j + 1 <= n + 2)
      <4>1. Len(w) = 1
        BY <2>5, <3>2
      <4>2. i + 1 = c => j = e
        BY <1>2, <2>3, <2>8, <3>2
      <4> QED
        BY <2>7, <3>2, <4>1, <4>2
    <3> QED
      BY <3>1, <3>2
  <2>12. Len(w) = 2 => w[2] = d[2 * j + 1] /\ j + 1 \in 1..e
    BY <2>5, <2>6, <2>9
  <2> QED
    BY <1>2, <1>5, <2>3, <2>4, <2>11, <2>12
<1>11. k % 2 = 0 \/ k % 2 = 1
  BY <1>2
<1> QED
  BY <1>1, <1>8, <1>9, <1>10, <1>11

-----------------------------------------------------------------------------
(* Streams of chunks.  q[k] is the packet of number k, and a position is that *)
(* of a chunk: the number of the packet, and that of the chunk in it.          *)

Pos == Nat \X (Nat \ {0})
Before(x, y) == x[1] < y[1] \/ (x[1] = y[1] /\ x[2] < y[2])
Size(t, p) == IF t = "hdr" THEN HdrChunks(p) ELSE Chunks(Dgram(p))
Nx(t, q, x) == IF x[2] = Size(t, q[x[1]]) THEN <<x[1] + 1, 1>> ELSE <<x[1], x[2] + 1>>

\* x is chunk i of the header of packet p, or of its datagram.
Says(t, x, p, i) ==
    /\ Good(p) /\ i \in 1..Size(t, p) /\ x.last \in BOOLEAN /\ (x.last <=> i = Size(t, p))
    /\ t = "hdr" => x.id = p.id /\ x.i = i /\ x.src = p.src
    /\ t = "dgram" => IsCut(x.w, Dgram(p), i)

\* The chunks from position lo up to hi.
Places(t, s, q, hi, a) ==
    \A j \in 1..Len(s) : Says(t, s[j], q[a[j][1]], a[j][2]) /\ a[j + 1] = Nx(t, q, a[j]) /\ Before(a[j], hi)
Line(t, s, q, lo, hi) ==
    \E a \in [Nat -> Pos] : a[1] = lo /\ a[Len(s) + 1] = hi /\ Places(t, s, q, hi, a)

LEMMA NxIs ==
    ASSUME NEW t, NEW q, NEW x \in Pos
    PROVE  Nx(t, q, x) \in Pos /\ Before(x, Nx(t, q, x)) /\ \A y \in Pos : Before(y, x) => Before(y, Nx(t, q, x))
BY DEF Nx, Pos, Before

LEMMA LineEmpty ==
    ASSUME NEW t, NEW q, NEW x \in Pos
    PROVE  Line(t, <<>>, q, x, x)
<1>1. PICK a : a = [j \in Nat |-> x]
  OBVIOUS
<1>2. a \in [Nat -> Pos] /\ a[1] = x /\ Len(<<>>) = 0
  BY <1>1
<1>3. Places(t, <<>>, q, x, a)
  BY <1>2 DEF Places
<1> QED
  BY <1>2, <1>3 DEF Line

LEMMA LineOrder ==
    ASSUME NEW t, NEW s, NEW q, NEW lo, NEW hi, Line(t, s, q, lo, hi), IsSeq(s)
    PROVE  lo \in Pos /\ hi \in Pos /\ (lo = hi \/ Before(lo, hi)) /\ (s # <<>> => Before(lo, hi))
<1>1. PICK a \in [Nat -> Pos] : a[1] = lo /\ a[Len(s) + 1] = hi /\ Places(t, s, q, hi, a)
  BY DEF Line
<1>2. Len(s) \in Nat /\ (s # <<>> => Len(s) > 0)
  BY DEF IsSeq
<1>3. lo \in Pos /\ hi \in Pos
  BY <1>1, <1>2
<1>4. CASE Len(s) = 0
  BY <1>1, <1>2, <1>3, <1>4
<1>5. CASE Len(s) > 0
  <2>1. 1 \in 1..Len(s)
    BY <1>2, <1>5
  <2> QED
    BY <1>1, <1>3, <2>1 DEF Places
<1> QED
  BY <1>2, <1>4, <1>5

LEMMA LinePut ==
    ASSUME NEW t, NEW s, NEW q, NEW lo, NEW hi, Line(t, s, q, lo, hi), IsSeq(s),
           NEW x, Says(t, x, q[hi[1]], hi[2])
    PROVE  Line(t, Append(s, x), q, lo, Nx(t, q, hi))
<1>1. PICK a \in [Nat -> Pos] : a[1] = lo /\ a[Len(s) + 1] = hi /\ Places(t, s, q, hi, a)
  BY DEF Line
<1>2. PICK r : r = Append(s, x)
  OBVIOUS
<1>3. Len(r) = Len(s) + 1 /\ Len(s) \in Nat /\ (\A i \in 1..Len(s) : r[i] = s[i]) /\ r[Len(s) + 1] = x
  BY <1>2, AppendIs
<1>4. PICK n, h : n = Len(s) /\ h = Nx(t, q, hi)
  OBVIOUS
<1>5. hi \in Pos /\ h \in Pos /\ Before(hi, h) /\ \A y \in Pos : Before(y, hi) => Before(y, h)
  BY <1>1, <1>3, <1>4, NxIs
<1>6. PICK b : b = [j \in Nat |-> IF j = n + 2 THEN h ELSE a[j]]
  OBVIOUS
<1>7. b \in [Nat -> Pos] /\ b[n + 2] = h /\ (\A j \in 1 .. n + 1 : b[j] = a[j]) /\ n \in Nat
  BY <1>3, <1>4, <1>5, <1>6
<1>8. ASSUME NEW j \in 1..Len(r)
      PROVE  Says(t, r[j], q[b[j][1]], b[j][2]) /\ b[j + 1] = Nx(t, q, b[j]) /\ Before(b[j], h)
  <2>1. CASE j = n + 1
    <3>1. r[j] = x /\ b[j] = hi /\ b[j + 1] = h
      BY <1>1, <1>3, <1>4, <1>7, <2>1
    <3> QED
      BY <1>4, <1>5, <3>1
  <2>2. CASE j \in 1..n
    <3>1. r[j] = s[j] /\ b[j] = a[j] /\ b[j + 1] = a[j + 1] /\ a[j] \in Pos
      BY <1>3, <1>4, <1>7, <2>2
    <3>2. Says(t, s[j], q[a[j][1]], a[j][2]) /\ a[j + 1] = Nx(t, q, a[j]) /\ Before(a[j], hi)
      BY <1>1, <1>4, <2>2 DEF Places
    <3> QED
      BY <1>5, <3>1, <3>2
  <2> QED
    BY <1>3, <1>4, <2>1, <2>2
<1>9. b[1] = lo /\ b[Len(r) + 1] = h
  <2>1. Len(r) + 1 = n + 2 /\ 1 \in 1 .. n + 1
    BY <1>3, <1>4
  <2> QED
    BY <1>1, <1>7, <2>1
<1>10. Line(t, r, q, lo, h)
  BY <1>7, <1>8, <1>9 DEF Line, Places
<1> QED
  BY <1>2, <1>4, <1>10

LEMMA LinePop ==
    ASSUME NEW t, NEW s, NEW q, NEW lo, NEW hi, Line(t, s, q, lo, hi), IsSeq(s), s # <<>>
    PROVE  Says(t, Head(s), q[lo[1]], lo[2]) /\ Line(t, Tail(s), q, Nx(t, q, lo), hi) /\ lo \in Pos
<1>1. PICK a \in [Nat -> Pos] : a[1] = lo /\ a[Len(s) + 1] = hi /\ Places(t, s, q, hi, a)
  BY DEF Line
<1>2. PICK r : r = Tail(s)
  OBVIOUS
<1>3. Head(s) = s[1] /\ Len(r) = Len(s) - 1 /\ Len(s) \in Nat \ {0} /\ \A i \in 1 .. Len(s) - 1 : r[i] = s[i + 1]
  BY <1>2, TailFits
<1>4. PICK b : b = [j \in Nat |-> a[j + 1]]
  OBVIOUS
<1>5. b \in [Nat -> Pos] /\ \A j \in Nat : b[j] = a[j + 1]
  BY <1>4
<1>6. ASSUME NEW j \in 1..Len(r)
      PROVE  Says(t, r[j], q[b[j][1]], b[j][2]) /\ b[j + 1] = Nx(t, q, b[j]) /\ Before(b[j], hi)
  <2>3. j \in Nat /\ j + 1 \in Nat /\ j \in 1 .. Len(s) - 1 /\ j + 1 \in 1..Len(s)
    BY <1>3
  <2>1. j + 1 \in 1..Len(s) /\ r[j] = s[j + 1] /\ b[j] = a[j + 1] /\ b[j + 1] = a[(j + 1) + 1]
    BY <1>3, <1>5, <2>3
  <2>2. Says(t, s[j + 1], q[a[j + 1][1]], a[j + 1][2]) /\ a[(j + 1) + 1] = Nx(t, q, a[j + 1]) /\ Before(a[j + 1], hi)
    BY <1>1, <2>1 DEF Places
  <2> QED
    BY <2>1, <2>2
<1>7. 1 \in 1..Len(s) /\ Len(r) + 1 = Len(s) /\ Len(s) \in Nat
  BY <1>3
<1>8. Says(t, s[1], q[lo[1]], lo[2]) /\ a[1 + 1] = Nx(t, q, lo)
  BY <1>1, <1>7 DEF Places
<1>9. b[1] = Nx(t, q, lo) /\ b[Len(r) + 1] = hi
  BY SMTT(40), <1>1, <1>5, <1>7, <1>8
<1>10. Line(t, r, q, Nx(t, q, lo), hi)
  BY <1>5, <1>6, <1>9 DEF Line, Places
<1> QED
  BY <1>1, <1>2, <1>3, <1>8, <1>10

\* What comes behind the line does not matter to it.
LEMMA LineKept ==
    ASSUME NEW t, NEW s, NEW q, NEW lo, NEW hi, Line(t, s, q, lo, hi), IsSeq(s),
           NEW y \in Nat, hi = <<y, 1>> \/ Before(hi, <<y, 1>>), NEW r, \A k \in Nat : k < y => r[k] = q[k]
    PROVE  Line(t, s, r, lo, hi)
<1>1. PICK a \in [Nat -> Pos] : a[1] = lo /\ a[Len(s) + 1] = hi /\ Places(t, s, q, hi, a)
  BY DEF Line
<1>2. Len(s) \in Nat
  BY DEF IsSeq
<1>3. hi \in Pos
  BY <1>1, <1>2
<1>4. ASSUME NEW j \in 1..Len(s)
      PROVE  Says(t, s[j], r[a[j][1]], a[j][2]) /\ a[j + 1] = Nx(t, r, a[j]) /\ Before(a[j], hi)
  <2>1. Says(t, s[j], q[a[j][1]], a[j][2]) /\ a[j + 1] = Nx(t, q, a[j]) /\ Before(a[j], hi)
    BY <1>1 DEF Places
  <2>2. a[j] \in Pos
    BY <1>1, <1>2
  <2>3. a[j][1] \in Nat /\ a[j][1] < y
    <3>1. PICK x, i, h, m : x = a[j][1] /\ i = a[j][2] /\ h = hi[1] /\ m = hi[2]
      OBVIOUS
    <3>2. x \in Nat /\ i \in Nat \ {0} /\ h \in Nat /\ m \in Nat \ {0}
      BY <1>3, <2>2, <3>1 DEF Pos
    <3>3. x < h \/ (x = h /\ i < m)
      BY <2>1, <3>1 DEF Before
    <3>4. (h = y /\ m = 1) \/ h < y \/ (h = y /\ m < 1)
      BY <3>1 DEF Before
    <3> QED
      BY <3>1, <3>2, <3>3, <3>4
  <2>4. r[a[j][1]] = q[a[j][1]]
    BY <2>3
  <2> QED
    BY <2>1, <2>4 DEF Nx
<1> QED
  BY <1>1, <1>4 DEF Line, Places

-----------------------------------------------------------------------------
(* UOE, receive side.  q numbers the packets that pIpHeaderStripper takes.    *)

\* The word that pIpHeaderStripper has left over.
Left(s, x) == IsSeq(s) /\ Len(s) = 1 /\ s[1] = x

\* pIpHeaderStripper (v), in front of it the packets s: y is the packet it is at,
\* or will take next; it writes header chunk hw and datagram chunk dw next.
IhsAt(v, s, q, y, hw, dw) ==
    /\ y \in Nat /\ v = [st |-> v.st, i |-> v.i, prev |-> v.prev] /\ v.i \in Nat
    /\ v.st \in {"IDLE", "IPW0", "DONE", "DROP"} => hw = <<y, 1>> /\ dw = <<y, 1>>
    /\ v.st \in {"IDLE", "IPW0", "DONE", "RESIDUE"} => v.i = 0
    /\ v.st \in {"HDR", "UDP_HEADER", "FORWARD", "UDP_HEADER_ALIGNED", "FORWARD_ALIGNED"} => s # <<>> /\ q[y] = Head(s)
    /\ v.st = "HDR" => v.i + 1 <= HdrChunks(q[y]) /\ v.i > 0 /\ hw = <<y, v.i + 1>> /\ dw = <<y, 1>>
    /\ v.st \in {"UDP_HEADER", "FORWARD", "UDP_HEADER_ALIGNED", "FORWARD_ALIGNED"} =>
          /\ v.i >= HdrChunks(q[y]) /\ v.i < Chunks(Words(q[y]))
          /\ hw = <<y + 1, 1>> /\ dw = <<y, v.i - HdrChunks(q[y]) + 1>>
    /\ v.st \in {"UDP_HEADER_ALIGNED", "FORWARD_ALIGNED"} => q[y].ihl % 2 = 0
    /\ v.st \in {"UDP_HEADER", "FORWARD"} =>
          q[y].ihl % 2 = 1 /\ Left(v.prev, Dgram(q[y])[2 * (v.i - HdrChunks(q[y]) + 1) - 1])
    /\ v.st \in {"UDP_HEADER", "UDP_HEADER_ALIGNED"} => v.i = HdrChunks(q[y])
    /\ v.st = "RESIDUE" =>
          LET e == Chunks(Dgram(q[y])) IN
          /\ Good(q[y]) /\ hw = <<y + 1, 1>> /\ dw = <<y, e>>
          /\ 2 * e > Len(Dgram(q[y])) /\ Left(v.prev, Dgram(q[y])[2 * e - 1])

\* pUdpChecksumChecker: a is the datagram it is at, u the chunk it reads next,
\* uv the datagram it says its verdict on next.
Heard(s, p) == Good(p) /\ IsSeq(s) /\ Len(s) >= 3 /\ s[3] = <<p.id, p.csum, p.n>>
UccAt(v, q, a, u, uv) ==
    /\ a \in Nat /\ v = [st |-> v.st, seen |-> v.seen]
    /\ v.st \in {"INIT", "IDLE", "START", "STREAM", "ACCUMULATE", "CHK"}
    /\ v.st \in {"INIT", "IDLE", "START"} => u = <<a, 1>> /\ uv = a
    /\ v.st \in {"STREAM", "ACCUMULATE"} => u[1] = a /\ u[2] >= 2
    /\ v.st = "STREAM" => uv = a + 1
    /\ v.st \in {"ACCUMULATE", "CHK"} => uv = a /\ Heard(v.seen, q[a])
    /\ v.st = "CHK" => u = <<a + 1, 1>>

\* pRxPacketHandler: b is the datagram it is at, dr and hr the chunks it reads
\* next, of the datagram and of the header, rv the verdict.
RphAt(v, q, b, dr, hr, rv) ==
    /\ b \in Nat
    /\ v = [st |-> v.st, id |-> v.id, port |-> v.port, n |-> v.n, src |-> v.src, hdr |-> v.hdr] /\ v.hdr \in BOOLEAN
    /\ v.st \in {"IDLE", "PORT_LOOKUP", "STREAM_FIRST", "STREAM", "DRAIN_DATAGRAM", "DRAIN_IP4HDR", "UNREACHABLE"}
    /\ v.st = "IDLE" => dr = <<b, 1>> /\ hr = <<b, 1>> /\ rv = b
    /\ v.st # "IDLE" => v.id = q[b].id
    /\ v.st \in {"PORT_LOOKUP", "STREAM_FIRST"} => v.n = q[b].n
    /\ v.st \in {"PORT_LOOKUP", "STREAM_FIRST", "UNREACHABLE"} => dr = <<b, 2>> /\ v.hdr = FALSE
    /\ v.st = "PORT_LOOKUP" => hr = <<b, 2>> /\ rv = b
    /\ v.st \notin {"IDLE", "PORT_LOOKUP"} => rv = b + 1
    /\ v.st = "STREAM_FIRST" => hr = <<b, 3>>
    /\ v.st \in {"STREAM", "DRAIN_DATAGRAM"} => dr[1] = b /\ dr[2] >= 2
    /\ v.st \in {"STREAM", "DRAIN_DATAGRAM"} /\ v.hdr = TRUE => hr = <<b + 1, 1>>
    /\ v.st \in {"STREAM", "DRAIN_DATAGRAM", "UNREACHABLE", "DRAIN_IP4HDR"} /\ v.hdr = FALSE => hr[1] = b /\ hr[2] >= 2
    /\ v.st = "DRAIN_IP4HDR" => dr = <<b + 1, 1>> /\ v.hdr = FALSE

\* The verdicts on the datagrams from rv on.
Judged(s, q, rv, uv) ==
    /\ rv \in Nat /\ uv = rv + Len(s)
    /\ \A j \in 1..Len(s) : s[j].id = q[rv + j - 1].id /\ (s[j].valid => q[rv + j - 1].csum # "bad")

\* The packets whose header has been written, if only in part.
AllTrimmed(q, hw) == \A k \in Nat : Before(<<k, 1>>, hw) => Trimmed(q[k])

RxLine ==
    \E q, y, hw, dw, a, u, uv, b, dr, hr, rv :
        /\ IhsAt(ihs, ch["uoe"], q, y, hw, dw) /\ AllTrimmed(q, hw)
        /\ UccAt(ucc, q, a, u, uv) /\ RphAt(rph, q, b, dr, hr, rv)
        /\ Line("hdr", ch["hdr"], q, hr, hw) /\ Line("dgram", ch["uccDgrm"], q, u, dw)
        /\ Line("dgram", ch["rphDgrm"], q, dr, u) /\ Judged(ch["csumVal"], q, rv, uv)

\* What pRxPacketHandler says of its datagram.
RphLine ==
    /\ rph.st # "IDLE" => OfUdp(rph.id)
    /\ rph.st = "STREAM_FIRST" => OfSender(rph.id, rph.src)

RxStream == {"uoe", "cts", "hdr", "psdSum", "uccDgrm", "rphDgrm", "csumVal", "portReq", "portRep",
             "uaifLen", "uaifMeta", "uaifData", "unreach"}
Plain == RxStream \ {"uoe", "uaifMeta", "unreach"}
RxOk == NoneEmpty /\ FateLine /\ Kinds(ch) /\ RxLine /\ RphLine
Rxs(g) == Kinds(g) /\ SameBut(RxStream, ch, g)
RxKept == FateLine' /\ Rxs(ch') /\ RxLine' /\ RphLine'

LEMMA RxsStart ==
    ASSUME Kinds(ch)
    PROVE  Rxs(ch)
BY SameStart DEF Rxs

LEMMA RxsPut ==
    ASSUME NEW g, Rxs(g), NEW c \in RxStream, NEW x, Is(c, x)
    PROVE  /\ Rxs(Put(g, c, x)) /\ Put(g, c, x)[c] = Append(g[c], x)
           /\ \A b \in Stream : b # c => Put(g, c, x)[b] = g[b]
<1>1. c \in Stream
  BY DEF RxStream, Stream, IpStream, UdpStream, NalStream
<1> QED
  BY <1>1, PutFits, PutSame, PutIs DEF Rxs, SameBut

LEMMA PlainPut ==
    ASSUME NEW g, Rxs(g), NEW c \in Plain, NEW x
    PROVE  /\ Rxs(Put(g, c, x)) /\ Put(g, c, x)[c] = Append(g[c], x)
           /\ \A b \in Stream : b # c => Put(g, c, x)[b] = g[b]
<1>1. c \in RxStream /\ Is(c, x)
  BY DEF Plain, RxStream, Is
<1> QED
  BY <1>1, RxsPut

LEMMA RxsPop ==
    ASSUME NEW g, Rxs(g), NEW c \in RxStream, g[c] # <<>>
    PROVE  /\ Rxs(Pop(g, c)) /\ Is(c, Head(g[c])) /\ Pop(g, c)[c] = Tail(g[c])
           /\ \A b \in Stream : b # c => Pop(g, c)[b] = g[b]
<1>1. c \in Stream
  BY DEF RxStream, Stream, IpStream, UdpStream, NalStream
<1> QED
  BY <1>1, PopFits, PopSame, PopIs DEF Rxs, SameBut

LEMMA RxStreams ==
    RxStream \subseteq Stream
BY DEF RxStream, Stream, IpStream, UdpStream, NalStream

LEMMA TrimmedKept ==
    ASSUME NEW q, NEW hw, AllTrimmed(q, hw), UNCHANGED work
    PROVE  AllTrimmed(q, hw)'
BY DEF AllTrimmed, Trimmed, Frames

LEMMA RphSame ==
    ASSUME RphLine, UNCHANGED <<work, rph>>
    PROVE  RphLine'
BY DEF RphLine, OfUdp, OfSender, Frames, ToUoe, Sound

LEMMA RxWitness ==
    ASSUME NEW q, NEW y, NEW hw, NEW dw, NEW a, NEW u, NEW uv, NEW b, NEW dr, NEW hr, NEW rv, UNCHANGED work,
           IhsAt(ihs', ch'["uoe"], q, y, hw, dw), AllTrimmed(q, hw), UccAt(ucc', q, a, u, uv), RphAt(rph', q, b, dr, hr, rv),
           Line("hdr", ch'["hdr"], q, hr, hw), Line("dgram", ch'["uccDgrm"], q, u, dw),
           Line("dgram", ch'["rphDgrm"], q, dr, u), Judged(ch'["csumVal"], q, rv, uv)
    PROVE  RxLine'
<1>1. AllTrimmed(q, hw)'
  BY TrimmedKept
<1> QED
  BY <1>1 DEF RxLine

-----------------------------------------------------------------------------
(* The steps of pIpHeaderStripper *)

LEMMA IhsIdleKeeps ==
    ASSUME RxOk, IhsIdle, UNCHANGED work
    PROVE  RxKept
<1>1. PICK q, y, hw, dw, a, u, uv, b, dr, hr, rv :
          /\ IhsAt(ihs, ch["uoe"], q, y, hw, dw) /\ AllTrimmed(q, hw)
          /\ UccAt(ucc, q, a, u, uv) /\ RphAt(rph, q, b, dr, hr, rv)
          /\ Line("hdr", ch["hdr"], q, hr, hw) /\ Line("dgram", ch["uccDgrm"], q, u, dw)
          /\ Line("dgram", ch["rphDgrm"], q, dr, u) /\ Judged(ch["csumVal"], q, rv, uv)
  BY Zenon DEF RxOk, RxLine
<1>2. ihs.st = "IDLE" /\ UNCHANGED <<ch, fate, ucc, rph>> /\ \E st \in {"IPW0", "DROP"} : ihs' = [ihs EXCEPT !.st = st]
  BY DEF IhsIdle, Ihs
<1>3. IhsAt(ihs', ch'["uoe"], q, y, hw, dw)
  BY <1>1, <1>2 DEF IhsAt
<1>4. RxLine'
  BY <1>1, <1>2, <1>3, RxWitness
<1> QED
  BY <1>2, <1>4, RxsStart, RphSame, FateKept DEF RxOk, RxKept

LEMMA IhsDoneKeeps ==
    ASSUME RxOk, IhsDone, UNCHANGED work
    PROVE  RxKept
<1>1. PICK q, y, hw, dw, a, u, uv, b, dr, hr, rv :
          /\ IhsAt(ihs, ch["uoe"], q, y, hw, dw) /\ AllTrimmed(q, hw)
          /\ UccAt(ucc, q, a, u, uv) /\ RphAt(rph, q, b, dr, hr, rv)
          /\ Line("hdr", ch["hdr"], q, hr, hw) /\ Line("dgram", ch["uccDgrm"], q, u, dw)
          /\ Line("dgram", ch["rphDgrm"], q, dr, u) /\ Judged(ch["csumVal"], q, rv, uv)
  BY Zenon DEF RxOk, RxLine
<1>2. /\ ihs.st = "DONE" /\ UNCHANGED <<fate, ucc, rph>> /\ ch["cts"] # <<>> /\ ch' = Pop(ch, "cts")
      /\ ihs' = [ihs EXCEPT !.st = "IDLE", !.prev = <<>>]
  BY DEF IhsDone, Ihs, Some
<1>3. IhsAt(ihs', ch["uoe"], q, y, hw, dw)
  BY <1>1, <1>2 DEF IhsAt
<1>4. Rxs(ch') /\ \A c \in Stream : c # "cts" => ch'[c] = ch[c]
  BY <1>2, RxsStart, RxsPop DEF RxOk, RxStream
<1>5. ch'["uoe"] = ch["uoe"] /\ ch'["hdr"] = ch["hdr"] /\ ch'["uccDgrm"] = ch["uccDgrm"]
      /\ ch'["rphDgrm"] = ch["rphDgrm"] /\ ch'["csumVal"] = ch["csumVal"]
  BY <1>4, RxStreams DEF RxStream
<1>6. RxLine'
  BY <1>1, <1>2, <1>3, <1>5, RxWitness
<1> QED
  BY <1>2, <1>4, <1>6, RphSame, FateKept DEF RxOk, RxKept

LEMMA IhsDropKeeps ==
    ASSUME RxOk, IhsDrop, UNCHANGED work
    PROVE  RxKept
<1>1. PICK q, y, hw, dw, a, u, uv, b, dr, hr, rv :
          /\ IhsAt(ihs, ch["uoe"], q, y, hw, dw) /\ AllTrimmed(q, hw)
          /\ UccAt(ucc, q, a, u, uv) /\ RphAt(rph, q, b, dr, hr, rv)
          /\ Line("hdr", ch["hdr"], q, hr, hw) /\ Line("dgram", ch["uccDgrm"], q, u, dw)
          /\ Line("dgram", ch["rphDgrm"], q, dr, u) /\ Judged(ch["csumVal"], q, rv, uv)
  BY Zenon DEF RxOk, RxLine
<1>2. PICK p, i, end : p = Head(ch["uoe"]) /\ i = ihs.i + 1 /\ end = (i = Chunks(Words(p)))
  OBVIOUS
<1>3. /\ ihs.st = "DROP" /\ UNCHANGED <<ucc, rph>> /\ ch["uoe"] # <<>>
      /\ ch' = IF end THEN Pop(ch, "uoe") ELSE ch
      /\ ihs' = [st |-> IF end THEN "IDLE" ELSE "DROP", i |-> IF end THEN 0 ELSE i, prev |-> <<>>]
      /\ IF end THEN Becomes(p.id, "dropped") ELSE UNCHANGED fate
  BY <1>2, Zenon DEF IhsDrop, Ihs, Read, Packet0, Some
<1>4. Rxs(ch') /\ Is("uoe", p) /\ \A c \in Stream : c # "uoe" => ch'[c] = ch[c]
  <2>1. Rxs(ch) /\ "uoe" \in RxStream
    BY RxsStart DEF RxOk, RxStream
  <2>2. Rxs(Pop(ch, "uoe")) /\ Is("uoe", p) /\ \A c \in Stream : c # "uoe" => Pop(ch, "uoe")[c] = ch[c]
    BY <1>2, <1>3, <2>1, RxsPop
  <2> QED
    BY <1>3, <2>1, <2>2
<1>5. ch'["hdr"] = ch["hdr"] /\ ch'["uccDgrm"] = ch["uccDgrm"] /\ ch'["rphDgrm"] = ch["rphDgrm"] /\ ch'["csumVal"] = ch["csumVal"]
  BY <1>4, RxStreams DEF RxStream
<1>6. IhsAt(ihs', ch'["uoe"], q, y, hw, dw)
  <2>1. y \in Nat /\ hw = <<y, 1>> /\ dw = <<y, 1>> /\ i \in Nat
    BY <1>1, <1>2, <1>3 DEF IhsAt
  <2>2. \/ ihs' = [st |-> "IDLE", i |-> 0, prev |-> <<>>]
        \/ ihs' = [st |-> "DROP", i |-> i, prev |-> <<>>]
    BY <1>3
  <2> QED
    BY <2>1, <2>2 DEF IhsAt
<1>7. RxLine'
  BY <1>1, <1>3, <1>5, <1>6, RxWitness
<1>8. FateLine'
  <2>1. OfUdp(p.id)
    BY <1>4, TrimmedSays DEF Is, RxOk, FateLine
  <2>2. OfWaste(p.id)
    BY <2>1, JustThen
  <2> QED
    BY <1>3, <2>2, JustThen, FateStep, FateKept DEF RxOk
<1> QED
  BY <1>3, <1>4, <1>7, <1>8, RphSame DEF RxOk, RxKept

LEMMA IhsResidueKeeps ==
    ASSUME RxOk, IhsResidue, UNCHANGED work
    PROVE  RxKept
<1>1. PICK q, y, hw, dw, a, u, uv, b, dr, hr, rv :
          /\ IhsAt(ihs, ch["uoe"], q, y, hw, dw) /\ AllTrimmed(q, hw)
          /\ UccAt(ucc, q, a, u, uv) /\ RphAt(rph, q, b, dr, hr, rv)
          /\ Line("hdr", ch["hdr"], q, hr, hw) /\ Line("dgram", ch["uccDgrm"], q, u, dw)
          /\ Line("dgram", ch["rphDgrm"], q, dr, u) /\ Judged(ch["csumVal"], q, rv, uv)
  BY Zenon DEF RxOk, RxLine
<1>2. PICK x : x = Chunk(ihs.prev, TRUE)
  OBVIOUS
<1>3. /\ ihs.st = "RESIDUE" /\ UNCHANGED <<fate, ucc, rph>> /\ ch' = Put(ch, "uccDgrm", x)
      /\ ihs' = [ihs EXCEPT !.st = "DONE", !.prev = <<>>]
  BY <1>2 DEF IhsResidue, Ihs
<1>4. Rxs(ch') /\ ch'["uccDgrm"] = Append(ch["uccDgrm"], x) /\ \A c \in Stream : c # "uccDgrm" => ch'[c] = ch[c]
  BY <1>3, RxsStart, PlainPut DEF RxOk, Plain, RxStream
<1>5. ch'["uoe"] = ch["uoe"] /\ ch'["hdr"] = ch["hdr"] /\ ch'["rphDgrm"] = ch["rphDgrm"] /\ ch'["csumVal"] = ch["csumVal"]
  BY <1>4, RxStreams DEF RxStream
<1>6. PICK p, e, D : p = q[y] /\ e = Chunks(Dgram(p)) /\ D = Dgram(p)
  OBVIOUS
<1>7. /\ y \in Nat /\ ihs = [st |-> ihs.st, i |-> 0, prev |-> ihs.prev]
      /\ Good(p) /\ hw = <<y + 1, 1>> /\ dw = <<y, e>> /\ 2 * e > Len(D) /\ Left(ihs.prev, D[2 * e - 1])
  BY <1>1, <1>3, <1>6 DEF IhsAt
<1>8. Says("dgram", x, p, e)
  <2>1. e \in Nat /\ e >= 2 /\ IsSeq(D)
    BY <1>6, <1>7, HeaderEnds, PacketIs
  <2>2. x.w = ihs.prev /\ x.last = TRUE
    BY <1>2 DEF Chunk
  <2>4. IsCut(x.w, D, e)
    <3>1. Len(D) \in Nat
      BY <2>1 DEF IsSeq
    <3> QED
      BY <1>7, <2>1, <2>2, <3>1 DEF IsCut, Left
  <2>5. Size("dgram", p) = e
    BY <1>6 DEF Size
  <2>6. e \in 1..e
    BY <2>1
  <2> QED
    BY <1>6, <1>7, <2>2, <2>4, <2>5, <2>6 DEF Says
<1>9. Nx("dgram", q, dw) = <<y + 1, 1>>
  BY <1>6, <1>7 DEF Nx, Size
<1>10. Line("dgram", ch'["uccDgrm"], q, u, <<y + 1, 1>>)
  <2>1. IsSeq(ch["uccDgrm"])
    BY RxStreams DEF RxOk, Kinds, RxStream
  <2>2. q[dw[1]] = p /\ dw[2] = e
    BY <1>6, <1>7
  <2> QED
    BY <1>1, <1>4, <1>8, <1>9, <2>1, <2>2, LinePut
<1>11. IhsAt(ihs', ch'["uoe"], q, y + 1, hw, <<y + 1, 1>>)
  <2>1. PICK st, v : st = ihs.st /\ v = ihs.prev
    OBVIOUS
  <2>2. ihs = [st |-> st, i |-> 0, prev |-> v]
    BY <1>7, <2>1
  <2>3. ihs' = [st |-> "DONE", i |-> 0, prev |-> <<>>]
    BY <1>3, <2>2
  <2> QED
    BY <1>7, <2>3 DEF IhsAt
<1>12. RxLine'
  BY <1>1, <1>3, <1>5, <1>10, <1>11, RxWitness
<1> QED
  BY <1>3, <1>4, <1>12, RphSame, FateKept DEF RxOk, RxKept

\* The packets in front of UOE are datagrams, none of them empty.
LEMMA UoeGood ==
    ASSUME RxOk, ch["uoe"] # <<>>
    PROVE  Good(Head(ch["uoe"])) /\ Trimmed(Head(ch["uoe"]))
<1>1. PICK p : p = Head(ch["uoe"])
  OBVIOUS
<1>2. Is("uoe", p)
  <2>1. "uoe" \in RxStream
    BY DEF RxStream
  <2> QED
    BY <1>1, <2>1, RxsStart, RxsPop DEF RxOk
<1>3. Trimmed(p) /\ p.ttl # 1 /\ p.proto = "udp"
  BY <1>2 DEF Is
<1>4. PICK f \in Frames : p.n = f.n /\ p \in FrameType
  BY <1>3, TrimmedIs, Zenon DEF RxOk, FateLine
<1>5. f.n > 0
  <2>1. DOMAIN work.frames = 1..Len(work.frames) /\ work \in Works
    BY FramesAre DEF RxOk, FateLine, IsSeq
  <2>2. PICK i \in 1..Len(work.frames) : f = work.frames[i]
    BY DEF Frames, Elems
  <2> QED
    BY <2>1, <2>2 DEF RxOk, NoneEmpty
<1> QED
  BY <1>1, <1>3, <1>4, <1>5 DEF Good

\* Half a chunk is kept for the next one: the chunk that is written.
LEMMA Realign ==
    ASSUME NEW p, Good(p), NEW i \in Nat, i >= HdrChunks(p), i < Chunks(Words(p)),
           NEW w, w = Cut(Words(p), i + 1), NEW j, j = i - HdrChunks(p) + 1, NEW d, d = Dgram(p), NEW e, e = Chunks(Dgram(p)),
           p.ihl % 2 = 1, NEW prev, Left(prev, d[2 * j - 1])
    PROVE  IsCut(prev \o <<w[1]>>, d, j) /\ (Len(w) = 2 => Left(Tail(w), d[2 * j + 1]))
<1>1. 2 * j <= Len(d) /\ w[1] = d[2 * j] /\ IsSeq(w) /\ (Len(w) = 2 => w[2] = d[2 * j + 1])
  BY Realigned
<1>2. PICK c, z : z = w[1] /\ c = prev \o <<z>>
  OBVIOUS
<1>3. PICK S : S = Elems(prev) \cup {z}
  OBVIOUS
<1>4. prev \in Seq(S) /\ <<z>> \in Seq(S) /\ Len(prev) = 1 /\ Len(<<z>>) = 1 /\ <<z>>[1] = z /\ prev[1] = d[2 * j - 1]
  BY <1>3 DEF Left, IsSeq
<1>5. c \in Seq(S) /\ Len(c) = 2 /\ c[1] = prev[1] /\ c[2] = z
  <2>1. /\ c \in Seq(S) /\ Len(c) = Len(prev) + Len(<<z>>)
        /\ (\A k \in 1..Len(prev) : c[k] = prev[k]) /\ \A k \in 1..Len(<<z>>) : c[Len(prev) + k] = <<z>>[k]
    BY SMTT(40), <1>2, <1>4, CatIs
  <2> QED
    BY <1>4, <2>1
<1>6. IsSeq(c)
  BY <1>5, SeqIs
<1>7. IsCut(c, d, j)
  BY <1>1, <1>2, <1>4, <1>5, <1>6 DEF IsCut
<1>8. ASSUME Len(w) = 2
      PROVE  Left(Tail(w), d[2 * j + 1])
  <2>1. w # <<>>
    BY <1>8
  <2>2. IsSeq(Tail(w)) /\ Len(Tail(w)) = Len(w) - 1 /\ \A k \in 1 .. Len(w) - 1 : Tail(w)[k] = w[k + 1]
    BY <1>1, <2>1, TailFits, Zenon
  <2>3. Len(Tail(w)) = 1 /\ Tail(w)[1] = w[2]
    BY <1>8, <2>2
  <2> QED
    BY <1>1, <1>8, <2>2, <2>3 DEF Left
<1> QED
  BY <1>2, <1>7, <1>8

LEMMA OneOrTwo ==
    ASSUME NEW n \in {1, 2}
    PROVE  n = 1 <=> n # 2
OBVIOUS

LEMMA LastWord ==
    ASSUME NEW j \in Nat, NEW e \in Nat, j + 1 = e
    PROVE  2 * j + 1 = 2 * e - 1
OBVIOUS

LEMMA RestIsLeft ==
    ASSUME NEW v, NEW s, NEW q, NEW y \in Nat, NEW e, v = [st |-> "RESIDUE", i |-> 0, prev |-> v.prev], Good(q[y]),
           e = Chunks(Dgram(q[y])), 2 * e > Len(Dgram(q[y])), Left(v.prev, Dgram(q[y])[2 * e - 1])
    PROVE  IhsAt(v, s, q, y, <<y + 1, 1>>, <<y, e>>)
<1>1. v.st = "RESIDUE" /\ v.i = 0 /\ v = [st |-> v.st, i |-> v.i, prev |-> v.prev]
  OBVIOUS
<1> QED
  BY <1>1 DEF IhsAt

\* A chunk of the datagram of packet p is written: of its words w the stream
\* gets x, and g is what the streams are before the packet is given up.
Wrote(p, w, end, aligned, rest, x, g) ==
    /\ UNCHANGED <<work, fate, ucc, rph>> /\ ch["uoe"] # <<>>
    /\ ihs.st \in {"UDP_HEADER", "FORWARD", "UDP_HEADER_ALIGNED", "FORWARD_ALIGNED"}
    /\ p = Head(ch["uoe"]) /\ w = Cut(Words(p), ihs.i + 1) /\ end = (ihs.i + 1 = Chunks(Words(p)))
    /\ aligned = (ihs.st \in {"UDP_HEADER_ALIGNED", "FORWARD_ALIGNED"}) /\ rest = (~aligned /\ Len(w) = 2)
    /\ x = Chunk(IF aligned THEN w ELSE ihs.prev \o <<w[1]>>, end /\ ~rest)
    /\ Rxs(g) /\ g["uccDgrm"] = Append(ch["uccDgrm"], x)
    /\ \A c \in Stream : c \notin {"psdSum", "uccDgrm"} => g[c] = ch[c]
    /\ ch' = IF end THEN Pop(g, "uoe") ELSE g
    /\ ihs' = [st |-> IF end THEN IF rest THEN "RESIDUE" ELSE "DONE" ELSE IF aligned THEN "FORWARD_ALIGNED" ELSE "FORWARD",
               i |-> IF end THEN 0 ELSE ihs.i + 1, prev |-> IF aligned THEN <<>> ELSE Tail(w)]

LEMMA IhsWrites ==
    ASSUME RxOk, NEW p, NEW w, NEW end, NEW aligned, NEW rest, NEW x, NEW g, Wrote(p, w, end, aligned, rest, x, g)
    PROVE  RxKept
<1> SUFFICES ASSUME
           UNCHANGED <<work, fate, ucc, rph>>, ch["uoe"] # <<>>,
           ihs.st \in {"UDP_HEADER", "FORWARD", "UDP_HEADER_ALIGNED", "FORWARD_ALIGNED"},
           p = Head(ch["uoe"]), w = Cut(Words(p), ihs.i + 1), end = (ihs.i + 1 = Chunks(Words(p))),
           aligned = (ihs.st \in {"UDP_HEADER_ALIGNED", "FORWARD_ALIGNED"}),
           rest = (~aligned /\ Len(w) = 2),
           x = Chunk(IF aligned THEN w ELSE ihs.prev \o <<w[1]>>, end /\ ~rest),
           Rxs(g), g["uccDgrm"] = Append(ch["uccDgrm"], x),
           \A c \in Stream : c \notin {"psdSum", "uccDgrm"} => g[c] = ch[c],
           ch' = IF end THEN Pop(g, "uoe") ELSE g,
           ihs' = [st |-> IF end THEN IF rest THEN "RESIDUE" ELSE "DONE" ELSE IF aligned THEN "FORWARD_ALIGNED" ELSE "FORWARD",
                   i |-> IF end THEN 0 ELSE ihs.i + 1, prev |-> IF aligned THEN <<>> ELSE Tail(w)]
           PROVE  RxKept
  BY Zenon DEF Wrote
<1>1. PICK q, y, hw, dw, a, u, uv, b, dr, hr, rv :
          /\ IhsAt(ihs, ch["uoe"], q, y, hw, dw) /\ AllTrimmed(q, hw)
          /\ UccAt(ucc, q, a, u, uv) /\ RphAt(rph, q, b, dr, hr, rv)
          /\ Line("hdr", ch["hdr"], q, hr, hw) /\ Line("dgram", ch["uccDgrm"], q, u, dw)
          /\ Line("dgram", ch["rphDgrm"], q, dr, u) /\ Judged(ch["csumVal"], q, rv, uv)
  BY Zenon DEF RxOk, RxLine
<1>2. PICK i, j, h, e, D, m, prev : /\ i = ihs.i /\ h = HdrChunks(p) /\ j = i - h + 1 /\ e = Chunks(Dgram(p)) /\ D = Dgram(p)
                              /\ m = Chunks(Words(p)) /\ prev = ihs.prev
  OBVIOUS
<1>3. Good(p)
  BY UoeGood
<1>4. /\ y \in Nat /\ i \in Nat /\ q[y] = p /\ i >= h /\ i < m /\ hw = <<y + 1, 1>> /\ dw = <<y, j>>
      /\ aligned => p.ihl % 2 = 0
      /\ ~aligned => p.ihl % 2 = 1 /\ Left(prev, D[2 * j - 1])
  BY <1>1, <1>2 DEF IhsAt
<1>5. h \in Nat /\ h >= 3 /\ m \in Nat /\ e \in Nat /\ e >= 2
  BY <1>2, <1>3, HeaderEnds
<1>20. (end <=> i + 1 = m) /\ (rest <=> ~aligned /\ Len(w) = 2)
  <2>1. end <=> i + 1 = m
    BY <1>2
  <2>2. rest <=> ~aligned /\ Len(w) = 2
    OBVIOUS
  <2> QED
    BY <2>1, <2>2, Zenon
<1>21. /\ j \in 1..e /\ IsSeq(w) /\ Len(w) \in {1, 2}
       /\ p.ihl % 2 = 0 => IsCut(w, D, j) /\ (i + 1 = m <=> j = e)
       /\ p.ihl % 2 = 1 =>
                 /\ Len(w) = 2 => j + 1 \in 1..e
                 /\ i + 1 # m => Len(w) = 2
                 /\ i + 1 = m /\ Len(w) = 1 => j = e
                 /\ i + 1 = m /\ Len(w) = 2 => j + 1 = e /\ 2 * e > Len(D)
                 /\ Len(w) = 1 => i + 1 = m
  BY <1>2, <1>3, <1>4, Realigned
<1>6. /\ j \in 1..e /\ IsSeq(w) /\ Len(w) \in {1, 2}
      /\ aligned => IsCut(w, D, j) /\ (end <=> j = e)
      /\ ~aligned => /\ Len(w) = 2 => j + 1 \in 1..e
                     /\ ~end => Len(w) = 2
                     /\ end /\ Len(w) = 1 => j = e
                     /\ end /\ Len(w) = 2 => j + 1 = e /\ 2 * e > Len(D)
                     /\ Len(w) = 1 => end
  BY <1>4, <1>20, <1>21, Zenon
<1>7. ~aligned => IsCut(prev \o <<w[1]>>, D, j) /\ (Len(w) = 2 => Left(Tail(w), D[2 * j + 1]))
  BY <1>2, <1>3, <1>4, Realign
<1>8. x.last = (end /\ ~rest) /\ x.w = IF aligned THEN w ELSE prev \o <<w[1]>>
  BY <1>2 DEF Chunk
<1>9. (end /\ ~rest) <=> j = e
  <2>1. j + 1 \in 1..e => j # e
    BY <1>5, <1>6
  <2>2. j + 1 = e => j # e
    BY <1>5, <1>6
  <2>3. Len(w) = 1 <=> Len(w) # 2
    BY <1>6, OneOrTwo, Zenon
  <2> QED
    BY <1>6, <1>20, <2>1, <2>2, <2>3, Zenon
<1>10. Says("dgram", x, p, j)
  <2>1. IsCut(x.w, D, j)
    BY <1>6, <1>7, <1>8
  <2>2. Size("dgram", p) = e
    BY <1>2 DEF Size
  <2> QED
    BY <1>2, <1>3, <1>6, <1>8, <1>9, <2>1, <2>2 DEF Says
<1>11. PICK dw2 : dw2 = IF j = e THEN <<y + 1, 1>> ELSE <<y, j + 1>>
  OBVIOUS
<1>12. Nx("dgram", q, dw) = dw2
  BY <1>2, <1>4, <1>11 DEF Nx, Size
<1>13. Line("dgram", g["uccDgrm"], q, u, dw2)
  <2>1. IsSeq(ch["uccDgrm"])
    BY RxStreams DEF RxOk, Kinds, RxStream
  <2>2. q[dw[1]] = p /\ dw[2] = j
    BY <1>4
  <2> QED
    BY <1>1, <1>10, <1>12, <2>1, <2>2, LinePut
<1>14. /\ g["uoe"] = ch["uoe"] /\ g["hdr"] = ch["hdr"] /\ g["rphDgrm"] = ch["rphDgrm"] /\ g["csumVal"] = ch["csumVal"]
       /\ "uoe" \in RxStream
  BY RxStreams DEF RxStream
<1>15. /\ Rxs(ch') /\ ch'["hdr"] = ch["hdr"] /\ ch'["rphDgrm"] = ch["rphDgrm"] /\ ch'["csumVal"] = ch["csumVal"]
       /\ ch'["uccDgrm"] = g["uccDgrm"] /\ (~end => ch'["uoe"] = ch["uoe"])
  <2>1. Rxs(Pop(g, "uoe")) /\ \A c \in Stream : c # "uoe" => Pop(g, "uoe")[c] = g[c]
    BY <1>14, RxsPop
  <2>2. {"hdr", "rphDgrm", "csumVal", "uccDgrm"} \subseteq Stream
    BY RxStreams DEF RxStream
  <2>3. CASE end
    <3>1. ch' = Pop(g, "uoe")
      BY <2>3
    <3> QED
      BY <1>14, <2>1, <2>2, <2>3, <3>1
  <2>4. CASE ~end
    BY <1>14, <2>4
  <2> QED
    BY <2>3, <2>4
<1>16. PICK y2 : y2 = IF j = e THEN y + 1 ELSE y
  OBVIOUS
<1>17. IhsAt(ihs', ch'["uoe"], q, y2, hw, dw2)
  <2>1. CASE j = e
    <3>1. end /\ ihs' = [st |-> "DONE", i |-> 0, prev |-> IF aligned THEN <<>> ELSE Tail(w)]
      BY <1>9, <2>1
    <3> QED
      BY <1>4, <1>11, <1>16, <2>1, <3>1 DEF IhsAt
  <2>2. CASE j # e /\ end
    <3>1. rest /\ ihs' = [st |-> "RESIDUE", i |-> 0, prev |-> Tail(w)] /\ ~aligned
      BY <1>9, <2>2
    <3>2. j + 1 = e /\ 2 * e > Len(D) /\ Left(Tail(w), D[2 * j + 1]) /\ 2 * j + 1 = 2 * e - 1
      <4>1. end /\ ~aligned /\ Len(w) = 2
        BY <1>20, <2>2, <3>1, Zenon
      <4>2. j + 1 = e /\ 2 * e > Len(D) /\ Left(Tail(w), D[2 * j + 1])
        BY <1>6, <1>7, <4>1, Zenon
      <4>3. j \in Nat
        BY <1>5, <1>6
      <4> QED
        BY <1>5, <4>2, <4>3, LastWord, Zenon
    <3>3. dw2 = <<y, e>> /\ y2 = y
      BY <1>11, <1>16, <2>2, <3>2
    <3>4. ihs'.st = "RESIDUE" /\ ihs'.i = 0 /\ ihs'.prev = Tail(w) /\ ihs' = [st |-> ihs'.st, i |-> ihs'.i, prev |-> ihs'.prev]
      BY <3>1
    <3> QED
      <4>1. ihs' = [st |-> "RESIDUE", i |-> 0, prev |-> ihs'.prev]
        BY <3>4, Zenon
      <4>2. y \in Nat /\ Good(q[y]) /\ e = Chunks(Dgram(q[y])) /\ 2 * e > Len(Dgram(q[y]))
        BY <1>2, <1>3, <1>4, <3>2, Zenon
      <4>3. Left(ihs'.prev, Dgram(q[y])[2 * e - 1])
        BY <1>2, <1>4, <3>2, <3>4, Zenon
      <4> QED
        BY <1>4, <3>3, <4>1, <4>2, <4>3, RestIsLeft, Zenon
  <2>3. CASE j # e /\ ~end /\ aligned
    <3>1. ihs' = [st |-> "FORWARD_ALIGNED", i |-> i + 1, prev |-> <<>>]
      BY <1>2, <2>3
    <3>2. dw2 = <<y, (i + 1) - h + 1>> /\ y2 = y /\ i + 1 >= h /\ i + 1 < m
      <4>1. i + 1 # m /\ j + 1 = (i + 1) - h + 1
        BY <1>2, <1>4, <1>5, <1>20, <2>3
      <4> QED
        BY <1>4, <1>5, <1>11, <1>16, <2>3, <4>1
    <3> QED
      BY <1>2, <1>4, <1>15, <2>3, <3>1, <3>2 DEF IhsAt
  <2>4. CASE j # e /\ ~end /\ ~aligned
    <3>1. ihs' = [st |-> "FORWARD", i |-> i + 1, prev |-> Tail(w)]
      BY <1>2, <2>4
    <3>2. /\ dw2 = <<y, (i + 1) - h + 1>> /\ y2 = y /\ i + 1 >= h /\ i + 1 < m
          /\ 2 * ((i + 1) - h + 1) - 1 = 2 * j + 1
      <4>2. i + 1 # m
        BY <1>20, <2>4, Zenon
      <4>1. i + 1 # m /\ j + 1 = (i + 1) - h + 1 /\ 2 * ((i + 1) - h + 1) - 1 = 2 * j + 1
        BY SMTT(40), <1>2, <1>4, <1>5, <4>2
      <4> QED
        BY <1>4, <1>5, <1>11, <1>16, <2>4, <4>1
    <3>3. Left(Tail(w), D[2 * j + 1])
      BY <1>6, <1>7, <2>4
    <3>4. ihs'.st = "FORWARD" /\ ihs'.i = i + 1 /\ ihs'.prev = Tail(w) /\ ihs' = [st |-> ihs'.st, i |-> ihs'.i, prev |-> ihs'.prev]
      BY <3>1
    <3> QED
      BY <1>2, <1>4, <1>15, <2>4, <3>2, <3>3, <3>4 DEF IhsAt
  <2> QED
    BY <2>1, <2>2, <2>3, <2>4
<1>18. RxLine'
  BY <1>1, <1>13, <1>15, <1>17, RxWitness
<1> QED
  BY <1>15, <1>18, RphSame, FateKept DEF RxOk, RxKept

LEMMA IhsForwardKeeps ==
    ASSUME RxOk, IhsForward, UNCHANGED work
    PROVE  RxKept
<1>1. PICK p : p = Head(ch["uoe"])
  OBVIOUS
<1>2. PICK w, end, aligned : /\ w = Cut(Words(p), ihs.i + 1) /\ end = (ihs.i + 1 = Chunks(Words(p)))
                             /\ aligned = (ihs.st = "FORWARD_ALIGNED")
  OBVIOUS
<1>3. PICK rest : rest = (~aligned /\ Len(w) = 2)
  OBVIOUS
<1>4. PICK x, g : x = Chunk(IF aligned THEN w ELSE ihs.prev \o <<w[1]>>, end /\ ~rest) /\ g = Put(ch, "uccDgrm", x)
  OBVIOUS
<1>5. PICK next : next = IF ~end THEN ihs.st ELSE IF rest THEN "RESIDUE" ELSE "DONE"
  OBVIOUS
<1>6. /\ ihs.st \in {"FORWARD", "FORWARD_ALIGNED"} /\ ch["uoe"] # <<>> /\ UNCHANGED <<fate, ucc, rph>>
      /\ ch' = IF end THEN Pop(g, "uoe") ELSE g
      /\ ihs' = [st |-> next, i |-> IF end THEN 0 ELSE ihs.i + 1, prev |-> IF aligned THEN <<>> ELSE Tail(w)]
  BY <1>1, <1>2, <1>3, <1>4, <1>5, Zenon DEF IhsForward, Ihs, Read, Packet0, Some
<1>7. Rxs(g) /\ g["uccDgrm"] = Append(ch["uccDgrm"], x) /\ \A c \in Stream : c # "uccDgrm" => g[c] = ch[c]
  BY <1>4, RxsStart, PlainPut DEF RxOk, Plain, RxStream
<1>8. aligned = (ihs.st \in {"UDP_HEADER_ALIGNED", "FORWARD_ALIGNED"})
  BY <1>2, <1>6
<1>9. next = IF end THEN IF rest THEN "RESIDUE" ELSE "DONE" ELSE IF aligned THEN "FORWARD_ALIGNED" ELSE "FORWARD"
  BY <1>2, <1>5, <1>6
<1>10. ihs.st \in {"UDP_HEADER", "FORWARD", "UDP_HEADER_ALIGNED", "FORWARD_ALIGNED"}
  BY <1>6
<1>11. ihs' = [st |-> IF end THEN IF rest THEN "RESIDUE" ELSE "DONE" ELSE IF aligned THEN "FORWARD_ALIGNED" ELSE "FORWARD",
               i |-> IF end THEN 0 ELSE ihs.i + 1, prev |-> IF aligned THEN <<>> ELSE Tail(w)]
  BY <1>6, <1>9, Zenon
<1>12. \A c \in Stream : c \notin {"psdSum", "uccDgrm"} => g[c] = ch[c]
  BY <1>7
<1>13. Wrote(p, w, end, aligned, rest, x, g)
  BY <1>1, <1>2, <1>3, <1>4, <1>6, <1>7, <1>8, <1>10, <1>11, <1>12, Zenon DEF Wrote
<1> QED
  BY <1>13, IhsWrites, Zenon

LEMMA IhsUdpHeaderKeeps ==
    ASSUME RxOk, IhsUdpHeader, UNCHANGED work
    PROVE  RxKept
<1>1. PICK p : p = Head(ch["uoe"])
  OBVIOUS
<1>2. PICK w, end, aligned : /\ w = Cut(Words(p), ihs.i + 1) /\ end = (ihs.i + 1 = Chunks(Words(p)))
                             /\ aligned = (ihs.st = "UDP_HEADER_ALIGNED")
  OBVIOUS
<1>3. PICK rest : rest = (~aligned /\ Len(w) = 2)
  OBVIOUS
<1>4. PICK next : next = IF end THEN IF rest THEN "RESIDUE" ELSE "DONE" ELSE IF aligned THEN "FORWARD_ALIGNED" ELSE "FORWARD"
  OBVIOUS
<1>5. PICK last, f, x, g :
          /\ last \in IF ~end \/ rest THEN {FALSE} ELSE IF aligned THEN {TRUE} ELSE BOOLEAN
          /\ f = Put(ch, "psdSum", p.id) /\ g = Put(f, "uccDgrm", x)
          /\ x = Chunk(IF aligned THEN w ELSE ihs.prev \o <<w[1]>>, last)
          /\ ihs.st \in {"UDP_HEADER", "UDP_HEADER_ALIGNED"} /\ ch["uoe"] # <<>> /\ UNCHANGED <<fate, ucc, rph>>
          /\ ch' = IF end THEN Pop(g, "uoe") ELSE g
          /\ ihs' = [st |-> next, i |-> IF end THEN 0 ELSE ihs.i + 1, prev |-> IF aligned THEN <<>> ELSE Tail(w)]
  BY <1>1, <1>2, <1>3, <1>4, Zenon DEF IhsUdpHeader, Ihs, Read, Packet0, Some
\* The datagram has data: the last flag is set or not, as it should be.
<1>6. last = (end /\ ~rest)
  <2>1. Good(p)
    BY <1>1, <1>5, UoeGood
  <2>2. PICK q, y, hw, dw, a, u, uv, b, dr, hr, rv :
          /\ IhsAt(ihs, ch["uoe"], q, y, hw, dw) /\ AllTrimmed(q, hw)
          /\ UccAt(ucc, q, a, u, uv) /\ RphAt(rph, q, b, dr, hr, rv)
          /\ Line("hdr", ch["hdr"], q, hr, hw) /\ Line("dgram", ch["uccDgrm"], q, u, dw)
          /\ Line("dgram", ch["rphDgrm"], q, dr, u) /\ Judged(ch["csumVal"], q, rv, uv)
    BY Zenon DEF RxOk, RxLine
  <2>3. /\ ihs.i = HdrChunks(p) /\ ihs.i \in Nat /\ ihs.i < Chunks(Words(p))
        /\ ~aligned => p.ihl % 2 = 1
    BY <1>1, <1>2, <1>5, <2>2 DEF IhsAt
  <2>4. PICK i, e : i = ihs.i /\ e = Chunks(Dgram(p))
    OBVIOUS
  <2>5. i >= HdrChunks(p) /\ i - HdrChunks(p) + 1 = 1 /\ e \in Nat /\ e >= 2
    BY <2>1, <2>3, <2>4, HeaderEnds
  <2>6. ASSUME ~aligned, end, Len(w) # 2
        PROVE  FALSE
    <3>1. p.ihl % 2 = 1 /\ i + 1 = Chunks(Words(p))
      BY <1>2, <2>3, <2>4, <2>6
    <3>2. Len(w) \in {1, 2} /\ (Len(w) = 1 => 1 = e)
      BY <1>2, <2>1, <2>3, <2>4, <2>5, <3>1, Realigned
    <3> QED
      BY <2>5, <2>6, <3>2
  <2>7. ~aligned /\ end => rest
    BY <1>3, <2>6
  <2>8. aligned => ~rest
    BY <1>3, Zenon
  <2> QED
    BY <1>2, <1>3, <1>5, <2>7, <2>8
<1>7. /\ Rxs(g) /\ g["uccDgrm"] = Append(ch["uccDgrm"], x)
      /\ \A c \in Stream : c \notin {"psdSum", "uccDgrm"} => g[c] = ch[c]
  <2>1. {"psdSum", "uccDgrm"} \subseteq Plain /\ "uccDgrm" \in Stream
    BY RxStreams DEF Plain, RxStream
  <2>2. Rxs(f) /\ \A c \in Stream : c # "psdSum" => f[c] = ch[c]
    BY <1>5, <2>1, RxsStart, PlainPut DEF RxOk
  <2>3. Rxs(g) /\ g["uccDgrm"] = Append(f["uccDgrm"], x) /\ \A c \in Stream : c # "uccDgrm" => g[c] = f[c]
    BY <1>5, <2>1, <2>2, PlainPut
  <2> QED
    BY <2>1, <2>2, <2>3
<1>8. aligned = (ihs.st \in {"UDP_HEADER_ALIGNED", "FORWARD_ALIGNED"})
  BY <1>2, <1>5
<1>10. ihs.st \in {"UDP_HEADER", "FORWARD", "UDP_HEADER_ALIGNED", "FORWARD_ALIGNED"}
  BY <1>5
<1>9. x = Chunk(IF aligned THEN w ELSE ihs.prev \o <<w[1]>>, end /\ ~rest)
  BY <1>5, <1>6
<1>11. ihs' = [st |-> IF end THEN IF rest THEN "RESIDUE" ELSE "DONE" ELSE IF aligned THEN "FORWARD_ALIGNED" ELSE "FORWARD",
               i |-> IF end THEN 0 ELSE ihs.i + 1, prev |-> IF aligned THEN <<>> ELSE Tail(w)]
  BY <1>4, <1>5, Zenon
<1>12. UNCHANGED <<work, fate, ucc, rph>> /\ ch["uoe"] # <<>> /\ ch' = IF end THEN Pop(g, "uoe") ELSE g
  BY <1>5, Zenon
<1>13. Wrote(p, w, end, aligned, rest, x, g)
  BY <1>1, <1>2, <1>3, <1>7, <1>8, <1>9, <1>10, <1>11, <1>12, Zenon DEF Wrote
<1> QED
  BY <1>13, IhsWrites, Zenon

\* A packet that has just come does not change what is known of those before it.
LEMMA RxFresh ==
    ASSUME RxOk, NEW q, NEW r, NEW y \in Nat, NEW a, NEW u, NEW uv, NEW b, NEW dr, NEW hr, NEW rv,
           UccAt(ucc, q, a, u, uv), RphAt(rph, q, b, dr, hr, rv), Line("dgram", ch["uccDgrm"], q, u, <<y, 1>>),
           Line("dgram", ch["rphDgrm"], q, dr, u), Judged(ch["csumVal"], q, rv, uv), \A k \in Nat : k < y => r[k] = q[k]
    PROVE  /\ UccAt(ucc, r, a, u, uv) /\ RphAt(rph, r, b, dr, hr, rv) /\ Line("dgram", ch["uccDgrm"], r, u, <<y, 1>>)
           /\ Line("dgram", ch["rphDgrm"], r, dr, u) /\ Judged(ch["csumVal"], r, rv, uv)
<1>1. IsSeq(ch["uccDgrm"]) /\ IsSeq(ch["rphDgrm"]) /\ IsSeq(ch["csumVal"])
  BY RxStreams DEF RxOk, Kinds, RxStream
<1>2. u \in Pos /\ (u = <<y, 1>> \/ Before(u, <<y, 1>>))
  BY <1>1, LineOrder
<1>3. dr \in Pos /\ (dr = u \/ Before(dr, u))
  BY <1>1, LineOrder
<1>4. PICK u1, u2, d1, d2 : u1 = u[1] /\ u2 = u[2] /\ d1 = dr[1] /\ d2 = dr[2]
  OBVIOUS
<1>5. u1 \in Nat /\ u2 \in Nat \ {0} /\ d1 \in Nat /\ d2 \in Nat \ {0} /\ u = <<u1, u2>> /\ dr = <<d1, d2>>
  BY <1>2, <1>3, <1>4 DEF Pos
<1>6. (u1 = y /\ u2 = 1) \/ u1 < y
  BY <1>2, <1>4, <1>5 DEF Before
<1>7. (d1 = y /\ d2 = 1) \/ d1 < y
  BY <1>3, <1>4, <1>5, <1>6 DEF Before
<1>8. UccAt(ucc, r, a, u, uv)
  <2>1. a \in Nat /\ (ucc.st \in {"ACCUMULATE", "CHK"} => a < y)
    BY <1>4, <1>5, <1>6 DEF UccAt
  <2>2. ucc.st \in {"ACCUMULATE", "CHK"} => r[a] = q[a]
    BY <2>1
  <2> QED
    BY <2>2 DEF UccAt
<1>9. RphAt(rph, r, b, dr, hr, rv)
  <2>1. b \in Nat /\ (rph.st # "IDLE" => b < y)
    BY <1>4, <1>5, <1>7 DEF RphAt
  <2>2. rph.st # "IDLE" => r[b] = q[b]
    BY <2>1
  <2> QED
    BY <2>2 DEF RphAt
<1>10. Judged(ch["csumVal"], r, rv, uv)
  <2>1. uv <= y /\ uv \in Nat
    BY <1>4, <1>5, <1>6 DEF UccAt
  <2>2. PICK n, s : s = ch["csumVal"] /\ n = Len(s)
    OBVIOUS
  <2>3. n \in Nat /\ rv \in Nat /\ uv = rv + n
    BY <1>1, <2>2 DEF IsSeq, Judged
  <2>4. ASSUME NEW j \in 1..n
        PROVE  s[j].id = r[rv + j - 1].id /\ (s[j].valid => r[rv + j - 1].csum # "bad")
    <3>1. rv + j - 1 \in Nat /\ rv + j - 1 < y
      BY <2>1, <2>3
    <3>2. r[rv + j - 1] = q[rv + j - 1]
      BY <3>1
    <3> QED
      BY <2>2, <3>2 DEF Judged
  <2> QED
    BY <2>2, <2>3, <2>4 DEF Judged
<1>11. Line("dgram", ch["uccDgrm"], r, u, <<y, 1>>)
  BY <1>1, LineKept
<1>12. Line("dgram", ch["rphDgrm"], r, dr, u)
  BY <1>1, <1>2, LineKept
<1> QED
  BY <1>8, <1>9, <1>10, <1>11, <1>12

LEMMA OneIs ==
    ASSUME NEW x
    PROVE  IsSeq(<<x>>) /\ Len(<<x>>) = 1 /\ <<x>>[1] = x
<1>1. PICK S : S = {x}
  OBVIOUS
<1>2. <<x>> \in Seq(S) /\ Len(<<x>>) = 1
  BY <1>1
<1> QED
  BY <1>2, SeqIs

LEMMA IhsHeaderKeeps ==
    ASSUME RxOk, HeadersFit, IhsHeader, UNCHANGED work
    PROVE  RxKept
<1>1. PICK q, y, hw, dw, a, u, uv, b, dr, hr, rv :
          /\ IhsAt(ihs, ch["uoe"], q, y, hw, dw) /\ AllTrimmed(q, hw)
          /\ UccAt(ucc, q, a, u, uv) /\ RphAt(rph, q, b, dr, hr, rv)
          /\ Line("hdr", ch["hdr"], q, hr, hw) /\ Line("dgram", ch["uccDgrm"], q, u, dw)
          /\ Line("dgram", ch["rphDgrm"], q, dr, u) /\ Judged(ch["csumVal"], q, rv, uv)
  BY Zenon DEF RxOk, RxLine
<1>2. PICK p, i, h, m : p = Head(ch["uoe"]) /\ i = ihs.i + 1 /\ h = HdrChunks(p) /\ m = Chunks(Words(p))
  OBVIOUS
<1>3. PICK last : last = (i = h)
  OBVIOUS
<1>4. PICK x, g : x = [id |-> p.id, i |-> i, src |-> p.src, last |-> last] /\ g = Put(ch, "hdr", x)
  OBVIOUS
<1>5. PICK next, prev : /\ next = IF ~last THEN "HDR" ELSE IF p.ihl % 2 = 1 THEN "UDP_HEADER" ELSE "UDP_HEADER_ALIGNED"
                        /\ prev = IF last /\ p.ihl % 2 = 1 THEN <<Cut(Words(p), i)[2]>> ELSE <<>>
  OBVIOUS
<1>6. /\ ihs.st \in {"IPW0", "HDR"} /\ ch["uoe"] # <<>> /\ UNCHANGED <<fate, ucc, rph>>
      /\ \/ ihs.st = "IPW0" /\ ihs' = [ihs EXCEPT !.st = "DROP"] /\ UNCHANGED ch
         \/ /\ ch' = IF i = m THEN Pop(g, "uoe") ELSE g
            /\ ihs' = [st |-> next, i |-> IF i = m THEN 0 ELSE i, prev |-> prev]
  BY <1>2, <1>3, <1>4, <1>5, Zenon DEF IhsHeader, HeadersFit, Ihs, Read, Packet0, Some
<1>7. CASE ihs.st = "IPW0" /\ ihs' = [ihs EXCEPT !.st = "DROP"] /\ UNCHANGED ch
  <2>1. IhsAt(ihs', ch'["uoe"], q, y, hw, dw)
    BY <1>1, <1>7 DEF IhsAt
  <2>2. RxLine'
    BY <1>1, <1>6, <1>7, <2>1, RxWitness
  <2> QED
    BY <1>6, <1>7, <2>2, RxsStart, RphSame, FateKept DEF RxOk, RxKept
<1>8. CASE ch' = (IF i = m THEN Pop(g, "uoe") ELSE g) /\ ihs' = [st |-> next, i |-> IF i = m THEN 0 ELSE i, prev |-> prev]
  <2>1. Good(p) /\ Trimmed(p)
    BY <1>2, <1>6, UoeGood
  <2>2. h \in Nat /\ h >= 3 /\ h < m /\ m \in Nat /\ (p.ihl % 2 = 1 => Cut(Words(p), h)[2] = Dgram(p)[1])
    BY <1>2, <2>1, HeaderEnds
  <2>3. /\ y \in Nat /\ i \in Nat \ {0} /\ hw = <<y, i>> /\ dw = <<y, 1>>
        /\ ihs.st = "IPW0" => i = 1
        /\ ihs.st = "HDR" => q[y] = p /\ i <= h
    BY <1>1, <1>2, <1>6 DEF IhsAt
  <2>4. i \in 1..h /\ i # m
    BY <1>6, <2>2, <2>3
  <2>5. ch' = g /\ ihs' = [st |-> next, i |-> i, prev |-> prev]
    BY <1>8, <2>4
  <2>6. Rxs(ch') /\ ch'["hdr"] = Append(ch["hdr"], x) /\ \A c \in Stream : c # "hdr" => ch'[c] = ch[c]
    BY <1>4, <2>5, RxsStart, PlainPut DEF RxOk, Plain, RxStream
  <2>7. ch'["uoe"] = ch["uoe"] /\ ch'["uccDgrm"] = ch["uccDgrm"] /\ ch'["rphDgrm"] = ch["rphDgrm"] /\ ch'["csumVal"] = ch["csumVal"]
    BY <2>6, RxStreams DEF RxStream
  <2>8. PICK r : r = [k \in Nat |-> IF k = y THEN p ELSE q[k]]
    OBVIOUS
  <2>9. r[y] = p /\ (\A k \in Nat : k < y => r[k] = q[k]) /\ (\A k \in Nat : k # y => r[k] = q[k])
    BY <2>3, <2>8
  <2>10. /\ UccAt(ucc, r, a, u, uv) /\ RphAt(rph, r, b, dr, hr, rv) /\ Line("dgram", ch["uccDgrm"], r, u, dw)
         /\ Line("dgram", ch["rphDgrm"], r, dr, u) /\ Judged(ch["csumVal"], r, rv, uv)
    BY <1>1, <2>3, <2>9, RxFresh
  <2>11. IsSeq(ch["hdr"])
    BY RxStreams DEF RxOk, Kinds, RxStream
  <2>12. Line("hdr", ch["hdr"], r, hr, hw)
    <3>1. CASE ihs.st = "IPW0"
      <4>1. hw = <<y, 1>>
        BY <2>3, <3>1
      <4> QED
        BY <1>1, <2>3, <2>9, <2>11, <4>1, LineKept
    <3>2. CASE ihs.st = "HDR"
      <4>1. \A k \in Nat : k < y + 1 => r[k] = q[k]
        BY <2>3, <2>9, <3>2
      <4>2. y + 1 \in Nat /\ Before(hw, <<y + 1, 1>>)
        BY <2>3 DEF Before
      <4> QED
        BY <1>1, <2>11, <4>1, <4>2, LineKept
    <3> QED
      BY <1>6, <3>1, <3>2
  <2>13. Says("hdr", x, p, i)
    <3>1. x.id = p.id /\ x.i = i /\ x.src = p.src /\ x.last = (i = h)
      BY <1>3, <1>4
    <3>2. Size("hdr", p) = h
      BY <1>2 DEF Size
    <3> QED
      BY <2>1, <2>4, <3>1, <3>2 DEF Says
  <2>14. PICK hw2 : hw2 = IF i = h THEN <<y + 1, 1>> ELSE <<y, i + 1>>
    OBVIOUS
  <2>15. Nx("hdr", r, hw) = hw2
    BY <1>2, <2>3, <2>9, <2>14 DEF Nx, Size
  <2>16. Line("hdr", ch'["hdr"], r, hr, hw2)
    <3>1. r[hw[1]] = p /\ hw[2] = i
      BY <2>3, <2>9
    <3> QED
      BY <2>6, <2>11, <2>12, <2>13, <2>15, <3>1, LinePut
  <2>17. AllTrimmed(r, hw2)
    <3>1. ASSUME NEW k \in Nat, Before(<<k, 1>>, hw2), k # y
          PROVE  Trimmed(r[k])
      <4>1. k < y
        BY <2>3, <2>14, <3>1 DEF Before
      <4>2. Before(<<k, 1>>, hw)
        BY <2>3, <4>1 DEF Before
      <4> QED
        BY <1>1, <2>9, <3>1, <4>2 DEF AllTrimmed
    <3> QED
      BY <2>1, <2>9, <3>1 DEF AllTrimmed
  <2>18. IhsAt(ihs', ch'["uoe"], r, y, hw2, dw)
    <3>1. CASE i # h
      <4>1. ihs' = [st |-> "HDR", i |-> i, prev |-> prev]
        BY <1>3, <1>5, <2>5, <3>1
      <4>2. i + 1 <= h /\ hw2 = <<y, i + 1>>
        BY <2>2, <2>4, <2>14, <3>1
      <4> QED
        BY <1>2, <1>6, <2>3, <2>7, <2>9, <4>1, <4>2 DEF IhsAt
    <3>2. CASE i = h /\ p.ihl % 2 = 1
      <4>1. ihs' = [st |-> "UDP_HEADER", i |-> i, prev |-> <<Dgram(p)[1]>>]
        BY <1>3, <1>5, <2>2, <2>5, <3>2
      <4>2. i >= h /\ i < m /\ hw2 = <<y + 1, 1>> /\ i - h + 1 = 1 /\ 2 * (i - h + 1) - 1 = 1
        BY <2>2, <2>3, <2>14, <3>2
      <4>3. Left(<<Dgram(p)[1]>>, Dgram(p)[1])
        BY OneIs DEF Left
      <4> QED
        BY <1>2, <1>6, <2>3, <2>7, <2>9, <3>2, <4>1, <4>2, <4>3 DEF IhsAt
    <3>3. CASE i = h /\ p.ihl % 2 # 1
      <4>1. ihs' = [st |-> "UDP_HEADER_ALIGNED", i |-> i, prev |-> <<>>]
        BY <1>3, <1>5, <2>5, <3>3
      <4>2. i >= h /\ i < m /\ hw2 = <<y + 1, 1>> /\ i - h + 1 = 1
        BY <2>2, <2>3, <2>14, <3>3
      <4>3. p.ihl % 2 = 0
        BY <2>1, <3>3 DEF Good, FrameType
      <4> QED
        BY <1>2, <1>6, <2>3, <2>7, <2>9, <3>3, <4>1, <4>2, <4>3 DEF IhsAt
    <3> QED
      BY <3>1, <3>2, <3>3
  <2>19. RxLine'
    BY <1>1, <1>6, <2>7, <2>10, <2>16, <2>17, <2>18, RxWitness
  <2> QED
    BY <1>6, <2>6, <2>19, RphSame, FateKept DEF RxOk, RxKept
<1> QED
  BY <1>6, <1>7, <1>8

LEMMA IhsKeeps ==
    ASSUME RxOk, HeadersFit, IpHeaderStripper, UNCHANGED work
    PROVE  RxKept
BY IhsIdleKeeps, IhsHeaderKeeps, IhsUdpHeaderKeeps, IhsForwardKeeps, IhsResidueKeeps, IhsDoneKeeps, IhsDropKeeps
   DEF IpHeaderStripper

-----------------------------------------------------------------------------
(* The steps of pUdpChecksumChecker *)

LEMMA JudgedPut ==
    ASSUME NEW s, NEW q, NEW rv, NEW uv, Judged(s, q, rv, uv), IsSeq(s),
           NEW x, x.id = q[uv].id, x.valid => q[uv].csum # "bad"
    PROVE  Judged(Append(s, x), q, rv, uv + 1)
<1>1. PICK r, n : r = Append(s, x) /\ n = Len(s)
  OBVIOUS
<1>2. Len(r) = n + 1 /\ n \in Nat /\ (\A i \in 1..n : r[i] = s[i]) /\ r[n + 1] = x
  BY <1>1, AppendIs
<1>3. rv \in Nat /\ uv = rv + n
  BY <1>1 DEF Judged
<1>4. ASSUME NEW j \in 1 .. n + 1
      PROVE  r[j].id = q[rv + j - 1].id /\ (r[j].valid => q[rv + j - 1].csum # "bad")
  <2>1. CASE j = n + 1
    <3>1. rv + j - 1 = uv /\ r[j] = x
      BY <1>2, <1>3, <2>1
    <3> QED
      BY <3>1
  <2>2. CASE j \in 1..n
    BY <1>1, <1>2, <2>2 DEF Judged
  <2> QED
    BY <1>2, <2>1, <2>2
<1>6. uv + 1 = rv + Len(r) /\ \A j \in 1..Len(r) : j \in 1 .. n + 1
  BY <1>2, <1>3
<1>7. \A j \in 1..Len(r) : r[j].id = q[rv + j - 1].id /\ (r[j].valid => q[rv + j - 1].csum # "bad")
  BY <1>4, <1>6, Zenon
<1>5. Judged(r, q, rv, uv + 1)
  BY <1>3, <1>6, <1>7, Zenon DEF Judged
<1> QED
  BY <1>1, <1>5

LEMMA UccTokenKeeps ==
    ASSUME RxOk, UccInit \/ UccIdle, UNCHANGED work
    PROVE  RxKept
<1>1. PICK q, y, hw, dw, a, u, uv, b, dr, hr, rv :
          /\ IhsAt(ihs, ch["uoe"], q, y, hw, dw) /\ AllTrimmed(q, hw)
          /\ UccAt(ucc, q, a, u, uv) /\ RphAt(rph, q, b, dr, hr, rv)
          /\ Line("hdr", ch["hdr"], q, hr, hw) /\ Line("dgram", ch["uccDgrm"], q, u, dw)
          /\ Line("dgram", ch["rphDgrm"], q, dr, u) /\ Judged(ch["csumVal"], q, rv, uv)
  BY Zenon DEF RxOk, RxLine
<1>2. PICK st : /\ st \in {"IDLE", "START"} /\ ucc.st \in {"INIT", "IDLE"} /\ UNCHANGED <<fate, ihs, rph>>
                /\ ucc' = [ucc EXCEPT !.st = st] /\ ch' = Put(ch, "cts", 1)
  BY DEF UccInit, UccIdle, Ucc, Quiet
<1>3. Rxs(ch') /\ \A c \in Stream : c # "cts" => ch'[c] = ch[c]
  <2>1. "cts" \in Plain /\ Rxs(ch)
    BY RxsStart DEF RxOk, Plain, RxStream
  <2> QED
    BY <1>2, <2>1, PlainPut
<1>4. ch'["uoe"] = ch["uoe"] /\ ch'["hdr"] = ch["hdr"] /\ ch'["uccDgrm"] = ch["uccDgrm"]
      /\ ch'["rphDgrm"] = ch["rphDgrm"] /\ ch'["csumVal"] = ch["csumVal"]
  BY <1>3, RxStreams DEF RxStream
<1>5. UccAt(ucc', q, a, u, uv)
  BY <1>1, <1>2 DEF UccAt
<1>6. RxLine'
  BY <1>1, <1>2, <1>4, <1>5, RxWitness
<1> QED
  BY <1>2, <1>3, <1>6, RphSame, FateKept DEF RxOk, RxKept

LEMMA UccStartKeeps ==
    ASSUME RxOk, UccStart, UNCHANGED work
    PROVE  RxKept
<1>1. PICK q, y, hw, dw, a, u, uv, b, dr, hr, rv :
          /\ IhsAt(ihs, ch["uoe"], q, y, hw, dw) /\ AllTrimmed(q, hw)
          /\ UccAt(ucc, q, a, u, uv) /\ RphAt(rph, q, b, dr, hr, rv)
          /\ Line("hdr", ch["hdr"], q, hr, hw) /\ Line("dgram", ch["uccDgrm"], q, u, dw)
          /\ Line("dgram", ch["rphDgrm"], q, dr, u) /\ Judged(ch["csumVal"], q, rv, uv)
  BY Zenon DEF RxOk, RxLine
<1>2. PICK c, z, o, r, g : /\ c = Head(ch["uccDgrm"]) /\ z = Head(ch["psdSum"]) /\ o = Pop(ch, "uccDgrm")
                           /\ r = Pop(o, "psdSum") /\ g = Put(r, "rphDgrm", c)
  OBVIOUS
<1>3. PICK none, x : none = (c.w[2][2] = "none") /\ x = [id |-> c.w[2][1], valid |-> TRUE]
  OBVIOUS
<1>4. /\ ucc.st = "START" /\ ch["uccDgrm"] # <<>> /\ ch["psdSum"] # <<>> /\ UNCHANGED <<fate, ihs, rph>>
      /\ ch' = IF none THEN Put(g, "csumVal", x) ELSE g
      /\ ucc' = [st |-> IF none THEN "STREAM" ELSE IF c.w[2][3] = 0 THEN "CHK" ELSE "ACCUMULATE",
                 seen |-> IF none THEN <<>> ELSE <<z>> \o c.w]
  BY <1>2, <1>3, Zenon DEF UccStart, Ucc, Quiet, Some
<1>5. IsSeq(ch["uccDgrm"]) /\ IsSeq(ch["rphDgrm"]) /\ IsSeq(ch["csumVal"])
  BY RxStreams DEF RxOk, Kinds, RxStream
<1>6. a \in Nat /\ u = <<a, 1>> /\ uv = a
  BY <1>1, <1>4 DEF UccAt
<1>7. PICK p, D : p = q[a] /\ D = Dgram(p)
  OBVIOUS
<1>8. Says("dgram", c, p, 1) /\ Line("dgram", Tail(ch["uccDgrm"]), q, Nx("dgram", q, u), dw)
  <2>1. u[1] = a /\ u[2] = 1
    BY <1>6
  <2> QED
    BY <1>1, <1>2, <1>4, <1>5, <1>7, <2>1, LinePop
<1>9. Good(p) /\ IsCut(c.w, D, 1)
  BY <1>7, <1>8 DEF Says
<1>10. p.n \in Nat \ {0} /\ Len(D) = p.n + 2 /\ D[2] = <<p.id, p.csum, p.n>> /\ Size("dgram", p) \in Nat /\ Size("dgram", p) >= 2
  BY <1>7, <1>9, PacketIs, HeaderEnds DEF Size
<1>11. IsSeq(c.w) /\ Len(c.w) = 2 /\ c.w[2] = <<p.id, p.csum, p.n>>
  BY <1>9, <1>10 DEF IsCut
<1>12. c.w[2][1] = p.id /\ c.w[2][2] = p.csum /\ c.w[2][3] = p.n
  BY <1>11
<1>13. Nx("dgram", q, u) = <<a, 2>>
  BY <1>6, <1>7, <1>10 DEF Nx
<1>14. Line("dgram", Append(ch["rphDgrm"], c), q, dr, <<a, 2>>)
  <2>1. u[1] = a /\ u[2] = 1
    BY <1>6
  <2> QED
    BY <1>1, <1>5, <1>7, <1>8, <1>13, <2>1, LinePut
<1>15. /\ Rxs(g) /\ g["uccDgrm"] = Tail(ch["uccDgrm"]) /\ g["rphDgrm"] = Append(ch["rphDgrm"], c)
       /\ g["uoe"] = ch["uoe"] /\ g["hdr"] = ch["hdr"] /\ g["csumVal"] = ch["csumVal"]
  <2>1. {"uccDgrm", "psdSum", "rphDgrm", "csumVal", "hdr", "uoe"} \subseteq RxStream /\ "rphDgrm" \in Plain
    BY DEF Plain, RxStream
  <2>2. Rxs(o) /\ o["uccDgrm"] = Tail(ch["uccDgrm"]) /\ \A k \in Stream : k # "uccDgrm" => o[k] = ch[k]
    BY <1>2, <1>4, <2>1, RxsStart, RxsPop DEF RxOk
  <2>3. Rxs(r) /\ \A k \in Stream : k # "psdSum" => r[k] = o[k]
    BY <1>2, <1>4, <2>1, <2>2, RxStreams, RxsPop
  <2>4. Rxs(g) /\ g["rphDgrm"] = Append(r["rphDgrm"], c) /\ \A k \in Stream : k # "rphDgrm" => g[k] = r[k]
    BY <1>2, <2>1, <2>3, PlainPut
  <2> QED
    BY <2>1, <2>2, <2>3, <2>4, RxStreams
<1>16. CASE none
  <2>1. ch' = Put(g, "csumVal", x) /\ ucc' = [st |-> "STREAM", seen |-> <<>>]
    BY <1>4, <1>16
  <2>2. Rxs(ch') /\ ch'["csumVal"] = Append(ch["csumVal"], x) /\ \A k \in Stream : k # "csumVal" => ch'[k] = g[k]
    BY <1>15, <2>1, PlainPut DEF Plain, RxStream
  <2>3. ch'["uccDgrm"] = g["uccDgrm"] /\ ch'["rphDgrm"] = g["rphDgrm"] /\ ch'["uoe"] = g["uoe"] /\ ch'["hdr"] = g["hdr"]
    BY <2>2, RxStreams DEF RxStream
  <2>4. x.id = q[uv].id /\ q[uv].csum # "bad"
    BY <1>3, <1>6, <1>7, <1>12, <1>16
  <2>5. Judged(ch'["csumVal"], q, rv, a + 1)
    BY <1>1, <1>5, <1>6, <2>2, <2>4, JudgedPut
  <2>6. UccAt(ucc', q, a, <<a, 2>>, a + 1)
    BY <1>6, <2>1 DEF UccAt
  <2>7. RxLine'
    BY <1>1, <1>4, <1>8, <1>13, <1>14, <1>15, <2>3, <2>5, <2>6, RxWitness
  <2> QED
    BY <1>4, <2>2, <2>7, RphSame, FateKept DEF RxOk, RxKept
<1>17. CASE ~none
  <2>1. ch' = g /\ ucc' = [st |-> "ACCUMULATE", seen |-> <<z>> \o c.w]
    BY <1>4, <1>10, <1>12, <1>17
  <2>2. Heard(<<z>> \o c.w, p)
    <3>1. PICK S, w, s : S = Elems(c.w) \cup {z} /\ w = c.w /\ s = <<z>> \o w
      OBVIOUS
    <3>2. w \in Seq(S) /\ <<z>> \in Seq(S) /\ Len(<<z>>) = 1 /\ Len(w) = 2
      BY <1>11, <3>1 DEF IsSeq
    <3>3. s \in Seq(S) /\ Len(s) = 3 /\ s[3] = w[2]
      <4>1. /\ s \in Seq(S) /\ Len(s) = Len(<<z>>) + Len(w)
            /\ \A i \in 1..Len(w) : s[Len(<<z>>) + i] = w[i]
        BY SMTT(40), <3>1, <3>2, CatIs
      <4> QED
        BY <3>2, <4>1
    <3>4. IsSeq(s)
      BY <3>3, SeqIs
    <3>5. s[3] = <<p.id, p.csum, p.n>>
      BY <1>11, <3>1, <3>3
    <3>6. Len(s) >= 3
      BY <3>3
    <3> QED
      BY <1>9, <3>1, <3>4, <3>5, <3>6, Zenon DEF Heard
  <2>3. UccAt(ucc', q, a, <<a, 2>>, uv)
    BY <1>6, <1>7, <2>1, <2>2 DEF UccAt
  <2>4. RxLine'
    BY <1>1, <1>4, <1>8, <1>13, <1>14, <1>15, <2>1, <2>3, RxWitness
  <2> QED
    BY <1>4, <1>15, <2>1, <2>4, RphSame, FateKept DEF RxOk, RxKept
<1> QED
  BY <1>16, <1>17

LEMMA UccStreamKeeps ==
    ASSUME RxOk, UccStream, UNCHANGED work
    PROVE  RxKept
<1>1. PICK q, y, hw, dw, a, u, uv, b, dr, hr, rv :
          /\ IhsAt(ihs, ch["uoe"], q, y, hw, dw) /\ AllTrimmed(q, hw)
          /\ UccAt(ucc, q, a, u, uv) /\ RphAt(rph, q, b, dr, hr, rv)
          /\ Line("hdr", ch["hdr"], q, hr, hw) /\ Line("dgram", ch["uccDgrm"], q, u, dw)
          /\ Line("dgram", ch["rphDgrm"], q, dr, u) /\ Judged(ch["csumVal"], q, rv, uv)
  BY Zenon DEF RxOk, RxLine
<1>2. PICK c, o, next : /\ c = Head(ch["uccDgrm"]) /\ o = Pop(ch, "uccDgrm")
                       /\ next = IF ~c.last THEN ucc.st ELSE IF ucc.st = "STREAM" THEN "IDLE" ELSE "CHK"
  OBVIOUS
<1>3. /\ ucc.st \in {"STREAM", "ACCUMULATE"} /\ ch["uccDgrm"] # <<>> /\ UNCHANGED <<fate, ihs, rph>>
      /\ ch' = Put(o, "rphDgrm", c)
      /\ ucc' = [st |-> next, seen |-> IF ucc.st = "STREAM" THEN <<>> ELSE ucc.seen \o c.w]
  BY <1>2, Zenon DEF UccStream, Ucc, Quiet, Some
<1>4. IsSeq(ch["uccDgrm"]) /\ IsSeq(ch["rphDgrm"])
  BY RxStreams DEF RxOk, Kinds, RxStream
<1>5. PICK i, p, u2 : i = u[2] /\ p = q[a] /\ u2 = Nx("dgram", q, u)
  OBVIOUS
<1>6. a \in Nat /\ u[1] = a /\ i >= 2
  BY <1>1, <1>3, <1>5 DEF UccAt
<1>7. Says("dgram", c, p, i) /\ Line("dgram", Tail(ch["uccDgrm"]), q, u2, dw) /\ u \in Pos
  BY <1>1, <1>2, <1>3, <1>4, <1>5, <1>6, LinePop
<1>8. i \in Nat
  BY <1>5, <1>7 DEF Pos
<1>9. u2 = IF c.last THEN <<a + 1, 1>> ELSE <<a, i + 1>>
  BY <1>5, <1>6, <1>7 DEF Nx, Says
<1>10. Line("dgram", Append(ch["rphDgrm"], c), q, dr, u2)
  BY <1>1, <1>4, <1>5, <1>6, <1>7, LinePut
<1>11. /\ Rxs(ch') /\ ch'["uccDgrm"] = Tail(ch["uccDgrm"]) /\ ch'["rphDgrm"] = Append(ch["rphDgrm"], c)
       /\ ch'["uoe"] = ch["uoe"] /\ ch'["hdr"] = ch["hdr"] /\ ch'["csumVal"] = ch["csumVal"]
  <2>1. {"uccDgrm", "rphDgrm", "csumVal", "hdr", "uoe"} \subseteq RxStream /\ "rphDgrm" \in Plain
    BY DEF Plain, RxStream
  <2>2. Rxs(o) /\ o["uccDgrm"] = Tail(ch["uccDgrm"]) /\ \A k \in Stream : k # "uccDgrm" => o[k] = ch[k]
    BY <1>2, <1>3, <2>1, RxsStart, RxsPop DEF RxOk
  <2>3. Rxs(ch') /\ ch'["rphDgrm"] = Append(o["rphDgrm"], c) /\ \A k \in Stream : k # "rphDgrm" => ch'[k] = o[k]
    BY <1>3, <2>1, <2>2, PlainPut
  <2> QED
    BY <2>1, <2>2, <2>3, RxStreams
<1>12. c.last \in BOOLEAN /\ IsSeq(c.w)
  BY <1>7 DEF Says, IsCut
<1>13. CASE ucc.st = "STREAM"
  <2>1. uv = a + 1 /\ ucc' = [st |-> IF c.last THEN "IDLE" ELSE "STREAM", seen |-> <<>>]
    BY <1>1, <1>2, <1>3, <1>13 DEF UccAt
  <2>2. UccAt(ucc', q, IF c.last THEN a + 1 ELSE a, u2, uv)
    <3>1. CASE c.last
      BY <1>6, <1>8, <1>9, <2>1, <3>1 DEF UccAt
    <3>2. CASE ~c.last
      BY <1>6, <1>8, <1>9, <2>1, <3>2 DEF UccAt
    <3> QED
      BY <3>1, <3>2
  <2>3. RxLine'
    BY <1>1, <1>3, <1>7, <1>10, <1>11, <2>2, RxWitness
  <2> QED
    BY <1>3, <1>11, <2>3, RphSame, FateKept DEF RxOk, RxKept
<1>14. CASE ucc.st = "ACCUMULATE"
  <2>1. uv = a /\ Heard(ucc.seen, p) /\ ucc' = [st |-> IF c.last THEN "CHK" ELSE "ACCUMULATE", seen |-> ucc.seen \o c.w]
    BY <1>1, <1>2, <1>3, <1>5, <1>14 DEF UccAt
  <2>2. Heard(ucc.seen \o c.w, p)
    <3>1. PICK S, w, v, s : w = c.w /\ v = ucc.seen /\ S = Elems(w) \cup Elems(v) /\ s = v \o w
      OBVIOUS
    <3>2. w \in Seq(S) /\ v \in Seq(S) /\ Len(v) >= 3
      BY <1>12, <2>1, <3>1 DEF IsSeq, Heard
    <3>3. /\ s \in Seq(S) /\ Len(s) = Len(v) + Len(w) /\ Len(v) \in Nat /\ Len(w) \in Nat
          /\ \A k \in 1..Len(v) : s[k] = v[k]
      <4>1. v \o w = s
        BY <3>1
      <4> QED
        BY <3>2, <4>1, CatIs
    <3>4. Len(s) >= 3 /\ s[3] = v[3]
      BY <3>2, <3>3
    <3> QED
      BY <2>1, <3>1, <3>3, <3>4, SeqIs DEF Heard
  <2>3. UccAt(ucc', q, a, u2, uv)
    <3>1. CASE c.last
      BY <1>5, <1>6, <1>8, <1>9, <2>1, <2>2, <3>1 DEF UccAt
    <3>2. CASE ~c.last
      BY <1>5, <1>6, <1>8, <1>9, <2>1, <2>2, <3>2 DEF UccAt
    <3> QED
      BY <3>1, <3>2
  <2>4. RxLine'
    BY <1>1, <1>3, <1>7, <1>10, <1>11, <2>3, RxWitness
  <2> QED
    BY <1>3, <1>11, <2>4, RphSame, FateKept DEF RxOk, RxKept
<1> QED
  BY <1>3, <1>13, <1>14

\* The sum is right only if it was sent so.
LEMMA SentIs ==
    ASSUME NEW k, NEW o, NEW n \in Nat
    PROVE  (<<k>> \o Datagram(k, o, "sum", n))[3] = <<k, "sum", n>>
<1>1. PICK d, e : d = Data(k, n) /\ e = <<<<k, "ports", o>>, <<k, "sum", n>>>>
  OBVIOUS
<1>2. PICK S : S = {d[i] : i \in 1..n} \cup {<<k, "ports", o>>, <<k, "sum", n>>, k}
  OBVIOUS
<1>3. d = [i \in 1..n |-> <<k, "data", i>>]
  BY <1>1 DEF Data
<1>4. \A i \in 1..n : d[i] \in S
  BY <1>2
<1>5. d \in Seq(S) /\ e \in Seq(S) /\ Len(e) = 2 /\ e[2] = <<k, "sum", n>>
  BY <1>1, <1>2, <1>3, <1>4
<1>6. PICK D : D = e \o d
  OBVIOUS
<1>7. D \in Seq(S) /\ Len(D) = Len(e) + Len(d) /\ Len(d) \in Nat /\ \A i \in 1..Len(e) : D[i] = e[i]
  BY <1>5, <1>6, CatIs
<1>8. D \in Seq(S) /\ Len(D) >= 2 /\ D[2] = <<k, "sum", n>>
  BY <1>5, <1>7
<1>9. <<k>> \in Seq(S) /\ Len(<<k>>) = 1
  BY <1>2
<1>10. \A i \in 1..Len(D) : (<<k>> \o D)[Len(<<k>>) + i] = D[i]
  BY <1>8, <1>9, CatIs
<1>11. (<<k>> \o D)[3] = D[2]
  BY <1>5, <1>7, <1>8, <1>9, <1>10
<1> QED
  BY <1>1, <1>6, <1>8, <1>11 DEF Datagram

LEMMA UccVerdictKeeps ==
    ASSUME RxOk, UccVerdict, UNCHANGED work
    PROVE  RxKept
<1>1. PICK q, y, hw, dw, a, u, uv, b, dr, hr, rv :
          /\ IhsAt(ihs, ch["uoe"], q, y, hw, dw) /\ AllTrimmed(q, hw)
          /\ UccAt(ucc, q, a, u, uv) /\ RphAt(rph, q, b, dr, hr, rv)
          /\ Line("hdr", ch["hdr"], q, hr, hw) /\ Line("dgram", ch["uccDgrm"], q, u, dw)
          /\ Line("dgram", ch["rphDgrm"], q, dr, u) /\ Judged(ch["csumVal"], q, rv, uv)
  BY Zenon DEF RxOk, RxLine
<1>2. PICK s, k, whole, x : /\ s = ucc.seen /\ k = s[3][1] /\ whole = <<k>> \o Datagram(k, s[2][3], "sum", s[3][3])
                        /\ x = [id |-> k, valid |-> s = whole]
  BY ZenonT(60)
<1>3. /\ ucc.st = "CHK" /\ UNCHANGED <<fate, ihs, rph>> /\ ch' = Put(ch, "csumVal", x) /\ ucc' = [st |-> "IDLE", seen |-> <<>>]
  BY <1>2, Zenon DEF UccVerdict, Ucc, Quiet
<1>4. Rxs(ch') /\ ch'["csumVal"] = Append(ch["csumVal"], x) /\ \A c \in Stream : c # "csumVal" => ch'[c] = ch[c]
  BY <1>3, RxsStart, PlainPut DEF RxOk, Plain, RxStream
<1>5. ch'["uoe"] = ch["uoe"] /\ ch'["hdr"] = ch["hdr"] /\ ch'["uccDgrm"] = ch["uccDgrm"] /\ ch'["rphDgrm"] = ch["rphDgrm"]
  BY <1>4, RxStreams DEF RxStream
<1>6. IsSeq(ch["csumVal"])
  BY RxStreams DEF RxOk, Kinds, RxStream
<1>7. a \in Nat /\ u = <<a + 1, 1>> /\ uv = a /\ Heard(s, q[a])
  BY <1>1, <1>2, <1>3 DEF UccAt
<1>8. PICK p : p = q[a]
  OBVIOUS
<1>9. s[3] = <<p.id, p.csum, p.n>> /\ p.n \in Nat
  BY <1>7, <1>8 DEF Heard, Good, FrameType
<1>10. k = p.id /\ s[3][3] = p.n
  BY <1>2, <1>9
<1>11. whole[3] = <<k, "sum", p.n>>
  BY <1>2, <1>9, <1>10, SentIs
<1>12. s = whole => p.csum # "bad"
  BY <1>9, <1>11
<1>13. x.id = q[uv].id /\ (x.valid => q[uv].csum # "bad")
  BY <1>2, <1>7, <1>8, <1>10, <1>12
<1>14. Judged(ch'["csumVal"], q, rv, a + 1)
  BY <1>1, <1>4, <1>6, <1>7, <1>13, JudgedPut
<1>15. UccAt(ucc', q, a + 1, u, a + 1)
  BY <1>3, <1>7 DEF UccAt
<1>16. RxLine'
  BY <1>1, <1>3, <1>5, <1>14, <1>15, RxWitness
<1> QED
  BY <1>3, <1>4, <1>16, RphSame, FateKept DEF RxOk, RxKept

LEMMA UccKeeps ==
    ASSUME RxOk, UdpChecksumChecker, UNCHANGED work
    PROVE  RxKept
BY UccTokenKeeps, UccStartKeeps, UccStreamKeeps, UccVerdictKeeps DEF UdpChecksumChecker

-----------------------------------------------------------------------------
(* The steps of pRxPacketHandler *)

LEMMA JudgedPop ==
    ASSUME NEW s, NEW q, NEW rv, NEW uv, Judged(s, q, rv, uv), IsSeq(s), s # <<>>
    PROVE  /\ Head(s).id = q[rv].id /\ (Head(s).valid => q[rv].csum # "bad")
           /\ Judged(Tail(s), q, rv + 1, uv)
<1>1. PICK r, n : r = Tail(s) /\ n = Len(s)
  OBVIOUS
<1>2. Head(s) = s[1] /\ Len(r) = n - 1 /\ n \in Nat \ {0} /\ \A i \in 1 .. n - 1 : r[i] = s[i + 1]
  BY <1>1, TailFits, Zenon
<1>3. rv \in Nat /\ uv = rv + n
  BY <1>1 DEF Judged
<1>4. \A j \in 1..n : s[j].id = q[rv + j - 1].id /\ (s[j].valid => q[rv + j - 1].csum # "bad")
  BY <1>1 DEF Judged
<1>5. 1 \in 1..n /\ rv + 1 - 1 = rv
  BY <1>2, <1>3
<1>6. s[1].id = q[rv].id /\ (s[1].valid => q[rv].csum # "bad")
  BY <1>4, <1>5, Zenon
<1>7. ASSUME NEW j \in 1..Len(r)
      PROVE  r[j].id = q[(rv + 1) + j - 1].id /\ (r[j].valid => q[(rv + 1) + j - 1].csum # "bad")
  <2>1. r[j] = s[j + 1] /\ j + 1 \in 1..n /\ rv + (j + 1) - 1 = (rv + 1) + j - 1
    BY <1>2, <1>3
  <2>2. s[j + 1].id = q[rv + (j + 1) - 1].id /\ (s[j + 1].valid => q[rv + (j + 1) - 1].csum # "bad")
    BY <1>4, <2>1, Zenon
  <2> QED
    BY <2>1, <2>2
<1>8. rv + 1 \in Nat /\ uv = (rv + 1) + Len(r)
  BY <1>2, <1>3
<1>9. Judged(r, q, rv + 1, uv)
  BY <1>7, <1>8, Zenon DEF Judged
<1> QED
  BY <1>1, <1>2, <1>6, <1>9

\* What can be said of a packet that UOE has taken.
LEMMA TakenSays ==
    ASSUME RxOk, NEW p, Good(p), Trimmed(p)
    PROVE  OfUdp(p.id) /\ (p.csum # "bad" => OfSender(p.id, p.src))
<1>1. p.ttl # 1 /\ p.proto = "udp"
  BY DEF Good
<1>2. OfUdp(p.id)
  BY <1>1, TrimmedSays DEF RxOk, FateLine
<1>3. PICK f \in Frames : /\ Sound(f) /\ p.id = f.id /\ p.src = f.src /\ p.ttl = f.ttl /\ p.proto = f.proto
                          /\ p.msg = f.msg /\ p.ihl = f.ihl /\ p.port = f.port /\ p.csum = f.csum /\ p.n = f.n
                          /\ f \in FrameType /\ p \in FrameType /\ \A g \in Frames : g.id = p.id => g = f
  BY TrimmedIs, Zenon DEF RxOk, FateLine
<1>4. p.csum # "bad" => OfSender(p.id, p.src)
  BY <1>1, <1>3 DEF OfSender, ToUoe
<1> QED
  BY <1>2, <1>4

LEMMA RxSeqs ==
    ASSUME RxOk
    PROVE  IsSeq(ch["hdr"]) /\ IsSeq(ch["uccDgrm"]) /\ IsSeq(ch["rphDgrm"]) /\ IsSeq(ch["csumVal"])
BY RxStreams DEF RxOk, Kinds, RxStream

LEMMA RphIdleKeeps ==
    ASSUME RxOk, RphIdle, UNCHANGED work
    PROVE  RxKept
<1>1. PICK q, y, hw, dw, a, u, uv, b, dr, hr, rv :
          /\ IhsAt(ihs, ch["uoe"], q, y, hw, dw) /\ AllTrimmed(q, hw)
          /\ UccAt(ucc, q, a, u, uv) /\ RphAt(rph, q, b, dr, hr, rv)
          /\ Line("hdr", ch["hdr"], q, hr, hw) /\ Line("dgram", ch["uccDgrm"], q, u, dw)
          /\ Line("dgram", ch["rphDgrm"], q, dr, u) /\ Judged(ch["csumVal"], q, rv, uv)
  BY Zenon DEF RxOk, RxLine
<1>2. PICK e, h, c, o, r, x : /\ e = Head(ch["rphDgrm"]) /\ h = Head(ch["hdr"]) /\ c = e.w /\ o = Pop(ch, "rphDgrm")
                           /\ r = Pop(o, "hdr") /\ x = [id |-> c[2][1], port |-> c[1][3]]
  OBVIOUS
<1>3. /\ rph.st = "IDLE" /\ ch["rphDgrm"] # <<>> /\ ch["hdr"] # <<>> /\ UNCHANGED <<fate, ihs, ucc>>
      /\ ch' = Put(r, "portReq", x)
      /\ rph' = [st |-> "PORT_LOOKUP", id |-> c[2][1], port |-> c[1][3], n |-> c[2][3], src |-> Me, hdr |-> FALSE]
  BY <1>2, Zenon DEF RphIdle, Rph, Some
<1>4. b \in Nat /\ dr = <<b, 1>> /\ hr = <<b, 1>> /\ rv = b
  BY <1>1, <1>3 DEF RphAt
<1>5. PICK p, D : p = q[b] /\ D = Dgram(p)
  OBVIOUS
<1>6. dr[1] = b /\ dr[2] = 1 /\ hr[1] = b /\ hr[2] = 1
  BY <1>4
<1>7. Says("dgram", e, p, 1) /\ Line("dgram", Tail(ch["rphDgrm"]), q, Nx("dgram", q, dr), u)
  BY <1>1, <1>2, <1>3, <1>5, <1>6, RxSeqs, LinePop
<1>8. Says("hdr", h, p, 1) /\ Line("hdr", Tail(ch["hdr"]), q, Nx("hdr", q, hr), hw)
  BY <1>1, <1>2, <1>3, <1>5, <1>6, RxSeqs, LinePop
<1>9. Good(p) /\ IsCut(c, D, 1)
  BY <1>2, <1>5, <1>7 DEF Says
<1>10. /\ p.n \in Nat \ {0} /\ Len(D) = p.n + 2 /\ D[2] = <<p.id, p.csum, p.n>>
       /\ Size("dgram", p) \in Nat /\ Size("dgram", p) >= 2 /\ Size("hdr", p) \in Nat /\ Size("hdr", p) >= 3
  BY <1>5, <1>9, PacketIs, HeaderEnds DEF Size
<1>11. c[2] = <<p.id, p.csum, p.n>>
  BY <1>9, <1>10 DEF IsCut
<1>12. c[2][1] = p.id /\ c[2][3] = p.n
  BY <1>11
<1>13. Nx("dgram", q, dr) = <<b, 2>> /\ Nx("hdr", q, hr) = <<b, 2>>
  BY <1>4, <1>5, <1>10 DEF Nx
<1>14. Trimmed(p)
  <2>1. Before(hr, hw)
    BY <1>1, <1>3, RxSeqs, LineOrder
  <2> QED
    BY <1>1, <1>4, <1>5, <2>1 DEF AllTrimmed
<1>15. /\ Rxs(ch') /\ ch'["rphDgrm"] = Tail(ch["rphDgrm"]) /\ ch'["hdr"] = Tail(ch["hdr"])
       /\ ch'["uoe"] = ch["uoe"] /\ ch'["uccDgrm"] = ch["uccDgrm"] /\ ch'["csumVal"] = ch["csumVal"]
  <2>1. {"uccDgrm", "portReq", "rphDgrm", "csumVal", "hdr", "uoe"} \subseteq RxStream /\ "portReq" \in Plain
    BY DEF Plain, RxStream
  <2>2. Rxs(o) /\ o["rphDgrm"] = Tail(ch["rphDgrm"]) /\ \A k \in Stream : k # "rphDgrm" => o[k] = ch[k]
    BY <1>2, <1>3, <2>1, RxsStart, RxsPop DEF RxOk
  <2>3. Rxs(r) /\ r["hdr"] = Tail(o["hdr"]) /\ \A k \in Stream : k # "hdr" => r[k] = o[k]
    BY <1>2, <1>3, <2>1, <2>2, RxStreams, RxsPop
  <2>4. Rxs(ch') /\ \A k \in Stream : k # "portReq" => ch'[k] = r[k]
    BY <1>3, <2>1, <2>3, PlainPut
  <2> QED
    BY <2>1, <2>2, <2>3, <2>4, RxStreams
<1>16. rph' = [st |-> "PORT_LOOKUP", id |-> p.id, port |-> c[1][3], n |-> p.n, src |-> Me, hdr |-> FALSE]
  BY <1>3, <1>12
<1>17. RphAt(rph', q, b, <<b, 2>>, <<b, 2>>, rv)
  BY <1>4, <1>5, <1>16 DEF RphAt
<1>18. RxLine'
  BY <1>1, <1>3, <1>7, <1>8, <1>13, <1>15, <1>17, RxWitness
<1>19. RphLine'
  <2>1. OfUdp(p.id)
    BY <1>9, <1>14, TakenSays
  <2>2. rph'.id = p.id /\ rph'.st = "PORT_LOOKUP"
    BY <1>16
  <2> QED
    BY <2>1, <2>2 DEF RphLine, OfUdp, Frames, ToUoe, Sound
<1> QED
  BY <1>3, <1>15, <1>18, <1>19, FateKept DEF RxOk, RxKept

LEMMA RphLookupKeeps ==
    ASSUME RxOk, RphLookup, UNCHANGED work
    PROVE  RxKept
<1>1. PICK q, y, hw, dw, a, u, uv, b, dr, hr, rv :
          /\ IhsAt(ihs, ch["uoe"], q, y, hw, dw) /\ AllTrimmed(q, hw)
          /\ UccAt(ucc, q, a, u, uv) /\ RphAt(rph, q, b, dr, hr, rv)
          /\ Line("hdr", ch["hdr"], q, hr, hw) /\ Line("dgram", ch["uccDgrm"], q, u, dw)
          /\ Line("dgram", ch["rphDgrm"], q, dr, u) /\ Judged(ch["csumVal"], q, rv, uv)
  BY Zenon DEF RxOk, RxLine
<1>2. PICK v, port, h, o, r, g, next :
          /\ v = Head(ch["csumVal"]) /\ port = Head(ch["portRep"]) /\ h = Head(ch["hdr"])
          /\ o = Pop(ch, "csumVal") /\ r = Pop(o, "portRep") /\ g = Pop(r, "hdr")
          /\ next = IF ~v.valid THEN "DRAIN_DATAGRAM" ELSE IF port.open THEN "STREAM_FIRST" ELSE "UNREACHABLE"
  OBVIOUS
<1>3. /\ rph.st = "PORT_LOOKUP" /\ ch["csumVal"] # <<>> /\ ch["portRep"] # <<>> /\ ch["hdr"] # <<>>
      /\ UNCHANGED <<fate, ihs, ucc>>
      /\ ch' = IF next = "STREAM_FIRST" THEN Put(g, "uaifLen", rph.n) ELSE g
      /\ rph' = [rph EXCEPT !.st = next, !.src = h.src]
  BY <1>2, Zenon DEF RphLookup, Rph, Some
<1>4. /\ b \in Nat /\ dr = <<b, 2>> /\ hr = <<b, 2>> /\ rv = b /\ rph.id = q[b].id /\ rph.n = q[b].n /\ rph.hdr = FALSE
      /\ rph = [st |-> rph.st, id |-> rph.id, port |-> rph.port, n |-> rph.n, src |-> rph.src, hdr |-> rph.hdr]
  BY <1>1, <1>3 DEF RphAt
<1>5. PICK p : p = q[b]
  OBVIOUS
<1>6. hr[1] = b /\ hr[2] = 2
  BY <1>4
<1>7. Says("hdr", h, p, 2) /\ Line("hdr", Tail(ch["hdr"]), q, Nx("hdr", q, hr), hw)
  BY <1>1, <1>2, <1>3, <1>5, <1>6, RxSeqs, LinePop
<1>8. (v.valid => p.csum # "bad") /\ Judged(Tail(ch["csumVal"]), q, b + 1, uv)
  BY <1>1, <1>2, <1>3, <1>4, <1>5, RxSeqs, JudgedPop
<1>9. Good(p) /\ h.src = p.src
  BY <1>7 DEF Says
<1>10. Size("hdr", p) \in Nat /\ Size("hdr", p) >= 3
  BY <1>9, HeaderEnds DEF Size
<1>11. Nx("hdr", q, hr) = <<b, 3>>
  BY <1>4, <1>5, <1>10 DEF Nx
<1>12. Trimmed(p)
  <2>1. Before(hr, hw) /\ hw \in Pos
    BY <1>1, <1>3, RxSeqs, LineOrder
  <2>2. Before(<<b, 1>>, hw)
    BY <1>4, <2>1 DEF Before, Pos
  <2> QED
    BY <1>1, <1>4, <1>5, <2>2 DEF AllTrimmed
<1>13. /\ Rxs(ch') /\ ch'["csumVal"] = Tail(ch["csumVal"]) /\ ch'["hdr"] = Tail(ch["hdr"])
       /\ ch'["uoe"] = ch["uoe"] /\ ch'["uccDgrm"] = ch["uccDgrm"] /\ ch'["rphDgrm"] = ch["rphDgrm"]
  <2>1. {"uccDgrm", "portRep", "rphDgrm", "csumVal", "hdr", "uoe"} \subseteq RxStream /\ "uaifLen" \in Plain
    BY DEF Plain, RxStream
  <2>2. Rxs(o) /\ o["csumVal"] = Tail(ch["csumVal"]) /\ \A k \in Stream : k # "csumVal" => o[k] = ch[k]
    BY <1>2, <1>3, <2>1, RxsStart, RxsPop DEF RxOk
  <2>3. Rxs(r) /\ \A k \in Stream : k # "portRep" => r[k] = o[k]
    BY <1>2, <1>3, <2>1, <2>2, RxStreams, RxsPop
  <2>4. Rxs(g) /\ g["hdr"] = Tail(r["hdr"]) /\ \A k \in Stream : k # "hdr" => g[k] = r[k]
    BY <1>2, <1>3, <2>1, <2>2, <2>3, RxStreams, RxsPop
  <2>5. PICK f : f = Put(g, "uaifLen", rph.n)
    OBVIOUS
  <2>6. Rxs(f) /\ \A k \in Stream : k # "uaifLen" => f[k] = g[k]
    BY <2>1, <2>4, <2>5, PlainPut
  <2>7. ch' = f \/ ch' = g
    BY <1>3, <2>5
  <2>8. Rxs(ch') /\ \A k \in Stream : k # "uaifLen" => ch'[k] = g[k]
    BY <2>4, <2>6, <2>7
  <2> QED
    BY <2>1, <2>2, <2>3, <2>4, <2>8, RxStreams
<1>14. rph' = [st |-> next, id |-> p.id, port |-> rph.port, n |-> p.n, src |-> p.src, hdr |-> FALSE]
  <2>1. PICK st, k, m, n, s, t : st = rph.st /\ k = rph.id /\ m = rph.port /\ n = rph.n /\ s = rph.src /\ t = rph.hdr
    OBVIOUS
  <2>2. rph = [st |-> st, id |-> k, port |-> m, n |-> n, src |-> s, hdr |-> t]
    BY <1>4, <2>1, Zenon
  <2>3. rph' = [st |-> next, id |-> k, port |-> m, n |-> n, src |-> h.src, hdr |-> t]
    BY <1>3, <2>2
  <2> QED
    BY <1>4, <1>5, <1>9, <2>1, <2>3
<1>15. next \in {"DRAIN_DATAGRAM", "STREAM_FIRST", "UNREACHABLE"} /\ (next = "STREAM_FIRST" => v.valid)
  BY <1>2
<1>16. RphAt(rph', q, b, <<b, 2>>, <<b, 3>>, b + 1)
  BY <1>4, <1>5, <1>14, <1>15 DEF RphAt
<1>17. RxLine'
  BY <1>1, <1>3, <1>4, <1>7, <1>8, <1>11, <1>13, <1>16, RxWitness
<1>18. RphLine'
  <2>1. OfUdp(p.id) /\ (next = "STREAM_FIRST" => OfSender(p.id, p.src))
    BY <1>8, <1>9, <1>12, <1>15, TakenSays
  <2>2. rph'.id = p.id /\ rph'.st = next /\ rph'.src = p.src
    BY <1>14
  <2> QED
    BY <2>1, <2>2 DEF RphLine, OfUdp, OfSender, Frames, ToUoe, Sound
<1> QED
  BY <1>3, <1>13, <1>17, <1>18, FateKept DEF RxOk, RxKept

LEMMA NextIs ==
    ASSUME NEW t, NEW q, NEW x \in Pos, NEW e, Says(t, e, q[x[1]], x[2])
    PROVE  /\ e.last \in BOOLEAN /\ Nx(t, q, x) = IF e.last THEN <<x[1] + 1, 1>> ELSE <<x[1], x[2] + 1>>
           /\ Good(q[x[1]])
BY DEF Says, Nx

\* The datagram that pRxPacketHandler is at is the same; only its state, and
\* whether the IP header is over, may change.
RphNow(s, t) == [st |-> s, id |-> rph.id, port |-> rph.port, n |-> rph.n, src |-> rph.src, hdr |-> t]

LEMMA RphShape ==
    ASSUME rph = [st |-> rph.st, id |-> rph.id, port |-> rph.port, n |-> rph.n, src |-> rph.src, hdr |-> rph.hdr],
           NEW s, NEW t
    PROVE  /\ [rph EXCEPT !.st = s] = RphNow(s, rph.hdr)
           /\ [rph EXCEPT !.hdr = t, !.st = s] = RphNow(s, t)
           /\ rph = RphNow(rph.st, rph.hdr)
<1>1. PICK st, k, m, n, c, h : st = rph.st /\ k = rph.id /\ m = rph.port /\ n = rph.n /\ c = rph.src /\ h = rph.hdr
  OBVIOUS
<1>2. rph = [st |-> st, id |-> k, port |-> m, n |-> n, src |-> c, hdr |-> h]
  BY <1>1, Zenon
<1>3. [rph EXCEPT !.st = s] = [st |-> s, id |-> k, port |-> m, n |-> n, src |-> c, hdr |-> h]
  BY <1>2
<1>4. PICK v : v = [rph EXCEPT !.hdr = t]
  OBVIOUS
<1>5. v = [st |-> st, id |-> k, port |-> m, n |-> n, src |-> c, hdr |-> t]
  BY <1>2, <1>4
<1>6. [v EXCEPT !.st = s] = [st |-> s, id |-> k, port |-> m, n |-> n, src |-> c, hdr |-> t]
  BY <1>5
<1>7. [rph EXCEPT !.hdr = t, !.st = s] = [[rph EXCEPT !.hdr = t] EXCEPT !.st = s]
  BY Zenon
<1> QED
  BY <1>1, <1>2, <1>3, <1>4, <1>6, <1>7, Zenon DEF RphNow

LEMMA RphOn ==
    ASSUME RphLine, UNCHANGED work, rph.st # "IDLE", NEW s, NEW t, s # "STREAM_FIRST", rph' = RphNow(s, t)
    PROVE  RphLine'
<1>1. rph'.id = rph.id /\ rph'.st = s
  BY DEF RphNow
<1> QED
  BY <1>1 DEF RphLine, OfUdp, OfSender, Frames, ToUoe, Sound

LEMMA RphStreamFirstKeeps ==
    ASSUME RxOk, RphStreamFirst, UNCHANGED work
    PROVE  RxKept
<1>1. PICK q, y, hw, dw, a, u, uv, b, dr, hr, rv :
          /\ IhsAt(ihs, ch["uoe"], q, y, hw, dw) /\ AllTrimmed(q, hw)
          /\ UccAt(ucc, q, a, u, uv) /\ RphAt(rph, q, b, dr, hr, rv)
          /\ Line("hdr", ch["hdr"], q, hr, hw) /\ Line("dgram", ch["uccDgrm"], q, u, dw)
          /\ Line("dgram", ch["rphDgrm"], q, dr, u) /\ Judged(ch["csumVal"], q, rv, uv)
  BY Zenon DEF RxOk, RxLine
<1>2. PICK c, h, o, r, meta, f, g :
          /\ c = Head(ch["rphDgrm"]) /\ h = Head(ch["hdr"]) /\ o = Pop(ch, "hdr") /\ r = Pop(o, "rphDgrm")
          /\ meta = [id |-> rph.id, src |-> rph.src, port |-> rph.port]
          /\ f = Put(r, "uaifMeta", meta) /\ g = Put(f, "uaifData", c)
  OBVIOUS
<1>3. /\ rph.st = "STREAM_FIRST" /\ ch["rphDgrm"] # <<>> /\ ch["hdr"] # <<>> /\ UNCHANGED <<fate, ihs, ucc>>
      /\ ch' = IF rph.n = 0 THEN Pop(ch, "hdr") ELSE g
      /\ rph' = [rph EXCEPT !.hdr = h.last, !.st = IF rph.n = 0 \/ c.last THEN After(h.last) ELSE "STREAM"]
  BY <1>2, Zenon DEF RphStreamFirst, Rph, Some
<1>4. /\ b \in Nat /\ dr = <<b, 2>> /\ hr = <<b, 3>> /\ rv = b + 1 /\ rph.id = q[b].id /\ rph.n = q[b].n
      /\ rph = [st |-> rph.st, id |-> rph.id, port |-> rph.port, n |-> rph.n, src |-> rph.src, hdr |-> rph.hdr]
  BY <1>1, <1>3 DEF RphAt
<1>5. PICK p : p = q[b]
  OBVIOUS
<1>6. dr[1] = b /\ dr[2] = 2 /\ hr[1] = b /\ hr[2] = 3
  BY <1>4
<1>7. Says("dgram", c, q[dr[1]], dr[2]) /\ Line("dgram", Tail(ch["rphDgrm"]), q, Nx("dgram", q, dr), u) /\ dr \in Pos
  BY <1>1, <1>2, <1>3, RxSeqs, LinePop
<1>8. Says("hdr", h, q[hr[1]], hr[2]) /\ Line("hdr", Tail(ch["hdr"]), q, Nx("hdr", q, hr), hw) /\ hr \in Pos
  BY <1>1, <1>2, <1>3, RxSeqs, LinePop
<1>9. PICK dr2, hr2 : dr2 = Nx("dgram", q, dr) /\ hr2 = Nx("hdr", q, hr)
  OBVIOUS
<1>10. dr2 = (IF c.last THEN <<b + 1, 1>> ELSE <<b, 3>>) /\ c.last \in BOOLEAN /\ Good(p)
  <2>1. c.last \in BOOLEAN /\ dr2 = (IF c.last THEN <<dr[1] + 1, 1>> ELSE <<dr[1], dr[2] + 1>>) /\ Good(q[dr[1]])
    BY <1>7, <1>9, NextIs
  <2> QED
    BY <1>5, <1>6, <2>1
<1>11. hr2 = (IF h.last THEN <<b + 1, 1>> ELSE <<b, 4>>) /\ h.last \in BOOLEAN
  <2>1. h.last \in BOOLEAN /\ hr2 = (IF h.last THEN <<hr[1] + 1, 1>> ELSE <<hr[1], hr[2] + 1>>)
    BY <1>8, <1>9, NextIs
  <2> QED
    BY <1>6, <2>1
<1>12. rph.n # 0
  BY <1>4, <1>5, <1>10 DEF Good, FrameType
<1>13. PICK s, t : s = (IF c.last THEN After(h.last) ELSE "STREAM") /\ t = h.last
  OBVIOUS
<1>14. ch' = g /\ rph' = RphNow(s, t)
  <2>1. ch' = g /\ rph' = [rph EXCEPT !.hdr = t, !.st = s]
    BY <1>3, <1>12, <1>13, Zenon
  <2> QED
    BY <1>4, <2>1, RphShape, Zenon
<1>15. Is("uaifMeta", meta)
  <2>1. OfSender(rph.id, rph.src)
    BY <1>3 DEF RxOk, RphLine
  <2> QED
    BY <1>2, <2>1 DEF Is
<1>16. /\ Rxs(ch') /\ ch'["rphDgrm"] = Tail(ch["rphDgrm"]) /\ ch'["hdr"] = Tail(ch["hdr"])
       /\ ch'["uoe"] = ch["uoe"] /\ ch'["uccDgrm"] = ch["uccDgrm"] /\ ch'["csumVal"] = ch["csumVal"]
  <2>1. {"uccDgrm", "uaifMeta", "uaifData", "rphDgrm", "csumVal", "hdr", "uoe"} \subseteq RxStream /\ "uaifData" \in Plain
    BY DEF Plain, RxStream
  <2>2. Rxs(o) /\ o["hdr"] = Tail(ch["hdr"]) /\ \A k \in Stream : k # "hdr" => o[k] = ch[k]
    BY <1>2, <1>3, <2>1, RxsStart, RxsPop DEF RxOk
  <2>3. Rxs(r) /\ r["rphDgrm"] = Tail(o["rphDgrm"]) /\ \A k \in Stream : k # "rphDgrm" => r[k] = o[k]
    BY <1>2, <1>3, <2>1, <2>2, RxStreams, RxsPop
  <2>4. Rxs(f) /\ \A k \in Stream : k # "uaifMeta" => f[k] = r[k]
    BY <1>2, <1>15, <2>1, <2>3, RxsPut
  <2>5. Rxs(g) /\ \A k \in Stream : k # "uaifData" => g[k] = f[k]
    BY <1>2, <2>1, <2>4, PlainPut
  <2> QED
    BY <1>14, <2>1, <2>2, <2>3, <2>4, <2>5, RxStreams
<1>17. RphAt(rph', q, IF s = "IDLE" THEN b + 1 ELSE b, dr2, hr2, rv)
  <2>1. CASE c.last /\ h.last
    <3>1. rph' = RphNow("IDLE", t) /\ s = "IDLE" /\ dr2 = <<b + 1, 1>> /\ hr2 = <<b + 1, 1>> /\ t \in BOOLEAN
      BY <1>10, <1>11, <1>13, <1>14, <2>1 DEF After
    <3> QED
      BY <1>4, <3>1 DEF RphNow, RphAt
  <2>2. CASE c.last /\ ~h.last
    <3>1. rph' = RphNow("DRAIN_IP4HDR", FALSE) /\ s # "IDLE" /\ dr2 = <<b + 1, 1>> /\ hr2 = <<b, 4>>
      BY <1>10, <1>11, <1>13, <1>14, <2>2 DEF After
    <3> QED
      BY <1>4, <3>1 DEF RphNow, RphAt
  <2>3. CASE ~c.last
    <3>1. rph' = RphNow("STREAM", t) /\ s # "IDLE" /\ dr2 = <<b, 3>> /\ t \in BOOLEAN
      BY <1>10, <1>11, <1>13, <1>14, <2>3
    <3>2. (t = TRUE => hr2 = <<b + 1, 1>>) /\ (t = FALSE => hr2 = <<b, 4>>)
      BY <1>11, <1>13
    <3> QED
      BY <1>4, <3>1, <3>2 DEF RphNow, RphAt
  <2> QED
    BY <2>1, <2>2, <2>3
<1>18. RxLine'
  BY <1>1, <1>3, <1>7, <1>8, <1>9, <1>16, <1>17, RxWitness
<1>19. RphLine'
  <2>1. s # "STREAM_FIRST"
    BY <1>13 DEF After
  <2> QED
    BY <1>3, <1>14, <2>1, RphOn DEF RxOk
<1> QED
  BY <1>3, <1>16, <1>18, <1>19, FateKept DEF RxOk, RxKept

LEMMA RphStreamKeeps ==
    ASSUME RxOk, RphStream, UNCHANGED work
    PROVE  RxKept
<1>1. PICK q, y, hw, dw, a, u, uv, b, dr, hr, rv :
          /\ IhsAt(ihs, ch["uoe"], q, y, hw, dw) /\ AllTrimmed(q, hw)
          /\ UccAt(ucc, q, a, u, uv) /\ RphAt(rph, q, b, dr, hr, rv)
          /\ Line("hdr", ch["hdr"], q, hr, hw) /\ Line("dgram", ch["uccDgrm"], q, u, dw)
          /\ Line("dgram", ch["rphDgrm"], q, dr, u) /\ Judged(ch["csumVal"], q, rv, uv)
  BY Zenon DEF RxOk, RxLine
<1>2. PICK c, h, o, g, drain :
          /\ c = Head(ch["rphDgrm"]) /\ h = Head(ch["hdr"]) /\ o = Pop(ch, "rphDgrm") /\ g = Put(o, "uaifData", c)
          /\ drain = (~c.last /\ ~rph.hdr /\ ch["hdr"] # <<>>)
  OBVIOUS
<1>3. /\ rph.st = "STREAM" /\ ch["rphDgrm"] # <<>> /\ UNCHANGED <<fate, ihs, ucc>>
      /\ ch' = IF drain THEN Pop(g, "hdr") ELSE g
      /\ rph' = [rph EXCEPT !.hdr = @ \/ (drain /\ h.last), !.st = IF c.last THEN After(rph.hdr) ELSE "STREAM"]
  BY <1>2, Zenon DEF RphStream, Rph, Some
<1>4. /\ b \in Nat /\ dr[1] = b /\ dr[2] >= 2 /\ rv = b + 1 /\ rph.id = q[b].id /\ rph.hdr \in BOOLEAN
      /\ rph.hdr = TRUE => hr = <<b + 1, 1>>
      /\ rph.hdr = FALSE => hr[1] = b /\ hr[2] >= 2
      /\ rph = [st |-> rph.st, id |-> rph.id, port |-> rph.port, n |-> rph.n, src |-> rph.src, hdr |-> rph.hdr]
  BY <1>1, <1>3 DEF RphAt
<1>5. Says("dgram", c, q[dr[1]], dr[2]) /\ Line("dgram", Tail(ch["rphDgrm"]), q, Nx("dgram", q, dr), u) /\ dr \in Pos
  BY <1>1, <1>2, <1>3, RxSeqs, LinePop
<1>6. PICK i, k, dr2 : i = dr[2] /\ k = hr[2] /\ dr2 = Nx("dgram", q, dr)
  OBVIOUS
<1>7. dr2 = (IF c.last THEN <<b + 1, 1>> ELSE <<b, i + 1>>) /\ c.last \in BOOLEAN /\ i \in Nat /\ i >= 2
  <2>1. c.last \in BOOLEAN /\ dr2 = (IF c.last THEN <<dr[1] + 1, 1>> ELSE <<dr[1], dr[2] + 1>>)
    BY <1>5, <1>6, NextIs
  <2> QED
    BY <1>4, <1>5, <1>6, <2>1 DEF Pos
<1>8. PICK t, s : t = (rph.hdr \/ (drain /\ h.last)) /\ s = (IF c.last THEN After(rph.hdr) ELSE "STREAM")
  OBVIOUS
<1>9. rph' = RphNow(s, t)
  <2>1. rph' = [rph EXCEPT !.hdr = t, !.st = s]
    BY <1>3, <1>8, Zenon
  <2> QED
    BY <1>4, <2>1, RphShape, Zenon
<1>10. /\ Rxs(g) /\ g["rphDgrm"] = Tail(ch["rphDgrm"]) /\ g["hdr"] = ch["hdr"]
       /\ g["uoe"] = ch["uoe"] /\ g["uccDgrm"] = ch["uccDgrm"] /\ g["csumVal"] = ch["csumVal"]
  <2>1. {"uccDgrm", "rphDgrm", "csumVal", "hdr", "uoe"} \subseteq RxStream /\ "uaifData" \in Plain
    BY DEF Plain, RxStream
  <2>2. Rxs(o) /\ o["rphDgrm"] = Tail(ch["rphDgrm"]) /\ \A z \in Stream : z # "rphDgrm" => o[z] = ch[z]
    BY <1>2, <1>3, <2>1, RxsStart, RxsPop DEF RxOk
  <2>3. Rxs(g) /\ \A z \in Stream : z # "uaifData" => g[z] = o[z]
    BY <1>2, <2>1, <2>2, PlainPut
  <2> QED
    BY <2>1, <2>2, <2>3, RxStreams
<1>11. RphLine'
  <2>1. s # "STREAM_FIRST"
    BY <1>8 DEF After
  <2> QED
    BY <1>3, <1>9, <2>1, RphOn DEF RxOk
<1>12. CASE ~c.last /\ ~rph.hdr /\ ch["hdr"] # <<>>
  <2>1. ch' = Pop(g, "hdr") /\ s = "STREAM" /\ (t <=> h.last) /\ rph.hdr = FALSE
    BY <1>2, <1>3, <1>4, <1>8, <1>12
  <2>2. Says("hdr", h, q[hr[1]], hr[2]) /\ Line("hdr", Tail(ch["hdr"]), q, Nx("hdr", q, hr), hw) /\ hr \in Pos
    BY <1>1, <1>2, <1>12, RxSeqs, LinePop
  <2>3. PICK hr2 : hr2 = Nx("hdr", q, hr)
    OBVIOUS
  <2>4. hr2 = (IF h.last THEN <<b + 1, 1>> ELSE <<b, k + 1>>) /\ h.last \in BOOLEAN /\ k \in Nat /\ k >= 2
    <3>1. h.last \in BOOLEAN /\ hr2 = (IF h.last THEN <<hr[1] + 1, 1>> ELSE <<hr[1], hr[2] + 1>>)
      BY <2>2, <2>3, NextIs
    <3> QED
      BY <1>4, <1>6, <2>1, <2>2, <3>1 DEF Pos
  <2>5. /\ Rxs(ch') /\ ch'["hdr"] = Tail(ch["hdr"]) /\ ch'["rphDgrm"] = Tail(ch["rphDgrm"])
        /\ ch'["uoe"] = ch["uoe"] /\ ch'["uccDgrm"] = ch["uccDgrm"] /\ ch'["csumVal"] = ch["csumVal"]
    <3>1. {"uccDgrm", "rphDgrm", "csumVal", "hdr", "uoe"} \subseteq RxStream
      BY DEF RxStream
    <3>2. Rxs(ch') /\ ch'["hdr"] = Tail(g["hdr"]) /\ \A z \in Stream : z # "hdr" => ch'[z] = g[z]
      BY <1>10, <1>12, <2>1, <3>1, RxsPop
    <3> QED
      BY <1>10, <3>1, <3>2, RxStreams
  <2>6. rph' = RphNow("STREAM", h.last)
    <3>1. t = h.last
      BY <1>8, <2>1, <2>4
    <3> QED
      BY <1>9, <2>1, <3>1
  <2>7. dr2 = <<b, i + 1>>
    BY <1>7, <1>12
  <2>8. RphAt(rph', q, b, dr2, hr2, rv)
    BY <1>4, <1>7, <2>4, <2>6, <2>7 DEF RphNow, RphAt
  <2>9. RxLine'
    BY <1>1, <1>3, <1>5, <1>6, <2>2, <2>3, <2>5, <2>8, RxWitness
  <2> QED
    BY <1>3, <1>11, <2>5, <2>9, FateKept DEF RxOk, RxKept
<1>13. CASE ~(~c.last /\ ~rph.hdr /\ ch["hdr"] # <<>>)
  <2>1. ch' = g /\ t = rph.hdr
    BY <1>2, <1>3, <1>4, <1>8, <1>13
  <2>2. RphAt(rph', q, IF s = "IDLE" THEN b + 1 ELSE b, dr2, hr, rv)
    <3>1. CASE c.last /\ rph.hdr
      <4>1. rph' = RphNow("IDLE", TRUE) /\ s = "IDLE" /\ dr2 = <<b + 1, 1>> /\ hr = <<b + 1, 1>>
        BY <1>4, <1>7, <1>8, <1>9, <2>1, <3>1 DEF After
      <4> QED
        BY <1>4, <4>1 DEF RphNow, RphAt
    <3>2. CASE c.last /\ ~rph.hdr
      <4>1. rph' = RphNow("DRAIN_IP4HDR", FALSE) /\ s # "IDLE" /\ dr2 = <<b + 1, 1>> /\ hr[1] = b /\ hr[2] >= 2
        BY <1>4, <1>7, <1>8, <1>9, <2>1, <3>2 DEF After
      <4> QED
        BY <1>4, <4>1 DEF RphNow, RphAt
    <3>3. CASE ~c.last
      <4>1. rph' = RphNow("STREAM", rph.hdr) /\ s # "IDLE" /\ dr2 = <<b, i + 1>>
        BY <1>7, <1>8, <1>9, <2>1, <3>3
      <4> QED
        BY <1>4, <1>7, <4>1 DEF RphNow, RphAt
    <3> QED
      BY <3>1, <3>2, <3>3
  <2>3. RxLine'
    BY <1>1, <1>3, <1>5, <1>6, <1>10, <2>1, <2>2, RxWitness
  <2> QED
    BY <1>3, <1>10, <1>11, <2>1, <2>3, FateKept DEF RxOk, RxKept
<1> QED
  BY <1>12, <1>13

LEMMA RphDrainDatagramKeeps ==
    ASSUME RxOk, RphDrainDatagram, UNCHANGED work
    PROVE  RxKept
<1>1. PICK q, y, hw, dw, a, u, uv, b, dr, hr, rv :
          /\ IhsAt(ihs, ch["uoe"], q, y, hw, dw) /\ AllTrimmed(q, hw)
          /\ UccAt(ucc, q, a, u, uv) /\ RphAt(rph, q, b, dr, hr, rv)
          /\ Line("hdr", ch["hdr"], q, hr, hw) /\ Line("dgram", ch["uccDgrm"], q, u, dw)
          /\ Line("dgram", ch["rphDgrm"], q, dr, u) /\ Judged(ch["csumVal"], q, rv, uv)
  BY Zenon DEF RxOk, RxLine
<1>2. PICK c, s : c = Head(ch["rphDgrm"]) /\ s = (IF c.last THEN After(rph.hdr) ELSE "DRAIN_DATAGRAM")
  OBVIOUS
<1>3. /\ rph.st = "DRAIN_DATAGRAM" /\ ch["rphDgrm"] # <<>> /\ UNCHANGED <<ihs, ucc>> /\ ch' = Pop(ch, "rphDgrm")
      /\ rph' = [rph EXCEPT !.st = s] /\ (Becomes(rph.id, "dropped") \/ UNCHANGED fate)
  BY <1>2, Zenon DEF RphDrainDatagram, Rph, Some
<1>4. /\ b \in Nat /\ dr[1] = b /\ dr[2] >= 2 /\ rv = b + 1 /\ rph.id = q[b].id /\ rph.hdr \in BOOLEAN
      /\ rph.hdr = TRUE => hr = <<b + 1, 1>>
      /\ rph.hdr = FALSE => hr[1] = b /\ hr[2] >= 2
      /\ rph = [st |-> rph.st, id |-> rph.id, port |-> rph.port, n |-> rph.n, src |-> rph.src, hdr |-> rph.hdr]
  BY <1>1, <1>3 DEF RphAt
<1>5. Says("dgram", c, q[dr[1]], dr[2]) /\ Line("dgram", Tail(ch["rphDgrm"]), q, Nx("dgram", q, dr), u) /\ dr \in Pos
  BY <1>1, <1>2, <1>3, RxSeqs, LinePop
<1>6. PICK i, dr2 : i = dr[2] /\ dr2 = Nx("dgram", q, dr)
  OBVIOUS
<1>7. dr2 = (IF c.last THEN <<b + 1, 1>> ELSE <<b, i + 1>>) /\ c.last \in BOOLEAN /\ i \in Nat /\ i >= 2
  <2>1. c.last \in BOOLEAN /\ dr2 = (IF c.last THEN <<dr[1] + 1, 1>> ELSE <<dr[1], dr[2] + 1>>)
    BY <1>5, <1>6, NextIs
  <2> QED
    BY <1>4, <1>5, <1>6, <2>1 DEF Pos
<1>8. rph' = RphNow(s, rph.hdr)
  BY <1>3, <1>4, RphShape, Zenon
<1>9. /\ Rxs(ch') /\ ch'["rphDgrm"] = Tail(ch["rphDgrm"]) /\ ch'["hdr"] = ch["hdr"]
      /\ ch'["uoe"] = ch["uoe"] /\ ch'["uccDgrm"] = ch["uccDgrm"] /\ ch'["csumVal"] = ch["csumVal"]
  <2>1. {"uccDgrm", "rphDgrm", "csumVal", "hdr", "uoe"} \subseteq RxStream
    BY DEF RxStream
  <2>2. Rxs(ch') /\ ch'["rphDgrm"] = Tail(ch["rphDgrm"]) /\ \A z \in Stream : z # "rphDgrm" => ch'[z] = ch[z]
    BY <1>3, <2>1, RxsStart, RxsPop DEF RxOk
  <2> QED
    BY <2>1, <2>2, RxStreams
<1>10. RphAt(rph', q, IF s = "IDLE" THEN b + 1 ELSE b, dr2, hr, rv)
  <2>1. CASE c.last /\ rph.hdr
    <3>1. rph' = RphNow("IDLE", TRUE) /\ s = "IDLE" /\ dr2 = <<b + 1, 1>> /\ hr = <<b + 1, 1>>
      BY <1>2, <1>4, <1>7, <1>8, <2>1 DEF After
    <3> QED
      BY <1>4, <3>1 DEF RphNow, RphAt
  <2>2. CASE c.last /\ ~rph.hdr
    <3>1. rph' = RphNow("DRAIN_IP4HDR", FALSE) /\ s # "IDLE" /\ dr2 = <<b + 1, 1>> /\ hr[1] = b /\ hr[2] >= 2
      BY <1>2, <1>4, <1>7, <1>8, <2>2 DEF After
    <3> QED
      BY <1>4, <3>1 DEF RphNow, RphAt
  <2>3. CASE ~c.last
    <3>1. rph' = RphNow("DRAIN_DATAGRAM", rph.hdr) /\ s # "IDLE" /\ dr2 = <<b, i + 1>>
      BY <1>2, <1>7, <1>8, <2>3
    <3> QED
      BY <1>4, <1>7, <3>1 DEF RphNow, RphAt
  <2> QED
    BY <2>1, <2>2, <2>3
<1>11. RxLine'
  BY <1>1, <1>3, <1>5, <1>6, <1>9, <1>10, RxWitness
<1>12. RphLine'
  <2>1. s # "STREAM_FIRST"
    BY <1>2 DEF After
  <2> QED
    BY <1>3, <1>8, <2>1, RphOn DEF RxOk
<1>13. FateLine'
  <2>1. OfUdp(rph.id)
    BY <1>3 DEF RxOk, RphLine
  <2>2. \A f \in Frames : f.id = rph.id => Just(f, "dropped")
    BY <2>1, JustThen
  <2>3. CASE Becomes(rph.id, "dropped")
    BY <2>2, <2>3, FateStep DEF RxOk
  <2>4. CASE UNCHANGED fate
    BY <2>4, FateKept DEF RxOk
  <2> QED
    BY <1>3, <2>3, <2>4
<1> QED
  BY <1>9, <1>11, <1>12, <1>13 DEF RxKept

LEMMA RphDrainHeaderKeeps ==
    ASSUME RxOk, RphDrainHeader, UNCHANGED work
    PROVE  RxKept
<1>1. PICK q, y, hw, dw, a, u, uv, b, dr, hr, rv :
          /\ IhsAt(ihs, ch["uoe"], q, y, hw, dw) /\ AllTrimmed(q, hw)
          /\ UccAt(ucc, q, a, u, uv) /\ RphAt(rph, q, b, dr, hr, rv)
          /\ Line("hdr", ch["hdr"], q, hr, hw) /\ Line("dgram", ch["uccDgrm"], q, u, dw)
          /\ Line("dgram", ch["rphDgrm"], q, dr, u) /\ Judged(ch["csumVal"], q, rv, uv)
  BY Zenon DEF RxOk, RxLine
<1>2. PICK h : h = Head(ch["hdr"])
  OBVIOUS
<1>3. /\ rph.st = "DRAIN_IP4HDR" /\ ch["hdr"] # <<>> /\ UNCHANGED <<fate, ihs, ucc>> /\ ch' = Pop(ch, "hdr")
      /\ rph' = IF h.last THEN NoDgrm ELSE rph
  BY <1>2, Zenon DEF RphDrainHeader, Rph, Some
<1>4. /\ b \in Nat /\ dr = <<b + 1, 1>> /\ rv = b + 1 /\ rph.id = q[b].id /\ rph.hdr = FALSE /\ hr[1] = b /\ hr[2] >= 2
      /\ rph = [st |-> rph.st, id |-> rph.id, port |-> rph.port, n |-> rph.n, src |-> rph.src, hdr |-> rph.hdr]
  BY <1>1, <1>3 DEF RphAt
<1>5. Says("hdr", h, q[hr[1]], hr[2]) /\ Line("hdr", Tail(ch["hdr"]), q, Nx("hdr", q, hr), hw) /\ hr \in Pos
  BY <1>1, <1>2, <1>3, RxSeqs, LinePop
<1>6. PICK k, hr2 : k = hr[2] /\ hr2 = Nx("hdr", q, hr)
  OBVIOUS
<1>7. hr2 = (IF h.last THEN <<b + 1, 1>> ELSE <<b, k + 1>>) /\ h.last \in BOOLEAN /\ k \in Nat /\ k >= 2
  <2>1. h.last \in BOOLEAN /\ hr2 = (IF h.last THEN <<hr[1] + 1, 1>> ELSE <<hr[1], hr[2] + 1>>)
    BY <1>5, <1>6, NextIs
  <2> QED
    BY <1>4, <1>5, <1>6, <2>1 DEF Pos
<1>9. /\ Rxs(ch') /\ ch'["hdr"] = Tail(ch["hdr"]) /\ ch'["rphDgrm"] = ch["rphDgrm"]
      /\ ch'["uoe"] = ch["uoe"] /\ ch'["uccDgrm"] = ch["uccDgrm"] /\ ch'["csumVal"] = ch["csumVal"]
  <2>1. {"uccDgrm", "rphDgrm", "csumVal", "hdr", "uoe"} \subseteq RxStream
    BY DEF RxStream
  <2>2. Rxs(ch') /\ ch'["hdr"] = Tail(ch["hdr"]) /\ \A z \in Stream : z # "hdr" => ch'[z] = ch[z]
    BY <1>3, <2>1, RxsStart, RxsPop DEF RxOk
  <2> QED
    BY <2>1, <2>2, RxStreams
<1>10. CASE h.last
  <2>1. rph' = NoDgrm /\ hr2 = <<b + 1, 1>>
    BY <1>3, <1>7, <1>10
  <2>2. RphAt(rph', q, b + 1, dr, hr2, rv)
    BY <1>4, <2>1 DEF NoDgrm, RphAt
  <2>3. RxLine'
    BY <1>1, <1>3, <1>5, <1>6, <1>9, <2>2, RxWitness
  <2>4. RphLine'
    BY <2>1 DEF NoDgrm, RphLine
  <2> QED
    BY <1>3, <1>9, <2>3, <2>4, FateKept DEF RxOk, RxKept
<1>11. CASE ~h.last
  <2>1. rph' = rph /\ hr2 = <<b, k + 1>>
    BY <1>3, <1>7, <1>11
  <2>2. RphAt(rph', q, b, dr, hr2, rv)
    <3>1. hr2[1] = b /\ hr2[2] >= 2
      BY <1>4, <1>7, <2>1
    <3> QED
      BY <1>1, <1>3, <1>4, <2>1, <3>1 DEF RphAt
  <2>3. RxLine'
    BY <1>1, <1>3, <1>5, <1>6, <1>9, <2>2, RxWitness
  <2>4. RphLine'
    BY <2>1, RphSame DEF RxOk
  <2> QED
    BY <1>3, <1>9, <2>3, <2>4, FateKept DEF RxOk, RxKept
<1> QED
  BY <1>10, <1>11

LEMMA RphUnreachableKeeps ==
    ASSUME RxOk, RphUnreachable, UNCHANGED work
    PROVE  RxKept
<1>1. PICK q, y, hw, dw, a, u, uv, b, dr, hr, rv :
          /\ IhsAt(ihs, ch["uoe"], q, y, hw, dw) /\ AllTrimmed(q, hw)
          /\ UccAt(ucc, q, a, u, uv) /\ RphAt(rph, q, b, dr, hr, rv)
          /\ Line("hdr", ch["hdr"], q, hr, hw) /\ Line("dgram", ch["uccDgrm"], q, u, dw)
          /\ Line("dgram", ch["rphDgrm"], q, dr, u) /\ Judged(ch["csumVal"], q, rv, uv)
  BY Zenon DEF RxOk, RxLine
<1>2. PICK h, o, meta : h = Head(ch["hdr"]) /\ o = Pop(ch, "hdr") /\ meta = [id |-> rph.id, src |-> rph.src]
  OBVIOUS
<1>3. /\ rph.st = "UNREACHABLE" /\ ch["hdr"] # <<>> /\ UNCHANGED <<ihs, ucc>>
      /\ ch' = IF h.last THEN Put(o, "unreach", meta) ELSE o
      /\ rph' = IF h.last THEN [rph EXCEPT !.hdr = TRUE, !.st = "DRAIN_DATAGRAM"] ELSE rph
      /\ IF h.last THEN Becomes(rph.id, "refused") ELSE UNCHANGED fate
  BY <1>2, Zenon DEF RphUnreachable, Rph, Some
<1>4. /\ b \in Nat /\ dr = <<b, 2>> /\ rv = b + 1 /\ rph.id = q[b].id /\ rph.hdr = FALSE /\ hr[1] = b /\ hr[2] >= 2
      /\ rph = [st |-> rph.st, id |-> rph.id, port |-> rph.port, n |-> rph.n, src |-> rph.src, hdr |-> rph.hdr]
  BY <1>1, <1>3 DEF RphAt
<1>5. Says("hdr", h, q[hr[1]], hr[2]) /\ Line("hdr", Tail(ch["hdr"]), q, Nx("hdr", q, hr), hw) /\ hr \in Pos
  BY <1>1, <1>2, <1>3, RxSeqs, LinePop
<1>6. PICK k, hr2 : k = hr[2] /\ hr2 = Nx("hdr", q, hr)
  OBVIOUS
<1>7. hr2 = (IF h.last THEN <<b + 1, 1>> ELSE <<b, k + 1>>) /\ h.last \in BOOLEAN /\ k \in Nat /\ k >= 2
  <2>1. h.last \in BOOLEAN /\ hr2 = (IF h.last THEN <<hr[1] + 1, 1>> ELSE <<hr[1], hr[2] + 1>>)
    BY <1>5, <1>6, NextIs
  <2> QED
    BY <1>4, <1>5, <1>6, <2>1 DEF Pos
<1>8. OfUdp(rph.id)
  BY <1>3 DEF RxOk, RphLine
<1>9. {"uccDgrm", "rphDgrm", "csumVal", "hdr", "uoe", "unreach"} \subseteq RxStream
  BY DEF RxStream
<1>12. Rxs(o) /\ o["hdr"] = Tail(ch["hdr"]) /\ \A z \in Stream : z # "hdr" => o[z] = ch[z]
  BY <1>2, <1>3, <1>9, RxsStart, RxsPop DEF RxOk
<1>10. CASE h.last
  <2>1. rph' = RphNow("DRAIN_DATAGRAM", TRUE) /\ hr2 = <<b + 1, 1>> /\ ch' = Put(o, "unreach", meta) /\ Becomes(rph.id, "refused")
    BY <1>3, <1>4, <1>7, <1>10, RphShape, Zenon
  <2>2. /\ Rxs(ch') /\ ch'["hdr"] = Tail(ch["hdr"]) /\ ch'["rphDgrm"] = ch["rphDgrm"]
        /\ ch'["uoe"] = ch["uoe"] /\ ch'["uccDgrm"] = ch["uccDgrm"] /\ ch'["csumVal"] = ch["csumVal"]
    <3>1. Is("unreach", meta)
      BY <1>2, <1>8 DEF Is
    <3>2. Rxs(ch') /\ \A z \in Stream : z # "unreach" => ch'[z] = o[z]
      BY <1>9, <1>12, <2>1, <3>1, RxsPut
    <3> QED
      BY <1>9, <1>12, <3>2, RxStreams
  <2>3. RphAt(rph', q, b, dr, hr2, rv)
    BY <1>4, <2>1 DEF RphNow, RphAt
  <2>4. RxLine'
    BY <1>1, <1>3, <1>5, <1>6, <2>2, <2>3, RxWitness
  <2>5. RphLine'
    BY <1>3, <2>1, RphOn DEF RxOk
  <2>6. FateLine'
    <3>1. \A f \in Frames : f.id = rph.id => Just(f, "refused")
      BY <1>8, JustThen
    <3> QED
      BY <2>1, <3>1, FateStep DEF RxOk
  <2> QED
    BY <2>2, <2>4, <2>5, <2>6 DEF RxKept
<1>11. CASE ~h.last
  <2>1. rph' = rph /\ hr2 = <<b, k + 1>> /\ ch' = o /\ UNCHANGED fate
    BY <1>3, <1>7, <1>11
  <2>2. /\ Rxs(ch') /\ ch'["hdr"] = Tail(ch["hdr"]) /\ ch'["rphDgrm"] = ch["rphDgrm"]
        /\ ch'["uoe"] = ch["uoe"] /\ ch'["uccDgrm"] = ch["uccDgrm"] /\ ch'["csumVal"] = ch["csumVal"]
    BY <1>9, <1>12, <2>1, RxStreams
  <2>3. RphAt(rph', q, b, dr, hr2, rv)
    <3>1. hr2[1] = b /\ hr2[2] >= 2
      BY <1>4, <1>7, <2>1
    <3> QED
      BY <1>1, <1>3, <1>4, <2>1, <3>1 DEF RphAt
  <2>4. RxLine'
    BY <1>1, <1>3, <1>5, <1>6, <2>2, <2>3, RxWitness
  <2>5. RphLine'
    BY <2>1, RphSame DEF RxOk
  <2> QED
    BY <2>1, <2>2, <2>4, <2>5, FateKept DEF RxOk, RxKept
<1> QED
  BY <1>10, <1>11

LEMMA RphKeeps ==
    ASSUME RxOk, RxPacketHandler, UNCHANGED work
    PROVE  RxKept
BY RphIdleKeeps, RphLookupKeeps, RphStreamFirstKeeps, RphStreamKeeps, RphDrainDatagramKeeps, RphDrainHeaderKeeps,
   RphUnreachableKeeps, Zenon DEF RxPacketHandler

-----------------------------------------------------------------------------
(* What a step of one part leaves to the others *)

LEMMA FramesStay ==
    ASSUME UNCHANGED work
    PROVE  Frames' = Frames
BY DEF Frames

LEMMA NamesStay ==
    ASSUME UNCHANGED work, NEW k, NEW ip
    PROVE  /\ Foreign(k)' <=> Foreign(k)
           /\ OfUdp(k)' <=> OfUdp(k)
           /\ OfIcmp(k)' <=> OfIcmp(k)
           /\ OfEcho(k)' <=> OfEcho(k)
           /\ OfNoEcho(k)' <=> OfNoEcho(k)
           /\ OfExpired(k)' <=> OfExpired(k)
           /\ OfReply(k)' <=> OfReply(k)
           /\ OfRole(k)' <=> OfRole(k)
           /\ OfSender(k, ip)' <=> OfSender(k, ip)
BY FramesStay DEF Foreign, OfUdp, OfIcmp, OfEcho, OfNoEcho, OfExpired, OfReply, OfRole, OfSender,
   ToUoe, ToIcmp, Replied, Sound, ForRole

LEMMA IsStays ==
    ASSUME UNCHANGED work, NEW c, NEW x, Is(c, x)
    PROVE  Is(c, x)'
<1>1. Frames' = Frames
  BY FramesStay
<1>2. (Came(x)' <=> Came(x)) /\ (Trimmed(x)' <=> Trimmed(x)) /\ (Sound(x)' <=> Sound(x))
  BY <1>1 DEF Came, Trimmed, Sound
<1>3. PICK k, m, b, i, s : k = x.id /\ m = x.w[1][1] /\ i = x.src /\ b = ("id" \in DOMAIN x) /\ s = (x \in Frames)
  OBVIOUS
<1>4. /\ Foreign(k)' <=> Foreign(k)
      /\ Foreign(m)' <=> Foreign(m)
      /\ OfUdp(k)' <=> OfUdp(k)
      /\ OfIcmp(k)' <=> OfIcmp(k)
      /\ OfEcho(k)' <=> OfEcho(k)
      /\ OfExpired(k)' <=> OfExpired(k)
      /\ OfReply(k)' <=> OfReply(k)
      /\ OfRole(k)' <=> OfRole(k)
      /\ OfSender(k, i)' <=> OfSender(k, i)
  BY NamesStay
<1> QED
  BY <1>1, <1>2, <1>3, <1>4 DEF Is

LEMMA KindsStay ==
    ASSUME UNCHANGED work, Kinds(ch')
    PROVE  Kinds(ch)'
<1>1. DOMAIN ch' = Stream
  BY DEF Kinds
<1>2. ASSUME NEW c \in Stream
      PROVE  IsSeq(ch[c])' /\ \A x \in Elems(ch'[c]) : Is(c, x)'
  <2>1. IsSeq(ch'[c]) /\ \A x \in Elems(ch'[c]) : Is(c, x)
    BY Zenon DEF Kinds
  <2> QED
    BY <2>1, IsStays, Zenon DEF IsSeq, Elems
<1> QED
  BY <1>1, <1>2, Zenon DEF Kinds, IsSeq, Elems

LEMMA DropsStay ==
    ASSUME UNCHANGED work, Drops(ch'["icmpData"], ch'["dropCmd"], icc')
    PROVE  DropLine'
<1>1. PICK p, d, i : p = ch'["icmpData"] /\ d = ch'["dropCmd"] /\ i = icc'
  OBVIOUS
<1>2. Drops(p, d, i)
  BY <1>1
<1>3. \A b, k : Sorted(b, k)' <=> Sorted(b, k)
  BY NamesStay, Zenon DEF Sorted
<1>4. \A m : Is("icmp", m) => Is("icmp", m)'
  BY IsStays, Zenon
<1>5. Drops(p, d, i)'
  BY <1>2, <1>3, <1>4, Zenon DEF Drops
<1> QED
  BY <1>1, <1>5 DEF DropLine, Drops

LEMMA IhsSame ==
    ASSUME NEW v, NEW s, NEW r, NEW q, NEW y, NEW hw, NEW dw, IhsAt(v, s, q, y, hw, dw), s # <<>> => r # <<>> /\ Head(r) = Head(s)
    PROVE  IhsAt(v, r, q, y, hw, dw)
BY DEF IhsAt

LEMMA RxSame ==
    ASSUME RxLine, RphLine, Kinds(ch), NEW T, SameBut(T, ch, ch'), T \cap {"hdr", "uccDgrm", "rphDgrm", "csumVal"} = {},
           Grown(ch, ch'), UNCHANGED <<work, ihs, ucc, rph>>
    PROVE  RxLine' /\ RphLine'
<1>1. PICK q, y, hw, dw, a, u, uv, b, dr, hr, rv :
          /\ IhsAt(ihs, ch["uoe"], q, y, hw, dw) /\ AllTrimmed(q, hw)
          /\ UccAt(ucc, q, a, u, uv) /\ RphAt(rph, q, b, dr, hr, rv)
          /\ Line("hdr", ch["hdr"], q, hr, hw) /\ Line("dgram", ch["uccDgrm"], q, u, dw)
          /\ Line("dgram", ch["rphDgrm"], q, dr, u) /\ Judged(ch["csumVal"], q, rv, uv)
  BY Zenon DEF RxLine
<1>2. /\ ch'["hdr"] = ch["hdr"] /\ ch'["uccDgrm"] = ch["uccDgrm"] /\ ch'["rphDgrm"] = ch["rphDgrm"]
      /\ ch'["csumVal"] = ch["csumVal"]
  <2>1. {"hdr", "uccDgrm", "rphDgrm", "csumVal"} \subseteq Stream
    BY DEF Stream, UdpStream
  <2> QED
    BY <2>1 DEF SameBut
<1>3. IhsAt(ihs, ch'["uoe"], q, y, hw, dw)
  <2>1. CASE ch'["uoe"] = ch["uoe"]
    BY <1>1, <2>1
  <2>2. CASE \E x : ch'["uoe"] = Append(ch["uoe"], x)
    <3>1. PICK x, s, r : s = ch["uoe"] /\ r = ch'["uoe"] /\ r = Append(s, x)
      BY <2>2
    <3>2. IsSeq(s)
      BY <3>1 DEF Kinds, Stream, IpStream
    <3>3. ASSUME s # <<>>
          PROVE  r # <<>> /\ Head(r) = Head(s)
      BY <3>1, <3>2, <3>3, AppendIs DEF IsSeq
    <3> QED
      BY <1>1, <3>1, <3>3, IhsSame, Zenon
  <2> QED
    BY <2>1, <2>2 DEF Grown
<1>4. RxLine'
  BY <1>1, <1>2, <1>3, RxWitness
<1> QED
  BY <1>4, RphSame

\* Induction from 0 to N.
LEMMA IntervalInduction ==
    ASSUME NEW N \in Nat, NEW S, 0 \in S,
           \A n \in 0 .. N - 1 : n \in S => n + 1 \in S
    PROVE  \A n \in 0 .. N : n \in S
<1> DEFINE T == {n \in 0 .. N : n \notin S}
<1> SUFFICES ASSUME T # {}
             PROVE  FALSE
  OBVIOUS
<1>1. PICK x \in T : \A y \in T : x <= y
  <2>1. T \subseteq Nat
    OBVIOUS
  <2> HIDE DEF T
  <2> QED
    BY <2>1, LeastNat
<1>2. x # 0 /\ x \in 1 .. N
  BY <1>1
<1>3. x - 1 \in 0 .. N - 1 /\ x - 1 \notin T
  BY <1>1, <1>2
<1>4. x - 1 \in S
  BY <1>2, <1>3
<1>5. (x - 1) + 1 \in S
  BY <1>3, <1>4
<1> QED
  BY <1>2, <1>5

\* A recursion along 1 .. N has a solution.
Solvable(N, V, init, step) ==
    \E f \in [0 .. N -> V] :
       f[0] = init /\ \A n \in 1 .. N : f[n] = step[<<n, f[n - 1]>>]

LEMMA IntervalRecursion ==
    ASSUME NEW N \in Nat, NEW V, NEW init \in V,
           NEW step \in [(1 .. N) \X V -> V]
    PROVE  Solvable(N, V, init, step)
<1> DEFINE Solves(f, m) == /\ f \in [0 .. m -> V] /\ f[0] = init
                           /\ \A n \in 1 .. m : f[n] = step[<<n, f[n - 1]>>]
           S == {m \in 0 .. N : \E f : Solves(f, m)}
<1>1. 0 \in S
  <2>1. Solves([n \in 0 .. 0 |-> init], 0)
    OBVIOUS
  <2> HIDE DEF Solves
  <2>2. \E f : Solves(f, 0)
    BY <2>1
  <2> QED
    BY <2>2
<1>2. ASSUME NEW m \in 0 .. N - 1, m \in S
      PROVE  m + 1 \in S
  <2>1. PICK f : Solves(f, m)
    BY <1>2
  <2> DEFINE last == step[<<m + 1, f[m]>>]
             g    == [n \in 0 .. m + 1 |-> IF n = m + 1 THEN last ELSE f[n]]
  <2>2. f[m] \in V /\ last \in V
    BY <2>1
  <2>3. g \in [0 .. m + 1 -> V] /\ g[0] = init
    BY <2>1, <2>2
  <2>4. ASSUME NEW n \in 1 .. m + 1
        PROVE  g[n] = step[<<n, g[n - 1]>>]
    <3>1. CASE n = m + 1
      <4>1. g[m + 1] = last /\ g[m] = f[m]
        OBVIOUS
      <4>2. (m + 1) - 1 = m
        OBVIOUS
      <4> QED
        BY <3>1, <4>1, <4>2
    <3>2. CASE n # m + 1
      BY <2>1, <3>2
    <3> QED
      BY <3>1, <3>2
  <2>5. Solves(g, m + 1)
    BY <2>3, <2>4
  <2> HIDE DEF g
  <2> QED
    BY <2>5
<1> HIDE DEF S
<1>3. N \in S
  BY <1>1, <1>2, IntervalInduction
<1> USE DEF S
<1>4. PICK f : Solves(f, N)
  BY <1>3
<1> QED
  BY <1>4 DEF Solvable

-----------------------------------------------------------------------------
(* The start *)

\* What has been made one sequence has the elements of the parts.
LEMMA FlattenIs ==
    ASSUME NEW V, NEW n \in Nat, NEW ss \in [1..n -> Seq(V)]
    PROVE  Seqs!FlattenSeq(ss) \in Seq(V)
<1>1. Len(ss) = n /\ ss \in Seq(Seq(V))
  OBVIOUS
<1>2. CASE n = 0
  <2>1. Seqs!FlattenSeq(ss) = ss
    BY <1>1, <1>2 DEF Seqs!FlattenSeq
  <2>2. ss = <<>>
    BY <1>1, <1>2
  <2> QED
    BY <2>1, <2>2
<1>3. CASE n # 0
  <2> DEFINE F(g) == [i \in 1..Len(ss) |-> IF i = 1 THEN ss[i] ELSE g[i-1] \o ss[i]]
             flat == CHOOSE g : g = F(g)
  <2>1. Seqs!FlattenSeq(ss) = flat[Len(ss)]
    BY <1>1, <1>3, Zenon DEF Seqs!FlattenSeq
  <2>2. \E g \in [1..n -> Seq(V)] : g = F(g)
    <3> DEFINE step == [p \in (1 .. n - 1) \X Seq(V) |-> p[2] \o ss[p[1] + 1]]
    <3>1. n - 1 \in Nat /\ ss[1] \in Seq(V)
      BY <1>3
    <3>2. ASSUME NEW p \in (1 .. n - 1) \X Seq(V)
          PROVE  p[2] \o ss[p[1] + 1] \in Seq(V)
      <4>1. p[2] \in Seq(V) /\ ss[p[1] + 1] \in Seq(V)
        OBVIOUS
      <4> QED
        BY <4>1
    <3>3. step \in [(1 .. n - 1) \X Seq(V) -> Seq(V)]
      BY <3>2
    <3>4. Solvable(n - 1, Seq(V), ss[1], step)
      <4> HIDE DEF step
      <4> QED
        BY <3>1, <3>3, IntervalRecursion
    <3>5. PICK f \in [0 .. n - 1 -> Seq(V)] : f[0] = ss[1] /\ \A m \in 1 .. n - 1 : f[m] = step[<<m, f[m - 1]>>]
      BY <3>4 DEF Solvable
    <3>6. PICK g : g = [i \in 1..n |-> f[i - 1]]
      OBVIOUS
    <3>7. g \in [1..n -> Seq(V)]
      <4>1. \A i \in 1..n : i - 1 \in 0 .. n - 1
        BY <1>3
      <4> QED
        BY <3>6, <4>1
    <3>8. ASSUME NEW i \in 1..n
          PROVE  g[i] = IF i = 1 THEN ss[i] ELSE g[i-1] \o ss[i]
      <4>1. CASE i = 1
        BY <3>5, <3>6, <4>1
      <4>2. CASE i # 1
        <5>1. i - 1 \in 1 .. n - 1 /\ i - 1 \in 1..n /\ (i - 1) - 1 \in 0 .. n - 1 /\ (i - 1) + 1 = i
          BY <4>2
        <5>2. g[i] = f[i - 1] /\ g[i - 1] = f[(i - 1) - 1] /\ f[(i - 1) - 1] \in Seq(V)
          BY <3>6, <5>1
        <5>3. f[i - 1] = step[<<i - 1, f[(i - 1) - 1]>>]
          BY <3>5, <5>1
        <5>4. PICK x : x = f[(i - 1) - 1]
          OBVIOUS
        <5>5. <<i - 1, x>> \in (1 .. n - 1) \X Seq(V)
          BY <5>1, <5>2, <5>4
        <5>6. step[<<i - 1, x>>] = x \o ss[i]
          BY <5>1, <5>5
        <5> QED
          BY <4>2, <5>2, <5>3, <5>4, <5>6
      <4> QED
        BY <4>1, <4>2
    <3>9. g = F(g)
      BY <1>1, <3>7, <3>8
    <3> QED
      BY <3>7, <3>9
  <2>3. flat = F(flat)
    <3> HIDE DEF F
    <3> QED
      BY <2>2, Zenon
  <2>4. PICK g : g = flat
    OBVIOUS
  <2>5. g = F(g)
    <3> HIDE DEF F
    <3> QED
      BY <2>3, <2>4
  <2>6. \A i \in 1..n : g[i] = IF i = 1 THEN ss[i] ELSE g[i-1] \o ss[i]
    <3>1. \A i \in 1..n : F(g)[i] = IF i = 1 THEN ss[i] ELSE g[i-1] \o ss[i]
      BY <1>1
    <3> HIDE DEF F
    <3> QED
      BY <2>5, <3>1, Zenon
  <2>7. PICK T : T = {m \in Nat : m + 1 \in 1..n => g[m + 1] \in Seq(V)}
    OBVIOUS
  <2>8. n - 1 \in Nat
    BY <1>3
  <2>9. 0 \in T
    BY <1>3, <2>6, <2>7
  <2>10. ASSUME NEW m \in 0 .. (n - 1) - 1, m \in T
         PROVE  m + 1 \in T
    <3>1. m + 1 \in 1..n /\ (m + 1) + 1 \in 1..n /\ (m + 1) + 1 # 1 /\ ((m + 1) + 1) - 1 = m + 1
      BY <2>8
    <3>2. g[m + 1] \in Seq(V)
      BY <2>7, <2>10, <3>1
    <3>3. g[(m + 1) + 1] = g[m + 1] \o ss[(m + 1) + 1] /\ ss[(m + 1) + 1] \in Seq(V)
      BY <2>6, <3>1
    <3>4. g[(m + 1) + 1] \in Seq(V)
      BY <3>2, <3>3
    <3> QED
      BY <2>7, <3>4
  <2>11. \A m \in 0 .. n - 1 : m \in T
    BY <2>8, <2>9, <2>10, IntervalInduction
  <2>12. n - 1 \in 0 .. n - 1 /\ (n - 1) + 1 = n /\ n \in 1..n
    BY <2>8
  <2>13. n - 1 \in T
    BY <2>11, <2>12
  <2>14. g[n] \in Seq(V)
    BY <2>7, <2>12, <2>13
  <2> QED
    BY <1>1, <2>1, <2>4, <2>14
<1> QED
  BY <1>2, <1>3

\* The chunks that the role writes of a message carry its name.
LEMMA WrittenIs ==
    ASSUME NEW m \in MessageType, NEW V, V = {Written(m)[i] : i \in 1..Chunks(Data(m.id, m.n))}
    PROVE  Written(m) \in Seq(V) /\ \A x \in V : x.w[1][1] = m.id
<1>1. PICK k, n, w, e : k = m.id /\ n = m.n /\ w = Data(k, n) /\ e = Chunks(w)
  OBVIOUS
<1>2. n \in Nat \ {0}
  BY <1>1 DEF MessageType
<1>3. w = [i \in 1..n |-> <<k, "data", i>>]
  BY <1>1 DEF Data
<1>4. w \in Seq({<<k, "data", i>> : i \in 1..n}) /\ Len(w) = n
  BY <1>2, <1>3
<1>5. IsSeq(w)
  BY <1>4, SeqIs
<1>6. e \in Nat /\ (2 * e = n \/ 2 * e = n + 1)
  <2>1. e = Half(n)
    BY <1>1, <1>4 DEF Chunks, Half
  <2> QED
    BY <1>2, <2>1, HalfIs
<1>7. PICK s : s = Written(m)
  OBVIOUS
<1>8. s = [i \in 1..e |-> Chunk(Cut(w, i), ~m.known /\ i = e)]
  BY <1>1, <1>7, Zenon DEF Written
<1>9. \A i \in 1..e : s[i] \in V
  BY <1>1, <1>7
<1>10. s \in Seq(V)
  BY <1>6, <1>8, <1>9
<1>11. ASSUME NEW i \in 1..e
       PROVE  s[i].w[1][1] = k
  <2>1. i \in Nat \ {0} /\ 2 * i - 1 <= n /\ 2 * i - 1 \in 1..n
    BY <1>2, <1>6
  <2>2. PICK c : c = Cut(w, i)
    OBVIOUS
  <2>3. IsCut(c, w, i)
    BY <1>4, <1>5, <2>1, <2>2, CutIs
  <2>4. s[i] = [w |-> c, last |-> ~m.known /\ i = e]
    BY <1>8, <2>2 DEF Chunk
  <2>5. c[1] = <<k, "data", 2 * i - 1>>
    BY <1>3, <2>1, <2>3 DEF IsCut
  <2> QED
    BY <2>4, <2>5
<1> QED
  BY <1>1, <1>7, <1>10, <1>11

LEMMA InitKinds ==
    ASSUME Init
    PROVE  Kinds(ch)
<1>1. work \in Works /\ UdpInit(Waiting, work.opened)
  BY Zenon DEF Init
<1>2. ch = [c \in Stream |-> IF c \in DOMAIN Waiting THEN Waiting[c] ELSE <<>>]
  BY <1>1, Zenon DEF UdpInit, IpInit
<1>3. PICK a, b, c, d : /\ a = work.frames /\ b = work.segs /\ c = [i \in DOMAIN work.msgs |-> Meta(work.msgs[i])]
                        /\ d = Seqs!FlattenSeq([i \in DOMAIN work.msgs |-> Written(work.msgs[i])])
  OBVIOUS
<1>4. Waiting = [eth |-> a, l3toe |-> b, roleMeta |-> c, roleData |-> d]
  BY <1>3, Zenon DEF Waiting
<1>5. /\ DOMAIN ch = Stream /\ ch["eth"] = a /\ ch["l3toe"] = b /\ ch["roleMeta"] = c /\ ch["roleData"] = d
      /\ \A k \in Stream \ {"eth", "l3toe", "roleMeta", "roleData"} : ch[k] = <<>>
  <2>1. {"eth", "l3toe", "roleMeta", "roleData"} \subseteq Stream
    BY DEF Stream, IpStream, NalStream
  <2> QED
    BY <1>2, <1>4, <2>1
<1>6. /\ work.frames \in Seq(FrameType) /\ work.msgs \in Seq(MessageType) /\ work.segs \in Seq(SegmentType)
      /\ Disjoint(work.frames, work.msgs) /\ Disjoint(work.frames, work.segs)
  BY <1>1, TrafficAssumption, Zenon DEF TrafficAssumption
<1>7. PICK ms, sg : ms = work.msgs /\ sg = work.segs
  OBVIOUS
<1>8. /\ ms \in Seq(MessageType) /\ DOMAIN ms = 1..Len(ms) /\ Len(ms) \in Nat
      /\ sg \in Seq(SegmentType) /\ DOMAIN sg = 1..Len(sg) /\ DOMAIN work.frames = 1..Len(work.frames)
      /\ \A i \in 1..Len(ms) : ms[i] \in MessageType
      /\ \A i \in 1..Len(sg) : sg[i] \in SegmentType
  BY <1>6, <1>7
<1>9. (\A i \in 1..Len(ms) : Foreign(ms[i].id)) /\ (\A i \in 1..Len(sg) : Foreign(sg[i].id))
  <2>1. \A i \in 1..Len(work.frames), j \in 1..Len(ms) : work.frames[i].id # ms[j].id
    BY <1>6, <1>7, <1>8, Zenon DEF Disjoint
  <2>2. \A i \in 1..Len(work.frames), j \in 1..Len(sg) : work.frames[i].id # sg[j].id
    BY <1>6, <1>7, <1>8, Zenon DEF Disjoint
  <2> QED
    BY <2>1, <2>2, Zenon DEF Foreign, Frames, Elems
<1>10. IsSeq(a) /\ \A x \in Elems(a) : Is("eth", x)
  <2>1. IsSeq(a)
    BY <1>3, <1>6, SeqIs
  <2> QED
    BY <1>3, <2>1 DEF Is, Came, Frames
<1>11. IsSeq(b) /\ \A x \in Elems(b) : Is("l3toe", x)
  <2>1. IsSeq(b)
    BY <1>3, <1>6, SeqIs
  <2>2. ASSUME NEW i \in 1..Len(sg)
        PROVE  Is("l3toe", sg[i])
    <3>1. "id" \in DOMAIN sg[i]
      BY <1>8 DEF SegmentType
    <3>2. OfReply(sg[i].id)
      BY <1>9, JustThen
    <3> QED
      BY <3>1, <3>2 DEF Is
  <2> QED
    BY <1>3, <1>7, <2>1, <2>2 DEF Elems
<1>12. IsSeq(c) /\ \A x \in Elems(c) : Is("roleMeta", x)
  <2>1. c = [i \in 1..Len(ms) |-> Meta(ms[i])]
    BY <1>3, <1>7, <1>8, Zenon
  <2>2. c \in Seq({Meta(ms[i]) : i \in 1..Len(ms)}) /\ Len(c) = Len(ms)
    BY <1>8, <2>1
  <2>3. IsSeq(c)
    BY <2>2, SeqIs
  <2>4. ASSUME NEW i \in 1..Len(ms)
        PROVE  Is("roleMeta", c[i])
    <3>1. c[i].id = ms[i].id
      BY <2>1 DEF Meta
    <3> QED
      BY <1>9, <3>1 DEF Is
  <2> QED
    BY <2>2, <2>3, <2>4 DEF Elems
<1>13. IsSeq(d) /\ \A x \in Elems(d) : Is("roleData", x)
  <2>1. PICK n, ss : n = Len(ms) /\ ss = [i \in 1..n |-> Written(ms[i])]
    OBVIOUS
  <2>2. PICK V : V = UNION {{Written(ms[i])[j] : j \in 1..Chunks(Data(ms[i].id, ms[i].n))} : i \in 1..n}
    OBVIOUS
  <2>3. ASSUME NEW i \in 1..n
        PROVE  ss[i] \in Seq(V) /\ \A x \in {Written(ms[i])[j] : j \in 1..Chunks(Data(ms[i].id, ms[i].n))} : x.w[1][1] = ms[i].id
    <3>1. PICK m, W : m = ms[i] /\ W = {Written(m)[j] : j \in 1..Chunks(Data(m.id, m.n))}
      OBVIOUS
    <3>2. m \in MessageType /\ W \subseteq V
      BY SMTT(40), <1>8, <2>1, <2>2, <3>1
    <3>4. Written(m) \in Seq(W) /\ \A x \in W : x.w[1][1] = m.id
      BY <3>1, <3>2, WrittenIs, SMTT(40)
    <3>5. ss[i] = Written(m)
      BY <2>1, <3>1
    <3> QED
      BY <3>1, <3>2, <3>4, <3>5
  <2>4. ss \in [1..n -> Seq(V)] /\ n \in Nat
    BY <1>8, <2>1, <2>3
  <2>5. d = Seqs!FlattenSeq(ss)
    BY <1>3, <1>7, <1>8, <2>1, Zenon
  <2>6. d \in Seq(V)
    BY <2>4, <2>5, FlattenIs, Zenon
  <2>7. IsSeq(d) /\ Elems(d) \subseteq V
    BY <2>6, SeqIs, Zenon
  <2>8. ASSUME NEW x \in V
        PROVE  Is("roleData", x)
    <3>1. PICK i \in 1..n : x \in {Written(ms[i])[j] : j \in 1..Chunks(Data(ms[i].id, ms[i].n))}
      BY <2>2, Zenon
    <3>2. x.w[1][1] = ms[i].id
      BY <2>3, <3>1, Zenon
    <3>3. Foreign(x.w[1][1])
      BY <1>9, <2>1, <3>2, Zenon
    <3> QED
      BY <3>3 DEF Is
  <2> QED
    BY <2>7, <2>8
<1>14. \A k \in Stream : IsSeq(ch[k]) /\ \A x \in Elems(ch[k]) : Is(k, x)
  <2>1. IsSeq(<<>>) /\ Elems(<<>>) = {}
    BY DEF IsSeq, Elems
  <2> QED
    BY <1>5, <1>10, <1>11, <1>12, <1>13, <2>1, Zenon
<1> QED
  BY <1>5, <1>14 DEF Kinds

LEMMA InitFates ==
    ASSUME Init
    PROVE  FateLine
<1>1. /\ work \in Works
      /\ fate = [k \in {0} \cup Ids(work.frames) \cup Ids(work.msgs) \cup Ids(work.segs) |-> IF k = 0 THEN "none" ELSE "in"]
  BY Zenon DEF Init
<1>2. Frames \subseteq FrameType /\ IsSeq(work.frames)
  BY <1>1, FramesAre
<1>3. Seqs!ToSet(work.frames) = Frames
  <2>1. DOMAIN work.frames = 1..Len(work.frames)
    BY <1>2 DEF IsSeq
  <2> QED
    BY <2>1, Zenon DEF Seqs!ToSet, Frames, Elems
<1>4. ASSUME NEW f \in Frames
      PROVE  f.id \in DOMAIN fate /\ Just(f, fate[f.id])
  <2>1. f.id \in Ids(work.frames) /\ f.id # 0
    BY <1>2, <1>3 DEF Ids, FrameType
  <2>2. f.id \in DOMAIN fate /\ fate[f.id] = "in"
    BY <1>1, <2>1
  <2> QED
    BY <2>2 DEF Just
<1> QED
  BY <1>1, <1>4 DEF FateLine

LEMMA InitRx ==
    ASSUME Init
    PROVE  RxLine /\ RphLine
<1>1. /\ UdpInit(Waiting, work.opened)
  BY Zenon DEF Init
<1>2. /\ ihs = [st |-> "IDLE", i |-> 0, prev |-> <<>>] /\ ucc = [st |-> "INIT", seen |-> <<>>] /\ rph = NoDgrm
      /\ ch = [c \in Stream |-> IF c \in DOMAIN Waiting THEN Waiting[c] ELSE <<>>]
  BY <1>1, Zenon DEF UdpInit, IpInit
<1>3. DOMAIN Waiting = {"eth", "l3toe", "roleMeta", "roleData"}
  BY DEF Waiting
<1>4. ch["hdr"] = <<>> /\ ch["uccDgrm"] = <<>> /\ ch["rphDgrm"] = <<>> /\ ch["csumVal"] = <<>>
  <2> HIDE DEF Waiting
  <2> QED
    BY <1>2, <1>3 DEF Stream, UdpStream
<1>5. PICK q, x : q = [k \in Nat |-> 0] /\ x = <<0, 1>>
  OBVIOUS
<1>6. x \in Pos
  BY <1>5 DEF Pos
<1>7. Line("hdr", ch["hdr"], q, x, x) /\ Line("dgram", ch["uccDgrm"], q, x, x) /\ Line("dgram", ch["rphDgrm"], q, x, x)
  BY <1>4, <1>6, LineEmpty
<1>8. Judged(ch["csumVal"], q, 0, 0)
  BY <1>4 DEF Judged
<1>9. AllTrimmed(q, x)
  BY <1>5 DEF AllTrimmed, Before
<1>10. IhsAt(ihs, ch["uoe"], q, 0, x, x)
  BY <1>2, <1>5 DEF IhsAt
<1>11. UccAt(ucc, q, 0, x, 0)
  BY <1>2, <1>5 DEF UccAt
<1>12. RphAt(rph, q, 0, x, x, 0)
  BY <1>2, <1>5 DEF RphAt, NoDgrm
<1>13. RxLine
  BY <1>7, <1>8, <1>9, <1>10, <1>11, <1>12, Zenon DEF RxLine
<1>14. RphLine
  BY <1>2 DEF RphLine, NoDgrm
<1> QED
  BY <1>13, <1>14

-----------------------------------------------------------------------------
(* All lines together *)

FateInv ==
    /\ FateLine /\ Kinds(ch) /\ UptIs
    /\ VerdictsMeet(ch) /\ DropLine /\ TxLine
    /\ UrxLine /\ UrdLine /\ Asked(ch["nidReq"], ch["nidRep"])
    /\ RxLine /\ RphLine

LEMMA InitFateInv ==
    ASSUME Init
    PROVE  FateInv
<1>1. FateLine /\ Kinds(ch) /\ RxLine /\ RphLine
  BY InitFates, InitKinds, InitRx, Zenon
<1>2. /\ UdpInit(Waiting, work.opened) /\ urd = NoGet
      /\ utx = [st |-> "W8FORMETA", meta |-> NoMeta, seen |-> 0, ip |-> NoIp, cache |-> NoEntry]
      /\ urx = [st |-> "W8FORMETA", meta |-> <<>>, src |-> NoIp, rank |-> 0, cache |-> NoEntry]
  BY Zenon DEF Init
<1>3. /\ upt = [st |-> "WAIT4REQ", req |-> NoReq, open |-> work.opened]
      /\ tai = NoMsg /\ iha = <<>> /\ icc = <<>>
      /\ ch = [c \in Stream |-> IF c \in DOMAIN Waiting THEN Waiting[c] ELSE <<>>]
  BY <1>2, Zenon DEF UdpInit, IpInit
<1>4. DOMAIN Waiting = {"eth", "l3toe", "roleMeta", "roleData"}
  BY DEF Waiting
<1>5. \A c \in VerdictStream \cup {"icmpData", "dropCmd", "nidReq", "nidRep"} : ch[c] = <<>>
  <2> HIDE DEF Waiting
  <2> QED
    BY <1>3, <1>4 DEF VerdictStream, Stream, IpStream, NalStream
<1>6. UptIs
  BY <1>3 DEF UptIs
<1>7. VerdictsMeet(ch)
  <2>1. /\ ch["iid"] = <<>> /\ ch["ipVer"] = <<>> /\ ch["dropFrag"] = <<>>
        /\ ch["csumValid"] = <<>> /\ ch["subSums"] = <<>>
    BY <1>5 DEF VerdictStream
  <2>2. Meets(<<>>, <<>>, <<>>, <<>>, <<>>)
    BY DEF Meets
  <2> QED
    BY <2>1, <2>2 DEF VerdictsMeet
<1>8. DropLine
  BY <1>3, <1>5 DEF DropLine, Drops
<1>9. TxLine
  <2>1. Foreign(0)
    BY <1>1, NoFrameZero DEF FateLine
  <2> QED
    BY <1>2, <1>3, <2>1 DEF TxLine, NoMeta, NoMsg
<1>10. UrxLine /\ UrdLine
  BY <1>2 DEF UrxLine, UrdLine, NoGet, NoEntry
<1>11. Asked(ch["nidReq"], ch["nidRep"])
  BY <1>2, <1>5 DEF Asked
<1> QED
  BY <1>1, <1>6, <1>7, <1>8, <1>9, <1>10, <1>11 DEF FateInv

\* What a step keeps that touches neither these streams nor these variables.
LEMMA VerdictsSame ==
    ASSUME NEW T, SameBut(T, ch, ch'), T \cap VerdictStream = {}, VerdictsMeet(ch)
    PROVE  VerdictsMeet(ch)'
BY VerdictsKept DEF VerdictsMeet, Meets

LEMMA DropLineSame ==
    ASSUME NEW T, SameBut(T, ch, ch'), T \cap {"icmpData", "dropCmd"} = {}, UNCHANGED <<work, icc>>, DropLine
    PROVE  DropLine'
BY DropsSame, DropsStay

LEMMA AskedSame ==
    ASSUME NEW T, SameBut(T, ch, ch'), T \cap {"nidReq", "nidRep"} = {}, UNCHANGED urx, Asked(ch["nidReq"], ch["nidRep"])
    PROVE  Asked(ch["nidReq"], ch["nidRep"])'
<1>1. ch'["nidReq"] = ch["nidReq"] /\ ch'["nidRep"] = ch["nidRep"]
  BY DEF SameBut, Stream, NalStream
<1> QED
  BY <1>1 DEF Asked, NidOf

LEMMA UptSame ==
    ASSUME UptIs, UNCHANGED upt
    PROVE  UptIs'
BY DEF UptIs

LEMMA NotGrownIs ==
    ASSUME NEW T, SameBut(T, ch, ch'), "uoe" \notin T
    PROVE  Grown(ch, ch')
BY DEF SameBut, Grown, Stream, IpStream

LEMMA PlainStep ==
    ASSUME FateInv, Kinds(ch'), FateLine', UNCHANGED <<work, upt, urx, urd>>, NEW T, SameBut(T, ch, ch'),
           T \cap {"nidReq", "nidRep"} = {},
           VerdictsMeet(ch)', DropLine', TxLine', RxLine', RphLine'
    PROVE  FateInv'
<1>1. UptIs' /\ UrxLine' /\ UrdLine' /\ Asked(ch["nidReq"], ch["nidRep"])'
  BY UptSame, UrxSame, UrdSame, AskedSame DEF FateInv
<1>2. Kinds(ch)'
  BY KindsStay
<1> QED
  BY <1>1, <1>2 DEF FateInv

LEMMA IpLayerFates ==
    ASSUME FateInv, IpLayer, UNCHANGED <<uoe, mixed, nal, env>>
    PROVE  FateInv'
<1>1. UNCHANGED <<work, upt, urx, urd, ihs, ucc, rph, utx, tai, iha>>
  BY Zenon DEF uoe, rx, tx, nal, env
<1>2. TxLine'
  BY <1>1, TxLineSame DEF FateInv
<1>3. CASE Iprx
  <2>1. IprxOk
    BY <1>1, <1>3, IprxKeeps DEF FateInv, IpOk
  <2>2. icc' = icc
    BY <1>3, Zenon DEF Iprx, IBuf, MacProtocolDetector, IpLengthChecker, IpChecksumAccumulator, IpChecksumChecker,
       IpInvalidDropper, IpCutLength, IpPacketRouter, Only, Same
  <2>3. FateLine' /\ Kinds(ch') /\ VerdictsMeet(ch') /\ SameBut(IprxStream, ch, ch') /\ Grown(ch, ch')
    BY <2>1 DEF IprxOk
  <2>4. VerdictsMeet(ch)'
    BY <2>3 DEF VerdictsMeet, Meets
  <2>5. /\ IprxStream \cap {"icmpData", "dropCmd"} = {} /\ IprxStream \cap {"nidReq", "nidRep"} = {}
        /\ IprxStream \cap {"hdr", "uccDgrm", "rphDgrm", "csumVal"} = {}
    BY DEF IprxStream
  <2>6. DropLine'
    BY <1>1, <2>2, <2>3, <2>5, DropLineSame DEF FateInv
  <2>7. RxLine' /\ RphLine'
    BY <1>1, <2>3, <2>5, RxSame DEF FateInv
  <2> QED
    BY <1>1, <1>2, <2>3, <2>4, <2>5, <2>6, <2>7, PlainStep
<1>4. CASE Icmp
  <2>1. IcmpKept
    BY <1>1, <1>4, IcmpKeeps DEF FateInv, IcmpOk
  <2>2. FateLine' /\ Kinds(ch') /\ Drops(ch'["icmpData"], ch'["dropCmd"], icc') /\ SameBut(IcmpStream, ch, ch')
    BY <2>1 DEF IcmpKept
  <2>3. /\ IcmpStream \cap VerdictStream = {} /\ IcmpStream \cap {"nidReq", "nidRep"} = {} /\ "uoe" \notin IcmpStream
        /\ IcmpStream \cap {"hdr", "uccDgrm", "rphDgrm", "csumVal"} = {}
    BY DEF IcmpStream, VerdictStream
  <2>4. DropLine'
    BY <1>1, <2>2, DropsStay
  <2>5. VerdictsMeet(ch)'
    BY <2>2, <2>3, VerdictsSame DEF FateInv
  <2>6. RxLine' /\ RphLine'
    BY <1>1, <2>2, <2>3, RxSame, NotGrownIs DEF FateInv
  <2> QED
    BY <1>1, <1>2, <2>2, <2>3, <2>4, <2>5, <2>6, PlainStep
<1>5. CASE Arps \/ Iptx
  <2>1. OutKept
    BY <1>1, <1>5, ArpsKeep, IptxKeeps DEF FateInv, OutOk
  <2>2. FateLine' /\ Kinds(ch') /\ SameBut(OutStream, ch, ch')
    BY <2>1 DEF OutKept
  <2>3. /\ OutStream \cap VerdictStream = {} /\ OutStream \cap {"nidReq", "nidRep"} = {} /\ "uoe" \notin OutStream
        /\ OutStream \cap {"hdr", "uccDgrm", "rphDgrm", "csumVal"} = {} /\ OutStream \cap {"icmpData", "dropCmd"} = {}
    BY DEF OutStream, VerdictStream
  <2>4. icc' = icc
    BY <1>5, Zenon DEF Arps, ArpPacketReceiver, ArpPacketSender, AccTake, AccReply, Iptx, L3mux, HeaderChecksumAccumulator,
       IpChecksumInsert, Ip4AddressExtractor, MacAddressInserter, Only, Same
  <2>5. DropLine' /\ VerdictsMeet(ch)'
    BY <1>1, <2>2, <2>3, <2>4, DropLineSame, VerdictsSame DEF FateInv
  <2>6. RxLine' /\ RphLine'
    BY <1>1, <2>2, <2>3, RxSame, NotGrownIs DEF FateInv
  <2> QED
    BY <1>1, <1>2, <2>2, <2>3, <2>5, <2>6, PlainStep
<1> QED
  BY <1>3, <1>4, <1>5 DEF IpLayer

LEMMA RxEngineFates ==
    ASSUME FateInv, NoneEmpty, HeadersFit, IpHeaderStripper \/ UdpChecksumChecker \/ RxPacketHandler, UNCHANGED <<nal, env>>
    PROVE  FateInv'
<1>1. UNCHANGED <<icc, upt, tx>>
  BY Zenon
     DEF IpHeaderStripper, IhsIdle, IhsHeader, IhsUdpHeader, IhsForward, IhsResidue, IhsDone, IhsDrop, Ihs,
         UdpChecksumChecker, UccInit, UccIdle, UccStart, UccStream, UccVerdict, Ucc,
         RxPacketHandler, RphIdle, RphLookup, RphStreamFirst, RphStream,
         RphDrainDatagram, RphDrainHeader, RphUnreachable, Rph, Quiet, Ip4
<1>2. UNCHANGED <<work, urx, urd, utx, tai, iha>>
  BY <1>1, Zenon DEF tx, nal, env
<1>3. RxKept
  <2>1. RxOk
    BY DEF FateInv, RxOk
  <2>2. UNCHANGED work
    BY <1>2
  <2>3. CASE IpHeaderStripper
    BY <2>1, <2>2, <2>3, IhsKeeps
  <2>4. CASE UdpChecksumChecker
    BY <2>1, <2>2, <2>4, UccKeeps
  <2>5. CASE RxPacketHandler
    BY <2>1, <2>2, <2>5, RphKeeps
  <2> QED
    BY <2>3, <2>4, <2>5
<1>4. FateLine' /\ Kinds(ch') /\ SameBut(RxStream, ch, ch') /\ RxLine' /\ RphLine'
  BY <1>3 DEF RxKept, Rxs
<1>5. RxStream \cap VerdictStream = {} /\ RxStream \cap {"nidReq", "nidRep"} = {} /\ RxStream \cap {"icmpData", "dropCmd"} = {}
  BY DEF RxStream, VerdictStream
<1>6. DropLine' /\ VerdictsMeet(ch)' /\ TxLine'
  BY <1>1, <1>2, <1>4, <1>5, DropLineSame, VerdictsSame, TxLineSame DEF FateInv
<1> QED
  BY <1>1, <1>2, <1>4, <1>5, <1>6, PlainStep

LEMMA SendFates ==
    ASSUME FateInv, UNCHANGED work, \/ TxEngine /\ UNCHANGED <<nal, env>>
                                    \/ UdpTX \/ UtdDeq
    PROVE  FateInv'
<1>1. UNCHANGED <<icc, rx, urx, urd>>
  BY Zenon
     DEF TxEngine, TxApplicationInterface, TaiIdle, TaiData, TaiMeta, Tai,
         TxDatagramHandler, TdhMeta, TdhLen, TdhData, TdhResidue, Tdh,
         UcaAccumulate, UcaDone, UhaIdle, UhaStream, Uha, IhaHeader, IhaForward, Quiet, Ip4,
         UdpTX, UtxInval, UtxMeta, UtxReply, UtxFirst, UtxData, TxRest, UtdDeq, Nts, uoe, nal
<1>2. UNCHANGED <<ihs, ucc, rph, upt>>
  BY <1>1, Zenon DEF rx
<1>3. SendKept
  <2>1. SendOk
    BY DEF FateInv, SendOk
  <2>2. CASE TxEngine /\ UNCHANGED <<nal, env>>
    <3>1. UNCHANGED utx
      BY <2>2, Zenon DEF nal
    <3> QED
      BY <2>1, <2>2, <3>1, TxEngineKeeps
  <2> QED
    BY <2>1, <2>2, UdpTXKeeps, UtdDeqKeeps
<1>4. FateLine' /\ Kinds(ch') /\ TxLine' /\ SameBut(SendStream, ch, ch')
  BY <1>3 DEF SendKept
<1>5. /\ SendStream \cap VerdictStream = {} /\ SendStream \cap {"nidReq", "nidRep"} = {} /\ "uoe" \notin SendStream
      /\ SendStream \cap {"icmpData", "dropCmd"} = {} /\ SendStream \cap {"hdr", "uccDgrm", "rphDgrm", "csumVal"} = {}
  BY DEF SendStream, VerdictStream
<1>6. DropLine' /\ VerdictsMeet(ch)'
  BY <1>1, <1>4, <1>5, DropLineSame, VerdictsSame DEF FateInv
<1>7. RxLine' /\ RphLine'
  BY <1>2, <1>4, <1>5, RxSame, NotGrownIs DEF FateInv
<1> QED
  BY <1>1, <1>2, <1>4, <1>5, <1>6, <1>7, PlainStep

LEMMA ReceiveFates ==
    ASSUME FateInv, UdpRx \/ UrdDeq \/ MrtAnswer
    PROVE  FateInv'
<1>1. UNCHANGED <<work, icc, uoe, utx>>
  BY Zenon DEF UdpRx, UrxInval, UrxMeta, UrxReply, UrxFirst, UrxData, UrdDeq, RxRest, MrtAnswer, Nts, nal, env
<1>2. UNCHANGED <<ihs, ucc, rph, upt, tai, iha>>
  BY <1>1, Zenon DEF uoe, rx, tx
<1>3. RecvKept
  <2>1. RecvOk
    BY DEF FateInv, RecvOk
  <2> QED
    BY <1>1, <2>1, UdpRxKeeps, UrdDeqKeeps, MrtKeeps
<1>4. /\ FateLine' /\ Kinds(ch') /\ UrxLine' /\ UrdLine' /\ Asked(ch["nidReq"], ch["nidRep"])' /\ SameBut(RecvStream, ch, ch')
  BY <1>3 DEF RecvKept
<1>5. /\ RecvStream \cap VerdictStream = {} /\ "uoe" \notin RecvStream
      /\ RecvStream \cap {"icmpData", "dropCmd"} = {} /\ RecvStream \cap {"hdr", "uccDgrm", "rphDgrm", "csumVal"} = {}
  BY DEF RecvStream, VerdictStream
<1>6. DropLine' /\ VerdictsMeet(ch)' /\ TxLine' /\ UptIs' /\ Kinds(ch)'
  BY <1>1, <1>2, <1>4, <1>5, DropLineSame, VerdictsSame, TxLineSame, UptSame, KindsStay DEF FateInv
<1>7. RxLine' /\ RphLine'
  BY <1>1, <1>2, <1>4, <1>5, RxSame, NotGrownIs DEF FateInv
<1> QED
  BY <1>4, <1>6, <1>7 DEF FateInv

LEMMA UptStep ==
    ASSUME UptIs, UptTake \/ UptReply
    PROVE  UptIs'
<1>1. PICK s, r, o : s = upt.st /\ r = upt.req /\ o = upt.open
  OBVIOUS
<1>2. upt = [st |-> s, req |-> r, open |-> o]
  BY <1>1, Zenon DEF UptIs
<1>3. CASE UptTake
  <2>1. PICK c \in {"portReq", "lsnReq", "clsReq"} : upt' = [upt EXCEPT !.st = c, !.req = Head(ch[c])]
    BY <1>3 DEF UptTake
  <2>2. PICK h : h = Head(ch[c])
    OBVIOUS
  <2>3. upt' = [upt EXCEPT !.st = c, !.req = h]
    BY <2>1, <2>2
  <2>4. upt' = [st |-> c, req |-> h, open |-> o]
    BY <1>2, <2>3
  <2> QED
    BY <2>4 DEF UptIs
<1>4. CASE UptReply
  <2>1. PICK o2 : upt' = [st |-> "WAIT4REQ", req |-> NoReq, open |-> o2]
    BY <1>4, Zenon DEF UptReply
  <2> QED
    BY <2>1 DEF UptIs
<1> QED
  BY <1>3, <1>4

LEMMA OtherFates ==
    ASSUME FateInv, \/ (UptTake \/ UptReply) /\ UNCHANGED <<nal, env>>
                    \/ PortLogic \/ UdpLsn \/ UdpCls \/ Wire \/ ToeTake \/ RoleLeaves \/ RoleArrives
    PROVE  FateInv'
<1>1. UNCHANGED <<work, icc, utx, urx, urd, ihs, ucc, rph, tx>>
  BY Zenon DEF UptTake, UptReply, PortLogic, PrtIdle, PrtClose, PrtRequest, PrtReply, UdpLsn, LsnRequest, LsnReply,
     LsnTimeout, UdpCls, Wire, ToeTake, RoleLeaves, RoleArrives, PrtRest, NetIdle, Nts, Quiet, Ip4, uoe, rx, nal, env
<1>2. UNCHANGED <<tai, iha>>
  BY <1>1, Zenon DEF tx
<1>3. UptIs'
  <2>1. CASE UptTake \/ UptReply
    BY <2>1, UptStep DEF FateInv
  <2>2. CASE PortLogic \/ UdpLsn \/ UdpCls \/ Wire \/ ToeTake \/ RoleLeaves \/ RoleArrives
    <3>1. UNCHANGED upt
      BY <2>2, Zenon DEF PortLogic, PrtIdle, PrtClose, PrtRequest, PrtReply, UdpLsn, LsnRequest, LsnReply,
         LsnTimeout, UdpCls, Wire, ToeTake, RoleLeaves, RoleArrives, PrtRest, NetIdle, Nts, uoe, rx
    <3> QED
      BY <3>1, UptSame DEF FateInv
  <2> QED
    BY <2>1, <2>2
<1>4. OtherKept
  <2>1. OutOk /\ UptIs
    BY DEF FateInv, OutOk
  <2> QED
    BY <1>1, <2>1, PortsKeep, WireKeeps, ToeKeeps, RoleKeeps
<1>5. FateLine' /\ Kinds(ch') /\ SameBut(OtherStream, ch, ch')
  BY <1>4 DEF OtherKept, Others
<1>6. /\ OtherStream \cap VerdictStream = {} /\ OtherStream \cap {"nidReq", "nidRep"} = {} /\ "uoe" \notin OtherStream
      /\ OtherStream \cap {"icmpData", "dropCmd"} = {} /\ OtherStream \cap {"hdr", "uccDgrm", "rphDgrm", "csumVal"} = {}
  BY DEF OtherStream, VerdictStream
<1>7. DropLine' /\ VerdictsMeet(ch)' /\ TxLine' /\ Kinds(ch)' /\ Asked(ch["nidReq"], ch["nidRep"])'
  BY <1>1, <1>2, <1>5, <1>6, DropLineSame, VerdictsSame, TxLineSame, KindsStay, AskedSame DEF FateInv
<1>8. RxLine' /\ RphLine'
  BY <1>1, <1>5, <1>6, RxSame, NotGrownIs DEF FateInv
<1>9. UrxLine' /\ UrdLine'
  BY <1>1, UrxSame, UrdSame DEF FateInv
<1> QED
  BY <1>3, <1>5, <1>7, <1>8, <1>9 DEF FateInv

LEMMA FatesStutter ==
    ASSUME FateInv, UNCHANGED vars
    PROVE  FateInv'
<1>1. UNCHANGED <<ch, icc, fate, work, urx, urd, utx, ihs, ucc, rph, upt, tai, iha>>
  BY Zenon DEF vars, uoe, rx, tx, nal, env
<1>2. SameBut({}, ch, ch') /\ Kinds(ch')
  BY <1>1, SameStart DEF FateInv
<1>3. DropLine' /\ VerdictsMeet(ch)' /\ TxLine'
  BY <1>1, <1>2, DropLineSame, VerdictsSame, TxLineSame DEF FateInv
<1>4. RxLine' /\ RphLine'
  BY <1>1, <1>2, RxSame, NotGrownIs DEF FateInv
<1>5. FateLine'
  BY <1>1, FateKept DEF FateInv
<1> QED
  BY <1>1, <1>2, <1>3, <1>4, <1>5, PlainStep

LEMMA NextFateInv ==
    ASSUME FateInv, NoneEmpty, HeadersFit, [Next]_vars
    PROVE  FateInv'
<1>1. CASE IpLayer /\ UNCHANGED <<uoe, mixed, nal, env>>
  BY <1>1, IpLayerFates
<1>2. CASE RxEngine /\ UNCHANGED <<nal, env>>
  BY <1>2, RxEngineFates, OtherFates DEF RxEngine, UdpPortTable
<1>3. CASE TxEngine /\ UNCHANGED <<nal, env>>
  <2>1. UNCHANGED work
    BY <1>3, Zenon DEF env
  <2> QED
    BY <1>3, <2>1, SendFates
<1>4. CASE UdpTX \/ UtdDeq
  <2>1. UNCHANGED work
    BY <1>4, Zenon DEF UdpTX, UtxInval, UtxMeta, UtxReply, UtxFirst, UtxData, TxRest, UtdDeq, env
  <2> QED
    BY <1>4, <2>1, SendFates
<1>5. CASE UdpRx \/ UrdDeq \/ MrtAnswer
  BY <1>5, ReceiveFates
<1>6. CASE PortLogic \/ UdpLsn \/ UdpCls \/ Wire \/ ToeTake \/ RoleLeaves \/ RoleArrives
  BY <1>6, OtherFates
<1>7. CASE UNCHANGED vars
  BY <1>7, FatesStutter
<1> QED
  BY <1>1, <1>2, <1>3, <1>4, <1>5, <1>6, <1>7 DEF Next, System, Uss

\* A frame is handed to TOE or to the role, or answered, only if its own checks
\* allow it, and is thrown away only if one of them fails or the engine may lack
\* what it needs (pIpInvalidDropper, pInvalidPacketDropper, pRxPacketHandler,
\* pUdpRx, pRoleUdpRxDeq): whatever frames, messages and segments wait, however
\* deep the streams are, and whatever is in the MRT.  No datagram is empty, as one
\* with a wrong checksum shifts the verdicts on those behind it, and the stream of
\* IP headers is never full in the middle of one.
THEOREM FatesAreJust ==
    NoneEmpty => (FairSpec /\ []HeadersFit => []FateIsJust)
<1> SUFFICES ASSUME NoneEmpty
             PROVE  FairSpec /\ []HeadersFit => []FateIsJust
  OBVIOUS
<1>1. Init => FateInv
  BY InitFateInv
<1>2. FateInv /\ HeadersFit /\ [Next]_vars => FateInv'
  BY NextFateInv
<1>3. FateInv => FateIsJust
  BY FateImplies DEF FateInv
<1> QED
  BY <1>1, <1>2, <1>3, PTL DEF FairSpec
=============================================================================
