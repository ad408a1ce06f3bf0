----------------------------- MODULE RxDelivery -----------------------------
(***************************************************************************)
(* From a received data segment to the application: the data path of the   *)
(* RxEngine (RXe) and the pointers of the RxSarTable (RSt), for a session  *)
(* that is ESTABLISHED.                                                    *)
(*                                                                         *)
(*   Fsm  decides what a segment is in relation to the RxSar pointers, and *)
(*        tells Tsd to keep or drop its payload, Mwr where to write it and *)
(*        Ran what to notify;                                              *)
(*   Tsd  drops the payload or passes it on;                               *)
(*   Mwr  writes it into the circular Rx buffer, in two accesses when it   *)
(*        wraps around;                                                    *)
(*   MEM  is the external memory: writes complete in order, any time later;*)
(*   Ran  holds a notification back until the write is done;               *)
(*   APP  reads the bytes it is notified of, through RAi.                  *)
(*                                                                         *)
(* A byte of the stream is known by its position 0, 1, 2 ...; on the wire  *)
(* it has the sequence number (Isn + position) % SeqMod.                   *)
(***************************************************************************)
EXTENDS Integers, Sequences, FiniteSets

CONSTANTS
    SeqMod,          \* 2^32
    BufSize,         \* TOE_BUFFER_SIZE, a divisor of SeqMod
    Isn,             \* the sequence number of the first byte
    Depth,           \* depth of the streams between the processes of RXe
    MaxLen,          \* the maximum segment size
    MaxPos,          \* bound: how many bytes the peer sends
    MaxSegments      \* bound: how many segments arrive

ASSUME RxAssumption ==
    /\ SeqMod \in Nat \ {0} /\ BufSize \in Nat \ {0, 1} /\ SeqMod % BufSize = 0
    /\ Isn \in 0 .. SeqMod - 1
    /\ Depth \in Nat \ {0}
    /\ MaxLen \in Nat \ {0} /\ MaxPos \in Nat /\ MaxSegments \in Nat

Position == 0 .. MaxPos
SeqNum   == 0 .. SeqMod - 1
Segment  == [pos : Position, len : 1 .. MaxLen]

VARIABLES
    sar,             \* the session's entry of RX_SAR_TABLE
    fsm,             \* fsm_fsmState, the segment and the RxSar reply
    payload,         \* payloads on their way from Csa to Tsd
    dropCmd,         \* ssFsmToTsd_DropCmd: TRUE to drop
    wrCmd,           \* ssFsmToMwr_WrCmd
    mwrData,         \* ssTsdToMwr_Data
    splitSeg,        \* ssMwrToRan_SplitSeg
    memWr,           \* write accesses MEM has taken and not completed
    memSts,          \* number of write statuses Ran has not read
    mem,             \* the Rx buffer: the position of the byte in each cell
    fsmNotif,        \* ssFsmToRan_Notif: lengths
    ranFifo,         \* ssRxNotifFifo
    ran,             \* ran_doubleAccessFlag, and the length it is about
    appd, rcvd,      \* history: the positions that sar.appd and sar.rcvd stand for
    notified,        \* history: how many bytes RAi has been notified of
    kept,            \* history: positions of the bytes that were kept
    oooSeen,         \* history: a segment has been kept out of order
    uncut,           \* history: a payload was written uncut, see MwrUncut
    arrived          \* how many segments have arrived

rxVars == <<sar, fsm, payload, dropCmd, wrCmd, mwrData>>
memVars == <<splitSeg, memWr, memSts, mem>>
ranVars == <<fsmNotif, ranFifo, ran>>
hisVars == <<appd, rcvd, notified, kept, oooSeen, uncut, arrived>>
vars == <<rxVars, memVars, ranVars, hisVars>>

SeqOf(p)  == (Isn + p) % SeqMod
Cell(seq) == seq % BufSize
\* The difference of two numbers of m values.
Minus(a, b, m) == LET d == (a % m) - (b % m) IN IF d >= 0 THEN d ELSE d + m
Positions(seg) == seg.pos .. seg.pos + seg.len - 1
Empty == MaxPos + 1           \* what a cell holds before it is written

Init ==
    /\ sar = [appd |-> Cell(Isn), rcvd |-> Isn, ooo |-> FALSE,
              oooHead |-> Isn, oooTail |-> Isn]
    /\ fsm = [pc |-> "load"]
    /\ payload = <<>> /\ dropCmd = <<>> /\ wrCmd = <<>> /\ mwrData = <<>>
    /\ splitSeg = <<>> /\ memWr = <<>> /\ memSts = 0
    /\ mem = [c \in 0 .. BufSize - 1 |-> Empty]
    /\ fsmNotif = <<>> /\ ranFifo = <<>>
    /\ ran = [double |-> FALSE, len |-> 0]
    /\ appd = 0 /\ rcvd = 0 /\ notified = 0
    /\ kept = {} /\ oooSeen = FALSE /\ uncut = FALSE /\ arrived = 0

----------------------------------------------------------------------------
(***************************************************************************)
(* Fsm.  A segment the peer may send: new data within the window that RSt  *)
(* has last offered or one byte beyond it (a probe of a closed window), or *)
(* a copy of old data, in any order.                                       *)
(***************************************************************************)
FsmLoad(seg) ==
    /\ fsm.pc = "load" /\ arrived < MaxSegments /\ Len(payload) < Depth
    /\ seg.pos + seg.len <= MaxPos
    /\ seg.pos + seg.len <= appd + BufSize
    /\ fsm' = [pc |-> "transition", seg |-> seg, sar |-> sar]
    /\ payload' = Append(payload, seg)
    /\ arrived' = arrived + 1
    /\ UNCHANGED <<sar, dropCmd, wrCmd, mwrData, memVars, ranVars, appd, rcvd,
                   notified, kept, oooSeen, uncut>>

FreeSpace(r) == Minus(r.appd, r.oooHead + 1, BufSize)

\* Mutant of Extends: the block may be extended beyond a second gap.
ExtendsWithGap(seq, r) == seq >= r.oooHead

Extends(seq, r) == seq = r.oooHead

\* Mutant of FilledLength: only the segment that fills the gap is notified.
FilledLengthOfSegment(len, r) == len

FilledLength(len, r) == Minus(r.oooHead, r.rcvd, SeqMod)

\* What the segment does to the RxSar pointers.  'new' is the query to RSt,
\* 'notify' the length of the notification; a comparison of sequence numbers
\* does not wrap, the sum seq + len is one bit wider than its operands.
Outcome(seq, len, r) ==
    LET end  == seq + len
        free == FreeSpace(r)
        Query(rc, ooo, head, tail) ==
            [rcvd |-> rc, ooo |-> ooo, oooHead |-> head, oooTail |-> tail]
        InOrder(rc) == Query(rc, FALSE, rc, rc)
        Keep(q, n)  == [keep |-> TRUE, new |-> q, notify |-> n]
    IN  CASE ~r.ooo /\ seq = r.rcvd /\ free > len
               -> Keep(InOrder(end % SeqMod), len)
          [] ~r.ooo /\ seq > r.rcvd /\ free > Minus(end, r.oooHead, BufSize)
               -> Keep(Query(r.rcvd, TRUE, end % SeqMod, seq), 0)
          [] r.ooo /\ Extends(seq, r) /\ free > len
               -> Keep(Query(r.rcvd, TRUE, end % SeqMod, r.oooTail), 0)
          [] r.ooo /\ seq = r.rcvd /\ seq # r.oooHead /\ end < r.oooTail
               -> Keep(Query(end % SeqMod, TRUE, r.oooHead, r.oooTail), len)
          [] r.ooo /\ seq = r.rcvd /\ seq # r.oooHead /\ end = r.oooTail
               -> Keep(InOrder(r.oooHead), FilledLength(len, r))
          [] OTHER -> [keep |-> FALSE, new |-> Query(r.rcvd, r.ooo, r.oooHead, r.oooTail),
                       notify |-> 0]

FsmTransition ==
    LET seg == fsm.seg
        o   == Outcome(SeqOf(seg.pos), seg.len, fsm.sar)
    IN
    /\ fsm.pc = "transition"
    /\ Len(dropCmd) < Depth /\ dropCmd' = Append(dropCmd, ~o.keep)
    /\ IF o.keep
         THEN /\ Len(wrCmd) < Depth /\ Len(fsmNotif) < Depth
              /\ sar' = [appd |-> sar.appd, rcvd |-> o.new.rcvd, ooo |-> o.new.ooo,
                       oooHead |-> o.new.oooHead, oooTail |-> o.new.oooTail]
              /\ wrCmd' = Append(wrCmd, [seq |-> SeqOf(seg.pos), len |-> seg.len])
              /\ fsmNotif' = Append(fsmNotif, o.notify)
              /\ rcvd' = rcvd + Minus(o.new.rcvd, fsm.sar.rcvd, SeqMod)
              /\ kept' = kept \cup Positions(seg)
              /\ oooSeen' = (oooSeen \/ o.new.ooo)
         ELSE UNCHANGED <<sar, wrCmd, fsmNotif, rcvd, kept, oooSeen>>
    /\ fsm' = [pc |-> "load"]
    /\ UNCHANGED <<payload, mwrData, memVars, ranFifo, ran, appd, notified, uncut, arrived>>

----------------------------------------------------------------------------
\* Tsd: one command per payload.
Tsd ==
    /\ dropCmd # <<>> /\ payload # <<>>
    /\ IF Head(dropCmd) THEN UNCHANGED mwrData
       ELSE Len(mwrData) < Depth /\ mwrData' = Append(mwrData, Head(payload))
    /\ dropCmd' = Tail(dropCmd) /\ payload' = Tail(payload)
    /\ UNCHANGED <<sar, fsm, wrCmd, memVars, ranVars, hisVars>>

Splits(cmd) == Cell(cmd.seq) + cmd.len > BufSize

\* An access writes 'len' bytes from position 'pos' on to the cells from
\* 'cell' on.
Accesses(cmd, seg) ==
    LET first == BufSize - Cell(cmd.seq) IN
    IF Splits(cmd)
      THEN <<[cell |-> Cell(cmd.seq), pos |-> seg.pos, len |-> first],
             [cell |-> 0, pos |-> seg.pos + first, len |-> cmd.len - first]>>
      ELSE <<[cell |-> Cell(cmd.seq), pos |-> seg.pos, len |-> cmd.len]>>

Mwr ==
    LET cmd == Head(wrCmd) IN
    /\ ~uncut /\ wrCmd # <<>> /\ mwrData # <<>>
    /\ Len(splitSeg) < Depth /\ splitSeg' = Append(splitSeg, Splits(cmd))
    /\ memWr' = memWr \o Accesses(cmd, Head(mwrData))
    /\ wrCmd' = Tail(wrCmd) /\ mwrData' = Tail(mwrData)
    /\ UNCHANGED <<sar, fsm, payload, dropCmd, memSts, mem, ranVars, hisVars>>

\* The stream of commands is full (MEM is still busy) when Mwr comes to the end of the
\* buffer: the chunk there is written uncut and no second command follows.  What
\* comes next is taken for that chunk, so that commands, data and statuses are out of
\* step for good; the model does not follow Mwr any further.
MwrUncut ==
    LET cmd == Head(wrCmd) IN
    /\ ~uncut /\ wrCmd # <<>> /\ mwrData # <<>> /\ Splits(cmd)
    /\ Len(splitSeg) < Depth /\ splitSeg' = Append(splitSeg, TRUE)
    /\ memWr' = Append(memWr, Accesses(cmd, Head(mwrData))[1])
    /\ wrCmd' = Tail(wrCmd) /\ mwrData' = Tail(mwrData)
    /\ uncut' = TRUE
    /\ UNCHANGED <<sar, fsm, payload, dropCmd, memSts, mem, ranVars, appd, rcvd, notified,
                   kept, oooSeen, arrived>>

MemWrite ==
    LET w == Head(memWr) IN
    /\ memWr # <<>>
    /\ mem' = [c \in DOMAIN mem |-> IF c \in w.cell .. w.cell + w.len - 1
                                     THEN w.pos + (c - w.cell) ELSE mem[c]]
    /\ memSts' = memSts + 1
    /\ memWr' = Tail(memWr)
    /\ UNCHANGED <<rxVars, splitSeg, ranVars, hisVars>>

----------------------------------------------------------------------------
(***************************************************************************)
(* Ran.  A notification of length 0 is thrown away; the status and the     *)
(* split flag of its segment are not.                                      *)
(***************************************************************************)
RanSecond ==
    /\ ran.double /\ memSts > 0
    /\ memSts' = memSts - 1
    /\ notified' = notified + ran.len
    /\ ran' = [double |-> FALSE, len |-> 0]
    /\ UNCHANGED <<rxVars, splitSeg, memWr, mem, fsmNotif, ranFifo, appd, rcvd,
                   kept, oooSeen, uncut, arrived>>

\* Mutant of StatusThere: the notification does not wait for the memory.
StatusThereNot == splitSeg # <<>>

\* Mutant of StatusThere: it waits for both accesses of a segment at once.
StatusThereBoth == memSts > 1 /\ splitSeg # <<>>

StatusThere == memSts > 0 /\ splitSeg # <<>>

RanFirst ==
    /\ ~ran.double /\ StatusThere /\ ranFifo # <<>>
    /\ memSts' = memSts - 1
    /\ splitSeg' = Tail(splitSeg)
    /\ ranFifo' = Tail(ranFifo)
    /\ IF Head(splitSeg)
         THEN /\ ran' = [double |-> TRUE, len |-> Head(ranFifo)]
              /\ UNCHANGED notified
         ELSE /\ notified' = notified + Head(ranFifo)
              /\ UNCHANGED ran
    /\ UNCHANGED <<rxVars, memWr, mem, fsmNotif, appd, rcvd, kept, oooSeen, uncut, arrived>>

RanNotif ==
    /\ ~ran.double /\ ~(memSts > 0 /\ splitSeg # <<>> /\ ranFifo # <<>>)
    /\ fsmNotif # <<>> /\ Len(ranFifo) < Depth
    /\ ranFifo' = IF Head(fsmNotif) = 0 THEN ranFifo ELSE Append(ranFifo, Head(fsmNotif))
    /\ fsmNotif' = Tail(fsmNotif)
    /\ UNCHANGED <<rxVars, memVars, ran, hisVars>>

Ran == RanSecond \/ RanFirst \/ RanNotif

\* The application reads all it has been notified of; RAi reads the bytes
\* from memory and moves 'appd'.
AppRead ==
    /\ appd < notified
    /\ appd' = notified
    /\ sar' = [sar EXCEPT !.appd = (@ + (notified - appd)) % BufSize]
    /\ UNCHANGED <<fsm, payload, dropCmd, wrCmd, mwrData, memVars, ranVars, rcvd,
                   notified, kept, oooSeen, uncut, arrived>>

----------------------------------------------------------------------------
Next ==
    \/ \E seg \in Segment : FsmLoad(seg)
    \/ FsmTransition \/ Tsd \/ Mwr \/ MwrUncut \/ MemWrite \/ Ran \/ AppRead

Spec == Init /\ [][Next]_vars

\* The processes are free-running loops and MEM completes its accesses; the
\* peer and the application may stop.
FairSpec ==
    /\ Spec
    /\ WF_vars(FsmTransition) /\ WF_vars(Tsd) /\ WF_vars(Mwr)
    /\ WF_vars(MemWrite) /\ WF_vars(Ran)

----------------------------------------------------------------------------
StreamOf(S) == {s \in Seq(S) : Len(s) <= Depth}
SarEntry == [appd : 0 .. BufSize - 1, rcvd : SeqNum, ooo : BOOLEAN,
             oooHead : SeqNum, oooTail : SeqNum]

\* The tables, the streams and the registers keep their types.
TypeOK ==
    /\ sar \in SarEntry
    /\ fsm \in [pc : {"load"}] \cup [pc : {"transition"}, seg : Segment, sar : SarEntry]
    /\ payload \in StreamOf(Segment) /\ mwrData \in StreamOf(Segment)
    /\ dropCmd \in StreamOf(BOOLEAN) /\ splitSeg \in StreamOf(BOOLEAN)
    /\ wrCmd \in StreamOf([seq : SeqNum, len : 1 .. MaxLen])
    /\ memWr \in Seq([cell : 0 .. BufSize - 1, pos : Position, len : 1 .. MaxLen])
    /\ memSts \in Nat /\ mem \in [0 .. BufSize - 1 -> 0 .. Empty]
    /\ fsmNotif \in StreamOf(0 .. MaxPos) /\ ranFifo \in StreamOf(1 .. MaxPos)
    /\ ran \in [double : BOOLEAN, len : 0 .. MaxPos]
    /\ appd \in Position /\ rcvd \in Position /\ notified \in Position
    /\ kept \subseteq Position /\ oooSeen \in BOOLEAN /\ uncut \in BOOLEAN
    /\ arrived \in 0 .. MaxSegments

Total(s) ==
    LET first[n \in 0 .. Len(s)] == IF n = 0 THEN 0 ELSE first[n - 1] + s[n]
    IN  first[Len(s)]

\* Every byte that is acknowledged to the peer ('rcvd' has passed it) is
\* notified to the application once: it is in one notification on its way,
\* or already notified.  Types hold, too.
AckedIsNotifiedOnce ==
    /\ TypeOK
    /\ rcvd = notified + ran.len + Total(ranFifo) + Total(fsmNotif)

\* Nothing is acknowledged that has not been kept, and the block between
\* oooTail and oooHead, which is acknowledged as soon as the gap before it is
\* filled, consists of kept bytes only and lies beyond 'rcvd'.
AckedIsKept ==
    LET tail == rcvd + Minus(sar.oooTail, sar.rcvd, SeqMod)
        head == rcvd + Minus(sar.oooHead, sar.rcvd, SeqMod)
    IN
    /\ \A p \in 0 .. rcvd - 1 : p \in kept
    /\ sar.ooo => rcvd < tail /\ tail < head /\ \A p \in tail .. head - 1 : p \in kept

\* "Delays the notifications to the application until the TCP segment is
\* actually written into the physical DRAM memory" (rx_engine.cpp, pRxAppNotifier):
\* the bytes the application is notified of and has not read are in the
\* buffer, each in its cell.
NotifiedIsStored ==
    \A p \in appd .. notified - 1 : mem[Cell(SeqOf(p))] = p

\* The same, as long as no segment has been kept out of order and no payload has
\* been written uncut.
StoredWhileInOrder == ~oooSeen /\ ~uncut => NotifiedIsStored

\* What is acknowledged reaches the application: the last notification does not stay
\* behind in Ran, unless a payload was written uncut.
AckedIsDelivered == []<>(notified = rcvd \/ uncut)
=============================================================================
