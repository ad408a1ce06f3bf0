------------------------------- MODULE TxStream -------------------------------
(*****************************************************************************)
(* The transmit path of the TCP offload engine for one established session:  *)
(* TAi takes data of the application (Sml, Mwr, Emx, Tash, Tat), MEM keeps   *)
(* it in a ring buffer, TSt keeps the pointers, TXe turns events into        *)
(* segments (Mdl, Mrd, Tss), the peer acknowledges them, RXe reports the     *)
(* acknowledgments to TSt and TIm.                                           *)
(*                                                                           *)
(* A byte of the stream is represented by its position, a natural number.    *)
(* Sequence numbers are positions modulo SeqMod, buffer pointers are         *)
(* positions modulo BufSize (ap_uint<16> of a 64-KB buffer in the code).     *)
(*****************************************************************************)
EXTENDS Naturals, Sequences

CONSTANTS
    BufSize,     \* TOE_TX_BUFFER_SIZE
    SeqMod,      \* 2^32, a multiple of the buffer size
    Chunk,       \* ARW/8: bytes of an AXI4-Stream chunk
    Mss,         \* ZYC2_MSS - TCP_HEADER_LEN: largest payload of a segment
    Streams,     \* <<position of the first byte, length of a request, number of requests>>
    Windows,     \* receive windows the peer advertises
    MaxLosses,   \* bound: segments the network loses
    MaxExpired,  \* bound: expirations of the retransmit timer
    EmxDepth,    \* depth of ssEmxToTash_Event
    EventDepth,  \* depth of the path of events from TAi and TIm to TXe
    PipeDepth,   \* depth of the other streams
    WireDepth    \* segments, and acknowledgments, in the network; bound

SizeAssumption ==
    /\ {BufSize, SeqMod, Chunk, Mss, EmxDepth, EventDepth, PipeDepth, WireDepth} \subseteq Nat \ {0}
    /\ {MaxLosses, MaxExpired} \subseteq Nat
    /\ SeqMod % BufSize = 0 /\ SeqMod >= 2 * BufSize
LengthAssumption == Streams \subseteq Nat \X (1..(BufSize - 1)) \X Nat /\ Windows \subseteq 1..(BufSize - 1)
ASSUME SizeAssumption
ASSUME LengthAssumption

\* No last chunk of a request has bytes on both sides of the end of the buffer.
LastBytes(l) == 1 + ((l - 1) % Chunk)
EndsApart ==
    \A s \in Streams : \A i \in 1..s[3] : (s[1] + i * s[2]) % BufSize \notin 1..(LastBytes(s[2]) - 1)

VARIABLES
    app,      \* application: length, request, requests left, closed?, next position;
              \* history: position after the data whose events are ahead of the FIN
    data,     \* siTAIF_Data: chunks of accepted requests
    sml,      \* Sml: state, request, replies of STt (ESTABLISHED?) and of Tat
    tat,      \* TX_APP_TABLE: ackd, mempt
    push,     \* TSt -> Tat: acknowledged pointers
    meta,     \* Sml -> Mwr
    smlEv, tacEv, emxEv,   \* Sml -> Emx, Tac -> Emx, Emx -> Tash
    mwr,      \* Mwr: state and registers
    wrCmd,    \* write commands of MEM, with the bytes already written
    sts,      \* number of write statuses of MEM not yet read
    mem,      \* Tx buffer: which position each cell holds
    tash,     \* Tash: state and event
    tst,      \* TX_SAR_TABLE
    evq,      \* events on their way to TXe
    mdl,      \* Mdl: state, event, copy of the TSt entry, segment count
    hdr,      \* Mdl -> Tss, by way of Phc
    rdCmd,    \* Mdl -> Mrd
    mrd,      \* Mrd: rest of a split access
    rdData,   \* MEM -> Tss: chunks
    split,    \* Mrd -> Tss: split flags
    wire,     \* segments in the network
    acks,     \* acknowledgments on their way to RXe
    rxe,      \* RXe: acknowledgment it works on and its copy of TSt
    timer,    \* retransmit timer: active? and how often it expired
    peer,     \* peer: next position, FIN seen?, right edge of its window
    losses    \* number of lost segments

tai == <<app, data, sml, tat, meta, smlEv, tacEv, emxEv, tash>>
wr  == <<mwr, wrCmd, sts, mem>>
txe == <<mdl, hdr, rdCmd, mrd, rdData, split>>
net == <<wire, acks, peer, losses>>
vars == <<tai, wr, push, tst, evq, txe, rxe, timer, net>>

-----------------------------------------------------------------------------
(* Numbers and chunks *)
Ptr(n) == n % BufSize
Minus(a, b, m) == (m + a - b) % m
Take(s, n) == SubSeq(s, 1, IF n < Len(s) THEN n ELSE Len(s))
Drop(s, n) == SubSeq(s, n + 1, Len(s))
AChunk(b, l) == [bytes |-> b, last |-> l]

\* The n values f[1] .. f[n] as a sequence of chunks, TLAST on the last one.
Chunks(f, n) ==
    LET k == (n + Chunk - 1) \div Chunk
    IN  [i \in 1..k |-> AChunk(SubSeq(f, (i - 1) * Chunk + 1, IF i = k THEN n ELSE i * Chunk), i = k)]

Event(t, a, n) == [type |-> t, address |-> a, length |-> n]
NoSar == [ackd |-> 0, unak |-> 0, app |-> 0, win |-> 0, finReady |-> FALSE, finSent |-> FALSE]
NoFrame == [hdr |-> <<>>, bytes |-> <<>>]

InitFrom(f, n, k) ==
    /\ app = [len |-> n, req |-> 0, sends |-> k, closed |-> FALSE, next |-> f, due |-> f]
    /\ data = <<>> /\ meta = <<>> /\ smlEv = <<>> /\ tacEv = <<>> /\ emxEv = <<>> /\ push = <<>>
    /\ sml = [st |-> "READ_REQUEST", len |-> 0, est |-> FALSE, rep |-> [ackd |-> 0, mempt |-> 0]]
    /\ tat = [ackd |-> Ptr(f), mempt |-> Ptr(f)]
    /\ mwr = [st |-> "IDLE", addr |-> 0, btt |-> 0, nr |-> 0, cur |-> <<>>]
    /\ wrCmd = <<>> /\ sts = 0 /\ mem = [c \in 0..(BufSize - 1) |-> 0]
    /\ tash = [st |-> "IDLE", ev |-> Event("TX", 0, 0)]
    /\ \E w \in Windows :
          /\ tst = [NoSar EXCEPT !.ackd = f % SeqMod, !.unak = f % SeqMod, !.app = Ptr(f), !.win = w]
          /\ peer = [rcv |-> f, fin |-> FALSE, edge |-> f + w]
    /\ evq = <<>> /\ hdr = <<>> /\ rdCmd = <<>> /\ rdData = <<>> /\ split = <<>>
    /\ mdl = [st |-> "WAIT_EVENT", type |-> "TX", rt |-> FALSE, sar |-> NoSar, count |-> 0]
    /\ mrd = [addr |-> 0, len |-> 0]
    /\ wire = <<>> /\ acks = <<>> /\ losses = 0
    /\ rxe = [st |-> "LOAD", ack |-> 0, win |-> 0, ackd |-> 0, unak |-> 0]
    /\ timer = [active |-> FALSE, expired |-> 0]

Init == \E s \in Streams : InitFrom(s[1], s[2], s[3])

-----------------------------------------------------------------------------
(* TAi: requests of the application *)

AppRequest ==
    /\ app.req = 0 /\ ~app.closed /\ app.sends > 0
    /\ app' = [app EXCEPT !.req = app.len, !.sends = @ - 1]
    /\ UNCHANGED <<data, sml, tat, meta, smlEv, tacEv, emxEv, tash, wr, push, tst, evq, txe, rxe, timer, net>>

\* Position after the data whose events Emx has taken.
LeftSml == app.next - Len(smlEv) * app.len

\* Tac on a close request: FIN_WAIT_1 is written and a FIN_EVENT goes to Emx.  STt takes
\* the write before the next request of Sml; what it has told Sml stays told.
AppClose ==
    /\ ~app.closed
    /\ app' = [app EXCEPT !.closed = TRUE, !.due = LeftSml]
    /\ tacEv' = Append(tacEv, Event("FIN", 0, 0))
    /\ UNCHANGED <<data, sml, tat, meta, smlEv, emxEv, tash, wr, push, tst, evq, txe, rxe, timer, net>>

\* Sml asks STt, which takes no lock, and Tat.
SmlRequest ==
    /\ sml.st = "READ_REQUEST" /\ app.req # 0
    /\ sml' = [st |-> "READ_META", len |-> app.req, est |-> ~app.closed, rep |-> tat]
    /\ UNCHANGED <<app, data, tat, meta, smlEv, tacEv, emxEv, tash, wr, push, tst, evq, txe, rxe, timer, net>>

\* Tat answers later than STt.
TatAnswer ==
    /\ sml.st = "READ_META" /\ sml.rep # tat
    /\ sml' = [sml EXCEPT !.rep = tat]
    /\ UNCHANGED <<app, data, tat, meta, smlEv, tacEv, emxEv, tash, wr, push, tst, evq, txe, rxe, timer, net>>

MaxWriteLength == Minus(sml.rep.ackd, sml.rep.mempt + 1, BufSize)
HasSpace == sml.len <= MaxWriteLength

\* NO_ERROR: the application streams its bytes, Mwr and Tash are told.
SmlAccept ==
    /\ sml.st = "READ_META" /\ sml.est /\ HasSpace
    /\ Len(smlEv) < PipeDepth
    /\ meta' = Append(meta, [addr |-> sml.rep.mempt, len |-> sml.len])
    /\ smlEv' = Append(smlEv, Event("TX", sml.rep.mempt, sml.len))
    /\ tat' = [tat EXCEPT !.mempt = Ptr(sml.rep.mempt + sml.len)]
    /\ data' = data \o Chunks([i \in 1..sml.len |-> app.next + i - 1], sml.len)
    /\ app' = [app EXCEPT !.req = 0, !.next = @ + sml.len]
    /\ sml' = [sml EXCEPT !.st = "READ_REQUEST"]
    /\ UNCHANGED <<tacEv, emxEv, tash, wr, push, tst, evq, txe, rxe, timer, net>>

\* NO_CONNECTION (STt may answer later than Tat) or NO_SPACE.
SmlRefuse ==
    /\ sml.st = "READ_META" /\ (app.closed \/ ~HasSpace)
    /\ app' = [app EXCEPT !.req = 0]
    /\ sml' = [sml EXCEPT !.st = "READ_REQUEST"]
    /\ UNCHANGED <<data, tat, meta, smlEv, tacEv, emxEv, tash, wr, push, tst, evq, txe, rxe, timer, net>>

Sml == SmlRequest \/ SmlAccept \/ SmlRefuse

TatPush ==
    /\ push # <<>>
    /\ tat' = [tat EXCEPT !.ackd = Head(push)] /\ push' = Tail(push)
    /\ UNCHANGED <<app, data, sml, meta, smlEv, tacEv, emxEv, tash, wr, tst, evq, txe, rxe, timer, net>>

\* pStreamMux: the first input, Tac, takes precedence.
Emx ==
    /\ Len(emxEv) < EmxDepth
    /\ \/ /\ tacEv # <<>>
          /\ emxEv' = Append(emxEv, Head(tacEv)) /\ tacEv' = Tail(tacEv) /\ UNCHANGED smlEv
       \/ /\ tacEv = <<>> /\ smlEv # <<>>
          /\ emxEv' = Append(emxEv, Head(smlEv)) /\ smlEv' = Tail(smlEv) /\ UNCHANGED tacEv
    /\ UNCHANGED <<app, data, sml, tat, meta, tash, wr, push, tst, evq, txe, rxe, timer, net>>

-----------------------------------------------------------------------------
(* Mwr and the write side of MEM *)

Wraps(addr, len) == addr + len > BufSize

\* The data mover takes the chunk c of the command at the head of cmds; with
\* TLAST it is done with the command and returns a status.
WriteChunk(b, last, cmds) ==
    LET c == Head(cmds)
    IN  /\ mem' = [p \in DOMAIN mem |-> IF p >= c.addr /\ p < c.addr + Len(b) THEN b[p - c.addr + 1] ELSE mem[p]]
        /\ wrCmd' = IF last THEN Tail(cmds) ELSE [cmds EXCEPT ![1].addr = @ + Len(b)]
        /\ sts' = IF last THEN sts + 1 ELSE sts

MwrIdle ==
    /\ mwr.st = "IDLE" /\ meta # <<>>
    /\ LET m == Head(meta)
       IN  IF Wraps(m.addr, m.len)
           THEN /\ mwr' = [mwr EXCEPT !.st = "SPLIT_1ST_CMD", !.addr = m.addr, !.btt = m.len]
                /\ UNCHANGED wrCmd
           ELSE /\ wrCmd' = Append(wrCmd, m)
                /\ mwr' = [mwr EXCEPT !.st = "FWD_ALIGNED", !.addr = m.addr, !.btt = m.len]
    /\ meta' = Tail(meta)
    /\ UNCHANGED <<app, data, sml, tat, smlEv, tacEv, emxEv, tash, sts, mem, push, tst, evq, txe, rxe, timer, net>>

MwrSplit ==
    /\ mwr.st = "SPLIT_1ST_CMD"
    /\ wrCmd' = Append(wrCmd, [addr |-> mwr.addr, len |-> BufSize - mwr.addr])
    /\ mwr' = [mwr EXCEPT !.st = "FWD_1ST_BUF", !.nr = BufSize - mwr.addr]
    /\ UNCHANGED <<tai, sts, mem, push, tst, evq, txe, rxe, timer, net>>

MwrAligned ==
    /\ mwr.st = "FWD_ALIGNED" /\ data # <<>>
    /\ WriteChunk(Head(data).bytes, Head(data).last, wrCmd)
    /\ mwr' = [mwr EXCEPT !.st = IF Head(data).last THEN "IDLE" ELSE @]
    /\ data' = Tail(data)
    /\ UNCHANGED <<app, sml, tat, meta, smlEv, tacEv, emxEv, tash, push, tst, evq, txe, rxe, timer, net>>

\* Third branch: the chunk straddles the end of the buffer; its rest is kept in cur.
MwrFirst ==
    /\ mwr.st = "FWD_1ST_BUF" /\ data # <<>>
    /\ LET c == Head(data).bytes
           second == [addr |-> 0, len |-> mwr.btt - (BufSize - mwr.addr)]
       IN  \/ /\ mwr.nr > Chunk
              /\ WriteChunk(c, FALSE, wrCmd)
              /\ mwr' = [mwr EXCEPT !.nr = @ - Chunk]
           \/ /\ mwr.nr = Chunk
              /\ WriteChunk(c, TRUE, Append(wrCmd, second))
              /\ mwr' = [mwr EXCEPT !.st = "FWD_ALIGNED"]
           \/ /\ mwr.nr < Chunk
              /\ WriteChunk(Take(c, mwr.nr), TRUE, Append(wrCmd, second))
              /\ mwr' = [mwr EXCEPT !.st = "FWD_2ND_BUF", !.cur = Drop(c, mwr.nr)]
    /\ data' = Tail(data)
    /\ UNCHANGED <<app, sml, tat, meta, smlEv, tacEv, emxEv, tash, push, tst, evq, txe, rxe, timer, net>>

\* The stream of write commands is full at the end of the buffer: the chunk is written
\* uncut, without TLAST, and no second command.  What MEM does with more bytes than the
\* command asks for is not followed, nor Mwr from here.
MwrUncut ==
    /\ mwr.st = "FWD_1ST_BUF" /\ data # <<>> /\ mwr.nr <= Chunk
    /\ WriteChunk(Take(Head(data).bytes, mwr.nr), FALSE, wrCmd)
    /\ mwr' = [mwr EXCEPT !.st = "UNCUT"]
    /\ data' = Tail(data)
    /\ UNCHANGED <<app, sml, tat, meta, smlEv, tacEv, emxEv, tash, push, tst, evq, txe, rxe, timer, net>>

MwrSecond ==
    /\ mwr.st = "FWD_2ND_BUF" /\ data # <<>>
    /\ LET c == Head(data)
           done == c.last /\ Len(c.bytes) <= mwr.nr
       IN  /\ WriteChunk(mwr.cur \o Take(c.bytes, mwr.nr), done, wrCmd)
           /\ mwr' = [mwr EXCEPT !.cur = Drop(c.bytes, mwr.nr),
                                 !.st = IF done THEN "IDLE" ELSE IF c.last THEN "RESIDUE" ELSE @]
    /\ data' = Tail(data)
    /\ UNCHANGED <<app, sml, tat, meta, smlEv, tacEv, emxEv, tash, push, tst, evq, txe, rxe, timer, net>>

MwrResidue ==
    /\ mwr.st = "RESIDUE"
    /\ WriteChunk(mwr.cur, TRUE, wrCmd)
    /\ mwr' = [mwr EXCEPT !.st = "IDLE"]
    /\ UNCHANGED <<tai, push, tst, evq, txe, rxe, timer, net>>

Mwr == MwrIdle \/ MwrSplit \/ MwrAligned \/ MwrFirst \/ MwrUncut \/ MwrSecond \/ MwrResidue

-----------------------------------------------------------------------------
(* Tash: the event follows the data *)

TashIdle ==
    /\ tash.st = "IDLE" /\ emxEv # <<>>
    /\ \/ /\ Head(emxEv).type = "TX"
          /\ tash' = [st |-> "RD_MEM_STATUS_1", ev |-> Head(emxEv)] /\ UNCHANGED evq
       \/ /\ Head(emxEv).type # "TX" /\ Len(evq) < EventDepth
          /\ evq' = Append(evq, Head(emxEv).type) /\ UNCHANGED tash
    /\ emxEv' = Tail(emxEv)
    /\ UNCHANGED <<app, data, sml, tat, meta, smlEv, tacEv, wr, push, tst, txe, rxe, timer, net>>

TxAppPtr == tash.ev.address + tash.ev.length
\* Mutants of Carry: a second status is expected of every request; of none.
CarryAlways == TRUE
CarryNever == FALSE
\* Bit TOE_WINDOW_BITS of the sum.
Carry == TxAppPtr >= BufSize

\* The push to TSt is served before TXe reads TSt for the event that follows it.
Announce ==
    /\ Len(evq) < EventDepth
    /\ tst' = [tst EXCEPT !.app = Ptr(TxAppPtr)]
    /\ evq' = Append(evq, "TX")
    /\ tash' = [tash EXCEPT !.st = "IDLE"]

TashStatus1 ==
    /\ tash.st = "RD_MEM_STATUS_1" /\ sts > 0
    /\ sts' = sts - 1
    /\ \/ Carry /\ tash' = [tash EXCEPT !.st = "RD_MEM_STATUS_2"] /\ UNCHANGED <<tst, evq>>
       \/ ~Carry /\ Announce
    /\ UNCHANGED <<app, data, sml, tat, meta, smlEv, tacEv, emxEv, mwr, wrCmd, mem, push, txe, rxe, timer, net>>

TashStatus2 ==
    /\ tash.st = "RD_MEM_STATUS_2" /\ sts > 0
    /\ sts' = sts - 1
    /\ Announce
    /\ UNCHANGED <<app, data, sml, tat, meta, smlEv, tacEv, emxEv, mwr, wrCmd, mem, push, txe, rxe, timer, net>>

Tash == TashIdle \/ TashStatus1 \/ TashStatus2

-----------------------------------------------------------------------------
(* TXe: Mdl decides what to send *)

\* TSt serves TXe before TAi and RXe, so the copy is the entry as it is now.
MdlWait ==
    /\ mdl.st = "WAIT_EVENT" /\ evq # <<>>
    /\ mdl' = [st |-> "PROCESS_EVENT", type |-> Head(evq), rt |-> Head(evq) = "RT", sar |-> tst, count |-> 0]
    /\ evq' = Tail(evq)
    /\ UNCHANGED <<tai, wr, push, tst, hdr, rdCmd, mrd, rdData, split, rxe, timer, net>>

Header(seq, n, fin) == [seq |-> seq, len |-> n, fin |-> fin]

\* A segment: read command, metadata, retransmit timer.
Send(seq, n, fin) ==
    /\ Len(hdr) < PipeDepth /\ Len(rdCmd) < PipeDepth
    /\ rdCmd' = IF n = 0 THEN rdCmd ELSE Append(rdCmd, [addr |-> Ptr(seq), len |-> n])
    /\ hdr' = Append(hdr, Header(seq, n, fin))
    /\ timer' = [timer EXCEPT !.active = TRUE]

SendData(seq, n) == IF n = 0 THEN UNCHANGED <<hdr, rdCmd, timer>> ELSE Send(seq, n, FALSE)

Sar == mdl.sar
CurrDatLen == Minus(Sar.app, Ptr(Sar.unak), BufSize)
\* Mutant of UsedLength: bytes in flight are not counted.
UsedLengthNone == 0
UsedLength == Minus(Ptr(Sar.unak), Ptr(Sar.ackd), BufSize)
UsableWindow == IF Sar.win > UsedLength THEN Sar.win - UsedLength ELSE 0
Plus(seq, n) == (seq + n) % SeqMod

\* All that is unsent fits into the window, or a whole segment does: send Mss and stay.
TxFragment ==
    /\ Mss < CurrDatLen \/ CurrDatLen > UsableWindow
    /\ CurrDatLen > UsableWindow => UsableWindow >= Mss
    /\ SendData(Sar.unak, Mss)
    /\ mdl' = [mdl EXCEPT !.sar.unak = Plus(@, Mss)]
    /\ UNCHANGED tst

\* FIN still to be sent, and nothing in flight or nothing to send: what is
\* unsent in the first case is not sent.
FinDue == CurrDatLen <= UsableWindow /\ Sar.finReady /\ (Sar.ackd = Sar.unak \/ CurrDatLen = 0)

\* The last segment, or what is left of the window.
TxLast ==
    LET n == IF FinDue THEN 0 ELSE IF CurrDatLen <= UsableWindow THEN CurrDatLen ELSE UsableWindow
    IN  /\ IF CurrDatLen <= UsableWindow THEN CurrDatLen <= Mss ELSE UsableWindow < Mss
        /\ SendData(Sar.unak, n)
        /\ tst' = [tst EXCEPT !.unak = Plus(Sar.unak, n)]
        /\ mdl' = IF FinDue THEN [mdl EXCEPT !.type = "FIN"]
                  ELSE [mdl EXCEPT !.st = "WAIT_EVENT", !.sar = NoSar, !.count = 0]

MdlTx ==
    /\ mdl.st = "PROCESS_EVENT" /\ mdl.type = "TX"
    /\ TxFragment \/ TxLast
    /\ UNCHANGED <<tai, wr, push, evq, mrd, rdData, split, rxe, net>>

\* Bytes in flight; a FIN that was sent takes one number and no byte.
InFlight == Minus(Ptr(Sar.unak), Ptr(Sar.ackd) + (IF Sar.finSent THEN 1 ELSE 0), BufSize)

MdlRt ==
    /\ mdl.st = "PROCESS_EVENT" /\ mdl.type = "RT"
    /\ \/ /\ InFlight > Mss
          /\ SendData(Sar.ackd, Mss)
          /\ mdl' = [mdl EXCEPT !.sar.ackd = Plus(@, Mss), !.count = (@ + 1) % 4,
                                !.st = IF mdl.count = 3 THEN "WAIT_EVENT" ELSE @]
       \/ /\ InFlight <= Mss
          /\ SendData(Sar.ackd, InFlight)
          /\ mdl' = IF Sar.finSent THEN [mdl EXCEPT !.type = "FIN"]
                    ELSE [mdl EXCEPT !.st = "WAIT_EVENT", !.sar = NoSar, !.count = 0]
    /\ UNCHANGED <<tai, wr, push, tst, evq, mrd, rdData, split, rxe, net>>

\* Mutant of MayCarryFin: the FIN is sent though data is left.
MayCarryFinAnyway(seq) == TRUE
MayCarryFin(seq) == Ptr(seq) = Sar.app

\* A FIN waits until all data is sent; a retransmitted one reuses its number.
MdlFin ==
    /\ mdl.st = "PROCESS_EVENT" /\ mdl.type = "FIN"
    /\ LET seq == IF mdl.rt THEN Minus(Sar.unak, 1, SeqMod) ELSE Sar.unak
           allSent == Sar.app = Ptr(Sar.unak)
       IN  /\ tst' = IF mdl.rt THEN tst
                     ELSE IF allSent THEN [tst EXCEPT !.unak = Plus(Sar.unak, 1), !.finReady = TRUE, !.finSent = TRUE]
                     ELSE [tst EXCEPT !.unak = Sar.unak, !.finReady = TRUE]
           /\ IF MayCarryFin(seq) THEN Send(seq, 0, TRUE) ELSE UNCHANGED <<hdr, rdCmd, timer>>
    /\ mdl' = [mdl EXCEPT !.st = "WAIT_EVENT", !.sar = NoSar, !.count = 0]
    /\ UNCHANGED <<tai, wr, push, evq, mrd, rdData, split, rxe, net>>

Mdl == MdlWait \/ MdlTx \/ MdlRt \/ MdlFin

-----------------------------------------------------------------------------
(* Mrd and the read side of MEM *)

MemChunks(addr, n) == Chunks([i \in 1..n |-> mem[(addr + i - 1) % BufSize]], n)

MrdFirst ==
    /\ mrd.len = 0 /\ rdCmd # <<>> /\ rdData = <<>>
    /\ LET c == Head(rdCmd)
           w == Wraps(c.addr, c.len)
           n == IF w THEN BufSize - c.addr ELSE c.len
       IN  /\ rdData' = rdData \o MemChunks(c.addr, n)
           /\ split' = Append(split, w)
           /\ mrd' = [addr |-> 0, len |-> c.len - n]
    /\ rdCmd' = Tail(rdCmd)
    /\ UNCHANGED <<tai, wr, push, tst, evq, mdl, hdr, rxe, timer, net>>

MrdSecond ==
    /\ mrd.len # 0
    /\ rdData' = rdData \o MemChunks(mrd.addr, mrd.len)
    /\ mrd' = [mrd EXCEPT !.len = 0]
    /\ UNCHANGED <<tai, wr, push, tst, evq, mdl, hdr, rdCmd, split, rxe, timer, net>>

Mrd == MrdFirst \/ MrdSecond

-----------------------------------------------------------------------------
(* Tss joins header and payload; Sca and Ips forward up to TLAST *)

\* Tss has no choice and shares nothing: its iterations over one segment are one
\* step. out: the frames cut by TLAST; frame: the one under way.
Forward(t, b) == [t EXCEPT !.frame.bytes = @ \o b]
Emit(t, b) == [t EXCEPT !.out = Append(@, Forward(t, b).frame), !.frame = NoFrame]
PsdHdr(h) == [st |-> "DATA", prev |-> <<>>, join |-> FALSE, out |-> <<>>, frame |-> [hdr |-> <<h>>, bytes |-> <<>>]]
Done(t) == [t EXCEPT !.st = "PSD_HDR", !.prev = <<>>]

\* Mutant of EndOfFirst: the bytes of the first buffer are not kept.
EndOfFirstForgets(t, b) == [t EXCEPT !.st = IF Len(b) = Chunk THEN "FWD_2ND_BUF" ELSE "JOIN_2ND_BUF", !.prev = <<>>]
\* Last chunk of the first buffer: if it is not full, it is completed from the second.
EndOfFirst(t, b) == [t EXCEPT !.st = IF Len(b) = Chunk THEN "FWD_2ND_BUF" ELSE "JOIN_2ND_BUF",
                              !.prev = IF Len(b) = Chunk THEN <<>> ELSE b]

\* When the first buffer is a single full chunk, its TLAST is not cleared.
TssData(t, c, splits) ==
    LET u == [t EXCEPT !.join = splits]
    IN  IF ~c.last THEN [Forward(u, c.bytes) EXCEPT !.st = "FWD_1ST_BUF"]
        ELSE IF ~splits THEN Done(Emit(u, c.bytes))
        ELSE EndOfFirst(IF Len(c.bytes) = Chunk THEN Emit(u, c.bytes) ELSE u, c.bytes)

TssFirst(t, c) ==
    IF ~c.last THEN Forward(t, c.bytes)
    ELSE IF ~t.join THEN Done(Emit(t, c.bytes))
    ELSE EndOfFirst(IF Len(c.bytes) = Chunk THEN Forward(t, c.bytes) ELSE t, c.bytes)

TssSecond(t, c) == IF c.last THEN Done(Emit(t, c.bytes)) ELSE Forward(t, c.bytes)

TssJoin(t, c) ==
    LET room == Chunk - Len(t.prev)
        joined == t.prev \o Take(c.bytes, room)
    IN  IF Len(c.bytes) <= room THEN Done(Emit(t, joined))
        ELSE [Forward(t, joined) EXCEPT !.prev = Drop(c.bytes, room), !.st = IF c.last THEN "RESIDUE" ELSE @]

TssResidue(t) == IF t.st = "RESIDUE" THEN Done(Emit(t, t.prev)) ELSE t

TssChunk(t, c, splits) ==
    CASE t.st = "DATA"         -> TssData(t, c, splits)
      [] t.st = "FWD_1ST_BUF"  -> TssFirst(t, c)
      [] t.st = "FWD_2ND_BUF"  -> TssSecond(t, c)
      [] t.st = "JOIN_2ND_BUF" -> TssJoin(t, c)
      [] OTHER                 -> t

Frames(h, chunks, splits) ==
    LET tss[i \in 0..Len(chunks)] == IF i = 0 THEN PsdHdr(h) ELSE TssChunk(tss[i - 1], chunks[i], splits)
    IN  TssResidue(tss[Len(chunks)]).out

TssHeader ==
    /\ hdr # <<>> /\ Head(hdr).len = 0 /\ Len(wire) < WireDepth
    /\ wire' = Append(wire, [hdr |-> <<Head(hdr)>>, bytes |-> <<>>])
    /\ hdr' = Tail(hdr)
    /\ UNCHANGED <<tai, wr, push, tst, evq, mdl, rdCmd, mrd, rdData, split, rxe, timer, acks, peer, losses>>

TssSegment ==
    /\ hdr # <<>> /\ Head(hdr).len # 0 /\ Len(wire) < WireDepth
    /\ rdData # <<>> /\ mrd.len = 0
    /\ wire' = wire \o Frames(Head(hdr), rdData, Head(split))
    /\ hdr' = Tail(hdr) /\ rdData' = <<>> /\ split' = Tail(split)
    /\ UNCHANGED <<tai, wr, push, tst, evq, mdl, rdCmd, mrd, rxe, timer, acks, peer, losses>>

Tss == TssHeader \/ TssSegment

-----------------------------------------------------------------------------
(* The network and the peer (external), RXe and TIm *)

\* The position with sequence number s that is less than SeqMod/2 behind or ahead of rcv.
Position(s) ==
    LET back == Minus(peer.rcv % SeqMod, s, SeqMod)
    IN  IF 2 * back < SeqMod /\ back <= peer.rcv THEN peer.rcv - back ELSE peer.rcv + SeqMod - back

\* The peer takes what comes next, acknowledges, and never shrinks its window.
PeerTakes(w) ==
    /\ wire # <<>> /\ Len(acks) < WireDepth
    /\ LET s == Head(wire)
           h == IF s.hdr = <<>> THEN Header(0, 0, FALSE) ELSE s.hdr[1]
           from == Position(h.seq)
           upto == from + Len(s.bytes)
           next == IF s.hdr # <<>> /\ ~peer.fin /\ from <= peer.rcv /\ upto > peer.rcv THEN upto ELSE peer.rcv
           fin  == h.fin /\ from + h.len = next
           rcv  == IF fin /\ ~peer.fin THEN next + 1 ELSE next
       IN  /\ next + w >= peer.edge
           /\ peer' = [rcv |-> rcv, fin |-> peer.fin \/ fin, edge |-> next + w]
           /\ acks' = Append(acks, [ack |-> rcv % SeqMod, win |-> w])
    /\ wire' = Tail(wire)
    /\ UNCHANGED <<tai, wr, push, tst, evq, txe, rxe, timer, losses>>

Lose ==
    /\ wire # <<>> /\ losses < MaxLosses
    /\ wire' = Tail(wire) /\ losses' = losses + 1
    /\ UNCHANGED <<tai, wr, push, tst, evq, txe, rxe, timer, acks, peer>>

\* Fsm reads TSt ...
RxeLoad ==
    /\ rxe.st = "LOAD" /\ acks # <<>>
    /\ rxe' = [st |-> "TRANSITION", ack |-> Head(acks).ack, win |-> Head(acks).win, ackd |-> tst.ackd, unak |-> tst.unak]
    /\ acks' = Tail(acks)
    /\ UNCHANGED <<tai, wr, push, tst, evq, txe, timer, wire, peer, losses>>

InRange ==
    \/ rxe.ack >= rxe.ackd /\ rxe.ack <= rxe.unak
    \/ (rxe.ack >= rxe.ackd \/ rxe.ack <= rxe.unak) /\ rxe.unak < rxe.ackd

StopsTimer == rxe.ack = rxe.unak

\* ... and later stops the timer if all it knows of is acknowledged, and writes TSt.
RxeTransition ==
    /\ rxe.st = "TRANSITION" /\ Len(push) < PipeDepth
    /\ timer' = [timer EXCEPT !.active = @ /\ ~StopsTimer]
    /\ IF InRange
       THEN /\ tst' = [tst EXCEPT !.ackd = rxe.ack, !.win = rxe.win]
            /\ push' = Append(push, Ptr(rxe.ack))
       ELSE UNCHANGED <<tst, push>>
    /\ rxe' = [st |-> "LOAD", ack |-> 0, win |-> 0, ackd |-> 0, unak |-> 0]
    /\ UNCHANGED <<tai, wr, evq, txe, net>>

\* A timeout, at any time; at most one RT_EVENT is queued.
TImExpire ==
    /\ timer.active /\ timer.expired < MaxExpired /\ Len(evq) < EventDepth /\ ~\E i \in DOMAIN evq : evq[i] = "RT"
    /\ timer' = [active |-> FALSE, expired |-> timer.expired + 1] /\ evq' = Append(evq, "RT")
    /\ UNCHANGED <<tai, wr, push, tst, txe, rxe, net>>

TAi == AppRequest \/ AppClose \/ Sml \/ TatAnswer \/ TatPush \/ Emx \/ Mwr \/ Tash
TXe == Mdl \/ Mrd \/ Tss
RXe == RxeLoad \/ RxeTransition
Network == (\E w \in Windows : PeerTakes(w)) \/ Lose

Next == TAi \/ TXe \/ RXe \/ TImExpire \/ Network

Spec == Init /\ [][Next]_vars

\* All processes are called in every iteration of toe; the peer answers.
FairSpec ==
    /\ Spec
    /\ WF_vars(Sml \/ Emx \/ Mwr \/ Tash)
    /\ WF_vars(TXe \/ RXe \/ TatPush \/ (\E w \in Windows : PeerTakes(w)))

-----------------------------------------------------------------------------
(* Properties *)

\* Data has been accepted, or its event taken by Emx, after the FIN: Sml acts on an answer
\* of STt that is older than the close, and Emx serves Tac first.
Late == app.closed /\ app.due # app.next

\* A chunk has been written across the end of the ring.
Uncut == mwr.st = "UNCUT"

Events == [type : {"TX", "FIN"}, address : 0..(BufSize - 1), length : 0..BufSize]
States == [ackd : 0..(SeqMod - 1), unak : 0..(SeqMod - 1), app : 0..(BufSize - 1), win : Nat,
           finReady : BOOLEAN, finSent : BOOLEAN]

\* Pointers stay inside the ring and the sequence space, streams inside their depths.
TypeOK ==
    /\ tat \in [ackd : 0..(BufSize - 1), mempt : 0..(BufSize - 1)]
    /\ tst \in States /\ mdl.sar \in States
    /\ mdl.st \in {"WAIT_EVENT", "PROCESS_EVENT"} /\ mdl.type \in {"TX", "RT", "FIN"}
    /\ tash \in [st : {"IDLE", "RD_MEM_STATUS_1", "RD_MEM_STATUS_2"}, ev : Events]
    /\ Len(emxEv) <= EmxDepth /\ Len(evq) <= EventDepth
    /\ mem \in [0..(BufSize - 1) -> Nat] /\ sts \in Nat
    /\ \A i \in DOMAIN data : Len(data[i].bytes) \in 1..Chunk
    /\ \A i \in DOMAIN rdData : Len(rdData[i].bytes) \in 1..Chunk
    /\ timer \in [active : BOOLEAN, expired : 0..MaxExpired] /\ losses \in 0..MaxLosses

\* Position up to which the data is announced to TXe.
AppPos == IF tst.finSent THEN Position(tst.unak) - 1
          ELSE Position(tst.ackd) + Minus(tst.app, Ptr(tst.ackd), BufSize)

\* From the announcement to its acknowledgment by the peer, each byte is in its
\* cell of the ring: it is not announced before MEM has written it, and no later
\* request of the application overwrites it (Sml computes the free space from a
\* copy of the acknowledged pointer that ages in Tat).  Types hold, too.
UnackedIsKept ==
    /\ TypeOK
    /\ ~Uncut => \A p \in Position(tst.ackd)..(AppPos - 1) : mem[p % BufSize] = p

\* What a segment carries at the positions the peer still waits for is what the
\* application wrote there, although Mrd reads the ring after Mdl has chosen the
\* segment and an acknowledgment may free the cells in between.
PeerReads ==
    ~peer.fin /\ ~Late /\ ~Uncut => \A k \in DOMAIN wire :
        /\ wire[k].hdr # <<>>
        /\ Len(wire[k].bytes) = wire[k].hdr[1].len
        /\ \A i \in DOMAIN wire[k].bytes :
               LET p == Position(wire[k].hdr[1].seq) + i - 1 IN p >= peer.rcv => wire[k].bytes[i] = p

\* No segment reaches beyond the right edge of the windows the peer has
\* advertised, although Mdl computes the usable window from a copy of TSt.
WithinWindow ==
    ~peer.fin => \A k \in DOMAIN wire :
        wire[k].hdr # <<>> => Position(wire[k].hdr[1].seq) + wire[k].hdr[1].len <= peer.edge

\* The FIN comes after all of the data the application was allowed to send; if data is
\* late, after all whose events were ahead of it.
FinIsLast ==
    /\ peer.fin => IF Late THEN peer.rcv > app.due ELSE peer.rcv = app.next + 1
    /\ \A k \in DOMAIN wire :
           wire[k].hdr # <<>> /\ wire[k].hdr[1].fin =>
               LET p == Position(wire[k].hdr[1].seq) IN IF Late THEN p >= app.due ELSE p = app.next

\* Whatever is accepted from the application is announced to TXe in the end, whatever
\* is split, lost or retransmitted on the way.
AcceptedIsAnnounced == []<>(AppPos = app.next \/ Late \/ Uncut)
=============================================================================
