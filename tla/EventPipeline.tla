--------------------------- MODULE EventPipeline ---------------------------
(***************************************************************************)
(* The event path of the TCP Offload Engine (TOE).                         *)
(*                                                                         *)
(* RxEngine (RXe), Timers (TIm) and TxAppInterface (TAi) post events.  The *)
(* Event Engine (EVe) forwards them to the ACK Delayer (AKd), which holds  *)
(* ACK_EVENTs back for a while and passes the others on to the Meta Data   *)
(* Loader (Mdl) of the TxEngine (TXe).  Four free-running processes talk   *)
(* over bounded streams; a write to a full stream stalls the writer.  EVe  *)
(* learns how full the path is only from one-bit signals sent back by AKd  *)
(* and Mdl, counted in two pairs of wrapping ap_uint<8> counters.          *)
(*                                                                         *)
(* An iteration of EVe is one action.  An iteration of AKd or Mdl that     *)
(* writes to several streams is cut at each write that may stall.          *)
(***************************************************************************)
EXTENDS Integers, Sequences

CONSTANTS
    MaxSessions,     \* TOE_MAX_SESSIONS
    CntMod,          \* 2^8: the counters are ap_uint<8>
    AckDelays,       \* <<ACKD_64us, ACKD_32us, ..., ACKD_1us>>
    EveAkdDepth,     \* cDepth_EVeToAKd_Event
    AkdEveDepth,     \* cDepth_AKdToEVe_Event
    AkdTxeDepth,     \* cDepth_AKdToTXe_Event
    TxeEveDepth,     \* cDepth_TXeToEVe_Event
    Types,           \* the types of event that are posted in this instance
    MaxPosted        \* bound: how many events the three sources post in all

Session == 0 .. MaxSessions - 1

ASSUME SessionAssumption == MaxSessions \in Nat \ {0}
ASSUME DelayAssumption ==
    /\ AckDelays \in Seq(Nat)
    /\ Len(AckDelays) > 0
    /\ \A i \in 1 .. Len(AckDelays) : AckDelays[i] > 0
ASSUME DepthAssumption ==
    /\ EveAkdDepth \in Nat \ {0}
    /\ AkdEveDepth \in Nat \ {0}
    /\ AkdTxeDepth \in Nat \ {0}
    /\ TxeEveDepth \in Nat \ {0}
    /\ MaxPosted \in Nat
\* "the following counters depend on the FiFo depth between EVe and AKd"
ASSUME CounterAssumption ==
    /\ CntMod \in Nat
    /\ CntMod > EveAkdDepth + AkdEveDepth + 1

(***************************************************************************)
(* An event is its type and its session.  RST stands for a reset that      *)
(* answers a segment no session exists for: its sessionID field is 0.      *)
(***************************************************************************)
EventType == {"ACK", "ACK_NODELAY", "RST", "RT", "TX"}
ASSUME TypesAssumption == Types \subseteq EventType

Event     == [type : EventType, sess : Session]
Ev(t, s)  == [type |-> t, sess |-> s]

RxeEvent == {Ev(t, s) : t \in Types \cap {"ACK", "ACK_NODELAY"}, s \in Session}
            \cup {Ev(t, 0) : t \in Types \cap {"RST"}}
TimEvent == {Ev(t, s) : t \in Types \cap {"RT"}, s \in Session}
TaiEvent == {Ev(t, s) : t \in Types \cap {"TX"}, s \in Session}

AckEntry == [delay : Nat, count : Nat]

VARIABLES
    rxeEve, timEve, taiEve,     \* streams of events from the three sources
    posted,                     \* how many events the sources have posted
    eveAkd,                     \* stream of events from EVe to AKd
    akdEveRx, akdEveTx,         \* number of signals in the streams AKd -> EVe
    akdTxe,                     \* stream of events from AKd to Mdl
    txeEveRx,                   \* number of signals in the stream TXe -> EVe
    eve2akdWr, eve2akdRd,       \* EVe: events sent to AKd, received by AKd
    akd2txeWr, akd2txeRd,       \* EVe: events sent by AKd, received by TXe
    akdPc, akdEv,               \* where AKd stalls, and the event it holds
    ackTable, akdPtr,           \* ACK_TABLE, akd_Ptr
    mdlPc, mdlEv                \* where Mdl is, and mdl_curEvent

srcVars == <<rxeEve, timEve, taiEve, posted>>
eveVars == <<eve2akdWr, eve2akdRd, akd2txeWr, akd2txeRd>>
akdVars == <<akdPc, akdEv, ackTable, akdPtr>>
mdlVars == <<mdlPc, mdlEv>>
vars == <<srcVars, eveAkd, akdEveRx, akdEveTx, akdTxe, txeEveRx,
          eveVars, akdVars, mdlVars>>

----------------------------------------------------------------------------
\* Mutant of Inc: the counter saturates instead of wrapping.
IncSaturating(c) == IF c = CntMod - 1 THEN c ELSE c + 1

Inc(c) == IF c = CntMod - 1 THEN 0 ELSE c + 1    \* ap_uint ++

NoEvent == Ev("ACK", 0)     \* an event register that holds nothing of interest

Init ==
    /\ rxeEve = <<>> /\ timEve = <<>> /\ taiEve = <<>> /\ posted = 0
    /\ eveAkd = <<>> /\ akdEveRx = 0 /\ akdEveTx = 0
    /\ akdTxe = <<>> /\ txeEveRx = 0
    /\ eve2akdWr = 0 /\ eve2akdRd = 0 /\ akd2txeWr = 0 /\ akd2txeRd = 0
    /\ akdPc = "run" /\ akdEv = NoEvent
    /\ ackTable = [s \in Session |-> [delay |-> 0, count |-> 0]]
    /\ akdPtr = 0
    /\ mdlPc = "wait" /\ mdlEv = NoEvent

----------------------------------------------------------------------------
(***************************************************************************)
(* The sources.  Each source stream holds one event here: the streams are  *)
(* FIFOs, and only their head matters to EVe.                              *)
(***************************************************************************)
RXePost(e) ==
    /\ rxeEve = <<>> /\ posted < MaxPosted
    /\ rxeEve' = <<e>>
    /\ posted' = posted + 1
    /\ UNCHANGED <<timEve, taiEve, eveAkd, akdEveRx, akdEveTx, akdTxe,
                   txeEveRx, eveVars, akdVars, mdlVars>>

TImPost(e) ==
    /\ timEve = <<>> /\ posted < MaxPosted
    /\ timEve' = <<e>>
    /\ posted' = posted + 1
    /\ UNCHANGED <<rxeEve, taiEve, eveAkd, akdEveRx, akdEveTx, akdTxe,
                   txeEveRx, eveVars, akdVars, mdlVars>>

\* TAi posts a TX_EVENT, after it has moved the 'app' pointer in the TxSarTable.
TAiPost(e) ==
    /\ taiEve = <<>> /\ posted < MaxPosted
    /\ taiEve' = <<e>>
    /\ posted' = posted + 1
    /\ UNCHANGED <<rxeEve, timEve, eveAkd, akdEveRx, akdEveTx, akdTxe,
                   txeEveRx, eveVars, akdVars, mdlVars>>

----------------------------------------------------------------------------
(***************************************************************************)
(* Event Engine.                                                           *)
(***************************************************************************)
CountersEqual == eve2akdWr = eve2akdRd /\ akd2txeWr = akd2txeRd

TakeRXe == rxeEve # <<>> /\ Len(eveAkd) < EveAkdDepth

\* The last part of every iteration: consume one signal of each kind.
CollectSignals ==
    /\ akdEveRx' = IF akdEveRx > 0 THEN akdEveRx - 1 ELSE akdEveRx
    /\ eve2akdRd' = IF akdEveRx > 0 THEN Inc(eve2akdRd) ELSE eve2akdRd
    /\ akdEveTx' = IF akdEveTx > 0 THEN akdEveTx - 1 ELSE akdEveTx
    /\ akd2txeWr' = IF akdEveTx > 0 THEN Inc(akd2txeWr) ELSE akd2txeWr
    /\ txeEveRx' = IF txeEveRx > 0 THEN txeEveRx - 1 ELSE txeEveRx
    /\ akd2txeRd' = IF txeEveRx > 0 THEN Inc(akd2txeRd) ELSE akd2txeRd

EVeForwardRXe ==
    /\ TakeRXe
    /\ eveAkd' = Append(eveAkd, Head(rxeEve))
    /\ rxeEve' = Tail(rxeEve)
    /\ eve2akdWr' = Inc(eve2akdWr)
    /\ CollectSignals
    /\ UNCHANGED <<timEve, taiEve, posted, akdTxe, akdVars, mdlVars>>

EVeForwardTIm ==
    /\ ~TakeRXe /\ CountersEqual /\ timEve # <<>>
    /\ Len(eveAkd) < EveAkdDepth            \* the write would stall
    /\ eveAkd' = Append(eveAkd, Head(timEve))
    /\ timEve' = Tail(timEve)
    /\ eve2akdWr' = Inc(eve2akdWr)
    /\ CollectSignals
    /\ UNCHANGED <<rxeEve, taiEve, posted, akdTxe, akdVars, mdlVars>>

EVeForwardTAi ==
    /\ ~TakeRXe /\ CountersEqual /\ timEve = <<>> /\ taiEve # <<>>
    /\ Len(eveAkd) < EveAkdDepth            \* the write would stall
    /\ eveAkd' = Append(eveAkd, Head(taiEve))
    /\ taiEve' = Tail(taiEve)
    /\ eve2akdWr' = Inc(eve2akdWr)
    /\ CollectSignals
    /\ UNCHANGED <<rxeEve, timEve, posted, akdTxe, akdVars, mdlVars>>

\* An iteration that forwards nothing.
EVeIdle ==
    /\ ~TakeRXe
    /\ ~CountersEqual \/ (timEve = <<>> /\ taiEve = <<>>)
    /\ CollectSignals
    /\ UNCHANGED <<srcVars, eveAkd, eve2akdWr, akdTxe, akdVars, mdlVars>>

EVe == EVeForwardRXe \/ EVeForwardTIm \/ EVeForwardTAi \/ EVeIdle

----------------------------------------------------------------------------
(***************************************************************************)
(* ACK Delayer.                                                            *)
(***************************************************************************)
NLevel == Len(AckDelays)
Smaller(a, b) == IF a < b THEN a ELSE b

\* The entry of a session after one more ACK_EVENT: the more ACKs, the shorter
\* the delay.
OneMoreAck(entry) ==
    IF entry.delay = 0
    THEN [delay |-> AckDelays[1], count |-> 1]
    ELSE IF entry.count \in 1 .. NLevel - 1
    THEN [delay |-> Smaller(entry.delay, AckDelays[entry.count + 1]),
          count |-> entry.count + 1]
    ELSE IF entry.count = NLevel
    THEN [delay |-> 1, count |-> NLevel + 1]
    ELSE entry

AKdRead ==
    /\ akdPc = "run" /\ eveAkd # <<>>
    /\ akdEv' = Head(eveAkd)
    /\ eveAkd' = Tail(eveAkd)
    /\ akdPc' = "rxSig"
    /\ UNCHANGED <<srcVars, akdEveRx, akdEveTx, akdTxe, txeEveRx, eveVars,
                   ackTable, akdPtr, mdlVars>>

\* Signal the reception to EVe, then delay the ACK or reset the entry.
AKdSignalRx ==
    /\ akdPc = "rxSig" /\ akdEveRx < AkdEveDepth
    /\ akdEveRx' = akdEveRx + 1
    /\ IF akdEv.type = "ACK"
       THEN /\ ackTable' = [ackTable EXCEPT ![akdEv.sess] = OneMoreAck(@)]
            /\ akdPc' = "run"
       ELSE /\ ackTable' = [ackTable EXCEPT ![akdEv.sess] = [delay |-> 0, count |-> 0]]
            /\ akdPc' = "forward"
    /\ UNCHANGED <<srcVars, eveAkd, akdEveTx, akdTxe, txeEveRx, eveVars,
                   akdEv, akdPtr, mdlVars>>

AKdForward ==
    /\ akdPc = "forward" /\ Len(akdTxe) < AkdTxeDepth
    /\ akdTxe' = Append(akdTxe, akdEv)
    /\ akdPc' = "txSig"
    /\ UNCHANGED <<srcVars, eveAkd, akdEveRx, akdEveTx, txeEveRx, eveVars,
                   akdEv, ackTable, akdPtr, mdlVars>>

AKdSignalTx ==
    /\ akdPc = "txSig" /\ akdEveTx < AkdEveDepth
    /\ akdEveTx' = akdEveTx + 1
    /\ akdPc' = "run"
    /\ UNCHANGED <<srcVars, eveAkd, akdEveRx, akdTxe, txeEveRx, eveVars,
                   akdEv, ackTable, akdPtr, mdlVars>>

\* Mutant of NextPtr: the pointer does not wrap.
NextPtrNoWrap == akdPtr + 1

NextPtr == IF akdPtr + 1 = MaxSessions THEN 0 ELSE akdPtr + 1

\* No event to read: visit the next entry of the table.  'Fires' is the visit
\* that turns a delayed ACK into an event for TXe.
Counts == ackTable[akdPtr].delay > 0 /\ Len(akdTxe) < AkdTxeDepth

\* Mutant of Fires: off by one.
FiresEarly == Counts /\ ackTable[akdPtr].delay = 2

Fires == Counts /\ ackTable[akdPtr].delay = 1

\* Mutant of AfterScan: EVe is not told of a delayed ACK that goes to TXe.
AfterScanSilent == "run"

AfterScan == IF Fires THEN "txSig" ELSE "run"

AKdScan ==
    /\ akdPc = "run" /\ eveAkd = <<>>
    /\ akdTxe' = IF Fires THEN Append(akdTxe, Ev("ACK", akdPtr)) ELSE akdTxe
    /\ akdPc' = AfterScan
    /\ ackTable' = IF Counts THEN [ackTable EXCEPT ![akdPtr].delay = @ - 1] ELSE ackTable
    /\ akdPtr' = NextPtr
    /\ UNCHANGED <<srcVars, eveAkd, akdEveRx, akdEveTx, txeEveRx, eveVars,
                   akdEv, mdlVars>>

AKd == AKdRead \/ AKdSignalRx \/ AKdForward \/ AKdSignalTx \/ AKdScan

----------------------------------------------------------------------------
(***************************************************************************)
(* Meta Data Loader of TXe.                                                *)
(***************************************************************************)
MdlRead ==
    /\ mdlPc = "wait" /\ akdTxe # <<>>
    /\ mdlEv' = Head(akdTxe)
    /\ akdTxe' = Tail(akdTxe)
    /\ mdlPc' = "rxSig"
    /\ UNCHANGED <<srcVars, eveAkd, akdEveRx, akdEveTx, txeEveRx, eveVars,
                   akdVars>>

MdlSignal ==
    /\ mdlPc = "rxSig" /\ txeEveRx < TxeEveDepth
    /\ txeEveRx' = txeEveRx + 1
    /\ mdlPc' = "process"
    /\ UNCHANGED <<srcVars, eveAkd, akdEveRx, akdEveTx, akdTxe, eveVars,
                   akdVars, mdlEv>>

\* What Mdl makes of the event is the subject of TxStream.
MdlProcess ==
    /\ mdlPc = "process"
    /\ mdlPc' = "wait"
    /\ UNCHANGED <<srcVars, eveAkd, akdEveRx, akdEveTx, akdTxe, txeEveRx, eveVars,
                   akdVars, mdlEv>>

Mdl == MdlRead \/ MdlSignal \/ MdlProcess

----------------------------------------------------------------------------
Next ==
    \/ \E e \in RxeEvent : RXePost(e)
    \/ \E e \in TimEvent : TImPost(e)
    \/ \E e \in TaiEvent : TAiPost(e)
    \/ EVe \/ AKd \/ Mdl

Spec == Init /\ [][Next]_vars

\* Each process is a circuit that iterates at every clock: it takes a step
\* whenever one of its steps is possible.  The sources owe nothing.
Fairness == WF_vars(EVe) /\ WF_vars(AKd) /\ WF_vars(Mdl)
FairSpec == Spec /\ Fairness

----------------------------------------------------------------------------
(***************************************************************************)
(* Properties.                                                             *)
(***************************************************************************)
TypeOK ==
    /\ rxeEve \in Seq(Event) /\ timEve \in Seq(Event) /\ taiEve \in Seq(Event)
    /\ posted \in Nat
    /\ eveAkd \in Seq(Event) /\ Len(eveAkd) <= EveAkdDepth
    /\ akdEveRx \in 0 .. AkdEveDepth
    /\ akdEveTx \in 0 .. AkdEveDepth
    /\ akdTxe \in Seq(Event) /\ Len(akdTxe) <= AkdTxeDepth
    /\ txeEveRx \in 0 .. TxeEveDepth
    /\ eve2akdWr \in 0 .. CntMod - 1 /\ eve2akdRd \in 0 .. CntMod - 1
    /\ akd2txeWr \in 0 .. CntMod - 1 /\ akd2txeRd \in 0 .. CntMod - 1
    /\ akdPc \in {"run", "rxSig", "forward", "txSig"} /\ akdEv \in Event
    /\ ackTable \in [Session -> AckEntry]
    /\ akdPtr \in Session
    /\ mdlPc \in {"wait", "rxSig", "process"} /\ mdlEv \in Event

\* The distance from counter r up to counter w on the ring of CntMod values.
Distance(r, w) == IF w >= r THEN w - r ELSE w - r + CntMod

One(b) == IF b THEN 1 ELSE 0

\* The first pair of counters of EVe differs by exactly what is between EVe's
\* write and EVe's reception of the signal: the events in the stream, the one
\* AKd has read and not signalled, and the signals on their way back.  Eight
\* bits are enough for the depths of these streams: no overflow hides an event.
EveAkdLedger ==
    Distance(eve2akdRd, eve2akdWr) = Len(eveAkd) + One(akdPc = "rxSig") + akdEveRx

\* EVe writes an event of TIm or TAi without asking whether the stream to AKd is
\* full (event_engine.cpp, lines 136-157): when the counters let it do so, the
\* stream is empty and AKd holds no event it has not signalled.
GatedWriteFindsRoom ==
    CountersEqual => eveAkd = <<>> /\ akdEveRx = 0 /\ akdPc # "rxSig"

\* What both ends of the stream from AKd to TXe have counted or signalled, and
\* the turns of the counters by which the two can differ.
SentByAkd == akd2txeWr + akdEveTx + One(akdPc = "txSig")
SeenByTxe == akd2txeRd + txeEveRx + One(mdlPc = "rxSig") + Len(akdTxe)
MaxTurns  == 1 + AkdEveDepth + AkdTxeDepth + TxeEveDepth
WholeTurns(n) == \E k \in -MaxTurns .. MaxTurns : n = k * CntMod

\* The second pair of counters is a ledger of the stream from AKd to TXe: the
\* signals of both of its ends and the events between them always balance, on
\* the ring of CntMod values, although the two kinds of signal arrive in any
\* order.  A signal lost or sent twice would close or open EVe's gate for ever.
AkdTxeLedger == WholeTurns(SentByAkd - SeenByTxe)

Quiescent ==
    /\ rxeEve = <<>> /\ timEve = <<>> /\ taiEve = <<>>
    /\ eveAkd = <<>> /\ akdEveRx = 0 /\ akdEveTx = 0
    /\ akdTxe = <<>> /\ txeEveRx = 0
    /\ akdPc = "run" /\ mdlPc = "wait"
    /\ \A s \in Session : ackTable[s].delay = 0
    /\ CountersEqual

\* Once the sources stop posting, every event and every delayed ACK reaches
\* TXe, no process stays stalled on a full stream, and EVe's gate is open again.
Drains == <>[]Quiescent

----------------------------------------------------------------------------
\* What AKd has read and not passed on, then what is in the stream before it.
Upstream ==
    (IF akdPc \in {"rxSig", "forward"} THEN <<akdEv>> ELSE <<>>) \o eveAkd

IsPlain(e) == e.type # "ACK"

\* The events of a sequence that are not ACK_EVENTs, in their order.
PlainOf(events) ==
    LET first[n \in 0 .. Len(events)] ==
            IF n = 0 THEN <<>>
            ELSE IF IsPlain(events[n]) THEN Append(first[n - 1], events[n])
            ELSE first[n - 1]
    IN  first[Len(events)]

\* A session is owed an ACK while its delay runs, or while an ACK_EVENT for it is
\* on its way to AKd's table.
Owed(s) ==
    \/ ackTable[s].delay > 0
    \/ \E i \in DOMAIN Upstream :
          Upstream[i] = Ev("ACK", s) /\ ~(i = 1 /\ akdPc = "forward")

Service == INSTANCE EventService WITH
    Session <- Session,
    PlainEvent <- {e \in Event : IsPlain(e)},
    queue <- PlainOf(Upstream),
    out <- akdTxe,
    owed <- [s \in Session |-> Owed(s)]

\* EVe and AKd together implement the event service: nothing but ACK_EVENTs is
\* held back, dropped, duplicated or overtaken, and no ACK is owed or paid that
\* no ACK_EVENT stands for.
ImplementsService == Service!Safety
=============================================================================
