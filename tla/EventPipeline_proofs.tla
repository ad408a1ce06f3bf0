------------------------ MODULE EventPipeline_proofs ------------------------
(***************************************************************************)
(* Proofs about EventPipeline, for every number of sessions, every depth   *)
(* of the streams and every width of the counters that satisfies           *)
(* CounterAssumption.                                                      *)
(***************************************************************************)
EXTENDS EventPipeline, WellFoundedInduction, TLAPS

----------------------------------------------------------------------------
(***************************************************************************)
(* Induction and recursion along an interval, in first-order form (the     *)
(* induction hypothesis is a set, the step of a recursion a function).     *)
(***************************************************************************)

\* A non-empty set of natural numbers has a least element.
LEMMA LeastNat ==
    ASSUME NEW T, T \subseteq Nat, T # {}
    PROVE  \E x \in T : \A y \in T : x <= y
<1> DEFINE Below == {ss \in Nat \X Nat : ss[1] < ss[2]}
<1>1. IsWellFoundedOn(Below, Nat)
  BY NatLessThanWellFounded, Zenon DEF OpToRel
<1>2. PICK x \in T : \A y \in T : ~(<<y, x>> \in Below)
  BY <1>1, WFMin
<1>3. ASSUME NEW y \in T
      PROVE  x <= y
  <2>1. <<y, x>> \in Nat \X Nat
    OBVIOUS
  <2>2. ~(y < x)
    BY <1>2, <2>1
  <2> QED
    BY <2>2
<1> QED
  BY <1>3

\* Induction from 0 to N.
LEMMA IntervalInduction ==
    ASSUME NEW N \in Nat, NEW S, 0 \in S,
           \A n \in 0 .. N - 1 : n \in S => n + 1 \in S
    PROVE  \A n \in 0 .. N : n \in S
<1> DEFINE T == {n \in 0 .. N : n \notin S}
<1> SUFFICES ASSUME T # {}
             PROVE  FALSE
  OBVIOUS
<1>1. PICK x \in T : \A y \in T : x <= y
  <2>1. T \subseteq Nat
    OBVIOUS
  <2> HIDE DEF T
  <2> QED
    BY <2>1, LeastNat
<1>2. x # 0 /\ x \in 1 .. N
  BY <1>1
<1>3. x - 1 \in 0 .. N - 1 /\ x - 1 \notin T
  BY <1>1, <1>2
<1>4. x - 1 \in S
  BY <1>2, <1>3
<1>5. (x - 1) + 1 \in S
  BY <1>3, <1>4
<1> QED
  BY <1>2, <1>5

\* A recursion along 1 .. N has a solution.
Solvable(N, V, init, step) ==
    \E f \in [0 .. N -> V] :
       f[0] = init /\ \A n \in 1 .. N : f[n] = step[<<n, f[n - 1]>>]

LEMMA IntervalRecursion ==
    ASSUME NEW N \in Nat, NEW V, NEW init \in V,
           NEW step \in [(1 .. N) \X V -> V]
    PROVE  Solvable(N, V, init, step)
<1> DEFINE Solves(f, m) == /\ f \in [0 .. m -> V] /\ f[0] = init
                           /\ \A n \in 1 .. m : f[n] = step[<<n, f[n - 1]>>]
           S == {m \in 0 .. N : \E f : Solves(f, m)}
<1>1. 0 \in S
  <2>1. Solves([n \in 0 .. 0 |-> init], 0)
    OBVIOUS
  <2> HIDE DEF Solves
  <2>2. \E f : Solves(f, 0)
    BY <2>1
  <2> QED
    BY <2>2
<1>2. ASSUME NEW m \in 0 .. N - 1, m \in S
      PROVE  m + 1 \in S
  <2>1. PICK f : Solves(f, m)
    BY <1>2
  <2> DEFINE last == step[<<m + 1, f[m]>>]
             g    == [n \in 0 .. m + 1 |-> IF n = m + 1 THEN last ELSE f[n]]
  <2>2. f[m] \in V /\ last \in V
    BY <2>1
  <2>3. g \in [0 .. m + 1 -> V] /\ g[0] = init
    BY <2>1, <2>2
  <2>4. ASSUME NEW n \in 1 .. m + 1
        PROVE  g[n] = step[<<n, g[n - 1]>>]
    <3>1. CASE n = m + 1
      <4>1. g[m + 1] = last /\ g[m] = f[m]
        OBVIOUS
      <4>2. (m + 1) - 1 = m
        OBVIOUS
      <4> QED
        BY <3>1, <4>1, <4>2
    <3>2. CASE n # m + 1
      BY <2>1, <3>2
    <3> QED
      BY <3>1, <3>2
  <2>5. Solves(g, m + 1)
    BY <2>3, <2>4
  <2> HIDE DEF g
  <2> QED
    BY <2>5
<1> HIDE DEF S
<1>3. N \in S
  BY <1>1, <1>2, IntervalInduction
<1> USE DEF S
<1>4. PICK f : Solves(f, N)
  BY <1>3
<1> QED
  BY <1>4 DEF Solvable

----------------------------------------------------------------------------

(***************************************************************************)
(* Type correctness.                                                       *)
(***************************************************************************)

\* Every event a source posts is an event.
LEMMA PostedEvents == /\ RxeEvent \subseteq Event
                      /\ TimEvent \subseteq Event
                      /\ TaiEvent \subseteq Event
                      /\ NoEvent \in Event
BY SessionAssumption, TypesAssumption
   DEF RxeEvent, TimEvent, TaiEvent, NoEvent, Event, Ev, EventType, Session

\* A wrapping counter stays a value of its width.
LEMMA IncType == \A c \in 0 .. CntMod - 1 : Inc(c) \in 0 .. CntMod - 1
BY CounterAssumption, DepthAssumption DEF Inc

\* A further ACK_EVENT turns an entry of ACK_TABLE into an entry.
LEMMA OneMoreAckType == ASSUME NEW entry \in AckEntry
                        PROVE  OneMoreAck(entry) \in AckEntry
<1>1. \A i \in 1 .. Len(AckDelays) : AckDelays[i] \in Nat
  BY DelayAssumption
<1>2. NLevel \in Nat
  BY DelayAssumption DEF NLevel
<1>3. entry.delay \in Nat /\ entry.count \in Nat
  BY DEF AckEntry
<1>4. CASE entry.delay = 0
  BY <1>1, <1>4, DelayAssumption DEF OneMoreAck, AckEntry
<1>5. CASE entry.delay # 0 /\ entry.count \in 1 .. NLevel - 1
  <2>1. AckDelays[entry.count + 1] \in Nat
    BY <1>1, <1>2, <1>5, DelayAssumption DEF NLevel
  <2> QED
    BY <1>3, <1>5, <2>1 DEF OneMoreAck, AckEntry, Smaller
<1>6. CASE entry.delay # 0 /\ entry.count \notin 1 .. NLevel - 1
  BY <1>2, <1>3, <1>6 DEF OneMoreAck, AckEntry
<1> QED
  BY <1>4, <1>5, <1>6

LEMMA InitType == Init => TypeOK
BY SessionAssumption, DepthAssumption, CounterAssumption, PostedEvents
   DEF Init, TypeOK, Session, AckEntry

\* The last part of an iteration of EVe.
LEMMA CollectType ==
    ASSUME TypeOK, CollectSignals
    PROVE  /\ akdEveRx' \in 0 .. AkdEveDepth
           /\ akdEveTx' \in 0 .. AkdEveDepth
           /\ txeEveRx' \in 0 .. TxeEveDepth
           /\ eve2akdRd' \in 0 .. CntMod - 1
           /\ akd2txeWr' \in 0 .. CntMod - 1
           /\ akd2txeRd' \in 0 .. CntMod - 1
<1>1. /\ akdEveRx' \in 0 .. AkdEveDepth
      /\ akdEveTx' \in 0 .. AkdEveDepth
      /\ txeEveRx' \in 0 .. TxeEveDepth
  BY DepthAssumption DEF TypeOK, CollectSignals
<1>2. /\ Inc(eve2akdRd) \in 0 .. CntMod - 1
      /\ Inc(akd2txeWr) \in 0 .. CntMod - 1
      /\ Inc(akd2txeRd) \in 0 .. CntMod - 1
  BY IncType DEF TypeOK
<1>3. /\ eve2akdRd' \in {eve2akdRd, Inc(eve2akdRd)}
      /\ akd2txeWr' \in {akd2txeWr, Inc(akd2txeWr)}
      /\ akd2txeRd' \in {akd2txeRd, Inc(akd2txeRd)}
  BY DEF CollectSignals
<1> QED
  BY <1>1, <1>2, <1>3 DEF TypeOK

LEMMA NextType == TypeOK /\ [Next]_vars => TypeOK'
<1> SUFFICES ASSUME TypeOK, [Next]_vars
             PROVE  TypeOK'
  OBVIOUS
<1> USE DepthAssumption
<1>1. ASSUME NEW e \in RxeEvent, RXePost(e)
      PROVE  TypeOK'
  BY <1>1, PostedEvents DEF RXePost, eveVars, akdVars, mdlVars, TypeOK
<1>2. ASSUME NEW e \in TimEvent, TImPost(e)
      PROVE  TypeOK'
  BY <1>2, PostedEvents DEF TImPost, eveVars, akdVars, mdlVars, TypeOK
<1>3. ASSUME NEW e \in TaiEvent, TAiPost(e)
      PROVE  TypeOK'
  BY <1>3, PostedEvents DEF TAiPost, eveVars, akdVars, mdlVars, TypeOK
<1>4. CASE EVeForwardRXe
  <2>1. /\ akdEveRx' \in 0 .. AkdEveDepth
        /\ akdEveTx' \in 0 .. AkdEveDepth
        /\ txeEveRx' \in 0 .. TxeEveDepth
        /\ eve2akdRd' \in 0 .. CntMod - 1
        /\ akd2txeWr' \in 0 .. CntMod - 1
        /\ akd2txeRd' \in 0 .. CntMod - 1
    BY <1>4, CollectType DEF EVeForwardRXe
  <2>2. Inc(eve2akdWr) \in 0 .. CntMod - 1
    BY IncType DEF TypeOK
  <2>3. /\ eveAkd' \in Seq(Event) /\ Len(eveAkd') <= EveAkdDepth
        /\ rxeEve' \in Seq(Event)
    BY <1>4 DEF EVeForwardRXe, TakeRXe, TypeOK
  <2> QED
    BY <1>4, <2>1, <2>2, <2>3 DEF EVeForwardRXe, TypeOK, akdVars, mdlVars
<1>5. CASE EVeForwardTIm
  <2>1. /\ akdEveRx' \in 0 .. AkdEveDepth
        /\ akdEveTx' \in 0 .. AkdEveDepth
        /\ txeEveRx' \in 0 .. TxeEveDepth
        /\ eve2akdRd' \in 0 .. CntMod - 1
        /\ akd2txeWr' \in 0 .. CntMod - 1
        /\ akd2txeRd' \in 0 .. CntMod - 1
    BY <1>5, CollectType DEF EVeForwardTIm
  <2>2. Inc(eve2akdWr) \in 0 .. CntMod - 1
    BY IncType DEF TypeOK
  <2>3. /\ eveAkd' \in Seq(Event) /\ Len(eveAkd') <= EveAkdDepth
        /\ timEve' \in Seq(Event)
    BY <1>5 DEF EVeForwardTIm, TypeOK
  <2> QED
    BY <1>5, <2>1, <2>2, <2>3 DEF EVeForwardTIm, TypeOK, akdVars, mdlVars
<1>6. CASE EVeForwardTAi
  <2>1. /\ akdEveRx' \in 0 .. AkdEveDepth
        /\ akdEveTx' \in 0 .. AkdEveDepth
        /\ txeEveRx' \in 0 .. TxeEveDepth
        /\ eve2akdRd' \in 0 .. CntMod - 1
        /\ akd2txeWr' \in 0 .. CntMod - 1
        /\ akd2txeRd' \in 0 .. CntMod - 1
    BY <1>6, CollectType DEF EVeForwardTAi
  <2>2. Inc(eve2akdWr) \in 0 .. CntMod - 1
    BY IncType DEF TypeOK
  <2>3. /\ eveAkd' \in Seq(Event) /\ Len(eveAkd') <= EveAkdDepth
        /\ taiEve' \in Seq(Event)
    BY <1>6 DEF EVeForwardTAi, TypeOK
  <2> QED
    BY <1>6, <2>1, <2>2, <2>3 DEF EVeForwardTAi, TypeOK, akdVars, mdlVars
<1>7. CASE EVeIdle
  <2>1. /\ akdEveRx' \in 0 .. AkdEveDepth
        /\ akdEveTx' \in 0 .. AkdEveDepth
        /\ txeEveRx' \in 0 .. TxeEveDepth
        /\ eve2akdRd' \in 0 .. CntMod - 1
        /\ akd2txeWr' \in 0 .. CntMod - 1
        /\ akd2txeRd' \in 0 .. CntMod - 1
    BY <1>7, CollectType DEF EVeIdle
  <2> QED
    BY <1>7, <2>1 DEF EVeIdle, srcVars, TypeOK, akdVars, mdlVars
<1>8. CASE AKdRead
  BY <1>8 DEF AKdRead, srcVars, eveVars, mdlVars, TypeOK
<1>9. CASE AKdSignalRx
  <2>1. akdEv.sess \in Session
    BY DEF Event, TypeOK
  <2>2. OneMoreAck(ackTable[akdEv.sess]) \in AckEntry
    BY <2>1, OneMoreAckType DEF TypeOK
  <2>3. [delay |-> 0, count |-> 0] \in AckEntry
    BY DEF AckEntry
  <2>4. ackTable' \in [Session -> AckEntry]
    BY <1>9, <2>1, <2>2, <2>3 DEF AKdSignalRx, TypeOK
  <2> QED
    BY <1>9, <2>4 DEF AKdSignalRx, srcVars, eveVars, mdlVars, TypeOK
<1>10. CASE AKdForward
  BY <1>10 DEF AKdForward, srcVars, eveVars, mdlVars, TypeOK
<1>11. CASE AKdSignalTx
  BY <1>11 DEF AKdSignalTx, srcVars, eveVars, mdlVars, TypeOK
<1>12. CASE AKdScan
  <2>1. akdPtr' \in Session
    BY <1>12, SessionAssumption, SMTT(60) DEF AKdScan, NextPtr, Session, TypeOK
  <2>2. ackTable' \in [Session -> AckEntry]
    <3>1. ackTable[akdPtr] \in AckEntry
      BY DEF TypeOK
    <3>2. Counts => [ackTable[akdPtr] EXCEPT !.delay = @ - 1] \in AckEntry
      BY <3>1 DEF Counts, AckEntry
    <3> QED
      BY <1>12, <3>1, <3>2 DEF AKdScan, TypeOK
  <2>3. Ev("ACK", akdPtr) \in Event
    BY DEF Ev, Event, EventType, TypeOK
  <2>4. akdTxe' \in Seq(Event) /\ Len(akdTxe') <= AkdTxeDepth
    BY <1>12, <2>3 DEF AKdScan, Fires, Counts, TypeOK
  <2>5. akdPc' \in {"run", "rxSig", "forward", "txSig"}
    BY <1>12 DEF AKdScan, AfterScan, TypeOK
  <2> QED
    BY <1>12, <2>1, <2>2, <2>4, <2>5 DEF AKdScan, srcVars, eveVars, mdlVars, TypeOK
<1>13. CASE MdlRead
  BY <1>13 DEF MdlRead, srcVars, eveVars, akdVars, TypeOK
<1>14. CASE MdlSignal
  BY <1>14 DEF MdlSignal, srcVars, eveVars, akdVars, TypeOK
<1>15. CASE MdlProcess
  BY <1>15 DEF MdlProcess, srcVars, eveVars, akdVars, TypeOK
<1>16. CASE UNCHANGED vars
  BY <1>16 DEF vars, srcVars, eveVars, akdVars, mdlVars, TypeOK
<1> QED
  BY <1>1, <1>2, <1>3, <1>4, <1>5, <1>6, <1>7, <1>8, <1>9, <1>10, <1>11, <1>12,
     <1>13, <1>14, <1>15, <1>16 DEF Next, EVe, AKd, Mdl

\* The streams never hold more than their depth, and every register, counter
\* and table of EVe, AKd and Mdl keeps its type.
THEOREM TypeCorrect == Spec => []TypeOK
<1>1. Init => TypeOK
  BY InitType
<1>2. TypeOK /\ [Next]_vars => TypeOK'
  BY NextType
<1> QED
  BY <1>1, <1>2, PTL DEF Spec

----------------------------------------------------------------------------
(***************************************************************************)
(* The ledger of the stream from EVe to AKd.  It is inductive together     *)
(* with TypeOK, which bounds what can be between EVe's write and EVe's     *)
(* reception of the signal.                                                *)
(***************************************************************************)
LedgerInv == TypeOK /\ EveAkdLedger

\* One step of either counter moves the distance by one, as long as the
\* distance stays below CntMod.
LEMMA DistanceStep ==
    ASSUME NEW r \in 0 .. CntMod - 1, NEW w \in 0 .. CntMod - 1
    PROVE  /\ Distance(r, w) < CntMod - 1 => Distance(r, Inc(w)) = Distance(r, w) + 1
           /\ Distance(r, w) > 0 => Distance(Inc(r), w) = Distance(r, w) - 1
           /\ /\ Distance(r, w) > 0
              /\ Distance(r, w) < CntMod
              => Distance(Inc(r), Inc(w)) = Distance(r, w)
BY CounterAssumption, DepthAssumption DEF Distance, Inc

\* EVe forwards an event: one more event in the stream, and possibly one signal
\* turned into a count.
LEMMA ForwardLedger ==
    ASSUME LedgerInv, CollectSignals,
           eve2akdWr' = Inc(eve2akdWr),
           Len(eveAkd) < EveAkdDepth,
           Len(eveAkd') = Len(eveAkd) + 1,
           akdPc' = akdPc
    PROVE  EveAkdLedger'
<1> DEFINE between == Len(eveAkd) + One(akdPc = "rxSig") + akdEveRx
<1>1. /\ Len(eveAkd) \in Nat /\ akdEveRx \in 0 .. AkdEveDepth
      /\ One(akdPc = "rxSig") \in {0, 1}
  BY DEF LedgerInv, TypeOK, One
<1>2. between < CntMod - 1
  BY <1>1, CounterAssumption, DepthAssumption
<1>3. /\ eve2akdRd \in 0 .. CntMod - 1 /\ eve2akdWr \in 0 .. CntMod - 1
      /\ Distance(eve2akdRd, eve2akdWr) = between
  BY DEF LedgerInv, TypeOK, EveAkdLedger
<1>4. Distance(eve2akdRd, Inc(eve2akdWr)) = between + 1
  BY <1>2, <1>3, DistanceStep
<1>5. CASE akdEveRx > 0
  <2>1. between > 0 /\ between < CntMod
    BY <1>1, <1>2, <1>5, CounterAssumption
  <2>2. Distance(Inc(eve2akdRd), Inc(eve2akdWr)) = between
    BY <1>3, <2>1, DistanceStep
  <2> QED
    BY <1>1, <1>5, <2>2 DEF CollectSignals, EveAkdLedger, One
<1>6. CASE ~(akdEveRx > 0)
  BY <1>1, <1>4, <1>6 DEF CollectSignals, EveAkdLedger, One
<1> QED
  BY <1>5, <1>6

LEMMA NextLedger == LedgerInv /\ [Next]_vars => EveAkdLedger'
<1> SUFFICES ASSUME LedgerInv, [Next]_vars
             PROVE  EveAkdLedger'
  OBVIOUS
<1>0. /\ Len(eveAkd) \in Nat /\ Len(eveAkd) <= EveAkdDepth
      /\ akdEveRx \in 0 .. AkdEveDepth
      /\ One(akdPc = "rxSig") \in {0, 1}
      /\ eve2akdRd \in 0 .. CntMod - 1 /\ eve2akdWr \in 0 .. CntMod - 1
      /\ eveAkd \in Seq(Event)
  BY DEF LedgerInv, TypeOK, One
\* Steps that touch neither the stream, nor its signals, nor the counters.
<1>1. ASSUME UNCHANGED <<eveAkd, akdEveRx, eve2akdWr, eve2akdRd>>,
             (akdPc' = "rxSig") <=> (akdPc = "rxSig")
      PROVE  EveAkdLedger'
  BY <1>1 DEF LedgerInv, EveAkdLedger, One, Distance
<1>2. CASE EVeForwardRXe
  <2>1. Len(eveAkd') = Len(eveAkd) + 1
    BY <1>0, <1>2 DEF EVeForwardRXe
  <2> QED
    BY <1>2, <2>1, ForwardLedger DEF EVeForwardRXe, TakeRXe, akdVars
<1>3. CASE EVeForwardTIm
  <2>1. Len(eveAkd') = Len(eveAkd) + 1
    BY <1>0, <1>3 DEF EVeForwardTIm
  <2> QED
    BY <1>3, <2>1, ForwardLedger DEF EVeForwardTIm, akdVars
<1>4. CASE EVeForwardTAi
  <2>1. Len(eveAkd') = Len(eveAkd) + 1
    BY <1>0, <1>4 DEF EVeForwardTAi
  <2> QED
    BY <1>4, <2>1, ForwardLedger DEF EVeForwardTAi, akdVars
<1>5. CASE EVeIdle
  <2>1. UNCHANGED <<eveAkd, eve2akdWr, akdPc>> /\ CollectSignals
    BY <1>5 DEF EVeIdle, akdVars
  <2>2. CASE akdEveRx > 0
    <3>1. Distance(eve2akdRd, eve2akdWr) > 0
      BY <1>0, <2>2 DEF LedgerInv, EveAkdLedger
    <3>2. Distance(Inc(eve2akdRd), eve2akdWr) = Distance(eve2akdRd, eve2akdWr) - 1
      BY <1>0, <3>1, DistanceStep
    <3> QED
      BY <1>0, <2>1, <2>2, <3>2 DEF LedgerInv, EveAkdLedger, CollectSignals, One
  <2>3. CASE ~(akdEveRx > 0)
    BY <1>1, <2>1, <2>3 DEF CollectSignals
  <2> QED
    BY <2>2, <2>3
<1>6. CASE AKdRead
  <2>1. Len(eveAkd') = Len(eveAkd) - 1 /\ akdPc = "run" /\ akdPc' = "rxSig"
    BY <1>0, <1>6 DEF AKdRead
  <2> QED
    BY <1>0, <1>6, <2>1 DEF AKdRead, LedgerInv, EveAkdLedger, One, Distance, eveVars
<1>7. CASE AKdSignalRx
  <2>1. akdEveRx' = akdEveRx + 1 /\ akdPc = "rxSig" /\ akdPc' # "rxSig"
    BY <1>7 DEF AKdSignalRx
  <2> QED
    BY <1>0, <1>7, <2>1 DEF AKdSignalRx, LedgerInv, EveAkdLedger, One, Distance, eveVars
<1>8. CASE AKdForward \/ AKdSignalTx \/ AKdScan
  BY <1>1, <1>8 DEF AKdForward, AKdSignalTx, AKdScan, AfterScan, eveVars
<1>9. CASE Mdl
  BY <1>1, <1>9 DEF Mdl, MdlRead, MdlSignal, MdlProcess, eveVars, akdVars
<1>10. CASE (\E e \in RxeEvent : RXePost(e)) \/ (\E e \in TimEvent : TImPost(e))
            \/ (\E e \in TaiEvent : TAiPost(e))
  BY <1>1, <1>10 DEF RXePost, TImPost, TAiPost, eveVars, akdVars
<1>11. CASE UNCHANGED vars
  BY <1>1, <1>11 DEF vars, eveVars, akdVars
<1> QED
  BY <1>2, <1>3, <1>4, <1>5, <1>6, <1>7, <1>8, <1>9, <1>10, <1>11 DEF Next, EVe, AKd

\* EVe's first pair of counters always tells how many events are between it and
\* AKd's acknowledgement of them, whatever the depths, as long as the counters
\* are wide enough for the depths (event_engine.cpp, lines 104-109).
THEOREM EveAkdLedgerHolds == Spec => []EveAkdLedger
<1>1. Init => LedgerInv
  <2>1. Init => EveAkdLedger
    BY DEF Init, EveAkdLedger, Distance, One
  <2> QED
    BY <2>1, InitType DEF LedgerInv
<1>2. LedgerInv /\ [Next]_vars => LedgerInv'
  BY NextType, NextLedger DEF LedgerInv
<1>3. LedgerInv => EveAkdLedger
  BY DEF LedgerInv
<1> QED
  BY <1>1, <1>2, <1>3, PTL DEF Spec

\* When the counters let EVe take an event of TIm or TAi, the unguarded write to
\* the stream to AKd cannot stall.
THEOREM GatedWriteNeverStalls == Spec => []GatedWriteFindsRoom
<1>1. TypeOK /\ EveAkdLedger => GatedWriteFindsRoom
  <2> SUFFICES ASSUME TypeOK, EveAkdLedger, CountersEqual
               PROVE  eveAkd = <<>> /\ akdEveRx = 0 /\ akdPc # "rxSig"
    BY DEF GatedWriteFindsRoom
  <2>1. Distance(eve2akdRd, eve2akdWr) = 0
    BY CounterAssumption DEF CountersEqual, Distance, TypeOK
  <2>2. /\ Len(eveAkd) \in Nat /\ akdEveRx \in Nat /\ eveAkd \in Seq(Event)
        /\ One(akdPc = "rxSig") \in {0, 1}
    BY DepthAssumption DEF TypeOK, One
  <2>3. Len(eveAkd) = 0 /\ akdEveRx = 0 /\ One(akdPc = "rxSig") = 0
    BY <2>1, <2>2 DEF EveAkdLedger
  <2> QED
    BY <2>2, <2>3 DEF One
<1> QED
  BY <1>1, TypeCorrect, EveAkdLedgerHolds, PTL

----------------------------------------------------------------------------
(***************************************************************************)
(* The ledger of the stream from AKd to TXe.  No depth bounds what the two *)
(* kinds of signal can differ by, so the induction counts the turns in Int *)
(* and the depths bound them only in the end.                              *)
(***************************************************************************)
TurnsInv == TypeOK /\ \E k \in Int : SentByAkd - SeenByTxe = k * CntMod

LEMMA IncTurns == \A c \in 0 .. CntMod - 1 : Inc(c) \in {c + 1, c + 1 - CntMod}
BY CounterAssumption, DepthAssumption DEF Inc

LEMMA SumTypes ==
    ASSUME TypeOK
    PROVE  /\ SentByAkd \in 0 .. CntMod + AkdEveDepth
           /\ SeenByTxe \in 0 .. CntMod + TxeEveDepth + AkdTxeDepth
BY CounterAssumption, DepthAssumption DEF TypeOK, SentByAkd, SeenByTxe, One

\* A step that changes the difference by nothing or by one turn.
LEMMA TurnStep ==
    ASSUME TurnsInv, TypeOK',
           SentByAkd' \in {SentByAkd, SentByAkd - CntMod, SentByAkd + 1},
           \/ /\ SentByAkd' # SentByAkd + 1
              /\ SeenByTxe' \in {SeenByTxe, SeenByTxe - CntMod}
           \/ /\ SentByAkd' = SentByAkd + 1
              /\ SeenByTxe' = SeenByTxe + 1
    PROVE  TurnsInv'
<1> DEFINE d == SentByAkd - SeenByTxe
           e == SentByAkd' - SeenByTxe'
<1>1. PICK k \in Int : d = k * CntMod
  BY DEF TurnsInv
<1>2. SentByAkd \in Int /\ SeenByTxe \in Int /\ CntMod \in Int /\ d \in Int
  BY SumTypes, CounterAssumption DEF TurnsInv
<1>3. e \in {d, d - CntMod, d + CntMod}
  BY <1>2
<1>4. (k + 1) * CntMod = d + CntMod /\ (k - 1) * CntMod = d - CntMod
  BY <1>1, <1>2
<1>5. \E j \in {k, k + 1, k - 1} : e = j * CntMod
  BY <1>1, <1>3, <1>4
<1> QED
  BY <1>5 DEF TurnsInv

\* An iteration of EVe turns signals into counts.
LEMMA CollectTurns ==
    ASSUME TurnsInv, TypeOK', CollectSignals, UNCHANGED <<akdTxe, akdPc, mdlPc>>
    PROVE  TurnsInv'
<1>1. /\ akd2txeWr \in 0 .. CntMod - 1 /\ akd2txeRd \in 0 .. CntMod - 1
      /\ akdEveTx \in Nat /\ txeEveRx \in Nat /\ Len(akdTxe) \in Nat
      /\ One(akdPc = "txSig") \in {0, 1} /\ One(mdlPc = "rxSig") \in {0, 1}
  <2>1. One(akdPc = "txSig") \in {0, 1} /\ One(mdlPc = "rxSig") \in {0, 1}
    BY DEF One
  <2>2. akd2txeWr \in 0 .. CntMod - 1 /\ akd2txeRd \in 0 .. CntMod - 1
    BY DEF TurnsInv, TypeOK
  <2>3. akdEveTx \in 0 .. AkdEveDepth /\ txeEveRx \in 0 .. TxeEveDepth /\ akdTxe \in Seq(Event)
    BY DEF TurnsInv, TypeOK
  <2>4. akdEveTx \in Nat /\ txeEveRx \in Nat /\ Len(akdTxe) \in Nat
    BY <2>3, DepthAssumption
  <2> QED
    BY <2>1, <2>2, <2>4
<1>2. /\ Inc(akd2txeWr) \in {akd2txeWr + 1, akd2txeWr + 1 - CntMod}
      /\ Inc(akd2txeRd) \in {akd2txeRd + 1, akd2txeRd + 1 - CntMod}
  BY <1>1, IncTurns
<1>3. SentByAkd' \in {SentByAkd, SentByAkd - CntMod}
  BY <1>1, <1>2, CounterAssumption DEF CollectSignals, SentByAkd
<1>4. SeenByTxe' \in {SeenByTxe, SeenByTxe - CntMod}
  BY <1>1, <1>2, CounterAssumption DEF CollectSignals, SeenByTxe
<1>5. SentByAkd' # SentByAkd + 1
  BY <1>3, SumTypes, CounterAssumption, DepthAssumption DEF TurnsInv
<1> QED
  BY <1>3, <1>4, <1>5, TurnStep

LEMMA NextTurns == TurnsInv /\ [Next]_vars => TurnsInv'
<1> SUFFICES ASSUME TurnsInv, [Next]_vars
             PROVE  TurnsInv'
  OBVIOUS
<1>1. TypeOK'
  BY NextType DEF TurnsInv
<1>2. /\ akdTxe \in Seq(Event) /\ Len(akdTxe) \in Nat
      /\ akd2txeWr \in Nat /\ akd2txeRd \in Nat /\ akdEveTx \in Nat /\ txeEveRx \in Nat
      /\ SentByAkd \in Int /\ SeenByTxe \in Int
  BY SumTypes, DepthAssumption, CounterAssumption DEF TurnsInv, TypeOK
\* Steps that leave both sums as they are.
<1>3. ASSUME SentByAkd' = SentByAkd, SeenByTxe' = SeenByTxe
      PROVE  TurnsInv'
  BY <1>1, <1>2, <1>3, TurnStep
<1>4. CASE EVe
  BY <1>1, <1>4, CollectTurns
     DEF EVe, EVeForwardRXe, EVeForwardTIm, EVeForwardTAi, EVeIdle, akdVars, mdlVars
<1>5. CASE AKdRead \/ AKdSignalRx
  BY <1>3, <1>5 DEF AKdRead, AKdSignalRx, eveVars, mdlVars, SentByAkd, SeenByTxe, One
<1>6. ASSUME akdPc # "txSig", akdPc' = "txSig", Len(akdTxe') = Len(akdTxe) + 1,
             UNCHANGED <<akd2txeWr, akd2txeRd, akdEveTx, txeEveRx, mdlPc>>
      PROVE  TurnsInv'
  <2>1. SentByAkd' = SentByAkd + 1
    BY <1>2, <1>6 DEF SentByAkd, One
  <2>2. SeenByTxe' = SeenByTxe + 1
    BY <1>2, <1>6 DEF SeenByTxe, One
  <2> QED
    BY <1>1, <2>1, <2>2, TurnStep
<1>7. CASE AKdForward
  <2>1. Len(akdTxe') = Len(akdTxe) + 1
    BY <1>2, <1>7 DEF AKdForward
  <2> QED
    BY <1>6, <1>7, <2>1 DEF AKdForward, eveVars, mdlVars
<1>8. CASE AKdSignalTx
  <2>1. SentByAkd' = SentByAkd
    BY <1>2, <1>8 DEF AKdSignalTx, eveVars, SentByAkd, One
  <2>2. SeenByTxe' = SeenByTxe
    BY <1>8 DEF AKdSignalTx, eveVars, mdlVars, SeenByTxe, One
  <2> QED
    BY <1>3, <2>1, <2>2
<1>9. CASE AKdScan
  <2>1. CASE Fires
    <3>1. Len(akdTxe') = Len(akdTxe) + 1
      BY <1>2, <1>9, <2>1 DEF AKdScan
    <3> QED
      BY <1>6, <1>9, <2>1, <3>1 DEF AKdScan, AfterScan, eveVars, mdlVars
  <2>2. CASE ~Fires
    BY <1>3, <1>9, <2>2 DEF AKdScan, AfterScan, eveVars, mdlVars, SentByAkd, SeenByTxe, One
  <2> QED
    BY <2>1, <2>2
<1>10. CASE MdlRead
  <2>1. Len(akdTxe') = Len(akdTxe) - 1
    BY <1>2, <1>10 DEF MdlRead
  <2>2. SeenByTxe' = SeenByTxe
    BY <1>2, <1>10, <2>1 DEF MdlRead, eveVars, SeenByTxe, One
  <2>3. SentByAkd' = SentByAkd
    BY <1>10 DEF MdlRead, eveVars, akdVars, SentByAkd, One
  <2> QED
    BY <1>3, <2>2, <2>3
<1>11. CASE MdlSignal
  <2>1. SeenByTxe' = SeenByTxe
    BY <1>2, <1>11 DEF MdlSignal, eveVars, SeenByTxe, One
  <2>2. SentByAkd' = SentByAkd
    BY <1>11 DEF MdlSignal, eveVars, akdVars, SentByAkd, One
  <2> QED
    BY <1>3, <2>1, <2>2
<1>12. CASE MdlProcess
  BY <1>3, <1>12 DEF MdlProcess, eveVars, akdVars, SentByAkd, SeenByTxe, One
<1>13. CASE (\E e \in RxeEvent : RXePost(e)) \/ (\E e \in TimEvent : TImPost(e))
            \/ (\E e \in TaiEvent : TAiPost(e))
  BY <1>3, <1>13 DEF RXePost, TImPost, TAiPost, eveVars, akdVars, mdlVars,
                     SentByAkd, SeenByTxe, One
<1>14. CASE UNCHANGED vars
  BY <1>3, <1>14 DEF vars, eveVars, akdVars, mdlVars, SentByAkd, SeenByTxe, One
<1> QED
  BY <1>4, <1>5, <1>7, <1>8, <1>9, <1>10, <1>11, <1>12, <1>13, <1>14 DEF Next, AKd, Mdl

LEMMA AtLeastItsFactor == ASSUME NEW m \in Nat \ {0}, NEW a \in Nat
                          PROVE  a * m >= a
OBVIOUS

\* EVe's second pair of counters and the signals on their way to it account
\* for every event between AKd and TXe, whatever the depths: the two sides
\* differ by whole turns of the counters (event_engine.cpp, lines 104-109).
THEOREM AkdTxeLedgerHolds == Spec => []AkdTxeLedger
<1>1. Init => TurnsInv
  <2> SUFFICES ASSUME Init
               PROVE  TurnsInv
    OBVIOUS
  <2>1. SentByAkd = 0 /\ SeenByTxe = 0
    BY DEF Init, SentByAkd, SeenByTxe, One
  <2>2. SentByAkd - SeenByTxe = 0 * CntMod
    BY <2>1, CounterAssumption
  <2> QED
    BY <2>2, InitType DEF TurnsInv
<1>2. TurnsInv => AkdTxeLedger
  <2> SUFFICES ASSUME TurnsInv
               PROVE  AkdTxeLedger
    OBVIOUS
  <2>1. PICK k \in Int : SentByAkd - SeenByTxe = k * CntMod
    BY DEF TurnsInv
  <2>2. /\ CntMod \in Nat \ {0} /\ AkdEveDepth \in Nat
        /\ TxeEveDepth \in Nat /\ AkdTxeDepth \in Nat
    BY CounterAssumption, DepthAssumption
  <2>3. /\ k * CntMod <= CntMod + AkdEveDepth
        /\ -(CntMod + TxeEveDepth + AkdTxeDepth) <= k * CntMod
    BY <2>1, <2>2, SumTypes DEF TurnsInv
  <2>4. k <= MaxTurns
    <3>1. CASE k > 0
      <4>1. (k - 1) * CntMod = k * CntMod - CntMod
        BY <2>2
      <4>2. (k - 1) * CntMod >= k - 1
        BY <2>2, <3>1, AtLeastItsFactor
      <4>3. k * CntMod \in Int
        BY <2>2
      <4> QED
        BY <2>2, <2>3, <4>1, <4>2, <4>3 DEF MaxTurns
    <3>2. CASE ~(k > 0)
      BY <2>2, <3>2 DEF MaxTurns
    <3> QED
      BY <3>1, <3>2
  <2>5. -MaxTurns <= k
    <3>1. CASE k < 0
      <4>1. (-k - 1) * CntMod = -(k * CntMod) - CntMod
        BY <2>2
      <4>2. (-k - 1) * CntMod >= -k - 1
        BY <2>2, <3>1, AtLeastItsFactor
      <4>3. k * CntMod \in Int
        BY <2>2
      <4> QED
        BY <2>2, <2>3, <4>1, <4>2, <4>3 DEF MaxTurns
    <3>2. CASE ~(k < 0)
      BY <2>2, <3>2 DEF MaxTurns
    <3> QED
      BY <3>1, <3>2
  <2>6. k \in -MaxTurns .. MaxTurns
    BY <2>2, <2>4, <2>5 DEF MaxTurns
  <2> QED
    BY <2>1, <2>6 DEF AkdTxeLedger, WholeTurns
<1> QED
  BY <1>1, <1>2, NextTurns, PTL DEF Spec

----------------------------------------------------------------------------
(***************************************************************************)
(* The events of a sequence that are not ACK_EVENTs.                       *)
(***************************************************************************)

\* The recursion by which PlainOf goes through a sequence of events.
Filters(first, events) ==
    first = [n \in 0 .. Len(events) |->
                IF n = 0 THEN <<>>
                ELSE IF IsPlain(events[n]) THEN Append(first[n - 1], events[n])
                ELSE first[n - 1]]

\* Every solution takes the events one by one.
LEMMA FilterSteps ==
    ASSUME NEW events \in Seq(Event), NEW first, Filters(first, events)
    PROVE  /\ first[0] = <<>>
           /\ \A n \in 1 .. Len(events) :
                 first[n] = IF IsPlain(events[n]) THEN Append(first[n - 1], events[n])
                            ELSE first[n - 1]
<1>1. \A n \in 0 .. Len(events) :
         first[n] = IF n = 0 THEN <<>>
                    ELSE IF IsPlain(events[n]) THEN Append(first[n - 1], events[n])
                    ELSE first[n - 1]
  BY Zenon DEF Filters
<1>2. Len(events) \in Nat /\ \A n \in 1 .. Len(events) : n \in 0 .. Len(events) /\ n # 0
  OBVIOUS
<1>3. first[0] = <<>>
  BY <1>1, <1>2
<1>4. ASSUME NEW n \in 1 .. Len(events)
      PROVE  first[n] = IF IsPlain(events[n]) THEN Append(first[n - 1], events[n])
                        ELSE first[n - 1]
  BY <1>1, <1>2, Zenon
<1> QED
  BY <1>3, <1>4

\* It has a solution, and PlainOf is the last value of one.
LEMMA PlainOfSolves ==
    ASSUME NEW events \in Seq(Event)
    PROVE  \E first : /\ Filters(first, events)
                      /\ first \in [0 .. Len(events) -> Seq(Event)]
                      /\ PlainOf(events) = first[Len(events)]
<1> DEFINE N == Len(events)
           step == [p \in (1 .. N) \X Seq(Event) |->
                      IF IsPlain(events[p[1]]) THEN Append(p[2], events[p[1]]) ELSE p[2]]
<1>1. N \in Nat /\ \A n \in 1 .. N : events[n] \in Event
  OBVIOUS
<1>2. step \in [(1 .. N) \X Seq(Event) -> Seq(Event)]
  <2>1. ASSUME NEW n \in 1 .. N, NEW v \in Seq(Event)
        PROVE  (IF IsPlain(events[n]) THEN Append(v, events[n]) ELSE v) \in Seq(Event)
    BY <1>1
  <2> QED
    BY <2>1
<1>3. \A n \in 1 .. N, v \in Seq(Event) :
         step[<<n, v>>] = IF IsPlain(events[n]) THEN Append(v, events[n]) ELSE v
  OBVIOUS
<1> HIDE DEF step
<1>4. PICK f \in [0 .. N -> Seq(Event)] :
         f[0] = <<>> /\ \A n \in 1 .. N : f[n] = step[<<n, f[n - 1]>>]
  <2>1. <<>> \in Seq(Event)
    OBVIOUS
  <2> HIDE DEF N
  <2>2. Solvable(N, Seq(Event), <<>>, step)
    BY <1>1, <1>2, <2>1, IntervalRecursion
  <2> QED
    BY <2>2 DEF Solvable
<1>5. Filters(f, events)
  <2>1. ASSUME NEW n \in 0 .. N
        PROVE  f[n] = IF n = 0 THEN <<>>
                      ELSE IF IsPlain(events[n]) THEN Append(f[n - 1], events[n])
                      ELSE f[n - 1]
    <3>1. CASE n = 0
      BY <1>4, <3>1
    <3>2. CASE n # 0
      <4>1. n \in 1 .. N /\ n - 1 \in 0 .. N
        BY <1>1, <3>2
      <4>2. f[n - 1] \in Seq(Event)
        BY <4>1
      <4> QED
        BY <1>3, <1>4, <3>2, <4>1, <4>2
    <3> QED
      BY <3>1, <3>2
  <2> QED
    BY <2>1 DEF Filters
<1> DEFINE g == CHOOSE first : Filters(first, events)
<1>6. Filters(g, events)
  BY <1>5
<1>7. PlainOf(events) = g[Len(events)]
  BY DEF PlainOf, Filters
<1> HIDE DEF g
<1>8. g[0] = <<>> /\ \A n \in 1 .. N : g[n] = IF IsPlain(events[n])
                       THEN Append(g[n - 1], events[n]) ELSE g[n - 1]
  BY <1>6, FilterSteps
<1>9. g \in [0 .. N -> Seq(Event)]
  <2> DEFINE S == {n \in 0 .. N : g[n] \in Seq(Event)}
  <2>1. 0 \in S
    <3>1. <<>> \in Seq(Event) /\ 0 \in 0 .. N
      BY <1>1
    <3> QED
      BY <1>8, <3>1
  <2>2. ASSUME NEW n \in 0 .. N - 1, n \in S
        PROVE  n + 1 \in S
    <3>1. n + 1 \in 1 .. N /\ n + 1 \in 0 .. N /\ (n + 1) - 1 = n /\ g[n] \in Seq(Event)
      BY <1>1, <2>2
    <3>2. g[n + 1] = IF IsPlain(events[n + 1]) THEN Append(g[n], events[n + 1]) ELSE g[n]
      BY <1>8, <3>1
    <3>3. events[n + 1] \in Event
      BY <1>1, <3>1
    <3>4. g[n + 1] \in Seq(Event)
      BY <3>1, <3>2, <3>3
    <3> QED
      BY <3>1, <3>4
  <2> HIDE DEF S
  <2>3. \A n \in 0 .. N : n \in S
    BY <1>1, <2>1, <2>2, IntervalInduction
  <2> USE DEF S
  <2>4. DOMAIN g = 0 .. N /\ g = [n \in 0 .. N |-> g[n]]
    BY <1>6 DEF Filters
  <2> QED
    BY <2>3, <2>4
<1> QED
  BY <1>6, <1>7, <1>9

\* A sequence of events is left, and of nothing nothing.
LEMMA PlainOfType ==
    /\ \A events \in Seq(Event) : PlainOf(events) \in Seq(Event)
    /\ PlainOf(<<>>) = <<>>
<1>1. ASSUME NEW events \in Seq(Event)
      PROVE  PlainOf(events) \in Seq(Event)
  BY PlainOfSolves
<1>2. PlainOf(<<>>) = <<>>
  <2>1. PICK first : Filters(first, <<>>) /\ PlainOf(<<>>) = first[Len(<<>>)]
    <3>1. <<>> \in Seq(Event)
      OBVIOUS
    <3> QED
      BY <3>1, PlainOfSolves
  <2> QED
    BY <2>1 DEF Filters
<1> QED
  BY <1>1, <1>2

\* One more event at the end, and the event at the front.
LEMMA PlainOfAppend ==
    ASSUME NEW events \in Seq(Event), NEW e \in Event
    PROVE  PlainOf(Append(events, e)) =
              IF IsPlain(e) THEN Append(PlainOf(events), e) ELSE PlainOf(events)
<1> DEFINE longer == Append(events, e)
           N == Len(events)
<1>1. /\ longer \in Seq(Event) /\ N \in Nat /\ Len(longer) = N + 1
      /\ longer[N + 1] = e /\ \A n \in 1 .. N : longer[n] = events[n]
  OBVIOUS
<1> HIDE DEF longer
<1>2. PICK f : /\ Filters(f, events) /\ f \in [0 .. N -> Seq(Event)]
               /\ PlainOf(events) = f[N]
  BY PlainOfSolves
<1>3. PICK g : /\ Filters(g, longer) /\ g \in [0 .. N + 1 -> Seq(Event)]
               /\ PlainOf(longer) = g[N + 1]
  BY <1>1, PlainOfSolves
<1> DEFINE S == {n \in 0 .. N : g[n] = f[n]}
<1>4. /\ f[0] = <<>>
      /\ \A n \in 1 .. N : f[n] = IF IsPlain(events[n]) THEN Append(f[n - 1], events[n])
                                  ELSE f[n - 1]
  BY <1>2, FilterSteps
<1>5. /\ g[0] = <<>>
      /\ \A n \in 1 .. N + 1 : g[n] = IF IsPlain(longer[n]) THEN Append(g[n - 1], longer[n])
                                      ELSE g[n - 1]
  BY <1>1, <1>3, FilterSteps, SMTT(60)
<1>6. 0 \in S
  BY <1>1, <1>4, <1>5
<1>7. ASSUME NEW n \in 0 .. N - 1, n \in S
      PROVE  n + 1 \in S
  <2>1. /\ n + 1 \in 1 .. N /\ n + 1 \in 1 .. N + 1 /\ (n + 1) - 1 = n
        /\ longer[n + 1] = events[n + 1] /\ g[n] = f[n]
    BY <1>1, <1>7
  <2>2. g[n + 1] = f[n + 1]
    BY <1>4, <1>5, <2>1
  <2> QED
    BY <1>1, <2>1, <2>2
<1> HIDE DEF S, N
<1>8. N \in S
  <2>1. \A n \in 0 .. N : n \in S
    BY <1>1, <1>6, <1>7, IntervalInduction
  <2> QED
    BY <1>1, <2>1
<1> USE DEF S
<1>9. g[N] = f[N]
  BY <1>8
<1>10. g[N + 1] = IF IsPlain(e) THEN Append(g[N], e) ELSE g[N]
  <2>1. N + 1 \in 1 .. N + 1 /\ (N + 1) - 1 = N
    BY <1>1
  <2> QED
    BY <1>1, <1>5, <2>1
<1> QED
  BY <1>2, <1>3, <1>9, <1>10 DEF longer

\* Concatenation with the empty sequence, and of a sequence that gets longer.
LEMMA ConcatEmptySeq ==
    ASSUME NEW s \in Seq(Event)
    PROVE  s \o <<>> = s /\ <<>> \o s = s
OBVIOUS

LEMMA ConcatAppend ==
    ASSUME NEW s \in Seq(Event), NEW t \in Seq(Event), NEW e \in Event
    PROVE  Append(s \o t, e) = s \o Append(t, e)
OBVIOUS

LEMMA PlainOfFirst ==
    ASSUME NEW events \in Seq(Event), events # <<>>
    PROVE  PlainOf(events) = IF IsPlain(Head(events))
                             THEN <<Head(events)>> \o PlainOf(Tail(events))
                             ELSE PlainOf(Tail(events))
<1> DEFINE rest == Tail(events)
           N == Len(rest)
           pre == IF IsPlain(Head(events)) THEN <<Head(events)>> ELSE <<>>
<1>1. /\ rest \in Seq(Event) /\ N \in Nat /\ Len(events) = N + 1
      /\ events[1] = Head(events) /\ Head(events) \in Event
      /\ \A n \in 1 .. N : events[n + 1] = rest[n] /\ rest[n] \in Event
  OBVIOUS
<1>2. pre \in Seq(Event)
  BY <1>1
<1> HIDE DEF rest
<1>3. PICK f : /\ Filters(f, rest) /\ f \in [0 .. N -> Seq(Event)]
               /\ PlainOf(rest) = f[N]
  BY <1>1, PlainOfSolves
<1>4. PICK g : /\ Filters(g, events) /\ g \in [0 .. N + 1 -> Seq(Event)]
               /\ PlainOf(events) = g[N + 1]
  BY <1>1, PlainOfSolves
<1> DEFINE S == {n \in 0 .. N : g[n + 1] = pre \o f[n]}
<1>5. /\ f[0] = <<>>
      /\ \A n \in 1 .. N : f[n] = IF IsPlain(rest[n]) THEN Append(f[n - 1], rest[n])
                                  ELSE f[n - 1]
  BY <1>1, <1>3, FilterSteps
<1>6. /\ g[0] = <<>>
      /\ \A n \in 1 .. N + 1 : g[n] = IF IsPlain(events[n]) THEN Append(g[n - 1], events[n])
                                      ELSE g[n - 1]
  BY <1>1, <1>4, FilterSteps
<1>7. 0 \in S
  <2>1. g[1] = IF IsPlain(Head(events)) THEN Append(<<>>, Head(events)) ELSE <<>>
    <3>1. 1 \in 1 .. N + 1 /\ 1 - 1 = 0
      BY <1>1
    <3> QED
      BY <1>1, <1>6, <3>1
  <2>2. g[1] = pre
    BY <1>1, <2>1
  <2> HIDE DEF pre
  <2>3. pre \o <<>> = pre
    BY <1>2, ConcatEmptySeq
  <2>4. g[0 + 1] = pre \o f[0]
    BY <1>5, <2>2, <2>3
  <2> QED
    BY <1>1, <2>4
<1>8. ASSUME NEW n \in 0 .. N - 1, n \in S
      PROVE  n + 1 \in S
  <2>1. /\ n + 1 \in 1 .. N /\ n + 2 \in 1 .. N + 1
        /\ (n + 1) - 1 = n /\ (n + 2) - 1 = n + 1 /\ (n + 1) + 1 = n + 2
        /\ events[n + 2] = rest[n + 1] /\ rest[n + 1] \in Event
    BY <1>1
  <2>2. f[n] \in Seq(Event) /\ g[n + 1] = pre \o f[n]
    BY <1>1, <1>3, <1>8
  <2>3. f[n + 1] = IF IsPlain(rest[n + 1]) THEN Append(f[n], rest[n + 1]) ELSE f[n]
    BY <1>5, <2>1
  <2>4. g[n + 2] = IF IsPlain(rest[n + 1]) THEN Append(g[n + 1], rest[n + 1]) ELSE g[n + 1]
    BY <1>6, <2>1
  <2> HIDE DEF pre
  <2>5. Append(pre \o f[n], rest[n + 1]) = pre \o Append(f[n], rest[n + 1])
    <3>1. pre \in Seq(Event) /\ f[n] \in Seq(Event) /\ rest[n + 1] \in Event
      BY <1>2, <2>1, <2>2
    <3> QED
      BY <3>1, ConcatAppend, Zenon
  <2>6. g[n + 2] = pre \o f[n + 1]
    BY <2>2, <2>3, <2>4, <2>5
  <2> QED
    BY <1>1, <2>1, <2>6
<1> HIDE DEF S, pre, N
<1>9. N \in S
  <2>1. \A n \in 0 .. N : n \in S
    BY <1>1, <1>7, <1>8, IntervalInduction
  <2> QED
    BY <1>1, <2>1
<1> USE DEF S
<1>10. PlainOf(events) = pre \o PlainOf(rest)
  BY <1>3, <1>4, <1>9
<1>11. PlainOf(rest) \in Seq(Event) /\ <<>> \o PlainOf(rest) = PlainOf(rest)
  <2>1. PlainOf(rest) \in Seq(Event)
    BY <1>1, PlainOfType
  <2> QED
    BY <2>1
<1> QED
  BY <1>10, <1>11 DEF pre, rest

----------------------------------------------------------------------------
(***************************************************************************)
(* EVe and AKd implement EventService, step by step, when no reset is      *)
(* among the events: AKd takes session 0 for the session of a reset that   *)
(* belongs to none.                                                        *)
(***************************************************************************)
NoReset == "RST" \notin Types

Kind == {e \in Event : e.type # "RST"}

\* Resets do not come about on the way, and AKd hands on no ACK_EVENT it has read.
PathInv ==
    /\ TypeOK
    /\ rxeEve \in Seq(Kind) /\ timEve \in Seq(Kind) /\ taiEve \in Seq(Kind)
    /\ eveAkd \in Seq(Kind) /\ akdEv \in Kind
    /\ akdPc = "forward" => IsPlain(akdEv)

LEMMA PostedKinds ==
    ASSUME NoReset
    PROVE  RxeEvent \subseteq Kind /\ TimEvent \subseteq Kind /\ TaiEvent \subseteq Kind
<1>1. /\ \A e \in RxeEvent : e.type \in {"ACK", "ACK_NODELAY"}
      /\ \A e \in TimEvent : e.type = "RT"
      /\ \A e \in TaiEvent : e.type = "TX"
  BY DEF NoReset, RxeEvent, TimEvent, TaiEvent, Ev
<1> QED
  BY <1>1, PostedEvents DEF Kind

LEMMA InitPath == NoReset /\ Init => PathInv
<1>1. NoEvent \in Kind
  BY PostedEvents DEF NoEvent, Ev, Kind
<1> QED
  BY <1>1, InitType DEF Init, PathInv

LEMMA NextPath == NoReset /\ PathInv /\ [Next]_vars => PathInv'
<1> SUFFICES ASSUME NoReset, PathInv, [Next]_vars
             PROVE  PathInv'
  OBVIOUS
<1>1. TypeOK'
  BY NextType DEF PathInv
<1>2. ASSUME NEW e \in Kind,
             \/ rxeEve' = <<e>> /\ UNCHANGED <<timEve, taiEve>>
             \/ timEve' = <<e>> /\ UNCHANGED <<rxeEve, taiEve>>
             \/ taiEve' = <<e>> /\ UNCHANGED <<rxeEve, timEve>>,
             UNCHANGED <<eveAkd, akdEv, akdPc>>
      PROVE  PathInv'
  <2>1. <<e>> \in Seq(Kind)
    OBVIOUS
  <2>2. rxeEve' \in Seq(Kind) /\ timEve' \in Seq(Kind) /\ taiEve' \in Seq(Kind)
    BY <1>2, <2>1 DEF PathInv
  <2> QED
    BY <1>1, <1>2, <2>2 DEF PathInv, IsPlain
<1>3. CASE \/ \E e \in RxeEvent : RXePost(e)
           \/ \E e \in TimEvent : TImPost(e)
           \/ \E e \in TaiEvent : TAiPost(e)
  BY <1>2, <1>3, PostedKinds DEF RXePost, TImPost, TAiPost, akdVars
<1>4. CASE EVe
  <2>1. UNCHANGED <<akdEv, akdPc>>
    BY <1>4 DEF EVe, EVeForwardRXe, EVeForwardTIm, EVeForwardTAi, EVeIdle, akdVars
  <2>2. CASE EVeForwardRXe
    <3>1. Head(rxeEve) \in Kind /\ Tail(rxeEve) \in Seq(Kind)
      BY <2>2 DEF EVeForwardRXe, TakeRXe, PathInv
    <3> QED
      BY <1>1, <2>1, <2>2, <3>1 DEF EVeForwardRXe, PathInv, IsPlain
  <2>3. CASE EVeForwardTIm
    <3>1. Head(timEve) \in Kind /\ Tail(timEve) \in Seq(Kind)
      BY <2>3 DEF EVeForwardTIm, PathInv
    <3> QED
      BY <1>1, <2>1, <2>3, <3>1 DEF EVeForwardTIm, PathInv, IsPlain
  <2>4. CASE EVeForwardTAi
    <3>1. Head(taiEve) \in Kind /\ Tail(taiEve) \in Seq(Kind)
      BY <2>4 DEF EVeForwardTAi, PathInv
    <3> QED
      BY <1>1, <2>1, <2>4, <3>1 DEF EVeForwardTAi, PathInv, IsPlain
  <2>5. CASE EVeIdle
    BY <1>1, <2>1, <2>5 DEF EVeIdle, srcVars, PathInv, IsPlain
  <2> QED
    BY <1>4, <2>2, <2>3, <2>4, <2>5 DEF EVe
<1>5. CASE AKdRead
  <2>1. Head(eveAkd) \in Kind /\ Tail(eveAkd) \in Seq(Kind)
    BY <1>5 DEF AKdRead, PathInv
  <2> QED
    BY <1>1, <1>5, <2>1 DEF AKdRead, srcVars, PathInv
<1>6. CASE AKdSignalRx
  BY <1>1, <1>6 DEF AKdSignalRx, srcVars, PathInv, IsPlain
<1>7. CASE AKdForward \/ AKdSignalTx \/ AKdScan
  BY <1>1, <1>7 DEF AKdForward, AKdSignalTx, AKdScan, AfterScan, srcVars, PathInv
<1>8. CASE Mdl
  BY <1>1, <1>8 DEF Mdl, MdlRead, MdlSignal, MdlProcess, srcVars, akdVars, PathInv, IsPlain
<1>9. CASE UNCHANGED vars
  BY <1>1, <1>9 DEF vars, srcVars, akdVars, PathInv, IsPlain
<1> QED
  BY <1>3, <1>4, <1>5, <1>6, <1>7, <1>8, <1>9 DEF Next, AKd

\* A sequence of events of some kinds is a sequence of events.
LEMMA KindsAreEvents == Kind \subseteq Event /\ \A s \in Seq(Kind) : s \in Seq(Event)
<1>1. Kind \subseteq Event
  BY DEF Kind
<1>2. ASSUME NEW s \in Seq(Kind)
      PROVE  s \in Seq(Event)
  BY <1>1
<1> QED
  BY <1>1, <1>2

\* What AKd holds and has not passed on.
Held == IF akdPc \in {"rxSig", "forward"} THEN <<akdEv>> ELSE <<>>

LEMMA UpstreamType ==
    ASSUME PathInv
    PROVE  /\ Held \in Seq(Event) /\ Held \in Seq(Kind) /\ Upstream = Held \o eveAkd
           /\ Upstream \in Seq(Kind) /\ Upstream \in Seq(Event)
           /\ PlainOf(Upstream) \in Seq(Event)
<1>1. Held \in Seq(Kind) /\ eveAkd \in Seq(Kind)
  BY DEF Held, PathInv
<1>2. Upstream = Held \o eveAkd
  BY DEF Upstream, Held
<1>3. Upstream \in Seq(Kind)
  BY <1>1, <1>2
<1> QED
  BY <1>1, <1>2, <1>3, KindsAreEvents, PlainOfType

\* Nothing that the mapping looks at moves.
LEMMA StillMap ==
    ASSUME UNCHANGED <<akdTxe, ackTable, eveAkd, akdPc, akdEv>>
    PROVE  UNCHANGED Service!vars
<1>1. Upstream' = Upstream
  BY DEF Upstream
<1>2. PlainOf(Upstream)' = PlainOf(Upstream)
  BY <1>1 DEF PlainOf
<1>3. \A s \in Session : Owed(s)' = Owed(s)
  BY <1>1 DEF Owed
<1>4. [s \in Session |-> Owed(s)]' = [s \in Session |-> Owed(s)]
  BY <1>3
<1> QED
  BY <1>2, <1>4 DEF Service!vars

\* EVe forwards an event: the service accepts it.
LEMMA ForwardMap ==
    ASSUME PathInv, NEW e \in Kind, eveAkd' = Append(eveAkd, e),
           UNCHANGED <<akdTxe, ackTable, akdPc, akdEv>>
    PROVE  Service!Next
<1>1. /\ Held' = Held /\ Held \in Seq(Event) /\ eveAkd \in Seq(Event) /\ e \in Event
      /\ Upstream = Held \o eveAkd /\ Upstream' = Held \o Append(eveAkd, e)
  BY UpstreamType, KindsAreEvents DEF Held, Upstream, PathInv
<1>2. Upstream' = Append(Upstream, e) /\ Upstream \in Seq(Event)
  BY <1>1, UpstreamType, ConcatAppend
<1>3. /\ Len(Upstream) \in Nat /\ DOMAIN Upstream = 1 .. Len(Upstream)
      /\ DOMAIN Upstream' = 1 .. Len(Upstream) + 1
      /\ Upstream'[Len(Upstream) + 1] = e
      /\ \A i \in 1 .. Len(Upstream) : Upstream'[i] = Upstream[i]
  BY <1>1, <1>2
<1>4. akdPc = "forward" => Len(Upstream) # 0
  BY <1>1 DEF Held, PathInv
<1>5. \A s \in Session : Owed(s)' <=> Owed(s) \/ e = Ev("ACK", s)
  <2> SUFFICES ASSUME NEW s \in Session
               PROVE  Owed(s)' <=> Owed(s) \/ e = Ev("ACK", s)
    OBVIOUS
  <2> DEFINE Waits(i) == Upstream[i] = Ev("ACK", s) /\ ~(i = 1 /\ akdPc = "forward")
             Waits1(i) == Upstream'[i] = Ev("ACK", s) /\ ~(i = 1 /\ akdPc = "forward")
             len == Len(Upstream)
  <2>1. Owed(s) <=> ackTable[s].delay > 0 \/ \E i \in 1 .. len : Waits(i)
    BY <1>3 DEF Owed
  <2>2. Owed(s)' <=> ackTable[s].delay > 0 \/ \E i \in 1 .. len + 1 : Waits1(i)
    BY <1>3 DEF Owed
  <2>3. \A i \in 1 .. len : Waits1(i) <=> Waits(i)
    BY <1>3
  <2>4. Waits1(len + 1) <=> e = Ev("ACK", s)
    BY <1>3, <1>4
  <2>5. len \in Nat
    BY <1>3
  <2> HIDE DEF Waits, Waits1, len
  <2> QED
    BY <2>1, <2>2, <2>3, <2>4, <2>5
<1>6. PlainOf(Upstream)' = PlainOf(Upstream')
  BY DEF PlainOf
<1>7. CASE IsPlain(e)
  <2>1. PlainOf(Upstream') = Append(PlainOf(Upstream), e)
    BY <1>1, <1>2, <1>7, PlainOfAppend
  <2>2. \A s \in Session : Owed(s)' <=> Owed(s)
    BY <1>5, <1>7 DEF Ev, IsPlain
  <2>3. [s \in Session |-> Owed(s)]' = [s \in Session |-> Owed(s)]
    BY <2>2 DEF Owed
  <2>4. Service!AcceptPlain(e)
    BY <1>6, <2>1, <2>3 DEF Service!AcceptPlain
  <2>5. e \in {x \in Event : IsPlain(x)}
    BY <1>1, <1>7
  <2> QED
    BY <2>4, <2>5 DEF Service!Next
<1>8. CASE ~IsPlain(e)
  <2>1. PlainOf(Upstream') = PlainOf(Upstream)
    BY <1>1, <1>2, <1>8, PlainOfAppend
  <2>2. e.sess \in Session /\ e = Ev("ACK", e.sess)
    BY <1>1, <1>8 DEF IsPlain, Event, Ev
  <2>3. \A s \in Session : Owed(s)' <=> Owed(s) \/ s = e.sess
    BY <1>5, <2>2 DEF Ev
  <2>4. [s \in Session |-> Owed(s)]' = [[s \in Session |-> Owed(s)] EXCEPT ![e.sess] = TRUE]
    BY <2>2, <2>3 DEF Owed
  <2>5. Service!AcceptAck(e.sess)
    BY <1>6, <2>1, <2>4 DEF Service!AcceptAck
  <2> QED
    BY <2>2, <2>5 DEF Service!Next
<1> QED
  BY <1>7, <1>8

\* A merged ACK leaves the delay of its session running.
LEMMA OneMoreAckRuns == ASSUME NEW entry \in AckEntry
                        PROVE  OneMoreAck(entry).delay > 0
<1>1. \A i \in 1 .. NLevel : AckDelays[i] \in Nat /\ AckDelays[i] > 0
  BY DelayAssumption DEF NLevel
<1>2. NLevel \in Nat /\ NLevel > 0
  BY DelayAssumption DEF NLevel
<1>3. entry.delay \in Nat /\ entry.count \in Nat
  BY DEF AckEntry
<1>4. CASE entry.delay = 0
  <2>1. OneMoreAck(entry).delay = AckDelays[1]
    BY <1>4 DEF OneMoreAck
  <2> QED
    BY <1>1, <1>2, <2>1
<1>5. CASE entry.delay # 0 /\ entry.count \in 1 .. NLevel - 1
  <2>1. OneMoreAck(entry).delay = Smaller(entry.delay, AckDelays[entry.count + 1])
    BY <1>5 DEF OneMoreAck
  <2>2. entry.count + 1 \in 1 .. NLevel
    BY <1>2, <1>5
  <2>3. OneMoreAck(entry).delay \in {entry.delay, AckDelays[entry.count + 1]}
    BY <2>1 DEF Smaller
  <2> QED
    BY <1>1, <1>3, <1>5, <2>2, <2>3
<1>6. CASE entry.delay # 0 /\ entry.count \notin 1 .. NLevel - 1
  <2>1. OneMoreAck(entry).delay \in {1, entry.delay}
    BY <1>6 DEF OneMoreAck
  <2> QED
    BY <1>3, <1>6, <2>1
<1> QED
  BY <1>4, <1>5, <1>6

\* AKd takes an event into its register: nothing happens to the service.
LEMMA ReadMap ==
    ASSUME PathInv, AKdRead
    PROVE  UNCHANGED Service!vars
<1>1. /\ akdPc = "run" /\ akdPc' = "rxSig" /\ eveAkd # <<>> /\ eveAkd \in Seq(Event)
      /\ akdEv' = Head(eveAkd) /\ eveAkd' = Tail(eveAkd)
      /\ UNCHANGED <<akdTxe, ackTable>>
  BY DEF AKdRead, PathInv, TypeOK
<1>2. Upstream = eveAkd /\ Upstream' = <<Head(eveAkd)>> \o Tail(eveAkd)
  BY <1>1, UpstreamType, ConcatEmptySeq DEF Upstream
<1>3. <<Head(eveAkd)>> \o Tail(eveAkd) = eveAkd
  BY <1>1
<1>4. Upstream' = Upstream
  BY <1>2, <1>3
<1>5. PlainOf(Upstream)' = PlainOf(Upstream)
  BY <1>4 DEF PlainOf
<1>6. \A s \in Session : Owed(s)' = Owed(s)
  BY <1>1, <1>4 DEF Owed
<1>7. [s \in Session |-> Owed(s)]' = [s \in Session |-> Owed(s)]
  BY <1>6
<1> QED
  BY <1>1, <1>5, <1>7 DEF Service!vars

\* The first event AKd holds, and what is left when it is gone.
LEMMA HeldFirst ==
    ASSUME PathInv, akdPc \in {"rxSig", "forward"}
    PROVE  /\ Upstream # <<>> /\ Head(Upstream) = akdEv /\ Tail(Upstream) = eveAkd
           /\ Len(Upstream) = Len(eveAkd) + 1 /\ Len(eveAkd) \in Nat
           /\ \A i \in 1 .. Len(eveAkd) : Upstream[i + 1] = eveAkd[i]
           /\ Upstream[1] = akdEv
           /\ DOMAIN Upstream = 1 .. Len(Upstream) /\ DOMAIN eveAkd = 1 .. Len(eveAkd)
<1>1. Upstream = <<akdEv>> \o eveAkd /\ akdEv \in Event /\ eveAkd \in Seq(Event)
  BY DEF Upstream, PathInv, TypeOK
<1> QED
  BY <1>1

\* What waits behind the first event.
Behind(s) == \E i \in 1 .. Len(eveAkd) : eveAkd[i] = Ev("ACK", s)

LEMMA OwedHeld ==
    ASSUME PathInv, akdPc \in {"rxSig", "forward"}, NEW s \in Session
    PROVE  Owed(s) <=> \/ ackTable[s].delay > 0
                       \/ akdPc = "rxSig" /\ akdEv = Ev("ACK", s)
                       \/ Behind(s)
<1> DEFINE Waits(i) == Upstream[i] = Ev("ACK", s) /\ ~(i = 1 /\ akdPc = "forward")
           len == Len(eveAkd)
<1>1. Owed(s) <=> ackTable[s].delay > 0 \/ \E i \in 1 .. len + 1 : Waits(i)
  BY HeldFirst DEF Owed
<1>2. Waits(1) <=> akdPc = "rxSig" /\ akdEv = Ev("ACK", s)
  BY HeldFirst
<1>3. \A i \in 1 .. len : Waits(i + 1) <=> eveAkd[i] = Ev("ACK", s)
  BY HeldFirst
<1>4. len \in Nat
  BY HeldFirst
<1> HIDE DEF Waits, len
<1>5. (\E i \in 1 .. len + 1 : Waits(i)) <=> Waits(1) \/ \E i \in 1 .. len : Waits(i + 1)
  <2>1. ASSUME NEW i \in 1 .. len + 1, Waits(i)
        PROVE  Waits(1) \/ \E j \in 1 .. len : Waits(j + 1)
    <3>1. CASE i = 1
      BY <2>1, <3>1
    <3>2. CASE i # 1
      <4>1. i - 1 \in 1 .. len /\ (i - 1) + 1 = i
        BY <1>4, <3>2
      <4> QED
        BY <2>1, <4>1
    <3> QED
      BY <3>1, <3>2
  <2>2. \A j \in 1 .. len : j + 1 \in 1 .. len + 1
    BY <1>4
  <2>3. 1 \in 1 .. len + 1
    BY <1>4
  <2> QED
    BY <2>1, <2>2, <2>3
<1>6. (\E i \in 1 .. len : Waits(i + 1)) <=> Behind(s)
  BY <1>3 DEF Behind, len
<1> QED
  BY <1>1, <1>2, <1>5, <1>6

\* With nothing in its register AKd sees the stream only.
LEMMA OwedNotHeld ==
    ASSUME PathInv, akdPc \notin {"rxSig", "forward"}, NEW s \in Session
    PROVE  /\ Upstream = eveAkd
           /\ Owed(s) <=> ackTable[s].delay > 0 \/ Behind(s)
<1>1. eveAkd \in Seq(Event) /\ DOMAIN eveAkd = 1 .. Len(eveAkd)
  BY DEF PathInv, TypeOK
<1>2. Upstream = eveAkd
  BY <1>1, UpstreamType, ConcatEmptySeq DEF Held
<1> QED
  BY <1>1, <1>2 DEF Owed, Behind

\* AKd merges an ACK: it stays owed.  AKd resets the entry of another event's
\* session: the event is about to be handed over and carries the ACK.
LEMMA SignalMap ==
    ASSUME PathInv, PathInv', AKdSignalRx
    PROVE  Service!Next \/ UNCHANGED Service!vars
<1> DEFINE s0 == akdEv.sess
           none == [delay |-> 0, count |-> 0]
<1>1. /\ akdPc = "rxSig" /\ UNCHANGED <<eveAkd, akdTxe, akdEv>>
      /\ akdEv \in Kind /\ akdEv \in Event /\ s0 \in Session
      /\ ackTable \in [Session -> AckEntry] /\ eveAkd \in Seq(Event)
  BY KindsAreEvents DEF AKdSignalRx, PathInv, TypeOK, Event
<1>2. \A s \in Session : Behind(s)' <=> Behind(s)
  BY <1>1 DEF Behind
<1>3. /\ Head(Upstream) = akdEv /\ Tail(Upstream) = eveAkd /\ Upstream # <<>>
      /\ Upstream \in Seq(Event) /\ PlainOf(eveAkd) \in Seq(Event)
  BY <1>1, HeldFirst, UpstreamType, PlainOfType
<1>4. CASE akdEv.type = "ACK"
  <2>1. /\ ackTable' = [ackTable EXCEPT ![s0] = OneMoreAck(@)] /\ akdPc' = "run"
        /\ akdEv = Ev("ACK", s0)
    BY <1>1, <1>4 DEF AKdSignalRx, Event, Ev
  <2>2. Upstream' = eveAkd
    <3>1. Upstream' = <<>> \o eveAkd
      BY <1>1, <2>1 DEF Upstream
    <3> QED
      BY <1>1, <3>1, ConcatEmptySeq
  <2>3. PlainOf(Upstream) = PlainOf(eveAkd)
    BY <1>3, <1>4, PlainOfFirst DEF IsPlain
  <2>4. PlainOf(Upstream)' = PlainOf(Upstream)
    BY <2>2, <2>3
  <2>5. \A s \in Session : Owed(s)' <=> Owed(s)
    <3> SUFFICES ASSUME NEW s \in Session
                 PROVE  Owed(s)' <=> Owed(s)
      OBVIOUS
    <3>1. Owed(s) <=> ackTable[s].delay > 0 \/ s = s0 \/ Behind(s)
      BY <1>1, <2>1, OwedHeld DEF Ev
    <3>2. Owed(s)' <=> ackTable'[s].delay > 0 \/ Behind(s)'
      <4>1. eveAkd' \in Seq(Event) /\ DOMAIN eveAkd' = 1 .. Len(eveAkd')
        BY <1>1
      <4> QED
        BY <1>1, <2>1, <2>2, <4>1 DEF Owed, Behind
    <3>3. CASE s = s0
      <4>1. ackTable'[s].delay > 0
        BY <1>1, <2>1, <3>3, OneMoreAckRuns
      <4> QED
        BY <3>1, <3>2, <3>3, <4>1
    <3>4. CASE s # s0
      <4>1. ackTable'[s] = ackTable[s]
        BY <1>1, <2>1, <3>4
      <4> QED
        BY <1>2, <3>1, <3>2, <3>4, <4>1
    <3> QED
      BY <3>3, <3>4
  <2>6. [s \in Session |-> Owed(s)]' = [s \in Session |-> Owed(s)]
    BY <2>5 DEF Owed
  <2> QED
    BY <1>1, <2>4, <2>6 DEF Service!vars
<1>5. CASE akdEv.type # "ACK"
  <2>1. ackTable' = [ackTable EXCEPT ![s0] = none] /\ akdPc' = "forward"
    BY <1>1, <1>5 DEF AKdSignalRx
  <2>2. Upstream' = Upstream
    BY <1>1, <2>1 DEF Upstream
  <2>3. PlainOf(Upstream)' = PlainOf(Upstream)
    BY <2>2
  <2>4. \A s \in Session : akdEv # Ev("ACK", s)
    BY <1>5 DEF Ev
  <2>5. \A s \in Session : Owed(s) <=> ackTable[s].delay > 0 \/ Behind(s)
    BY <1>1, <2>4, OwedHeld
  <2>6. \A s \in Session : Owed(s)' <=> Owed(s) /\ (s = s0 => Behind(s0))
    <3> SUFFICES ASSUME NEW s \in Session
                 PROVE  Owed(s)' <=> Owed(s) /\ (s = s0 => Behind(s0))
      OBVIOUS
    <3>1. Owed(s)' <=> ackTable'[s].delay > 0 \/ Behind(s)
      <4> DEFINE Waits(i) == Upstream[i] = Ev("ACK", s)
                 len == Len(eveAkd)
      <4>1. Owed(s)' <=> \/ ackTable'[s].delay > 0
                         \/ \E i \in 1 .. len + 1 : Waits(i) /\ i # 1
        BY <1>1, <2>1, <2>2, HeldFirst DEF Owed
      <4>2. len \in Nat /\ \A i \in 1 .. len : Waits(i + 1) <=> eveAkd[i] = Ev("ACK", s)
        BY <1>1, HeldFirst
      <4>3. (\E i \in 1 .. len + 1 : Waits(i) /\ i # 1) <=> \E i \in 1 .. len : Waits(i + 1)
        <5> HIDE DEF Waits, len
        <5>1. ASSUME NEW i \in 1 .. len + 1, Waits(i), i # 1
              PROVE  \E j \in 1 .. len : Waits(j + 1)
          <6>1. i - 1 \in 1 .. len /\ (i - 1) + 1 = i
            BY <4>2, <5>1
          <6> QED
            BY <5>1, <6>1
        <5>2. \A j \in 1 .. len : j + 1 \in 1 .. len + 1 /\ j + 1 # 1
          BY <4>2
        <5> QED
          BY <5>1, <5>2
      <4>4. (\E i \in 1 .. len : Waits(i + 1)) <=> Behind(s)
        BY <4>2 DEF Behind
      <4> QED
        BY <4>1, <4>3, <4>4
    <3>2. CASE s = s0
      <4>1. ackTable'[s] = none
        BY <1>1, <2>1, <3>2
      <4>2. ~(ackTable'[s].delay > 0)
        BY <4>1
      <4> QED
        BY <2>5, <3>1, <3>2, <4>2
    <3>3. CASE s # s0
      <4>1. ackTable'[s] = ackTable[s]
        BY <1>1, <2>1, <3>3
      <4> QED
        BY <2>5, <3>1, <3>3, <4>1
    <3> QED
      BY <3>2, <3>3
  <2>7. CASE Owed(s0) /\ ~Behind(s0)
    <3>1. PlainOf(Upstream) = <<akdEv>> \o PlainOf(eveAkd)
      BY <1>3, <1>5, PlainOfFirst DEF IsPlain
    <3>2. PlainOf(Upstream) # <<>> /\ Head(PlainOf(Upstream)) = akdEv
      BY <1>1, <1>3, <3>1
    <3>3. \A s \in Session : Owed(s)' <=> Owed(s) /\ s # s0
      BY <2>6, <2>7
    <3>4. [s \in Session |-> Owed(s)]' = [[s \in Session |-> Owed(s)] EXCEPT ![s0] = FALSE]
      BY <1>1, <3>3 DEF Owed
    <3>5. [s \in Session |-> Owed(s)][s0]
      BY <1>1, <2>7
    <3>6. akdEv.type # "RST"
      BY <1>1 DEF Kind
    <3>7. Service!Absorb(s0)
      BY <1>1, <2>3, <3>2, <3>4, <3>5, <3>6 DEF Service!Absorb
    <3> QED
      BY <1>1, <3>7 DEF Service!Next
  <2>8. CASE ~(Owed(s0) /\ ~Behind(s0))
    <3>1. \A s \in Session : Owed(s)' <=> Owed(s)
      BY <2>6, <2>8
    <3>2. [s \in Session |-> Owed(s)]' = [s \in Session |-> Owed(s)]
      BY <3>1 DEF Owed
    <3> QED
      BY <1>1, <2>3, <3>2 DEF Service!vars
  <2> QED
    BY <2>7, <2>8
<1> QED
  BY <1>4, <1>5

\* AKd passes its event on: the service hands it over.
LEMMA HandOverMap ==
    ASSUME PathInv, AKdForward
    PROVE  Service!Next
<1>1. /\ akdPc = "forward" /\ akdPc' = "txSig" /\ UNCHANGED <<eveAkd, akdEv, ackTable>>
      /\ akdTxe' = Append(akdTxe, akdEv) /\ IsPlain(akdEv)
      /\ akdEv \in Event /\ eveAkd \in Seq(Event)
  BY DEF AKdForward, PathInv, TypeOK
<1>2. /\ Head(Upstream) = akdEv /\ Tail(Upstream) = eveAkd /\ Upstream # <<>>
      /\ Upstream \in Seq(Event) /\ PlainOf(eveAkd) \in Seq(Event)
  BY <1>1, HeldFirst, UpstreamType, PlainOfType
<1>3. PlainOf(Upstream) = <<akdEv>> \o PlainOf(eveAkd)
  BY <1>1, <1>2, PlainOfFirst
<1>4. /\ PlainOf(Upstream) # <<>> /\ Head(PlainOf(Upstream)) = akdEv
      /\ Tail(PlainOf(Upstream)) = PlainOf(eveAkd)
  BY <1>1, <1>2, <1>3
<1>5. Upstream' = eveAkd
  <2>1. Upstream' = <<>> \o eveAkd
    BY <1>1 DEF Upstream
  <2> QED
    BY <1>1, <2>1, ConcatEmptySeq
<1>6. PlainOf(Upstream)' = PlainOf(eveAkd)
  BY <1>5 DEF PlainOf
<1>7. \A s \in Session : Owed(s)' <=> Owed(s)
  <2> SUFFICES ASSUME NEW s \in Session
               PROVE  Owed(s)' <=> Owed(s)
    OBVIOUS
  <2>1. Owed(s) <=> ackTable[s].delay > 0 \/ Behind(s)
    BY <1>1, OwedHeld
  <2>2. DOMAIN eveAkd = 1 .. Len(eveAkd)
    BY <1>1
  <2>3. Owed(s)' <=> ackTable[s].delay > 0 \/ Behind(s)
    BY <1>1, <1>5, <2>2 DEF Owed, Behind
  <2> QED
    BY <2>1, <2>3
<1>8. [s \in Session |-> Owed(s)]' = [s \in Session |-> Owed(s)]
  BY <1>7 DEF Owed
<1>9. Service!HandOver
  BY <1>1, <1>4, <1>6, <1>8 DEF Service!HandOver
<1> QED
  BY <1>9 DEF Service!Next

\* AKd visits an entry of its table: the visit that ends a delay pays the ACK.
LEMMA ScanMap ==
    ASSUME PathInv, AKdScan
    PROVE  Service!Next \/ UNCHANGED Service!vars
<1>1. /\ akdPc = "run" /\ akdPc' \in {"run", "txSig"} /\ eveAkd = <<>>
      /\ UNCHANGED <<eveAkd, akdEv>>
      /\ akdPtr \in Session /\ ackTable \in [Session -> AckEntry]
      /\ ackTable[akdPtr].delay \in Nat
  <2>1. akdPtr \in Session /\ ackTable \in [Session -> AckEntry]
    BY DEF PathInv, TypeOK
  <2>2. ackTable[akdPtr] \in AckEntry
    BY <2>1
  <2>3. ackTable[akdPtr].delay \in Nat
    BY <2>2 DEF AckEntry
  <2> QED
    BY <2>1, <2>3 DEF AKdScan, AfterScan
<1>2. /\ Upstream = <<>> /\ Upstream' = <<>> /\ \A s \in Session : ~Behind(s)
      /\ \A s \in Session : Owed(s) <=> ackTable[s].delay > 0
      /\ \A s \in Session : Owed(s)' <=> ackTable'[s].delay > 0
  <2>1. Upstream = <<>>
    BY <1>1, OwedNotHeld, UpstreamType, ConcatEmptySeq DEF Held
  <2>2. Upstream' = Upstream
    BY <1>1 DEF Upstream
  <2>3. DOMAIN Upstream = {} /\ DOMAIN Upstream' = {}
    BY <2>1, <2>2
  <2>4. \A s \in Session : ~Behind(s)
    BY <1>1 DEF Behind
  <2> QED
    BY <2>1, <2>2, <2>3, <2>4 DEF Owed
<1>3. PlainOf(Upstream)' = PlainOf(Upstream)
  BY <1>2 DEF PlainOf
<1>4. CASE Fires
  <2>1. /\ ackTable[akdPtr].delay = 1
        /\ akdTxe' = Append(akdTxe, Ev("ACK", akdPtr))
        /\ ackTable' = [ackTable EXCEPT ![akdPtr].delay = @ - 1]
    BY <1>4 DEF AKdScan, Fires, Counts
  <2>2. \A s \in Session : Owed(s)' <=> Owed(s) /\ s # akdPtr
    <3> SUFFICES ASSUME NEW s \in Session
                 PROVE  Owed(s)' <=> Owed(s) /\ s # akdPtr
      OBVIOUS
    <3>1. CASE s = akdPtr
      <4>1. ackTable'[s] = [ackTable[s] EXCEPT !.delay = @ - 1]
        BY <1>1, <2>1, <3>1
      <4>2. ackTable[s] \in AckEntry
        BY <1>1
      <4>3. ackTable'[s].delay = ackTable[s].delay - 1
        BY <4>1, <4>2 DEF AckEntry
      <4>4. ~(ackTable'[s].delay > 0)
        BY <2>1, <3>1, <4>3
      <4> QED
        BY <1>2, <3>1, <4>4
    <3>2. CASE s # akdPtr
      <4>1. ackTable'[s] = ackTable[s]
        BY <1>1, <2>1, <3>2
      <4> QED
        BY <1>2, <3>2, <4>1
    <3> QED
      BY <3>1, <3>2
  <2>3. Owed(akdPtr)
    BY <1>1, <1>2, <2>1
  <2>4. /\ [s \in Session |-> Owed(s)]' = [[s \in Session |-> Owed(s)] EXCEPT ![akdPtr] = FALSE]
        /\ [s \in Session |-> Owed(s)][akdPtr]
    BY <1>1, <2>2, <2>3 DEF Owed
  <2>5. Service!PayAck(akdPtr)
    BY <1>3, <2>1, <2>4 DEF Service!PayAck, Ev
  <2> QED
    BY <1>1, <2>5 DEF Service!Next
<1>5. CASE ~Fires
  <2>1. akdTxe' = akdTxe
    BY <1>5 DEF AKdScan
  <2>2. \A s \in Session : Owed(s)' <=> Owed(s)
    <3> SUFFICES ASSUME NEW s \in Session
                 PROVE  Owed(s)' <=> Owed(s)
      OBVIOUS
    <3>1. CASE ~Counts \/ s # akdPtr
      <4>1. ackTable'[s] = ackTable[s]
        BY <1>1, <3>1 DEF AKdScan
      <4> QED
        BY <1>2, <4>1
    <3>2. CASE Counts /\ s = akdPtr
      <4>1. ackTable'[s] = [ackTable[s] EXCEPT !.delay = @ - 1]
        BY <1>1, <3>2 DEF AKdScan
      <4>2. ackTable[s] \in AckEntry /\ ackTable[s].delay \in Nat
        BY <1>1, <3>2
      <4>3. ackTable'[s].delay = ackTable[s].delay - 1
        BY <4>1, <4>2 DEF AckEntry
      <4>4. ackTable[s].delay > 0 /\ ackTable[s].delay # 1
        BY <1>5, <3>2 DEF Fires, Counts
      <4>5. ackTable'[s].delay > 0
        BY <4>2, <4>3, <4>4
      <4> QED
        BY <1>2, <4>4, <4>5
    <3> QED
      BY <3>1, <3>2
  <2>3. [s \in Session |-> Owed(s)]' = [s \in Session |-> Owed(s)]
    BY <2>2 DEF Owed
  <2> QED
    BY <1>3, <2>1, <2>3 DEF Service!vars
<1> QED
  BY <1>4, <1>5

\* Mdl takes an event that was handed over.
LEMMA TakeMap ==
    ASSUME MdlRead
    PROVE  Service!Next
<1>1. akdTxe # <<>> /\ akdTxe' = Tail(akdTxe) /\ UNCHANGED <<ackTable, eveAkd, akdPc, akdEv>>
  BY DEF MdlRead, akdVars
<1>2. Upstream' = Upstream
  BY <1>1 DEF Upstream
<1>3. PlainOf(Upstream)' = PlainOf(Upstream)
  BY <1>2 DEF PlainOf
<1>4. [s \in Session |-> Owed(s)]' = [s \in Session |-> Owed(s)]
  BY <1>1, <1>2 DEF Owed
<1>5. Service!Take
  BY <1>1, <1>3, <1>4 DEF Service!Take
<1> QED
  BY <1>5 DEF Service!Next

LEMMA NextMaps ==
    ASSUME NoReset, PathInv, [Next]_vars
    PROVE  Service!Next \/ UNCHANGED Service!vars
<1>1. PathInv'
  BY NextPath
<1>2. CASE \/ \E e \in RxeEvent : RXePost(e)
           \/ \E e \in TimEvent : TImPost(e)
           \/ \E e \in TaiEvent : TAiPost(e)
  BY <1>2, StillMap DEF RXePost, TImPost, TAiPost, akdVars
<1>3. CASE EVeForwardRXe
  <2>1. Head(rxeEve) \in Kind
    BY <1>3 DEF EVeForwardRXe, TakeRXe, PathInv
  <2> QED
    BY <1>3, <2>1, ForwardMap DEF EVeForwardRXe, akdVars
<1>4. CASE EVeForwardTIm
  <2>1. Head(timEve) \in Kind
    BY <1>4 DEF EVeForwardTIm, PathInv
  <2> QED
    BY <1>4, <2>1, ForwardMap DEF EVeForwardTIm, akdVars
<1>5. CASE EVeForwardTAi
  <2>1. Head(taiEve) \in Kind
    BY <1>5 DEF EVeForwardTAi, PathInv
  <2> QED
    BY <1>5, <2>1, ForwardMap DEF EVeForwardTAi, akdVars
<1>6. CASE EVeIdle
  BY <1>6, StillMap DEF EVeIdle, akdVars
<1>7. CASE AKdRead
  BY <1>7, ReadMap
<1>8. CASE AKdSignalRx
  BY <1>1, <1>8, SignalMap
<1>9. CASE AKdForward
  BY <1>9, HandOverMap
<1>10. CASE AKdSignalTx
  <2>1. Held' = Held /\ UNCHANGED <<akdTxe, ackTable, eveAkd, akdEv>>
    BY <1>10 DEF AKdSignalTx, Held
  <2>2. Upstream' = Upstream
    BY <2>1 DEF Upstream, Held
  <2>3. PlainOf(Upstream)' = PlainOf(Upstream)
    BY <2>2 DEF PlainOf
  <2>4. [s \in Session |-> Owed(s)]' = [s \in Session |-> Owed(s)]
    BY <1>10, <2>1, <2>2 DEF AKdSignalTx, Owed
  <2> QED
    BY <2>1, <2>3, <2>4 DEF Service!vars
<1>11. CASE AKdScan
  BY <1>11, ScanMap
<1>12. CASE MdlRead
  BY <1>12, TakeMap
<1>13. CASE MdlSignal \/ MdlProcess
  BY <1>13, StillMap DEF MdlSignal, MdlProcess, akdVars
<1>14. CASE UNCHANGED vars
  BY <1>14, StillMap DEF vars, akdVars
<1> QED
  BY <1>2, <1>3, <1>4, <1>5, <1>6, <1>7, <1>8, <1>9, <1>10, <1>11, <1>12, <1>13, <1>14
     DEF Next, EVe, AKd, Mdl

LEMMA InitMaps == Init => Service!Init
<1> SUFFICES ASSUME Init
             PROVE  Service!Init
  OBVIOUS
<1>1. /\ Upstream = <<>> \o <<>> /\ eveAkd = <<>> /\ akdTxe = <<>>
      /\ \A s \in Session : ackTable[s].delay = 0
  BY DEF Init, Upstream
<1>2. Upstream = <<>> /\ DOMAIN Upstream = {}
  BY <1>1
<1>3. \A s \in Session : Owed(s) = FALSE
  BY <1>1, <1>2 DEF Owed
<1>4. PlainOf(Upstream) = <<>>
  BY <1>2, PlainOfType
<1> QED
  BY <1>1, <1>3, <1>4 DEF Service!Init

\* EVe and AKd implement EventService as long as no reset is among the events:
\* nothing but ACK_EVENTs is held back, dropped, doubled or overtaken, and an
\* ACK is paid once, by itself or with the session's next event
\* (event_engine.cpp and ack_delay.cpp).
THEOREM ServiceImplemented == NoReset => (Spec => ImplementsService)
<1> SUFFICES ASSUME NoReset
             PROVE  Spec => ImplementsService
  OBVIOUS
<1>1. Init => PathInv
  BY InitPath
<1>2. PathInv /\ [Next]_vars => PathInv'
  BY NextPath
<1>3. PathInv /\ [Next]_vars => [Service!Next]_(Service!vars)
  BY NextMaps
<1> QED
  BY <1>1, <1>2, <1>3, InitMaps, PTL DEF Spec, ImplementsService, Service!Safety
=============================================================================
