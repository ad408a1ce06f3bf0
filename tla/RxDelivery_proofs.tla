-------------------------- MODULE RxDelivery_proofs --------------------------
(***************************************************************************)
(* What RXe acknowledges has been kept, for every size of the buffer, of   *)
(* the segments and of the streams, and however many segments arrive in    *)
(* whatever order.                                                         *)
(*                                                                         *)
(* RXe compares sequence numbers as plain unsigned integers, so the        *)
(* theorem is about a stream whose sequence numbers do not wrap.           *)
(***************************************************************************)
EXTENDS RxDelivery, WellFoundedInduction, TLAPS

----------------------------------------------------------------------------
(***************************************************************************)
(* Induction and recursion along an interval, in first-order form (the     *)
(* induction hypothesis is a set, the step of a recursion a function).     *)
(***************************************************************************)

\* A non-empty set of natural numbers has a least element.
LEMMA LeastNat ==
    ASSUME NEW T, T \subseteq Nat, T # {}
    PROVE  \E x \in T : \A y \in T : x <= y
<1> DEFINE Below == {ss \in Nat \X Nat : ss[1] < ss[2]}
<1>1. IsWellFoundedOn(Below, Nat)
  BY NatLessThanWellFounded, Zenon DEF OpToRel
<1>2. PICK x \in T : \A y \in T : ~(<<y, x>> \in Below)
  BY <1>1, WFMin
<1>3. ASSUME NEW y \in T
      PROVE  x <= y
  <2>1. <<y, x>> \in Nat \X Nat
    OBVIOUS
  <2>2. ~(y < x)
    BY <1>2, <2>1
  <2> QED
    BY <2>2
<1> QED
  BY <1>3

\* Induction from 0 to N.
LEMMA IntervalInduction ==
    ASSUME NEW N \in Nat, NEW S, 0 \in S,
           \A n \in 0 .. N - 1 : n \in S => n + 1 \in S
    PROVE  \A n \in 0 .. N : n \in S
<1> DEFINE T == {n \in 0 .. N : n \notin S}
<1> SUFFICES ASSUME T # {}
             PROVE  FALSE
  OBVIOUS
<1>1. PICK x \in T : \A y \in T : x <= y
  <2>1. T \subseteq Nat
    OBVIOUS
  <2> HIDE DEF T
  <2> QED
    BY <2>1, LeastNat
<1>2. x # 0 /\ x \in 1 .. N
  BY <1>1
<1>3. x - 1 \in 0 .. N - 1 /\ x - 1 \notin T
  BY <1>1, <1>2
<1>4. x - 1 \in S
  BY <1>2, <1>3
<1>5. (x - 1) + 1 \in S
  BY <1>3, <1>4
<1> QED
  BY <1>2, <1>5

\* A recursion along 1 .. N has a solution.
Solvable(N, V, init, step) ==
    \E f \in [0 .. N -> V] :
       f[0] = init /\ \A n \in 1 .. N : f[n] = step[<<n, f[n - 1]>>]

LEMMA IntervalRecursion ==
    ASSUME NEW N \in Nat, NEW V, NEW init \in V,
           NEW step \in [(1 .. N) \X V -> V]
    PROVE  Solvable(N, V, init, step)
<1> DEFINE Solves(f, m) == /\ f \in [0 .. m -> V] /\ f[0] = init
                           /\ \A n \in 1 .. m : f[n] = step[<<n, f[n - 1]>>]
           S == {m \in 0 .. N : \E f : Solves(f, m)}
<1>1. 0 \in S
  <2>1. Solves([n \in 0 .. 0 |-> init], 0)
    OBVIOUS
  <2> HIDE DEF Solves
  <2>2. \E f : Solves(f, 0)
    BY <2>1
  <2> QED
    BY <2>2
<1>2. ASSUME NEW m \in 0 .. N - 1, m \in S
      PROVE  m + 1 \in S
  <2>1. PICK f : Solves(f, m)
    BY <1>2
  <2> DEFINE last == step[<<m + 1, f[m]>>]
             g    == [n \in 0 .. m + 1 |-> IF n = m + 1 THEN last ELSE f[n]]
  <2>2. f[m] \in V /\ last \in V
    BY <2>1
  <2>3. g \in [0 .. m + 1 -> V] /\ g[0] = init
    BY <2>1, <2>2
  <2>4. ASSUME NEW n \in 1 .. m + 1
        PROVE  g[n] = step[<<n, g[n - 1]>>]
    <3>1. CASE n = m + 1
      <4>1. g[m + 1] = last /\ g[m] = f[m]
        OBVIOUS
      <4>2. (m + 1) - 1 = m
        OBVIOUS
      <4> QED
        BY <3>1, <4>1, <4>2
    <3>2. CASE n # m + 1
      BY <2>1, <3>2
    <3> QED
      BY <3>1, <3>2
  <2>5. Solves(g, m + 1)
    BY <2>3, <2>4
  <2> HIDE DEF g
  <2> QED
    BY <2>5
<1> HIDE DEF S
<1>3. N \in S
  BY <1>1, <1>2, IntervalInduction
<1> USE DEF S
<1>4. PICK f : Solves(f, N)
  BY <1>3
<1> QED
  BY <1>4 DEF Solvable

----------------------------------------------------------------------------
(***************************************************************************)
(* Remainders.                                                             *)
(***************************************************************************)

\* Quotient and remainder, which is the only one there is.
LEMMA DivMod ==
    ASSUME NEW n \in Nat \ {0}, NEW a \in Int
    PROVE  a % n \in 0 .. n - 1 /\ a \div n \in Int /\ a = n * (a \div n) + (a % n)
<1>1. a % n \in 0 .. n - 1
  OBVIOUS
<1>2. a \div n \in Int
  OBVIOUS
<1>3. a = n * (a \div n) + (a % n)
  OBVIOUS
<1> QED
  BY <1>1, <1>2, <1>3

LEMMA ModOne ==
    ASSUME NEW n \in Nat \ {0}, NEW q \in Int, NEW p \in Int,
           NEW r \in 0 .. n - 1, NEW s \in 0 .. n - 1, n * q + r = n * p + s
    PROVE  r = s
<1>1. n * (q - p) = s - r /\ q - p \in Int
  OBVIOUS
<1>2. CASE q = p
  BY <1>2
<1>3. CASE q > p
  <2>1. q - p >= 1
    BY <1>3
  <2>2. n * (q - p) >= n
    BY <2>1
  <2> QED
    BY <1>1, <2>2
<1>4. CASE q < p
  <2>1. p - q >= 1 /\ p - q \in Int
    BY <1>4
  <2>2. n * (p - q) >= n
    BY <2>1
  <2>3. n * (p - q) = r - s
    OBVIOUS
  <2> QED
    BY <2>2, <2>3
<1> QED
  BY <1>2, <1>3, <1>4

LEMMA ModIs ==
    ASSUME NEW n \in Nat \ {0}, NEW a \in Int, NEW q \in Int, NEW r \in 0 .. n - 1, a = n * q + r
    PROVE  a % n = r
<1>1. a % n \in 0 .. n - 1 /\ a \div n \in Int /\ a = n * (a \div n) + (a % n)
  BY DivMod
<1>2. PICK p, s : p = a \div n /\ s = a % n
  OBVIOUS
<1>3. n * q + r = n * p + s /\ p \in Int /\ s \in 0 .. n - 1
  BY <1>1, <1>2
<1> QED
  BY <1>2, <1>3, ModOne

\* Two numbers that are less than n apart have different remainders.
LEMMA ModDiffer ==
    ASSUME NEW n \in Nat \ {0}, NEW a \in Int, NEW b \in Int, a < b, b - a < n
    PROVE  a % n # b % n
<1> SUFFICES ASSUME a % n = b % n
             PROVE  FALSE
  OBVIOUS
<1>1. PICK q, p, r : /\ q \in Int /\ p \in Int /\ r \in Int
                     /\ a = n * q + r /\ b = n * p + r
  <2>1. a % n \in Int /\ a \div n \in Int /\ a = n * (a \div n) + (a % n)
    BY DivMod
  <2>2. b \div n \in Int /\ b = n * (b \div n) + (b % n)
    BY DivMod
  <2> QED
    BY <2>1, <2>2
<1>2. n * (p - q) = b - a /\ p - q \in Int
  BY <1>1
<1>3. CASE p <= q
  <2>1. n * (q - p) >= 0
    BY <1>1, <1>3
  <2>2. n * (q - p) = a - b
    BY <1>1
  <2> QED
    BY <2>1, <2>2
<1>4. CASE p > q
  <2>1. p - q >= 1
    BY <1>1, <1>4
  <2>2. n * (p - q) >= n
    BY <1>2, <2>1
  <2> QED
    BY <1>2, <2>2
<1> QED
  BY <1>1, <1>3, <1>4

\* A remainder may be taken before and after an addition.
LEMMA ModAdd ==
    ASSUME NEW n \in Nat \ {0}, NEW a \in Int, NEW d \in Int
    PROVE  ((a % n) + d) % n = (a + d) % n
<1>1. PICK q, r : q \in Int /\ r \in Int /\ a = n * q + r /\ a % n = r
  <2>1. a % n \in 0 .. n - 1 /\ a \div n \in Int /\ a = n * (a \div n) + (a % n)
    BY DivMod
  <2>2. a % n \in Int
    BY <2>1
  <2> QED
    BY <2>1, <2>2
<1>2. PICK p, s : p \in Int /\ s \in 0 .. n - 1 /\ r + d = n * p + s /\ (r + d) % n = s
  <2>1. PICK e : e = r + d
    OBVIOUS
  <2>2. e \in Int
    BY <1>1, <2>1
  <2>3. e % n \in 0 .. n - 1 /\ e \div n \in Int /\ e = n * (e \div n) + (e % n)
    BY <2>2, DivMod
  <2> QED
    BY <2>1, <2>3
<1>3. PICK k, e : k = q + p /\ e = a + d
  OBVIOUS
<1>4. k \in Int /\ e \in Int /\ e = n * k + s
  BY <1>1, <1>2, <1>3
<1>5. e % n = s
  BY <1>2, <1>4, ModIs
<1> QED
  BY <1>1, <1>2, <1>3, <1>5

\* Below the next multiple of n the remainder grows with the number.
LEMMA ModNear ==
    ASSUME NEW n \in Nat \ {0}, NEW a \in Int, NEW d \in Nat, (a % n) + d < n
    PROVE  (a + d) % n = (a % n) + d
<1>1. PICK q, r : q \in Int /\ r \in 0 .. n - 1 /\ a = n * q + r /\ a % n = r
  BY DivMod
<1>2. a + d = n * q + (r + d) /\ r + d \in 0 .. n - 1
  BY <1>1
<1> QED
  BY <1>1, <1>2, ModIs

----------------------------------------------------------------------------

NoWrap == Isn + MaxPos < SeqMod

\* An entry of RX_SAR_TABLE stands for the position rc up to which everything
\* has been received, and one block of kept bytes beyond it.
Block(r) == r.oooTail - Isn .. r.oooHead - Isn - 1

EntryOK(r, rc) ==
    /\ r.rcvd = Isn + rc /\ r.ooo \in BOOLEAN
    /\ r.ooo => /\ r.oooTail \in Int /\ r.oooHead \in Int
                /\ Isn + rc < r.oooTail /\ r.oooTail < r.oooHead
                /\ r.oooHead <= Isn + MaxPos

\* A segment within the bytes the peer sends.
Sent(seg) == seg \in Segment /\ seg.pos + seg.len <= MaxPos

SameBlock(q, r) ==
    q.rcvd = r.rcvd /\ q.ooo = r.ooo /\ q.oooHead = r.oooHead /\ q.oooTail = r.oooTail

\* Between its two steps Fsm works with what RSt has: only 'appd' moves.
KeptInv ==
    /\ rcvd \in Position
    /\ DOMAIN sar = {"appd", "rcvd", "ooo", "oooHead", "oooTail"}
    /\ EntryOK(sar, rcvd)
    /\ \A p \in 0 .. rcvd - 1 : p \in kept
    /\ sar.ooo => \A p \in Block(sar) : p \in kept
    /\ fsm.pc = "transition" => Sent(fsm.seg) /\ SameBlock(fsm.sar, sar)

LEMMA ConstantTypes ==
    ASSUME NoWrap
    PROVE  /\ SeqMod \in Nat \ {0} /\ Isn \in Nat /\ MaxPos \in Nat /\ MaxLen \in Nat
           /\ \A s \in 0 .. Isn + MaxPos : s % SeqMod = s
           /\ \A p \in Position : SeqOf(p) = Isn + p
<1>1. /\ SeqMod \in Nat \ {0} /\ Isn \in Nat /\ MaxPos \in Nat /\ MaxLen \in Nat
  BY RxAssumption
<1>2. \A s \in 0 .. SeqMod - 1 : s % SeqMod = s
  BY <1>1
<1>3. \A s \in 0 .. Isn + MaxPos : s % SeqMod = s
  BY <1>1, <1>2 DEF NoWrap
<1> QED
  BY <1>1, <1>3 DEF SeqOf, Position

\* What the state machine makes of a segment, case by case.
OutcomeIs(o, seg, r, rc) ==
    LET end == Isn + seg.pos + seg.len IN
    \/ ~o.keep
    \/ /\ seg.pos = rc /\ o.new.ooo = FALSE /\ o.new.rcvd = end
    \/ /\ seg.pos > rc /\ o.new.ooo = TRUE /\ o.new.rcvd = r.rcvd
       /\ o.new.oooTail = Isn + seg.pos /\ o.new.oooHead = end
    \/ /\ r.ooo /\ Isn + seg.pos = r.oooHead /\ o.new.ooo = TRUE /\ o.new.rcvd = r.rcvd
       /\ o.new.oooTail = r.oooTail /\ o.new.oooHead = end
    \/ /\ r.ooo /\ seg.pos = rc /\ end < r.oooTail
       /\ o.new.ooo = TRUE /\ o.new.rcvd = end
       /\ o.new.oooTail = r.oooTail /\ o.new.oooHead = r.oooHead
    \/ /\ r.ooo /\ seg.pos = rc /\ end = r.oooTail
       /\ o.new.ooo = FALSE /\ o.new.rcvd = r.oooHead

LEMMA OutcomeCases ==
    ASSUME NoWrap, NEW rc \in Position, NEW r, EntryOK(r, rc),
           NEW seg, Sent(seg)
    PROVE  OutcomeIs(Outcome(SeqOf(seg.pos), seg.len, r), seg, r, rc)
<1> DEFINE seq  == Isn + seg.pos
           end  == seq + seg.len
           free == FreeSpace(r)
           Query(q, ooo, head, tail) ==
               [rcvd |-> q, ooo |-> ooo, oooHead |-> head, oooTail |-> tail]
           Keep(q, n) == [keep |-> TRUE, new |-> q, notify |-> n]
           o    == Outcome(seq, seg.len, r)
           C1   == ~r.ooo /\ seq = r.rcvd /\ free > seg.len
           C2   == ~r.ooo /\ seq > r.rcvd /\ free > Minus(end, r.oooHead, BufSize)
           C3   == r.ooo /\ seq = r.oooHead /\ free > seg.len
           C4   == r.ooo /\ seq = r.rcvd /\ seq # r.oooHead /\ end < r.oooTail
           C5   == r.ooo /\ seq = r.rcvd /\ seq # r.oooHead /\ end = r.oooTail
<1>1. /\ SeqMod \in Nat \ {0} /\ Isn \in Nat /\ MaxPos \in Nat
      /\ seg.pos \in Position /\ seg.len \in Nat /\ seg.pos + seg.len <= MaxPos
      /\ seg.len > 0
  BY ConstantTypes DEF Sent, Segment
<1>2. SeqOf(seg.pos) = seq /\ end % SeqMod = end
  BY <1>1, ConstantTypes DEF Position
<1>3. o = CASE C1 -> Keep(Query(end % SeqMod, FALSE, end % SeqMod, end % SeqMod), seg.len)
            [] C2 -> Keep(Query(r.rcvd, TRUE, end % SeqMod, seq), 0)
            [] C3 -> Keep(Query(r.rcvd, TRUE, end % SeqMod, r.oooTail), 0)
            [] C4 -> Keep(Query(end % SeqMod, TRUE, r.oooHead, r.oooTail), seg.len)
            [] C5 -> Keep(Query(r.oooHead, FALSE, r.oooHead, r.oooHead), FilledLength(seg.len, r))
            [] OTHER -> [keep |-> FALSE,
                         new |-> Query(r.rcvd, r.ooo, r.oooHead, r.oooTail), notify |-> 0]
  BY DEF Outcome, Extends
<1> SUFFICES OutcomeIs(o, seg, r, rc)
  BY <1>2
<1>4. /\ rc \in Int /\ r.rcvd = Isn + rc /\ r.ooo \in BOOLEAN
      /\ end \in Int /\ seq \in Int /\ seg.pos \in Int /\ Isn \in Int
      /\ r.ooo => r.oooTail \in Int /\ r.oooHead \in Int
  BY <1>1 DEF Position, EntryOK
<1>5. CASE C1
  <2>1. o = Keep(Query(end % SeqMod, FALSE, end % SeqMod, end % SeqMod), seg.len)
    BY <1>3, <1>4, <1>5
  <2>2. o.new.rcvd = end /\ o.new.ooo = FALSE
    BY <1>2, <2>1
  <2> QED
    BY <1>1, <1>4, <1>5, <2>2 DEF OutcomeIs
<1>6. CASE C2
  <2>1. o = Keep(Query(r.rcvd, TRUE, end % SeqMod, seq), 0)
    BY <1>3, <1>4, <1>6
  <2>2. /\ o.new.rcvd = r.rcvd /\ o.new.ooo = TRUE /\ o.new.oooHead = end /\ o.new.oooTail = seq
    BY <1>2, <2>1
  <2> QED
    BY <1>1, <1>4, <1>6, <2>2 DEF OutcomeIs
<1>7. CASE C3
  <2>1. o = Keep(Query(r.rcvd, TRUE, end % SeqMod, r.oooTail), 0)
    BY <1>3, <1>4, <1>7
  <2>2. o.new.rcvd = r.rcvd /\ o.new.ooo = TRUE /\ o.new.oooHead = end /\ o.new.oooTail = r.oooTail
    BY <1>2, <2>1
  <2> QED
    BY <1>1, <1>4, <1>7, <2>2 DEF OutcomeIs
<1>8. CASE C4
  <2>1. o = Keep(Query(end % SeqMod, TRUE, r.oooHead, r.oooTail), seg.len)
    BY <1>3, <1>4, <1>8
  <2>2. o.new.rcvd = end /\ o.new.ooo = TRUE /\ o.new.oooHead = r.oooHead /\ o.new.oooTail = r.oooTail
    BY <1>2, <2>1
  <2> QED
    BY <1>1, <1>4, <1>8, <2>2 DEF OutcomeIs
<1>9. CASE C5
  <2>1. o = Keep(Query(r.oooHead, FALSE, r.oooHead, r.oooHead), FilledLength(seg.len, r))
    BY <1>3, <1>4, <1>9
  <2>2. o.new.rcvd = r.oooHead /\ o.new.ooo = FALSE
    BY <2>1
  <2> QED
    BY <1>1, <1>4, <1>9, <2>2 DEF OutcomeIs
<1>10. CASE ~(C1 \/ C2 \/ C3 \/ C4 \/ C5)
  <2>1. ~o.keep
    BY <1>3, <1>10
  <2> QED
    BY <2>1 DEF OutcomeIs
<1> QED
  BY <1>5, <1>6, <1>7, <1>8, <1>9, <1>10

LEMMA MinusOf ==
    ASSUME NoWrap, NEW a \in 0 .. Isn + MaxPos, NEW b \in 0 .. Isn + MaxPos, b <= a
    PROVE  Minus(a, b, SeqMod) = a - b
BY ConstantTypes DEF Minus

\* The pointers and the set of kept bytes after a segment has been kept.
LEMMA KeepStep ==
    ASSUME NoWrap, KeptInv, NEW seg, Sent(seg), NEW o, NEW rcv,
           OutcomeIs(o, seg, sar, rcvd), o.keep,
           rcv = rcvd + Minus(o.new.rcvd, sar.rcvd, SeqMod)
    PROVE  /\ rcv \in Position /\ EntryOK(o.new, rcv)
           /\ \A p \in 0 .. rcv - 1 : p \in kept \cup Positions(seg)
           /\ o.new.ooo => \A p \in Block(o.new) : p \in kept \cup Positions(seg)
<1> DEFINE end == Isn + seg.pos + seg.len
<1>1. /\ Isn \in Nat /\ MaxPos \in Nat /\ rcvd \in Nat /\ rcvd <= MaxPos
      /\ seg.pos \in Nat /\ seg.len \in Nat /\ seg.len > 0 /\ seg.pos + seg.len <= MaxPos
      /\ Positions(seg) = seg.pos .. seg.pos + seg.len - 1
  BY ConstantTypes DEF KeptInv, Position, Sent, Segment, Positions
<1>2. /\ sar.rcvd = Isn + rcvd /\ sar.rcvd \in Int /\ sar.rcvd <= Isn + MaxPos
      /\ sar.ooo \in BOOLEAN
      /\ sar.ooo => /\ sar.oooTail \in Int /\ sar.oooHead \in Int
                    /\ Isn + rcvd < sar.oooTail /\ sar.oooTail < sar.oooHead
                    /\ sar.oooHead <= Isn + MaxPos
      /\ \A p \in 0 .. rcvd - 1 : p \in kept
      /\ sar.ooo => \A p \in sar.oooTail - Isn .. sar.oooHead - Isn - 1 : p \in kept
  BY <1>1 DEF KeptInv, EntryOK, Block
<1>3. CASE seg.pos = rcvd /\ o.new.ooo = FALSE /\ o.new.rcvd = end
  <2>1. o.new.rcvd \in 0 .. Isn + MaxPos /\ sar.rcvd <= o.new.rcvd
    BY <1>1, <1>2, <1>3
  <2>2. rcv = seg.pos + seg.len /\ rcv \in Position
    <3>1. sar.rcvd \in 0 .. Isn + MaxPos
      BY <1>1, <1>2
    <3>2. rcv = rcvd + (o.new.rcvd - sar.rcvd)
      BY <2>1, <3>1, MinusOf
    <3> QED
      BY <1>1, <1>2, <1>3, <3>2 DEF Position
  <2>3. EntryOK(o.new, rcv)
    <3>1. o.new.rcvd = Isn + rcv
      BY <1>1, <1>2, <1>3, <2>2
    <3>2. o.new.ooo \in BOOLEAN
      BY <1>3
    <3>3. o.new.ooo => /\ o.new.oooTail \in Int /\ o.new.oooHead \in Int
                       /\ Isn + rcv < o.new.oooTail /\ o.new.oooTail < o.new.oooHead
                       /\ o.new.oooHead <= Isn + MaxPos
      BY <1>1, <1>2, <1>3, <2>2
    <3> QED
      BY <3>1, <3>2, <3>3 DEF EntryOK
  <2>4. \A p \in 0 .. rcv - 1 : p \in kept \cup Positions(seg)
    BY <1>1, <1>2, <1>3, <2>2
  <2> QED
    BY <1>3, <2>2, <2>3, <2>4
<1>4. CASE /\ seg.pos > rcvd /\ o.new.ooo = TRUE /\ o.new.rcvd = sar.rcvd
           /\ o.new.oooTail = Isn + seg.pos /\ o.new.oooHead = end
  <2>1. o.new.rcvd \in 0 .. Isn + MaxPos /\ sar.rcvd <= o.new.rcvd
    BY <1>1, <1>2, <1>4
  <2>2. rcv = rcvd /\ rcv \in Position
    <3>1. sar.rcvd \in 0 .. Isn + MaxPos
      BY <1>1, <1>2
    <3>2. rcv = rcvd + (o.new.rcvd - sar.rcvd)
      BY <2>1, <3>1, MinusOf
    <3> QED
      BY <1>1, <1>2, <1>4, <3>2 DEF Position
  <2>3. EntryOK(o.new, rcv)
    <3>1. o.new.rcvd = Isn + rcv
      BY <1>1, <1>2, <1>4, <2>2
    <3>2. o.new.ooo \in BOOLEAN
      BY <1>4
    <3>3. o.new.ooo => /\ o.new.oooTail \in Int /\ o.new.oooHead \in Int
                       /\ Isn + rcv < o.new.oooTail /\ o.new.oooTail < o.new.oooHead
                       /\ o.new.oooHead <= Isn + MaxPos
      BY SMTT(40), <1>1, <1>2, <1>4, <2>2
    <3> QED
      BY <3>1, <3>2, <3>3 DEF EntryOK
  <2>4. \A p \in 0 .. rcv - 1 : p \in kept \cup Positions(seg)
    BY <1>1, <1>2, <1>4, <2>2
  <2>5. \A p \in Block(o.new) : p \in kept \cup Positions(seg)
    BY <1>1, <1>2, <1>4 DEF Block
  <2> QED
    BY <2>2, <2>3, <2>4, <2>5
<1>5. CASE /\ sar.ooo /\ Isn + seg.pos = sar.oooHead /\ o.new.ooo = TRUE
           /\ o.new.rcvd = sar.rcvd
           /\ o.new.oooTail = sar.oooTail /\ o.new.oooHead = end
  <2>1. o.new.rcvd \in 0 .. Isn + MaxPos /\ sar.rcvd <= o.new.rcvd
    BY <1>1, <1>2, <1>5
  <2>2. rcv = rcvd /\ rcv \in Position
    <3>1. sar.rcvd \in 0 .. Isn + MaxPos
      BY <1>1, <1>2
    <3>2. rcv = rcvd + (o.new.rcvd - sar.rcvd)
      BY <2>1, <3>1, MinusOf
    <3> QED
      BY <1>1, <1>2, <1>5, <3>2 DEF Position
  <2>3. EntryOK(o.new, rcv)
    <3>1. o.new.rcvd = Isn + rcv
      BY <1>1, <1>2, <1>5, <2>2
    <3>2. o.new.ooo \in BOOLEAN
      BY <1>5
    <3>3. o.new.ooo => /\ o.new.oooTail \in Int /\ o.new.oooHead \in Int
                       /\ Isn + rcv < o.new.oooTail /\ o.new.oooTail < o.new.oooHead
                       /\ o.new.oooHead <= Isn + MaxPos
      BY <1>1, <1>2, <1>5, <2>2, SMTT(60)
    <3> QED
      BY <3>1, <3>2, <3>3 DEF EntryOK
  <2>4. \A p \in 0 .. rcv - 1 : p \in kept \cup Positions(seg)
    BY <1>1, <1>2, <1>5, <2>2
  <2>5. \A p \in Block(o.new) : p \in kept \cup Positions(seg)
    <3>0. Block(o.new) = sar.oooTail - Isn .. seg.pos + seg.len - 1
      <4>1. Block(o.new) = sar.oooTail - Isn .. end - Isn - 1
        BY <1>5 DEF Block
      <4>2. end - Isn - 1 = seg.pos + seg.len - 1
        BY <1>1
      <4> QED
        BY <4>1, <4>2
    <3> SUFFICES ASSUME NEW p \in sar.oooTail - Isn .. seg.pos + seg.len - 1
                 PROVE  p \in kept \cup Positions(seg)
      BY <3>0
    <3>1. CASE p < seg.pos
      BY <1>1, <1>2, <1>5, <3>1
    <3>2. CASE ~(p < seg.pos)
      BY <1>1, <1>2, <1>5, <3>2
    <3> QED
      BY <3>1, <3>2
  <2> QED
    BY <2>2, <2>3, <2>4, <2>5
<1>6. CASE /\ sar.ooo /\ seg.pos = rcvd /\ end < sar.oooTail
           /\ o.new.ooo = TRUE /\ o.new.rcvd = end
           /\ o.new.oooTail = sar.oooTail /\ o.new.oooHead = sar.oooHead
  <2>1. o.new.rcvd \in 0 .. Isn + MaxPos /\ sar.rcvd <= o.new.rcvd
    BY <1>1, <1>2, <1>6
  <2>2. rcv = seg.pos + seg.len /\ rcv \in Position
    <3>1. sar.rcvd \in 0 .. Isn + MaxPos
      BY <1>1, <1>2
    <3>2. rcv = rcvd + (o.new.rcvd - sar.rcvd)
      BY <2>1, <3>1, MinusOf
    <3> QED
      BY <1>1, <1>2, <1>6, <3>2 DEF Position
  <2>3. EntryOK(o.new, rcv)
    <3>1. o.new.rcvd = Isn + rcv
      BY <1>1, <1>2, <1>6, <2>2
    <3>2. o.new.ooo \in BOOLEAN
      BY <1>6
    <3>3. o.new.ooo => /\ o.new.oooTail \in Int /\ o.new.oooHead \in Int
                       /\ Isn + rcv < o.new.oooTail /\ o.new.oooTail < o.new.oooHead
                       /\ o.new.oooHead <= Isn + MaxPos
      BY <1>1, <1>2, <1>6, <2>2
    <3> QED
      BY <3>1, <3>2, <3>3 DEF EntryOK
  <2>4. \A p \in 0 .. rcv - 1 : p \in kept \cup Positions(seg)
    BY <1>1, <1>2, <1>6, <2>2
  <2>5. \A p \in Block(o.new) : p \in kept \cup Positions(seg)
    BY <1>1, <1>2, <1>6 DEF Block
  <2> QED
    BY <2>2, <2>3, <2>4, <2>5
<1>7. CASE /\ sar.ooo /\ seg.pos = rcvd /\ end = sar.oooTail
           /\ o.new.ooo = FALSE /\ o.new.rcvd = sar.oooHead
  <2>1. o.new.rcvd \in 0 .. Isn + MaxPos /\ sar.rcvd <= o.new.rcvd
    BY <1>1, <1>2, <1>7
  <2>2. rcv = sar.oooHead - Isn /\ rcv \in Position
    <3>1. sar.rcvd \in 0 .. Isn + MaxPos
      BY <1>1, <1>2
    <3>2. rcv = rcvd + (o.new.rcvd - sar.rcvd)
      BY <2>1, <3>1, MinusOf
    <3> QED
      BY <1>1, <1>2, <1>7, <3>2, SMTT(60) DEF Position
  <2>3. EntryOK(o.new, rcv)
    <3>1. o.new.rcvd = Isn + rcv
      BY <1>1, <1>2, <1>7, <2>2
    <3>2. o.new.ooo \in BOOLEAN
      BY <1>7
    <3>3. o.new.ooo => /\ o.new.oooTail \in Int /\ o.new.oooHead \in Int
                       /\ Isn + rcv < o.new.oooTail /\ o.new.oooTail < o.new.oooHead
                       /\ o.new.oooHead <= Isn + MaxPos
      BY <1>1, <1>2, <1>7, <2>2
    <3> QED
      BY <3>1, <3>2, <3>3 DEF EntryOK
  <2>4. \A p \in 0 .. rcv - 1 : p \in kept \cup Positions(seg)
    BY <1>1, <1>2, <1>7, <2>2, SMTT(60)
  <2> QED
    BY <1>7, <2>2, <2>3, <2>4
<1> QED
  BY <1>3, <1>4, <1>5, <1>6, <1>7 DEF OutcomeIs

LEMMA TransitionKept ==
    ASSUME NoWrap, KeptInv, FsmTransition
    PROVE  KeptInv'
<1> DEFINE seg == fsm.seg
           o   == Outcome(SeqOf(seg.pos), seg.len, fsm.sar)
<1>1. /\ fsm' = [pc |-> "load"]
      /\ \/ /\ o.keep
            /\ sar' = [appd |-> sar.appd, rcvd |-> o.new.rcvd, ooo |-> o.new.ooo,
                       oooHead |-> o.new.oooHead, oooTail |-> o.new.oooTail]
            /\ rcvd' = rcvd + Minus(o.new.rcvd, fsm.sar.rcvd, SeqMod)
            /\ kept' = kept \cup Positions(seg)
         \/ UNCHANGED <<sar, rcvd, kept>>
  BY DEF FsmTransition
<1>2. Sent(seg) /\ SameBlock(fsm.sar, sar)
  BY DEF FsmTransition, KeptInv
<1>3. EntryOK(fsm.sar, rcvd) /\ fsm.sar.rcvd = sar.rcvd
  BY <1>2 DEF KeptInv, EntryOK, SameBlock
<1>4. OutcomeIs(o, seg, fsm.sar, rcvd)
  BY <1>2, <1>3, OutcomeCases DEF KeptInv
<1> HIDE DEF o, seg
<1>5. OutcomeIs(o, seg, sar, rcvd)
  BY <1>2, <1>4 DEF OutcomeIs, SameBlock
<1>6. ASSUME o.keep, sar' = [appd |-> sar.appd, rcvd |-> o.new.rcvd, ooo |-> o.new.ooo,
                       oooHead |-> o.new.oooHead, oooTail |-> o.new.oooTail],
             rcvd' = rcvd + Minus(o.new.rcvd, fsm.sar.rcvd, SeqMod),
             kept' = kept \cup Positions(seg)
      PROVE  KeptInv'
  <2>1. /\ rcvd' \in Position /\ EntryOK(o.new, rcvd')
        /\ \A p \in 0 .. rcvd' - 1 : p \in kept'
        /\ o.new.ooo => \A p \in Block(o.new) : p \in kept'
    BY <1>2, <1>3, <1>5, <1>6, KeepStep
  <2> QED
    BY <1>1, <1>6, <2>1 DEF KeptInv, EntryOK, Block
<1>7. CASE UNCHANGED <<sar, rcvd, kept>>
  BY <1>1, <1>7 DEF KeptInv, EntryOK, Block
<1> QED
  BY <1>1, <1>6, <1>7

LEMMA NextKept == NoWrap /\ KeptInv /\ [Next]_vars => KeptInv'
<1> SUFFICES ASSUME NoWrap, KeptInv, [Next]_vars
             PROVE  KeptInv'
  OBVIOUS
<1>1. ASSUME NEW seg \in Segment, FsmLoad(seg)
      PROVE  KeptInv'
  BY <1>1 DEF FsmLoad, KeptInv, EntryOK, Block, Sent, SameBlock
<1>2. CASE FsmTransition
  BY <1>2, TransitionKept
<1>3. CASE Tsd \/ Mwr \/ MwrUncut \/ MemWrite \/ Ran
  <2>1. UNCHANGED <<sar, fsm, rcvd, kept>>
    BY <1>3 DEF Tsd, Mwr, MwrUncut, MemWrite, Ran, RanSecond, RanFirst, RanNotif, rxVars, hisVars
  <2> QED
    BY <2>1 DEF KeptInv, EntryOK, Block, Sent, SameBlock
<1>4. CASE AppRead
  <2>1. /\ DOMAIN sar' = DOMAIN sar /\ SameBlock(sar', sar)
        /\ UNCHANGED <<fsm, rcvd, kept>>
    BY <1>4 DEF AppRead, KeptInv, SameBlock
  <2> QED
    BY <2>1 DEF KeptInv, EntryOK, Block, Sent, SameBlock
<1>5. CASE UNCHANGED vars
  BY <1>5 DEF vars, rxVars, hisVars, KeptInv, EntryOK, Block, Sent, SameBlock
<1> QED
  BY <1>1, <1>2, <1>3, <1>4, <1>5 DEF Next

\* As long as sequence numbers do not wrap, RXe never acknowledges a byte it
\* has not kept, whatever segments arrive in whatever order
\* (rx_engine.cpp, the Rx SAR updates of pFiniteStateMachine).
THEOREM AckedIsAlwaysKept == NoWrap => (Spec => []AckedIsKept)
<1> SUFFICES ASSUME NoWrap
             PROVE  Spec => []AckedIsKept
  OBVIOUS
<1>1. Init => KeptInv
  BY ConstantTypes DEF Init, KeptInv, EntryOK, Position
<1>2. KeptInv /\ [Next]_vars => KeptInv'
  BY NextKept
<1>3. KeptInv => AckedIsKept
  <2> SUFFICES ASSUME KeptInv
               PROVE  AckedIsKept
    OBVIOUS
  <2>1. rcvd \in Nat /\ rcvd <= MaxPos /\ Isn \in Nat /\ MaxPos \in Nat
    BY ConstantTypes DEF KeptInv, Position
  <2>2. CASE sar.ooo
    <3>1. /\ Minus(sar.oooTail, sar.rcvd, SeqMod) = sar.oooTail - sar.rcvd
          /\ Minus(sar.oooHead, sar.rcvd, SeqMod) = sar.oooHead - sar.rcvd
      BY <2>1, <2>2, MinusOf DEF KeptInv, EntryOK
    <3> QED
      BY <2>1, <2>2, <3>1 DEF AckedIsKept, KeptInv, EntryOK, Block
  <2>3. CASE ~sar.ooo
    BY <2>3 DEF AckedIsKept, KeptInv
  <2> QED
    BY <2>2, <2>3
<1> QED
  BY <1>1, <1>2, <1>3, PTL DEF Spec

----------------------------------------------------------------------------
(***************************************************************************)
(* What RXe acknowledges is notified to the application once, and, as long *)
(* as no segment is kept out of order, not before it is in memory.  Three  *)
(* streams meet by their position: a command per payload, a write command  *)
(* per payload that is kept, a split flag and one or two statuses per      *)
(* notification.                                                           *)
(***************************************************************************)

(***************************************************************************)
(* The sum of a sequence of natural numbers.                               *)
(***************************************************************************)

\* The recursion by which Total goes through a sequence.
Sums(first, s) ==
    first = [n \in 0 .. Len(s) |-> IF n = 0 THEN 0 ELSE first[n - 1] + s[n]]

\* Every solution takes the numbers one by one.
LEMMA SumSteps ==
    ASSUME NEW s \in Seq(Nat), NEW first, Sums(first, s)
    PROVE  /\ first[0] = 0
           /\ \A n \in 1 .. Len(s) : first[n] = first[n - 1] + s[n]
<1>1. \A n \in 0 .. Len(s) :
         first[n] = IF n = 0 THEN 0 ELSE first[n - 1] + s[n]
  BY Zenon DEF Sums
<1>2. Len(s) \in Nat /\ \A n \in 1 .. Len(s) : n \in 0 .. Len(s) /\ n # 0
  OBVIOUS
<1>3. first[0] = 0
  BY <1>1, <1>2
<1>4. ASSUME NEW n \in 1 .. Len(s)
      PROVE  first[n] = first[n - 1] + s[n]
  BY <1>1, <1>2, Zenon
<1> QED
  BY <1>3, <1>4

\* It has a solution, and Total is the last value of one.
LEMMA TotalSolves ==
    ASSUME NEW s \in Seq(Nat)
    PROVE  \E first : /\ Sums(first, s)
                      /\ first \in [0 .. Len(s) -> Nat]
                      /\ Total(s) = first[Len(s)]
<1> DEFINE N == Len(s)
           step == [p \in (1 .. N) \X Nat |-> p[2] + s[p[1]]]
<1>1. N \in Nat /\ \A n \in 1 .. N : s[n] \in Nat
  OBVIOUS
<1>2. step \in [(1 .. N) \X Nat -> Nat]
  BY <1>1
<1>3. \A n \in 1 .. N, v \in Nat : step[<<n, v>>] = v + s[n]
  OBVIOUS
<1> HIDE DEF step
<1>4. PICK f \in [0 .. N -> Nat] :
         f[0] = 0 /\ \A n \in 1 .. N : f[n] = step[<<n, f[n - 1]>>]
  <2> HIDE DEF N
  <2>1. Solvable(N, Nat, 0, step)
    BY <1>1, <1>2, IntervalRecursion
  <2> QED
    BY <2>1 DEF Solvable
<1>5. Sums(f, s)
  <2>1. ASSUME NEW n \in 0 .. N
        PROVE  f[n] = IF n = 0 THEN 0 ELSE f[n - 1] + s[n]
    <3>1. CASE n = 0
      BY <1>4, <3>1
    <3>2. CASE n # 0
      <4>1. n \in 1 .. N /\ n - 1 \in 0 .. N
        BY <1>1, <3>2
      <4>2. f[n - 1] \in Nat
        BY <4>1
      <4> QED
        BY <1>3, <1>4, <3>2, <4>1, <4>2
    <3> QED
      BY <3>1, <3>2
  <2> QED
    BY <2>1 DEF Sums
<1> DEFINE g == CHOOSE first : Sums(first, s)
<1>6. Sums(g, s)
  BY <1>5
<1>7. Total(s) = g[Len(s)]
  BY DEF Total, Sums
<1> HIDE DEF g
<1>8. g[0] = 0 /\ \A n \in 1 .. N : g[n] = g[n - 1] + s[n]
  BY <1>6, SumSteps
<1>9. g \in [0 .. N -> Nat]
  <2> DEFINE S == {n \in 0 .. N : g[n] \in Nat}
  <2>1. 0 \in S
    BY <1>1, <1>8
  <2>2. ASSUME NEW n \in 0 .. N - 1, n \in S
        PROVE  n + 1 \in S
    <3>1. n + 1 \in 1 .. N /\ n + 1 \in 0 .. N /\ (n + 1) - 1 = n /\ g[n] \in Nat
      BY <1>1, <2>2
    <3>2. g[n + 1] = g[n] + s[n + 1] /\ s[n + 1] \in Nat
      BY <1>1, <1>8, <3>1
    <3> QED
      BY <3>1, <3>2
  <2> HIDE DEF S
  <2>3. \A n \in 0 .. N : n \in S
    BY <1>1, <2>1, <2>2, IntervalInduction
  <2> USE DEF S
  <2>4. DOMAIN g = 0 .. N /\ g = [n \in 0 .. N |-> g[n]]
    BY <1>6 DEF Sums
  <2> QED
    BY <2>3, <2>4
<1> QED
  BY <1>6, <1>7, <1>9

\* Of nothing the sum is nothing; a number more at the end adds itself.
LEMMA TotalOf ==
    /\ Total(<<>>) = 0
    /\ \A s \in Seq(Nat) : Total(s) \in Nat
<1>1. Total(<<>>) = 0
  <2>1. PICK first : Sums(first, <<>>) /\ Total(<<>>) = first[Len(<<>>)]
    <3>1. <<>> \in Seq(Nat)
      OBVIOUS
    <3> QED
      BY <3>1, TotalSolves
  <2> QED
    BY <2>1 DEF Sums
<1>2. ASSUME NEW s \in Seq(Nat)
      PROVE  Total(s) \in Nat
  BY TotalSolves
<1> QED
  BY <1>1, <1>2

LEMMA TotalAppend ==
    ASSUME NEW s \in Seq(Nat), NEW k \in Nat
    PROVE  Total(Append(s, k)) = Total(s) + k
<1> DEFINE longer == Append(s, k)
           N == Len(s)
<1>1. /\ longer \in Seq(Nat) /\ N \in Nat /\ Len(longer) = N + 1
      /\ longer[N + 1] = k /\ \A n \in 1 .. N : longer[n] = s[n]
  OBVIOUS
<1> HIDE DEF longer
<1>2. PICK f : Sums(f, s) /\ f \in [0 .. N -> Nat] /\ Total(s) = f[N]
  BY TotalSolves
<1>3. PICK g : Sums(g, longer) /\ g \in [0 .. N + 1 -> Nat] /\ Total(longer) = g[N + 1]
  BY <1>1, TotalSolves
<1> DEFINE S == {n \in 0 .. N : g[n] = f[n]}
<1>4. f[0] = 0 /\ \A n \in 1 .. N : f[n] = f[n - 1] + s[n]
  BY <1>2, SumSteps
<1>5. g[0] = 0 /\ \A n \in 1 .. N + 1 : g[n] = g[n - 1] + longer[n]
  <2>1. g[0] = 0 /\ \A n \in 1 .. Len(longer) : g[n] = g[n - 1] + longer[n]
    BY <1>1, <1>3, SumSteps, Zenon
  <2> QED
    BY <1>1, <2>1
<1>6. 0 \in S
  BY <1>1, <1>4, <1>5
<1>7. ASSUME NEW n \in 0 .. N - 1, n \in S
      PROVE  n + 1 \in S
  <2>1. /\ n + 1 \in 1 .. N /\ n + 1 \in 1 .. N + 1 /\ (n + 1) - 1 = n
        /\ longer[n + 1] = s[n + 1] /\ g[n] = f[n]
    <3>1. n + 1 \in 1 .. N /\ n + 1 \in 1 .. N + 1 /\ (n + 1) - 1 = n
      BY <1>1
    <3>2. longer[n + 1] = s[n + 1]
      BY <1>1, <3>1
    <3>3. g[n] = f[n]
      BY <1>7
    <3> QED
      BY <3>1, <3>2, <3>3
  <2>2. g[n + 1] = f[n + 1]
    BY <1>4, <1>5, <2>1
  <2> QED
    BY <1>1, <2>1, <2>2
<1> HIDE DEF S, N
<1>8. N \in S
  <2>1. \A n \in 0 .. N : n \in S
    BY <1>1, <1>6, <1>7, IntervalInduction
  <2> QED
    BY <1>1, <2>1
<1> USE DEF S
<1>9. g[N + 1] = g[N] + k /\ g[N] = f[N]
  <2>1. N + 1 \in 1 .. N + 1 /\ (N + 1) - 1 = N
    BY <1>1
  <2> QED
    BY <1>1, <1>5, <1>8, <2>1
<1> QED
  BY <1>2, <1>3, <1>9 DEF longer

\* The first number and the rest.
LEMMA TotalFirst ==
    ASSUME NEW s \in Seq(Nat), s # <<>>
    PROVE  Total(s) = Head(s) + Total(Tail(s))
<1> DEFINE rest == Tail(s)
           N == Len(rest)
<1>1. /\ rest \in Seq(Nat) /\ N \in Nat /\ Len(s) = N + 1
      /\ s[1] = Head(s) /\ Head(s) \in Nat
      /\ \A n \in 1 .. N : s[n + 1] = rest[n] /\ rest[n] \in Nat
  OBVIOUS
<1> HIDE DEF rest
<1>2. PICK f : Sums(f, rest) /\ f \in [0 .. N -> Nat] /\ Total(rest) = f[N]
  BY <1>1, TotalSolves
<1>3. PICK g : Sums(g, s) /\ g \in [0 .. N + 1 -> Nat] /\ Total(s) = g[N + 1]
  BY <1>1, TotalSolves
<1> DEFINE S == {n \in 0 .. N : g[n + 1] = Head(s) + f[n]}
<1>4. f[0] = 0 /\ \A n \in 1 .. N : f[n] = f[n - 1] + rest[n]
  BY <1>1, <1>2, SumSteps
<1>5. g[0] = 0 /\ \A n \in 1 .. N + 1 : g[n] = g[n - 1] + s[n]
  <2>1. g[0] = 0 /\ \A n \in 1 .. Len(s) : g[n] = g[n - 1] + s[n]
    BY <1>3, SumSteps, Zenon
  <2> QED
    BY <1>1, <2>1
<1>6. 0 \in S
  <2>1. 1 \in 1 .. N + 1 /\ 1 - 1 = 0
    BY <1>1
  <2>2. g[1] = g[0] + s[1]
    BY <1>5, <2>1
  <2> QED
    BY <1>1, <1>4, <1>5, <2>2
<1>7. ASSUME NEW n \in 0 .. N - 1, n \in S
      PROVE  n + 1 \in S
  <2>1. /\ n + 1 \in 1 .. N /\ n + 2 \in 1 .. N + 1
        /\ (n + 1) - 1 = n /\ (n + 2) - 1 = n + 1 /\ (n + 1) + 1 = n + 2
        /\ s[n + 2] = rest[n + 1] /\ rest[n + 1] \in Nat
    BY <1>1
  <2>2. f[n] \in Nat /\ g[n + 1] = Head(s) + f[n]
    BY <1>1, <1>2, <1>7
  <2>3. f[n + 1] = f[n] + rest[n + 1] /\ g[n + 2] = g[n + 1] + rest[n + 1]
    BY <1>4, <1>5, <2>1
  <2>4. g[(n + 1) + 1] = Head(s) + f[n + 1]
    <3>1. /\ Head(s) \in Nat /\ f[n] \in Nat /\ rest[n + 1] \in Nat
          /\ (Head(s) + f[n]) + rest[n + 1] = Head(s) + (f[n] + rest[n + 1])
      BY <1>1, <2>1, <2>2, SMTT(40)
    <3> QED BY <2>1, <2>2, <2>3, <3>1, Zenon
  <2>5. n + 1 \in 0 .. N
    BY <1>1
  <2> QED
    BY <2>4, <2>5
<1> HIDE DEF S, N
<1>8. N \in S
  <2>1. \A n \in 0 .. N : n \in S
    BY <1>1, <1>6, <1>7, IntervalInduction
  <2> QED
    BY <1>1, <2>1
<1> USE DEF S
<1> QED
  BY <1>2, <1>3, <1>8 DEF rest

----------------------------------------------------------------------------
(***************************************************************************)
(* The payloads that Tsd will keep: those whose command is not to drop.    *)
(***************************************************************************)
KeptOf(drops, segs) ==
    LET first[n \in 0 .. Len(drops)] ==
            IF n = 0 THEN <<>>
            ELSE IF drops[n] THEN first[n - 1] ELSE Append(first[n - 1], segs[n])
    IN  first[Len(drops)]

Picks(first, drops, segs) ==
    first = [n \in 0 .. Len(drops) |->
                IF n = 0 THEN <<>>
                ELSE IF drops[n] THEN first[n - 1] ELSE Append(first[n - 1], segs[n])]

\* Every solution takes the commands one by one.
LEMMA PickSteps ==
    ASSUME NEW drops \in Seq(BOOLEAN), NEW segs, NEW first, Picks(first, drops, segs)
    PROVE  /\ first[0] = <<>>
           /\ \A n \in 1 .. Len(drops) :
                 first[n] = IF drops[n] THEN first[n - 1] ELSE Append(first[n - 1], segs[n])
<1>1. \A n \in 0 .. Len(drops) :
         first[n] = IF n = 0 THEN <<>>
                    ELSE IF drops[n] THEN first[n - 1] ELSE Append(first[n - 1], segs[n])
  BY Zenon DEF Picks
<1>2. Len(drops) \in Nat /\ \A n \in 1 .. Len(drops) : n \in 0 .. Len(drops) /\ n # 0
  OBVIOUS
<1>3. first[0] = <<>>
  BY <1>1, <1>2
<1>4. ASSUME NEW n \in 1 .. Len(drops)
      PROVE  first[n] = IF drops[n] THEN first[n - 1] ELSE Append(first[n - 1], segs[n])
  BY <1>1, <1>2, Zenon
<1> QED
  BY <1>3, <1>4

\* It has a solution, and KeptOf is the last value of one.
LEMMA KeptSolves ==
    ASSUME NEW drops \in Seq(BOOLEAN), NEW segs \in Seq(Segment), Len(drops) <= Len(segs)
    PROVE  \E first : /\ Picks(first, drops, segs)
                      /\ first \in [0 .. Len(drops) -> Seq(Segment)]
                      /\ KeptOf(drops, segs) = first[Len(drops)]
<1> DEFINE N == Len(drops)
           step == [p \in (1 .. N) \X Seq(Segment) |->
                      IF drops[p[1]] THEN p[2] ELSE Append(p[2], segs[p[1]])]
<1>1. N \in Nat /\ \A n \in 1 .. N : segs[n] \in Segment /\ drops[n] \in BOOLEAN
  OBVIOUS
<1>2. step \in [(1 .. N) \X Seq(Segment) -> Seq(Segment)]
  <2>1. ASSUME NEW n \in 1 .. N, NEW v \in Seq(Segment)
        PROVE  (IF drops[n] THEN v ELSE Append(v, segs[n])) \in Seq(Segment)
    BY <1>1
  <2> QED
    BY <2>1
<1>3. \A n \in 1 .. N, v \in Seq(Segment) :
         step[<<n, v>>] = IF drops[n] THEN v ELSE Append(v, segs[n])
  OBVIOUS
<1> HIDE DEF step
<1>4. PICK f \in [0 .. N -> Seq(Segment)] :
         f[0] = <<>> /\ \A n \in 1 .. N : f[n] = step[<<n, f[n - 1]>>]
  <2>1. <<>> \in Seq(Segment)
    OBVIOUS
  <2> HIDE DEF N
  <2>2. Solvable(N, Seq(Segment), <<>>, step)
    BY <1>1, <1>2, <2>1, IntervalRecursion
  <2> QED
    BY <2>2 DEF Solvable
<1>5. Picks(f, drops, segs)
  <2>1. ASSUME NEW n \in 0 .. N
        PROVE  f[n] = IF n = 0 THEN <<>>
                      ELSE IF drops[n] THEN f[n - 1] ELSE Append(f[n - 1], segs[n])
    <3>1. CASE n = 0
      BY <1>4, <3>1
    <3>2. CASE n # 0
      <4>1. n \in 1 .. N /\ n - 1 \in 0 .. N
        BY <1>1, <3>2
      <4>2. f[n - 1] \in Seq(Segment)
        BY <4>1
      <4> QED
        BY <1>3, <1>4, <3>2, <4>1, <4>2
    <3> QED
      BY <3>1, <3>2
  <2> QED
    BY <2>1 DEF Picks
<1> DEFINE g == CHOOSE first : Picks(first, drops, segs)
<1>6. Picks(g, drops, segs)
  BY <1>5
<1>7. KeptOf(drops, segs) = g[Len(drops)]
  BY DEF KeptOf, Picks
<1> HIDE DEF g
<1>8. g[0] = <<>> /\ \A n \in 1 .. N : g[n] = IF drops[n] THEN g[n - 1]
                                              ELSE Append(g[n - 1], segs[n])
  BY <1>6, PickSteps
<1>9. g \in [0 .. N -> Seq(Segment)]
  <2> DEFINE S == {n \in 0 .. N : g[n] \in Seq(Segment)}
  <2>1. 0 \in S
    <3>1. <<>> \in Seq(Segment) /\ 0 \in 0 .. N
      BY <1>1
    <3> QED
      BY <1>8, <3>1
  <2>2. ASSUME NEW n \in 0 .. N - 1, n \in S
        PROVE  n + 1 \in S
    <3>1. n + 1 \in 1 .. N /\ n + 1 \in 0 .. N /\ (n + 1) - 1 = n /\ g[n] \in Seq(Segment)
      BY <1>1, <2>2
    <3>2. g[n + 1] = IF drops[n + 1] THEN g[n] ELSE Append(g[n], segs[n + 1])
      BY <1>8, <3>1
    <3>3. segs[n + 1] \in Segment
      BY <1>1, <3>1
    <3>4. g[n + 1] \in Seq(Segment)
      BY <3>1, <3>2, <3>3
    <3> QED
      BY <3>1, <3>4
  <2> HIDE DEF S
  <2>3. \A n \in 0 .. N : n \in S
    BY <1>1, <2>1, <2>2, IntervalInduction
  <2> USE DEF S
  <2>4. DOMAIN g = 0 .. N /\ g = [n \in 0 .. N |-> g[n]]
    BY <1>6 DEF Picks
  <2> QED
    BY <2>3, <2>4
<1> QED
  BY <1>6, <1>7, <1>9

LEMMA KeptOfType ==
    ASSUME NEW drops \in Seq(BOOLEAN), NEW segs \in Seq(Segment), Len(drops) <= Len(segs)
    PROVE  /\ KeptOf(drops, segs) \in Seq(Segment)
           /\ drops = <<>> => KeptOf(drops, segs) = <<>>
<1>1. PICK f : /\ Picks(f, drops, segs) /\ f \in [0 .. Len(drops) -> Seq(Segment)]
               /\ KeptOf(drops, segs) = f[Len(drops)]
  BY KeptSolves
<1>2. Len(drops) \in 0 .. Len(drops) /\ (drops = <<>> => Len(drops) = 0)
  OBVIOUS
<1>3. f[0] = <<>>
  BY <1>1, PickSteps
<1> QED
  BY <1>1, <1>2, <1>3

\* Two computations that take the same commands about the same payloads agree.
LEMMA SamePicks ==
    ASSUME NEW N \in Nat,
           NEW d \in Seq(BOOLEAN), NEW p \in Seq(Segment), NEW f, Picks(f, d, p),
           NEW d2 \in Seq(BOOLEAN), NEW p2 \in Seq(Segment), NEW g, Picks(g, d2, p2),
           N <= Len(d), N <= Len(d2),
           \A n \in 1 .. N : d[n] = d2[n] /\ p[n] = p2[n]
    PROVE  f[N] = g[N]
<1> DEFINE S == {n \in 0 .. N : f[n] = g[n]}
<1>1. f[0] = <<>> /\ g[0] = <<>>
  BY PickSteps, Zenon
<1>2. \A n \in 1 .. N : n \in 1 .. Len(d) /\ n \in 1 .. Len(d2)
  OBVIOUS
<1>3. \A n \in 1 .. N : f[n] = IF d[n] THEN f[n - 1] ELSE Append(f[n - 1], p[n])
  BY <1>2, PickSteps, ZenonT(60)
<1>4. \A n \in 1 .. N : g[n] = IF d2[n] THEN g[n - 1] ELSE Append(g[n - 1], p2[n])
  BY <1>2, PickSteps, Zenon
<1>5. 0 \in S
  BY <1>1
<1>6. ASSUME NEW n \in 0 .. N - 1, n \in S
      PROVE  n + 1 \in S
  <2>1. n + 1 \in 1 .. N /\ (n + 1) - 1 = n /\ f[n] = g[n] /\ n + 1 \in 0 .. N
    BY <1>6
  <2>2. f[n + 1] = g[n + 1]
    BY <1>3, <1>4, <2>1
  <2> QED
    BY <2>1, <2>2
<1> HIDE DEF S
<1>7. \A n \in 0 .. N : n \in S
  BY <1>5, <1>6, IntervalInduction
<1> USE DEF S
<1> QED
  BY <1>7

\* A payload without a command does not count yet.
LEMMA KeptOfMorePayload ==
    ASSUME NEW drops \in Seq(BOOLEAN), NEW segs \in Seq(Segment), NEW seg \in Segment,
           Len(drops) <= Len(segs)
    PROVE  KeptOf(drops, Append(segs, seg)) = KeptOf(drops, segs)
<1> DEFINE more == Append(segs, seg)
           N == Len(drops)
<1>1. /\ more \in Seq(Segment) /\ N \in Nat /\ N <= Len(more)
      /\ \A n \in 1 .. N : more[n] = segs[n]
  OBVIOUS
<1> HIDE DEF more
<1>2. PICK f : Picks(f, drops, segs) /\ KeptOf(drops, segs) = f[N]
  BY KeptSolves
<1>3. PICK g : Picks(g, drops, more) /\ KeptOf(drops, more) = g[N]
  BY <1>1, KeptSolves
<1>4. f[N] = g[N]
  BY <1>1, <1>2, <1>3, SamePicks
<1> QED
  BY <1>2, <1>3, <1>4 DEF more

\* The command for the next payload.
LEMMA KeptOfMoreCommand ==
    ASSUME NEW drops \in Seq(BOOLEAN), NEW segs \in Seq(Segment), NEW b \in BOOLEAN,
           Len(drops) < Len(segs)
    PROVE  KeptOf(Append(drops, b), segs) =
              IF b THEN KeptOf(drops, segs)
              ELSE Append(KeptOf(drops, segs), segs[Len(drops) + 1])
<1> DEFINE more == Append(drops, b)
           N == Len(drops)
<1>1. /\ more \in Seq(BOOLEAN) /\ N \in Nat /\ Len(more) = N + 1 /\ N + 1 <= Len(segs)
      /\ more[N + 1] = b /\ \A n \in 1 .. N : more[n] = drops[n]
      /\ N <= Len(segs) /\ N <= Len(more)
  OBVIOUS
<1> HIDE DEF more
<1>2. PICK f : Picks(f, drops, segs) /\ KeptOf(drops, segs) = f[N]
  BY <1>1, KeptSolves
<1>3. PICK g : Picks(g, more, segs) /\ KeptOf(more, segs) = g[N + 1]
  BY <1>1, KeptSolves
<1>4. f[N] = g[N]
  BY <1>1, <1>2, <1>3, SamePicks
<1>5. g[N + 1] = IF b THEN g[N] ELSE Append(g[N], segs[N + 1])
  <2>1. N + 1 \in 1 .. Len(more) /\ (N + 1) - 1 = N
    BY <1>1
  <2>2. g[N + 1] = IF more[N + 1] THEN g[(N + 1) - 1] ELSE Append(g[(N + 1) - 1], segs[N + 1])
    BY <1>1, <1>3, <2>1, PickSteps, ZenonT(60)
  <2> QED
    BY <1>1, <2>1, <2>2
<1> QED
  BY <1>2, <1>3, <1>4, <1>5 DEF more

\* Concatenation with the empty sequence, and of a sequence that gets longer.
LEMMA ConcatEmpty ==
    ASSUME NEW s \in Seq(Segment)
    PROVE  s \o <<>> = s /\ <<>> \o s = s
OBVIOUS

LEMMA ConcatLonger ==
    ASSUME NEW s \in Seq(Segment), NEW t \in Seq(Segment), NEW e \in Segment
    PROVE  Append(s \o t, e) = s \o Append(t, e)
OBVIOUS

\* The first command is for the first payload.
LEMMA KeptOfFirst ==
    ASSUME NEW drops \in Seq(BOOLEAN), NEW segs \in Seq(Segment), drops # <<>>,
           Len(drops) <= Len(segs)
    PROVE  KeptOf(drops, segs) = IF Head(drops) THEN KeptOf(Tail(drops), Tail(segs))
                                 ELSE <<Head(segs)>> \o KeptOf(Tail(drops), Tail(segs))
<1> DEFINE restD == Tail(drops)
           restS == Tail(segs)
           N == Len(restD)
           pre == IF Head(drops) THEN <<>> ELSE <<Head(segs)>>
<1>1. /\ restD \in Seq(BOOLEAN) /\ restS \in Seq(Segment) /\ N \in Nat /\ N <= Len(restS)
      /\ Len(drops) = N + 1 /\ drops[1] = Head(drops) /\ Head(drops) \in BOOLEAN
      /\ segs[1] = Head(segs) /\ Head(segs) \in Segment
      /\ \A n \in 1 .. N : /\ drops[n + 1] = restD[n] /\ segs[n + 1] = restS[n]
                           /\ restS[n] \in Segment /\ restD[n] \in BOOLEAN
  OBVIOUS
<1> HIDE DEF restD, restS
<1>2. pre \in Seq(Segment)
  <2>1. <<>> \in Seq(Segment) /\ <<Head(segs)>> \in Seq(Segment)
    BY <1>1
  <2> QED
    BY <2>1, Zenon
<1>3. PICK f : /\ Picks(f, restD, restS) /\ f \in [0 .. N -> Seq(Segment)]
               /\ KeptOf(restD, restS) = f[N]
  BY <1>1, KeptSolves
<1>4. PICK g : Picks(g, drops, segs) /\ KeptOf(drops, segs) = g[N + 1]
  BY <1>1, KeptSolves
<1> DEFINE S == {n \in 0 .. N : g[n + 1] = pre \o f[n]}
<1>5. /\ f[0] = <<>>
      /\ \A n \in 1 .. N : f[n] = IF restD[n] THEN f[n - 1] ELSE Append(f[n - 1], restS[n])
  BY <1>1, <1>3, PickSteps, Zenon
<1>6. /\ g[0] = <<>>
      /\ \A n \in 1 .. N + 1 : g[n] = IF drops[n] THEN g[n - 1] ELSE Append(g[n - 1], segs[n])
  <2>1. /\ g[0] = <<>>
        /\ \A n \in 1 .. Len(drops) : g[n] = IF drops[n] THEN g[n - 1]
                                             ELSE Append(g[n - 1], segs[n])
    BY <1>4, PickSteps, Zenon
  <2> QED
    BY <1>1, <2>1
<1>7. 0 \in S
  <2>1. g[1] = IF Head(drops) THEN <<>> ELSE Append(<<>>, Head(segs))
    <3>1. 1 \in 1 .. N + 1 /\ 1 - 1 = 0
      BY <1>1
    <3> QED
      BY <1>1, <1>6, <3>1
  <2>2. g[1] = pre
    <3>1. Append(<<>>, Head(segs)) = <<Head(segs)>>
      OBVIOUS
    <3> QED
      BY <2>1, <3>1, Zenon
  <2> HIDE DEF pre
  <2>3. pre \o <<>> = pre
    BY <1>2, ConcatEmpty
  <2>4. g[0 + 1] = pre \o f[0]
    BY <1>5, <2>2, <2>3
  <2> QED
    BY <1>1, <2>4
<1>8. ASSUME NEW n \in 0 .. N - 1, n \in S
      PROVE  n + 1 \in S
  <2>1. /\ n + 1 \in 1 .. N /\ n + 2 \in 1 .. N + 1
        /\ (n + 1) - 1 = n /\ (n + 2) - 1 = n + 1 /\ (n + 1) + 1 = n + 2
        /\ drops[n + 2] = restD[n + 1] /\ segs[n + 2] = restS[n + 1]
        /\ restS[n + 1] \in Segment /\ restD[n + 1] \in BOOLEAN
    BY <1>1
  <2>2. f[n] \in Seq(Segment) /\ g[n + 1] = pre \o f[n]
    BY <1>1, <1>3, <1>8
  <2>3. f[n + 1] = IF restD[n + 1] THEN f[n] ELSE Append(f[n], restS[n + 1])
    BY <1>5, <2>1
  <2>4. g[n + 2] = IF restD[n + 1] THEN g[n + 1] ELSE Append(g[n + 1], restS[n + 1])
    BY <1>6, <2>1
  <2> HIDE DEF pre
  <2>5. Append(pre \o f[n], restS[n + 1]) = pre \o Append(f[n], restS[n + 1])
    <3>1. pre \in Seq(Segment) /\ f[n] \in Seq(Segment) /\ restS[n + 1] \in Segment
      BY <1>2, <2>1, <2>2
    <3> QED
      BY <3>1, ConcatLonger, Zenon
  <2>6. g[n + 2] = pre \o f[n + 1]
    BY <2>1, <2>2, <2>3, <2>4, <2>5
  <2>7. n + 1 \in 0 .. N
    BY <1>1
  <2> QED
    BY <2>1, <2>6, <2>7
<1> HIDE DEF S, pre, N
<1>9. N \in S
  <2>1. \A n \in 0 .. N : n \in S
    BY <1>1, <1>7, <1>8, IntervalInduction
  <2> QED
    BY <1>1, <2>1
<1> USE DEF S
<1>10. KeptOf(drops, segs) = pre \o KeptOf(restD, restS)
  BY <1>3, <1>4, <1>9
<1>11. /\ KeptOf(restD, restS) \in Seq(Segment)
       /\ <<>> \o KeptOf(restD, restS) = KeptOf(restD, restS)
  <2>1. KeptOf(restD, restS) \in Seq(Segment)
    BY <1>1, KeptOfType DEF N
  <2> QED
    BY <2>1
<1> QED
  BY <1>10, <1>11 DEF pre, restD, restS

----------------------------------------------------------------------------
(***************************************************************************)
(* The streams between Fsm and Ran.                                        *)
(***************************************************************************)
One(b) == IF b THEN 1 ELSE 0

Command(seg) == [seq |-> SeqOf(seg.pos), len |-> seg.len]

\* The segments that are kept and that Mwr has not taken yet.
Joined == mwrData \o KeptOf(dropCmd, payload)

\* Every payload has its command, or Fsm is about to give it one; the write
\* commands are those of the payloads that are kept, in their order.
Aligned ==
    /\ Len(payload) = Len(dropCmd) + One(fsm.pc = "transition")
    /\ fsm.pc = "transition" => payload[Len(payload)] = fsm.seg
    /\ \A i \in 1 .. Len(payload) : Sent(payload[i])
    /\ \A i \in 1 .. Len(mwrData) : Sent(mwrData[i])
    /\ Len(wrCmd) = Len(Joined)
    /\ \A i \in 1 .. Len(wrCmd) : wrCmd[i] = Command(Joined[i])
    /\ \A i \in 1 .. Len(memWr) : memWr[i].pos + memWr[i].len <= MaxPos
    /\ ~ran.double => ran.len = 0

DeliveryInv == KeptInv /\ AckedIsNotifiedOnce /\ Aligned

\* What a bounded stream takes in and gives out.
LEMMA StreamPush ==
    ASSUME NEW V, NEW s \in StreamOf(V), Len(s) < Depth, NEW x \in V
    PROVE  Append(s, x) \in StreamOf(V)
BY RxAssumption DEF StreamOf

LEMMA StreamPop ==
    ASSUME NEW V, NEW s \in StreamOf(V), s # <<>>
    PROVE  Head(s) \in V /\ Tail(s) \in StreamOf(V)
BY RxAssumption DEF StreamOf

\* Sequence numbers and cells are what their operators say.
LEMMA NumberTypes ==
    /\ \A p \in Int : SeqOf(p) \in SeqNum /\ p % SeqMod \in SeqNum
    /\ \A q \in Int : Cell(q) \in 0 .. BufSize - 1
    /\ \A a \in Int, b \in Int : Minus(a, b, SeqMod) \in SeqNum
<1>1. SeqMod \in Nat \ {0} /\ BufSize \in Nat \ {0} /\ Isn \in Int
  BY RxAssumption
<1>2. \A x \in Int : x % SeqMod \in 0 .. SeqMod - 1 /\ x % BufSize \in 0 .. BufSize - 1
  BY <1>1
<1>3. \A a \in Int, b \in Int : Minus(a, b, SeqMod) \in SeqNum
  <2> SUFFICES ASSUME NEW a \in Int, NEW b \in Int
               PROVE  Minus(a, b, SeqMod) \in SeqNum
    OBVIOUS
  <2>1. a % SeqMod \in 0 .. SeqMod - 1 /\ b % SeqMod \in 0 .. SeqMod - 1
    BY <1>2
  <2> QED
    BY <1>1, <2>1 DEF Minus, SeqNum
<1>4. \A p \in Int : SeqOf(p) \in SeqNum /\ p % SeqMod \in SeqNum
  <2> SUFFICES ASSUME NEW p \in Int
               PROVE  SeqOf(p) \in SeqNum /\ p % SeqMod \in SeqNum
    OBVIOUS
  <2>1. Isn + p \in Int
    BY <1>1
  <2> QED
    BY <1>2, <2>1 DEF SeqOf, SeqNum
<1> QED
  BY <1>2, <1>3, <1>4 DEF Cell

\* What the state machine makes of a segment has the types of the registers it
\* goes to.
LEMMA OutcomeType ==
    ASSUME NEW seq \in SeqNum, NEW len \in Nat, NEW r \in SarEntry
    PROVE  /\ Outcome(seq, len, r).keep \in BOOLEAN
           /\ Outcome(seq, len, r).new.rcvd \in SeqNum
           /\ Outcome(seq, len, r).new.ooo \in BOOLEAN
           /\ Outcome(seq, len, r).new.oooHead \in SeqNum
           /\ Outcome(seq, len, r).new.oooTail \in SeqNum
<1> DEFINE end  == seq + len
           free == FreeSpace(r)
           Query(q, ooo, head, tail) ==
               [rcvd |-> q, ooo |-> ooo, oooHead |-> head, oooTail |-> tail]
           Keep(q, n) == [keep |-> TRUE, new |-> q, notify |-> n]
           o    == Outcome(seq, len, r)
           C1   == ~r.ooo /\ seq = r.rcvd /\ free > len
           C2   == ~r.ooo /\ seq > r.rcvd /\ free > Minus(end, r.oooHead, BufSize)
           C3   == r.ooo /\ seq = r.oooHead /\ free > len
           C4   == r.ooo /\ seq = r.rcvd /\ seq # r.oooHead /\ end < r.oooTail
           C5   == r.ooo /\ seq = r.rcvd /\ seq # r.oooHead /\ end = r.oooTail
<1>1. /\ end % SeqMod \in SeqNum /\ r.rcvd \in SeqNum /\ r.ooo \in BOOLEAN
      /\ r.oooHead \in SeqNum /\ r.oooTail \in SeqNum
  <2>1. end \in Int
    BY RxAssumption DEF SeqNum
  <2> QED
    BY <2>1, NumberTypes DEF SarEntry
<1>2. o = CASE C1 -> Keep(Query(end % SeqMod, FALSE, end % SeqMod, end % SeqMod), len)
            [] C2 -> Keep(Query(r.rcvd, TRUE, end % SeqMod, seq), 0)
            [] C3 -> Keep(Query(r.rcvd, TRUE, end % SeqMod, r.oooTail), 0)
            [] C4 -> Keep(Query(end % SeqMod, TRUE, r.oooHead, r.oooTail), len)
            [] C5 -> Keep(Query(r.oooHead, FALSE, r.oooHead, r.oooHead), FilledLength(len, r))
            [] OTHER -> [keep |-> FALSE,
                         new |-> Query(r.rcvd, r.ooo, r.oooHead, r.oooTail), notify |-> 0]
  BY DEF Outcome, Extends
<1> HIDE DEF C1, C2, C3, C4, C5, end, free, o
<1>3. CASE C1 \/ C2 \/ C3 \/ C4 \/ C5
  <2>1. \/ o = Keep(Query(end % SeqMod, FALSE, end % SeqMod, end % SeqMod), len)
        \/ o = Keep(Query(r.rcvd, TRUE, end % SeqMod, seq), 0)
        \/ o = Keep(Query(r.rcvd, TRUE, end % SeqMod, r.oooTail), 0)
        \/ o = Keep(Query(end % SeqMod, TRUE, r.oooHead, r.oooTail), len)
        \/ o = Keep(Query(r.oooHead, FALSE, r.oooHead, r.oooHead), FilledLength(len, r))
    BY <1>2, <1>3
  <2>2. /\ o.keep \in BOOLEAN /\ o.new.rcvd \in SeqNum /\ o.new.ooo \in BOOLEAN
        /\ o.new.oooHead \in SeqNum /\ o.new.oooTail \in SeqNum
    <3>1. ASSUME NEW q \in SeqNum, NEW ooo \in BOOLEAN, NEW head \in SeqNum,
                 NEW tail \in SeqNum, NEW n,
                 o = [keep |-> TRUE, notify |-> n, new |->
                        [rcvd |-> q, ooo |-> ooo, oooHead |-> head, oooTail |-> tail]]
          PROVE  /\ o.keep \in BOOLEAN /\ o.new.rcvd \in SeqNum /\ o.new.ooo \in BOOLEAN
                 /\ o.new.oooHead \in SeqNum /\ o.new.oooTail \in SeqNum
      BY <3>1
    <3> QED
      BY <1>1, <2>1, <3>1
  <2> QED
    BY <2>2 DEF o
<1>4. CASE ~(C1 \/ C2 \/ C3 \/ C4 \/ C5)
  <2>1. o = [keep |-> FALSE, new |-> Query(r.rcvd, r.ooo, r.oooHead, r.oooTail), notify |-> 0]
    BY <1>2, <1>4
  <2> QED
    BY <1>1, <2>1 DEF o
<1> QED
  BY <1>3, <1>4

\* A notification has the length by which 'rcvd' moves.
LEMMA OutcomeNotify ==
    ASSUME NoWrap, NEW rc \in Position, NEW r, EntryOK(r, rc), NEW seg, Sent(seg),
           Outcome(SeqOf(seg.pos), seg.len, r).keep
    PROVE  Outcome(SeqOf(seg.pos), seg.len, r).notify =
             Minus(Outcome(SeqOf(seg.pos), seg.len, r).new.rcvd, r.rcvd, SeqMod)
<1> DEFINE seq  == Isn + seg.pos
           end  == seq + seg.len
           free == FreeSpace(r)
           Query(q, ooo, head, tail) ==
               [rcvd |-> q, ooo |-> ooo, oooHead |-> head, oooTail |-> tail]
           Keep(q, n) == [keep |-> TRUE, new |-> q, notify |-> n]
           o    == Outcome(seq, seg.len, r)
           C1   == ~r.ooo /\ seq = r.rcvd /\ free > seg.len
           C2   == ~r.ooo /\ seq > r.rcvd /\ free > Minus(end, r.oooHead, BufSize)
           C3   == r.ooo /\ seq = r.oooHead /\ free > seg.len
           C4   == r.ooo /\ seq = r.rcvd /\ seq # r.oooHead /\ end < r.oooTail
           C5   == r.ooo /\ seq = r.rcvd /\ seq # r.oooHead /\ end = r.oooTail
<1>1. /\ SeqMod \in Nat \ {0} /\ Isn \in Nat /\ MaxPos \in Nat
      /\ seg.pos \in Nat /\ seg.len \in Nat /\ seg.pos + seg.len <= MaxPos
      /\ r.rcvd = Isn + rc /\ rc \in Nat /\ rc <= MaxPos
  BY ConstantTypes DEF Sent, Segment, Position, EntryOK
<1>2. SeqOf(seg.pos) = seq /\ end % SeqMod = end
  BY <1>1, ConstantTypes DEF Position
<1>3. o = CASE C1 -> Keep(Query(end % SeqMod, FALSE, end % SeqMod, end % SeqMod), seg.len)
            [] C2 -> Keep(Query(r.rcvd, TRUE, end % SeqMod, seq), 0)
            [] C3 -> Keep(Query(r.rcvd, TRUE, end % SeqMod, r.oooTail), 0)
            [] C4 -> Keep(Query(end % SeqMod, TRUE, r.oooHead, r.oooTail), seg.len)
            [] C5 -> Keep(Query(r.oooHead, FALSE, r.oooHead, r.oooHead), FilledLength(seg.len, r))
            [] OTHER -> [keep |-> FALSE,
                         new |-> Query(r.rcvd, r.ooo, r.oooHead, r.oooTail), notify |-> 0]
  BY DEF Outcome, Extends
<1>4. o.keep
  BY <1>2
<1> SUFFICES o.notify = Minus(o.new.rcvd, r.rcvd, SeqMod)
  BY <1>2
<1>5. seq = r.rcvd => Minus(end, r.rcvd, SeqMod) = seg.len
  BY <1>1, MinusOf
<1>6. Minus(r.rcvd, r.rcvd, SeqMod) = 0
  BY <1>1, MinusOf
<1>0. /\ C1 => ~C2 /\ ~C3 /\ ~C4 /\ ~C5
      /\ C4 => ~C1 /\ ~C2 /\ ~C3 /\ ~C5
  BY <1>1 DEF EntryOK
<1> HIDE DEF o, C1, C2, C3, C4, C5, end, seq, free
<1>7. CASE C1 \/ C4
  <2>1. o.notify = seg.len /\ o.new.rcvd = end % SeqMod
    <3>2. CASE C1
      <4>1. o = Keep(Query(end % SeqMod, FALSE, end % SeqMod, end % SeqMod), seg.len)
        BY <1>0, <1>3, <3>2
      <4> QED
        BY <4>1
    <3>3. CASE C4
      <4>1. o = Keep(Query(end % SeqMod, TRUE, r.oooHead, r.oooTail), seg.len)
        BY <1>0, <1>3, <3>3
      <4> QED
        BY <4>1
    <3> QED
      BY <1>7, <3>2, <3>3
  <2> QED
    BY <1>2, <1>5, <1>7, <2>1 DEF C1, C4
<1>8. CASE C2 \/ C3
  <2>1. o.notify = 0 /\ o.new.rcvd = r.rcvd
    BY <1>3, <1>8 DEF C1, C2, C3, C4, C5
  <2> QED
    BY <1>6, <2>1
<1>9. CASE C5 /\ ~(C1 \/ C2 \/ C3 \/ C4)
  <2>1. o.notify = FilledLength(seg.len, r) /\ o.new.rcvd = r.oooHead
    BY <1>3, <1>9
  <2> QED
    BY <2>1 DEF FilledLength
<1>10. CASE ~(C1 \/ C2 \/ C3 \/ C4 \/ C5)
  BY <1>3, <1>4, <1>10
<1> QED
  BY <1>7, <1>8, <1>9, <1>10

\* Access by access the parts of DeliveryInv.
LEMMA Streams ==
    ASSUME DeliveryInv
    PROVE  /\ payload \in Seq(Segment) /\ Len(payload) <= Depth
           /\ dropCmd \in Seq(BOOLEAN) /\ mwrData \in Seq(Segment)
           /\ Len(payload) \in Nat /\ Len(dropCmd) \in Nat /\ Len(dropCmd) <= Len(payload)
           /\ KeptOf(dropCmd, payload) \in Seq(Segment) /\ Joined \in Seq(Segment)
           /\ fsmNotif \in Seq(Nat) /\ ranFifo \in Seq(Nat)
           /\ Total(fsmNotif) \in Nat /\ Total(ranFifo) \in Nat
           /\ rcvd \in Position /\ notified \in Nat /\ ran.len \in Nat
           /\ Depth \in Nat /\ MaxPos \in Nat
<1>1. /\ payload \in Seq(Segment) /\ Len(payload) <= Depth
      /\ dropCmd \in Seq(BOOLEAN) /\ mwrData \in Seq(Segment)
  BY DEF DeliveryInv, AckedIsNotifiedOnce, TypeOK, StreamOf
<1>2. Len(payload) \in Nat /\ Len(dropCmd) \in Nat /\ Len(dropCmd) <= Len(payload)
  BY <1>1 DEF DeliveryInv, Aligned, One
<1>3. KeptOf(dropCmd, payload) \in Seq(Segment)
  BY <1>1, <1>2, KeptOfType
<1>4. Joined \in Seq(Segment)
  BY <1>1, <1>3 DEF Joined
<1>5. Depth \in Nat /\ MaxPos \in Nat
  BY RxAssumption
<1>6. fsmNotif \in Seq(Nat) /\ ranFifo \in Seq(Nat)
  <2>1. fsmNotif \in Seq(0 .. MaxPos) /\ ranFifo \in Seq(1 .. MaxPos)
    BY DEF DeliveryInv, AckedIsNotifiedOnce, TypeOK, StreamOf
  <2> QED
    BY <1>5, <2>1
<1>7. rcvd \in Position /\ notified \in Nat /\ ran.len \in Nat
  BY <1>5 DEF DeliveryInv, AckedIsNotifiedOnce, TypeOK, Position
<1> QED
  BY <1>1, <1>2, <1>3, <1>4, <1>5, <1>6, <1>7, TotalOf

\* Fsm takes a segment with its payload.
LEMMA LoadDelivery ==
    ASSUME DeliveryInv, KeptInv', NEW seg \in Segment, FsmLoad(seg)
    PROVE  DeliveryInv' /\ Joined' = Joined
<1>1. /\ fsm.pc = "load" /\ fsm' = [pc |-> "transition", seg |-> seg, sar |-> sar]
      /\ payload' = Append(payload, seg) /\ Len(payload) < Depth
      /\ arrived < MaxSegments /\ arrived' = arrived + 1
      /\ seg.pos + seg.len <= MaxPos
      /\ UNCHANGED <<sar, dropCmd, wrCmd, mwrData, memVars, ranVars, appd, rcvd, notified,
                     kept, oooSeen, uncut>>
  BY DEF FsmLoad
<1>2. Sent(seg)
  BY <1>1 DEF Sent
<1>3. TypeOK'
  <2>1. payload' \in StreamOf(Segment)
    BY <1>1, StreamPush DEF DeliveryInv, AckedIsNotifiedOnce, TypeOK
  <2>2. fsm' \in [pc : {"transition"}, seg : Segment, sar : SarEntry]
    BY <1>1 DEF DeliveryInv, AckedIsNotifiedOnce, TypeOK
  <2>3. arrived' \in 0 .. MaxSegments
    BY <1>1, RxAssumption DEF DeliveryInv, AckedIsNotifiedOnce, TypeOK
  <2> QED
    BY <1>1, <2>1, <2>2, <2>3 DEF DeliveryInv, AckedIsNotifiedOnce, TypeOK, memVars, ranVars
<1>4. AckedIsNotifiedOnce'
  BY <1>1, <1>3 DEF DeliveryInv, AckedIsNotifiedOnce, ranVars
<1>5. Joined' = Joined
  BY <1>1, Streams, KeptOfMorePayload DEF Joined
<1>6. Aligned'
  <2>1. /\ Len(payload') = Len(payload) + 1 /\ payload'[Len(payload) + 1] = seg
        /\ \A i \in 1 .. Len(payload) : payload'[i] = payload[i]
    BY <1>1, Streams
  <2>2. Len(payload') = Len(dropCmd') + One(fsm'.pc = "transition")
    BY <1>1, <2>1, Streams DEF DeliveryInv, Aligned, One
  <2>3. payload'[Len(payload')] = fsm'.seg
    BY <1>1, <2>1
  <2>4. \A i \in 1 .. Len(payload') : Sent(payload'[i])
    <3> SUFFICES ASSUME NEW i \in 1 .. Len(payload) + 1
                 PROVE  Sent(payload'[i])
      BY <2>1
    <3>1. CASE i = Len(payload) + 1
      BY <1>2, <2>1, <3>1
    <3>2. CASE i # Len(payload) + 1
      <4>1. i \in 1 .. Len(payload)
        BY <3>2, Streams
      <4> QED
        BY <2>1, <4>1 DEF DeliveryInv, Aligned
    <3> QED
      BY <3>1, <3>2
  <2>5. UNCHANGED <<mwrData, wrCmd, memWr, ran>>
    BY <1>1 DEF memVars, ranVars
  <2> QED
    BY <1>5, <2>2, <2>3, <2>4, <2>5 DEF DeliveryInv, Aligned
<1> QED
  BY <1>4, <1>5, <1>6 DEF DeliveryInv

\* Fsm decides about its segment.
LEMMA TransitionDelivery ==
    ASSUME NoWrap, DeliveryInv, KeptInv', FsmTransition
    PROVE  /\ DeliveryInv'
           /\ LET seg == fsm.seg IN
              Joined' = IF Outcome(SeqOf(seg.pos), seg.len, fsm.sar).keep
                          THEN Append(Joined, seg) ELSE Joined
<1> DEFINE seg == fsm.seg
           seq == SeqOf(seg.pos)
           o   == Outcome(seq, seg.len, fsm.sar)
<1>1. /\ fsm.pc = "transition" /\ fsm' = [pc |-> "load"]
      /\ Len(dropCmd) < Depth /\ dropCmd' = Append(dropCmd, ~o.keep)
      /\ UNCHANGED <<payload, mwrData, memVars, ranFifo, ran, appd, notified, uncut, arrived>>
  BY DEF FsmTransition
<1>2. \/ /\ o.keep
         /\ Len(wrCmd) < Depth /\ Len(fsmNotif) < Depth
         /\ sar' = [appd |-> sar.appd, rcvd |-> o.new.rcvd, ooo |-> o.new.ooo,
                    oooHead |-> o.new.oooHead, oooTail |-> o.new.oooTail]
         /\ wrCmd' = Append(wrCmd, [seq |-> seq, len |-> seg.len])
         /\ fsmNotif' = Append(fsmNotif, o.notify)
         /\ rcvd' = rcvd + Minus(o.new.rcvd, fsm.sar.rcvd, SeqMod)
         /\ kept' = kept \cup Positions(seg)
         /\ oooSeen' = (oooSeen \/ o.new.ooo)
      \/ ~o.keep /\ UNCHANGED <<sar, wrCmd, fsmNotif, rcvd, kept, oooSeen>>
  BY DEF FsmTransition
<1>3. /\ fsm \in [pc : {"transition"}, seg : Segment, sar : SarEntry]
      /\ seg \in Segment /\ fsm.sar \in SarEntry
  BY <1>1 DEF DeliveryInv, AckedIsNotifiedOnce, TypeOK
<1>4. Sent(seg) /\ SameBlock(fsm.sar, sar) /\ EntryOK(sar, rcvd) /\ rcvd \in Position
  BY <1>1 DEF DeliveryInv, KeptInv
<1>5. EntryOK(fsm.sar, rcvd)
  BY <1>4 DEF EntryOK, SameBlock
<1>6. seq \in SeqNum /\ seg.len \in Nat /\ seg.len \in 1 .. MaxLen /\ seg.pos \in Nat
      /\ seg.pos + seg.len <= MaxPos /\ fsm.sar.rcvd \in SeqNum
  <2>1. seg.pos \in Position /\ seg.len \in 1 .. MaxLen /\ seg.pos + seg.len <= MaxPos
    BY <1>3, <1>4 DEF Segment, Sent
  <2>2. seg.pos \in Nat /\ seg.len \in Nat /\ seg.pos \in Int
    BY <2>1, RxAssumption DEF Position
  <2>3. seq \in SeqNum
    BY <2>2, NumberTypes
  <2>4. fsm.sar.rcvd \in SeqNum
    BY <1>3 DEF SarEntry
  <2> QED
    BY <2>1, <2>2, <2>3, <2>4
<1>7. /\ o.keep \in BOOLEAN /\ o.new.rcvd \in SeqNum /\ o.new.ooo \in BOOLEAN
      /\ o.new.oooHead \in SeqNum /\ o.new.oooTail \in SeqNum
  BY <1>3, <1>6, OutcomeType
<1>8. o.keep => o.notify = Minus(o.new.rcvd, fsm.sar.rcvd, SeqMod) /\ o.notify \in SeqNum
  <2>1. o.keep => o.notify = Minus(o.new.rcvd, fsm.sar.rcvd, SeqMod)
    BY <1>4, <1>5, OutcomeNotify
  <2>2. Minus(o.new.rcvd, fsm.sar.rcvd, SeqMod) \in SeqNum
    <3>1. o.new.rcvd \in Int /\ fsm.sar.rcvd \in Int
      BY <1>6, <1>7, RxAssumption DEF SeqNum
    <3> QED
      BY <3>1, NumberTypes
  <2> QED
    BY <2>1, <2>2
<1> HIDE DEF o, seq, seg
<1>9. payload[Len(dropCmd) + 1] = seg /\ Len(payload) = Len(dropCmd) + 1
  BY <1>1, Streams DEF DeliveryInv, Aligned, One, seg
<1>10. KeptOf(dropCmd', payload') =
         IF ~o.keep THEN KeptOf(dropCmd, payload) ELSE Append(KeptOf(dropCmd, payload), seg)
  <2>1. (~o.keep) \in BOOLEAN
    BY <1>7
  <2>2. Len(dropCmd) < Len(payload)
    BY <1>9, Streams
  <2> QED
    BY <1>1, <1>9, <2>1, <2>2, Streams, KeptOfMoreCommand
<1>11. dropCmd' \in StreamOf(BOOLEAN)
  <2>1. (~o.keep) \in BOOLEAN /\ dropCmd \in StreamOf(BOOLEAN)
    BY <1>7 DEF DeliveryInv, AckedIsNotifiedOnce, TypeOK
  <2> QED
    BY <1>1, <2>1, StreamPush
<1>12. fsm' \in [pc : {"load"}]
  BY <1>1
<1>13. /\ UNCHANGED <<payload, mwrData, splitSeg, memWr, memSts, mem, ranFifo, ran, appd,
                      notified, uncut, arrived>>
       /\ Len(payload') = Len(dropCmd') + One(fsm'.pc = "transition")
       /\ fsm'.pc # "transition"
  <2>1. Len(dropCmd') = Len(dropCmd) + 1
    BY <1>1, Streams
  <2>2. fsm'.pc = "load"
    BY <1>1
  <2> QED
    BY <1>1, <1>9, <2>1, <2>2, Streams DEF One, memVars
<1>14. CASE ~o.keep
  <2>1. UNCHANGED <<sar, wrCmd, fsmNotif, rcvd, kept, oooSeen>>
    BY <1>2, <1>14
  <2>2. Joined' = Joined
    BY <1>10, <1>13, <1>14 DEF Joined
  <2>3. TypeOK'
    BY <1>11, <1>12, <1>13, <2>1 DEF DeliveryInv, AckedIsNotifiedOnce, TypeOK
  <2>4. AckedIsNotifiedOnce'
    BY <1>13, <2>1, <2>3 DEF DeliveryInv, AckedIsNotifiedOnce
  <2>5. Aligned'
    BY <1>13, <2>1, <2>2 DEF DeliveryInv, Aligned
  <2> QED
    BY <1>14, <2>2, <2>4, <2>5 DEF DeliveryInv, o, seq, seg
<1>15. CASE o.keep
  <2>1. /\ Len(wrCmd) < Depth /\ Len(fsmNotif) < Depth
        /\ sar' = [appd |-> sar.appd, rcvd |-> o.new.rcvd, ooo |-> o.new.ooo,
                    oooHead |-> o.new.oooHead, oooTail |-> o.new.oooTail]
        /\ wrCmd' = Append(wrCmd, [seq |-> seq, len |-> seg.len])
        /\ fsmNotif' = Append(fsmNotif, o.notify)
        /\ rcvd' = rcvd + o.notify
        /\ kept' = kept \cup Positions(seg)
        /\ oooSeen' = (oooSeen \/ o.new.ooo)
    BY <1>2, <1>8, <1>15
  <2>2. rcvd' \in Position /\ o.notify \in Nat /\ o.notify \in 0 .. MaxPos
    <3>1. rcvd' \in Position
      BY DEF KeptInv
    <3>2. rcvd' \in Nat /\ rcvd' <= MaxPos /\ rcvd \in Nat
      BY <1>4, <3>1, RxAssumption DEF Position
    <3>3. o.notify \in Nat
      BY <1>8, <1>15, RxAssumption DEF SeqNum
    <3>4. rcvd' = rcvd + o.notify
      BY <2>1
    <3>5. o.notify <= MaxPos
      BY <3>2, <3>3, <3>4, RxAssumption
    <3> QED
      BY <3>1, <3>3, <3>5, RxAssumption
  <2>3. fsmNotif' \in StreamOf(0 .. MaxPos)
    BY <2>1, <2>2, StreamPush DEF DeliveryInv, AckedIsNotifiedOnce, TypeOK
  <2>4. wrCmd' \in StreamOf([seq : SeqNum, len : 1 .. MaxLen])
    <3>1. [seq |-> seq, len |-> seg.len] \in [seq : SeqNum, len : 1 .. MaxLen]
      BY <1>6
    <3> QED
      BY <2>1, <3>1, StreamPush DEF DeliveryInv, AckedIsNotifiedOnce, TypeOK
  <2>5. sar' \in SarEntry /\ oooSeen' \in BOOLEAN
    BY <1>7, <2>1 DEF DeliveryInv, AckedIsNotifiedOnce, TypeOK, SarEntry
  <2>6. kept' \subseteq Position
    <3>1. Positions(seg) \subseteq Position
      BY <1>6, RxAssumption DEF Positions, Position
    <3> QED
      BY <2>1, <3>1 DEF DeliveryInv, AckedIsNotifiedOnce, TypeOK
  <2>7. TypeOK'
    BY <1>11, <1>12, <1>13, <2>2, <2>3, <2>4, <2>5, <2>6
       DEF DeliveryInv, AckedIsNotifiedOnce, TypeOK
  <2>8. Total(fsmNotif') = Total(fsmNotif) + o.notify
    BY <2>1, <2>2, Streams, TotalAppend
  <2>9. AckedIsNotifiedOnce'
    <3>1. rcvd = notified + ran.len + Total(ranFifo) + Total(fsmNotif)
      BY DEF DeliveryInv, AckedIsNotifiedOnce
    <3>2. rcvd' = notified' + ran'.len + Total(ranFifo') + Total(fsmNotif')
      <4>1. /\ rcvd' = rcvd + o.notify /\ Total(fsmNotif') = Total(fsmNotif) + o.notify
            /\ notified' = notified /\ ran' = ran /\ ranFifo' = ranFifo
        BY <1>13, <2>1, <2>8
      <4>2. /\ o.notify \in Nat /\ Total(fsmNotif) \in Nat /\ Total(ranFifo) \in Nat
            /\ notified \in Nat /\ ran.len \in Nat
        BY <2>2, Streams
      <4>3. rcvd + o.notify =
              notified + ran.len + Total(ranFifo) + (Total(fsmNotif) + o.notify)
        BY <3>1, <4>2
      <4> QED
        BY <4>1, <4>3
    <3> QED
      BY <2>7, <3>2 DEF AckedIsNotifiedOnce
  <2>10. Joined' = Append(Joined, seg)
    <3>1. seg \in Segment
      BY <1>3 DEF seg
    <3>2. Joined' = mwrData \o Append(KeptOf(dropCmd, payload), seg)
      BY <1>10, <1>13, <1>15 DEF Joined
    <3> QED
      BY <3>1, <3>2, Streams, ConcatLonger, Zenon DEF Joined
  <2>11. Len(wrCmd') = Len(Joined') /\ \A i \in 1 .. Len(wrCmd') : wrCmd'[i] = Command(Joined'[i])
    <3>1. wrCmd \in Seq([seq : SeqNum, len : 1 .. MaxLen])
      BY DEF DeliveryInv, AckedIsNotifiedOnce, TypeOK, StreamOf
    <3>2. Len(wrCmd) = Len(Joined) /\ \A i \in 1 .. Len(wrCmd) : wrCmd[i] = Command(Joined[i])
      BY DEF DeliveryInv, Aligned
    <3>3. [seq |-> seq, len |-> seg.len] = Command(seg)
      BY DEF Command, seq, seg
    <3>4. /\ Len(wrCmd') = Len(wrCmd) + 1 /\ wrCmd'[Len(wrCmd) + 1] = Command(seg)
          /\ \A i \in 1 .. Len(wrCmd) : wrCmd'[i] = wrCmd[i]
      BY <2>1, <3>1, <3>3
    <3>5. /\ Len(Joined') = Len(Joined) + 1 /\ Joined'[Len(Joined) + 1] = seg
          /\ \A i \in 1 .. Len(Joined) : Joined'[i] = Joined[i]
          /\ Len(Joined) \in Nat
      BY <2>10, Streams
    <3> SUFFICES ASSUME NEW i \in 1 .. Len(Joined) + 1
                 PROVE  wrCmd'[i] = Command(Joined'[i])
      BY <3>2, <3>4, <3>5
    <3>6. CASE i = Len(Joined) + 1
      BY <3>2, <3>4, <3>5, <3>6
    <3>7. CASE i # Len(Joined) + 1
      <4>1. i \in 1 .. Len(Joined)
        BY <3>5, <3>7
      <4>2. Joined'[i] = Joined[i] /\ wrCmd'[i] = wrCmd[i] /\ wrCmd[i] = Command(Joined[i])
        BY <3>2, <3>4, <3>5, <4>1
      <4> QED
        BY <4>2
    <3> QED
      BY <3>6, <3>7
  <2>12. Aligned'
    BY <1>13, <2>11 DEF DeliveryInv, Aligned
  <2> QED
    BY <1>15, <2>9, <2>10, <2>12 DEF DeliveryInv, o, seq, seg
<1> QED
  BY <1>7, <1>14, <1>15

\* Concatenation, seen from the first element and from the seam.
LEMMA ConcatShift ==
    ASSUME NEW s \in Seq(Segment), NEW t \in Seq(Segment), NEW e \in Segment
    PROVE  s \o (<<e>> \o t) = Append(s, e) \o t
OBVIOUS

LEMMA ConcatHead ==
    ASSUME NEW s \in Seq(Segment), NEW t \in Seq(Segment), s # <<>>
    PROVE  /\ Tail(s) \o t = Tail(s \o t)
           /\ s \o t \in Seq(Segment) /\ Len(s \o t) > 0 /\ (s \o t)[1] = Head(s)
<1>1. Len(s) \in Nat /\ Len(s) > 0 /\ Tail(s) \in Seq(Segment) /\ Len(t) \in Nat
  OBVIOUS
<1>2. s \o t \in Seq(Segment) /\ Len(s \o t) > 0 /\ (s \o t)[1] = Head(s)
  BY <1>1
<1>3. Tail(s) \o t = Tail(s \o t)
  BY <1>1, <1>2
<1> QED
  BY <1>2, <1>3

\* A sequence that is not empty has a first element and a rest.
LEMMA NotEmpty ==
    ASSUME NEW V, NEW s \in Seq(V), s # <<>>
    PROVE  /\ Len(s) \in Nat /\ Len(s) > 0 /\ Head(s) = s[1] /\ Head(s) \in V
           /\ Tail(s) \in Seq(V) /\ Len(Tail(s)) = Len(s) - 1
           /\ \A i \in 1 .. Len(s) - 1 : Tail(s)[i] = s[i + 1]
OBVIOUS

\* Tsd carries out the first command on the first payload.
LEMMA TsdDelivery ==
    ASSUME DeliveryInv, KeptInv', Tsd
    PROVE  DeliveryInv' /\ Joined' = Joined
<1> DEFINE K == KeptOf(Tail(dropCmd), Tail(payload))
           h == Head(payload)
<1>1. /\ dropCmd # <<>> /\ payload # <<>>
      /\ dropCmd' = Tail(dropCmd) /\ payload' = Tail(payload)
      /\ UNCHANGED <<sar, fsm, wrCmd, memVars, ranVars, hisVars>>
      /\ \/ Head(dropCmd) /\ mwrData' = mwrData
         \/ ~Head(dropCmd) /\ Len(mwrData) < Depth /\ mwrData' = Append(mwrData, h)
  BY DEF Tsd
<1>2. /\ Tail(dropCmd) \in Seq(BOOLEAN) /\ Tail(payload) \in Seq(Segment) /\ h \in Segment
      /\ Len(Tail(dropCmd)) = Len(dropCmd) - 1 /\ Len(Tail(payload)) = Len(payload) - 1
      /\ \A i \in 1 .. Len(payload) - 1 : Tail(payload)[i] = payload[i + 1]
      /\ h = payload[1]
  <2>1. dropCmd \in Seq(BOOLEAN) /\ payload \in Seq(Segment)
    BY Streams
  <2>2. dropCmd # <<>> /\ payload # <<>>
    BY <1>1
  <2>3. Tail(dropCmd) \in Seq(BOOLEAN) /\ Len(Tail(dropCmd)) = Len(dropCmd) - 1
    BY <2>1, <2>2, NotEmpty
  <2> QED
    BY <2>1, <2>2, <2>3, NotEmpty
<1>0. /\ Len(payload) \in Nat /\ Len(dropCmd) \in Nat /\ Len(dropCmd) > 0 /\ Len(payload) > 0
      /\ Len(payload) = Len(dropCmd) + One(fsm.pc = "transition")
      /\ fsm' = fsm
  <2>1. dropCmd \in Seq(BOOLEAN) /\ payload \in Seq(Segment)
    BY Streams
  <2>2. Len(payload) \in Nat /\ Len(dropCmd) \in Nat /\ Len(dropCmd) > 0 /\ Len(payload) > 0
    <3>1. dropCmd # <<>> /\ payload # <<>>
      BY <1>1
    <3> QED
      BY <2>1, <3>1, NotEmpty
  <2> QED
    BY <1>1, <2>2 DEF DeliveryInv, Aligned
<1>3. K \in Seq(Segment)
  <2>1. Len(Tail(dropCmd)) <= Len(Tail(payload))
    BY <1>2, Streams
  <2> QED
    BY <1>2, <2>1, KeptOfType
<1>4. KeptOf(dropCmd, payload) = IF Head(dropCmd) THEN K ELSE <<h>> \o K
  BY <1>1, Streams, KeptOfFirst
<1> HIDE DEF K, h
<1>5. KeptOf(dropCmd', payload') = K
  BY <1>1 DEF K
<1>6. Joined' = Joined
  <2>1. CASE Head(dropCmd)
    BY <1>1, <1>4, <1>5, <2>1 DEF Joined
  <2>2. CASE ~Head(dropCmd)
    <3>1. mwrData \o (<<h>> \o K) = Append(mwrData, h) \o K
      BY <1>2, <1>3, Streams, ConcatShift
    <3> QED
      BY <1>1, <1>4, <1>5, <2>2, <3>1 DEF Joined
  <2> QED
    BY <2>1, <2>2
<1>7. mwrData' \in StreamOf(Segment)
  <2>1. mwrData \in StreamOf(Segment)
    BY DEF DeliveryInv, AckedIsNotifiedOnce, TypeOK
  <2> QED
    BY <1>1, <1>2, <2>1, StreamPush
<1>8. dropCmd' \in StreamOf(BOOLEAN) /\ payload' \in StreamOf(Segment)
  BY <1>1, StreamPop DEF DeliveryInv, AckedIsNotifiedOnce, TypeOK
<1>9. TypeOK'
  BY <1>1, <1>7, <1>8
     DEF DeliveryInv, AckedIsNotifiedOnce, TypeOK, memVars, ranVars, hisVars
<1>10. AckedIsNotifiedOnce'
  BY <1>1, <1>9 DEF DeliveryInv, AckedIsNotifiedOnce, ranVars, hisVars
<1>11. Aligned'
  <2>1. Len(payload') = Len(dropCmd') + One(fsm'.pc = "transition")
    <3>1. Len(payload') = Len(payload) - 1 /\ Len(dropCmd') = Len(dropCmd) - 1
      BY <1>1, <1>2
    <3> QED
      BY <1>0, <3>1 DEF One
  <2>2. ASSUME fsm'.pc = "transition"
        PROVE  payload'[Len(payload')] = fsm'.seg
    <3>1. fsm.pc = "transition" /\ fsm' = fsm
      BY <1>1, <2>2
    <3>2. Len(payload) = Len(dropCmd) + 1 /\ Len(dropCmd) > 0
      BY <1>0, <3>1 DEF One
    <3>3. Len(payload) - 1 \in 1 .. Len(payload) - 1 /\ Len(payload) - 1 + 1 = Len(payload)
      BY <3>2, Streams
    <3>4. Tail(payload)[Len(payload) - 1] = payload[Len(payload)]
      BY <1>2, <3>3
    <3> QED
      BY <1>1, <1>2, <3>1, <3>4 DEF DeliveryInv, Aligned
  <2>3. \A i \in 1 .. Len(payload') : Sent(payload'[i])
    <3> SUFFICES ASSUME NEW i \in 1 .. Len(payload) - 1
                 PROVE  Sent(payload[i + 1])
      BY <1>1, <1>2
    <3>1. i + 1 \in 1 .. Len(payload)
      BY Streams
    <3> QED
      BY <3>1 DEF DeliveryInv, Aligned
  <2>4. \A i \in 1 .. Len(mwrData') : Sent(mwrData'[i])
    <3>1. CASE mwrData' = mwrData
      BY <3>1 DEF DeliveryInv, Aligned
    <3>2. CASE mwrData' = Append(mwrData, h)
      <4>1. Sent(h)
        <5>1. 1 \in 1 .. Len(payload)
          BY <1>0
        <5> QED
          BY <1>2, <5>1 DEF DeliveryInv, Aligned
      <4>2. /\ Len(mwrData') = Len(mwrData) + 1 /\ mwrData'[Len(mwrData) + 1] = h
            /\ \A i \in 1 .. Len(mwrData) : mwrData'[i] = mwrData[i]
            /\ Len(mwrData) \in Nat
        BY <3>2, Streams
      <4>3. \A i \in 1 .. Len(mwrData) : Sent(mwrData[i])
        BY DEF DeliveryInv, Aligned
      <4> SUFFICES ASSUME NEW i \in 1 .. Len(mwrData) + 1
                   PROVE  Sent(mwrData'[i])
        BY <4>2
      <4> QED
        BY <4>1, <4>2, <4>3
    <3> QED
      BY <1>1, <3>1, <3>2
  <2>5. UNCHANGED <<wrCmd, memWr, ran>>
    BY <1>1 DEF memVars, ranVars
  <2> QED
    BY <1>6, <2>1, <2>2, <2>3, <2>4, <2>5 DEF DeliveryInv, Aligned
<1> QED
  BY <1>6, <1>10, <1>11 DEF DeliveryInv

\* The accesses of a segment stay within the buffer and within what the peer
\* sends.
LEMMA AccessTypes ==
    ASSUME NEW seg, Sent(seg)
    PROVE  LET a == Accesses(Command(seg), seg) IN
           /\ a \in Seq([cell : 0 .. BufSize - 1, pos : Position, len : 1 .. MaxLen])
           /\ \A i \in 1 .. Len(a) : a[i].pos + a[i].len <= MaxPos
<1> DEFINE V     == [cell : 0 .. BufSize - 1, pos : Position, len : 1 .. MaxLen]
           cell  == Cell(SeqOf(seg.pos))
           first == BufSize - cell
           a     == Accesses(Command(seg), seg)
           whole == [cell |-> cell, pos |-> seg.pos, len |-> seg.len]
           upper == [cell |-> cell, pos |-> seg.pos, len |-> first]
           lower == [cell |-> 0, pos |-> seg.pos + first, len |-> seg.len - first]
<1>1. /\ seg.pos \in Nat /\ seg.len \in Nat /\ seg.len >= 1 /\ seg.len <= MaxLen
      /\ seg.pos + seg.len <= MaxPos
      /\ MaxPos \in Nat /\ MaxLen \in Nat /\ BufSize \in Nat /\ BufSize > 0
  BY RxAssumption DEF Sent, Segment, Position
<1>2. cell \in Nat /\ cell <= BufSize - 1
  <2>1. SeqOf(seg.pos) \in Int
    <3>1. seg.pos \in Int
      BY <1>1
    <3>2. SeqOf(seg.pos) \in SeqNum
      BY <3>1, NumberTypes
    <3> QED
      BY <3>2, RxAssumption DEF SeqNum
  <2>2. cell \in 0 .. BufSize - 1
    BY <2>1, NumberTypes
  <2> QED
    BY <1>1, <2>2
<1>3. a = IF cell + seg.len > BufSize THEN <<upper, lower>> ELSE <<whole>>
  BY DEF Accesses, Splits, Command
<1> HIDE DEF cell, a
<1>4. CASE cell + seg.len > BufSize
  <2>1. a = <<upper, lower>>
    BY <1>3, <1>4
  <2>2. first \in Nat /\ first >= 1 /\ first < seg.len
    BY <1>1, <1>2, <1>4
  <2>3. upper \in V /\ upper.pos + upper.len <= MaxPos
    BY <1>1, <1>2, <2>2 DEF Position
  <2>4. lower \in V /\ lower.pos + lower.len <= MaxPos
    BY <1>1, <1>2, <2>2 DEF Position
  <2> HIDE DEF upper, lower, V
  <2>5. a \in Seq(V) /\ Len(a) = 2 /\ a[1] = upper /\ a[2] = lower
    BY <2>1, <2>3, <2>4
  <2>6. \A i \in 1 .. Len(a) : a[i].pos + a[i].len <= MaxPos
    BY <2>3, <2>4, <2>5
  <2> QED
    BY <2>5, <2>6 DEF V, a
<1>5. CASE ~(cell + seg.len > BufSize)
  <2>1. a = <<whole>>
    BY <1>3, <1>5
  <2>2. whole \in V /\ whole.pos + whole.len <= MaxPos
    BY <1>1, <1>2 DEF Position
  <2> HIDE DEF whole, V
  <2>3. a \in Seq(V) /\ Len(a) = 1 /\ a[1] = whole
    BY <2>1, <2>2
  <2>4. \A i \in 1 .. Len(a) : a[i].pos + a[i].len <= MaxPos
    BY <2>2, <2>3
  <2> QED
    BY <2>3, <2>4 DEF V, a
<1> QED
  BY <1>4, <1>5

\* Mwr joins the first command with the first payload.
LEMMA MwrDelivery ==
    ASSUME DeliveryInv, KeptInv', Mwr \/ MwrUncut
    PROVE  /\ DeliveryInv'
           /\ Joined # <<>> /\ Joined' = Tail(Joined) /\ Joined[1] = Head(mwrData)
           /\ Head(wrCmd) = Command(Head(mwrData)) /\ Sent(Head(mwrData))
<1> DEFINE A == [cell : 0 .. BufSize - 1, pos : Position, len : 1 .. MaxLen]
           K == KeptOf(dropCmd, payload)
           seg == Head(mwrData)
           new == Accesses(Command(seg), seg)
<1>1. /\ wrCmd # <<>> /\ mwrData # <<>>
      /\ Len(splitSeg) < Depth /\ splitSeg' \in {Append(splitSeg, Splits(Head(wrCmd))), Append(splitSeg, TRUE)}
      /\ memWr' \in {memWr \o Accesses(Head(wrCmd), seg), Append(memWr, Accesses(Head(wrCmd), seg)[1])}
      /\ wrCmd' = Tail(wrCmd) /\ mwrData' = Tail(mwrData)
      /\ uncut' \in {uncut, TRUE}
      /\ UNCHANGED <<sar, fsm, payload, dropCmd, memSts, mem, ranVars, appd, rcvd, notified, kept,
                     oooSeen, arrived>>
  BY DEF Mwr, MwrUncut, hisVars
<1>2. /\ mwrData \in Seq(Segment) /\ K \in Seq(Segment) /\ Joined \in Seq(Segment)
      /\ wrCmd \in Seq([seq : SeqNum, len : 1 .. MaxLen])
  <2>1. wrCmd \in Seq([seq : SeqNum, len : 1 .. MaxLen])
    BY DEF DeliveryInv, AckedIsNotifiedOnce, TypeOK, StreamOf
  <2> QED
    BY <2>1, Streams
<1>3. /\ seg = mwrData[1] /\ seg \in Segment
      /\ \A i \in 1 .. Len(mwrData) - 1 : Tail(mwrData)[i] = mwrData[i + 1]
      /\ Len(mwrData) \in Nat /\ Len(mwrData) > 0 /\ Len(Tail(mwrData)) = Len(mwrData) - 1
  <2>1. mwrData # <<>>
    BY <1>1
  <2> QED
    BY <1>2, <2>1, NotEmpty
<1>4. /\ Head(wrCmd) = wrCmd[1] /\ Len(wrCmd) \in Nat /\ Len(wrCmd) > 0
      /\ Len(Tail(wrCmd)) = Len(wrCmd) - 1
      /\ \A i \in 1 .. Len(wrCmd) - 1 : Tail(wrCmd)[i] = wrCmd[i + 1]
  <2>1. wrCmd # <<>>
    BY <1>1
  <2> QED
    BY <1>2, <2>1, NotEmpty
<1>5. Joined' = Tail(Joined) /\ Len(Joined) > 0 /\ Joined[1] = seg
  <2>1. mwrData # <<>>
    BY <1>1
  <2>2. Joined' = Tail(mwrData) \o K
    BY <1>1 DEF Joined
  <2> QED
    BY <1>2, <2>1, <2>2, ConcatHead DEF Joined
<1>6. Sent(seg) /\ Head(wrCmd) = Command(seg)
  <2>1. 1 \in 1 .. Len(mwrData) /\ 1 \in 1 .. Len(wrCmd)
    BY <1>3, <1>4
  <2> QED
    BY <1>3, <1>4, <1>5, <2>1 DEF DeliveryInv, Aligned
<1>7. memWr' \in {memWr \o new, Append(memWr, new[1])}
  BY <1>1, <1>6
<1>8. /\ new \in Seq(A) /\ \A i \in 1 .. Len(new) : new[i].pos + new[i].len <= MaxPos
      /\ 1 \in 1 .. Len(new)
  <2>1. 1 \in 1 .. Len(new)
    BY DEF Accesses
  <2> QED
    BY <1>6, <2>1, AccessTypes
<1>9. memWr \in Seq(A) /\ \A i \in 1 .. Len(memWr) : memWr[i].pos + memWr[i].len <= MaxPos
  BY DEF DeliveryInv, AckedIsNotifiedOnce, TypeOK, Aligned
<1> HIDE DEF A, new, K, seg
<1>10. memWr' \in Seq(A) /\ \A i \in 1 .. Len(memWr') : memWr'[i].pos + memWr'[i].len <= MaxPos
  <2>1. new[1] \in A /\ new[1].pos + new[1].len <= MaxPos
    BY <1>8
  <2>2. CASE memWr' = memWr \o new
    BY <1>8, <1>9, <2>2
  <2>3. CASE memWr' = Append(memWr, new[1])
    BY <1>9, <2>1, <2>3
  <2> QED
    BY <1>7, <2>2, <2>3
<1>11. TypeOK'
  <2>1. splitSeg' \in StreamOf(BOOLEAN)
    <3>1. Splits(Head(wrCmd)) \in BOOLEAN
      BY DEF Splits
    <3>2. splitSeg \in StreamOf(BOOLEAN)
      BY DEF DeliveryInv, AckedIsNotifiedOnce, TypeOK
    <3> QED
      BY <1>1, <3>1, <3>2, StreamPush
  <2>2. wrCmd' \in StreamOf([seq : SeqNum, len : 1 .. MaxLen]) /\ mwrData' \in StreamOf(Segment)
    BY <1>1, StreamPop DEF DeliveryInv, AckedIsNotifiedOnce, TypeOK
  <2> QED
    BY <1>1, <1>10, <2>1, <2>2
       DEF A, DeliveryInv, AckedIsNotifiedOnce, TypeOK, ranVars
<1>12. AckedIsNotifiedOnce'
  BY <1>1, <1>11 DEF DeliveryInv, AckedIsNotifiedOnce, ranVars
<1>13. Aligned'
  <2>1. \A i \in 1 .. Len(mwrData') : Sent(mwrData'[i])
    <3> SUFFICES ASSUME NEW i \in 1 .. Len(mwrData) - 1
                 PROVE  Sent(mwrData[i + 1])
      BY <1>1, <1>3
    <3>1. i + 1 \in 1 .. Len(mwrData)
      BY <1>3
    <3> QED
      BY <3>1 DEF DeliveryInv, Aligned
  <2>2. /\ Len(Joined') = Len(Joined) - 1 /\ Len(Joined) \in Nat
        /\ \A i \in 1 .. Len(Joined) - 1 : Joined'[i] = Joined[i + 1]
    <3>1. Joined # <<>> /\ Joined' = Tail(Joined)
      BY <1>2, <1>5
    <3> QED
      BY <1>2, <3>1, NotEmpty
  <2>3. Len(wrCmd) = Len(Joined) /\ \A i \in 1 .. Len(wrCmd) : wrCmd[i] = Command(Joined[i])
    BY DEF DeliveryInv, Aligned
  <2>4. Len(wrCmd') = Len(Joined') /\ \A i \in 1 .. Len(wrCmd') : wrCmd'[i] = Command(Joined'[i])
    <3>1. wrCmd' = Tail(wrCmd) /\ Len(wrCmd') = Len(Joined')
      BY <1>1, <1>4, <2>2, <2>3
    <3> SUFFICES ASSUME NEW i \in 1 .. Len(wrCmd) - 1
                 PROVE  wrCmd'[i] = Command(Joined'[i])
      BY <1>4, <3>1
    <3>2. i + 1 \in 1 .. Len(wrCmd)
      BY <1>4
    <3>3. wrCmd'[i] = wrCmd[i + 1] /\ Joined'[i] = Joined[i + 1]
      BY <1>4, <2>2, <2>3, <3>1
    <3> QED
      BY <2>3, <3>2, <3>3
  <2>5. UNCHANGED <<fsm, payload, dropCmd, ran>>
    BY <1>1 DEF ranVars
  <2> QED
    BY <1>10, <2>1, <2>4, <2>5 DEF DeliveryInv, Aligned
<1> QED
  BY <1>2, <1>5, <1>6, <1>12, <1>13 DEF DeliveryInv, seg

\* MEM completes its first access.
LEMMA MemWriteDelivery ==
    ASSUME DeliveryInv, KeptInv', MemWrite
    PROVE  DeliveryInv'
<1> DEFINE A == [cell : 0 .. BufSize - 1, pos : Position, len : 1 .. MaxLen]
           w == Head(memWr)
<1>1. /\ memWr # <<>> /\ memWr' = Tail(memWr) /\ memSts' = memSts + 1
      /\ mem' = [c \in DOMAIN mem |-> IF c \in w.cell .. w.cell + w.len - 1
                                       THEN w.pos + (c - w.cell) ELSE mem[c]]
      /\ UNCHANGED <<rxVars, splitSeg, ranVars, hisVars>>
  BY DEF MemWrite
<1>2. memWr \in Seq(A) /\ \A i \in 1 .. Len(memWr) : memWr[i].pos + memWr[i].len <= MaxPos
  BY DEF DeliveryInv, AckedIsNotifiedOnce, TypeOK, Aligned
<1>3. /\ w = memWr[1] /\ w \in A /\ Tail(memWr) \in Seq(A)
      /\ \A i \in 1 .. Len(memWr) - 1 : Tail(memWr)[i] = memWr[i + 1]
      /\ Len(memWr) \in Nat /\ Len(memWr) > 0 /\ Len(Tail(memWr)) = Len(memWr) - 1
  <2>1. memWr # <<>>
    BY <1>1
  <2> HIDE DEF A
  <2> QED
    BY <1>2, <2>1, NotEmpty
<1>4. mem' \in [0 .. BufSize - 1 -> 0 .. Empty]
  <2>1. mem \in [0 .. BufSize - 1 -> 0 .. Empty] /\ MaxPos \in Nat
    BY RxAssumption DEF DeliveryInv, AckedIsNotifiedOnce, TypeOK
  <2>2. w.pos + w.len <= MaxPos
    <3>1. 1 \in 1 .. Len(memWr)
      BY <1>3
    <3> QED
      BY <1>2, <1>3, <3>1
  <2>3. w.cell \in Nat /\ w.pos \in Nat /\ w.len \in Nat
    BY <1>3, RxAssumption DEF Position
  <2> SUFFICES ASSUME NEW c \in 0 .. BufSize - 1
               PROVE  (IF c \in w.cell .. w.cell + w.len - 1
                         THEN w.pos + (c - w.cell) ELSE mem[c]) \in 0 .. Empty
    BY <1>1, <2>1
  <2>4. c \in Int
    BY RxAssumption
  <2>5. CASE c \in w.cell .. w.cell + w.len - 1
    <3> DEFINE n == w.pos + (c - w.cell)
    <3>1. c >= w.cell /\ c <= w.cell + w.len - 1
      BY <2>3, <2>4, <2>5
    <3>2. n \in Nat /\ n <= MaxPos + 1
      BY SMTT(40), <2>1, <2>2, <2>3, <2>4, <3>1
    <3> QED
      BY <2>1, <2>5, <3>2 DEF Empty
  <2>6. CASE c \notin w.cell .. w.cell + w.len - 1
    BY <2>1, <2>6
  <2> QED
    BY <2>5, <2>6
<1> HIDE DEF A, w
<1>5. TypeOK'
  <2>1. memSts' \in Nat
    BY <1>1 DEF DeliveryInv, AckedIsNotifiedOnce, TypeOK
  <2> QED
    BY <1>1, <1>3, <1>4, <2>1
       DEF A, DeliveryInv, AckedIsNotifiedOnce, TypeOK, rxVars, ranVars, hisVars
<1>6. AckedIsNotifiedOnce'
  BY <1>1, <1>5 DEF DeliveryInv, AckedIsNotifiedOnce, ranVars, hisVars
<1>7. Aligned'
  <2>1. \A i \in 1 .. Len(memWr') : memWr'[i].pos + memWr'[i].len <= MaxPos
    <3> SUFFICES ASSUME NEW i \in 1 .. Len(memWr) - 1
                 PROVE  memWr[i + 1].pos + memWr[i + 1].len <= MaxPos
      BY <1>1, <1>3
    <3>1. i + 1 \in 1 .. Len(memWr)
      BY <1>3
    <3> QED
      BY <1>2, <3>1
  <2>2. Joined' = Joined
    BY <1>1 DEF Joined, rxVars
  <2> QED
    BY <1>1, <2>1, <2>2 DEF DeliveryInv, Aligned, rxVars, ranVars
<1> QED
  BY <1>6, <1>7 DEF DeliveryInv

\* Ran: what it takes from one place it adds to the next.
LEMMA RanSecondDelivery ==
    ASSUME DeliveryInv, KeptInv', RanSecond
    PROVE  DeliveryInv'
<1>1. /\ memSts > 0 /\ memSts' = memSts - 1 /\ notified' = notified + ran.len
      /\ ran' = [double |-> FALSE, len |-> 0]
      /\ UNCHANGED <<rxVars, splitSeg, memWr, mem, fsmNotif, ranFifo, appd, rcvd,
                     kept, oooSeen, uncut, arrived>>
  BY DEF RanSecond
<1>2. /\ rcvd = notified + ran.len + Total(ranFifo) + Total(fsmNotif)
      /\ rcvd <= MaxPos /\ MaxPos \in Nat /\ rcvd \in Nat
      /\ notified \in Nat /\ ran.len \in Nat /\ Total(ranFifo) \in Nat /\ Total(fsmNotif) \in Nat
  <2>1. rcvd \in Position
    BY Streams
  <2> QED
    BY <2>1, Streams DEF DeliveryInv, AckedIsNotifiedOnce, Position
<1>3. TypeOK'
  <2>1. notified' \in Position
    BY <1>1, <1>2 DEF Position
  <2>2. memSts' \in Nat
    BY <1>1 DEF DeliveryInv, AckedIsNotifiedOnce, TypeOK
  <2>3. ran' \in [double : BOOLEAN, len : 0 .. MaxPos]
    BY <1>1, <1>2
  <2> QED
    BY <1>1, <2>1, <2>2, <2>3 DEF DeliveryInv, AckedIsNotifiedOnce, TypeOK, rxVars
<1>4. AckedIsNotifiedOnce'
  <2>1. /\ ran'.len = 0 /\ notified' = notified + ran.len /\ rcvd' = rcvd
        /\ ranFifo' = ranFifo /\ fsmNotif' = fsmNotif
    BY <1>1
  <2>2. rcvd = (notified + ran.len) + 0 + Total(ranFifo) + Total(fsmNotif)
    BY <1>2
  <2> QED
    BY <1>3, <2>1, <2>2 DEF AckedIsNotifiedOnce
<1>5. Aligned'
  <2>1. Joined' = Joined
    BY <1>1 DEF Joined, rxVars
  <2> QED
    BY <1>1, <2>1 DEF DeliveryInv, Aligned, rxVars
<1> QED
  BY <1>4, <1>5 DEF DeliveryInv

LEMMA RanFirstDelivery ==
    ASSUME DeliveryInv, KeptInv', RanFirst
    PROVE  DeliveryInv'
<1> DEFINE n == Head(ranFifo)
<1>1. /\ ~ran.double /\ memSts > 0 /\ splitSeg # <<>> /\ ranFifo # <<>>
      /\ memSts' = memSts - 1 /\ splitSeg' = Tail(splitSeg) /\ ranFifo' = Tail(ranFifo)
      /\ \/ ran' = [double |-> TRUE, len |-> n] /\ notified' = notified
         \/ notified' = notified + n /\ ran' = ran
      /\ UNCHANGED <<rxVars, memWr, mem, fsmNotif, appd, rcvd, kept, oooSeen, uncut, arrived>>
  BY DEF RanFirst, StatusThere
<1>2. /\ ran.len = 0 /\ rcvd = notified + ran.len + Total(ranFifo) + Total(fsmNotif)
      /\ rcvd <= MaxPos /\ MaxPos \in Nat /\ rcvd \in Nat
      /\ notified \in Nat /\ Total(fsmNotif) \in Nat
  <2>1. rcvd \in Position
    BY Streams
  <2> QED
    BY SMTT(40), <1>1, <2>1, Streams DEF DeliveryInv, AckedIsNotifiedOnce, Aligned, Position
<1>3. /\ Total(ranFifo) = n + Total(Tail(ranFifo)) /\ n \in Nat
      /\ Total(Tail(ranFifo)) \in Nat
  <2>1. ranFifo \in Seq(Nat) /\ ranFifo # <<>>
    BY <1>1, Streams
  <2>2. Tail(ranFifo) \in Seq(Nat) /\ Head(ranFifo) \in Nat
    BY <2>1, NotEmpty
  <2> QED
    BY <2>1, <2>2, TotalFirst, TotalOf
<1> HIDE DEF n
<1>4. TypeOK'
  <2>1. notified' \in Position
    BY <1>1, <1>2, <1>3 DEF Position
  <2>2. memSts' \in Nat
    BY <1>1 DEF DeliveryInv, AckedIsNotifiedOnce, TypeOK
  <2>3. ran' \in [double : BOOLEAN, len : 0 .. MaxPos]
    <3>1. n \in 0 .. MaxPos
      BY <1>2, <1>3
    <3>2. [double |-> TRUE, len |-> n] \in [double : BOOLEAN, len : 0 .. MaxPos]
      BY <3>1
    <3>3. ran \in [double : BOOLEAN, len : 0 .. MaxPos]
      BY DEF DeliveryInv, AckedIsNotifiedOnce, TypeOK
    <3>4. ran' = [double |-> TRUE, len |-> n] \/ ran' = ran
      BY <1>1
    <3> QED
      BY <3>2, <3>3, <3>4
  <2>4. ranFifo' \in StreamOf(1 .. MaxPos) /\ splitSeg' \in StreamOf(BOOLEAN)
    BY <1>1, StreamPop DEF DeliveryInv, AckedIsNotifiedOnce, TypeOK
  <2> QED
    BY <1>1, <2>1, <2>2, <2>3, <2>4 DEF DeliveryInv, AckedIsNotifiedOnce, TypeOK, rxVars
<1>5. AckedIsNotifiedOnce'
  <2>1. rcvd' = rcvd /\ fsmNotif' = fsmNotif /\ ranFifo' = Tail(ranFifo)
    BY <1>1
  <2>2. notified' + ran'.len = notified + n /\ notified' \in Nat /\ ran'.len \in Nat
    BY <1>1, <1>2, <1>3, SMTT(60)
  <2>3. rcvd = notified' + ran'.len + Total(Tail(ranFifo)) + Total(fsmNotif)
    BY <1>2, <1>3, <2>2
  <2> QED
    BY <1>4, <2>1, <2>3 DEF AckedIsNotifiedOnce
<1>6. Aligned'
  <2>1. Joined' = Joined
    BY <1>1 DEF Joined, rxVars
  <2>2. ~ran'.double => ran'.len = 0
    BY <1>1, <1>2
  <2> QED
    BY <1>1, <2>1, <2>2 DEF DeliveryInv, Aligned, rxVars
<1> QED
  BY <1>5, <1>6 DEF DeliveryInv

LEMMA RanNotifDelivery ==
    ASSUME DeliveryInv, KeptInv', RanNotif
    PROVE  DeliveryInv'
<1> DEFINE n == Head(fsmNotif)
<1>1. /\ fsmNotif # <<>> /\ Len(ranFifo) < Depth /\ fsmNotif' = Tail(fsmNotif)
      /\ \/ n = 0 /\ ranFifo' = ranFifo
         \/ n # 0 /\ ranFifo' = Append(ranFifo, n)
      /\ UNCHANGED <<rxVars, memVars, ran, hisVars>>
  BY DEF RanNotif
<1>2. fsmNotif \in StreamOf(0 .. MaxPos) /\ ranFifo \in StreamOf(1 .. MaxPos)
  BY DEF DeliveryInv, AckedIsNotifiedOnce, TypeOK
<1>3. /\ n \in 0 .. MaxPos /\ n \in Nat /\ Tail(fsmNotif) \in StreamOf(0 .. MaxPos)
  <2>1. n \in 0 .. MaxPos /\ Tail(fsmNotif) \in StreamOf(0 .. MaxPos)
    BY <1>1, <1>2, StreamPop
  <2> QED
    BY <2>1, RxAssumption
<1>4. Total(fsmNotif) = n + Total(Tail(fsmNotif)) /\ Total(Tail(fsmNotif)) \in Nat
  <2>1. fsmNotif \in Seq(Nat) /\ fsmNotif # <<>>
    BY <1>1, Streams
  <2>2. Tail(fsmNotif) \in Seq(Nat)
    BY <2>1, NotEmpty
  <2> QED
    BY <2>1, <2>2, TotalFirst, TotalOf
<1>5. Total(ranFifo') = Total(ranFifo) + n /\ Total(ranFifo) \in Nat
  <2>1. ranFifo \in Seq(Nat) /\ Total(ranFifo) \in Nat
    BY Streams
  <2>2. CASE n = 0 /\ ranFifo' = ranFifo
    BY <2>1, <2>2
  <2>3. CASE n # 0 /\ ranFifo' = Append(ranFifo, n)
    BY <1>3, <2>1, <2>3, TotalAppend
  <2> QED
    BY <1>1, <2>2, <2>3
<1> HIDE DEF n
<1>6. TypeOK'
  <2>1. ranFifo' \in StreamOf(1 .. MaxPos)
    <3>1. n # 0 => n \in 1 .. MaxPos
      BY <1>3, RxAssumption
    <3>2. n # 0 => Append(ranFifo, n) \in StreamOf(1 .. MaxPos)
      BY <1>1, <1>2, <3>1, StreamPush
    <3> QED
      BY <1>1, <1>2, <3>2
  <2> QED
    BY <1>1, <1>3, <2>1
       DEF DeliveryInv, AckedIsNotifiedOnce, TypeOK, rxVars, memVars, hisVars
<1>7. AckedIsNotifiedOnce'
  <2>1. /\ rcvd' = rcvd /\ notified' = notified /\ ran' = ran
        /\ Total(fsmNotif') = Total(Tail(fsmNotif)) /\ Total(ranFifo') = Total(ranFifo) + n
    BY <1>1, <1>5 DEF hisVars
  <2>2. notified \in Nat /\ ran.len \in Nat
    BY Streams
  <2>3. rcvd = notified + ran.len + Total(ranFifo) + Total(fsmNotif)
    BY DEF DeliveryInv, AckedIsNotifiedOnce
  <2>4. rcvd = notified + ran.len + (Total(ranFifo) + n) + Total(Tail(fsmNotif))
    BY <1>3, <1>4, <1>5, <2>2, <2>3
  <2> QED
    BY <1>6, <2>1, <2>4 DEF AckedIsNotifiedOnce
<1>8. Aligned'
  <2>1. Joined' = Joined
    BY <1>1 DEF Joined, rxVars
  <2> QED
    BY <1>1, <2>1 DEF DeliveryInv, Aligned, rxVars, memVars
<1> QED
  BY <1>7, <1>8 DEF DeliveryInv

\* The application reads.
LEMMA AppReadDelivery ==
    ASSUME DeliveryInv, KeptInv', AppRead
    PROVE  DeliveryInv'
<1>1. /\ appd' = notified
      /\ sar' = [sar EXCEPT !.appd = (@ + (notified - appd)) % BufSize]
      /\ UNCHANGED <<fsm, payload, dropCmd, wrCmd, mwrData, memVars, ranVars, rcvd,
                     notified, kept, oooSeen, uncut, arrived>>
  BY DEF AppRead
<1>2. TypeOK'
  <2>1. sar' \in SarEntry
    <3>1. sar \in SarEntry
      BY DEF DeliveryInv, AckedIsNotifiedOnce, TypeOK
    <3>2. (sar.appd + (notified - appd)) % BufSize \in 0 .. BufSize - 1
      <4>1. sar.appd + (notified - appd) \in Int
        BY <3>1, RxAssumption
           DEF DeliveryInv, AckedIsNotifiedOnce, TypeOK, Position, SarEntry
      <4> QED
        BY <4>1, NumberTypes DEF Cell
    <3> QED
      BY <1>1, <3>1, <3>2 DEF SarEntry
  <2> QED
    BY <1>1, <2>1 DEF DeliveryInv, AckedIsNotifiedOnce, TypeOK, memVars, ranVars
<1>3. AckedIsNotifiedOnce'
  BY <1>1, <1>2 DEF DeliveryInv, AckedIsNotifiedOnce, ranVars
<1>4. Aligned'
  <2>1. Joined' = Joined
    BY <1>1 DEF Joined
  <2> QED
    BY <1>1, <2>1 DEF DeliveryInv, Aligned, memVars, ranVars
<1> QED
  BY <1>3, <1>4 DEF DeliveryInv

LEMMA NextDelivery == NoWrap /\ DeliveryInv /\ [Next]_vars => DeliveryInv'
<1> SUFFICES ASSUME NoWrap, DeliveryInv, [Next]_vars
             PROVE  DeliveryInv'
  OBVIOUS
<1>0. KeptInv'
  BY NextKept DEF DeliveryInv
<1>1. ASSUME NEW seg \in Segment, FsmLoad(seg)
      PROVE  DeliveryInv'
  BY <1>0, <1>1, LoadDelivery
<1>2. CASE FsmTransition
  BY <1>0, <1>2, TransitionDelivery
<1>3. CASE Tsd
  BY <1>0, <1>3, TsdDelivery
<1>4. CASE Mwr \/ MwrUncut
  BY <1>0, <1>4, MwrDelivery
<1>5. CASE MemWrite
  BY <1>0, <1>5, MemWriteDelivery
<1>6. CASE RanSecond
  BY <1>0, <1>6, RanSecondDelivery
<1>7. CASE RanFirst
  BY <1>0, <1>7, RanFirstDelivery
<1>8. CASE RanNotif
  BY <1>0, <1>8, RanNotifDelivery
<1>9. CASE AppRead
  BY <1>0, <1>9, AppReadDelivery
<1>10. CASE UNCHANGED vars
  BY <1>0, <1>10 DEF DeliveryInv, AckedIsNotifiedOnce, TypeOK, Aligned, Joined,
                     vars, rxVars, memVars, ranVars, hisVars
<1> QED
  BY <1>1, <1>2, <1>3, <1>4, <1>5, <1>6, <1>7, <1>8, <1>9, <1>10 DEF Next, Ran

LEMMA InitDelivery == NoWrap /\ Init => DeliveryInv
<1> SUFFICES ASSUME NoWrap, Init
             PROVE  DeliveryInv
  OBVIOUS
<1>1. /\ SeqMod \in Nat \ {0} /\ BufSize \in Nat /\ BufSize > 1 /\ Isn \in SeqNum /\ Isn \in Nat
      /\ Depth \in Nat /\ MaxPos \in Nat /\ MaxSegments \in Nat
  BY RxAssumption DEF SeqNum
<1>2. KeptInv
  BY ConstantTypes DEF Init, KeptInv, EntryOK, Position
<1>3. /\ Total(<<>>) = 0 /\ KeptOf(<<>>, <<>>) = <<>>
  <2>1. <<>> \in Seq(BOOLEAN) /\ <<>> \in Seq(Segment) /\ Len(<<>>) <= Len(<<>>)
    OBVIOUS
  <2> QED
    BY <2>1, TotalOf, KeptOfType
<1>4. TypeOK
  <2>1. sar \in SarEntry
    <3>1. Cell(Isn) \in 0 .. BufSize - 1
      BY <1>1, NumberTypes
    <3> QED
      BY <1>1, <3>1 DEF Init, SarEntry
  <2>2. mem \in [0 .. BufSize - 1 -> 0 .. Empty]
    BY <1>1 DEF Init, Empty
  <2>3. ran \in [double : BOOLEAN, len : 0 .. MaxPos] /\ 0 \in Position /\ 0 \in 0 .. MaxSegments
    BY <1>1 DEF Init, Position
  <2>4. fsm \in [pc : {"load"}]
    BY DEF Init
  <2>5. \A V : <<>> \in StreamOf(V) /\ <<>> \in Seq(V)
    BY <1>1 DEF StreamOf
  <2> QED
    BY <2>1, <2>2, <2>3, <2>4, <2>5 DEF Init, TypeOK
<1>5. AckedIsNotifiedOnce
  BY <1>3, <1>4 DEF Init, AckedIsNotifiedOnce
<1>6. Aligned
  <2>1. Joined = <<>>
    BY <1>3 DEF Init, Joined
  <2> QED
    BY <2>1 DEF Init, Aligned, One
<1> QED
  BY <1>2, <1>5, <1>6 DEF DeliveryInv

\* While the sequence numbers do not wrap, every byte that is acknowledged to
\* the peer is in one notification on its way to the application, or notified
\* already: none is lost and none is notified twice.
THEOREM AckedIsAlwaysNotified == NoWrap => (Spec => []AckedIsNotifiedOnce)
<1> SUFFICES ASSUME NoWrap
             PROVE  Spec => []AckedIsNotifiedOnce
  OBVIOUS
<1>1. Init => DeliveryInv
  BY InitDelivery
<1>2. DeliveryInv /\ [Next]_vars => DeliveryInv'
  BY NextDelivery
<1>3. DeliveryInv => AckedIsNotifiedOnce
  BY DEF DeliveryInv
<1> QED
  BY <1>1, <1>2, <1>3, PTL DEF Spec

----------------------------------------------------------------------------
(***************************************************************************)
(* As long as no segment is kept out of order, the bytes the application   *)
(* is notified of are in memory, each in its cell.  Ran counts: it takes   *)
(* one write status, or two when Mwr has split the segment, for each       *)
(* notification, and does not know which access a status is about.  That   *)
(* the count is right is shown by three rising lines of numbers: where     *)
(* each notification ends, how many statuses it takes to get there, and    *)
(* how far memory is written after that many statuses.                     *)
(***************************************************************************)

\* How far it is from a number to its remainder, once around.
LEMMA ModFree ==
    ASSUME NEW n \in Nat \ {0}, NEW a \in Int, NEW d \in 1 .. n
    PROVE  Minus(a % n, a + d, n) = n - d
<1>1. PICK q, r : q \in Int /\ r \in 0 .. n - 1 /\ a = n * q + r /\ a % n = r
  BY DivMod
<1>2. r % n = r
  BY <1>1
<1>3. CASE r + d < n
  <2>1. (a + d) % n = r + d
    BY <1>1, <1>3, ModNear
  <2> QED
    BY <1>1, <1>2, <1>3, <2>1 DEF Minus
<1>4. CASE r + d >= n
  <2>0. PICK k, e, s : k = q + 1 /\ e = a + d /\ s = r + d - n
    OBVIOUS
  <2>1. k \in Int /\ e \in Int /\ s \in 0 .. n - 1 /\ e = n * k + s
    BY <1>1, <1>4, <2>0
  <2>2. (a + d) % n = r + d - n
    BY <2>0, <2>1, ModIs
  <2> QED
    BY <1>1, <1>2, <1>4, <2>2 DEF Minus
<1> QED
  BY <1>1, <1>3, <1>4

\* A position and its cell.
LEMMA CellOf ==
    ASSUME NoWrap, NEW p \in Position
    PROVE  Cell(SeqOf(p)) = (Isn + p) % BufSize
BY ConstantTypes DEF Cell

\* Positions less than the buffer apart are in different cells.
LEMMA CellsDiffer ==
    ASSUME NoWrap, NEW p \in Position, NEW q \in Position, p < q, q - p < BufSize
    PROVE  Cell(SeqOf(p)) # Cell(SeqOf(q))
<1>1. /\ Isn + p \in Int /\ Isn + q \in Int /\ Isn + p < Isn + q
      /\ (Isn + q) - (Isn + p) < BufSize /\ BufSize \in Nat \ {0}
  BY ConstantTypes, RxAssumption DEF Position
<1>2. (Isn + p) % BufSize # (Isn + q) % BufSize
  BY <1>1, ModDiffer
<1> QED
  BY <1>2, CellOf

\* Up to the end of the buffer the cell moves with the position.
LEMMA CellNear ==
    ASSUME NoWrap, NEW p \in Position, NEW d \in Nat, p + d \in Position,
           Cell(SeqOf(p)) + d < BufSize
    PROVE  Cell(SeqOf(p + d)) = Cell(SeqOf(p)) + d
<1>1. Isn + p \in Int /\ Isn + (p + d) = (Isn + p) + d /\ BufSize \in Nat \ {0}
  BY ConstantTypes, RxAssumption DEF Position
<1>2. /\ Cell(SeqOf(p)) = (Isn + p) % BufSize
      /\ Cell(SeqOf(p + d)) = (Isn + (p + d)) % BufSize
  BY CellOf
<1>3. ((Isn + p) + d) % BufSize = ((Isn + p) % BufSize) + d
  BY <1>1, <1>2, ModNear
<1> QED
  BY <1>1, <1>2, <1>3

----------------------------------------------------------------------------
(***************************************************************************)
(* Rising lines.                                                           *)
(***************************************************************************)
Rising(f, n) ==
    /\ f \in [0 .. n -> Nat]
    /\ \A i, j \in 0 .. n : i <= j => f[i] <= f[j]

Longer(f, n, v) == [i \in 0 .. n + 1 |-> IF i <= n THEN f[i] ELSE v]
Rest(f, n) == [i \in 0 .. n - 1 |-> f[i + 1]]
Lower(f, n) == [i \in 0 .. n |-> f[i] - 1]

LEMMA RisingLonger ==
    ASSUME NEW n \in Nat, NEW f, Rising(f, n), NEW v \in Nat, f[n] <= v
    PROVE  /\ Rising(Longer(f, n, v), n + 1)
           /\ Longer(f, n, v)[n + 1] = v
           /\ \A i \in 0 .. n : Longer(f, n, v)[i] = f[i]
<1> DEFINE g == Longer(f, n, v)
<1>1. /\ \A i \in 0 .. n : g[i] = f[i] /\ f[i] \in Nat /\ f[i] <= v
      /\ g[n + 1] = v
      /\ \A i \in 0 .. n + 1 : i \in 0 .. n \/ i = n + 1
      /\ g = [i \in 0 .. n + 1 |-> g[i]]
  BY DEF Rising, Longer
<1> HIDE DEF g
<1>2. \A i \in 0 .. n + 1 : g[i] \in Nat
  BY <1>1
<1>3. g \in [0 .. n + 1 -> Nat]
  BY <1>1, <1>2
<1>4. ASSUME NEW i \in 0 .. n + 1, NEW j \in 0 .. n + 1, i <= j
      PROVE  g[i] <= g[j]
  <2>1. CASE j = n + 1
    BY <1>1, <2>1
  <2>2. CASE j # n + 1
    <3>1. i \in 0 .. n /\ j \in 0 .. n
      BY <1>4, <2>2
    <3> QED
      BY <1>1, <1>4, <3>1 DEF Rising
  <2> QED
    BY <2>1, <2>2
<1> QED
  BY <1>1, <1>3, <1>4 DEF Rising, g

LEMMA RisingRest ==
    ASSUME NEW n \in Nat \ {0}, NEW f, Rising(f, n)
    PROVE  /\ Rising(Rest(f, n), n - 1)
           /\ \A i \in 0 .. n - 1 : Rest(f, n)[i] = f[i + 1]
<1>1. \A i \in 0 .. n - 1 : i + 1 \in 0 .. n /\ Rest(f, n)[i] = f[i + 1]
  BY DEF Rest
<1>2. Rest(f, n) \in [0 .. n - 1 -> Nat]
  BY <1>1 DEF Rest, Rising
<1> QED
  BY <1>1, <1>2 DEF Rising

LEMMA RisingLower ==
    ASSUME NEW n \in Nat, NEW f, Rising(f, n), f[0] >= 1
    PROVE  /\ Rising(Lower(f, n), n)
           /\ \A i \in 0 .. n : Lower(f, n)[i] = f[i] - 1 /\ f[i] >= 1 /\ f[i] \in Nat
<1>1. \A i \in 0 .. n : f[i] \in Nat /\ f[i] >= 1 /\ Lower(f, n)[i] = f[i] - 1
  BY DEF Lower, Rising
<1>2. Lower(f, n) \in [0 .. n -> Nat]
  <2>1. \A i \in 0 .. n : f[i] - 1 \in Nat
    BY <1>1
  <2> QED
    BY <2>1 DEF Lower
<1> QED
  BY <1>1, <1>2 DEF Rising

----------------------------------------------------------------------------
(***************************************************************************)
(* The three lines.                                                        *)
(***************************************************************************)

\* e[i]: where the notifications end, the first i of nl counted from 'from'.
Ends(e, nl, from, to) ==
    /\ Rising(e, Len(nl))
    /\ e[0] = from /\ e[Len(nl)] = to
    /\ \A i \in 1 .. Len(nl) : e[i] = e[i - 1] + nl[i]

\* c[i]: how many statuses Ran takes for the first i notifications.
Statuses(c, splits, first, all) ==
    /\ Rising(c, Len(splits))
    /\ c[0] = first /\ c[Len(splits)] = all
    /\ \A i \in 1 .. Len(splits) : c[i] = c[i - 1] + 1 + One(splits[i])

\* x[k]: how far memory is written after k statuses.  With the statuses of a
\* notification it is written to the end of the notification.
Meets(e, c, x, n, all) ==
    /\ Rising(x, all)
    /\ \A i \in 0 .. n : c[i] \in 0 .. all /\ x[c[i]] = e[i]

\* The segments that Mwr has not taken are those of the notifications after
\* the first n.
Waiting(e, nl, segs, n) ==
    /\ Len(nl) = n + Len(segs)
    /\ \A j \in 1 .. Len(segs) : segs[j].pos = e[n + j - 1] /\ segs[j].len = nl[n + j]

\* The accesses of MEM take memory from one status to the next; none goes
\* around the end of the buffer.
InBuffer(a) == a.cell = Cell(SeqOf(a.pos)) /\ a.cell + a.len <= BufSize

Written(x, accesses, sts) ==
    \A i \in 1 .. Len(accesses) :
        /\ accesses[i].pos = x[sts + i - 1]
        /\ accesses[i].pos + accesses[i].len = x[sts + i]
        /\ InBuffer(accesses[i])

Filled(m, from, to) == \A p \in from .. to - 1 : m[Cell(SeqOf(p))] = p

\* A notification is added behind, or the first is taken.
LEMMA EndsPush ==
    ASSUME NEW nl \in Seq(Nat), NEW from \in Nat, NEW to \in Nat, NEW e, Ends(e, nl, from, to),
           NEW k \in Nat
    PROVE  Ends(Longer(e, Len(nl), to + k), Append(nl, k), from, to + k)
<1> DEFINE g == Longer(e, Len(nl), to + k)
           n == Len(nl)
<1>1. n \in Nat /\ to + k \in Nat /\ e[n] <= to + k /\ Rising(e, n) /\ e[n] = to /\ e[0] = from
  BY DEF Ends
<1>2. Rising(g, n + 1) /\ g[n + 1] = to + k /\ \A i \in 0 .. n : g[i] = e[i]
  BY <1>1, RisingLonger
<1>3. /\ Len(Append(nl, k)) = n + 1 /\ Append(nl, k)[n + 1] = k
      /\ \A i \in 1 .. n : Append(nl, k)[i] = nl[i]
  OBVIOUS
<1> HIDE DEF g
<1>4. ASSUME NEW i \in 1 .. n + 1
      PROVE  g[i] = g[i - 1] + Append(nl, k)[i]
  <2>1. CASE i = n + 1
    <3>1. i - 1 = n /\ n \in 0 .. n
      BY <1>1, <2>1
    <3> QED
      BY <1>1, <1>2, <1>3, <2>1, <3>1
  <2>2. CASE i # n + 1
    <3>1. i \in 1 .. n /\ i \in 0 .. n /\ i - 1 \in 0 .. n
      BY <1>1, <2>2
    <3>2. e[i] = e[i - 1] + nl[i]
      BY <3>1 DEF Ends
    <3> QED
      BY <1>2, <1>3, <3>1, <3>2
  <2> QED
    BY <2>1, <2>2
<1>5. g[0] = from
  BY <1>1, <1>2
<1> QED
  BY <1>2, <1>3, <1>4, <1>5 DEF Ends, g

LEMMA EndsPop ==
    ASSUME NEW nl \in Seq(Nat), nl # <<>>, NEW from, NEW to, NEW e, Ends(e, nl, from, to)
    PROVE  /\ Ends(Rest(e, Len(nl)), Tail(nl), from + Head(nl), to)
           /\ \A i \in 0 .. Len(nl) - 1 : Rest(e, Len(nl))[i] = e[i + 1]
<1> DEFINE g == Rest(e, Len(nl))
           n == Len(nl)
<1>1. /\ n \in Nat \ {0} /\ Rising(e, n) /\ e[0] = from /\ e[n] = to
      /\ \A i \in 1 .. n : e[i] = e[i - 1] + nl[i]
      /\ Head(nl) = nl[1] /\ Len(Tail(nl)) = n - 1
      /\ \A i \in 1 .. n - 1 : Tail(nl)[i] = nl[i + 1]
  BY NotEmpty DEF Ends
<1>2. Rising(g, n - 1) /\ \A i \in 0 .. n - 1 : g[i] = e[i + 1]
  BY <1>1, RisingRest
<1> HIDE DEF g
<1>3. g[0] = from + Head(nl) /\ g[n - 1] = to
  <2>1. 1 \in 1 .. n /\ 1 - 1 = 0 /\ 0 + 1 = 1 /\ (n - 1) + 1 = n /\ 0 \in 0 .. n - 1 /\ n - 1 \in 0 .. n - 1
    BY <1>1
  <2> QED
    BY <1>1, <1>2, <2>1
<1>4. ASSUME NEW i \in 1 .. n - 1
      PROVE  g[i] = g[i - 1] + Tail(nl)[i]
  <2>1. /\ i \in 0 .. n - 1 /\ i - 1 \in 0 .. n - 1 /\ i + 1 \in 1 .. n
        /\ (i - 1) + 1 = i /\ (i + 1) - 1 = i
    BY <1>1
  <2>2. e[i + 1] = e[i] + nl[i + 1]
    BY <1>1, <2>1
  <2> QED
    BY <1>1, <1>2, <2>1, <2>2
<1> QED
  BY <1>1, <1>2, <1>3, <1>4 DEF Ends, g

\* Mwr reports a segment; Ran takes a flag with the first status, and the
\* second status of a segment that is split.
LEMMA StatusesPush ==
    ASSUME NEW splits \in Seq(BOOLEAN), NEW first \in Nat, NEW all \in Nat,
           NEW c, Statuses(c, splits, first, all), NEW b \in BOOLEAN
    PROVE  LET more == all + 1 + One(b) IN
           /\ Statuses(Longer(c, Len(splits), more), Append(splits, b), first, more)
           /\ \A i \in 0 .. Len(splits) : Longer(c, Len(splits), more)[i] = c[i]
           /\ Longer(c, Len(splits), more)[Len(splits) + 1] = more
<1> DEFINE n == Len(splits)
           more == all + 1 + One(b)
           g == Longer(c, n, more)
<1>1. /\ n \in Nat /\ more \in Nat /\ c[n] <= more /\ Rising(c, n) /\ c[n] = all /\ c[0] = first
      /\ One(b) \in Nat
  BY DEF Statuses, One
<1> HIDE DEF more
<1>2. Rising(g, n + 1) /\ g[n + 1] = more /\ \A i \in 0 .. n : g[i] = c[i]
  BY <1>1, RisingLonger
<1>3. /\ Len(Append(splits, b)) = n + 1 /\ Append(splits, b)[n + 1] = b
      /\ \A i \in 1 .. n : Append(splits, b)[i] = splits[i]
  OBVIOUS
<1> HIDE DEF g
<1>4. ASSUME NEW i \in 1 .. n + 1
      PROVE  g[i] = g[i - 1] + 1 + One(Append(splits, b)[i])
  <2>1. CASE i = n + 1
    <3>1. i - 1 = n /\ n \in 0 .. n
      BY <1>1, <2>1
    <3> QED
      BY <1>1, <1>2, <1>3, <2>1, <3>1 DEF more
  <2>2. CASE i # n + 1
    <3>1. i \in 1 .. n /\ i \in 0 .. n /\ i - 1 \in 0 .. n
      BY <1>1, <2>2
    <3>2. c[i] = c[i - 1] + 1 + One(splits[i])
      BY <3>1 DEF Statuses
    <3> QED
      BY <1>2, <1>3, <3>1, <3>2
  <2> QED
    BY <2>1, <2>2
<1>5. g[0] = first
  BY <1>1, <1>2
<1>6. Statuses(g, Append(splits, b), first, more)
  BY <1>2, <1>3, <1>4, <1>5 DEF Statuses
<1> QED
  BY <1>2, <1>6 DEF g, more

LEMMA StatusesFirst ==
    ASSUME NEW splits \in Seq(BOOLEAN), splits # <<>>, NEW all \in Nat,
           NEW c, Statuses(c, splits, 0, all)
    PROVE  LET n == Len(splits)
               g == Lower(Rest(c, n), n - 1) IN
           /\ Statuses(g, Tail(splits), One(Head(splits)), all - 1)
           /\ \A i \in 0 .. n - 1 : g[i] = c[i + 1] - 1 /\ c[i + 1] >= 1
<1> DEFINE n == Len(splits)
           r == Rest(c, n)
           g == Lower(r, n - 1)
<1>1. /\ n \in Nat \ {0} /\ Rising(c, n) /\ c[0] = 0 /\ c[n] = all
      /\ \A i \in 1 .. n : c[i] = c[i - 1] + 1 + One(splits[i])
      /\ Head(splits) = splits[1] /\ Len(Tail(splits)) = n - 1
      /\ \A i \in 1 .. n - 1 : Tail(splits)[i] = splits[i + 1]
  BY NotEmpty DEF Statuses
<1>2. Rising(r, n - 1) /\ \A i \in 0 .. n - 1 : r[i] = c[i + 1]
  BY <1>1, RisingRest
<1> HIDE DEF r
<1>3. r[0] = 1 + One(Head(splits)) /\ One(Head(splits)) \in Nat /\ n - 1 \in Nat
  <2>1. 1 \in 1 .. n /\ 1 - 1 = 0 /\ 0 + 1 = 1 /\ 0 \in 0 .. n - 1
    BY <1>1
  <2>2. c[1] = c[0] + 1 + One(splits[1])
    BY <1>1, <2>1
  <2>3. One(Head(splits)) \in Nat
    BY DEF One
  <2>4. r[0] = c[0 + 1] /\ splits[1] = Head(splits) /\ c[0] = 0
    BY <1>1, <1>2, <2>1
  <2>5. r[0] = 1 + One(Head(splits))
    BY <2>1, <2>2, <2>3, <2>4
  <2> QED
    BY <1>1, <2>3, <2>5
<1>4. Rising(g, n - 1) /\ \A i \in 0 .. n - 1 : g[i] = r[i] - 1 /\ r[i] >= 1 /\ r[i] \in Nat
  BY <1>2, <1>3, RisingLower
<1> HIDE DEF g
<1>5. \A i \in 0 .. n - 1 : g[i] = c[i + 1] - 1 /\ c[i + 1] >= 1 /\ c[i + 1] \in Nat
  BY <1>2, <1>4
<1>6. g[0] = One(Head(splits)) /\ g[n - 1] = all - 1
  <2>1. 0 \in 0 .. n - 1 /\ n - 1 \in 0 .. n - 1 /\ (n - 1) + 1 = n
    BY <1>1
  <2>2. g[0] = r[0] - 1 /\ g[n - 1] = c[(n - 1) + 1] - 1
    BY <1>4, <1>5, <2>1
  <2>3. g[0] = One(Head(splits))
    BY <1>3, <2>2
  <2> QED
    BY <1>1, <2>1, <2>2, <2>3
<1>7. ASSUME NEW i \in 1 .. n - 1
      PROVE  g[i] = g[i - 1] + 1 + One(Tail(splits)[i])
  <2>1. /\ i \in 0 .. n - 1 /\ i - 1 \in 0 .. n - 1 /\ i + 1 \in 1 .. n
        /\ (i - 1) + 1 = i /\ (i + 1) - 1 = i
    BY <1>1
  <2>2. c[i + 1] = c[i] + 1 + One(splits[i + 1]) /\ One(splits[i + 1]) \in Nat
    BY <1>1, <2>1 DEF One
  <2>3. c[i] \in Nat
    BY <1>5, <2>1
  <2> QED
    BY <1>1, <1>5, <2>1, <2>2, <2>3
<1>8. Statuses(g, Tail(splits), One(Head(splits)), all - 1)
  BY <1>1, <1>4, <1>6, <1>7 DEF Statuses
<1> QED
  BY <1>5, <1>8 DEF g, r

LEMMA StatusesSecond ==
    ASSUME NEW splits \in Seq(BOOLEAN), NEW all \in Nat, NEW c, Statuses(c, splits, 1, all)
    PROVE  LET n == Len(splits) IN
           /\ Statuses(Lower(c, n), splits, 0, all - 1)
           /\ \A i \in 0 .. n : Lower(c, n)[i] = c[i] - 1 /\ c[i] >= 1
<1> DEFINE n == Len(splits)
           g == Lower(c, n)
<1>1. /\ n \in Nat /\ Rising(c, n) /\ c[0] = 1 /\ c[n] = all
      /\ \A i \in 1 .. n : c[i] = c[i - 1] + 1 + One(splits[i])
  BY DEF Statuses
<1>2. Rising(g, n) /\ \A i \in 0 .. n : g[i] = c[i] - 1 /\ c[i] >= 1 /\ c[i] \in Nat
  BY <1>1, RisingLower
<1> HIDE DEF g
<1>3. g[0] = 0 /\ g[n] = all - 1
  <2>1. 0 \in 0 .. n /\ n \in 0 .. n
    BY <1>1
  <2> QED
    BY <1>1, <1>2, <2>1
<1>4. ASSUME NEW i \in 1 .. n
      PROVE  g[i] = g[i - 1] + 1 + One(splits[i])
  <2>1. i \in 0 .. n /\ i - 1 \in 0 .. n
    BY <1>1
  <2>2. c[i] = c[i - 1] + 1 + One(splits[i]) /\ One(splits[i]) \in Nat
    BY <1>1 DEF One
  <2>3. g[i] = c[i] - 1 /\ g[i - 1] = c[i - 1] - 1 /\ c[i - 1] \in Nat
    BY <1>2, <2>1
  <2> QED
    BY <2>2, <2>3
<1> QED
  BY <1>2, <1>3, <1>4 DEF Statuses, g

\* A status is taken: the lines are counted from the next one on.
Earlier(e2, c2, m, e, c, n) ==
    \A i \in 0 .. m : \E j \in 0 .. n : e2[i] = e[j] /\ c2[i] = c[j] - 1 /\ c[j] >= 1

LEMMA MeetsEarlier ==
    ASSUME NEW n \in Nat, NEW all \in Nat \ {0}, NEW e, NEW c, NEW x, Meets(e, c, x, n, all),
           NEW m \in Nat, NEW e2, NEW c2, Earlier(e2, c2, m, e, c, n)
    PROVE  /\ Meets(e2, c2, Rest(x, all), m, all - 1)
           /\ \A k \in 0 .. all - 1 : Rest(x, all)[k] = x[k + 1]
<1>1. /\ Rising(x, all)
      /\ \A i \in 0 .. n : c[i] \in 0 .. all /\ x[c[i]] = e[i]
  BY DEF Meets
<1>2. /\ Rising(Rest(x, all), all - 1)
      /\ \A k \in 0 .. all - 1 : Rest(x, all)[k] = x[k + 1]
  BY <1>1, RisingRest
<1>3. ASSUME NEW i \in 0 .. m
      PROVE  c2[i] \in 0 .. all - 1 /\ Rest(x, all)[c2[i]] = e2[i]
  <2>1. PICK j \in 0 .. n : e2[i] = e[j] /\ c2[i] = c[j] - 1 /\ c[j] >= 1
    BY DEF Earlier
  <2>2. c[j] \in 0 .. all /\ x[c[j]] = e[j]
    BY <1>1
  <2>3. c2[i] \in 0 .. all - 1 /\ c2[i] + 1 = c[j]
    BY <2>1, <2>2
  <2> QED
    BY <1>2, <2>1, <2>2, <2>3
<1> QED
  BY <1>2, <1>3 DEF Meets

\* A segment is passed to MEM: the lines grow.
LEMMA MeetsFurther ==
    ASSUME NEW n \in Nat, NEW all \in Nat, NEW e, NEW c, NEW x, Meets(e, c, x, n, all),
           NEW more \in Nat, all <= more, NEW c2, NEW x2, Rising(x2, more),
           \A k \in 0 .. all : x2[k] = x[k],
           \A i \in 0 .. n : c2[i] = c[i],
           c2[n + 1] = more, x2[more] = e[n + 1]
    PROVE  Meets(e, c2, x2, n + 1, more)
<1> SUFFICES ASSUME NEW i \in 0 .. n + 1
             PROVE  c2[i] \in 0 .. more /\ x2[c2[i]] = e[i]
  BY DEF Meets
<1>1. CASE i = n + 1
  BY <1>1
<1>2. CASE i # n + 1
  <2>1. i \in 0 .. n
    BY <1>2
  <2>2. c[i] \in 0 .. all /\ x[c[i]] = e[i]
    BY <2>1 DEF Meets
  <2> QED
    BY <2>1, <2>2
<1> QED
  BY <1>1, <1>2

LEMMA WrittenFirst ==
    ASSUME NEW V, NEW w \in Seq(V), w # <<>>, NEW x, NEW s \in Nat, Written(x, w, s)
    PROVE  /\ Written(x, Tail(w), s + 1)
           /\ Head(w).pos = x[s] /\ Head(w).pos + Head(w).len = x[s + 1] /\ InBuffer(Head(w))
<1>1. /\ Len(w) \in Nat /\ Len(w) > 0 /\ Len(Tail(w)) = Len(w) - 1 /\ Head(w) = w[1]
      /\ \A i \in 1 .. Len(w) - 1 : Tail(w)[i] = w[i + 1]
  BY NotEmpty
<1>2. ASSUME NEW i \in 1 .. Len(w) - 1
      PROVE  /\ Tail(w)[i].pos = x[s + 1 + i - 1]
             /\ Tail(w)[i].pos + Tail(w)[i].len = x[s + 1 + i]
             /\ InBuffer(Tail(w)[i])
  <2>1. i + 1 \in 1 .. Len(w) /\ s + (i + 1) - 1 = s + 1 + i - 1 /\ s + (i + 1) = s + 1 + i
    BY <1>1
  <2>2. /\ w[i + 1].pos = x[s + (i + 1) - 1] /\ w[i + 1].pos + w[i + 1].len = x[s + (i + 1)]
        /\ InBuffer(w[i + 1])
    BY <2>1 DEF Written
  <2> QED
    BY <1>1, <2>1, <2>2
<1>3. /\ Head(w).pos = x[s] /\ Head(w).pos + Head(w).len = x[s + 1] /\ InBuffer(Head(w))
  <2>1. 1 \in 1 .. Len(w) /\ s + 1 - 1 = s
    BY <1>1
  <2> QED
    BY <1>1, <2>1 DEF Written
<1> QED
  BY <1>1, <1>2, <1>3 DEF Written

LEMMA WrittenEarlier ==
    ASSUME NEW V, NEW w \in Seq(V), NEW x, NEW s \in Nat \ {0}, Written(x, w, s),
           NEW r, \A k \in 0 .. s + Len(w) - 1 : r[k] = x[k + 1]
    PROVE  Written(r, w, s - 1)
<1> SUFFICES ASSUME NEW i \in 1 .. Len(w)
             PROVE  /\ w[i].pos = r[s - 1 + i - 1] /\ w[i].pos + w[i].len = r[s - 1 + i]
                    /\ InBuffer(w[i])
  BY DEF Written
<1>1. /\ s - 1 + i - 1 \in 0 .. s + Len(w) - 1 /\ s - 1 + i \in 0 .. s + Len(w) - 1
      /\ (s - 1 + i - 1) + 1 = s + i - 1 /\ (s - 1 + i) + 1 = s + i
  OBVIOUS
<1>2. /\ w[i].pos = x[s + i - 1] /\ w[i].pos + w[i].len = x[s + i] /\ InBuffer(w[i])
  BY DEF Written
<1>3. r[s - 1 + i - 1] = x[s + i - 1] /\ r[s - 1 + i] = x[s + i]
  BY <1>1
<1> QED
  BY <1>2, <1>3

LEMMA WrittenMore ==
    ASSUME NEW V, NEW w \in Seq(V), NEW a \in Seq(V), NEW x, NEW s \in Nat, Written(x, w, s),
           NEW x2, \A k \in 0 .. s + Len(w) : x2[k] = x[k], Written(x2, a, s + Len(w))
    PROVE  Written(x2, w \o a, s)
<1>1. /\ Len(w) \in Nat /\ Len(a) \in Nat /\ Len(w \o a) = Len(w) + Len(a)
      /\ \A i \in 1 .. Len(w) : (w \o a)[i] = w[i]
      /\ \A i \in 1 .. Len(a) : (w \o a)[Len(w) + i] = a[i]
  OBVIOUS
<1> SUFFICES ASSUME NEW i \in 1 .. Len(w) + Len(a)
             PROVE  /\ (w \o a)[i].pos = x2[s + i - 1]
                    /\ (w \o a)[i].pos + (w \o a)[i].len = x2[s + i]
                    /\ InBuffer((w \o a)[i])
  BY <1>1 DEF Written
<1>2. CASE i \in 1 .. Len(w)
  <2>1. w[i].pos = x[s + i - 1] /\ w[i].pos + w[i].len = x[s + i] /\ InBuffer(w[i])
    BY <1>2 DEF Written
  <2>2. s + i - 1 \in 0 .. s + Len(w) /\ s + i \in 0 .. s + Len(w)
    BY <1>1, <1>2
  <2> QED
    BY <1>1, <1>2, <2>1, <2>2
<1>3. CASE i \notin 1 .. Len(w)
  <2>1. PICK j \in 1 .. Len(a) : i = Len(w) + j
    <3>1. i - Len(w) \in 1 .. Len(a) /\ i = Len(w) + (i - Len(w))
      BY <1>1, <1>3
    <3> QED
      BY <3>1
  <2>2. /\ a[j].pos = x2[s + Len(w) + j - 1] /\ a[j].pos + a[j].len = x2[s + Len(w) + j]
        /\ InBuffer(a[j])
    BY <2>1 DEF Written
  <2>3. s + i - 1 = s + Len(w) + j - 1 /\ s + i = s + Len(w) + j
    BY <1>1, <2>1
  <2> QED
    BY <1>1, <2>1, <2>2, <2>3
<1> QED
  BY <1>2, <1>3

\* An access fills its cells and leaves those of the bytes before it alone.
LEMMA FilledMore ==
    ASSUME NoWrap, NEW m, DOMAIN m = 0 .. BufSize - 1,
           NEW from \in Nat, NEW a, a.pos \in Nat, a.len \in Nat, InBuffer(a),
           from <= a.pos, a.pos + a.len <= MaxPos, a.pos + a.len - from < BufSize,
           Filled(m, from, a.pos)
    PROVE  Filled([c \in DOMAIN m |-> IF c \in a.cell .. a.cell + a.len - 1
                                       THEN a.pos + (c - a.cell) ELSE m[c]],
                  from, a.pos + a.len)
<1> DEFINE new == [c \in DOMAIN m |-> IF c \in a.cell .. a.cell + a.len - 1
                                       THEN a.pos + (c - a.cell) ELSE m[c]]
<1>1. /\ BufSize \in Nat /\ MaxPos \in Nat /\ a.pos \in Nat /\ a.len \in Nat
      /\ a.cell = Cell(SeqOf(a.pos)) /\ a.cell + a.len <= BufSize
  BY RxAssumption DEF InBuffer
<1>2. \A p \in Position : Cell(SeqOf(p)) \in 0 .. BufSize - 1
  <2> SUFFICES ASSUME NEW p \in Position
               PROVE  Cell(SeqOf(p)) \in 0 .. BufSize - 1
    OBVIOUS
  <2>1. Isn + p \in Int
    BY ConstantTypes DEF Position
  <2> QED
    BY <2>1, CellOf, NumberTypes DEF Cell
<1>3. a.cell \in Nat
  <2>1. a.pos \in Position
    BY <1>1 DEF Position
  <2> QED
    BY <1>1, <1>2, <2>1
<1>4. \A d \in 0 .. a.len - 1 : a.pos + d \in Position /\ Cell(SeqOf(a.pos + d)) = a.cell + d
  <2> SUFFICES ASSUME NEW d \in 0 .. a.len - 1
               PROVE  a.pos + d \in Position /\ Cell(SeqOf(a.pos + d)) = a.cell + d
    OBVIOUS
  <2>1. d \in Nat /\ a.pos \in Position /\ a.pos + d \in Position /\ a.cell + d < BufSize
    BY SMTT(40), <1>1, <1>3 DEF Position
  <2> QED
    BY <1>1, <2>1, CellNear
<1> SUFFICES ASSUME NEW p \in from .. (a.pos + a.len) - 1
             PROVE  new[Cell(SeqOf(p))] = p
  BY DEF Filled
<1>5. p \in Position /\ p \in Nat
  BY <1>1 DEF Position
<1>6. Cell(SeqOf(p)) \in DOMAIN m
  BY <1>2, <1>5
<1>7. CASE p >= a.pos
  <2>1. PICK d : d = p - a.pos
    OBVIOUS
  <2>2. d \in 0 .. a.len - 1 /\ p = a.pos + d
    BY <1>1, <1>5, <1>7, <2>1, SMTT(60)
  <2>3. Cell(SeqOf(p)) = a.cell + d
    BY <1>4, <2>2
  <2>4. /\ a.cell + d \in a.cell .. a.cell + a.len - 1
        /\ a.pos + ((a.cell + d) - a.cell) = p
    <3>1. /\ d \in Nat /\ a.cell \in Nat /\ a.pos \in Nat /\ a.len \in Nat
          /\ d <= a.len - 1 /\ p = a.pos + d
      BY <1>1, <1>3, <2>2
    <3>2. a.cell + d \in a.cell .. a.cell + a.len - 1
      BY <3>1
    <3> QED
      BY <3>1, <3>2
  <2> QED
    BY <1>6, <2>3, <2>4
<1>8. CASE p < a.pos
  <2>1. Cell(SeqOf(p)) \notin a.cell .. a.cell + a.len - 1
    <3> SUFFICES ASSUME Cell(SeqOf(p)) \in a.cell .. a.cell + a.len - 1
                 PROVE  FALSE
      OBVIOUS
    <3>1. PICK d : d = Cell(SeqOf(p)) - a.cell
      OBVIOUS
    <3>2. d \in 0 .. a.len - 1 /\ Cell(SeqOf(p)) = a.cell + d
      BY <1>1, <1>2, <1>3, <1>5, <3>1, SMTT(60)
    <3>3. PICK q : q = a.pos + d
      OBVIOUS
    <3>4. q \in Position /\ Cell(SeqOf(q)) = Cell(SeqOf(p))
      BY <1>4, <3>2, <3>3
    <3>5. p < q /\ q - p < BufSize
      BY <1>1, <1>5, <1>8, <3>2, <3>3, SMTT(60)
    <3> QED
      BY <1>5, <3>4, <3>5, CellsDiffer
  <2>2. m[Cell(SeqOf(p))] = p
    BY <1>1, <1>5, <1>8 DEF Filled
  <2> QED
    BY <1>6, <2>1, <2>2
<1> QED
  BY <1>1, <1>5, <1>7, <1>8

\* The line of MEM goes on through the one or two accesses of a segment.
Follows(x2, x, all, seg) ==
    LET more == all + 1 + One(Splits(Command(seg))) IN
    /\ Rising(x2, more)
    /\ \A k \in 0 .. all : x2[k] = x[k]
    /\ x2[more] = seg.pos + seg.len
    /\ Written(x2, Accesses(Command(seg), seg), all)

LEMMA AccessesFollow ==
    ASSUME NoWrap, NEW seg, Sent(seg), seg.len < BufSize,
           NEW all \in Nat, NEW x, Rising(x, all), x[all] = seg.pos
    PROVE  \E x2 : Follows(x2, x, all, seg)
<1> DEFINE cell  == Cell(SeqOf(seg.pos))
           first == BufSize - cell
           a     == Accesses(Command(seg), seg)
           whole == [cell |-> cell, pos |-> seg.pos, len |-> seg.len]
           upper == [cell |-> cell, pos |-> seg.pos, len |-> first]
           lower == [cell |-> 0, pos |-> seg.pos + first, len |-> seg.len - first]
           end   == seg.pos + seg.len
<1>1. /\ seg.pos \in Nat /\ seg.len \in Nat /\ seg.len >= 1 /\ end <= MaxPos /\ end \in Nat
      /\ MaxPos \in Nat /\ BufSize \in Nat \ {0} /\ seg.pos \in Position
  BY RxAssumption DEF Sent, Segment, Position
<1>2. cell \in Nat /\ cell <= BufSize - 1 /\ cell = (Isn + seg.pos) % BufSize /\ Isn + seg.pos \in Int
  <2>1. Isn + seg.pos \in Int
    BY <1>1, ConstantTypes
  <2>2. Cell(Isn + seg.pos) \in 0 .. BufSize - 1
    BY <2>1, NumberTypes
  <2>3. cell = (Isn + seg.pos) % BufSize
    BY <1>1, CellOf
  <2>4. cell \in 0 .. BufSize - 1
    BY <2>2, <2>3 DEF Cell
  <2> QED
    BY <1>1, <2>1, <2>3, <2>4
<1>3. a = IF cell + seg.len > BufSize THEN <<upper, lower>> ELSE <<whole>>
  BY DEF Accesses, Splits, Command
<1>4. Splits(Command(seg)) <=> cell + seg.len > BufSize
  BY DEF Splits, Command
<1>5. x[all] <= end
  BY <1>1
<1>6. CASE cell + seg.len > BufSize
  <2> DEFINE mid == seg.pos + first
             y   == Longer(x, all, mid)
             z   == Longer(y, all + 1, end)
  <2>1. mid \in Nat /\ seg.pos <= mid /\ mid <= end /\ first \in Nat
    BY <1>1, <1>2, <1>6
  <2>2. Rising(y, all + 1) /\ y[all + 1] = mid /\ \A k \in 0 .. all : y[k] = x[k]
    BY <2>1, RisingLonger
  <2>3. /\ Rising(z, all + 1 + 1) /\ z[all + 1 + 1] = end
        /\ \A k \in 0 .. all + 1 : z[k] = y[k]
    <3>1. all + 1 \in Nat /\ y[all + 1] <= end
      BY <2>1, <2>2
    <3> HIDE DEF y
    <3> QED
      BY <1>1, <2>2, <3>1, RisingLonger
  <2> HIDE DEF y, z, mid
  <2>4. z[all] = seg.pos /\ z[all + 1] = mid /\ \A k \in 0 .. all : z[k] = x[k]
    <3>1. all \in 0 .. all /\ all + 1 \in 0 .. all + 1 /\ \A k \in 0 .. all : k \in 0 .. all + 1
      OBVIOUS
    <3> QED
      BY <2>2, <2>3, <3>1
  <2>5. InBuffer(upper) /\ InBuffer(lower)
    <3>1. upper.cell + upper.len <= BufSize /\ upper.cell = Cell(SeqOf(upper.pos))
      BY <1>1, <1>2
    <3>2. Cell(SeqOf(mid)) = 0
      <4>1. mid \in Position
        BY <1>1, <2>1 DEF Position
      <4>2. PICK q, r, b : q = (Isn + seg.pos) \div BufSize /\ r = Isn + mid /\ b = q + 1
        OBVIOUS
      <4>3. q \in Int /\ Isn + seg.pos = BufSize * q + cell
        BY <1>1, <1>2, <4>2, DivMod
      <4>4. r \in Int /\ b \in Int /\ r = BufSize * b + 0 /\ 0 \in 0 .. BufSize - 1
        <5>1. PICK k, m : k = cell /\ m = BufSize * q
          OBVIOUS
        <5>2. /\ Isn \in Nat /\ BufSize \in Nat /\ BufSize > 0 /\ seg.pos \in Nat
              /\ q \in Int /\ k \in Nat /\ m \in Int /\ b \in Int
          <6>1. Isn \in Nat
            BY ConstantTypes
          <6>2. BufSize * q \in Int
            BY <1>1, <4>3
          <6>3. b \in Int /\ q \in Int
            BY <4>2, <4>3
          <6>4. k \in Nat
            BY <1>2, <5>1
          <6> QED
            BY <1>1, <5>1, <6>1, <6>2, <6>3, <6>4
        <5>3. r = Isn + (seg.pos + (BufSize - k)) /\ Isn + seg.pos = m + k
          BY <4>2, <4>3, <5>1 DEF mid
        <5>4. r = m + BufSize /\ r \in Int /\ 0 \in 0 .. BufSize - 1
          BY <5>2, <5>3
        <5>5. BufSize * b = BufSize * q + BufSize
          BY <1>1, <4>2, <4>3
        <5> QED
          BY <5>1, <5>2, <5>4, <5>5
      <4>5. r % BufSize = 0
        BY <1>1, <4>4, ModIs
      <4> QED
        BY <4>1, <4>2, <4>5, CellOf
    <3>3. lower.cell + lower.len <= BufSize /\ lower.cell = Cell(SeqOf(lower.pos))
      BY <1>1, <1>2, <3>2 DEF mid
    <3> QED
      BY <3>1, <3>3 DEF InBuffer
  <2>6. Written(z, a, all)
    <3>1. a = <<upper, lower>>
      BY <1>3, <1>6
    <3>2. /\ upper.pos = seg.pos /\ upper.pos + upper.len = mid
          /\ lower.pos = mid /\ lower.pos + lower.len = end
      BY <1>1, <1>2, <2>1 DEF mid
    <3> HIDE DEF upper, lower, a, end
    <3>3. Len(a) = 2 /\ a[1] = upper /\ a[2] = lower
      BY <3>1
    <3>4. all + 1 - 1 = all /\ all + 2 - 1 = all + 1 /\ all + 2 = all + 1 + 1
      OBVIOUS
    <3>5. \A i \in 1 .. 2 : i = 1 \/ i = 2
      OBVIOUS
    <3>6. /\ a[1].pos = z[all + 1 - 1] /\ a[1].pos + a[1].len = z[all + 1]
          /\ a[2].pos = z[all + 2 - 1] /\ a[2].pos + a[2].len = z[all + 2]
      BY <2>3, <2>4, <3>2, <3>3, <3>4
    <3> SUFFICES ASSUME NEW i \in 1 .. 2
                 PROVE  /\ a[i].pos = z[all + i - 1] /\ a[i].pos + a[i].len = z[all + i]
                        /\ InBuffer(a[i])
      BY <3>3 DEF Written
    <3> QED
      BY <2>5, <3>3, <3>5, <3>6
  <2>7. One(Splits(Command(seg))) = 1
    BY <1>4, <1>6 DEF One
  <2>8. Follows(z, x, all, seg)
    BY <2>3, <2>4, <2>6, <2>7 DEF Follows
  <2> QED
    BY <2>8
<1>7. CASE ~(cell + seg.len > BufSize)
  <2> DEFINE z == Longer(x, all, end)
  <2>1. Rising(z, all + 1) /\ z[all + 1] = end /\ \A k \in 0 .. all : z[k] = x[k]
    BY <1>1, <1>5, RisingLonger
  <2> HIDE DEF z
  <2>2. InBuffer(whole)
    BY <1>1, <1>2, <1>7 DEF InBuffer
  <2>3. Written(z, a, all)
    <3>1. a = <<whole>>
      BY <1>3, <1>7
    <3>2. whole.pos = seg.pos /\ whole.pos + whole.len = end
      OBVIOUS
    <3> HIDE DEF whole, a, end
    <3>3. Len(a) = 1 /\ a[1] = whole /\ \A i \in 1 .. 1 : i = 1
      BY <3>1
    <3>4. all + 1 - 1 = all /\ all \in 0 .. all
      OBVIOUS
    <3>5. a[1].pos = z[all + 1 - 1] /\ a[1].pos + a[1].len = z[all + 1]
      BY <2>1, <3>2, <3>3, <3>4
    <3> QED
      BY <2>2, <3>3, <3>5 DEF Written
  <2>4. One(Splits(Command(seg))) = 0 /\ all + 1 + 0 = all + 1
    BY <1>4, <1>7 DEF One
  <2>5. Follows(z, x, all, seg)
    BY <2>1, <2>3, <2>4 DEF Follows
  <2> QED
    BY <2>5
<1> QED
  BY <1>6, <1>7

\* A segment that is kept while nothing has been kept out of order is the next
\* one, and there is space for it and one byte more.
LEMMA OutcomeInOrder ==
    ASSUME NoWrap, NEW rc \in Position, NEW r, EntryOK(r, rc), ~r.ooo, r.oooHead = r.rcvd,
           NEW a \in Nat, a <= rc, rc - a < BufSize, r.appd = Cell(SeqOf(a)),
           NEW seg, Sent(seg),
           Outcome(SeqOf(seg.pos), seg.len, r).keep,
           ~Outcome(SeqOf(seg.pos), seg.len, r).new.ooo
    PROVE  /\ seg.pos = rc /\ rc + seg.len - a < BufSize
           /\ Outcome(SeqOf(seg.pos), seg.len, r).new.rcvd = Isn + seg.pos + seg.len
           /\ Outcome(SeqOf(seg.pos), seg.len, r).new.oooHead = Isn + seg.pos + seg.len
           /\ Outcome(SeqOf(seg.pos), seg.len, r).notify = seg.len
<1> DEFINE seq  == Isn + seg.pos
           end  == seq + seg.len
           free == FreeSpace(r)
           Query(q, ooo, head, tail) ==
               [rcvd |-> q, ooo |-> ooo, oooHead |-> head, oooTail |-> tail]
           Keep(q, n) == [keep |-> TRUE, new |-> q, notify |-> n]
           o    == Outcome(seq, seg.len, r)
           C1   == ~r.ooo /\ seq = r.rcvd /\ free > seg.len
           C2   == ~r.ooo /\ seq > r.rcvd /\ free > Minus(end, r.oooHead, BufSize)
           C3   == r.ooo /\ seq = r.oooHead /\ free > seg.len
           C4   == r.ooo /\ seq = r.rcvd /\ seq # r.oooHead /\ end < r.oooTail
           C5   == r.ooo /\ seq = r.rcvd /\ seq # r.oooHead /\ end = r.oooTail
<1>1. /\ Isn \in Nat /\ MaxPos \in Nat /\ BufSize \in Nat \ {0}
      /\ seg.pos \in Nat /\ seg.len \in Nat /\ seg.pos + seg.len <= MaxPos
      /\ r.rcvd = Isn + rc /\ rc \in Nat /\ rc <= MaxPos /\ a \in Position
  BY ConstantTypes, RxAssumption DEF Sent, Segment, Position, EntryOK
<1>2. SeqOf(seg.pos) = seq /\ end % SeqMod = end
  BY <1>1, ConstantTypes DEF Position
<1>3. o = CASE C1 -> Keep(Query(end % SeqMod, FALSE, end % SeqMod, end % SeqMod), seg.len)
            [] C2 -> Keep(Query(r.rcvd, TRUE, end % SeqMod, seq), 0)
            [] C3 -> Keep(Query(r.rcvd, TRUE, end % SeqMod, r.oooTail), 0)
            [] C4 -> Keep(Query(end % SeqMod, TRUE, r.oooHead, r.oooTail), seg.len)
            [] C5 -> Keep(Query(r.oooHead, FALSE, r.oooHead, r.oooHead), FilledLength(seg.len, r))
            [] OTHER -> [keep |-> FALSE,
                         new |-> Query(r.rcvd, r.ooo, r.oooHead, r.oooTail), notify |-> 0]
  BY DEF Outcome, Extends
<1>4. o.keep /\ ~o.new.ooo
  BY <1>2
<1>5. free = BufSize - (rc + 1 - a)
  <2>1. PICK b, d : b = Isn + a /\ d = rc + 1 - a
    OBVIOUS
  <2>2. b \in Int /\ d \in 1 .. BufSize /\ r.oooHead + 1 = b + d
    BY <1>1, <2>1
  <2>3. r.appd = b % BufSize
    BY <1>1, <2>1, CellOf
  <2>4. Minus(b % BufSize, b + d, BufSize) = BufSize - d
    BY <1>1, <2>2, ModFree
  <2> QED
    BY <2>1, <2>2, <2>3, <2>4 DEF FreeSpace
<1>6. ~C3 /\ ~C4 /\ ~C5 /\ ~(C1 /\ C2)
  BY <1>1
<1> HIDE DEF o, C1, C2, C3, C4, C5, end, seq, free
<1>7. C1
  <2>1. CASE C2
    <3>1. ~C1
      BY <1>6, <2>1
    <3>2. o = Keep(Query(r.rcvd, TRUE, end % SeqMod, seq), 0)
      BY <1>3, <1>6, <2>1, <3>1
    <3> QED
      BY <1>4, <3>2
  <2>2. CASE ~C1 /\ ~C2
    <3>1. o = [keep |-> FALSE, new |-> Query(r.rcvd, r.ooo, r.oooHead, r.oooTail), notify |-> 0]
      BY <1>3, <1>6, <2>2
    <3> QED
      BY <1>4, <3>1
  <2> QED
    BY <2>1, <2>2
<1>8. o = Keep(Query(end % SeqMod, FALSE, end % SeqMod, end % SeqMod), seg.len)
  <2>1. ~C2
    BY <1>6, <1>7
  <2> QED
    BY <1>3, <1>6, <1>7, <2>1
<1>9. o.new.rcvd = end /\ o.new.oooHead = end /\ o.notify = seg.len
  BY <1>2, <1>8
<1>10. seg.pos = rc /\ rc + seg.len - a < BufSize
  BY <1>1, <1>5, <1>7 DEF C1, seq
<1> QED
  BY <1>2, <1>9, <1>10 DEF o, end, seq

----------------------------------------------------------------------------
(***************************************************************************)
(* The invariant.                                                          *)
(***************************************************************************)

\* The notifications that Ran has not begun with, and the statuses of the
\* accesses that have been passed to MEM.
Lengths == ranFifo \o fsmNotif
All     == memSts + Len(memWr)

Line(e, c, x) ==
    /\ Ends(e, Lengths, notified + ran.len, rcvd)
    /\ Waiting(e, Lengths, Joined, Len(splitSeg))
    /\ Statuses(c, splitSeg, One(ran.double), All)
    /\ Meets(e, c, x, Len(splitSeg), All)
    /\ Written(x, memWr, memSts)
    /\ notified <= x[0]
    /\ Filled(mem, appd, x[memSts])

\* The bytes between what has been read and what has been received fit into
\* the buffer, with what Fsm knows of 'appd', too.
Window ==
    /\ ~sar.ooo /\ sar.oooHead = sar.rcvd
    /\ \A i \in 1 .. Len(fsmNotif) : fsmNotif[i] > 0
    /\ sar.appd = Cell(SeqOf(appd))
    /\ appd <= notified /\ rcvd - appd < BufSize
    /\ fsm.pc = "transition" =>
          \E a \in 0 .. appd : rcvd - a < BufSize /\ fsm.sar.appd = Cell(SeqOf(a))

StoredInv == DeliveryInv /\ (~oooSeen /\ ~uncut => Window /\ \E e, c, x : Line(e, c, x))

Access == [cell : 0 .. BufSize - 1, pos : Position, len : 1 .. MaxLen]

LEMMA LineTypes ==
    ASSUME DeliveryInv
    PROVE  /\ ranFifo \in Seq(Nat) /\ fsmNotif \in Seq(Nat)
           /\ Lengths \in Seq(Nat) /\ Len(Lengths) \in Nat
           /\ splitSeg \in Seq(BOOLEAN) /\ Len(splitSeg) \in Nat
           /\ memWr \in Seq(Access) /\ Len(memWr) \in Nat /\ memSts \in Nat /\ All \in Nat
           /\ Joined \in Seq(Segment) /\ Len(Joined) \in Nat
           /\ appd \in Nat /\ notified \in Nat /\ rcvd \in Nat /\ rcvd <= MaxPos /\ MaxPos \in Nat
           /\ ran \in [double : BOOLEAN, len : 0 .. MaxPos] /\ ran.len \in Nat
           /\ mem \in [0 .. BufSize - 1 -> 0 .. Empty]
<1>1. ranFifo \in Seq(Nat) /\ fsmNotif \in Seq(Nat) /\ Joined \in Seq(Segment) /\ ran.len \in Nat
  BY Streams
<1>2. /\ splitSeg \in Seq(BOOLEAN) /\ memWr \in Seq(Access) /\ memSts \in Nat
      /\ ran \in [double : BOOLEAN, len : 0 .. MaxPos]
      /\ mem \in [0 .. BufSize - 1 -> 0 .. Empty]
  BY DEF DeliveryInv, AckedIsNotifiedOnce, TypeOK, StreamOf, Access
<1>3. appd \in Nat /\ notified \in Nat /\ rcvd \in Nat /\ rcvd <= MaxPos /\ MaxPos \in Nat
  <2>1. appd \in Position /\ notified \in Position /\ rcvd \in Position /\ MaxPos \in Nat
    BY RxAssumption DEF DeliveryInv, AckedIsNotifiedOnce, TypeOK
  <2> QED
    BY <2>1 DEF Position
<1>4. Lengths \in Seq(Nat) /\ Len(Lengths) \in Nat
  <2>1. Lengths \in Seq(Nat)
    BY <1>1 DEF Lengths
  <2> QED
    BY <2>1
<1>5. Len(splitSeg) \in Nat /\ Len(Joined) \in Nat
  BY <1>1, <1>2
<1>6. Len(memWr) \in Nat /\ All \in Nat
  <2> HIDE DEF Access
  <2>1. Len(memWr) \in Nat
    BY <1>2
  <2> QED
    BY <1>2, <2>1 DEF All
<1> QED
  BY <1>1, <1>2, <1>3, <1>4, <1>5, <1>6

\* Memory is written at least as far as the application is notified, and not
\* further than acknowledged.
LEMMA LineOrder ==
    ASSUME DeliveryInv, NEW e, NEW c, NEW x, Line(e, c, x)
    PROVE  /\ \A k \in 0 .. All : x[k] \in Nat /\ notified <= x[k] /\ x[k] <= rcvd
           /\ \A i \in 0 .. Len(Lengths) : e[i] \in Nat /\ notified <= e[i] /\ e[i] <= rcvd
           /\ Len(splitSeg) \in 0 .. Len(Lengths) /\ x[All] = e[Len(splitSeg)]
           /\ memSts \in 0 .. All
<1>1. /\ Lengths \in Seq(Nat) /\ Len(Lengths) \in Nat /\ Len(splitSeg) \in Nat
      /\ Len(Joined) \in Nat /\ memSts \in Nat /\ Len(memWr) \in Nat /\ All \in Nat
      /\ notified \in Nat /\ ran.len \in Nat /\ rcvd \in Nat
  BY LineTypes
<1>2. Len(splitSeg) \in 0 .. Len(Lengths) /\ memSts \in 0 .. All
  BY <1>1 DEF Line, Waiting, All
<1>3. \A i \in 0 .. Len(Lengths) : e[i] \in Nat /\ notified <= e[i] /\ e[i] <= rcvd
  <2>1. Rising(e, Len(Lengths)) /\ e[0] = notified + ran.len /\ e[Len(Lengths)] = rcvd
    BY DEF Line, Ends
  <2> SUFFICES ASSUME NEW i \in 0 .. Len(Lengths)
               PROVE  e[i] \in Nat /\ notified <= e[i] /\ e[i] <= rcvd
    OBVIOUS
  <2>2. 0 \in 0 .. Len(Lengths) /\ Len(Lengths) \in 0 .. Len(Lengths) /\ 0 <= i /\ i <= Len(Lengths)
    BY <1>1
  <2>3. e[i] \in Nat /\ e[0] <= e[i] /\ e[i] <= e[Len(Lengths)]
    BY <2>1, <2>2 DEF Rising
  <2> QED
    BY <1>1, <2>1, <2>3
<1>4. x[All] = e[Len(splitSeg)]
  <2>1. Len(splitSeg) \in 0 .. Len(splitSeg)
    BY <1>1
  <2> QED
    BY <2>1 DEF Line, Statuses, Meets
<1>5. \A k \in 0 .. All : x[k] \in Nat /\ notified <= x[k] /\ x[k] <= rcvd
  <2>1. Rising(x, All) /\ notified <= x[0] /\ x[All] <= rcvd
    BY <1>2, <1>3, <1>4 DEF Line, Meets
  <2> SUFFICES ASSUME NEW k \in 0 .. All
               PROVE  x[k] \in Nat /\ notified <= x[k] /\ x[k] <= rcvd
    OBVIOUS
  <2>2. 0 \in 0 .. All /\ All \in 0 .. All /\ 0 <= k /\ k <= All
    BY <1>1
  <2>3. /\ x[k] \in Nat /\ x[0] \in Nat /\ x[All] \in Nat
        /\ x[0] <= x[k] /\ x[k] <= x[All]
    BY <2>1, <2>2 DEF Rising
  <2> QED
    BY SMTT(40), <1>1, <2>1, <2>3
<1> QED
  BY <1>2, <1>3, <1>4, <1>5

\* A step that neither Mwr, MEM nor Ran takes part in.
LEMMA SameLine ==
    ASSUME NEW e, NEW c, NEW x, Line(e, c, x), appd \in Nat, appd' \in Nat, appd <= appd',
           Lengths' = Lengths, Joined' = Joined,
           UNCHANGED <<splitSeg, memWr, memSts, mem, ran, notified, rcvd>>
    PROVE  Line(e, c, x)'
<1>1. Filled(mem, appd', x[memSts])
  <2>1. Filled(mem, appd, x[memSts])
    BY DEF Line
  <2>2. \A p \in appd' .. x[memSts] - 1 : p \in appd .. x[memSts] - 1
    OBVIOUS
  <2> QED
    BY <2>1, <2>2 DEF Filled
<1>2. Filled(mem, appd, x[memSts])' <=> Filled(mem, appd', x[memSts])
  BY DEF Filled
<1>3. Ends(e, Lengths, notified + ran.len, rcvd)'
  BY DEF Line, Ends
<1>4. Waiting(e, Lengths, Joined, Len(splitSeg))'
  BY DEF Line, Waiting
<1>5. All' = All
  BY DEF All
<1>6. Statuses(c, splitSeg, One(ran.double), All)'
  BY <1>5 DEF Line, Statuses
<1>7. Meets(e, c, x, Len(splitSeg), All)' /\ Written(x, memWr, memSts)'
  BY <1>5 DEF Line, Meets, Written
<1> QED
  BY <1>1, <1>2, <1>3, <1>4, <1>6, <1>7 DEF Line

\* Fsm takes a segment, and the pointers as they are now.
LEMMA LoadStored ==
    ASSUME StoredInv, DeliveryInv', NEW seg \in Segment, FsmLoad(seg)
    PROVE  StoredInv'
<1>1. /\ fsm' = [pc |-> "transition", seg |-> seg, sar |-> sar]
      /\ UNCHANGED <<sar, dropCmd, wrCmd, mwrData, memVars, ranVars, appd, rcvd, notified,
                     kept, oooSeen, uncut>>
  BY DEF FsmLoad
<1>2. Joined' = Joined
  <2>1. KeptInv'
    BY DEF DeliveryInv
  <2> QED
    BY <2>1, LoadDelivery DEF StoredInv
<1> SUFFICES ASSUME ~oooSeen, ~uncut
             PROVE  Window' /\ (\E e, c, x : Line(e, c, x))'
  BY <1>1 DEF StoredInv
<1>3. PICK e, c, x : Line(e, c, x)
  BY DEF StoredInv
<1>4. appd \in Nat /\ rcvd \in Nat
  BY LineTypes DEF StoredInv
<1>5. Line(e, c, x)'
  <2>1. Lengths' = Lengths /\ appd' = appd
    BY <1>1 DEF Lengths, ranVars
  <2> QED
    BY <1>1, <1>2, <1>3, <1>4, <2>1, SameLine DEF memVars, ranVars
<1>6. Window'
  <2>1. appd \in 0 .. appd
    BY <1>4
  <2>2. Window /\ fsm'.sar = sar
    BY <1>1 DEF StoredInv
  <2>3. \E a \in 0 .. appd : rcvd - a < BufSize /\ fsm'.sar.appd = Cell(SeqOf(a))
    BY <2>1, <2>2 DEF Window
  <2> QED
    BY <1>1, <2>2, <2>3 DEF Window, ranVars
<1> QED
  BY <1>5, <1>6

\* Fsm drops its segment, or keeps it as the next one.
LEMMA TransitionStored ==
    ASSUME NoWrap, StoredInv, DeliveryInv', FsmTransition
    PROVE  StoredInv'
<1> DEFINE seg == fsm.seg
           o   == Outcome(SeqOf(seg.pos), seg.len, fsm.sar)
<1>1. /\ fsm.pc = "transition" /\ fsm'.pc = "load"
      /\ UNCHANGED <<memVars, ranFifo, ran, appd, notified, uncut>>
      /\ \/ /\ o.keep
            /\ sar' = [appd |-> sar.appd, rcvd |-> o.new.rcvd, ooo |-> o.new.ooo,
                       oooHead |-> o.new.oooHead, oooTail |-> o.new.oooTail]
            /\ fsmNotif' = Append(fsmNotif, o.notify)
            /\ oooSeen' = (oooSeen \/ o.new.ooo)
         \/ ~o.keep /\ UNCHANGED <<sar, fsmNotif, rcvd, oooSeen>>
      /\ o.keep => rcvd' = rcvd + Minus(o.new.rcvd, fsm.sar.rcvd, SeqMod)
  BY DEF FsmTransition
<1>2. Joined' = IF o.keep THEN Append(Joined, seg) ELSE Joined
  <2>1. KeptInv' /\ DeliveryInv
    BY DEF DeliveryInv, StoredInv
  <2> QED
    BY <2>1, TransitionDelivery
<1>3. /\ Sent(seg) /\ rcvd \in Position
      /\ EntryOK(fsm.sar, rcvd) /\ SameBlock(fsm.sar, sar)
  <2>1. Sent(seg) /\ SameBlock(fsm.sar, sar) /\ EntryOK(sar, rcvd) /\ rcvd \in Position
    BY <1>1 DEF StoredInv, DeliveryInv, KeptInv
  <2> QED
    BY <2>1 DEF EntryOK, SameBlock
<1> HIDE DEF o, seg
<1>4. DeliveryInv
  BY DEF StoredInv
<1>5. CASE ~o.keep
  <2>1. UNCHANGED <<sar, fsmNotif, rcvd, oooSeen, uncut>> /\ Joined' = Joined
    BY <1>1, <1>2, <1>5
  <2> SUFFICES ASSUME ~oooSeen, ~uncut
               PROVE  Window' /\ (\E e, c, x : Line(e, c, x))'
    BY <2>1 DEF StoredInv
  <2>2. PICK e, c, x : Line(e, c, x)
    BY DEF StoredInv
  <2>3. Line(e, c, x)'
    <3>1. Lengths' = Lengths /\ appd' = appd /\ appd \in Nat
      BY <1>1, <1>4, <2>1, LineTypes DEF Lengths
    <3> QED
      BY <1>1, <2>1, <2>2, <3>1, SameLine DEF memVars
  <2>4. Window'
    BY <1>1, <2>1 DEF StoredInv, Window
  <2> QED
    BY <2>3, <2>4
<1>6. CASE o.keep
  <2>1. /\ sar' = [appd |-> sar.appd, rcvd |-> o.new.rcvd, ooo |-> o.new.ooo,
                   oooHead |-> o.new.oooHead, oooTail |-> o.new.oooTail]
        /\ fsmNotif' = Append(fsmNotif, o.notify)
        /\ oooSeen' = (oooSeen \/ o.new.ooo) /\ uncut' = uncut
        /\ rcvd' = rcvd + Minus(o.new.rcvd, fsm.sar.rcvd, SeqMod)
        /\ Joined' = Append(Joined, seg)
    BY <1>1, <1>2, <1>6
  <2> SUFFICES ASSUME ~oooSeen, ~uncut, ~o.new.ooo
               PROVE  Window' /\ (\E e, c, x : Line(e, c, x))'
    BY <2>1 DEF StoredInv
  <2>2. Window
    BY DEF StoredInv
  <2>3. PICK e, c, x : Line(e, c, x)
    BY DEF StoredInv
  <2>4. PICK a \in 0 .. appd : rcvd - a < BufSize /\ fsm.sar.appd = Cell(SeqOf(a))
    BY <1>1, <2>2 DEF Window
  <2>5. /\ appd \in Nat /\ notified \in Nat /\ rcvd \in Nat /\ Lengths \in Seq(Nat)
        /\ ran.len \in Nat /\ fsmNotif \in Seq(Nat) /\ ranFifo \in Seq(Nat)
        /\ Joined \in Seq(Segment) /\ Len(Joined) \in Nat /\ Len(splitSeg) \in Nat
        /\ Len(fsmNotif) \in Nat
    BY <1>4, LineTypes
  <2>6. seg.pos \in Nat /\ seg.len \in Nat /\ seg.len > 0 /\ seg \in Segment /\ Isn \in Nat
    BY <1>3, ConstantTypes DEF Sent, Segment, Position
  <2>7. appd <= notified /\ notified <= rcvd
    <3>1. \A k \in 0 .. All : x[k] \in Nat /\ notified <= x[k] /\ x[k] <= rcvd
      BY <1>4, <2>3, LineOrder
    <3>2. 0 \in 0 .. All
      BY <1>4, LineTypes
    <3>3. x[0] \in Nat /\ notified <= x[0] /\ x[0] <= rcvd
      BY <3>1, <3>2
    <3> QED
      BY <2>2, <2>5, <3>3 DEF Window
  <2>8. /\ seg.pos = rcvd /\ rcvd + seg.len - a < BufSize
        /\ o.new.rcvd = Isn + seg.pos + seg.len
        /\ o.new.oooHead = Isn + seg.pos + seg.len /\ o.notify = seg.len
    <3>1. ~fsm.sar.ooo /\ fsm.sar.oooHead = fsm.sar.rcvd
      BY <1>3, <2>2 DEF Window, SameBlock
    <3>2. a \in Nat /\ a <= rcvd
      BY <2>4, <2>5, <2>7
    <3>3. o.keep /\ ~o.new.ooo
      BY <1>6
    <3>4. \A r \in {fsm.sar}, g \in {seg} :
             /\ EntryOK(r, rcvd) /\ ~r.ooo /\ r.oooHead = r.rcvd /\ r.appd = Cell(SeqOf(a))
             /\ Sent(g) /\ Outcome(SeqOf(g.pos), g.len, r).keep
             /\ ~Outcome(SeqOf(g.pos), g.len, r).new.ooo
             =>
             /\ g.pos = rcvd /\ rcvd + g.len - a < BufSize
             /\ Outcome(SeqOf(g.pos), g.len, r).new.rcvd = Isn + g.pos + g.len
             /\ Outcome(SeqOf(g.pos), g.len, r).new.oooHead = Isn + g.pos + g.len
             /\ Outcome(SeqOf(g.pos), g.len, r).notify = g.len
      BY <1>3, <2>4, <3>2, OutcomeInOrder
    <3> QED
      BY <1>3, <2>4, <3>1, <3>3, <3>4 DEF o
  <2>9. rcvd' = rcvd + seg.len
    <3>1. fsm.sar.rcvd = Isn + rcvd /\ seg.pos + seg.len <= MaxPos /\ MaxPos \in Nat
      BY <1>3, ConstantTypes DEF EntryOK, Sent
    <3>2. PICK u, v : u = Isn + seg.pos + seg.len /\ v = Isn + rcvd
      OBVIOUS
    <3>3. u \in 0 .. Isn + MaxPos /\ v \in 0 .. Isn + MaxPos /\ v <= u /\ u - v = seg.len
      <4>1. /\ rcvd \in Nat /\ seg.len \in Nat /\ Isn \in Nat /\ MaxPos \in Nat
            /\ rcvd + seg.len <= MaxPos /\ u = Isn + rcvd + seg.len /\ v = Isn + rcvd
        BY <2>5, <2>6, <2>8, <3>1, <3>2
      <4> QED
        BY <4>1
    <3>4. Minus(u, v, SeqMod) = u - v
      BY <3>3, MinusOf
    <3> QED
      BY <2>1, <2>8, <3>1, <3>2, <3>3, <3>4
  <2>10. Lengths' = Append(Lengths, seg.len)
    <3>1. ranFifo \o Append(fsmNotif, seg.len) = Append(ranFifo \o fsmNotif, seg.len)
      <4>1. seg.len \in Nat /\ ranFifo \in Seq(Nat) /\ fsmNotif \in Seq(Nat)
        BY <2>5, <2>6
      <4> QED
        BY <4>1
    <3> QED
      BY <1>1, <2>1, <2>8, <3>1 DEF Lengths
  <2>11. Window'
    <3>1. /\ ~sar'.ooo /\ sar'.oooHead = sar'.rcvd /\ sar'.appd = sar.appd /\ appd' = appd
          /\ notified' = notified
      BY <1>1, <2>1, <2>8
    <3>2. rcvd' - appd' < BufSize
      <4>1. /\ a \in Nat /\ appd \in Nat /\ rcvd \in Nat /\ seg.len \in Nat /\ BufSize \in Nat
            /\ a <= appd /\ rcvd + seg.len - a < BufSize
        BY <2>4, <2>5, <2>6, <2>8, RxAssumption
      <4>2. (rcvd + seg.len) - appd < BufSize
        BY <4>1
      <4> QED
        BY <2>9, <3>1, <4>2
    <3>3. \A i \in 1 .. Len(fsmNotif') : fsmNotif'[i] > 0
      <4>1. /\ Len(fsmNotif') = Len(fsmNotif) + 1 /\ fsmNotif'[Len(fsmNotif) + 1] = seg.len
            /\ \A i \in 1 .. Len(fsmNotif) : fsmNotif'[i] = fsmNotif[i]
        BY <2>1, <2>5, <2>8
      <4>2. \A i \in 1 .. Len(fsmNotif) : fsmNotif[i] > 0
        BY <2>2 DEF Window
      <4>3. \A i \in 1 .. Len(fsmNotif) + 1 : i \in 1 .. Len(fsmNotif) \/ i = Len(fsmNotif) + 1
        BY <2>5
      <4> QED
        BY <2>6, <4>1, <4>2, <4>3
    <3>4. fsm'.pc # "transition"
      BY <1>1
    <3> QED
      BY <2>2, <2>7, <3>1, <3>2, <3>3, <3>4 DEF Window
  <2>12. PICK f : f = Longer(e, Len(Lengths), rcvd + seg.len)
    OBVIOUS
  <2>13. Ends(f, Append(Lengths, seg.len), notified + ran.len, rcvd + seg.len)
    <3>1. Ends(e, Lengths, notified + ran.len, rcvd) /\ notified + ran.len \in Nat
      BY <2>3, <2>5 DEF Line
    <3> QED
      BY <2>5, <2>6, <2>12, <3>1, EndsPush
  <2>14. \A i \in 0 .. Len(Lengths) : f[i] = e[i]
    <3>1. \A i \in 0 .. Len(Lengths) : i \in 0 .. Len(Lengths) + 1 /\ i <= Len(Lengths)
      BY <2>5
    <3> QED
      BY <2>12, <3>1 DEF Longer
  <2>15. Len(Lengths) = Len(splitSeg) + Len(Joined) /\ e[Len(Lengths)] = rcvd
    BY <2>3 DEF Line, Waiting, Ends
  <2>16. Waiting(f, Append(Lengths, seg.len), Append(Joined, seg), Len(splitSeg))
    <3>1. /\ Len(Append(Joined, seg)) = Len(Joined) + 1
          /\ Append(Joined, seg)[Len(Joined) + 1] = seg
          /\ \A j \in 1 .. Len(Joined) : Append(Joined, seg)[j] = Joined[j]
          /\ Len(Append(Lengths, seg.len)) = Len(Lengths) + 1
          /\ Append(Lengths, seg.len)[Len(Lengths) + 1] = seg.len
          /\ \A i \in 1 .. Len(Lengths) : Append(Lengths, seg.len)[i] = Lengths[i]
      BY <2>5, <2>6
    <3>2. ASSUME NEW j \in 1 .. Len(Joined) + 1
          PROVE  /\ Append(Joined, seg)[j].pos = f[Len(splitSeg) + j - 1]
                 /\ Append(Joined, seg)[j].len = Append(Lengths, seg.len)[Len(splitSeg) + j]
      <4>1. CASE j = Len(Joined) + 1
        <5>1. /\ Len(splitSeg) + j - 1 = Len(Lengths) /\ Len(splitSeg) + j = Len(Lengths) + 1
              /\ Len(Lengths) \in 0 .. Len(Lengths)
          BY <2>5, <2>15, <4>1
        <5> QED
          BY <2>8, <2>14, <2>15, <3>1, <4>1, <5>1
      <4>2. CASE j # Len(Joined) + 1
        <5>1. /\ j \in 1 .. Len(Joined)
              /\ Len(splitSeg) + j - 1 \in 0 .. Len(Lengths)
              /\ Len(splitSeg) + j \in 1 .. Len(Lengths)
          BY <2>5, <2>15, <4>2
        <5>2. /\ Joined[j].pos = e[Len(splitSeg) + j - 1]
              /\ Joined[j].len = Lengths[Len(splitSeg) + j]
          BY <2>3, <5>1 DEF Line, Waiting
        <5> QED
          BY <2>14, <3>1, <5>1, <5>2
      <4> QED
        BY <4>1, <4>2
    <3>3. Len(Lengths) + 1 = Len(splitSeg) + (Len(Joined) + 1)
      BY <2>5, <2>15
    <3> QED
      BY <3>1, <3>2, <3>3 DEF Waiting
  <2>17. Meets(f, c, x, Len(splitSeg), All)
    <3>1. \A i \in 0 .. Len(splitSeg) : i \in 0 .. Len(Lengths)
      BY <2>5, <2>15
    <3> QED
      BY <2>3, <2>14, <3>1 DEF Line, Meets
  <2>18. Line(f, c, x)'
    <3>1. UNCHANGED <<splitSeg, memWr, memSts, mem, ran, notified, appd, All>>
      BY <1>1 DEF memVars, All
    <3>2. Ends(f, Lengths, notified + ran.len, rcvd)'
      BY <2>9, <2>10, <2>13, <3>1 DEF Ends
    <3>3. Waiting(f, Lengths, Joined, Len(splitSeg))'
      BY <2>1, <2>10, <2>16, <3>1 DEF Waiting
    <3>4. Statuses(c, splitSeg, One(ran.double), All)'
      BY <2>3, <3>1 DEF Line, Statuses
    <3>5. Meets(f, c, x, Len(splitSeg), All)'
      BY <2>17, <3>1 DEF Meets
    <3>6. Written(x, memWr, memSts)' /\ notified' <= x[0] /\ Filled(mem, appd, x[memSts])'
      BY <2>3, <3>1 DEF Line, Written, Filled
    <3> QED
      BY <3>2, <3>3, <3>4, <3>5, <3>6 DEF Line
  <2> QED
    BY <2>11, <2>18
<1> QED
  BY <1>5, <1>6, <1>1

LEMMA TsdStored ==
    ASSUME StoredInv, DeliveryInv', Tsd
    PROVE  StoredInv'
<1>1. /\ UNCHANGED <<sar, fsm, memVars, ranVars, hisVars>>
      /\ KeptInv' /\ DeliveryInv
  BY DEF Tsd, DeliveryInv, StoredInv
<1>2. Joined' = Joined
  BY <1>1, TsdDelivery
<1> SUFFICES ASSUME ~oooSeen, ~uncut
             PROVE  Window' /\ (\E e, c, x : Line(e, c, x))'
  BY <1>1 DEF StoredInv, hisVars
<1>3. PICK e, c, x : Line(e, c, x)
  BY DEF StoredInv
<1>4. Line(e, c, x)'
  <2>1. Lengths' = Lengths /\ appd' = appd /\ appd \in Nat
    BY <1>1, LineTypes DEF Lengths, ranVars, hisVars
  <2> QED
    BY <1>1, <1>2, <1>3, <2>1, SameLine DEF memVars, ranVars, hisVars
<1>5. Window'
  BY <1>1 DEF StoredInv, Window, ranVars, hisVars
<1> QED
  BY <1>4, <1>5

\* Mwr passes the first waiting segment to MEM.
LEMMA MwrStored ==
    ASSUME NoWrap, StoredInv, DeliveryInv', Mwr
    PROVE  StoredInv'
<1> DEFINE seg == Head(mwrData)
           b   == Splits(Command(seg))
           n   == Len(splitSeg)
<1>1. /\ splitSeg' = Append(splitSeg, Splits(Head(wrCmd)))
      /\ memWr' = memWr \o Accesses(Head(wrCmd), seg)
      /\ UNCHANGED <<sar, fsm, memSts, mem, ranVars, hisVars>>
      /\ KeptInv' /\ DeliveryInv
  BY DEF Mwr, DeliveryInv, StoredInv
<1>2. /\ Joined # <<>> /\ Joined' = Tail(Joined) /\ Joined[1] = seg
      /\ Head(wrCmd) = Command(seg) /\ Sent(seg)
  BY <1>1, MwrDelivery
<1> SUFFICES ASSUME ~oooSeen, ~uncut
             PROVE  Window' /\ (\E e, c, x : Line(e, c, x))'
  BY <1>1 DEF StoredInv, hisVars
<1>3. PICK e, c, x : Line(e, c, x)
  BY DEF StoredInv
<1>4. Window'
  BY <1>1 DEF StoredInv, Window, ranVars, hisVars
<1>5. /\ Lengths \in Seq(Nat) /\ Len(Lengths) \in Nat /\ splitSeg \in Seq(BOOLEAN) /\ n \in Nat
      /\ Joined \in Seq(Segment) /\ Len(Joined) \in Nat /\ memSts \in Nat /\ All \in Nat
      /\ memWr \in Seq(Access) /\ Len(memWr) \in Nat
      /\ appd \in Nat /\ notified \in Nat /\ rcvd \in Nat
  BY <1>1, LineTypes
<1>6. /\ Len(Joined) > 0 /\ Len(Tail(Joined)) = Len(Joined) - 1
      /\ \A j \in 1 .. Len(Joined) - 1 : Tail(Joined)[j] = Joined[j + 1]
  BY <1>2, <1>5, NotEmpty
<1>7. /\ Len(Lengths) = n + Len(Joined) /\ seg.pos = e[n] /\ seg.len = Lengths[n + 1]
      /\ e[n + 1] = seg.pos + seg.len
      /\ n \in 0 .. Len(Lengths) /\ n + 1 \in 0 .. Len(Lengths)
  <2>1. Len(Lengths) = n + Len(Joined)
    BY <1>3 DEF Line, Waiting
  <2>2. /\ 1 \in 1 .. Len(Joined) /\ n + 1 - 1 = n /\ n + 1 \in 1 .. Len(Lengths)
        /\ n \in 0 .. Len(Lengths) /\ n + 1 \in 0 .. Len(Lengths)
    BY <1>5, <1>6, <2>1
  <2>3. Joined[1].pos = e[n + 1 - 1] /\ Joined[1].len = Lengths[n + 1]
    BY <1>3, <2>2 DEF Line, Waiting
  <2>4. e[n + 1] = e[n + 1 - 1] + Lengths[n + 1]
    BY <1>3, <2>2 DEF Line, Ends
  <2> QED
    BY <1>2, <2>1, <2>2, <2>3, <2>4
<1>8. seg.len < BufSize
  <2>1. e[n] \in Nat /\ notified <= e[n] /\ e[n + 1] \in Nat /\ e[n + 1] <= rcvd
    BY <1>1, <1>3, <1>7, LineOrder
  <2>2. appd <= notified /\ rcvd - appd < BufSize
    BY DEF StoredInv, Window
  <2>3. seg.len \in Nat /\ BufSize \in Nat
    BY <1>2, RxAssumption DEF Sent, Segment
  <2> QED
    BY <1>5, <1>7, <2>1, <2>2, <2>3, SMTT(60)
<1>9. x[All] = seg.pos /\ Rising(x, All)
  BY <1>1, <1>3, <1>7, LineOrder DEF Line, Meets
<1> HIDE DEF seg
<1>10. PICK y : Follows(y, x, All, seg)
  BY <1>2, <1>5, <1>8, <1>9, AccessesFollow
<1>11. b \in BOOLEAN /\ One(b) \in Nat
  BY DEF One, Splits
<1> HIDE DEF b
<1>12. PICK more : more = All + 1 + One(b)
  OBVIOUS
<1>13. /\ more \in Nat /\ All <= more /\ Rising(y, more) /\ \A k \in 0 .. All : y[k] = x[k]
       /\ y[more] = seg.pos + seg.len /\ Written(y, Accesses(Command(seg), seg), All)
  BY <1>5, <1>10, <1>11, <1>12 DEF Follows, b
<1>14. PICK d : d = Longer(c, n, more)
  OBVIOUS
<1>15. /\ Statuses(d, Append(splitSeg, b), One(ran.double), more)
       /\ \A i \in 0 .. n : d[i] = c[i]
       /\ d[n + 1] = more
  <2>1. Statuses(c, splitSeg, One(ran.double), All) /\ One(ran.double) \in Nat
    BY <1>3 DEF Line, One
  <2> QED
    BY <1>5, <1>11, <1>12, <1>14, <2>1, StatusesPush
<1>16. Meets(e, d, y, n + 1, more)
  <2>1. Meets(e, c, x, n, All)
    BY <1>3 DEF Line
  <2>2. y[more] = e[n + 1]
    BY <1>7, <1>13
  <2> QED
    BY <1>5, <1>13, <1>15, <2>1, <2>2, MeetsFurther, SMTT(40)
<1>17. /\ splitSeg' = Append(splitSeg, b) /\ Len(splitSeg') = n + 1
       /\ memWr' = memWr \o Accesses(Command(seg), seg)
  <2>1. splitSeg' = Append(splitSeg, b) /\ memWr' = memWr \o Accesses(Command(seg), seg)
    BY <1>1, <1>2 DEF b, seg
  <2> QED
    BY <1>5, <1>11, <2>1
<1>18. Accesses(Command(seg), seg) \in Seq(Access)
  BY <1>2, AccessTypes DEF Access
<1>19. All' = more
  <2>1. Len(Accesses(Command(seg), seg)) = 1 + One(b)
    BY DEF Accesses, b, One
  <2>2. Len(memWr') = Len(memWr) + Len(Accesses(Command(seg), seg))
    <3> HIDE DEF Access
    <3> QED
      BY <1>5, <1>17, <1>18
  <2> QED
    <3>1. memSts \in Nat /\ Len(memWr) \in Nat /\ One(b) \in Nat
      BY <1>5, <1>11
    <3>2. All' = memSts + (Len(memWr) + (1 + One(b)))
      BY <1>1, <2>1, <2>2 DEF All
    <3>3. more = (memSts + Len(memWr)) + 1 + One(b)
      BY <1>12 DEF All
    <3> QED
      BY <3>1, <3>2, <3>3
<1>20. Written(y, memWr', memSts)
  <2>1. Written(x, memWr, memSts) /\ memSts + Len(memWr) = All
    BY <1>3 DEF Line, All
  <2> HIDE DEF Access
  <2> QED
    BY <1>5, <1>13, <1>17, <1>18, <2>1, WrittenMore
<1>21. y[0] = x[0] /\ y[memSts] = x[memSts]
  BY <1>5, <1>13 DEF All
<1>22. Waiting(e, Lengths, Joined', n + 1)
  <2>1. Len(Lengths) = (n + 1) + (Len(Joined) - 1)
    BY <1>5, <1>7
  <2> SUFFICES ASSUME NEW j \in 1 .. Len(Joined) - 1
               PROVE  /\ Tail(Joined)[j].pos = e[n + 1 + j - 1]
                      /\ Tail(Joined)[j].len = Lengths[n + 1 + j]
    BY <1>2, <1>6, <2>1 DEF Waiting
  <2>2. j + 1 \in 1 .. Len(Joined) /\ n + (j + 1) - 1 = n + 1 + j - 1 /\ n + (j + 1) = n + 1 + j
    BY <1>5, <1>6
  <2>3. Joined[j + 1].pos = e[n + (j + 1) - 1] /\ Joined[j + 1].len = Lengths[n + (j + 1)]
    BY <1>3, <2>2 DEF Line, Waiting
  <2> QED
    BY <1>6, <2>2, <2>3
<1> HIDE DEF n
<1>23. Line(e, d, y)'
  <2>1. UNCHANGED <<memSts, mem, ran, notified, rcvd, appd, Lengths>>
    BY <1>1 DEF ranVars, hisVars, Lengths
  <2>2. Ends(e, Lengths, notified + ran.len, rcvd)'
    BY <1>3, <2>1 DEF Line, Ends
  <2>3. Waiting(e, Lengths, Joined, Len(splitSeg))'
    BY <1>17, <1>22, <2>1 DEF Waiting
  <2>4. Statuses(d, splitSeg, One(ran.double), All)'
    BY <1>15, <1>17, <1>19, <2>1 DEF Statuses
  <2>5. Meets(e, d, y, Len(splitSeg), All)'
    BY <1>16, <1>17, <1>19 DEF Meets
  <2>6. Written(y, memWr, memSts)'
    BY <1>20, <2>1 DEF Written
  <2>7. notified' <= y[0] /\ Filled(mem, appd, y[memSts])'
    BY <1>3, <1>21, <2>1 DEF Line, Filled
  <2> QED
    BY <2>2, <2>3, <2>4, <2>5, <2>6, <2>7 DEF Line
<1> QED
  BY <1>4, <1>23

\* MEM completes an access: the cells of what has not been read yet are not
\* among those it writes.
LEMMA MemWriteStored ==
    ASSUME NoWrap, StoredInv, DeliveryInv', MemWrite
    PROVE  StoredInv'
<1> DEFINE w == Head(memWr)
<1>1. /\ memWr # <<>> /\ memWr' = Tail(memWr) /\ memSts' = memSts + 1
      /\ mem' = [k \in DOMAIN mem |-> IF k \in w.cell .. w.cell + w.len - 1
                                       THEN w.pos + (k - w.cell) ELSE mem[k]]
      /\ UNCHANGED <<rxVars, splitSeg, ranVars, hisVars>>
      /\ DeliveryInv
  BY DEF MemWrite, StoredInv
<1> SUFFICES ASSUME ~oooSeen, ~uncut
             PROVE  Window' /\ (\E e, c, x : Line(e, c, x))'
  BY <1>1 DEF StoredInv, hisVars
<1>2. PICK e, c, x : Line(e, c, x)
  BY DEF StoredInv
<1>3. Window /\ Window'
  BY <1>1 DEF StoredInv, Window, rxVars, ranVars, hisVars
<1>4. /\ memWr \in Seq(Access) /\ Len(memWr) \in Nat /\ memSts \in Nat /\ All \in Nat
      /\ mem \in [0 .. BufSize - 1 -> 0 .. Empty] /\ MaxPos \in Nat /\ rcvd <= MaxPos
      /\ appd \in Nat /\ notified \in Nat /\ rcvd \in Nat
  BY <1>1, LineTypes
<1> HIDE DEF Access
<1>5. /\ w \in Access /\ Len(Tail(memWr)) = Len(memWr) - 1 /\ Len(memWr) > 0
  BY <1>1, <1>4, NotEmpty
<1>6. /\ Written(x, Tail(memWr), memSts + 1)
      /\ w.pos = x[memSts] /\ w.pos + w.len = x[memSts + 1] /\ InBuffer(w)
  <2>1. Written(x, memWr, memSts)
    BY <1>2 DEF Line
  <2> QED
    BY <1>1, <1>4, <2>1, WrittenFirst
<1>7. All' = All
  <2>1. Len(memWr') = Len(memWr) - 1
    BY <1>1, <1>5
  <2> QED
    BY <1>1, <1>4, <2>1 DEF All
<1>8. Filled(mem', appd, x[memSts + 1])
  <2>1. w.pos \in Nat /\ w.len \in Nat
    BY <1>5, RxAssumption DEF Access, Position
  <2>2. memSts \in 0 .. All /\ memSts + 1 \in 0 .. All
    BY <1>4, <1>5 DEF All
  <2>3. notified <= w.pos /\ w.pos + w.len <= rcvd
    <3>1. \A k \in 0 .. All : x[k] \in Nat /\ notified <= x[k] /\ x[k] <= rcvd
      BY <1>1, <1>2, LineOrder
    <3> QED
      BY <1>6, <2>2, <3>1
  <2>4. appd <= notified /\ rcvd - appd < BufSize
    BY <1>3 DEF Window
  <2> HIDE DEF w
  <2>5. /\ appd <= w.pos /\ w.pos + w.len <= MaxPos
        /\ w.pos + w.len - appd < BufSize
    BY SMTT(40), <1>4, <2>1, <2>3, <2>4, RxAssumption
  <2>6. DOMAIN mem = 0 .. BufSize - 1 /\ Filled(mem, appd, w.pos)
    BY <1>2, <1>4, <1>6 DEF Line
  <2>7. Filled(mem', appd, w.pos + w.len)
    BY <1>1, <1>4, <1>6, <2>1, <2>5, <2>6, FilledMore
  <2> QED
    BY <1>6, <2>7
<1>9. Line(e, c, x)'
  <2>1. UNCHANGED <<splitSeg, ran, notified, rcvd, appd, Lengths, Joined>>
    BY <1>1 DEF rxVars, ranVars, hisVars, Lengths, Joined
  <2>2. Ends(e, Lengths, notified + ran.len, rcvd)'
    BY <1>2, <2>1 DEF Line, Ends
  <2>3. Waiting(e, Lengths, Joined, Len(splitSeg))'
    BY <1>2, <2>1 DEF Line, Waiting
  <2>4. Statuses(c, splitSeg, One(ran.double), All)'
    BY <1>2, <1>7, <2>1 DEF Line, Statuses
  <2>5. Meets(e, c, x, Len(splitSeg), All)'
    BY <1>2, <1>7, <2>1 DEF Line, Meets
  <2>6. Written(x, memWr, memSts)'
    BY <1>1, <1>6 DEF Written
  <2>7. notified' <= x[0] /\ Filled(mem, appd, x[memSts])'
    BY <1>1, <1>2, <1>8, <2>1 DEF Line, Filled
  <2> QED
    BY <2>2, <2>3, <2>4, <2>5, <2>6, <2>7 DEF Line
<1> QED
  BY <1>3, <1>9

LEMMA ConcatNotEmpty ==
    ASSUME NEW s \in Seq(Nat), NEW t \in Seq(Nat), s # <<>>
    PROVE  s \o t # <<>> /\ Head(s \o t) = Head(s) /\ Tail(s \o t) = Tail(s) \o t
<1>1. /\ Len(s) \in Nat /\ Len(s) > 0 /\ Head(s) = s[1] /\ Tail(s) \in Seq(Nat)
      /\ Len(t) \in Nat
  BY NotEmpty
<1>2. s \o t \in Seq(Nat) /\ Len(s \o t) > 0 /\ (s \o t)[1] = s[1]
  BY <1>1
<1>3. s \o t # <<>> /\ Head(s \o t) = Head(s)
  BY <1>1, <1>2
<1>4. Tail(s \o t) = Tail(s) \o t
  BY <1>1, <1>2
<1> QED
  BY <1>3, <1>4

\* Ran takes the second status of a segment that has been split.
LEMMA RanSecondStored ==
    ASSUME StoredInv, DeliveryInv', RanSecond
    PROVE  StoredInv'
<1> DEFINE n == Len(splitSeg)
<1>1. /\ ran.double /\ memSts > 0 /\ memSts' = memSts - 1 /\ notified' = notified + ran.len
      /\ ran' = [double |-> FALSE, len |-> 0]
      /\ UNCHANGED <<rxVars, splitSeg, memWr, mem, fsmNotif, ranFifo, appd, rcvd,
                     kept, oooSeen, uncut, arrived>>
      /\ DeliveryInv
  BY DEF RanSecond, StoredInv
<1> SUFFICES ASSUME ~oooSeen, ~uncut
             PROVE  Window' /\ (\E e, c, x : Line(e, c, x))'
  BY <1>1 DEF StoredInv
<1>2. PICK e, c, x : Line(e, c, x)
  BY DEF StoredInv
<1>3. /\ memWr \in Seq(Access) /\ Len(memWr) \in Nat /\ memSts \in Nat /\ All \in Nat
      /\ splitSeg \in Seq(BOOLEAN) /\ n \in Nat
      /\ appd \in Nat /\ notified \in Nat /\ rcvd \in Nat /\ ran.len \in Nat
  BY <1>1, LineTypes
<1> HIDE DEF Access
<1>4. Window'
  <2>1. Window /\ appd <= notified'
    <3>1. Window
      BY DEF StoredInv
    <3> QED
      BY <1>1, <1>3, <3>1 DEF Window
  <2> QED
    BY <1>1, <2>1 DEF Window, rxVars
<1>5. All \in Nat \ {0} /\ All' = All - 1
  BY <1>1, <1>3 DEF All
<1>6. PICK d, y : d = Lower(c, n) /\ y = Rest(x, All)
  OBVIOUS
<1>7. /\ Statuses(d, splitSeg, 0, All - 1)
      /\ \A i \in 0 .. n : d[i] = c[i] - 1 /\ c[i] >= 1
  <2>1. Statuses(c, splitSeg, 1, All)
    BY <1>1, <1>2 DEF Line, One
  <2> QED
    BY <1>3, <1>6, <2>1, StatusesSecond
<1>8. /\ Meets(e, d, y, n, All - 1)
      /\ \A k \in 0 .. All - 1 : y[k] = x[k + 1]
  <2>1. Meets(e, c, x, n, All)
    BY <1>2 DEF Line
  <2>2. Earlier(e, d, n, e, c, n)
    BY <1>7 DEF Earlier
  <2> QED
    BY <1>3, <1>5, <1>6, <2>1, <2>2, MeetsEarlier
<1>9. Written(y, memWr, memSts - 1)
  <2>1. Written(x, memWr, memSts) /\ memSts \in Nat \ {0} /\ memSts + Len(memWr) - 1 = All - 1
    BY <1>1, <1>2, <1>3 DEF Line, All
  <2> QED
    BY <1>3, <1>8, <2>1, WrittenEarlier
<1>10. y[0] = notified + ran.len /\ y[memSts - 1] = x[memSts]
  <2>1. /\ 0 \in 0 .. n /\ 0 \in 0 .. All - 1 /\ 0 + 1 = 1
        /\ memSts - 1 \in 0 .. All - 1 /\ (memSts - 1) + 1 = memSts
    BY <1>1, <1>3 DEF All
  <2>2. c[0] = 1 /\ x[c[0]] = e[0] /\ e[0] = notified + ran.len
    BY <1>1, <1>2, <2>1 DEF Line, Statuses, Meets, Ends, One
  <2> QED
    BY <1>8, <2>1, <2>2
<1>11. Line(e, d, y)'
  <2>1. UNCHANGED <<splitSeg, memWr, mem, rcvd, appd, Lengths, Joined>>
    BY <1>1 DEF rxVars, Lengths, Joined
  <2>2. Ends(e, Lengths, notified + ran.len, rcvd)'
    <3>1. notified' + ran'.len = notified + ran.len
      BY <1>1, <1>3
    <3> QED
      BY <1>2, <2>1, <3>1 DEF Line, Ends
  <2>3. Waiting(e, Lengths, Joined, Len(splitSeg))'
    BY <1>2, <2>1 DEF Line, Waiting
  <2>4. Statuses(d, splitSeg, One(ran.double), All)'
    BY <1>1, <1>5, <1>7, <2>1 DEF Statuses, One
  <2>5. Meets(e, d, y, Len(splitSeg), All)'
    BY <1>5, <1>8, <2>1 DEF Meets
  <2>6. Written(y, memWr, memSts)'
    BY <1>1, <1>9 DEF Written
  <2>7. notified' <= y[0]
    BY <1>1, <1>3, <1>10
  <2>8. Filled(mem, appd, y[memSts])'
    <3>1. Filled(mem, appd, x[memSts])
      BY <1>2 DEF Line
    <3> QED
      BY <1>1, <1>10, <2>1, <3>1 DEF Filled
  <2> QED
    BY <2>2, <2>3, <2>4, <2>5, <2>6, <2>7, <2>8 DEF Line
<1> QED
  BY <1>4, <1>11

\* Ran takes a status for its next notification.
LEMMA RanFirstStored ==
    ASSUME StoredInv, DeliveryInv', RanFirst
    PROVE  StoredInv'
<1> DEFINE n == Len(splitSeg)
           h == Head(ranFifo)
           b == Head(splitSeg)
<1>1. /\ ~ran.double /\ memSts > 0 /\ splitSeg # <<>> /\ ranFifo # <<>>
      /\ memSts' = memSts - 1 /\ splitSeg' = Tail(splitSeg) /\ ranFifo' = Tail(ranFifo)
      /\ IF b THEN ran' = [double |-> TRUE, len |-> h] /\ notified' = notified
         ELSE notified' = notified + h /\ ran' = ran
      /\ UNCHANGED <<rxVars, memWr, mem, fsmNotif, appd, rcvd, kept, oooSeen, uncut, arrived>>
      /\ DeliveryInv
  BY DEF RanFirst, StatusThere, StoredInv
<1> SUFFICES ASSUME ~oooSeen, ~uncut
             PROVE  Window' /\ (\E e, c, x : Line(e, c, x))'
  BY <1>1 DEF StoredInv
<1>2. PICK e, c, x : Line(e, c, x)
  BY DEF StoredInv
<1>3. /\ memWr \in Seq(Access) /\ Len(memWr) \in Nat /\ memSts \in Nat /\ All \in Nat
      /\ splitSeg \in Seq(BOOLEAN) /\ ranFifo \in Seq(Nat) /\ fsmNotif \in Seq(Nat)
      /\ Lengths \in Seq(Nat) /\ Len(Lengths) \in Nat /\ Len(Joined) \in Nat
      /\ appd \in Nat /\ notified \in Nat /\ rcvd \in Nat
      /\ ran \in [double : BOOLEAN, len : 0 .. MaxPos]
  BY <1>1, LineTypes
<1> HIDE DEF Access
<1>4. /\ n \in Nat \ {0} /\ b \in BOOLEAN /\ h \in Nat /\ Len(Tail(splitSeg)) = n - 1
      /\ Tail(splitSeg) \in Seq(BOOLEAN) /\ Tail(ranFifo) \in Seq(Nat)
  <2>1. splitSeg # <<>> /\ ranFifo # <<>>
    BY <1>1
  <2> QED
    BY <1>3, <2>1, NotEmpty
<1>5. Lengths # <<>> /\ Head(Lengths) = h /\ Lengths' = Tail(Lengths)
  <2>1. ranFifo # <<>>
    BY <1>1
  <2>2. /\ ranFifo \o fsmNotif # <<>> /\ Head(ranFifo \o fsmNotif) = Head(ranFifo)
        /\ Tail(ranFifo \o fsmNotif) = Tail(ranFifo) \o fsmNotif
    BY <1>3, <2>1, ConcatNotEmpty
  <2> QED
    BY <1>1, <2>2 DEF Lengths
<1>6. ran.len = 0
  BY <1>1 DEF DeliveryInv, Aligned
<1>7. notified' + ran'.len = notified + h /\ One(ran'.double) = One(b)
  <2>1. CASE b
    <3>1. ran' = [double |-> TRUE, len |-> h] /\ notified' = notified
      BY <1>1, <2>1
    <3>2. ran'.double /\ ran'.len = h
      BY <3>1
    <3> QED
      BY <2>1, <3>1, <3>2 DEF One
  <2>2. CASE ~b
    <3>1. notified' = notified + h /\ ran' = ran
      BY <1>1, <2>2
    <3> QED
      <4>1. notified' + ran'.len = (notified + h) + 0 /\ ~ran'.double
        BY <1>1, <1>6, <3>1
      <4>2. notified' + ran'.len = notified + h
        BY <1>3, <1>4, <4>1
      <4> QED
        BY <2>2, <4>1, <4>2 DEF One
  <2> QED
    BY <2>1, <2>2
<1> HIDE DEF h, b, n
<1>8. notified' \in Nat /\ notified <= notified'
  BY <1>1, <1>3, <1>4
<1>9. Window'
  <2>1. Window /\ appd <= notified'
    <3>1. Window
      BY DEF StoredInv
    <3> QED
      BY <1>3, <1>8, <3>1 DEF Window
  <2> QED
    BY <1>1, <2>1 DEF Window, rxVars
<1>10. All \in Nat \ {0} /\ All' = All - 1
  BY <1>1, <1>3 DEF All
<1>11. PICK f, d, y : f = Rest(e, Len(Lengths)) /\ d = Lower(Rest(c, n), n - 1) /\ y = Rest(x, All)
  OBVIOUS
<1>12. /\ Ends(f, Tail(Lengths), notified + h, rcvd)
       /\ \A i \in 0 .. Len(Lengths) - 1 : f[i] = e[i + 1]
  <2>1. Ends(e, Lengths, notified, rcvd)
    BY <1>2, <1>3, <1>6 DEF Line
  <2> QED
    BY <1>3, <1>5, <1>11, <2>1, EndsPop, SMTT(40)
<1>13. /\ Statuses(d, Tail(splitSeg), One(b), All - 1)
       /\ \A i \in 0 .. n - 1 : d[i] = c[i + 1] - 1 /\ c[i + 1] >= 1
  <2>1. Statuses(c, splitSeg, 0, All) /\ splitSeg # <<>>
    BY <1>1, <1>2 DEF Line, One
  <2> QED
    BY <1>3, <1>11, <2>1, StatusesFirst, ZenonT(60) DEF n, b
<1>14. Len(Lengths) = n + Len(Joined) /\ Len(Tail(Lengths)) = Len(Lengths) - 1
  <2>1. Len(Lengths) = n + Len(Joined)
    BY <1>2 DEF Line, Waiting, n
  <2> QED
    BY <1>3, <1>5, <2>1, NotEmpty
<1>15. /\ Meets(f, d, y, n - 1, All - 1)
       /\ \A k \in 0 .. All - 1 : y[k] = x[k + 1]
  <2>1. Meets(e, c, x, n, All)
    BY <1>2 DEF Line, n
  <2>2. Earlier(f, d, n - 1, e, c, n)
    <3> SUFFICES ASSUME NEW i \in 0 .. n - 1
                 PROVE  \E j \in 0 .. n : f[i] = e[j] /\ d[i] = c[j] - 1 /\ c[j] >= 1
      BY DEF Earlier
    <3>1. i + 1 \in 0 .. n /\ i \in 0 .. Len(Lengths) - 1
      BY <1>3, <1>4, <1>14
    <3> QED
      BY <1>12, <1>13, <3>1
  <2>3. n \in Nat /\ n - 1 \in Nat
    BY <1>4
  <2> QED
    BY <1>10, <1>11, <2>1, <2>2, <2>3, MeetsEarlier
<1>16. Written(y, memWr, memSts - 1)
  <2>1. Written(x, memWr, memSts) /\ memSts \in Nat \ {0} /\ memSts + Len(memWr) - 1 = All - 1
    BY <1>1, <1>2, <1>3 DEF Line, All
  <2> QED
    BY <1>3, <1>15, <2>1, WrittenEarlier
<1>17. notified' <= y[0] /\ y[memSts - 1] = x[memSts]
  <2>1. /\ 0 \in 0 .. n - 1 /\ 0 \in 0 .. All - 1 /\ 0 + 1 = 1 /\ 1 \in 0 .. All /\ 0 \in 0 .. All
        /\ memSts - 1 \in 0 .. All - 1 /\ (memSts - 1) + 1 = memSts
    BY <1>1, <1>3, <1>4, <1>10 DEF All
  <2>2. y[memSts - 1] = x[memSts]
    BY <1>15, <2>1
  <2>3. CASE b
    <3>1. x[0] \in Nat /\ x[1] \in Nat /\ x[0] <= x[1] /\ notified <= x[0] /\ notified' = notified
      <4>1. Rising(x, All) /\ notified <= x[0]
        BY <1>2 DEF Line, Meets
      <4>2. x[0] \in Nat /\ x[1] \in Nat /\ x[0] <= x[1]
        BY <2>1, <4>1 DEF Rising
      <4> QED
        BY <1>1, <2>3, <4>1, <4>2
    <3>2. y[0] = x[1]
      BY <1>15, <2>1
    <3> QED
      BY <1>3, <2>2, <3>1, <3>2
  <2>4. CASE ~b
    <3>1. d[0] = 0 /\ y[d[0]] = f[0]
      BY <1>13, <1>15, <2>1, <2>4 DEF Statuses, Meets, One
    <3>2. f[0] = notified + h /\ notified' = notified + h
      BY <1>1, <1>12, <2>4 DEF Ends
    <3> QED
      BY <1>8, <2>2, <3>1, <3>2
  <2> QED
    BY <2>3, <2>4
<1>18. Waiting(f, Tail(Lengths), Joined, n - 1)
  <2>1. Len(Tail(Lengths)) = (n - 1) + Len(Joined)
    BY <1>3, <1>4, <1>14
  <2> SUFFICES ASSUME NEW j \in 1 .. Len(Joined)
               PROVE  /\ Joined[j].pos = f[n - 1 + j - 1]
                      /\ Joined[j].len = Tail(Lengths)[n - 1 + j]
    BY <2>1 DEF Waiting
  <2>2. /\ n - 1 + j - 1 \in 0 .. Len(Lengths) - 1 /\ (n - 1 + j - 1) + 1 = n + j - 1
        /\ n - 1 + j \in 1 .. Len(Lengths) - 1 /\ (n - 1 + j) + 1 = n + j
    BY <1>3, <1>4, <1>14
  <2>3. Joined[j].pos = e[n + j - 1] /\ Joined[j].len = Lengths[n + j]
    BY <1>2 DEF Line, Waiting, n
  <2>4. \A i \in 1 .. Len(Lengths) - 1 : Tail(Lengths)[i] = Lengths[i + 1]
    BY <1>3, <1>5, NotEmpty
  <2> QED
    BY <1>12, <2>2, <2>3, <2>4
<1>19. Line(f, d, y)'
  <2>1. UNCHANGED <<memWr, mem, rcvd, appd, Joined>>
    BY <1>1 DEF rxVars, Joined
  <2>2. Ends(f, Lengths, notified + ran.len, rcvd)'
    BY <1>5, <1>7, <1>12, <2>1 DEF Ends
  <2>3. Waiting(f, Lengths, Joined, Len(splitSeg))'
    BY <1>1, <1>4, <1>5, <1>18, <2>1 DEF Waiting
  <2>4. Statuses(d, splitSeg, One(ran.double), All)'
    BY <1>1, <1>7, <1>10, <1>13 DEF Statuses
  <2>5. Meets(f, d, y, Len(splitSeg), All)'
    BY <1>1, <1>4, <1>10, <1>15 DEF Meets
  <2>6. Written(y, memWr, memSts)'
    BY <1>1, <1>16 DEF Written
  <2>7. Filled(mem, appd, y[memSts])'
    <3>1. Filled(mem, appd, x[memSts])
      BY <1>2 DEF Line
    <3> QED
      BY <1>1, <1>17, <2>1, <3>1 DEF Filled
  <2> QED
    BY <1>17, <2>2, <2>3, <2>4, <2>5, <2>6, <2>7 DEF Line
<1> QED
  BY <1>9, <1>19

\* Ran takes over a notification, which is not empty.
LEMMA ConcatMove ==
    ASSUME NEW s \in Seq(Nat), NEW t \in Seq(Nat), t # <<>>
    PROVE  Append(s, Head(t)) \o Tail(t) = s \o t
OBVIOUS

LEMMA RanNotifStored ==
    ASSUME StoredInv, DeliveryInv', RanNotif
    PROVE  StoredInv'
<1> DEFINE h == Head(fsmNotif)
<1>1. /\ fsmNotif # <<>> /\ fsmNotif' = Tail(fsmNotif)
      /\ h # 0 => ranFifo' = Append(ranFifo, h)
      /\ UNCHANGED <<rxVars, memVars, ran, hisVars>>
      /\ DeliveryInv
  BY DEF RanNotif, StoredInv
<1> SUFFICES ASSUME ~oooSeen, ~uncut
             PROVE  Window' /\ (\E e, c, x : Line(e, c, x))'
  BY <1>1 DEF StoredInv, hisVars
<1>2. PICK e, c, x : Line(e, c, x)
  BY DEF StoredInv
<1>3. /\ ranFifo \in Seq(Nat) /\ fsmNotif \in Seq(Nat) /\ appd \in Nat
  BY <1>1, LineTypes
<1>4. /\ h = fsmNotif[1] /\ Len(fsmNotif) \in Nat /\ Len(fsmNotif) > 0
      /\ Len(Tail(fsmNotif)) = Len(fsmNotif) - 1
      /\ \A i \in 1 .. Len(fsmNotif) - 1 : Tail(fsmNotif)[i] = fsmNotif[i + 1]
  <2>1. fsmNotif # <<>>
    BY <1>1
  <2> QED
    BY <1>3, <2>1, NotEmpty
<1>5. \A i \in 1 .. Len(fsmNotif) : fsmNotif[i] > 0
  BY DEF StoredInv, Window
<1>6. h # 0
  <2>1. 1 \in 1 .. Len(fsmNotif)
    BY <1>4
  <2>2. fsmNotif[1] > 0
    BY <1>5, <2>1
  <2> QED
    BY <1>4, <2>2
<1>7. Lengths' = Lengths
  <2>1. Append(ranFifo, h) \o Tail(fsmNotif) = ranFifo \o fsmNotif
    <3>1. fsmNotif # <<>>
      BY <1>1
    <3> QED
      BY <1>3, <3>1, ConcatMove
  <2> QED
    BY <1>1, <1>6, <2>1 DEF Lengths
<1> HIDE DEF h
<1>8. Line(e, c, x)'
  <2>1. Joined' = Joined /\ appd' = appd
    BY <1>1 DEF Joined, rxVars, hisVars
  <2> QED
    BY <1>1, <1>2, <1>3, <1>7, <2>1, SameLine DEF memVars, hisVars
<1>9. Window'
  <2>1. \A i \in 1 .. Len(fsmNotif') : fsmNotif'[i] > 0
    <3> SUFFICES ASSUME NEW i \in 1 .. Len(fsmNotif) - 1
                 PROVE  fsmNotif[i + 1] > 0
      BY <1>1, <1>4
    <3>1. i + 1 \in 1 .. Len(fsmNotif)
      BY <1>4
    <3> QED
      BY <1>5, <3>1
  <2> QED
    BY <1>1, <2>1 DEF StoredInv, Window, rxVars, hisVars
<1> QED
  BY <1>8, <1>9

\* The application reads.
LEMMA AppReadStored ==
    ASSUME NoWrap, StoredInv, DeliveryInv', AppRead
    PROVE  StoredInv'
<1>1. /\ appd < notified /\ appd' = notified
      /\ sar' = [sar EXCEPT !.appd = (@ + (notified - appd)) % BufSize]
      /\ UNCHANGED <<fsm, payload, dropCmd, wrCmd, mwrData, memVars, ranVars, rcvd,
                     notified, kept, oooSeen, uncut, arrived>>
      /\ DeliveryInv
  BY DEF AppRead, StoredInv
<1> SUFFICES ASSUME ~oooSeen, ~uncut
             PROVE  Window' /\ (\E e, c, x : Line(e, c, x))'
  BY <1>1 DEF StoredInv
<1>2. PICK e, c, x : Line(e, c, x)
  BY DEF StoredInv
<1>3. appd \in Nat /\ notified \in Nat /\ rcvd \in Nat
  BY <1>1, LineTypes
<1>4. Line(e, c, x)'
  <2>1. Joined' = Joined /\ Lengths' = Lengths /\ appd <= appd' /\ appd' \in Nat
    BY <1>1, <1>3 DEF Joined, Lengths, ranVars
  <2> QED
    BY <1>1, <1>2, <1>3, <2>1, SameLine DEF memVars, ranVars
<1>5. sar'.appd = Cell(SeqOf(notified))
  <2>1. appd \in Position /\ notified \in Position /\ sar \in SarEntry
    BY <1>1 DEF DeliveryInv, AckedIsNotifiedOnce, TypeOK
  <2>2. sar.appd = Cell(SeqOf(appd))
    BY DEF StoredInv, Window
  <2>3. PICK u, d : u = Isn + appd /\ d = notified - appd
    OBVIOUS
  <2>4. u \in Int /\ d \in Int /\ u + d = Isn + notified /\ BufSize \in Nat \ {0}
    BY <1>3, <2>3, ConstantTypes, RxAssumption
  <2>5. sar.appd = u % BufSize
    BY <2>1, <2>2, <2>3, CellOf
  <2>6. Cell(SeqOf(notified)) = (u + d) % BufSize
    BY <2>1, <2>4, CellOf
  <2>7. ((u % BufSize) + d) % BufSize = (u + d) % BufSize
    BY <2>4, ModAdd
  <2>8. sar'.appd = (sar.appd + d) % BufSize
    BY <1>1, <2>1, <2>3 DEF SarEntry
  <2> QED
    BY <2>5, <2>6, <2>7, <2>8
<1>6. Window'
  <2>1. Window
    BY DEF StoredInv
  <2>2. ~sar'.ooo /\ sar'.oooHead = sar'.rcvd
    <3>1. sar \in SarEntry
      BY <1>1 DEF DeliveryInv, AckedIsNotifiedOnce, TypeOK
    <3>2. sar'.ooo = sar.ooo /\ sar'.oooHead = sar.oooHead /\ sar'.rcvd = sar.rcvd
      BY <1>1, <3>1 DEF SarEntry
    <3> QED
      BY <2>1, <3>2 DEF Window
  <2>3. appd' <= notified' /\ rcvd' - appd' < BufSize
    <3>1. rcvd - appd < BufSize /\ BufSize \in Nat
      BY <2>1, RxAssumption DEF Window
    <3>2. rcvd - notified < BufSize
      BY <1>1, <1>3, <3>1
    <3> QED
      BY <1>1, <1>3, <3>2
  <2>4. fsm.pc = "transition" =>
          \E a \in 0 .. appd' : rcvd - a < BufSize /\ fsm.sar.appd = Cell(SeqOf(a))
    <3>1. \A a \in 0 .. appd : a \in 0 .. appd'
      BY <1>1, <1>3
    <3> QED
      BY <2>1, <3>1 DEF Window
  <2> QED
    BY <1>1, <1>5, <2>1, <2>2, <2>3, <2>4 DEF Window, ranVars
<1> QED
  BY <1>4, <1>6

LEMMA StutterStored ==
    ASSUME StoredInv, DeliveryInv', UNCHANGED vars
    PROVE  StoredInv'
<1>1. DeliveryInv /\ UNCHANGED <<rxVars, memVars, ranVars, hisVars>>
  BY DEF StoredInv, vars
<1> SUFFICES ASSUME ~oooSeen, ~uncut
             PROVE  Window' /\ (\E e, c, x : Line(e, c, x))'
  BY <1>1 DEF StoredInv, hisVars
<1>2. PICK e, c, x : Line(e, c, x)
  BY DEF StoredInv
<1>3. Line(e, c, x)'
  <2>1. Joined' = Joined /\ Lengths' = Lengths /\ appd' = appd /\ appd \in Nat
    BY <1>1, LineTypes DEF Joined, Lengths, rxVars, ranVars, hisVars
  <2> QED
    BY <1>1, <1>2, <2>1, SameLine DEF memVars, ranVars, hisVars
<1>4. Window'
  BY <1>1 DEF StoredInv, Window, rxVars, ranVars, hisVars
<1> QED
  BY <1>3, <1>4

LEMMA NextStored == NoWrap /\ StoredInv /\ [Next]_vars => StoredInv'
<1> SUFFICES ASSUME NoWrap, StoredInv, [Next]_vars
             PROVE  StoredInv'
  OBVIOUS
<1>0. DeliveryInv'
  BY NextDelivery DEF StoredInv
<1>1. ASSUME NEW seg \in Segment, FsmLoad(seg)
      PROVE  StoredInv'
  BY <1>0, <1>1, LoadStored
<1>2. CASE FsmTransition
  BY <1>0, <1>2, TransitionStored
<1>3. CASE Tsd
  BY <1>0, <1>3, TsdStored
<1>4. CASE Mwr
  BY <1>0, <1>4, MwrStored
<1>5. CASE MemWrite
  BY <1>0, <1>5, MemWriteStored
<1>6. CASE RanSecond
  BY <1>0, <1>6, RanSecondStored
<1>7. CASE RanFirst
  BY <1>0, <1>7, RanFirstStored
<1>8. CASE RanNotif
  BY <1>0, <1>8, RanNotifStored
<1>9. CASE AppRead
  BY <1>0, <1>9, AppReadStored
<1>10. CASE UNCHANGED vars
  BY <1>0, <1>10, StutterStored
<1>11. CASE MwrUncut
  BY <1>0, <1>11 DEF MwrUncut, StoredInv
<1> QED
  BY <1>1, <1>2, <1>3, <1>4, <1>5, <1>6, <1>7, <1>8, <1>9, <1>10, <1>11 DEF Next, Ran

LEMMA InitStored == NoWrap /\ Init => StoredInv
<1> SUFFICES ASSUME NoWrap, Init
             PROVE  StoredInv
  OBVIOUS
<1>1. DeliveryInv
  BY InitDelivery
<1>2. /\ Lengths = <<>> /\ splitSeg = <<>> /\ memWr = <<>> /\ fsmNotif = <<>> /\ memSts = 0
      /\ All = 0 /\ appd = 0 /\ rcvd = 0 /\ notified = 0
      /\ ran.len = 0 /\ ~ran.double
      /\ ~sar.ooo /\ sar.oooHead = sar.rcvd /\ sar.appd = Cell(Isn) /\ fsm.pc = "load"
  BY DEF Init, Lengths, All
<1>3. Joined = <<>>
  <2>1. KeptOf(<<>>, <<>>) = <<>>
    <3>1. <<>> \in Seq(BOOLEAN) /\ <<>> \in Seq(Segment) /\ Len(<<>>) <= Len(<<>>)
      OBVIOUS
    <3> QED
      BY <3>1, KeptOfType
  <2> QED
    BY <2>1 DEF Init, Joined
<1>4. Window
  <2>1. SeqOf(0) = Isn
    <3>1. 0 \in Position /\ Isn \in Nat
      BY ConstantTypes DEF Position
    <3> QED
      BY <3>1, ConstantTypes
  <2>2. rcvd - appd < BufSize
    BY <1>2, RxAssumption
  <2> QED
    BY <1>2, <2>1, <2>2 DEF Window
<1>5. \E e, c, x : Line(e, c, x)
  <2> DEFINE z == [i \in 0 .. 0 |-> 0]
  <2>1. Rising(z, 0) /\ z[0] = 0 /\ \A i \in 0 .. 0 : z[i] = 0
    BY DEF Rising
  <2> HIDE DEF z
  <2>2. Len(<<>>) = 0 /\ 0 + 0 = 0
    OBVIOUS
  <2>3. Ends(z, <<>>, 0, 0)
    BY <2>1, <2>2 DEF Ends
  <2>4. Statuses(z, <<>>, 0, 0)
    BY <2>1, <2>2 DEF Statuses
  <2>5. Meets(z, z, z, 0, 0)
    BY <2>1 DEF Meets
  <2>6. Waiting(z, <<>>, <<>>, 0) /\ Written(z, <<>>, 0)
    BY <2>2 DEF Waiting, Written
  <2>7. Filled(mem, 0, 0)
    BY DEF Filled
  <2>8. Line(z, z, z)
    BY <1>2, <1>3, <2>1, <2>2, <2>3, <2>4, <2>5, <2>6, <2>7 DEF Line, One
  <2> QED
    BY <2>8
<1> QED
  BY <1>1, <1>4, <1>5 DEF StoredInv

\* "Delays the notifications to the application until the TCP segment is
\* actually written into the physical DRAM memory" (rx_engine.cpp, pRxAppNotifier):
\* while the sequence numbers do not wrap, no segment has been kept out of order
\* and no payload has been written uncut, a byte the application has been notified of and has not read is in
\* its cell of the buffer.
THEOREM StoredWhenNotified == NoWrap => (Spec => []StoredWhileInOrder)
<1> SUFFICES ASSUME NoWrap
             PROVE  Spec => []StoredWhileInOrder
  OBVIOUS
<1>1. Init => StoredInv
  BY InitStored
<1>2. StoredInv /\ [Next]_vars => StoredInv'
  BY NextStored
<1>3. StoredInv => StoredWhileInOrder
  <2> SUFFICES ASSUME StoredInv, ~oooSeen, ~uncut, NEW p \in appd .. notified - 1
               PROVE  mem[Cell(SeqOf(p))] = p
    BY DEF StoredWhileInOrder, NotifiedIsStored
  <2>1. PICK e, c, x : Line(e, c, x)
    BY DEF StoredInv
  <2>2. appd \in Nat /\ notified \in Nat /\ memSts \in 0 .. All
    BY <2>1, LineTypes, LineOrder DEF StoredInv
  <2>3. x[memSts] \in Nat /\ notified <= x[memSts]
    BY <2>1, <2>2, LineOrder DEF StoredInv
  <2>4. p \in appd .. x[memSts] - 1
    BY <2>2, <2>3
  <2> QED
    BY <2>1, <2>4 DEF Line, Filled
<1> QED
  BY <1>1, <1>2, <1>3, PTL DEF Spec
=============================================================================
