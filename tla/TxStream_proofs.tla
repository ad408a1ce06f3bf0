-------------------------- MODULE TxStream_proofs --------------------------
(***************************************************************************)
(* No segment reaches beyond the window, and the FIN is the last, for      *)
(* every size of the buffer, of segments, windows and streams, however     *)
(* many segments are lost and however often the timer expires.             *)
(*                                                                         *)
(* The hardware keeps pointers modulo the buffer and the sequence space.   *)
(* The invariant is about the positions they stand for: a pointer is the   *)
(* one position with its remainder that is at most a buffer, or once       *)
(* around the sequence space, before the end of what the application has   *)
(* written (SeqPos, BufPos).  Then it is a chain of inequalities, from     *)
(* what Tat thinks is acknowledged up to what the application has written. *)
(*                                                                         *)
(* A FIN that overtakes data at Emx, or data that Sml accepts after the    *)
(* FIN, breaks it, so it is about the states in which no data is late.     *)
(* Once data is late it stays late (Late, LateStays); the other states     *)
(* are reached by steps that keep the FIN behind the data (FinBehindData). *)
(***************************************************************************)
EXTENDS TxStream, Integers, WellFoundedInduction, TLAPS

----------------------------------------------------------------------------
(***************************************************************************)
(* Induction and recursion along an interval, in first-order form (the     *)
(* induction hypothesis is a set, the step of a recursion a function).     *)
(***************************************************************************)

\* A non-empty set of natural numbers has a least element.
LEMMA LeastNat ==
    ASSUME NEW T, T \subseteq Nat, T # {}
    PROVE  \E x \in T : \A y \in T : x <= y
<1> DEFINE Below == {ss \in Nat \X Nat : ss[1] < ss[2]}
<1>1. IsWellFoundedOn(Below, Nat)
  BY NatLessThanWellFounded, Zenon DEF OpToRel
<1>2. PICK x \in T : \A y \in T : ~(<<y, x>> \in Below)
  BY <1>1, WFMin
<1>3. ASSUME NEW y \in T
      PROVE  x <= y
  <2>1. <<y, x>> \in Nat \X Nat
    OBVIOUS
  <2>2. ~(y < x)
    BY <1>2, <2>1
  <2> QED
    BY <2>2
<1> QED
  BY <1>3

\* Induction from 0 to N.
LEMMA IntervalInduction ==
    ASSUME NEW N \in Nat, NEW S, 0 \in S,
           \A n \in 0 .. N - 1 : n \in S => n + 1 \in S
    PROVE  \A n \in 0 .. N : n \in S
<1> DEFINE T == {n \in 0 .. N : n \notin S}
<1> SUFFICES ASSUME T # {}
             PROVE  FALSE
  OBVIOUS
<1>1. PICK x \in T : \A y \in T : x <= y
  <2>1. T \subseteq Nat
    OBVIOUS
  <2> HIDE DEF T
  <2> QED
    BY <2>1, LeastNat
<1>2. x # 0 /\ x \in 1 .. N
  BY <1>1
<1>3. x - 1 \in 0 .. N - 1 /\ x - 1 \notin T
  BY <1>1, <1>2
<1>4. x - 1 \in S
  BY <1>2, <1>3
<1>5. (x - 1) + 1 \in S
  BY <1>3, <1>4
<1> QED
  BY <1>2, <1>5

\* A recursion along 1 .. N has a solution.
Solvable(N, V, init, step) ==
    \E f \in [0 .. N -> V] :
       f[0] = init /\ \A n \in 1 .. N : f[n] = step[<<n, f[n - 1]>>]

LEMMA IntervalRecursion ==
    ASSUME NEW N \in Nat, NEW V, NEW init \in V,
           NEW step \in [(1 .. N) \X V -> V]
    PROVE  Solvable(N, V, init, step)
<1> DEFINE Solves(f, m) == /\ f \in [0 .. m -> V] /\ f[0] = init
                           /\ \A n \in 1 .. m : f[n] = step[<<n, f[n - 1]>>]
           S == {m \in 0 .. N : \E f : Solves(f, m)}
<1>1. 0 \in S
  <2>1. Solves([n \in 0 .. 0 |-> init], 0)
    OBVIOUS
  <2> HIDE DEF Solves
  <2>2. \E f : Solves(f, 0)
    BY <2>1
  <2> QED
    BY <2>2
<1>2. ASSUME NEW m \in 0 .. N - 1, m \in S
      PROVE  m + 1 \in S
  <2>1. PICK f : Solves(f, m)
    BY <1>2
  <2> DEFINE last == step[<<m + 1, f[m]>>]
             g    == [n \in 0 .. m + 1 |-> IF n = m + 1 THEN last ELSE f[n]]
  <2>2. f[m] \in V /\ last \in V
    BY <2>1
  <2>3. g \in [0 .. m + 1 -> V] /\ g[0] = init
    BY <2>1, <2>2
  <2>4. ASSUME NEW n \in 1 .. m + 1
        PROVE  g[n] = step[<<n, g[n - 1]>>]
    <3>1. CASE n = m + 1
      <4>1. g[m + 1] = last /\ g[m] = f[m]
        OBVIOUS
      <4>2. (m + 1) - 1 = m
        OBVIOUS
      <4> QED
        BY <3>1, <4>1, <4>2
    <3>2. CASE n # m + 1
      BY <2>1, <3>2
    <3> QED
      BY <3>1, <3>2
  <2>5. Solves(g, m + 1)
    BY <2>3, <2>4
  <2> HIDE DEF g
  <2> QED
    BY <2>5
<1> HIDE DEF S
<1>3. N \in S
  BY <1>1, <1>2, IntervalInduction
<1> USE DEF S
<1>4. PICK f : Solves(f, N)
  BY <1>3
<1> QED
  BY <1>4 DEF Solvable

----------------------------------------------------------------------------
(***************************************************************************)
(* Remainders.                                                             *)
(***************************************************************************)

\* Quotient and remainder, which is the only one there is.
LEMMA DivMod ==
    ASSUME NEW n \in Nat \ {0}, NEW a \in Int
    PROVE  a % n \in 0 .. n - 1 /\ a \div n \in Int /\ a = n * (a \div n) + (a % n)
<1>1. a % n \in 0 .. n - 1
  OBVIOUS
<1>2. a \div n \in Int
  OBVIOUS
<1>3. a = n * (a \div n) + (a % n)
  OBVIOUS
<1> QED
  BY <1>1, <1>2, <1>3

LEMMA ModOne ==
    ASSUME NEW n \in Nat \ {0}, NEW q \in Int, NEW p \in Int,
           NEW r \in 0 .. n - 1, NEW s \in 0 .. n - 1, n * q + r = n * p + s
    PROVE  r = s
<1>1. n * (q - p) = s - r /\ q - p \in Int
  OBVIOUS
<1>2. CASE q = p
  BY <1>2
<1>3. CASE q > p
  <2>1. q - p >= 1
    BY <1>3
  <2>2. n * (q - p) >= n
    BY <2>1
  <2> QED
    BY <1>1, <2>2
<1>4. CASE q < p
  <2>1. p - q >= 1 /\ p - q \in Int
    BY <1>4
  <2>2. n * (p - q) >= n
    BY <2>1
  <2>3. n * (p - q) = r - s
    OBVIOUS
  <2> QED
    BY <2>2, <2>3
<1> QED
  BY <1>2, <1>3, <1>4

LEMMA ModIs ==
    ASSUME NEW n \in Nat \ {0}, NEW a \in Int, NEW q \in Int, NEW r \in 0 .. n - 1, a = n * q + r
    PROVE  a % n = r
<1>1. a % n \in 0 .. n - 1 /\ a \div n \in Int /\ a = n * (a \div n) + (a % n)
  BY DivMod
<1>2. PICK p, s : p = a \div n /\ s = a % n
  OBVIOUS
<1>3. n * q + r = n * p + s /\ p \in Int /\ s \in 0 .. n - 1
  BY <1>1, <1>2
<1> QED
  BY <1>2, <1>3, ModOne

\* Two numbers that are less than n apart have different remainders.
LEMMA ModDiffer ==
    ASSUME NEW n \in Nat \ {0}, NEW a \in Int, NEW b \in Int, a < b, b - a < n
    PROVE  a % n # b % n
<1> SUFFICES ASSUME a % n = b % n
             PROVE  FALSE
  OBVIOUS
<1>1. PICK q, p, r : /\ q \in Int /\ p \in Int /\ r \in Int
                     /\ a = n * q + r /\ b = n * p + r
  <2>1. a % n \in Int /\ a \div n \in Int /\ a = n * (a \div n) + (a % n)
    BY DivMod
  <2>2. b \div n \in Int /\ b = n * (b \div n) + (b % n)
    BY DivMod
  <2> QED
    BY <2>1, <2>2
<1>2. n * (p - q) = b - a /\ p - q \in Int
  BY <1>1
<1>3. CASE p <= q
  <2>1. n * (q - p) >= 0
    BY <1>1, <1>3
  <2>2. n * (q - p) = a - b
    BY <1>1
  <2> QED
    BY <2>1, <2>2
<1>4. CASE p > q
  <2>1. p - q >= 1
    BY <1>1, <1>4
  <2>2. n * (p - q) >= n
    BY <1>2, <2>1
  <2> QED
    BY <1>2, <2>2
<1> QED
  BY <1>1, <1>3, <1>4

\* A remainder may be taken before and after an addition.
LEMMA ModAdd ==
    ASSUME NEW n \in Nat \ {0}, NEW a \in Int, NEW d \in Int
    PROVE  ((a % n) + d) % n = (a + d) % n
<1>1. PICK q, r : q \in Int /\ r \in Int /\ a = n * q + r /\ a % n = r
  <2>1. a % n \in 0 .. n - 1 /\ a \div n \in Int /\ a = n * (a \div n) + (a % n)
    BY DivMod
  <2>2. a % n \in Int
    BY <2>1
  <2> QED
    BY <2>1, <2>2
<1>2. PICK p, s : p \in Int /\ s \in 0 .. n - 1 /\ r + d = n * p + s /\ (r + d) % n = s
  <2>1. PICK e : e = r + d
    OBVIOUS
  <2>2. e \in Int
    BY <1>1, <2>1
  <2>3. e % n \in 0 .. n - 1 /\ e \div n \in Int /\ e = n * (e \div n) + (e % n)
    BY <2>2, DivMod
  <2> QED
    BY <2>1, <2>3
<1>3. PICK k, e : k = q + p /\ e = a + d
  OBVIOUS
<1>4. k \in Int /\ e \in Int /\ e = n * k + s
  BY <1>1, <1>2, <1>3
<1>5. e % n = s
  BY <1>2, <1>4, ModIs
<1> QED
  BY <1>1, <1>2, <1>3, <1>5

\* Below the next multiple of n the remainder grows with the number.
LEMMA ModNear ==
    ASSUME NEW n \in Nat \ {0}, NEW a \in Int, NEW d \in Nat, (a % n) + d < n
    PROVE  (a + d) % n = (a % n) + d
<1>1. PICK q, r : q \in Int /\ r \in 0 .. n - 1 /\ a = n * q + r /\ a % n = r
  BY DivMod
<1>2. a + d = n * q + (r + d) /\ r + d \in 0 .. n - 1
  BY <1>1
<1> QED
  BY <1>1, <1>2, ModIs

\* Quotient and remainder, to be picked.
LEMMA QuotRem ==
    ASSUME NEW n \in Nat \ {0}, NEW a \in Int
    PROVE  \E q \in Int, r \in 0 .. n - 1 : a = n * q + r /\ a % n = r
<1>1. a % n \in 0 .. n - 1 /\ a \div n \in Int /\ a = n * (a \div n) + (a % n)
  BY DivMod
<1>2. PICK q, r : q = a \div n /\ r = a % n
  OBVIOUS
<1>3. q \in Int /\ r \in 0 .. n - 1 /\ a = n * q + r /\ a % n = r
  BY <1>1, <1>2
<1> QED
  BY <1>3

----------------------------------------------------------------------------
(* Positions modulo a number *)

At(n, x, k) == n - ((n - x) % k)
SeqAt(n, x) == At(n + 1, x, SeqMod)
BufAt(n, x) == At(n, x, BufSize)

LEMMA Sizes ==
    /\ BufSize \in Nat \ {0} /\ SeqMod \in Nat \ {0} /\ Chunk \in Nat \ {0} /\ Mss \in Nat \ {0}
    /\ SeqMod >= 2 * BufSize
    /\ EmxDepth \in Nat \ {0} /\ EventDepth \in Nat \ {0} /\ PipeDepth \in Nat \ {0} /\ WireDepth \in Nat \ {0}
    /\ MaxLosses \in Nat /\ MaxExpired \in Nat
  BY SizeAssumption DEF SizeAssumption

LEMMA AtIs ==
    ASSUME NEW k \in Nat \ {0}, NEW n \in Int, NEW p \in Int, n - k < p, p <= n
    PROVE  At(n, p % k, k) = p
<1>1. PICK q, r : q \in Int /\ r \in 0 .. k - 1 /\ p = k * q + r /\ p % k = r
  BY DivMod
<1>2. PICK e, d : e = n - r /\ d = n - p
  OBVIOUS
<1>3. e \in Int /\ d \in 0 .. k - 1 /\ e = k * q + d
  BY <1>1, <1>2
<1>4. e % k = d
  BY <1>1, <1>3, ModIs
<1> QED
  BY <1>1, <1>2, <1>4 DEF At

LEMMA AtRange ==
    ASSUME NEW k \in Nat \ {0}, NEW n \in Int, NEW x \in 0 .. k - 1
    PROVE  /\ At(n, x, k) \in Int /\ n - k < At(n, x, k) /\ At(n, x, k) <= n
           /\ At(n, x, k) % k = x
<1>1. PICK e : e = n - x
  OBVIOUS
<1>2. PICK q, r : q \in Int /\ r \in 0 .. k - 1 /\ e = k * q + r /\ e % k = r
  <2>1. e \in Int
    BY <1>1
  <2> QED
    BY <2>1, QuotRem
<1>3. PICK a : a = n - r
  OBVIOUS
<1>4. a \in Int /\ a = k * q + x
  BY <1>1, <1>2, <1>3
<1>5. a % k = x
  BY <1>2, <1>4, ModIs
<1> QED
  BY <1>1, <1>2, <1>3, <1>5 DEF At

\* The remainder of a remainder.
LEMMA ModMod ==
    ASSUME NEW b \in Nat \ {0}, NEW m \in Nat \ {0}, m % b = 0, NEW a \in Int
    PROVE  (a % m) % b = a % b
<1>1. PICK g \in Int : m = b * g
  <2>1. PICK g \in Int, z \in 0 .. b - 1 : m = b * g + z /\ m % b = z
    BY QuotRem
  <2> QED
    BY <2>1
<1>2. PICK q \in Int, r \in 0 .. m - 1 : a = m * q + r /\ a % m = r
  BY QuotRem
<1>3. PICK p \in Int, s \in 0 .. b - 1 : r = b * p + s /\ r % b = s
  BY <1>2, QuotRem
<1>4. PICK u : u = g * q + p
  OBVIOUS
<1>5. u \in Int /\ a = b * u + s
  <2>1. m * q = b * (g * q)
    BY <1>1, <1>2
  <2>2. PICK v : v = g * q
    OBVIOUS
  <2>3. v \in Int
    BY <1>1, <1>2, <2>2
  <2> QED
    BY <1>1, <1>2, <1>3, <1>4, <2>1, <2>2, <2>3
<1>6. a % b = s
  BY <1>3, <1>5, ModIs
<1> QED
  BY <1>2, <1>3, <1>6

LEMMA SeqAtIs ==
    ASSUME NEW n \in Int, NEW p \in Int, n + 1 - SeqMod < p, p <= n + 1
    PROVE  SeqAt(n, p % SeqMod) = p
  BY AtIs, Sizes DEF SeqAt

LEMMA SeqAtRange ==
    ASSUME NEW n \in Int, NEW x \in 0 .. SeqMod - 1
    PROVE  /\ SeqAt(n, x) \in Int /\ n + 1 - SeqMod < SeqAt(n, x) /\ SeqAt(n, x) <= n + 1
           /\ SeqAt(n, x) % SeqMod = x /\ SeqAt(n, x) % BufSize = Ptr(x)
<1>1. /\ SeqAt(n, x) \in Int /\ n + 1 - SeqMod < SeqAt(n, x) /\ SeqAt(n, x) <= n + 1
      /\ SeqAt(n, x) % SeqMod = x
  <2>1. PICK k : k = n + 1
    OBVIOUS
  <2>2. k \in Int /\ SeqAt(n, x) = At(k, x, SeqMod)
    BY <2>1 DEF SeqAt
  <2>3. /\ At(k, x, SeqMod) \in Int /\ k - SeqMod < At(k, x, SeqMod) /\ At(k, x, SeqMod) <= k
        /\ At(k, x, SeqMod) % SeqMod = x
    BY <2>2, AtRange, Sizes
  <2> QED
    BY <2>1, <2>2, <2>3, Sizes
<1>2. SeqMod % BufSize = 0
  BY SizeAssumption DEF SizeAssumption
<1>3. (SeqAt(n, x) % SeqMod) % BufSize = SeqAt(n, x) % BufSize
  BY <1>1, <1>2, ModMod, Sizes
<1> QED
  BY <1>1, <1>3 DEF Ptr

LEMMA BufAtIs ==
    ASSUME NEW n \in Int, NEW p \in Int, n - BufSize < p, p <= n
    PROVE  BufAt(n, p % BufSize) = p
  BY AtIs, Sizes DEF BufAt

LEMMA BufAtRange ==
    ASSUME NEW n \in Int, NEW x \in 0 .. BufSize - 1
    PROVE  /\ BufAt(n, x) \in Int /\ n - BufSize < BufAt(n, x) /\ BufAt(n, x) <= n
           /\ BufAt(n, x) % BufSize = x
  BY AtRange, Sizes DEF BufAt

\* The application writes more: a position stays where it is.
LEMMA SeqAtKeep ==
    ASSUME NEW n \in Int, NEW m \in Int, NEW x \in 0 .. SeqMod - 1, n <= m, m + 1 - SeqMod < SeqAt(n, x)
    PROVE  SeqAt(m, x) = SeqAt(n, x)
<1>1. PICK p : p = SeqAt(n, x)
  OBVIOUS
<1>2. p \in Int /\ p <= m + 1 /\ p % SeqMod = x
  BY <1>1, SeqAtRange
<1> QED
  BY <1>1, <1>2, SeqAtIs

LEMMA BufAtKeep ==
    ASSUME NEW n \in Int, NEW m \in Int, NEW x \in 0 .. BufSize - 1, n <= m, m - BufSize < BufAt(n, x)
    PROVE  BufAt(m, x) = BufAt(n, x)
<1>1. PICK p : p = BufAt(n, x)
  OBVIOUS
<1>2. p \in Int /\ p <= m /\ p % BufSize = x
  BY <1>1, BufAtRange
<1> QED
  BY <1>1, <1>2, BufAtIs

LEMMA PlusSeq ==
    ASSUME NEW n \in Int, NEW x \in 0 .. SeqMod - 1, NEW d \in Nat, SeqAt(n, x) + d <= n + 1
    PROVE  Plus(x, d) \in 0 .. SeqMod - 1 /\ SeqAt(n, Plus(x, d)) = SeqAt(n, x) + d
<1>1. PICK p : p = SeqAt(n, x)
  OBVIOUS
<1>2. p \in Int /\ n + 1 - SeqMod < p /\ p <= n + 1 /\ p % SeqMod = x
  BY <1>1, SeqAtRange
<1>3. (x + d) % SeqMod = (p + d) % SeqMod
  <2>1. ((p % SeqMod) + d) % SeqMod = (p + d) % SeqMod
    <3>1. SeqMod \in Nat \ {0} /\ p \in Int /\ d \in Int
      BY <1>2, Sizes
    <3> QED
      BY <3>1, ModAdd, Zenon
  <2> QED
    BY <1>2, <2>1
<1>4. (x + d) % SeqMod \in 0 .. SeqMod - 1
  BY Sizes
<1>5. SeqAt(n, (p + d) % SeqMod) = p + d
  <2>1. p + d \in Int /\ n + 1 - SeqMod < p + d /\ p + d <= n + 1
    BY <1>1, <1>2, Sizes
  <2> QED
    BY <2>1, SeqAtIs
<1> QED
  BY <1>1, <1>3, <1>4, <1>5 DEF Plus

\* Numbers with the same remainder.
Same(x, a, m) == x % m = a % m

LEMMA MinusIs ==
    ASSUME NEW m \in Nat \ {0}, NEW a \in Int, NEW b \in Int, NEW x \in Int, NEW y \in Int,
           Same(x, a, m), Same(y, b, m), b <= a, a < b + m
    PROVE  Minus(x, y, m) = a - b
<1>1. PICK p, q, r : p \in Int /\ q \in Int /\ r \in 0 .. m - 1 /\ x = m * p + r /\ a = m * q + r
  <2>1. x % m \in 0 .. m - 1 /\ x \div m \in Int /\ x = m * (x \div m) + (x % m)
    BY DivMod
  <2>2. a \div m \in Int /\ a = m * (a \div m) + (a % m)
    BY DivMod
  <2> QED
    BY <2>1, <2>2 DEF Same
<1>2. PICK pp, qq, s : pp \in Int /\ qq \in Int /\ s \in 0 .. m - 1 /\ y = m * pp + s /\ b = m * qq + s
  <2>1. y % m \in 0 .. m - 1 /\ y \div m \in Int /\ y = m * (y \div m) + (y % m)
    BY DivMod
  <2>2. b \div m \in Int /\ b = m * (b \div m) + (b % m)
    BY DivMod
  <2> QED
    BY <2>1, <2>2 DEF Same
<1>3. PICK l, d, c : l = 1 + p - pp - q + qq /\ d = a - b /\ c = m + x - y
  OBVIOUS
<1>4. l \in Int /\ d \in 0 .. m - 1 /\ c \in Int /\ c = m * l + d
  BY <1>1, <1>2, <1>3
<1>5. c % m = d
  BY <1>4, ModIs
<1> QED
  BY <1>3, <1>5 DEF Minus

\* How far it is between two positions less than once around apart.
LEMMA Distance ==
    ASSUME NEW m \in Nat \ {0}, NEW p \in Int, NEW q \in Int, p <= q, q < p + m
    PROVE  q - p = IF q % m >= p % m THEN (q % m) - (p % m) ELSE (q % m) - (p % m) + m
<1>1. PICK k, r : k \in Int /\ r \in 0 .. m - 1 /\ p = m * k + r /\ p % m = r
  BY DivMod
<1>2. PICK d : d = q - p
  OBVIOUS
<1>3. CASE r + d < m
  <2>1. q \in Int /\ q = m * k + (r + d) /\ r + d \in 0 .. m - 1
    BY <1>1, <1>2, <1>3
  <2>2. q % m = r + d
    BY <1>1, <2>1, ModIs
  <2> QED
    BY <1>1, <1>2, <2>2
<1>4. CASE r + d >= m
  <2>0. PICK l, s : l = k + 1 /\ s = r + d - m
    OBVIOUS
  <2>1. q \in Int /\ l \in Int /\ q = m * l + s /\ s \in 0 .. m - 1
    BY <1>1, <1>2, <1>4, <2>0
  <2>2. q % m = s
    BY <2>1, ModIs
  <2> QED
    BY <1>1, <1>2, <2>0, <2>2
<1> QED
  BY <1>1, <1>2, <1>3, <1>4

----------------------------------------------------------------------------
(* Positions at the peer and at RXe; values in chunks *)

LEMMA SameSelf ==
    ASSUME NEW m \in Nat \ {0}, NEW a \in Int
    PROVE  Same(a % m, a, m) /\ Same(a, a, m)
  BY DEF Same

LEMMA SameAdd ==
    ASSUME NEW m \in Nat \ {0}, NEW a \in Int, NEW x \in Int, NEW d \in Int, Same(x, a, m)
    PROVE  Same(x + d, a + d, m)
<1>1. ((x % m) + d) % m = (x + d) % m
  BY ModAdd, Zenon
<1>2. ((a % m) + d) % m = (a + d) % m
  BY ModAdd, Zenon
<1> QED
  BY <1>1, <1>2 DEF Same

LEMMA SameTurn ==
    ASSUME NEW m \in Nat \ {0}, NEW a \in Int
    PROVE  Same(a % m, a + m, m)
<1>1. PICK q \in Int, r \in 0 .. m - 1 : a = m * q + r /\ a % m = r
  BY QuotRem
<1>2. PICK k, e : k = q + 1 /\ e = a + m
  OBVIOUS
<1>3. k \in Int /\ e \in Int /\ e = m * k + r
  BY <1>1, <1>2
<1>4. e % m = r
  BY <1>3, ModIs
<1> QED
  BY <1>1, <1>2, <1>4 DEF Same

\* The peer sees the sequence number of a position near its own as that position.
LEMMA PositionIs ==
    ASSUME NEW p \in Nat, peer.rcv \in Nat, peer.rcv - BufSize < p, p <= peer.rcv + BufSize
    PROVE  Position(p % SeqMod) = p
<1> DEFINE r == peer.rcv
           s == p % SeqMod
<1>1. r \in Nat /\ s \in Int /\ r % SeqMod \in Int /\ SeqMod \in Nat \ {0} /\ BufSize \in Nat /\ 2 * BufSize <= SeqMod
  BY Sizes
<1>2. Same(s, p, SeqMod) /\ Same(r % SeqMod, r, SeqMod) /\ Same(r % SeqMod, r + SeqMod, SeqMod)
  <2>1. p \in Int /\ r \in Int
    BY <1>1
  <2> QED
    BY <1>1, <2>1, SameSelf, SameTurn, Zenon
<1>3. CASE p <= r
  <2>1. p <= r /\ r < p + SeqMod
    BY <1>1, <1>3
  <2>2. Minus(r % SeqMod, s, SeqMod) = r - p
    <3> HIDE DEF r, s
    <3> QED
      BY <1>1, <1>2, <2>1, MinusIs
  <2> QED
    BY <1>1, <1>3, <2>2 DEF Position
<1>4. CASE p > r
  <2>1. p <= r + SeqMod /\ r + SeqMod < p + SeqMod /\ r + SeqMod \in Int
    BY <1>1, <1>4
  <2>2. Minus(r % SeqMod, s, SeqMod) = (r + SeqMod) - p
    <3> HIDE DEF r, s
    <3> QED
      BY <1>1, <1>2, <2>1, MinusIs
  <2>3. 2 * ((r + SeqMod) - p) >= SeqMod
    BY <1>1
  <2> QED
    BY <1>1, <1>4, <2>2, <2>3 DEF Position
<1> QED
  BY <1>1, <1>3, <1>4

\* RXe takes only acknowledgments of what had been sent.
LEMMA InRangeIs ==
    ASSUME NEW n \in Int, rxe.ack \in 0 .. SeqMod - 1, rxe.ackd \in 0 .. SeqMod - 1, rxe.unak \in 0 .. SeqMod - 1,
           SeqAt(n, rxe.ackd) <= SeqAt(n, rxe.unak), SeqAt(n, rxe.ackd) <= SeqAt(n, rxe.ack), InRange
    PROVE  SeqAt(n, rxe.ack) <= SeqAt(n, rxe.unak)
<1> DEFINE a == SeqAt(n, rxe.ackd)
           u == SeqAt(n, rxe.unak)
           k == SeqAt(n, rxe.ack)
<1>1. /\ a \in Int /\ n + 1 - SeqMod < a /\ a <= n + 1 /\ a % SeqMod = rxe.ackd
      /\ u \in Int /\ n + 1 - SeqMod < u /\ u <= n + 1 /\ u % SeqMod = rxe.unak
      /\ k \in Int /\ n + 1 - SeqMod < k /\ k <= n + 1 /\ k % SeqMod = rxe.ack
  BY SeqAtRange
<1>2. a <= u /\ a <= k
  OBVIOUS
<1> HIDE DEF a, u, k
<1>3. u < a + SeqMod /\ k < a + SeqMod
  BY <1>1, Sizes
<1>4. u - a = IF rxe.unak >= rxe.ackd THEN rxe.unak - rxe.ackd ELSE rxe.unak - rxe.ackd + SeqMod
  <2>1. u - a = IF u % SeqMod >= a % SeqMod THEN (u % SeqMod) - (a % SeqMod) ELSE (u % SeqMod) - (a % SeqMod) + SeqMod
    BY <1>1, <1>2, <1>3, Distance, Sizes
  <2> QED
    BY <1>1, <2>1
<1>5. k - a = IF rxe.ack >= rxe.ackd THEN rxe.ack - rxe.ackd ELSE rxe.ack - rxe.ackd + SeqMod
  <2>1. k - a = IF k % SeqMod >= a % SeqMod THEN (k % SeqMod) - (a % SeqMod) ELSE (k % SeqMod) - (a % SeqMod) + SeqMod
    BY <1>1, <1>2, <1>3, Distance, Sizes
  <2> QED
    BY <1>1, <2>1
<1>6. k <= u
  BY <1>1, <1>4, <1>5, Sizes DEF InRange
<1> QED
  BY <1>6 DEF k, u

----------------------------------------------------------------------------
\* A value in chunks.
Count(n) == (n + Chunk - 1) \div Chunk

LEMMA CountIs ==
    ASSUME NEW n \in Nat \ {0}
    PROVE  /\ Count(n) \in Nat \ {0}
           /\ (Count(n) - 1) * Chunk < n /\ n <= Count(n) * Chunk
<1>1. PICK e : e = n + Chunk - 1
  OBVIOUS
<1>2. e \in Int /\ e >= Chunk
  BY <1>1, Sizes
<1>3. e % Chunk \in 0 .. Chunk - 1 /\ e \div Chunk \in Int /\ e = Chunk * (e \div Chunk) + (e % Chunk)
  BY <1>2, DivMod, Sizes
<1>4. PICK k, r : k = e \div Chunk /\ r = e % Chunk
  OBVIOUS
<1>5. k \in Int /\ r \in 0 .. Chunk - 1 /\ e = Chunk * k + r
  BY <1>3, <1>4
<1>6. k >= 1
  <2> SUFFICES ASSUME k <= 0
               PROVE  FALSE
    BY <1>5
  <2>1. Chunk * k <= 0
    BY <1>5, Sizes
  <2> QED
    BY <1>2, <1>5, <2>1, Sizes
<1>7. Chunk * k = k * Chunk /\ (k - 1) * Chunk = k * Chunk - Chunk
  BY <1>5, Sizes
<1>8. (k - 1) * Chunk < n /\ n <= k * Chunk
  BY <1>1, <1>5, <1>7, Sizes
<1> QED
  BY <1>1, <1>4, <1>5, <1>6, <1>8 DEF Count

End(n, i) == IF i = Count(n) THEN n ELSE i * Chunk

\* c is f, of n values, in chunks.
ChunksOf(c, f, n, V) ==
    /\ c \in Seq([bytes : Seq(V), last : BOOLEAN])
    /\ Len(c) = Count(n)
    /\ \A i \in 1 .. Count(n) :
          /\ (i - 1) * Chunk \in Nat /\ End(n, i) \in Nat
          /\ (i - 1) * Chunk < End(n, i) /\ End(n, i) <= n
          /\ End(n, i) - (i - 1) * Chunk <= Chunk
          /\ i # Count(n) => End(n, i) - (i - 1) * Chunk = Chunk
          /\ Len(c[i].bytes) = End(n, i) - (i - 1) * Chunk
          /\ c[i].last = (i = Count(n))
          /\ \A j \in 1 .. End(n, i) - (i - 1) * Chunk : c[i].bytes[j] = f[(i - 1) * Chunk + j]

LEMMA ChunksAt ==
    ASSUME NEW V, NEW n \in Nat \ {0}, NEW f \in [1 .. n -> V]
    PROVE  ChunksOf(Chunks(f, n), f, n, V)
<1> DEFINE k == Count(n)
           c == Chunks(f, n)
<1>1. k \in Nat \ {0} /\ (k - 1) * Chunk < n /\ n <= k * Chunk
  BY CountIs
<1>2. c = [i \in 1 .. k |-> AChunk(SubSeq(f, (i - 1) * Chunk + 1, End(n, i)), i = k)]
  BY DEF Chunks, Count, End
<1> HIDE DEF k, c
<1>3. f \in Seq(V) /\ Len(f) = n
  OBVIOUS
<1>4. ASSUME NEW i \in 1 .. k
      PROVE  /\ (i - 1) * Chunk \in Nat /\ End(n, i) \in Nat
             /\ (i - 1) * Chunk < End(n, i) /\ End(n, i) <= n
             /\ End(n, i) - (i - 1) * Chunk <= Chunk
             /\ i # k => End(n, i) - (i - 1) * Chunk = Chunk
  <2>1. (i - 1) * Chunk = i * Chunk - Chunk /\ i * Chunk \in Nat /\ i * Chunk >= Chunk
    BY <1>1, Sizes
  <2>2. i # k => i * Chunk <= (k - 1) * Chunk
    BY <1>1, Sizes
  <2> QED
    BY <1>1, <2>1, <2>2, Sizes DEF End, k
<1>5. ASSUME NEW i \in 1 .. k
      PROVE  /\ c[i].bytes \in Seq(V) /\ c[i].last = (i = k)
             /\ Len(c[i].bytes) = End(n, i) - (i - 1) * Chunk
             /\ \A j \in 1 .. End(n, i) - (i - 1) * Chunk : c[i].bytes[j] = f[(i - 1) * Chunk + j]
             /\ c[i] \in [bytes : Seq(V), last : BOOLEAN]
  <2>1. PICK a, b : a = (i - 1) * Chunk /\ b = End(n, i)
    OBVIOUS
  <2>2. a \in Nat /\ b \in Nat /\ a < b /\ b <= n
    BY <1>4, <2>1
  <2>3. c[i] = [bytes |-> SubSeq(f, a + 1, b), last |-> (i = k)]
    BY <1>2, <2>1 DEF AChunk
  <2>4. /\ SubSeq(f, a + 1, b) \in Seq(V) /\ Len(SubSeq(f, a + 1, b)) = b - a
        /\ \A j \in 1 .. b - a : SubSeq(f, a + 1, b)[j] = f[a + j]
    BY <1>3, <2>2
  <2> QED
    BY <2>1, <2>3, <2>4
<1>6. Len(c) = k /\ c \in Seq([bytes : Seq(V), last : BOOLEAN])
  <2> DEFINE R == [bytes : Seq(V), last : BOOLEAN]
  <2>1. c \in [1 .. k -> R]
    BY <1>2, <1>5
  <2> HIDE DEF R
  <2>2. k \in Nat /\ c \in Seq(R) /\ Len(c) = k
    BY <1>1, <2>1
  <2> QED
    BY <2>2 DEF R
<1> QED
  BY <1>4, <1>5, <1>6 DEF ChunksOf, k, c

\* The chunks of s have n bytes: f[i] bytes before the i-th.
Counts(s, n, f) ==
    /\ f \in [1 .. Len(s) + 1 -> Nat] /\ f[1] = 0 /\ f[Len(s) + 1] = n
    /\ \A i \in 1 .. Len(s) : f[i + 1] = f[i] + Len(s[i].bytes) /\ Len(s[i].bytes) \in 1 .. Chunk
Bytes(s, n) == \E f : Counts(s, n, f)

LEMMA ChunksBytes ==
    ASSUME NEW V, NEW n \in Nat \ {0}, NEW f \in [1 .. n -> V]
    PROVE  Bytes(Chunks(f, n), n)
<1> DEFINE k == Count(n)
           c == Chunks(f, n)
           g == [i \in 1 .. k + 1 |-> IF i = k + 1 THEN n ELSE (i - 1) * Chunk]
<1>1. k \in Nat \ {0}
  BY CountIs
<1>0. ChunksOf(c, f, n, V)
  BY ChunksAt
<1>2. /\ Len(c) = k
      /\ \A i \in 1 .. k :
            /\ (i - 1) * Chunk \in Nat /\ End(n, i) \in Nat
            /\ (i - 1) * Chunk < End(n, i) /\ End(n, i) <= n
            /\ End(n, i) - (i - 1) * Chunk <= Chunk
            /\ Len(c[i].bytes) = End(n, i) - (i - 1) * Chunk
  BY <1>0, Zenon DEF ChunksOf
<1> HIDE DEF k, c
<1>3. g \in [1 .. k + 1 -> Nat]
  <2>1. ASSUME NEW i \in 1 .. k + 1
        PROVE  (IF i = k + 1 THEN n ELSE (i - 1) * Chunk) \in Nat
    <3>1. i # k + 1 => i \in 1 .. k
      BY <1>1
    <3> QED
      BY <1>2, <3>1
  <2> QED
    BY <2>1
<1>4. g[1] = 0 /\ g[k + 1] = n
  <2>1. (1 - 1) * Chunk = 0
    BY Sizes
  <2>2. 1 # k + 1 /\ 1 \in 1 .. k + 1 /\ k + 1 \in 1 .. k + 1
    BY <1>1
  <2> QED
    BY <2>1, <2>2
<1>5. ASSUME NEW i \in 1 .. k
      PROVE  g[i + 1] = g[i] + Len(c[i].bytes) /\ Len(c[i].bytes) \in 1 .. Chunk
  <2>1. g[i] = (i - 1) * Chunk
    BY <1>1
  <2>2. g[i + 1] = End(n, i)
    <3>1. (i + 1) - 1 = i
      OBVIOUS
    <3>2. i + 1 \in 1 .. k + 1 /\ (i + 1 = k + 1 <=> i = k)
      BY <1>1
    <3> QED
      BY <3>1, <3>2 DEF End, k
  <2> HIDE DEF g
  <2> QED
    <3>1. PICK a, b, l : a = (i - 1) * Chunk /\ b = End(n, i) /\ l = Len(c[i].bytes)
      OBVIOUS
    <3>2. a \in Nat /\ b \in Nat /\ a < b /\ b - a <= Chunk /\ l = b - a
      BY <1>2, <3>1
    <3>3. l \in 1 .. Chunk /\ b = a + l
      BY <3>2, Sizes
    <3> QED
      BY <2>1, <2>2, <3>1, <3>3
<1> HIDE DEF g
<1>6. Counts(c, n, g)
  BY <1>2, <1>3, <1>4, <1>5 DEF Counts
<1> QED
  BY <1>6 DEF Bytes, c

LEMMA BytesConcat ==
    ASSUME NEW V, NEW s \in Seq([bytes : Seq(V), last : BOOLEAN]), NEW t \in Seq([bytes : Seq(V), last : BOOLEAN]),
           NEW n \in Nat, NEW m \in Nat, Bytes(s, n), Bytes(t, m)
    PROVE  Bytes(s \o t, n + m)
<1>1. PICK f : Counts(s, n, f)
  BY DEF Bytes
<1>2. PICK g : Counts(t, m, g)
  BY DEF Bytes
<1> DEFINE h == [i \in 1 .. Len(s \o t) + 1 |-> IF i <= Len(s) THEN f[i] ELSE n + g[i - Len(s)]]
<1>3. Len(s \o t) = Len(s) + Len(t) /\ Len(s) \in Nat /\ Len(t) \in Nat
  OBVIOUS
<1>4. h \in [1 .. Len(s \o t) + 1 -> Nat]
  BY <1>1, <1>2, <1>3 DEF Counts
<1>5. h[1] = 0
  <2>1. CASE Len(s) = 0
    BY <1>1, <1>2, <1>3, <2>1 DEF Counts
  <2>2. CASE Len(s) # 0
    BY <1>1, <1>3, <2>2 DEF Counts
  <2> QED
    BY <2>1, <2>2
<1>6. h[Len(s \o t) + 1] = n + m
  BY <1>1, <1>2, <1>3 DEF Counts
<1>7. ASSUME NEW i \in 1 .. Len(s \o t)
      PROVE  h[i + 1] = h[i] + Len((s \o t)[i].bytes) /\ Len((s \o t)[i].bytes) \in 1 .. Chunk
  <2>1. CASE i <= Len(s)
    <3>1. (s \o t)[i] = s[i] /\ f[i + 1] = f[i] + Len(s[i].bytes) /\ Len(s[i].bytes) \in 1 .. Chunk
      BY <1>1, <1>3, <2>1 DEF Counts
    <3>2. h[i] = f[i]
      BY <1>3, <2>1
    <3>3. h[i + 1] = f[i + 1]
      <4>1. CASE i < Len(s)
        BY <1>3, <4>1
      <4>2. CASE i = Len(s)
        BY <1>1, <1>2, <1>3, <4>2 DEF Counts
      <4> QED
        BY <1>3, <2>1, <4>1, <4>2
    <3> QED
      BY <3>1, <3>2, <3>3
  <2>2. CASE i > Len(s)
    <3>1. PICK j : j = i - Len(s)
      OBVIOUS
    <3>2. j \in 1 .. Len(t) /\ i = Len(s) + j
      BY <1>3, <2>2, <3>1
    <3>3. (s \o t)[i] = t[j]
      BY <3>2
    <3>4. g[j + 1] = g[j] + Len(t[j].bytes) /\ Len(t[j].bytes) \in 1 .. Chunk /\ g[j] \in Nat
      <4>1. j \in 1 .. Len(t) + 1
        BY <1>3, <3>2
      <4> QED
        BY <1>2, <3>2, <4>1 DEF Counts
    <3>5. h[i] = n + g[j] /\ h[i + 1] = n + g[j + 1]
      BY <1>3, <2>2, <3>2
    <3> HIDE DEF h
    <3>6. PICK l, a, b : l = Len(t[j].bytes) /\ a = g[j] /\ b = g[j + 1]
      OBVIOUS
    <3>7. l \in 1 .. Chunk /\ a \in Nat /\ b = a + l
      BY <3>4, <3>6
    <3>8. n + b = (n + a) + l
      BY <3>7, Sizes
    <3>9. h[i + 1] = h[i] + l /\ Len((s \o t)[i].bytes) = l
      BY <3>3, <3>5, <3>6, <3>8
    <3> QED
      BY <3>7, <3>9
  <2> QED
    BY <1>3, <2>1, <2>2
<1> HIDE DEF h
<1>8. Counts(s \o t, n + m, h)
  BY <1>4, <1>5, <1>6, <1>7 DEF Counts
<1> QED
  BY <1>8 DEF Bytes

----------------------------------------------------------------------------
(* Tss, chunk by chunk *)

Pieces(h, V) == [hdr : {<<>>, <<h>>}, bytes : Seq(V)]
TssStates == {"PSD_HDR", "DATA", "FWD_1ST_BUF", "FWD_2ND_BUF", "JOIN_2ND_BUF", "RESIDUE"}
Tsss(h, V) == [st : TssStates, prev : Seq(V), join : BOOLEAN, out : Seq(Pieces(h, V)), frame : Pieces(h, V)]

LEMMA ForwardIs ==
    ASSUME NEW V, NEW h, NEW t \in Tsss(h, V), NEW b \in Seq(V)
    PROVE  /\ Forward(t, b) \in Tsss(h, V)
           /\ Forward(t, b).st = t.st /\ Forward(t, b).prev = t.prev /\ Forward(t, b).join = t.join
           /\ Forward(t, b).out = t.out
           /\ Forward(t, b).frame = [hdr |-> t.frame.hdr, bytes |-> t.frame.bytes \o b]
<1>1. t.frame \in Pieces(h, V) /\ t.frame.bytes \o b \in Seq(V)
  BY DEF Tsss, Pieces
<1>2. Forward(t, b) = [t EXCEPT !.frame = [t.frame EXCEPT !.bytes = t.frame.bytes \o b]]
  BY DEF Forward, Tsss
<1>3. [t.frame EXCEPT !.bytes = t.frame.bytes \o b] = [hdr |-> t.frame.hdr, bytes |-> t.frame.bytes \o b]
  <2>1. PICK x, y : x = t.frame.hdr /\ y = t.frame.bytes
    OBVIOUS
  <2>2. t.frame = [hdr |-> x, bytes |-> y]
    BY <1>1, <2>1 DEF Pieces
  <2>3. PICK z : z = y \o b
    OBVIOUS
  <2>4. [[hdr |-> x, bytes |-> y] EXCEPT !.bytes = z] = [hdr |-> x, bytes |-> z]
    OBVIOUS
  <2> QED
    BY <2>1, <2>2, <2>3, <2>4
<1>4. PICK w : w = [hdr |-> t.frame.hdr, bytes |-> t.frame.bytes \o b]
  OBVIOUS
<1>5. w \in Pieces(h, V)
  BY <1>1, <1>4 DEF Pieces
<1>6. Forward(t, b) = [t EXCEPT !.frame = w]
  BY <1>2, <1>3, <1>4
<1> HIDE DEF Forward
<1>7. /\ Forward(t, b) \in Tsss(h, V)
      /\ Forward(t, b).st = t.st /\ Forward(t, b).prev = t.prev /\ Forward(t, b).join = t.join
      /\ Forward(t, b).out = t.out /\ Forward(t, b).frame = w
  BY <1>5, <1>6 DEF Tsss
<1> QED
  BY <1>4, <1>7

Forwarded(f, t, b, V, h) ==
    /\ f \in Tsss(h, V) /\ f.st = t.st /\ f.prev = t.prev /\ f.join = t.join /\ f.out = t.out
    /\ f.frame = [hdr |-> t.frame.hdr, bytes |-> t.frame.bytes \o b]

LEMMA ForwardedIs ==
    ASSUME NEW V, NEW h, NEW t \in Tsss(h, V), NEW b \in Seq(V)
    PROVE  Forwarded(Forward(t, b), t, b, V, h)
  BY ForwardIs, ZenonT(40) DEF Forwarded

LEMMA EmitIs ==
    ASSUME NEW V, NEW h, NEW t \in Tsss(h, V), NEW b \in Seq(V)
    PROVE  /\ Emit(t, b) \in Tsss(h, V)
           /\ Emit(t, b).st = t.st /\ Emit(t, b).prev = t.prev /\ Emit(t, b).join = t.join
           /\ Emit(t, b).out = Append(t.out, [hdr |-> t.frame.hdr, bytes |-> t.frame.bytes \o b])
           /\ Emit(t, b).frame = [hdr |-> <<>>, bytes |-> <<>>]
<1>1. PICK w : w = Forward(t, b).frame
  OBVIOUS
<1>2. w = [hdr |-> t.frame.hdr, bytes |-> t.frame.bytes \o b] /\ w \in Pieces(h, V)
  <2>1. Forward(t, b) \in Tsss(h, V) /\ Forward(t, b).frame = [hdr |-> t.frame.hdr, bytes |-> t.frame.bytes \o b]
    BY ForwardIs, Zenon
  <2>2. Forward(t, b).frame \in Pieces(h, V)
    BY <2>1 DEF Tsss
  <2> QED
    BY <1>1, <2>1, <2>2, Zenon
<1>3. NoFrame \in Pieces(h, V) /\ NoFrame = [hdr |-> <<>>, bytes |-> <<>>]
  BY DEF NoFrame, Pieces
<1>4. PICK o : o = Append(t.out, w)
  OBVIOUS
<1>5. o \in Seq(Pieces(h, V))
  BY <1>2, <1>4 DEF Tsss
<1>6. Emit(t, b) = [t EXCEPT !.out = o, !.frame = NoFrame]
  BY <1>1, <1>4 DEF Emit
<1>7. /\ Emit(t, b) \in Tsss(h, V)
      /\ Emit(t, b).st = t.st /\ Emit(t, b).prev = t.prev /\ Emit(t, b).join = t.join
      /\ Emit(t, b).out = o /\ Emit(t, b).frame = NoFrame
  BY <1>3, <1>5, <1>6 DEF Tsss
<1> QED
  BY <1>2, <1>3, <1>4, <1>7

LEMMA SetSt ==
    ASSUME NEW V, NEW h, NEW t \in Tsss(h, V), NEW j \in TssStates, NEW u, u = [t EXCEPT !.st = j]
    PROVE  u \in Tsss(h, V) /\ u.st = j /\ u.prev = t.prev /\ u.join = t.join /\ u.out = t.out /\ u.frame = t.frame
  BY DEF Tsss

LEMMA SetJoin ==
    ASSUME NEW V, NEW h, NEW t \in Tsss(h, V), NEW j \in BOOLEAN, NEW u, u = [t EXCEPT !.join = j]
    PROVE  u \in Tsss(h, V) /\ u.st = t.st /\ u.prev = t.prev /\ u.join = j /\ u.out = t.out /\ u.frame = t.frame
  BY DEF Tsss

LEMMA DoneIs ==
    ASSUME NEW V, NEW h, NEW t \in Tsss(h, V)
    PROVE  /\ Done(t) \in Tsss(h, V)
           /\ Done(t).st = "PSD_HDR" /\ Done(t).prev = <<>> /\ Done(t).join = t.join
           /\ Done(t).out = t.out /\ Done(t).frame = t.frame
<1>1. PICK p, j : p = <<>> /\ j = "PSD_HDR"
  OBVIOUS
<1>2. p \in Seq(V) /\ j \in TssStates
  BY <1>1 DEF TssStates
<1>3. PICK u : u = Done(t)
  OBVIOUS
<1>4. u = [t EXCEPT !.st = j, !.prev = p]
  BY <1>1, <1>3, Zenon DEF Done
<1>5. u \in Tsss(h, V) /\ u.st = j /\ u.prev = p /\ u.join = t.join /\ u.out = t.out /\ u.frame = t.frame
  BY <1>2, <1>4 DEF Tsss
<1> QED
  BY <1>1, <1>3, <1>5

LEMMA EndOfFirstIs ==
    ASSUME NEW V, NEW h, NEW t \in Tsss(h, V), NEW b \in Seq(V)
    PROVE  /\ EndOfFirst(t, b) \in Tsss(h, V)
           /\ EndOfFirst(t, b).st = IF Len(b) = Chunk THEN "FWD_2ND_BUF" ELSE "JOIN_2ND_BUF"
           /\ EndOfFirst(t, b).prev = IF Len(b) = Chunk THEN <<>> ELSE b
           /\ EndOfFirst(t, b).join = t.join
           /\ EndOfFirst(t, b).out = t.out /\ EndOfFirst(t, b).frame = t.frame
<1>1. PICK p, j : /\ p = IF Len(b) = Chunk THEN <<>> ELSE b
                  /\ j = IF Len(b) = Chunk THEN "FWD_2ND_BUF" ELSE "JOIN_2ND_BUF"
  OBVIOUS
<1>2. p \in Seq(V) /\ j \in TssStates
  BY <1>1 DEF TssStates
<1>3. PICK u : u = EndOfFirst(t, b)
  OBVIOUS
<1>4. u = [t EXCEPT !.st = j, !.prev = p]
  BY <1>1, <1>3, Zenon DEF EndOfFirst
<1>5. u \in Tsss(h, V) /\ u.st = j /\ u.prev = p /\ u.join = t.join /\ u.out = t.out /\ u.frame = t.frame
  BY <1>2, <1>4 DEF Tsss
<1> QED
  BY <1>1, <1>3, <1>5

\* The first n elements and the rest.
LEMMA TakeDrop ==
    ASSUME NEW V, NEW s \in Seq(V), NEW n \in Nat
    PROVE  /\ Take(s, n) \in Seq(V) /\ Len(Take(s, n)) = (IF n < Len(s) THEN n ELSE Len(s))
           /\ \A i \in 1 .. Len(Take(s, n)) : Take(s, n)[i] = s[i]
           /\ n <= Len(s) => /\ Drop(s, n) \in Seq(V) /\ Len(Drop(s, n)) = Len(s) - n
                             /\ \A i \in 1 .. Len(s) - n : Drop(s, n)[i] = s[n + i]
           /\ n > Len(s) => Drop(s, n) = <<>>
<1>1. PICK k : k = IF n < Len(s) THEN n ELSE Len(s)
  OBVIOUS
<1>2. k \in Nat /\ k <= Len(s) /\ Take(s, n) = SubSeq(s, 1, k)
  BY <1>1 DEF Take
<1>3. /\ Take(s, n) \in Seq(V) /\ Len(Take(s, n)) = k
      /\ \A i \in 1 .. Len(Take(s, n)) : Take(s, n)[i] = s[i]
  BY <1>2
<1>4. ASSUME n <= Len(s)
      PROVE  /\ Drop(s, n) \in Seq(V) /\ Len(Drop(s, n)) = Len(s) - n
             /\ \A i \in 1 .. Len(s) - n : Drop(s, n)[i] = s[n + i]
  BY <1>4 DEF Drop
<1>5. ASSUME n > Len(s)
      PROVE  Drop(s, n) = <<>>
  BY <1>5 DEF Drop
<1> QED
  BY <1>1, <1>3, <1>4, <1>5

Size(w) == Len(w.bytes)
FSize(t) == Len(t.frame.bytes)
PSize(t) == Len(t.prev)

\* What Tss has taken in and not put out is at most n bytes; so is every frame.
Light(t, n) ==
    /\ FSize(t) + PSize(t) <= n /\ PSize(t) <= Chunk
    /\ \A k \in DOMAIN t.out : Size(t.out[k]) <= n

LEMMA LightLens ==
    ASSUME NEW V, NEW h, NEW t \in Tsss(h, V)
    PROVE  /\ FSize(t) \in Nat /\ PSize(t) \in Nat /\ t.prev \in Seq(V)
           /\ t.frame.bytes \in Seq(V) /\ t.frame.hdr \in {<<>>, <<h>>}
           /\ t.out \in Seq(Pieces(h, V))
           /\ \A k \in DOMAIN t.out : Size(t.out[k]) \in Nat
  BY DEF Tsss, Pieces, FSize, PSize, Size

LEMMA LightEmit ==
    ASSUME NEW V, NEW h, NEW t \in Tsss(h, V), NEW n \in Nat, NEW m \in Nat, n <= m,
           NEW b \in Seq(V), Light(t, n), FSize(t) + Len(b) <= m
    PROVE  Light(Done(Emit(t, b)), m) /\ \A p \in Seq(V) : Len(p) <= m /\ Len(p) <= Chunk => Light([Emit(t, b) EXCEPT !.prev = p], m)
<1>1. PICK w : w = [hdr |-> t.frame.hdr, bytes |-> t.frame.bytes \o b]
  OBVIOUS
<1>0. /\ FSize(t) \in Nat /\ PSize(t) \in Nat /\ t.prev \in Seq(V)
      /\ t.frame.bytes \in Seq(V) /\ t.frame.hdr \in {<<>>, <<h>>}
      /\ t.out \in Seq(Pieces(h, V))
      /\ \A k \in DOMAIN t.out : Size(t.out[k]) \in Nat
  BY LightLens, Zenon
<1>2. w \in Pieces(h, V) /\ Size(w) <= m
  <2>1. Len(t.frame.bytes \o b) = FSize(t) + Len(b) /\ t.frame.bytes \o b \in Seq(V)
    BY <1>0 DEF FSize
  <2>2. w.bytes = t.frame.bytes \o b
    BY <1>1
  <2>3. Size(w) = FSize(t) + Len(b)
    BY <2>1, <2>2 DEF Size
  <2>4. w \in Pieces(h, V)
    BY <1>0, <1>1, <2>1 DEF Pieces
  <2> QED
    BY <2>3, <2>4
<1>3. PICK e : e = Emit(t, b)
  OBVIOUS
<1>4. e \in Tsss(h, V) /\ e.out = Append(t.out, w) /\ e.frame = [hdr |-> <<>>, bytes |-> <<>>]
  BY <1>1, <1>3, EmitIs
<1>5. \A k \in DOMAIN e.out : Size(e.out[k]) <= m
  <2> SUFFICES ASSUME NEW k \in DOMAIN e.out
               PROVE  Size(e.out[k]) <= m
    OBVIOUS
  <2>1. t.out \in Seq(Pieces(h, V))
    BY LightLens
  <2>2. CASE k = Len(t.out) + 1
    BY <1>2, <1>4, <2>1, <2>2
  <2>3. CASE k \in DOMAIN t.out
    <3>1. e.out[k] = t.out[k]
      BY <1>2, <1>4, <2>1, <2>3
    <3>2. Size(t.out[k]) <= n /\ Size(t.out[k]) \in Nat
      BY <2>3, LightLens DEF Light
    <3> QED
      BY <3>1, <3>2
  <2> QED
    BY <1>2, <1>4, <2>1, <2>2, <2>3
<1>6. FSize(e) = 0
  <2>1. e.frame.bytes = <<>>
    BY <1>4
  <2> QED
    BY <2>1 DEF FSize
<1>7. Light(Done(e), m)
  <2>1. Done(e).prev = <<>> /\ Done(e).out = e.out /\ Done(e).frame = e.frame
    BY <1>4, DoneIs, Zenon
  <2>2. PICK u : u = Done(e)
    OBVIOUS
  <2>3. PSize(u) = 0 /\ FSize(u) = 0 /\ u.out = e.out
    <3>1. u.prev = <<>> /\ u.frame = e.frame /\ u.out = e.out
      BY <2>1, <2>2
    <3> QED
      BY <1>6, <3>1 DEF FSize, PSize
  <2>4. Light(u, m)
    BY <1>5, <2>3, Sizes DEF Light
  <2> QED
    BY <2>2, <2>4
<1>8. ASSUME NEW p \in Seq(V), Len(p) <= m, Len(p) <= Chunk
      PROVE  Light([e EXCEPT !.prev = p], m)
  <2>1. PICK u : u = [e EXCEPT !.prev = p]
    OBVIOUS
  <2>2. u.frame = e.frame /\ u.out = e.out /\ u.prev = p
    BY <1>4, <2>1 DEF Tsss
  <2>3. FSize(u) = 0 /\ PSize(u) = Len(p) /\ Len(p) \in Nat
    BY <1>6, <2>2 DEF FSize, PSize
  <2>4. Light(u, m)
    BY <1>5, <1>8, <2>2, <2>3, Sizes DEF Light
  <2> QED
    BY <2>1, <2>4
<1> QED
  BY <1>3, <1>7, <1>8

LEMMA ConcatLen ==
    ASSUME NEW V, NEW x \in Seq(V), NEW y \in Seq(V)
    PROVE  x \o y \in Seq(V) /\ Len(x \o y) = Len(x) + Len(y) /\ Len(x) \in Nat /\ Len(y) \in Nat
  OBVIOUS

\* Tss completes the chunk at the border of the two buffers.
Joined(u, t, last, b, r, y, V, h) ==
    /\ y \in Seq(V) /\ Len(y) = PSize(t) + (IF r < Len(b) THEN r ELSE Len(b))
    /\ Len(b) <= r => u = Done(Emit(t, y))
    /\ Len(b) > r => /\ u \in Tsss(h, V)
                     /\ u.st = IF last THEN "RESIDUE" ELSE "JOIN_2ND_BUF"
                     /\ u.prev = Drop(b, r)
                     /\ u.join = t.join
                     /\ u.out = t.out
                     /\ u.frame = [hdr |-> t.frame.hdr, bytes |-> t.frame.bytes \o y]
                     /\ Drop(b, r) \in Seq(V) /\ Len(Drop(b, r)) = Len(b) - r

LEMMA JoinIs ==
    ASSUME NEW V, NEW h, NEW t \in Tsss(h, V), NEW c, NEW b \in Seq(V), c.bytes = b,
           t.st = "JOIN_2ND_BUF", NEW r \in Nat, r = Chunk - PSize(t), NEW y, y = t.prev \o Take(b, r)
    PROVE  Joined(TssJoin(t, c), t, c.last, b, r, y, V, h)
<1>1. PICK x, k : x = t.prev /\ k = Take(b, r)
  OBVIOUS
<1>2. x \in Seq(V) /\ PSize(t) = Len(x)
  BY <1>1, LightLens, Zenon DEF PSize
<1>3. k \in Seq(V) /\ Len(k) = IF r < Len(b) THEN r ELSE Len(b)
  <2>1. Take(b, r) \in Seq(V) /\ Len(Take(b, r)) = (IF r < Len(b) THEN r ELSE Len(b))
    BY TakeDrop
  <2> QED
    BY <1>1, <2>1, Zenon
<1>4. y \in Seq(V) /\ Len(y) = PSize(t) + (IF r < Len(b) THEN r ELSE Len(b))
  <2>1. y = x \o k
    BY <1>1, Zenon
  <2>2. y \in Seq(V) /\ Len(y) = Len(x) + Len(k)
    BY <1>2, <1>3, <2>1, ConcatLen
  <2> QED
    BY <1>2, <1>3, <2>2, Zenon
<1>5. TssJoin(t, c) = IF Len(b) <= r THEN Done(Emit(t, y))
                      ELSE [Forward(t, y) EXCEPT !.prev = Drop(b, r), !.st = IF c.last THEN "RESIDUE" ELSE @]
  BY Zenon DEF TssJoin, PSize
<1>6. Len(b) \in Nat
  OBVIOUS
<1>7. ASSUME Len(b) > r
      PROVE  /\ TssJoin(t, c) \in Tsss(h, V)
             /\ TssJoin(t, c).st = IF c.last THEN "RESIDUE" ELSE "JOIN_2ND_BUF"
             /\ TssJoin(t, c).prev = Drop(b, r)
             /\ TssJoin(t, c).join = t.join
             /\ TssJoin(t, c).out = t.out
             /\ TssJoin(t, c).frame = [hdr |-> t.frame.hdr, bytes |-> t.frame.bytes \o y]
             /\ Drop(b, r) \in Seq(V) /\ Len(Drop(b, r)) = Len(b) - r
  <2>0. ~(Len(b) <= r) /\ r <= Len(b)
    BY <1>6, <1>7
  <2>1. PICK f : f = Forward(t, y)
    OBVIOUS
  <2>2. /\ f \in Tsss(h, V) /\ f.st = t.st /\ f.prev = t.prev /\ f.join = t.join /\ f.out = t.out
        /\ f.frame = [hdr |-> t.frame.hdr, bytes |-> t.frame.bytes \o y]
    <3>1. y \in Seq(V)
      BY <1>4
    <3>2. Forwarded(Forward(t, y), t, y, V, h)
      BY <3>1, ForwardedIs
    <3> QED
      BY <2>1, <3>2, Zenon DEF Forwarded
  <2>3. PICK d, q : d = Drop(b, r) /\ q = IF c.last THEN "RESIDUE" ELSE "JOIN_2ND_BUF"
    OBVIOUS
  <2>4. d \in Seq(V) /\ Len(d) = Len(b) - r
    BY <2>0, <2>3, TakeDrop
  <2>5. q \in TssStates
    BY <2>3 DEF TssStates
  <2>6. PICK e : e = [f EXCEPT !.prev = d, !.st = q]
    OBVIOUS
  <2>7. e \in Tsss(h, V) /\ e.st = q /\ e.prev = d /\ e.join = f.join /\ e.out = f.out /\ e.frame = f.frame
    BY <2>2, <2>4, <2>5, <2>6 DEF Tsss
  <2>8. TssJoin(t, c) = e
    <3>1. TssJoin(t, c) = [f EXCEPT !.prev = d, !.st = IF c.last THEN "RESIDUE" ELSE f.st]
      BY <1>5, <2>0, <2>1, <2>3, Zenon
    <3> QED
      BY <2>2, <2>3, <2>6, <3>1, Zenon
  <2> QED
    BY <2>2, <2>3, <2>4, <2>7, <2>8, Zenon
<1> QED
  BY <1>4, <1>5, <1>7, Zenon DEF Joined

LEMMA LightJoin ==
    ASSUME NEW V, NEW h, NEW t \in Tsss(h, V), NEW n \in Nat, NEW c, NEW b \in Seq(V), c.bytes = b,
           Light(t, n), Len(b) <= Chunk, t.st = "JOIN_2ND_BUF"
    PROVE  TssJoin(t, c) \in Tsss(h, V) /\ Light(TssJoin(t, c), n + Len(b))
<1>1. PICK r, y : r = Chunk - PSize(t) /\ y = t.prev \o Take(b, r)
  OBVIOUS
<1>2. PSize(t) \in Nat /\ FSize(t) \in Nat /\ Len(b) \in Nat /\ \A k \in DOMAIN t.out : Size(t.out[k]) \in Nat
  BY LightLens
<1>3. FSize(t) + PSize(t) <= n /\ PSize(t) <= Chunk
  BY DEF Light
<1>4. r \in Nat /\ r <= Chunk
  BY <1>1, <1>2, <1>3, Sizes
<1>5. PICK m : m = n + Len(b)
  OBVIOUS
<1>6. m \in Nat /\ n <= m
  BY <1>2, <1>5
<1>8. PICK e : e = TssJoin(t, c)
  OBVIOUS
<1>11. Joined(e, t, c.last, b, r, y, V, h)
  BY <1>1, <1>4, <1>8, JoinIs
<1>7. y \in Seq(V) /\ Len(y) = PSize(t) + (IF r < Len(b) THEN r ELSE Len(b))
  BY <1>11 DEF Joined
<1>9. CASE Len(b) <= r
  <2>1. e = Done(Emit(t, y))
    BY <1>9, <1>11, Zenon DEF Joined
  <2>2. FSize(t) + Len(y) <= m
    BY <1>2, <1>3, <1>4, <1>5, <1>7, <1>9
  <2>3. Light(Done(Emit(t, y)), m)
    BY <1>6, <1>7, <2>2, LightEmit, Zenon
  <2>4. Done(Emit(t, y)) \in Tsss(h, V)
    BY <1>7, EmitIs, DoneIs, Zenon
  <2> QED
    BY <1>5, <1>8, <2>1, <2>3, <2>4, Zenon
<1>10. CASE Len(b) > r
  <2>1. PICK d : d = Drop(b, r)
    OBVIOUS
  <2>2. /\ e \in Tsss(h, V) /\ e.prev = d /\ e.out = t.out
        /\ e.frame = [hdr |-> t.frame.hdr, bytes |-> t.frame.bytes \o y]
        /\ d \in Seq(V) /\ Len(d) = Len(b) - r
    BY <1>10, <1>11, <2>1, Zenon DEF Joined
  <2>3. FSize(e) = FSize(t) + Len(y)
    <3>1. PICK x : x = t.frame.bytes
      OBVIOUS
    <3>2. x \in Seq(V) /\ FSize(t) = Len(x)
      BY <3>1, LightLens, Zenon DEF FSize
    <3>3. e.frame.bytes = x \o y
      BY <2>2, <3>1
    <3>4. FSize(e) = Len(x \o y)
      BY <3>3, Zenon DEF FSize
    <3>5. Len(x \o y) = Len(x) + Len(y)
      BY <1>7, <3>2, ConcatLen
    <3> QED
      BY <3>2, <3>4, <3>5, Zenon
  <2>4. PSize(e) = Len(b) - r
    BY <2>2, Zenon DEF PSize
  <2>5. FSize(e) + PSize(e) <= m /\ PSize(e) <= Chunk
    BY SMTT(40), <1>2, <1>3, <1>4, <1>5, <1>7, <1>10, <2>3, <2>4, Sizes
  <2>6. \A k \in DOMAIN e.out : Size(e.out[k]) <= m
    <3>1. \A k \in DOMAIN t.out : Size(t.out[k]) <= n
      BY DEF Light
    <3> QED
      BY <1>2, <1>6, <2>2, <3>1
  <2>7. Light(e, m)
    BY <2>5, <2>6 DEF Light
  <2> QED
    BY <1>5, <1>8, <2>2, <2>7, Zenon
<1> QED
  BY <1>2, <1>4, <1>9, <1>10

LEMMA LightChunk ==
    ASSUME NEW V, NEW h, NEW t \in Tsss(h, V), NEW n \in Nat, NEW c \in [bytes : Seq(V), last : BOOLEAN],
           NEW splits \in BOOLEAN, Light(t, n), Len(c.bytes) <= Chunk
    PROVE  TssChunk(t, c, splits) \in Tsss(h, V) /\ Light(TssChunk(t, c, splits), n + Len(c.bytes))
<1> DEFINE b == c.bytes
           m == n + Len(b)
<1>0. b \in Seq(V) /\ Len(b) \in Nat /\ c.last \in BOOLEAN /\ n <= m /\ m \in Nat /\ Len(b) <= Chunk /\ Chunk \in Nat
  BY Sizes
<1> HIDE DEF b, m
<1>1. ASSUME NEW u \in Tsss(h, V), Light(u, n)
      PROVE  /\ Forward(u, b) \in Tsss(h, V) /\ Light(Forward(u, b), m)
             /\ \A s \in TssStates : [Forward(u, b) EXCEPT !.st = s] \in Tsss(h, V) /\ Light([Forward(u, b) EXCEPT !.st = s], m)
             /\ Done(Emit(u, b)) \in Tsss(h, V) /\ Light(Done(Emit(u, b)), m)
             /\ EndOfFirst(u, b) \in Tsss(h, V) /\ Light(EndOfFirst(u, b), m)
             /\ Len(b) = Chunk => /\ EndOfFirst(Forward(u, b), b) \in Tsss(h, V) /\ Light(EndOfFirst(Forward(u, b), b), m)
                                  /\ EndOfFirst(Emit(u, b), b) \in Tsss(h, V) /\ Light(EndOfFirst(Emit(u, b), b), m)
  <2>1. PICK f : f = Forward(u, b)
    OBVIOUS
  <2>0. /\ FSize(u) \in Nat /\ PSize(u) \in Nat /\ u.prev \in Seq(V)
        /\ u.frame.bytes \in Seq(V) /\ u.frame.hdr \in {<<>>, <<h>>}
        /\ u.out \in Seq(Pieces(h, V))
        /\ \A k \in DOMAIN u.out : Size(u.out[k]) \in Nat
  BY <1>1, LightLens, Zenon
  <2>2. f \in Tsss(h, V) /\ f.prev = u.prev /\ f.out = u.out /\ FSize(f) = FSize(u) + Len(b)
    <3>1. f \in Tsss(h, V) /\ f.prev = u.prev /\ f.out = u.out /\ f.frame = [hdr |-> u.frame.hdr, bytes |-> u.frame.bytes \o b]
      <4>1. /\ Forward(u, b) \in Tsss(h, V) /\ Forward(u, b).prev = u.prev /\ Forward(u, b).out = u.out
            /\ Forward(u, b).frame = [hdr |-> u.frame.hdr, bytes |-> u.frame.bytes \o b]
        BY SMTT(40), <1>0, ForwardIs
      <4> QED
        BY <2>1, <4>1, Zenon
    <3>2. f.frame.bytes = u.frame.bytes \o b
      BY <3>1
    <3>3. FSize(f) = FSize(u) + Len(b)
      BY <1>0, <2>0, <3>2 DEF FSize
    <3> QED
      BY <3>1, <3>3
  <2>3. /\ FSize(u) \in Nat /\ PSize(u) \in Nat /\ FSize(u) + PSize(u) <= n
        /\ PSize(u) <= Chunk
        /\ \A k \in DOMAIN u.out : Size(u.out[k]) <= m
    BY <1>0, <1>1, <2>0 DEF Light
  <2>4. Light(f, m)
    <3>1. PSize(f) = PSize(u)
      BY <2>2 DEF PSize
    <3> QED
      BY <1>0, <2>2, <2>3, <3>1 DEF Light, m
  <2>5. \A s \in TssStates : [f EXCEPT !.st = s] \in Tsss(h, V) /\ Light([f EXCEPT !.st = s], m)
    <3> SUFFICES ASSUME NEW s \in TssStates
                 PROVE  [f EXCEPT !.st = s] \in Tsss(h, V) /\ Light([f EXCEPT !.st = s], m)
      OBVIOUS
    <3>1. PICK g : g = [f EXCEPT !.st = s]
      OBVIOUS
    <3>2. g \in Tsss(h, V) /\ g.prev = f.prev /\ g.out = f.out /\ g.frame = f.frame
      BY <2>2, <3>1, SetSt
    <3>3. Light(g, m)
      BY <2>4, <3>2, Zenon DEF Light, FSize, PSize
    <3> QED
      BY <3>1, <3>2, <3>3, Zenon
  <2>6. Done(Emit(u, b)) \in Tsss(h, V)
    BY <1>0, EmitIs, DoneIs
  <2>7. Light(Done(Emit(u, b)), m)
    <3>1. FSize(u) + Len(b) <= m
      BY <1>0, <2>3 DEF m
    <3> QED
      BY <1>0, <1>1, <3>1, LightEmit, Zenon
  <2>8. EndOfFirst(u, b) \in Tsss(h, V)
    BY <1>0, EndOfFirstIs
  <2>9. Light(EndOfFirst(u, b), m)
    <3>1. PICK e : e = EndOfFirst(u, b)
      OBVIOUS
    <3>2. e.frame = u.frame /\ e.out = u.out /\ (e.prev = b \/ e.prev = <<>>)
      BY <1>0, <3>1, EndOfFirstIs
    <3>3. PSize(e) <= Len(b) /\ PSize(e) \in Nat
      BY <1>0, <3>2 DEF PSize
    <3>4. FSize(e) + PSize(e) <= m /\ PSize(e) <= Chunk
      <4>1. FSize(u) <= n
        BY <2>3
      <4>2. FSize(e) = FSize(u)
        BY <3>2 DEF FSize
      <4> QED
        BY <1>0, <2>3, <3>3, <4>1, <4>2 DEF m
    <3>5. Light(e, m)
      BY <2>3, <3>2, <3>4, Zenon DEF Light, FSize, PSize
    <3> QED
      BY <3>1, <3>5, Zenon
  <2>10. ASSUME Len(b) = Chunk
         PROVE  /\ EndOfFirst(f, b) \in Tsss(h, V) /\ Light(EndOfFirst(f, b), m)
                /\ EndOfFirst(Emit(u, b), b) \in Tsss(h, V) /\ Light(EndOfFirst(Emit(u, b), b), m)
    <3>1. EndOfFirst(f, b) \in Tsss(h, V) /\ EndOfFirst(Emit(u, b), b) \in Tsss(h, V)
      BY <1>0, <2>2, EndOfFirstIs, EmitIs
    <3>2. Light(EndOfFirst(f, b), m)
      <4>1. PICK e : e = EndOfFirst(f, b)
        OBVIOUS
      <4>2. e.frame = f.frame /\ e.out = f.out /\ e.prev = <<>>
        BY <1>0, <2>2, <2>10, <4>1, EndOfFirstIs
      <4>3. FSize(e) + PSize(e) <= m /\ PSize(e) <= Chunk
        <5>1. FSize(e) = FSize(u) + Len(b) /\ PSize(e) = 0
          <6>1. FSize(e) = FSize(f) /\ PSize(e) = 0
            BY <4>2 DEF FSize, PSize
          <6> QED
            BY <2>2, <6>1
        <5> QED
          BY <1>0, <2>3, <5>1 DEF m
      <4>4. e.out = u.out
        BY <2>2, <4>2
      <4>5. Light(e, m)
        BY <2>3, <4>3, <4>4, Zenon DEF Light, FSize, PSize
      <4> QED
        BY <4>1, <4>5, Zenon
    <3>3. Light(EndOfFirst(Emit(u, b), b), m)
      <4>1. PICK g : g = Emit(u, b)
        OBVIOUS
      <4>2. g \in Tsss(h, V)
        BY <1>0, <4>1, EmitIs
      <4>3. PICK e : e = EndOfFirst(g, b)
        OBVIOUS
      <4>4. e.frame = g.frame /\ e.out = g.out /\ e.prev = <<>>
        BY <1>0, <2>10, <4>2, <4>3, EndOfFirstIs
      <4>5. Done(g).frame = g.frame /\ Done(g).out = g.out /\ Done(g).prev = <<>>
        BY <4>2, DoneIs
      <4> QED
        BY <2>7, <4>1, <4>3, <4>4, <4>5, Zenon DEF Light, FSize, PSize
    <3> QED
      BY <3>1, <3>2, <3>3
  <2> QED
    BY <2>1, <2>2, <2>4, <2>5, <2>6, <2>7, <2>8, <2>9, <2>10
<1>2. CASE t.st = "DATA"
  <2>1. PICK u : u = [t EXCEPT !.join = splits]
    OBVIOUS
  <2>2. u \in Tsss(h, V) /\ Light(u, n)
    <3>1. u \in Tsss(h, V) /\ u.prev = t.prev /\ u.out = t.out /\ u.frame = t.frame
      BY <2>1, SetJoin
    <3> QED
      BY <3>1, Zenon DEF Light, FSize, PSize
  <2>3. TssChunk(t, c, splits) = TssData(t, c, splits)
    BY <1>2 DEF TssChunk
  <2>4. TssData(t, c, splits) =
           IF ~c.last THEN [Forward(u, b) EXCEPT !.st = "FWD_1ST_BUF"]
           ELSE IF ~splits THEN Done(Emit(u, b))
           ELSE EndOfFirst(IF Len(b) = Chunk THEN Emit(u, b) ELSE u, b)
    BY <2>1 DEF TssData, b
  <2>5. "FWD_1ST_BUF" \in TssStates
    BY DEF TssStates
  <2>6. /\ [Forward(u, b) EXCEPT !.st = "FWD_1ST_BUF"] \in Tsss(h, V) /\ Light([Forward(u, b) EXCEPT !.st = "FWD_1ST_BUF"], m)
        /\ Done(Emit(u, b)) \in Tsss(h, V) /\ Light(Done(Emit(u, b)), m)
        /\ EndOfFirst(u, b) \in Tsss(h, V) /\ Light(EndOfFirst(u, b), m)
        /\ Len(b) = Chunk => EndOfFirst(Emit(u, b), b) \in Tsss(h, V) /\ Light(EndOfFirst(Emit(u, b), b), m)
    BY <1>1, <2>2, <2>5, Zenon
  <2> QED
    BY <2>3, <2>4, <2>6, Zenon DEF b, m
<1>3. CASE t.st = "FWD_1ST_BUF"
  <2>1. TssChunk(t, c, splits) =
           IF ~c.last THEN Forward(t, b)
           ELSE IF ~t.join THEN Done(Emit(t, b))
           ELSE EndOfFirst(IF Len(b) = Chunk THEN Forward(t, b) ELSE t, b)
    BY <1>3 DEF TssChunk, TssFirst, b
  <2> QED
    BY <1>1, <2>1 DEF b, m
<1>4. CASE t.st = "FWD_2ND_BUF"
  <2>1. TssChunk(t, c, splits) = IF c.last THEN Done(Emit(t, b)) ELSE Forward(t, b)
    BY <1>4 DEF TssChunk, TssSecond, b
  <2> QED
    BY <1>1, <2>1 DEF b, m
<1>5. CASE t.st = "JOIN_2ND_BUF"
  <2>1. TssChunk(t, c, splits) = TssJoin(t, c)
    BY <1>5 DEF TssChunk
  <2> QED
    <3>1. c.bytes = b
      BY DEF b
    <3>2. TssJoin(t, c) \in Tsss(h, V) /\ Light(TssJoin(t, c), n + Len(b))
      BY <1>0, <1>5, <3>1, LightJoin
    <3> QED
      BY <2>1, <3>1, <3>2, Zenon
<1>6. CASE t.st \notin {"DATA", "FWD_1ST_BUF", "FWD_2ND_BUF", "JOIN_2ND_BUF"}
  <2>1. TssChunk(t, c, splits) = t
    BY <1>6 DEF TssChunk
  <2>2. Light(t, m)
    <3>1. /\ PSize(t) \in Nat /\ FSize(t) \in Nat
          /\ \A k \in DOMAIN t.out : Size(t.out[k]) \in Nat
      BY LightLens, Zenon
    <3> QED
      BY <1>0, <3>1 DEF Light
  <2> QED
    BY <2>1, <2>2 DEF b, m
<1> QED
  BY <1>2, <1>3, <1>4, <1>5, <1>6

----------------------------------------------------------------------------
(* Tss over a segment *)

\* The states of Tss over a segment.
Steps(h, s, splits) ==
    CHOOSE f : f = [i \in 0..Len(s) |-> IF i = 0 THEN PsdHdr(h) ELSE TssChunk(f[i - 1], s[i], splits)]

LEMMA FramesAre ==
    ASSUME NEW h, NEW s, NEW splits
    PROVE  Frames(h, s, splits) = TssResidue(Steps(h, s, splits)[Len(s)]).out
  BY Zenon DEF Frames, Steps

ChunkSet(V) == [bytes : Seq(V), last : BOOLEAN]

\* g is the sequence of those states.
Stepping(g, h, s, splits) ==
    /\ g[0] = PsdHdr(h)
    /\ \A i \in 1..Len(s) : g[i] = TssChunk(g[i - 1], s[i], splits)

LEMMA StepsAre ==
    ASSUME NEW V, NEW h, NEW splits \in BOOLEAN, NEW s \in Seq(ChunkSet(V)),
           \A i \in 1..Len(s) : Len(s[i].bytes) <= Chunk
    PROVE  Stepping(Steps(h, s, splits), h, s, splits)
<1> DEFINE T == {t \in Tsss(h, V) : \E n \in Nat : Light(t, n)}
           N == Len(s)
           step == [p \in (1 .. N) \X T |-> TssChunk(p[2], s[p[1]], splits)]
<1>0. N \in Nat
  OBVIOUS
<1>1. PsdHdr(h) \in T
  <2>1. PICK w : w = PsdHdr(h)
    OBVIOUS
  <2>2. w = [st |-> "DATA", prev |-> <<>>, join |-> FALSE, out |-> <<>>, frame |-> [hdr |-> <<h>>, bytes |-> <<>>]]
    BY <2>1, Zenon DEF PsdHdr
  <2>3. [hdr |-> <<h>>, bytes |-> <<>>] \in Pieces(h, V)
    BY DEF Pieces
  <2>4. PICK z : z = [hdr |-> <<h>>, bytes |-> <<>>]
    OBVIOUS
  <2>5. w \in Tsss(h, V)
    BY <2>2, <2>3, <2>4 DEF Tsss, TssStates
  <2>6. w.prev = <<>> /\ w.frame.bytes = <<>> /\ w.out = <<>>
    BY <2>2
  <2>7. PSize(w) = 0 /\ FSize(w) = 0
    BY <2>6 DEF PSize, FSize
  <2>8. Light(w, 0)
    BY <2>6, <2>7, Sizes DEF Light
  <2> QED
    BY <2>1, <2>5, <2>8
<1>2. ASSUME NEW i \in 1 .. N, NEW t \in T
      PROVE  TssChunk(t, s[i], splits) \in T
  <2>1. PICK n \in Nat : Light(t, n)
    OBVIOUS
  <2>2. PICK c : c = s[i]
    OBVIOUS
  <2>3. c \in ChunkSet(V) /\ Len(c.bytes) <= Chunk
    BY <2>2
  <2>4. c \in [bytes : Seq(V), last : BOOLEAN]
    BY <2>3 DEF ChunkSet
  <2>5. TssChunk(t, c, splits) \in Tsss(h, V) /\ Light(TssChunk(t, c, splits), n + Len(c.bytes))
    BY <2>1, <2>3, <2>4, LightChunk
  <2>6. n + Len(c.bytes) \in Nat
    BY <2>1, <2>4
  <2> QED
    BY <2>2, <2>5, <2>6
<1>3. step \in [(1 .. N) \X T -> T]
  <2> HIDE DEF T, N
  <2> QED
    BY <1>2
<1>4. Solvable(N, T, PsdHdr(h), step)
  <2> HIDE DEF T, N, step
  <2> QED
    BY <1>0, <1>1, <1>3, IntervalRecursion
<1>5. PICK f \in [0 .. N -> T] : f[0] = PsdHdr(h) /\ \A n \in 1 .. N : f[n] = step[<<n, f[n - 1]>>]
  BY <1>4 DEF Solvable
<1>6. ASSUME NEW n \in 1 .. N
      PROVE  f[n] = TssChunk(f[n - 1], s[n], splits)
  <2>1. n - 1 \in 0 .. N /\ f[n - 1] \in T
    <3> HIDE DEF T, N
    <3> QED
      BY <1>0
  <2>2. <<n, f[n - 1]>> \in (1 .. N) \X T
    BY <2>1
  <2> HIDE DEF T, N
  <2> QED
    BY <1>5, <2>2
<1> DEFINE F(g) == [i \in 0..Len(s) |-> IF i = 0 THEN PsdHdr(h) ELSE TssChunk(g[i - 1], s[i], splits)]
<1>7. f = F(f)
  <2>1. f = [i \in 0 .. N |-> f[i]]
    <3> HIDE DEF T
    <3> QED
      OBVIOUS
  <2>2. ASSUME NEW i \in 0 .. N
        PROVE  f[i] = IF i = 0 THEN PsdHdr(h) ELSE TssChunk(f[i - 1], s[i], splits)
    <3>1. CASE i = 0
      BY <1>5, <3>1
    <3>2. CASE i # 0
      <4>1. i \in 1 .. N
        BY <1>0, <3>2
      <4> QED
        BY <1>6, <3>2, <4>1
    <3> QED
      BY <3>1, <3>2
  <2> QED
    BY <2>1, <2>2, Zenon
<1>8. Steps(h, s, splits) = F(Steps(h, s, splits))
  <2>1. Steps(h, s, splits) = CHOOSE g : g = F(g)
    BY Zenon DEF Steps
  <2> HIDE DEF F
  <2> QED
    BY <1>7, <2>1, Zenon
<1>9. PICK g : g = Steps(h, s, splits)
  OBVIOUS
<1>10. g = F(g)
  BY <1>8, <1>9, Zenon
<1>11. g[0] = PsdHdr(h)
  <2>1. 0 \in 0 .. Len(s)
    BY <1>0
  <2>2. F(g)[0] = PsdHdr(h)
    BY <2>1
  <2> HIDE DEF F
  <2> QED
    BY <1>10, <2>2
<1>12. ASSUME NEW i \in 1 .. Len(s)
       PROVE  g[i] = TssChunk(g[i - 1], s[i], splits)
  <2>1. i \in 0 .. Len(s) /\ i # 0
    BY <1>0
  <2>2. F(g)[i] = TssChunk(g[i - 1], s[i], splits)
    BY <2>1
  <2> HIDE DEF F
  <2> QED
    BY <1>10, <2>2
<1> QED
  BY <1>9, <1>11, <1>12, Zenon DEF Stepping

\* No frame has more bytes than the chunks.
LEMMA FramesLight ==
    ASSUME NEW V, NEW h, NEW splits \in BOOLEAN, NEW s \in Seq(ChunkSet(V)), NEW n \in Nat, Bytes(s, n)
    PROVE  /\ Frames(h, s, splits) \in Seq(Pieces(h, V))
           /\ \A k \in DOMAIN Frames(h, s, splits) : Size(Frames(h, s, splits)[k]) <= n
<1>1. PICK f : Counts(s, n, f)
  BY DEF Bytes
<1>2. /\ Len(s) \in Nat /\ f \in [1 .. Len(s) + 1 -> Nat] /\ f[1] = 0 /\ f[Len(s) + 1] = n
      /\ \A i \in 1 .. Len(s) : f[i + 1] = f[i] + Len(s[i].bytes) /\ Len(s[i].bytes) \in 1 .. Chunk
  BY <1>1 DEF Counts
<1>3. \A i \in 1..Len(s) : Len(s[i].bytes) <= Chunk
  BY <1>2, Sizes
<1>4. PICK g : g = Steps(h, s, splits)
  OBVIOUS
<1>5. g[0] = PsdHdr(h) /\ \A i \in 1..Len(s) : g[i] = TssChunk(g[i - 1], s[i], splits)
  <2>1. Stepping(Steps(h, s, splits), h, s, splits)
    BY <1>3, StepsAre
  <2> QED
    BY <1>4, <2>1, Zenon DEF Stepping
<1> DEFINE S == {i \in 0 .. Len(s) : g[i] \in Tsss(h, V) /\ Light(g[i], f[i + 1])}
<1>6. 0 \in S
  <2>1. PICK w : w = PsdHdr(h)
    OBVIOUS
  <2>2. w = [st |-> "DATA", prev |-> <<>>, join |-> FALSE, out |-> <<>>, frame |-> [hdr |-> <<h>>, bytes |-> <<>>]]
    BY <2>1, Zenon DEF PsdHdr
  <2>3. [hdr |-> <<h>>, bytes |-> <<>>] \in Pieces(h, V)
    BY DEF Pieces
  <2>5. w \in Tsss(h, V)
    BY <2>2, <2>3 DEF Tsss, TssStates
  <2>6. w.prev = <<>> /\ w.frame.bytes = <<>> /\ w.out = <<>>
    BY <2>2
  <2>7. PSize(w) = 0 /\ FSize(w) = 0
    BY <2>6 DEF PSize, FSize
  <2>8. Light(w, 0)
    BY <2>6, <2>7, Sizes DEF Light
  <2>9. g[0] \in Tsss(h, V) /\ Light(g[0], 0)
    BY <1>5, <2>1, <2>5, <2>8, Zenon
  <2>10. 0 \in 0 .. Len(s) /\ f[0 + 1] = 0
    BY <1>2
  <2> QED
    BY <2>9, <2>10
<1>7. ASSUME NEW i \in 0 .. Len(s) - 1, i \in S
      PROVE  i + 1 \in S
  <2>1. g[i] \in Tsss(h, V) /\ Light(g[i], f[i + 1])
    BY <1>7
  <2>2. i + 1 \in 1 .. Len(s) /\ i + 1 \in 0 .. Len(s)
    BY <1>2
  <2>3. g[i + 1] = TssChunk(g[i], s[i + 1], splits)
    <3>1. (i + 1) - 1 = i
      OBVIOUS
    <3> QED
      BY <1>5, <2>2, <3>1
  <2>4. PICK t, c, m : t = g[i] /\ c = s[i + 1] /\ m = f[i + 1]
    OBVIOUS
  <2>5. c \in ChunkSet(V) /\ m \in Nat /\ Len(c.bytes) <= Chunk
    <3>1. i + 1 \in 1 .. Len(s) + 1
      BY <1>2, <2>2
    <3>2. s[i + 1] \in ChunkSet(V)
      BY <2>2
    <3> QED
      BY <1>2, <1>3, <2>2, <2>4, <3>1, <3>2
  <2>6. c \in [bytes : Seq(V), last : BOOLEAN]
    BY <2>5 DEF ChunkSet
  <2>7. t \in Tsss(h, V) /\ Light(t, m)
    BY <2>1, <2>4, Zenon
  <2>8. TssChunk(t, c, splits) \in Tsss(h, V) /\ Light(TssChunk(t, c, splits), m + Len(c.bytes))
    BY <2>5, <2>6, <2>7, LightChunk
  <2>9. f[(i + 1) + 1] = m + Len(c.bytes)
    BY <1>2, <2>2, <2>4
  <2>10. g[i + 1] \in Tsss(h, V) /\ Light(g[i + 1], f[(i + 1) + 1])
    BY <2>3, <2>4, <2>8, <2>9, Zenon
  <2> QED
    BY <2>2, <2>10
<1>8. Len(s) \in S
  <2> HIDE DEF S
  <2>1. \A i \in 0 .. Len(s) : i \in S
    BY <1>2, <1>6, <1>7, IntervalInduction
  <2> QED
    BY <1>2, <2>1
<1>9. PICK t : t = g[Len(s)]
  OBVIOUS
<1>10. t \in Tsss(h, V) /\ Light(t, n)
  BY <1>2, <1>8, <1>9
<1>11. PICK u : u = TssResidue(t)
  OBVIOUS
<1>12. u \in Tsss(h, V) /\ Light(u, n)
  <2>1. CASE t.st = "RESIDUE"
    <3>1. u = Done(Emit(t, t.prev))
      BY <1>11, <2>1 DEF TssResidue
    <3>2. PICK b : b = t.prev
      OBVIOUS
    <3>3. b \in Seq(V) /\ PSize(t) = Len(b)
      BY <1>10, <3>2, LightLens, Zenon DEF PSize
    <3>4. FSize(t) + Len(b) <= n
      BY <1>10, <3>3, Zenon DEF Light
    <3>5. Light(Done(Emit(t, b)), n)
      BY <1>10, <3>3, <3>4, LightEmit
    <3>6. Done(Emit(t, b)) \in Tsss(h, V)
      BY <1>10, <3>3, EmitIs, DoneIs
    <3> QED
      BY <3>1, <3>2, <3>5, <3>6, Zenon
  <2>2. CASE t.st # "RESIDUE"
    BY <1>10, <1>11, <2>2 DEF TssResidue
  <2> QED
    BY <2>1, <2>2
<1>13. Frames(h, s, splits) = u.out
  BY <1>4, <1>9, <1>11, FramesAre, Zenon
<1>14. u.out \in Seq(Pieces(h, V)) /\ \A k \in DOMAIN u.out : Size(u.out[k]) <= n
  BY <1>12 DEF Tsss, Light
<1> QED
  BY <1>13, <1>14, Zenon

----------------------------------------------------------------------------
(* Types *)

Headers == [seq : 0..(SeqMod - 1), len : 0..(BufSize - 1), fin : BOOLEAN]
Tables == [ackd : 0..(BufSize - 1), mempt : 0..(BufSize - 1)]
TaiTypes ==
    /\ app \in [len : 1..(BufSize - 1), req : Nat, sends : Nat, closed : BOOLEAN, next : Nat, due : Int]
    /\ app.req \in {0, app.len}
    /\ data \in Seq(ChunkSet(Nat)) /\ \A i \in 1..Len(data) : Len(data[i].bytes) \in 1..Chunk
    /\ tat \in Tables
    /\ sml \in [st : {"READ_REQUEST", "READ_META"}, len : Nat, est : BOOLEAN, rep : Tables]
    /\ sml.st = "READ_META" => sml.len = app.len /\ app.req = app.len
    /\ push \in Seq(0..(BufSize - 1))
    /\ meta \in Seq([addr : 0..(BufSize - 1), len : 1..(BufSize - 1)])
    /\ smlEv \in Seq(Events) /\ tacEv \in Seq(Events) /\ emxEv \in Seq(Events) /\ Len(emxEv) <= EmxDepth
    /\ tash \in [st : {"IDLE", "RD_MEM_STATUS_1", "RD_MEM_STATUS_2"}, ev : Events]

Forwarding == mwr.st \notin {"IDLE", "SPLIT_1ST_CMD"}
WrTypes ==
    /\ mwr \in [st : {"IDLE", "SPLIT_1ST_CMD", "FWD_ALIGNED", "FWD_1ST_BUF", "FWD_2ND_BUF", "RESIDUE", "UNCUT"},
                addr : 0..(BufSize - 1), btt : Nat, nr : Nat, cur : Seq(Nat)]
    /\ wrCmd \in Seq([addr : Nat, len : Int]) /\ Len(wrCmd) = IF Forwarding THEN 1 ELSE 0
    /\ sts \in Nat /\ mem \in [0..(BufSize - 1) -> Nat]

TxeTypes ==
    /\ tst \in States
    /\ evq \in Seq({"TX", "RT", "FIN"}) /\ Len(evq) <= EventDepth
    /\ mdl \in [st : {"WAIT_EVENT", "PROCESS_EVENT"}, type : {"TX", "RT", "FIN"}, rt : BOOLEAN, sar : States, count : Nat]
    /\ hdr \in Seq(Headers)
    /\ rdCmd \in Seq([addr : 0..(BufSize - 1), len : 1..(BufSize - 1)])
    /\ mrd \in [addr : {0}, len : 0..(BufSize - 1)]
    /\ rdData \in Seq(ChunkSet(Nat)) /\ \A i \in 1..Len(rdData) : Len(rdData[i].bytes) \in 1..Chunk
    /\ split \in Seq(BOOLEAN)
    /\ timer \in [active : BOOLEAN, expired : 0..MaxExpired]

WireFrames == [hdr : {<<>>} \cup {<<h>> : h \in Headers}, bytes : Seq(Nat)]
Acks == [ack : 0..(SeqMod - 1), win : Nat]
NetTypes ==
    /\ wire \in Seq(WireFrames)
    /\ acks \in Seq(Acks)
    /\ rxe \in [st : {"LOAD", "TRANSITION"}, ack : 0..(SeqMod - 1), win : Nat, ackd : 0..(SeqMod - 1), unak : 0..(SeqMod - 1)]
    /\ peer \in [rcv : Nat, fin : BOOLEAN, edge : Nat]
    /\ losses \in 0..MaxLosses

Types == TaiTypes /\ WrTypes /\ TxeTypes /\ NetTypes

LEMMA TypesGiveTypeOK ==
    ASSUME Types
    PROVE  TypeOK
<1> USE DEF Types
<1>1. tat \in [ackd : 0..(BufSize - 1), mempt : 0..(BufSize - 1)] /\ Len(emxEv) <= EmxDepth
      /\ tash \in [st : {"IDLE", "RD_MEM_STATUS_1", "RD_MEM_STATUS_2"}, ev : Events]
  BY Zenon DEF TaiTypes, Tables
<1>2. tst \in States /\ mdl.sar \in States /\ mdl.st \in {"WAIT_EVENT", "PROCESS_EVENT"} /\ mdl.type \in {"TX", "RT", "FIN"}
      /\ Len(evq) <= EventDepth /\ timer \in [active : BOOLEAN, expired : 0..MaxExpired]
  BY DEF TxeTypes
<1>3. \A i \in DOMAIN data : Len(data[i].bytes) \in 1..Chunk
  BY DEF TaiTypes
<1>4. \A i \in DOMAIN rdData : Len(rdData[i].bytes) \in 1..Chunk
  BY DEF TxeTypes
<1>5. mem \in [0..(BufSize - 1) -> Nat] /\ sts \in Nat /\ losses \in 0..MaxLosses
  BY DEF WrTypes, NetTypes
<1> QED
  BY <1>1, <1>2, <1>3, <1>4, <1>5, Zenon DEF TypeOK

----------------------------------------------------------------------------
\* The parts of a state an action may leave alone.
LEMMA TaiTypesKeep ==
    ASSUME TaiTypes, UNCHANGED <<app, data, sml, tat, push, meta, smlEv, tacEv, emxEv, tash>>
    PROVE  TaiTypes'
  BY Zenon DEF TaiTypes, Tables

LEMMA WrTypesKeep ==
    ASSUME WrTypes, UNCHANGED wr
    PROVE  WrTypes'
  BY Zenon DEF WrTypes, wr, Forwarding

LEMMA TxeTypesKeep ==
    ASSUME TxeTypes, UNCHANGED <<tst, evq, mdl, hdr, rdCmd, mrd, rdData, split, timer>>
    PROVE  TxeTypes'
  BY Zenon DEF TxeTypes

LEMMA NetTypesKeep ==
    ASSUME NetTypes, UNCHANGED <<wire, acks, rxe, peer, losses>>
    PROVE  NetTypes'
  BY Zenon DEF NetTypes

\* One action, or none.
Actions ==
    \/ AppRequest \/ AppClose \/ SmlRequest \/ TatAnswer \/ SmlAccept \/ SmlRefuse \/ TatPush \/ Emx
    \/ MwrIdle \/ MwrSplit \/ MwrAligned \/ MwrFirst \/ MwrUncut \/ MwrSecond \/ MwrResidue
    \/ TashIdle \/ TashStatus1 \/ TashStatus2
    \/ MdlWait \/ MdlTx \/ MdlRt \/ MdlFin \/ MrdFirst \/ MrdSecond \/ TssHeader \/ TssSegment
    \/ RxeLoad \/ RxeTransition \/ TImExpire \/ (\E w \in Windows : PeerTakes(w)) \/ Lose

LEMMA NextIs ==
    ASSUME [Next]_vars
    PROVE  Actions \/ UNCHANGED vars
  BY Zenon DEF Next, TAi, TXe, RXe, Network, Sml, Mwr, Tash, Mdl, Mrd, Tss, Actions

----------------------------------------------------------------------------
(* Types: TAi *)

LEMMA TypesAppRequest ==
    ASSUME TaiTypes, AppRequest
    PROVE  TaiTypes'
<1>1. /\ app' = [app EXCEPT !.req = app.len, !.sends = @ - 1] /\ app.sends > 0 /\ app.req = 0
      /\ UNCHANGED <<data, sml, tat, push, meta, smlEv, tacEv, emxEv, tash>>
  BY Zenon DEF AppRequest
<1>2. app \in [len : 1..(BufSize - 1), req : Nat, sends : Nat, closed : BOOLEAN, next : Nat, due : Int]
  BY DEF TaiTypes
<1>3. app' \in [len : 1..(BufSize - 1), req : Nat, sends : Nat, closed : BOOLEAN, next : Nat, due : Int]
      /\ app'.req = app'.len /\ app'.len = app.len
  <2>1. PICK l, k : l = app.len /\ k = app.sends - 1
    OBVIOUS
  <2>2. l \in 1..(BufSize - 1) /\ l \in Nat /\ k \in Nat
    BY <1>1, <1>2, <2>1, Sizes
  <2>3. app' = [app EXCEPT !.req = l, !.sends = k]
    BY <1>1, <2>1, Zenon
  <2> QED
    BY <1>2, <2>1, <2>2, <2>3
<1>4. app.len # 0
  BY <1>2, Sizes
<1>5. sml.st # "READ_META"
  BY <1>1, <1>4 DEF TaiTypes
<1> QED
  BY <1>1, <1>3, <1>5, Zenon DEF TaiTypes, Tables

\* Data whose events Emx has taken ends where the last request does, or before.
LEMMA LeftSmlIs ==
    ASSUME TaiTypes
    PROVE  LeftSml \in Int /\ LeftSml <= app.next /\ (LeftSml = app.next => smlEv = <<>>)
<1>1. app.next \in Nat /\ app.len \in 1..(BufSize - 1) /\ smlEv \in Seq(Events)
  BY DEF TaiTypes
<1>2. PICK k, l, m : k = Len(smlEv) /\ l = app.len /\ m = k * l
  OBVIOUS
<1>3. k \in Nat /\ l \in Nat \ {0}
  BY <1>1, <1>2, Sizes
<1>4. m \in Nat /\ (k # 0 => m # 0)
  BY <1>2, <1>3
<1>5. LeftSml = app.next - m
  BY <1>2, Zenon DEF LeftSml
<1>6. k = 0 => smlEv = <<>>
  <2>1. smlEv \in Seq(Events)
    BY <1>1
  <2>2. Len(smlEv) = 0 => smlEv = <<>>
    BY <2>1
  <2> QED
    BY <1>2, <2>2
<1> QED
  BY <1>1, <1>4, <1>5, <1>6

LEMMA TypesAppClose ==
    ASSUME TaiTypes, AppClose
    PROVE  TaiTypes'
<1>1. /\ app' = [app EXCEPT !.closed = TRUE, !.due = LeftSml] /\ tacEv' = Append(tacEv, Event("FIN", 0, 0))
      /\ UNCHANGED <<data, sml, tat, push, meta, smlEv, emxEv, tash>>
  BY Zenon DEF AppClose
<1>2. Event("FIN", 0, 0) \in Events
  BY Sizes DEF Event, Events
<1>3. app' \in [len : 1..(BufSize - 1), req : Nat, sends : Nat, closed : BOOLEAN, next : Nat, due : Int]
      /\ app'.req = app.req /\ app'.len = app.len
  <2>1. LeftSml \in Int
    BY LeftSmlIs
  <2> QED
    BY <1>1, <2>1 DEF TaiTypes
<1>4. tacEv' \in Seq(Events)
  BY <1>1, <1>2 DEF TaiTypes
<1> QED
  BY <1>1, <1>3, <1>4, Zenon DEF TaiTypes, Tables

LEMMA TypesSmlRequest ==
    ASSUME TaiTypes, SmlRequest
    PROVE  TaiTypes'
<1>1. /\ sml' = [st |-> "READ_META", len |-> app.req, est |-> ~app.closed, rep |-> tat] /\ app.req # 0
      /\ UNCHANGED <<app, data, tat, push, meta, smlEv, tacEv, emxEv, tash>>
  BY Zenon DEF SmlRequest
<1>2. sml' \in [st : {"READ_REQUEST", "READ_META"}, len : Nat, est : BOOLEAN, rep : Tables]
      /\ sml'.len = app.len /\ app.req = app.len
  BY <1>1 DEF TaiTypes
<1> QED
  BY <1>1, <1>2, Zenon DEF TaiTypes, Tables

LEMMA TypesTatAnswer ==
    ASSUME TaiTypes, TatAnswer
    PROVE  TaiTypes'
<1>1. /\ sml' = [sml EXCEPT !.rep = tat]
      /\ UNCHANGED <<app, data, tat, push, meta, smlEv, tacEv, emxEv, tash>>
  BY Zenon DEF TatAnswer
<1>2. sml' \in [st : {"READ_REQUEST", "READ_META"}, len : Nat, est : BOOLEAN, rep : Tables]
      /\ sml'.st = sml.st /\ sml'.len = sml.len
  BY <1>1 DEF TaiTypes
<1> QED
  BY <1>1, <1>2, Zenon DEF TaiTypes, Tables

LEMMA TypesSmlAccept ==
    ASSUME TaiTypes, SmlAccept
    PROVE  TaiTypes'
<1>1. /\ sml.st = "READ_META"
      /\ meta' = Append(meta, [addr |-> sml.rep.mempt, len |-> sml.len])
      /\ smlEv' = Append(smlEv, Event("TX", sml.rep.mempt, sml.len))
      /\ tat' = [tat EXCEPT !.mempt = Ptr(sml.rep.mempt + sml.len)]
      /\ data' = data \o Chunks([i \in 1..sml.len |-> app.next + i - 1], sml.len)
      /\ app' = [app EXCEPT !.req = 0, !.next = @ + sml.len]
      /\ sml' = [sml EXCEPT !.st = "READ_REQUEST"]
      /\ UNCHANGED <<push, tacEv, emxEv, tash>>
  BY Zenon DEF SmlAccept
<1>2. sml.rep \in Tables /\ sml.rep.mempt \in 0..(BufSize - 1) /\ sml.len = app.len /\ sml.len \in 1..(BufSize - 1)
      /\ app.next \in Nat
  BY <1>1 DEF TaiTypes, Tables
<1>3. meta' \in Seq([addr : 0..(BufSize - 1), len : 1..(BufSize - 1)])
  BY <1>1, <1>2 DEF TaiTypes
<1>4. Event("TX", sml.rep.mempt, sml.len) \in Events
  BY <1>2, Sizes DEF Events, Event
<1>5. smlEv' \in Seq(Events)
  BY <1>1, <1>4 DEF TaiTypes
<1>6. tat' \in Tables
  <2>1. Ptr(sml.rep.mempt + sml.len) \in 0..(BufSize - 1)
    BY <1>2, Sizes DEF Ptr
  <2> QED
    BY <1>1, <2>1 DEF TaiTypes, Tables
<1>7. data' \in Seq(ChunkSet(Nat)) /\ \A i \in 1..Len(data') : Len(data'[i].bytes) \in 1..Chunk
  <2> DEFINE f == [i \in 1..sml.len |-> app.next + i - 1]
  <2>1. PICK n : n = sml.len
    OBVIOUS
  <2>2. n \in Nat \ {0} /\ f \in [1 .. n -> Nat]
    BY <1>2, <2>1, Sizes
  <2>3. PICK c : c = Chunks(f, n)
    OBVIOUS
  <2>a. data' = data \o c
    BY <1>1, <2>1, <2>3, Zenon
  <2>4. ChunksOf(Chunks(f, n), f, n, Nat)
    <3> HIDE DEF f
    <3> QED
      BY <2>2, ChunksAt
  <2>b. ChunksOf(c, f, n, Nat)
    BY <2>3, <2>4, Zenon
  <2> HIDE DEF f
  <2>5. c \in Seq(ChunkSet(Nat)) /\ Len(c) = Count(n)
        /\ \A i \in 1 .. Count(n) : Len(c[i].bytes) = End(n, i) - (i - 1) * Chunk
              /\ (i - 1) * Chunk \in Nat /\ End(n, i) \in Nat
              /\ (i - 1) * Chunk < End(n, i) /\ End(n, i) - (i - 1) * Chunk <= Chunk
    BY <2>b, Zenon DEF ChunksOf, ChunkSet
  <2>6. \A i \in 1 .. Len(c) : Len(c[i].bytes) \in 1..Chunk
    <3> TAKE i \in 1 .. Len(c)
    <3>1. PICK a, b : a = (i - 1) * Chunk /\ b = End(n, i)
      OBVIOUS
    <3>2. Len(c[i].bytes) = b - a /\ a \in Nat /\ b \in Nat /\ a < b /\ b - a <= Chunk
      BY <2>5, <3>1, Zenon
    <3> QED
      BY <3>2, Sizes
  <2>7. data \in Seq(ChunkSet(Nat)) /\ \A i \in 1..Len(data) : Len(data[i].bytes) \in 1..Chunk
    BY DEF TaiTypes
  <2>8. data' \in Seq(ChunkSet(Nat)) /\ Len(data') = Len(data) + Len(c)
        /\ \A i \in 1..Len(data') : data'[i] = IF i <= Len(data) THEN data[i] ELSE c[i - Len(data)]
    <3>1. data \in Seq(ChunkSet(Nat)) /\ c \in Seq(ChunkSet(Nat)) /\ data' = data \o c
      BY <2>a, <2>5, <2>7, Zenon
    <3> QED
      BY <3>1
  <2>9. Len(data) \in Nat /\ Len(c) \in Nat
    BY <2>5, <2>7
  <2> QED
    <3>1. ASSUME NEW i \in 1..Len(data')
          PROVE  Len(data'[i].bytes) \in 1..Chunk
      <4>1. CASE i <= Len(data)
        <5>1. i \in 1..Len(data) /\ data'[i] = data[i]
          BY <2>8, <2>9, <4>1
        <5> QED
          BY <2>7, <5>1
      <4>2. CASE ~(i <= Len(data))
        <5>1. PICK j : j = i - Len(data)
          OBVIOUS
        <5>2. j \in 1..Len(c) /\ data'[i] = c[j]
          BY <2>8, <2>9, <4>2, <5>1
        <5> QED
          BY <2>6, <5>2
      <4> QED
        BY <4>1, <4>2
    <3> QED
      BY <2>8, <3>1
<1>8. app' \in [len : 1..(BufSize - 1), req : Nat, sends : Nat, closed : BOOLEAN, next : Nat, due : Int] /\ app'.req = 0
  <2>1. PICK x : x = app.next + sml.len
    OBVIOUS
  <2>2. x \in Nat
    BY <1>2, <2>1, Sizes
  <2>3. app' = [app EXCEPT !.req = 0, !.next = x]
    BY <1>1, <2>1, Zenon
  <2> QED
    BY <2>2, <2>3 DEF TaiTypes
<1>9. sml' \in [st : {"READ_REQUEST", "READ_META"}, len : Nat, est : BOOLEAN, rep : Tables] /\ sml'.st = "READ_REQUEST"
  BY <1>1 DEF TaiTypes
<1>10. sml'.st # "READ_META"
  BY <1>9
<1> QED
  BY <1>1, <1>3, <1>5, <1>6, <1>7, <1>8, <1>9, <1>10, Zenon DEF TaiTypes

LEMMA TypesSmlRefuse ==
    ASSUME TaiTypes, SmlRefuse
    PROVE  TaiTypes'
<1>1. /\ app' = [app EXCEPT !.req = 0]
      /\ sml' = [sml EXCEPT !.st = "READ_REQUEST"]
      /\ UNCHANGED <<data, tat, push, meta, smlEv, tacEv, emxEv, tash>>
  BY Zenon DEF SmlRefuse
<1>2. app' \in [len : 1..(BufSize - 1), req : Nat, sends : Nat, closed : BOOLEAN, next : Nat, due : Int] /\ app'.req = 0
  BY <1>1 DEF TaiTypes
<1>3. sml' \in [st : {"READ_REQUEST", "READ_META"}, len : Nat, est : BOOLEAN, rep : Tables] /\ sml'.st = "READ_REQUEST"
  BY <1>1 DEF TaiTypes
<1>4. sml'.st # "READ_META"
  BY <1>3
<1> QED
  BY <1>1, <1>2, <1>3, <1>4, Zenon DEF TaiTypes, Tables

LEMMA TypesTatPush ==
    ASSUME TaiTypes, TatPush
    PROVE  TaiTypes'
<1>1. /\ push # <<>> /\ tat' = [tat EXCEPT !.ackd = Head(push)] /\ push' = Tail(push)
      /\ UNCHANGED <<app, data, sml, meta, smlEv, tacEv, emxEv, tash>>
  BY Zenon DEF TatPush
<1>2. tat' \in Tables /\ push' \in Seq(0..(BufSize - 1))
  <2>1. push \in Seq(0..(BufSize - 1)) /\ tat \in Tables
    BY DEF TaiTypes
  <2>2. Head(push) \in 0..(BufSize - 1) /\ push' \in Seq(0..(BufSize - 1))
    <3>1. PICK S : S = 0..(BufSize - 1)
      OBVIOUS
    <3>2. push \in Seq(S) /\ push # <<>> /\ push' = Tail(push)
      BY <1>1, <2>1, <3>1
    <3>3. Head(push) \in S /\ push' \in Seq(S)
      BY <3>2
    <3> QED
      BY <3>1, <3>3
  <2> QED
    BY <1>1, <2>1, <2>2 DEF Tables
<1> QED
  BY <1>1, <1>2, Zenon DEF TaiTypes

LEMMA TypesEmx ==
    ASSUME TaiTypes, Emx
    PROVE  TaiTypes'
<1>1. /\ Len(emxEv) < EmxDepth
      /\ \/ /\ tacEv # <<>>
            /\ emxEv' = Append(emxEv, Head(tacEv)) /\ tacEv' = Tail(tacEv) /\ UNCHANGED smlEv
         \/ /\ tacEv = <<>> /\ smlEv # <<>>
            /\ emxEv' = Append(emxEv, Head(smlEv)) /\ smlEv' = Tail(smlEv) /\ UNCHANGED tacEv
      /\ UNCHANGED <<app, data, sml, tat, push, meta, tash>>
  BY Zenon DEF Emx
<1>2. smlEv \in Seq(Events) /\ tacEv \in Seq(Events) /\ emxEv \in Seq(Events)
  BY DEF TaiTypes
<1>3. smlEv' \in Seq(Events) /\ tacEv' \in Seq(Events) /\ emxEv' \in Seq(Events) /\ Len(emxEv') = Len(emxEv) + 1
  <2>1. CASE tacEv # <<>>
    <3>1. emxEv' = Append(emxEv, Head(tacEv)) /\ tacEv' = Tail(tacEv) /\ smlEv' = smlEv
      BY <1>1, <2>1
    <3> QED
      BY <1>2, <2>1, <3>1
  <2>2. CASE tacEv = <<>>
    <3>1. emxEv' = Append(emxEv, Head(smlEv)) /\ smlEv' = Tail(smlEv) /\ tacEv' = tacEv /\ smlEv # <<>>
      BY <1>1, <2>2
    <3> QED
      BY <1>2, <2>2, <3>1
  <2> QED
    BY <2>1, <2>2
<1>4. Len(emxEv') <= EmxDepth
  BY <1>1, <1>2, <1>3, Sizes
<1> QED
  BY <1>1, <1>3, <1>4, Zenon DEF TaiTypes, Tables

LEMMA TypesTashIdle ==
    ASSUME TaiTypes, TxeTypes, TashIdle
    PROVE  TaiTypes' /\ TxeTypes'
<1>1. /\ emxEv # <<>>
      /\ \/ /\ tash' = [st |-> "RD_MEM_STATUS_1", ev |-> Head(emxEv)] /\ UNCHANGED evq
         \/ /\ Head(emxEv).type # "TX" /\ Len(evq) < EventDepth
            /\ evq' = Append(evq, Head(emxEv).type) /\ UNCHANGED tash
      /\ emxEv' = Tail(emxEv)
      /\ UNCHANGED <<app, data, sml, tat, meta, push, smlEv, tacEv>>
      /\ UNCHANGED <<tst, mdl, hdr, rdCmd, mrd, rdData, split, timer>>
  BY Zenon DEF TashIdle, txe
<1>2. emxEv \in Seq(Events) /\ Head(emxEv) \in Events /\ emxEv' \in Seq(Events) /\ Len(emxEv') <= EmxDepth
  BY <1>1, Sizes DEF TaiTypes
<1>3. Head(emxEv).type \in {"TX", "RT", "FIN"}
  BY <1>2 DEF Events
<1>4. evq' \in Seq({"TX", "RT", "FIN"}) /\ Len(evq') <= EventDepth
  <2>1. CASE evq' = evq
    BY <2>1 DEF TxeTypes
  <2>2. CASE evq' = Append(evq, Head(emxEv).type) /\ Len(evq) < EventDepth
    <3>1. PICK t : t = Head(emxEv).type
      OBVIOUS
    <3>2. evq \in Seq({"TX", "RT", "FIN"}) /\ t \in {"TX", "RT", "FIN"} /\ evq' = Append(evq, t)
      BY <1>3, <2>2, <3>1 DEF TxeTypes
    <3> QED
      BY <2>2, <3>2, Sizes
  <2> QED
    BY <1>1, <2>1, <2>2
<1>5. tash' \in [st : {"IDLE", "RD_MEM_STATUS_1", "RD_MEM_STATUS_2"}, ev : Events]
  BY <1>1, <1>2 DEF TaiTypes
<1>6. TaiTypes'
  BY <1>1, <1>2, <1>5, Zenon DEF TaiTypes, Tables
<1> QED
  BY <1>1, <1>4, <1>6, Zenon DEF TxeTypes

LEMMA TypesAnnounce ==
    ASSUME TxeTypes, tash.ev \in Events, Announce, UNCHANGED <<mdl, hdr, rdCmd, mrd, rdData, split, timer>>
    PROVE  TxeTypes'
<1>1. /\ tst' = [tst EXCEPT !.app = Ptr(TxAppPtr)]
      /\ evq' = Append(evq, "TX") /\ Len(evq) < EventDepth
  BY DEF Announce
<1>2. Ptr(TxAppPtr) \in 0..(BufSize - 1)
  BY Sizes DEF Ptr, TxAppPtr, Events
<1>3. tst' \in States
  BY <1>1, <1>2 DEF TxeTypes, States
<1>4. evq' \in Seq({"TX", "RT", "FIN"}) /\ Len(evq') <= EventDepth
  BY <1>1, Sizes DEF TxeTypes
<1> QED
  BY <1>3, <1>4, Zenon DEF TxeTypes

LEMMA TypesTashStatus ==
    ASSUME TaiTypes, WrTypes, TxeTypes, TashStatus1 \/ TashStatus2
    PROVE  TaiTypes' /\ WrTypes' /\ TxeTypes'
<1>1. /\ sts > 0 /\ sts' = sts - 1
      /\ \/ tash' = [tash EXCEPT !.st = "RD_MEM_STATUS_2"] /\ UNCHANGED <<tst, evq>>
         \/ Announce
      /\ UNCHANGED <<app, data, sml, tat, meta, push, smlEv, tacEv, emxEv>>
      /\ UNCHANGED <<mwr, wrCmd, mem>>
      /\ UNCHANGED <<mdl, hdr, rdCmd, mrd, rdData, split, timer>>
  BY Zenon DEF TashStatus1, TashStatus2, txe
<1>2. tash' = [tash EXCEPT !.st = "RD_MEM_STATUS_2"] \/ tash' = [tash EXCEPT !.st = "IDLE"]
  BY <1>1, Zenon DEF Announce
<1>3. tash' \in [st : {"IDLE", "RD_MEM_STATUS_1", "RD_MEM_STATUS_2"}, ev : Events] /\ tash.ev \in Events
  BY <1>2 DEF TaiTypes
<1>4. TaiTypes'
  BY <1>1, <1>3, Zenon DEF TaiTypes, Tables
<1>5. sts' \in Nat
  BY <1>1 DEF WrTypes
<1>6. WrTypes'
  BY <1>1, <1>5, Zenon DEF WrTypes, Forwarding
<1>7. TxeTypes'
  <2>1. CASE Announce
    BY <1>1, <1>3, <2>1, TypesAnnounce, Zenon
  <2>2. CASE UNCHANGED <<tst, evq>>
    BY <1>1, <2>2, Zenon DEF TxeTypes
  <2> QED
    BY <1>1, <2>1, <2>2
<1> QED
  BY <1>4, <1>6, <1>7

----------------------------------------------------------------------------
(* Types: sequences, and Mwr *)

LEMMA HeadTail ==
    ASSUME NEW S, NEW s \in Seq(S), s # <<>>
    PROVE  /\ Head(s) \in S /\ Head(s) = s[1] /\ Tail(s) \in Seq(S)
           /\ Len(s) \in Nat \ {0} /\ Len(Tail(s)) = Len(s) - 1
           /\ \A i \in 1..Len(Tail(s)) : i + 1 \in 1..Len(s) /\ Tail(s)[i] = s[i + 1]
  OBVIOUS

LEMMA AppendIs ==
    ASSUME NEW S, NEW s \in Seq(S), NEW x \in S
    PROVE  /\ Append(s, x) \in Seq(S) /\ Append(s, x) # <<>>
           /\ Len(s) \in Nat /\ Len(Append(s, x)) = Len(s) + 1
           /\ \A i \in 1..Len(s) : Append(s, x)[i] = s[i]
           /\ Append(s, x)[Len(s) + 1] = x
  OBVIOUS

LEMMA DropAny ==
    ASSUME NEW S, NEW s \in Seq(S), NEW n \in Nat
    PROVE  Take(s, n) \in Seq(S) /\ Drop(s, n) \in Seq(S)
<1>1. Take(s, n) \in Seq(S) /\ (n <= Len(s) => Drop(s, n) \in Seq(S)) /\ (n > Len(s) => Drop(s, n) = <<>>)
  BY TakeDrop, Zenon
<1>2. CASE n <= Len(s)
  BY <1>1, <1>2
<1>3. CASE n > Len(s)
  <2>1. Drop(s, n) = <<>>
    BY <1>1, <1>3
  <2>2. <<>> \in Seq(S)
    OBVIOUS
  <2> QED
    BY <1>1, <2>1, <2>2, Zenon
<1>4. Len(s) \in Nat
  OBVIOUS
<1> QED
  BY <1>2, <1>3, <1>4

Commands == Seq([addr : Nat, len : Int])
Mwrs == [st : {"IDLE", "SPLIT_1ST_CMD", "FWD_ALIGNED", "FWD_1ST_BUF", "FWD_2ND_BUF", "RESIDUE", "UNCUT"},
         addr : 0..(BufSize - 1), btt : Nat, nr : Nat, cur : Seq(Nat)]

\* What MEM makes of a chunk, for the commands cmds, of which there is one more than after TLAST.
LEMMA WriteChunkTypes ==
    ASSUME WrTypes, NEW b \in Seq(Nat), NEW last, NEW cmds \in Commands, cmds # <<>>, WriteChunk(b, last, cmds)
    PROVE  /\ mem' \in [0..(BufSize - 1) -> Nat] /\ sts' \in Nat
           /\ wrCmd' \in Commands /\ Len(wrCmd') = IF last THEN Len(cmds) - 1 ELSE Len(cmds)
<1> DEFINE c == Head(cmds)
<1>1. c \in [addr : Nat, len : Int] /\ c.addr \in Nat /\ c = cmds[1]
  <2>1. PICK T : T = [addr : Nat, len : Int]
    OBVIOUS
  <2>2. cmds \in Seq(T)
    BY <2>1, Zenon DEF Commands
  <2>3. c \in T /\ c = cmds[1]
    BY <2>2, HeadTail, Zenon
  <2> QED
    BY <2>1, <2>3
<1>2. /\ mem' = [p \in DOMAIN mem |-> IF p >= c.addr /\ p < c.addr + Len(b) THEN b[p - c.addr + 1] ELSE mem[p]]
      /\ wrCmd' = IF last THEN Tail(cmds) ELSE [cmds EXCEPT ![1].addr = @ + Len(b)]
      /\ sts' = IF last THEN sts + 1 ELSE sts
  BY DEF WriteChunk
<1>3. mem \in [0..(BufSize - 1) -> Nat] /\ sts \in Nat
  BY DEF WrTypes
<1>4. sts' \in Nat
  BY <1>2, <1>3
<1>5. PICK a, n : a = c.addr /\ n = Len(b)
  OBVIOUS
<1>6. a \in Nat /\ n \in Nat
  BY <1>1, <1>5
<1> HIDE DEF c
<1>7. mem' \in [0..(BufSize - 1) -> Nat]
  <2>1. ASSUME NEW p \in 0..(BufSize - 1), p >= a, p < a + n
        PROVE  b[p - a + 1] \in Nat
    <3>1. p - a + 1 \in 1..Len(b)
      BY <1>5, <1>6, <2>1, Sizes
    <3> QED
      BY <3>1
  <2>2. mem' = [p \in 0..(BufSize - 1) |-> IF p >= a /\ p < a + n THEN b[p - a + 1] ELSE mem[p]]
    BY <1>2, <1>3, <1>5, Zenon
  <2>3. \A p \in 0..(BufSize - 1) : (IF p >= a /\ p < a + n THEN b[p - a + 1] ELSE mem[p]) \in Nat
    BY <1>3, <2>1
  <2> QED
    BY <2>2, <2>3, Zenon
<1>8. wrCmd' \in Commands /\ Len(wrCmd') = IF last THEN Len(cmds) - 1 ELSE Len(cmds)
  <2>1. CASE last
    <3>1. wrCmd' = Tail(cmds)
      BY <1>2, <2>1
    <3>2. cmds \in Seq([addr : Nat, len : Int]) /\ cmds # <<>>
      BY DEF Commands
    <3>3. wrCmd' \in Seq([addr : Nat, len : Int]) /\ Len(wrCmd') = Len(cmds) - 1
      BY <3>1, <3>2
    <3> QED
      BY <2>1, <3>3 DEF Commands
  <2>2. CASE ~last
    <3>1. PICK d : d = [cmds[1] EXCEPT !.addr = @ + n]
      OBVIOUS
    <3>2. wrCmd' = [cmds EXCEPT ![1] = d]
      BY <1>2, <1>5, <2>2, <3>1, Zenon
    <3>3. PICK x : x = a + n
      OBVIOUS
    <3>4. x \in Nat
      BY <1>6, <3>3
    <3>5. d \in [addr : Nat, len : Int]
      BY <1>1, <1>5, <3>1, <3>3, <3>4
    <3>6. PICK T : T = [addr : Nat, len : Int]
      OBVIOUS
    <3>7. cmds \in Seq(T) /\ d \in T
      BY <3>5, <3>6 DEF Commands
    <3>8. wrCmd' \in Seq(T) /\ Len(wrCmd') = Len(cmds)
      BY <3>2, <3>7
    <3> QED
      BY <2>2, <3>6, <3>8 DEF Commands
  <2> QED
    BY <2>1, <2>2
<1> QED
  BY <1>4, <1>7, <1>8

LEMMA DataHead ==
    ASSUME TaiTypes, data # <<>>
    PROVE  /\ Head(data).bytes \in Seq(Nat) /\ Head(data).last \in BOOLEAN /\ Len(Head(data).bytes) \in 1..Chunk
           /\ Head(data) = data[1]
           /\ Tail(data) \in Seq(ChunkSet(Nat)) /\ \A i \in 1..Len(Tail(data)) : Len(Tail(data)[i].bytes) \in 1..Chunk
<1>1. data \in Seq(ChunkSet(Nat)) /\ \A i \in 1..Len(data) : Len(data[i].bytes) \in 1..Chunk
  BY DEF TaiTypes
<1>2. Head(data) \in ChunkSet(Nat) /\ Head(data) = data[1] /\ Tail(data) \in Seq(ChunkSet(Nat))
      /\ Len(Tail(data)) = Len(data) - 1 /\ Len(data) \in Nat \ {0}
      /\ \A i \in 1..Len(Tail(data)) : Tail(data)[i] = data[i + 1]
  BY <1>1
<1>3. Head(data).bytes \in Seq(Nat) /\ Head(data).last \in BOOLEAN
  BY <1>2 DEF ChunkSet
<1>4. ASSUME NEW i \in 1..Len(Tail(data))
      PROVE  Len(Tail(data)[i].bytes) \in 1..Chunk
  <2>1. PICK j : j = i + 1
    OBVIOUS
  <2>2. j \in 1..Len(data) /\ Tail(data)[i] = data[j]
    BY <1>2, <2>1
  <2> QED
    BY <1>1, <2>2
<1>5. Len(data[1].bytes) \in 1..Chunk
  BY <1>1, <1>2
<1> QED
  BY <1>2, <1>3, <1>4, <1>5

LEMMA TypesData ==
    ASSUME TaiTypes, data # <<>>, data' = Tail(data),
           UNCHANGED <<app, sml, tat, push, meta, smlEv, tacEv, emxEv, tash>>
    PROVE  TaiTypes'
  BY DataHead, Zenon DEF TaiTypes, Tables

LEMMA TypesMwrIdle ==
    ASSUME TaiTypes, WrTypes, MwrIdle
    PROVE  TaiTypes' /\ WrTypes'
<1> DEFINE m == Head(meta)
<1>1. /\ mwr.st = "IDLE" /\ meta # <<>>
      /\ \/ /\ mwr' = [mwr EXCEPT !.st = "SPLIT_1ST_CMD", !.addr = m.addr, !.btt = m.len] /\ UNCHANGED wrCmd
         \/ /\ wrCmd' = Append(wrCmd, m)
            /\ mwr' = [mwr EXCEPT !.st = "FWD_ALIGNED", !.addr = m.addr, !.btt = m.len]
      /\ meta' = Tail(meta)
      /\ UNCHANGED <<app, data, sml, tat, push, smlEv, tacEv, emxEv, tash, sts, mem>>
  BY Zenon DEF MwrIdle
<1>2. meta \in Seq([addr : 0..(BufSize - 1), len : 1..(BufSize - 1)])
  BY DEF TaiTypes
<1>3. m \in [addr : 0..(BufSize - 1), len : 1..(BufSize - 1)] /\ meta' \in Seq([addr : 0..(BufSize - 1), len : 1..(BufSize - 1)])
  <2>1. PICK S : S = [addr : 0..(BufSize - 1), len : 1..(BufSize - 1)]
    OBVIOUS
  <2>2. meta \in Seq(S) /\ meta # <<>> /\ meta' = Tail(meta)
    BY <1>1, <1>2, <2>1, Zenon
  <2>3. m \in S /\ meta' \in Seq(S)
    BY <2>2
  <2> QED
    BY <2>1, <2>3, Zenon
<1>4. TaiTypes'
  BY <1>1, <1>3, Zenon DEF TaiTypes, Tables
<1>5. PICK a, l : a = m.addr /\ l = m.len
  OBVIOUS
<1>6. a \in 0..(BufSize - 1) /\ l \in Nat /\ m \in [addr : Nat, len : Int]
  BY <1>3, <1>5, Sizes
<1>7. wrCmd \in Seq([addr : Nat, len : Int]) /\ Len(wrCmd) = 0 /\ mwr \in Mwrs
  BY <1>1 DEF WrTypes, Forwarding, Mwrs
<1> HIDE DEF m
<1>8. mwr' \in Mwrs
  <2>1. mwr' = [mwr EXCEPT !.st = "SPLIT_1ST_CMD", !.addr = a, !.btt = l]
        \/ mwr' = [mwr EXCEPT !.st = "FWD_ALIGNED", !.addr = a, !.btt = l]
    BY <1>1, <1>5, Zenon
  <2> QED
    BY <1>6, <1>7, <2>1 DEF Mwrs
<1>9. wrCmd' \in Seq([addr : Nat, len : Int]) /\ Len(wrCmd') = IF Forwarding' THEN 1 ELSE 0
  <2>1. CASE mwr' = [mwr EXCEPT !.st = "SPLIT_1ST_CMD", !.addr = m.addr, !.btt = m.len] /\ UNCHANGED wrCmd
    <3>1. mwr'.st = "SPLIT_1ST_CMD"
      BY <1>7, <2>1 DEF Mwrs
    <3> QED
      BY <1>7, <2>1, <3>1 DEF Forwarding
  <2>2. CASE wrCmd' = Append(wrCmd, m) /\ mwr' = [mwr EXCEPT !.st = "FWD_ALIGNED", !.addr = m.addr, !.btt = m.len]
    <3>1. mwr'.st = "FWD_ALIGNED"
      BY <1>7, <2>2 DEF Mwrs
    <3>2. wrCmd' \in Seq([addr : Nat, len : Int]) /\ Len(wrCmd') = 1
      BY <1>6, <1>7, <2>2
    <3> QED
      BY <3>1, <3>2 DEF Forwarding
  <2> QED
    BY <1>1, <2>1, <2>2
<1>10. WrTypes'
  BY <1>1, <1>8, <1>9, Zenon DEF WrTypes, Mwrs
<1> QED
  BY <1>4, <1>10

LEMMA TypesMwrSplit ==
    ASSUME TaiTypes, WrTypes, MwrSplit
    PROVE  TaiTypes' /\ WrTypes'
<1>1. /\ mwr.st = "SPLIT_1ST_CMD"
      /\ wrCmd' = Append(wrCmd, [addr |-> mwr.addr, len |-> BufSize - mwr.addr])
      /\ mwr' = [mwr EXCEPT !.st = "FWD_1ST_BUF", !.nr = BufSize - mwr.addr]
      /\ UNCHANGED <<app, data, sml, tat, push, meta, smlEv, tacEv, emxEv, tash>> /\ UNCHANGED <<sts, mem>>
  BY Zenon DEF MwrSplit, tai
<1>2. wrCmd \in Seq([addr : Nat, len : Int]) /\ Len(wrCmd) = 0 /\ mwr \in Mwrs
  BY <1>1 DEF WrTypes, Forwarding, Mwrs
<1>3. PICK a, n : a = mwr.addr /\ n = BufSize - mwr.addr
  OBVIOUS
<1>4. a \in Nat /\ n \in Nat
  BY <1>2, <1>3, Sizes DEF Mwrs
<1>5. mwr' = [mwr EXCEPT !.st = "FWD_1ST_BUF", !.nr = n]
  BY <1>1, <1>3, Zenon
<1>6. mwr' \in Mwrs /\ mwr'.st = "FWD_1ST_BUF"
  BY <1>2, <1>4, <1>5 DEF Mwrs
<1>7. PICK c : c = [addr |-> a, len |-> n]
  OBVIOUS
<1>8. c \in [addr : Nat, len : Int] /\ wrCmd' = Append(wrCmd, c)
  BY <1>1, <1>3, <1>4, <1>7
<1>9. wrCmd' \in Seq([addr : Nat, len : Int]) /\ Len(wrCmd') = 1
  BY <1>2, <1>8
<1>10. Forwarding'
  BY <1>6 DEF Forwarding
<1>11. WrTypes'
  BY <1>1, <1>6, <1>9, <1>10, Zenon DEF WrTypes, Mwrs
<1> QED
  BY <1>1, <1>11, TaiTypesKeep, Zenon

LEMMA TypesMwrUncut ==
    ASSUME TaiTypes, WrTypes, MwrUncut
    PROVE  TaiTypes' /\ WrTypes'
<1>1. /\ data # <<>> /\ mwr.st = "FWD_1ST_BUF" /\ WriteChunk(Take(Head(data).bytes, mwr.nr), FALSE, wrCmd)
      /\ mwr' = [mwr EXCEPT !.st = "UNCUT"] /\ data' = Tail(data)
      /\ UNCHANGED <<app, sml, tat, push, meta, smlEv, tacEv, emxEv, tash>>
  BY Zenon DEF MwrUncut
<1>2. Forwarding
  BY <1>1 DEF Forwarding
<1>3. wrCmd \in Seq([addr : Nat, len : Int]) /\ Len(wrCmd) = 1 /\ mwr \in Mwrs
  BY <1>2 DEF WrTypes, Mwrs
<1>4. wrCmd \in Commands /\ wrCmd # <<>> /\ mwr.nr \in Nat
  <2>1. wrCmd # <<>>
    BY <1>3
  <2>2. mwr.nr \in Nat
    BY <1>3 DEF Mwrs
  <2> QED
    BY <1>3, <2>1, <2>2, Zenon DEF Commands
<1>5. PICK t : t = Take(Head(data).bytes, mwr.nr)
  OBVIOUS
<1>6. t \in Seq(Nat) /\ WriteChunk(t, FALSE, wrCmd)
  <2>1. PICK b : b = Head(data).bytes
    OBVIOUS
  <2>2. b \in Seq(Nat)
    BY <1>1, <2>1, DataHead, Zenon
  <2>3. Take(b, mwr.nr) \in Seq(Nat)
    BY <1>4, <2>2, DropAny, Zenon
  <2> QED
    BY <1>1, <1>5, <2>1, <2>3, Zenon
<1>7. /\ mem' \in [0..(BufSize - 1) -> Nat] /\ sts' \in Nat
      /\ wrCmd' \in Commands /\ Len(wrCmd') = IF FALSE THEN Len(wrCmd) - 1 ELSE Len(wrCmd)
  BY <1>4, <1>6, WriteChunkTypes, Zenon
<1>8. mwr' \in Mwrs /\ mwr'.st = "UNCUT"
  BY <1>1, <1>3 DEF Mwrs
<1>9. Forwarding' /\ Len(wrCmd') = 1
  BY <1>3, <1>7, <1>8 DEF Forwarding
<1>10. WrTypes'
  BY <1>7, <1>8, <1>9, Zenon DEF WrTypes, Mwrs, Commands
<1> QED
  BY <1>1, <1>10, TypesData, Zenon

LEMMA TypesMwrForward ==
    ASSUME TaiTypes, WrTypes, MwrAligned \/ MwrFirst \/ MwrSecond \/ MwrResidue
    PROVE  TaiTypes' /\ WrTypes'
<1>1. wrCmd \in Commands /\ mwr \in Mwrs /\ mwr.cur \in Seq(Nat) /\ mwr.nr \in Nat /\ Forwarding /\ Len(wrCmd) = 1 /\ wrCmd # <<>>
  <2>1. mwr.st \in {"FWD_ALIGNED", "FWD_1ST_BUF", "FWD_2ND_BUF", "RESIDUE"}
    BY DEF MwrAligned, MwrFirst, MwrSecond, MwrResidue
  <2>2. Forwarding
    BY <2>1 DEF Forwarding
  <2>3. wrCmd \in Seq([addr : Nat, len : Int]) /\ Len(wrCmd) = 1 /\ mwr \in Mwrs
    BY <2>2 DEF WrTypes, Mwrs
  <2>4. wrCmd # <<>>
    BY <2>3
  <2>5. mwr.cur \in Seq(Nat) /\ mwr.nr \in Nat
    BY <2>3 DEF Mwrs
  <2> QED
    BY <2>2, <2>3, <2>4, <2>5, Zenon DEF Commands
<1>2. ASSUME mem' \in [0..(BufSize - 1) -> Nat], sts' \in Nat, wrCmd' \in Commands,
             Len(wrCmd') = IF Forwarding' THEN 1 ELSE 0, mwr' \in Mwrs
      PROVE  WrTypes'
  BY <1>2, Zenon DEF WrTypes, Mwrs, Commands
<1>3. CASE MwrAligned
  <2>1. /\ data # <<>>
        /\ WriteChunk(Head(data).bytes, Head(data).last, wrCmd)
        /\ mwr' = [mwr EXCEPT !.st = IF Head(data).last THEN "IDLE" ELSE @]
        /\ data' = Tail(data) /\ mwr.st = "FWD_ALIGNED"
        /\ UNCHANGED <<app, sml, tat, push, meta, smlEv, tacEv, emxEv, tash>>
    BY <1>3, Zenon DEF MwrAligned
  <2>2. PICK b, l : b = Head(data).bytes /\ l = Head(data).last
    OBVIOUS
  <2>3. b \in Seq(Nat) /\ l \in BOOLEAN /\ WriteChunk(b, l, wrCmd)
        /\ mwr' = [mwr EXCEPT !.st = IF l THEN "IDLE" ELSE @]
    BY <2>1, <2>2, DataHead, Zenon
  <2>4. mem' \in [0..(BufSize - 1) -> Nat] /\ sts' \in Nat /\ wrCmd' \in Commands /\ Len(wrCmd') = IF l THEN 0 ELSE 1
    <3>1. /\ mem' \in [0..(BufSize - 1) -> Nat] /\ sts' \in Nat
          /\ wrCmd' \in Commands /\ Len(wrCmd') = IF l THEN Len(wrCmd) - 1 ELSE Len(wrCmd)
      BY <1>1, <2>3, WriteChunkTypes, Zenon
    <3> QED
      BY <1>1, <3>1
  <2>5. mwr' \in Mwrs /\ mwr'.st = IF l THEN "IDLE" ELSE "FWD_ALIGNED"
    BY <1>1, <2>1, <2>3 DEF Mwrs
  <2>6. Len(wrCmd') = IF Forwarding' THEN 1 ELSE 0
    BY <2>4, <2>5 DEF Forwarding
  <2> QED
    BY <1>2, <2>1, <2>4, <2>5, <2>6, TypesData, Zenon
<1>4. CASE MwrFirst
  <2> DEFINE c == Head(data).bytes
             second == [addr |-> 0, len |-> mwr.btt - (BufSize - mwr.addr)]
  <2>1. /\ data # <<>> /\ mwr.st = "FWD_1ST_BUF"
        /\ \/ /\ mwr.nr > Chunk
              /\ WriteChunk(c, FALSE, wrCmd)
              /\ mwr' = [mwr EXCEPT !.nr = @ - Chunk]
           \/ /\ mwr.nr = Chunk
              /\ WriteChunk(c, TRUE, Append(wrCmd, second))
              /\ mwr' = [mwr EXCEPT !.st = "FWD_ALIGNED"]
           \/ /\ mwr.nr < Chunk
              /\ WriteChunk(Take(c, mwr.nr), TRUE, Append(wrCmd, second))
              /\ mwr' = [mwr EXCEPT !.st = "FWD_2ND_BUF", !.cur = Drop(c, mwr.nr)]
        /\ data' = Tail(data)
        /\ UNCHANGED <<app, sml, tat, push, meta, smlEv, tacEv, emxEv, tash>>
    BY <1>4, Zenon DEF MwrFirst
  <2>2. PICK b, d : b = c /\ d = second
    OBVIOUS
  <2>3. b \in Seq(Nat)
    BY <2>1, <2>2, DataHead, Zenon
  <2>4. d \in [addr : Nat, len : Int]
    <3>1. PICK n : n = mwr.btt - (BufSize - mwr.addr)
      OBVIOUS
    <3>2. n \in Int
      BY <1>1, <3>1, Sizes DEF Mwrs
    <3> QED
      BY <2>2, <3>1, <3>2
  <2>5. PICK cmds : cmds = Append(wrCmd, d)
    OBVIOUS
  <2>6. cmds \in Commands /\ cmds # <<>> /\ Len(cmds) = 2
    <3>1. wrCmd \in Seq([addr : Nat, len : Int]) /\ Len(wrCmd) = 1
      BY <1>1 DEF Commands
    <3>0. PICK T : T = [addr : Nat, len : Int]
      OBVIOUS
    <3>2. cmds \in Seq(T) /\ cmds # <<>> /\ Len(cmds) = Len(wrCmd) + 1
      <4>1. wrCmd \in Seq(T) /\ d \in T
        BY <2>4, <3>0, <3>1
      <4> QED
        BY <2>5, <4>1, AppendIs, Zenon
    <3> QED
      BY <3>0, <3>1, <3>2 DEF Commands
  <2> HIDE DEF c, second
  <2>7. CASE mwr.nr > Chunk /\ WriteChunk(c, FALSE, wrCmd) /\ mwr' = [mwr EXCEPT !.nr = @ - Chunk]
    <3>1. mem' \in [0..(BufSize - 1) -> Nat] /\ sts' \in Nat /\ wrCmd' \in Commands /\ Len(wrCmd') = 1
      <4>1. WriteChunk(b, FALSE, wrCmd)
        BY <2>2, <2>7
      <4>2. /\ mem' \in [0..(BufSize - 1) -> Nat] /\ sts' \in Nat
            /\ wrCmd' \in Commands /\ Len(wrCmd') = IF FALSE THEN Len(wrCmd) - 1 ELSE Len(wrCmd)
        BY <1>1, <2>3, <4>1, WriteChunkTypes, Zenon
      <4> QED
        BY <1>1, <4>2
    <3>2. PICK n : n = mwr.nr - Chunk
      OBVIOUS
    <3>3. n \in Nat /\ mwr' = [mwr EXCEPT !.nr = n]
      BY SMTT(40), <1>1, <2>7, <3>2, Sizes
    <3>4. mwr' \in Mwrs /\ mwr'.st = "FWD_1ST_BUF"
      BY <1>1, <2>1, <3>3 DEF Mwrs
    <3>5. Forwarding'
      BY <3>4 DEF Forwarding
    <3> QED
      BY <1>2, <2>1, <3>1, <3>4, <3>5, TypesData, Zenon
  <2>8. CASE mwr.nr = Chunk /\ WriteChunk(c, TRUE, Append(wrCmd, second)) /\ mwr' = [mwr EXCEPT !.st = "FWD_ALIGNED"]
    <3>1. mem' \in [0..(BufSize - 1) -> Nat] /\ sts' \in Nat /\ wrCmd' \in Commands /\ Len(wrCmd') = 1
      <4>1. WriteChunk(b, TRUE, cmds)
        BY <2>2, <2>5, <2>8
      <4>2. /\ mem' \in [0..(BufSize - 1) -> Nat] /\ sts' \in Nat
            /\ wrCmd' \in Commands /\ Len(wrCmd') = IF TRUE THEN Len(cmds) - 1 ELSE Len(cmds)
        BY <2>3, <2>6, <4>1, WriteChunkTypes, Zenon
      <4> QED
        BY <2>6, <4>2
    <3>4. mwr' \in Mwrs /\ mwr'.st = "FWD_ALIGNED"
      BY <1>1, <2>8 DEF Mwrs
    <3>5. Forwarding'
      BY <3>4 DEF Forwarding
    <3> QED
      BY <1>2, <2>1, <3>1, <3>4, <3>5, TypesData, Zenon
  <2>9. CASE mwr.nr < Chunk /\ WriteChunk(Take(c, mwr.nr), TRUE, Append(wrCmd, second))
             /\ mwr' = [mwr EXCEPT !.st = "FWD_2ND_BUF", !.cur = Drop(c, mwr.nr)]
    <3>1. PICK n : n = mwr.nr
      OBVIOUS
    <3>2. n \in Nat
      BY <1>1, <3>1
    <3>3. Take(b, n) \in Seq(Nat) /\ Drop(b, n) \in Seq(Nat)
      BY <2>3, <3>2, DropAny, Zenon
    <3>4. PICK t, u : t = Take(b, n) /\ u = Drop(b, n)
      OBVIOUS
    <3>5. t \in Seq(Nat) /\ u \in Seq(Nat) /\ WriteChunk(t, TRUE, cmds) /\ mwr' = [mwr EXCEPT !.st = "FWD_2ND_BUF", !.cur = u]
      BY <2>2, <2>5, <2>9, <3>1, <3>3, <3>4, Zenon
    <3>6. mem' \in [0..(BufSize - 1) -> Nat] /\ sts' \in Nat /\ wrCmd' \in Commands /\ Len(wrCmd') = 1
      <4>2. /\ mem' \in [0..(BufSize - 1) -> Nat] /\ sts' \in Nat
            /\ wrCmd' \in Commands /\ Len(wrCmd') = IF TRUE THEN Len(cmds) - 1 ELSE Len(cmds)
        BY <2>6, <3>5, WriteChunkTypes, Zenon
      <4> QED
        BY <2>6, <4>2
    <3>7. mwr' \in Mwrs /\ mwr'.st = "FWD_2ND_BUF"
      BY <1>1, <3>5 DEF Mwrs
    <3>8. Forwarding'
      BY <3>7 DEF Forwarding
    <3> QED
      BY <1>2, <2>1, <3>6, <3>7, <3>8, TypesData, Zenon
  <2> QED
    BY <2>1, <2>7, <2>8, <2>9, Zenon
<1>5. CASE MwrSecond
  <2> DEFINE c == Head(data)
             done == c.last /\ Len(c.bytes) <= mwr.nr
  <2>1. /\ data # <<>> /\ mwr.st = "FWD_2ND_BUF"
        /\ WriteChunk(mwr.cur \o Take(c.bytes, mwr.nr), done, wrCmd)
        /\ mwr' = [mwr EXCEPT !.cur = Drop(c.bytes, mwr.nr),
                              !.st = IF done THEN "IDLE" ELSE IF c.last THEN "RESIDUE" ELSE @]
        /\ data' = Tail(data)
        /\ UNCHANGED <<app, sml, tat, push, meta, smlEv, tacEv, emxEv, tash>>
    BY <1>5, Zenon DEF MwrSecond
  <2>2. PICK b, n, e : b = c.bytes /\ n = mwr.nr /\ e = mwr.cur
    OBVIOUS
  <2>3. b \in Seq(Nat) /\ n \in Nat /\ e \in Seq(Nat)
    BY <1>1, <2>1, <2>2, DataHead, Zenon
  <2>4. Take(b, n) \in Seq(Nat) /\ Drop(b, n) \in Seq(Nat)
    BY <2>3, DropAny, Zenon
  <2>5. PICK t, u, l, d : t = e \o Take(b, n) /\ u = Drop(b, n) /\ l = c.last /\ d = done
    OBVIOUS
  <2>6. t \in Seq(Nat) /\ u \in Seq(Nat)
    BY <2>3, <2>4, <2>5
  <2>7. WriteChunk(t, d, wrCmd) /\ mwr' = [mwr EXCEPT !.cur = u, !.st = IF d THEN "IDLE" ELSE IF l THEN "RESIDUE" ELSE @]
    BY <2>1, <2>2, <2>5, Zenon
  <2>8. mem' \in [0..(BufSize - 1) -> Nat] /\ sts' \in Nat /\ wrCmd' \in Commands /\ Len(wrCmd') = IF d THEN 0 ELSE 1
    <3>1. /\ mem' \in [0..(BufSize - 1) -> Nat] /\ sts' \in Nat
          /\ wrCmd' \in Commands /\ Len(wrCmd') = IF d THEN Len(wrCmd) - 1 ELSE Len(wrCmd)
      BY <1>1, <2>6, <2>7, WriteChunkTypes, Zenon
    <3> QED
      BY <1>1, <3>1
  <2>9. mwr' \in Mwrs /\ mwr'.st = IF d THEN "IDLE" ELSE IF l THEN "RESIDUE" ELSE "FWD_2ND_BUF"
    BY <1>1, <2>1, <2>6, <2>7 DEF Mwrs
  <2>10. Len(wrCmd') = IF Forwarding' THEN 1 ELSE 0
    BY <2>8, <2>9 DEF Forwarding
  <2> QED
    BY <1>2, <2>1, <2>8, <2>9, <2>10, TypesData, Zenon
<1>6. CASE MwrResidue
  <2>1. /\ WriteChunk(mwr.cur, TRUE, wrCmd)
        /\ mwr' = [mwr EXCEPT !.st = "IDLE"]
        /\ UNCHANGED <<app, data, sml, tat, push, meta, smlEv, tacEv, emxEv, tash>>
    BY <1>6, Zenon DEF MwrResidue, tai
  <2>2. mem' \in [0..(BufSize - 1) -> Nat] /\ sts' \in Nat /\ wrCmd' \in Commands /\ Len(wrCmd') = 0
    <3>1. /\ mem' \in [0..(BufSize - 1) -> Nat] /\ sts' \in Nat
          /\ wrCmd' \in Commands /\ Len(wrCmd') = IF TRUE THEN Len(wrCmd) - 1 ELSE Len(wrCmd)
      BY <1>1, <2>1, WriteChunkTypes, Zenon
    <3> QED
      BY <1>1, <3>1
  <2>3. mwr' \in Mwrs /\ mwr'.st = "IDLE"
    BY <1>1, <2>1 DEF Mwrs
  <2>4. ~Forwarding'
    BY <2>3 DEF Forwarding
  <2> QED
    BY <1>2, <2>1, <2>2, <2>3, <2>4, TaiTypesKeep, Zenon
<1> QED
  BY <1>3, <1>4, <1>5, <1>6

----------------------------------------------------------------------------
(* Types: Mdl *)

ReadCommands == [addr : 0..(BufSize - 1), len : 1..(BufSize - 1)]
Timers == [active : BOOLEAN, expired : 0..MaxExpired]

LEMMA MinusRange ==
    ASSUME NEW a \in Int, NEW b \in Int, NEW m \in Nat \ {0}
    PROVE  Minus(a, b, m) \in 0..(m - 1)
<1>1. PICK x : x = m + a - b
  OBVIOUS
<1>2. x \in Int
  BY <1>1
<1>3. x % m \in 0..(m - 1)
  BY <1>2, DivMod
<1> QED
  BY <1>1, <1>3 DEF Minus

LEMMA PtrRange ==
    ASSUME NEW a \in Int
    PROVE  Ptr(a) \in 0..(BufSize - 1) /\ Ptr(a) \in Int
<1>1. a % BufSize \in 0..(BufSize - 1)
  BY DivMod, Sizes
<1> QED
  BY <1>1, Sizes DEF Ptr

LEMMA PlusRange ==
    ASSUME NEW a \in Int, NEW d \in Int
    PROVE  Plus(a, d) \in 0..(SeqMod - 1)
<1>1. PICK x : x = a + d
  OBVIOUS
<1>2. x \in Int
  BY <1>1
<1>3. x % SeqMod \in 0..(SeqMod - 1)
  BY <1>2, DivMod, Sizes
<1> QED
  BY <1>1, <1>3 DEF Plus

LEMMA StateFields ==
    ASSUME NEW s \in States
    PROVE  /\ s.ackd \in 0..(SeqMod - 1) /\ s.unak \in 0..(SeqMod - 1) /\ s.app \in 0..(BufSize - 1) /\ s.win \in Nat
           /\ s.ackd \in Int /\ s.unak \in Int /\ s.app \in Int
           /\ s.finReady \in BOOLEAN /\ s.finSent \in BOOLEAN
  BY Sizes DEF States

\* The numbers Mdl computes from its copy of the entry.
LEMMA MdlNumbers ==
    ASSUME TxeTypes
    PROVE  /\ Sar \in States
           /\ CurrDatLen \in 0..(BufSize - 1) /\ UsedLength \in 0..(BufSize - 1) /\ UsableWindow \in Nat
           /\ InFlight \in 0..(BufSize - 1)
<1>1. Sar \in States
  BY DEF TxeTypes, Sar
<1>2. Ptr(Sar.unak) \in Int /\ Ptr(Sar.ackd) \in Int /\ Sar.app \in Int /\ Sar.win \in Nat
  BY <1>1, StateFields, PtrRange
<1>3. CurrDatLen \in 0..(BufSize - 1)
  BY <1>2, MinusRange, Sizes DEF CurrDatLen
<1>4. UsedLength \in 0..(BufSize - 1)
  BY <1>2, MinusRange, Sizes DEF UsedLength
<1>5. UsableWindow \in Nat
  BY <1>2, <1>4, Sizes DEF UsableWindow
<1>6. InFlight \in 0..(BufSize - 1)
  <2>1. PICK d : d = Ptr(Sar.ackd) + (IF Sar.finSent THEN 1 ELSE 0)
    OBVIOUS
  <2>2. d \in Int
    BY <1>2, <2>1
  <2> QED
    BY <1>2, <2>1, <2>2, MinusRange, Sizes DEF InFlight
<1> QED
  BY <1>1, <1>3, <1>4, <1>5, <1>6

LEMMA SendTypes ==
    ASSUME TxeTypes, NEW seq \in 0..(SeqMod - 1), NEW n \in 0..(BufSize - 1), NEW fin \in BOOLEAN, Send(seq, n, fin)
    PROVE  hdr' \in Seq(Headers) /\ rdCmd' \in Seq(ReadCommands) /\ timer' \in Timers
<1>1. /\ rdCmd' = IF n = 0 THEN rdCmd ELSE Append(rdCmd, [addr |-> Ptr(seq), len |-> n])
      /\ hdr' = Append(hdr, Header(seq, n, fin))
      /\ timer' = [timer EXCEPT !.active = TRUE]
  BY DEF Send
<1>2. Header(seq, n, fin) \in Headers
  BY DEF Header, Headers
<1>3. hdr' \in Seq(Headers)
  BY <1>1, <1>2, AppendIs, Zenon DEF TxeTypes
<1>4. timer' \in Timers
  BY <1>1 DEF TxeTypes, Timers
<1>5. rdCmd \in Seq(ReadCommands)
  BY DEF TxeTypes, ReadCommands
<1>6. rdCmd' \in Seq(ReadCommands)
  <2>1. CASE n = 0
    BY <1>1, <1>5, <2>1
  <2>2. CASE n # 0
    <3>1. n \in 1..(BufSize - 1) /\ Ptr(seq) \in 0..(BufSize - 1)
      BY <2>2, PtrRange, Sizes
    <3>2. [addr |-> Ptr(seq), len |-> n] \in ReadCommands
      BY <3>1 DEF ReadCommands
    <3> QED
      BY <1>1, <1>5, <2>2, <3>2, AppendIs, Zenon
  <2> QED
    BY <2>1, <2>2
<1> QED
  BY <1>3, <1>4, <1>6

LEMMA SendDataTypes ==
    ASSUME TxeTypes, NEW seq \in 0..(SeqMod - 1), NEW n \in 0..(BufSize - 1), SendData(seq, n)
    PROVE  hdr' \in Seq(Headers) /\ rdCmd' \in Seq(ReadCommands) /\ timer' \in Timers
<1>1. CASE n = 0
  BY <1>1, Zenon DEF SendData, TxeTypes, ReadCommands, Timers
<1>2. CASE n # 0
  <2>1. Send(seq, n, FALSE)
    BY <1>2 DEF SendData
  <2> QED
    BY <2>1, SendTypes, Zenon
<1> QED
  BY <1>1, <1>2

Mdls == [st : {"WAIT_EVENT", "PROCESS_EVENT"}, type : {"TX", "RT", "FIN"}, rt : BOOLEAN, sar : States, count : Nat]

LEMMA TypesSent ==
    ASSUME TxeTypes, hdr' \in Seq(Headers), rdCmd' \in Seq(ReadCommands), timer' \in Timers,
           tst' \in States, mdl' \in Mdls, UNCHANGED <<evq, mrd, rdData, split>>
    PROVE  TxeTypes'
  BY Zenon DEF TxeTypes, ReadCommands, Timers, Mdls

LEMMA NoSarType == NoSar \in States
<1>1. 0 \in 0..(SeqMod - 1) /\ 0 \in 0..(BufSize - 1)
  BY Sizes
<1> QED
  BY <1>1 DEF NoSar, States

LEMMA MdlIdles ==
    ASSUME TxeTypes, NEW m, m = [mdl EXCEPT !.st = "WAIT_EVENT", !.sar = NoSar, !.count = 0]
    PROVE  m \in Mdls /\ m.st = "WAIT_EVENT"
<1>1. mdl \in Mdls
  BY Zenon DEF TxeTypes, Mdls
<1>2. m = [mdl EXCEPT !.st = "WAIT_EVENT", !.sar = NoSar, !.count = 0] /\ NoSar \in States
  BY NoSarType
<1>3. PICK s : s = NoSar
  OBVIOUS
<1>4. m = [mdl EXCEPT !.st = "WAIT_EVENT", !.sar = s, !.count = 0] /\ s \in States
  BY <1>2, <1>3, Zenon
<1>5. m = [st |-> "WAIT_EVENT", type |-> mdl.type, rt |-> mdl.rt, sar |-> s, count |-> 0]
  BY <1>1, <1>4 DEF Mdls
<1>6. mdl.type \in {"TX", "RT", "FIN"} /\ mdl.rt \in BOOLEAN
  BY <1>1 DEF Mdls
<1> QED
  BY <1>4, <1>5, <1>6 DEF Mdls

LEMMA TypesMdlWait ==
    ASSUME TxeTypes, MdlWait
    PROVE  TxeTypes'
<1>1. /\ evq # <<>>
      /\ mdl' = [st |-> "PROCESS_EVENT", type |-> Head(evq), rt |-> Head(evq) = "RT", sar |-> tst, count |-> 0]
      /\ evq' = Tail(evq)
      /\ UNCHANGED <<tst, hdr, rdCmd, mrd, rdData, split, timer>>
  BY Zenon DEF MdlWait
<1>2. evq \in Seq({"TX", "RT", "FIN"}) /\ Len(evq) <= EventDepth /\ tst \in States
  BY DEF TxeTypes
<1>3. Head(evq) \in {"TX", "RT", "FIN"} /\ evq' \in Seq({"TX", "RT", "FIN"}) /\ Len(evq') = Len(evq) - 1 /\ Len(evq) \in Nat
  <2>1. PICK T : T = {"TX", "RT", "FIN"}
    OBVIOUS
  <2>2. evq \in Seq(T)
    BY <1>2, <2>1
  <2>3. Head(evq) \in T /\ evq' \in Seq(T) /\ Len(evq') = Len(evq) - 1 /\ Len(evq) \in Nat
    BY <1>1, <2>2, HeadTail, Zenon
  <2> QED
    BY <2>1, <2>3, Zenon
<1>4. Len(evq') <= EventDepth
  BY <1>2, <1>3, Sizes
<1>5. mdl' \in Mdls
  BY <1>1, <1>2, <1>3 DEF Mdls
<1> QED
  BY <1>1, <1>3, <1>4, <1>5, Zenon DEF TxeTypes, Mdls

LEMMA TypesTxFragment ==
    ASSUME TxeTypes, TxFragment, UNCHANGED <<evq, mrd, rdData, split>>
    PROVE  TxeTypes'
<1>1. /\ Mss < CurrDatLen \/ CurrDatLen > UsableWindow
      /\ CurrDatLen > UsableWindow => UsableWindow >= Mss
      /\ SendData(Sar.unak, Mss)
      /\ mdl' = [mdl EXCEPT !.sar.unak = Plus(@, Mss)]
      /\ UNCHANGED tst
  BY DEF TxFragment
<1>2. Sar \in States /\ CurrDatLen \in 0..(BufSize - 1) /\ UsableWindow \in Nat
  BY MdlNumbers
<1>3. Mss \in 0..(BufSize - 1)
  BY <1>1, <1>2, Sizes
<1>4. hdr' \in Seq(Headers) /\ rdCmd' \in Seq(ReadCommands) /\ timer' \in Timers
  BY <1>1, <1>2, <1>3, StateFields, SendDataTypes, Zenon
<1>5. mdl' \in Mdls
  <2>1. PICK u, s : u = Plus(Sar.unak, Mss) /\ s = [Sar EXCEPT !.unak = u]
    OBVIOUS
  <2>2. u \in 0..(SeqMod - 1)
    BY <1>2, <2>1, StateFields, PlusRange, Sizes
  <2>3. s \in States
    BY <1>2, <2>1, <2>2 DEF States
  <2>4. mdl' = [mdl EXCEPT !.sar = s]
    BY <1>1, <2>1, Zenon DEF Sar
  <2>5. mdl \in Mdls
    BY Zenon DEF TxeTypes, Mdls
  <2> QED
    BY <2>3, <2>4, <2>5 DEF Mdls
<1>6. tst' \in States
  BY <1>1 DEF TxeTypes
<1> QED
  BY <1>4, <1>5, <1>6, TypesSent, Zenon

\* The length of the last segment.
LastLength == IF FinDue THEN 0 ELSE IF CurrDatLen <= UsableWindow THEN CurrDatLen ELSE UsableWindow

LEMMA TxLastIs ==
    ASSUME TxLast
    PROVE  /\ IF CurrDatLen <= UsableWindow THEN CurrDatLen <= Mss ELSE UsableWindow < Mss
           /\ SendData(Sar.unak, LastLength)
           /\ tst' = [tst EXCEPT !.unak = Plus(Sar.unak, LastLength)]
           /\ mdl' = IF FinDue THEN [mdl EXCEPT !.type = "FIN"]
                     ELSE [mdl EXCEPT !.st = "WAIT_EVENT", !.sar = NoSar, !.count = 0]
  BY Zenon DEF TxLast, LastLength

LEMMA TypesTxLast ==
    ASSUME TxeTypes, TxLast, UNCHANGED <<evq, mrd, rdData, split>>
    PROVE  TxeTypes'
<1>1. /\ SendData(Sar.unak, LastLength)
      /\ tst' = [tst EXCEPT !.unak = Plus(Sar.unak, LastLength)]
      /\ mdl' = IF FinDue THEN [mdl EXCEPT !.type = "FIN"]
                ELSE [mdl EXCEPT !.st = "WAIT_EVENT", !.sar = NoSar, !.count = 0]
  BY TxLastIs, Zenon
<1>2. Sar \in States /\ CurrDatLen \in 0..(BufSize - 1) /\ UsableWindow \in Nat
  BY MdlNumbers
<1>3. LastLength \in 0..(BufSize - 1)
  BY <1>2, Sizes DEF LastLength
<1>4. hdr' \in Seq(Headers) /\ rdCmd' \in Seq(ReadCommands) /\ timer' \in Timers
  BY <1>1, <1>2, <1>3, StateFields, SendDataTypes, Zenon
<1>5. tst' \in States
  <2>1. PICK u : u = Plus(Sar.unak, LastLength)
    OBVIOUS
  <2>2. u \in 0..(SeqMod - 1)
    <3>1. Sar.unak \in Int /\ LastLength \in Int
      BY <1>2, <1>3, StateFields, Sizes
    <3> QED
      BY <2>1, <3>1, PlusRange, Zenon
  <2>3. tst' = [tst EXCEPT !.unak = u] /\ tst \in States
    BY <1>1, <2>1 DEF TxeTypes
  <2> QED
    BY <2>2, <2>3 DEF States
<1>6. mdl' \in Mdls
  <2>1. mdl \in Mdls
    BY Zenon DEF TxeTypes, Mdls
  <2>2. [mdl EXCEPT !.type = "FIN"] \in Mdls
    BY <2>1 DEF Mdls
  <2>3. [mdl EXCEPT !.st = "WAIT_EVENT", !.sar = NoSar, !.count = 0] \in Mdls
    BY MdlIdles, Zenon
  <2> QED
    BY <1>1, <2>2, <2>3, Zenon
<1> QED
  BY <1>4, <1>5, <1>6, TypesSent, Zenon

LEMMA TypesMdlRt ==
    ASSUME TxeTypes, MdlRt
    PROVE  TxeTypes'
<1>1. /\ \/ /\ InFlight > Mss
            /\ SendData(Sar.ackd, Mss)
            /\ mdl' = [mdl EXCEPT !.sar.ackd = Plus(@, Mss), !.count = (@ + 1) % 4,
                                  !.st = IF mdl.count = 3 THEN "WAIT_EVENT" ELSE @]
         \/ /\ InFlight <= Mss
            /\ SendData(Sar.ackd, InFlight)
            /\ mdl' = IF Sar.finSent THEN [mdl EXCEPT !.type = "FIN"]
                      ELSE [mdl EXCEPT !.st = "WAIT_EVENT", !.sar = NoSar, !.count = 0]
      /\ UNCHANGED <<tst, evq, mrd, rdData, split>>
  BY Zenon DEF MdlRt
<1>2. Sar \in States /\ InFlight \in 0..(BufSize - 1) /\ Sar.ackd \in 0..(SeqMod - 1) /\ mdl \in Mdls
  <2>1. mdl \in Mdls
    BY Zenon DEF TxeTypes, Mdls
  <2> QED
    BY <2>1, MdlNumbers, StateFields, Zenon
<1>3. tst' \in States
  BY <1>1 DEF TxeTypes
<1>4. CASE /\ InFlight > Mss
           /\ SendData(Sar.ackd, Mss)
           /\ mdl' = [mdl EXCEPT !.sar.ackd = Plus(@, Mss), !.count = (@ + 1) % 4,
                                 !.st = IF mdl.count = 3 THEN "WAIT_EVENT" ELSE @]
  <2>1. Mss \in 0..(BufSize - 1)
    BY <1>2, <1>4, Sizes
  <2>2. hdr' \in Seq(Headers) /\ rdCmd' \in Seq(ReadCommands) /\ timer' \in Timers
    BY <1>2, <1>4, <2>1, SendDataTypes, Zenon
  <2>3. PICK u, s, k, t : u = Plus(Sar.ackd, Mss) /\ s = [Sar EXCEPT !.ackd = u] /\ k = (mdl.count + 1) % 4
                          /\ t = IF mdl.count = 3 THEN "WAIT_EVENT" ELSE mdl.st
    OBVIOUS
  <2>4. u \in 0..(SeqMod - 1)
    BY <1>2, <2>3, StateFields, PlusRange, Sizes
  <2>5. s \in States
    BY <1>2, <2>3, <2>4 DEF States
  <2>6. k \in Nat
    <3>1. mdl.count \in Nat
      BY <1>2 DEF Mdls
    <3> QED
      BY <2>3, <3>1
  <2>7. mdl' = [mdl EXCEPT !.sar = s, !.count = k, !.st = t]
    BY <1>4, <2>3, Zenon DEF Sar
  <2>8. t \in {"WAIT_EVENT", "PROCESS_EVENT"}
    BY <1>2, <2>3 DEF Mdls
  <2>9. mdl' \in Mdls
    BY <1>2, <2>5, <2>6, <2>7, <2>8 DEF Mdls
  <2> QED
    BY <1>1, <1>3, <2>2, <2>9, TypesSent, Zenon
<1>5. CASE /\ InFlight <= Mss
           /\ SendData(Sar.ackd, InFlight)
           /\ mdl' = IF Sar.finSent THEN [mdl EXCEPT !.type = "FIN"]
                     ELSE [mdl EXCEPT !.st = "WAIT_EVENT", !.sar = NoSar, !.count = 0]
  <2>1. hdr' \in Seq(Headers) /\ rdCmd' \in Seq(ReadCommands) /\ timer' \in Timers
    BY <1>2, <1>5, SendDataTypes, Zenon
  <2>2. [mdl EXCEPT !.type = "FIN"] \in Mdls
    BY <1>2 DEF Mdls
  <2>3. [mdl EXCEPT !.st = "WAIT_EVENT", !.sar = NoSar, !.count = 0] \in Mdls
    BY MdlIdles, Zenon
  <2>4. mdl' \in Mdls
    BY <1>5, <2>2, <2>3, Zenon
  <2> QED
    BY <1>1, <1>3, <2>1, <2>4, TypesSent, Zenon
<1> QED
  BY <1>1, <1>4, <1>5, Zenon

LEMMA TypesMdlFin ==
    ASSUME TxeTypes, MdlFin
    PROVE  TxeTypes'
<1> DEFINE seq == IF mdl.rt THEN Minus(Sar.unak, 1, SeqMod) ELSE Sar.unak
<1>1. /\ tst' = IF mdl.rt THEN tst
                ELSE IF Sar.app = Ptr(Sar.unak) THEN [tst EXCEPT !.unak = Plus(Sar.unak, 1), !.finReady = TRUE, !.finSent = TRUE]
                ELSE [tst EXCEPT !.unak = Sar.unak, !.finReady = TRUE]
      /\ Send(seq, 0, TRUE) \/ UNCHANGED <<hdr, rdCmd, timer>>
      /\ mdl' = [mdl EXCEPT !.st = "WAIT_EVENT", !.sar = NoSar, !.count = 0]
      /\ UNCHANGED <<evq, mrd, rdData, split>>
  BY Zenon DEF MdlFin
<1>2. Sar \in States /\ Sar.unak \in 0..(SeqMod - 1) /\ Sar.unak \in Int
  BY MdlNumbers, StateFields, Zenon
<1>3. seq \in 0..(SeqMod - 1) /\ 0 \in 0..(BufSize - 1)
  <2>1. 1 \in Int /\ SeqMod \in Nat \ {0} /\ 0 \in 0..(BufSize - 1)
    BY Sizes
  <2>2. Minus(Sar.unak, 1, SeqMod) \in 0..(SeqMod - 1)
    BY <1>2, <2>1, MinusRange, Zenon
  <2> QED
    BY <1>2, <2>1, <2>2, Zenon
<1>4. hdr' \in Seq(Headers) /\ rdCmd' \in Seq(ReadCommands) /\ timer' \in Timers
  <2>1. CASE Send(seq, 0, TRUE)
    <3> HIDE DEF seq
    <3> QED
      BY <1>3, <2>1, SendTypes, Zenon
  <2>2. CASE UNCHANGED <<hdr, rdCmd, timer>>
    BY <2>2, Zenon DEF TxeTypes, ReadCommands, Timers
  <2> QED
    BY <1>1, <2>1, <2>2
<1>5. mdl' \in Mdls
  BY <1>1, MdlIdles, Zenon
<1>6. tst' \in States
  <2>1. PICK u, v : u = Plus(Sar.unak, 1) /\ v = Sar.unak
    OBVIOUS
  <2>2. u \in 0..(SeqMod - 1) /\ v \in 0..(SeqMod - 1)
    <3>1. 1 \in Int
      OBVIOUS
    <3> QED
      BY <1>2, <2>1, <3>1, PlusRange, Zenon
  <2>3. tst' = tst \/ tst' = [tst EXCEPT !.unak = u, !.finReady = TRUE, !.finSent = TRUE]
        \/ tst' = [tst EXCEPT !.unak = v, !.finReady = TRUE]
    BY <1>1, <2>1, Zenon
  <2>4. tst \in States
    BY DEF TxeTypes
  <2> QED
    BY <2>2, <2>3, <2>4 DEF States
<1> QED
  BY <1>1, <1>4, <1>5, <1>6, TypesSent, Zenon

----------------------------------------------------------------------------
(* Types: Mrd and Tss, and which payload belongs to which header *)

Busy == IF split = <<>> THEN 0 ELSE 1
\* c[i] of the first i headers have a payload; the payloads are asked for in that order.
Numbered(c) ==
    /\ c \in [0..Len(hdr) -> Nat] /\ c[0] = 0 /\ c[Len(hdr)] = Busy + Len(rdCmd)
    /\ \A i \in 0..Len(hdr), j \in 0..Len(hdr) : i <= j => c[i] <= c[j]
    /\ \A i \in 1..Len(hdr) :
          /\ hdr[i].len = 0 => c[i] = c[i - 1]
          /\ hdr[i].len # 0 =>
                /\ c[i] = c[i - 1] + 1
                /\ c[i] = Busy => Bytes(rdData, hdr[i].len - mrd.len)
                /\ c[i] > Busy => rdCmd[c[i] - Busy] = [addr |-> Ptr(hdr[i].seq), len |-> hdr[i].len]
ReadLine ==
    /\ Len(split) <= 1 /\ (split = <<>> => rdData = <<>> /\ mrd.len = 0) /\ (split # <<>> => rdData # <<>>)
    /\ \E c : Numbered(c)

LEMMA MemChunksAre ==
    ASSUME mem \in [0..(BufSize - 1) -> Nat], NEW a \in Nat, NEW n \in Nat \ {0}
    PROVE  /\ MemChunks(a, n) \in Seq(ChunkSet(Nat)) /\ MemChunks(a, n) # <<>>
           /\ \A i \in 1..Len(MemChunks(a, n)) : Len(MemChunks(a, n)[i].bytes) \in 1..Chunk
           /\ Bytes(MemChunks(a, n), n)
<1> DEFINE f == [i \in 1..n |-> mem[(a + i - 1) % BufSize]]
<1>1. f \in [1..n -> Nat]
  <2>1. ASSUME NEW i \in 1..n
        PROVE  mem[(a + i - 1) % BufSize] \in Nat
    <3>1. PICK x : x = a + i - 1
      OBVIOUS
    <3>2. x \in Int
      BY <3>1
    <3>3. x % BufSize \in 0..(BufSize - 1)
      BY <3>2, DivMod, Sizes
    <3> QED
      BY <3>1, <3>3
  <2> QED
    BY <2>1
<1>2. PICK c : c = Chunks(f, n)
  OBVIOUS
<1>3. MemChunks(a, n) = c
  BY <1>2 DEF MemChunks
<1> HIDE DEF f
<1>4. ChunksOf(c, f, n, Nat) /\ Bytes(c, n)
  BY <1>1, <1>2, ChunksAt, ChunksBytes, Zenon
<1>5. c \in Seq(ChunkSet(Nat)) /\ Len(c) = Count(n)
      /\ \A i \in 1 .. Count(n) : Len(c[i].bytes) = End(n, i) - (i - 1) * Chunk
            /\ (i - 1) * Chunk \in Nat /\ End(n, i) \in Nat
            /\ (i - 1) * Chunk < End(n, i) /\ End(n, i) - (i - 1) * Chunk <= Chunk
  BY <1>4, Zenon DEF ChunksOf, ChunkSet
<1>6. \A i \in 1 .. Len(c) : Len(c[i].bytes) \in 1..Chunk
  <2> TAKE i \in 1 .. Len(c)
  <2>1. PICK u, v : u = (i - 1) * Chunk /\ v = End(n, i)
    OBVIOUS
  <2>2. Len(c[i].bytes) = v - u /\ u \in Nat /\ v \in Nat /\ u < v /\ v - u <= Chunk
    BY <1>5, <2>1, Zenon
  <2> QED
    BY <2>2, Sizes
<1>7. Count(n) \in Nat \ {0}
  BY CountIs
<1>8. c # <<>>
  BY <1>5, <1>7
<1> QED
  BY <1>3, <1>4, <1>5, <1>6, <1>8, Zenon

LEMMA SeqConcat ==
    ASSUME NEW s \in Seq(ChunkSet(Nat)), NEW t \in Seq(ChunkSet(Nat)),
           \A i \in 1..Len(s) : Len(s[i].bytes) \in 1..Chunk,
           \A i \in 1..Len(t) : Len(t[i].bytes) \in 1..Chunk
    PROVE  /\ s \o t \in Seq(ChunkSet(Nat))
           /\ \A i \in 1..Len(s \o t) : Len((s \o t)[i].bytes) \in 1..Chunk
<1>1. PICK u : u = s \o t
  OBVIOUS
<1>2. u \in Seq(ChunkSet(Nat)) /\ Len(u) = Len(s) + Len(t) /\ Len(s) \in Nat /\ Len(t) \in Nat
      /\ \A i \in 1..Len(u) : u[i] = IF i <= Len(s) THEN s[i] ELSE t[i - Len(s)]
  BY <1>1
<1>3. ASSUME NEW i \in 1..Len(u)
      PROVE  Len(u[i].bytes) \in 1..Chunk
  <2>1. CASE i <= Len(s)
    <3>1. i \in 1..Len(s) /\ u[i] = s[i]
      BY <1>2, <2>1
    <3> QED
      BY <3>1
  <2>2. CASE ~(i <= Len(s))
    <3>1. PICK j : j = i - Len(s)
      OBVIOUS
    <3>2. j \in 1..Len(t) /\ u[i] = t[j]
      BY <1>2, <2>2, <3>1
    <3> QED
      BY <3>2
  <2> QED
    BY <2>1, <2>2
<1> QED
  BY <1>1, <1>2, <1>3, Zenon

\* What a read access of Mrd is about.
FirstLength(c) == IF Wraps(c.addr, c.len) THEN BufSize - c.addr ELSE c.len
MrdFirstDoes(c, n) ==
    /\ mrd.len = 0 /\ rdCmd # <<>> /\ rdData = <<>>
    /\ c = Head(rdCmd) /\ c \in ReadCommands
    /\ n \in 1..(BufSize - 1) \cup {BufSize} /\ n <= c.len
    /\ rdData' = MemChunks(c.addr, n)
    /\ split' = Append(split, Wraps(c.addr, c.len)) /\ Wraps(c.addr, c.len) \in BOOLEAN
    /\ mrd' = [addr |-> 0, len |-> c.len - n]
    /\ rdCmd' = Tail(rdCmd)
    /\ UNCHANGED <<tst, evq, mdl, hdr, timer>>

LEMMA MrdFirstIs ==
    ASSUME TxeTypes, WrTypes, MrdFirst
    PROVE  \E c, n : MrdFirstDoes(c, n)
<1>1. PICK c, n : c = Head(rdCmd) /\ n = FirstLength(c)
  OBVIOUS
<1>2. /\ mrd.len = 0 /\ rdCmd # <<>> /\ rdData = <<>>
      /\ rdData' = rdData \o MemChunks(c.addr, n)
      /\ split' = Append(split, Wraps(c.addr, c.len))
      /\ mrd' = [addr |-> 0, len |-> c.len - n]
      /\ rdCmd' = Tail(rdCmd)
      /\ UNCHANGED <<tst, evq, mdl, hdr, timer>>
  BY <1>1, Zenon DEF MrdFirst, FirstLength
<1>3. c \in ReadCommands
  <2>1. rdCmd \in Seq(ReadCommands)
    BY DEF TxeTypes, ReadCommands
  <2> QED
    BY <1>1, <1>2, <2>1, HeadTail, Zenon
<1>4. c.addr \in 0..(BufSize - 1) /\ c.len \in 1..(BufSize - 1)
  BY <1>3 DEF ReadCommands
<1>5. n \in 1..(BufSize - 1) \cup {BufSize} /\ n <= c.len /\ n \in Nat \ {0}
  BY <1>1, <1>4, Sizes DEF FirstLength, Wraps
<1>6. Wraps(c.addr, c.len) \in BOOLEAN
  BY <1>4, Sizes DEF Wraps
<1>7. rdData' = MemChunks(c.addr, n)
  <2>1. PICK t : t = MemChunks(c.addr, n)
    OBVIOUS
  <2>2. t \in Seq(ChunkSet(Nat))
    <3>1. mem \in [0..(BufSize - 1) -> Nat] /\ c.addr \in Nat
      BY SMTT(40), <1>4, Sizes DEF WrTypes
    <3> QED
      BY <1>5, <2>1, <3>1, MemChunksAre, Zenon
  <2>3. <<>> \o t = t
    BY <2>2
  <2> QED
    BY <1>2, <2>1, <2>3
<1> QED
  BY <1>1, <1>2, <1>3, <1>5, <1>6, <1>7, Zenon DEF MrdFirstDoes

LEMMA TypesMrdFirst ==
    ASSUME TxeTypes, WrTypes, MrdFirst
    PROVE  TxeTypes'
<1>1. PICK c, n : MrdFirstDoes(c, n)
  BY MrdFirstIs, Zenon
<1>2. /\ rdCmd # <<>> /\ c \in ReadCommands /\ n \in 1..(BufSize - 1) \cup {BufSize} /\ n <= c.len
      /\ rdData' = MemChunks(c.addr, n)
      /\ split' = Append(split, Wraps(c.addr, c.len)) /\ Wraps(c.addr, c.len) \in BOOLEAN
      /\ mrd' = [addr |-> 0, len |-> c.len - n]
      /\ rdCmd' = Tail(rdCmd)
      /\ UNCHANGED <<tst, evq, mdl, hdr, timer>>
  BY <1>1, Zenon DEF MrdFirstDoes
<1>3. c.addr \in Nat /\ n \in Nat \ {0} /\ c.len - n \in 0..(BufSize - 1)
  BY <1>2, Sizes DEF ReadCommands
<1>4. mem \in [0..(BufSize - 1) -> Nat]
  BY DEF WrTypes
<1>5. rdData' \in Seq(ChunkSet(Nat)) /\ \A i \in 1..Len(rdData') : Len(rdData'[i].bytes) \in 1..Chunk
  BY <1>2, <1>3, <1>4, MemChunksAre, Zenon
<1>6. rdCmd \in Seq(ReadCommands) /\ split \in Seq(BOOLEAN)
  BY DEF TxeTypes, ReadCommands
<1>7. rdCmd' \in Seq(ReadCommands) /\ split' \in Seq(BOOLEAN)
  BY <1>2, <1>6, HeadTail, AppendIs, Zenon
<1>8. mrd' \in [addr : {0}, len : 0..(BufSize - 1)]
  BY <1>2, <1>3
<1> QED
  BY <1>2, <1>5, <1>7, <1>8, Zenon DEF TxeTypes, ReadCommands

LEMMA TypesMrdSecond ==
    ASSUME TxeTypes, WrTypes, MrdSecond
    PROVE  TxeTypes'
<1>1. /\ mrd.len # 0
      /\ rdData' = rdData \o MemChunks(mrd.addr, mrd.len)
      /\ mrd' = [mrd EXCEPT !.len = 0]
      /\ UNCHANGED <<tst, evq, mdl, hdr, rdCmd, split, timer>>
  BY Zenon DEF MrdSecond
<1>2. mrd.addr \in Nat /\ mrd.len \in Nat \ {0}
  <2>1. mrd \in [addr : {0}, len : 0..(BufSize - 1)]
    BY DEF TxeTypes
  <2>2. mrd.addr = 0 /\ mrd.len \in 0..(BufSize - 1)
    BY <2>1
  <2> QED
    BY <1>1, <2>2, Sizes
<1>3. mem \in [0..(BufSize - 1) -> Nat]
  BY DEF WrTypes
<1>4. rdData \in Seq(ChunkSet(Nat)) /\ \A i \in 1..Len(rdData) : Len(rdData[i].bytes) \in 1..Chunk
  BY DEF TxeTypes
<1>5. rdData' \in Seq(ChunkSet(Nat)) /\ \A i \in 1..Len(rdData') : Len(rdData'[i].bytes) \in 1..Chunk
  <2>1. PICK t : t = MemChunks(mrd.addr, mrd.len)
    OBVIOUS
  <2>2. t \in Seq(ChunkSet(Nat)) /\ \A i \in 1..Len(t) : Len(t[i].bytes) \in 1..Chunk
    BY <1>2, <1>3, <2>1, MemChunksAre, Zenon
  <2> QED
    BY <1>1, <1>4, <2>1, <2>2, SeqConcat, Zenon
<1>6. mrd' \in [addr : {0}, len : 0..(BufSize - 1)]
  <2>1. mrd \in [addr : {0}, len : 0..(BufSize - 1)] /\ 0 \in 0..(BufSize - 1)
    BY Sizes DEF TxeTypes
  <2> QED
    BY <1>1, <2>1
<1> QED
  BY <1>1, <1>5, <1>6, Zenon DEF TxeTypes

LEMMA TypesTssHeader ==
    ASSUME TxeTypes, NetTypes, TssHeader
    PROVE  TxeTypes' /\ NetTypes'
<1>1. /\ hdr # <<>>
      /\ wire' = Append(wire, [hdr |-> <<Head(hdr)>>, bytes |-> <<>>])
      /\ hdr' = Tail(hdr)
      /\ UNCHANGED <<tst, evq, mdl, rdCmd, mrd, rdData, split, timer>>
      /\ UNCHANGED <<acks, rxe, peer, losses>>
  BY Zenon DEF TssHeader
<1>2. hdr \in Seq(Headers) /\ wire \in Seq(WireFrames)
  BY DEF TxeTypes, NetTypes
<1>3. Head(hdr) \in Headers /\ hdr' \in Seq(Headers)
  BY <1>1, <1>2, HeadTail, Zenon
<1>4. [hdr |-> <<Head(hdr)>>, bytes |-> <<>>] \in WireFrames
  <2>1. PICK h : h = Head(hdr)
    OBVIOUS
  <2>2. <<h>> \in {<<g>> : g \in Headers}
    BY <1>3, <2>1
  <2>3. <<>> \in Seq(Nat)
    OBVIOUS
  <2> QED
    BY <2>1, <2>2, <2>3 DEF WireFrames
<1>5. wire' \in Seq(WireFrames)
  BY <1>1, <1>2, <1>4, AppendIs, Zenon
<1> QED
  BY <1>1, <1>3, <1>5, Zenon DEF TxeTypes, NetTypes

\* The payload at Tss belongs to the first header.
LEMMA FirstPayload ==
    ASSUME TxeTypes, ReadLine, hdr # <<>>, Head(hdr).len # 0, rdData # <<>>, mrd.len = 0
    PROVE  /\ split # <<>> /\ Head(split) \in BOOLEAN /\ Tail(split) = <<>>
           /\ Head(hdr).len \in Nat /\ Bytes(rdData, Head(hdr).len)
<1>1. split # <<>> /\ Len(split) <= 1 /\ split \in Seq(BOOLEAN)
  BY DEF ReadLine, TxeTypes
<1>2. Head(split) \in BOOLEAN /\ Tail(split) = <<>>
  <2>1. Head(split) \in BOOLEAN /\ Tail(split) \in Seq(BOOLEAN) /\ Len(Tail(split)) = Len(split) - 1
        /\ Len(split) \in Nat \ {0}
    BY <1>1, HeadTail, Zenon
  <2>2. PICK t : t = Tail(split)
    OBVIOUS
  <2>3. t \in Seq(BOOLEAN) /\ Len(t) = 0
    BY <1>1, <2>1, <2>2
  <2>4. t = <<>>
    BY <2>3
  <2> QED
    BY <2>1, <2>2, <2>4, Zenon
<1>3. Busy = 1
  BY <1>1 DEF Busy
<1>4. PICK c : Numbered(c)
  BY DEF ReadLine
<1>5. hdr \in Seq(Headers)
  BY DEF TxeTypes
<1>6. Head(hdr) = hdr[1] /\ Head(hdr) \in Headers /\ 1 \in 1..Len(hdr)
  <2>1. Head(hdr) \in Headers /\ Head(hdr) = hdr[1] /\ Len(hdr) \in Nat \ {0}
    BY <1>5, HeadTail, Zenon
  <2> QED
    BY <2>1
<1>7. /\ c[0] = 0
      /\ \A i \in 1..Len(hdr) : hdr[i].len # 0 =>
            /\ c[i] = c[i - 1] + 1
            /\ c[i] = Busy => Bytes(rdData, hdr[i].len - mrd.len)
  BY <1>4, Zenon DEF Numbered
<1>8. c[1] = c[1 - 1] + 1 /\ (c[1] = Busy => Bytes(rdData, hdr[1].len - mrd.len))
  <2>1. hdr[1].len # 0
    BY <1>6
  <2> QED
    BY <1>6, <1>7, <2>1, Zenon
<1>9. c[1] = Busy
  BY <1>3, <1>7, <1>8
<1>10. Head(hdr).len \in Nat
  BY <1>6, Sizes DEF Headers
<1>11. hdr[1].len - mrd.len = Head(hdr).len
  BY <1>6, <1>10
<1>12. Bytes(rdData, Head(hdr).len)
  BY <1>8, <1>9, <1>11, Zenon
<1> QED
  BY <1>1, <1>2, <1>10, <1>12

TssSegmentDoes(h, s, f) ==
    /\ hdr # <<>> /\ h = Head(hdr) /\ h \in Headers /\ h.len # 0 /\ h.len \in Nat
    /\ rdData # <<>> /\ mrd.len = 0 /\ split # <<>> /\ s = Head(split) /\ s \in BOOLEAN /\ Tail(split) = <<>>
    /\ Bytes(rdData, h.len)
    /\ f = Frames(h, rdData, s) /\ f \in Seq(WireFrames)
    /\ \A k \in 1..Len(f) : f[k].hdr \in {<<>>, <<h>>} /\ Size(f[k]) <= h.len
    /\ wire' = wire \o f
    /\ hdr' = Tail(hdr) /\ rdData' = <<>> /\ split' = <<>>
    /\ UNCHANGED <<tst, evq, mdl, rdCmd, mrd, timer>>
    /\ UNCHANGED <<acks, rxe, peer, losses>>

LEMMA TssSegmentIs ==
    ASSUME TxeTypes, ReadLine, TssSegment
    PROVE  \E h, s, f : TssSegmentDoes(h, s, f)
<1>1. PICK h, s, f : h = Head(hdr) /\ s = Head(split) /\ f = Frames(h, rdData, s)
  OBVIOUS
<1>2. /\ hdr # <<>> /\ h.len # 0
      /\ rdData # <<>> /\ mrd.len = 0
      /\ wire' = wire \o f
      /\ hdr' = Tail(hdr) /\ rdData' = <<>> /\ split' = Tail(split)
      /\ UNCHANGED <<tst, evq, mdl, rdCmd, mrd, timer>>
      /\ UNCHANGED <<acks, rxe, peer, losses>>
  BY <1>1, Zenon DEF TssSegment
<1>3. /\ split # <<>> /\ s \in BOOLEAN /\ Tail(split) = <<>>
      /\ h.len \in Nat /\ Bytes(rdData, h.len)
  BY <1>1, <1>2, FirstPayload, Zenon
<1>4. h \in Headers
  BY <1>1, <1>2, HeadTail, Zenon DEF TxeTypes
<1>5. PICK n : n = h.len
  OBVIOUS
<1>6. f \in Seq(Pieces(h, Nat)) /\ \A k \in DOMAIN f : Size(f[k]) <= n
  <2>1. rdData \in Seq(ChunkSet(Nat)) /\ n \in Nat /\ Bytes(rdData, n)
    BY <1>3, <1>5 DEF TxeTypes
  <2> QED
    BY <1>1, <1>3, <2>1, FramesLight, Zenon
<1>7. \A k \in 1..Len(f) : f[k] \in Pieces(h, Nat) /\ Size(f[k]) <= n
  BY <1>6
<1>8. Pieces(h, Nat) \subseteq WireFrames
  <2>1. {<<>>, <<h>>} \subseteq {<<>>} \cup {<<g>> : g \in Headers}
    BY <1>4
  <2> QED
    BY <2>1 DEF Pieces, WireFrames
<1>9. f \in Seq(WireFrames)
  BY <1>6, <1>8
<1>10. \A k \in 1..Len(f) : f[k].hdr \in {<<>>, <<h>>} /\ Size(f[k]) <= h.len
  BY <1>5, <1>7 DEF Pieces
<1> QED
  BY <1>1, <1>2, <1>3, <1>4, <1>9, <1>10, Zenon DEF TssSegmentDoes

LEMMA TypesTssSegment ==
    ASSUME TxeTypes, NetTypes, ReadLine, TssSegment
    PROVE  TxeTypes' /\ NetTypes'
<1>1. PICK h, s, f : TssSegmentDoes(h, s, f)
  BY TssSegmentIs, Zenon
<1>2. /\ hdr # <<>> /\ f \in Seq(WireFrames) /\ wire' = wire \o f
      /\ hdr' = Tail(hdr) /\ rdData' = <<>> /\ split' = <<>>
      /\ UNCHANGED <<tst, evq, mdl, rdCmd, mrd, timer>>
      /\ UNCHANGED <<acks, rxe, peer, losses>>
  BY <1>1, Zenon DEF TssSegmentDoes
<1>3. hdr' \in Seq(Headers)
  BY <1>2, HeadTail, Zenon DEF TxeTypes
<1>4. wire' \in Seq(WireFrames)
  <2>1. wire \in Seq(WireFrames)
    BY DEF NetTypes
  <2> QED
    BY <1>2, <2>1
<1>5. rdData' \in Seq(ChunkSet(Nat)) /\ \A i \in 1..Len(rdData') : Len(rdData'[i].bytes) \in 1..Chunk
  BY <1>2
<1>6. split' \in Seq(BOOLEAN)
  BY <1>2
<1> QED
  BY <1>2, <1>3, <1>4, <1>5, <1>6, Zenon DEF TxeTypes, NetTypes

----------------------------------------------------------------------------
(* Types: RXe, TIm and the peer *)

LEMMA TypesRxeLoad ==
    ASSUME NetTypes, TxeTypes, RxeLoad
    PROVE  NetTypes'
<1>1. /\ acks # <<>>
      /\ rxe' = [st |-> "TRANSITION", ack |-> Head(acks).ack, win |-> Head(acks).win, ackd |-> tst.ackd, unak |-> tst.unak]
      /\ acks' = Tail(acks)
      /\ UNCHANGED <<wire, peer, losses>>
  BY Zenon DEF RxeLoad
<1>2. Head(acks) \in Acks /\ acks' \in Seq(Acks)
  BY <1>1, HeadTail, Zenon DEF NetTypes
<1>3. tst.ackd \in 0..(SeqMod - 1) /\ tst.unak \in 0..(SeqMod - 1)
  BY StateFields, Zenon DEF TxeTypes
<1>4. Head(acks).ack \in 0..(SeqMod - 1) /\ Head(acks).win \in Nat
  BY <1>2 DEF Acks
<1>5. rxe' \in [st : {"LOAD", "TRANSITION"}, ack : 0..(SeqMod - 1), win : Nat, ackd : 0..(SeqMod - 1), unak : 0..(SeqMod - 1)]
  BY <1>1, <1>3, <1>4
<1> QED
  BY <1>1, <1>2, <1>5, Zenon DEF NetTypes

LEMMA TypesRxeTransition ==
    ASSUME NetTypes, TxeTypes, TaiTypes, RxeTransition
    PROVE  NetTypes' /\ TxeTypes' /\ TaiTypes'
<1>1. /\ timer' = [timer EXCEPT !.active = @ /\ ~StopsTimer]
      /\ \/ tst' = [tst EXCEPT !.ackd = rxe.ack, !.win = rxe.win] /\ push' = Append(push, Ptr(rxe.ack))
         \/ UNCHANGED <<tst, push>>
      /\ rxe' = [st |-> "LOAD", ack |-> 0, win |-> 0, ackd |-> 0, unak |-> 0]
      /\ UNCHANGED <<wire, acks, peer, losses>>
      /\ UNCHANGED <<evq, mdl, hdr, rdCmd, mrd, rdData, split>>
      /\ UNCHANGED <<app, data, sml, tat, meta, smlEv, tacEv, emxEv, tash>>
  BY Zenon DEF RxeTransition, net, txe, tai
<1>2. rxe.ack \in 0..(SeqMod - 1) /\ rxe.win \in Nat /\ rxe.ack \in Int
  BY Sizes DEF NetTypes
<1>3. tst \in States /\ timer \in Timers
  BY DEF TxeTypes, Timers
<1>4. tst' \in States
  <2>1. CASE tst' = tst
    BY <1>3, <2>1
  <2>2. CASE tst' = [tst EXCEPT !.ackd = rxe.ack, !.win = rxe.win]
    <3>1. PICK a, v : a = rxe.ack /\ v = rxe.win
      OBVIOUS
    <3>2. tst' = [tst EXCEPT !.ackd = a, !.win = v] /\ a \in 0..(SeqMod - 1) /\ v \in Nat
      BY <1>2, <2>2, <3>1
    <3> QED
      BY <1>3, <3>2 DEF States
  <2> QED
    BY <1>1, <2>1, <2>2
<1>5. timer' \in Timers
  <2>1. PICK e : e = (timer.active /\ ~StopsTimer)
    OBVIOUS
  <2>2. e \in BOOLEAN
    BY <2>1, Zenon
  <2>3. timer' = [timer EXCEPT !.active = e]
    BY <1>1, <2>1, Zenon
  <2> QED
    BY <1>3, <2>2, <2>3 DEF Timers
<1>6. push' \in Seq(0..(BufSize - 1))
  <2>1. push \in Seq(0..(BufSize - 1)) /\ Ptr(rxe.ack) \in 0..(BufSize - 1)
    BY <1>2, PtrRange, Zenon DEF TaiTypes
  <2>2. push' = push \/ push' = Append(push, Ptr(rxe.ack))
    BY <1>1
  <2>3. Append(push, Ptr(rxe.ack)) \in Seq(0..(BufSize - 1))
    BY <2>1, AppendIs, Zenon
  <2> QED
    BY <2>1, <2>2, <2>3, Zenon
<1>7. rxe' \in [st : {"LOAD", "TRANSITION"}, ack : 0..(SeqMod - 1), win : Nat, ackd : 0..(SeqMod - 1), unak : 0..(SeqMod - 1)]
  <2>1. 0 \in 0..(SeqMod - 1)
    BY Sizes
  <2> QED
    BY <1>1, <2>1
<1>8. NetTypes'
  BY <1>1, <1>7, Zenon DEF NetTypes
<1>9. TxeTypes'
  BY <1>1, <1>4, <1>5, Zenon DEF TxeTypes, Timers
<1>10. TaiTypes'
  BY <1>1, <1>6, Zenon DEF TaiTypes, Tables
<1> QED
  BY <1>8, <1>9, <1>10

LEMMA TypesTImExpire ==
    ASSUME TxeTypes, TImExpire
    PROVE  TxeTypes'
<1>1. /\ timer.expired < MaxExpired /\ Len(evq) < EventDepth
      /\ timer' = [active |-> FALSE, expired |-> timer.expired + 1] /\ evq' = Append(evq, "RT")
      /\ UNCHANGED <<tst, mdl, hdr, rdCmd, mrd, rdData, split>>
  BY Zenon DEF TImExpire, txe
<1>2. timer' \in Timers
  <2>1. timer.expired \in 0..MaxExpired
    BY DEF TxeTypes
  <2>2. timer.expired + 1 \in 0..MaxExpired
    BY <1>1, <2>1, Sizes
  <2> QED
    BY <1>1, <2>2 DEF Timers
<1>3. evq' \in Seq({"TX", "RT", "FIN"}) /\ Len(evq') <= EventDepth
  BY <1>1, Sizes DEF TxeTypes
<1> QED
  BY <1>1, <1>2, <1>3, Zenon DEF TxeTypes, Timers

LEMMA PositionInt ==
    ASSUME peer.rcv \in Nat, NEW x \in Int
    PROVE  Position(x) \in Int
<1>1. PICK d : d = Minus(peer.rcv % SeqMod, x, SeqMod)
  OBVIOUS
<1>2. peer.rcv % SeqMod \in Int
  <2>1. peer.rcv % SeqMod \in 0..(SeqMod - 1)
    <3>1. PICK r : r = peer.rcv
      OBVIOUS
    <3>2. r \in Int
      BY <3>1
    <3>3. r % SeqMod \in 0..(SeqMod - 1)
      BY <3>2, DivMod, Sizes
    <3> QED
      BY <3>1, <3>3
  <2> QED
    BY <2>1, Sizes
<1>3. d \in 0..(SeqMod - 1)
  BY <1>1, <1>2, MinusRange, Sizes
<1> QED
  BY <1>1, <1>3, Sizes DEF Position

\* What the peer makes of the segment at the head of the wire: h is its header, if it has one.
Takes(w, g, h, from, next, fin, rcv) ==
    /\ wire # <<>> /\ g = Head(wire) /\ g = wire[1] /\ g \in WireFrames
    /\ h = IF g.hdr = <<>> THEN Header(0, 0, FALSE) ELSE g.hdr[1]
    /\ h \in Headers
    /\ from = Position(h.seq) /\ from \in Int /\ Size(g) \in Nat
    /\ next = IF g.hdr # <<>> /\ ~peer.fin /\ from <= peer.rcv /\ from + Size(g) > peer.rcv THEN from + Size(g) ELSE peer.rcv
    /\ next \in Nat /\ peer.rcv <= next
    /\ fin = (h.fin /\ from + h.len = next) /\ fin \in BOOLEAN
    /\ rcv = (IF fin /\ ~peer.fin THEN next + 1 ELSE next) /\ rcv \in Nat
    /\ next + w >= peer.edge
    /\ peer' = [rcv |-> rcv, fin |-> peer.fin \/ fin, edge |-> next + w]
    /\ acks' = Append(acks, [ack |-> rcv % SeqMod, win |-> w]) /\ rcv % SeqMod \in 0..(SeqMod - 1)
    /\ wire' = Tail(wire)
    /\ UNCHANGED <<rxe, losses>>

LEMMA TakesIs ==
    ASSUME NetTypes, NEW w \in Nat, PeerTakes(w)
    PROVE  \E g, h, from, next, fin, rcv : Takes(w, g, h, from, next, fin, rcv)
<1>1. PICK g, h : g = Head(wire) /\ h = IF g.hdr = <<>> THEN Header(0, 0, FALSE) ELSE g.hdr[1]
  OBVIOUS
<1>2. PICK from, n : from = Position(h.seq) /\ n = Size(g)
  OBVIOUS
<1>3. PICK next : next = IF g.hdr # <<>> /\ ~peer.fin /\ from <= peer.rcv /\ from + n > peer.rcv THEN from + n ELSE peer.rcv
  OBVIOUS
<1>4. PICK fin : fin = (h.fin /\ from + h.len = next)
  OBVIOUS
<1>5. PICK rcv : rcv = IF fin /\ ~peer.fin THEN next + 1 ELSE next
  OBVIOUS
<1>6. /\ wire # <<>>
      /\ next + w >= peer.edge
      /\ peer' = [rcv |-> rcv, fin |-> peer.fin \/ fin, edge |-> next + w]
      /\ acks' = Append(acks, [ack |-> rcv % SeqMod, win |-> w])
      /\ wire' = Tail(wire)
      /\ UNCHANGED <<rxe, losses>>
  BY <1>1, <1>2, <1>3, <1>4, <1>5, Zenon DEF PeerTakes, Size
<1>7. g \in WireFrames /\ g = wire[1]
  BY <1>1, <1>6, HeadTail, Zenon DEF NetTypes
<1>8. g.hdr \in {<<>>} \cup {<<q>> : q \in Headers} /\ n \in Nat
  BY <1>2, <1>7 DEF WireFrames, Size
<1>9. h \in Headers
  <2>1. CASE g.hdr = <<>>
    <3>1. h = Header(0, 0, FALSE)
      BY <1>1, <2>1
    <3>2. 0 \in 0..(SeqMod - 1) /\ 0 \in 0..(BufSize - 1)
      BY Sizes
    <3> QED
      BY <3>1, <3>2 DEF Header, Headers
  <2>2. CASE g.hdr # <<>>
    <3>1. PICK q \in Headers : g.hdr = <<q>>
      BY <1>8, <2>2
    <3> QED
      BY <1>1, <2>2, <3>1
  <2> QED
    BY <2>1, <2>2
<1>10. peer.rcv \in Nat
  BY DEF NetTypes
<1>11. from \in Int
  <2>1. h.seq \in Int
    BY <1>9, Sizes DEF Headers
  <2> QED
    BY <1>2, <1>10, <2>1, PositionInt
<1>12. next \in Nat /\ peer.rcv <= next
  BY <1>3, <1>8, <1>10, <1>11
<1>13. fin \in BOOLEAN
  BY <1>4, Zenon
<1>14. rcv \in Nat
  BY <1>5, <1>12
<1>15. rcv % SeqMod \in 0..(SeqMod - 1)
  BY <1>14, DivMod, Sizes
<1> QED
  BY <1>1, <1>2, <1>3, <1>4, <1>5, <1>6, <1>7, <1>8, <1>9, <1>11, <1>12, <1>13, <1>14, <1>15, Zenon DEF Takes

LEMMA TypesPeerTakes ==
    ASSUME NetTypes, NEW w \in Nat, PeerTakes(w)
    PROVE  NetTypes'
<1>1. PICK g, h, from, next, fin, rcv : Takes(w, g, h, from, next, fin, rcv)
  BY TakesIs, Zenon
<1>2. /\ wire # <<>> /\ next \in Nat /\ rcv \in Nat /\ fin \in BOOLEAN
      /\ peer' = [rcv |-> rcv, fin |-> peer.fin \/ fin, edge |-> next + w]
      /\ acks' = Append(acks, [ack |-> rcv % SeqMod, win |-> w]) /\ rcv % SeqMod \in 0..(SeqMod - 1)
      /\ wire' = Tail(wire)
      /\ UNCHANGED <<rxe, losses>>
  BY <1>1, Zenon DEF Takes
<1>3. wire' \in Seq(WireFrames)
  BY <1>2, HeadTail, Zenon DEF NetTypes
<1>4. acks' \in Seq(Acks)
  <2>1. [ack |-> rcv % SeqMod, win |-> w] \in Acks
    BY <1>2 DEF Acks
  <2> QED
    BY <1>2, <2>1, AppendIs, Zenon DEF NetTypes
<1>5. peer' \in [rcv : Nat, fin : BOOLEAN, edge : Nat]
  <2>1. PICK f, e : f = (peer.fin \/ fin) /\ e = next + w
    OBVIOUS
  <2>2. f \in BOOLEAN
    BY <2>1, Zenon
  <2>3. e \in Nat
    BY <1>2, <2>1
  <2>4. peer' = [rcv |-> rcv, fin |-> f, edge |-> e]
    BY <1>2, <2>1, Zenon
  <2> QED
    BY <1>2, <2>2, <2>3, <2>4
<1> QED
  BY <1>2, <1>3, <1>4, <1>5, Zenon DEF NetTypes

LEMMA TypesLose ==
    ASSUME NetTypes, Lose
    PROVE  NetTypes'
<1>1. /\ wire # <<>> /\ losses < MaxLosses /\ wire' = Tail(wire) /\ losses' = losses + 1
      /\ UNCHANGED <<acks, peer, rxe>>
  BY Zenon DEF Lose
<1>2. wire' \in Seq(WireFrames)
  BY <1>1, HeadTail, Zenon DEF NetTypes
<1>3. losses' \in 0..MaxLosses
  BY <1>1, Sizes DEF NetTypes
<1> QED
  BY <1>1, <1>2, <1>3, Zenon DEF NetTypes

LEMMA TypesStep ==
    ASSUME Types, ReadLine, [Next]_vars
    PROVE  Types'
<1> USE DEF Types
<1>0. Actions \/ UNCHANGED vars
  BY NextIs
<1>a. ASSUME UNCHANGED <<app, data, sml, tat, push, meta, smlEv, tacEv, emxEv, tash>> PROVE TaiTypes'
  BY <1>a, TaiTypesKeep, Zenon
<1>w. ASSUME UNCHANGED wr PROVE WrTypes'
  BY <1>w, WrTypesKeep, Zenon
<1>x. ASSUME UNCHANGED <<tst, evq, mdl, hdr, rdCmd, mrd, rdData, split, timer>> PROVE TxeTypes'
  BY <1>x, TxeTypesKeep, Zenon
<1>n. ASSUME UNCHANGED <<wire, acks, rxe, peer, losses>> PROVE NetTypes'
  BY <1>n, NetTypesKeep, Zenon
<1>1. CASE AppRequest
  <2>1. TaiTypes'
    BY <1>1, TypesAppRequest, Zenon
  <2> QED
    BY <1>1, <1>w, <1>x, <1>n, <2>1, Zenon DEF AppRequest, txe, net
<1>2. CASE AppClose
  <2>1. TaiTypes'
    BY <1>2, TypesAppClose, Zenon
  <2> QED
    BY <1>2, <1>w, <1>x, <1>n, <2>1, Zenon DEF AppClose, txe, net
<1>3. CASE SmlRequest
  <2>1. TaiTypes'
    BY <1>3, TypesSmlRequest, Zenon
  <2> QED
    BY <1>3, <1>w, <1>x, <1>n, <2>1, Zenon DEF SmlRequest, txe, net
<1>3a. CASE TatAnswer
  <2>1. TaiTypes'
    BY <1>3a, TypesTatAnswer, Zenon
  <2> QED
    BY <1>3a, <1>w, <1>x, <1>n, <2>1, Zenon DEF TatAnswer, txe, net
<1>4. CASE SmlAccept
  <2>1. TaiTypes'
    BY <1>4, TypesSmlAccept, Zenon
  <2> QED
    BY <1>4, <1>w, <1>x, <1>n, <2>1, Zenon DEF SmlAccept, txe, net
<1>5. CASE SmlRefuse
  <2>1. TaiTypes'
    BY <1>5, TypesSmlRefuse, Zenon
  <2> QED
    BY <1>5, <1>w, <1>x, <1>n, <2>1, Zenon DEF SmlRefuse, txe, net
<1>6. CASE TatPush
  <2>1. TaiTypes'
    BY <1>6, TypesTatPush, Zenon
  <2> QED
    BY <1>6, <1>w, <1>x, <1>n, <2>1, Zenon DEF TatPush, txe, net
<1>7. CASE Emx
  <2>1. TaiTypes'
    BY <1>7, TypesEmx, Zenon
  <2> QED
    BY <1>7, <1>w, <1>x, <1>n, <2>1, Zenon DEF Emx, txe, net
<1>8. CASE MwrIdle
  <2>1. TaiTypes' /\ WrTypes'
    BY <1>8, TypesMwrIdle, Zenon
  <2> QED
    BY <1>8, <1>x, <1>n, <2>1, Zenon DEF MwrIdle, txe, net
<1>9. CASE MwrSplit
  <2>1. TaiTypes' /\ WrTypes'
    BY <1>9, TypesMwrSplit, Zenon
  <2> QED
    BY <1>9, <1>x, <1>n, <2>1, Zenon DEF MwrSplit, txe, net
<1>10. CASE MwrAligned \/ MwrFirst \/ MwrUncut \/ MwrSecond \/ MwrResidue
  <2>1. TaiTypes' /\ WrTypes'
    BY <1>10, TypesMwrForward, TypesMwrUncut, Zenon
  <2>2. UNCHANGED <<tst, evq, mdl, hdr, rdCmd, mrd, rdData, split, timer, wire, acks, rxe, peer, losses>>
    BY <1>10, Zenon DEF MwrAligned, MwrFirst, MwrUncut, MwrSecond, MwrResidue, txe, net
  <2> QED
    BY <1>x, <1>n, <2>1, <2>2, Zenon
<1>11. CASE TashIdle
  <2>1. TaiTypes' /\ TxeTypes'
    BY <1>11, TypesTashIdle, Zenon
  <2> QED
    BY <1>11, <1>w, <1>n, <2>1, Zenon DEF TashIdle, net
<1>12. CASE TashStatus1 \/ TashStatus2
  <2>1. TaiTypes' /\ WrTypes' /\ TxeTypes'
    BY <1>12, TypesTashStatus, Zenon
  <2>2. UNCHANGED <<wire, acks, rxe, peer, losses>>
    BY <1>12, Zenon DEF TashStatus1, TashStatus2, net
  <2> QED
    BY <1>n, <2>1, <2>2, Zenon
<1>13. CASE MdlWait
  <2>1. TxeTypes'
    BY <1>13, TypesMdlWait, Zenon
  <2> QED
    BY <1>13, <1>a, <1>w, <1>n, <2>1, Zenon DEF MdlWait, tai, net
<1>14. CASE MdlTx
  <2>1. (TxFragment \/ TxLast) /\ UNCHANGED <<tai, wr, push, evq, mrd, rdData, split, rxe, net>>
    BY <1>14, Zenon DEF MdlTx
  <2>2. TxeTypes'
    BY <2>1, TypesTxFragment, TypesTxLast, Zenon
  <2> QED
    BY <1>a, <1>w, <1>n, <2>1, <2>2, Zenon DEF tai, net
<1>15. CASE MdlRt
  <2>1. TxeTypes'
    BY <1>15, TypesMdlRt, Zenon
  <2> QED
    BY <1>15, <1>a, <1>w, <1>n, <2>1, Zenon DEF MdlRt, tai, net
<1>16. CASE MdlFin
  <2>1. TxeTypes'
    BY <1>16, TypesMdlFin, Zenon
  <2> QED
    BY <1>16, <1>a, <1>w, <1>n, <2>1, Zenon DEF MdlFin, tai, net
<1>17. CASE MrdFirst
  <2>1. TxeTypes'
    BY <1>17, TypesMrdFirst, Zenon
  <2> QED
    BY <1>17, <1>a, <1>w, <1>n, <2>1, Zenon DEF MrdFirst, tai, net
<1>18. CASE MrdSecond
  <2>1. TxeTypes'
    BY <1>18, TypesMrdSecond, Zenon
  <2> QED
    BY <1>18, <1>a, <1>w, <1>n, <2>1, Zenon DEF MrdSecond, tai, net
<1>19. CASE TssHeader
  <2>1. TxeTypes' /\ NetTypes'
    BY <1>19, TypesTssHeader, Zenon
  <2> QED
    BY <1>19, <1>a, <1>w, <2>1, Zenon DEF TssHeader, tai
<1>20. CASE TssSegment
  <2>1. TxeTypes' /\ NetTypes'
    BY <1>20, TypesTssSegment, Zenon
  <2> QED
    BY <1>20, <1>a, <1>w, <2>1, Zenon DEF TssSegment, tai
<1>21. CASE RxeLoad
  <2>1. NetTypes'
    BY <1>21, TypesRxeLoad, Zenon
  <2> QED
    BY <1>21, <1>a, <1>w, <1>x, <2>1, Zenon DEF RxeLoad, tai, txe
<1>22. CASE RxeTransition
  <2>1. NetTypes' /\ TxeTypes' /\ TaiTypes'
    BY <1>22, TypesRxeTransition, Zenon
  <2> QED
    BY <1>22, <1>w, <2>1, Zenon DEF RxeTransition
<1>23. CASE TImExpire
  <2>1. TxeTypes'
    BY <1>23, TypesTImExpire, Zenon
  <2> QED
    BY <1>23, <1>a, <1>w, <1>n, <2>1, Zenon DEF TImExpire, tai, net
<1>24. CASE \E w \in Windows : PeerTakes(w)
  <2>1. PICK w \in Windows : PeerTakes(w)
    BY <1>24
  <2>2. w \in Nat
    BY <2>1, LengthAssumption, Sizes DEF LengthAssumption
  <2>3. NetTypes'
    BY <2>1, <2>2, TypesPeerTakes, Zenon
  <2> QED
    BY <1>a, <1>w, <1>x, <2>1, <2>3, Zenon DEF PeerTakes, tai, txe
<1>25. CASE Lose
  <2>1. NetTypes'
    BY <1>25, TypesLose, Zenon
  <2> QED
    BY <1>25, <1>a, <1>w, <1>x, <2>1, Zenon DEF Lose, tai, txe
<1>26. CASE UNCHANGED vars
  <2>1. UNCHANGED <<app, data, sml, tat, push, meta, smlEv, tacEv, emxEv, tash>> /\ UNCHANGED wr
        /\ UNCHANGED <<tst, evq, mdl, hdr, rdCmd, mrd, rdData, split, timer>> /\ UNCHANGED <<wire, acks, rxe, peer, losses>>
    BY <1>26, Zenon DEF vars, tai, txe, net
  <2> QED
    BY <1>a, <1>w, <1>x, <1>n, <2>1, Zenon
<1> QED
  BY <1>0, <1>1, <1>2, <1>3, <1>3a, <1>4, <1>5, <1>6, <1>7, <1>8, <1>9, <1>10, <1>11, <1>12, <1>13, <1>14, <1>15, <1>16, <1>17,
     <1>18, <1>19, <1>20, <1>21, <1>22, <1>23, <1>24, <1>25, <1>26, Zenon DEF Actions

----------------------------------------------------------------------------
(* The headers and the accesses of Mrd *)

\* A segment is sent: its header joins the others, with a read command if it has a payload.
Sent(seq, n, fin) ==
    /\ seq \in 0..(SeqMod - 1) /\ n \in 0..(BufSize - 1) /\ fin \in BOOLEAN
    /\ hdr' = Append(hdr, Header(seq, n, fin))
    /\ rdCmd' = IF n = 0 THEN rdCmd ELSE Append(rdCmd, [addr |-> Ptr(seq), len |-> n])

LEMMA ReadSent ==
    ASSUME TxeTypes, ReadLine, NEW seq, NEW n, NEW fin, Sent(seq, n, fin), UNCHANGED <<mrd, rdData, split>>
    PROVE  ReadLine'
<1>1. /\ seq \in 0..(SeqMod - 1) /\ n \in 0..(BufSize - 1) /\ fin \in BOOLEAN
      /\ hdr' = Append(hdr, Header(seq, n, fin))
      /\ rdCmd' = IF n = 0 THEN rdCmd ELSE Append(rdCmd, [addr |-> Ptr(seq), len |-> n])
  BY DEF Sent
<1>2. PICK c : Numbered(c)
  BY DEF ReadLine
<1>3. PICK b : b = Busy
  OBVIOUS
<1>4. PICK L, R : L = Len(hdr) /\ R = Len(rdCmd)
  OBVIOUS
<1>5. b \in Nat /\ L \in Nat /\ R \in Nat /\ Busy' = b
  BY <1>3, <1>4 DEF Busy, TxeTypes
<1>6. /\ c \in [0..L -> Nat] /\ c[0] = 0 /\ c[L] = b + R
      /\ \A i \in 0..L, j \in 0..L : i <= j => c[i] <= c[j]
      /\ \A i \in 1..L :
            /\ hdr[i].len = 0 => c[i] = c[i - 1]
            /\ hdr[i].len # 0 =>
                  /\ c[i] = c[i - 1] + 1
                  /\ c[i] = b => Bytes(rdData, hdr[i].len - mrd.len)
                  /\ c[i] > b => rdCmd[c[i] - b] = [addr |-> Ptr(hdr[i].seq), len |-> hdr[i].len]
  BY <1>2, <1>3, <1>4, Zenon DEF Numbered
<1>7. PICK h, r : h = Header(seq, n, fin) /\ r = [addr |-> Ptr(seq), len |-> n]
  OBVIOUS
<1>8. h \in Headers /\ h.len = n /\ h.seq = seq
  BY <1>1, <1>7 DEF Header, Headers
<1>9. hdr \in Seq(Headers) /\ rdCmd \in Seq(ReadCommands)
  BY DEF TxeTypes, ReadCommands
<1>10. Len(hdr') = L + 1 /\ (\A i \in 1..L : hdr'[i] = hdr[i]) /\ hdr'[L + 1] = h
  BY <1>1, <1>4, <1>7, <1>8, <1>9, AppendIs, SMTT(40)
<1>11. n # 0 => r \in ReadCommands /\ Len(rdCmd') = R + 1 /\ (\A i \in 1..R : rdCmd'[i] = rdCmd[i]) /\ rdCmd'[R + 1] = r
  <2> HAVE n # 0
  <2>1. n \in 1..(BufSize - 1) /\ Ptr(seq) \in 0..(BufSize - 1)
    BY <1>1, PtrRange, Sizes
  <2>2. r \in ReadCommands
    BY <1>7, <2>1 DEF ReadCommands
  <2> QED
    <3>1. rdCmd' = Append(rdCmd, r) /\ rdCmd \in Seq(ReadCommands)
      BY <1>1, <1>7, <1>9
    <3>2. Len(rdCmd') = Len(rdCmd) + 1 /\ (\A i \in 1..Len(rdCmd) : rdCmd'[i] = rdCmd[i]) /\ rdCmd'[Len(rdCmd) + 1] = r
      BY <2>2, <3>1, AppendIs, SMTT(40)
    <3> QED
      BY <1>4, <2>2, <3>2, Zenon
<1>12. PICK k : k = IF n = 0 THEN c[L] ELSE c[L] + 1
  OBVIOUS
<1>13. k \in Nat /\ c[L] <= k /\ c[L] \in Nat
  BY <1>5, <1>6, <1>12
<1>14. PICK d : d = [i \in 0..(L + 1) |-> IF i = L + 1 THEN k ELSE c[i]]
  OBVIOUS
<1>15. d \in [0..(L + 1) -> Nat] /\ d[L + 1] = k /\ \A i \in 0..L : d[i] = c[i]
  BY <1>5, <1>6, <1>13, <1>14
<1>16. d[0] = 0 /\ d[Len(hdr')] = Busy' + Len(rdCmd')
  <2>1. d[0] = 0
    BY <1>5, <1>6, <1>15
  <2>2. CASE n = 0
    BY <1>1, <1>4, <1>5, <1>6, <1>10, <1>12, <1>15, <2>1, <2>2
  <2>3. CASE n # 0
    BY <1>1, <1>4, <1>5, <1>6, <1>10, <1>11, <1>12, <1>15, <2>1, <2>3
  <2> QED
    BY <2>2, <2>3
<1>17. \A i \in 0..(L + 1), j \in 0..(L + 1) : i <= j => d[i] <= d[j]
  <2>1. \A i \in 0..L : c[i] <= k /\ c[i] \in Nat
    BY <1>5, <1>6, <1>13
  <2> TAKE i \in 0..(L + 1), j \in 0..(L + 1)
  <2> HAVE i <= j
  <2>2. CASE j = L + 1 /\ i = L + 1
    BY <1>13, <1>15, <2>2
  <2>3. CASE j = L + 1 /\ i # L + 1
    BY <1>5, <1>15, <2>1, <2>3
  <2>4. CASE j # L + 1
    BY <1>5, <1>6, <1>15, <2>4
  <2> QED
    BY <2>2, <2>3, <2>4
<1>18. ASSUME NEW i \in 1..(L + 1)
       PROVE  /\ hdr'[i].len = 0 => d[i] = d[i - 1]
              /\ hdr'[i].len # 0 =>
                    /\ d[i] = d[i - 1] + 1
                    /\ d[i] = b => Bytes(rdData, hdr'[i].len - mrd.len)
                    /\ d[i] > b => rdCmd'[d[i] - b] = [addr |-> Ptr(hdr'[i].seq), len |-> hdr'[i].len]
  <2>1. CASE i = L + 1
    <3>1. hdr'[i] = h /\ d[i] = k /\ d[i - 1] = c[L]
      BY <1>5, <1>10, <1>15, <2>1
    <3>2. n # 0 => k = c[L] + 1 /\ k > b /\ k - b = R + 1
      BY <1>5, <1>6, <1>12, <1>13
    <3>3. n # 0 => rdCmd'[k - b] = r
      BY <1>11, <3>2
    <3> QED
      BY <1>5, <1>7, <1>8, <1>12, <1>13, <3>1, <3>2, <3>3
  <2>2. CASE i # L + 1
    <3>1. i \in 1..L /\ hdr'[i] = hdr[i] /\ d[i] = c[i] /\ d[i - 1] = c[i - 1]
      BY <1>5, <1>10, <1>15, <2>2
    <3>2. c[i] \in Nat /\ c[i] <= b + R
      BY <1>5, <1>6, <3>1
    <3>3. c[i] > b => rdCmd'[c[i] - b] = rdCmd[c[i] - b]
      <4> HAVE c[i] > b
      <4>1. c[i] - b \in 1..R
        BY <1>5, <3>2
      <4> QED
        BY <1>1, <1>11, <4>1
    <3> QED
      BY <1>6, <3>1, <3>3
  <2> QED
    BY <2>1, <2>2
<1>19. Numbered(d)'
  <2>1. \A i \in 1..Len(hdr') :
              /\ hdr'[i].len = 0 => d[i] = d[i - 1]
              /\ hdr'[i].len # 0 =>
                    /\ d[i] = d[i - 1] + 1
                    /\ d[i] = Busy' => Bytes(rdData, hdr'[i].len - mrd.len)
                    /\ d[i] > Busy' => rdCmd'[d[i] - Busy'] = [addr |-> Ptr(hdr'[i].seq), len |-> hdr'[i].len]
    BY <1>5, <1>10, <1>18, Zenon
  <2>2. d \in [0..Len(hdr') -> Nat] /\ \A i \in 0..Len(hdr'), j \in 0..Len(hdr') : i <= j => d[i] <= d[j]
    BY <1>10, <1>15, <1>17, Zenon
  <2>3. rdData' = rdData /\ mrd' = mrd
    OBVIOUS
  <2> QED
    BY <1>16, <2>1, <2>2, <2>3, Zenon DEF Numbered
<1> QED
  BY <1>19, Zenon DEF ReadLine

LEMMA ReadMrdFirst ==
    ASSUME TxeTypes, WrTypes, ReadLine, MrdFirst
    PROVE  ReadLine'
<1>1. PICK q, n : MrdFirstDoes(q, n)
  BY MrdFirstIs, Zenon
<1>2. /\ mrd.len = 0 /\ rdCmd # <<>> /\ rdData = <<>>
      /\ q = Head(rdCmd) /\ q \in ReadCommands
      /\ n \in 1..(BufSize - 1) \cup {BufSize} /\ n <= q.len
      /\ rdData' = MemChunks(q.addr, n)
      /\ split' = Append(split, Wraps(q.addr, q.len)) /\ Wraps(q.addr, q.len) \in BOOLEAN
      /\ mrd' = [addr |-> 0, len |-> q.len - n]
      /\ rdCmd' = Tail(rdCmd) /\ hdr' = hdr
  BY <1>1, Zenon DEF MrdFirstDoes
<1>3. split = <<>> /\ Busy = 0
  BY <1>2 DEF ReadLine, Busy
<1>4. split' # <<>> /\ Len(split') = 1 /\ Busy' = 1
  <2>1. PICK w : w = Wraps(q.addr, q.len)
    OBVIOUS
  <2>2. split' = Append(<<>>, w)
    BY <1>2, <1>3, <2>1
  <2>3. split' # <<>> /\ Len(split') = 1
    BY <2>2
  <2> QED
    BY <2>3 DEF Busy
<1>5. q.addr \in Nat /\ n \in Nat \ {0} /\ q.len \in Nat
  BY <1>2, Sizes DEF ReadCommands
<1>6. rdData' # <<>> /\ Bytes(rdData', n)
  <2>1. mem \in [0..(BufSize - 1) -> Nat]
    BY DEF WrTypes
  <2> QED
    BY <1>2, <1>5, <2>1, MemChunksAre, Zenon
<1>7. PICK c : Numbered(c)
  BY DEF ReadLine
<1>8. PICK L, R : L = Len(hdr) /\ R = Len(rdCmd)
  OBVIOUS
<1>9. /\ L \in Nat /\ R \in Nat \ {0} /\ Len(rdCmd') = R - 1
      /\ q = rdCmd[1] /\ \A i \in 1..(R - 1) : rdCmd'[i] = rdCmd[i + 1]
  <2>1. rdCmd \in Seq(ReadCommands) /\ hdr \in Seq(Headers)
    BY DEF TxeTypes, ReadCommands
  <2>2. /\ Len(rdCmd) \in Nat \ {0} /\ Len(rdCmd') = Len(rdCmd) - 1
        /\ q = rdCmd[1] /\ \A i \in 1..Len(rdCmd') : rdCmd'[i] = rdCmd[i + 1]
    BY <1>2, <2>1, HeadTail, SMTT(40)
  <2> QED
    BY <1>8, <2>1, <2>2
<1>10. /\ c \in [0..L -> Nat] /\ c[0] = 0 /\ c[L] = R
       /\ \A i \in 0..L, j \in 0..L : i <= j => c[i] <= c[j]
       /\ \A i \in 1..L :
             /\ hdr[i].len = 0 => c[i] = c[i - 1]
             /\ hdr[i].len # 0 =>
                   /\ c[i] = c[i - 1] + 1
                   /\ c[i] > 0 => rdCmd[c[i]] = [addr |-> Ptr(hdr[i].seq), len |-> hdr[i].len]
  <2>1. /\ c \in [0..L -> Nat] /\ c[0] = 0 /\ c[L] = 0 + R
        /\ \A i \in 0..L, j \in 0..L : i <= j => c[i] <= c[j]
        /\ \A i \in 1..L :
              /\ hdr[i].len = 0 => c[i] = c[i - 1]
              /\ hdr[i].len # 0 =>
                    /\ c[i] = c[i - 1] + 1
                    /\ c[i] > 0 => rdCmd[c[i] - 0] = [addr |-> Ptr(hdr[i].seq), len |-> hdr[i].len]
    BY <1>3, <1>7, <1>8, Zenon DEF Numbered
  <2>2. \A i \in 1..L : c[i] - 0 = c[i]
    BY <1>9, <2>1
  <2>3. 0 + R = R
    BY <1>9
  <2> QED
    BY <2>1, <2>2, <2>3
<1>11. ASSUME NEW i \in 1..L
       PROVE  /\ hdr[i].len = 0 => c[i] = c[i - 1]
              /\ hdr[i].len # 0 =>
                    /\ c[i] = c[i - 1] + 1
                    /\ c[i] = 1 => Bytes(rdData', hdr[i].len - mrd'.len)
                    /\ c[i] > 1 => rdCmd'[c[i] - 1] = [addr |-> Ptr(hdr[i].seq), len |-> hdr[i].len]
  <2>1. c[i] \in Nat /\ c[i - 1] \in Nat /\ c[i] <= R
    <3>1. i \in 0..L /\ i - 1 \in 0..L /\ L \in 0..L /\ i <= L
      BY <1>9
    <3>2. c[i] <= c[L]
      BY <1>10, <3>1, Zenon
    <3> QED
      BY <1>10, <3>1, <3>2, Zenon
  <2>0. /\ hdr[i].len = 0 => c[i] = c[i - 1]
        /\ hdr[i].len # 0 =>
              /\ c[i] = c[i - 1] + 1
              /\ c[i] > 0 => rdCmd[c[i]] = [addr |-> Ptr(hdr[i].seq), len |-> hdr[i].len]
    BY <1>10, Zenon
  <2>2. hdr[i].len # 0 /\ c[i] = 1 => Bytes(rdData', hdr[i].len - mrd'.len)
    <3> HAVE hdr[i].len # 0 /\ c[i] = 1
    <3>1. q = [addr |-> Ptr(hdr[i].seq), len |-> hdr[i].len]
      BY <1>9, <1>10
    <3>2. hdr[i].len = q.len /\ mrd'.len = q.len - n
      BY <1>2, <3>1
    <3>3. hdr[i].len - mrd'.len = n
      BY <1>5, <3>2
    <3> QED
      BY <1>6, <3>3
  <2>3. c[i] > 1 => rdCmd'[c[i] - 1] = rdCmd[c[i]]
    <3> HAVE c[i] > 1
    <3>1. PICK j : j = c[i] - 1
      OBVIOUS
    <3>2. j \in 1..(R - 1) /\ j + 1 = c[i]
      BY <1>9, <2>1, <3>1
    <3>3. rdCmd'[j] = rdCmd[j + 1]
      BY <1>9, <3>2
    <3> QED
      BY <3>1, <3>2, <3>3
  <2>4. c[i] > 1 => c[i] > 0
    BY <2>1
  <2> QED
    BY <2>0, <2>2, <2>3, <2>4, Zenon
<1>12. Numbered(c)'
  <2>1. c[L] = 1 + (R - 1)
    BY <1>9, <1>10
  <2>2. Busy' = 1 /\ Len(hdr') = L /\ hdr' = hdr /\ Len(rdCmd') = R - 1
    BY <1>2, <1>4, <1>8, <1>9
  <2> QED
    BY <1>10, <1>11, <2>1, <2>2, Zenon DEF Numbered
<1>13. Len(split') <= 1
  BY <1>4
<1> QED
  BY <1>4, <1>6, <1>12, <1>13, Zenon DEF ReadLine

LEMMA ReadMrdSecond ==
    ASSUME TxeTypes, WrTypes, ReadLine, MrdSecond
    PROVE  ReadLine'
<1>1. /\ mrd.len # 0
      /\ rdData' = rdData \o MemChunks(mrd.addr, mrd.len)
      /\ mrd' = [mrd EXCEPT !.len = 0]
      /\ UNCHANGED <<hdr, rdCmd, split>>
  BY Zenon DEF MrdSecond
<1>2. split # <<>> /\ rdData # <<>> /\ Busy' = Busy
  BY <1>1 DEF ReadLine, Busy
<1>3. mrd.addr \in Nat /\ mrd.len \in Nat \ {0} /\ mrd'.len = 0
  <2>1. mrd \in [addr : {0}, len : 0..(BufSize - 1)]
    BY DEF TxeTypes
  <2>2. mrd.addr = 0 /\ mrd.len \in 0..(BufSize - 1)
    BY <2>1
  <2> QED
    BY <1>1, <2>1, <2>2, Sizes
<1>4. PICK m, t : m = mrd.len /\ t = MemChunks(mrd.addr, mrd.len)
  OBVIOUS
<1>5. t \in Seq(ChunkSet(Nat)) /\ t # <<>> /\ Bytes(t, m)
  <2>1. mem \in [0..(BufSize - 1) -> Nat]
    BY DEF WrTypes
  <2> QED
    BY <1>3, <1>4, <2>1, MemChunksAre, Zenon
<1>6. rdData \in Seq(ChunkSet(Nat)) /\ rdData' = rdData \o t
  BY <1>1, <1>4 DEF TxeTypes
<1>7. rdData' # <<>>
  <2>1. Len(rdData') = Len(rdData) + Len(t) /\ Len(rdData) \in Nat /\ Len(t) \in Nat
    BY <1>5, <1>6
  <2>2. Len(t) # 0
    BY <1>5
  <2> QED
    BY <2>1, <2>2
<1>8. ASSUME NEW l, Bytes(rdData, l - m), l \in Nat
      PROVE  Bytes(rdData', l - mrd'.len)
  <2>1. PICK k : k = l - m
    OBVIOUS
  <2>2. k \in Nat
    <3>1. PICK f : Counts(rdData, k, f)
      BY <1>8, <2>1, Zenon DEF Bytes
    <3>2. f \in [1 .. Len(rdData) + 1 -> Nat] /\ f[Len(rdData) + 1] = k
      BY <3>1, Zenon DEF Counts
    <3>3. Len(rdData) + 1 \in 1 .. Len(rdData) + 1
      BY <1>6
    <3> QED
      BY <3>2, <3>3
  <2>3. Bytes(rdData \o t, k + m)
    <3>1. /\ rdData \in Seq([bytes : Seq(Nat), last : BOOLEAN]) /\ t \in Seq([bytes : Seq(Nat), last : BOOLEAN])
      BY <1>5, <1>6, Zenon DEF ChunkSet
    <3>2. m \in Nat /\ Bytes(rdData, k) /\ Bytes(t, m)
      BY <1>3, <1>4, <1>5, <1>8, <2>1
    <3> QED
      BY <2>2, <3>1, <3>2, BytesConcat, Zenon
  <2>4. k + m = l /\ l - mrd'.len = l
    BY <1>3, <1>4, <1>8, <2>1
  <2> QED
    BY <1>6, <2>3, <2>4
<1>9. PICK c : Numbered(c)
  BY DEF ReadLine
<1>10. \A i \in 1..Len(hdr) : hdr[i].len \in Nat
  <2>1. hdr \in Seq(Headers)
    BY DEF TxeTypes
  <2>2. \A i \in 1..Len(hdr) : hdr[i] \in Headers
    BY <2>1
  <2> QED
    BY <2>2, Sizes DEF Headers
<1>11. Numbered(c)'
  <2>1. /\ c \in [0..Len(hdr) -> Nat] /\ c[0] = 0 /\ c[Len(hdr)] = Busy + Len(rdCmd)
        /\ \A i \in 0..Len(hdr), j \in 0..Len(hdr) : i <= j => c[i] <= c[j]
        /\ \A i \in 1..Len(hdr) :
              /\ hdr[i].len = 0 => c[i] = c[i - 1]
              /\ hdr[i].len # 0 =>
                    /\ c[i] = c[i - 1] + 1
                    /\ c[i] = Busy => Bytes(rdData, hdr[i].len - m)
                    /\ c[i] > Busy => rdCmd[c[i] - Busy] = [addr |-> Ptr(hdr[i].seq), len |-> hdr[i].len]
    BY <1>4, <1>9, Zenon DEF Numbered
  <2>2. \A i \in 1..Len(hdr) :
              /\ hdr[i].len = 0 => c[i] = c[i - 1]
              /\ hdr[i].len # 0 =>
                    /\ c[i] = c[i - 1] + 1
                    /\ c[i] = Busy => Bytes(rdData', hdr[i].len - mrd'.len)
                    /\ c[i] > Busy => rdCmd[c[i] - Busy] = [addr |-> Ptr(hdr[i].seq), len |-> hdr[i].len]
    BY <1>8, <1>10, <2>1, Zenon
  <2> QED
    BY <1>1, <1>2, <2>1, <2>2, Zenon DEF Numbered
<1>12. Len(split') <= 1
  BY <1>1 DEF ReadLine
<1> QED
  BY <1>1, <1>2, <1>7, <1>11, <1>12, Zenon DEF ReadLine

LEMMA ReadTssHeader ==
    ASSUME TxeTypes, ReadLine, TssHeader
    PROVE  ReadLine'
<1>1. hdr # <<>> /\ Head(hdr).len = 0 /\ hdr' = Tail(hdr) /\ UNCHANGED <<rdCmd, mrd, rdData, split>>
  BY Zenon DEF TssHeader
<1>2. PICK c : Numbered(c)
  BY DEF ReadLine
<1>3. PICK L, b : L = Len(hdr) /\ b = Busy
  OBVIOUS
<1>4. L \in Nat \ {0} /\ Len(hdr') = L - 1 /\ hdr[1] = Head(hdr) /\ \A i \in 1..(L - 1) : hdr'[i] = hdr[i + 1]
  <2>1. hdr \in Seq(Headers)
    BY DEF TxeTypes
  <2>2. Len(hdr) \in Nat \ {0} /\ Len(hdr') = Len(hdr) - 1 /\ hdr[1] = Head(hdr)
        /\ \A i \in 1..Len(hdr') : hdr'[i] = hdr[i + 1]
    BY <1>1, <2>1, HeadTail, SMTT(40)
  <2> QED
    BY <1>3, <2>2
<1>5. /\ c \in [0..L -> Nat] /\ c[0] = 0 /\ c[L] = b + Len(rdCmd)
      /\ \A i \in 0..L, j \in 0..L : i <= j => c[i] <= c[j]
      /\ \A i \in 1..L :
            /\ hdr[i].len = 0 => c[i] = c[i - 1]
            /\ hdr[i].len # 0 =>
                  /\ c[i] = c[i - 1] + 1
                  /\ c[i] = b => Bytes(rdData, hdr[i].len - mrd.len)
                  /\ c[i] > b => rdCmd[c[i] - b] = [addr |-> Ptr(hdr[i].seq), len |-> hdr[i].len]
  BY <1>2, <1>3, Zenon DEF Numbered
<1>6. c[1] = 0
  <2>1. 1 \in 1..L /\ hdr[1].len = 0
    BY <1>1, <1>4
  <2>2. c[1] = c[1 - 1]
    BY <1>5, <2>1, Zenon
  <2> QED
    BY <1>5, <2>2
<1>7. PICK d : d = [i \in 0..(L - 1) |-> c[i + 1]]
  OBVIOUS
<1>8. d \in [0..(L - 1) -> Nat] /\ \A i \in 0..(L - 1) : d[i] = c[i + 1]
  BY <1>4, <1>5, <1>7
<1>9. d[0] = 0 /\ d[L - 1] = b + Len(rdCmd) /\ \A i \in 0..(L - 1), j \in 0..(L - 1) : i <= j => d[i] <= d[j]
  BY <1>4, <1>5, <1>6, <1>8
<1>10. ASSUME NEW i \in 1..(L - 1)
       PROVE  /\ hdr'[i].len = 0 => d[i] = d[i - 1]
              /\ hdr'[i].len # 0 =>
                  /\ d[i] = d[i - 1] + 1
                  /\ d[i] = b => Bytes(rdData, hdr'[i].len - mrd.len)
                  /\ d[i] > b => rdCmd[d[i] - b] = [addr |-> Ptr(hdr'[i].seq), len |-> hdr'[i].len]
  <2>1. PICK j : j = i + 1
    OBVIOUS
  <2>2. j \in 1..L /\ d[i] = c[j] /\ d[i - 1] = c[j - 1] /\ hdr'[i] = hdr[j]
    <3>1. j \in 1..L /\ i \in 0..(L - 1) /\ i - 1 \in 0..(L - 1) /\ (i - 1) + 1 = j - 1
      BY <1>4, <2>1
    <3> QED
      BY <1>4, <1>8, <2>1, <3>1
  <2> QED
    BY <1>5, <2>2
<1>11. Numbered(d)'
  <2>1. Busy' = b
    BY <1>1, <1>3, Zenon DEF Busy
  <2> QED
    BY <1>1, <1>4, <1>8, <1>9, <1>10, <2>1, Zenon DEF Numbered
<1> QED
  BY <1>1, <1>11, Zenon DEF ReadLine

LEMMA ReadTssSegment ==
    ASSUME TxeTypes, ReadLine, TssSegment
    PROVE  ReadLine'
<1>0. PICK h, s, f : TssSegmentDoes(h, s, f)
  BY TssSegmentIs, Zenon
<1>1. hdr # <<>> /\ Head(hdr).len # 0 /\ hdr' = Tail(hdr) /\ mrd.len = 0 /\ split # <<>>
      /\ rdData' = <<>> /\ split' = <<>> /\ UNCHANGED <<rdCmd, mrd>>
  BY <1>0, Zenon DEF TssSegmentDoes
<1>2. PICK c : Numbered(c)
  BY DEF ReadLine
<1>3. PICK L : L = Len(hdr)
  OBVIOUS
<1>4. L \in Nat \ {0} /\ Len(hdr') = L - 1 /\ hdr[1] = Head(hdr) /\ \A i \in 1..(L - 1) : hdr'[i] = hdr[i + 1]
  <2>1. hdr \in Seq(Headers)
    BY DEF TxeTypes
  <2>2. Len(hdr) \in Nat \ {0} /\ Len(hdr') = Len(hdr) - 1 /\ hdr[1] = Head(hdr)
        /\ \A i \in 1..Len(hdr') : hdr'[i] = hdr[i + 1]
    BY <1>1, <2>1, HeadTail, SMTT(40)
  <2> QED
    BY <1>3, <2>2
<1>b. Busy = 1 /\ Busy' = 0
  BY <1>1 DEF Busy
<1>r. Len(rdCmd) \in Nat
  BY DEF TxeTypes
<1>5. /\ c \in [0..L -> Nat] /\ c[0] = 0 /\ c[L] = 1 + Len(rdCmd)
      /\ \A i \in 0..L, j \in 0..L : i <= j => c[i] <= c[j]
      /\ \A i \in 1..L :
            /\ hdr[i].len = 0 => c[i] = c[i - 1]
            /\ hdr[i].len # 0 =>
                  /\ c[i] = c[i - 1] + 1
                  /\ c[i] > 1 => rdCmd[c[i] - 1] = [addr |-> Ptr(hdr[i].seq), len |-> hdr[i].len]
  BY <1>2, <1>3, <1>b, Zenon DEF Numbered
<1>6. c[1] = 1 /\ \A i \in 1..L : c[i] \in Nat /\ c[i] >= 1
  <2>1. c[1] = 1
    <3>1. 1 \in 1..L /\ hdr[1].len # 0
      BY <1>1, <1>4
    <3>2. c[1] = c[1 - 1] + 1
      BY <1>5, <3>1, Zenon
    <3> QED
      BY <1>5, <3>2
  <2>2. \A i \in 1..L : c[i] \in Nat /\ c[1] <= c[i]
    BY <1>4, <1>5
  <2> QED
    BY <2>1, <2>2
<1>7. PICK d : d = [i \in 0..(L - 1) |-> c[i + 1] - 1]
  OBVIOUS
<1>8. d \in [0..(L - 1) -> Nat] /\ \A i \in 0..(L - 1) : d[i] = c[i + 1] - 1 /\ c[i + 1] \in Nat /\ i + 1 \in 1..L
  BY <1>4, <1>5, <1>6, <1>7
<1>9. d[0] = 0 /\ d[L - 1] = 0 + Len(rdCmd) /\ \A i \in 0..(L - 1), j \in 0..(L - 1) : i <= j => d[i] <= d[j]
  <2>1. d[0] = 0
    BY <1>4, <1>6, <1>8
  <2>2. d[L - 1] = 0 + Len(rdCmd)
    BY <1>4, <1>5, <1>8, <1>r
  <2>3. ASSUME NEW i \in 0..(L - 1), NEW j \in 0..(L - 1), i <= j
        PROVE  d[i] <= d[j]
    <3>1. c[i + 1] <= c[j + 1]
      BY <1>4, <1>5, <2>3
    <3> QED
      BY <1>8, <3>1
  <2> QED
    BY <2>1, <2>2, <2>3
<1>10. ASSUME NEW i \in 1..(L - 1)
       PROVE  /\ hdr'[i].len = 0 => d[i] = d[i - 1]
              /\ hdr'[i].len # 0 =>
                  /\ d[i] = d[i - 1] + 1
                  /\ d[i] # 0
                  /\ d[i] > 0 => rdCmd[d[i] - 0] = [addr |-> Ptr(hdr'[i].seq), len |-> hdr'[i].len]
  <2>1. PICK j : j = i + 1
    OBVIOUS
  <2>2. j \in 1..L /\ d[i] = c[j] - 1 /\ d[i - 1] = c[j - 1] - 1 /\ hdr'[i] = hdr[j]
        /\ c[j] \in Nat /\ c[j - 1] \in Nat /\ c[j - 1] >= 1
    <3>1. j \in 1..L /\ i \in 0..(L - 1) /\ i - 1 \in 0..(L - 1) /\ (i - 1) + 1 = j - 1 /\ j - 1 \in 1..L
      BY <1>4, <2>1
    <3> QED
      BY <1>4, <1>6, <1>8, <2>1, <3>1
  <2>3. hdr[j].len # 0 => c[j] = c[j - 1] + 1 /\ (c[j] > 1 => rdCmd[c[j] - 1] = [addr |-> Ptr(hdr[j].seq), len |-> hdr[j].len])
    BY <1>5, <2>2
  <2>4. hdr[j].len = 0 => c[j] = c[j - 1]
    BY <1>5, <2>2
  <2>5. d[i] - 0 = c[j] - 1
    BY <2>2
  <2>6. c[j] = c[j - 1] + 1 => c[j] > 1 /\ d[i] = d[i - 1] + 1 /\ d[i] # 0
    BY <2>2
  <2>7. c[j] = c[j - 1] => d[i] = d[i - 1]
    BY <2>2
  <2> QED
    BY <2>2, <2>3, <2>4, <2>5, <2>6, <2>7, Zenon
<1>11. Numbered(d)'
  BY <1>1, <1>4, <1>8, <1>9, <1>10, <1>b, Zenon DEF Numbered
<1>12. split' = <<>> /\ rdData' = <<>> /\ mrd'.len = 0 /\ Len(split') <= 1
  BY <1>1
<1> QED
  BY <1>11, <1>12, Zenon DEF ReadLine

LEMMA ReadKeep ==
    ASSUME ReadLine, UNCHANGED <<hdr, rdCmd, mrd, rdData, split>>
    PROVE  ReadLine'
  BY ZenonT(40) DEF ReadLine, Numbered, Busy

\* What Mdl sends.
LEMMA MdlSends ==
    ASSUME TxeTypes, MdlTx \/ MdlRt \/ MdlFin
    PROVE  \/ UNCHANGED <<hdr, rdCmd>>
           \/ \E seq, n, fin : Sent(seq, n, fin)
<1>1. ASSUME NEW seq \in 0..(SeqMod - 1), NEW n \in 0..(BufSize - 1), NEW fin \in BOOLEAN, Send(seq, n, fin)
      PROVE  \E a, b, c : Sent(a, b, c)
  BY <1>1, Zenon DEF Send, Sent
<1>2. ASSUME NEW seq \in 0..(SeqMod - 1), NEW n \in 0..(BufSize - 1), SendData(seq, n)
      PROVE  UNCHANGED <<hdr, rdCmd>> \/ \E a, b, c : Sent(a, b, c)
  BY <1>1, <1>2, Zenon DEF SendData
<1>3. /\ Sar \in States
      /\ CurrDatLen \in 0..(BufSize - 1) /\ UsableWindow \in Nat
      /\ InFlight \in 0..(BufSize - 1)
  BY MdlNumbers
<1>4. Sar.unak \in 0..(SeqMod - 1) /\ Sar.ackd \in 0..(SeqMod - 1) /\ Sar.unak \in Int
  BY <1>3, StateFields, Zenon
<1>5. CASE MdlTx
  <2>1. CASE TxFragment
    <3>1. /\ Mss < CurrDatLen \/ CurrDatLen > UsableWindow
          /\ CurrDatLen > UsableWindow => UsableWindow >= Mss
          /\ SendData(Sar.unak, Mss)
      BY <2>1 DEF TxFragment
    <3>2. Mss \in 0..(BufSize - 1)
      BY <1>3, <3>1, Sizes
    <3> QED
      BY <1>2, <1>4, <3>1, <3>2, Zenon
  <2>2. CASE TxLast
    <3>1. SendData(Sar.unak, LastLength) /\ LastLength \in 0..(BufSize - 1)
      BY <1>3, <2>2, TxLastIs, Sizes DEF LastLength
    <3> QED
      BY <1>2, <1>4, <3>1, Zenon
  <2> QED
    BY <1>5, <2>1, <2>2, Zenon DEF MdlTx
<1>6. CASE MdlRt
  <2>1. (InFlight > Mss /\ SendData(Sar.ackd, Mss)) \/ SendData(Sar.ackd, InFlight)
    BY <1>6, Zenon DEF MdlRt
  <2>2. InFlight > Mss => Mss \in 0..(BufSize - 1)
    BY <1>3, Sizes
  <2> QED
    BY <1>2, <1>3, <1>4, <2>1, <2>2, Zenon
<1>7. CASE MdlFin
  <2> DEFINE seq == IF mdl.rt THEN Minus(Sar.unak, 1, SeqMod) ELSE Sar.unak
  <2>1. Send(seq, 0, TRUE) \/ UNCHANGED <<hdr, rdCmd, timer>>
    BY <1>7, Zenon DEF MdlFin
  <2>2. seq \in 0..(SeqMod - 1) /\ 0 \in 0..(BufSize - 1)
    <3>1. 1 \in Int /\ SeqMod \in Nat \ {0} /\ 0 \in 0..(BufSize - 1)
      BY Sizes
    <3>2. Minus(Sar.unak, 1, SeqMod) \in 0..(SeqMod - 1)
      BY <1>4, <3>1, MinusRange, Zenon
    <3> QED
      BY <1>4, <3>1, <3>2, Zenon
  <2> HIDE DEF seq
  <2> QED
    BY <1>1, <2>1, <2>2, Zenon
<1> QED
  BY <1>5, <1>6, <1>7

LEMMA ReadLineStep ==
    ASSUME Types, ReadLine, [Next]_vars
    PROVE  ReadLine'
<1>0. Actions \/ UNCHANGED vars
  BY NextIs
<1>t. TxeTypes /\ WrTypes
  BY DEF Types
<1>1. CASE MdlTx \/ MdlRt \/ MdlFin
  <2>1. UNCHANGED <<mrd, rdData, split>>
    BY <1>1, Zenon DEF MdlTx, MdlRt, MdlFin
  <2>2. CASE UNCHANGED <<hdr, rdCmd>>
    BY <2>1, <2>2, ReadKeep, Zenon
  <2>3. CASE \E seq, n, fin : Sent(seq, n, fin)
    BY <1>t, <2>1, <2>3, ReadSent, Zenon
  <2> QED
    BY <1>1, <1>t, <2>2, <2>3, MdlSends, Zenon
<1>2. CASE MrdFirst
  BY <1>2, <1>t, ReadMrdFirst, Zenon
<1>3. CASE MrdSecond
  BY <1>3, <1>t, ReadMrdSecond, Zenon
<1>4. CASE TssHeader
  BY <1>4, <1>t, ReadTssHeader, Zenon
<1>5. CASE TssSegment
  BY <1>5, <1>t, ReadTssSegment, Zenon
<1>6. CASE UNCHANGED <<hdr, rdCmd, mrd, rdData, split>>
  BY <1>6, ReadKeep, Zenon
<1>7. CASE \/ AppRequest \/ AppClose \/ SmlRequest \/ TatAnswer \/ SmlAccept \/ SmlRefuse \/ TatPush \/ Emx
           \/ MwrIdle \/ MwrSplit \/ MwrAligned \/ MwrFirst \/ MwrUncut \/ MwrSecond \/ MwrResidue
  BY <1>6, <1>7, Zenon DEF AppRequest, AppClose, SmlRequest, TatAnswer, SmlAccept, SmlRefuse, TatPush, Emx, MwrIdle, MwrSplit,
     MwrAligned, MwrFirst, MwrUncut, MwrSecond, MwrResidue, txe
<1>8. CASE \/ TashIdle \/ TashStatus1 \/ TashStatus2 \/ MdlWait
           \/ RxeLoad \/ RxeTransition \/ TImExpire \/ (\E w \in Windows : PeerTakes(w)) \/ Lose \/ UNCHANGED vars
  BY <1>6, <1>8, Zenon DEF TashIdle, TashStatus1, TashStatus2, MdlWait, RxeLoad, RxeTransition, TImExpire, PeerTakes, Lose,
     txe, vars
<1> QED
  BY <1>0, <1>1, <1>2, <1>3, <1>4, <1>5, <1>7, <1>8, Zenon DEF Actions

----------------------------------------------------------------------------
(* The steps of Mdl *)

Processing(t) == mdl.st = "PROCESS_EVENT" /\ mdl.type = t

----------------------------------------------------------------------------
(* What Mdl does, field by field *)

SameButUnak(s, t) ==
    s.ackd = t.ackd /\ s.app = t.app /\ s.win = t.win /\ s.finReady = t.finReady /\ s.finSent = t.finSent
SameButAckd(s, t) ==
    s.unak = t.unak /\ s.app = t.app /\ s.win = t.win /\ s.finReady = t.finReady /\ s.finSent = t.finSent
MdlRest == UNCHANGED <<app, tat, sml, push, smlEv, tacEv, emxEv, tash, acks, wire, rxe, peer, mrd, rdData, split>>

Waits ==
    /\ mdl.st = "WAIT_EVENT" /\ evq # <<>>
    /\ mdl'.st = "PROCESS_EVENT" /\ mdl'.type = Head(evq) /\ (mdl'.rt <=> Head(evq) = "RT") /\ mdl'.sar = tst
    /\ evq' = Tail(evq)
    /\ UNCHANGED <<tst, hdr, rdCmd>> /\ MdlRest

\* A whole segment out of more.
FragmentIs ==
    /\ Processing("TX")
    /\ Mss < CurrDatLen \/ CurrDatLen > UsableWindow
    /\ CurrDatLen > UsableWindow => UsableWindow >= Mss
    /\ Sent(Sar.unak, Mss, FALSE)
    /\ mdl'.st = "PROCESS_EVENT" /\ mdl'.type = "TX" /\ mdl'.rt = mdl.rt
    /\ mdl'.sar.unak = Plus(Sar.unak, Mss) /\ SameButUnak(mdl'.sar, mdl.sar)
    /\ UNCHANGED <<tst, evq>> /\ MdlRest

LastIs(n) ==
    /\ Processing("TX")
    /\ n = (IF CurrDatLen <= UsableWindow THEN CurrDatLen ELSE UsableWindow)
    /\ IF n = 0 THEN UNCHANGED <<hdr, rdCmd>> ELSE Sent(Sar.unak, n, FALSE)
    /\ tst'.unak = Plus(Sar.unak, n) /\ SameButUnak(tst', tst)
    /\ mdl'.st = "WAIT_EVENT"
    /\ UNCHANGED evq /\ MdlRest

RtFragmentIs ==
    /\ Processing("RT") /\ InFlight > Mss
    /\ Sent(Sar.ackd, Mss, FALSE)
    /\ mdl'.st \in {"PROCESS_EVENT", "WAIT_EVENT"} /\ mdl'.type = "RT" /\ mdl'.rt = mdl.rt
    /\ mdl'.sar.ackd = Plus(Sar.ackd, Mss) /\ SameButAckd(mdl'.sar, mdl.sar)
    /\ UNCHANGED <<tst, evq>> /\ MdlRest

RtLastIs ==
    /\ Processing("RT") /\ InFlight <= Mss
    /\ IF InFlight = 0 THEN UNCHANGED <<hdr, rdCmd>> ELSE Sent(Sar.ackd, InFlight, FALSE)
    /\ \/ Sar.finSent /\ mdl'.st = "PROCESS_EVENT" /\ mdl'.type = "FIN" /\ mdl'.rt = mdl.rt /\ mdl'.sar = mdl.sar
       \/ ~Sar.finSent /\ mdl'.st = "WAIT_EVENT"
    /\ UNCHANGED <<tst, evq>> /\ MdlRest

FinAgain(seq) ==
    /\ Processing("FIN") /\ mdl.rt /\ seq = Minus(Sar.unak, 1, SeqMod)
    /\ IF MayCarryFin(seq) THEN Sent(seq, 0, TRUE) ELSE UNCHANGED <<hdr, rdCmd>>
    /\ mdl'.st = "WAIT_EVENT"
    /\ UNCHANGED <<tst, evq>> /\ MdlRest

FinFirst ==
    /\ Processing("FIN") /\ ~mdl.rt
    /\ IF MayCarryFin(Sar.unak) THEN Sent(Sar.unak, 0, TRUE) ELSE UNCHANGED <<hdr, rdCmd>>
    /\ tst'.finReady
    /\ IF Ptr(Sar.unak) = Sar.app THEN tst'.unak = Plus(Sar.unak, 1) /\ tst'.finSent
       ELSE tst'.unak = Sar.unak /\ tst'.finSent = tst.finSent
    /\ tst'.ackd = tst.ackd /\ tst'.app = tst.app /\ tst'.win = tst.win
    /\ mdl'.st = "WAIT_EVENT"
    /\ UNCHANGED evq /\ MdlRest

LEMMA SendIs ==
    ASSUME NEW seq \in 0..(SeqMod - 1), NEW n \in 0..(BufSize - 1), NEW fin \in BOOLEAN, Send(seq, n, fin)
    PROVE  Sent(seq, n, fin)
  BY Zenon DEF Send, Sent

LEMMA SendDataIs ==
    ASSUME NEW seq \in 0..(SeqMod - 1), NEW n \in 0..(BufSize - 1), SendData(seq, n)
    PROVE  IF n = 0 THEN UNCHANGED <<hdr, rdCmd>> ELSE Sent(seq, n, FALSE)
<1>1. FALSE \in BOOLEAN
  OBVIOUS
<1> QED
  BY <1>1, SendIs, Zenon DEF SendData

LEMMA MdlFields ==
    ASSUME TxeTypes
    PROVE  /\ mdl \in Mdls /\ tst \in States /\ mdl.sar \in States /\ Sar = mdl.sar
           /\ Sar.unak \in 0..(SeqMod - 1) /\ Sar.ackd \in 0..(SeqMod - 1)
           /\ CurrDatLen \in 0..(BufSize - 1) /\ UsableWindow \in Nat /\ InFlight \in 0..(BufSize - 1)
           /\ UsedLength \in 0..(BufSize - 1)
<1>1. mdl \in Mdls /\ tst \in States /\ mdl.sar \in States /\ Sar = mdl.sar
  <2>1. mdl \in Mdls /\ tst \in States
    BY Zenon DEF TxeTypes, Mdls
  <2> QED
    BY <2>1 DEF Mdls, Sar
<1>2. Sar.unak \in 0..(SeqMod - 1) /\ Sar.ackd \in 0..(SeqMod - 1)
  BY <1>1, StateFields, Zenon
<1> QED
  BY <1>1, <1>2, MdlNumbers, Zenon

LEMMA WaitsIs ==
    ASSUME TxeTypes, MdlWait
    PROVE  Waits
<1>1. /\ mdl.st = "WAIT_EVENT" /\ evq # <<>>
      /\ mdl' = [st |-> "PROCESS_EVENT", type |-> Head(evq), rt |-> Head(evq) = "RT", sar |-> tst, count |-> 0]
      /\ evq' = Tail(evq)
      /\ UNCHANGED <<tst, hdr, rdCmd>> /\ MdlRest
  BY Zenon DEF MdlWait, MdlRest, tai, net
<1>2. mdl'.st = "PROCESS_EVENT" /\ mdl'.type = Head(evq) /\ (mdl'.rt <=> Head(evq) = "RT") /\ mdl'.sar = tst
  BY <1>1
<1> QED
  BY <1>1, <1>2, Zenon DEF Waits

LEMMA FragmentDoes ==
    ASSUME TxeTypes, MdlTx, TxFragment
    PROVE  FragmentIs
<1>1. /\ Processing("TX")
      /\ Mss < CurrDatLen \/ CurrDatLen > UsableWindow
      /\ CurrDatLen > UsableWindow => UsableWindow >= Mss
      /\ SendData(Sar.unak, Mss)
      /\ mdl' = [mdl EXCEPT !.sar.unak = Plus(@, Mss)]
      /\ UNCHANGED <<tst, evq>> /\ MdlRest
  BY Zenon DEF MdlTx, TxFragment, Processing, MdlRest, tai, net
<1>2. Sent(Sar.unak, Mss, FALSE)
  <2>1. Mss \in 0..(BufSize - 1) /\ Mss # 0
    BY <1>1, MdlFields, Sizes
  <2> QED
    BY <1>1, <2>1, MdlFields, SendDataIs, Zenon
<1>3. mdl'.st = mdl.st /\ mdl'.type = mdl.type /\ mdl'.rt = mdl.rt
      /\ mdl'.sar.unak = Plus(Sar.unak, Mss) /\ SameButUnak(mdl'.sar, mdl.sar)
  <2>1. PICK u, s : u = Plus(Sar.unak, Mss) /\ s = [Sar EXCEPT !.unak = u]
    OBVIOUS
  <2>2. mdl' = [mdl EXCEPT !.sar = s]
    BY <1>1, <2>1, Zenon DEF Sar
  <2>3. mdl'.sar = s /\ mdl'.st = mdl.st /\ mdl'.type = mdl.type /\ mdl'.rt = mdl.rt
    BY <2>2, MdlFields DEF Mdls
  <2>4. s.unak = u /\ SameButUnak(s, Sar)
    BY <2>1, MdlFields DEF States, SameButUnak
  <2> QED
    BY <2>1, <2>3, <2>4, MdlFields, Zenon
<1> QED
  BY <1>1, <1>2, <1>3, Zenon DEF FragmentIs, Processing

LEMMA LastDoes ==
    ASSUME TxeTypes, MdlTx, TxLast, ~Sar.finReady
    PROVE  \E n \in 0..(BufSize - 1) : LastIs(n)
<1>1. PICK n : n = LastLength
  OBVIOUS
<1>2. ~FinDue
  BY DEF FinDue
<1>3. /\ Processing("TX")
      /\ SendData(Sar.unak, n)
      /\ tst' = [tst EXCEPT !.unak = Plus(Sar.unak, n)]
      /\ mdl' = [mdl EXCEPT !.st = "WAIT_EVENT", !.sar = NoSar, !.count = 0]
      /\ UNCHANGED evq /\ MdlRest
  BY <1>1, <1>2, TxLastIs, Zenon DEF MdlTx, Processing, MdlRest, tai, net
<1>4. n = IF CurrDatLen <= UsableWindow THEN CurrDatLen ELSE UsableWindow
  BY <1>1, <1>2 DEF LastLength
<1>5. n \in 0..(BufSize - 1)
  BY <1>4, MdlFields, Sizes
<1>6. IF n = 0 THEN UNCHANGED <<hdr, rdCmd>> ELSE Sent(Sar.unak, n, FALSE)
  BY <1>3, <1>5, MdlFields, SendDataIs, Zenon
<1>7. tst'.unak = Plus(Sar.unak, n) /\ SameButUnak(tst', tst)
  BY <1>3, MdlFields DEF States, SameButUnak
<1>8. mdl'.st = "WAIT_EVENT"
  BY <1>3, MdlIdles, Zenon
<1> QED
  BY <1>3, <1>4, <1>5, <1>6, <1>7, <1>8, Zenon DEF LastIs

LEMMA RtDoes ==
    ASSUME TxeTypes, MdlRt
    PROVE  RtFragmentIs \/ RtLastIs
<1>1. /\ Processing("RT") /\ UNCHANGED <<tst, evq>> /\ MdlRest
      /\ \/ /\ InFlight > Mss
            /\ SendData(Sar.ackd, Mss)
            /\ mdl' = [mdl EXCEPT !.sar.ackd = Plus(@, Mss), !.count = (@ + 1) % 4,
                                  !.st = IF mdl.count = 3 THEN "WAIT_EVENT" ELSE @]
         \/ /\ InFlight <= Mss
            /\ SendData(Sar.ackd, InFlight)
            /\ mdl' = IF Sar.finSent THEN [mdl EXCEPT !.type = "FIN"]
                      ELSE [mdl EXCEPT !.st = "WAIT_EVENT", !.sar = NoSar, !.count = 0]
  BY Zenon DEF MdlRt, Processing, MdlRest, tai, net
<1>2. CASE /\ InFlight > Mss
           /\ SendData(Sar.ackd, Mss)
           /\ mdl' = [mdl EXCEPT !.sar.ackd = Plus(@, Mss), !.count = (@ + 1) % 4,
                                 !.st = IF mdl.count = 3 THEN "WAIT_EVENT" ELSE @]
  <2>1. Mss \in 0..(BufSize - 1) /\ Mss # 0
    BY <1>2, MdlFields, Sizes
  <2>2. Sent(Sar.ackd, Mss, FALSE)
    BY <1>2, <2>1, MdlFields, SendDataIs, Zenon
  <2>3. PICK u, s, k, t : u = Plus(Sar.ackd, Mss) /\ s = [Sar EXCEPT !.ackd = u] /\ k = (mdl.count + 1) % 4
                          /\ t = IF mdl.count = 3 THEN "WAIT_EVENT" ELSE mdl.st
    OBVIOUS
  <2>4. mdl' = [mdl EXCEPT !.sar = s, !.count = k, !.st = t]
    BY <1>2, <2>3, Zenon DEF Sar
  <2>5. mdl'.sar = s /\ mdl'.st = t /\ mdl'.type = mdl.type /\ mdl'.rt = mdl.rt
    BY <2>4, MdlFields DEF Mdls
  <2>6. s.ackd = u /\ SameButAckd(s, Sar)
    BY <2>3, MdlFields DEF States, SameButAckd
  <2>7. t \in {"PROCESS_EVENT", "WAIT_EVENT"}
    BY <2>3, MdlFields DEF Mdls
  <2> QED
    BY <1>1, <1>2, <2>2, <2>3, <2>5, <2>6, <2>7, MdlFields, Zenon DEF RtFragmentIs, Processing
<1>3. CASE /\ InFlight <= Mss
           /\ SendData(Sar.ackd, InFlight)
           /\ mdl' = IF Sar.finSent THEN [mdl EXCEPT !.type = "FIN"]
                     ELSE [mdl EXCEPT !.st = "WAIT_EVENT", !.sar = NoSar, !.count = 0]
  <2>1. IF InFlight = 0 THEN UNCHANGED <<hdr, rdCmd>> ELSE Sent(Sar.ackd, InFlight, FALSE)
    BY <1>3, MdlFields, SendDataIs, Zenon
  <2>2. CASE Sar.finSent
    <3>1. mdl' = [mdl EXCEPT !.type = "FIN"]
      BY <1>3, <2>2
    <3>2. mdl'.st = mdl.st /\ mdl'.type = "FIN" /\ mdl'.rt = mdl.rt /\ mdl'.sar = mdl.sar
      BY <3>1, MdlFields DEF Mdls
    <3> QED
      BY <1>1, <1>3, <2>1, <2>2, <3>2, Zenon DEF RtLastIs, Processing
  <2>3. CASE ~Sar.finSent
    <3>1. mdl'.st = "WAIT_EVENT"
      BY <1>3, <2>3, MdlIdles, Zenon
    <3> QED
      BY <1>1, <1>3, <2>1, <2>3, <3>1, Zenon DEF RtLastIs
  <2> QED
    BY <2>2, <2>3
<1> QED
  BY <1>1, <1>2, <1>3, Zenon

LEMMA FinDoes ==
    ASSUME TxeTypes, MdlFin
    PROVE  FinFirst \/ \E seq \in 0..(SeqMod - 1) : FinAgain(seq)
<1>0. /\ Processing("FIN") /\ mdl' = [mdl EXCEPT !.st = "WAIT_EVENT", !.sar = NoSar, !.count = 0]
      /\ UNCHANGED evq /\ MdlRest
  BY Zenon DEF MdlFin, Processing, MdlRest, tai, net
<1>1. mdl'.st = "WAIT_EVENT"
  BY <1>0, MdlIdles, Zenon
<1>2. 0 \in 0..(BufSize - 1) /\ TRUE \in BOOLEAN /\ 1 \in Int /\ SeqMod \in Nat \ {0}
  BY Sizes
<1>3. CASE mdl.rt
  <2>1. PICK seq : seq = Minus(Sar.unak, 1, SeqMod)
    OBVIOUS
  <2>2. tst' = tst /\ IF MayCarryFin(seq) THEN Send(seq, 0, TRUE) ELSE UNCHANGED <<hdr, rdCmd, timer>>
    BY <1>3, <2>1, Zenon DEF MdlFin
  <2>3. seq \in 0..(SeqMod - 1)
    <3>1. Sar.unak \in Int
      BY MdlFields, Sizes
    <3> QED
      BY <1>2, <2>1, <3>1, MinusRange, Zenon
  <2>4. IF MayCarryFin(seq) THEN Sent(seq, 0, TRUE) ELSE UNCHANGED <<hdr, rdCmd>>
    BY <1>2, <2>2, <2>3, SendIs, Zenon
  <2> QED
    BY <1>0, <1>1, <1>3, <2>1, <2>2, <2>3, <2>4, Zenon DEF FinAgain
<1>4. CASE ~mdl.rt
  <2>1. /\ tst' = IF Sar.app = Ptr(Sar.unak) THEN [tst EXCEPT !.unak = Plus(Sar.unak, 1), !.finReady = TRUE, !.finSent = TRUE]
                  ELSE [tst EXCEPT !.unak = Sar.unak, !.finReady = TRUE]
        /\ IF MayCarryFin(Sar.unak) THEN Send(Sar.unak, 0, TRUE) ELSE UNCHANGED <<hdr, rdCmd, timer>>
    BY <1>4, Zenon DEF MdlFin
  <2>2. IF MayCarryFin(Sar.unak) THEN Sent(Sar.unak, 0, TRUE) ELSE UNCHANGED <<hdr, rdCmd>>
    BY <1>2, <2>1, MdlFields, SendIs, Zenon
  <2>3. /\ tst'.finReady
        /\ IF Ptr(Sar.unak) = Sar.app THEN tst'.unak = Plus(Sar.unak, 1) /\ tst'.finSent
           ELSE tst'.unak = Sar.unak /\ tst'.finSent = tst.finSent
        /\ tst'.ackd = tst.ackd /\ tst'.app = tst.app /\ tst'.win = tst.win
    <3>0. tst \in States
      BY MdlFields
    <3>1. CASE Sar.app = Ptr(Sar.unak)
      <4>1. tst' = [tst EXCEPT !.unak = Plus(Sar.unak, 1), !.finReady = TRUE, !.finSent = TRUE]
        BY <2>1, <3>1
      <4> QED
        BY <3>0, <3>1, <4>1 DEF States
    <3>2. CASE Sar.app # Ptr(Sar.unak)
      <4>1. tst' = [tst EXCEPT !.unak = Sar.unak, !.finReady = TRUE]
        BY <2>1, <3>2
      <4> QED
        BY <3>0, <3>2, <4>1 DEF States
    <3> QED
      BY <3>1, <3>2
  <2> QED
    BY <1>0, <1>1, <1>4, <2>2, <2>3, Zenon DEF FinFirst
<1> QED
  BY <1>3, <1>4

----------------------------------------------------------------------------
(* The way of the FIN: from Tac to Emx, to Tash, to Mdl *)

FinBehindData == tacEv = <<>> \/ smlEv = <<>>

\* A step that accepts data does so before the close.
InTime == SmlAccept => ~app.closed

\* Mdl is about to send the first FIN; it is, or it has been.
FinNow == Processing("FIN") /\ ~mdl.rt
Closing == FinNow \/ tst.finReady
NoData == smlEv = <<>> /\ emxEv = <<>> /\ tash.st = "IDLE"
NoTx == \A i \in 1..Len(evq) : evq[i] = "RT"
NoFinEvent == \A i \in 1..Len(evq) : evq[i] # "FIN"

FinAtTac ==
    tacEv # <<>> =>
        /\ app.closed /\ tacEv = <<Event("FIN", 0, 0)>>
        /\ \A i \in 1..Len(emxEv) : emxEv[i].type = "TX"
        /\ NoFinEvent /\ ~Closing
FinAtEmx ==
    \A i \in 1..Len(emxEv) : emxEv[i].type # "TX" =>
        /\ app.closed /\ i = Len(emxEv) /\ tacEv = <<>> /\ smlEv = <<>>
        /\ NoFinEvent /\ ~Closing
FinAtQueue ==
    \A i \in 1..Len(evq) : evq[i] = "FIN" =>
        /\ app.closed /\ tacEv = <<>> /\ NoData /\ ~Closing
        /\ \A j \in 1..Len(evq) : j > i => evq[j] = "RT"
FinAtMdl ==
    /\ Closing => app.closed /\ tacEv = <<>> /\ NoData /\ NoTx /\ ~Processing("TX")
    /\ FinNow => ~tst.finReady
    /\ tst.finSent => tst.finReady
MdlCopies ==
    mdl.st = "PROCESS_EVENT" =>
        /\ mdl.rt <=> mdl.type = "RT" \/ (mdl.type = "FIN" /\ mdl.sar.finSent)
        /\ mdl.sar.finReady = tst.finReady /\ mdl.sar.finSent = tst.finSent
DataEvents ==
    /\ \A i \in 1..Len(smlEv) : smlEv[i].type = "TX"
    /\ tash.st # "IDLE" => tash.ev.type = "TX"
FinLine == FinAtTac /\ FinAtEmx /\ FinAtQueue /\ FinAtMdl /\ MdlCopies /\ DataEvents

LEMMA FinKeep ==
    ASSUME FinLine, UNCHANGED <<tacEv, smlEv, emxEv, evq, mdl>>,
           app'.closed = app.closed, tash'.st = tash.st, tash'.ev.type = tash.ev.type,
           tst'.finReady = tst.finReady, tst'.finSent = tst.finSent
    PROVE  FinLine'
  BY Zenon DEF FinLine, FinAtTac, FinAtEmx, FinAtQueue, FinAtMdl, MdlCopies, DataEvents, NoTx, NoFinEvent, NoData, Closing,
     FinNow, Processing

LEMMA EmptyTail ==
    ASSUME NEW S, NEW s \in Seq(S), s # <<>>, Len(s) = 1
    PROVE  Tail(s) = <<>>
<1>1. PICK t : t = Tail(s)
  OBVIOUS
<1>2. t \in Seq(S) /\ Len(t) = 0
  BY <1>1
<1> QED
  BY <1>1, <1>2

LEMMA FinAppClose ==
    ASSUME TaiTypes, FinLine, AppClose
    PROVE  FinLine'
<1>1. /\ ~app.closed /\ app' = [app EXCEPT !.closed = TRUE, !.due = LeftSml] /\ tacEv' = Append(tacEv, Event("FIN", 0, 0))
      /\ UNCHANGED <<smlEv, emxEv, evq, mdl, tash, tst>>
  BY Zenon DEF AppClose, txe
<1>2. app'.closed
  BY <1>1 DEF TaiTypes
<1>3. tacEv = <<>> /\ (\A i \in 1..Len(emxEv) : emxEv[i].type = "TX") /\ NoFinEvent /\ ~Closing
  BY <1>1, Zenon DEF FinLine, FinAtTac, FinAtEmx, FinAtQueue, FinAtMdl, NoFinEvent
<1>4. tacEv' = <<Event("FIN", 0, 0)>>
  <2>1. PICK e : e = Event("FIN", 0, 0)
    OBVIOUS
  <2>2. Append(<<>>, e) = <<e>>
    OBVIOUS
  <2> QED
    BY <1>1, <1>3, <2>1, <2>2
<1>5. NoFinEvent' /\ ~Closing' /\ NoTx' = NoTx /\ NoData' = NoData
  BY <1>1, <1>3, Zenon DEF NoFinEvent, Closing, FinNow, Processing, NoTx, NoData
<1>6. FinAtTac' /\ FinAtEmx' /\ FinAtQueue'
  BY <1>1, <1>2, <1>3, <1>4, <1>5, Zenon DEF FinAtTac, FinAtEmx, FinAtQueue, NoFinEvent
<1>7. FinAtMdl' /\ MdlCopies' /\ DataEvents'
  BY <1>1, <1>5, Zenon DEF FinLine, FinAtMdl, MdlCopies, DataEvents, Closing, FinNow, Processing
<1> QED
  BY <1>6, <1>7, Zenon DEF FinLine

LEMMA FinSmlAccept ==
    ASSUME TaiTypes, FinLine, SmlAccept, ~app.closed
    PROVE  FinLine'
<1>1. /\ smlEv' = Append(smlEv, Event("TX", sml.rep.mempt, sml.len)) /\ app'.closed = app.closed
      /\ UNCHANGED <<tacEv, emxEv, evq, mdl, tash, tst>>
  <2>1. app' = [app EXCEPT !.req = 0, !.next = @ + sml.len]
    BY Zenon DEF SmlAccept
  <2>2. app'.closed = app.closed
    BY <2>1 DEF TaiTypes
  <2> QED
    BY <2>2, Zenon DEF SmlAccept, txe
<1>3. tacEv = <<>> /\ (\A i \in 1..Len(emxEv) : emxEv[i].type = "TX") /\ NoFinEvent /\ ~Closing
  BY <1>1, Zenon DEF FinLine, FinAtTac, FinAtEmx, FinAtQueue, FinAtMdl, NoFinEvent
<1>5. NoFinEvent' /\ ~Closing' /\ NoTx' = NoTx
  BY <1>1, <1>3, Zenon DEF NoFinEvent, Closing, FinNow, Processing, NoTx
<1>6. FinAtTac' /\ FinAtEmx' /\ FinAtQueue'
  BY <1>1, <1>3, <1>5, Zenon DEF FinAtTac, FinAtEmx, FinAtQueue, NoFinEvent
<1>7. FinAtMdl' /\ MdlCopies'
  BY <1>1, <1>5, Zenon DEF FinLine, FinAtMdl, MdlCopies, Closing, FinNow, Processing
<1>8. DataEvents'
  <2>1. \A i \in 1..Len(smlEv) : smlEv[i].type = "TX"
    BY DEF FinLine, DataEvents
  <2>2. PICK e : e = Event("TX", sml.rep.mempt, sml.len)
    OBVIOUS
  <2>3. e.type = "TX"
    BY <2>2 DEF Event
  <2>4. smlEv \in Seq(Events)
    BY DEF TaiTypes
  <2>5. \A i \in 1..Len(smlEv') : smlEv'[i].type = "TX"
    <3>1. smlEv' = Append(smlEv, e)
      BY <1>1, <2>2
    <3> QED
      BY <2>1, <2>3, <2>4, <3>1
  <2>6. tash.st # "IDLE" => tash.ev.type = "TX"
    BY DEF FinLine, DataEvents
  <2> QED
    BY <1>1, <2>5, <2>6, Zenon DEF DataEvents
<1> QED
  BY <1>6, <1>7, <1>8, Zenon DEF FinLine

LEMMA FinEmx ==
    ASSUME TaiTypes, FinLine, FinBehindData, Emx
    PROVE  FinLine'
<1>1. /\ \/ /\ tacEv # <<>>
            /\ emxEv' = Append(emxEv, Head(tacEv)) /\ tacEv' = Tail(tacEv) /\ UNCHANGED smlEv
         \/ /\ tacEv = <<>> /\ smlEv # <<>>
            /\ emxEv' = Append(emxEv, Head(smlEv)) /\ smlEv' = Tail(smlEv) /\ UNCHANGED tacEv
      /\ UNCHANGED <<app, evq, mdl, tash, tst>>
  BY Zenon DEF Emx, txe
<1>2. smlEv \in Seq(Events) /\ tacEv \in Seq(Events) /\ emxEv \in Seq(Events)
  BY DEF TaiTypes
<1>3. NoFinEvent' = NoFinEvent /\ Closing' = Closing /\ NoTx' = NoTx
  BY <1>1, Zenon DEF NoFinEvent, Closing, FinNow, Processing, NoTx
<1>4. FinAtTac /\ FinAtEmx /\ FinAtQueue /\ FinAtMdl /\ MdlCopies /\ DataEvents
  BY DEF FinLine
<1>5. MdlCopies'
  BY <1>1, <1>4, Zenon DEF MdlCopies
<1>6. CASE tacEv # <<>>
  <2>1. emxEv' = Append(emxEv, Head(tacEv)) /\ tacEv' = Tail(tacEv) /\ smlEv' = smlEv /\ smlEv = <<>>
    BY <1>1, <1>6 DEF FinBehindData
  <2>2. app.closed /\ tacEv = <<Event("FIN", 0, 0)>> /\ (\A i \in 1..Len(emxEv) : emxEv[i].type = "TX") /\ NoFinEvent /\ ~Closing
    BY <1>4, <1>6, Zenon DEF FinAtTac
  <2>3. tacEv' = <<>>
    BY <1>2, <1>6, <2>1, <2>2, EmptyTail
  <2>4. PICK e : e = Head(tacEv)
    OBVIOUS
  <2>5. emxEv' = Append(emxEv, e)
    BY <2>1, <2>4
  <2>6. Len(emxEv') = Len(emxEv) + 1 /\ Len(emxEv) \in Nat /\ \A i \in 1..Len(emxEv) : emxEv'[i].type = "TX"
    <3>1. e \in Events
      BY <1>2, <1>6, <2>4, HeadTail, Zenon
    <3> QED
      BY <1>2, <2>2, <2>5, <3>1
  <2>7. \A i \in 1..Len(emxEv') : emxEv'[i].type # "TX" => i = Len(emxEv')
    BY <2>6
  <2>8. FinAtTac' /\ FinAtEmx' /\ FinAtQueue'
    BY <1>1, <1>3, <2>1, <2>2, <2>3, <2>7, Zenon DEF FinAtTac, FinAtEmx, FinAtQueue, NoFinEvent
  <2>9. FinAtMdl'
    BY <1>1, <1>3, <1>4, <2>2, Zenon DEF FinAtMdl, Closing, FinNow, Processing
  <2>10. DataEvents'
    BY <1>1, <1>4, <2>1, Zenon DEF DataEvents
  <2> QED
    BY <1>5, <2>8, <2>9, <2>10, Zenon DEF FinLine
<1>7. CASE tacEv = <<>>
  <2>1. smlEv # <<>> /\ emxEv' = Append(emxEv, Head(smlEv)) /\ smlEv' = Tail(smlEv) /\ tacEv' = <<>>
    BY <1>1, <1>7
  <2>2. (\A i \in 1..Len(emxEv) : emxEv[i].type = "TX") /\ NoFinEvent /\ ~Closing
    BY <1>4, <2>1, Zenon DEF FinAtEmx, FinAtQueue, FinAtMdl, NoData, NoFinEvent
  <2>3. PICK e : e = Head(smlEv)
    OBVIOUS
  <2>4. e \in Events /\ e = smlEv[1] /\ 1 \in 1..Len(smlEv)
    <3>1. e \in Events /\ e = smlEv[1] /\ Len(smlEv) \in Nat \ {0}
      BY <1>2, <2>1, <2>3, HeadTail, Zenon
    <3> QED
      BY <3>1
  <2>5. e.type = "TX"
    BY <1>4, <2>4, Zenon DEF DataEvents
  <2>6. \A i \in 1..Len(emxEv') : emxEv'[i].type = "TX"
    <3>1. emxEv' = Append(emxEv, e)
      BY <2>1, <2>3
    <3> QED
      BY <1>2, <2>2, <2>4, <2>5, <3>1
  <2>7. \A i \in 1..Len(smlEv') : smlEv'[i].type = "TX"
    <3>1. \A i \in 1..Len(smlEv') : i + 1 \in 1..Len(smlEv) /\ smlEv'[i] = smlEv[i + 1]
      BY <1>2, <2>1, HeadTail, Zenon
    <3> QED
      BY <1>4, <3>1, Zenon DEF DataEvents
  <2>8. FinAtTac' /\ FinAtEmx' /\ FinAtQueue'
    BY <1>1, <1>3, <2>1, <2>2, <2>6, Zenon DEF FinAtTac, FinAtEmx, FinAtQueue, NoFinEvent
  <2>9. FinAtMdl'
    BY <1>1, <1>3, <1>4, <2>2, Zenon DEF FinAtMdl, Closing, FinNow, Processing
  <2>10. DataEvents'
    BY <1>1, <1>4, <2>7, Zenon DEF DataEvents
  <2> QED
    BY <1>5, <2>8, <2>9, <2>10, Zenon DEF FinLine
<1> QED
  BY <1>6, <1>7

LEMMA FinTashIdle ==
    ASSUME TaiTypes, TxeTypes, FinLine, TashIdle
    PROVE  FinLine'
<1>1. /\ tash.st = "IDLE" /\ emxEv # <<>>
      /\ \/ /\ Head(emxEv).type = "TX"
            /\ tash' = [st |-> "RD_MEM_STATUS_1", ev |-> Head(emxEv)] /\ UNCHANGED evq
         \/ /\ Head(emxEv).type # "TX"
            /\ evq' = Append(evq, Head(emxEv).type) /\ UNCHANGED tash
      /\ emxEv' = Tail(emxEv)
      /\ UNCHANGED <<app, smlEv, tacEv, mdl, tst>>
  BY Zenon DEF TashIdle, txe
<1>2. emxEv \in Seq(Events) /\ evq \in Seq({"TX", "RT", "FIN"})
  BY DEF TaiTypes, TxeTypes
<1>3. PICK e : e = Head(emxEv)
  OBVIOUS
<1>4. e \in Events /\ e = emxEv[1] /\ Len(emxEv) \in Nat \ {0} /\ Len(emxEv') = Len(emxEv) - 1
      /\ \A i \in 1..Len(emxEv') : i + 1 \in 1..Len(emxEv) /\ emxEv'[i] = emxEv[i + 1]
  BY <1>1, <1>2, <1>3, HeadTail, Zenon
<1>5. FinAtTac /\ FinAtEmx /\ FinAtQueue /\ FinAtMdl /\ MdlCopies /\ DataEvents
  BY DEF FinLine
<1>6. NoFinEvent /\ ~Closing /\ Closing' = Closing
  BY <1>1, <1>5, Zenon DEF FinAtQueue, FinAtMdl, NoData, NoFinEvent, Closing, FinNow, Processing
<1>7. MdlCopies'
  BY <1>1, <1>5, Zenon DEF MdlCopies
<1>8. FinAtMdl'
  BY <1>1, <1>5, <1>6, Zenon DEF FinAtMdl, Closing, FinNow, Processing
<1>9. e.type \in {"TX", "FIN"}
  BY <1>4 DEF Events
<1>10. 1 \in 1..Len(emxEv)
  BY <1>4
<1>11. CASE e.type = "TX"
  <2>1. tash' = [st |-> "RD_MEM_STATUS_1", ev |-> e] /\ evq' = evq
    BY <1>1, <1>3, <1>11
  <2>2. tash'.ev.type = "TX"
    BY <1>11, <2>1
  <2>3. NoFinEvent'
    BY <1>6, <2>1, Zenon DEF NoFinEvent
  <2>4. FinAtTac'
    <3>1. ASSUME tacEv' # <<>>
          PROVE  app'.closed /\ tacEv' = <<Event("FIN", 0, 0)>> /\ \A i \in 1..Len(emxEv') : emxEv'[i].type = "TX"
      BY <1>1, <1>4, <1>5, <3>1, Zenon DEF FinAtTac
    <3> QED
      BY <1>6, <2>3, <3>1, Zenon DEF FinAtTac
  <2>5. FinAtEmx'
    <3>1. ASSUME NEW i \in 1..Len(emxEv'), emxEv'[i].type # "TX"
          PROVE  app'.closed /\ i = Len(emxEv') /\ tacEv' = <<>> /\ smlEv' = <<>>
      <4>1. app.closed /\ i + 1 = Len(emxEv) /\ tacEv = <<>> /\ smlEv = <<>>
        BY <1>4, <1>5, <3>1, Zenon DEF FinAtEmx
      <4>2. i = Len(emxEv')
        BY <1>4, <4>1
      <4> QED
        BY <1>1, <4>1, <4>2, Zenon
    <3> QED
      BY <1>6, <2>3, <3>1, Zenon DEF FinAtEmx
  <2>6. FinAtQueue'
    BY <2>3, Zenon DEF FinAtQueue, NoFinEvent
  <2>7. DataEvents'
    BY <1>1, <1>5, <2>2, Zenon DEF DataEvents
  <2> QED
    BY <1>7, <1>8, <2>4, <2>5, <2>6, <2>7, Zenon DEF FinLine
<1>12. CASE e.type = "FIN"
  <2>1. evq' = Append(evq, "FIN") /\ tash' = tash
    BY <1>1, <1>3, <1>12
  <2>2. app.closed /\ Len(emxEv) = 1 /\ tacEv = <<>> /\ smlEv = <<>>
    <3>1. emxEv[1].type # "TX"
      BY <1>4, <1>12
    <3>2. app.closed /\ 1 = Len(emxEv) /\ tacEv = <<>> /\ smlEv = <<>>
      BY <1>5, <1>10, <3>1, Zenon DEF FinAtEmx
    <3> QED
      BY <3>2
  <2>3. emxEv' = <<>>
    BY <1>1, <1>2, <2>2, EmptyTail
  <2>4. NoData'
    BY <1>1, <2>1, <2>2, <2>3, Zenon DEF NoData
  <2>5. Len(evq') = Len(evq) + 1 /\ Len(evq) \in Nat /\ \A i \in 1..Len(evq) : evq'[i] # "FIN"
    BY <1>2, <1>6, <2>1 DEF NoFinEvent
  <2>6. FinAtTac' /\ FinAtEmx'
    <3>1. tacEv' = <<>>
      BY <1>1, <2>2
    <3>2. \A i \in 1..Len(emxEv') : FALSE
      BY <2>3
    <3> QED
      BY <3>1, <3>2, Zenon DEF FinAtTac, FinAtEmx
  <2>7. FinAtQueue'
    <3>1. ASSUME NEW i \in 1..Len(evq'), evq'[i] = "FIN"
          PROVE  \A j \in 1..Len(evq') : ~(j > i)
      BY <2>5, <3>1
    <3> QED
      BY <1>1, <1>6, <2>2, <2>4, <3>1, Zenon DEF FinAtQueue
  <2>8. DataEvents'
    BY <1>1, <1>5, <2>1, Zenon DEF DataEvents
  <2> QED
    BY <1>7, <1>8, <2>6, <2>7, <2>8, Zenon DEF FinLine
<1> QED
  BY <1>9, <1>11, <1>12

LEMMA FinTashStatus ==
    ASSUME TaiTypes, TxeTypes, FinLine, TashStatus1 \/ TashStatus2
    PROVE  FinLine'
<1>1. /\ tash.st # "IDLE" /\ UNCHANGED <<app, smlEv, tacEv, emxEv, mdl>>
      /\ \/ tash' = [tash EXCEPT !.st = "RD_MEM_STATUS_2"] /\ UNCHANGED <<tst, evq>>
         \/ Announce
  <2>1. tash.st = "RD_MEM_STATUS_1" \/ tash.st = "RD_MEM_STATUS_2"
    BY Zenon DEF TashStatus1, TashStatus2
  <2>2. tash.st # "IDLE"
    BY <2>1
  <2> QED
    BY <2>2, Zenon DEF TashStatus1, TashStatus2, txe
<1>5. FinAtTac /\ FinAtEmx /\ FinAtQueue /\ FinAtMdl /\ MdlCopies /\ DataEvents
  BY DEF FinLine
<1>6. NoFinEvent /\ ~Closing
  BY <1>1, <1>5, Zenon DEF FinAtQueue, FinAtMdl, NoData, NoFinEvent
<1>7. CASE tash' = [tash EXCEPT !.st = "RD_MEM_STATUS_2"] /\ UNCHANGED <<tst, evq>>
  <2>1. tash'.ev = tash.ev
    BY <1>7 DEF TaiTypes
  <2>2. NoFinEvent' /\ ~Closing'
    BY <1>1, <1>6, <1>7, Zenon DEF NoFinEvent, Closing, FinNow, Processing
  <2>3. FinAtTac' /\ FinAtEmx' /\ FinAtQueue'
    BY <1>1, <1>5, <1>7, <2>2, Zenon DEF FinAtTac, FinAtEmx, FinAtQueue, NoFinEvent
  <2>4. FinAtMdl' /\ MdlCopies'
    BY <1>1, <1>5, <1>7, <2>2, Zenon DEF FinAtMdl, MdlCopies, Closing, FinNow, Processing
  <2>5. DataEvents'
    BY <1>1, <1>5, <2>1, Zenon DEF DataEvents
  <2> QED
    BY <2>3, <2>4, <2>5, Zenon DEF FinLine
<1>8. CASE Announce
  <2>1. /\ tst' = [tst EXCEPT !.app = Ptr(TxAppPtr)]
        /\ evq' = Append(evq, "TX")
        /\ tash' = [tash EXCEPT !.st = "IDLE"]
    BY <1>8 DEF Announce
  <2>2. tst'.finReady = tst.finReady /\ tst'.finSent = tst.finSent
    BY <2>1 DEF TxeTypes, States
  <2>3. tash'.st = "IDLE"
    BY <2>1 DEF TaiTypes
  <2>4. NoFinEvent'
    <3>1. evq \in Seq({"TX", "RT", "FIN"})
      BY DEF TxeTypes
    <3> QED
      BY <1>6, <2>1, <3>1 DEF NoFinEvent
  <2>5. ~Closing'
    BY <1>1, <1>6, <2>2, Zenon DEF Closing, FinNow, Processing
  <2>6. FinAtTac' /\ FinAtEmx' /\ FinAtQueue'
    BY <1>1, <1>5, <2>4, <2>5, Zenon DEF FinAtTac, FinAtEmx, FinAtQueue, NoFinEvent
  <2>7. FinAtMdl' /\ MdlCopies'
    BY <1>1, <1>5, <2>2, <2>5, Zenon DEF FinAtMdl, MdlCopies, Closing, FinNow, Processing
  <2>8. DataEvents'
    BY <1>1, <1>5, <2>3, Zenon DEF DataEvents
  <2> QED
    BY <2>6, <2>7, <2>8, Zenon DEF FinLine
<1> QED
  BY <1>1, <1>7, <1>8

LEMMA FinMdlWait ==
    ASSUME TaiTypes, TxeTypes, FinLine, MdlWait
    PROVE  FinLine'
<1>1. /\ mdl.st = "WAIT_EVENT" /\ evq # <<>>
      /\ mdl'.st = "PROCESS_EVENT" /\ mdl'.type = Head(evq) /\ (mdl'.rt <=> Head(evq) = "RT") /\ mdl'.sar = tst
      /\ evq' = Tail(evq)
      /\ UNCHANGED <<tst, app, smlEv, tacEv, emxEv, tash>>
  BY WaitsIs, Zenon DEF Waits, MdlRest
<1>2. PICK t : t = Head(evq)
  OBVIOUS
<1>3. t \in {"TX", "RT", "FIN"} /\ t = evq[1] /\ Len(evq) \in Nat \ {0} /\ Len(evq') = Len(evq) - 1
      /\ \A i \in 1..Len(evq') : i + 1 \in 1..Len(evq) /\ evq'[i] = evq[i + 1]
  <2>1. PICK T : T = {"TX", "RT", "FIN"}
    OBVIOUS
  <2>2. evq \in Seq(T)
    BY <2>1 DEF TxeTypes
  <2>3. t \in T /\ t = evq[1] /\ Len(evq) \in Nat \ {0} /\ Len(evq') = Len(evq) - 1
      /\ \A i \in 1..Len(evq') : i + 1 \in 1..Len(evq) /\ evq'[i] = evq[i + 1]
    BY <1>1, <1>2, <2>2, HeadTail, Zenon
  <2> QED
    BY <2>1, <2>3, Zenon
<1>4. 1 \in 1..Len(evq) /\ \A i \in 1..Len(evq') : i + 1 > 1
  BY <1>3
<1>5. FinAtTac /\ FinAtEmx /\ FinAtQueue /\ FinAtMdl /\ MdlCopies /\ DataEvents
  BY DEF FinLine
<1>6. ~FinNow
  BY <1>1 DEF FinNow, Processing
<1>7. DataEvents'
  BY <1>1, <1>5, Zenon DEF DataEvents
<1>8. NoData' = NoData /\ (NoFinEvent => NoFinEvent') /\ (NoTx => NoTx')
  BY <1>1, <1>3, Zenon DEF NoData, NoFinEvent, NoTx
<1>9. CASE t = "FIN"
  <2>1. app.closed /\ tacEv = <<>> /\ NoData /\ ~Closing /\ \A j \in 1..Len(evq) : j > 1 => evq[j] = "RT"
    BY <1>3, <1>4, <1>5, <1>9, Zenon DEF FinAtQueue
  <2>2. NoTx'
    <3>1. \A i \in 1..Len(evq') : evq'[i] = "RT"
      BY <1>3, <1>4, <2>1, Zenon
    <3> QED
      BY <3>1, Zenon DEF NoTx
  <2>3. NoFinEvent'
    <3>1. \A i \in 1..Len(evq') : evq'[i] = "RT"
      BY <2>2 DEF NoTx
    <3> QED
      BY <3>1 DEF NoFinEvent
  <2>4. ~tst.finReady /\ ~tst.finSent
    BY <1>5, <2>1, Zenon DEF Closing, FinAtMdl
  <2>5. FinAtMdl'
    <3>1. ~Processing("TX")'
      BY <1>1, <1>2, <1>9 DEF Processing
    <3> QED
      BY <1>1, <1>8, <2>1, <2>2, <2>4, <3>1, Zenon DEF FinAtMdl
  <2>6. MdlCopies'
    <3>1. mdl'.type = "FIN" /\ ~mdl'.rt
      BY <1>1, <1>2, <1>9
    <3>2. ~(mdl'.type = "RT")
      BY <3>1
    <3> QED
      BY <1>1, <2>4, <3>1, <3>2, Zenon DEF MdlCopies
  <2>7. FinAtTac' /\ FinAtEmx' /\ FinAtQueue'
    <3>1. tacEv' = <<>> /\ emxEv' = <<>>
      BY <1>1, <2>1 DEF NoData
    <3>2. \A i \in 1..Len(emxEv') : FALSE
      BY <3>1
    <3> QED
      BY <2>3, <3>1, <3>2, Zenon DEF FinAtTac, FinAtEmx, FinAtQueue, NoFinEvent
  <2> QED
    BY <1>7, <2>5, <2>6, <2>7, Zenon DEF FinLine
<1>10. CASE t # "FIN"
  <2>1. ~FinNow' /\ Closing' = Closing
    <3>1. ~FinNow'
      BY <1>1, <1>2, <1>10 DEF FinNow, Processing
    <3> QED
      BY <1>1, <1>6, <3>1, Zenon DEF Closing
  <2>2. FinAtTac' /\ FinAtEmx'
    BY <1>1, <1>5, <1>8, <2>1, Zenon DEF FinAtTac, FinAtEmx
  <2>3. FinAtQueue'
    <3>1. ASSUME NEW i \in 1..Len(evq'), evq'[i] = "FIN"
          PROVE  /\ app.closed /\ tacEv = <<>> /\ NoData /\ ~Closing
                 /\ \A j \in 1..Len(evq') : j > i => evq'[j] = "RT"
      <4>1. PICK k : k = i + 1
        OBVIOUS
      <4>2. k \in 1..Len(evq) /\ evq[k] = "FIN"
        BY <1>3, <3>1, <4>1, Zenon
      <4>3. /\ app.closed /\ tacEv = <<>> /\ NoData /\ ~Closing
            /\ \A j \in 1..Len(evq) : j > k => evq[j] = "RT"
        BY <1>5, <4>2, Zenon DEF FinAtQueue
      <4>4. ASSUME NEW j \in 1..Len(evq'), j > i
            PROVE  evq'[j] = "RT"
        <5>1. j + 1 > k /\ j + 1 \in 1..Len(evq) /\ evq'[j] = evq[j + 1]
          BY <1>3, <4>1, <4>4
        <5> QED
          BY <4>3, <5>1, Zenon
      <4> QED
        BY <4>3, <4>4
    <3> QED
      BY <1>1, <1>8, <2>1, <3>1, Zenon DEF FinAtQueue
  <2>4. FinAtMdl'
    <3>1. Closing => t = "RT"
      BY <1>3, <1>4, <1>5, Zenon DEF FinAtMdl, NoTx
    <3>2. Closing => ~Processing("TX")'
      BY <1>1, <1>2, <3>1 DEF Processing
    <3> QED
      BY <1>1, <1>5, <1>8, <2>1, <3>2, Zenon DEF FinAtMdl
  <2>5. MdlCopies'
    BY <1>1, <1>2, <1>10, Zenon DEF MdlCopies
  <2> QED
    BY <1>7, <2>2, <2>3, <2>4, <2>5, Zenon DEF FinLine
<1> QED
  BY <1>9, <1>10

LEMMA FinMdlTx ==
    ASSUME TaiTypes, TxeTypes, FinLine, MdlTx
    PROVE  FinLine'
<1>5. FinAtTac /\ FinAtEmx /\ FinAtQueue /\ FinAtMdl /\ MdlCopies /\ DataEvents
  BY DEF FinLine
<1>1. Processing("TX")
  BY Zenon DEF MdlTx, Processing
<1>2. ~Closing /\ ~tst.finReady
  BY <1>1, <1>5, Zenon DEF FinAtMdl, Closing
<1>3. ~Sar.finReady
  BY <1>1, <1>2, <1>5, Zenon DEF MdlCopies, Processing, Sar
<1>4. /\ UNCHANGED <<evq, app, smlEv, tacEv, emxEv, tash>>
      /\ tst'.finReady = tst.finReady /\ tst'.finSent = tst.finSent
      /\ \/ mdl'.st = "WAIT_EVENT"
         \/ mdl'.st = "PROCESS_EVENT" /\ mdl'.type = "TX" /\ mdl'.rt = mdl.rt
            /\ mdl'.sar.finReady = mdl.sar.finReady /\ mdl'.sar.finSent = mdl.sar.finSent
  <2>1. CASE TxFragment
    BY <2>1, FragmentDoes, Zenon DEF FragmentIs, MdlRest, SameButUnak
  <2>2. CASE TxLast
    <3>1. PICK n \in 0..(BufSize - 1) : LastIs(n)
      BY <1>3, <2>2, LastDoes, Zenon
    <3> QED
      BY <3>1, Zenon DEF LastIs, MdlRest, SameButUnak
  <2> QED
    BY <2>1, <2>2, Zenon DEF MdlTx
<1>6. ~FinNow' /\ ~Closing'
  <2>1. ~FinNow'
    BY <1>4 DEF FinNow, Processing
  <2> QED
    BY <1>2, <1>4, <2>1, Zenon DEF Closing
<1>7. NoFinEvent' = NoFinEvent /\ NoData' = NoData
  BY <1>4, Zenon DEF NoFinEvent, NoData
<1>8. FinAtTac' /\ FinAtEmx' /\ FinAtQueue'
  BY <1>2, <1>4, <1>5, <1>6, <1>7, Zenon DEF FinAtTac, FinAtEmx, FinAtQueue
<1>9. FinAtMdl'
  BY <1>4, <1>5, <1>6, Zenon DEF FinAtMdl
<1>10. MdlCopies'
  <2>1. CASE mdl'.st = "WAIT_EVENT"
    <3>1. mdl'.st # "PROCESS_EVENT"
      BY <2>1
    <3> QED
      BY <3>1, Zenon DEF MdlCopies
  <2>2. CASE mdl'.st # "WAIT_EVENT"
    BY <1>1, <1>4, <1>5, <2>2, Zenon DEF MdlCopies, Processing
  <2> QED
    BY <2>1, <2>2
<1>11. DataEvents'
  BY <1>4, <1>5, Zenon DEF DataEvents
<1> QED
  BY <1>8, <1>9, <1>10, <1>11, Zenon DEF FinLine

LEMMA FinMdlRt ==
    ASSUME TaiTypes, TxeTypes, FinLine, MdlRt
    PROVE  FinLine'
<1>5. FinAtTac /\ FinAtEmx /\ FinAtQueue /\ FinAtMdl /\ MdlCopies /\ DataEvents
  BY DEF FinLine
<1>1. Processing("RT")
  BY Zenon DEF MdlRt, Processing
<1>2. mdl.rt /\ ~FinNow
  BY <1>1, <1>5, Zenon DEF MdlCopies, FinNow, Processing
<1>4. /\ UNCHANGED <<evq, app, smlEv, tacEv, emxEv, tash, tst>>
      /\ \/ mdl'.st = "WAIT_EVENT"
         \/ /\ mdl'.st = "PROCESS_EVENT" /\ mdl'.rt = mdl.rt
            /\ mdl'.sar.finReady = mdl.sar.finReady /\ mdl'.sar.finSent = mdl.sar.finSent
            /\ \/ mdl'.type = "RT"
               \/ mdl'.type = "FIN" /\ Sar.finSent
  <2>1. CASE RtFragmentIs
    <3>1. /\ UNCHANGED <<evq, app, smlEv, tacEv, emxEv, tash, tst>>
          /\ mdl'.rt = mdl.rt /\ mdl'.st \in {"PROCESS_EVENT", "WAIT_EVENT"}
          /\ mdl'.sar.finReady = mdl.sar.finReady /\ mdl'.sar.finSent = mdl.sar.finSent /\ mdl'.type = "RT"
      BY <2>1, Zenon DEF RtFragmentIs, MdlRest, SameButAckd
    <3> QED
      BY <3>1
  <2>2. CASE RtLastIs
    BY <2>2, Zenon DEF RtLastIs, MdlRest
  <2> QED
    BY <2>1, <2>2, RtDoes, Zenon
<1>6. ~FinNow' /\ Closing' = Closing /\ ~Processing("TX")'
  <2>1. ~FinNow' /\ ~Processing("TX")'
    BY <1>2, <1>4 DEF FinNow, Processing
  <2> QED
    BY <1>2, <1>4, <2>1, Zenon DEF Closing
<1>7. NoFinEvent' = NoFinEvent /\ NoData' = NoData /\ NoTx' = NoTx
  BY <1>4, Zenon DEF NoFinEvent, NoData, NoTx
<1>8. FinAtTac' /\ FinAtEmx' /\ FinAtQueue'
  BY <1>2, <1>4, <1>5, <1>6, <1>7, Zenon DEF FinAtTac, FinAtEmx, FinAtQueue
<1>9. FinAtMdl'
  BY <1>4, <1>5, <1>6, <1>7, Zenon DEF FinAtMdl
<1>10. MdlCopies'
  <2>1. CASE mdl'.st = "WAIT_EVENT"
    <3>1. mdl'.st # "PROCESS_EVENT"
      BY <2>1
    <3> QED
      BY <3>1, Zenon DEF MdlCopies
  <2>2. CASE mdl'.st # "WAIT_EVENT"
    BY <1>1, <1>2, <1>4, <1>5, <2>2, Zenon DEF MdlCopies, Processing, Sar
  <2> QED
    BY <2>1, <2>2
<1>11. DataEvents'
  BY <1>4, <1>5, Zenon DEF DataEvents
<1> QED
  BY <1>8, <1>9, <1>10, <1>11, Zenon DEF FinLine

LEMMA FinMdlFin ==
    ASSUME TaiTypes, TxeTypes, FinLine, MdlFin
    PROVE  FinLine'
<1>5. FinAtTac /\ FinAtEmx /\ FinAtQueue /\ FinAtMdl /\ MdlCopies /\ DataEvents
  BY DEF FinLine
<1>4. /\ UNCHANGED <<evq, app, smlEv, tacEv, emxEv, tash>> /\ mdl'.st = "WAIT_EVENT"
      /\ \/ mdl.rt /\ tst' = tst
         \/ FinNow /\ tst'.finReady
  <2>1. CASE FinFirst
    BY <2>1, Zenon DEF FinFirst, MdlRest, FinNow
  <2>2. ASSUME NEW seq, FinAgain(seq)
        PROVE  UNCHANGED <<evq, app, smlEv, tacEv, emxEv, tash>> /\ mdl'.st = "WAIT_EVENT" /\ mdl.rt /\ tst' = tst
    BY <2>2, Zenon DEF FinAgain, MdlRest
  <2> QED
    BY <2>1, <2>2, FinDoes, Zenon
<1>6. ~FinNow' /\ mdl'.st # "PROCESS_EVENT" /\ ~Processing("TX")'
  BY <1>4 DEF FinNow, Processing
<1>7. NoFinEvent' = NoFinEvent /\ NoData' = NoData /\ NoTx' = NoTx
  BY <1>4, Zenon DEF NoFinEvent, NoData, NoTx
<1>8. Closing' => Closing
  BY <1>4, <1>6, Zenon DEF Closing
<1>9. FinAtTac' /\ FinAtEmx' /\ FinAtQueue'
  BY <1>4, <1>5, <1>7, <1>8, Zenon DEF FinAtTac, FinAtEmx, FinAtQueue
<1>10. FinAtMdl'
  BY <1>4, <1>5, <1>6, <1>7, <1>8, Zenon DEF FinAtMdl
<1>11. MdlCopies'
  BY <1>6, Zenon DEF MdlCopies
<1>12. DataEvents'
  BY <1>4, <1>5, Zenon DEF DataEvents
<1> QED
  BY <1>9, <1>10, <1>11, <1>12, Zenon DEF FinLine

LEMMA FinTImExpire ==
    ASSUME TaiTypes, TxeTypes, FinLine, TImExpire
    PROVE  FinLine'
<1>1. evq' = Append(evq, "RT") /\ UNCHANGED <<app, smlEv, tacEv, emxEv, tash, tst, mdl>>
  BY Zenon DEF TImExpire, tai, txe
<1>2. evq \in Seq({"TX", "RT", "FIN"})
  BY DEF TxeTypes
<1>3. Len(evq') = Len(evq) + 1 /\ Len(evq) \in Nat /\ evq'[Len(evq) + 1] = "RT" /\ \A i \in 1..Len(evq) : evq'[i] = evq[i]
  BY <1>1, <1>2
<1>4. ASSUME NEW i \in 1..Len(evq')
      PROVE  evq'[i] = "RT" \/ (i \in 1..Len(evq) /\ evq'[i] = evq[i])
  BY <1>3
<1>5. FinAtTac /\ FinAtEmx /\ FinAtQueue /\ FinAtMdl /\ MdlCopies /\ DataEvents
  BY DEF FinLine
<1>6. NoData' = NoData /\ Closing' = Closing /\ FinNow' = FinNow /\ Processing("TX")' = Processing("TX")
  BY <1>1, Zenon DEF NoData, Closing, FinNow, Processing
<1>7. (NoTx => NoTx') /\ (NoFinEvent => NoFinEvent')
  <2>1. NoTx => NoTx'
    BY <1>4, Zenon DEF NoTx
  <2>2. NoFinEvent => NoFinEvent'
    BY <1>4 DEF NoFinEvent
  <2> QED
    BY <2>1, <2>2
<1>8. FinAtTac' /\ FinAtEmx'
  BY <1>1, <1>5, <1>6, <1>7, Zenon DEF FinAtTac, FinAtEmx
<1>9. FinAtQueue'
  <2>1. ASSUME NEW i \in 1..Len(evq'), evq'[i] = "FIN"
        PROVE  i \in 1..Len(evq) /\ evq[i] = "FIN"
    <3>1. evq'[i] # "RT"
      BY <2>1
    <3> QED
      BY <1>4, <2>1, <3>1, Zenon
  <2> QED
    BY <1>1, <1>4, <1>5, <1>6, <2>1, Zenon DEF FinAtQueue
<1>10. FinAtMdl' /\ MdlCopies' /\ DataEvents'
  BY <1>1, <1>5, <1>6, <1>7, Zenon DEF FinAtMdl, MdlCopies, DataEvents
<1> QED
  BY <1>8, <1>9, <1>10, Zenon DEF FinLine

LEMMA FinLineStep ==
    ASSUME Types, FinLine, FinBehindData, [Next]_vars, InTime
    PROVE  FinLine'
<1>0. Actions \/ UNCHANGED vars
  BY NextIs
<1>t. TaiTypes /\ TxeTypes
  BY DEF Types
<1>1. CASE AppClose
  BY <1>1, <1>t, FinAppClose, Zenon
<1>2. CASE SmlAccept
  BY <1>2, <1>t, FinSmlAccept, Zenon DEF InTime
<1>3. CASE Emx
  BY <1>3, <1>t, FinEmx, Zenon
<1>4. CASE TashIdle
  BY <1>4, <1>t, FinTashIdle, Zenon
<1>5. CASE TashStatus1 \/ TashStatus2
  BY <1>5, <1>t, FinTashStatus, Zenon
<1>6. CASE MdlWait
  BY <1>6, <1>t, FinMdlWait, Zenon
<1>7. CASE MdlTx
  BY <1>7, <1>t, FinMdlTx, Zenon
<1>8. CASE MdlRt
  BY <1>8, <1>t, FinMdlRt, Zenon
<1>9. CASE MdlFin
  BY <1>9, <1>t, FinMdlFin, Zenon
<1>10. CASE TImExpire
  BY <1>10, <1>t, FinTImExpire, Zenon
<1>11. CASE AppRequest \/ SmlRefuse
  <2>1. UNCHANGED <<tacEv, smlEv, emxEv, evq, mdl, tash, tst>>
    BY <1>11, Zenon DEF AppRequest, SmlRefuse, txe
  <2>2. app' = [app EXCEPT !.req = app.len, !.sends = @ - 1] \/ app' = [app EXCEPT !.req = 0]
    BY <1>11, Zenon DEF AppRequest, SmlRefuse
  <2>3. app'.closed = app.closed
    BY <1>t, <2>2 DEF TaiTypes
  <2> QED
    BY <2>1, <2>3, FinKeep, Zenon
<1>12. CASE RxeTransition
  <2>1. UNCHANGED <<app, tacEv, smlEv, emxEv, evq, mdl, tash>>
    BY <1>12, Zenon DEF RxeTransition, tai, txe
  <2>2. tst' = [tst EXCEPT !.ackd = rxe.ack, !.win = rxe.win] \/ tst' = tst
    BY <1>12, Zenon DEF RxeTransition
  <2>3. tst'.finReady = tst.finReady /\ tst'.finSent = tst.finSent
    BY <1>t, <2>2 DEF TxeTypes, States
  <2> QED
    BY <2>1, <2>3, FinKeep, Zenon
<1>13. CASE UNCHANGED <<app, tacEv, smlEv, emxEv, evq, mdl, tash, tst>>
  BY <1>13, FinKeep, Zenon
<1>14. CASE \/ SmlRequest \/ TatAnswer \/ TatPush \/ MwrIdle \/ MwrSplit \/ MwrAligned \/ MwrFirst \/ MwrUncut \/ MwrSecond \/ MwrResidue
            \/ MrdFirst \/ MrdSecond
  BY <1>13, <1>14, Zenon DEF SmlRequest, TatAnswer, TatPush, MwrIdle, MwrSplit, MwrAligned, MwrFirst, MwrUncut, MwrSecond, MwrResidue,
     MrdFirst, MrdSecond, txe, tai
<1>15. CASE \/ TssHeader \/ TssSegment \/ RxeLoad \/ (\E w \in Windows : PeerTakes(w)) \/ Lose \/ UNCHANGED vars
  BY <1>13, <1>15, Zenon DEF TssHeader, TssSegment, RxeLoad, PeerTakes, Lose, txe, tai, vars
<1> QED
  BY <1>0, <1>1, <1>2, <1>3, <1>4, <1>5, <1>6, <1>7, <1>8, <1>9, <1>10, <1>11, <1>12, <1>14, <1>15, Zenon DEF Actions

----------------------------------------------------------------------------
(* Positions *)

SeqPos(x) == SeqAt(app.next, x)
BufPos(x) == BufAt(app.next, x)
A == SeqPos(tst.ackd)
U == SeqPos(tst.unak)
P == BufPos(tst.app)
\* What Mdl has sent data up to.
DataEnd == IF Processing("TX") THEN SeqPos(Sar.unak) ELSE IF tst.finSent THEN app.next ELSE U

\* The events s are about what lies between x and y, one stretch of n bytes after the other.
Links(s, x, y, n, f) ==
    /\ f \in [1..(Len(s) + 1) -> Int] /\ f[1] = x /\ f[Len(s) + 1] = y
    /\ \A i \in 1..(Len(s) + 1), j \in 1..(Len(s) + 1) : i <= j => f[i] <= f[j]
    /\ \A i \in 1..Len(s) :
          /\ f[i + 1] = f[i] + s[i].length
          /\ s[i].length = IF s[i].type = "TX" THEN n ELSE 0
          /\ s[i].type = "TX" => s[i].address = f[i] % BufSize
Chain(s, x, y, n) == x \in Int /\ y \in Int /\ x <= y /\ \E f : Links(s, x, y, n, f)
TashEnd == IF tash.st = "IDLE" THEN P ELSE P + app.len

DataLine ==
    /\ tat.mempt = app.next % BufSize
    /\ tash.st # "IDLE" => tash.ev.address = tst.app /\ tash.ev.length = app.len
    /\ \E y : Chain(emxEv, TashEnd, y, app.len) /\ Chain(smlEv, y, app.next, app.len)

SpaceLine ==
    /\ sml.st = "READ_META" => sml.rep.mempt = app.next % BufSize
    /\ ~app.closed =>
        /\ 0 <= BufPos(tat.ackd) /\ BufPos(tat.ackd) <= A
        /\ sml.st = "READ_META" => 0 <= BufPos(sml.rep.ackd) /\ BufPos(sml.rep.ackd) <= BufPos(tat.ackd)
        /\ \A i \in 1..Len(push) : BufPos(tat.ackd) <= BufPos(push[i]) /\ BufPos(push[i]) <= A
        /\ \A i \in 1..Len(push), j \in 1..Len(push) : i < j => BufPos(push[i]) <= BufPos(push[j])

Pointers ==
    /\ 0 <= A /\ app.next - BufSize < A /\ A <= U
    /\ IF tst.finSent THEN U = app.next + 1 ELSE U <= P
    /\ tst.finReady => P = app.next

RcvLine ==
    /\ A <= peer.rcv /\ peer.rcv <= app.next + 1 /\ (peer.fin <=> peer.rcv = app.next + 1)
    /\ peer.fin => tst.finSent
    /\ ~peer.fin => A + tst.win <= peer.edge
RxeLine ==
    rxe.st = "TRANSITION" =>
        /\ rxe.ackd = tst.ackd /\ A <= SeqPos(rxe.ack) /\ SeqPos(rxe.ack) <= peer.rcv
        /\ A <= SeqPos(rxe.unak) /\ SeqPos(rxe.unak) <= U
        /\ ~peer.fin => SeqPos(rxe.ack) + rxe.win <= peer.edge
AcksLine ==
    /\ \A i \in 1..Len(acks) :
          /\ A <= SeqPos(acks[i].ack) /\ SeqPos(acks[i].ack) <= peer.rcv
          /\ rxe.st = "TRANSITION" => SeqPos(rxe.ack) <= SeqPos(acks[i].ack)
          /\ ~peer.fin => SeqPos(acks[i].ack) + acks[i].win <= peer.edge
    /\ \A i \in 1..Len(acks), j \in 1..Len(acks) : i < j => SeqPos(acks[i].ack) <= SeqPos(acks[j].ack)
AckLine == RcvLine /\ RxeLine /\ AcksLine

MdlLine ==
    /\ Processing("TX") =>
          /\ U <= SeqPos(Sar.unak) /\ SeqPos(Sar.unak) <= BufPos(Sar.app) /\ BufPos(Sar.app) <= P
          /\ 0 <= SeqPos(Sar.ackd) /\ SeqPos(Sar.ackd) <= A /\ BufPos(Sar.app) < SeqPos(Sar.ackd) + BufSize
          /\ SeqPos(Sar.ackd) + Sar.win <= peer.edge
    /\ Processing("RT") =>
          /\ Sar.unak = tst.unak
          /\ ~peer.fin => 0 <= SeqPos(Sar.ackd) /\ SeqPos(Sar.ackd) <= DataEnd /\ DataEnd < SeqPos(Sar.ackd) + BufSize
    /\ Processing("FIN") => Sar.unak = tst.unak /\ (~mdl.rt => Sar.app = tst.app)
SentLine ==
    /\ ~peer.fin => peer.rcv <= DataEnd /\ DataEnd <= peer.edge
    /\ DataEnd <= P
    /\ MdlLine

Sound(h) ==
    /\ h.fin => h.len = 0 /\ SeqPos(h.seq) = app.next /\ tst.finSent
    /\ ~peer.fin => /\ 0 <= SeqPos(h.seq) /\ peer.rcv < SeqPos(h.seq) + BufSize
                    /\ SeqPos(h.seq) + h.len <= DataEnd
\* What is sent before h ends less than a buffer after the start of h.
Before(g, h) == ~peer.fin => SeqPos(g.seq) + g.len < SeqPos(h.seq) + BufSize

HasHeader(k) == wire[k].hdr # <<>>
WireLine ==
    /\ \A k \in 1..Len(wire) : HasHeader(k) => Sound(wire[k].hdr[1]) /\ Size(wire[k]) <= wire[k].hdr[1].len
    /\ \A k \in 1..Len(hdr) : Sound(hdr[k])
    /\ \A i \in 1..Len(wire), k \in 1..Len(wire) : i < k /\ HasHeader(i) /\ HasHeader(k) => Before(wire[i].hdr[1], wire[k].hdr[1])
    /\ \A i \in 1..Len(hdr), k \in 1..Len(hdr) : i < k => Before(hdr[i], hdr[k])
    /\ \A i \in 1..Len(wire), k \in 1..Len(hdr) : HasHeader(i) => Before(wire[i].hdr[1], hdr[k])

IInv == Types /\ ReadLine /\ FinLine /\ DataLine /\ SpaceLine /\ Pointers /\ AckLine /\ SentLine /\ WireLine

----------------------------------------------------------------------------
(* Events along the stream *)

LEMMA ChainAppend ==
    ASSUME NEW s \in Seq(Events), NEW x, NEW y, NEW n \in Nat, Chain(s, x, y, n),
           NEW e \in Events, e.length = IF e.type = "TX" THEN n ELSE 0, e.type = "TX" => e.address = y % BufSize
    PROVE  Chain(Append(s, e), x, y + e.length, n)
<1>0. PICK t : t = Append(s, e)
  OBVIOUS
<1>1. PICK f : Links(s, x, y, n, f)
  BY DEF Chain
<1>2. x \in Int /\ y \in Int /\ x <= y /\ Len(s) \in Nat
  BY DEF Chain
<1>3. /\ Len(t) = Len(s) + 1 /\ \A i \in 1..Len(s) : t[i] = s[i]
      /\ t[Len(s) + 1] = e
  <2>1. /\ Len(Append(s, e)) = Len(s) + 1 /\ \A i \in 1..Len(s) : Append(s, e)[i] = s[i]
        /\ Append(s, e)[Len(s) + 1] = e
    BY AppendIs
  <2> QED
    BY <1>0, <2>1, Zenon
<1>4. PICK m : m = e.length
  OBVIOUS
<1>5. m \in Nat
  BY <1>4 DEF Events
<1>6. PICK k : k = Len(s)
  OBVIOUS
<1> DEFINE g == [i \in 1..(k + 2) |-> IF i = k + 2 THEN y + m ELSE f[i]]
<1>7. /\ f \in [1..(k + 1) -> Int] /\ f[1] = x /\ f[k + 1] = y
      /\ \A i \in 1..(k + 1), j \in 1..(k + 1) : i <= j => f[i] <= f[j]
      /\ \A i \in 1..k :
          /\ f[i + 1] = f[i] + s[i].length
          /\ s[i].length = IF s[i].type = "TX" THEN n ELSE 0
          /\ s[i].type = "TX" => s[i].address = f[i] % BufSize
  BY <1>1, <1>6, Zenon DEF Links
<1>8. g \in [1..(k + 2) -> Int] /\ g[1] = x /\ g[k + 2] = y + m /\ \A i \in 1..(k + 1) : g[i] = f[i]
  BY <1>2, <1>5, <1>6, <1>7
<1> HIDE DEF g
<1>9. \A i \in 1..(k + 2), j \in 1..(k + 2) : i <= j => g[i] <= g[j]
  <2> SUFFICES ASSUME NEW i \in 1..(k + 2), NEW j \in 1..(k + 2), i <= j
               PROVE  g[i] <= g[j]
    OBVIOUS
  <2>1. CASE j # k + 2
    BY <1>2, <1>6, <1>7, <1>8, <2>1
  <2>2. CASE j = k + 2 /\ i # k + 2
    <3>1. i \in 1..(k + 1) /\ i <= k + 1 /\ k + 1 \in 1..(k + 1)
      BY <1>2, <1>6, <2>2
    <3>2. f[i] \in Int /\ f[i] <= y
      BY <1>7, <3>1
    <3> QED
      BY <1>2, <1>5, <1>8, <2>2, <3>1, <3>2
  <2>3. CASE i = j
    BY <1>8, <2>3
  <2> QED
    BY <1>2, <1>6, <2>1, <2>2, <2>3
<1>10. \A i \in 1..(k + 1) :
          /\ g[i + 1] = g[i] + t[i].length
          /\ t[i].length = IF t[i].type = "TX" THEN n ELSE 0
          /\ t[i].type = "TX" => t[i].address = g[i] % BufSize
  <2> SUFFICES ASSUME NEW i \in 1..(k + 1)
               PROVE  /\ g[i + 1] = g[i] + t[i].length
                      /\ t[i].length = IF t[i].type = "TX" THEN n ELSE 0
                      /\ t[i].type = "TX" => t[i].address = g[i] % BufSize
    OBVIOUS
  <2>1. CASE i = k + 1
    <3>1. t[i] = e /\ g[i] = y /\ i + 1 = k + 2 /\ g[i + 1] = y + m
      BY <1>2, <1>3, <1>6, <1>7, <1>8, <2>1
    <3> QED
      BY <1>4, <3>1, Zenon
  <2>2. CASE i # k + 1
    <3>1. i \in 1..k /\ i + 1 \in 1..(k + 1)
      BY <1>2, <1>6, <2>2
    <3>2. g[i] = f[i] /\ g[i + 1] = f[i + 1] /\ t[i] = s[i]
      BY <1>3, <1>6, <1>8, <3>1
    <3> QED
      BY <1>7, <3>1, <3>2, Zenon
  <2> QED
    BY <2>1, <2>2
<1>11. Len(t) = k + 1 /\ Len(t) + 1 = k + 2
  BY <1>2, <1>3, <1>6
<1>12. Links(t, x, y + m, n, g)
  BY <1>8, <1>9, <1>10, <1>11, Zenon DEF Links
<1>13. y + m \in Int /\ x <= y + m
  BY <1>2, <1>5
<1> QED
  BY <1>0, <1>2, <1>4, <1>12, <1>13, Zenon DEF Chain

LEMMA ChainTail ==
    ASSUME NEW s \in Seq(Events), NEW x, NEW y, NEW n \in Nat, Chain(s, x, y, n), s # <<>>
    PROVE  /\ Head(s).length = (IF Head(s).type = "TX" THEN n ELSE 0)
           /\ Head(s).type = "TX" => Head(s).address = x % BufSize
           /\ Chain(Tail(s), x + Head(s).length, y, n)
<1>0. PICK t : t = Tail(s)
  OBVIOUS
<1>h. PICK e : e = Head(s)
  OBVIOUS
<1>1. PICK f : Links(s, x, y, n, f)
  BY DEF Chain
<1>2. x \in Int /\ y \in Int
  BY DEF Chain
<1>6. PICK k : k = Len(s)
  OBVIOUS
<1>3. /\ k \in Nat \ {0} /\ Len(t) = k - 1 /\ e = s[1]
      /\ \A i \in 1..(k - 1) : i + 1 \in 1..k /\ t[i] = s[i + 1]
  BY <1>0, <1>h, <1>6, HeadTail, Zenon
<1> DEFINE g == [i \in 1..k |-> f[i + 1]]
<1>7. /\ f \in [1..(k + 1) -> Int] /\ f[1] = x /\ f[k + 1] = y
      /\ \A i \in 1..(k + 1), j \in 1..(k + 1) : i <= j => f[i] <= f[j]
      /\ \A i \in 1..k :
          /\ f[i + 1] = f[i] + s[i].length
          /\ s[i].length = IF s[i].type = "TX" THEN n ELSE 0
          /\ s[i].type = "TX" => s[i].address = f[i] % BufSize
  BY <1>1, <1>6, Zenon DEF Links
<1>4. 1 \in 1..k
  BY <1>3
<1>5. /\ f[1 + 1] = x + e.length
      /\ e.length = IF e.type = "TX" THEN n ELSE 0
      /\ e.type = "TX" => e.address = x % BufSize
  BY <1>3, <1>4, <1>7, Zenon
<1>51. PICK m : m = e.length
  OBVIOUS
<1>8. g \in [1..k -> Int] /\ g[1] = x + m /\ g[k] = y /\ \A i \in 1..k : g[i] = f[i + 1]
  BY <1>2, <1>3, <1>5, <1>51, <1>7
<1>81. m \in Nat /\ f[1 + 1] = x + m
  BY <1>5, <1>51
<1>82. x + m <= y
  BY <1>2, <1>3, <1>7, <1>81
<1> HIDE DEF g
<1>9. \A i \in 1..k, j \in 1..k : i <= j => g[i] <= g[j]
  BY <1>3, <1>7, <1>8
<1>10. \A i \in 1..(k - 1) :
          /\ g[i + 1] = g[i] + t[i].length
          /\ t[i].length = IF t[i].type = "TX" THEN n ELSE 0
          /\ t[i].type = "TX" => t[i].address = g[i] % BufSize
  <2> SUFFICES ASSUME NEW i \in 1..(k - 1)
               PROVE  /\ g[i + 1] = g[i] + t[i].length
                      /\ t[i].length = IF t[i].type = "TX" THEN n ELSE 0
                      /\ t[i].type = "TX" => t[i].address = g[i] % BufSize
    OBVIOUS
  <2>1. i + 1 \in 1..k /\ t[i] = s[i + 1] /\ i \in 1..k
    BY <1>3
  <2>2. g[i] = f[i + 1] /\ g[i + 1] = f[i + 1 + 1]
    BY <1>8, <2>1
  <2> QED
    BY <1>7, <2>1, <2>2, Zenon
<1>11. Len(t) + 1 = k
  BY <1>3
<1>12. Links(t, x + m, y, n, g)
  BY <1>3, <1>8, <1>9, <1>10, <1>11, Zenon DEF Links
<1>13. x + m \in Int
  BY <1>2, <1>81
<1>14. Chain(t, x + m, y, n)
  BY <1>2, <1>12, <1>13, <1>82, Zenon DEF Chain
<1> QED
  BY <1>0, <1>h, <1>5, <1>51, <1>14, Zenon

LEMMA ChainEmpty ==
    ASSUME NEW x, NEW y, NEW n, Chain(<<>>, x, y, n)
    PROVE  x = y
<1>1. PICK f : Links(<<>>, x, y, n, f)
  BY DEF Chain
<1>2. Len(<<>>) + 1 = 1
  OBVIOUS
<1> QED
  BY <1>1, <1>2, Zenon DEF Links
LEMMA ChainNone ==
    ASSUME NEW x \in Int, NEW n
    PROVE  Chain(<<>>, x, x, n)
<1> DEFINE g == [i \in 1..1 |-> x]
<1>0. PICK s : s = <<>>
  OBVIOUS
<1>1. Len(s) = 0 /\ Len(s) + 1 = 1
  BY <1>0
<1>2. g \in [1..1 -> Int] /\ g[1] = x
  OBVIOUS
<1>4. \A i \in 1..1, j \in 1..1 : i <= j => g[i] <= g[j]
  BY <1>2
<1> HIDE DEF g
<1>5. \A i \in 1..0 : FALSE
  OBVIOUS
<1>6. Links(s, x, x, n, g)
  BY <1>1, <1>2, <1>4, <1>5, Zenon DEF Links
<1>7. x <= x
  OBVIOUS
<1> QED
  BY <1>0, <1>6, <1>7, Zenon DEF Chain
----------------------------------------------------------------------------
(* The application writes *)

\* What is written takes free space: the position of the first byte that is kept is
\* in the buffer with it.
LEMMA AppStep ==
    ASSUME TaiTypes, Actions \/ UNCHANGED vars
    PROVE  /\ app'.len = app.len
           /\ ~SmlAccept => app'.next = app.next
           /\ SmlAccept => app'.next = app.next + sml.len /\ sml.len = app.len
<1>1. CASE AppRequest
  <2>1. app' = [app EXCEPT !.req = app.len, !.sends = @ - 1]
    BY <1>1, Zenon DEF AppRequest
  <2>2. app'.len = app.len /\ app'.next = app.next
    BY <2>1 DEF TaiTypes
  <2>3. ~SmlAccept
    <3>1. app.sends \in Nat /\ app'.sends = app.sends - 1
      BY <2>1 DEF TaiTypes
    <3>2. ASSUME SmlAccept PROVE app'.sends = app.sends
      <4>1. app' = [app EXCEPT !.req = 0, !.next = @ + sml.len]
        BY <3>2, Zenon DEF SmlAccept
      <4> QED
        BY <4>1 DEF TaiTypes
    <3> QED
      BY <3>1, <3>2
  <2> QED
    BY <2>2, <2>3
<1>2. CASE SmlAccept
  <2>1. app' = [app EXCEPT !.req = 0, !.next = @ + sml.len] /\ sml.st = "READ_META"
    BY <1>2, Zenon DEF SmlAccept
  <2> QED
    BY <1>2, <2>1 DEF TaiTypes
<1>3. ASSUME ~SmlAccept, UNCHANGED app \/ app' = [app EXCEPT !.closed = TRUE, !.due = LeftSml] \/ app' = [app EXCEPT !.req = 0]
      PROVE  app'.len = app.len /\ app'.next = app.next
  BY <1>3 DEF TaiTypes
<1>4. ASSUME ~SmlAccept, ~AppRequest
      PROVE  UNCHANGED app \/ app' = [app EXCEPT !.closed = TRUE, !.due = LeftSml] \/ app' = [app EXCEPT !.req = 0]
  <2>1. CASE AppClose \/ SmlRequest \/ TatAnswer \/ SmlRefuse \/ TatPush \/ Emx
    BY <2>1, Zenon DEF AppClose, SmlRequest, TatAnswer, SmlRefuse, TatPush, Emx
  <2>2. CASE \/ MwrIdle \/ MwrSplit \/ MwrAligned \/ MwrFirst \/ MwrUncut \/ MwrSecond \/ MwrResidue
             \/ TashIdle \/ TashStatus1 \/ TashStatus2
    BY <2>2, Zenon DEF MwrIdle, MwrSplit, MwrAligned, MwrFirst, MwrUncut, MwrSecond, MwrResidue, TashIdle, TashStatus1,
       TashStatus2, tai
  <2>3. CASE MdlWait \/ MdlTx \/ MdlRt \/ MdlFin \/ MrdFirst \/ MrdSecond \/ TssHeader \/ TssSegment
    BY <2>3, Zenon DEF MdlWait, MdlTx, MdlRt, MdlFin, MrdFirst, MrdSecond, TssHeader, TssSegment, tai
  <2>4. CASE RxeLoad \/ RxeTransition \/ TImExpire \/ (\E w \in Windows : PeerTakes(w)) \/ Lose \/ UNCHANGED vars
    BY <2>4, Zenon DEF RxeLoad, RxeTransition, TImExpire, PeerTakes, Lose, vars, tai
  <2> QED
    BY <1>4, <2>1, <2>2, <2>3, <2>4, Zenon DEF Actions
<1> QED
  BY <1>1, <1>2, <1>3, <1>4, Zenon

----------------------------------------------------------------------------
(* The application writes *)

\* From n to m the application writes, and a is still in the buffer: what is not before a stays where it is.
Stays(n, m, a) ==
    /\ n \in Int /\ m \in Int /\ a \in Int /\ n <= m /\ m - BufSize < a
    /\ \A x \in 0..(BufSize - 1) : a <= BufAt(n, x) => BufAt(m, x) = BufAt(n, x)
    /\ \A x \in 0..(SeqMod - 1) : a - BufSize < SeqAt(n, x) => SeqAt(m, x) = SeqAt(n, x)

LEMMA StaysIf ==
    ASSUME NEW n \in Int, NEW m \in Int, NEW a \in Int, n <= m, m - BufSize < a
    PROVE  Stays(n, m, a)
<1>0. BufSize \in Nat \ {0} /\ SeqMod \in Nat \ {0} /\ SeqMod >= 2 * BufSize
  BY Sizes
<1>1. ASSUME NEW x \in 0..(BufSize - 1), a <= BufAt(n, x)
      PROVE  BufAt(m, x) = BufAt(n, x)
  <2>1. BufAt(n, x) \in Int
    BY BufAtRange
  <2>2. m - BufSize < BufAt(n, x)
    BY <1>0, <1>1, <2>1
  <2> QED
    BY <2>2, BufAtKeep
<1>2. ASSUME NEW x \in 0..(SeqMod - 1), a - BufSize < SeqAt(n, x)
      PROVE  SeqAt(m, x) = SeqAt(n, x)
  <2>1. SeqAt(n, x) \in Int
    BY SeqAtRange
  <2>2. m + 1 - SeqMod < SeqAt(n, x)
    BY <1>0, <1>2, <2>1
  <2> QED
    BY <2>2, SeqAtKeep
<1> QED
  BY <1>1, <1>2, Zenon DEF Stays

\* The positions of the pointers of the entry.
LEMMA PointerFacts ==
    ASSUME TaiTypes, TxeTypes
    PROVE  /\ A \in Int /\ U \in Int /\ P \in Int /\ app.next \in Nat /\ app.len \in 1..(BufSize - 1)
           /\ app.next - BufSize < P /\ P <= app.next /\ P % BufSize = tst.app
           /\ app.next + 1 - SeqMod < A /\ A <= app.next + 1 /\ A % BufSize = Ptr(tst.ackd) /\ A % SeqMod = tst.ackd
           /\ app.next + 1 - SeqMod < U /\ U <= app.next + 1 /\ U % BufSize = Ptr(tst.unak) /\ U % SeqMod = tst.unak
           /\ tst.ackd \in 0..(SeqMod - 1) /\ tst.unak \in 0..(SeqMod - 1) /\ tst.app \in 0..(BufSize - 1)
<1>1. tst.ackd \in 0..(SeqMod - 1) /\ tst.unak \in 0..(SeqMod - 1) /\ tst.app \in 0..(BufSize - 1)
  BY DEF TxeTypes, States
<1>2. app.next \in Nat /\ app.len \in 1..(BufSize - 1) /\ app.next \in Int
  BY DEF TaiTypes
<1>3. PICK n : n = app.next
  OBVIOUS
<1>4. /\ SeqAt(n, tst.ackd) \in Int /\ n + 1 - SeqMod < SeqAt(n, tst.ackd) /\ SeqAt(n, tst.ackd) <= n + 1
      /\ SeqAt(n, tst.ackd) % SeqMod = tst.ackd /\ SeqAt(n, tst.ackd) % BufSize = Ptr(tst.ackd)
  BY <1>1, <1>2, <1>3, SeqAtRange, Zenon
<1>5. /\ SeqAt(n, tst.unak) \in Int /\ n + 1 - SeqMod < SeqAt(n, tst.unak) /\ SeqAt(n, tst.unak) <= n + 1
      /\ SeqAt(n, tst.unak) % SeqMod = tst.unak /\ SeqAt(n, tst.unak) % BufSize = Ptr(tst.unak)
  BY <1>1, <1>2, <1>3, SeqAtRange, Zenon
<1>6. BufAt(n, tst.app) \in Int /\ n - BufSize < BufAt(n, tst.app) /\ BufAt(n, tst.app) <= n /\ BufAt(n, tst.app) % BufSize = tst.app
  BY <1>1, <1>2, <1>3, BufAtRange, Zenon
<1> QED
  BY <1>1, <1>2, <1>3, <1>4, <1>5, <1>6, Zenon DEF A, U, P, SeqPos, BufPos

\* Sml accepts only what fits: the position from which on the buffer is in use stays.
Room(a, n, m) ==
    /\ n = app.next /\ m = n + app.len /\ app'.next = m /\ app'.len = app.len /\ n \in Nat /\ m \in Nat
    /\ a = BufPos(sml.rep.ackd) /\ 0 <= a /\ a <= BufPos(tat.ackd) /\ a <= A /\ A <= U /\ U <= P
    /\ Stays(n, m, a)
    /\ ~app.closed /\ ~Closing /\ ~tst.finSent /\ ~tst.finReady
    /\ sml.rep.mempt = n % BufSize /\ sml.len = app.len

LEMMA RoomIs ==
    ASSUME TaiTypes, TxeTypes, FinLine, SpaceLine, Pointers, SmlAccept, ~app.closed
    PROVE  \E a, n, m : Room(a, n, m)
<1>0. BufSize \in Nat \ {0}
  BY Sizes
<1>1. app'.len = app.len /\ app'.next = app.next + sml.len /\ sml.len = app.len
  BY AppStep, Zenon DEF Actions
<1>2. sml.st = "READ_META" /\ HasSpace
  BY Zenon DEF SmlAccept
<1>3. ~Closing
  BY <1>2, Zenon DEF FinLine, FinAtMdl
<1>4. ~tst.finReady /\ ~tst.finSent
  BY <1>3, Zenon DEF Closing, FinLine, FinAtMdl
<1>5. A <= U /\ U <= P
  BY <1>4, Zenon DEF Pointers
<1>6. /\ sml.rep.mempt = app.next % BufSize
      /\ BufPos(tat.ackd) <= A /\ 0 <= BufPos(sml.rep.ackd) /\ BufPos(sml.rep.ackd) <= BufPos(tat.ackd)
  BY <1>2, Zenon DEF SpaceLine
<1>7. app.next \in Nat /\ app.len \in 1..(BufSize - 1) /\ A \in Int
  BY PointerFacts, Zenon
<1>8. sml.rep.ackd \in 0..(BufSize - 1) /\ sml.rep.mempt \in 0..(BufSize - 1) /\ tat.ackd \in 0..(BufSize - 1)
  BY DEF TaiTypes, Tables
<1>9. PICK n, m, a, t : n = app.next /\ m = app.next + app.len /\ a = BufPos(sml.rep.ackd) /\ t = BufPos(tat.ackd)
  OBVIOUS
<1>10. n \in Nat /\ n \in Int /\ m \in Nat /\ m \in Int /\ n <= m /\ m = n + app.len
  BY <1>7, <1>9
<1>11. a \in Int /\ n - BufSize < a /\ a <= n /\ a % BufSize = sml.rep.ackd
  BY <1>8, <1>9, <1>10, BufAtRange, Zenon DEF BufPos
<1>12. t \in Int
  BY <1>8, <1>9, <1>10, BufAtRange, Zenon DEF BufPos
<1>13. MaxWriteLength = a + BufSize - (n + 1)
  <2>0. PICK u, v : u = n % BufSize /\ v = a % BufSize
    OBVIOUS
  <2>1. Same(v, a + BufSize, BufSize)
    BY <1>0, <1>11, <2>0, SameTurn, Zenon
  <2>2. Same(u, n, BufSize)
    BY <1>0, <1>10, <2>0, SameSelf, Zenon
  <2>3. u \in Int /\ v \in Int /\ 1 \in Int
    BY <1>0, <1>10, <1>11, <2>0
  <2>4. Same(u + 1, n + 1, BufSize)
    BY <1>0, <1>10, <2>2, <2>3, SameAdd, Zenon
  <2>5. a + BufSize \in Int /\ n + 1 \in Int /\ u + 1 \in Int /\ n + 1 <= a + BufSize /\ a + BufSize < n + 1 + BufSize
    BY <1>0, <1>10, <1>11, <2>3
  <2>6. Minus(v, u + 1, BufSize) = a + BufSize - (n + 1)
    <3>1. PICK p, q, w : p = a + BufSize /\ q = n + 1 /\ w = u + 1
      OBVIOUS
    <3>2. Same(v, p, BufSize) /\ Same(w, q, BufSize)
      BY <2>1, <2>4, <3>1, Zenon
    <3>3. p \in Int /\ q \in Int /\ w \in Int /\ q <= p /\ p < q + BufSize
      BY <2>5, <3>1, Zenon
    <3>4. Minus(v, w, BufSize) = p - q
      BY <1>0, <2>3, <3>2, <3>3, MinusIs
    <3> QED
      BY <1>0, <1>10, <1>11, <2>3, <3>1, <3>3, <3>4
  <2> QED
    BY <1>6, <1>9, <1>11, <2>0, <2>6, Zenon DEF MaxWriteLength
<1>14. m - BufSize < a
  <2>1. app.len <= a + BufSize - (n + 1)
    BY <1>1, <1>2, <1>13, Zenon DEF HasSpace
  <2> QED
    BY <1>0, <1>7, <1>10, <1>11, <2>1
<1>15. Stays(n, m, a)
  BY <1>10, <1>11, <1>14, StaysIf, Zenon
<1>16. a <= A
  BY <1>6, <1>7, <1>9, <1>11, <1>12
<1> QED
  BY <1>1, <1>2, <1>3, <1>4, <1>5, <1>6, <1>9, <1>10, <1>15, <1>16, Zenon DEF Room

\* The positions that stay: those of the entry.
LEMMA EntryStays ==
    ASSUME TaiTypes, TxeTypes, NEW a, NEW n, NEW m, Room(a, n, m), tst' = tst
    PROVE  A' = A /\ U' = U /\ P' = P
<1>1. /\ n = app.next /\ app'.next = m /\ a <= A /\ A <= U /\ U <= P /\ Stays(n, m, a)
  BY DEF Room
<1>2. /\ A \in Int /\ U \in Int /\ P \in Int
      /\ tst.ackd \in 0..(SeqMod - 1) /\ tst.unak \in 0..(SeqMod - 1) /\ tst.app \in 0..(BufSize - 1)
  BY PointerFacts, Zenon
<1>3. /\ a \in Int
      /\ \A x \in 0..(BufSize - 1) : a <= BufAt(n, x) => BufAt(m, x) = BufAt(n, x)
      /\ \A x \in 0..(SeqMod - 1) : a - BufSize < SeqAt(n, x) => SeqAt(m, x) = SeqAt(n, x)
  BY <1>1, Zenon DEF Stays
<1>4. a - BufSize < A /\ a - BufSize < U /\ a <= P
  BY <1>1, <1>2, <1>3, Sizes
<1>5. A = SeqAt(n, tst.ackd) /\ U = SeqAt(n, tst.unak) /\ P = BufAt(n, tst.app)
  BY <1>1, Zenon DEF A, U, P, SeqPos, BufPos
<1>6. A' = SeqAt(m, tst.ackd) /\ U' = SeqAt(m, tst.unak) /\ P' = BufAt(m, tst.app)
  BY <1>1, Zenon DEF A, U, P, SeqPos, BufPos
<1>7. SeqAt(m, tst.ackd) = SeqAt(n, tst.ackd)
  BY <1>2, <1>3, <1>4, <1>5, Zenon
<1>8. SeqAt(m, tst.unak) = SeqAt(n, tst.unak)
  BY <1>2, <1>3, <1>4, <1>5, Zenon
<1>9. BufAt(m, tst.app) = BufAt(n, tst.app)
  BY <1>2, <1>3, <1>4, <1>5, Zenon
<1> QED
  BY <1>5, <1>6, <1>7, <1>8, <1>9, Zenon

----------------------------------------------------------------------------
(* DataLine: what TAi has accepted is on its way to Tash *)

LEMMA DataKeep ==
    ASSUME DataLine, app'.next = app.next, app'.len = app.len, tat'.mempt = tat.mempt, tst'.app = tst.app,
           UNCHANGED <<tash, emxEv, smlEv>>
    PROVE  DataLine'
  BY Zenon DEF DataLine, TashEnd, P, BufPos

\* The events ahead of Tash, and those ahead of Emx.
LEMMA DataIs ==
    ASSUME TaiTypes, TxeTypes, DataLine
    PROVE  \E y : /\ Chain(emxEv, TashEnd, y, app.len) /\ Chain(smlEv, y, app.next, app.len)
                  /\ TashEnd \in Int /\ y \in Int /\ TashEnd <= y /\ y <= app.next
<1>1. PICK y : Chain(emxEv, TashEnd, y, app.len) /\ Chain(smlEv, y, app.next, app.len)
  BY DEF DataLine
<1> QED
  BY <1>1, Zenon DEF Chain

LEMMA DataSmlAccept ==
    ASSUME TaiTypes, TxeTypes, FinLine, DataLine, SpaceLine, Pointers, SmlAccept, ~app.closed
    PROVE  DataLine'
<1>1. PICK a, n, m : Room(a, n, m)
  BY RoomIs
<1>2. UNCHANGED <<tash, tst, emxEv>>
  BY Zenon DEF SmlAccept
<1>3. P' = P
  BY <1>1, <1>2, EntryStays, Zenon
<1>4. app'.len = app.len /\ n = app.next /\ app'.next = m /\ m = n + app.len /\ sml.rep.mempt = n % BufSize /\ sml.len = app.len
  BY <1>1, Zenon DEF Room
<1>5. app.len \in 1..(BufSize - 1) /\ app.len \in Nat /\ n \in Nat
  BY <1>4, PointerFacts, Sizes
<1>6. TashEnd' = TashEnd
  BY <1>2, <1>3, <1>4, Zenon DEF TashEnd
<1>7. PICK e : e = Event("TX", sml.rep.mempt, sml.len)
  OBVIOUS
<1>8. smlEv' = Append(smlEv, e) /\ tat' = [tat EXCEPT !.mempt = Ptr(sml.rep.mempt + sml.len)]
  BY <1>7, Zenon DEF SmlAccept
<1>9. e.type = "TX" /\ e.length = app.len /\ e.address = n % BufSize
  BY <1>4, <1>7 DEF Event
<1>10. e \in Events
  <2>1. sml.rep.mempt \in 0..(BufSize - 1)
    BY DEF TaiTypes, Tables
  <2>2. app.len \in 0..BufSize
    BY <1>5, Sizes
  <2> QED
    BY <1>4, <1>7, <2>1, <2>2 DEF Event, Events
<1>11. PICK y : Chain(emxEv, TashEnd, y, app.len) /\ Chain(smlEv, y, n, app.len)
  BY <1>4, DataIs
<1>12. Chain(smlEv', y, m, app.len)
  <2>1. smlEv \in Seq(Events)
    BY DEF TaiTypes
  <2>2. Chain(Append(smlEv, e), y, n + e.length, app.len)
    BY <1>5, <1>9, <1>10, <1>11, <2>1, ChainAppend, Zenon
  <2> QED
    BY <1>4, <1>8, <1>9, <2>2, Zenon
<1>13. tat'.mempt = m % BufSize
  <2>1. tat'.mempt = Ptr(sml.rep.mempt + sml.len)
    BY <1>8 DEF TaiTypes, Tables
  <2>2. PICK d : d = app.len
    OBVIOUS
  <2>3. n \in Int /\ d \in Int /\ BufSize \in Nat \ {0}
    BY <1>5, <2>2, Sizes
  <2>4. ((n % BufSize) + d) % BufSize = (n + d) % BufSize
    BY <2>3, ModAdd, Zenon
  <2> QED
    BY <1>4, <2>1, <2>2, <2>4, Zenon DEF Ptr
<1>14. tash'.st # "IDLE" => tash'.ev.address = tst'.app /\ tash'.ev.length = app'.len
  BY <1>2, <1>4, Zenon DEF DataLine
<1> QED
  BY <1>2, <1>4, <1>6, <1>11, <1>12, <1>13, <1>14, Zenon DEF DataLine

LEMMA DataEmx ==
    ASSUME TaiTypes, TxeTypes, FinLine, DataLine, Emx
    PROVE  DataLine'
<1>1. UNCHANGED <<app, tat, tash, tst>>
  BY Zenon DEF Emx
<1>2. TashEnd' = TashEnd
  BY <1>1, Zenon DEF TashEnd, P, BufPos
<1>3. PICK y : Chain(emxEv, TashEnd, y, app.len) /\ Chain(smlEv, y, app.next, app.len)
  BY DataIs
<1>4. /\ app.len \in Nat
      /\ smlEv \in Seq(Events) /\ tacEv \in Seq(Events) /\ emxEv \in Seq(Events)
  BY DEF TaiTypes
<1>5. \E z : Chain(emxEv', TashEnd, z, app.len) /\ Chain(smlEv', z, app.next, app.len)
  <2>1. CASE tacEv # <<>> /\ emxEv' = Append(emxEv, Head(tacEv)) /\ UNCHANGED smlEv
    <3>1. PICK e : e = Event("FIN", 0, 0)
      OBVIOUS
    <3>2. Head(tacEv) = e
      <4>1. tacEv = <<e>>
        BY <2>1, <3>1, Zenon DEF FinLine, FinAtTac
      <4> QED
        BY <4>1
    <3>3. e \in Events /\ e.type # "TX" /\ e.length = 0
      BY <3>1, Sizes DEF Event, Events
    <3>4. Chain(Append(emxEv, e), TashEnd, y + e.length, app.len)
      BY <1>3, <1>4, <3>3, ChainAppend, Zenon
    <3>5. y + e.length = y
      BY <1>3, <3>3 DEF Chain
    <3> QED
      BY <1>3, <2>1, <3>2, <3>4, <3>5, Zenon
  <2>2. CASE smlEv # <<>> /\ emxEv' = Append(emxEv, Head(smlEv)) /\ smlEv' = Tail(smlEv)
    <3>1. PICK e : e = Head(smlEv)
      OBVIOUS
    <3>2. e \in Events /\ e = smlEv[1] /\ Len(smlEv) \in Nat \ {0}
      BY <1>4, <2>2, <3>1, HeadTail, Zenon
    <3>3. e.type = "TX"
      BY <3>2 DEF FinLine, DataEvents
    <3>4. e.length = app.len /\ e.address = y % BufSize /\ Chain(Tail(smlEv), y + e.length, app.next, app.len)
      BY <1>3, <1>4, <2>2, <3>1, <3>3, ChainTail, Zenon
    <3>5. Chain(Append(emxEv, e), TashEnd, y + e.length, app.len)
      BY <1>3, <1>4, <3>2, <3>3, <3>4, ChainAppend, Zenon
    <3> QED
      BY <2>2, <3>1, <3>4, <3>5, Zenon
  <2> QED
    BY <2>1, <2>2, Zenon DEF Emx
<1> QED
  BY <1>1, <1>2, <1>5, Zenon DEF DataLine

LEMMA DataTashIdle ==
    ASSUME TaiTypes, TxeTypes, DataLine, TashIdle
    PROVE  DataLine'
<1>1. /\ UNCHANGED <<app, tat, smlEv, tst>> /\ tash.st = "IDLE" /\ emxEv # <<>> /\ emxEv' = Tail(emxEv)
      /\ \/ Head(emxEv).type = "TX" /\ tash' = [st |-> "RD_MEM_STATUS_1", ev |-> Head(emxEv)]
         \/ Head(emxEv).type # "TX" /\ UNCHANGED tash
  BY Zenon DEF TashIdle
<1>2. PICK y : Chain(emxEv, TashEnd, y, app.len) /\ Chain(smlEv, y, app.next, app.len)
  BY DataIs
<1>3. app.len \in Nat /\ emxEv \in Seq(Events)
  BY DEF TaiTypes
<1>4. PICK e : e = Head(emxEv)
  OBVIOUS
<1>5. TashEnd = P /\ P \in Int /\ P % BufSize = tst.app
  BY <1>1, PointerFacts, Zenon DEF TashEnd
<1>6. /\ e.length = (IF e.type = "TX" THEN app.len ELSE 0)
      /\ e.type = "TX" => e.address = tst.app
      /\ Chain(emxEv', P + e.length, y, app.len)
  BY <1>1, <1>2, <1>3, <1>4, <1>5, ChainTail, Zenon
<1>7. P' = P
  BY <1>1, Zenon DEF P, BufPos
<1>8. CASE e.type = "TX"
  <2>1. tash' = [st |-> "RD_MEM_STATUS_1", ev |-> e]
    BY <1>1, <1>4, <1>8
  <2>2. tash'.st # "IDLE" /\ tash'.ev = e
    BY <2>1
  <2>3. TashEnd' = P + e.length
    BY <1>1, <1>6, <1>7, <1>8, <2>2, Zenon DEF TashEnd
  <2> QED
    BY <1>1, <1>2, <1>6, <1>8, <2>2, <2>3, Zenon DEF DataLine
<1>9. CASE e.type # "TX"
  <2>1. tash' = tash
    BY <1>1, <1>4, <1>9, Zenon
  <2>2. TashEnd' = P + e.length
    <3>1. e.length = 0
      BY <1>6, <1>9
    <3>2. TashEnd' = P
      BY <1>1, <1>7, <2>1, Zenon DEF TashEnd
    <3> QED
      BY <1>5, <3>1, <3>2
  <2> QED
    BY <1>1, <1>2, <1>6, <2>1, <2>2, Zenon DEF DataLine
<1> QED
  BY <1>8, <1>9

\* What Tash announces has been accepted.
LEMMA AnnounceIs ==
    ASSUME TaiTypes, TxeTypes, DataLine, tash.st # "IDLE", Announce, UNCHANGED app
    PROVE  /\ P' = P + app.len /\ P + app.len <= app.next /\ app.len \in Nat
           /\ tst'.ackd = tst.ackd /\ tst'.unak = tst.unak /\ tst'.win = tst.win
           /\ tst'.finReady = tst.finReady /\ tst'.finSent = tst.finSent
           /\ tash'.st = "IDLE" /\ tash'.ev = tash.ev
<1>1. tst' = [tst EXCEPT !.app = Ptr(TxAppPtr)] /\ tash' = [tash EXCEPT !.st = "IDLE"]
  BY Zenon DEF Announce
<1>2. /\ tst'.ackd = tst.ackd /\ tst'.unak = tst.unak /\ tst'.win = tst.win /\ tst'.app = Ptr(TxAppPtr)
      /\ tst'.finReady = tst.finReady /\ tst'.finSent = tst.finSent
  BY <1>1 DEF TxeTypes, States
<1>3. tash'.st = "IDLE" /\ tash'.ev = tash.ev
  BY <1>1 DEF TaiTypes
<1>4. tash.ev.address = tst.app /\ tash.ev.length = app.len
  BY DEF DataLine
<1>5. P \in Int /\ app.len \in 1..(BufSize - 1) /\ P % BufSize = tst.app /\ app.next - BufSize < P /\ app.next \in Nat
  BY PointerFacts, Zenon
<1>6. P + app.len <= app.next
  <2>1. PICK y : TashEnd \in Int /\ y \in Int /\ TashEnd <= y /\ y <= app.next
    BY DataIs
  <2>2. TashEnd = P + app.len
    BY DEF TashEnd
  <2> QED
    BY <1>5, <2>1, <2>2
<1>7. PICK p, n, d, q : p = P /\ n = app.next /\ d = app.len /\ q = p + d
  OBVIOUS
<1>8. Ptr(TxAppPtr) = q % BufSize
  <2>1. TxAppPtr = tst.app + d
    BY <1>4, <1>7, Zenon DEF TxAppPtr
  <2>2. p \in Int /\ d \in Int /\ BufSize \in Nat \ {0}
    BY <1>5, <1>7, Sizes
  <2>3. ((p % BufSize) + d) % BufSize = (p + d) % BufSize
    BY <2>2, ModAdd, Zenon
  <2> QED
    BY <1>5, <1>7, <2>1, <2>3, Zenon DEF Ptr
<1>9. q \in Int /\ n \in Int /\ n - BufSize < q /\ q <= n
  BY <1>5, <1>6, <1>7, Sizes
<1>10. BufAt(n, q % BufSize) = q
  BY <1>9, BufAtIs, Zenon
<1>11. P' = q
  BY <1>2, <1>7, <1>8, <1>10, Zenon DEF P, BufPos
<1>12. app.len \in Nat
  BY <1>5
<1> QED
  BY <1>2, <1>3, <1>6, <1>7, <1>11, <1>12, Zenon

LEMMA DataTashStatus ==
    ASSUME TaiTypes, TxeTypes, DataLine, TashStatus1 \/ TashStatus2
    PROVE  DataLine'
<1>1. UNCHANGED <<app, tat, smlEv, emxEv>> /\ tash.st \in {"RD_MEM_STATUS_1", "RD_MEM_STATUS_2"}
  BY DEF TashStatus1, TashStatus2
<1>2. tash.st # "IDLE"
  BY <1>1
<1>3. CASE Announce
  <2>1. P' = P + app.len /\ tash'.st = "IDLE"
    BY <1>1, <1>2, <1>3, AnnounceIs, Zenon
  <2>2. TashEnd' = TashEnd
    BY <1>2, <2>1, Zenon DEF TashEnd
  <2> QED
    BY <1>1, <2>1, <2>2, Zenon DEF DataLine
<1>4. CASE tash' = [tash EXCEPT !.st = "RD_MEM_STATUS_2"] /\ UNCHANGED tst
  <2>1. tash'.st # "IDLE" /\ tash'.ev = tash.ev
    BY <1>4 DEF TaiTypes
  <2>2. P' = P
    BY <1>1, <1>4, Zenon DEF P, BufPos
  <2>3. TashEnd' = TashEnd
    BY <1>1, <1>2, <2>1, <2>2, Zenon DEF TashEnd
  <2> QED
    BY <1>1, <1>2, <1>4, <2>1, <2>3, Zenon DEF DataLine
<1> QED
  BY <1>3, <1>4, Zenon DEF TashStatus1, TashStatus2

\* Mdl and RXe leave the announced pointer alone.
LEMMA AppPtrKept ==
    ASSUME TaiTypes, TxeTypes, FinLine, MdlTx \/ MdlRt \/ MdlFin \/ RxeTransition
    PROVE  tst'.app = tst.app /\ UNCHANGED <<app, tash, emxEv, smlEv, tat, sml>>
<1>1. CASE MdlTx
  <2>1. ~Sar.finReady
    <3>1. Processing("TX")
      BY <1>1, Zenon DEF MdlTx, Processing
    <3>2. ~Closing /\ ~tst.finReady
      BY <3>1, Zenon DEF FinLine, FinAtMdl, Closing
    <3> QED
      BY <3>1, <3>2, Zenon DEF FinLine, MdlCopies, Processing, Sar
  <2>2. CASE TxFragment
    BY <1>1, <2>2, FragmentDoes, Zenon DEF FragmentIs, MdlRest
  <2>3. CASE TxLast
    <3>1. PICK n \in 0..(BufSize - 1) : LastIs(n)
      BY <1>1, <2>1, <2>3, LastDoes, Zenon
    <3> QED
      BY <3>1, Zenon DEF LastIs, MdlRest, SameButUnak
  <2> QED
    BY <1>1, <2>2, <2>3, Zenon DEF MdlTx
<1>2. CASE MdlRt
  BY <1>2, RtDoes, Zenon DEF RtFragmentIs, RtLastIs, MdlRest
<1>3. CASE MdlFin
  BY <1>3, FinDoes, Zenon DEF FinFirst, FinAgain, MdlRest
<1>4. CASE RxeTransition
  <2>1. UNCHANGED <<app, tash, emxEv, smlEv, tat, sml>>
    BY <1>4, Zenon DEF RxeTransition, tai
  <2>2. tst' = [tst EXCEPT !.ackd = rxe.ack, !.win = rxe.win] \/ tst' = tst
    BY <1>4, Zenon DEF RxeTransition
  <2> QED
    BY <2>1, <2>2 DEF TxeTypes, States
<1> QED
  BY <1>1, <1>2, <1>3, <1>4

LEMMA DataLineStep ==
    ASSUME Types, FinLine, DataLine, SpaceLine, Pointers, [Next]_vars, InTime
    PROVE  DataLine'
<1>0. Actions \/ UNCHANGED vars
  BY NextIs
<1>t. TaiTypes /\ TxeTypes
  BY DEF Types
<1>1. CASE SmlAccept
  BY <1>1, <1>t, DataSmlAccept, Zenon DEF InTime
<1>2. CASE Emx
  BY <1>2, <1>t, DataEmx, Zenon
<1>3. CASE TashIdle
  BY <1>3, <1>t, DataTashIdle, Zenon
<1>4. CASE TashStatus1 \/ TashStatus2
  BY <1>4, <1>t, DataTashStatus, Zenon
<1>5. CASE MdlTx \/ MdlRt \/ MdlFin \/ RxeTransition
  BY <1>5, <1>t, AppPtrKept, DataKeep, Zenon
<1>6. ASSUME ~SmlAccept, tat'.mempt = tat.mempt, UNCHANGED <<tash, emxEv, smlEv, tst>>
      PROVE  DataLine'
  BY <1>0, <1>t, <1>6, AppStep, DataKeep, Zenon
<1>7. CASE TatPush /\ ~SmlAccept
  <2>1. tat' = [tat EXCEPT !.ackd = Head(push)] /\ UNCHANGED <<tash, emxEv, smlEv, tst>>
    BY <1>7, Zenon DEF TatPush
  <2>2. tat'.mempt = tat.mempt
    BY <1>t, <2>1 DEF TaiTypes, Tables
  <2> QED
    BY <1>6, <1>7, <2>1, <2>2, Zenon
<1>8. CASE (AppRequest \/ AppClose \/ SmlRequest \/ TatAnswer \/ SmlRefuse) /\ ~SmlAccept
  BY <1>6, <1>8, Zenon DEF AppRequest, AppClose, SmlRequest, TatAnswer, SmlRefuse
<1>9. CASE (MwrIdle \/ MwrSplit \/ MwrAligned \/ MwrFirst \/ MwrUncut \/ MwrSecond \/ MwrResidue) /\ ~SmlAccept
  BY <1>6, <1>9, Zenon DEF MwrIdle, MwrSplit, MwrAligned, MwrFirst, MwrUncut, MwrSecond, MwrResidue, tai
<1>10. CASE (MdlWait \/ MrdFirst \/ MrdSecond \/ TssHeader \/ TssSegment) /\ ~SmlAccept
  BY <1>6, <1>10, Zenon DEF MdlWait, MrdFirst, MrdSecond, TssHeader, TssSegment, tai
<1>11. CASE (RxeLoad \/ TImExpire \/ (\E w \in Windows : PeerTakes(w)) \/ Lose \/ UNCHANGED vars) /\ ~SmlAccept
  BY <1>6, <1>11, Zenon DEF RxeLoad, TImExpire, PeerTakes, Lose, tai, vars
<1> QED
  BY <1>0, <1>1, <1>2, <1>3, <1>4, <1>5, <1>7, <1>8, <1>9, <1>10, <1>11, Zenon DEF Actions

----------------------------------------------------------------------------
(* SpaceLine: the free space of the buffer *)

LEMMA ElementOf ==
    ASSUME NEW S, NEW s \in Seq(S), NEW i \in 1..Len(s)
    PROVE  s[i] \in S
  OBVIOUS

LEMMA SpaceKeep ==
    ASSUME SpaceLine, app'.next = app.next, ~app'.closed => ~app.closed,
           sml'.st = "READ_META" => sml.st = "READ_META" /\ sml'.rep = sml.rep,
           tst'.ackd = tst.ackd, UNCHANGED <<tat, push>>
    PROVE  SpaceLine'
  BY Zenon DEF SpaceLine, A, BufPos, SeqPos

LEMMA SpaceSmlRequest ==
    ASSUME TaiTypes, DataLine, SpaceLine, SmlRequest
    PROVE  SpaceLine'
<1>1. UNCHANGED <<app, tat, push, tst>> /\ sml' = [st |-> "READ_META", len |-> app.req, est |-> ~app.closed, rep |-> tat]
  BY Zenon DEF SmlRequest
<1>2. sml'.rep = tat /\ sml'.st = "READ_META"
  BY <1>1
<1>3. tat.mempt = app.next % BufSize
  BY DEF DataLine
<1>4. BufPos(tat.ackd) \in Int
  BY BufAtRange DEF TaiTypes, Tables, BufPos
<1>5. BufPos(tat.ackd) <= BufPos(tat.ackd)
  BY <1>4
<1> QED
  BY <1>1, <1>2, <1>3, <1>5, Zenon DEF SpaceLine, A, BufPos, SeqPos

LEMMA SpaceTatAnswer ==
    ASSUME TaiTypes, DataLine, SpaceLine, TatAnswer
    PROVE  SpaceLine'
<1>1. UNCHANGED <<app, tat, push, tst>> /\ sml' = [sml EXCEPT !.rep = tat]
  BY Zenon DEF TatAnswer
<1>2. sml'.rep = tat
  BY <1>1 DEF TaiTypes
<1>3. tat.mempt = app.next % BufSize
  BY DEF DataLine
<1>4. BufPos(tat.ackd) \in Int
  BY BufAtRange DEF TaiTypes, Tables, BufPos
<1>5. BufPos(tat.ackd) <= BufPos(tat.ackd)
  BY <1>4
<1> QED
  BY <1>1, <1>2, <1>3, <1>5, Zenon DEF SpaceLine, A, BufPos, SeqPos

LEMMA SpaceSmlAccept ==
    ASSUME TaiTypes, TxeTypes, FinLine, SpaceLine, Pointers, SmlAccept, ~app.closed
    PROVE  SpaceLine'
<1>1. PICK a, n, m : Room(a, n, m)
  BY RoomIs
<1>2. UNCHANGED <<push, tst>> /\ sml' = [sml EXCEPT !.st = "READ_REQUEST"] /\ tat' = [tat EXCEPT !.mempt = Ptr(sml.rep.mempt + sml.len)]
  BY Zenon DEF SmlAccept
<1>3. sml'.st # "READ_META" /\ tat'.ackd = tat.ackd
  BY <1>2 DEF TaiTypes, Tables
<1>4. A' = A
  BY <1>1, <1>2, EntryStays, Zenon
<1>5. ~app.closed /\ n = app.next /\ app'.next = m /\ 0 <= a /\ a <= BufPos(tat.ackd)
  BY <1>1, Zenon DEF Room
<1>6. a \in Int /\ \A x \in 0..(BufSize - 1) : a <= BufAt(n, x) => BufAt(m, x) = BufAt(n, x)
  BY <1>1, Zenon DEF Room, Stays
<1>7. tat.ackd \in 0..(BufSize - 1) /\ push \in Seq(0..(BufSize - 1)) /\ n \in Int
  BY <1>5 DEF TaiTypes, Tables
<1>8. /\ 0 <= BufPos(tat.ackd) /\ BufPos(tat.ackd) <= A
      /\ \A i \in 1..Len(push) : BufPos(tat.ackd) <= BufPos(push[i]) /\ BufPos(push[i]) <= A
      /\ \A i \in 1..Len(push), j \in 1..Len(push) : i < j => BufPos(push[i]) <= BufPos(push[j])
  BY <1>5, Zenon DEF SpaceLine
<1>9. BufAt(m, tat.ackd) = BufPos(tat.ackd)
  BY <1>5, <1>6, <1>7, Zenon DEF BufPos
<1>10. ASSUME NEW i \in 1..Len(push) PROVE BufAt(m, push[i]) = BufPos(push[i])
  <2>1. push[i] \in 0..(BufSize - 1)
    BY <1>7, ElementOf, Zenon
  <2>2. PICK p, t : p = BufPos(push[i]) /\ t = BufPos(tat.ackd)
    OBVIOUS
  <2>3. p \in Int /\ t \in Int
    BY <1>5, <1>7, <2>1, <2>2, BufAtRange, Zenon DEF BufPos
  <2>4. a <= p
    BY <1>5, <1>6, <1>8, <2>2, <2>3
  <2> QED
    BY <1>5, <1>6, <2>1, <2>2, <2>4, Zenon DEF BufPos
<1>11. /\ 0 <= BufAt(m, tat.ackd) /\ BufAt(m, tat.ackd) <= A
       /\ \A i \in 1..Len(push) : BufAt(m, tat.ackd) <= BufAt(m, push[i]) /\ BufAt(m, push[i]) <= A
       /\ \A i \in 1..Len(push), j \in 1..Len(push) : i < j => BufAt(m, push[i]) <= BufAt(m, push[j])
  BY <1>8, <1>9, <1>10, Zenon
<1> QED
  BY <1>2, <1>3, <1>4, <1>5, <1>11, Zenon DEF SpaceLine, BufPos

LEMMA SpaceTatPush ==
    ASSUME TaiTypes, SpaceLine, TatPush
    PROVE  SpaceLine'
<1>1. /\ UNCHANGED <<app, sml, tst>> /\ push # <<>>
      /\ tat' = [tat EXCEPT !.ackd = Head(push)] /\ push' = Tail(push)
  BY Zenon DEF TatPush
<1>2. tat'.ackd = Head(push) /\ tat'.mempt = tat.mempt
  BY <1>1 DEF TaiTypes, Tables
<1>3. PICK L : L = Len(push)
  OBVIOUS
<1>4. push \in Seq(0..(BufSize - 1)) /\ app.next \in Int
  BY DEF TaiTypes
<1>5. /\ L \in Nat \ {0} /\ Len(push') = L - 1 /\ tat'.ackd = push[1]
      /\ \A i \in 1..(L - 1) : i + 1 \in 1..L /\ push'[i] = push[i + 1]
  BY <1>1, <1>2, <1>3, <1>4, HeadTail, Zenon
<1>6. \A i \in 1..L : BufPos(push[i]) \in Int
  <2> SUFFICES ASSUME NEW i \in 1..L PROVE BufPos(push[i]) \in Int
    OBVIOUS
  <2>1. push[i] \in 0..(BufSize - 1)
    BY <1>3, <1>4, ElementOf, Zenon
  <2> QED
    BY <1>4, <2>1, BufAtRange, Zenon DEF BufPos
<1>7. 1 \in 1..L /\ tat.ackd \in 0..(BufSize - 1)
  BY SMTT(40), <1>5 DEF TaiTypes, Tables
<1>8. BufPos(tat.ackd) \in Int
  BY <1>4, <1>7, BufAtRange, Zenon DEF BufPos
<1>10. CASE app.closed
  BY <1>1, <1>10, Zenon DEF SpaceLine
<1>11. CASE ~app.closed
  <2>1. /\ 0 <= BufPos(tat.ackd) /\ BufPos(tat.ackd) <= A
        /\ sml.st = "READ_META" => 0 <= BufPos(sml.rep.ackd) /\ BufPos(sml.rep.ackd) <= BufPos(tat.ackd)
        /\ \A i \in 1..L : BufPos(tat.ackd) <= BufPos(push[i]) /\ BufPos(push[i]) <= A
        /\ \A i \in 1..L, j \in 1..L : i < j => BufPos(push[i]) <= BufPos(push[j])
    BY <1>3, <1>11, Zenon DEF SpaceLine
  <2>2. PICK f : f = [i \in 1..L |-> BufPos(push[i])]
    OBVIOUS
  <2>3. PICK t, x, y : t = BufPos(tat.ackd) /\ x = A /\ y = BufPos(sml.rep.ackd)
    OBVIOUS
  <2>4. \A i \in 1..L : f[i] = BufPos(push[i])
    BY <2>2, Zenon
  <2>5. /\ \A i \in 1..L : f[i] \in Int /\ t <= f[i] /\ f[i] <= x
        /\ \A i \in 1..L, j \in 1..L : i < j => f[i] <= f[j]
        /\ 0 <= t /\ t \in Int /\ (sml.st = "READ_META" => 0 <= y /\ y <= t)
    BY <1>6, <1>8, <2>1, <2>3, <2>4, Zenon
  <2>6. sml.st = "READ_META" => y \in Int
    BY <1>4, <2>3, BufAtRange DEF BufPos, TaiTypes, Tables
  <2>7. /\ 0 <= f[1] /\ f[1] <= x
        /\ sml.st = "READ_META" => 0 <= y /\ y <= f[1]
        /\ \A i \in 1..(L - 1) : f[1] <= f[i + 1] /\ f[i + 1] <= x
        /\ \A i \in 1..(L - 1), j \in 1..(L - 1) : i < j => f[i + 1] <= f[j + 1]
    <3>1. \A i \in 1..(L - 1) : i + 1 \in 1..L /\ 1 < i + 1
      BY <1>5
    <3>2. \A i \in 1..(L - 1), j \in 1..(L - 1) : i < j => i + 1 < j + 1
      BY <1>5
    <3>3. \A i \in 1..(L - 1), j \in 1..(L - 1) : i < j => f[i + 1] <= f[j + 1]
      BY <2>5, <3>1, <3>2, Zenon
    <3>4. \A i \in 1..(L - 1) : f[1] <= f[i + 1] /\ f[i + 1] <= x
      BY <1>7, <2>5, <3>1, Zenon
    <3>5. t <= f[1] /\ f[1] <= x /\ f[1] \in Int
      BY <1>7, <2>5, Zenon
    <3>6. 0 <= f[1] /\ (sml.st = "READ_META" => 0 <= y /\ y <= f[1])
      BY <2>5, <2>6, <3>5
    <3> QED
      BY <3>3, <3>4, <3>5, <3>6, Zenon
  <2>8. A' = A /\ \A z : BufPos(z)' = BufAt(app.next, z')
    BY <1>1, Zenon DEF A, SeqPos, BufPos
  <2>9. f[1] = BufAt(app.next, push[1]) /\ \A i \in 1..(L - 1) : f[i + 1] = BufAt(app.next, push[i + 1])
    BY <1>5, <1>7, <2>4, Zenon DEF BufPos
  <2>10. f[1] = BufAt(app.next, tat'.ackd) /\ \A i \in 1..(L - 1) : f[i + 1] = BufAt(app.next, push'[i])
    BY <1>5, <2>9, Zenon
  <2>11. y = BufAt(app.next, sml.rep.ackd)
    BY <2>3, Zenon DEF BufPos
  <2>12. /\ 0 <= BufAt(app.next, tat'.ackd) /\ BufAt(app.next, tat'.ackd) <= A
         /\ sml.st = "READ_META" => 0 <= BufAt(app.next, sml.rep.ackd) /\ BufAt(app.next, sml.rep.ackd) <= BufAt(app.next, tat'.ackd)
         /\ \A i \in 1..Len(push') : BufAt(app.next, tat'.ackd) <= BufAt(app.next, push'[i]) /\ BufAt(app.next, push'[i]) <= A
         /\ \A i \in 1..Len(push'), j \in 1..Len(push') : i < j => BufAt(app.next, push'[i]) <= BufAt(app.next, push'[j])
    <3>1. tat'.ackd = push[1] /\ Len(push') = L - 1
      BY <1>5, Zenon
    <3>2. \A i \in 1..(L - 1), j \in 1..(L - 1) : i < j => BufAt(app.next, push'[i]) <= BufAt(app.next, push'[j])
      BY <2>7, <2>10, Zenon
    <3> QED
      BY <2>3, <2>7, <2>10, <2>11, <3>1, <3>2, Zenon
  <2>13. sml.st = "READ_META" => sml.rep.mempt = app.next % BufSize
    BY DEF SpaceLine
  <2>14. A' = A
    BY <1>1, Zenon DEF A, SeqPos
  <2> QED
    BY <1>1, <2>12, <2>13, <2>14, Zenon DEF SpaceLine, BufPos
<1> QED
  BY <1>10, <1>11
----------------------------------------------------------------------------
(* Acknowledgments *)

\* RXe moves the acknowledged pointer on, at most up to what was sent, or does nothing.
Acknowledged ==
    /\ A' = SeqPos(rxe.ack) /\ A <= A' /\ A' <= U /\ A' <= peer.rcv
    /\ tst'.win = rxe.win /\ tst'.ackd = rxe.ack
    /\ push' = Append(push, Ptr(rxe.ack))
Ignored == UNCHANGED <<tst, push>>

LEMMA TransitionIs ==
    ASSUME TaiTypes, TxeTypes, NetTypes, AckLine, RxeTransition
    PROVE  /\ rxe.st = "TRANSITION" /\ rxe'.st = "LOAD"
           /\ UNCHANGED <<app, tat, sml, smlEv, tacEv, emxEv, tash, evq, mdl, hdr, acks, wire, peer>>
           /\ U' = U /\ P' = P /\ A' \in Int
           /\ tst'.unak = tst.unak /\ tst'.app = tst.app /\ tst'.finReady = tst.finReady /\ tst'.finSent = tst.finSent
           /\ Acknowledged \/ Ignored
<1>1. /\ rxe.st = "TRANSITION" /\ rxe' = [st |-> "LOAD", ack |-> 0, win |-> 0, ackd |-> 0, unak |-> 0]
      /\ UNCHANGED <<app, tat, sml, smlEv, tacEv, emxEv, tash, evq, mdl, hdr, acks, wire, peer>>
  BY Zenon DEF RxeTransition, tai, txe, net
<1>2. rxe'.st = "LOAD"
  BY <1>1
<1>3. \/ InRange /\ tst' = [tst EXCEPT !.ackd = rxe.ack, !.win = rxe.win] /\ push' = Append(push, Ptr(rxe.ack))
      \/ UNCHANGED <<tst, push>>
  BY Zenon DEF RxeTransition
<1>4. tst'.unak = tst.unak /\ tst'.app = tst.app /\ tst'.finReady = tst.finReady /\ tst'.finSent = tst.finSent
  BY <1>3 DEF TxeTypes, States
<1>5. U' = U /\ P' = P
  BY <1>1, <1>4, Zenon DEF U, P, SeqPos, BufPos
<1>6. /\ rxe.ackd = tst.ackd /\ A <= SeqPos(rxe.ack) /\ SeqPos(rxe.ack) <= peer.rcv
      /\ A <= SeqPos(rxe.unak) /\ SeqPos(rxe.unak) <= U
  BY <1>1, Zenon DEF AckLine, RxeLine
<1>7. rxe.ack \in 0..(SeqMod - 1) /\ rxe.ackd \in 0..(SeqMod - 1) /\ rxe.unak \in 0..(SeqMod - 1) /\ app.next \in Int
  BY DEF NetTypes, TaiTypes
<1>8. CASE InRange /\ tst' = [tst EXCEPT !.ackd = rxe.ack, !.win = rxe.win] /\ push' = Append(push, Ptr(rxe.ack))
  <2>1. tst'.ackd = rxe.ack /\ tst'.win = rxe.win
    BY <1>8 DEF TxeTypes, States
  <2>2. A' = SeqPos(rxe.ack)
    BY <1>1, <2>1, Zenon DEF A, SeqPos
  <2>3. SeqPos(rxe.ackd) = A
    BY <1>6, Zenon DEF A
  <2>4. SeqAt(app.next, rxe.ack) <= SeqAt(app.next, rxe.unak)
    BY <1>6, <1>7, <1>8, <2>3, InRangeIs, Zenon DEF SeqPos
  <2>5. PICK p, q, u, n : p = SeqPos(rxe.ack) /\ q = SeqPos(rxe.unak) /\ u = U /\ n = app.next
    OBVIOUS
  <2>6. p \in Int /\ q \in Int /\ u \in Int
    BY <1>7, <2>5, SeqAtRange, PointerFacts, Zenon DEF SeqPos
  <2>7. p <= q
    BY <2>4, <2>5, Zenon DEF SeqPos
  <2>8. p <= u
    BY <1>6, <2>5, <2>6, <2>7
  <2> QED
    BY <1>1, <1>2, <1>4, <1>5, <1>6, <1>8, <2>1, <2>2, <2>5, <2>6, <2>8, Zenon DEF Acknowledged
<1>9. CASE UNCHANGED <<tst, push>>
  <2>1. A' = A /\ A \in Int
    BY <1>1, <1>9, PointerFacts, Zenon DEF A, SeqPos
  <2> QED
    BY <1>1, <1>2, <1>4, <1>5, <1>9, <2>1, Zenon DEF Ignored
<1> QED
  BY <1>3, <1>8, <1>9

LEMMA SpaceTransition ==
    ASSUME TaiTypes, TxeTypes, NetTypes, FinLine, SpaceLine, Pointers, AckLine, RxeTransition
    PROVE  SpaceLine'
<1>1. /\ UNCHANGED <<app, tat, sml>> /\ U' = U /\ P' = P /\ A' \in Int /\ (Acknowledged \/ Ignored)
      /\ rxe.st = "TRANSITION"
  BY TransitionIs, Zenon
<1>2. CASE Ignored
  BY <1>1, <1>2, SpaceKeep, Zenon DEF Ignored
<1>3. CASE Acknowledged /\ app.closed
  BY <1>1, <1>3, Zenon DEF SpaceLine, BufPos
<1>4. CASE Acknowledged /\ ~app.closed
  <2>1. ~tst.finSent
    BY <1>4, Zenon DEF FinLine, FinAtMdl, Closing
  <2>2. U <= P /\ app.next - BufSize < A
    BY <2>1, Zenon DEF Pointers
  <2>3. A \in Int /\ P \in Int /\ U \in Int /\ P <= app.next /\ app.next \in Int
    <3>1. app.next \in Int
      BY DEF TaiTypes
    <3> QED
      BY <3>1, PointerFacts, Zenon
  <2>4. A' = SeqPos(rxe.ack) /\ A <= A' /\ A' <= U /\ push' = Append(push, Ptr(rxe.ack))
    BY <1>4, Zenon DEF Acknowledged
  <2>5. rxe.ack \in 0..(SeqMod - 1)
    BY DEF NetTypes
  <2>6. A' % BufSize = Ptr(rxe.ack)
    BY <2>3, <2>4, <2>5, SeqAtRange, Zenon DEF SeqPos
  <2>7. BufPos(Ptr(rxe.ack)) = A'
    <3>1. PICK p, n : p = A' /\ n = app.next
      OBVIOUS
    <3>2. p \in Int /\ n \in Int /\ n - BufSize < p /\ p <= n
      BY <1>1, <2>2, <2>3, <2>4, <3>1, Sizes
    <3> QED
      BY <2>6, <3>1, <3>2, BufAtIs, Zenon DEF BufPos
  <2>8. PICK L, r : L = Len(push) /\ r = Ptr(rxe.ack)
    OBVIOUS
  <2>9. r \in 0..(BufSize - 1) /\ push \in Seq(0..(BufSize - 1))
    <3>1. rxe.ack \in Int
      BY <2>5, Sizes
    <3> QED
      BY <2>8, <3>1, PtrRange, Zenon DEF TaiTypes
  <2>10. L \in Nat /\ Len(push') = L + 1 /\ (\A i \in 1..L : push'[i] = push[i]) /\ push'[L + 1] = r
    <3>1. /\ Len(Append(push, r)) = Len(push) + 1 /\ Len(push) \in Nat
          /\ (\A i \in 1..Len(push) : Append(push, r)[i] = push[i]) /\ Append(push, r)[Len(push) + 1] = r
      BY <2>9, AppendIs
    <3> QED
      BY <2>4, <2>8, <3>1, Zenon
  <2>11. /\ 0 <= BufPos(tat.ackd) /\ BufPos(tat.ackd) <= A
         /\ sml.st = "READ_META" => 0 <= BufPos(sml.rep.ackd) /\ BufPos(sml.rep.ackd) <= BufPos(tat.ackd)
         /\ \A i \in 1..L : BufPos(tat.ackd) <= BufPos(push[i]) /\ BufPos(push[i]) <= A
         /\ \A i \in 1..L, j \in 1..L : i < j => BufPos(push[i]) <= BufPos(push[j])
    BY <1>4, <2>8, Zenon DEF SpaceLine
  <2>12. PICK f : f = [i \in 1..(L + 1) |-> BufPos(push'[i])]
    OBVIOUS
  <2>13. PICK t, x, y : t = BufPos(tat.ackd) /\ x = A /\ y = A'
    OBVIOUS
  <2>14. \A i \in 1..(L + 1) : f[i] = BufAt(app.next, push'[i])
    BY <1>1, <2>12, Zenon DEF BufPos
  <2>15. \A i \in 1..L : i \in 1..(L + 1) /\ f[i] = BufPos(push[i])
    <3>1. \A i \in 1..L : i \in 1..(L + 1)
      BY <2>10
    <3> QED
      BY <2>10, <2>14, <3>1, Zenon DEF BufPos
  <2>16. L + 1 \in 1..(L + 1) /\ f[L + 1] = y
    <3>1. L + 1 \in 1..(L + 1)
      BY <2>10
    <3> QED
      BY <2>7, <2>8, <2>10, <2>13, <2>14, <3>1, Zenon DEF BufPos
  <2>17. \A i \in 1..L : f[i] \in Int
    <3> SUFFICES ASSUME NEW i \in 1..L PROVE f[i] \in Int
      OBVIOUS
    <3>1. push[i] \in 0..(BufSize - 1)
      BY <2>8, <2>9, ElementOf, Zenon
    <3> QED
      BY <2>3, <2>15, <3>1, BufAtRange, Zenon DEF BufPos
  <2>18. t \in Int
    BY <2>3, <2>13, BufAtRange DEF BufPos, TaiTypes, Tables
  <2>19. /\ \A i \in 1..L : t <= f[i] /\ f[i] <= x
         /\ \A i \in 1..L, j \in 1..L : i < j => f[i] <= f[j]
         /\ x <= y /\ t <= x /\ x \in Int /\ y \in Int
    BY <1>1, <2>3, <2>4, <2>11, <2>13, <2>15, Zenon
  <2>20. /\ \A i \in 1..(L + 1) : t <= f[i] /\ f[i] <= y
         /\ \A i \in 1..(L + 1), j \in 1..(L + 1) : i < j => f[i] <= f[j]
         /\ t <= y
    BY <2>10, <2>16, <2>17, <2>18, <2>19
  <2>21. sml.st = "READ_META" => sml.rep.mempt = app.next % BufSize
    BY DEF SpaceLine
  <2> QED
    BY <1>1, <2>10, <2>11, <2>13, <2>14, <2>20, <2>21, Zenon DEF SpaceLine, BufPos
<1> QED
  BY <1>1, <1>2, <1>3, <1>4

----------------------------------------------------------------------------
(* What Mdl makes of the entry *)

Again == \E seq \in 0..(SeqMod - 1) : FinAgain(seq)

LEMMA MdlDoes ==
    ASSUME TaiTypes, TxeTypes, FinLine, MdlTx \/ MdlRt \/ MdlFin
    PROVE  /\ FragmentIs \/ (\E n \in 0..(BufSize - 1) : LastIs(n)) \/ RtFragmentIs \/ RtLastIs \/ FinFirst \/ Again
           /\ tst'.ackd = tst.ackd /\ tst'.app = tst.app /\ tst'.win = tst.win /\ A' = A /\ P' = P
           /\ UNCHANGED evq /\ MdlRest
<1>1. FragmentIs \/ (\E n \in 0..(BufSize - 1) : LastIs(n)) \/ RtFragmentIs \/ RtLastIs \/ FinFirst \/ Again
  <2>1. CASE MdlTx
    <3>1. ~Sar.finReady
      <4>1. Processing("TX")
        BY <2>1, Zenon DEF MdlTx, Processing
      <4>2. ~Closing /\ ~tst.finReady
        BY <4>1, Zenon DEF FinLine, FinAtMdl, Closing
      <4> QED
        BY <4>1, <4>2, Zenon DEF FinLine, MdlCopies, Processing, Sar
    <3>2. CASE TxFragment
      BY <2>1, <3>2, FragmentDoes, Zenon
    <3>3. CASE TxLast
      BY <2>1, <3>1, <3>3, LastDoes, Zenon
    <3> QED
      BY <2>1, <3>2, <3>3, Zenon DEF MdlTx
  <2>2. CASE MdlRt
    BY <2>2, RtDoes, Zenon
  <2>3. CASE MdlFin
    BY <2>3, FinDoes, Zenon DEF Again
  <2> QED
    BY <2>1, <2>2, <2>3
<1>2. /\ tst'.ackd = tst.ackd /\ tst'.app = tst.app /\ tst'.win = tst.win
      /\ UNCHANGED evq /\ MdlRest
  BY <1>1, Zenon DEF FragmentIs, LastIs, RtFragmentIs, RtLastIs, FinFirst, Again, FinAgain, SameButUnak
<1>3. UNCHANGED app
  BY <1>2, Zenon DEF MdlRest
<1> QED
  BY <1>1, <1>2, <1>3, Zenon DEF A, P, SeqPos, BufPos

LEMMA SpaceLineStep ==
    ASSUME Types, FinLine, DataLine, SpaceLine, Pointers, AckLine, [Next]_vars, InTime
    PROVE  SpaceLine'
<1>0. Actions \/ UNCHANGED vars
  BY NextIs
<1>t. TaiTypes /\ TxeTypes /\ NetTypes
  BY DEF Types
<1>1. CASE SmlAccept
  BY <1>1, <1>t, SpaceSmlAccept, Zenon DEF InTime
<1>2. CASE SmlRequest
  BY <1>2, <1>t, SpaceSmlRequest, Zenon
<1>2a. CASE TatAnswer
  BY <1>2a, <1>t, SpaceTatAnswer, Zenon
<1>3. CASE TatPush
  BY <1>3, <1>t, SpaceTatPush, Zenon
<1>4. CASE RxeTransition
  BY <1>4, <1>t, SpaceTransition, Zenon
<1>5. CASE AppRequest \/ AppClose \/ SmlRefuse
  <2>1. UNCHANGED <<tat, push, tst>>
    BY <1>5, Zenon DEF AppRequest, AppClose, SmlRefuse
  <2>2. \/ app' = [app EXCEPT !.req = app.len, !.sends = @ - 1]
        \/ app' = [app EXCEPT !.closed = TRUE, !.due = LeftSml]
        \/ app' = [app EXCEPT !.req = 0]
    BY <1>5, Zenon DEF AppRequest, AppClose, SmlRefuse
  <2>3. app'.next = app.next /\ (~app'.closed => ~app.closed)
    BY <1>t, <2>2 DEF TaiTypes
  <2>4. sml' = sml \/ sml' = [sml EXCEPT !.st = "READ_REQUEST"]
    BY <1>5, Zenon DEF AppRequest, AppClose, SmlRefuse
  <2>5. sml'.st = "READ_META" => sml.st = "READ_META" /\ sml'.rep = sml.rep
    BY <1>t, <2>4 DEF TaiTypes
  <2> QED
    BY <2>1, <2>3, <2>5, SpaceKeep, Zenon
<1>6. CASE UNCHANGED <<app, sml, tat, push>> /\ tst'.ackd = tst.ackd
  BY <1>6, SpaceKeep, Zenon
<1>7. CASE MdlTx \/ MdlRt \/ MdlFin
  BY <1>6, <1>7, <1>t, MdlDoes, Zenon DEF MdlRest
<1>8. CASE TashStatus1 \/ TashStatus2
  <2>1. UNCHANGED <<app, sml, tat, push>> /\ (tst' = tst \/ tst' = [tst EXCEPT !.app = Ptr(TxAppPtr)])
    BY <1>8, Zenon DEF TashStatus1, TashStatus2, Announce
  <2>2. tst'.ackd = tst.ackd
    BY <1>t, <2>1 DEF TxeTypes, States
  <2> QED
    BY <1>6, <2>1, <2>2
<1>9. CASE Emx \/ MwrIdle \/ MwrSplit \/ MwrAligned \/ MwrFirst \/ MwrUncut \/ MwrSecond \/ MwrResidue \/ TashIdle
  BY <1>6, <1>9, Zenon DEF Emx, MwrIdle, MwrSplit, MwrAligned, MwrFirst, MwrUncut, MwrSecond, MwrResidue, TashIdle, tai
<1>10. CASE MdlWait \/ MrdFirst \/ MrdSecond \/ TssHeader \/ TssSegment
  BY <1>6, <1>10, Zenon DEF MdlWait, MrdFirst, MrdSecond, TssHeader, TssSegment, tai
<1>11. CASE RxeLoad \/ TImExpire \/ (\E w \in Windows : PeerTakes(w)) \/ Lose \/ UNCHANGED vars
  BY <1>6, <1>11, Zenon DEF RxeLoad, TImExpire, PeerTakes, Lose, tai, vars
<1> QED
  BY <1>0, <1>1, <1>2, <1>2a, <1>3, <1>4, <1>5, <1>7, <1>8, <1>9, <1>10, <1>11, Zenon DEF Actions
----------------------------------------------------------------------------
(* The pointers of the entry *)

LEMMA PointersKeep ==
    ASSUME Pointers, app'.next = app.next, tst' = tst
    PROVE  Pointers'
  BY Zenon DEF Pointers, A, U, P, SeqPos, BufPos

LEMMA PointersSmlAccept ==
    ASSUME TaiTypes, TxeTypes, FinLine, SpaceLine, Pointers, SmlAccept, ~app.closed
    PROVE  Pointers'
<1>1. PICK a, n, m : Room(a, n, m)
  BY RoomIs
<1>2. UNCHANGED tst
  BY Zenon DEF SmlAccept
<1>3. A' = A /\ U' = U /\ P' = P
  BY <1>1, <1>2, EntryStays, Zenon
<1>4. app'.next = m /\ a <= A /\ A <= U /\ U <= P /\ ~tst.finSent /\ ~tst.finReady /\ m \in Int /\ a \in Int /\ m - BufSize < a
  BY <1>1, Zenon DEF Room, Stays
<1>5. 0 <= A /\ A \in Int
  BY PointerFacts, Zenon DEF Pointers
<1>6. m - BufSize < A
  BY <1>4, <1>5, Sizes
<1> QED
  BY <1>2, <1>3, <1>4, <1>5, <1>6, Zenon DEF Pointers

LEMMA PointersTash ==
    ASSUME TaiTypes, TxeTypes, FinLine, DataLine, Pointers, TashStatus1 \/ TashStatus2
    PROVE  Pointers'
<1>1. UNCHANGED app /\ tash.st \in {"RD_MEM_STATUS_1", "RD_MEM_STATUS_2"} /\ (tst' = tst \/ Announce)
  BY DEF TashStatus1, TashStatus2
<1>2. tash.st # "IDLE"
  BY <1>1
<1>3. CASE Announce
  <2>1. ~Closing
    BY <1>2, Zenon DEF FinLine, FinAtMdl, NoData
  <2>2. ~tst.finReady /\ ~tst.finSent
    BY <2>1, Zenon DEF FinLine, FinAtMdl, Closing
  <2>3. /\ P' = P + app.len /\ app.len \in Nat /\ tst'.ackd = tst.ackd /\ tst'.unak = tst.unak
        /\ tst'.finReady = tst.finReady /\ tst'.finSent = tst.finSent
    BY <1>1, <1>2, <1>3, AnnounceIs, Zenon
  <2>4. A' = A /\ U' = U
    BY <1>1, <2>3, Zenon DEF A, U, SeqPos
  <2>5. P \in Int /\ U \in Int /\ U <= P
    BY <2>2, PointerFacts, Zenon DEF Pointers
  <2>6. U <= P'
    BY <2>3, <2>5
  <2> QED
    BY <1>1, <2>2, <2>3, <2>4, <2>6, Zenon DEF Pointers
<1>4. CASE tst' = tst
  BY <1>1, <1>4, PointersKeep, Zenon
<1> QED
  BY <1>1, <1>3, <1>4

LEMMA NoDataAll ==
    ASSUME TaiTypes, TxeTypes, DataLine, NoData
    PROVE  P = app.next
<1>1. PICK y : Chain(emxEv, TashEnd, y, app.len) /\ Chain(smlEv, y, app.next, app.len)
  BY DataIs
<1>2. TashEnd = y /\ y = app.next
  BY <1>1, ChainEmpty, Zenon DEF NoData
<1> QED
  BY <1>2, Zenon DEF NoData, TashEnd

\* Mdl sends the first FIN if nothing is left to be sent.
FinGoes == tst'.finSent /\ U = app.next /\ P = app.next /\ U' = app.next + 1 /\ MayCarryFin(Sar.unak) /\ SeqPos(Sar.unak) = app.next
FinStays == ~tst'.finSent /\ U' = U /\ ~MayCarryFin(Sar.unak)

LEMMA FinFirstIs ==
    ASSUME TaiTypes, TxeTypes, FinLine, DataLine, Pointers, SentLine, FinFirst
    PROVE  /\ FinGoes \/ FinStays
           /\ P = app.next /\ ~tst.finSent /\ UNCHANGED app
<1>1. Processing("FIN") /\ ~mdl.rt /\ UNCHANGED app
  BY Zenon DEF FinFirst, MdlRest
<1>2. NoData /\ ~tst.finReady /\ ~tst.finSent
  BY <1>1, Zenon DEF FinLine, FinAtMdl, Closing, FinNow
<1>3. P = app.next
  BY <1>2, NoDataAll, Zenon
<1>4. Sar.unak = tst.unak /\ Sar.app = tst.app
  BY <1>1, Zenon DEF SentLine, MdlLine
<1>5. /\ U \in Int /\ P \in Int /\ A \in Int /\ U % BufSize = Ptr(tst.unak) /\ P % BufSize = tst.app /\ app.next \in Nat
      /\ tst.unak \in 0..(SeqMod - 1)
  BY PointerFacts, Zenon
<1>6. app.next - BufSize < A /\ A <= U /\ U <= P
  BY <1>2, Zenon DEF Pointers
<1>7. CASE MayCarryFin(Sar.unak)
  <2>1. U % BufSize = P % BufSize
    BY <1>4, <1>5, <1>7, Zenon DEF MayCarryFin
  <2>2. U = P
    <3> SUFFICES ASSUME U < P PROVE FALSE
      BY <1>5, <1>6
    <3>1. PICK u, p : u = U /\ p = P
      OBVIOUS
    <3>2. u \in Int /\ p \in Int /\ u < p /\ p - u < BufSize /\ BufSize \in Nat \ {0}
      BY <1>3, <1>5, <1>6, <3>1, Sizes
    <3> QED
      BY <2>1, <3>1, <3>2, ModDiffer, Zenon
  <2>3. tst'.finSent /\ tst'.unak = Plus(tst.unak, 1)
    BY <1>4, <1>7, Zenon DEF FinFirst, MayCarryFin
  <2>4. PICK n, k : n = app.next /\ k = 1
    OBVIOUS
  <2>5. SeqAt(n, tst.unak) = U
    BY <2>4, Zenon DEF U, SeqPos
  <2>6. n \in Int /\ k \in Nat /\ SeqAt(n, tst.unak) + k <= n + 1
    BY <1>3, <1>5, <2>2, <2>4, <2>5
  <2>7. SeqAt(n, Plus(tst.unak, k)) = SeqAt(n, tst.unak) + k
    BY <1>5, <2>6, PlusSeq, Zenon
  <2>8. U' = SeqAt(n, Plus(tst.unak, k))
    BY <1>1, <2>3, <2>4, Zenon DEF U, SeqPos
  <2>9. U' = U + 1
    BY <2>4, <2>5, <2>7, <2>8
  <2>10. SeqPos(Sar.unak) = U
    BY <1>4, Zenon DEF U
  <2> QED
    BY <1>1, <1>2, <1>3, <1>7, <2>2, <2>3, <2>9, <2>10, Zenon DEF FinGoes
<1>8. CASE ~MayCarryFin(Sar.unak)
  <2>1. tst'.unak = tst.unak /\ tst'.finSent = tst.finSent
    BY <1>4, <1>8, Zenon DEF FinFirst, MayCarryFin
  <2>2. U' = U
    BY <1>1, <2>1, Zenon DEF U, SeqPos
  <2> QED
    BY <1>1, <1>2, <1>3, <1>8, <2>1, <2>2, Zenon DEF FinStays
<1> QED
  BY <1>7, <1>8

\* What the last segment of an event makes of the entry: n bytes more are sent.
LastEnd(n) ==
    /\ SeqPos(Sar.unak) \in Int /\ U <= SeqPos(Sar.unak) /\ U' = SeqPos(Sar.unak) + n /\ U' <= BufPos(Sar.app) /\ U' <= P
    /\ BufPos(Sar.app) \in Int /\ n <= CurrDatLen /\ CurrDatLen = BufPos(Sar.app) - SeqPos(Sar.unak)
    /\ ~tst.finSent /\ ~tst.finReady

\* What is left to be sent according to the copy of the entry.
LEMMA CurrDatLenIs ==
    ASSUME TaiTypes, TxeTypes, Pointers, SentLine, Processing("TX")
    PROVE  /\ CurrDatLen = BufPos(Sar.app) - SeqPos(Sar.unak) /\ BufPos(Sar.app) \in Int /\ SeqPos(Sar.unak) \in Int
           /\ UsedLength = SeqPos(Sar.unak) - SeqPos(Sar.ackd) /\ SeqPos(Sar.ackd) \in Int
<1>1. /\ U <= SeqPos(Sar.unak) /\ SeqPos(Sar.unak) <= BufPos(Sar.app) /\ BufPos(Sar.app) <= P
      /\ SeqPos(Sar.ackd) <= A /\ BufPos(Sar.app) < SeqPos(Sar.ackd) + BufSize
  BY Zenon DEF SentLine, MdlLine
<1>2. A <= U
  BY DEF Pointers
<1>3. Sar.unak \in 0..(SeqMod - 1) /\ Sar.ackd \in 0..(SeqMod - 1) /\ Sar.app \in 0..(BufSize - 1)
  BY MdlFields, StateFields, Zenon
<1>4. PICK n, u, a, p, x : n = app.next /\ u = SeqPos(Sar.unak) /\ a = SeqPos(Sar.ackd) /\ p = BufPos(Sar.app) /\ x = Sar.app
  OBVIOUS
<1>5. n \in Int
  BY <1>4 DEF TaiTypes
<1>6. u \in Int /\ u % BufSize = Ptr(Sar.unak)
  BY <1>3, <1>4, <1>5, SeqAtRange, Zenon DEF SeqPos
<1>7. a \in Int /\ a % BufSize = Ptr(Sar.ackd)
  BY <1>3, <1>4, <1>5, SeqAtRange, Zenon DEF SeqPos
<1>8. p \in Int /\ p % BufSize = x
  BY <1>3, <1>4, <1>5, BufAtRange, Zenon DEF BufPos
<1>9. A \in Int /\ U \in Int /\ BufSize \in Nat \ {0}
  BY PointerFacts, Sizes, Zenon
<1>10. u <= p /\ p < u + BufSize /\ a <= u /\ u < a + BufSize
  BY <1>1, <1>2, <1>4, <1>6, <1>7, <1>8, <1>9
<1>11. PICK y, z : y = Ptr(Sar.unak) /\ z = Ptr(Sar.ackd)
  OBVIOUS
<1>12. Same(x, p, BufSize) /\ Same(y, u, BufSize) /\ Same(z, a, BufSize)
  BY <1>6, <1>7, <1>8, <1>9, <1>11, SameSelf, Zenon
<1>13. x \in Int /\ y \in Int /\ z \in Int
  BY <1>6, <1>7, <1>8, <1>9, <1>11
<1>14. Minus(x, y, BufSize) = p - u
  BY <1>6, <1>8, <1>9, <1>10, <1>12, <1>13, MinusIs
<1>15. Minus(y, z, BufSize) = u - a
  BY <1>6, <1>7, <1>9, <1>10, <1>12, <1>13, MinusIs
<1> QED
  BY <1>4, <1>6, <1>7, <1>8, <1>11, <1>14, <1>15, Zenon DEF CurrDatLen, UsedLength

LEMMA LastEndIs ==
    ASSUME TaiTypes, TxeTypes, FinLine, Pointers, SentLine, NEW n \in 0..(BufSize - 1), LastIs(n)
    PROVE  LastEnd(n)
<1>1. Processing("TX") /\ tst'.unak = Plus(Sar.unak, n) /\ UNCHANGED app
      /\ n = (IF CurrDatLen <= UsableWindow THEN CurrDatLen ELSE UsableWindow)
  BY Zenon DEF LastIs, MdlRest
<1>2. ~Closing
  BY <1>1, Zenon DEF FinLine, FinAtMdl
<1>3. ~tst.finSent /\ ~tst.finReady
  BY <1>2, Zenon DEF FinLine, FinAtMdl, Closing
<1>4. /\ U <= SeqPos(Sar.unak) /\ SeqPos(Sar.unak) <= BufPos(Sar.app) /\ BufPos(Sar.app) <= P
  BY <1>1, Zenon DEF SentLine, MdlLine
<1>5. /\ CurrDatLen = BufPos(Sar.app) - SeqPos(Sar.unak) /\ BufPos(Sar.app) \in Int /\ SeqPos(Sar.unak) \in Int
  BY <1>1, CurrDatLenIs, Zenon
<1>6. n <= CurrDatLen /\ n \in Nat
  BY <1>1, MdlFields
<1>7. P \in Int /\ P <= app.next /\ app.next \in Nat
  BY PointerFacts, Zenon
<1>8. PICK N, s : N = app.next /\ s = SeqPos(Sar.unak)
  OBVIOUS
<1>9. Sar.unak \in 0..(SeqMod - 1) /\ SeqAt(N, Sar.unak) = s
  BY <1>8, MdlFields, Zenon DEF SeqPos
<1>10. N \in Int /\ s + n <= BufPos(Sar.app) /\ s + n <= P /\ s + n <= N + 1
  BY <1>4, <1>5, <1>6, <1>7, <1>8
<1>11. SeqAt(N, Plus(Sar.unak, n)) = SeqAt(N, Sar.unak) + n
  BY <1>6, <1>9, <1>10, PlusSeq, Zenon
<1>12. U' = s + n
  BY <1>1, <1>8, <1>9, <1>11, Zenon DEF U, SeqPos
<1> QED
  BY <1>3, <1>4, <1>5, <1>6, <1>8, <1>10, <1>12, Zenon DEF LastEnd

LEMMA PointersMdl ==
    ASSUME TaiTypes, TxeTypes, FinLine, DataLine, Pointers, SentLine, MdlTx \/ MdlRt \/ MdlFin
    PROVE  Pointers'
<1>1. /\ FragmentIs \/ (\E n \in 0..(BufSize - 1) : LastIs(n)) \/ RtFragmentIs \/ RtLastIs \/ FinFirst \/ Again
      /\ A' = A /\ P' = P /\ UNCHANGED app
  BY MdlDoes, Zenon DEF MdlRest
<1>2. CASE FragmentIs \/ RtFragmentIs \/ RtLastIs \/ Again
  <2>1. UNCHANGED tst
    BY <1>2, Zenon DEF FragmentIs, RtFragmentIs, RtLastIs, Again, FinAgain
  <2> QED
    BY <1>1, <2>1, PointersKeep, Zenon
<1>3. CASE \E n \in 0..(BufSize - 1) : LastIs(n)
  <2>1. PICK n \in 0..(BufSize - 1) : LastIs(n)
    BY <1>3
  <2>2. LastEnd(n)
    BY <2>1, LastEndIs, Zenon
  <2>3. tst'.finSent = tst.finSent /\ tst'.finReady = tst.finReady
    BY <2>1, Zenon DEF LastIs, SameButUnak
  <2>4. U <= SeqPos(Sar.unak) /\ SeqPos(Sar.unak) \in Int /\ U' = SeqPos(Sar.unak) + n /\ U' <= P /\ ~tst.finSent /\ ~tst.finReady
    BY <2>2, Zenon DEF LastEnd
  <2>5. A <= U /\ A \in Int /\ U \in Int /\ n \in Nat
    BY PointerFacts, Sizes DEF Pointers
  <2>6. A <= U'
    BY <2>4, <2>5
  <2> QED
    BY <1>1, <2>3, <2>4, <2>6, Zenon DEF Pointers
<1>4. CASE FinFirst
  <2>1. (FinGoes \/ FinStays) /\ P = app.next /\ ~tst.finSent
    BY <1>4, FinFirstIs, Zenon
  <2>2. 0 <= A /\ app.next - BufSize < A /\ A <= U /\ U <= P
    BY <2>1, Zenon DEF Pointers
  <2>3. A \in Int /\ U \in Int /\ app.next \in Nat
    BY PointerFacts, Zenon
  <2>4. CASE FinGoes
    <3>1. tst'.finSent /\ U = app.next /\ U' = app.next + 1
      BY <2>4, Zenon DEF FinGoes
    <3>2. A <= U'
      BY <2>2, <2>3, <3>1
    <3> QED
      BY <1>1, <2>1, <2>2, <3>1, <3>2, Zenon DEF Pointers
  <2>5. CASE FinStays
    BY <1>1, <2>1, <2>2, <2>5, Zenon DEF Pointers, FinStays
  <2> QED
    BY <2>1, <2>4, <2>5
<1> QED
  BY <1>1, <1>2, <1>3, <1>4

LEMMA PointersTransition ==
    ASSUME TaiTypes, TxeTypes, NetTypes, Pointers, AckLine, RxeTransition
    PROVE  Pointers'
<1>1. /\ UNCHANGED app /\ U' = U /\ P' = P /\ A' \in Int /\ (Acknowledged \/ Ignored)
      /\ tst'.finReady = tst.finReady /\ tst'.finSent = tst.finSent
  BY TransitionIs, Zenon
<1>2. CASE Ignored
  BY <1>1, <1>2, PointersKeep, Zenon DEF Ignored
<1>3. CASE Acknowledged
  <2>1. A <= A' /\ A' <= U
    BY <1>3, Zenon DEF Acknowledged
  <2>2. 0 <= A /\ app.next - BufSize < A
    BY Zenon DEF Pointers
  <2>3. A \in Int /\ app.next \in Nat
    BY PointerFacts, Zenon
  <2>4. 0 <= A' /\ app.next - BufSize < A'
    BY <1>1, <2>1, <2>2, <2>3, Sizes
  <2> QED
    BY <1>1, <2>1, <2>4, Zenon DEF Pointers
<1> QED
  BY <1>1, <1>2, <1>3

LEMMA PointersStep ==
    ASSUME Types, FinLine, DataLine, SpaceLine, Pointers, AckLine, SentLine, [Next]_vars, InTime
    PROVE  Pointers'
<1>0. Actions \/ UNCHANGED vars
  BY NextIs
<1>t. TaiTypes /\ TxeTypes /\ NetTypes
  BY DEF Types
<1>1. CASE SmlAccept
  BY <1>1, <1>t, PointersSmlAccept, Zenon DEF InTime
<1>2. CASE TashStatus1 \/ TashStatus2
  BY <1>2, <1>t, PointersTash, Zenon
<1>3. CASE MdlTx \/ MdlRt \/ MdlFin
  BY <1>3, <1>t, PointersMdl, Zenon
<1>4. CASE RxeTransition
  BY <1>4, <1>t, PointersTransition, Zenon
<1>5. ASSUME ~SmlAccept, UNCHANGED tst PROVE Pointers'
  BY <1>0, <1>5, <1>t, AppStep, PointersKeep, Zenon
<1>6. CASE (AppRequest \/ AppClose \/ SmlRequest \/ TatAnswer \/ SmlRefuse \/ TatPush \/ Emx \/ TashIdle) /\ ~SmlAccept
  BY <1>5, <1>6, Zenon DEF AppRequest, AppClose, SmlRequest, TatAnswer, SmlRefuse, TatPush, Emx, TashIdle
<1>7. CASE (MwrIdle \/ MwrSplit \/ MwrAligned \/ MwrFirst \/ MwrUncut \/ MwrSecond \/ MwrResidue) /\ ~SmlAccept
  BY <1>5, <1>7, Zenon DEF MwrIdle, MwrSplit, MwrAligned, MwrFirst, MwrUncut, MwrSecond, MwrResidue
<1>8. CASE (MdlWait \/ MrdFirst \/ MrdSecond \/ TssHeader \/ TssSegment) /\ ~SmlAccept
  BY <1>5, <1>8, Zenon DEF MdlWait, MrdFirst, MrdSecond, TssHeader, TssSegment
<1>9. CASE (RxeLoad \/ TImExpire \/ (\E w \in Windows : PeerTakes(w)) \/ Lose \/ UNCHANGED vars) /\ ~SmlAccept
  BY <1>5, <1>9, Zenon DEF RxeLoad, TImExpire, PeerTakes, Lose, vars
<1> QED
  BY <1>0, <1>1, <1>2, <1>3, <1>4, <1>6, <1>7, <1>8, <1>9, Zenon DEF Actions

----------------------------------------------------------------------------
(* AckLine: acknowledgments *)

LEMMA AckKeep ==
    ASSUME TaiTypes, TxeTypes, NetTypes, AckLine, app'.next = app.next, tst'.ackd = tst.ackd, tst'.win = tst.win,
           U <= U', U' \in Int, tst.finSent => tst'.finSent, UNCHANGED <<rxe, acks, peer>>
    PROVE  AckLine'
<1>1. A' = A /\ app.next \in Int
  <2>1. app.next \in Int
    BY DEF TaiTypes
  <2> QED
    BY <2>1, Zenon DEF A, SeqPos
<1>2. RcvLine'
  BY <1>1, Zenon DEF AckLine, RcvLine
<1>3. AcksLine'
  BY <1>1, Zenon DEF AckLine, AcksLine, SeqPos
<1>4. RxeLine'
  <2>1. SeqPos(rxe.unak) \in Int
    BY <1>1, SeqAtRange DEF NetTypes, SeqPos
  <2>2. U \in Int
    BY PointerFacts, Zenon
  <2>3. SeqPos(rxe.unak) <= U => SeqPos(rxe.unak) <= U'
    BY <2>1, <2>2
  <2> QED
    BY <1>1, <2>3, Zenon DEF AckLine, RxeLine, SeqPos
<1> QED
  BY <1>2, <1>3, <1>4, Zenon DEF AckLine

LEMMA AckSmlAccept ==
    ASSUME TaiTypes, TxeTypes, NetTypes, FinLine, SpaceLine, Pointers, AckLine, SmlAccept, ~app.closed
    PROVE  AckLine'
<1>1. PICK a, n, m : Room(a, n, m)
  BY RoomIs
<1>2. UNCHANGED <<tst, rxe, acks, peer>>
  BY Zenon DEF SmlAccept, net
<1>3. A' = A /\ U' = U
  BY <1>1, <1>2, EntryStays, Zenon
<1>4. /\ n = app.next /\ app'.next = m /\ a <= A /\ ~tst.finSent /\ m \in Int /\ a \in Int /\ n \in Int /\ n <= m
      /\ \A x \in 0..(SeqMod - 1) : a - BufSize < SeqAt(n, x) => SeqAt(m, x) = SeqAt(n, x)
  BY <1>1, Zenon DEF Room, Stays
<1>5. A \in Int /\ BufSize \in Nat \ {0}
  BY PointerFacts, Sizes, Zenon
<1>6. ASSUME NEW x \in 0..(SeqMod - 1), A <= SeqPos(x) PROVE SeqAt(m, x) = SeqPos(x)
  <2>1. PICK s : s = SeqAt(n, x)
    OBVIOUS
  <2>2. s \in Int /\ A <= s
    BY <1>4, <1>6, <2>1, SeqAtRange, Zenon DEF SeqPos
  <2>3. a - BufSize < s
    BY <1>4, <1>5, <2>2
  <2> QED
    BY <1>4, <2>1, <2>3, Zenon DEF SeqPos
<1>7. RcvLine'
  <2>1. A <= peer.rcv /\ peer.rcv <= n + 1 /\ (peer.fin <=> peer.rcv = n + 1) /\ (peer.fin => tst.finSent)
        /\ (~peer.fin => A + tst.win <= peer.edge)
    BY <1>4, Zenon DEF AckLine, RcvLine
  <2>2. peer.rcv \in Nat /\ m \in Int
    BY <1>4 DEF NetTypes
  <2>3. ~peer.fin
    BY <1>4, <2>1
  <2>4. peer.rcv <= m + 1 /\ peer.rcv # m + 1
    BY <1>4, <2>1, <2>2, <2>3
  <2> QED
    BY <1>2, <1>3, <1>4, <2>1, <2>3, <2>4, Zenon DEF RcvLine
<1>8. RxeLine'
  <2>1. rxe.ack \in 0..(SeqMod - 1) /\ rxe.unak \in 0..(SeqMod - 1)
    BY DEF NetTypes
  <2> QED
    BY <1>2, <1>3, <1>4, <1>6, <2>1, Zenon DEF AckLine, RxeLine, SeqPos
<1>9. AcksLine'
  <2>1. ASSUME NEW i \in 1..Len(acks) PROVE acks[i].ack \in 0..(SeqMod - 1)
    <3>1. acks \in Seq(Acks)
      BY DEF NetTypes
    <3>2. acks[i] \in Acks
      BY <3>1, ElementOf, Zenon
    <3> QED
      BY <3>2 DEF Acks
  <2>2. \A i \in 1..Len(acks) : SeqAt(m, acks[i].ack) = SeqPos(acks[i].ack)
    BY <1>6, <2>1, Zenon DEF AckLine, AcksLine
  <2>3. rxe.st = "TRANSITION" => SeqAt(m, rxe.ack) = SeqPos(rxe.ack)
    <3>1. rxe.ack \in 0..(SeqMod - 1)
      BY DEF NetTypes
    <3> QED
      BY <1>6, <3>1, Zenon DEF AckLine, RxeLine
  <2>4. \A i \in 1..Len(acks) :
          /\ A <= SeqAt(m, acks[i].ack) /\ SeqAt(m, acks[i].ack) <= peer.rcv
          /\ rxe.st = "TRANSITION" => SeqAt(m, rxe.ack) <= SeqAt(m, acks[i].ack)
          /\ ~peer.fin => SeqAt(m, acks[i].ack) + acks[i].win <= peer.edge
    BY <2>2, <2>3, Zenon DEF AckLine, AcksLine
  <2>5. \A i \in 1..Len(acks), j \in 1..Len(acks) : i < j => SeqAt(m, acks[i].ack) <= SeqAt(m, acks[j].ack)
    BY <2>2, Zenon DEF AckLine, AcksLine
  <2> QED
    BY <1>2, <1>3, <1>4, <2>4, <2>5, Zenon DEF AcksLine, SeqPos
<1> QED
  BY <1>7, <1>8, <1>9, Zenon DEF AckLine

LEMMA AckRxeLoad ==
    ASSUME TaiTypes, TxeTypes, NetTypes, Pointers, AckLine, RxeLoad
    PROVE  AckLine'
<1>1. /\ UNCHANGED <<app, tst, peer>> /\ rxe.st = "LOAD" /\ acks # <<>> /\ acks' = Tail(acks)
      /\ rxe' = [st |-> "TRANSITION", ack |-> Head(acks).ack, win |-> Head(acks).win, ackd |-> tst.ackd, unak |-> tst.unak]
  BY Zenon DEF RxeLoad, tai
<1>2. PICK h : h = Head(acks)
  OBVIOUS
<1>3. rxe'.st = "TRANSITION" /\ rxe'.ack = h.ack /\ rxe'.win = h.win /\ rxe'.ackd = tst.ackd /\ rxe'.unak = tst.unak
  BY <1>1, <1>2
<1>4. PICK L : L = Len(acks)
  OBVIOUS
<1>5. /\ L \in Nat \ {0} /\ Len(acks') = L - 1 /\ h = acks[1]
      /\ \A i \in 1..(L - 1) : i + 1 \in 1..L /\ acks'[i] = acks[i + 1]
  <2>1. acks \in Seq(Acks)
    BY DEF NetTypes
  <2> QED
    BY <1>1, <1>2, <1>4, <2>1, HeadTail, Zenon
<1>6. 1 \in 1..L /\ (\A i \in 1..(L - 1) : 1 < i + 1) /\ (\A i \in 1..(L - 1), j \in 1..(L - 1) : i < j => i + 1 < j + 1)
  BY <1>5
<1>7. A' = A /\ U' = U
  BY <1>1, Zenon DEF A, U, SeqPos
<1>8. RcvLine'
  BY <1>1, <1>7, Zenon DEF AckLine, RcvLine
<1>9. /\ \A i \in 1..L :
          /\ A <= SeqPos(acks[i].ack) /\ SeqPos(acks[i].ack) <= peer.rcv
          /\ ~peer.fin => SeqPos(acks[i].ack) + acks[i].win <= peer.edge
      /\ \A i \in 1..L, j \in 1..L : i < j => SeqPos(acks[i].ack) <= SeqPos(acks[j].ack)
  BY <1>4, Zenon DEF AckLine, AcksLine
<1>10. RxeLine'
  <2>1. A <= U /\ U <= U
    BY PointerFacts DEF Pointers
  <2>2. A <= SeqPos(h.ack) /\ SeqPos(h.ack) <= peer.rcv /\ (~peer.fin => SeqPos(h.ack) + h.win <= peer.edge)
    BY <1>5, <1>6, <1>9, Zenon
  <2> QED
    BY <1>1, <1>3, <1>7, <2>1, <2>2, Zenon DEF RxeLine, SeqPos, U
<1>11. \A i \in 1..(L - 1) :
          /\ A <= SeqPos(acks'[i].ack) /\ SeqPos(acks'[i].ack) <= peer.rcv
          /\ SeqPos(h.ack) <= SeqPos(acks'[i].ack)
          /\ ~peer.fin => SeqPos(acks'[i].ack) + acks'[i].win <= peer.edge
  BY <1>5, <1>6, <1>9, Zenon
<1>12. \A i \in 1..(L - 1), j \in 1..(L - 1) : i < j => SeqPos(acks'[i].ack) <= SeqPos(acks'[j].ack)
  BY <1>5, <1>6, <1>9, Zenon
<1>13. AcksLine'
  BY <1>1, <1>3, <1>5, <1>7, <1>11, <1>12, Zenon DEF AcksLine, SeqPos
<1> QED
  BY <1>8, <1>10, <1>13, Zenon DEF AckLine

LEMMA AckTransition ==
    ASSUME TaiTypes, TxeTypes, NetTypes, AckLine, RxeTransition
    PROVE  AckLine'
<1>1. /\ rxe.st = "TRANSITION" /\ rxe'.st = "LOAD"
      /\ UNCHANGED <<app, acks, peer>> /\ U' = U /\ tst'.finSent = tst.finSent
      /\ Acknowledged \/ Ignored
  BY TransitionIs, Zenon
<1>2. rxe'.st # "TRANSITION"
  BY <1>1
<1>3. RxeLine'
  BY <1>2, Zenon DEF RxeLine
<1>4. CASE Acknowledged
  <2>1. A' = SeqPos(rxe.ack) /\ A' <= peer.rcv /\ tst'.win = rxe.win
    BY <1>4, Zenon DEF Acknowledged
  <2>2. RcvLine'
    BY <1>1, <2>1, Zenon DEF AckLine, RcvLine, RxeLine
  <2>3. AcksLine'
    BY <1>1, <1>2, <2>1, Zenon DEF AckLine, AcksLine, SeqPos
  <2> QED
    BY <1>3, <2>2, <2>3, Zenon DEF AckLine
<1>5. CASE Ignored
  <2>1. A' = A /\ tst' = tst
    BY <1>1, <1>5, Zenon DEF Ignored, A, SeqPos
  <2>2. RcvLine'
    BY <1>1, <2>1, Zenon DEF AckLine, RcvLine
  <2>3. AcksLine'
    BY <1>1, <1>2, <2>1, Zenon DEF AckLine, AcksLine, SeqPos
  <2> QED
    BY <1>3, <2>2, <2>3, Zenon DEF AckLine
<1> QED
  BY <1>1, <1>4, <1>5
----------------------------------------------------------------------------
(* What the peer takes *)

\* The peer sees the segment where it is, takes no more than was sent, and ends after the FIN only.
Taken(w, g, h, rcv, fin) ==
    /\ rcv \in Nat /\ peer.rcv <= rcv /\ rcv <= app.next + 1 /\ (fin <=> rcv = app.next + 1)
    /\ fin => tst.finSent
    /\ peer.fin => fin
    /\ peer'.rcv = rcv /\ (peer'.fin <=> fin) /\ peer.edge <= peer'.edge /\ peer'.edge \in Nat
    /\ ~fin => peer'.edge = rcv + w /\ rcv <= DataEnd
    /\ ~fin => rcv = peer.rcv \/ (g.hdr = <<h>> /\ rcv <= SeqPos(h.seq) + h.len)
    /\ g = wire[1] /\ wire # <<>> /\ wire' = Tail(wire)
    /\ acks' = Append(acks, [ack |-> rcv % SeqMod, win |-> w]) /\ rcv % SeqMod \in 0..(SeqMod - 1)
    /\ UNCHANGED rxe

LEMMA HeaderFacts ==
    ASSUME TaiTypes, NEW h \in Headers
    PROVE  /\ h.seq \in 0..(SeqMod - 1) /\ h.len \in 0..(BufSize - 1) /\ h.len \in Nat /\ h.fin \in BOOLEAN
           /\ SeqPos(h.seq) \in Int /\ SeqPos(h.seq) % SeqMod = h.seq
<1>1. h.seq \in 0..(SeqMod - 1) /\ h.len \in 0..(BufSize - 1) /\ h.len \in Nat /\ h.fin \in BOOLEAN
  BY Sizes DEF Headers
<1>2. app.next \in Int
  BY DEF TaiTypes
<1> QED
  BY <1>1, <1>2, SeqAtRange, Zenon DEF SeqPos

LEMMA TakenIs ==
    ASSUME TaiTypes, TxeTypes, NetTypes, Pointers, AckLine, SentLine, WireLine, NEW w \in Nat, PeerTakes(w)
    PROVE  \E g, h, rcv, fin : Taken(w, g, h, rcv, fin)
<1>1. PICK g, h, from, next, fin, rcv : Takes(w, g, h, from, next, fin, rcv)
  BY TakesIs
<1>2. /\ wire # <<>> /\ g = wire[1] /\ g \in WireFrames
      /\ h = IF g.hdr = <<>> THEN Header(0, 0, FALSE) ELSE g.hdr[1]
      /\ h \in Headers
      /\ from = Position(h.seq) /\ from \in Int /\ Size(g) \in Nat
      /\ next = IF g.hdr # <<>> /\ ~peer.fin /\ from <= peer.rcv /\ from + Size(g) > peer.rcv THEN from + Size(g) ELSE peer.rcv
      /\ next \in Nat /\ peer.rcv <= next
      /\ fin = (h.fin /\ from + h.len = next) /\ fin \in BOOLEAN
      /\ rcv = (IF fin /\ ~peer.fin THEN next + 1 ELSE next) /\ rcv \in Nat
      /\ next + w >= peer.edge
      /\ peer' = [rcv |-> rcv, fin |-> peer.fin \/ fin, edge |-> next + w]
      /\ acks' = Append(acks, [ack |-> rcv % SeqMod, win |-> w]) /\ rcv % SeqMod \in 0..(SeqMod - 1)
      /\ wire' = Tail(wire)
      /\ UNCHANGED rxe
  BY <1>1, Zenon DEF Takes
<1>21. next \in Nat /\ rcv \in Nat /\ peer.rcv <= next /\ next + w >= peer.edge /\ from \in Int /\ Size(g) \in Nat
  BY <1>2, Zenon
<1>22. rcv = IF fin /\ ~peer.fin THEN next + 1 ELSE next
  BY <1>2, Zenon
<1>23. next = peer.rcv \/ (g.hdr # <<>> /\ ~peer.fin /\ next = from + Size(g))
  BY <1>2, Zenon
<1>24. fin \in BOOLEAN /\ (fin <=> h.fin /\ from + h.len = next)
  <2>1. fin \in BOOLEAN /\ fin = (h.fin /\ from + h.len = next)
    BY <1>2, Zenon
  <2> QED
    BY <2>1
<1>3. peer'.rcv = rcv /\ peer'.fin = (peer.fin \/ fin) /\ peer'.edge = next + w
  <2>1. peer' = [rcv |-> rcv, fin |-> peer.fin \/ fin, edge |-> next + w]
    BY <1>2, Zenon
  <2> QED
    BY <2>1
<1>4. peer.rcv \in Nat /\ peer.fin \in BOOLEAN /\ peer.edge \in Nat
  BY DEF NetTypes
<1>5. A <= peer.rcv /\ peer.rcv <= app.next + 1 /\ (peer.fin <=> peer.rcv = app.next + 1) /\ (peer.fin => tst.finSent)
  BY Zenon DEF AckLine, RcvLine
<1>6. app.next \in Nat /\ A \in Int /\ P \in Int /\ P <= app.next /\ BufSize \in Nat \ {0} /\ app.next - BufSize < A
  BY PointerFacts, Sizes, Zenon DEF Pointers
<1>7. h.len \in Nat /\ h.fin \in BOOLEAN /\ SeqPos(h.seq) \in Int /\ SeqPos(h.seq) % SeqMod = h.seq
  BY <1>2, HeaderFacts, Zenon
<1>8. peer.edge <= peer'.edge /\ peer'.edge \in Nat
  BY <1>21, <1>3, <1>4
<1>9. CASE peer.fin
  <2>1. next = peer.rcv /\ rcv = peer.rcv
    BY <1>22, <1>23, <1>9, Zenon
  <2>2. rcv <= rcv
    BY <1>21
  <2> QED
    BY <1>2, <1>3, <1>5, <1>8, <1>9, <2>1, <2>2, Zenon DEF Taken
<1>10. CASE ~peer.fin /\ g.hdr = <<>>
  <2>1. ~h.fin
    <3>1. h = Header(0, 0, FALSE)
      BY <1>2, <1>10, Zenon
    <3> QED
      BY <3>1 DEF Header
  <2>2. ~fin /\ next = peer.rcv /\ rcv = peer.rcv
    BY <1>22, <1>23, <1>24, <1>10, <2>1, Zenon
  <2>3. peer.rcv <= DataEnd /\ rcv <= rcv
    <3>1. rcv <= rcv
      BY <1>21
    <3> QED
      BY <1>10, <3>1, Zenon DEF SentLine
  <2> QED
    BY <1>2, <1>3, <1>5, <1>8, <1>10, <2>2, <2>3, Zenon DEF Taken
<1>11. CASE ~peer.fin /\ g.hdr # <<>>
  <2>1. Sound(h) /\ Size(g) <= h.len /\ g.hdr = <<h>>
    <3>1. 1 \in 1..Len(wire)
      <4>1. Len(wire) \in Nat \ {0}
        BY <1>2, HeadTail, Zenon DEF NetTypes
      <4> QED
        BY <4>1
    <3>2. HasHeader(1) /\ h = wire[1].hdr[1]
      BY <1>2, <1>11, Zenon DEF HasHeader
    <3>3. Sound(h) /\ Size(g) <= h.len
      BY <1>2, <3>1, <3>2, Zenon DEF WireLine
    <3>4. g.hdr = <<h>>
      <4>1. g \in WireFrames /\ h = g.hdr[1]
        BY <1>2, <1>11, Zenon
      <4>2. PICK y : g.hdr = <<y>>
        BY <1>11, <4>1 DEF WireFrames
      <4>3. y = h
        BY <4>1, <4>2
      <4> QED
        BY <4>2, <4>3, Zenon
    <3> QED
      BY <3>3, <3>4
  <2>2. PICK s : s = SeqPos(h.seq)
    OBVIOUS
  <2>3. /\ h.fin => h.len = 0 /\ s = app.next /\ tst.finSent
        /\ 0 <= s /\ peer.rcv < s + BufSize /\ s + h.len <= DataEnd
    BY <1>11, <2>1, <2>2, Zenon DEF Sound
  <2>4. DataEnd <= P /\ peer.rcv <= DataEnd
    BY <1>11, Zenon DEF SentLine
  <2>5. DataEnd \in Int
    <3>1. U \in Int
      BY PointerFacts, Zenon
    <3>2. SeqPos(Sar.unak) \in Int
      <4>1. Sar.unak \in 0..(SeqMod - 1) /\ app.next \in Int
        BY <1>6, MdlFields
      <4> QED
        BY <4>1, SeqAtRange, Zenon DEF SeqPos
    <3> QED
      BY <1>6, <3>1, <3>2 DEF DataEnd
  <2>6. from = s
    <3>1. s \in Nat /\ peer.rcv - BufSize < s /\ s <= peer.rcv + BufSize
      BY <1>4, <1>5, <1>6, <1>7, <2>2, <2>3, <2>4, <2>5
    <3>2. Position(s % SeqMod) = s
      BY <1>4, <3>1, PositionIs, Zenon
    <3> QED
      BY <1>2, <1>7, <2>2, <3>2, Zenon
  <2>7. next <= DataEnd /\ next <= app.next
    BY <1>21, <1>23, <1>4, <1>6, <1>7, <2>1, <2>2, <2>3, <2>4, <2>5, <2>6
  <2>8. fin => next = app.next /\ rcv = app.next + 1 /\ tst.finSent
    <3> HAVE fin
    <3>1. h.fin /\ s + h.len = next /\ rcv = next + 1
      BY <1>22, <1>24, <1>11, <2>6, Zenon
    <3> QED
      BY <1>6, <1>7, <1>21, <2>2, <2>3, <3>1
  <2>9. ~fin => rcv = next
    BY <1>22
  <2>10. (fin <=> rcv = app.next + 1) /\ rcv <= app.next + 1 /\ peer.rcv <= rcv
    BY <1>21, <1>24, <1>4, <1>6, <2>7, <2>8, <2>9
  <2>11. ~fin => rcv = peer.rcv \/ rcv <= s + h.len
    BY <1>21, <1>23, <1>4, <1>7, <2>1, <2>2, <2>6, <2>9
  <2>12. ~fin => peer'.edge = rcv + w /\ rcv <= DataEnd
    BY <1>3, <2>7, <2>9, Zenon
  <2>13. peer'.fin <=> fin
    BY <1>3, <1>24, <1>11, Zenon
  <2> QED
    BY <1>2, <1>3, <1>8, <1>11, <2>1, <2>2, <2>8, <2>10, <2>11, <2>12, <2>13, Zenon DEF Taken
<1> QED
  BY <1>9, <1>10, <1>11

LEMMA AckPeerTakes ==
    ASSUME TaiTypes, TxeTypes, NetTypes, Pointers, AckLine, SentLine, WireLine, NEW w \in Nat, PeerTakes(w)
    PROVE  AckLine'
<1>1. PICK g, h, rcv, fin : Taken(w, g, h, rcv, fin)
  BY TakenIs
<1>2. UNCHANGED <<app, tst>>
  BY Zenon DEF PeerTakes, tai
<1>3. /\ rcv \in Nat /\ peer.rcv <= rcv /\ rcv <= app.next + 1 /\ (fin <=> rcv = app.next + 1)
      /\ fin => tst.finSent
      /\ peer.fin => fin
      /\ peer'.rcv = rcv /\ (peer'.fin <=> fin) /\ peer.edge <= peer'.edge /\ peer'.edge \in Nat
      /\ ~fin => peer'.edge = rcv + w
      /\ acks' = Append(acks, [ack |-> rcv % SeqMod, win |-> w]) /\ rcv % SeqMod \in 0..(SeqMod - 1)
      /\ UNCHANGED rxe
  BY <1>1, Zenon DEF Taken
<1>31. /\ rcv \in Nat /\ peer.rcv <= rcv /\ rcv <= app.next + 1 /\ peer.edge <= peer'.edge /\ peer'.edge \in Nat
       /\ ~fin => peer'.edge = rcv + w
       /\ peer.fin => fin
  BY <1>3, Zenon
<1>4. A' = A /\ U' = U
  BY <1>2, Zenon DEF A, U, SeqPos
<1>5. /\ peer.rcv \in Nat /\ peer.edge \in Nat /\ A \in Int /\ app.next \in Nat /\ tst.win \in Nat
      /\ BufSize \in Nat \ {0} /\ SeqMod \in Nat \ {0} /\ SeqMod >= 2 * BufSize /\ app.next - BufSize < A
      /\ rxe.ack \in 0..(SeqMod - 1) /\ rxe.win \in Nat
  BY PointerFacts, Sizes DEF NetTypes, Pointers, TxeTypes, States
<1>6. /\ A <= peer.rcv /\ peer.rcv <= app.next + 1
      /\ ~peer.fin => A + tst.win <= peer.edge
  BY Zenon DEF AckLine, RcvLine
<1>7. RcvLine'
  <2>1. A <= rcv /\ (~fin => A + tst.win <= peer'.edge)
    BY <1>31, <1>5, <1>6
  <2> QED
    BY <1>2, <1>3, <1>4, <2>1, Zenon DEF RcvLine
<1>80. SeqPos(rxe.ack) \in Int
  <2>1. app.next \in Int
    BY <1>5
  <2> QED
    BY <1>5, <2>1, SeqAtRange, Zenon DEF SeqPos
<1>8. RxeLine'
  <2>2. rxe.st = "TRANSITION" => SeqPos(rxe.ack) <= rcv /\ (~fin => SeqPos(rxe.ack) + rxe.win <= peer'.edge)
    <3> HAVE rxe.st = "TRANSITION"
    <3>1. SeqPos(rxe.ack) <= peer.rcv /\ (~peer.fin => SeqPos(rxe.ack) + rxe.win <= peer.edge)
      BY Zenon DEF AckLine, RxeLine
    <3> QED
      BY <1>31, <1>5, <1>80, <3>1
  <2> QED
    BY <1>2, <1>3, <1>4, <2>2, Zenon DEF AckLine, RxeLine, SeqPos
<1>9. PICK L, r : L = Len(acks) /\ r = [ack |-> rcv % SeqMod, win |-> w]
  OBVIOUS
<1>10. r \in Acks /\ acks \in Seq(Acks) /\ r.ack = rcv % SeqMod /\ r.win = w
  BY <1>3, <1>9 DEF Acks, NetTypes
<1>11. L \in Nat /\ Len(acks') = L + 1 /\ (\A i \in 1..L : acks'[i] = acks[i]) /\ acks'[L + 1] = r
  <2>1. /\ Len(Append(acks, r)) = Len(acks) + 1 /\ Len(acks) \in Nat
        /\ (\A i \in 1..Len(acks) : Append(acks, r)[i] = acks[i]) /\ Append(acks, r)[Len(acks) + 1] = r
    BY <1>10, AppendIs
  <2> QED
    BY <1>3, <1>9, <2>1, Zenon
<1>12. SeqPos(r.ack) = rcv
  <2>1. PICK n : n = app.next
    OBVIOUS
  <2>2. n \in Int /\ rcv \in Int /\ n + 1 - SeqMod < rcv /\ rcv <= n + 1
    BY <1>31, <1>5, <1>6, <2>1
  <2> QED
    BY <1>10, <2>1, <2>2, SeqAtIs, Zenon DEF SeqPos
<1>13. PICK f : f = [i \in 1..(L + 1) |-> SeqPos(acks'[i].ack)]
  OBVIOUS
<1>14. \A i \in 1..(L + 1) : f[i] = SeqPos(acks'[i].ack)
  BY <1>13, Zenon
<1>15. L + 1 \in 1..(L + 1) /\ (\A i \in 1..L : i \in 1..(L + 1)) /\ \A i \in 1..(L + 1) : i \in 1..L \/ i = L + 1
  BY <1>11
<1>16. f[L + 1] = rcv /\ \A i \in 1..L : f[i] = SeqPos(acks[i].ack)
  BY <1>11, <1>12, <1>14, <1>15, Zenon
<1>17. \A i \in 1..L : f[i] \in Int /\ acks[i].win \in Nat
  <2> SUFFICES ASSUME NEW i \in 1..L PROVE f[i] \in Int /\ acks[i].win \in Nat
    OBVIOUS
  <2>1. acks[i] \in Acks
    BY <1>9, <1>10, ElementOf, Zenon
  <2>2. acks[i].ack \in 0..(SeqMod - 1) /\ acks[i].win \in Nat /\ app.next \in Int
    BY <1>5, <2>1 DEF Acks
  <2> QED
    BY <1>16, <2>2, SeqAtRange, Zenon DEF SeqPos
<1>18. /\ \A i \in 1..L :
          /\ A <= f[i] /\ f[i] <= peer.rcv
          /\ rxe.st = "TRANSITION" => SeqPos(rxe.ack) <= f[i]
          /\ ~peer.fin => f[i] + acks[i].win <= peer.edge
       /\ \A i \in 1..L, j \in 1..L : i < j => f[i] <= f[j]
  BY <1>9, <1>16, Zenon DEF AckLine, AcksLine
<1>19. rxe.st = "TRANSITION" => SeqPos(rxe.ack) \in Int /\ SeqPos(rxe.ack) <= peer.rcv
  BY <1>80, Zenon DEF AckLine, RxeLine
<1>20. \A i \in 1..(L + 1) :
          /\ A <= f[i] /\ f[i] <= rcv
          /\ rxe.st = "TRANSITION" => SeqPos(rxe.ack) <= f[i]
          /\ ~fin => f[i] + acks'[i].win <= peer'.edge
  <2> SUFFICES ASSUME NEW i \in 1..(L + 1)
               PROVE  /\ A <= f[i] /\ f[i] <= rcv
                      /\ rxe.st = "TRANSITION" => SeqPos(rxe.ack) <= f[i]
                      /\ ~fin => f[i] + acks'[i].win <= peer'.edge
    OBVIOUS
  <2>1. CASE i \in 1..L
    <3>1. acks'[i] = acks[i]
      BY <1>11, <2>1, Zenon
    <3> QED
      BY <1>31, <1>5, <1>17, <1>18, <2>1, <3>1
  <2>2. CASE i = L + 1
    <3>1. f[i] = rcv /\ acks'[i].win = w
      BY <1>10, <1>11, <1>16, <2>2, Zenon
    <3>2. ~fin => rcv + w <= peer'.edge
      BY <1>31
    <3>3. A <= rcv /\ rcv <= rcv /\ (rxe.st = "TRANSITION" => SeqPos(rxe.ack) <= rcv)
      BY <1>31, <1>5, <1>6, <1>19
    <3> QED
      BY <3>1, <3>2, <3>3, Zenon
  <2> QED
    BY <1>15, <2>1, <2>2
<1>21. \A i \in 1..(L + 1), j \in 1..(L + 1) : i < j => f[i] <= f[j]
  <2> SUFFICES ASSUME NEW i \in 1..(L + 1), NEW j \in 1..(L + 1), i < j PROVE f[i] <= f[j]
    OBVIOUS
  <2>1. i \in 1..L
    BY <1>11
  <2>2. CASE j \in 1..L
    BY <1>18, <2>1, <2>2, Zenon
  <2>3. CASE j = L + 1
    BY <1>31, <1>5, <1>16, <1>17, <1>18, <2>1, <2>3
  <2> QED
    BY <1>15, <2>2, <2>3
<1>22. AcksLine'
  <2>2. \A i \in 1..(L + 1) : f[i] = SeqAt(app.next, acks'[i].ack)
    BY <1>14, Zenon DEF SeqPos
  <2>3. rxe.st = "TRANSITION" => \A i \in 1..(L + 1) : SeqAt(app.next, rxe.ack) <= f[i]
    BY <1>20, Zenon DEF SeqPos
  <2>4. /\ \A i \in 1..Len(acks') :
              /\ A <= SeqAt(app.next, acks'[i].ack) /\ SeqAt(app.next, acks'[i].ack) <= rcv
              /\ rxe.st = "TRANSITION" => SeqAt(app.next, rxe.ack) <= SeqAt(app.next, acks'[i].ack)
              /\ ~fin => SeqAt(app.next, acks'[i].ack) + acks'[i].win <= peer'.edge
        /\ \A i \in 1..Len(acks'), j \in 1..Len(acks') : i < j => SeqAt(app.next, acks'[i].ack) <= SeqAt(app.next, acks'[j].ack)
    BY <1>11, <1>20, <1>21, <2>2, <2>3, Zenon
  <2>5. UNCHANGED <<app, rxe>> /\ peer'.rcv = rcv /\ (peer'.fin <=> fin) /\ A' = A
    BY <1>2, <1>3, <1>4, Zenon
  <2> QED
    BY <2>4, <2>5, Zenon DEF AcksLine, SeqPos
<1> QED
  BY <1>7, <1>8, <1>22, Zenon DEF AckLine

----------------------------------------------------------------------------
(* SentLine: what has been sent *)

LEMMA AckLineStep ==
    ASSUME IInv, [Next]_vars, InTime
    PROVE  AckLine'
<1>0. Actions \/ UNCHANGED vars
  BY NextIs
<1>t. /\ TaiTypes /\ TxeTypes /\ NetTypes /\ FinLine /\ DataLine /\ SpaceLine /\ Pointers /\ AckLine /\ SentLine /\ WireLine
  BY DEF IInv, Types
<1>u. U \in Int /\ U <= U
  BY <1>t, PointerFacts
<1>1. CASE SmlAccept
  BY <1>1, <1>t, AckSmlAccept, Zenon DEF InTime
<1>2. CASE RxeLoad
  BY <1>2, <1>t, AckRxeLoad, Zenon
<1>3. CASE RxeTransition
  BY <1>3, <1>t, AckTransition, Zenon
<1>4. CASE \E w \in Windows : PeerTakes(w)
  <2>1. PICK w \in Windows : PeerTakes(w)
    BY <1>4
  <2>2. w \in Nat
    BY <2>1, LengthAssumption, Sizes DEF LengthAssumption
  <2> QED
    BY <1>t, <2>1, <2>2, AckPeerTakes, Zenon
<1>5. CASE MdlTx \/ MdlRt \/ MdlFin
  <2>1. /\ FragmentIs \/ (\E n \in 0..(BufSize - 1) : LastIs(n)) \/ RtFragmentIs \/ RtLastIs \/ FinFirst \/ Again
        /\ tst'.ackd = tst.ackd /\ tst'.win = tst.win /\ UNCHANGED <<app, rxe, acks, peer>>
    BY <1>5, <1>t, MdlDoes, Zenon DEF MdlRest
  <2>2. CASE FragmentIs \/ RtFragmentIs \/ RtLastIs \/ Again
    <3>1. UNCHANGED tst
      BY <2>2, Zenon DEF FragmentIs, RtFragmentIs, RtLastIs, Again, FinAgain
    <3>2. U' = U
      BY <2>1, <3>1, Zenon DEF U, SeqPos
    <3> QED
      BY <1>t, <1>u, <2>1, <3>1, <3>2, AckKeep, Zenon
  <2>3. CASE \E n \in 0..(BufSize - 1) : LastIs(n)
    <3>1. PICK n \in 0..(BufSize - 1) : LastIs(n)
      BY <2>3
    <3>2. U <= SeqPos(Sar.unak) /\ SeqPos(Sar.unak) \in Int /\ U' = SeqPos(Sar.unak) + n
      BY <1>t, <3>1, LastEndIs, Zenon DEF LastEnd
    <3>3. U <= U' /\ U' \in Int
      BY <1>u, <3>1, <3>2, Sizes
    <3>4. tst'.finSent = tst.finSent
      BY <3>1, Zenon DEF LastIs, SameButUnak
    <3> QED
      BY <1>t, <2>1, <3>3, <3>4, AckKeep, Zenon
  <2>4. CASE FinFirst
    <3>1. (FinGoes \/ FinStays) /\ ~tst.finSent
      BY <1>t, <2>4, FinFirstIs, Zenon
    <3>2. U' = U + 1 \/ U' = U
      <4>1. CASE FinGoes
        <5>1. U = app.next /\ U' = app.next + 1
          BY <4>1, Zenon DEF FinGoes
        <5> QED
          BY <5>1
      <4> QED
        BY <3>1, <4>1, Zenon DEF FinStays
    <3>3. U <= U' /\ U' \in Int
      BY <1>u, <3>2
    <3> QED
      BY <1>t, <2>1, <3>1, <3>3, AckKeep, Zenon
  <2> QED
    BY <2>1, <2>2, <2>3, <2>4
<1>6. CASE TashStatus1 \/ TashStatus2
  <2>1. UNCHANGED <<app, rxe, acks, peer>> /\ (tst' = tst \/ tst' = [tst EXCEPT !.app = Ptr(TxAppPtr)])
    BY <1>6, Zenon DEF TashStatus1, TashStatus2, Announce, net
  <2>2. tst'.ackd = tst.ackd /\ tst'.win = tst.win /\ tst'.unak = tst.unak /\ tst'.finSent = tst.finSent
    BY <1>t, <2>1 DEF TxeTypes, States
  <2>3. U' = U
    BY <2>1, <2>2, Zenon DEF U, SeqPos
  <2> QED
    BY <1>t, <1>u, <2>1, <2>2, <2>3, AckKeep, Zenon
<1>7. ASSUME ~SmlAccept, UNCHANGED <<tst, rxe, acks, peer>> PROVE AckLine'
  <2>1. app'.next = app.next
    BY <1>0, <1>7, <1>t, AppStep, Zenon
  <2>2. U' = U
    BY <1>7, <2>1, Zenon DEF U, SeqPos
  <2> QED
    BY <1>t, <1>u, <1>7, <2>1, <2>2, AckKeep, Zenon
<1>8. CASE (AppRequest \/ AppClose \/ SmlRequest \/ TatAnswer \/ SmlRefuse \/ TatPush \/ Emx \/ TashIdle) /\ ~SmlAccept
  BY <1>7, <1>8, Zenon DEF AppRequest, AppClose, SmlRequest, TatAnswer, SmlRefuse, TatPush, Emx, TashIdle, net
<1>9. CASE (MwrIdle \/ MwrSplit \/ MwrAligned \/ MwrFirst \/ MwrUncut \/ MwrSecond \/ MwrResidue) /\ ~SmlAccept
  BY <1>7, <1>9, Zenon DEF MwrIdle, MwrSplit, MwrAligned, MwrFirst, MwrUncut, MwrSecond, MwrResidue, net
<1>10. CASE (MdlWait \/ MrdFirst \/ MrdSecond \/ TssHeader \/ TssSegment) /\ ~SmlAccept
  BY <1>7, <1>10, Zenon DEF MdlWait, MrdFirst, MrdSecond, TssHeader, TssSegment, net
<1>11. CASE (TImExpire \/ Lose \/ UNCHANGED vars) /\ ~SmlAccept
  BY <1>7, <1>11, Zenon DEF TImExpire, Lose, vars, net
<1> QED
  BY <1>0, <1>1, <1>2, <1>3, <1>4, <1>5, <1>6, <1>8, <1>9, <1>10, <1>11, Zenon DEF Actions
----------------------------------------------------------------------------
(* What has been sent *)

LEMMA SarFacts ==
    ASSUME TaiTypes, TxeTypes
    PROVE  /\ Sar.unak \in 0..(SeqMod - 1) /\ Sar.ackd \in 0..(SeqMod - 1) /\ Sar.app \in 0..(BufSize - 1)
           /\ SeqPos(Sar.unak) \in Int /\ SeqPos(Sar.ackd) \in Int /\ BufPos(Sar.app) \in Int
           /\ SeqPos(Sar.unak) % BufSize = Ptr(Sar.unak) /\ SeqPos(Sar.ackd) % BufSize = Ptr(Sar.ackd)
           /\ DataEnd \in Int /\ app.next \in Int /\ Sar.win \in Nat
<1>1. Sar.unak \in 0..(SeqMod - 1) /\ Sar.ackd \in 0..(SeqMod - 1) /\ Sar.app \in 0..(BufSize - 1) /\ Sar.win \in Nat
  BY MdlFields, StateFields, Zenon
<1>2. app.next \in Int
  BY DEF TaiTypes
<1>3. /\ SeqPos(Sar.unak) \in Int /\ SeqPos(Sar.ackd) \in Int
      /\ SeqPos(Sar.unak) % BufSize = Ptr(Sar.unak) /\ SeqPos(Sar.ackd) % BufSize = Ptr(Sar.ackd)
  BY <1>1, <1>2, SeqAtRange, Zenon DEF SeqPos
<1>4. BufPos(Sar.app) \in Int
  BY <1>1, <1>2, BufAtRange, Zenon DEF BufPos
<1>5. U \in Int
  BY PointerFacts, Zenon
<1> QED
  BY <1>1, <1>2, <1>3, <1>4, <1>5, Zenon DEF DataEnd

LEMMA DataEndKeep ==
    ASSUME app'.next = app.next, mdl' = mdl, tst'.unak = tst.unak, tst'.finSent = tst.finSent
    PROVE  DataEnd' = DataEnd
  BY Zenon DEF DataEnd, Processing, Sar, U, SeqPos

\* The entry moves on, the copy stays.
LEMMA SentKeep ==
    ASSUME TaiTypes, TxeTypes, SentLine, app'.next = app.next, mdl' = mdl, tst'.unak = tst.unak, tst'.finSent = tst.finSent,
           A' \in Int, P' \in Int, A <= A', P <= P', FinNow => tst'.app = tst.app, UNCHANGED peer
    PROVE  SentLine'
<1>1. DataEnd' = DataEnd /\ U' = U
  BY DataEndKeep, Zenon DEF U, SeqPos
<1>2. A \in Int /\ P \in Int
  BY PointerFacts, Zenon
<1>3. SeqPos(Sar.ackd) \in Int /\ BufPos(Sar.app) \in Int /\ DataEnd \in Int
  BY SarFacts, Zenon
<1>4. (SeqPos(Sar.ackd) <= A => SeqPos(Sar.ackd) <= A') /\ (BufPos(Sar.app) <= P => BufPos(Sar.app) <= P')
      /\ (DataEnd <= P => DataEnd <= P')
  BY <1>2, <1>3
<1>5. MdlLine'
  <2>1. (Processing("TX")' <=> Processing("TX")) /\ (Processing("RT")' <=> Processing("RT")) /\ (Processing("FIN")' <=> Processing("FIN"))
    BY Zenon DEF Processing
  <2>2. Sar' = Sar
    BY Zenon DEF Sar
  <2>3. SeqPos(Sar.unak)' = SeqPos(Sar.unak) /\ SeqPos(Sar.ackd)' = SeqPos(Sar.ackd) /\ BufPos(Sar.app)' = BufPos(Sar.app)
    BY <2>2, Zenon DEF SeqPos, BufPos
  <2> QED
    BY <1>1, <1>4, <2>1, <2>2, <2>3, Zenon DEF SentLine, MdlLine, FinNow
<1> QED
  BY <1>1, <1>4, <1>5, Zenon DEF SentLine

LEMMA SentSmlAccept ==
    ASSUME TaiTypes, TxeTypes, FinLine, SpaceLine, Pointers, AckLine, SentLine, SmlAccept, ~app.closed
    PROVE  SentLine' /\ DataEnd' = DataEnd
<1>1. PICK a, n, m : Room(a, n, m)
  BY RoomIs
<1>2. UNCHANGED <<tst, mdl, peer>>
  BY Zenon DEF SmlAccept, txe, net
<1>3. A' = A /\ U' = U /\ P' = P
  BY <1>1, <1>2, EntryStays, Zenon
<1>4. /\ n = app.next /\ app'.next = m /\ a <= A /\ A <= U /\ U <= P /\ ~tst.finSent /\ m \in Int /\ a \in Int /\ n \in Int /\ ~Closing
      /\ \A x \in 0..(BufSize - 1) : a <= BufAt(n, x) => BufAt(m, x) = BufAt(n, x)
      /\ \A x \in 0..(SeqMod - 1) : a - BufSize < SeqAt(n, x) => SeqAt(m, x) = SeqAt(n, x)
  BY <1>1, Zenon DEF Room, Stays
<1>5. ~peer.fin
  BY <1>4, Zenon DEF AckLine, RcvLine
<1>6. A \in Int /\ U \in Int /\ P \in Int /\ BufSize \in Nat \ {0}
  BY PointerFacts, Sizes, Zenon
<1>7. Sar' = Sar /\ (Processing("TX")' <=> Processing("TX")) /\ (Processing("RT")' <=> Processing("RT")) /\ (Processing("FIN")' <=> Processing("FIN"))
  BY <1>2, Zenon DEF Processing, Sar
<1>8. /\ Sar.unak \in 0..(SeqMod - 1) /\ Sar.ackd \in 0..(SeqMod - 1) /\ Sar.app \in 0..(BufSize - 1)
      /\ SeqPos(Sar.unak) \in Int /\ SeqPos(Sar.ackd) \in Int /\ BufPos(Sar.app) \in Int
  BY SarFacts, Zenon
<1>9. Processing("TX") =>
          /\ SeqPos(Sar.unak)' = SeqPos(Sar.unak) /\ BufPos(Sar.app)' = BufPos(Sar.app) /\ SeqPos(Sar.ackd)' = SeqPos(Sar.ackd)
  <2> HAVE Processing("TX")
  <2>1. /\ U <= SeqPos(Sar.unak) /\ SeqPos(Sar.unak) <= BufPos(Sar.app) /\ BufPos(Sar.app) <= P
        /\ BufPos(Sar.app) < SeqPos(Sar.ackd) + BufSize
    BY Zenon DEF SentLine, MdlLine
  <2>2. a - BufSize < SeqPos(Sar.unak) /\ a <= BufPos(Sar.app) /\ a - BufSize < SeqPos(Sar.ackd)
    BY <1>4, <1>6, <1>8, <2>1
  <2>3. SeqAt(m, Sar.unak) = SeqPos(Sar.unak) /\ BufAt(m, Sar.app) = BufPos(Sar.app) /\ SeqAt(m, Sar.ackd) = SeqPos(Sar.ackd)
    BY <1>4, <1>8, <2>2, Zenon DEF SeqPos, BufPos
  <2> QED
    BY <1>4, <1>7, <2>3, Zenon DEF SeqPos, BufPos
<1>10. DataEnd' = DataEnd
  BY <1>2, <1>3, <1>4, <1>7, <1>9, Zenon DEF DataEnd
<1>11. Processing("RT") => SeqPos(Sar.ackd)' = SeqPos(Sar.ackd)
  <2> HAVE Processing("RT")
  <2>1. ~Processing("TX")
    BY DEF Processing
  <2>2. DataEnd = U
    BY <1>4, <2>1, Zenon DEF DataEnd
  <2>3. DataEnd < SeqPos(Sar.ackd) + BufSize
    BY <1>5, Zenon DEF SentLine, MdlLine
  <2>4. a - BufSize < SeqPos(Sar.ackd)
    BY <1>4, <1>6, <1>8, <2>2, <2>3
  <2>5. SeqAt(m, Sar.ackd) = SeqPos(Sar.ackd)
    BY <1>4, <1>8, <2>4, Zenon DEF SeqPos
  <2> QED
    BY <1>4, <1>7, <2>5, Zenon DEF SeqPos
<1>12. MdlLine'
  BY <1>2, <1>3, <1>7, <1>9, <1>10, <1>11, Zenon DEF SentLine, MdlLine
<1> QED
  BY <1>2, <1>3, <1>10, <1>12, Zenon DEF SentLine

LEMMA SentMdlWait ==
    ASSUME TaiTypes, TxeTypes, NetTypes, FinLine, Pointers, AckLine, SentLine, MdlWait
    PROVE  SentLine' /\ DataEnd' = DataEnd
<1>1. /\ mdl.st = "WAIT_EVENT" /\ evq # <<>>
      /\ mdl'.st = "PROCESS_EVENT" /\ mdl'.type = Head(evq) /\ (mdl'.rt <=> Head(evq) = "RT") /\ mdl'.sar = tst
      /\ UNCHANGED <<tst, app, peer>>
  BY WaitsIs, Zenon DEF Waits, MdlRest
<1>2. A' = A /\ U' = U /\ P' = P
  BY <1>1, Zenon DEF A, U, P, SeqPos, BufPos
<1>3. ~Processing("TX")
  BY <1>1 DEF Processing
<1>4. Sar' = tst
  BY <1>1, Zenon DEF Sar
<1>5. Head(evq) = "TX" => ~tst.finReady /\ ~tst.finSent
  <2> HAVE Head(evq) = "TX"
  <2>1. 1 \in 1..Len(evq) /\ evq[1] = "TX"
    <3>1. Len(evq) \in Nat \ {0} /\ Head(evq) = evq[1]
      BY <1>1, HeadTail, Zenon DEF TxeTypes
    <3> QED
      BY <3>1
  <2>2. ~NoTx
    BY <2>1 DEF NoTx
  <2> QED
    BY <2>2, Zenon DEF FinLine, FinAtMdl, Closing
<1>6. SeqPos(Sar.unak)' = U /\ SeqPos(Sar.ackd)' = A /\ BufPos(Sar.app)' = P
  BY <1>1, <1>4, Zenon DEF A, U, P, SeqPos, BufPos
<1>7. DataEnd = IF tst.finSent THEN app.next ELSE U
  BY <1>3, Zenon DEF DataEnd
<1>8. Processing("TX")' => Head(evq) = "TX"
  BY <1>1, Zenon DEF Processing
<1>9. DataEnd' = DataEnd
  BY <1>1, <1>2, <1>5, <1>6, <1>7, <1>8, Zenon DEF DataEnd
<1>10. /\ A \in Int /\ U \in Int /\ P \in Int /\ BufSize \in Nat \ {0} /\ app.next \in Nat /\ P <= app.next /\ app.next - BufSize < A
       /\ 0 <= A /\ A <= U
  BY PointerFacts, Sizes, Zenon DEF Pointers
<1>11. /\ A <= peer.rcv /\ peer.rcv <= app.next + 1 /\ (peer.fin <=> peer.rcv = app.next + 1)
       /\ peer.fin => tst.finSent
       /\ ~peer.fin => A + tst.win <= peer.edge
  BY Zenon DEF AckLine, RcvLine
<1>12. peer.rcv \in Nat
  BY DEF NetTypes
<1>13. IF tst.finSent THEN U = app.next + 1 ELSE U <= P
  BY DEF Pointers
<1>14. Processing("TX")' =>
          /\ U <= U /\ U <= P /\ P <= P
          /\ 0 <= A /\ A <= A /\ P < A + BufSize
          /\ A + tst.win <= peer.edge
  <2> HAVE Processing("TX")'
  <2>1. ~tst.finSent /\ ~peer.fin
    BY <1>5, <1>8, <1>11
  <2>2. U <= P /\ A + tst.win <= peer.edge
    BY <1>11, <1>13, <2>1, Zenon
  <2> QED
    BY <1>10, <2>2
<1>15. ~peer.fin => 0 <= A /\ A <= DataEnd /\ DataEnd < A + BufSize
  <2> HAVE ~peer.fin
  <2>1. A <= DataEnd
    <3>2. CASE tst.finSent
      BY <1>7, <1>10, <1>11, <1>12, <3>2
    <3>3. CASE ~tst.finSent
      BY <1>7, <1>10, <3>3
    <3> QED
      BY <3>2, <3>3
  <2> QED
    BY <1>7, <1>10, <1>13, <2>1
<1>16. MdlLine'
  <2>1. Processing("TX")' =>
          /\ U' <= SeqPos(Sar.unak)' /\ SeqPos(Sar.unak)' <= BufPos(Sar.app)' /\ BufPos(Sar.app)' <= P'
          /\ 0 <= SeqPos(Sar.ackd)' /\ SeqPos(Sar.ackd)' <= A' /\ BufPos(Sar.app)' < SeqPos(Sar.ackd)' + BufSize
          /\ SeqPos(Sar.ackd)' + Sar'.win <= peer.edge
    BY <1>2, <1>4, <1>6, <1>14, Zenon
  <2>2. Processing("RT")' => /\ Sar'.unak = tst.unak
                             /\ ~peer.fin => 0 <= SeqPos(Sar.ackd)' /\ SeqPos(Sar.ackd)' <= DataEnd' /\ DataEnd' < SeqPos(Sar.ackd)' + BufSize
    BY <1>4, <1>6, <1>9, <1>15, Zenon
  <2> QED
    BY <1>1, <1>4, <2>1, <2>2, Zenon DEF MdlLine
<1> QED
  BY <1>1, <1>2, <1>9, <1>16, Zenon DEF SentLine

\* What Mdl retransmits at most: the bytes in flight.
LEMMA InFlightIs ==
    ASSUME TaiTypes, TxeTypes, FinLine, Pointers, SentLine, Processing("RT"), ~peer.fin
    PROVE  InFlight = DataEnd - SeqPos(Sar.ackd)
<1>1. ~Processing("TX") /\ mdl.st = "PROCESS_EVENT"
  BY DEF Processing
<1>2. Sar.unak = tst.unak /\ Sar.finSent = tst.finSent
  BY <1>1, Zenon DEF SentLine, MdlLine, FinLine, MdlCopies, Sar
<1>3. SeqPos(Sar.ackd) <= DataEnd /\ DataEnd < SeqPos(Sar.ackd) + BufSize
  BY Zenon DEF SentLine, MdlLine
<1>4. DataEnd = IF tst.finSent THEN app.next ELSE U
  BY <1>1, Zenon DEF DataEnd
<1>5. tst.finSent => U = app.next + 1
  BY DEF Pointers
<1>6. PICK u, a, y, z : u = U /\ a = SeqPos(Sar.ackd) /\ y = Ptr(Sar.unak) /\ z = Ptr(Sar.ackd)
  OBVIOUS
<1>7. u \in Int /\ u % BufSize = y /\ BufSize \in Nat \ {0} /\ app.next \in Nat
  BY <1>2, <1>6, PointerFacts, Sizes, Zenon
<1>8. a \in Int /\ a % BufSize = z
  BY <1>6, SarFacts, Zenon
<1>9. Same(y, u, BufSize) /\ Same(z, a, BufSize)
  BY <1>7, <1>8, SameSelf, Zenon
<1>10. y \in Int /\ z \in Int
  BY <1>7, <1>8
<1>11. CASE tst.finSent
  <2>1. PICK k, d, v : k = 1 /\ d = a + k /\ v = z + k
    OBVIOUS
  <2>2. Same(v, d, BufSize)
    <3>1. Same(z + k, a + k, BufSize)
      <4>1. k \in Int
        BY <2>1
      <4> QED
        BY <1>7, <1>8, <1>9, <1>10, <4>1, SameAdd, Zenon
    <3> QED
      BY <2>1, <3>1
  <2>3. d \in Int /\ v \in Int /\ d <= u /\ u < d + BufSize
    BY <1>3, <1>4, <1>5, <1>6, <1>7, <1>8, <1>10, <1>11, <2>1
  <2>4. Minus(y, v, BufSize) = u - d
    BY <1>7, <1>9, <1>10, <2>2, <2>3, MinusIs
  <2>5. InFlight = Minus(y, v, BufSize)
    BY <1>2, <1>6, <1>11, <2>1, Zenon DEF InFlight
  <2> QED
    BY <1>4, <1>5, <1>6, <1>7, <1>8, <1>11, <2>1, <2>4, <2>5
<1>12. CASE ~tst.finSent
  <2>1. a <= u /\ u < a + BufSize
    BY <1>3, <1>4, <1>6, <1>7, <1>8, <1>12
  <2>2. Minus(y, z, BufSize) = u - a
    BY <1>7, <1>8, <1>9, <1>10, <2>1, MinusIs
  <2>3. InFlight = Minus(y, z + 0, BufSize)
    BY <1>2, <1>6, <1>12, Zenon DEF InFlight
  <2>4. z + 0 = z
    BY <1>10
  <2> QED
    BY <1>4, <1>6, <1>12, <2>2, <2>3, <2>4
<1> QED
  BY <1>11, <1>12

\* The entry as a whole stays.
LEMMA EntryKept ==
    ASSUME app' = app, tst' = tst
    PROVE  A' = A /\ U' = U /\ P' = P
  BY Zenon DEF A, U, P, SeqPos, BufPos

\* Fragment: where the segment lies.
FragmentEnd ==
    /\ Mss \in Nat \ {0} /\ SeqPos(Sar.unak) + Mss <= BufPos(Sar.app) /\ SeqPos(Sar.unak) + Mss <= P
    /\ SeqPos(Sar.unak) + Mss <= peer.edge
    /\ DataEnd = SeqPos(Sar.unak) /\ DataEnd' = DataEnd + Mss

LEMMA FragmentEndIs ==
    ASSUME TaiTypes, TxeTypes, NetTypes, Pointers, SentLine, FragmentIs
    PROVE  /\ FragmentEnd /\ mdl'.st = "PROCESS_EVENT" /\ mdl'.type = "TX" /\ SameButUnak(mdl'.sar, mdl.sar)
           /\ SeqPos(Sar.unak)' = SeqPos(Sar.unak) + Mss
<1>1. /\ Processing("TX")
      /\ Mss < CurrDatLen \/ CurrDatLen > UsableWindow
      /\ CurrDatLen > UsableWindow => UsableWindow >= Mss
      /\ mdl'.st = "PROCESS_EVENT" /\ mdl'.type = "TX"
      /\ mdl'.sar.unak = Plus(Sar.unak, Mss) /\ SameButUnak(mdl'.sar, mdl.sar)
      /\ UNCHANGED <<app, tst>>
  BY Zenon DEF FragmentIs, MdlRest
<1>2. Mss \in Nat \ {0} /\ CurrDatLen \in Nat /\ UsableWindow \in Nat
  BY MdlFields, Sizes
<1>3. Mss <= CurrDatLen /\ Mss <= UsableWindow
  BY <1>1, <1>2
<1>4. /\ CurrDatLen = BufPos(Sar.app) - SeqPos(Sar.unak) /\ BufPos(Sar.app) \in Int /\ SeqPos(Sar.unak) \in Int
      /\ UsedLength = SeqPos(Sar.unak) - SeqPos(Sar.ackd) /\ SeqPos(Sar.ackd) \in Int
  BY <1>1, CurrDatLenIs, Zenon
<1>5. BufPos(Sar.app) <= P /\ SeqPos(Sar.ackd) + Sar.win <= peer.edge
  BY <1>1, Zenon DEF SentLine, MdlLine
<1>6. P \in Int /\ P <= app.next /\ app.next \in Nat /\ Sar.win \in Nat /\ peer.edge \in Nat
  BY PointerFacts, SarFacts, Zenon DEF NetTypes
<1>61. peer.edge \in Nat
  BY DEF NetTypes
<1>7. UsableWindow = Sar.win - UsedLength
  BY <1>2, <1>3, <1>4, <1>6 DEF UsableWindow
<1>8. SeqPos(Sar.unak) + Mss <= BufPos(Sar.app) /\ SeqPos(Sar.unak) + Mss <= P /\ SeqPos(Sar.unak) + Mss <= peer.edge
  BY <1>2, <1>3, <1>4, <1>5, <1>6, <1>61, <1>7
<1>9. PICK n, d : n = app.next /\ d = Mss
  OBVIOUS
<1>10. Sar.unak \in 0..(SeqMod - 1) /\ SeqAt(n, Sar.unak) = SeqPos(Sar.unak)
  BY <1>9, SarFacts, Zenon DEF SeqPos
<1>11. n \in Int /\ d \in Nat /\ SeqAt(n, Sar.unak) + d <= n + 1
  BY <1>2, <1>4, <1>6, <1>8, <1>9, <1>10
<1>12. SeqAt(n, Plus(Sar.unak, d)) = SeqAt(n, Sar.unak) + d
  BY <1>10, <1>11, PlusSeq, Zenon
<1>13. SeqPos(Sar.unak)' = SeqPos(Sar.unak) + Mss
  BY <1>1, <1>9, <1>10, <1>12, Zenon DEF SeqPos, Sar
<1>14. DataEnd = SeqPos(Sar.unak) /\ Processing("TX")' /\ DataEnd' = SeqPos(Sar.unak)'
  <2>1. DataEnd = SeqPos(Sar.unak)
    BY <1>1, Zenon DEF DataEnd
  <2>2. Processing("TX")'
    BY <1>1, Zenon DEF Processing
  <2> QED
    BY <2>1, <2>2, Zenon DEF DataEnd
<1>15. DataEnd' = DataEnd + Mss
  BY <1>13, <1>14, Zenon
<1> QED
  BY <1>1, <1>2, <1>8, <1>13, <1>14, <1>15, Zenon DEF FragmentEnd

LEMMA SentFragment ==
    ASSUME TaiTypes, TxeTypes, NetTypes, Pointers, SentLine, FragmentIs
    PROVE  SentLine'
<1>1. /\ FragmentEnd /\ mdl'.st = "PROCESS_EVENT" /\ mdl'.type = "TX" /\ SameButUnak(mdl'.sar, mdl.sar)
      /\ SeqPos(Sar.unak)' = SeqPos(Sar.unak) + Mss
  BY FragmentEndIs, Zenon
<1>2. Processing("TX") /\ UNCHANGED <<app, tst, peer>>
  BY Zenon DEF FragmentIs, MdlRest
<1>3. A' = A /\ U' = U /\ P' = P
  BY <1>2, EntryKept, Zenon
<1>4. /\ Mss \in Nat \ {0} /\ SeqPos(Sar.unak) + Mss <= BufPos(Sar.app) /\ SeqPos(Sar.unak) + Mss <= P
      /\ SeqPos(Sar.unak) + Mss <= peer.edge
      /\ DataEnd = SeqPos(Sar.unak) /\ DataEnd' = DataEnd + Mss
  BY <1>1, Zenon DEF FragmentEnd
<1>5. SeqPos(Sar.unak) \in Int /\ U \in Int /\ peer.rcv \in Nat
  BY SarFacts, PointerFacts DEF NetTypes
<1>6. /\ U <= SeqPos(Sar.unak) /\ BufPos(Sar.app) <= P
      /\ 0 <= SeqPos(Sar.ackd) /\ SeqPos(Sar.ackd) <= A /\ BufPos(Sar.app) < SeqPos(Sar.ackd) + BufSize
      /\ SeqPos(Sar.ackd) + Sar.win <= peer.edge
      /\ ~peer.fin => peer.rcv <= DataEnd
  BY <1>2, Zenon DEF SentLine, MdlLine
<1>7. U <= SeqPos(Sar.unak) + Mss /\ (~peer.fin => peer.rcv <= DataEnd + Mss)
  BY <1>4, <1>5, <1>6
<1>8. SeqPos(Sar.ackd)' = SeqPos(Sar.ackd) /\ BufPos(Sar.app)' = BufPos(Sar.app) /\ Sar'.win = Sar.win
  BY <1>1, <1>2, Zenon DEF SameButUnak, Sar, SeqPos, BufPos
<1>9. ~Processing("RT")' /\ ~Processing("FIN")'
  BY <1>1 DEF Processing
<1>10. MdlLine'
  <2>1. /\ U' <= SeqPos(Sar.unak)' /\ SeqPos(Sar.unak)' <= BufPos(Sar.app)' /\ BufPos(Sar.app)' <= P'
        /\ 0 <= SeqPos(Sar.ackd)' /\ SeqPos(Sar.ackd)' <= A' /\ BufPos(Sar.app)' < SeqPos(Sar.ackd)' + BufSize
        /\ SeqPos(Sar.ackd)' + Sar'.win <= peer'.edge
    BY <1>1, <1>2, <1>3, <1>4, <1>6, <1>7, <1>8, Zenon
  <2> QED
    BY <1>9, <2>1, Zenon DEF MdlLine
<1> QED
  BY <1>2, <1>3, <1>4, <1>7, <1>10, Zenon DEF SentLine

\* Mdl waits for its next event: nothing is said of its copy.
LEMMA SentIdle ==
    ASSUME mdl'.st = "WAIT_EVENT", UNCHANGED peer,
           ~peer.fin => peer.rcv <= DataEnd' /\ DataEnd' <= peer.edge, DataEnd' <= P'
    PROVE  SentLine'
<1>1. mdl'.st # "PROCESS_EVENT"
  OBVIOUS
<1>2. MdlLine'
  BY <1>1, Zenon DEF MdlLine, Processing
<1> QED
  BY <1>2, Zenon DEF SentLine

\* The last segment of an event: where it lies.
LastAt(n) ==
    /\ DataEnd = SeqPos(Sar.unak) /\ DataEnd' = DataEnd + n /\ DataEnd' <= P' /\ P' = P
    /\ peer.edge \in Nat
    /\ ~peer.fin => peer.rcv <= DataEnd' /\ DataEnd' <= peer.edge

LEMMA LastAtIs ==
    ASSUME TaiTypes, TxeTypes, NetTypes, FinLine, Pointers, SentLine, NEW n \in 0..(BufSize - 1), LastIs(n)
    PROVE  LastAt(n)
<1>1. /\ Processing("TX")
      /\ n = (IF CurrDatLen <= UsableWindow THEN CurrDatLen ELSE UsableWindow)
      /\ mdl'.st = "WAIT_EVENT" /\ UNCHANGED app /\ tst'.app = tst.app /\ tst'.finSent = tst.finSent
  BY Zenon DEF LastIs, MdlRest, SameButUnak
<1>2. /\ SeqPos(Sar.unak) \in Int /\ U' = SeqPos(Sar.unak) + n /\ U' <= P
      /\ ~tst.finSent
  BY LastEndIs, Zenon DEF LastEnd
<1>3. P' = P
  BY <1>1, Zenon DEF P, BufPos
<1>4. DataEnd = SeqPos(Sar.unak)
  BY <1>1, Zenon DEF DataEnd
<1>5. ~Processing("TX")'
  BY <1>1 DEF Processing
<1>6. DataEnd' = U'
  BY <1>1, <1>2, <1>5, Zenon DEF DataEnd
<1>7. /\ UsedLength = SeqPos(Sar.unak) - SeqPos(Sar.ackd) /\ SeqPos(Sar.ackd) \in Int
  BY <1>1, CurrDatLenIs, Zenon
<1>8. SeqPos(Sar.ackd) + Sar.win <= peer.edge /\ (~peer.fin => peer.rcv <= DataEnd /\ DataEnd <= peer.edge)
  BY <1>1, Zenon DEF SentLine, MdlLine
<1>9. Sar.win \in Nat /\ UsableWindow \in Nat /\ CurrDatLen \in Nat /\ n \in Nat
  BY SarFacts, MdlFields, Sizes
<1>10. peer.edge \in Nat /\ peer.rcv \in Nat
  BY DEF NetTypes
<1>11. n = 0 \/ n <= Sar.win - UsedLength
  <2>1. n <= UsableWindow
    BY <1>1, <1>9
  <2>2. UsableWindow = 0 \/ UsableWindow = Sar.win - UsedLength
    BY DEF UsableWindow
  <2> QED
    BY <1>7, <1>9, <2>1, <2>2
<1>12. ~peer.fin => peer.rcv <= DataEnd + n /\ DataEnd + n <= peer.edge
  BY <1>2, <1>4, <1>7, <1>8, <1>9, <1>10, <1>11
<1> QED
  BY <1>2, <1>3, <1>4, <1>6, <1>10, <1>12, Zenon DEF LastAt

LEMMA SentRtFragment ==
    ASSUME TaiTypes, TxeTypes, NetTypes, FinLine, Pointers, SentLine, RtFragmentIs
    PROVE  SentLine' /\ DataEnd' = DataEnd
<1>1. /\ Processing("RT") /\ InFlight > Mss
      /\ mdl'.st \in {"PROCESS_EVENT", "WAIT_EVENT"} /\ mdl'.type = "RT"
      /\ mdl'.sar.ackd = Plus(Sar.ackd, Mss) /\ SameButAckd(mdl'.sar, mdl.sar)
      /\ UNCHANGED <<tst, app, peer>>
  BY Zenon DEF RtFragmentIs, MdlRest
<1>2. A' = A /\ U' = U /\ P' = P
  BY <1>1, EntryKept, Zenon
<1>3. ~Processing("TX") /\ ~Processing("TX")' /\ ~Processing("FIN")'
  BY <1>1 DEF Processing
<1>4. DataEnd' = DataEnd
  BY <1>1, <1>2, <1>3, Zenon DEF DataEnd
<1>5. Sar.unak = tst.unak /\ Sar'.unak = Sar.unak
  BY <1>1, Zenon DEF SentLine, MdlLine, SameButAckd, Sar
<1>6. ~peer.fin => 0 <= SeqPos(Sar.ackd)' /\ SeqPos(Sar.ackd)' <= DataEnd /\ DataEnd < SeqPos(Sar.ackd)' + BufSize
  <2> HAVE ~peer.fin
  <2>1. InFlight = DataEnd - SeqPos(Sar.ackd)
    BY <1>1, InFlightIs, Zenon
  <2>2. 0 <= SeqPos(Sar.ackd) /\ DataEnd < SeqPos(Sar.ackd) + BufSize /\ DataEnd <= P
    BY <1>1, Zenon DEF SentLine, MdlLine
  <2>3. PICK n, d : n = app.next /\ d = Mss
    OBVIOUS
  <2>4. /\ SeqPos(Sar.ackd) \in Int /\ DataEnd \in Int /\ P \in Int /\ P <= app.next /\ app.next \in Nat
        /\ BufSize \in Nat \ {0} /\ d \in Nat
    BY <2>3, SarFacts, PointerFacts, Sizes
  <2>5. SeqPos(Sar.ackd) + Mss <= DataEnd
    BY <1>1, <2>1, <2>3, <2>4
  <2>6. Sar.ackd \in 0..(SeqMod - 1) /\ SeqAt(n, Sar.ackd) = SeqPos(Sar.ackd)
    BY <2>3, SarFacts, Zenon DEF SeqPos
  <2>7. n \in Int /\ SeqAt(n, Sar.ackd) + d <= n + 1
    BY <2>2, <2>3, <2>4, <2>5, <2>6
  <2>8. SeqAt(n, Plus(Sar.ackd, d)) = SeqAt(n, Sar.ackd) + d
    BY <2>4, <2>6, <2>7, PlusSeq, Zenon
  <2>9. SeqPos(Sar.ackd)' = SeqPos(Sar.ackd) + Mss
    BY <1>1, <2>3, <2>6, <2>8, Zenon DEF SeqPos, Sar
  <2> QED
    BY <2>2, <2>3, <2>4, <2>5, <2>9
<1>7. MdlLine'
  BY <1>1, <1>3, <1>4, <1>5, <1>6, Zenon DEF MdlLine
<1> QED
  BY <1>1, <1>2, <1>4, <1>7, Zenon DEF SentLine

LEMMA SentRtLast ==
    ASSUME TaiTypes, TxeTypes, NetTypes, FinLine, SentLine, RtLastIs
    PROVE  SentLine' /\ DataEnd' = DataEnd
<1>1. /\ Processing("RT")
      /\ \/ Sar.finSent /\ mdl'.st = "PROCESS_EVENT" /\ mdl'.type = "FIN" /\ mdl'.rt = mdl.rt /\ mdl'.sar = mdl.sar
         \/ ~Sar.finSent /\ mdl'.st = "WAIT_EVENT"
      /\ UNCHANGED <<tst, app, peer>>
  BY Zenon DEF RtLastIs, MdlRest
<1>2. A' = A /\ U' = U /\ P' = P
  BY <1>1, EntryKept, Zenon
<1>3. ~Processing("TX") /\ ~Processing("TX")' /\ ~Processing("RT")'
  BY <1>1 DEF Processing
<1>4. DataEnd' = DataEnd
  BY <1>1, <1>2, <1>3, Zenon DEF DataEnd
<1>5. mdl.rt
  BY <1>1, Zenon DEF Processing, FinLine, MdlCopies
<1>6. Sar.unak = tst.unak
  BY <1>1, Zenon DEF SentLine, MdlLine
<1>7. Processing("FIN")' => Sar'.unak = tst'.unak /\ mdl'.rt
  <2>1. CASE mdl'.st = "WAIT_EVENT"
    <3>1. mdl'.st # "PROCESS_EVENT"
      BY <2>1
    <3> QED
      BY <3>1, Zenon DEF Processing
  <2>2. CASE mdl'.rt = mdl.rt /\ mdl'.sar = mdl.sar
    BY <1>1, <1>5, <1>6, <2>2, Zenon DEF Sar
  <2> QED
    BY <1>1, <2>1, <2>2
<1>8. MdlLine'
  BY <1>3, <1>7, Zenon DEF MdlLine
<1> QED
  BY <1>1, <1>2, <1>4, <1>8, Zenon DEF SentLine

LEMMA SentFin ==
    ASSUME TaiTypes, TxeTypes, NetTypes, FinLine, DataLine, Pointers, SentLine, FinFirst \/ Again
    PROVE  SentLine' /\ DataEnd' = DataEnd
<1>1. Processing("FIN") /\ mdl'.st = "WAIT_EVENT" /\ UNCHANGED <<app, peer>> /\ tst'.app = tst.app
  BY Zenon DEF FinFirst, Again, FinAgain, MdlRest
<1>2. P' = P
  BY <1>1, Zenon DEF P, BufPos
<1>3. ~Processing("TX") /\ ~Processing("TX")'
  BY <1>1 DEF Processing
<1>4. DataEnd' = DataEnd
  <2>1. CASE FinFirst
    <3>1. (FinGoes \/ FinStays) /\ ~tst.finSent
      BY <2>1, FinFirstIs, Zenon
    <3>2. DataEnd = U
      BY <1>3, <3>1, Zenon DEF DataEnd
    <3>3. CASE FinGoes
      BY <1>1, <1>3, <3>2, <3>3, Zenon DEF DataEnd, FinGoes
    <3>4. CASE FinStays
      BY <1>1, <1>3, <3>2, <3>4, Zenon DEF DataEnd, FinStays
    <3> QED
      BY <3>1, <3>3, <3>4
  <2>2. CASE Again
    <3>1. tst' = tst
      BY <2>2, Zenon DEF Again, FinAgain
    <3>2. U' = U
      BY <1>1, <3>1, EntryKept, Zenon
    <3> QED
      BY <1>1, <1>3, <3>1, <3>2, Zenon DEF DataEnd
  <2> QED
    BY <2>1, <2>2
<1>5. (~peer.fin => peer.rcv <= DataEnd /\ DataEnd <= peer.edge) /\ DataEnd <= P
  BY Zenon DEF SentLine
<1> QED
  BY <1>1, <1>2, <1>4, <1>5, SentIdle, Zenon

LEMMA SentPeerTakes ==
    ASSUME TaiTypes, TxeTypes, NetTypes, Pointers, AckLine, SentLine, WireLine, NEW w \in Nat, PeerTakes(w)
    PROVE  SentLine' /\ DataEnd' = DataEnd
<1>1. PICK g, h, rcv, fin : Taken(w, g, h, rcv, fin)
  BY TakenIs
<1>2. UNCHANGED <<app, tst, mdl>>
  BY Zenon DEF PeerTakes, tai, txe
<1>3. /\ peer'.rcv = rcv /\ (peer'.fin <=> fin) /\ peer.edge <= peer'.edge /\ peer'.edge \in Nat
      /\ ~fin => rcv <= DataEnd
      /\ peer.fin => fin
  BY <1>1, Zenon DEF Taken
<1>4. A' = A /\ U' = U /\ P' = P /\ Sar' = Sar
      /\ (Processing("TX")' <=> Processing("TX")) /\ (Processing("RT")' <=> Processing("RT")) /\ (Processing("FIN")' <=> Processing("FIN"))
  BY <1>2, EntryKept, Zenon DEF Sar, Processing
<1>5. DataEnd' = DataEnd
  BY <1>2, <1>4, DataEndKeep, Zenon
<1>6. peer.edge \in Nat /\ SeqPos(Sar.ackd) \in Int /\ Sar.win \in Nat /\ DataEnd \in Int
  BY SarFacts DEF NetTypes
<1>7. /\ SeqPos(Sar.ackd) + Sar.win <= peer.edge => SeqPos(Sar.ackd) + Sar.win <= peer'.edge
      /\ DataEnd <= peer.edge => DataEnd <= peer'.edge
  BY <1>3, <1>6
<1>8. SeqPos(Sar.unak)' = SeqPos(Sar.unak) /\ SeqPos(Sar.ackd)' = SeqPos(Sar.ackd) /\ BufPos(Sar.app)' = BufPos(Sar.app)
  BY <1>2, <1>4, Zenon DEF SeqPos, BufPos
<1>9. MdlLine'
  BY <1>2, <1>3, <1>4, <1>5, <1>7, <1>8, Zenon DEF SentLine, MdlLine
<1> QED
  BY <1>3, <1>4, <1>5, <1>7, <1>9, Zenon DEF SentLine

\* An action that leaves the entry, Mdl and the peer alone.
LEMMA SentUnchanged ==
    ASSUME TaiTypes, TxeTypes, SentLine, app'.next = app.next, UNCHANGED <<tst, mdl, peer>>
    PROVE  SentLine' /\ DataEnd' = DataEnd
<1>1. A' = A /\ P' = P /\ A \in Int /\ P \in Int
  BY PointerFacts, Zenon DEF A, P, SeqPos, BufPos
<1>2. A <= A' /\ P <= P' /\ A' \in Int /\ P' \in Int
  BY <1>1
<1> QED
  BY <1>2, SentKeep, DataEndKeep, Zenon

LEMMA SentTash ==
    ASSUME TaiTypes, TxeTypes, FinLine, DataLine, SentLine, TashStatus1 \/ TashStatus2
    PROVE  SentLine' /\ DataEnd' = DataEnd
<1>1. UNCHANGED <<app, mdl, peer>> /\ tash.st # "IDLE" /\ (UNCHANGED tst \/ Announce)
  <2>1. CASE TashStatus1
    BY <2>1 DEF TashStatus1, txe, net
  <2>2. CASE TashStatus2
    BY <2>2 DEF TashStatus2, txe, net
  <2> QED
    BY <2>1, <2>2
<1>2. CASE UNCHANGED tst
  BY <1>1, <1>2, SentUnchanged, Zenon
<1>3. CASE Announce
  <2>1. /\ P' = P + app.len /\ app.len \in Nat
        /\ tst'.ackd = tst.ackd /\ tst'.unak = tst.unak /\ tst'.finSent = tst.finSent
    BY <1>1, <1>3, AnnounceIs, Zenon
  <2>2. A \in Int /\ P \in Int /\ A' = A
    BY <1>1, <2>1, PointerFacts, Zenon DEF A, SeqPos
  <2>3. A <= A' /\ A' \in Int /\ P <= P' /\ P' \in Int
    BY <2>1, <2>2
  <2>4. ~FinNow
    BY <1>1, Zenon DEF FinLine, FinAtMdl, Closing, NoData
  <2> QED
    BY <1>1, <2>1, <2>3, <2>4, SentKeep, DataEndKeep, Zenon
<1> QED
  BY <1>1, <1>2, <1>3

LEMMA SentTransition ==
    ASSUME TaiTypes, TxeTypes, NetTypes, AckLine, SentLine, RxeTransition
    PROVE  SentLine' /\ DataEnd' = DataEnd
<1>1. /\ UNCHANGED <<app, mdl, peer>> /\ P' = P /\ A' \in Int
      /\ tst'.unak = tst.unak /\ tst'.app = tst.app /\ tst'.finSent = tst.finSent
      /\ Acknowledged \/ Ignored
  BY TransitionIs, Zenon
<1>2. A \in Int /\ P \in Int
  BY PointerFacts, Zenon
<1>3. A <= A'
  <2>1. CASE Acknowledged
    BY <2>1, Zenon DEF Acknowledged
  <2>2. CASE Ignored
    <3>1. A' = A
      BY <1>1, <2>2, Zenon DEF Ignored, A, SeqPos
    <3> QED
      BY <1>2, <3>1
  <2> QED
    BY <1>1, <2>1, <2>2
<1>4. P <= P' /\ P' \in Int
  BY <1>1, <1>2
<1> QED
  BY <1>1, <1>3, <1>4, SentKeep, DataEndKeep, Zenon

\* What was sent stays sent.
LEMMA SentMdl ==
    ASSUME TaiTypes, TxeTypes, NetTypes, FinLine, DataLine, Pointers, SentLine, MdlTx \/ MdlRt \/ MdlFin
    PROVE  SentLine' /\ DataEnd <= DataEnd' /\ DataEnd' \in Int
<1>1. /\ FragmentIs \/ (\E n \in 0..(BufSize - 1) : LastIs(n)) \/ RtFragmentIs \/ RtLastIs \/ FinFirst \/ Again
      /\ UNCHANGED peer
  BY MdlDoes, Zenon DEF MdlRest
<1>2. DataEnd \in Int
  BY SarFacts, Zenon
<1>3. CASE FragmentIs
  <2>1. DataEnd' = DataEnd + Mss /\ Mss \in Nat \ {0}
    BY <1>3, FragmentEndIs, Zenon DEF FragmentEnd
  <2>2. DataEnd <= DataEnd' /\ DataEnd' \in Int
    BY <1>2, <2>1
  <2> QED
    BY <1>3, <2>2, SentFragment, Zenon
<1>4. CASE \E n \in 0..(BufSize - 1) : LastIs(n)
  <2>1. PICK n \in 0..(BufSize - 1) : LastIs(n)
    BY <1>4
  <2>2. DataEnd' = DataEnd + n /\ DataEnd' <= P' /\ (~peer.fin => peer.rcv <= DataEnd' /\ DataEnd' <= peer.edge)
    BY <2>1, LastAtIs, Zenon DEF LastAt
  <2>3. mdl'.st = "WAIT_EVENT"
    BY <2>1, Zenon DEF LastIs
  <2>4. DataEnd <= DataEnd' /\ DataEnd' \in Int
    BY <1>2, <2>1, <2>2, Sizes
  <2> QED
    BY <1>1, <2>2, <2>3, <2>4, SentIdle, Zenon
<1>5. CASE RtFragmentIs \/ RtLastIs \/ FinFirst \/ Again
  <2>1. SentLine' /\ DataEnd' = DataEnd
    BY <1>5, SentRtFragment, SentRtLast, SentFin, Zenon
  <2> QED
    BY <1>2, <2>1
<1> QED
  BY <1>1, <1>3, <1>4, <1>5, Zenon

LEMMA SentLineStep ==
    ASSUME IInv, [Next]_vars, InTime
    PROVE  SentLine' /\ DataEnd <= DataEnd' /\ DataEnd \in Int /\ DataEnd' \in Int
<1>0. Actions \/ UNCHANGED vars
  BY NextIs
<1>t. /\ TaiTypes /\ TxeTypes /\ NetTypes /\ FinLine /\ DataLine /\ SpaceLine /\ Pointers /\ AckLine /\ SentLine /\ WireLine
  BY DEF IInv, Types
<1>u. DataEnd \in Int
  BY <1>t, SarFacts, Zenon
<1> DEFINE Goal == SentLine' /\ DataEnd <= DataEnd' /\ DataEnd \in Int /\ DataEnd' \in Int
<1>k. ASSUME SentLine' /\ DataEnd' = DataEnd PROVE Goal
  BY <1>u, <1>k
<1>1. CASE SmlAccept
  BY <1>1, <1>t, <1>k, SentSmlAccept, Zenon DEF InTime
<1>2. CASE TashStatus1 \/ TashStatus2
  BY <1>2, <1>t, <1>k, SentTash, Zenon
<1>3. CASE MdlTx \/ MdlRt \/ MdlFin
  BY <1>3, <1>t, <1>u, SentMdl, Zenon
<1>4. CASE RxeTransition
  BY <1>4, <1>t, <1>k, SentTransition, Zenon
<1>5. CASE MdlWait
  BY <1>5, <1>t, <1>k, SentMdlWait, Zenon
<1>6. CASE \E w \in Windows : PeerTakes(w)
  <2>1. PICK w \in Windows : PeerTakes(w)
    BY <1>6
  <2>2. w \in Nat
    BY <2>1, LengthAssumption, Sizes DEF LengthAssumption
  <2> QED
    BY <1>t, <1>k, <2>1, <2>2, SentPeerTakes, Zenon
<1>7. ASSUME ~SmlAccept, UNCHANGED <<tst, mdl, peer>> PROVE Goal
  <2>1. app'.next = app.next
    BY <1>0, <1>7, <1>t, AppStep, Zenon
  <2> QED
    BY <1>7, <1>t, <1>k, <2>1, SentUnchanged, Zenon
<1>8. CASE (AppRequest \/ AppClose \/ SmlRequest \/ TatAnswer \/ SmlRefuse \/ TatPush \/ Emx \/ TashIdle) /\ ~SmlAccept
  BY <1>7, <1>8, Zenon DEF AppRequest, AppClose, SmlRequest, TatAnswer, SmlRefuse, TatPush, Emx, TashIdle, txe, net
<1>9. CASE (MwrIdle \/ MwrSplit \/ MwrAligned \/ MwrFirst \/ MwrUncut \/ MwrSecond \/ MwrResidue) /\ ~SmlAccept
  BY <1>7, <1>9, Zenon DEF MwrIdle, MwrSplit, MwrAligned, MwrFirst, MwrUncut, MwrSecond, MwrResidue, txe, net
<1>10. CASE (MrdFirst \/ MrdSecond \/ TssHeader \/ TssSegment) /\ ~SmlAccept
  BY <1>7, <1>10, Zenon DEF MrdFirst, MrdSecond, TssHeader, TssSegment, net
<1>11. CASE (RxeLoad \/ TImExpire \/ Lose \/ UNCHANGED vars) /\ ~SmlAccept
  BY <1>7, <1>11, Zenon DEF RxeLoad, TImExpire, Lose, vars, txe, net
<1> QED
  BY <1>0, <1>1, <1>2, <1>3, <1>4, <1>5, <1>6, <1>8, <1>9, <1>10, <1>11, Zenon DEF Actions, Goal

----------------------------------------------------------------------------
(* The headers on the wire, and behind them those at Tss *)

Carries(g) == g.hdr # <<>>
\* The headers are in G, and one that is ahead of another is in the relation R to it.
Arranged(w, q, G, R) ==
    /\ \A k \in 1..Len(w) : Carries(w[k]) => w[k].hdr[1] \in G /\ Size(w[k]) <= w[k].hdr[1].len
    /\ \A k \in 1..Len(q) : q[k] \in G
    /\ \A i \in 1..Len(w), k \in 1..Len(w) : i < k /\ Carries(w[i]) /\ Carries(w[k]) => <<w[i].hdr[1], w[k].hdr[1]>> \in R
    /\ \A i \in 1..Len(q), k \in 1..Len(q) : i < k => <<q[i], q[k]>> \in R
    /\ \A i \in 1..Len(w), k \in 1..Len(q) : Carries(w[i]) => <<w[i].hdr[1], q[k]>> \in R

LEMMA ArrangedMore ==
    ASSUME NEW w, NEW q, NEW G, NEW R, NEW H, NEW S, Arranged(w, q, G, R),
           \A h \in G : h \in H, \A g \in G, h \in G : <<g, h>> \in R => <<g, h>> \in S
    PROVE  Arranged(w, q, H, S)
  BY Zenon DEF Arranged

\* The first segment leaves the wire: what is left is behind it.
LEMMA ArrangedTake ==
    ASSUME NEW w \in Seq(WireFrames), NEW q \in Seq(Headers), NEW G, NEW R, Arranged(w, q, G, R), w # <<>>
    PROVE  Arranged(Tail(w), q, {h \in G : Carries(w[1]) => <<w[1].hdr[1], h>> \in R}, R)
<1>1. /\ Len(w) \in Nat \ {0} /\ Len(Tail(w)) = Len(w) - 1
      /\ \A i \in 1..Len(Tail(w)) : i + 1 \in 1..Len(w) /\ Tail(w)[i] = w[i + 1]
  BY HeadTail, Zenon
<1>2. PICK t : t = Tail(w)
  OBVIOUS
<1>3. Len(t) = Len(w) - 1 /\ \A i \in 1..Len(t) : i + 1 \in 1..Len(w) /\ t[i] = w[i + 1]
  BY <1>1, <1>2, Zenon
<1>4. 1 \in 1..Len(w) /\ (\A i \in 1..Len(t) : 1 < i + 1) /\ (\A i, k \in 1..Len(t) : i < k => i + 1 < k + 1)
  BY <1>1, <1>3
<1>5. PICK H : H = {h \in G : Carries(w[1]) => <<w[1].hdr[1], h>> \in R}
  OBVIOUS
<1>6. \A h : h \in G /\ (Carries(w[1]) => <<w[1].hdr[1], h>> \in R) => h \in H
  BY <1>5
<1>7. \A k \in 1..Len(t) : Carries(t[k]) => t[k].hdr[1] \in H /\ Size(t[k]) <= t[k].hdr[1].len
  BY <1>3, <1>4, <1>6, Zenon DEF Arranged
<1>8. \A k \in 1..Len(q) : q[k] \in H
  BY <1>4, <1>6, Zenon DEF Arranged
<1>9. \A i \in 1..Len(t), k \in 1..Len(t) : i < k /\ Carries(t[i]) /\ Carries(t[k]) => <<t[i].hdr[1], t[k].hdr[1]>> \in R
  BY <1>3, <1>4, Zenon DEF Arranged
<1>10. \A i \in 1..Len(t), k \in 1..Len(q) : Carries(t[i]) => <<t[i].hdr[1], q[k]>> \in R
  BY <1>3, Zenon DEF Arranged
<1>11. Arranged(t, q, H, R)
  BY <1>7, <1>8, <1>9, <1>10, Zenon DEF Arranged
<1> QED
  BY <1>2, <1>5, <1>11, Zenon

\* A header comes.
LEMMA ArrangedAppend ==
    ASSUME NEW w \in Seq(WireFrames), NEW q \in Seq(Headers), NEW G, NEW R, Arranged(w, q, G, R),
           NEW h \in Headers, h \in G, \A g \in G : <<g, h>> \in R
    PROVE  Arranged(w, Append(q, h), G, R)
<1>1. PICK s : s = Append(q, h)
  OBVIOUS
<1>2. /\ Len(q) \in Nat /\ Len(Append(q, h)) = Len(q) + 1
      /\ \A i \in 1..Len(q) : Append(q, h)[i] = q[i]
      /\ Append(q, h)[Len(q) + 1] = h
  BY AppendIs
<1>3. /\ Len(q) \in Nat /\ Len(s) = Len(q) + 1
      /\ \A i \in 1..Len(q) : s[i] = q[i]
      /\ s[Len(q) + 1] = h
  BY <1>1, <1>2, Zenon
<1>4. /\ \A i \in 1..Len(s) : i \in 1..Len(q) \/ i = Len(q) + 1
      /\ \A i, k \in 1..Len(s) : i < k => i \in 1..Len(q)
  BY <1>3
<1>5. \A k \in 1..Len(s) : s[k] \in G
  BY <1>3, <1>4, Zenon DEF Arranged
<1>6. \A i \in 1..Len(s), k \in 1..Len(s) : i < k => <<s[i], s[k]>> \in R
  <2> TAKE i \in 1..Len(s), k \in 1..Len(s)
  <2> HAVE i < k
  <2>1. i \in 1..Len(q) /\ s[i] = q[i] /\ q[i] \in G
    BY <1>3, <1>4, Zenon DEF Arranged
  <2>2. CASE k \in 1..Len(q)
    BY <1>3, <2>1, <2>2, Zenon DEF Arranged
  <2>3. CASE k = Len(q) + 1
    BY <1>3, <2>1, <2>3, Zenon
  <2> QED
    BY <1>4, <2>2, <2>3, Zenon
<1>7. \A i \in 1..Len(w), k \in 1..Len(s) : Carries(w[i]) => <<w[i].hdr[1], s[k]>> \in R
  <2> TAKE i \in 1..Len(w), k \in 1..Len(s)
  <2> HAVE Carries(w[i])
  <2>1. w[i].hdr[1] \in G
    BY Zenon DEF Arranged
  <2>2. CASE k \in 1..Len(q)
    BY <1>3, <2>2, Zenon DEF Arranged
  <2>3. CASE k = Len(q) + 1
    BY <1>3, <2>1, <2>3, Zenon
  <2> QED
    BY <1>4, <2>2, <2>3, Zenon
<1>8. Arranged(w, s, G, R)
  BY <1>5, <1>6, <1>7, Zenon DEF Arranged
<1> QED
  BY <1>1, <1>8, Zenon

\* The first header goes to the wire, with the frames f.
LEMMA ArrangedMove ==
    ASSUME NEW w \in Seq(WireFrames), NEW q \in Seq(Headers), NEW G, NEW R, Arranged(w, q, G, R), q # <<>>,
           NEW f \in Seq(WireFrames), NEW h, h = Head(q), <<h, h>> \in R,
           \A k \in 1..Len(f) : f[k].hdr \in {<<>>, <<h>>} /\ Size(f[k]) <= h.len
    PROVE  Arranged(w \o f, Tail(q), G, R)
<1>1. PICK v : v = w \o f
  OBVIOUS
<1>2. PICK t : t = Tail(q)
  OBVIOUS
<1>3. /\ h = q[1] /\ Len(q) \in Nat \ {0} /\ Len(Tail(q)) = Len(q) - 1
      /\ \A i \in 1..Len(Tail(q)) : i + 1 \in 1..Len(q) /\ Tail(q)[i] = q[i + 1]
  BY HeadTail, Zenon
<1>4. Len(t) = Len(q) - 1 /\ \A i \in 1..Len(t) : i + 1 \in 1..Len(q) /\ t[i] = q[i + 1]
  BY <1>2, <1>3, Zenon
<1>5. 1 \in 1..Len(q) /\ (\A i \in 1..Len(t) : 1 < i + 1) /\ (\A i, k \in 1..Len(t) : i < k => i + 1 < k + 1)
  BY <1>3, <1>4
<1>6. \A k \in 1..Len(f) : Carries(f[k]) => f[k].hdr[1] = h /\ Size(f[k]) <= h.len
  <2> TAKE k \in 1..Len(f)
  <2> HAVE Carries(f[k])
  <2>1. f[k].hdr = <<h>> /\ Size(f[k]) <= h.len
    BY Zenon DEF Carries
  <2>2. f[k].hdr[1] = h
    BY <2>1
  <2> QED
    BY <2>1, <2>2, Zenon
<1>7. \A k \in 1..Len(v) : \/ k \in 1..Len(w) /\ v[k] = w[k]
                           \/ k > Len(w) /\ \E j \in 1..Len(f) : v[k] = f[j]
  <2>1. Len(w) \in Nat /\ Len(f) \in Nat /\ Len(w \o f) = Len(w) + Len(f)
    OBVIOUS
  <2>2. \A k \in 1..Len(w) + Len(f) : (w \o f)[k] = IF k <= Len(w) THEN w[k] ELSE f[k - Len(w)]
    OBVIOUS
  <2>3. Len(v) = Len(w) + Len(f) /\ \A k \in 1..Len(v) : v[k] = IF k <= Len(w) THEN w[k] ELSE f[k - Len(w)]
    BY <1>1, <2>1, <2>2, Zenon
  <2> TAKE k \in 1..Len(v)
  <2>4. CASE k <= Len(w)
    <3>1. k \in 1..Len(w)
      BY <2>1, <2>3, <2>4
    <3> QED
      BY <2>3, <2>4, <3>1, Zenon
  <2>5. CASE ~(k <= Len(w))
    <3>1. k > Len(w) /\ k - Len(w) \in 1..Len(f)
      BY <2>1, <2>3, <2>5
    <3> QED
      BY <2>3, <2>5, <3>1, Zenon
  <2> QED
    BY <2>4, <2>5
<1>8. \A k \in 1..Len(v) : Carries(v[k]) =>
          /\ v[k].hdr[1] \in G /\ Size(v[k]) <= v[k].hdr[1].len
          /\ (k \in 1..Len(w) /\ v[k] = w[k]) \/ (k > Len(w) /\ v[k].hdr[1] = h)
  <2> TAKE k \in 1..Len(v)
  <2> HAVE Carries(v[k])
  <2>1. CASE k \in 1..Len(w) /\ v[k] = w[k]
    <3>1. Carries(w[k])
      BY <2>1, Zenon
    <3>2. w[k].hdr[1] \in G /\ Size(w[k]) <= w[k].hdr[1].len
      BY <2>1, <3>1, Zenon DEF Arranged
    <3> QED
      BY <2>1, <3>2, Zenon
  <2>2. CASE k > Len(w) /\ \E j \in 1..Len(f) : v[k] = f[j]
    <3>1. v[k].hdr[1] = h /\ Size(v[k]) <= h.len
      BY <1>6, <2>2, Zenon
    <3>2. h \in G
      BY <1>3, <1>5, Zenon DEF Arranged
    <3> QED
      BY <2>2, <3>1, <3>2, Zenon
  <2> QED
    BY <1>7, <2>1, <2>2, Zenon
<1>9. \A k \in 1..Len(t) : t[k] \in G /\ <<h, t[k]>> \in R
  BY <1>3, <1>4, <1>5, Zenon DEF Arranged
<1>10. \A i \in 1..Len(v), k \in 1..Len(v) : i < k /\ Carries(v[i]) /\ Carries(v[k]) => <<v[i].hdr[1], v[k].hdr[1]>> \in R
  <2> TAKE i \in 1..Len(v), k \in 1..Len(v)
  <2> HAVE i < k /\ Carries(v[i]) /\ Carries(v[k])
  <2>1. CASE k \in 1..Len(w) /\ v[k] = w[k]
    <3>1. ~(i > Len(w))
      <4>1. Len(w) \in Nat /\ i \in Int
        OBVIOUS
      <4> QED
        BY <2>1, <4>1
    <3>2. i \in 1..Len(w) /\ v[i] = w[i]
      BY <1>8, <3>1, Zenon
    <3> QED
      BY <2>1, <3>2, Zenon DEF Arranged
  <2>2. CASE v[k].hdr[1] = h
    <3>1. CASE i \in 1..Len(w) /\ v[i] = w[i]
      BY <1>3, <1>5, <2>2, <3>1, Zenon DEF Arranged
    <3>2. CASE v[i].hdr[1] = h
      BY <2>2, <3>2, Zenon
    <3> QED
      BY <1>8, <3>1, <3>2, Zenon
  <2> QED
    BY <1>8, <2>1, <2>2, Zenon
<1>11. \A i \in 1..Len(t), k \in 1..Len(t) : i < k => <<t[i], t[k]>> \in R
  BY <1>4, <1>5, Zenon DEF Arranged
<1>12. \A i \in 1..Len(v), k \in 1..Len(t) : Carries(v[i]) => <<v[i].hdr[1], t[k]>> \in R
  BY <1>4, <1>8, <1>9, Zenon DEF Arranged
<1>13. Arranged(v, t, G, R)
  BY <1>8, <1>9, <1>10, <1>11, <1>12, Zenon DEF Arranged
<1> QED
  BY <1>1, <1>2, <1>13, Zenon

\* WireLine says this of the headers.
SoundHeaders == {h \in Headers : Sound(h)}
InOrder == {p \in Headers \X Headers : Before(p[1], p[2])}

LEMMA WireIs ==
    ASSUME NetTypes, TxeTypes
    PROVE  WireLine <=> Arranged(wire, hdr, SoundHeaders, InOrder)
<1>1. \A k \in 1..Len(wire) : Carries(wire[k]) => wire[k].hdr[1] \in Headers
  <2> TAKE k \in 1..Len(wire)
  <2> HAVE Carries(wire[k])
  <2>1. wire[k] \in WireFrames
    BY ElementOf, Zenon DEF NetTypes
  <2>2. PICK h \in Headers : wire[k].hdr = <<h>>
    BY <2>1 DEF WireFrames, Carries
  <2> QED
    BY <2>2
<1>2. \A k \in 1..Len(hdr) : hdr[k] \in Headers
  BY ElementOf, Zenon DEF TxeTypes
<1>3. \A h \in Headers : h \in SoundHeaders <=> Sound(h)
  BY Zenon DEF SoundHeaders
<1>4. \A g \in Headers, h \in Headers : <<g, h>> \in InOrder <=> Before(g, h)
  BY DEF InOrder
<1>5. \A k : Carries(wire[k]) <=> HasHeader(k)
  BY Zenon DEF Carries, HasHeader
<1>6. ASSUME WireLine PROVE Arranged(wire, hdr, SoundHeaders, InOrder)
  BY <1>1, <1>2, <1>3, <1>4, <1>5, <1>6, Zenon DEF WireLine, Arranged
<1>7. ASSUME Arranged(wire, hdr, SoundHeaders, InOrder) PROVE WireLine
  BY <1>1, <1>2, <1>3, <1>4, <1>5, <1>7, Zenon DEF WireLine, Arranged
<1> QED
  BY <1>6, <1>7

----------------------------------------------------------------------------
(* WireLine: the segments on the wire *)

LEMMA WireWill ==
    ASSUME NetTypes', TxeTypes', Arranged(wire', hdr', SoundHeaders', InOrder')
    PROVE  WireLine'
<1>1. \A k \in 1..Len(wire') : Carries(wire'[k]) => wire'[k].hdr[1] \in Headers
  <2> TAKE k \in 1..Len(wire')
  <2> HAVE Carries(wire'[k])
  <2>1. wire'[k] \in WireFrames
    BY ElementOf, Zenon DEF NetTypes
  <2>2. PICK h \in Headers : wire'[k].hdr = <<h>>
    BY <2>1 DEF WireFrames, Carries
  <2> QED
    BY <2>2
<1>2. \A k \in 1..Len(hdr') : hdr'[k] \in Headers
  BY ElementOf, Zenon DEF TxeTypes
<1>3. \A h \in Headers : h \in SoundHeaders' <=> Sound(h)'
  BY Zenon DEF SoundHeaders
<1>4. \A g \in Headers, h \in Headers : <<g, h>> \in InOrder' <=> Before(g, h)'
  BY DEF InOrder
<1> QED
  BY <1>1, <1>2, <1>3, <1>4, Zenon DEF WireLine, Arranged, Carries, HasHeader

\* What was true of a header stays true of it.
Lasting ==
    /\ \A h \in SoundHeaders : h \in SoundHeaders'
    /\ \A g \in SoundHeaders, h \in SoundHeaders : <<g, h>> \in InOrder => <<g, h>> \in InOrder'

LEMMA WireStays ==
    ASSUME NetTypes', TxeTypes', Arranged(wire', hdr', SoundHeaders, InOrder), Lasting
    PROVE  WireLine'
  BY ArrangedMore, WireWill, Zenon DEF Lasting

LEMMA SoundIs ==
    ASSUME NEW h
    PROVE  h \in SoundHeaders <=> h \in Headers /\ Sound(h)
  BY Zenon DEF SoundHeaders

LEMMA OrderIs ==
    ASSUME NEW g \in Headers, NEW h \in Headers
    PROVE  /\ <<g, h>> \in InOrder <=> Before(g, h)
           /\ <<g, h>> \in InOrder' <=> Before(g, h)'
  BY DEF InOrder

LEMMA SoundWill ==
    ASSUME NEW h \in Headers, Sound(h)'
    PROVE  h \in SoundHeaders'
  BY Zenon DEF SoundHeaders

LEMMA LastingIf ==
    ASSUME TaiTypes, app'.next = app.next, tst.finSent => tst'.finSent, UNCHANGED peer,
           DataEnd <= DataEnd', DataEnd \in Int, DataEnd' \in Int
    PROVE  Lasting
<1>1. \A h \in SoundHeaders : h \in SoundHeaders'
  <2> TAKE h \in SoundHeaders
  <2>1. h \in Headers /\ Sound(h)
    BY SoundIs
  <2>2. SeqPos(h.seq)' = SeqPos(h.seq)
    BY Zenon DEF SeqPos
  <2>3. SeqPos(h.seq) \in Int /\ h.len \in Nat
    BY <2>1, HeaderFacts, Zenon
  <2>4. SeqPos(h.seq) + h.len <= DataEnd => SeqPos(h.seq) + h.len <= DataEnd'
    BY <2>3
  <2>5. Sound(h)'
    BY <2>1, <2>2, <2>4, Zenon DEF Sound
  <2> QED
    BY <2>1, <2>5, SoundWill, Zenon
<1>2. \A g \in SoundHeaders, h \in SoundHeaders : <<g, h>> \in InOrder => <<g, h>> \in InOrder'
  <2> TAKE g \in SoundHeaders, h \in SoundHeaders
  <2> HAVE <<g, h>> \in InOrder
  <2>1. g \in Headers /\ h \in Headers
    BY SoundIs
  <2>2. SeqPos(h.seq)' = SeqPos(h.seq) /\ SeqPos(g.seq)' = SeqPos(g.seq)
    BY Zenon DEF SeqPos
  <2>3. Before(g, h)'
    BY <2>1, <2>2, OrderIs, Zenon DEF Before
  <2> QED
    BY <2>1, <2>3, OrderIs, Zenon
<1> QED
  BY <1>1, <1>2, Zenon DEF Lasting

LEMMA WireSmlAccept ==
    ASSUME TaiTypes, TxeTypes, NetTypes, FinLine, SpaceLine, Pointers, AckLine, SentLine, WireLine, SmlAccept, ~app.closed,
           NetTypes', TxeTypes'
    PROVE  WireLine'
<1>1. PICK a, n, m : Room(a, n, m)
  BY RoomIs
<1>2. UNCHANGED <<tst, mdl, peer, wire, hdr>>
  BY Zenon DEF SmlAccept, txe, net
<1>3. /\ n = app.next /\ app'.next = m /\ a <= A /\ ~tst.finSent /\ m \in Int /\ a \in Int
      /\ \A x \in 0..(SeqMod - 1) : a - BufSize < SeqAt(n, x) => SeqAt(m, x) = SeqAt(n, x)
  BY <1>1, Zenon DEF Room, Stays
<1>4. ~peer.fin /\ A <= peer.rcv
  BY <1>3, Zenon DEF AckLine, RcvLine
<1>5. A \in Int /\ peer.rcv \in Nat /\ BufSize \in Nat \ {0}
  BY PointerFacts, Sizes DEF NetTypes
<1>6. DataEnd' = DataEnd
  BY SentSmlAccept
<1>7. ASSUME NEW h \in SoundHeaders PROVE SeqPos(h.seq)' = SeqPos(h.seq) /\ h \in Headers /\ Sound(h)
  <2>1. h \in Headers /\ Sound(h)
    BY SoundIs
  <2>2. h.seq \in 0..(SeqMod - 1) /\ SeqPos(h.seq) \in Int
    BY <2>1, HeaderFacts, Zenon
  <2>3. peer.rcv < SeqPos(h.seq) + BufSize
    BY <1>4, <2>1, Zenon DEF Sound
  <2>4. a - BufSize < SeqPos(h.seq)
    BY <1>3, <1>4, <1>5, <2>2, <2>3
  <2>5. SeqAt(m, h.seq) = SeqAt(n, h.seq)
    BY <1>3, <2>2, <2>4, Zenon DEF SeqPos
  <2> QED
    BY <1>3, <2>1, <2>5, Zenon DEF SeqPos
<1>8. \A h \in SoundHeaders : h \in SoundHeaders'
  <2> TAKE h \in SoundHeaders
  <2>1. SeqPos(h.seq)' = SeqPos(h.seq) /\ h \in Headers /\ Sound(h)
    BY <1>7
  <2>2. Sound(h)'
    BY <1>2, <1>3, <1>6, <2>1, Zenon DEF Sound
  <2> QED
    BY <2>1, <2>2, SoundWill, Zenon
<1>9. \A g \in SoundHeaders, h \in SoundHeaders : <<g, h>> \in InOrder => <<g, h>> \in InOrder'
  <2> TAKE g \in SoundHeaders, h \in SoundHeaders
  <2> HAVE <<g, h>> \in InOrder
  <2>1. SeqPos(h.seq)' = SeqPos(h.seq) /\ SeqPos(g.seq)' = SeqPos(g.seq) /\ g \in Headers /\ h \in Headers
    BY <1>7
  <2>2. Before(g, h)'
    BY <1>2, <2>1, OrderIs, Zenon DEF Before
  <2> QED
    BY <2>1, <2>2, OrderIs, Zenon
<1>10. Arranged(wire, hdr, SoundHeaders, InOrder)
  BY WireIs
<1> QED
  BY <1>2, <1>8, <1>9, <1>10, WireStays, Zenon DEF Lasting

\* The first segment leaves the wire.
LEMMA WireTail ==
    ASSUME TxeTypes, NetTypes, WireLine, wire # <<>>
    PROVE  Arranged(Tail(wire), hdr, {h \in SoundHeaders : Carries(wire[1]) => <<wire[1].hdr[1], h>> \in InOrder}, InOrder)
<1>1. Arranged(wire, hdr, SoundHeaders, InOrder)
  BY WireIs
<1>2. wire \in Seq(WireFrames) /\ hdr \in Seq(Headers)
  BY Zenon DEF NetTypes, TxeTypes
<1> QED
  BY <1>1, <1>2, ArrangedTake, Zenon

LEMMA WireLose ==
    ASSUME TaiTypes, TxeTypes, NetTypes, WireLine, wire # <<>>, wire' = Tail(wire), hdr' = hdr, Lasting,
           NetTypes', TxeTypes'
    PROVE  WireLine'
<1>1. PICK G : G = {h \in SoundHeaders : Carries(wire[1]) => <<wire[1].hdr[1], h>> \in InOrder}
  OBVIOUS
<1>2. Arranged(Tail(wire), hdr, G, InOrder)
  BY <1>1, WireTail, Zenon
<1>3. \A h \in G : h \in SoundHeaders
  BY <1>1
<1>4. Arranged(Tail(wire), hdr, SoundHeaders, InOrder)
  BY <1>2, <1>3, ArrangedMore, Zenon
<1> QED
  BY <1>4, WireStays, Zenon

\* What the peer waits for is ahead of no header that is left by a whole buffer.
LEMMA WirePeerTakes ==
    ASSUME TaiTypes, TxeTypes, NetTypes, Pointers, AckLine, SentLine, WireLine, NEW w \in Nat, PeerTakes(w),
           NetTypes', TxeTypes'
    PROVE  WireLine'
<1>1. PICK g, h, rcv, fin : Taken(w, g, h, rcv, fin)
  BY TakenIs
<1>2. UNCHANGED <<app, tst, mdl, hdr>>
  BY Zenon DEF PeerTakes, tai, txe
<1>3. /\ peer'.rcv = rcv /\ (peer'.fin <=> fin) /\ (peer.fin => fin) /\ rcv \in Nat
      /\ ~fin => rcv = peer.rcv \/ (g.hdr = <<h>> /\ rcv <= SeqPos(h.seq) + h.len)
      /\ g = wire[1] /\ wire # <<>> /\ wire' = Tail(wire)
  BY <1>1, Zenon DEF Taken
<1>4. DataEnd' = DataEnd
  BY SentPeerTakes
<1>5. PICK G : G = {k \in SoundHeaders : Carries(wire[1]) => <<wire[1].hdr[1], k>> \in InOrder}
  OBVIOUS
<1>6. Arranged(wire', hdr', G, InOrder)
  BY <1>2, <1>3, <1>5, WireTail, Zenon
<1>7. ASSUME NEW k \in G PROVE k \in Headers /\ Sound(k) /\ SeqPos(k.seq)' = SeqPos(k.seq)
  BY <1>2, <1>5, <1>7, SoundIs DEF SeqPos
<1>8. \A k \in G : k \in SoundHeaders'
  <2> TAKE k \in G
  <2>1. k \in Headers /\ Sound(k) /\ SeqPos(k.seq)' = SeqPos(k.seq) /\ SeqPos(k.seq) \in Int
    BY <1>7, HeaderFacts, Zenon
  <2>2. ~fin => rcv < SeqPos(k.seq) + BufSize
    <3> HAVE ~fin
    <3>1. ~peer.fin
      BY <1>3
    <3>2. CASE rcv = peer.rcv
      BY <2>1, <3>1, <3>2, Zenon DEF Sound
    <3>3. CASE g.hdr = <<h>> /\ rcv <= SeqPos(h.seq) + h.len
      <4>1. Carries(wire[1]) /\ wire[1].hdr[1] = h /\ h \in Headers
        <5>1. Carries(wire[1]) /\ wire[1].hdr[1] = h
          BY <1>3, <3>3 DEF Carries
        <5>2. wire[1] \in WireFrames
          <6>1. wire \in Seq(WireFrames)
            BY Zenon DEF NetTypes
          <6>2. Head(wire) \in WireFrames /\ Head(wire) = wire[1]
            BY <1>3, <6>1, HeadTail, Zenon
          <6> QED
            BY <6>2, Zenon
        <5>3. h \in Headers
          <6>1. g.hdr \in {<<>>} \cup {<<x>> : x \in Headers} /\ g.hdr = <<h>>
            BY <1>3, <3>3, <5>2, Zenon DEF WireFrames
          <6>2. PICK x \in Headers : <<h>> = <<x>>
            BY <6>1
          <6>3. h = x
            BY <6>2
          <6> QED
            BY <6>2, <6>3, Zenon
        <5> QED
          BY <5>1, <5>3
      <4>2. <<h, k>> \in InOrder
        BY <1>5, <4>1
      <4>3. SeqPos(h.seq) + h.len < SeqPos(k.seq) + BufSize
        BY <2>1, <3>1, <4>1, <4>2, OrderIs, Zenon DEF Before
      <4>4. SeqPos(h.seq) \in Int /\ h.len \in Nat
        BY <4>1, HeaderFacts, Zenon
      <4> QED
        BY <1>3, <2>1, <3>3, <4>3, <4>4, Sizes
    <3> QED
      BY <1>3, <3>2, <3>3
  <2>3. Sound(k)'
    BY <1>2, <1>3, <1>4, <2>1, <2>2, Zenon DEF Sound
  <2> QED
    BY <2>1, <2>3, SoundWill, Zenon
<1>9. \A k \in G, l \in G : <<k, l>> \in InOrder => <<k, l>> \in InOrder'
  <2> TAKE k \in G, l \in G
  <2> HAVE <<k, l>> \in InOrder
  <2>1. SeqPos(k.seq)' = SeqPos(k.seq) /\ SeqPos(l.seq)' = SeqPos(l.seq) /\ k \in Headers /\ l \in Headers
    BY <1>7
  <2>2. Before(k, l)'
    BY <1>3, <2>1, OrderIs, Zenon DEF Before
  <2> QED
    BY <2>1, <2>2, OrderIs, Zenon
<1>10. Arranged(wire', hdr', SoundHeaders', InOrder')
  BY <1>6, <1>8, <1>9, ArrangedMore, Zenon
<1> QED
  BY <1>10, WireWill, Zenon

\* A segment is sent that starts less than a buffer before the end of what was sent.
LEMMA WireSent ==
    ASSUME TaiTypes, TxeTypes, NetTypes, WireLine, SentLine, Lasting, NetTypes', TxeTypes',
           UNCHANGED <<app, wire, peer>>, NEW seq, NEW n, NEW fin, Sent(seq, n, fin), NEW s \in Int, SeqPos(seq) = s,
           fin => n = 0 /\ s = app.next /\ tst'.finSent,
           DataEnd \in Int, DataEnd' \in Int,
           ~peer.fin => 0 <= s /\ DataEnd < s + BufSize /\ s + n <= DataEnd'
    PROVE  WireLine'
<1>1. PICK e : e = Header(seq, n, fin)
  OBVIOUS
<1>2. /\ seq \in 0..(SeqMod - 1) /\ n \in 0..(BufSize - 1) /\ fin \in BOOLEAN
      /\ hdr' = Append(hdr, e)
  BY <1>1, Zenon DEF Sent
<1>3. e \in Headers /\ e.seq = seq /\ e.len = n /\ e.fin = fin
  BY <1>1, <1>2 DEF Header, Headers
<1>4. peer.rcv \in Nat /\ BufSize \in Nat \ {0}
  BY Sizes DEF NetTypes
<1>5. SeqPos(e.seq)' = s
  BY <1>3, Zenon DEF SeqPos
<1>6. ~peer.fin => peer.rcv < s + BufSize
  <2> HAVE ~peer.fin
  <2>1. peer.rcv <= DataEnd
    BY Zenon DEF SentLine
  <2> QED
    BY <1>4, <2>1
<1>7. Sound(e)'
  BY <1>3, <1>5, <1>6, Zenon DEF Sound
<1>8. e \in SoundHeaders'
  BY <1>3, <1>7, SoundWill, Zenon
<1>9. \A g \in SoundHeaders : <<g, e>> \in InOrder'
  <2> TAKE g \in SoundHeaders
  <2>1. g \in Headers /\ Sound(g)
    BY SoundIs
  <2>2. SeqPos(g.seq) \in Int /\ g.len \in Nat /\ SeqPos(g.seq)' = SeqPos(g.seq)
    BY <2>1, HeaderFacts, Zenon DEF SeqPos
  <2>3. ~peer.fin => SeqPos(g.seq) + g.len < s + BufSize
    <3> HAVE ~peer.fin
    <3>1. SeqPos(g.seq) + g.len <= DataEnd
      BY <2>1, Zenon DEF Sound
    <3> QED
      BY <1>4, <2>2, <3>1
  <2>4. Before(g, e)'
    BY <1>5, <2>2, <2>3, Zenon DEF Before
  <2> QED
    BY <1>3, <2>1, <2>4, OrderIs, Zenon
\* The headers there are, with e behind them.
<1>10. PICK G : G = SoundHeaders \cup {e}
  OBVIOUS
<1>11. PICK R : R = InOrder \cup (SoundHeaders \X {e}) \cup {<<e, e>>}
  OBVIOUS
<1>12. Arranged(wire, hdr, G, R)
  <2>1. Arranged(wire, hdr, SoundHeaders, InOrder)
    BY WireIs
  <2>2. (\A h \in SoundHeaders : h \in G) /\ \A g \in SoundHeaders, h \in SoundHeaders : <<g, h>> \in InOrder => <<g, h>> \in R
    BY <1>10, <1>11
  <2> QED
    BY <2>1, <2>2, ArrangedMore, Zenon
<1>13. Arranged(wire, hdr', G, R)
  <2>1. wire \in Seq(WireFrames) /\ hdr \in Seq(Headers)
    BY Zenon DEF NetTypes, TxeTypes
  <2>2. e \in G /\ \A g \in G : <<g, e>> \in R
    BY <1>10, <1>11
  <2> QED
    BY <1>2, <1>3, <1>12, <2>1, <2>2, ArrangedAppend, Zenon
<1>14. Before(e, e)'
  <2>1. s + n < s + BufSize
    BY <1>2, <1>4
  <2> QED
    BY <1>3, <1>5, <2>1, Zenon DEF Before
<1>15. Arranged(wire, hdr', SoundHeaders', InOrder')
  <2>1. \A h \in G : h \in SoundHeaders'
    BY <1>8, <1>10 DEF Lasting
  <2>2. \A g \in G, h \in G : <<g, h>> \in R => <<g, h>> \in InOrder'
    <3> TAKE g \in G, h \in G
    <3> HAVE <<g, h>> \in R
    <3>1. CASE <<g, h>> \in InOrder /\ g \in SoundHeaders /\ h \in SoundHeaders
      BY <3>1, Zenon DEF Lasting
    <3>2. CASE g \in SoundHeaders /\ h = e
      BY <1>9, <3>2, Zenon
    <3>3. CASE g = e /\ h = e
      BY <1>3, <1>14, <3>3, OrderIs, Zenon
    <3>4. CASE e \in SoundHeaders
      <4>1. g \in SoundHeaders /\ h \in SoundHeaders
        BY <1>10, <3>4
      <4>2. <<g, h>> \in InOrder \/ h = e
        BY <1>11
      <4> QED
        BY <3>1, <3>2, <4>1, <4>2
    <3>5. CASE e \notin SoundHeaders
      <4>1. CASE g = e /\ h # e
        <5>1. h \in SoundHeaders
          BY <1>10, <4>1
        <5>2. <<g, h>> \in InOrder
          BY <1>11, <4>1
        <5>3. Before(e, h)
          BY <1>3, <4>1, <5>1, <5>2, SoundIs, OrderIs
        <5>4. Before(e, h)'
          BY <5>3, Zenon DEF Before, SeqPos
        <5> QED
          BY <1>3, <4>1, <5>1, <5>4, SoundIs, OrderIs
      <4>2. CASE g # e /\ h # e
        BY <1>10, <1>11, <3>1, <4>2
      <4>3. CASE g # e /\ h = e
        BY <1>10, <3>2, <4>3
      <4> QED
        BY <3>3, <4>1, <4>2, <4>3
    <3> QED
      BY <3>4, <3>5
  <2> QED
    BY <1>13, <2>1, <2>2, ArrangedMore, Zenon
<1> QED
  BY <1>15, WireWill, Zenon

\* Mdl sends nothing.
LEMMA WireSame ==
    ASSUME TxeTypes, NetTypes, WireLine, Lasting, NetTypes', TxeTypes', UNCHANGED <<wire, hdr>>
    PROVE  WireLine'
  BY WireIs, WireStays, Zenon

LEMMA OwnOrder ==
    ASSUME TaiTypes, NEW h \in Headers
    PROVE  <<h, h>> \in InOrder
<1>1. h.len \in 0..(BufSize - 1) /\ SeqPos(h.seq) \in Int
  BY HeaderFacts, Zenon
<1>2. SeqPos(h.seq) + h.len < SeqPos(h.seq) + BufSize
  BY <1>1, Sizes
<1> QED
  BY <1>2, OrderIs, Zenon DEF Before

LEMMA WireTss ==
    ASSUME TaiTypes, TxeTypes, NetTypes, ReadLine, WireLine, Lasting, NetTypes', TxeTypes', TssHeader \/ TssSegment
    PROVE  WireLine'
<1>1. wire \in Seq(WireFrames) /\ hdr \in Seq(Headers)
  BY Zenon DEF NetTypes, TxeTypes
<1>2. Arranged(wire, hdr, SoundHeaders, InOrder)
  BY WireIs
<1>3. CASE TssHeader
  <2>1. PICK h : h = Head(hdr)
    OBVIOUS
  <2>2. hdr # <<>> /\ h.len = 0 /\ wire' = Append(wire, [hdr |-> <<h>>, bytes |-> <<>>]) /\ hdr' = Tail(hdr)
    BY <1>3, <2>1, Zenon DEF TssHeader
  <2>3. h \in Headers
    BY <1>1, <2>1, <2>2, HeadTail, Zenon
  <2>4. PICK x : x = [hdr |-> <<h>>, bytes |-> <<>>]
    OBVIOUS
  <2>5. x \in WireFrames /\ Size(x) = 0 /\ x.hdr = <<h>>
    BY <2>3, <2>4 DEF WireFrames, Size
  <2>6. PICK f : f = <<x>>
    OBVIOUS
  <2>7. f \in Seq(WireFrames) /\ Len(f) = 1 /\ f[1] = x
    BY <2>5, <2>6
  <2>8. wire' = wire \o f
    <3>1. Append(wire, x) = wire \o <<x>>
      BY <1>1, <2>5
    <3> QED
      BY <2>2, <2>4, <2>6, <3>1, Zenon
  <2>9. \A k \in 1..Len(f) : f[k].hdr \in {<<>>, <<h>>} /\ Size(f[k]) <= h.len
    BY SMTT(40), <2>2, <2>5, <2>7
  <2>10. <<h, h>> \in InOrder
    BY <2>3, OwnOrder, Zenon
  <2>11. Arranged(wire \o f, Tail(hdr), SoundHeaders, InOrder)
    BY <1>1, <1>2, <2>1, <2>2, <2>7, <2>9, <2>10, ArrangedMove, Zenon
  <2> QED
    BY <2>2, <2>8, <2>11, WireStays, Zenon
<1>4. CASE TssSegment
  <2>1. PICK h, s, f : TssSegmentDoes(h, s, f)
    BY <1>4, TssSegmentIs, Zenon
  <2>2. /\ hdr # <<>> /\ h = Head(hdr) /\ h \in Headers /\ f \in Seq(WireFrames)
        /\ \A k \in 1..Len(f) : f[k].hdr \in {<<>>, <<h>>} /\ Size(f[k]) <= h.len
        /\ wire' = wire \o f /\ hdr' = Tail(hdr)
    BY <2>1, Zenon DEF TssSegmentDoes
  <2>3. <<h, h>> \in InOrder
    BY <2>2, OwnOrder, Zenon
  <2>4. Arranged(wire \o f, Tail(hdr), SoundHeaders, InOrder)
    BY <1>1, <1>2, <2>2, <2>3, ArrangedMove, Zenon
  <2> QED
    BY <2>2, <2>4, WireStays, Zenon
<1> QED
  BY <1>3, <1>4

\* A FIN is retransmitted where it was.
LEMMA AgainAt ==
    ASSUME TaiTypes, TxeTypes, FinLine, Pointers, SentLine, NEW seq \in 0..(SeqMod - 1), FinAgain(seq)
    PROVE  SeqPos(seq) = app.next /\ tst.finSent /\ DataEnd = app.next
<1>1. Processing("FIN") /\ mdl.rt /\ seq = Minus(Sar.unak, 1, SeqMod)
  BY Zenon DEF FinAgain
<1>2. tst.finSent /\ ~Processing("TX")
  <2>1. mdl.st = "PROCESS_EVENT" /\ mdl.type = "FIN"
    BY <1>1, Zenon DEF Processing
  <2>2. mdl.sar.finSent /\ mdl.sar.finSent = tst.finSent
    BY <1>1, <2>1 DEF FinLine, MdlCopies
  <2> QED
    BY <2>1, <2>2 DEF Processing
<1>3. U = app.next + 1
  BY <1>2, Zenon DEF Pointers
<1>4. Sar.unak = tst.unak
  BY <1>1, Zenon DEF SentLine, MdlLine
<1>5. PICK n, u : n = app.next /\ u = tst.unak
  OBVIOUS
<1>6. u = (n + 1) % SeqMod /\ n \in Nat
  <2>1. U % SeqMod = tst.unak /\ app.next \in Nat
    BY PointerFacts, Zenon
  <2> QED
    BY <1>3, <1>5, <2>1, Zenon
<1>7. SeqMod \in Nat \ {0}
  BY Sizes
<1>8. (((n + 1) % SeqMod) + (SeqMod - 1)) % SeqMod = ((n + 1) + (SeqMod - 1)) % SeqMod
  <2>1. n + 1 \in Int /\ SeqMod - 1 \in Int
    BY <1>6, <1>7
  <2> QED
    BY <1>7, <2>1, ModAdd, Zenon
<1>9. (n % SeqMod) % SeqMod = (n + SeqMod) % SeqMod
  <2>1. n \in Int
    BY <1>6
  <2>2. Same(n % SeqMod, n + SeqMod, SeqMod)
    BY <1>7, <2>1, SameTurn, Zenon
  <2> QED
    BY <2>2, Zenon DEF Same
<1>10. seq = n % SeqMod
  <2>1. seq = (SeqMod + u - 1) % SeqMod
    BY <1>1, <1>4, <1>5, Zenon DEF Minus
  <2>2. u \in Int
    BY <1>6, <1>7
  <2>3. SeqMod + u - 1 = u + (SeqMod - 1) /\ (n + 1) + (SeqMod - 1) = n + SeqMod
    BY <1>6, <1>7, <2>2
  <2>4. (n % SeqMod) % SeqMod = n % SeqMod
    <3>1. n \in Int
      BY <1>6
    <3>2. Same(n % SeqMod, n, SeqMod)
      BY <1>7, <3>1, SameSelf, Zenon
    <3> QED
      BY <3>2, Zenon DEF Same
  <2> QED
    BY <1>6, <1>8, <1>9, <2>1, <2>3, <2>4, Zenon
<1>11. SeqPos(seq) = n
  <2>1. n + 1 - SeqMod < n /\ n <= n + 1 /\ n \in Int
    BY <1>6, <1>7, Sizes
  <2>2. SeqAt(n, n % SeqMod) = n
    BY <2>1, SeqAtIs, Zenon
  <2> QED
    BY <1>5, <1>10, <2>2, Zenon DEF SeqPos
<1> QED
  BY <1>2, <1>5, <1>11, Zenon DEF DataEnd

LEMMA WireMdl ==
    ASSUME TaiTypes, TxeTypes, NetTypes, FinLine, DataLine, Pointers, SentLine, WireLine,
           MdlTx \/ MdlRt \/ MdlFin, NetTypes', TxeTypes', Lasting, DataEnd <= DataEnd', DataEnd' \in Int
    PROVE  WireLine'
<1>1. /\ FragmentIs \/ (\E n \in 0..(BufSize - 1) : LastIs(n)) \/ RtFragmentIs \/ RtLastIs \/ FinFirst \/ Again
      /\ UNCHANGED <<app, wire, peer>>
  BY MdlDoes, Zenon DEF MdlRest
<1>2. /\ DataEnd \in Int /\ SeqPos(Sar.unak) \in Int /\ SeqPos(Sar.ackd) \in Int /\ app.next \in Nat
      /\ BufSize \in Nat \ {0} /\ A \in Int /\ U \in Int /\ 0 <= A /\ A <= U
  BY SarFacts, PointerFacts, Sizes, Zenon DEF Pointers
<1>3. CASE FragmentIs
  <2>1. DataEnd = SeqPos(Sar.unak) /\ DataEnd' = DataEnd + Mss /\ Mss \in Nat \ {0}
    BY <1>3, FragmentEndIs, Zenon DEF FragmentEnd
  <2>2. U <= SeqPos(Sar.unak) /\ Sent(Sar.unak, Mss, FALSE)
    BY <1>3, Zenon DEF FragmentIs, SentLine, MdlLine
  <2>3. 0 <= SeqPos(Sar.unak) /\ DataEnd < SeqPos(Sar.unak) + BufSize /\ SeqPos(Sar.unak) + Mss <= DataEnd'
    BY <1>2, <2>1, <2>2
  <2> QED
    BY <1>1, <1>2, <2>2, <2>3, WireSent, Zenon
<1>4. CASE \E n \in 0..(BufSize - 1) : LastIs(n)
  <2>1. PICK n \in 0..(BufSize - 1) : LastIs(n)
    BY <1>4
  <2>2. DataEnd = SeqPos(Sar.unak) /\ DataEnd' = DataEnd + n /\ n \in Nat
    <3>1. DataEnd = SeqPos(Sar.unak) /\ DataEnd' = DataEnd + n
      BY <2>1, LastAtIs, Zenon DEF LastAt
    <3>2. n \in Nat
      BY Sizes
    <3> QED
      BY <3>1, <3>2, Zenon
  <2>3. U <= SeqPos(Sar.unak)
    BY <2>1, Zenon DEF LastIs, SentLine, MdlLine
  <2>4. 0 <= SeqPos(Sar.unak) /\ DataEnd < SeqPos(Sar.unak) + BufSize /\ SeqPos(Sar.unak) + n <= DataEnd'
    BY <1>2, <2>2, <2>3
  <2>5. CASE n = 0
    BY <1>1, <2>1, <2>5, WireSame, Zenon DEF LastIs
  <2>6. CASE n # 0
    <3>1. Sent(Sar.unak, n, FALSE)
      BY <2>1, <2>6, Zenon DEF LastIs
    <3> QED
      BY <1>1, <1>2, <2>4, <3>1, WireSent, Zenon
  <2> QED
    BY <2>5, <2>6
<1>5. CASE RtFragmentIs \/ RtLastIs
  <2>1. Processing("RT")
    BY <1>5, Zenon DEF RtFragmentIs, RtLastIs
  <2>2. DataEnd' = DataEnd
    BY <1>5, SentRtFragment, SentRtLast, Zenon
  <2>3. ~peer.fin => /\ 0 <= SeqPos(Sar.ackd) /\ SeqPos(Sar.ackd) <= DataEnd /\ DataEnd < SeqPos(Sar.ackd) + BufSize
                     /\ InFlight = DataEnd - SeqPos(Sar.ackd)
    BY <2>1, InFlightIs, Zenon DEF SentLine, MdlLine
  <2>4. Mss \in Nat \ {0} /\ InFlight \in 0..(BufSize - 1)
    BY MdlNumbers, Sizes, Zenon
  <2>5. PICK f : f = InFlight
    OBVIOUS
  <2>6. CASE RtFragmentIs
    <3>1. Sent(Sar.ackd, Mss, FALSE) /\ f > Mss
      BY <2>5, <2>6, Zenon DEF RtFragmentIs
    <3>2. ~peer.fin => 0 <= SeqPos(Sar.ackd) /\ DataEnd < SeqPos(Sar.ackd) + BufSize /\ SeqPos(Sar.ackd) + Mss <= DataEnd'
      BY <1>2, <2>2, <2>3, <2>4, <2>5, <3>1
    <3> QED
      BY <1>1, <1>2, <3>1, <3>2, WireSent, Zenon
  <2>7. CASE RtLastIs
    <3>1. CASE InFlight = 0
      BY <1>1, <2>7, <3>1, WireSame, Zenon DEF RtLastIs
    <3>2. CASE InFlight # 0
      <4>1. Sent(Sar.ackd, f, FALSE)
        BY <2>5, <2>7, <3>2, Zenon DEF RtLastIs
      <4>2. ~peer.fin => 0 <= SeqPos(Sar.ackd) /\ DataEnd < SeqPos(Sar.ackd) + BufSize /\ SeqPos(Sar.ackd) + f <= DataEnd'
        BY <1>2, <2>2, <2>3, <2>4, <2>5
      <4> QED
        BY <1>1, <1>2, <4>1, <4>2, WireSent, Zenon
    <3> QED
      BY <3>1, <3>2
  <2> QED
    BY <1>5, <2>6, <2>7
<1>6. CASE FinFirst
  <2>1. FinGoes \/ FinStays
    BY <1>6, FinFirstIs, Zenon
  <2>2. CASE FinStays
    BY <1>1, <1>6, <2>2, WireSame, Zenon DEF FinFirst, FinStays
  <2>3. CASE FinGoes
    <3>1. tst'.finSent /\ U = app.next /\ MayCarryFin(Sar.unak) /\ SeqPos(Sar.unak) = app.next
      BY <2>3, Zenon DEF FinGoes
    <3>2. Sent(Sar.unak, 0, TRUE) /\ ~Processing("TX")
      BY <1>6, <3>1 DEF FinFirst, Processing
    <3>3. ~tst.finSent
      BY <1>6, FinFirstIs, Zenon
    <3>4. DataEnd = app.next
      BY <3>1, <3>2, <3>3, Zenon DEF DataEnd
    <3>5. DataEnd' = DataEnd
      BY <1>6, SentFin, Zenon
    <3>6. 0 <= app.next /\ DataEnd < app.next + BufSize /\ app.next + 0 <= DataEnd' /\ app.next \in Int
      BY <1>2, <3>4, <3>5
    <3>7. 0 = 0
      OBVIOUS
    <3> QED
      BY <1>1, <1>2, <3>1, <3>2, <3>6, <3>7, WireSent, Zenon
  <2> QED
    BY <2>1, <2>2, <2>3
<1>7. CASE Again
  <2>1. PICK seq \in 0..(SeqMod - 1) : FinAgain(seq)
    BY <1>7, Zenon DEF Again
  <2>2. SeqPos(seq) = app.next /\ tst.finSent /\ DataEnd = app.next
    BY <2>1, AgainAt, Zenon
  <2>3. DataEnd' = DataEnd
    BY <1>7, SentFin, Zenon
  <2>4. 0 <= app.next /\ DataEnd < app.next + BufSize /\ app.next + 0 <= DataEnd' /\ app.next \in Int
    BY <1>2, <2>2, <2>3
  <2>5. UNCHANGED tst /\ 0 = 0
    BY <2>1 DEF FinAgain
  <2>6. CASE MayCarryFin(seq)
    <3>1. Sent(seq, 0, TRUE) /\ tst'.finSent
      BY <2>1, <2>2, <2>5, <2>6, Zenon DEF FinAgain
    <3> QED
      BY <1>1, <1>2, <2>2, <2>4, <2>5, <3>1, WireSent, Zenon
  <2>7. CASE ~MayCarryFin(seq)
    BY <1>1, <2>1, <2>7, WireSame, Zenon DEF FinAgain
  <2> QED
    BY <2>6, <2>7
<1> QED
  BY <1>1, <1>3, <1>4, <1>5, <1>6, <1>7, Zenon

LEMMA WireLineStep ==
    ASSUME IInv, [Next]_vars, InTime
    PROVE  WireLine'
<1>0. Actions \/ UNCHANGED vars
  BY NextIs
<1>t. /\ TaiTypes /\ TxeTypes /\ NetTypes /\ FinLine /\ DataLine /\ SpaceLine /\ Pointers /\ AckLine /\ SentLine /\ WireLine
      /\ ReadLine
  BY DEF IInv, Types
<1>u. NetTypes' /\ TxeTypes'
  <2>1. Types'
    BY TypesStep, Zenon DEF IInv
  <2> QED
    BY <2>1, Zenon DEF Types
<1>v. DataEnd <= DataEnd' /\ DataEnd \in Int /\ DataEnd' \in Int
  BY SentLineStep
<1>w. ASSUME ~SmlAccept, tst.finSent => tst'.finSent, UNCHANGED peer PROVE Lasting
  <2>1. app'.next = app.next
    BY <1>0, <1>t, <1>w, AppStep, Zenon
  <2> QED
    BY <1>t, <1>v, <1>w, <2>1, LastingIf, Zenon
<1>1. CASE SmlAccept
  BY <1>1, <1>t, <1>u, WireSmlAccept, Zenon DEF InTime
<1>2. CASE \E w \in Windows : PeerTakes(w)
  <2>1. PICK w \in Windows : PeerTakes(w)
    BY <1>2
  <2>2. w \in Nat
    BY <2>1, LengthAssumption, Sizes DEF LengthAssumption
  <2> QED
    BY <1>t, <1>u, <2>1, <2>2, WirePeerTakes, Zenon
<1>3. CASE (MdlTx \/ MdlRt \/ MdlFin) /\ ~SmlAccept
  <2>1. /\ FragmentIs \/ (\E n \in 0..(BufSize - 1) : LastIs(n)) \/ RtFragmentIs \/ RtLastIs \/ FinFirst \/ Again
        /\ UNCHANGED peer
    BY <1>3, <1>t, MdlDoes, Zenon DEF MdlRest
  <2>2. tst.finSent => tst'.finSent
    <3>1. CASE FragmentIs \/ RtFragmentIs \/ RtLastIs \/ Again
      BY <3>1, Zenon DEF FragmentIs, RtFragmentIs, RtLastIs, Again, FinAgain
    <3>2. CASE \E n \in 0..(BufSize - 1) : LastIs(n)
      BY <3>2, Zenon DEF LastIs, SameButUnak
    <3>3. CASE FinFirst
      BY <3>3, <1>t, FinFirstIs, Zenon
    <3> QED
      BY <2>1, <3>1, <3>2, <3>3, Zenon
  <2> QED
    BY <1>3, <1>t, <1>u, <1>v, <1>w, <2>1, <2>2, WireMdl, Zenon
<1>4. CASE (TssHeader \/ TssSegment) /\ ~SmlAccept
  <2>1. UNCHANGED <<tst, peer>>
    BY <1>4, Zenon DEF TssHeader, TssSegment
  <2> QED
    BY <1>4, <1>t, <1>u, <1>w, <2>1, WireTss, Zenon
<1>5. CASE Lose /\ ~SmlAccept
  <2>1. UNCHANGED <<tst, peer, hdr>> /\ wire # <<>> /\ wire' = Tail(wire)
    BY <1>5, Zenon DEF Lose, txe
  <2> QED
    BY <1>t, <1>u, <1>5, <1>w, <2>1, WireLose, Zenon
<1>6. ASSUME ~SmlAccept, tst'.finSent = tst.finSent, UNCHANGED <<wire, hdr, peer>> PROVE WireLine'
  BY <1>6, <1>t, <1>u, <1>w, WireSame, Zenon
<1>7. CASE (AppRequest \/ AppClose \/ SmlRequest \/ TatAnswer \/ SmlRefuse \/ TatPush \/ Emx \/ TashIdle) /\ ~SmlAccept
  BY <1>6, <1>7, Zenon DEF AppRequest, AppClose, SmlRequest, TatAnswer, SmlRefuse, TatPush, Emx, TashIdle, txe, net
<1>8. CASE (MwrIdle \/ MwrSplit \/ MwrAligned \/ MwrFirst \/ MwrUncut \/ MwrSecond \/ MwrResidue) /\ ~SmlAccept
  BY <1>6, <1>8, Zenon DEF MwrIdle, MwrSplit, MwrAligned, MwrFirst, MwrUncut, MwrSecond, MwrResidue, txe, net
<1>9. CASE (MdlWait \/ MrdFirst \/ MrdSecond) /\ ~SmlAccept
  BY <1>6, <1>9, Zenon DEF MdlWait, MrdFirst, MrdSecond, net
<1>10. CASE (RxeLoad \/ TImExpire \/ UNCHANGED vars) /\ ~SmlAccept
  BY <1>6, <1>10, Zenon DEF RxeLoad, TImExpire, vars, txe, net
<1>11. CASE RxeTransition /\ ~SmlAccept
  <2>1. tst'.finSent = tst.finSent /\ UNCHANGED <<wire, hdr, peer>>
    BY <1>11, <1>t, TransitionIs, Zenon
  <2> QED
    BY <1>6, <1>11, <2>1, Zenon
<1>12. CASE (TashStatus1 \/ TashStatus2) /\ ~SmlAccept
  <2>1. UNCHANGED <<wire, hdr, peer>> /\ (tst' = tst \/ tst' = [tst EXCEPT !.app = Ptr(TxAppPtr)])
    BY <1>12, Zenon DEF TashStatus1, TashStatus2, Announce, net, txe
  <2>2. tst'.finSent = tst.finSent
    BY <1>t, <2>1 DEF TxeTypes, States
  <2> QED
    BY <1>6, <1>12, <2>1, <2>2, Zenon
<1> QED
  BY <1>0, <1>1, <1>2, <1>3, <1>4, <1>5, <1>7, <1>8, <1>9, <1>10, <1>11, <1>12, Zenon DEF Actions

----------------------------------------------------------------------------
(* The initial states *)

LEMMA InitTypes ==
    ASSUME NEW f \in Nat, NEW n \in 1..(BufSize - 1), NEW k \in Nat, InitFrom(f, n, k)
    PROVE  Types
<1>1. Ptr(f) \in 0..(BufSize - 1) /\ f % SeqMod \in 0..(SeqMod - 1) /\ 0 \in 0..(BufSize - 1) /\ 0 \in 0..(SeqMod - 1) /\ 0 \in 0..BufSize
      /\ EmxDepth \in Nat /\ EventDepth \in Nat
  BY Sizes DEF Ptr
<1>2. PICK w \in Windows : /\ tst = [NoSar EXCEPT !.ackd = f % SeqMod, !.unak = f % SeqMod, !.app = Ptr(f), !.win = w]
                           /\ peer = [rcv |-> f, fin |-> FALSE, edge |-> f + w]
  BY DEF InitFrom
<1>3. w \in Nat
  BY LengthAssumption, Sizes DEF LengthAssumption
<1>4. TaiTypes
  <2>1. app \in [len : 1..(BufSize - 1), req : Nat, sends : Nat, closed : BOOLEAN, next : Nat, due : Int] /\ app.req = 0
    BY DEF InitFrom
  <2>2. data = <<>> /\ push = <<>> /\ meta = <<>> /\ smlEv = <<>> /\ tacEv = <<>> /\ emxEv = <<>>
    BY DEF InitFrom
  <2>3. tat \in Tables
    BY <1>1 DEF InitFrom, Tables
  <2>4. sml \in [st : {"READ_REQUEST", "READ_META"}, len : Nat, est : BOOLEAN, rep : Tables] /\ sml.st # "READ_META"
    BY <1>1 DEF InitFrom, Tables
  <2>5. tash \in [st : {"IDLE", "RD_MEM_STATUS_1", "RD_MEM_STATUS_2"}, ev : Events]
    BY <1>1 DEF InitFrom, Events, Event
  <2> QED
    BY <1>1, <2>1, <2>2, <2>3, <2>4, <2>5 DEF TaiTypes
<1>5. WrTypes
  <2>1. mwr \in Mwrs /\ mwr.st = "IDLE"
    BY <1>1 DEF InitFrom, Mwrs
  <2>2. wrCmd = <<>> /\ sts = 0 /\ mem \in [0..(BufSize - 1) -> Nat]
    BY DEF InitFrom
  <2> QED
    BY <2>1, <2>2 DEF WrTypes, Mwrs, Forwarding
<1>6. TxeTypes
  <2>1. NoSar \in States
    BY NoSarType
  <2>2. tst \in States
    BY <1>1, <1>2, <1>3, <2>1 DEF States
  <2>3. mdl \in Mdls
    BY <2>1 DEF InitFrom, Mdls
  <2>4. evq = <<>> /\ hdr = <<>> /\ rdCmd = <<>> /\ rdData = <<>> /\ split = <<>>
    BY DEF InitFrom
  <2>5. mrd \in [addr : {0}, len : 0..(BufSize - 1)]
    BY <1>1 DEF InitFrom
  <2>6. timer \in Timers
    BY Sizes DEF InitFrom, Timers
  <2> QED
    BY <1>1, <2>2, <2>3, <2>4, <2>5, <2>6 DEF TxeTypes, Mdls, Timers
<1>7. NetTypes
  <2>1. wire = <<>> /\ acks = <<>> /\ losses = 0
    BY DEF InitFrom
  <2>2. rxe \in [st : {"LOAD", "TRANSITION"}, ack : 0..(SeqMod - 1), win : Nat, ackd : 0..(SeqMod - 1), unak : 0..(SeqMod - 1)]
    BY <1>1 DEF InitFrom
  <2>3. peer \in [rcv : Nat, fin : BOOLEAN, edge : Nat]
    BY <1>2, <1>3
  <2> QED
    BY <2>1, <2>2, <2>3, Sizes DEF NetTypes
<1> QED
  BY <1>4, <1>5, <1>6, <1>7 DEF Types

LEMMA InitRead ==
    ASSUME NEW f, NEW n, NEW k, InitFrom(f, n, k)
    PROVE  ReadLine
<1>1. hdr = <<>> /\ rdCmd = <<>> /\ rdData = <<>> /\ split = <<>> /\ mrd.len = 0
  BY DEF InitFrom
<1>2. PICK c : c = [i \in 0..0 |-> 0]
  OBVIOUS
<1>3. Numbered(c)
  BY <1>1, <1>2 DEF Numbered, Busy
<1> QED
  BY <1>1, <1>3 DEF ReadLine

LEMMA InitIInv ==
    ASSUME NEW f \in Nat, NEW n \in 1..(BufSize - 1), NEW k \in Nat, InitFrom(f, n, k)
    PROVE  IInv
<1>t. Types /\ ReadLine
  BY InitTypes, InitRead
<1>1. PICK w \in Windows : /\ tst = [NoSar EXCEPT !.ackd = f % SeqMod, !.unak = f % SeqMod, !.app = Ptr(f), !.win = w]
                           /\ peer = [rcv |-> f, fin |-> FALSE, edge |-> f + w]
  BY DEF InitFrom
<1>2. w \in Nat
  BY LengthAssumption, Sizes DEF LengthAssumption
<1>3. /\ app.next = f /\ app.len = n /\ data = <<>> /\ smlEv = <<>> /\ tacEv = <<>> /\ emxEv = <<>> /\ push = <<>>
      /\ sml.st = "READ_REQUEST" /\ tat.ackd = Ptr(f) /\ tat.mempt = Ptr(f) /\ tash.st = "IDLE"
      /\ evq = <<>> /\ hdr = <<>> /\ mdl.st = "WAIT_EVENT" /\ wire = <<>> /\ acks = <<>> /\ rxe.st = "LOAD"
  BY DEF InitFrom
<1>4. /\ tst.ackd = f % SeqMod /\ tst.unak = f % SeqMod /\ tst.app = f % BufSize /\ tst.win = w
      /\ ~tst.finReady /\ ~tst.finSent
      /\ peer.rcv = f /\ ~peer.fin /\ peer.edge = f + w
  BY <1>1 DEF NoSar, Ptr
<1>5. BufSize \in Nat \ {0} /\ SeqMod \in Nat \ {0} /\ SeqMod >= 2 * BufSize
  BY Sizes
<1>6. SeqAt(f, f % SeqMod) = f /\ BufAt(f, f % BufSize) = f
  <2>1. f \in Int /\ f + 1 - SeqMod < f /\ f <= f + 1 /\ f - BufSize < f /\ f <= f
    BY <1>5
  <2> QED
    BY <2>1, SeqAtIs, BufAtIs, Zenon
<1>7. A = f /\ U = f /\ P = f /\ BufPos(tat.ackd) = f
  BY <1>3, <1>4, <1>6, Zenon DEF A, U, P, SeqPos, BufPos, Ptr
<1>8. \A t : ~Processing(t)
  BY <1>3 DEF Processing
<1>9. DataEnd = f
  BY <1>4, <1>7, <1>8, Zenon DEF DataEnd
<1>10. FinLine
  <2>1. ~Closing
    BY <1>4, <1>8, Zenon DEF Closing, FinNow
  <2> QED
    BY <1>3, <1>4, <1>8, <2>1 DEF FinLine, FinAtTac, FinAtEmx, FinAtQueue, FinAtMdl, MdlCopies, DataEvents, FinNow
<1>11. DataLine
  <2>1. TashEnd = f
    BY <1>3, <1>7, Zenon DEF TashEnd
  <2>2. Chain(<<>>, f, f, n)
    BY ChainNone
  <2>3. Chain(emxEv, TashEnd, f, app.len) /\ Chain(smlEv, f, app.next, app.len)
    BY <1>3, <2>1, <2>2, Zenon
  <2> QED
    BY <1>3, <2>3, Zenon DEF DataLine, Ptr
<1>12. SpaceLine
  <2>1. 0 <= f /\ f <= f /\ Len(<<>>) = 0
    OBVIOUS
  <2>2. \A i \in 1..Len(push) : FALSE
    BY <1>3
  <2> QED
    BY <1>3, <1>7, <2>1, <2>2 DEF SpaceLine
<1>13. Pointers
  BY <1>3, <1>4, <1>5, <1>7 DEF Pointers
<1>14. AckLine
  <2>1. RcvLine
    BY <1>2, <1>3, <1>4, <1>7 DEF RcvLine
  <2>2. RxeLine
    BY <1>3 DEF RxeLine
  <2>3. AcksLine
    BY <1>3 DEF AcksLine
  <2> QED
    BY <2>1, <2>2, <2>3 DEF AckLine
<1>15. SentLine
  <2>1. MdlLine
    BY <1>8, Zenon DEF MdlLine
  <2>2. f <= f /\ f <= f + w
    BY <1>2
  <2> QED
    BY <1>4, <1>7, <1>9, <2>1, <2>2, Zenon DEF SentLine
<1>16. WireLine
  BY <1>3 DEF WireLine
<1> QED
  BY <1>t, <1>10, <1>11, <1>12, <1>13, <1>14, <1>15, <1>16 DEF IInv

LEMMA InitIs ==
    ASSUME Init
    PROVE  \E f \in Nat, n \in 1..(BufSize - 1), k \in Nat : InitFrom(f, n, k)
<1>1. PICK s \in Streams : InitFrom(s[1], s[2], s[3])
  BY DEF Init
<1>2. s \in Nat \X (1..(BufSize - 1)) \X Nat
  BY LengthAssumption DEF LengthAssumption
<1>3. s[1] \in Nat /\ s[2] \in 1..(BufSize - 1) /\ s[3] \in Nat
  BY <1>2
<1> QED
  BY <1>1, <1>3

----------------------------------------------------------------------------
(* What the invariant says of the segments on the wire *)

\* Each header is seen by the peer where it is.
LEMMA SeenAt ==
    ASSUME IInv, NEW k \in 1..Len(wire), HasHeader(k), NEW h, h = wire[k].hdr[1]
    PROVE  /\ h \in Headers /\ Sound(h)
           /\ ~peer.fin => Position(h.seq) = SeqPos(h.seq)
<1>t. /\ TaiTypes /\ TxeTypes /\ NetTypes /\ Pointers /\ AckLine /\ SentLine /\ WireLine
  BY DEF IInv, Types
<1>1. Sound(h)
  BY <1>t, Zenon DEF WireLine
<1>2. h \in Headers
  <2>1. wire[k] \in WireFrames
    BY <1>t, ElementOf, Zenon DEF NetTypes
  <2>2. PICK x \in Headers : wire[k].hdr = <<x>>
    BY <2>1 DEF WireFrames, HasHeader
  <2> QED
    BY <2>2
<1>3. SeqPos(h.seq) \in Int /\ SeqPos(h.seq) % SeqMod = h.seq /\ h.len \in Nat
  BY <1>t, <1>2, HeaderFacts, Zenon
<1>4. ASSUME ~peer.fin PROVE Position(h.seq) = SeqPos(h.seq)
  <2>1. PICK s : s = SeqPos(h.seq)
    OBVIOUS
  <2>2. 0 <= s /\ peer.rcv < s + BufSize /\ s + h.len <= DataEnd
    BY <1>1, <1>4, <2>1, Zenon DEF Sound
  <2>3. DataEnd \in Int /\ DataEnd <= P /\ P \in Int /\ P <= app.next /\ app.next - BufSize < A /\ A \in Int /\ A <= peer.rcv
        /\ app.next \in Nat
    BY <1>t, SarFacts, PointerFacts, Zenon DEF SentLine, Pointers, AckLine, RcvLine
  <2>4. peer.rcv \in Nat /\ BufSize \in Nat \ {0}
    BY <1>t, Sizes DEF NetTypes
  <2>5. s \in Nat /\ peer.rcv - BufSize < s /\ s <= peer.rcv + BufSize
    BY SMTT(40), <1>3, <2>1, <2>2, <2>3, <2>4
  <2>6. Position(s % SeqMod) = s
    BY <2>4, <2>5, PositionIs, Zenon
  <2> QED
    BY <1>3, <2>1, <2>6, Zenon
<1> QED
  BY <1>1, <1>2, <1>4

LEMMA IInvWindow ==
    ASSUME IInv
    PROVE  WithinWindow
<1> SUFFICES ASSUME ~peer.fin, NEW k \in DOMAIN wire, wire[k].hdr # <<>>
             PROVE  Position(wire[k].hdr[1].seq) + wire[k].hdr[1].len <= peer.edge
  BY Zenon DEF WithinWindow
<1>t. TaiTypes /\ TxeTypes /\ NetTypes /\ SentLine
  BY DEF IInv, Types
<1>1. k \in 1..Len(wire) /\ HasHeader(k)
  BY <1>t DEF NetTypes, HasHeader
<1>2. PICK h : h = wire[k].hdr[1]
  OBVIOUS
<1>3. h \in Headers /\ Sound(h) /\ Position(h.seq) = SeqPos(h.seq)
  BY <1>1, <1>2, SeenAt, Zenon
<1>4. SeqPos(h.seq) \in Int /\ h.len \in Nat /\ DataEnd \in Int /\ peer.edge \in Nat
  <2>1. peer.edge \in Nat
    BY <1>t DEF NetTypes
  <2> QED
    BY <1>t, <1>3, <2>1, HeaderFacts, SarFacts, Zenon
<1>5. SeqPos(h.seq) + h.len <= DataEnd /\ DataEnd <= peer.edge
  BY <1>t, <1>3, Zenon DEF Sound, SentLine
<1>6. SeqPos(h.seq) + h.len <= peer.edge
  BY <1>4, <1>5
<1> QED
  BY <1>2, <1>3, <1>6, Zenon

LEMMA IInvFin ==
    ASSUME IInv, ~Late
    PROVE  FinIsLast
<1>t. TaiTypes /\ TxeTypes /\ NetTypes /\ SentLine /\ AckLine /\ Pointers
  BY DEF IInv, Types
<1>1. peer.fin => peer.rcv = app.next + 1
  BY <1>t, Zenon DEF AckLine, RcvLine
<1>2. ASSUME NEW k \in DOMAIN wire, wire[k].hdr # <<>> /\ wire[k].hdr[1].fin
      PROVE  Position(wire[k].hdr[1].seq) = app.next
  <2>1. k \in 1..Len(wire) /\ HasHeader(k)
    BY <1>t, <1>2 DEF NetTypes, HasHeader
  <2>2. PICK h : h = wire[k].hdr[1]
    OBVIOUS
  <2>3. h \in Headers /\ Sound(h) /\ (~peer.fin => Position(h.seq) = SeqPos(h.seq))
    BY <2>1, <2>2, SeenAt, Zenon
  <2>4. SeqPos(h.seq) = app.next
    BY <1>2, <2>2, <2>3, Zenon DEF Sound
  <2>5. CASE peer.fin
    <3>1. h.seq = app.next % SeqMod
      BY <1>t, <2>3, <2>4, HeaderFacts, Zenon
    <3>2. app.next \in Nat /\ peer.rcv \in Nat /\ BufSize \in Nat \ {0} /\ app.len \in 1..(BufSize - 1)
      BY <1>t, Sizes DEF TaiTypes, NetTypes
    <3>3. peer.rcv - BufSize < app.next /\ app.next <= peer.rcv + BufSize
      BY <1>1, <2>5, <3>2
    <3>4. Position(app.next % SeqMod) = app.next
      BY <3>2, <3>3, PositionIs, Zenon
    <3> QED
      BY <2>2, <3>1, <3>4, Zenon
  <2> QED
    BY <2>2, <2>3, <2>4, <2>5, Zenon
<1> QED
  BY <1>1, <1>2, Zenon DEF FinIsLast

LEMMA IInvStep ==
    ASSUME IInv, FinBehindData, [Next]_vars, InTime
    PROVE  IInv'
<1>1. Types /\ ReadLine /\ FinLine /\ DataLine /\ SpaceLine /\ Pointers /\ AckLine /\ SentLine
  BY Zenon DEF IInv
<1> QED
  BY <1>1, TypesStep, ReadLineStep, FinLineStep, DataLineStep, SpaceLineStep, PointersStep, AckLineStep, SentLineStep, WireLineStep,
     Zenon DEF IInv

----------------------------------------------------------------------------
(* Data that is late stays late; as long as none is, the FIN stays behind *)

DueLine == app.due <= app.next

\* The fields of app that decide on Late.
LEMMA DueFields ==
    ASSUME TaiTypes, Actions \/ UNCHANGED vars
    PROVE  \/ AppClose /\ ~app.closed /\ app'.closed /\ app'.due = LeftSml /\ app'.next = app.next
           \/ SmlAccept /\ app'.closed = app.closed /\ app'.due = app.due /\ app'.next = app.next + app.len
           \/ ~SmlAccept /\ app'.closed = app.closed /\ app'.due = app.due /\ app'.next = app.next
<1> DEFINE Kept == app'.closed = app.closed /\ app'.due = app.due
<1>1. CASE AppClose
  <2>1. ~app.closed /\ app' = [app EXCEPT !.closed = TRUE, !.due = LeftSml]
    BY <1>1, Zenon DEF AppClose
  <2>2. app'.closed /\ app'.due = LeftSml /\ app'.next = app.next
    BY <2>1 DEF TaiTypes
  <2> QED
    BY <1>1, <2>1, <2>2, Zenon
<1>2. CASE SmlAccept
  <2>1. app' = [app EXCEPT !.req = 0, !.next = @ + sml.len]
    BY <1>2, Zenon DEF SmlAccept
  <2>2. Kept
    BY <2>1 DEF TaiTypes
  <2>3. app'.next = app.next + app.len
    BY <1>2, AppStep, Zenon
  <2> QED
    BY <1>2, <2>2, <2>3, Zenon DEF Kept
<1>3. ASSUME ~AppClose, ~SmlAccept PROVE Kept
  <2>1. ASSUME app' = [app EXCEPT !.req = app.len, !.sends = @ - 1] \/ app' = [app EXCEPT !.req = 0] \/ UNCHANGED app
        PROVE  Kept
    BY <2>1 DEF TaiTypes
  <2>2. CASE AppRequest \/ SmlRequest \/ TatAnswer \/ SmlRefuse \/ TatPush \/ Emx
    BY <2>1, <2>2, Zenon DEF AppRequest, SmlRequest, TatAnswer, SmlRefuse, TatPush, Emx
  <2>3. CASE \/ MwrIdle \/ MwrSplit \/ MwrAligned \/ MwrFirst \/ MwrUncut \/ MwrSecond \/ MwrResidue
             \/ TashIdle \/ TashStatus1 \/ TashStatus2
    BY <2>1, <2>3, Zenon DEF MwrIdle, MwrSplit, MwrAligned, MwrFirst, MwrUncut, MwrSecond, MwrResidue, TashIdle, TashStatus1,
       TashStatus2, tai
  <2>4. CASE MdlWait \/ MdlTx \/ MdlRt \/ MdlFin \/ MrdFirst \/ MrdSecond \/ TssHeader \/ TssSegment
    BY <2>1, <2>4, Zenon DEF MdlWait, MdlTx, MdlRt, MdlFin, MrdFirst, MrdSecond, TssHeader, TssSegment, tai
  <2>5. CASE RxeLoad \/ RxeTransition \/ TImExpire \/ (\E w \in Windows : PeerTakes(w)) \/ Lose \/ UNCHANGED vars
    BY <2>1, <2>5, Zenon DEF RxeLoad, RxeTransition, TImExpire, PeerTakes, Lose, vars, tai
  <2> QED
    BY <1>3, <2>2, <2>3, <2>4, <2>5, Zenon DEF Actions
<1>4. ~SmlAccept => app'.next = app.next
  BY AppStep, Zenon
<1> QED
  BY <1>1, <1>2, <1>3, <1>4, Zenon DEF Kept

\* Late data stays late, and data accepted after the close is late from then on.
LEMMA LateStays ==
    ASSUME TaiTypes, DueLine, [Next]_vars
    PROVE  DueLine' /\ (Late => Late') /\ (~Late' => InTime)
<1>0. Actions \/ UNCHANGED vars
  BY NextIs
<1>1. app.next \in Nat /\ app.due \in Int /\ app.len \in Nat \ {0} /\ app.due <= app.next
  BY Sizes DEF TaiTypes, DueLine
<1>2. CASE AppClose /\ ~app.closed /\ app'.closed /\ app'.due = LeftSml /\ app'.next = app.next
  <2>1. DueLine'
    BY <1>2, LeftSmlIs, Zenon DEF DueLine
  <2> QED
    BY <1>2, <2>1, Zenon DEF Late, InTime
<1>3. CASE SmlAccept /\ app'.closed = app.closed /\ app'.due = app.due /\ app'.next = app.next + app.len
  <2>1. app'.due <= app'.next /\ app'.due # app'.next
    BY <1>1, <1>3
  <2> QED
    BY <1>3, <2>1, Zenon DEF DueLine, Late, InTime
<1>4. CASE ~SmlAccept /\ app'.closed = app.closed /\ app'.due = app.due /\ app'.next = app.next
  BY <1>4, Zenon DEF DueLine, Late, InTime
<1> QED
  BY <1>0, <1>2, <1>3, <1>4, DueFields, Zenon

\* As long as no data is late, Emx, which takes the events of Tac first
\* (tx_app_interface.cpp:103), finds those of Sml gone when a FIN comes.
LEMMA FinBehindDataStep ==
    ASSUME TaiTypes, FinLine, FinBehindData, [Next]_vars, ~Late', InTime
    PROVE  FinBehindData'
<1>0. Actions \/ UNCHANGED vars
  BY NextIs
<1>1. CASE AppClose
  <2>1. app' = [app EXCEPT !.closed = TRUE, !.due = LeftSml] /\ UNCHANGED smlEv
    BY <1>1, Zenon DEF AppClose
  <2>2. app'.closed /\ app'.due = LeftSml /\ app'.next = app.next
    BY <2>1 DEF TaiTypes
  <2>3. LeftSml = app.next
    BY <2>2, Zenon DEF Late
  <2> QED
    BY <2>1, <2>3, LeftSmlIs, Zenon DEF FinBehindData
<1>2. CASE SmlAccept
  <2>1. tacEv = <<>> /\ UNCHANGED tacEv
    BY <1>2, Zenon DEF SmlAccept, InTime, FinLine, FinAtTac
  <2> QED
    BY <2>1, Zenon DEF FinBehindData
<1>3. CASE Emx
  BY <1>3, Zenon DEF Emx, FinBehindData
<1>4. ASSUME UNCHANGED <<tacEv, smlEv>> PROVE FinBehindData'
  BY <1>4, Zenon DEF FinBehindData
<1>5. CASE AppRequest \/ SmlRequest \/ TatAnswer \/ SmlRefuse \/ TatPush \/ TashIdle \/ TashStatus1 \/ TashStatus2
  BY <1>4, <1>5, Zenon DEF AppRequest, SmlRequest, TatAnswer, SmlRefuse, TatPush, TashIdle, TashStatus1, TashStatus2
<1>6. CASE MwrIdle \/ MwrSplit \/ MwrAligned \/ MwrFirst \/ MwrUncut \/ MwrSecond \/ MwrResidue
  BY <1>4, <1>6, Zenon DEF MwrIdle, MwrSplit, MwrAligned, MwrFirst, MwrUncut, MwrSecond, MwrResidue, tai
<1>7. CASE MdlWait \/ MdlTx \/ MdlRt \/ MdlFin \/ MrdFirst \/ MrdSecond \/ TssHeader \/ TssSegment
  BY <1>4, <1>7, Zenon DEF MdlWait, MdlTx, MdlRt, MdlFin, MrdFirst, MrdSecond, TssHeader, TssSegment, tai
<1>8. CASE RxeLoad \/ RxeTransition \/ TImExpire \/ (\E w \in Windows : PeerTakes(w)) \/ Lose \/ UNCHANGED vars
  BY <1>4, <1>8, Zenon DEF RxeLoad, RxeTransition, TImExpire, PeerTakes, Lose, vars, tai
<1> QED
  BY <1>0, <1>1, <1>2, <1>3, <1>5, <1>6, <1>7, <1>8, Zenon DEF Actions

\* What holds in every state.
Upheld == Types /\ ReadLine /\ DueLine /\ (Late \/ (IInv /\ FinBehindData))

LEMMA InitUpheld ==
    ASSUME Init
    PROVE  Upheld
<1>1. PICK f \in Nat, n \in 1..(BufSize - 1), k \in Nat : InitFrom(f, n, k)
  BY InitIs, Zenon
<1>2. Types /\ ReadLine /\ IInv
  BY <1>1, InitTypes, InitRead, InitIInv, Zenon
<1>3. app.due = app.next /\ app.next \in Nat /\ tacEv = <<>>
  BY <1>1 DEF InitFrom
<1>4. DueLine
  BY <1>3 DEF DueLine
<1> QED
  BY <1>2, <1>3, <1>4, Zenon DEF Upheld, FinBehindData

LEMMA UpheldStep ==
    ASSUME Upheld, [Next]_vars
    PROVE  Upheld'
<1>1. TaiTypes /\ Types /\ ReadLine /\ DueLine
  BY Zenon DEF Upheld, Types
<1>2. Types' /\ ReadLine'
  BY <1>1, TypesStep, ReadLineStep, Zenon
<1>3. DueLine' /\ (Late => Late') /\ (~Late' => InTime)
  BY <1>1, LateStays, Zenon
<1>4. ASSUME ~Late' PROVE IInv' /\ FinBehindData'
  <2>1. IInv /\ FinBehindData /\ InTime
    BY <1>3, <1>4, Zenon DEF Upheld
  <2>2. FinLine
    BY <2>1, Zenon DEF IInv
  <2> QED
    BY <1>1, <1>4, <2>1, <2>2, IInvStep, FinBehindDataStep, Zenon
<1> QED
  BY <1>2, <1>3, <1>4, Zenon DEF Upheld

----------------------------------------------------------------------------
(* Theorems *)

\* Whatever the application writes, the network loses and the timer does, the pointers
\* of TX_APP_TABLE and TX_SAR_TABLE stay inside the ring and the sequence space, the
\* streams inside their depths, and no chunk of the application or of the memory is
\* empty or longer than a bus word.
THEOREM TypeCorrect == Spec => []TypeOK
<1> DEFINE I == Types /\ ReadLine
<1>1. Init => I
  BY InitIs, InitTypes, InitRead, Zenon
<1>2. I /\ [Next]_vars => I'
  BY TypesStep, ReadLineStep, Zenon
<1>3. I => TypeOK
  BY TypesGiveTypeOK, Zenon
<1> QED
  BY <1>1, <1>2, <1>3, PTL DEF Spec

LEMMA UpheldHolds == Spec => []Upheld
<1>1. Init => Upheld
  BY InitUpheld
<1>2. Upheld /\ [Next]_vars => Upheld'
  BY UpheldStep
<1> QED
  BY <1>1, <1>2, PTL DEF Spec

\* As long as no data is late, the pointers of Sml, Tat, Tash, TSt, Mdl, Tss, RXe and the
\* peer, read as positions of the stream, stay in order, and the FIN behind the data
\* (tx_app_interface.cpp, tx_sar_table.cpp, pMetaDataLoader).
THEOREM IInvHolds == Spec => [](Late \/ (IInv /\ FinBehindData))
<1>1. Upheld => Late \/ (IInv /\ FinBehindData)
  BY Zenon DEF Upheld
<1> QED
  BY <1>1, UpheldHolds, PTL

\* No segment reaches beyond the window of the peer: Mdl computes the usable window from
\* a copy of the entry of TSt, and segments are sent again from a copy of what was sent
\* before (tx_engine.cpp, pMetaDataLoader), but both are never ahead of the entry.
THEOREM WindowKept == Spec => [](Late \/ WithinWindow)
<1>1. IInv => WithinWindow
  BY IInvWindow, Zenon
<1> QED
  BY <1>1, IInvHolds, PTL

\* Unless Sml accepts data on an answer of STt that is older than the close, or Emx takes
\* the close before data, the FIN has the number after the last byte the application was
\* allowed to send, also when it is sent again, and the peer closes only with all of
\* these bytes (tx_engine.cpp, the FIN handler of pMetaDataLoader).
THEOREM FinComesLast == Spec => [](Late \/ FinIsLast)
<1>1. IInv /\ ~Late => FinIsLast
  BY IInvFin, Zenon
<1> QED
  BY <1>1, IInvHolds, PTL
=============================================================================
