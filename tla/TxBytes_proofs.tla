--------------------------- MODULE TxBytes_proofs ---------------------------
(***************************************************************************)
(* The bytes in the ring are the right ones, from what the peer has        *)
(* acknowledged up to what has been announced, and so are those in the     *)
(* segments, for every size of the buffer, of chunks, segments and         *)
(* requests.                                                               *)
(*                                                                         *)
(* TxStream_proofs says where the pointers are.  Here the invariant        *)
(* (BytesLine) is about what is behind them: there is a position w up to   *)
(* which Mwr has written.  The chunks that wait are the stream from w on   *)
(* (Stock), the requests that wait begin where Mwr will be (MetaLine), and *)
(* the ring holds the stream up to w (RingLine).  The statuses of MEM name *)
(* no bytes: those Tash has not used stand for as many ends of a request   *)
(* or of the buffer before w (MarkLine), and that is why one, or two, of   *)
(* them are enough for Tash to announce a request.                         *)
(*                                                                         *)
(* Mwr mixes up the requests when it cuts their last chunk at the end of   *)
(* the buffer, so this is about streams in which it need not (EndsApart).  *)
(* It is followed until data is late, or until Mwr has written a chunk     *)
(* uncut because the stream of write commands is full (Uncut).             *)
(*                                                                         *)
(* What MEM has read waits for Tss apart from its header.  LoadLine says   *)
(* that it is the payload of the first header with one, WireData that Tss  *)
(* makes one segment of the two.  They are about all the peer may still    *)
(* wait for (Fits): only that is kept in the ring while the access waits.  *)
(* Tss cuts a segment in two after a first part of exactly one chunk, so   *)
(* this is about accesses without (LongFirstParts).                        *)
(***************************************************************************)
EXTENDS TxStream_proofs

----------------------------------------------------------------------------
(* Where a position is in its request *)

\* What is left, at x, of the request x is in, if requests of l bytes end at n.
Rem(n, l, x) == 1 + ((n - 1 - x) % l)

\* A remainder counted from 1 to l, as quotient and remainder.
LEMMA RemHas ==
    ASSUME NEW n \in Int, NEW l \in Nat \ {0}, NEW x \in Int
    PROVE  \E q \in Int, r \in 1..l : Rem(n, l, x) = r /\ n - x = l * q + r
<1>1. PICK a : a = n - 1 - x
  OBVIOUS
<1>2. a \in Int
  BY <1>1
<1>3. PICK q \in Int, s \in 0 .. l - 1 : a = l * q + s /\ a % l = s
  BY <1>2, QuotRem
<1>4. PICK r : r = s + 1
  OBVIOUS
<1>5. Rem(n, l, x) = r
  BY <1>1, <1>3, <1>4 DEF Rem
<1>6. r \in 1..l /\ n - x = l * q + r
  BY <1>1, <1>3, <1>4
<1> QED
  BY <1>5, <1>6

\* There is only one.
LEMMA RemIs ==
    ASSUME NEW n \in Int, NEW l \in Nat \ {0}, NEW x \in Int, NEW q \in Int, NEW r \in 1..l, n - x = l * q + r
    PROVE  Rem(n, l, x) = r
<1>1. PICK a, s : a = n - 1 - x /\ s = r - 1
  OBVIOUS
<1>2. a \in Int /\ s \in 0 .. l - 1 /\ a = l * q + s
  BY <1>1
<1>3. a % l = s
  BY <1>2, ModIs
<1> QED
  BY <1>1, <1>3 DEF Rem

LEMMA RemRange ==
    ASSUME NEW n \in Int, NEW l \in Nat \ {0}, NEW x \in Int
    PROVE  Rem(n, l, x) \in 1..l
  BY RemHas

\* A whole request more.
LEMMA RemTurn ==
    ASSUME NEW n \in Int, NEW l \in Nat \ {0}, NEW x \in Int
    PROVE  Rem(n + l, l, x) = Rem(n, l, x)
<1>1. PICK q \in Int, r \in 1..l : Rem(n, l, x) = r /\ n - x = l * q + r
  BY RemHas
<1>2. PICK k, m : k = q + 1 /\ m = n + l
  OBVIOUS
<1>3. k \in Int /\ m \in Int /\ m - x = l * k + r
  BY <1>1, <1>2
<1>4. Rem(m, l, x) = r
  BY <1>3, RemIs
<1> QED
  BY <1>1, <1>2, <1>4

\* Inside a request.
LEMMA RemOn ==
    ASSUME NEW n \in Int, NEW l \in Nat \ {0}, NEW x \in Int, NEW d \in Nat, d < Rem(n, l, x)
    PROVE  Rem(n, l, x + d) = Rem(n, l, x) - d
<1>1. PICK q \in Int, r \in 1..l : Rem(n, l, x) = r /\ n - x = l * q + r
  BY RemHas
<1>2. PICK y, s : y = x + d /\ s = r - d
  OBVIOUS
<1>3. y \in Int /\ s \in 1..l /\ n - y = l * q + s
  BY <1>1, <1>2
<1>4. Rem(n, l, y) = s
  BY <1>3, RemIs
<1> QED
  BY <1>1, <1>2, <1>4

\* After a request.
LEMMA RemEnd ==
    ASSUME NEW n \in Int, NEW l \in Nat \ {0}, NEW x \in Int
    PROVE  Rem(n, l, x + Rem(n, l, x)) = l
<1>1. PICK q \in Int, r \in 1..l : Rem(n, l, x) = r /\ n - x = l * q + r
  BY RemHas
<1>2. PICK y, k : y = x + r /\ k = q - 1
  OBVIOUS
<1>3. y \in Int /\ k \in Int /\ n - y = l * k + l /\ l \in 1..l
  BY <1>1, <1>2
<1>4. Rem(n, l, y) = l
  BY <1>3, RemIs
<1> QED
  BY <1>1, <1>2, <1>4

LEMMA RemSelf ==
    ASSUME NEW n \in Int, NEW l \in Nat \ {0}
    PROVE  Rem(n, l, n) = l
<1>1. -1 \in Int /\ l \in 1..l /\ n - n = l * (-1) + l
  OBVIOUS
<1> QED
  BY <1>1, RemIs

\* A request that began is written to its end.
LEMMA RemUpTo ==
    ASSUME NEW n \in Int, NEW l \in Nat \ {0}, NEW x \in Int, x < n
    PROVE  x + Rem(n, l, x) <= n
<1>1. PICK q \in Int, r \in 1..l : Rem(n, l, x) = r /\ n - x = l * q + r
  BY RemHas
<1>2. q >= 0
  <2>1. CASE q < 0
    <3>1. l * (q + 1) <= 0
      BY <2>1
    <3>2. l * q + l <= 0
      BY <3>1
    <3> QED
      BY <1>1, <3>2
  <2> QED
    BY <2>1
<1>3. l * q >= 0
  BY <1>2
<1> QED
  BY <1>1, <1>3

\* No other request begins inside a request.
LEMMA RemInside ==
    ASSUME NEW n \in Int, NEW l \in Nat \ {0}, NEW x \in Int, Rem(n, l, x) = l, NEW y \in Int, x < y,
           Rem(n, l, y) = l
    PROVE  x + l <= y
<1> SUFFICES ASSUME y < x + l
             PROVE  FALSE
  OBVIOUS
<1>1. PICK d : d = y - x
  OBVIOUS
<1>2. d \in Nat /\ d < l /\ d > 0 /\ x + d = y
  BY <1>1
<1>3. Rem(n, l, x + d) = l - d
  <2>1. d \in Nat /\ d < Rem(n, l, x)
    BY <1>2
  <2>2. Rem(n, l, x + d) = Rem(n, l, x) - d
    BY <2>1, RemOn
  <2> QED
    BY <2>2
<1> QED
  BY <1>2, <1>3

----------------------------------------------------------------------------
(* Cells of the ring *)

LEMMA CellOn ==
    ASSUME NEW x \in Int, NEW d \in Nat, (x % BufSize) + d < BufSize
    PROVE  (x + d) % BufSize = (x % BufSize) + d
  BY ModNear, Sizes

LEMMA CellEnd ==
    ASSUME NEW x \in Int, NEW d \in Int, (x % BufSize) + d = BufSize
    PROVE  (x + d) % BufSize = 0
<1>1. PICK q \in Int, r \in 0 .. BufSize - 1 : x = BufSize * q + r /\ x % BufSize = r
  BY QuotRem, Sizes
<1>2. PICK y, k : y = x + d /\ k = q + 1
  OBVIOUS
<1>3. y \in Int /\ k \in Int /\ y = BufSize * k + 0 /\ 0 \in 0 .. BufSize - 1
  BY <1>1, <1>2, Sizes
<1>4. y % BufSize = 0
  BY <1>3, ModIs, Sizes
<1> QED
  BY <1>2, <1>4

LEMMA CellsApart ==
    ASSUME NEW p \in Int, NEW q \in Int, p < q, q < p + BufSize
    PROVE  p % BufSize # q % BufSize
<1>1. q - p < BufSize /\ BufSize \in Nat \ {0}
  BY Sizes
<1> QED
  BY <1>1, ModDiffer

\* The next start of the buffer.
LEMMA CellNext ==
    ASSUME NEW p \in Int, NEW m \in Int, p < m, m % BufSize = 0
    PROVE  p - (p % BufSize) + BufSize <= m
<1> SUFFICES ASSUME m < p - (p % BufSize) + BufSize
             PROVE  FALSE
  BY Sizes
<1>1. PICK d : d = m - p
  OBVIOUS
<1>0. PICK r : r = p % BufSize
  OBVIOUS
<1>4. r \in 0 .. BufSize - 1
  BY <1>0, Sizes
<1>2. d \in Nat /\ d > 0 /\ r + d < BufSize /\ p + d = m
  BY <1>0, <1>1, <1>4, Sizes
<1>3. (p + d) % BufSize = r + d
  BY <1>0, <1>2, CellOn
<1> QED
  BY <1>2, <1>3, <1>4

----------------------------------------------------------------------------
(* The chunks that wait for Mwr *)

\* Chunk c is what the application wrote from position a up to b: a bus word, or what
\* is left of the request.
Piece(c, a, b, n, l) ==
    /\ b = a + Len(c.bytes)
    /\ Len(c.bytes) = IF Rem(n, l, a) <= Chunk THEN Rem(n, l, a) ELSE Chunk
    /\ c.last <=> Rem(n, l, a) <= Chunk
    /\ \A j \in 1..Len(c.bytes) : c.bytes[j] = a + j - 1
Stocked(s, x, y, n, l, f) ==
    /\ f \in [1..(Len(s) + 1) -> Int] /\ f[1] = x /\ f[Len(s) + 1] = y
    /\ \A i \in 1..Len(s) : Piece(s[i], f[i], f[i + 1], n, l)
\* The chunks s are the stream from x to y.
Stock(s, x, y, n, l) == \E f : Stocked(s, x, y, n, l, f)

LEMMA StockNone ==
    ASSUME NEW x \in Int, NEW n, NEW l
    PROVE  Stock(<<>>, x, x, n, l)
<1> DEFINE f == [i \in 1..1 |-> x]
<1>1. f \in [1..1 -> Int] /\ f[1] = x
  OBVIOUS
<1> HIDE DEF f
<1>2. Len(<<>>) = 0 /\ 0 + 1 = 1
  OBVIOUS
<1>3. \A i \in 1..0 : Piece(<<>>[i], f[i], f[i + 1], n, l)
  OBVIOUS
<1>4. Stocked(<<>>, x, x, n, l, f)
  BY <1>1, <1>2, <1>3, Zenon DEF Stocked
<1> QED
  BY <1>4 DEF Stock

LEMMA StockEmpty ==
    ASSUME NEW x, NEW y, NEW n, NEW l, Stock(<<>>, x, y, n, l)
    PROVE  x = y
<1>1. PICK f : Stocked(<<>>, x, y, n, l, f)
  BY DEF Stock
<1>2. Len(<<>>) + 1 = 1
  OBVIOUS
<1> QED
  BY <1>1, <1>2, Zenon DEF Stocked

LEMMA StockHead ==
    ASSUME NEW s \in Seq(ChunkSet(Nat)), s # <<>>, NEW x, NEW y, NEW n, NEW l, Stock(s, x, y, n, l)
    PROVE  \E z \in Int : Piece(Head(s), x, z, n, l) /\ Stock(Tail(s), z, y, n, l)
<1>1. PICK f : Stocked(s, x, y, n, l, f)
  BY DEF Stock
<1>2. PICK k, t, c : k = Len(s) /\ t = Tail(s) /\ c = Head(s)
  OBVIOUS
<1>3. /\ k \in Nat \ {0} /\ Len(t) = k - 1 /\ c = s[1]
      /\ \A i \in 1..(k - 1) : i + 1 \in 1..k /\ t[i] = s[i + 1]
  BY <1>2, HeadTail, Zenon
<1>4. /\ f \in [1..(k + 1) -> Int] /\ f[1] = x /\ f[k + 1] = y
      /\ \A i \in 1..k : Piece(s[i], f[i], f[i + 1], n, l)
  BY <1>1, <1>2, Zenon DEF Stocked
<1> DEFINE g == [i \in 1..k |-> f[i + 1]]
<1>5. g \in [1..k -> Int] /\ g[1] = f[1 + 1] /\ g[k] = y /\ \A i \in 1..k : g[i] = f[i + 1]
  BY <1>3, <1>4
<1>6. g[1] \in Int /\ 1 \in 1..k
  BY <1>3, <1>5
<1> HIDE DEF g
<1>7. Piece(c, x, g[1], n, l)
  BY <1>3, <1>4, <1>5, <1>6, Zenon
<1>8. Stocked(t, g[1], y, n, l, g)
  <2>1. ASSUME NEW i \in 1..(k - 1)
        PROVE  Piece(t[i], g[i], g[i + 1], n, l)
    <3>1. i \in 1..k /\ i + 1 \in 1..k /\ t[i] = s[i + 1]
      BY <1>3, <2>1
    <3>2. g[i] = f[i + 1] /\ g[i + 1] = f[i + 1 + 1]
      BY <1>5, <3>1
    <3> QED
      BY <1>4, <3>1, <3>2, Zenon
  <2>2. Len(t) + 1 = k
    BY <1>3
  <2> QED
    BY <1>3, <1>5, <2>1, <2>2, Zenon DEF Stocked
<1> QED
  BY <1>2, <1>6, <1>7, <1>8, Zenon DEF Stock

LEMMA PieceMore ==
    ASSUME NEW c, NEW a \in Int, NEW b, NEW n \in Int, NEW l \in Nat \ {0}, Piece(c, a, b, n, l)
    PROVE  Piece(c, a, b, n + l, l)
<1>1. Rem(n + l, l, a) = Rem(n, l, a)
  BY RemTurn
<1> QED
  BY <1>1, Zenon DEF Piece

\* The application writes a request more.
LEMMA StockMore ==
    ASSUME NEW s, Len(s) \in Nat, NEW x, NEW y, NEW n \in Int, NEW l \in Nat \ {0}, Stock(s, x, y, n, l)
    PROVE  Stock(s, x, y, n + l, l)
<1>1. PICK f : Stocked(s, x, y, n, l, f)
  BY DEF Stock
<1>2. f \in [1..(Len(s) + 1) -> Int] /\ f[1] = x /\ f[Len(s) + 1] = y
      /\ \A i \in 1..Len(s) : Piece(s[i], f[i], f[i + 1], n, l)
  BY <1>1, Zenon DEF Stocked
<1>3. ASSUME NEW i \in 1..Len(s)
      PROVE  Piece(s[i], f[i], f[i + 1], n + l, l)
  <2>1. f[i] \in Int
    BY <1>2, <1>3
  <2>2. Piece(s[i], f[i], f[i + 1], n, l)
    BY <1>2, <1>3, Zenon
  <2> QED
    BY <2>1, <2>2, PieceMore, Zenon
<1>4. Stocked(s, x, y, n + l, l, f)
  BY <1>2, <1>3, Zenon DEF Stocked
<1> QED
  BY <1>4 DEF Stock

LEMMA StockJoin ==
    ASSUME NEW s \in Seq(ChunkSet(Nat)), NEW t \in Seq(ChunkSet(Nat)), NEW x, NEW y, NEW z, NEW n, NEW l,
           Stock(s, x, y, n, l), Stock(t, y, z, n, l)
    PROVE  Stock(s \o t, x, z, n, l)
<1>1. PICK f : Stocked(s, x, y, n, l, f)
  BY DEF Stock
<1>2. PICK g : Stocked(t, y, z, n, l, g)
  BY DEF Stock
<1>3. PICK k, m, u : k = Len(s) /\ m = Len(t) /\ u = s \o t
  OBVIOUS
<1>4. /\ k \in Nat /\ m \in Nat /\ Len(u) = k + m
      /\ \A i \in 1..k : u[i] = s[i]
      /\ \A i \in 1..m : u[k + i] = t[i]
  BY <1>3
<1>5. /\ f \in [1..(k + 1) -> Int] /\ f[1] = x /\ f[k + 1] = y
      /\ \A i \in 1..k : Piece(s[i], f[i], f[i + 1], n, l)
  BY <1>1, <1>3, Zenon DEF Stocked
<1>6. /\ g \in [1..(m + 1) -> Int] /\ g[1] = y /\ g[m + 1] = z
      /\ \A i \in 1..m : Piece(t[i], g[i], g[i + 1], n, l)
  BY <1>2, <1>3, Zenon DEF Stocked
<1> DEFINE h == [i \in 1..(k + m + 1) |-> IF i <= k THEN f[i] ELSE g[i - k]]
<1>7. h \in [1..(k + m + 1) -> Int]
  BY <1>4, <1>5, <1>6
<1>8. \A i \in 1..(k + 1) : h[i] = f[i]
  BY SMTT(40), <1>4, <1>5, <1>6
<1>9. \A i \in 1..(m + 1) : h[k + i] = g[i]
  BY <1>4, <1>5, <1>6
<1> HIDE DEF h
<1>10. h[1] = x /\ h[k + m + 1] = z
  BY <1>4, <1>5, <1>6, <1>8, <1>9
<1>11. ASSUME NEW i \in 1..(k + m)
       PROVE  Piece(u[i], h[i], h[i + 1], n, l)
  <2>1. CASE i <= k
    <3>1. i \in 1..k /\ i \in 1..(k + 1) /\ i + 1 \in 1..(k + 1)
      BY <1>4, <2>1
    <3>2. u[i] = s[i] /\ h[i] = f[i] /\ h[i + 1] = f[i + 1]
      BY <1>4, <1>8, <3>1, Zenon
    <3> QED
      BY <1>5, <3>1, <3>2, Zenon
  <2>2. CASE i > k
    <3>1. PICK j : j = i - k
      OBVIOUS
    <3>2. j \in 1..m /\ j \in 1..(m + 1) /\ j + 1 \in 1..(m + 1) /\ i = k + j /\ i + 1 = k + (j + 1)
      BY <1>4, <2>2, <3>1
    <3>3. u[i] = t[j] /\ h[i] = g[j] /\ h[i + 1] = g[j + 1]
      BY <1>4, <1>9, <3>2, Zenon
    <3> QED
      BY <1>6, <3>2, <3>3, Zenon
  <2> QED
    BY <1>4, <2>1, <2>2
<1>12. Stocked(u, x, z, n, l, h)
  <2>1. Len(u) + 1 = k + m + 1
    BY <1>4
  <2> QED
    BY <1>4, <1>7, <1>10, <1>11, <2>1, Zenon DEF Stocked
<1> QED
  BY <1>3, <1>12 DEF Stock

\* What the application writes for a request.
LEMMA StockNew ==
    ASSUME NEW n \in Nat, NEW l \in Nat \ {0}
    PROVE  Stock(Chunks([i \in 1..l |-> n + i - 1], l), n, n + l, n + l, l)
<1> DEFINE v == [i \in 1..l |-> n + i - 1]
<1>1. v \in [1..l -> Nat]
  OBVIOUS
<1>2. \A i \in 1..l : v[i] = n + i - 1
  OBVIOUS
<1> HIDE DEF v
<1>3. PICK c, k : c = Chunks(v, l) /\ k = Count(l)
  OBVIOUS
<1>4. k \in Nat \ {0} /\ (k - 1) * Chunk < l /\ l <= k * Chunk
  BY <1>3, CountIs
<1>5. ChunksOf(c, v, l, Nat)
  BY <1>1, <1>3, ChunksAt
<1>6. /\ Len(c) = k
      /\ \A i \in 1..k :
          /\ (i - 1) * Chunk \in Nat /\ End(l, i) \in Nat
          /\ (i - 1) * Chunk < End(l, i) /\ End(l, i) <= l
          /\ End(l, i) - (i - 1) * Chunk <= Chunk
          /\ i # k => End(l, i) - (i - 1) * Chunk = Chunk
          /\ Len(c[i].bytes) = End(l, i) - (i - 1) * Chunk
          /\ c[i].last = (i = k)
          /\ \A j \in 1 .. End(l, i) - (i - 1) * Chunk : c[i].bytes[j] = v[(i - 1) * Chunk + j]
  BY <1>3, <1>5, Zenon DEF ChunksOf
<1> DEFINE f == [i \in 1..(k + 1) |-> IF i = k + 1 THEN n + l ELSE n + (i - 1) * Chunk]
<1>7. f \in [1..(k + 1) -> Int]
  BY <1>4, Sizes
<1>8. f[k + 1] = n + l /\ \A i \in 1..k : f[i] = n + (i - 1) * Chunk
  BY <1>4
<1> HIDE DEF f
<1>9. f[1] = n
  <2>1. 1 \in 1..k /\ (1 - 1) * Chunk = 0
    BY <1>4, Sizes
  <2>2. f[1] = n + (1 - 1) * Chunk
    BY <1>8, <2>1, Zenon
  <2> QED
    BY <2>1, <2>2
<1>10. ASSUME NEW i \in 1..k
       PROVE  Piece(c[i], f[i], f[i + 1], n + l, l)
  <2>1. PICK o, e, b : o = (i - 1) * Chunk /\ e = End(l, i) /\ b = Len(c[i].bytes)
    OBVIOUS
  <2>2. /\ o \in Nat /\ e \in Nat /\ o < e /\ e <= l /\ b = e - o /\ b <= Chunk
        /\ i # k => b = Chunk
        /\ c[i].last = (i = k)
        /\ \A j \in 1 .. e - o : c[i].bytes[j] = v[o + j]
    BY <1>6, <2>1, Zenon
  <2>3. i = k => e = l
    BY <1>3, <2>1 DEF End
  <2>4. i # k => o + Chunk < l
    <3>1. CASE i # k
      <4>1. i <= k - 1 /\ i \in Nat
        BY <1>4, <3>1
      <4>2. i * Chunk <= (k - 1) * Chunk
        BY <1>4, <4>1, Sizes
      <4>3. o + Chunk = i * Chunk
        BY <2>1, <4>1, Sizes
      <4> QED
        BY <1>4, <4>2, <4>3, Sizes
    <3> QED
      BY <3>1
  <2>5. Rem(n + l, l, n + o) = l - o
    <3>1. Rem(n + l, l, n) = l
      <4>1. Rem(n + l, l, n) = Rem(n, l, n) /\ Rem(n, l, n) = l
        BY RemTurn, RemSelf
      <4> QED
        BY <4>1
    <3>2. o < Rem(n + l, l, n) /\ n + l \in Int /\ n \in Int
      BY <2>2, <3>1
    <3>3. Rem(n + l, l, n + o) = Rem(n + l, l, n) - o
      BY <2>2, <3>2, RemOn
    <3> QED
      BY <3>1, <3>3
  <2>6. f[i] = n + o
    BY <1>8, <2>1
  <2>7. f[i + 1] = n + e
    <3>1. CASE i = k
      BY <1>8, <2>3, <3>1
    <3>2. CASE i # k
      <4>1. i + 1 \in 1..k /\ (i + 1) - 1 = i
        BY <1>4, <3>2
      <4>2. f[i + 1] = n + i * Chunk
        BY <1>8, <4>1
      <4>3. e = i * Chunk
        BY <1>3, <2>1, <3>2 DEF End
      <4> QED
        BY <4>2, <4>3
    <3> QED
      BY <3>1, <3>2
  <2>8. PICK r : r = Rem(n + l, l, f[i])
    OBVIOUS
  <2>9. r = l - o
    BY <2>5, <2>6, <2>8
  <2>10. r <= Chunk <=> i = k
    BY <1>4, <2>2, <2>3, <2>4, <2>9, Sizes
  <2>11. b = IF r <= Chunk THEN r ELSE Chunk
    BY <2>2, <2>3, <2>9, <2>10
  <2>12. f[i + 1] = f[i] + b
    BY <2>2, <2>6, <2>7
  <2>13. ASSUME NEW j \in 1..b
         PROVE  c[i].bytes[j] = f[i] + j - 1
    <3>1. j \in 1..(e - o) /\ o + j \in 1..l
      BY <2>2, <2>13
    <3>2. c[i].bytes[j] = v[o + j]
      BY <2>2, <3>1, Zenon
    <3>3. v[o + j] = n + (o + j) - 1
      BY <1>2, <3>1
    <3> QED
      BY <2>2, <2>6, <3>1, <3>2, <3>3
  <2>14. c[i].last <=> r <= Chunk
    BY <2>2, <2>10, Zenon
  <2> QED
    BY <2>1, <2>8, <2>11, <2>12, <2>13, <2>14, Zenon DEF Piece
<1>11. Stocked(c, n, n + l, n + l, l, f)
  BY <1>6, <1>7, <1>8, <1>9, <1>10, Zenon DEF Stocked
<1>12. Stock(c, n, n + l, n + l, l)
  BY <1>11 DEF Stock
<1> QED
  BY <1>3, <1>12, Zenon DEF v

----------------------------------------------------------------------------
(* The requests that wait for Mwr *)

Metas == [addr : 0..(BufSize - 1), len : 1..(BufSize - 1)]
AsEvents(s) == [i \in 1..Len(s) |-> Event("TX", s[i].addr, s[i].len)]

LEMMA AsEvent ==
    ASSUME NEW e \in Metas
    PROVE  /\ Event("TX", e.addr, e.len) \in Events
           /\ Event("TX", e.addr, e.len).type = "TX" /\ Event("TX", e.addr, e.len).length = e.len
           /\ Event("TX", e.addr, e.len).address = e.addr
<1>1. PICK a, n : a = e.addr /\ n = e.len
  OBVIOUS
<1>2. a \in 0..(BufSize - 1) /\ n \in 0..BufSize
  BY <1>1, Sizes DEF Metas
<1>3. PICK v : v = [type |-> "TX", address |-> a, length |-> n]
  OBVIOUS
<1>4. v \in Events /\ v.type = "TX" /\ v.length = n /\ v.address = a
  BY <1>2, <1>3 DEF Events
<1>5. Event("TX", e.addr, e.len) = v
  BY <1>1, <1>3, Zenon DEF Event
<1> QED
  BY <1>1, <1>4, <1>5, Zenon

LEMMA AsEventsAre ==
    ASSUME NEW s \in Seq(Metas)
    PROVE  AsEvents(s) \in Seq(Events) /\ Len(AsEvents(s)) = Len(s)
<1>1. PICK k : k = Len(s)
  OBVIOUS
<1>2. k \in Nat
  BY <1>1
<1>3. ASSUME NEW i \in 1..k
      PROVE  Event("TX", s[i].addr, s[i].len) \in Events
  <2>1. s[i] \in Metas
    BY <1>1, <1>3, ElementOf
  <2> QED
    BY <2>1, AsEvent, Zenon
<1>4. AsEvents(s) \in [1..k -> Events]
  <2>1. AsEvents(s) = [i \in 1..k |-> Event("TX", s[i].addr, s[i].len)]
    BY <1>1, Zenon DEF AsEvents
  <2> QED
    BY <1>3, <2>1, Zenon
<1>5. PICK t : t = AsEvents(s)
  OBVIOUS
<1>6. t \in Seq(Events) /\ Len(t) = k
  BY <1>2, <1>4, <1>5
<1> QED
  BY <1>1, <1>5, <1>6, Zenon

LEMMA SameSeq ==
    ASSUME NEW S, NEW s \in Seq(S), NEW t \in Seq(S), Len(s) = Len(t), \A i \in 1..Len(s) : s[i] = t[i]
    PROVE  s = t
<1>1. PICK k : k = Len(s)
  OBVIOUS
<1>2. s \in [1..k -> S] /\ t \in [1..k -> S]
  BY <1>1
<1>3. \A i \in 1..k : s[i] = t[i]
  BY <1>1
<1>4. s = [i \in 1..k |-> s[i]] /\ t = [i \in 1..k |-> t[i]]
  BY <1>2, Zenon
<1>5. [i \in 1..k |-> s[i]] = [i \in 1..k |-> t[i]]
  BY <1>3, Zenon
<1> QED
  BY <1>4, <1>5, Zenon

LEMMA AsEventsAppend ==
    ASSUME NEW s \in Seq(Metas), NEW e \in Metas
    PROVE  AsEvents(Append(s, e)) = Append(AsEvents(s), Event("TX", e.addr, e.len))
<1>1. PICK k, t, u, v : k = Len(s) /\ t = Append(s, e) /\ u = AsEvents(s) /\ v = Event("TX", e.addr, e.len)
  OBVIOUS
<1>2. k \in Nat /\ Len(t) = k + 1 /\ (\A i \in 1..k : t[i] = s[i]) /\ t[k + 1] = e
  BY <1>1, AppendIs, SMTT(40)
<1>3. u \in Seq(Events) /\ Len(u) = k /\ v \in Events
  BY <1>1, AsEventsAre, AsEvent, Zenon
<1>4. u = [i \in 1..k |-> Event("TX", s[i].addr, s[i].len)]
  BY <1>1, Zenon DEF AsEvents
<1>5. AsEvents(t) = [i \in 1..(k + 1) |-> Event("TX", t[i].addr, t[i].len)]
  BY <1>2, Zenon DEF AsEvents
<1>6. PICK x, y : x = Append(u, v) /\ y = AsEvents(t)
  OBVIOUS
<1>61. x \in Seq(Events) /\ Len(x) = k + 1 /\ (\A i \in 1..k : x[i] = u[i]) /\ x[k + 1] = v
  BY <1>3, <1>6, AppendIs, SMTT(40)
<1>62. t \in Seq(Metas)
  BY <1>1, AppendIs, Zenon
<1>63. y \in Seq(Events) /\ Len(y) = k + 1
  BY <1>2, <1>6, <1>62, AsEventsAre, Zenon
<1>7. \A i \in 1..(k + 1) : y[i] = x[i]
  <2> SUFFICES ASSUME NEW i \in 1..(k + 1)
               PROVE  y[i] = x[i]
    OBVIOUS
  <2>0. y[i] = Event("TX", t[i].addr, t[i].len)
    BY <1>5, <1>6, Zenon
  <2>1. CASE i = k + 1
    BY <1>1, <1>2, <1>61, <2>0, <2>1, Zenon
  <2>2. CASE i # k + 1
    <3>1. i \in 1..k
      BY <1>2, <2>2
    <3>2. t[i] = s[i] /\ u[i] = Event("TX", s[i].addr, s[i].len)
      BY <1>2, <1>4, <3>1, Zenon
    <3>3. x[i] = u[i]
      BY <1>61, <3>1, Zenon
    <3> QED
      BY <2>0, <3>2, <3>3, Zenon
  <2> QED
    BY <2>1, <2>2
<1>8. AsEvents(t) = Append(u, v)
  BY <1>6, <1>61, <1>63, <1>7, SameSeq, Zenon
<1> QED
  BY <1>1, <1>8, Zenon

LEMMA AsEventsTail ==
    ASSUME NEW s \in Seq(Metas), s # <<>>
    PROVE  /\ AsEvents(Tail(s)) = Tail(AsEvents(s)) /\ AsEvents(s) # <<>>
           /\ Head(AsEvents(s)) = Event("TX", Head(s).addr, Head(s).len)
           /\ Head(s) \in Metas /\ Tail(s) \in Seq(Metas)
<1>1. PICK k, t, u : k = Len(s) /\ t = Tail(s) /\ u = AsEvents(s)
  OBVIOUS
<1>2. /\ k \in Nat \ {0} /\ t \in Seq(Metas) /\ Len(t) = k - 1 /\ Head(s) = s[1] /\ Head(s) \in Metas
      /\ \A i \in 1..(k - 1) : i + 1 \in 1..k /\ t[i] = s[i + 1]
  BY <1>1, HeadTail, Zenon
<1>3. u \in Seq(Events) /\ Len(u) = k
  BY <1>1, AsEventsAre, Zenon
<1>4. u = [i \in 1..k |-> Event("TX", s[i].addr, s[i].len)]
  BY <1>1, Zenon DEF AsEvents
<1>5. u # <<>> /\ Head(u) = u[1] /\ 1 \in 1..k
  BY <1>2, <1>3
<1>6. PICK x, y : x = Tail(u) /\ y = AsEvents(t)
  OBVIOUS
<1>61. x \in Seq(Events) /\ Len(x) = k - 1 /\ \A i \in 1..(k - 1) : x[i] = u[i + 1]
  BY <1>3, <1>5, <1>6, HeadTail, Zenon
<1>63. y \in Seq(Events) /\ Len(y) = k - 1
  BY <1>2, <1>6, AsEventsAre, Zenon
<1>7. y = [i \in 1..(k - 1) |-> Event("TX", t[i].addr, t[i].len)]
  BY <1>2, <1>6, Zenon DEF AsEvents
<1>8. \A i \in 1..(k - 1) : y[i] = x[i]
  <2> SUFFICES ASSUME NEW i \in 1..(k - 1)
               PROVE  y[i] = x[i]
    OBVIOUS
  <2>1. i + 1 \in 1..k /\ t[i] = s[i + 1]
    BY <1>2
  <2>2. u[i + 1] = Event("TX", s[i + 1].addr, s[i + 1].len)
    BY <1>4, <2>1, Zenon
  <2> QED
    BY <1>61, <1>7, <2>1, <2>2, Zenon
<1>9. AsEvents(t) = Tail(u)
  BY <1>6, <1>61, <1>63, <1>8, SameSeq, Zenon
<1>10. Head(u) = Event("TX", s[1].addr, s[1].len)
  BY <1>4, <1>5, Zenon
<1> QED
  BY <1>1, <1>2, <1>5, <1>9, <1>10, Zenon

----------------------------------------------------------------------------
(* What MEM writes *)

\* The bytes b are the stream from w on, and go to their cells: with them the ring holds
\* all from x up to their end.
LEMMA RingWrites ==
    ASSUME mem \in [0..(BufSize - 1) -> Nat], NEW b \in Seq(Nat), NEW last, NEW cmds, WriteChunk(b, last, cmds),
           NEW w \in Int, Head(cmds).addr = w % BufSize, (w % BufSize) + Len(b) <= BufSize,
           \A j \in 1..Len(b) : b[j] = w + j - 1,
           NEW x \in Int, w + Len(b) <= x + BufSize,
           \A p \in Int : x <= p /\ p < w => mem[p % BufSize] = p
    PROVE  \A p \in Int : x <= p /\ p < w + Len(b) => mem'[p % BufSize] = p
<1>1. PICK a, n : a = w % BufSize /\ n = Len(b)
  OBVIOUS
<1>2. a \in 0..(BufSize - 1) /\ n \in Nat /\ a + n <= BufSize /\ w + n <= x + BufSize /\ BufSize \in Nat \ {0}
  BY <1>1, Sizes
<1>3. mem' = [c \in 0..(BufSize - 1) |-> IF c >= a /\ c < a + n THEN b[c - a + 1] ELSE mem[c]]
  BY <1>1, Zenon DEF WriteChunk
<1>4. ASSUME NEW d \in 0..(n - 1)
      PROVE  (w + d) % BufSize = a + d
  <2>1. d \in Nat /\ (w % BufSize) + d < BufSize
    BY <1>1, <1>2
  <2> QED
    BY <1>1, <2>1, CellOn
<1> SUFFICES ASSUME NEW p \in Int, x <= p, p < w + n
             PROVE  mem'[p % BufSize] = p
  BY <1>1
<1>5. PICK c : c = p % BufSize
  OBVIOUS
<1>6. c \in 0..(BufSize - 1)
  BY <1>2, <1>5
<1>7. mem'[c] = IF c >= a /\ c < a + n THEN b[c - a + 1] ELSE mem[c]
  BY <1>3, <1>6
<1>8. CASE p < w
  <2>1. ~(c >= a /\ c < a + n)
    <3> SUFFICES ASSUME c >= a, c < a + n
                 PROVE  FALSE
      OBVIOUS
    <3>1. PICK d : d = c - a
      OBVIOUS
    <3>2. d \in 0..(n - 1)
      BY <1>2, <1>6, <3>1
    <3>3. PICK q : q = w + d
      OBVIOUS
    <3>4. q % BufSize = c
      <4>1. (w + d) % BufSize = a + d
        BY <1>4, <3>2, Zenon
      <4>2. a + d = c
        BY <1>2, <1>6, <3>1
      <4> QED
        BY <3>3, <4>1, <4>2, Zenon
    <3>5. q \in Int /\ p < q /\ q < p + BufSize
      BY <1>2, <1>8, <3>2, <3>3
    <3> QED
      BY <1>5, <3>4, <3>5, CellsApart
  <2>2. mem[c] = p
    BY <1>5, <1>8
  <2> QED
    BY <1>5, <1>7, <2>1, <2>2
<1>9. CASE p >= w
  <2>1. PICK d : d = p - w
    OBVIOUS
  <2>2. d \in 0..(n - 1) /\ w + d = p
    BY <1>2, <1>9, <2>1
  <2>3. c = a + d
    BY <1>4, <1>5, <2>2
  <2>4. PICK j : j = d + 1
    OBVIOUS
  <2>5. j \in 1..Len(b) /\ c - a + 1 = j /\ w + j - 1 = p
    BY <1>1, <1>2, <1>6, <2>2, <2>3, <2>4
  <2>6. b[j] = p
    BY <2>5
  <2>7. c >= a /\ c < a + n
    BY <1>2, <2>2, <2>3
  <2> QED
    BY <1>5, <1>7, <2>5, <2>6, <2>7
<1> QED
  BY <1>8, <1>9

----------------------------------------------------------------------------
(* The statuses of MEM *)

\* A request ends at x, or the buffer.
Border(x, n, l) == Rem(n, l, x) = l \/ x % BufSize = 0
Marks(m, k, p, w, n, l) ==
    /\ m \in [1..k -> Int]
    /\ \A i \in 1..k, j \in 1..k : i < j => m[i] < m[j]
    /\ \A i \in 1..k : p < m[i] /\ m[i] <= w /\ Border(m[i], n, l)
\* There are k borders, or more, after p and up to w.
Marked(k, p, w, n, l) == \E m : Marks(m, k, p, w, n, l)

LEMMA MarkedNone ==
    ASSUME NEW p, NEW w, NEW n, NEW l
    PROVE  Marked(0, p, w, n, l)
<1> DEFINE m == [i \in 1..0 |-> 0]
<1>1. m \in [1..0 -> Int] /\ \A i \in 1..0 : FALSE
  OBVIOUS
<1> HIDE DEF m
<1>2. Marks(m, 0, p, w, n, l)
  BY <1>1, Zenon DEF Marks
<1> QED
  BY <1>2 DEF Marked

LEMMA MarkedKeep ==
    ASSUME NEW k, NEW p, NEW w \in Int, NEW v \in Int, w <= v, NEW n, NEW l, Marked(k, p, w, n, l)
    PROVE  Marked(k, p, v, n, l)
<1>1. PICK m : Marks(m, k, p, w, n, l)
  BY DEF Marked
<1>2. m \in [1..k -> Int]
      /\ (\A i \in 1..k, j \in 1..k : i < j => m[i] < m[j])
      /\ \A i \in 1..k : p < m[i] /\ m[i] <= w /\ Border(m[i], n, l)
  BY <1>1, Zenon DEF Marks
<1>3. \A i \in 1..k : m[i] <= v
  BY <1>2
<1>4. Marks(m, k, p, v, n, l)
  BY <1>2, <1>3, Zenon DEF Marks
<1> QED
  BY <1>4 DEF Marked

LEMMA MarkedTurn ==
    ASSUME NEW k, NEW p, NEW w, NEW n \in Int, NEW l \in Nat \ {0}, Marked(k, p, w, n, l)
    PROVE  Marked(k, p, w, n + l, l)
<1>1. PICK m : Marks(m, k, p, w, n, l)
  BY DEF Marked
<1>2. m \in [1..k -> Int]
      /\ (\A i \in 1..k, j \in 1..k : i < j => m[i] < m[j])
      /\ \A i \in 1..k : p < m[i] /\ m[i] <= w /\ Border(m[i], n, l)
  BY <1>1, Zenon DEF Marks
<1>3. ASSUME NEW i \in 1..k
      PROVE  Border(m[i], n + l, l)
  <2>1. m[i] \in Int /\ Border(m[i], n, l)
    BY <1>2, <1>3, Zenon
  <2>2. Rem(n + l, l, m[i]) = Rem(n, l, m[i])
    BY <2>1, RemTurn, Zenon
  <2> QED
    BY <2>1, <2>2, Zenon DEF Border
<1>4. Marks(m, k, p, w, n + l, l)
  BY <1>2, <1>3, Zenon DEF Marks
<1> QED
  BY <1>4 DEF Marked

\* MEM writes up to the border v: a status more.
LEMMA MarkedMore ==
    ASSUME NEW k \in Nat, NEW p \in Int, NEW w \in Int, NEW v \in Int, p <= w, w < v, NEW n, NEW l,
           Border(v, n, l), Marked(k, p, w, n, l)
    PROVE  Marked(k + 1, p, v, n, l)
<1>1. PICK m : Marks(m, k, p, w, n, l)
  BY DEF Marked
<1>2. m \in [1..k -> Int]
      /\ (\A i \in 1..k, j \in 1..k : i < j => m[i] < m[j])
      /\ \A i \in 1..k : p < m[i] /\ m[i] <= w /\ Border(m[i], n, l)
  BY <1>1, Zenon DEF Marks
<1> DEFINE g == [i \in 1..(k + 1) |-> IF i = k + 1 THEN v ELSE m[i]]
<1>3. g \in [1..(k + 1) -> Int] /\ g[k + 1] = v /\ \A i \in 1..k : g[i] = m[i]
  BY <1>2
<1> HIDE DEF g
<1>4. \A i \in 1..(k + 1), j \in 1..(k + 1) : i < j => g[i] < g[j]
  <2> SUFFICES ASSUME NEW i \in 1..(k + 1), NEW j \in 1..(k + 1), i < j
               PROVE  g[i] < g[j]
    OBVIOUS
  <2>1. i \in 1..k
    OBVIOUS
  <2>2. CASE j = k + 1
    BY <1>2, <1>3, <2>1, <2>2
  <2>3. CASE j # k + 1
    BY <1>2, <1>3, <2>1, <2>3
  <2> QED
    BY <2>2, <2>3
<1>5. ASSUME NEW i \in 1..(k + 1)
      PROVE  p < g[i] /\ g[i] <= v /\ Border(g[i], n, l)
  <2>1. CASE i = k + 1
    BY <1>3, <2>1
  <2>2. CASE i # k + 1
    <3>1. i \in 1..k
      BY <2>2
    <3>2. g[i] = m[i] /\ m[i] \in Int /\ p < m[i] /\ m[i] <= w /\ Border(m[i], n, l)
      BY <1>2, <1>3, <3>1, Zenon
    <3>3. m[i] <= v
      BY <3>2
    <3> QED
      BY <3>2, <3>3, Zenon
  <2> QED
    BY <2>1, <2>2
<1>6. Marks(g, k + 1, p, v, n, l)
  BY <1>3, <1>4, <1>5, Zenon DEF Marks
<1> QED
  BY <1>6 DEF Marked

\* The first d statuses are taken.
LEMMA MarkedLess ==
    ASSUME NEW m, NEW k \in Nat, NEW p, NEW w, NEW n, NEW l, Marks(m, k, p, w, n, l),
           NEW d \in Nat, d <= k, NEW q \in Int, \A i \in 1..k : i > d => q < m[i]
    PROVE  Marked(k - d, q, w, n, l)
<1>1. m \in [1..k -> Int]
      /\ (\A i \in 1..k, j \in 1..k : i < j => m[i] < m[j])
      /\ \A i \in 1..k : p < m[i] /\ m[i] <= w /\ Border(m[i], n, l)
  BY Zenon DEF Marks
<1> DEFINE g == [i \in 1..(k - d) |-> m[i + d]]
<1>2. g \in [1..(k - d) -> Int] /\ \A i \in 1..(k - d) : i + d \in 1..k /\ i + d > d /\ g[i] = m[i + d]
  BY <1>1
<1> HIDE DEF g
<1>3. \A i \in 1..(k - d), j \in 1..(k - d) : i < j => g[i] < g[j]
  <2> SUFFICES ASSUME NEW i \in 1..(k - d), NEW j \in 1..(k - d), i < j
               PROVE  g[i] < g[j]
    OBVIOUS
  <2>1. i + d < j + d
    OBVIOUS
  <2> QED
    BY <1>1, <1>2, <2>1, Zenon
<1>4. \A i \in 1..(k - d) : q < g[i] /\ g[i] <= w /\ Border(g[i], n, l)
  BY <1>1, <1>2, Zenon
<1>5. Marks(g, k - d, q, w, n, l)
  BY <1>2, <1>3, <1>4, Zenon DEF Marks
<1> QED
  BY <1>5 DEF Marked

\* A request that does not reach the end of the buffer is written with its first status,
\* for the next border is its end or a later one.
LEMMA FirstMark ==
    ASSUME NEW k \in Nat \ {0}, NEW p \in Int, NEW w \in Int, NEW n \in Int, NEW l \in 1..(BufSize - 1),
           Rem(n, l, p) = l, (p % BufSize) + l < BufSize, Marked(k, p, w, n, l)
    PROVE  p + l <= w /\ Marked(k - 1, p + l, w, n, l)
<1>1. PICK m : Marks(m, k, p, w, n, l)
  BY DEF Marked
<1>2. m \in [1..k -> Int]
      /\ (\A i \in 1..k, j \in 1..k : i < j => m[i] < m[j])
      /\ \A i \in 1..k : p < m[i] /\ m[i] <= w /\ Border(m[i], n, l)
  BY <1>1, Zenon DEF Marks
<1>3. PICK a : a = m[1]
  OBVIOUS
<1>4. 1 \in 1..k /\ l \in Nat \ {0} /\ BufSize \in Nat \ {0}
  BY Sizes
<1>5. a \in Int /\ p < a /\ a <= w /\ Border(a, n, l)
  BY <1>2, <1>3, <1>4, Zenon
<1>6. p + l <= a
  <2>1. CASE Rem(n, l, a) = l
    BY <1>4, <1>5, <2>1, RemInside, Zenon
  <2>2. CASE a % BufSize = 0
    <3>1. p - (p % BufSize) + BufSize <= a
      BY <1>5, <2>2, CellNext, Zenon
    <3>2. PICK r : r = p % BufSize
      OBVIOUS
    <3>3. r \in Int /\ r + l < BufSize /\ p - r + BufSize <= a
      BY <1>4, <3>1, <3>2
    <3> QED
      BY <1>4, <1>5, <3>3
  <2> QED
    BY <1>5, <2>1, <2>2, Zenon DEF Border
<1>7. PICK q : q = p + l
  OBVIOUS
<1>8. q \in Int /\ q <= a /\ q <= w
  BY <1>4, <1>5, <1>6, <1>7
<1>9. \A i \in 1..k : i > 1 => q < m[i]
  <2> SUFFICES ASSUME NEW i \in 1..k, i > 1
               PROVE  q < m[i]
    OBVIOUS
  <2>1. a < m[i] /\ m[i] \in Int
    BY <1>2, <1>3, <1>4
  <2> QED
    BY <1>5, <1>8, <2>1
<1>10. Marked(k - 1, q, w, n, l)
  <2>1. k \in Nat /\ 1 \in Nat /\ 1 <= k
    OBVIOUS
  <2> QED
    BY <1>1, <1>8, <1>9, <2>1, MarkedLess, Zenon
<1> QED
  BY <1>7, <1>8, <1>10, Zenon

\* Any request is written with its second status: of two borders one is not inside.
LEMMA SecondMark ==
    ASSUME NEW k \in Nat, k >= 2, NEW p \in Int, NEW w \in Int, NEW n \in Int, NEW l \in 1..(BufSize - 1),
           Rem(n, l, p) = l, Marked(k, p, w, n, l)
    PROVE  p + l <= w /\ Marked(k - 2, p + l, w, n, l)
<1>1. PICK m : Marks(m, k, p, w, n, l)
  BY DEF Marked
<1>2. m \in [1..k -> Int]
      /\ (\A i \in 1..k, j \in 1..k : i < j => m[i] < m[j])
      /\ \A i \in 1..k : p < m[i] /\ m[i] <= w /\ Border(m[i], n, l)
  BY <1>1, Zenon DEF Marks
<1>3. PICK a, b : a = m[1] /\ b = m[2]
  OBVIOUS
<1>4. 1 \in 1..k /\ 2 \in 1..k /\ 1 < 2 /\ l \in Nat \ {0} /\ BufSize \in Nat \ {0}
  BY Sizes
<1>5. /\ a \in Int /\ p < a /\ a <= w /\ Border(a, n, l)
      /\ b \in Int /\ p < b /\ b <= w /\ Border(b, n, l) /\ a < b
  BY <1>2, <1>3, <1>4, Zenon
<1>6. p + l <= b
  <2>1. CASE Rem(n, l, b) = l
    BY <1>4, <1>5, <2>1, RemInside, Zenon
  <2>2. CASE Rem(n, l, a) = l
    <3>1. p + l <= a
      BY <1>4, <1>5, <2>2, RemInside, Zenon
    <3> QED
      BY <1>4, <1>5, <3>1
  <2>3. CASE a % BufSize = 0 /\ b % BufSize = 0
    <3>1. ~(b < a + BufSize)
      BY <1>5, <2>3, CellsApart, Zenon
    <3> QED
      BY <1>4, <1>5, <3>1
  <2> QED
    BY <1>5, <2>1, <2>2, <2>3, Zenon DEF Border
<1>7. PICK q : q = p + l
  OBVIOUS
<1>8. q \in Int /\ q <= b /\ q <= w
  BY <1>4, <1>5, <1>6, <1>7
<1>9. \A i \in 1..k : i > 2 => q < m[i]
  <2> SUFFICES ASSUME NEW i \in 1..k, i > 2
               PROVE  q < m[i]
    OBVIOUS
  <2>1. b < m[i] /\ m[i] \in Int
    BY <1>2, <1>3, <1>4
  <2> QED
    BY <1>5, <1>8, <2>1
<1>10. Marked(k - 2, q, w, n, l)
  <2>1. k \in Nat /\ 2 \in Nat /\ 2 <= k
    OBVIOUS
  <2> QED
    BY <1>1, <1>8, <1>9, <2>1, MarkedLess, Zenon
<1> QED
  BY <1>7, <1>8, <1>10, Zenon

----------------------------------------------------------------------------
(* What Mwr has written, up to w *)

Left(x) == Rem(app.next, app.len, x)
\* The length of the last chunk of l bytes.
LastPart(l) == Rem(l, Chunk, 0)
Holding == mwr.st \in {"FWD_2ND_BUF", "RESIDUE"}
Held == IF Holding THEN Len(mwr.cur) ELSE 0
\* Where the requests begin that are still to come to Mwr.
Rest(w) == IF mwr.st = "IDLE" THEN w ELSE w + Left(w)
\* The statuses that Tash has not used.
Statuses == sts + (IF tash.st = "RD_MEM_STATUS_2" THEN 1 ELSE 0)

AtRest(w) == mwr.st = "IDLE" => Left(w) = app.len
AtSplit(w) == mwr.st = "SPLIT_1ST_CMD" => Left(w) = app.len /\ mwr.addr = w % BufSize /\ (w % BufSize) + app.len > BufSize
AtCommand(w) == Forwarding => wrCmd[1].addr = w % BufSize
AtFirst(w) ==
    mwr.st = "FWD_1ST_BUF" =>
        /\ mwr.nr = BufSize - (w % BufSize) /\ mwr.nr < Left(w)
        /\ LastPart(Left(w)) = LastPart(app.len)
AtSecond(w) == mwr.st \in {"FWD_ALIGNED", "FWD_2ND_BUF", "RESIDUE"} => (w % BufSize) + Left(w) <= BufSize
AtBorder(w) ==
    /\ Holding => \A j \in 1..Len(mwr.cur) : mwr.cur[j] = w + j - 1
    /\ mwr.st = "FWD_2ND_BUF" => mwr.nr \in 1..(Chunk - 1) /\ Len(mwr.cur) = Chunk - mwr.nr /\ Len(mwr.cur) < Left(w)
    /\ mwr.st = "RESIDUE" => Len(mwr.cur) = Left(w)
MwrLine(w) == AtRest(w) /\ AtSplit(w) /\ AtCommand(w) /\ AtFirst(w) /\ AtSecond(w) /\ AtBorder(w)

StockLine(w) == Stock(data, w + Held, app.next, app.next, app.len)
MetaLine(w) == Chain(AsEvents(meta), Rest(w), app.next, app.len)
RingLine(w) == \A p \in Int : A <= p /\ p < w => mem[p % BufSize] = p
MarkLine(w) == P <= w /\ Left(P) = app.len /\ Marked(Statuses, P, w, app.next, app.len)

WrittenTo(w) ==
    /\ w \in Int /\ w <= app.next /\ (mwr.st # "IDLE" => w < app.next)
    /\ MwrLine(w) /\ StockLine(w) /\ MetaLine(w) /\ RingLine(w) /\ MarkLine(w)
BytesLine == \E w : WrittenTo(w)

\* An action that leaves what Mwr writes alone.
LEMMA BytesKeep ==
    ASSUME TaiTypes, TxeTypes, NEW w, WrittenTo(w), app'.next = app.next, app'.len = app.len,
           UNCHANGED <<data, meta, mwr, wrCmd, mem>>, A <= A', A' \in Int, MarkLine(w)'
    PROVE  WrittenTo(w)'
<1>1. /\ w \in Int /\ w <= app.next /\ (mwr.st # "IDLE" => w < app.next)
      /\ MwrLine(w) /\ StockLine(w) /\ MetaLine(w) /\ RingLine(w) /\ MarkLine(w)
  BY Zenon DEF WrittenTo
<1>2. /\ Left(w)' = Left(w) /\ (Holding <=> Holding') /\ (Forwarding <=> Forwarding')
      /\ Held' = Held /\ Rest(w)' = Rest(w)
  BY Zenon DEF Left, Holding, Forwarding, Held, Rest
<1>3. MwrLine(w)'
  BY <1>1, <1>2, Zenon DEF MwrLine, AtRest, AtSplit, AtCommand, AtFirst, AtSecond, AtBorder
<1>4. StockLine(w)'
  BY <1>1, <1>2, Zenon DEF StockLine
<1>5. MetaLine(w)'
  BY <1>1, <1>2, Zenon DEF MetaLine
<1>6. RingLine(w)'
  <2>1. A \in Int
    BY PointerFacts, Zenon
  <2>2. PICK a, b : a = A /\ b = A'
    OBVIOUS
  <2>3. a \in Int /\ b \in Int /\ a <= b
    BY <2>1, <2>2, Zenon
  <2>4. \A p \in Int : b <= p => a <= p
    BY <2>3
  <2>5. \A p \in Int : a <= p /\ p < w => mem[p % BufSize] = p
    BY <1>1, <2>2, Zenon DEF RingLine
  <2>6. \A p \in Int : b <= p /\ p < w => mem'[p % BufSize] = p
    BY <2>4, <2>5, Zenon
  <2> QED
    BY <2>2, <2>6, Zenon DEF RingLine
<1> QED
  BY <1>1, <1>3, <1>4, <1>5, <1>6, Zenon DEF WrittenTo

\* The statuses stay as many.
LEMMA MarkKeep ==
    ASSUME NEW w, MarkLine(w), app'.next = app.next, app'.len = app.len, P' = P, Statuses' = Statuses
    PROVE  MarkLine(w)'
<1>1. P <= w /\ Left(P) = app.len /\ Marked(Statuses, P, w, app.next, app.len)
  BY Zenon DEF MarkLine
<1>2. Left(P)' = Left(P)
  BY Zenon DEF Left
<1> QED
  BY <1>1, <1>2, Zenon DEF MarkLine

\* A request is accepted: what has been written stays what it was.
LEMMA BytesSmlAccept ==
    ASSUME TaiTypes, TxeTypes, FinLine, SpaceLine, Pointers, NEW w, WrittenTo(w), SmlAccept, ~app.closed
    PROVE  WrittenTo(w)'
<1>1. PICK a, n, m : Room(a, n, m)
  BY RoomIs, Zenon
<1>2. /\ n = app.next /\ m = n + app.len /\ app'.next = m /\ app'.len = app.len /\ n \in Nat /\ m \in Nat
      /\ sml.rep.mempt = n % BufSize /\ sml.len = app.len
  BY <1>1, Zenon DEF Room
<1>3. /\ meta' = Append(meta, [addr |-> sml.rep.mempt, len |-> sml.len])
      /\ data' = data \o Chunks([i \in 1..sml.len |-> app.next + i - 1], sml.len)
      /\ UNCHANGED <<tash, mwr, wrCmd, sts, mem, tst>>
  BY Zenon DEF SmlAccept, wr
<1>4. A' = A /\ P' = P
  BY <1>1, <1>3, EntryStays, Zenon
<1>5. PICK l : l = app.len
  OBVIOUS
<1>6. l \in 1..(BufSize - 1) /\ l \in Nat \ {0} /\ n \in Int /\ m = n + l /\ n <= m
  BY <1>2, <1>5 DEF TaiTypes
<1>7. /\ w \in Int /\ w <= app.next /\ (mwr.st # "IDLE" => w < app.next)
      /\ MwrLine(w) /\ StockLine(w) /\ MetaLine(w) /\ RingLine(w) /\ MarkLine(w)
  BY Zenon DEF WrittenTo
<1>8. P \in Int
  BY PointerFacts, Zenon
<1>9. Left(w)' = Left(w) /\ Left(P)' = Left(P)
  <2>1. Rem(m, l, w) = Rem(n, l, w) /\ Rem(m, l, P) = Rem(n, l, P)
    BY <1>6, <1>7, <1>8, RemTurn, Zenon
  <2> QED
    BY <1>2, <1>4, <1>5, <2>1, Zenon DEF Left
<1>10. /\ (Holding <=> Holding') /\ (Forwarding <=> Forwarding')
       /\ Held' = Held /\ Rest(w)' = Rest(w) /\ Statuses' = Statuses
  BY <1>3, <1>9, Zenon DEF Holding, Forwarding, Held, Rest, Statuses
<1>11. MwrLine(w)'
  BY <1>2, <1>3, <1>7, <1>9, <1>10, Zenon DEF MwrLine, AtRest, AtSplit, AtCommand, AtFirst, AtSecond, AtBorder
<1>12. StockLine(w)'
  <2>1. PICK v, t, x : v = [i \in 1..l |-> n + i - 1] /\ t = Chunks(v, l) /\ x = w + Held
    OBVIOUS
  <2>2. Stock(t, n, m, m, l)
    BY <1>2, <1>6, <2>1, StockNew, Zenon
  <2>3. data \in Seq(ChunkSet(Nat))
    BY DEF TaiTypes
  <2>4. Len(data) \in Nat
    BY <2>3
  <2>5. Stock(data, x, n, n, l)
    BY <1>2, <1>5, <1>7, <2>1, Zenon DEF StockLine
  <2>6. Stock(data, x, n, m, l)
    BY <1>6, <2>4, <2>5, StockMore, Zenon
  <2>7. t \in Seq(ChunkSet(Nat))
    <3>1. v \in [1..l -> Nat]
      BY <1>2, <1>6, <2>1
    <3>2. ChunksOf(t, v, l, Nat)
      BY <1>6, <2>1, <3>1, ChunksAt, Zenon
    <3> QED
      BY <3>2, Zenon DEF ChunksOf, ChunkSet
  <2>8. Stock(data \o t, x, m, m, l)
    BY <2>2, <2>3, <2>6, <2>7, StockJoin, Zenon
  <2>9. data' = data \o t
    BY <1>2, <1>3, <1>5, <2>1, Zenon
  <2> QED
    BY <1>2, <1>5, <1>10, <2>1, <2>8, <2>9, Zenon DEF StockLine
<1>13. MetaLine(w)'
  <2>1. PICK e, x : e = [addr |-> n % BufSize, len |-> l] /\ x = Rest(w)
    OBVIOUS
  <2>2. e \in Metas /\ e.addr = n % BufSize /\ e.len = l
    <3>1. n % BufSize \in 0..(BufSize - 1)
      BY <1>6, Sizes
    <3> QED
      BY <1>6, <2>1, <3>1 DEF Metas
  <2>3. meta \in Seq(Metas) /\ meta' = Append(meta, e)
    BY <1>2, <1>3, <1>5, <2>1, Zenon DEF TaiTypes, Metas
  <2>4. PICK s, v : s = AsEvents(meta) /\ v = Event("TX", e.addr, e.len)
    OBVIOUS
  <2>5. AsEvents(meta') = Append(s, v) /\ s \in Seq(Events)
    BY <2>2, <2>3, <2>4, AsEventsAppend, AsEventsAre, Zenon
  <2>6. v \in Events /\ v.type = "TX" /\ v.length = l /\ v.address = n % BufSize
    BY <2>2, <2>4, AsEvent, Zenon
  <2>7. Chain(s, x, n, l)
    BY <1>2, <1>5, <1>7, <2>1, <2>4, Zenon DEF MetaLine
  <2>8. l \in Nat
    BY <1>6
  <2>9. Chain(Append(s, v), x, n + v.length, l)
    BY <2>5, <2>6, <2>7, <2>8, ChainAppend, Zenon
  <2> QED
    BY <1>2, <1>5, <1>6, <1>10, <2>1, <2>5, <2>6, <2>9, Zenon DEF MetaLine
<1>14. RingLine(w)'
  BY <1>3, <1>4, <1>7, Zenon DEF RingLine
<1>15. MarkLine(w)'
  <2>1. Marked(Statuses, P, w, m, l)
    <3>1. Marked(Statuses, P, w, n, l)
      BY <1>2, <1>5, <1>7, Zenon DEF MarkLine
    <3> QED
      BY <1>6, <3>1, MarkedTurn, Zenon
  <2> QED
    BY <1>2, <1>4, <1>5, <1>7, <1>9, <1>10, <2>1, Zenon DEF MarkLine
<1>16. w <= m /\ (mwr.st # "IDLE" => w < m)
  BY <1>2, <1>6, <1>7
<1> QED
  BY <1>2, <1>3, <1>7, <1>11, <1>12, <1>13, <1>14, <1>15, <1>16, Zenon DEF WrittenTo

----------------------------------------------------------------------------
(* Tash takes the statuses *)

LEMMA StatusIs ==
    ASSUME TaiTypes, WrTypes, TxeTypes, DataLine, TashStatus1 \/ TashStatus2
    PROVE  /\ sts \in Nat \ {0} /\ sts' = sts - 1 /\ UNCHANGED <<app, data, meta, mwr, wrCmd, mem>>
           /\ TashStatus1 => Statuses = sts
           /\ TashStatus2 => Statuses = sts + 1
           /\ tash.ev.address = P % BufSize /\ tash.ev.length = app.len
<1>1. /\ sts > 0 /\ sts' = sts - 1 /\ UNCHANGED <<app, data, meta, mwr, wrCmd, mem>>
      /\ TashStatus1 => tash.st = "RD_MEM_STATUS_1"
      /\ TashStatus2 => tash.st = "RD_MEM_STATUS_2"
      /\ tash.st # "IDLE"
  BY Zenon DEF TashStatus1, TashStatus2
<1>2. sts \in Nat
  BY Zenon DEF WrTypes
<1>3. tash.ev.address = tst.app /\ tash.ev.length = app.len
  BY <1>1, Zenon DEF DataLine
<1>4. P % BufSize = tst.app
  BY PointerFacts, Zenon
<1> QED
  BY <1>1, <1>2, <1>3, <1>4 DEF Statuses

LEMMA BytesCarry ==
    ASSUME TaiTypes, WrTypes, TxeTypes, DataLine, NEW w, WrittenTo(w), TashStatus1, Carry
    PROVE  WrittenTo(w)'
<1>1. /\ sts \in Nat \ {0} /\ sts' = sts - 1 /\ UNCHANGED <<app, data, meta, mwr, wrCmd, mem>>
      /\ Statuses = sts
  BY StatusIs, Zenon
<1>2. tst' = tst /\ tash'.st = "RD_MEM_STATUS_2"
  <2>1. tst' = tst /\ tash' = [tash EXCEPT !.st = "RD_MEM_STATUS_2"]
    BY Zenon DEF TashStatus1
  <2> QED
    BY <2>1 DEF TaiTypes
<1>3. A' = A /\ P' = P
  BY <1>1, <1>2, EntryKept, Zenon
<1>4. Statuses' = Statuses
  BY <1>1, <1>2 DEF Statuses
<1>5. A \in Int /\ A <= A
  <2>1. A \in Int
    BY PointerFacts, Zenon
  <2> QED
    BY <2>1
<1>6. MarkLine(w)'
  <2>1. MarkLine(w)
    BY Zenon DEF WrittenTo
  <2> QED
    BY <1>1, <1>3, <1>4, <2>1, MarkKeep, Zenon
<1> QED
  BY <1>1, <1>3, <1>5, <1>6, BytesKeep, Zenon

\* All of the request is in the ring when it is announced.
LEMMA BytesAnnounce ==
    ASSUME TaiTypes, WrTypes, TxeTypes, DataLine, NEW w, WrittenTo(w),
           \/ TashStatus1 /\ ~Carry
           \/ TashStatus2
    PROVE  WrittenTo(w)'
<1>1. /\ sts \in Nat \ {0} /\ sts' = sts - 1 /\ UNCHANGED <<app, data, meta, mwr, wrCmd, mem>>
      /\ TashStatus1 => Statuses = sts
      /\ TashStatus2 => Statuses = sts + 1
      /\ tash.ev.address = P % BufSize /\ tash.ev.length = app.len
  BY StatusIs, Zenon
<1>2. Announce /\ tash.st # "IDLE"
  BY Zenon DEF TashStatus1, TashStatus2
<1>3. /\ P' = P + app.len /\ P + app.len <= app.next
      /\ tst'.ackd = tst.ackd
      /\ tash'.st = "IDLE"
  BY <1>1, <1>2, AnnounceIs, Zenon
<1>4. A \in Int /\ P \in Int /\ app.next \in Nat /\ app.len \in 1..(BufSize - 1)
  BY PointerFacts, Zenon
<1>5. PICK n, l, p, q, k : n = app.next /\ l = app.len /\ p = P /\ q = P' /\ k = Statuses
  OBVIOUS
<1>6. n \in Int /\ l \in 1..(BufSize - 1) /\ l \in Nat \ {0} /\ p \in Int /\ q = p + l /\ q \in Int
  BY <1>3, <1>4, <1>5
<1>7. w \in Int /\ p <= w /\ Rem(n, l, p) = l /\ Marked(k, p, w, n, l)
  BY <1>5, Zenon DEF WrittenTo, MarkLine, Left
<1>8. q <= w /\ Marked(sts - 1, q, w, n, l)
  <2>1. CASE TashStatus1 /\ ~Carry
    <3>1. k = sts /\ k \in Nat \ {0}
      BY <1>1, <1>5, <2>1
    <3>2. (p % BufSize) + l < BufSize
      <4>1. p % BufSize \in 0..(BufSize - 1)
        BY <1>6, Sizes
      <4>2. ~(tash.ev.address + tash.ev.length >= BufSize)
        BY <2>1, Zenon DEF Carry, TxAppPtr
      <4>3. tash.ev.address = p % BufSize /\ tash.ev.length = l
        BY <1>1, <1>5, Zenon
      <4> QED
        BY <1>6, <4>1, <4>2, <4>3, Sizes
    <3>3. p + l <= w /\ Marked(k - 1, p + l, w, n, l)
      BY <1>6, <1>7, <3>1, <3>2, FirstMark, Zenon
    <3> QED
      BY <1>6, <3>1, <3>3, Zenon
  <2>2. CASE TashStatus2
    <3>1. k \in Nat /\ k >= 2 /\ k - 2 = sts - 1
      BY <1>1, <1>5, <2>2
    <3>2. p + l <= w /\ Marked(k - 2, p + l, w, n, l)
      BY <1>6, <1>7, <3>1, SecondMark, Zenon
    <3> QED
      BY <1>6, <3>1, <3>2, Zenon
  <2> QED
    BY <2>1, <2>2, Zenon
<1>9. Rem(n, l, q) = l
  <2>1. Rem(n, l, p + Rem(n, l, p)) = l
    BY <1>6, RemEnd, Zenon
  <2>2. p + Rem(n, l, p) = q
    BY <1>6, <1>7, Zenon
  <2> QED
    BY <2>1, <2>2, Zenon
<1>10. Statuses' = sts - 1
  BY <1>1, <1>3 DEF Statuses
<1>11. A' = A
  BY <1>1, <1>3, Zenon DEF A, SeqPos
<1>12. app'.next = n /\ app'.len = l
  BY <1>1, <1>5, Zenon
<1>13. MarkLine(w)'
  BY <1>5, <1>8, <1>9, <1>10, <1>12, Zenon DEF MarkLine, Left
<1>14. A <= A'
  BY <1>4, <1>11
<1> QED
  BY <1>1, <1>4, <1>5, <1>11, <1>12, <1>13, <1>14, BytesKeep, Zenon

----------------------------------------------------------------------------
(* Mwr takes a request *)

LEMMA BytesMwrIdle ==
    ASSUME TaiTypes, WrTypes, TxeTypes, NEW w, WrittenTo(w), MwrIdle
    PROVE  WrittenTo(w)'
<1>1. PICK m : m = Head(meta)
  OBVIOUS
<1>2. /\ mwr.st = "IDLE" /\ meta # <<>> /\ meta' = Tail(meta)
      /\ \/ /\ Wraps(m.addr, m.len)
            /\ mwr' = [mwr EXCEPT !.st = "SPLIT_1ST_CMD", !.addr = m.addr, !.btt = m.len] /\ wrCmd' = wrCmd
         \/ /\ ~Wraps(m.addr, m.len)
            /\ wrCmd' = Append(wrCmd, m)
            /\ mwr' = [mwr EXCEPT !.st = "FWD_ALIGNED", !.addr = m.addr, !.btt = m.len]
      /\ UNCHANGED <<app, data, tash, sts, mem, tst>>
  BY <1>1, Zenon DEF MwrIdle
<1>3. /\ w \in Int /\ w <= app.next
      /\ MwrLine(w) /\ StockLine(w) /\ MetaLine(w) /\ RingLine(w) /\ MarkLine(w)
  BY Zenon DEF WrittenTo
<1>4. PICK n, l, s : n = app.next /\ l = app.len /\ s = AsEvents(meta)
  OBVIOUS
<1>5. n \in Int /\ l \in 1..(BufSize - 1) /\ l \in Nat \ {0} /\ l \in Nat
  BY <1>4 DEF TaiTypes
<1>6. /\ m \in Metas /\ AsEvents(Tail(meta)) = Tail(s) /\ s # <<>> /\ Head(s) = Event("TX", m.addr, m.len)
      /\ s \in Seq(Events)
  <2>1. meta \in Seq(Metas)
    BY Zenon DEF TaiTypes, Metas
  <2> QED
    BY <1>1, <1>2, <1>4, <2>1, AsEventsTail, AsEventsAre, Zenon
<1>7. /\ m.len = l /\ m.addr = w % BufSize /\ Chain(Tail(s), w + l, n, l)
  <2>1. Chain(s, w, n, l)
    BY <1>2, <1>3, <1>4, Zenon DEF MetaLine, Rest
  <2>2. PICK e : e = Event("TX", m.addr, m.len)
    OBVIOUS
  <2>3. e.type = "TX" /\ e.length = m.len /\ e.address = m.addr
    BY <1>6, <2>2, AsEvent, Zenon
  <2>4. /\ e.length = (IF e.type = "TX" THEN l ELSE 0) /\ (e.type = "TX" => e.address = w % BufSize)
        /\ Chain(Tail(s), w + e.length, n, l)
    BY <1>5, <1>6, <2>1, <2>2, ChainTail, Zenon
  <2> QED
    BY <2>3, <2>4, Zenon
<1>8. w + l <= n /\ w < n
  <2>1. w + l \in Int /\ w + l <= n
    BY <1>7, Zenon DEF Chain
  <2> QED
    BY <1>3, <1>5, <2>1
<1>9. Left(w) = l /\ Left(w)' = l /\ Left(P)' = Left(P) /\ A' = A /\ P' = P
  <2>1. Left(w) = l
    BY <1>2, <1>3, <1>4, Zenon DEF MwrLine, AtRest
  <2>2. A' = A /\ P' = P
    BY <1>2, EntryKept, Zenon
  <2> QED
    BY <1>2, <2>1, <2>2, Zenon DEF Left
<1>10. mwr'.st = (IF Wraps(m.addr, m.len) THEN "SPLIT_1ST_CMD" ELSE "FWD_ALIGNED") /\ mwr'.addr = m.addr
  BY <1>2 DEF WrTypes
<1>11. mwr'.st \in {"SPLIT_1ST_CMD", "FWD_ALIGNED"} /\ mwr'.st # "IDLE" /\ ~Holding' /\ ~Holding
  BY <1>2, <1>10 DEF Holding
<1>12. Held = 0 /\ Held' = 0 /\ Rest(w)' = w + l /\ Statuses' = Statuses
  BY <1>2, <1>9, <1>11, Zenon DEF Held, Rest, Statuses
<1>13. ~Wraps(m.addr, m.len) => wrCmd'[1].addr = w % BufSize
  <2>1. ASSUME ~Wraps(m.addr, m.len)
        PROVE  wrCmd'[1] = m
    <3>1. wrCmd' = Append(wrCmd, m)
      BY <1>2, <2>1, Zenon
    <3>2. Len(wrCmd) = 0 /\ wrCmd \in Seq([addr : Nat, len : Int])
      BY <1>2 DEF WrTypes, Forwarding
    <3>3. wrCmd = <<>>
      BY <3>2
    <3> QED
      BY <3>1, <3>3
  <2> QED
    BY <1>7, <2>1, Zenon
<1>14. w % BufSize \in 0..(BufSize - 1)
  BY <1>3, Sizes
<1>15. MwrLine(w)'
  <2>1. AtRest(w)' /\ AtFirst(w)' /\ AtBorder(w)'
    BY <1>11 DEF AtRest, AtFirst, AtBorder
  <2>2. app'.len = l
    BY <1>2, <1>4, Zenon
  <2>3. AtSplit(w)'
    <3>1. SUFFICES ASSUME mwr'.st = "SPLIT_1ST_CMD"
                   PROVE  Left(w)' = app'.len /\ mwr'.addr = w % BufSize /\ (w % BufSize) + app'.len > BufSize
      BY Zenon DEF AtSplit
    <3>2. Wraps(m.addr, m.len)
      BY <1>10, <3>1
    <3>3. m.addr + m.len > BufSize
      BY <3>2, Zenon DEF Wraps
    <3> QED
      BY <1>7, <1>9, <1>10, <2>2, <3>3, Zenon
  <2>4. AtCommand(w)'
    <3>1. SUFFICES ASSUME Forwarding'
                   PROVE  wrCmd'[1].addr = w % BufSize
      BY Zenon DEF AtCommand
    <3>2. ~Wraps(m.addr, m.len)
      BY <1>10, <3>1 DEF Forwarding
    <3> QED
      BY <1>13, <3>2, Zenon
  <2>5. AtSecond(w)'
    <3>1. SUFFICES ASSUME mwr'.st \in {"FWD_ALIGNED", "FWD_2ND_BUF", "RESIDUE"}
                   PROVE  (w % BufSize) + Left(w)' <= BufSize
      BY Zenon DEF AtSecond
    <3>2. ~Wraps(m.addr, m.len)
      BY <1>10, <3>1
    <3>3. ~((w % BufSize) + l > BufSize)
      BY <1>7, <3>2, Zenon DEF Wraps
    <3>4. (w % BufSize) + l <= BufSize
      BY <1>5, <1>14, <3>3, Sizes
    <3> QED
      BY <1>9, <3>4, Zenon
  <2> QED
    BY <2>1, <2>3, <2>4, <2>5, Zenon DEF MwrLine
<1>16. StockLine(w)'
  BY <1>2, <1>3, <1>12, Zenon DEF StockLine
<1>17. MetaLine(w)'
  BY <1>2, <1>4, <1>6, <1>7, <1>12, Zenon DEF MetaLine
<1>18. RingLine(w)'
  BY <1>2, <1>3, <1>9, Zenon DEF RingLine
<1>19. MarkLine(w)'
  BY <1>2, <1>3, <1>9, <1>12, MarkKeep, Zenon
<1>20. app'.next = n
  BY <1>2, <1>4, Zenon
<1> QED
  BY <1>3, <1>4, <1>8, <1>15, <1>16, <1>17, <1>18, <1>19, <1>20, Zenon DEF WrittenTo

LEMMA BytesMwrSplit ==
    ASSUME TaiTypes, WrTypes, TxeTypes, NEW w, WrittenTo(w), MwrSplit
    PROVE  WrittenTo(w)'
<1>1. /\ mwr.st = "SPLIT_1ST_CMD"
      /\ wrCmd' = Append(wrCmd, [addr |-> mwr.addr, len |-> BufSize - mwr.addr])
      /\ mwr' = [mwr EXCEPT !.st = "FWD_1ST_BUF", !.nr = BufSize - mwr.addr]
      /\ UNCHANGED <<app, data, meta, tash, sts, mem, tst>>
  BY Zenon DEF MwrSplit, tai
<1>2. /\ w \in Int /\ w <= app.next /\ w < app.next
      /\ MwrLine(w) /\ StockLine(w) /\ MetaLine(w) /\ RingLine(w) /\ MarkLine(w)
  BY <1>1, Zenon DEF WrittenTo
<1>3. PICK l, c : l = app.len /\ c = w % BufSize
  OBVIOUS
<1>4. l \in 1..(BufSize - 1) /\ c \in 0..(BufSize - 1)
  <2>1. l \in 1..(BufSize - 1)
    BY <1>3 DEF TaiTypes
  <2>2. c \in 0..(BufSize - 1)
    BY <1>2, <1>3, Sizes
  <2> QED
    BY <2>1, <2>2
<1>5. Left(w) = l /\ mwr.addr = c /\ c + l > BufSize
  BY <1>1, <1>2, <1>3, Zenon DEF MwrLine, AtSplit
<1>6. mwr'.st = "FWD_1ST_BUF" /\ mwr'.nr = BufSize - c
  BY <1>1, <1>5 DEF WrTypes
<1>7. Left(w)' = Left(w) /\ A' = A /\ P' = P
  <2>1. A' = A /\ P' = P
    BY <1>1, EntryKept, Zenon
  <2> QED
    BY <1>1, <2>1, Zenon DEF Left
<1>8. mwr'.st # "IDLE" /\ ~Holding' /\ ~Holding /\ mwr.st # "IDLE"
  BY <1>1, <1>6 DEF Holding
<1>9. Held' = Held /\ Rest(w)' = Rest(w) /\ Statuses' = Statuses
  BY <1>1, <1>7, <1>8, Zenon DEF Held, Rest, Statuses
<1>10. wrCmd'[1].addr = c
  <2>1. Len(wrCmd) = 0 /\ wrCmd \in Seq([addr : Nat, len : Int])
    BY <1>1 DEF WrTypes, Forwarding
  <2>2. wrCmd = <<>>
    BY <2>1
  <2> QED
    BY <1>1, <1>5, <2>2
<1>11. MwrLine(w)'
  <2>1. AtRest(w)' /\ AtSplit(w)' /\ AtSecond(w)' /\ AtBorder(w)'
    BY <1>6, <1>8 DEF AtRest, AtSplit, AtSecond, AtBorder
  <2>2. AtCommand(w)'
    BY <1>3, <1>10, Zenon DEF AtCommand
  <2>3. BufSize - c < l
    BY <1>4, <1>5, Sizes
  <2>4. AtFirst(w)'
    BY <1>1, <1>3, <1>5, <1>6, <1>7, <2>3, Zenon DEF AtFirst
  <2> QED
    BY <2>1, <2>2, <2>4, Zenon DEF MwrLine
<1>12. StockLine(w)' /\ MetaLine(w)' /\ RingLine(w)'
  BY <1>1, <1>2, <1>7, <1>9, Zenon DEF StockLine, MetaLine, RingLine
<1>13. MarkLine(w)'
  BY <1>1, <1>2, <1>7, <1>9, MarkKeep, Zenon
<1>14. app' = app
  BY <1>1, Zenon
<1> QED
  BY <1>2, <1>11, <1>12, <1>13, <1>14, Zenon DEF WrittenTo

----------------------------------------------------------------------------
(* Mwr forwards a chunk *)

LEMMA LeftIs ==
    ASSUME TaiTypes, NEW w \in Int, w < app.next
    PROVE  /\ Left(w) \in 1..app.len /\ app.len \in 1..(BufSize - 1) /\ w + Left(w) <= app.next
           /\ Left(w + Left(w)) = app.len
           /\ \A d \in Nat : d < Left(w) => Left(w + d) = Left(w) - d /\ w + d < app.next
<1>1. PICK n, l, r : n = app.next /\ l = app.len /\ r = Left(w)
  OBVIOUS
<1>2. n \in Int /\ l \in 1..(BufSize - 1) /\ l \in Nat \ {0}
  BY <1>1 DEF TaiTypes
<1>3. r = Rem(n, l, w)
  BY <1>1, Zenon DEF Left
<1>4. r \in 1..l
  BY <1>2, <1>3, RemRange, Zenon
<1>5. w + r <= n
  BY <1>1, <1>2, <1>3, RemUpTo, Zenon
<1>6. Rem(n, l, w + r) = l
  BY <1>2, <1>3, RemEnd, Zenon
<1>7. ASSUME NEW d \in Nat, d < r
      PROVE  Rem(n, l, w + d) = r - d /\ w + d < n
  <2>1. Rem(n, l, w + d) = r - d
    BY <1>2, <1>3, <1>7, RemOn, Zenon
  <2>2. w + d < n
    BY <1>2, <1>4, <1>5, <1>7
  <2> QED
    BY <2>1, <2>2
<1> QED
  BY <1>1, <1>2, <1>4, <1>5, <1>6, <1>7, Zenon DEF Left

\* MEM takes the bytes b from w on, up to v.
LEMMA WriteDoes ==
    ASSUME TaiTypes, WrTypes, TxeTypes, Pointers, NEW w, WrittenTo(w), NEW b \in Seq(Nat), NEW last \in BOOLEAN, NEW cmds,
           WriteChunk(b, last, cmds), Head(cmds).addr = w % BufSize, (w % BufSize) + Len(b) <= BufSize, Len(b) > 0,
           \A j \in 1..Len(b) : b[j] = w + j - 1, NEW v, v = w + Len(b), v <= app.next,
           last => Border(v, app.next, app.len), UNCHANGED <<app, tash, tst>>
    PROVE  RingLine(v)' /\ MarkLine(v)'
<1>1. w \in Int /\ RingLine(w) /\ MarkLine(w)
  BY Zenon DEF WrittenTo
<1>2. A' = A /\ P' = P
  BY EntryKept, Zenon
<1>3. A \in Int /\ P \in Int /\ app.next \in Nat
  BY PointerFacts, Zenon
<1>4. app.next - BufSize < A
  BY Zenon DEF Pointers
<1>5. PICK a, k, n, l, p : a = A /\ k = Len(b) /\ n = app.next /\ l = app.len /\ p = P
  OBVIOUS
<1>6. k \in Nat \ {0}
  <2>1. Len(b) \in Nat
    OBVIOUS
  <2> QED
    BY <1>5, <2>1
<1>7. v \in Int /\ w < v /\ w <= v /\ v <= a + BufSize /\ p <= w /\ a \in Int /\ p \in Int
  <2>1. p <= w
    BY <1>1, <1>5, Zenon DEF MarkLine
  <2>2. n - BufSize < a /\ a \in Int /\ p \in Int /\ n \in Int /\ v = w + k /\ v <= n
    BY <1>3, <1>4, <1>5
  <2> QED
    BY <1>1, <1>6, <2>1, <2>2, Sizes
<1>8. RingLine(v)'
  <2>1. mem \in [0..(BufSize - 1) -> Nat]
    BY Zenon DEF WrTypes
  <2>2. \A q \in Int : a <= q /\ q < w => mem[q % BufSize] = q
    BY <1>1, <1>5, Zenon DEF RingLine
  <2>3. w + Len(b) <= a + BufSize
    BY <1>7
  <2>4. \A q \in Int : a <= q /\ q < w + Len(b) => mem'[q % BufSize] = q
    BY <1>1, <1>7, <2>1, <2>2, <2>3, RingWrites, Zenon
  <2> QED
    BY <1>2, <1>5, <2>4, Zenon DEF RingLine
<1>9. sts' = (IF last THEN sts + 1 ELSE sts) /\ sts \in Nat
  BY Zenon DEF WriteChunk, WrTypes
<1>10. Statuses \in Nat /\ Statuses' = IF last THEN Statuses + 1 ELSE Statuses
  BY <1>9 DEF Statuses
<1>11. Rem(n, l, p) = l /\ Marked(Statuses, p, w, n, l)
  BY <1>1, <1>5, Zenon DEF MarkLine, Left
<1>12. Marked(Statuses', p, v, n, l)
  <2>1. CASE last
    <3>1. Border(v, n, l)
      BY <1>5, <2>1, Zenon
    <3>2. Marked(Statuses + 1, p, v, n, l)
      BY <1>1, <1>7, <1>10, <1>11, <3>1, MarkedMore, Zenon
    <3> QED
      BY <1>10, <2>1, <3>2, Zenon
  <2>2. CASE ~last
    <3>1. Marked(Statuses, p, v, n, l)
      BY <1>1, <1>7, <1>11, MarkedKeep, Zenon
    <3> QED
      BY <1>10, <2>2, <3>1, Zenon
  <2> QED
    BY <2>1, <2>2
<1>13. p <= v
  BY <1>1, <1>7
<1>14. app' = app
  OBVIOUS
<1>15. MarkLine(v)'
  BY <1>2, <1>5, <1>11, <1>12, <1>13, <1>14, Zenon DEF MarkLine, Left
<1> QED
  BY <1>8, <1>15

\* The command moves on, or its successor comes.
LEMMA CommandOn ==
    ASSUME NEW b, Len(b) \in Nat, NEW cmds \in Commands, cmds # <<>>, WriteChunk(b, FALSE, cmds)
    PROVE  wrCmd'[1].addr = Head(cmds).addr + Len(b)
<1>1. wrCmd' = [cmds EXCEPT ![1].addr = @ + Len(b)]
  BY Zenon DEF WriteChunk
<1>2. PICK T : T = [addr : Nat, len : Int]
  OBVIOUS
<1>3. cmds \in Seq(T)
  BY <1>2, Zenon DEF Commands
<1>4. Head(cmds) \in T /\ Head(cmds) = cmds[1] /\ Len(cmds) \in Nat \ {0}
  BY <1>3, HeadTail, Zenon
<1>5. wrCmd'[1] = [Head(cmds) EXCEPT !.addr = @ + Len(b)]
  BY <1>1, <1>3, <1>4
<1> QED
  BY <1>2, <1>4, <1>5

LEMMA CommandNext ==
    ASSUME NEW b, NEW s \in Commands, Len(s) = 1, NEW c \in [addr : Nat, len : Int], WriteChunk(b, TRUE, Append(s, c))
    PROVE  wrCmd'[1] = c
<1>1. wrCmd' = Tail(Append(s, c))
  BY Zenon DEF WriteChunk
<1>2. PICK T : T = [addr : Nat, len : Int]
  OBVIOUS
<1>3. s \in Seq(T) /\ c \in T
  BY <1>2, Zenon DEF Commands
<1>4. PICK t : t = Append(s, c)
  OBVIOUS
<1>5. t \in Seq(T) /\ t # <<>> /\ Len(t) = Len(s) + 1 /\ t[Len(s) + 1] = c
  <2>1. Append(s, c) \in Seq(T) /\ Append(s, c) # <<>> /\ Len(Append(s, c)) = Len(s) + 1 /\ Append(s, c)[Len(s) + 1] = c
    <3>1. PICK S : S = T
      OBVIOUS
    <3>2. s \in Seq(S) /\ c \in S
      BY <1>3, <3>1, Zenon
    <3>3. /\ Append(s, c) \in Seq(S) /\ Append(s, c) # <<>>
          /\ Len(s) \in Nat /\ Len(Append(s, c)) = Len(s) + 1
          /\ \A i \in 1..Len(s) : Append(s, c)[i] = s[i]
          /\ Append(s, c)[Len(s) + 1] = c
      BY <3>2, AppendIs, ZenonT(90)
    <3> QED
      BY <3>1, <3>3, Zenon
  <2> QED
    BY <1>4, <2>1
<1>6. Len(t) = 2 /\ t[2] = c
  BY <1>5
<1>7. Len(Tail(t)) = Len(t) - 1 /\ \A i \in 1..Len(Tail(t)) : Tail(t)[i] = t[i + 1]
  BY <1>5, HeadTail, Zenon
<1>8. Tail(t)[1] = t[2]
  <2>0. PICK k, m : k = Len(Tail(t)) /\ m = Len(t)
    OBVIOUS
  <2>1. 1 \in 1..Len(Tail(t)) /\ 1 + 1 = 2
    <3>1. k = m - 1 /\ m = 2
      BY <1>6, <1>7, <2>0, Zenon
    <3>2. 1 \in 1..k /\ 1 + 1 = 2
      BY <3>1
    <3> QED
      BY <2>0, <3>2, Zenon
  <2>2. Tail(t)[1] = t[1 + 1]
    BY <1>7, <2>1, Zenon
  <2> QED
    BY <2>1, <2>2
<1> QED
  BY <1>1, <1>4, <1>6, <1>8, Zenon

LEMMA CommandHead ==
    ASSUME WrTypes, Forwarding, NEW w, WrittenTo(w)
    PROVE  /\ wrCmd \in Commands /\ wrCmd # <<>> /\ Len(wrCmd) = 1 /\ Head(wrCmd) = wrCmd[1] /\ Head(wrCmd).addr = w % BufSize
           /\ \A c \in [addr : Nat, len : Int] :
                 /\ Append(wrCmd, c) \in Commands /\ Append(wrCmd, c) # <<>>
                 /\ Head(Append(wrCmd, c)) = wrCmd[1]
<1>1. wrCmd \in Seq([addr : Nat, len : Int]) /\ Len(wrCmd) = 1
  BY Zenon DEF WrTypes
<1>2. wrCmd[1].addr = w % BufSize
  BY Zenon DEF WrittenTo, MwrLine, AtCommand
<1>3. wrCmd # <<>> /\ Head(wrCmd) = wrCmd[1]
  BY <1>1
<1>4. ASSUME NEW c \in [addr : Nat, len : Int]
      PROVE  /\ Append(wrCmd, c) \in Seq([addr : Nat, len : Int]) /\ Append(wrCmd, c) # <<>>
             /\ Head(Append(wrCmd, c)) = wrCmd[1]
  <2>1. PICK T : T = [addr : Nat, len : Int]
    OBVIOUS
  <2>2. wrCmd \in Seq(T) /\ c \in T
    BY <1>1, <2>1, Zenon
  <2>3. PICK t : t = Append(wrCmd, c)
    OBVIOUS
  <2>4. t \in Seq(T) /\ t # <<>> /\ \A i \in 1..Len(wrCmd) : t[i] = wrCmd[i]
    <3>1. Append(wrCmd, c) \in Seq(T) /\ Append(wrCmd, c) # <<>> /\ \A i \in 1..Len(wrCmd) : Append(wrCmd, c)[i] = wrCmd[i]
      BY <2>2, AppendIs
    <3> QED
      BY <2>3, <3>1
  <2>5. Head(t) = t[1]
    BY <2>4, HeadTail, Zenon
  <2>6. t[1] = wrCmd[1]
    BY <1>1, <2>4
  <2> QED
    BY <2>1, <2>3, <2>4, <2>5, <2>6, Zenon
<1> QED
  BY <1>1, <1>2, <1>3, <1>4, Zenon DEF Commands

\* The request is written: Mwr waits for the next one.
LEMMA WriteEnd ==
    ASSUME TaiTypes, WrTypes, TxeTypes, Pointers, NEW w, WrittenTo(w), NEW b \in Seq(Nat), NEW v, v = w + Left(w),
           mwr.st \in {"FWD_ALIGNED", "FWD_2ND_BUF", "RESIDUE"}, Len(b) = Left(w), \A j \in 1..Len(b) : b[j] = w + j - 1,
           WriteChunk(b, TRUE, wrCmd), mwr'.st = "IDLE", Stock(data', v, app.next, app.next, app.len),
           UNCHANGED <<app, tash, tst, meta>>
    PROVE  WrittenTo(v)'
<1>1. mwr.st # "IDLE" /\ Forwarding /\ ~Holding'
  BY DEF Forwarding, Holding
<1>2. w \in Int /\ w < app.next /\ AtSecond(w) /\ MetaLine(w)
  BY <1>1, Zenon DEF WrittenTo, MwrLine
<1>3. Left(w) \in 1..app.len /\ app.len \in 1..(BufSize - 1) /\ v <= app.next /\ Left(v) = app.len
  BY <1>2, LeftIs, Zenon
<1>4. v \in Int /\ Len(b) > 0
  BY <1>2, <1>3
<1>5. (w % BufSize) + Len(b) <= BufSize
  BY <1>2, Zenon DEF AtSecond
<1>6. Head(wrCmd).addr = w % BufSize
  BY <1>1, CommandHead, Zenon
<1>7. Border(v, app.next, app.len)
  BY <1>3, Zenon DEF Border, Left
<1>8. RingLine(v)' /\ MarkLine(v)'
  <2>1. v = w + Len(b)
    BY Zenon
  <2> QED
    BY <1>3, <1>4, <1>5, <1>6, <1>7, <2>1, WriteDoes, Zenon
<1>9. Left(v)' = app'.len
  BY <1>3, Zenon DEF Left
<1>10. MwrLine(v)'
  <2>1. AtSplit(v)' /\ AtCommand(v)' /\ AtFirst(v)' /\ AtSecond(v)' /\ AtBorder(v)'
    BY <1>1 DEF AtSplit, AtCommand, AtFirst, AtSecond, AtBorder, Forwarding
  <2>2. AtRest(v)'
    BY <1>9, Zenon DEF AtRest
  <2> QED
    BY <2>1, <2>2, Zenon DEF MwrLine
<1>11. Held' = 0
  BY <1>1, Zenon DEF Held
<1>12. StockLine(v)'
  <2>1. v + Held' = v
    BY <1>4, <1>11
  <2>2. app' = app
    OBVIOUS
  <2> QED
    BY <2>1, <2>2, Zenon DEF StockLine
<1>13. MetaLine(v)'
  <2>1. Rest(w) = v /\ Rest(v)' = v
    BY <1>1, Zenon DEF Rest
  <2>2. app' = app /\ meta' = meta
    OBVIOUS
  <2> QED
    BY <1>2, <2>1, <2>2, Zenon DEF MetaLine
<1>14. v <= app'.next /\ (mwr'.st # "IDLE" => v < app'.next)
  BY <1>3, Zenon
<1> QED
  BY <1>4, <1>8, <1>10, <1>12, <1>13, <1>14, Zenon DEF WrittenTo

\* The request goes on.
LEMMA WriteOn ==
    ASSUME TaiTypes, WrTypes, TxeTypes, Pointers, NEW w, WrittenTo(w), Forwarding, NEW b \in Seq(Nat),
           NEW d \in Nat \ {0}, d = Len(b), d < Left(w), NEW v, v = w + d, (w % BufSize) + d <= BufSize,
           \A j \in 1..Len(b) : b[j] = w + j - 1,
           NEW last \in BOOLEAN, NEW cmds, WriteChunk(b, last, cmds), Head(cmds).addr = w % BufSize,
           last => v % BufSize = 0, wrCmd'[1].addr = v % BufSize, Forwarding',
           AtFirst(v)', AtSecond(v)', AtBorder(v)', Stock(data', v + Held', app.next, app.next, app.len),
           UNCHANGED <<app, tash, tst, meta>>
    PROVE  WrittenTo(v)'
<1>1. mwr.st # "IDLE" /\ mwr'.st # "IDLE" /\ mwr'.st # "SPLIT_1ST_CMD"
  BY DEF Forwarding
<1>2. w \in Int /\ w < app.next /\ MetaLine(w)
  BY <1>1, Zenon DEF WrittenTo
<1>3. /\ Left(w) \in 1..app.len /\ app.len \in 1..(BufSize - 1) /\ w + Left(w) <= app.next
      /\ Left(v) = Left(w) - d /\ v < app.next
  BY <1>2, LeftIs, Zenon
<1>4. v \in Int /\ v <= app.next /\ Len(b) > 0 /\ app.next \in Nat
  <2>1. app.next \in Nat
    BY PointerFacts, Zenon
  <2> QED
    BY <1>2, <1>3, <2>1
<1>5. RingLine(v)' /\ MarkLine(v)'
  <2>1. last => Border(v, app.next, app.len)
    BY Zenon DEF Border
  <2>2. v = w + Len(b) /\ (w % BufSize) + Len(b) <= BufSize
    BY Zenon
  <2> QED
    BY <1>4, <2>1, <2>2, WriteDoes, Zenon
<1>6. MwrLine(v)'
  <2>1. AtRest(v)' /\ AtSplit(v)' /\ AtCommand(v)'
    BY <1>1, Zenon DEF AtRest, AtSplit, AtCommand
  <2> QED
    BY <2>1, Zenon DEF MwrLine
<1>7. StockLine(v)'
  BY Zenon DEF StockLine
<1>8. MetaLine(v)'
  <2>1. v + Left(v) = w + Left(w)
    <3>1. PICK r, l, x : r = Left(w) /\ l = app.len /\ x = Left(v)
      OBVIOUS
    <3>2. r \in Int /\ x = r - d
      BY <1>3, <3>1
    <3>3. v + x = w + r
      BY <1>2, <3>2
    <3> QED
      BY <3>1, <3>3, Zenon
  <2>2. Left(v)' = Left(v)
    BY Zenon DEF Left
  <2>3. Rest(v)' = Rest(w)
    BY <1>1, <2>1, <2>2, Zenon DEF Rest
  <2>4. app' = app /\ meta' = meta
    OBVIOUS
  <2> QED
    BY <1>2, <2>3, <2>4, Zenon DEF MetaLine
<1>9. v <= app'.next /\ (mwr'.st # "IDLE" => v < app'.next)
  BY <1>3, <1>4, Zenon
<1> QED
  BY <1>4, <1>5, <1>6, <1>7, <1>8, <1>9, Zenon DEF WrittenTo

\* The chunk that waits for Mwr is what is next of the stream.
LEMMA ChunkIs ==
    ASSUME TaiTypes, NEW w, WrittenTo(w), data # <<>>
    PROVE  LET c == Head(data)
           IN  \E z \in Int :
                   /\ Piece(c, w + Held, z, app.next, app.len)
                   /\ Stock(Tail(data), z, app.next, app.next, app.len)
                   /\ c.bytes \in Seq(Nat) /\ Len(c.bytes) \in 1..Chunk /\ c.last \in BOOLEAN
<1>1. StockLine(w)
  BY Zenon DEF WrittenTo
<1>2. PICK x, y, l : x = w + Held /\ y = app.next /\ l = app.len
  OBVIOUS
<1>3. data \in Seq(ChunkSet(Nat)) /\ Stock(data, x, y, y, l)
  BY <1>1, <1>2, Zenon DEF TaiTypes, StockLine
<1>4. \E z \in Int : Piece(Head(data), x, z, y, l) /\ Stock(Tail(data), z, y, y, l)
  BY <1>3, StockHead, Zenon
<1>5. Head(data).bytes \in Seq(Nat) /\ Len(Head(data).bytes) \in 1..Chunk /\ Head(data).last \in BOOLEAN
  BY DataHead, Zenon
<1> QED
  BY <1>2, <1>4, <1>5, Zenon

\* Numbers about a chunk: what is left of the request is in it, or it is full.
LEMMA PieceIs ==
    ASSUME NEW c, NEW a \in Int, NEW z \in Int, NEW r \in Nat \ {0}, Piece(c, a, z, app.next, app.len), Left(a) = r
    PROVE  /\ Len(c.bytes) = (IF r <= Chunk THEN r ELSE Chunk) /\ Len(c.bytes) \in Nat \ {0}
           /\ z = a + Len(c.bytes) /\ (c.last <=> r <= Chunk)
           /\ \A j \in 1..Len(c.bytes) : c.bytes[j] = a + j - 1
<1>1. /\ Len(c.bytes) = (IF r <= Chunk THEN r ELSE Chunk)
      /\ z = a + Len(c.bytes) /\ (c.last <=> r <= Chunk)
      /\ \A j \in 1..Len(c.bytes) : c.bytes[j] = a + j - 1
  BY Zenon DEF Piece, Left
<1>2. (IF r <= Chunk THEN r ELSE Chunk) \in Nat \ {0}
  BY Sizes
<1> QED
  BY <1>1, <1>2, Zenon

----------------------------------------------------------------------------
(* The branches of Mwr *)

LEMMA BytesMwrAligned ==
    ASSUME TaiTypes, WrTypes, TxeTypes, Pointers, NEW w, WrittenTo(w), MwrAligned
    PROVE  BytesLine'
<1>1. PICK c, b : c = Head(data) /\ b = c.bytes
  OBVIOUS
<1>2. /\ mwr.st = "FWD_ALIGNED" /\ data # <<>> /\ data' = Tail(data)
      /\ WriteChunk(b, c.last, wrCmd)
      /\ mwr' = [mwr EXCEPT !.st = IF c.last THEN "IDLE" ELSE @]
      /\ UNCHANGED <<app, tash, tst, meta>>
  BY <1>1, Zenon DEF MwrAligned
<1>3. Forwarding /\ mwr.st # "IDLE" /\ ~Holding
  BY <1>2 DEF Forwarding, Holding
<1>4. w \in Int /\ w < app.next /\ AtSecond(w)
  BY <1>3, Zenon DEF WrittenTo, MwrLine
<1>5. PICK r, x : r = Left(w) /\ x = w % BufSize
  OBVIOUS
<1>6. /\ r \in Nat \ {0} /\ x \in 0..(BufSize - 1) /\ x + r <= BufSize
  <2>1. Left(w) \in 1..app.len /\ app.len \in 1..(BufSize - 1)
    BY <1>4, LeftIs, Zenon
  <2>2. r \in Nat \ {0}
    BY <1>5, <2>1
  <2>3. x \in 0..(BufSize - 1)
    BY <1>4, <1>5, Sizes
  <2>4. x + r <= BufSize
    BY <1>2, <1>4, <1>5, Zenon DEF AtSecond
  <2> QED
    BY <2>2, <2>3, <2>4
<1>7. Held = 0 /\ w + Held = w
  <2>1. Held = 0
    BY <1>3, Zenon DEF Held
  <2> QED
    BY <1>4, <2>1
<1>8. PICK z \in Int :
          /\ Piece(c, w, z, app.next, app.len) /\ Stock(data', z, app.next, app.next, app.len)
          /\ b \in Seq(Nat) /\ c.last \in BOOLEAN
  BY <1>1, <1>2, <1>7, ChunkIs, Zenon
<1>9. /\ Len(b) = (IF r <= Chunk THEN r ELSE Chunk) /\ Len(b) \in Nat \ {0}
      /\ z = w + Len(b) /\ (c.last <=> r <= Chunk)
      /\ \A j \in 1..Len(b) : b[j] = w + j - 1
  BY <1>1, <1>4, <1>5, <1>6, <1>8, PieceIs, Zenon
<1>10. Head(wrCmd).addr = x /\ wrCmd \in Commands /\ wrCmd # <<>>
  BY <1>3, <1>5, CommandHead, Zenon
<1>11. CASE c.last
  <2>1. Len(b) = r /\ z = w + Left(w)
    BY <1>5, <1>9, <1>11
  <2>2. mwr'.st = "IDLE"
    BY <1>2, <1>11 DEF WrTypes
  <2>3. WriteChunk(b, TRUE, wrCmd)
    BY <1>2, <1>8, <1>11
  <2>4. WrittenTo(z)'
    BY <1>2, <1>5, <1>8, <1>9, <2>1, <2>2, <2>3, WriteEnd, Zenon
  <2> QED
    BY <2>4, Zenon DEF BytesLine
<1>12. CASE ~c.last
  <2>1. mwr'.st = "FWD_ALIGNED"
    BY <1>2, <1>12 DEF WrTypes
  <2>2. Forwarding' /\ ~Holding'
    BY <2>1 DEF Forwarding, Holding
  <2>3. PICK d : d = Len(b)
    OBVIOUS
  <2>4. d \in Nat \ {0} /\ d < r /\ x + d < BufSize /\ x + d <= BufSize /\ z = w + d
    BY <1>6, <1>9, <1>12, <2>3, Sizes
  <2>5. Left(z) = r - d
    BY <1>4, <1>5, <2>4, LeftIs, Zenon
  <2>6. z % BufSize = x + d
    BY <1>4, <1>5, <2>4, CellOn
  <2>7. wrCmd'[1].addr = z % BufSize
    <3>1. WriteChunk(b, FALSE, wrCmd)
      BY <1>2, <1>8, <1>12
    <3>2. Len(b) \in Nat
      BY <1>9
    <3>3. wrCmd'[1].addr = Head(wrCmd).addr + Len(b)
      BY <1>10, <3>1, <3>2, CommandOn, Zenon
    <3> QED
      BY <1>10, <2>3, <2>6, <3>3, Zenon
  <2>8. AtFirst(z)' /\ AtBorder(z)'
    BY <2>1, <2>2 DEF AtFirst, AtBorder
  <2>9. AtSecond(z)'
    <3>1. Left(z)' = Left(z)
      BY <1>2, Zenon DEF Left
    <3>2. (x + d) + (r - d) <= BufSize
      BY <1>6, <2>4
    <3>3. (z % BufSize) + Left(z)' <= BufSize
      BY <2>5, <2>6, <3>1, <3>2, Zenon
    <3> QED
      BY <3>3, Zenon DEF AtSecond
  <2>10. Stock(data', z + Held', app.next, app.next, app.len)
    <3>1. Held' = 0
      BY <2>2, Zenon DEF Held
    <3>2. z + Held' = z
      BY <1>8, <3>1
    <3> QED
      BY <1>8, <3>2, Zenon
  <2>11. PICK la \in BOOLEAN : la = c.last
    BY <1>8
  <2>12. WriteChunk(b, la, wrCmd) /\ (la => z % BufSize = 0)
    BY <1>2, <1>12, <2>11, Zenon
  <2>13. WrittenTo(z)'
    BY <1>2, <1>3, <1>5, <1>8, <1>9, <1>10, <2>2, <2>3, <2>4, <2>7, <2>8, <2>9, <2>10, <2>12, WriteOn, Zenon
  <2> QED
    BY <2>13, Zenon DEF BytesLine
<1> QED
  BY <1>11, <1>12

LEMMA BytesMwrResidue ==
    ASSUME TaiTypes, WrTypes, TxeTypes, Pointers, NEW w, WrittenTo(w), MwrResidue
    PROVE  BytesLine'
<1>1. /\ mwr.st = "RESIDUE" /\ WriteChunk(mwr.cur, TRUE, wrCmd)
      /\ mwr' = [mwr EXCEPT !.st = "IDLE"]
      /\ UNCHANGED <<app, tash, tst, meta, data>>
  BY Zenon DEF MwrResidue, tai
<1>2. mwr'.st = "IDLE" /\ mwr.cur \in Seq(Nat)
  BY <1>1 DEF WrTypes
<1>3. Holding /\ mwr.st # "IDLE"
  BY <1>1 DEF Holding
<1>4. w \in Int /\ AtBorder(w) /\ StockLine(w)
  BY Zenon DEF WrittenTo, MwrLine
<1>5. Len(mwr.cur) = Left(w) /\ \A j \in 1..Len(mwr.cur) : mwr.cur[j] = w + j - 1
  BY <1>1, <1>3, <1>4, Zenon DEF AtBorder
<1>6. PICK v : v = w + Left(w)
  OBVIOUS
<1>7. Stock(data', v, app.next, app.next, app.len)
  BY <1>1, <1>3, <1>4, <1>5, <1>6, Zenon DEF StockLine, Held
<1>8. WrittenTo(v)'
  BY <1>1, <1>2, <1>5, <1>6, <1>7, WriteEnd, Zenon
<1> QED
  BY <1>8, Zenon DEF BytesLine

----------------------------------------------------------------------------
(* Chunks are cut and joined at the end of the buffer *)

\* The bytes of a chunk, cut where the buffer ends or where the chunk is full.
LEMMA CutIs ==
    ASSUME NEW b \in Seq(Nat), NEW k \in Nat, NEW a \in Int, \A j \in 1..Len(b) : b[j] = a + j - 1
    PROVE  /\ Take(b, k) \in Seq(Nat) /\ Drop(b, k) \in Seq(Nat)
           /\ Len(Take(b, k)) = (IF k < Len(b) THEN k ELSE Len(b))
           /\ \A j \in 1..Len(Take(b, k)) : Take(b, k)[j] = a + j - 1
           /\ k <= Len(b) => Len(Drop(b, k)) = Len(b) - k /\ \A j \in 1..Len(Drop(b, k)) : Drop(b, k)[j] = (a + k) + j - 1
<1>1. Len(b) \in Nat
  OBVIOUS
<1>2. /\ Take(b, k) \in Seq(Nat) /\ Len(Take(b, k)) = (IF k < Len(b) THEN k ELSE Len(b))
      /\ \A j \in 1..Len(Take(b, k)) : Take(b, k)[j] = b[j]
  BY TakeDrop, Zenon
<1>3. Drop(b, k) \in Seq(Nat)
  BY DropAny, Zenon
<1>4. \A j \in 1..Len(Take(b, k)) : Take(b, k)[j] = a + j - 1
  <2>1. PICK m : m = Len(Take(b, k))
    OBVIOUS
  <2>2. \A j \in 1..m : j \in 1..Len(b)
    BY <1>1, <1>2, <2>1
  <2> QED
    BY <1>2, <2>1, <2>2, Zenon
<1>5. ASSUME k <= Len(b)
      PROVE  Len(Drop(b, k)) = Len(b) - k /\ \A j \in 1..Len(Drop(b, k)) : Drop(b, k)[j] = (a + k) + j - 1
  <2>1. Drop(b, k) = [j \in 1..(Len(b) - k) |-> b[k + j]] /\ Len(Drop(b, k)) = Len(b) - k
    BY <1>1, <1>5 DEF Drop
  <2>2. PICK m, n, t : m = Len(b) - k /\ n = Len(b) /\ t = Drop(b, k)
    OBVIOUS
  <2>3. \A j \in 1..m : t[j] = b[k + j] /\ k + j \in 1..n /\ j \in Int
    BY <1>1, <1>5, <2>1, <2>2
  <2>4. \A j \in 1..m : b[k + j] = a + (k + j) - 1
    BY <2>2, <2>3, Zenon
  <2>5. \A j \in Int : a + (k + j) - 1 = (a + k) + j - 1
    OBVIOUS
  <2>6. \A j \in 1..m : t[j] = (a + k) + j - 1
    BY <2>3, <2>4, <2>5, Zenon
  <2> QED
    BY <2>1, <2>2, <2>6, Zenon
<1> QED
  BY <1>2, <1>3, <1>4, <1>5, Zenon

\* What was kept of a chunk, and what follows it.
LEMMA GlueIs ==
    ASSUME NEW s \in Seq(Nat), NEW t \in Seq(Nat), NEW a \in Int, NEW h \in Nat, h = Len(s),
           \A j \in 1..Len(s) : s[j] = a + j - 1, \A j \in 1..Len(t) : t[j] = (a + h) + j - 1
    PROVE  /\ s \o t \in Seq(Nat) /\ Len(s \o t) = h + Len(t)
           /\ \A j \in 1..Len(s \o t) : (s \o t)[j] = a + j - 1
<1>1. s \o t \in Seq(Nat) /\ Len(s \o t) = h + Len(t) /\ Len(t) \in Nat
  BY ConcatLen, Zenon
<1>2. PICK u, k : u = s \o t /\ k = Len(t)
  OBVIOUS
<1>3. /\ \A j \in 1..h : u[j] = s[j]
      /\ \A j \in 1..k : u[h + j] = t[j]
  BY <1>2
<1>4. ASSUME NEW j \in 1..(h + k)
      PROVE  u[j] = a + j - 1
  <2>1. CASE j <= h
    <3>1. j \in 1..h
      BY <1>4, <2>1
    <3> QED
      BY <1>3, <3>1, Zenon
  <2>2. CASE ~(j <= h)
    <3>1. PICK i : i = j - h
      OBVIOUS
    <3>2. i \in 1..k /\ h + i = j /\ (a + h) + i - 1 = a + j - 1
      BY <1>1, <1>2, <1>4, <2>2, <3>1
    <3>3. t[i] = (a + h) + i - 1
      BY <1>2, <3>2, Zenon
    <3> QED
      BY <1>3, <3>2, <3>3, Zenon
  <2> QED
    BY <2>1, <2>2
<1> QED
  BY <1>1, <1>2, <1>4, Zenon

\* Mwr does not meet the last chunk of a request when it has to cut it at the end of the buffer:
\* MWR_FWD_1ST_BUF would leave the rest to a state that waits for one more chunk.
WholeLastChunk == ~(mwr.st = "FWD_1ST_BUF" /\ mwr.nr < Chunk /\ data # <<>> /\ Head(data).last)

\* What Mwr does with the next chunk while it writes up to the end of the buffer.
FirstBranch(c, next) ==
    /\ mwr.nr > Chunk
    /\ WriteChunk(c, FALSE, wrCmd)
    /\ mwr' = [mwr EXCEPT !.nr = @ - Chunk]
SecondBranch(c, next) ==
    /\ mwr.nr = Chunk
    /\ WriteChunk(c, TRUE, Append(wrCmd, next))
    /\ mwr' = [mwr EXCEPT !.st = "FWD_ALIGNED"]
ThirdBranch(c, next) ==
    /\ mwr.nr < Chunk
    /\ WriteChunk(Take(c, mwr.nr), TRUE, Append(wrCmd, next))
    /\ mwr' = [mwr EXCEPT !.st = "FWD_2ND_BUF", !.cur = Drop(c, mwr.nr)]

LEMMA BytesMwrFirst ==
    ASSUME TaiTypes, WrTypes, TxeTypes, Pointers, WholeLastChunk, NEW w, WrittenTo(w), MwrFirst
    PROVE  BytesLine'
<1>1. PICK c, b, e : c = Head(data) /\ b = c.bytes /\ e = [addr |-> 0, len |-> mwr.btt - (BufSize - mwr.addr)]
  OBVIOUS
<1>2. /\ mwr.st = "FWD_1ST_BUF" /\ data # <<>> /\ data' = Tail(data)
      /\ FirstBranch(b, e) \/ SecondBranch(b, e) \/ ThirdBranch(b, e)
      /\ UNCHANGED <<app, tash, tst, meta>>
  BY <1>1, Zenon DEF MwrFirst, FirstBranch, SecondBranch, ThirdBranch
<1>3. Forwarding /\ mwr.st # "IDLE" /\ ~Holding
  BY <1>2 DEF Forwarding, Holding
<1>4. w \in Int /\ w < app.next /\ AtFirst(w)
  BY <1>3, Zenon DEF WrittenTo, MwrLine
<1>5. PICK r, x, k : r = Left(w) /\ x = w % BufSize /\ k = mwr.nr
  OBVIOUS
<1>6. r \in Nat \ {0} /\ r < BufSize /\ x \in 0..(BufSize - 1) /\ k = BufSize - x /\ k < r /\ k \in Nat \ {0}
  <2>1. Left(w) \in 1..app.len /\ app.len \in 1..(BufSize - 1)
    BY <1>4, LeftIs, Zenon
  <2>2. r \in Nat \ {0} /\ r < BufSize
    BY <1>5, <2>1, Sizes
  <2>3. x \in 0..(BufSize - 1)
    BY <1>4, <1>5, Sizes
  <2>4. k = BufSize - x /\ k < r
    BY <1>2, <1>4, <1>5, Zenon DEF AtFirst
  <2>5. k \in Nat \ {0}
    BY <2>3, <2>4, Sizes
  <2> QED
    BY <2>2, <2>3, <2>4, <2>5
<1>7. Held = 0 /\ w + Held = w
  <2>1. Held = 0
    BY <1>3, Zenon DEF Held
  <2> QED
    BY <1>4, <2>1
<1>8. PICK z \in Int :
          /\ Piece(c, w, z, app.next, app.len) /\ Stock(data', z, app.next, app.next, app.len)
          /\ b \in Seq(Nat) /\ c.last \in BOOLEAN
  BY <1>1, <1>2, <1>7, ChunkIs, Zenon
<1>9. /\ Len(b) = (IF r <= Chunk THEN r ELSE Chunk) /\ Len(b) \in Nat \ {0}
      /\ z = w + Len(b) /\ (c.last <=> r <= Chunk)
      /\ \A j \in 1..Len(b) : b[j] = w + j - 1
  BY <1>1, <1>4, <1>5, <1>6, <1>8, PieceIs, Zenon
<1>10. /\ Head(wrCmd).addr = x /\ wrCmd \in Commands /\ wrCmd # <<>> /\ Len(wrCmd) = 1 /\ Head(wrCmd) = wrCmd[1]
       /\ \A d \in [addr : Nat, len : Int] :
             /\ Append(wrCmd, d) \in Commands /\ Append(wrCmd, d) # <<>> /\ Head(Append(wrCmd, d)) = wrCmd[1]
  BY <1>3, <1>5, CommandHead, Zenon
<1>11. e \in [addr : Nat, len : Int] /\ e.addr = 0
  BY <1>1, Sizes DEF WrTypes
<1>12. PICK cmds : cmds = Append(wrCmd, e)
  OBVIOUS
<1>13. Head(cmds).addr = x
  BY <1>10, <1>11, <1>12, Zenon
<1>14. r > Chunk /\ Len(b) = Chunk /\ z = w + Chunk /\ ~c.last
  <2>1. CASE k < Chunk
    <3>1. ~c.last
      BY <1>1, <1>2, <1>5, <2>1, Zenon DEF WholeLastChunk
    <3> QED
      BY <1>6, <1>9, <3>1, Sizes
  <2>2. CASE ~(k < Chunk)
    <3>1. r > Chunk
      BY <1>6, <2>2, Sizes
    <3> QED
      BY <1>6, <1>9, <3>1, Sizes
  <2> QED
    BY <2>1, <2>2
<1>15. ASSUME NEW d \in Nat \ {0}, d < r, NEW v, v = w + d
       PROVE  Left(v) = r - d /\ Left(v)' = r - d /\ v \in Int
  <2>1. Left(v) = r - d
    BY <1>4, <1>5, <1>15, LeftIs, Zenon
  <2>2. Left(v)' = Left(v)
    BY <1>2, Zenon DEF Left
  <2> QED
    BY <1>4, <1>15, <2>1, <2>2
<1>16. CASE FirstBranch(b, e)
  <2>1. k > Chunk /\ WriteChunk(b, FALSE, wrCmd) /\ mwr' = [mwr EXCEPT !.nr = @ - Chunk]
    BY <1>5, <1>16, Zenon DEF FirstBranch
  <2>2. mwr'.st = "FWD_1ST_BUF" /\ mwr'.nr = k - Chunk
    BY <1>2, <1>5, <2>1 DEF WrTypes
  <2>3. Forwarding' /\ ~Holding'
    BY <2>2 DEF Forwarding, Holding
  <2>4. Chunk \in Nat \ {0} /\ Chunk < r /\ x + Chunk < BufSize /\ x + Chunk <= BufSize
    BY SMTT(40), <1>6, <1>14, <2>1, Sizes
  <2>5. z % BufSize = x + Chunk
    BY <1>4, <1>5, <1>14, <2>4, CellOn
  <2>6. Left(z)' = r - Chunk
    BY <1>14, <1>15, <2>4, Zenon
  <2>7. wrCmd'[1].addr = z % BufSize
    <3>1. Len(b) \in Nat
      BY <1>9
    <3>2. wrCmd'[1].addr = Head(wrCmd).addr + Len(b)
      BY <1>10, <2>1, <3>1, CommandOn, Zenon
    <3> QED
      BY <1>10, <1>14, <2>5, <3>2, Zenon
  <2>8. AtSecond(z)' /\ AtBorder(z)'
    BY <2>2, <2>3 DEF AtSecond, AtBorder
  <2>9. AtFirst(z)'
    <3>1. k - Chunk = BufSize - (x + Chunk) /\ k - Chunk < r - Chunk
      BY <1>6, <2>4, Sizes
    <3>2. LastPart(r - Chunk) = LastPart(app.len)
      <4>1. LastPart(r) = LastPart(app.len)
        BY <1>2, <1>4, <1>5, Zenon DEF AtFirst
      <4>2. PICK y : y = r - Chunk
        OBVIOUS
      <4>3. y \in Int /\ y + Chunk = r /\ 0 \in Int /\ Chunk \in Nat \ {0}
        BY <1>6, <2>4, <4>2
      <4>4. Rem(y + Chunk, Chunk, 0) = Rem(y, Chunk, 0)
        BY <4>3, RemTurn, Zenon
      <4> QED
        BY <4>1, <4>2, <4>3, <4>4, Zenon DEF LastPart
    <3>3. app' = app
      BY <1>2, Zenon
    <3> QED
      BY <2>2, <2>5, <2>6, <3>1, <3>2, <3>3, Zenon DEF AtFirst, LastPart
  <2>10. Stock(data', z + Held', app.next, app.next, app.len)
    <3>1. Held' = 0
      BY <2>3, Zenon DEF Held
    <3>2. z + Held' = z
      BY <1>8, <3>1
    <3> QED
      BY <1>8, <3>2, Zenon
  <2>11. PICK d, la : d = Chunk /\ la = FALSE /\ la \in BOOLEAN
    OBVIOUS
  <2>12. WriteChunk(b, la, wrCmd) /\ (la => z % BufSize = 0)
    BY <2>1, <2>11, Zenon
  <2>13. WrittenTo(z)'
    BY <1>2, <1>3, <1>5, <1>8, <1>9, <1>10, <1>14, <2>3, <2>4, <2>7, <2>8, <2>9, <2>10, <2>11, <2>12, WriteOn, Zenon
  <2> QED
    BY <2>13, Zenon DEF BytesLine
<1>17. CASE SecondBranch(b, e)
  <2>1. k = Chunk /\ WriteChunk(b, TRUE, cmds) /\ mwr' = [mwr EXCEPT !.st = "FWD_ALIGNED"]
    BY <1>5, <1>12, <1>17, Zenon DEF SecondBranch
  <2>2. mwr'.st = "FWD_ALIGNED"
    BY <2>1 DEF WrTypes
  <2>3. Forwarding' /\ ~Holding'
    BY <2>2 DEF Forwarding, Holding
  <2>4. Chunk \in Nat \ {0} /\ Chunk < r /\ x + Chunk = BufSize /\ x + Chunk <= BufSize
    BY SMTT(40), <1>6, <1>14, <2>1, Sizes
  <2>5. z % BufSize = 0
    <3>1. Chunk \in Int
      BY <2>4
    <3> QED
      BY <1>4, <1>5, <1>14, <2>4, <3>1, CellEnd
  <2>6. Left(z)' = r - Chunk
    BY <1>14, <1>15, <2>4, Zenon
  <2>7. wrCmd'[1].addr = z % BufSize
    <3>1. wrCmd'[1] = e
      BY <1>10, <1>11, <1>12, <2>1, CommandNext, Zenon
    <3> QED
      BY <1>11, <2>5, <3>1, Zenon
  <2>8. AtFirst(z)' /\ AtBorder(z)'
    BY <2>2, <2>3 DEF AtFirst, AtBorder
  <2>9. AtSecond(z)'
    <3>1. 0 + (r - Chunk) <= BufSize
      BY <1>6, <2>4, Sizes
    <3>2. (z % BufSize) + Left(z)' <= BufSize
      BY <2>5, <2>6, <3>1, Zenon
    <3> QED
      BY <3>2, Zenon DEF AtSecond
  <2>10. Stock(data', z + Held', app.next, app.next, app.len)
    <3>1. Held' = 0
      BY <2>3, Zenon DEF Held
    <3>2. z + Held' = z
      BY <1>8, <3>1
    <3> QED
      BY <1>8, <3>2, Zenon
  <2>11. PICK d, la : d = Chunk /\ la = TRUE /\ la \in BOOLEAN
    OBVIOUS
  <2>12. WriteChunk(b, la, cmds) /\ (la => z % BufSize = 0)
    BY <2>1, <2>5, <2>11, Zenon
  <2>13. WrittenTo(z)'
    BY <1>2, <1>3, <1>5, <1>8, <1>9, <1>13, <1>14, <2>3, <2>4, <2>7, <2>8, <2>9, <2>10, <2>11, <2>12, WriteOn, Zenon
  <2> QED
    BY <2>13, Zenon DEF BytesLine
<1>18. CASE ThirdBranch(b, e)
  <2>0. PICK s, t, v : s = Take(b, k) /\ t = Drop(b, k) /\ v = w + k
    OBVIOUS
  <2>1. k < Chunk /\ WriteChunk(s, TRUE, cmds) /\ mwr' = [mwr EXCEPT !.st = "FWD_2ND_BUF", !.cur = t]
    BY <1>5, <1>12, <1>18, <2>0, Zenon DEF ThirdBranch
  <2>2. mwr'.st = "FWD_2ND_BUF" /\ mwr'.nr = k /\ mwr'.cur = t
    BY <1>5, <2>1 DEF WrTypes
  <2>3. Forwarding' /\ Holding'
    BY <2>2 DEF Forwarding, Holding
  <2>4. k < r /\ x + k = BufSize /\ x + k <= BufSize /\ k \in Int /\ k \in Nat
    BY <1>6, Sizes
  <2>5. v % BufSize = 0
    BY <1>4, <1>5, <2>0, <2>4, CellEnd
  <2>6. Left(v)' = r - k /\ v \in Int
    BY <1>6, <1>15, <2>0, <2>4, Zenon
  <2>7. wrCmd'[1].addr = v % BufSize
    <3>1. wrCmd'[1] = e
      BY <1>10, <1>11, <1>12, <2>1, CommandNext, Zenon
    <3> QED
      BY <1>11, <2>5, <3>1, Zenon
  <2>8. /\ s \in Seq(Nat) /\ Len(s) = (IF k < Len(b) THEN k ELSE Len(b)) /\ \A j \in 1..Len(s) : s[j] = w + j - 1
        /\ k <= Len(b) => Len(t) = Len(b) - k /\ \A j \in 1..Len(t) : t[j] = v + j - 1
    <3>1. /\ Take(b, k) \in Seq(Nat) /\ Drop(b, k) \in Seq(Nat)
          /\ Len(Take(b, k)) = (IF k < Len(b) THEN k ELSE Len(b))
          /\ \A j \in 1..Len(Take(b, k)) : Take(b, k)[j] = w + j - 1
          /\ k <= Len(b) => Len(Drop(b, k)) = Len(b) - k /\ \A j \in 1..Len(Drop(b, k)) : Drop(b, k)[j] = (w + k) + j - 1
      BY <1>4, <1>8, <1>9, <2>4, CutIs, Zenon
    <3> QED
      BY <2>0, <3>1, Zenon
  <2>9. /\ k < Len(b) /\ k <= Len(b)
    BY SMTT(40), <1>6, <1>14, <2>1, Sizes
  <2>10. Len(s) = k /\ Len(t) = Chunk - k /\ \A j \in 1..Len(t) : t[j] = v + j - 1
    BY <1>14, <2>8, <2>9, Zenon
  <2>11. AtFirst(v)'
    BY <2>2 DEF AtFirst
  <2>12. AtSecond(v)'
    <3>1. 0 + (r - k) <= BufSize
      BY <1>6, Sizes
    <3>2. (v % BufSize) + Left(v)' <= BufSize
      BY <2>5, <2>6, <3>1, Zenon
    <3> QED
      BY <3>2, Zenon DEF AtSecond
  <2>13. AtBorder(v)'
    <3>1. k \in 1..(Chunk - 1) /\ Chunk - k < r - k
      BY SMTT(40), <1>6, <1>14, <2>1, Sizes
    <3>2. mwr'.st # "RESIDUE"
      BY <2>2
    <3> QED
      BY <2>2, <2>6, <2>10, <3>1, <3>2, Zenon DEF AtBorder
  <2>14. Stock(data', v + Held', app.next, app.next, app.len)
    <3>1. Held' = Chunk - k
      BY <2>2, <2>3, <2>10, Zenon DEF Held
    <3>2. v + Held' = z
      BY <1>4, <1>6, <1>14, <2>0, <3>1, Sizes
    <3> QED
      BY <1>8, <3>2, Zenon
  <2>15. PICK la \in BOOLEAN : la = TRUE
    OBVIOUS
  <2>16. WriteChunk(s, la, cmds) /\ (la => v % BufSize = 0)
    BY <2>1, <2>5, <2>15, Zenon
  <2>17. WrittenTo(v)'
    BY <1>2, <1>3, <1>5, <1>6, <1>13, <2>0, <2>3, <2>4, <2>7, <2>8, <2>10, <2>11, <2>12, <2>13, <2>14, <2>16, WriteOn, Zenon
  <2> QED
    BY <2>17, Zenon DEF BytesLine
<1> QED
  BY <1>2, <1>16, <1>17, <1>18

LEMMA BytesMwrSecond ==
    ASSUME TaiTypes, WrTypes, TxeTypes, Pointers, NEW w, WrittenTo(w), MwrSecond
    PROVE  BytesLine'
<1>1. PICK c, b, k, cur : c = Head(data) /\ b = c.bytes /\ k = mwr.nr /\ cur = mwr.cur
  OBVIOUS
<1>2. PICK s, t, u, done : s = Take(b, k) /\ t = Drop(b, k) /\ u = cur \o s /\ done = (c.last /\ Len(b) <= k) /\ done \in BOOLEAN
  OBVIOUS
<1>3. /\ mwr.st = "FWD_2ND_BUF" /\ data # <<>> /\ data' = Tail(data)
      /\ WriteChunk(u, done, wrCmd)
      /\ mwr' = [mwr EXCEPT !.cur = t, !.st = IF done THEN "IDLE" ELSE IF c.last THEN "RESIDUE" ELSE @]
      /\ UNCHANGED <<app, tash, tst, meta>>
  BY <1>1, <1>2, Zenon DEF MwrSecond
<1>4. Forwarding /\ mwr.st # "IDLE" /\ Holding
  BY <1>3 DEF Forwarding, Holding
<1>5. w \in Int /\ w < app.next /\ AtSecond(w) /\ AtBorder(w)
  BY <1>4, Zenon DEF WrittenTo, MwrLine
<1>6. PICK r, x, h : r = Left(w) /\ x = w % BufSize /\ h = Len(cur)
  OBVIOUS
<1>7. k \in 1..(Chunk - 1) /\ h = Chunk - k /\ h < r /\ \A j \in 1..Len(cur) : cur[j] = w + j - 1
  BY <1>1, <1>3, <1>4, <1>5, <1>6, Zenon DEF AtBorder
<1>8. /\ r \in Nat \ {0} /\ r < BufSize /\ x \in 0..(BufSize - 1) /\ x + r <= BufSize
      /\ k \in Nat \ {0} /\ k \in Nat /\ h \in Nat \ {0} /\ h \in Nat /\ k + h = Chunk /\ r - h \in Nat \ {0}
  <2>1. Left(w) \in 1..app.len /\ app.len \in 1..(BufSize - 1)
    BY <1>5, LeftIs, Zenon
  <2>2. r \in Nat \ {0} /\ r < BufSize
    BY <1>6, <2>1, Sizes
  <2>3. x \in 0..(BufSize - 1)
    BY <1>5, <1>6, Sizes
  <2>4. x + r <= BufSize
    BY <1>3, <1>5, <1>6, Zenon DEF AtSecond
  <2>5. k \in Nat \ {0} /\ k \in Nat /\ h \in Nat \ {0} /\ h \in Nat /\ k + h = Chunk /\ r - h \in Nat \ {0}
    BY <1>7, <2>2, Sizes
  <2> QED
    BY <2>2, <2>3, <2>4, <2>5
<1>9. cur \in Seq(Nat)
  BY <1>1 DEF WrTypes
<1>10. PICK a : a = w + h
  OBVIOUS
<1>11. a \in Int /\ Left(a) = r - h /\ w + Held = a
  <2>1. Held = h
    BY <1>1, <1>4, <1>6, Zenon DEF Held
  <2>2. Left(a) = r - h
    BY <1>5, <1>6, <1>7, <1>8, <1>10, LeftIs, Zenon
  <2> QED
    BY <1>5, <1>8, <1>10, <2>1, <2>2
<1>12. PICK z \in Int :
          /\ Piece(c, a, z, app.next, app.len) /\ Stock(data', z, app.next, app.next, app.len)
          /\ b \in Seq(Nat) /\ c.last \in BOOLEAN
  BY <1>1, <1>3, <1>11, ChunkIs, Zenon
<1>13. PICK m, q : m = Len(b) /\ q = r - h
  OBVIOUS
<1>14. /\ m = (IF q <= Chunk THEN q ELSE Chunk) /\ m \in Nat \ {0} /\ q \in Nat \ {0}
       /\ z = a + m /\ (c.last <=> q <= Chunk)
       /\ \A j \in 1..Len(b) : b[j] = a + j - 1
  BY <1>1, <1>8, <1>11, <1>12, <1>13, PieceIs, Zenon
<1>15. /\ s \in Seq(Nat) /\ Len(s) = (IF k < m THEN k ELSE m) /\ \A j \in 1..Len(s) : s[j] = a + j - 1
       /\ k <= m => Len(t) = m - k /\ \A j \in 1..Len(t) : t[j] = (a + k) + j - 1
  <2>1. /\ Take(b, k) \in Seq(Nat) /\ Drop(b, k) \in Seq(Nat)
        /\ Len(Take(b, k)) = (IF k < Len(b) THEN k ELSE Len(b))
        /\ \A j \in 1..Len(Take(b, k)) : Take(b, k)[j] = a + j - 1
        /\ k <= Len(b) => Len(Drop(b, k)) = Len(b) - k /\ \A j \in 1..Len(Drop(b, k)) : Drop(b, k)[j] = (a + k) + j - 1
    <3>1. k \in Nat /\ a \in Int /\ b \in Seq(Nat) /\ \A j \in 1..Len(b) : b[j] = a + j - 1
      BY <1>8, <1>11, <1>12, <1>14, Zenon
    <3> QED
      BY <3>1, CutIs
  <2> QED
    BY <1>2, <1>13, <2>1, Zenon
<1>16. u \in Seq(Nat) /\ Len(u) = h + Len(s) /\ \A j \in 1..Len(u) : u[j] = w + j - 1
  <2>1. \A j \in 1..Len(s) : s[j] = (w + h) + j - 1
    BY <1>10, <1>15, Zenon
  <2>2. /\ cur \o s \in Seq(Nat) /\ Len(cur \o s) = h + Len(s)
        /\ \A j \in 1..Len(cur \o s) : (cur \o s)[j] = w + j - 1
    BY <1>5, <1>6, <1>7, <1>8, <1>9, <1>15, <2>1, GlueIs, Zenon
  <2> QED
    BY <1>2, <2>2, Zenon
<1>17. Head(wrCmd).addr = x /\ wrCmd \in Commands /\ wrCmd # <<>>
  BY <1>4, <1>6, CommandHead, Zenon
<1>18. CASE done
  <2>1. q <= Chunk /\ m <= k
    BY <1>2, <1>13, <1>14, <1>18
  <2>2. Len(u) = r /\ z = w + r
    BY <1>5, <1>8, <1>10, <1>13, <1>14, <1>15, <1>16, <2>1
  <2>3. mwr'.st = "IDLE"
    BY <1>3, <1>18 DEF WrTypes
  <2>4. WriteChunk(u, TRUE, wrCmd)
    BY <1>3, <1>18
  <2>5. WrittenTo(z)'
    BY <1>3, <1>6, <1>12, <1>16, <2>2, <2>3, <2>4, WriteEnd, Zenon
  <2> QED
    BY <2>5, Zenon DEF BytesLine
<1>19. CASE ~done
  <2>1. PICK v, d : v = w + d /\ d = Chunk
    OBVIOUS
  <2>2. k <= m /\ (c.last => k < m)
    <3>1. CASE c.last
      <4>1. ~(m <= k)
        BY <1>2, <1>13, <1>19, <3>1, Zenon
      <4> QED
        BY <1>8, <1>14, <4>1
    <3>2. CASE ~c.last
      BY <1>7, <1>14, <3>2, Sizes
    <3> QED
      BY <3>1, <3>2
  <2>3. d = Len(u) /\ d \in Nat \ {0} /\ d \in Nat /\ a + k = v /\ v \in Int
    <3>1. Len(s) = k
      BY <1>8, <1>14, <1>15, <2>2
    <3> QED
      BY <1>5, <1>8, <1>10, <1>16, <2>1, <3>1, Sizes
  <2>4. Len(t) = m - k /\ \A j \in 1..Len(t) : t[j] = v + j - 1
    BY <1>15, <2>2, <2>3, Zenon
  <2>5. d < r /\ x + d < BufSize /\ x + d <= BufSize
    <3>1. CASE c.last
      BY <1>8, <1>13, <1>14, <2>1, <2>2, <3>1, Sizes
    <3>2. CASE ~c.last
      BY <1>8, <1>13, <1>14, <2>1, <3>2, Sizes
    <3> QED
      BY <3>1, <3>2
  <2>6. Left(v)' = r - d
    <3>1. Left(v) = r - d
      BY <1>5, <1>6, <2>1, <2>3, <2>5, LeftIs, Zenon
    <3>2. Left(v)' = Left(v)
      BY <1>3, Zenon DEF Left
    <3> QED
      BY <3>1, <3>2
  <2>7. v % BufSize = x + d
    BY <1>5, <1>6, <2>1, <2>3, <2>5, CellOn
  <2>8. mwr'.st = (IF c.last THEN "RESIDUE" ELSE "FWD_2ND_BUF") /\ mwr'.nr = k /\ mwr'.cur = t
    BY <1>1, <1>3, <1>19 DEF WrTypes
  <2>9. Forwarding' /\ Holding'
    BY <2>8 DEF Forwarding, Holding
  <2>10. wrCmd'[1].addr = v % BufSize
    <3>1. WriteChunk(u, FALSE, wrCmd)
      BY <1>2, <1>3, <1>19
    <3>2. Len(u) \in Nat
      BY <2>3
    <3>3. wrCmd'[1].addr = Head(wrCmd).addr + Len(u)
      BY <1>17, <3>1, <3>2, CommandOn, Zenon
    <3> QED
      BY <1>17, <2>3, <2>7, <3>3, Zenon
  <2>11. AtFirst(v)'
    BY <2>8 DEF AtFirst
  <2>12. AtSecond(v)'
    <3>1. (x + d) + (r - d) <= BufSize
      BY <1>8, <2>3, <2>5
    <3>2. (v % BufSize) + Left(v)' <= BufSize
      BY <2>6, <2>7, <3>1, Zenon
    <3> QED
      BY <3>2, Zenon DEF AtSecond
  <2>13. AtBorder(v)'
    <3>1. CASE c.last
      <4>1. mwr'.st = "RESIDUE" /\ mwr'.st # "FWD_2ND_BUF"
        BY <2>8, <3>1
      <4>2. m - k = r - d
        BY <1>8, <1>13, <1>14, <2>1, <3>1, Sizes
      <4> QED
        BY <2>4, <2>6, <2>8, <4>1, <4>2, Zenon DEF AtBorder
    <3>2. CASE ~c.last
      <4>1. mwr'.st = "FWD_2ND_BUF" /\ mwr'.st # "RESIDUE"
        BY <2>8, <3>2
      <4>2. m - k = Chunk - k /\ m - k < r - d
        BY <1>8, <1>13, <1>14, <2>1, <3>2, Sizes
      <4> QED
        BY <1>7, <2>4, <2>6, <2>8, <4>1, <4>2, Zenon DEF AtBorder
    <3> QED
      BY <3>1, <3>2
  <2>14. Stock(data', v + Held', app.next, app.next, app.len)
    <3>1. Held' = m - k
      BY <2>4, <2>8, <2>9, Zenon DEF Held
    <3>2. v + Held' = z
      <4>1. PICK y : y = Held'
        OBVIOUS
      <4>2. y = m - k /\ m \in Int /\ k \in Int /\ a \in Int /\ v = a + k /\ z = a + m
        BY <1>8, <1>11, <1>14, <2>3, <3>1, <4>1
      <4> QED
        BY <4>1, <4>2
    <3> QED
      BY <1>12, <3>2, Zenon
  <2>15. done => v % BufSize = 0
    BY <1>19
  <2>16. WrittenTo(v)'
    BY <1>2, <1>3, <1>4, <1>6, <1>16, <1>17, <2>1, <2>3, <2>5, <2>9, <2>10, <2>11, <2>12, <2>13, <2>14, <2>15, WriteOn, Zenon
  <2> QED
    BY <2>16, Zenon DEF BytesLine
<1> QED
  BY <1>18, <1>19

----------------------------------------------------------------------------
(* Every step *)

LEMMA BytesQuiet ==
    ASSUME TaiTypes, TxeTypes, NEW w, WrittenTo(w), app'.next = app.next, app'.len = app.len,
           UNCHANGED <<data, meta, wr>>, tash'.st = "RD_MEM_STATUS_2" <=> tash.st = "RD_MEM_STATUS_2",
           A <= A', A' \in Int, P' = P
    PROVE  BytesLine'
<1>1. UNCHANGED <<data, meta, mwr, wrCmd, mem, sts>>
  BY Zenon DEF wr
<1>2. Statuses' = Statuses
  BY <1>1, Zenon DEF Statuses
<1>3. MarkLine(w)'
  <2>1. MarkLine(w)
    BY Zenon DEF WrittenTo
  <2> QED
    BY <1>2, <2>1, MarkKeep, Zenon
<1>4. WrittenTo(w)'
  BY <1>1, <1>3, BytesKeep, Zenon
<1> QED
  BY <1>4, Zenon DEF BytesLine

LEMMA UncutIs ==
    ASSUME WrTypes, MwrUncut
    PROVE  Uncut'
<1>1. mwr' = [mwr EXCEPT !.st = "UNCUT"]
  BY Zenon DEF MwrUncut
<1> QED
  BY <1>1 DEF WrTypes, Uncut

\* Mwr is not followed beyond a chunk that it has written uncut.
LEMMA UncutStays ==
    ASSUME [Next]_vars, Uncut
    PROVE  Uncut'
<1>0. Actions \/ UNCHANGED vars
  BY NextIs
<1>1. CASE UNCHANGED mwr
  BY <1>1, Zenon DEF Uncut
<1>2. CASE MwrIdle \/ MwrSplit \/ MwrAligned \/ MwrFirst \/ MwrUncut \/ MwrSecond \/ MwrResidue
  <2>1. mwr.st \in {"IDLE", "SPLIT_1ST_CMD", "FWD_ALIGNED", "FWD_1ST_BUF", "FWD_2ND_BUF", "RESIDUE"}
    BY <1>2 DEF MwrIdle, MwrSplit, MwrAligned, MwrFirst, MwrUncut, MwrSecond, MwrResidue
  <2> QED
    BY <2>1 DEF Uncut
<1>3. CASE \/ AppRequest \/ AppClose \/ SmlRequest \/ TatAnswer \/ SmlAccept \/ SmlRefuse \/ TatPush \/ Emx
           \/ TashIdle \/ TashStatus1 \/ TashStatus2
  BY <1>1, <1>3, Zenon DEF AppRequest, AppClose, SmlRequest, TatAnswer, SmlAccept, SmlRefuse, TatPush, Emx, TashIdle,
     TashStatus1, TashStatus2, wr
<1>4. CASE MdlWait \/ MdlTx \/ MdlRt \/ MdlFin \/ MrdFirst \/ MrdSecond \/ TssHeader \/ TssSegment
  BY <1>1, <1>4, Zenon DEF MdlWait, MdlTx, MdlRt, MdlFin, MrdFirst, MrdSecond, TssHeader, TssSegment, wr
<1>5. CASE RxeLoad \/ RxeTransition \/ TImExpire \/ (\E w \in Windows : PeerTakes(w)) \/ Lose \/ UNCHANGED vars
  BY <1>1, <1>5, Zenon DEF RxeLoad, RxeTransition, TImExpire, PeerTakes, Lose, wr, vars
<1> QED
  BY <1>0, <1>2, <1>3, <1>4, <1>5, Zenon DEF Actions

LEMMA BytesStep ==
    ASSUME IInv, WholeLastChunk, BytesLine, [Next]_vars, InTime, ~Uncut'
    PROVE  BytesLine'
<1>0. Actions \/ UNCHANGED vars
  BY NextIs
<1>t. TaiTypes /\ WrTypes /\ TxeTypes /\ NetTypes /\ FinLine /\ DataLine /\ SpaceLine /\ Pointers /\ AckLine
  BY Zenon DEF IInv, Types
<1>w. PICK w : WrittenTo(w)
  BY Zenon DEF BytesLine
<1>a. app'.len = app.len /\ (~SmlAccept => app'.next = app.next)
  BY <1>0, <1>t, AppStep, Zenon
<1>b. A \in Int /\ A <= A
  <2>1. A \in Int
    BY <1>t, PointerFacts, Zenon
  <2> QED
    BY <2>1
<1>1. CASE SmlAccept
  <2>1. WrittenTo(w)'
    BY <1>1, <1>t, <1>w, BytesSmlAccept, Zenon DEF InTime
  <2> QED
    BY <2>1, Zenon DEF BytesLine
<1>2. CASE MwrIdle \/ MwrSplit
  <2>1. WrittenTo(w)'
    BY <1>2, <1>t, <1>w, BytesMwrIdle, BytesMwrSplit, Zenon
  <2> QED
    BY <2>1, Zenon DEF BytesLine
<1>3. CASE MwrAligned \/ MwrFirst \/ MwrSecond \/ MwrResidue
  BY <1>3, <1>t, <1>w, BytesMwrAligned, BytesMwrFirst, BytesMwrSecond, BytesMwrResidue, Zenon
<1>3a. ~MwrUncut
  BY <1>t, UncutIs, Zenon
<1>4. CASE TashStatus1 \/ TashStatus2
  <2>1. WrittenTo(w)'
    BY <1>4, <1>t, <1>w, BytesCarry, BytesAnnounce, Zenon
  <2> QED
    BY <2>1, Zenon DEF BytesLine
<1>5. CASE /\ ~SmlAccept /\ UNCHANGED <<data, meta, wr, tst>>
           /\ tash'.st = "RD_MEM_STATUS_2" <=> tash.st = "RD_MEM_STATUS_2"
  <2>1. app'.next = app.next
    BY <1>5, <1>a, Zenon
  <2>2. A' = A /\ P' = P
    BY <1>5, <2>1, Zenon DEF A, P, SeqPos, BufPos
  <2>3. A <= A' /\ A' \in Int
    BY <1>b, <2>2
  <2> QED
    BY <1>5, <1>a, <1>t, <1>w, <2>1, <2>2, <2>3, BytesQuiet, Zenon
<1>6. CASE ~SmlAccept /\ UNCHANGED <<data, meta, wr, tst, tash>>
  BY <1>5, <1>6, Zenon
<1>7. CASE AppRequest \/ AppClose \/ SmlRequest \/ TatAnswer \/ SmlRefuse \/ TatPush \/ Emx
  <2>1. UNCHANGED <<data, meta, wr, tst, tash>>
    BY <1>7, Zenon DEF AppRequest, AppClose, SmlRequest, TatAnswer, SmlRefuse, TatPush, Emx
  <2> QED
    BY <1>1, <1>6, <2>1
<1>8. CASE TashIdle
  <2>1. /\ UNCHANGED <<data, meta, wr, tst>> /\ tash.st = "IDLE"
        /\ tash' = [st |-> "RD_MEM_STATUS_1", ev |-> Head(emxEv)] \/ tash' = tash
    BY <1>8, Zenon DEF TashIdle
  <2>2. tash'.st # "RD_MEM_STATUS_2" /\ tash.st # "RD_MEM_STATUS_2"
    BY <2>1
  <2> QED
    BY <1>1, <1>5, <2>1, <2>2
<1>9. CASE MdlTx \/ MdlRt \/ MdlFin
  <2>1. A' = A /\ P' = P
    BY <1>9, <1>t, MdlDoes, Zenon
  <2>2. UNCHANGED <<app, data, meta, wr, tash>>
    BY <1>9, Zenon DEF MdlTx, MdlRt, MdlFin, tai
  <2>3. A <= A' /\ A' \in Int
    BY <1>b, <2>1
  <2> QED
    BY <1>t, <1>w, <2>1, <2>2, <2>3, BytesQuiet, Zenon
<1>10. CASE RxeTransition
  <2>1. UNCHANGED <<app, tash>> /\ P' = P /\ A' \in Int /\ (Acknowledged \/ Ignored)
    BY <1>10, <1>t, TransitionIs, Zenon
  <2>2. UNCHANGED <<data, meta, wr>>
    BY <1>10, Zenon DEF RxeTransition, tai
  <2>3. A <= A'
    <3>1. CASE Acknowledged
      BY <3>1, Zenon DEF Acknowledged
    <3>2. CASE Ignored
      <4>1. A' = A
        BY <2>1, <3>2, Zenon DEF Ignored, A, SeqPos
      <4> QED
        BY <1>b, <4>1
    <3> QED
      BY <2>1, <3>1, <3>2, Zenon
  <2> QED
    BY <1>t, <1>w, <2>1, <2>2, <2>3, BytesQuiet, Zenon
<1>11. CASE MdlWait \/ MrdFirst \/ MrdSecond \/ TssHeader \/ TssSegment
  <2>1. UNCHANGED <<data, meta, wr, tst, tash>>
    BY <1>11, Zenon DEF MdlWait, MrdFirst, MrdSecond, TssHeader, TssSegment, tai
  <2> QED
    BY <1>1, <1>6, <2>1
<1>12. CASE RxeLoad \/ TImExpire \/ (\E v \in Windows : PeerTakes(v)) \/ Lose \/ UNCHANGED vars
  <2>1. UNCHANGED <<data, meta, wr, tst, tash>>
    BY <1>12, Zenon DEF RxeLoad, TImExpire, PeerTakes, Lose, tai, vars
  <2> QED
    BY <1>1, <1>6, <2>1
<1> QED
  BY <1>0, <1>1, <1>2, <1>3, <1>3a, <1>4, <1>7, <1>8, <1>9, <1>10, <1>11, <1>12, Zenon DEF Actions

\* Where data is not late and no chunk uncut, it was so before.
LEMMA SoFar ==
    ASSUME Upheld, [Next]_vars
    PROVE  /\ ~Late' => ~Late /\ IInv /\ IInv' /\ InTime
           /\ ~Uncut' => ~Uncut
<1>1. ~Uncut' => ~Uncut
  BY UncutStays, Zenon
<1>2. TaiTypes /\ DueLine
  BY Zenon DEF Upheld, Types
<1>3. (Late => Late') /\ (~Late' => InTime)
  BY <1>2, LateStays, Zenon
<1>4. Upheld'
  BY UpheldStep
<1> QED
  BY <1>1, <1>3, <1>4, Zenon DEF Upheld

LEMMA KeptAnyway ==
    ASSUME Types, Uncut
    PROVE  UnackedIsKept
<1>1. TypeOK
  BY TypesGiveTypeOK
<1> QED
  BY <1>1, Zenon DEF UnackedIsKept

\* At first the ring is empty, and Mwr is where the stream begins.
LEMMA InitBytes ==
    ASSUME NEW f \in Nat, NEW n \in 1..(BufSize - 1), NEW k \in Nat, InitFrom(f, n, k)
    PROVE  BytesLine
<1>1. \E w \in Windows : tst = [NoSar EXCEPT !.ackd = f % SeqMod, !.unak = f % SeqMod, !.app = Ptr(f), !.win = w]
  BY DEF InitFrom
<1>2. /\ app.next = f /\ app.len = n /\ data = <<>> /\ meta = <<>> /\ tash.st = "IDLE"
      /\ mwr.st = "IDLE" /\ sts = 0
  BY DEF InitFrom
<1>3. tst.ackd = f % SeqMod /\ tst.app = f % BufSize
  BY <1>1 DEF NoSar, Ptr
<1>4. /\ f \in Int /\ f + 1 - SeqMod < f /\ f <= f + 1 /\ f - BufSize < f /\ f <= f
      /\ n \in Nat \ {0} /\ SeqMod > 1
  BY Sizes
<1>5. A = f /\ P = f
  BY <1>2, <1>3, <1>4, SeqAtIs, BufAtIs, Zenon DEF A, P, SeqPos, BufPos
<1>6. Left(f) = app.len
  BY <1>2, <1>4, RemSelf, Zenon DEF Left
<1>7. ~Holding /\ ~Forwarding /\ Held = 0 /\ Rest(f) = f /\ Statuses = 0
  BY <1>2 DEF Holding, Forwarding, Held, Rest, Statuses
<1>8. MwrLine(f)
  <2>1. AtSplit(f) /\ AtFirst(f) /\ AtSecond(f)
    BY <1>2 DEF AtSplit, AtFirst, AtSecond
  <2>2. AtBorder(f) /\ AtCommand(f)
    BY <1>2, <1>7 DEF AtBorder, AtCommand
  <2> QED
    BY <1>6, <2>1, <2>2, Zenon DEF MwrLine, AtRest
<1>9. StockLine(f)
  <2>1. f + Held = f
    BY <1>7
  <2>2. Stock(<<>>, f, f, f, n)
    BY <1>4, StockNone, Zenon
  <2> QED
    BY <1>2, <2>1, <2>2, Zenon DEF StockLine
<1>10. MetaLine(f)
  <2>1. AsEvents(<<>>) = <<>>
    BY DEF AsEvents
  <2>2. Chain(<<>>, f, f, n)
    BY <1>4, ChainNone, Zenon
  <2> QED
    BY <1>2, <1>7, <2>1, <2>2, Zenon DEF MetaLine
<1>11. RingLine(f)
  <2>1. \A p \in Int : ~(f <= p /\ p < f)
    BY <1>4
  <2> QED
    BY <1>5, <2>1, Zenon DEF RingLine
<1>12. MarkLine(f)
  <2>1. Marked(0, f, f, f, n)
    BY MarkedNone, Zenon
  <2> QED
    BY <1>2, <1>4, <1>5, <1>6, <1>7, <2>1, Zenon DEF MarkLine
<1>13. WrittenTo(f)
  BY <1>2, <1>4, <1>8, <1>9, <1>10, <1>11, <1>12, Zenon DEF WrittenTo
<1> QED
  BY <1>13, Zenon DEF BytesLine

\* A position a whole buffer behind the peer, which sees it so or ahead of itself.
LEMMA PositionFar ==
    ASSUME NEW p \in Nat, peer.rcv \in Nat, peer.rcv = p + BufSize
    PROVE  Position(p % SeqMod) \in Int /\ (Position(p % SeqMod) = p \/ Position(p % SeqMod) > peer.rcv)
<1>1. PICK r, x, y : r = peer.rcv /\ x = r % SeqMod /\ y = p % SeqMod
  OBVIOUS
<1>2. r \in Int /\ p \in Int /\ x \in Int /\ y \in Int /\ p <= r /\ r < p + SeqMod
  BY <1>1, Sizes
<1>3. Same(x, r, SeqMod) /\ Same(y, p, SeqMod) /\ SeqMod \in Nat \ {0}
  <2>1. SeqMod \in Nat \ {0}
    BY Sizes
  <2> QED
    BY <1>1, <1>2, <2>1, SameSelf, Zenon
<1>4. Minus(x, y, SeqMod) = r - p
  BY <1>2, <1>3, MinusIs
<1>5. Position(y) = (IF 2 * (r - p) < SeqMod /\ r - p <= r THEN r - (r - p) ELSE r + SeqMod - (r - p))
  BY <1>1, <1>4, Zenon DEF Position
<1>6. Position(y) \in Int /\ (Position(y) = p \/ Position(y) > r)
  BY <1>1, <1>2, <1>5, Sizes
<1> QED
  BY <1>1, <1>6, Zenon

\* What has been sent and is not acknowledged is among the bytes the invariant is about.
LEMMA BytesInRing ==
    ASSUME IInv, BytesLine
    PROVE  UnackedIsKept
<1>t. TaiTypes /\ TxeTypes /\ NetTypes /\ FinLine /\ Pointers /\ AckLine /\ Types
  BY Zenon DEF IInv, Types
<1>1. TypeOK
  BY <1>t, TypesGiveTypeOK, Zenon
<1>w. PICK w : WrittenTo(w)
  BY Zenon DEF BytesLine
<1>2. PICK a, u, q, n, r : a = A /\ u = U /\ q = P /\ n = app.next /\ r = peer.rcv
  OBVIOUS
<1>3. /\ a \in Int /\ u \in Int /\ q \in Int /\ n \in Nat /\ r \in Nat
      /\ q <= n /\ n - BufSize < q /\ q % BufSize = tst.app
      /\ a % BufSize = Ptr(tst.ackd) /\ a % SeqMod = tst.ackd /\ u % SeqMod = tst.unak
  <2>1. r \in Nat
    BY <1>2, <1>t DEF NetTypes
  <2> QED
    BY <1>2, <1>t, <2>1, PointerFacts, Zenon
<1>4. /\ 0 <= a /\ n - BufSize < a /\ a <= u /\ (tst.finSent => u = n + 1) /\ (~tst.finSent => u <= q)
      /\ (tst.finSent => q = n)
  BY <1>2, <1>t, Zenon DEF Pointers, FinLine, FinAtMdl
<1>5. a <= r /\ r <= n + 1 /\ (r = n + 1 => tst.finSent)
  BY <1>2, <1>t, Zenon DEF AckLine, RcvLine
<1>6. q <= w /\ w \in Int /\ \A p \in Int : a <= p /\ p < w => mem[p % BufSize] = p
  BY <1>2, <1>w, Zenon DEF WrittenTo, RingLine, MarkLine
<1>7. a \in Nat /\ a <= r + BufSize
  BY <1>3, <1>4, <1>5, Sizes
<1>8. CASE r - BufSize < a
  <2>1. Position(tst.ackd) = a
    BY <1>2, <1>3, <1>7, <1>8, PositionIs, Zenon
  <2>2. AppPos \in Int /\ AppPos <= q
    <3>1. CASE tst.finSent
      <4>1. u \in Nat /\ r - BufSize < u /\ u <= r + BufSize
        BY <1>3, <1>4, <1>5, <3>1, Sizes
      <4>2. Position(tst.unak) = u
        BY <1>2, <1>3, <4>1, PositionIs, Zenon
      <4>3. AppPos = u - 1
        BY <3>1, <4>2, Zenon DEF AppPos
      <4> QED
        BY <1>3, <1>4, <3>1, <4>3
    <3>2. CASE ~tst.finSent
      <4>1. a <= q /\ q < a + BufSize
        BY <1>3, <1>4, <3>2, Sizes
      <4>2. Same(tst.app, q, BufSize) /\ Same(Ptr(tst.ackd), a, BufSize) /\ BufSize \in Nat \ {0}
        <5>1. BufSize \in Nat \ {0}
          BY Sizes
        <5>2. Same(q % BufSize, q, BufSize) /\ Same(a % BufSize, a, BufSize)
          BY <1>3, <5>1, SameSelf, Zenon
        <5> QED
          BY <1>3, <5>1, <5>2, Zenon
      <4>3. tst.app \in Int /\ Ptr(tst.ackd) \in Int
        <5>1. q % BufSize \in Int /\ a % BufSize \in Int
          BY <1>3, Sizes
        <5> QED
          BY <1>3, <5>1, Zenon
      <4>4. Minus(tst.app, Ptr(tst.ackd), BufSize) = q - a
        BY <1>3, <4>1, <4>2, <4>3, MinusIs
      <4>5. AppPos = a + (q - a)
        BY <2>1, <3>2, <4>4, Zenon DEF AppPos
      <4> QED
        BY <1>3, <4>5
    <3> QED
      BY <3>1, <3>2
  <2>3. \A p \in a..(AppPos - 1) : p \in Int /\ a <= p /\ p < w
    BY <1>3, <1>6, <2>2
  <2>4. \A p \in Position(tst.ackd)..(AppPos - 1) : mem[p % BufSize] = p
    BY <1>6, <2>1, <2>3, Zenon
  <2> QED
    BY <1>1, <2>4, Zenon DEF UnackedIsKept
<1>9. CASE ~(r - BufSize < a)
  <2>1. r = a + BufSize /\ r = n + 1 /\ tst.finSent
    BY <1>3, <1>4, <1>5, <1>9, Sizes
  <2>2. Position(tst.ackd) \in Int /\ (Position(tst.ackd) = a \/ Position(tst.ackd) > r)
    BY <1>2, <1>3, <1>7, <2>1, PositionFar, Zenon
  <2>3. u \in Nat /\ r - BufSize < u /\ u <= r + BufSize
    BY <1>3, <1>4, <1>5, <2>1, Sizes
  <2>4. Position(tst.unak) = u
    BY <1>2, <1>3, <2>3, PositionIs, Zenon
  <2>5. AppPos = u - 1
    BY <2>1, <2>4, Zenon DEF AppPos
  <2>6. AppPos = n
    BY <1>3, <1>4, <2>1, <2>5
  <2>7. \A p \in a..(n - 1) : p \in Int /\ a <= p /\ p < w
    BY <1>3, <1>4, <1>6, <2>1
  <2>8. ASSUME Position(tst.ackd) > r PROVE \A p \in Position(tst.ackd)..(AppPos - 1) : FALSE
    <3>1. PICK y : y = Position(tst.ackd)
      OBVIOUS
    <3>2. y \in Int /\ y > r
      BY <2>2, <2>8, <3>1
    <3>3. \A p \in y..(n - 1) : FALSE
      BY <1>3, <2>1, <3>2
    <3> QED
      BY <2>6, <3>1, <3>3, Zenon
  <2>9. \A p \in Position(tst.ackd)..(AppPos - 1) : mem[p % BufSize] = p
    BY <1>6, <2>2, <2>6, <2>7, <2>8, Zenon
  <2> QED
    BY <1>1, <2>9, Zenon DEF UnackedIsKept
<1> QED
  BY <1>8, <1>9

\* A byte TXe may have to send again is in the ring, in its cell, until the peer has acknowledged it: Mwr
\* (tx_app_interface.cpp, pTxMemoryWriter) cuts chunks at the end of the buffer and joins what is left of one with
\* the next, MEM writes, and Tash announces a request on the strength of one status or of two.  It is so until data
\* is late or a chunk is written uncut, if no last chunk of a request is cut.
THEOREM BytesKept == Spec /\ []WholeLastChunk => [](Late \/ UnackedIsKept)
<1> DEFINE I == Late \/ Uncut \/ BytesLine
<1>1. Init => I
  BY InitIs, InitBytes, Zenon
<1>2. Upheld /\ WholeLastChunk /\ I /\ [Next]_vars => I'
  BY SoFar, BytesStep, Zenon DEF I
<1>3. Upheld /\ I => Late \/ UnackedIsKept
  BY BytesInRing, KeptAnyway, Zenon DEF I, Upheld
<1> QED
  BY <1>1, <1>2, <1>3, UpheldHolds, PTL DEF Spec

----------------------------------------------------------------------------
(* When no last chunk has bytes on both sides of the end of the buffer *)

Pending == IF app.req = 0 THEN 0 ELSE 1

\* What the application has written, and what it may still write, of the stream s.
WrittenOf(s, i) ==
    /\ app.len = s[2] /\ app.next = s[1] + i * s[2] /\ i + app.sends + Pending <= s[3] /\ s[1] <= P
StreamLine == \E s \in Streams, i \in Nat : WrittenOf(s, i)

LEMMA StreamIs ==
    ASSUME NEW s \in Streams
    PROVE  s[1] \in Nat /\ s[2] \in 1..(BufSize - 1) /\ s[3] \in Nat
<1>1. s \in Nat \X (1..(BufSize - 1)) \X Nat
  BY LengthAssumption DEF LengthAssumption
<1> QED
  BY <1>1

LEMMA StreamKeep ==
    ASSUME StreamLine, app'.len = app.len, app'.next = app.next, app'.sends + Pending' <= app.sends + Pending,
           app.sends + Pending \in Int, app'.sends + Pending' \in Int, app.sends \in Nat, app'.sends \in Nat,
           Pending \in 0..1, Pending' \in 0..1, P <= P', P \in Int, P' \in Int
    PROVE  StreamLine'
<1>1. PICK s \in Streams, i \in Nat : WrittenOf(s, i)
  BY DEF StreamLine
<1>2. app.len = s[2] /\ app.next = s[1] + i * s[2] /\ i + app.sends + Pending <= s[3] /\ s[1] <= P
  BY <1>1, Zenon DEF WrittenOf
<1>3. s[1] \in Nat /\ s[3] \in Nat
  BY StreamIs
<1>4. PICK a, b, c, d : a = app.sends /\ b = Pending /\ c = app'.sends /\ d = Pending'
  OBVIOUS
<1>5. a \in Nat /\ c \in Nat /\ b \in Int /\ d \in Int /\ c + d <= a + b /\ i + a + b <= s[3]
  BY <1>2, <1>4
<1>6. i + c + d <= s[3]
  BY <1>3, <1>5
<1>7. s[1] <= P'
  <2>1. PICK x, p, q : x = s[1] /\ p = P /\ q = P'
    OBVIOUS
  <2>2. x \in Int /\ p \in Int /\ q \in Int /\ x <= p /\ p <= q
    BY <1>2, <1>3, <2>1
  <2>3. x <= q
    BY <2>2
  <2> QED
    BY <2>1, <2>3, Zenon
<1>8. i + app'.sends + Pending' <= s[3]
  BY <1>4, <1>6, Zenon
<1>9. WrittenOf(s, i)'
  BY <1>2, <1>7, <1>8, Zenon DEF WrittenOf
<1> QED
  BY <1>9, Zenon DEF StreamLine

LEMMA PendingIs ==
    ASSUME TaiTypes
    PROVE  app.sends \in Nat /\ Pending \in 0..1 /\ app.sends + Pending \in Int
  BY DEF TaiTypes, Pending

LEMMA StreamSmlAccept ==
    ASSUME TaiTypes, TxeTypes, FinLine, SpaceLine, Pointers, StreamLine, SmlAccept, ~app.closed
    PROVE  StreamLine'
<1>1. PICK a, n, m : Room(a, n, m)
  BY RoomIs, Zenon
<1>2. UNCHANGED tst
  BY Zenon DEF SmlAccept
<1>3. P' = P
  BY <1>1, <1>2, EntryStays, Zenon
<1>4. PICK s \in Streams, i \in Nat : WrittenOf(s, i)
  BY DEF StreamLine
<1>5. app.len = s[2] /\ app.next = s[1] + i * s[2] /\ i + app.sends + Pending <= s[3] /\ s[1] <= P
  BY <1>4, Zenon DEF WrittenOf
<1>6. sml.st = "READ_META" /\ app' = [app EXCEPT !.req = 0, !.next = @ + sml.len]
  BY Zenon DEF SmlAccept
<1>7. sml.len = app.len /\ app.req = app.len /\ app.len \in 1..(BufSize - 1)
  <2>1. app.len \in 1..(BufSize - 1)
    BY DEF TaiTypes
  <2> QED
    BY <1>6, <2>1, Zenon DEF TaiTypes
<1>8. /\ app'.len = app.len /\ app'.next = app.next + app.len /\ app'.sends = app.sends /\ app.sends \in Nat
      /\ app'.req = 0 /\ app.req # 0
  BY <1>6, <1>7 DEF TaiTypes
<1>9. Pending = 1 /\ Pending' = 0
  BY <1>8 DEF Pending
<1>10. s[1] \in Nat /\ s[2] \in 1..(BufSize - 1) /\ s[3] \in Nat
  BY StreamIs
<1>11. PICK j : j = i + 1
  OBVIOUS
<1>12. j \in Nat /\ app'.next = s[1] + j * s[2] /\ j + app'.sends + Pending' <= s[3]
  <2>1. PICK x, y, l, c : x = s[1] /\ y = s[3] /\ l = s[2] /\ c = app.sends
    OBVIOUS
  <2>2. x \in Int /\ y \in Int /\ l \in Int /\ c \in Int
    BY <1>8, <1>10, <2>1
  <2>3. (x + i * l) + l = x + j * l
    BY <1>11, <2>2
  <2>4. i + c + 1 <= y
    BY <1>5, <1>9, <2>1, Zenon
  <2>5. j + c + 0 <= y
    BY <1>11, <2>2, <2>4
  <2>6. app'.next = x + j * l
    BY <1>5, <1>8, <2>1, <2>3, Zenon
  <2>7. j \in Nat
    BY <1>11
  <2>8. app'.sends = c /\ Pending' = 0 /\ y = s[3] /\ x = s[1] /\ l = s[2]
    BY <1>8, <1>9, <2>1, Zenon
  <2> QED
    BY <2>5, <2>6, <2>7, <2>8, Zenon
<1>13. WrittenOf(s, j)'
  BY <1>3, <1>5, <1>8, <1>12, Zenon DEF WrittenOf
<1> QED
  BY <1>12, <1>13, Zenon DEF StreamLine

LEMMA StreamStep ==
    ASSUME IInv, TaiTypes', StreamLine, [Next]_vars, InTime
    PROVE  StreamLine'
<1>0. Actions \/ UNCHANGED vars
  BY NextIs
<1>t. TaiTypes /\ WrTypes /\ TxeTypes /\ NetTypes /\ FinLine /\ DataLine /\ SpaceLine /\ Pointers /\ AckLine
  BY Zenon DEF IInv, Types
<1>1. CASE SmlAccept
  BY <1>1, <1>t, StreamSmlAccept, Zenon DEF InTime
<1>2. app.sends \in Nat /\ Pending \in 0..1 /\ app.sends + Pending \in Int
  BY <1>t, PendingIs, Zenon
<1>3. app'.sends \in Nat /\ Pending' \in 0..1 /\ app'.sends + Pending' \in Int
  <2>1. app'.sends \in Nat
    BY DEF TaiTypes
  <2>2. Pending' \in 0..1
    BY DEF Pending
  <2> QED
    BY <2>1, <2>2
<1>b. P \in Int /\ P <= P
  <2>1. P \in Int
    BY <1>t, PointerFacts, Zenon
  <2> QED
    BY <2>1
<1>4. ASSUME ~SmlAccept, app'.sends + Pending' <= app.sends + Pending, P <= P', P' \in Int
      PROVE  StreamLine'
  <2>1. app'.len = app.len /\ app'.next = app.next
    BY <1>0, <1>4, <1>t, AppStep, Zenon
  <2> QED
    BY <1>2, <1>3, <1>4, <1>b, <2>1, StreamKeep, Zenon
<1>5. CASE ~SmlAccept /\ app'.sends + Pending' <= app.sends + Pending /\ tst' = tst
  <2>1. app'.next = app.next
    BY <1>0, <1>5, <1>t, AppStep, Zenon
  <2>2. P' = P
    BY <1>5, <2>1, Zenon DEF P, BufPos
  <2> QED
    BY <1>4, <1>5, <1>b, <2>2, Zenon
<1>6. ASSUME app'.sends = app.sends, app'.req = app.req \/ app'.req = 0
      PROVE  app'.sends + Pending' <= app.sends + Pending
  BY <1>2, <1>6 DEF Pending
<1>7. ASSUME ~SmlAccept, app' = app, P <= P', P' \in Int
      PROVE  StreamLine'
  <2>1. app'.sends + Pending' <= app.sends + Pending
    BY <1>6, <1>7, Zenon
  <2> QED
    BY <1>4, <1>7, <2>1
<1>8. CASE AppRequest
  <2>1. app.req = 0 /\ app.sends > 0 /\ app' = [app EXCEPT !.req = app.len, !.sends = @ - 1] /\ tst' = tst
    BY <1>8, Zenon DEF AppRequest
  <2>2. app'.sends = app.sends - 1
    BY <1>t, <2>1 DEF TaiTypes
  <2>3. Pending = 0
    BY <2>1 DEF Pending
  <2>4. app'.sends + Pending' <= app.sends + Pending
    BY <1>2, <1>3, <2>2, <2>3
  <2> QED
    BY <1>1, <1>5, <2>1, <2>4
<1>9. CASE AppClose \/ SmlRefuse
  <2>1. tst' = tst /\ (app' = [app EXCEPT !.closed = TRUE, !.due = LeftSml] \/ app' = [app EXCEPT !.req = 0])
    BY <1>9, Zenon DEF AppClose, SmlRefuse
  <2>2. app'.sends = app.sends /\ (app'.req = app.req \/ app'.req = 0)
    BY <1>t, <2>1 DEF TaiTypes
  <2>3. app'.sends + Pending' <= app.sends + Pending
    BY <1>6, <2>2, Zenon
  <2> QED
    BY <1>1, <1>5, <2>1, <2>3
<1>10. CASE app' = app /\ tst' = tst
  <2>1. app'.sends + Pending' <= app.sends + Pending
    BY <1>6, <1>10, Zenon
  <2> QED
    BY <1>1, <1>5, <1>10, <2>1
<1>11. CASE MdlTx \/ MdlRt \/ MdlFin
  <2>1. P' = P
    BY <1>11, <1>t, MdlDoes, Zenon
  <2>2. app' = app
    BY <1>11, Zenon DEF MdlTx, MdlRt, MdlFin, tai
  <2> QED
    BY <1>1, <1>7, <1>b, <2>1, <2>2, Zenon
<1>12. CASE RxeTransition
  <2>1. UNCHANGED app /\ P' = P
    BY <1>12, <1>t, TransitionIs, Zenon
  <2> QED
    BY <1>1, <1>7, <1>b, <2>1, Zenon
<1>13. CASE TashStatus1 \/ TashStatus2
  <2>1. app' = app
    BY <1>13, Zenon DEF TashStatus1, TashStatus2
  <2>2. CASE tst' = tst
    BY <1>10, <2>1, <2>2
  <2>3. CASE Announce
    <3>1. tash.st # "IDLE"
      BY <1>13, Zenon DEF TashStatus1, TashStatus2
    <3>2. P' = P + app.len /\ app.len \in Nat
      BY <1>t, <2>1, <2>3, <3>1, AnnounceIs, Zenon
    <3>3. P <= P' /\ P' \in Int
      BY <1>b, <3>2
    <3> QED
      BY <1>1, <1>7, <2>1, <3>3, Zenon
  <2>4. tst' = tst \/ Announce
    BY <1>13, Zenon DEF TashStatus1, TashStatus2
  <2> QED
    BY <2>2, <2>3, <2>4
<1>14. CASE SmlRequest \/ TatAnswer \/ TatPush \/ Emx \/ TashIdle
  BY <1>10, <1>14, Zenon DEF SmlRequest, TatAnswer, TatPush, Emx, TashIdle
<1>15. CASE MwrIdle \/ MwrSplit \/ MwrAligned \/ MwrFirst \/ MwrUncut \/ MwrSecond \/ MwrResidue
  BY <1>10, <1>15, Zenon DEF MwrIdle, MwrSplit, MwrAligned, MwrFirst, MwrUncut, MwrSecond, MwrResidue, tai
<1>16. CASE MdlWait \/ MrdFirst \/ MrdSecond \/ TssHeader \/ TssSegment
  BY <1>10, <1>16, Zenon DEF MdlWait, MrdFirst, MrdSecond, TssHeader, TssSegment, tai
<1>17. CASE RxeLoad \/ TImExpire \/ (\E v \in Windows : PeerTakes(v)) \/ Lose \/ UNCHANGED vars
  BY <1>10, <1>17, Zenon DEF RxeLoad, TImExpire, PeerTakes, Lose, tai, vars
<1> QED
  BY <1>0, <1>1, <1>8, <1>9, <1>11, <1>12, <1>13, <1>14, <1>15, <1>16, <1>17, Zenon DEF Actions

LEMMA InitStream ==
    ASSUME Init
    PROVE  StreamLine
<1>1. PICK s \in Streams : InitFrom(s[1], s[2], s[3])
  BY DEF Init
<1>2. s[1] \in Nat /\ s[2] \in 1..(BufSize - 1) /\ s[3] \in Nat
  BY StreamIs
<1>3. \E w \in Windows : tst = [NoSar EXCEPT !.ackd = s[1] % SeqMod, !.unak = s[1] % SeqMod, !.app = Ptr(s[1]), !.win = w]
  BY <1>1 DEF InitFrom
<1>4. tst.app = s[1] % BufSize
  BY <1>3 DEF NoSar, Ptr
<1>5. app = [len |-> s[2], req |-> 0, sends |-> s[3], closed |-> FALSE, next |-> s[1], due |-> s[1]]
  BY <1>1 DEF InitFrom
<1>6. app.len = s[2] /\ app.next = s[1] + 0 * s[2] /\ 0 + app.sends + Pending <= s[3]
  BY <1>2, <1>5 DEF Pending
<1>7. s[1] \in Int /\ s[1] - BufSize < s[1] /\ s[1] <= s[1]
  BY <1>2, Sizes
<1>8. P = s[1]
  BY <1>4, <1>5, <1>7, BufAtIs DEF P, BufPos
<1>9. 0 \in Nat /\ WrittenOf(s, 0)
  BY <1>6, <1>7, <1>8, Zenon DEF WrittenOf
<1> QED
  BY <1>9 DEF StreamLine

\* Where Mwr is in the request it writes: only a last chunk that straddles is cut.
LEMMA WholeIf ==
    ASSUME EndsApart, IInv, StreamLine, BytesLine
    PROVE  WholeLastChunk
<1> SUFFICES ASSUME mwr.st = "FWD_1ST_BUF", mwr.nr < Chunk, data # <<>>, Head(data).last
             PROVE  FALSE
  BY Zenon DEF WholeLastChunk
<1>t. TaiTypes /\ WrTypes /\ TxeTypes
  BY Zenon DEF IInv, Types
<1>1. PICK w : WrittenTo(w)
  BY Zenon DEF BytesLine
<1>2. PICK s \in Streams, i \in Nat : WrittenOf(s, i)
  BY DEF StreamLine
<1>3. ~Holding /\ mwr.st # "IDLE"
  BY DEF Holding
<1>4. w \in Int /\ w < app.next /\ AtFirst(w) /\ P <= w
  BY <1>1, <1>3, Zenon DEF WrittenTo, MwrLine, MarkLine
<1>5. PICK n, l, f, k, r, x : n = app.next /\ l = s[2] /\ f = s[1] /\ k = s[3] /\ r = Left(w) /\ x = w % BufSize
  OBVIOUS
<1>6. app.len = l /\ n = f + i * l /\ i + app.sends + Pending <= k /\ f <= P
  BY <1>2, <1>5, Zenon DEF WrittenOf
<1>7. /\ f \in Nat /\ l \in 1..(BufSize - 1) /\ l \in Nat \ {0} /\ k \in Nat /\ n \in Int /\ i <= k
      /\ f <= w
  <2>1. f \in Nat /\ l \in 1..(BufSize - 1) /\ k \in Nat
    BY <1>5, StreamIs
  <2>2. app.sends \in Nat /\ Pending \in 0..1
    BY <1>t, PendingIs, Zenon
  <2>3. n \in Int /\ P \in Int
    BY <1>5, <1>t, PointerFacts
  <2>4. i <= k
    BY <1>6, <2>1, <2>2
  <2>5. f <= w
    BY <1>4, <1>6, <2>1, <2>3
  <2> QED
    BY <2>1, <2>3, <2>4, <2>5
<1>8. mwr.nr = BufSize - x /\ mwr.nr < r /\ LastPart(r) = LastPart(l)
  BY <1>4, <1>5, <1>6, Zenon DEF AtFirst
<1>9. r = Rem(n, l, w)
  BY <1>5, <1>6, Zenon DEF Left
<1>10. PICK q \in Int : n - w = l * q + r
  <2>1. \E p \in Int, y \in 1..l : Rem(n, l, w) = y /\ n - w = l * p + y
    BY <1>4, <1>7, RemHas, Zenon
  <2> QED
    BY <1>9, <2>1, Zenon
<1>11. r \in 1..l /\ w + r <= n
  BY <1>4, <1>5, <1>7, <1>9, RemRange, RemUpTo, Zenon
<1>12. r <= Chunk
  <2>1. Held = 0 /\ w + Held = w
    BY <1>3, <1>4 DEF Held
  <2>2. PICK z \in Int : Piece(Head(data), w, z, app.next, app.len)
    BY <1>1, <1>t, <2>1, ChunkIs, Zenon
  <2>3. r \in Nat \ {0}
    BY <1>7, <1>11
  <2> QED
    BY <1>4, <1>5, <2>2, <2>3, PieceIs, Zenon
<1>13. LastBytes(l) = r
  <2>1. r \in Int /\ 0 \in Int /\ r \in 1..Chunk /\ r - 0 = Chunk * 0 + r /\ Chunk \in Nat \ {0}
    BY <1>11, <1>12, Sizes
  <2>2. Rem(r, Chunk, 0) = r
    BY <2>1, RemIs, Zenon
  <2>3. LastBytes(l) = LastPart(l)
    <3>1. l - 1 - 0 = l - 1
      BY <1>7
    <3> QED
      BY <3>1 DEF LastBytes, LastPart, Rem
  <2> QED
    BY <1>8, <2>2, <2>3, Zenon DEF LastPart
<1>14. PICK j : j = i - q
  OBVIOUS
<1>15. w + r = f + j * l /\ j \in Int
  <2>1. n - l * q = f + j * l
    BY <1>6, <1>7, <1>10, <1>14
  <2>2. w + r = n - l * q
    BY <1>4, <1>7, <1>10, <1>11
  <2> QED
    BY <1>10, <1>14, <2>1, <2>2
<1>16. j \in 1..k
  <2>1. j >= 1
    <3>1. ASSUME j <= 0 PROVE j * l <= 0
      BY <1>7, <1>15, <3>1
    <3>2. j * l > 0
      <4>1. j * l \in Int
        BY <1>7, <1>15
      <4> QED
        BY <1>4, <1>7, <1>11, <1>15, <4>1
    <3> QED
      BY <1>7, <1>15, <3>1, <3>2
  <2>2. q >= 0
    <3>1. ASSUME q <= -1 PROVE l * q <= -l
      BY <1>7, <1>10, <3>1
    <3>2. l * q >= 0
      BY <1>4, <1>7, <1>10, <1>11
    <3> QED
      BY <1>7, <1>10, <3>1, <3>2
  <2> QED
    BY <1>7, <1>10, <1>14, <2>1, <2>2
<1>17. (w + r) % BufSize = r - mwr.nr
  <2>1. PICK c, b : c = mwr.nr /\ b = BufSize
    OBVIOUS
  <2>2. c \in Int /\ c = BufSize - x /\ x \in 0..(BufSize - 1) /\ c < r /\ r < BufSize
    BY SMTT(40), <1>4, <1>5, <1>7, <1>8, <1>11, <2>1, Sizes
  <2>3. (w + c) % BufSize = 0
    BY <1>4, <1>5, <2>2, CellEnd, Sizes
  <2>4. r - c \in Nat /\ w + c \in Int /\ 0 + (r - c) < BufSize /\ w + c + (r - c) = w + r
    BY <1>4, <1>7, <1>11, <2>2, Sizes
  <2>5. ((w + c) + (r - c)) % BufSize = ((w + c) % BufSize) + (r - c)
    BY <2>3, <2>4, CellOn
  <2> QED
    BY <2>1, <2>2, <2>3, <2>4, <2>5
<1>18. r - mwr.nr \in 1..(r - 1)
  <2>1. mwr.nr \in Nat /\ mwr.nr > 0
    BY <1>4, <1>5, <1>8, <1>t, Sizes DEF WrTypes
  <2> QED
    BY <1>7, <1>8, <1>11, <2>1
<1> QED
  BY <1>5, <1>13, <1>15, <1>16, <1>17, <1>18, Zenon DEF EndsApart

\* The same, from the constants: no last chunk is cut when none reaches across the end of the buffer.
THEOREM RingKept == Spec /\ EndsApart => [](Late \/ UnackedIsKept)
<1> SUFFICES ASSUME EndsApart
             PROVE  Spec => [](Late \/ UnackedIsKept)
  OBVIOUS
<1> DEFINE I == Late \/ (StreamLine /\ (Uncut \/ BytesLine))
<1>1. Init => I
  BY InitIs, InitBytes, InitStream, Zenon
<1>2. Upheld /\ I /\ [Next]_vars => I'
  BY SoFar, BytesStep, StreamStep, WholeIf, Zenon DEF I, IInv, Types
<1>3. Upheld /\ I => Late \/ UnackedIsKept
  BY BytesInRing, KeptAnyway, Zenon DEF I, Upheld
<1> QED
  BY <1>1, <1>2, <1>3, UpheldHolds, PTL DEF Spec

----------------------------------------------------------------------------
(* Tss makes one frame of a segment *)

\* W says which value may be at which offset.  The bytes b may be behind the first o.
Right(b, o, W) == \A j \in 1..Len(b) : <<o + j, b[j]>> \in W

LEMMA RightNone ==
    ASSUME NEW o, NEW W
    PROVE  Right(<<>>, o, W)
  BY DEF Right

LEMMA RightJoin ==
    ASSUME NEW V, NEW x \in Seq(V), NEW y \in Seq(V), NEW o \in Nat, NEW p, p = o + Len(x), NEW W, Right(x, o, W), Right(y, p, W)
    PROVE  Right(x \o y, o, W) /\ x \o y \in Seq(V) /\ Len(x \o y) = Len(x) + Len(y)
<1>1. PICK z : z = x \o y
  OBVIOUS
<1>2. /\ z \in Seq(V) /\ Len(z) = Len(x) + Len(y) /\ Len(x) \in Nat /\ Len(y) \in Nat
      /\ \A j \in 1..Len(x) : z[j] = x[j]
      /\ \A j \in 1..Len(y) : z[Len(x) + j] = y[j]
  BY <1>1
<1>3. ASSUME NEW j \in 1..Len(z)
      PROVE  <<o + j, z[j]>> \in W
  <2>1. CASE j \in 1..Len(x)
    <3>1. <<o + j, x[j]>> \in W
      BY <2>1 DEF Right
    <3> QED
      BY <1>2, <2>1, <3>1
  <2>2. CASE j \notin 1..Len(x)
    <3>1. PICK k : k = j - Len(x)
      OBVIOUS
    <3>2. k \in 1..Len(y) /\ Len(x) + k = j /\ p + k = o + j
      BY <1>2, <1>3, <2>2, <3>1
    <3>3. <<p + k, y[k]>> \in W
      BY <3>2 DEF Right
    <3> QED
      BY <1>2, <3>2, <3>3
  <2> QED
    BY <2>1, <2>2
<1> QED
  BY <1>1, <1>2, <1>3, Zenon DEF Right

LEMMA RightCut ==
    ASSUME NEW V, NEW b \in Seq(V), NEW o \in Nat, NEW W, Right(b, o, W), NEW k \in Nat
    PROVE  /\ Right(Take(b, k), o, W)
           /\ k <= Len(b) => Right(Drop(b, k), o + k, W)
<1>1. PICK x, y : x = Take(b, k) /\ y = Drop(b, k)
  OBVIOUS
<1>2. /\ x \in Seq(V) /\ Len(x) = (IF k < Len(b) THEN k ELSE Len(b))
      /\ \A i \in 1 .. Len(x) : x[i] = b[i]
      /\ k <= Len(b) => /\ y \in Seq(V) /\ Len(y) = Len(b) - k
                        /\ \A i \in 1 .. Len(b) - k : y[i] = b[k + i]
  BY <1>1, TakeDrop, Zenon
<1>3. Len(b) \in Nat
  OBVIOUS
<1>4. ASSUME NEW j \in 1..Len(x)
      PROVE  <<o + j, x[j]>> \in W
  <2>1. j \in 1..Len(b) /\ x[j] = b[j]
    BY <1>2, <1>3
  <2> QED
    BY <2>1, Zenon DEF Right
<1>5. ASSUME k <= Len(b), NEW j \in 1..Len(y)
      PROVE  <<(o + k) + j, y[j]>> \in W
  <2>1. k + j \in 1..Len(b) /\ y[j] = b[k + j] /\ (o + k) + j = o + (k + j)
    BY <1>2, <1>3, <1>5
  <2>2. <<o + (k + j), b[k + j]>> \in W
    BY <2>1, Zenon DEF Right
  <2> QED
    BY <2>1, <2>2, Zenon
<1> QED
  BY <1>1, <1>4, <1>5, Zenon DEF Right

\* Tss has taken in o bytes, the right ones, and put out none.
Under(t, h, o, W) ==
    /\ t.out = <<>> /\ t.frame.hdr = <<h>>
    /\ FSize(t) + PSize(t) = o /\ Right(t.frame.bytes, 0, W) /\ Right(t.prev, FSize(t), W)
\* The frames f are a single one, with n bytes, the right ones.
OneFrame(f, h, n, W) == Len(f) = 1 /\ f[1].hdr = <<h>> /\ Size(f[1]) = n /\ Right(f[1].bytes, 0, W)

\* Where Tss is in the segment.
InFirst(t, h, s, o, W) ==
    /\ Under(t, h, o, W) /\ t.prev = <<>>
    /\ (t.st = "DATA" /\ o = 0) \/ (t.st = "FWD_1ST_BUF" /\ t.join = s)
InSecond(t, h, o, W) ==
    /\ Under(t, h, o, W)
    /\ (t.st = "FWD_2ND_BUF" /\ t.prev = <<>>) \/ (t.st = "JOIN_2ND_BUF" /\ PSize(t) \in 1..(Chunk - 1))
Over(t, h, n, W) ==
    \/ t.st = "RESIDUE" /\ Under(t, h, n, W)
    \/ t.st # "RESIDUE" /\ OneFrame(t.out, h, n, W)

LEMMA UnderForward ==
    ASSUME NEW V, NEW h, NEW t \in Tsss(h, V), NEW b \in Seq(V), NEW o \in Nat, NEW W, Under(t, h, o, W), t.prev = <<>>, Right(b, o, W),
           NEW u \in Tsss(h, V), u.out = t.out, u.prev = <<>>, u.frame = [hdr |-> t.frame.hdr, bytes |-> t.frame.bytes \o b]
    PROVE  Under(u, h, o + Len(b), W)
<1>1. PICK x : x = t.frame.bytes
  OBVIOUS
<1>2. x \in Seq(V) /\ FSize(t) = Len(x) /\ PSize(t) = 0 /\ FSize(t) \in Nat
  <2>1. FSize(t) \in Nat /\ t.frame.bytes \in Seq(V)
    BY LightLens, Zenon
  <2>2. PSize(t) = 0
    BY DEF PSize
  <2> QED
    BY <1>1, <2>1, <2>2, Zenon DEF FSize
<1>3. Len(x) = o /\ Right(x, 0, W) /\ t.out = <<>> /\ t.frame.hdr = <<h>>
  <2>1. FSize(t) + PSize(t) = o /\ Right(x, 0, W) /\ t.out = <<>> /\ t.frame.hdr = <<h>>
    BY <1>1, Zenon DEF Under
  <2>2. Len(x) = o
    BY <1>2, <2>1
  <2> QED
    BY <2>1, <2>2
<1>4. Right(x \o b, 0, W) /\ x \o b \in Seq(V) /\ Len(x \o b) = Len(x) + Len(b)
  <2>1. 0 \in Nat /\ o = 0 + Len(x)
    BY <1>3
  <2> QED
    BY <1>2, <1>3, <2>1, RightJoin, Zenon
<1>5. u.frame.hdr = <<h>> /\ u.frame.bytes = x \o b
  BY <1>1, <1>3
<1>6. FSize(u) = o + Len(b) /\ PSize(u) = 0 /\ Len(b) \in Nat
  BY <1>3, <1>4, <1>5 DEF FSize, PSize
<1>7. FSize(u) + PSize(u) = o + Len(b)
  BY <1>6
<1> QED
  BY <1>3, <1>4, <1>5, <1>7, RightNone, Zenon DEF Under

LEMMA UnderEmit ==
    ASSUME NEW V, NEW h, NEW t \in Tsss(h, V), NEW b \in Seq(V), NEW W, t.out = <<>>, t.frame.hdr = <<h>>,
           Right(t.frame.bytes, 0, W), Right(b, FSize(t), W)
    PROVE  /\ OneFrame(Emit(t, b).out, h, FSize(t) + Len(b), W) /\ Over(Done(Emit(t, b)), h, FSize(t) + Len(b), W)
           /\ Emit(t, b) \in Tsss(h, V) /\ Done(Emit(t, b)) \in Tsss(h, V)
<1>1. PICK x, w : x = t.frame.bytes /\ w = [hdr |-> t.frame.hdr, bytes |-> t.frame.bytes \o b]
  OBVIOUS
<1>2. x \in Seq(V) /\ FSize(t) = Len(x) /\ FSize(t) \in Nat
  <2>1. FSize(t) \in Nat /\ t.frame.bytes \in Seq(V)
    BY LightLens, Zenon
  <2> QED
    BY <1>1, <2>1, Zenon DEF FSize
<1>4. Right(x \o b, 0, W) /\ x \o b \in Seq(V) /\ Len(x \o b) = Len(x) + Len(b)
  <2>1. 0 \in Nat /\ FSize(t) = 0 + Len(x)
    BY <1>2
  <2> QED
    BY <1>1, <1>2, <2>1, RightJoin, Zenon
<1>5. w.hdr = <<h>> /\ w.bytes = x \o b
  BY <1>1
<1>6. PICK e : e = Emit(t, b)
  OBVIOUS
<1>7. e \in Tsss(h, V) /\ e.out = Append(<<>>, w)
  <2>1. e \in Tsss(h, V) /\ e.out = Append(t.out, w)
    BY <1>1, <1>6, EmitIs
  <2> QED
    BY <2>1
<1>8. Len(e.out) = 1 /\ e.out[1] = w
  BY <1>7
<1>9. Size(w) = FSize(t) + Len(b)
  BY <1>2, <1>4, <1>5, Zenon DEF Size
<1>10. OneFrame(e.out, h, FSize(t) + Len(b), W)
  BY <1>4, <1>5, <1>8, <1>9, Zenon DEF OneFrame
<1>11. Done(e).st = "PSD_HDR" /\ Done(e).out = e.out /\ Done(e) \in Tsss(h, V)
  BY <1>7, DoneIs, Zenon
<1>12. Done(e).st # "RESIDUE"
  BY <1>11
<1> QED
  BY <1>6, <1>7, <1>10, <1>11, <1>12, Zenon DEF Over

LEMMA UnderSame ==
    ASSUME NEW t, NEW u, NEW h, NEW o, NEW W, Under(t, h, o, W), u.out = t.out, u.frame = t.frame, u.prev = t.prev
    PROVE  Under(u, h, o, W)
  BY Zenon DEF Under, FSize, PSize

\* The last chunk of the first buffer is not full: it is kept.
LEMMA UnderHold ==
    ASSUME NEW V, NEW h, NEW t \in Tsss(h, V), NEW b \in Seq(V), NEW o \in Nat, NEW W, Under(t, h, o, W), t.prev = <<>>, Right(b, o, W),
           NEW u, u.out = t.out, u.prev = b, u.frame = t.frame
    PROVE  Under(u, h, o + Len(b), W)
<1>1. FSize(t) \in Nat /\ PSize(t) = 0 /\ Len(b) \in Nat
  <2>1. FSize(t) \in Nat
    BY LightLens, Zenon
  <2> QED
    BY <2>1 DEF PSize
<1>2. FSize(t) = o
  <2>1. FSize(t) + PSize(t) = o
    BY DEF Under
  <2> QED
    BY <1>1, <2>1
<1>3. FSize(u) = FSize(t) /\ PSize(u) = Len(b)
  BY Zenon DEF FSize, PSize
<1>4. FSize(u) + PSize(u) = o + Len(b)
  BY <1>2, <1>3
<1>5. u.out = <<>> /\ u.frame.hdr = <<h>> /\ Right(u.frame.bytes, 0, W)
  BY Zenon DEF Under
<1>6. Right(u.prev, FSize(u), W)
  BY <1>2, <1>3, Zenon
<1> QED
  BY <1>4, <1>5, <1>6, Zenon DEF Under

\* Chunks of the first buffer.
LEMMA FirstGoes ==
    ASSUME NEW V, NEW h, NEW t \in Tsss(h, V), NEW s \in BOOLEAN, NEW o \in Nat, NEW W, InFirst(t, h, s, o, W),
           NEW c \in [bytes : Seq(V), last : BOOLEAN], NEW b, b = c.bytes, Right(b, o, W), NEW u, u = TssChunk(t, c, s)
    PROVE  /\ ~c.last => InFirst(u, h, s, o + Len(b), W)
           /\ c.last /\ ~s => Over(u, h, o + Len(b), W)
           /\ c.last /\ s /\ Len(b) \in 1..Chunk /\ o + Len(b) # Chunk => InSecond(u, h, o + Len(b), W)
<1>0. b \in Seq(V) /\ c.last \in BOOLEAN /\ Len(b) \in Nat
  OBVIOUS
<1>1. Under(t, h, o, W) /\ t.prev = <<>> /\ t.out = <<>> /\ t.frame.hdr = <<h>> /\ Right(t.frame.bytes, 0, W)
  BY Zenon DEF InFirst, Under
<1>2. FSize(t) = o
  <2>1. FSize(t) + PSize(t) = o
    BY <1>1, Zenon DEF Under
  <2>2. FSize(t) \in Nat
    BY LightLens, Zenon
  <2>3. PSize(t) = 0
    BY <1>1 DEF PSize
  <2> QED
    BY <2>1, <2>2, <2>3
<1>3. PICK v : v = IF t.st = "DATA" THEN [t EXCEPT !.join = s] ELSE t
  OBVIOUS
<1>4. /\ v \in Tsss(h, V) /\ v.st = t.st /\ v.prev = <<>> /\ v.join = s /\ v.out = <<>> /\ v.frame = t.frame
      /\ Under(v, h, o, W) /\ FSize(v) = o /\ v.frame.hdr = <<h>> /\ Right(v.frame.bytes, 0, W)
  <2>1. v \in Tsss(h, V) /\ v.st = t.st /\ v.prev = t.prev /\ v.join = s /\ v.out = t.out /\ v.frame = t.frame
    <3>1. CASE t.st = "DATA"
      BY <1>3, <3>1, SetJoin
    <3>2. CASE t.st # "DATA"
      <4>1. t.join = s
        BY <3>2, Zenon DEF InFirst
      <4> QED
        BY <1>3, <3>2, <4>1
    <3> QED
      BY <3>1, <3>2
  <2>2. Under(v, h, o, W)
    BY <1>1, <2>1, UnderSame, Zenon
  <2>3. FSize(v) = o
    BY <1>2, <2>1, Zenon DEF FSize
  <2> QED
    BY <1>1, <2>1, <2>2, <2>3, Zenon
<1>5. PICK f : f = Forward(v, b)
  OBVIOUS
<1>6. /\ f \in Tsss(h, V) /\ f.st = t.st /\ f.prev = <<>> /\ f.join = s /\ f.out = <<>> /\ Under(f, h, o + Len(b), W)
  <2>1. Forwarded(f, v, b, V, h)
    BY <1>0, <1>4, <1>5, ForwardedIs, Zenon
  <2>2. /\ f \in Tsss(h, V) /\ f.st = t.st /\ f.prev = <<>> /\ f.join = s /\ f.out = v.out /\ f.out = <<>>
        /\ f.frame = [hdr |-> v.frame.hdr, bytes |-> v.frame.bytes \o b]
    BY <1>4, <2>1, Zenon DEF Forwarded
  <2>3. Under(f, h, o + Len(b), W)
    BY <1>0, <1>4, <2>2, UnderForward, Zenon
  <2> QED
    BY <2>2, <2>3, Zenon
<1>7. ASSUME ~c.last
      PROVE  InFirst(u, h, s, o + Len(b), W)
  <2>1. CASE t.st = "DATA"
    <3>1. u = [f EXCEPT !.st = "FWD_1ST_BUF"]
      BY <1>3, <1>5, <1>7, <2>1 DEF TssChunk, TssData
    <3>2. "FWD_1ST_BUF" \in TssStates
      BY DEF TssStates
    <3>3. u.st = "FWD_1ST_BUF" /\ u.prev = f.prev /\ u.join = f.join /\ u.out = f.out /\ u.frame = f.frame
      BY <1>6, <3>1, <3>2, SetSt
    <3>4. Under(u, h, o + Len(b), W)
      BY <1>6, <3>3, UnderSame, Zenon
    <3> QED
      BY <1>6, <3>3, <3>4, Zenon DEF InFirst
  <2>2. CASE t.st = "FWD_1ST_BUF"
    <3>1. u = f
      <4>1. v = t
        BY <1>3, <2>2
      <4> QED
        BY <1>5, <1>7, <2>2, <4>1 DEF TssChunk, TssFirst
    <3> QED
      BY <1>6, <2>2, <3>1, Zenon DEF InFirst
  <2> QED
    BY <2>1, <2>2, Zenon DEF InFirst
<1>8. ASSUME c.last, ~s
      PROVE  Over(u, h, o + Len(b), W)
  <2>1. u = Done(Emit(v, b))
    <3>1. CASE t.st = "DATA"
      BY <1>3, <1>8, <3>1 DEF TssChunk, TssData
    <3>2. CASE t.st = "FWD_1ST_BUF"
      <4>1. v = t /\ ~t.join
        BY <1>3, <1>4, <1>8, <3>2
      <4> QED
        BY <1>8, <3>2, <4>1 DEF TssChunk, TssFirst
    <3> QED
      BY <3>1, <3>2, Zenon DEF InFirst
  <2>2. Over(Done(Emit(v, b)), h, FSize(v) + Len(b), W)
    BY <1>0, <1>4, UnderEmit, Zenon
  <2> QED
    BY <1>4, <2>1, <2>2, Zenon
<1>9. ASSUME c.last, s, Len(b) \in 1..Chunk, o + Len(b) # Chunk
      PROVE  InSecond(u, h, o + Len(b), W)
  <2>1. CASE Len(b) = Chunk
    <3>1. t.st = "FWD_1ST_BUF" /\ v = t
      <4>1. o # 0
        BY <1>9, <2>1
      <4>2. t.st = "FWD_1ST_BUF"
        BY <4>1, Zenon DEF InFirst
      <4> QED
        BY <1>3, <4>2
    <3>2. u = EndOfFirst(f, b)
      <4>1. t.join
        BY <1>4, <1>9, <3>1
      <4> QED
        BY <1>5, <1>9, <2>1, <3>1, <4>1 DEF TssChunk, TssFirst
    <3>3. u.st = "FWD_2ND_BUF" /\ u.prev = <<>> /\ u.out = f.out /\ u.frame = f.frame
      BY <1>0, <1>6, <2>1, <3>2, EndOfFirstIs
    <3>4. Under(u, h, o + Len(b), W)
      BY <1>6, <3>3, UnderSame, Zenon
    <3>5. u.st = "FWD_2ND_BUF" /\ u.prev = <<>>
      BY <3>3
    <3> QED
      BY <3>4, <3>5 DEF InSecond
  <2>2. CASE Len(b) # Chunk
    <3>1. u = EndOfFirst(v, b)
      <4>1. CASE t.st = "DATA"
        BY <1>3, <1>9, <2>2, <4>1 DEF TssChunk, TssData
      <4>2. CASE t.st = "FWD_1ST_BUF"
        <5>1. v = t /\ t.join
          BY <1>3, <1>4, <1>9, <4>2
        <5> QED
          BY <1>9, <2>2, <4>2, <5>1 DEF TssChunk, TssFirst
      <4> QED
        BY <4>1, <4>2, Zenon DEF InFirst
    <3>2. u.st = "JOIN_2ND_BUF" /\ u.prev = b /\ u.out = v.out /\ u.frame = v.frame
      BY <1>0, <1>4, <2>2, <3>1, EndOfFirstIs
    <3>3. Under(u, h, o + Len(b), W)
      BY <1>0, <1>4, <3>2, UnderHold, Zenon
    <3>4. PSize(u) \in 1..(Chunk - 1)
      <4>1. PSize(u) = Len(b)
        BY <3>2, Zenon DEF PSize
      <4>2. Len(b) \in 1..Chunk /\ Len(b) # Chunk
        BY <1>9, <2>2
      <4>3. Chunk \in Nat
        BY Sizes
      <4> QED
        BY <4>1, <4>2, <4>3
    <3> QED
      BY <3>2, <3>3, <3>4, Zenon DEF InSecond
  <2> QED
    BY <2>1, <2>2
<1> QED
  BY <1>7, <1>8, <1>9

\* Tss completes the chunk at the border of the two buffers with the first bytes of b.
LEMMA UnderJoin ==
    ASSUME NEW V, NEW h, NEW t \in Tsss(h, V), NEW o \in Nat, NEW W, InSecond(t, h, o, W), t.st = "JOIN_2ND_BUF",
           NEW c, NEW b \in Seq(V), c.bytes = b, Len(b) \in 1..Chunk, c.last \in BOOLEAN, ~c.last => Len(b) = Chunk,
           Right(b, o, W), NEW u, u = TssJoin(t, c)
    PROVE  IF c.last THEN Over(u, h, o + Len(b), W) ELSE InSecond(u, h, o + Len(b), W)
<1>1. /\ t.out = <<>> /\ t.frame.hdr = <<h>> /\ FSize(t) + PSize(t) = o /\ Right(t.frame.bytes, 0, W) /\ Right(t.prev, FSize(t), W)
      /\ Under(t, h, o, W)
  BY Zenon DEF InSecond, Under
<1>2. PSize(t) \in 1..(Chunk - 1)
  <2>1. t.st # "FWD_2ND_BUF"
    OBVIOUS
  <2> QED
    BY <2>1, Zenon DEF InSecond
<1>3. FSize(t) \in Nat /\ t.prev \in Seq(V) /\ t.frame.bytes \in Seq(V) /\ PSize(t) = Len(t.prev) /\ FSize(t) = Len(t.frame.bytes)
  <2>1. FSize(t) \in Nat /\ t.prev \in Seq(V) /\ t.frame.bytes \in Seq(V)
    BY LightLens, Zenon
  <2> QED
    BY <2>1, Zenon DEF PSize, FSize
<1>4. PICK r, y : r = Chunk - PSize(t) /\ y = t.prev \o Take(b, r)
  OBVIOUS
<1>5. r \in 1..(Chunk - 1) /\ r \in Nat /\ PSize(t) + r = Chunk
  BY <1>2, <1>4, Sizes
<1>6. Joined(u, t, c.last, b, r, y, V, h)
  BY <1>4, <1>5, JoinIs
<1>7. y \in Seq(V) /\ Len(y) = PSize(t) + (IF r < Len(b) THEN r ELSE Len(b))
  BY <1>6, Zenon DEF Joined
<1>8. Right(y, FSize(t), W)
  <2>1. PICK x : x = Take(b, r)
    OBVIOUS
  <2>2. x \in Seq(V) /\ Right(x, o, W)
    BY <1>5, <2>1, TakeDrop, RightCut, Zenon
  <2>3. o = FSize(t) + Len(t.prev)
    BY <1>1, <1>3
  <2> QED
    BY <1>1, <1>3, <1>4, <2>1, <2>2, <2>3, RightJoin, Zenon
<1>9. CASE Len(b) <= r
  <2>1. c.last
    BY <1>5, <1>9
  <2>2. u = Done(Emit(t, y))
    BY <1>6, <1>9, Zenon DEF Joined
  <2>3. Over(u, h, FSize(t) + Len(y), W)
    BY <1>1, <1>7, <1>8, <2>2, UnderEmit, Zenon
  <2>4. FSize(t) + Len(y) = o + Len(b)
    <3>1. PICK e, p, q, k : e = FSize(t) /\ p = PSize(t) /\ q = Len(y) /\ k = Len(b)
      OBVIOUS
    <3>2. e + p = o /\ e \in Nat /\ p \in 1..(Chunk - 1)
      BY <1>1, <1>2, <1>3, <3>1, Zenon
    <3>3. k \in 1..Chunk
      BY <3>1
    <3>4. q = p + k
      BY <1>5, <1>7, <1>9, <3>1, <3>2, <3>3
    <3>5. e + q = o + k
      BY <3>2, <3>3, <3>4, Sizes
    <3> QED
      BY <3>1, <3>5, Zenon
  <2> QED
    BY <2>1, <2>3, <2>4
<1>10. CASE Len(b) > r
  <2>1. PICK d, x : d = Drop(b, r) /\ x = t.frame.bytes
    OBVIOUS
  <2>2. /\ u.st = (IF c.last THEN "RESIDUE" ELSE "JOIN_2ND_BUF") /\ u.prev = d /\ u.out = t.out
        /\ u.frame = [hdr |-> t.frame.hdr, bytes |-> x \o y] /\ Len(d) = Len(b) - r
    BY <1>6, <1>10, <2>1, Zenon DEF Joined
  <2>3. Right(x \o y, 0, W) /\ Len(x \o y) = Len(x) + Len(y) /\ x \in Seq(V) /\ Len(x) = FSize(t)
    <3>1. 0 \in Nat /\ FSize(t) = 0 + Len(x)
      BY <1>3, <2>1
    <3>2. x \in Seq(V) /\ Len(x) = FSize(t) /\ Right(x, 0, W)
      BY <1>1, <1>3, <2>1
    <3> QED
      BY <1>7, <1>8, <3>1, <3>2, RightJoin, Zenon
  <2>4. u.frame.hdr = <<h>> /\ u.frame.bytes = x \o y /\ u.out = <<>>
    BY <1>1, <2>2
  <2>5. FSize(u) = FSize(t) + Len(y) /\ PSize(u) = Len(b) - r
    BY <2>2, <2>3, <2>4, Zenon DEF FSize, PSize
  <2>6. Len(y) = Chunk
    BY <1>5, <1>7, <1>10
  <2>7. FSize(u) + PSize(u) = o + Len(b) /\ FSize(u) = o + r
    <3>1. PICK e, p, k : e = FSize(t) /\ p = PSize(t) /\ k = Len(b)
      OBVIOUS
    <3>2. e + p = o /\ e \in Nat /\ p \in 1..(Chunk - 1) /\ p + r = Chunk
      BY <1>1, <1>2, <1>3, <1>5, <3>1, Zenon
    <3>3. k \in 1..Chunk /\ r \in 1..(Chunk - 1)
      BY <1>5, <3>1
    <3>4. FSize(u) = e + Chunk /\ PSize(u) = k - r
      BY <2>5, <2>6, <3>1
    <3>5. (e + Chunk) + (k - r) = o + k /\ e + Chunk = o + r
      BY <3>2, <3>3, Sizes
    <3> QED
      BY <3>1, <3>4, <3>5, Zenon
  <2>8. Right(u.prev, FSize(u), W)
    <3>1. r <= Len(b)
      BY <1>5, <1>10
    <3>2. Right(d, o + r, W)
      BY <1>5, <2>1, <3>1, RightCut, Zenon
    <3> QED
      BY <2>2, <2>7, <3>2, Zenon
  <2>9. Under(u, h, o + Len(b), W)
    BY <2>3, <2>4, <2>7, <2>8, Zenon DEF Under
  <2>10. CASE c.last
    <3>1. u.st = "RESIDUE"
      BY <2>2, <2>10
    <3> QED
      BY <2>9, <2>10, <3>1, Zenon DEF Over
  <2>11. CASE ~c.last
    <3>1. u.st = "JOIN_2ND_BUF"
      BY <2>2, <2>11
    <3>2. PSize(u) \in 1..(Chunk - 1)
      BY <1>5, <2>5, <2>11, Sizes
    <3> QED
      BY <2>9, <2>11, <3>1, <3>2, Zenon DEF InSecond
  <2> QED
    BY <2>10, <2>11
<1> QED
  <2>1. Len(b) \in Nat
    OBVIOUS
  <2> QED
    BY <1>5, <1>9, <1>10, <2>1

\* Chunks of the second buffer.
LEMMA SecondGoes ==
    ASSUME NEW V, NEW h, NEW t \in Tsss(h, V), NEW s, NEW o \in Nat, NEW W, InSecond(t, h, o, W),
           NEW c \in [bytes : Seq(V), last : BOOLEAN], NEW b, b = c.bytes, Len(b) \in 1..Chunk, ~c.last => Len(b) = Chunk,
           Right(b, o, W), NEW u, u = TssChunk(t, c, s)
    PROVE  IF c.last THEN Over(u, h, o + Len(b), W) ELSE InSecond(u, h, o + Len(b), W)
<1>0. b \in Seq(V) /\ c.last \in BOOLEAN /\ Len(b) \in Nat
  OBVIOUS
<1>1. CASE t.st = "FWD_2ND_BUF"
  <2>1. Under(t, h, o, W) /\ t.prev = <<>> /\ t.out = <<>> /\ t.frame.hdr = <<h>> /\ Right(t.frame.bytes, 0, W)
    <3>1. t.st # "JOIN_2ND_BUF"
      BY <1>1
    <3> QED
      BY <3>1, Zenon DEF InSecond, Under
  <2>2. FSize(t) = o
    <3>1. FSize(t) + PSize(t) = o
      BY <2>1, Zenon DEF Under
    <3>2. FSize(t) \in Nat
      BY LightLens, Zenon
    <3>3. PSize(t) = 0
      BY <2>1 DEF PSize
    <3> QED
      BY <3>1, <3>2, <3>3
  <2>3. u = IF c.last THEN Done(Emit(t, b)) ELSE Forward(t, b)
    BY <1>1 DEF TssChunk, TssSecond
  <2>4. CASE c.last
    <3>1. Over(Done(Emit(t, b)), h, FSize(t) + Len(b), W)
      BY <1>0, <2>1, <2>2, UnderEmit, Zenon
    <3> QED
      BY <2>2, <2>3, <2>4, <3>1, Zenon
  <2>5. CASE ~c.last
    <3>1. Forwarded(u, t, b, V, h)
      BY <1>0, <2>3, <2>5, ForwardedIs, Zenon
    <3>2. /\ u \in Tsss(h, V) /\ u.st = "FWD_2ND_BUF" /\ u.prev = <<>> /\ u.out = t.out
          /\ u.frame = [hdr |-> t.frame.hdr, bytes |-> t.frame.bytes \o b]
      BY <1>1, <2>1, <3>1, Zenon DEF Forwarded
    <3>3. Under(u, h, o + Len(b), W)
      BY <1>0, <2>1, <3>2, UnderForward, Zenon
    <3> QED
      BY <2>5, <3>2, <3>3 DEF InSecond
  <2> QED
    BY <2>4, <2>5
<1>2. CASE t.st = "JOIN_2ND_BUF"
  <2>1. u = TssJoin(t, c)
    BY <1>2 DEF TssChunk
  <2> QED
    BY <1>0, <1>2, <2>1, UnderJoin, Zenon
<1> QED
  BY <1>1, <1>2, Zenon DEF InSecond

\* The rest of the last chunk.
LEMMA ResidueGoes ==
    ASSUME NEW V, NEW h, NEW t \in Tsss(h, V), NEW n \in Nat, NEW W, Over(t, h, n, W)
    PROVE  OneFrame(TssResidue(t).out, h, n, W)
<1>1. CASE t.st = "RESIDUE"
  <2>1. Under(t, h, n, W)
    BY <1>1, Zenon DEF Over
  <2>2. PICK b : b = t.prev
    OBVIOUS
  <2>3. /\ t.out = <<>> /\ t.frame.hdr = <<h>> /\ FSize(t) + Len(b) = n /\ Right(t.frame.bytes, 0, W) /\ Right(b, FSize(t), W)
        /\ b \in Seq(V)
    <3>1. b \in Seq(V)
      BY <2>2, LightLens, Zenon
    <3> QED
      BY <2>1, <2>2, <3>1, Zenon DEF Under, PSize
  <2>4. OneFrame(Emit(t, b).out, h, n, W) /\ Emit(t, b) \in Tsss(h, V)
    BY <2>3, UnderEmit, Zenon
  <2>5. TssResidue(t) = Done(Emit(t, b))
    BY <1>1, <2>2 DEF TssResidue
  <2>6. Done(Emit(t, b)).out = Emit(t, b).out
    BY <2>4, DoneIs, Zenon
  <2> QED
    BY <2>4, <2>5, <2>6, Zenon
<1>2. CASE t.st # "RESIDUE"
  BY <1>2, Zenon DEF Over, TssResidue
<1> QED
  BY <1>1, <1>2

\* Chunk c is what is asked for from a to z, of a segment from 0 to n with its first part up to m.
Part(c, a, z, m, n, W) ==
    /\ z = a + Len(c.bytes) /\ Len(c.bytes) \in 1..Chunk
    /\ c.last <=> z \in {m, n}
    /\ ~c.last => Len(c.bytes) = Chunk
    /\ a < m => z <= m
    /\ Right(c.bytes, a, W)
\* The chunks s are that segment, from k on: f[i] after i of them.
Read(s, f, k, m, n, W) ==
    /\ f \in [0..Len(s) -> k..n] /\ f[0] = k /\ f[Len(s)] = n
    /\ \A i \in 1..Len(s) : Part(s[i], f[i - 1], f[i], m, n, W)

\* Where Tss is after o bytes.
Amid(t, h, s, o, m, n, W) ==
    /\ o < m => InFirst(t, h, s, o, W)
    /\ m <= o /\ o < n => InSecond(t, h, o, W)
    /\ o = n => Over(t, h, n, W)

LEMMA AmidChunk ==
    ASSUME NEW V, NEW h, NEW t \in Tsss(h, V), NEW s \in BOOLEAN, NEW n \in Nat \ {0}, NEW m \in 1..n, NEW o \in 0..n, NEW z \in 0..n, NEW W,
           s <=> m < n, s => m # Chunk, Amid(t, h, s, o, m, n, W), NEW c \in [bytes : Seq(V), last : BOOLEAN], Part(c, o, z, m, n, W)
    PROVE  Amid(TssChunk(t, c, s), h, s, z, m, n, W)
<1>1. PICK b, u : b = c.bytes /\ u = TssChunk(t, c, s)
  OBVIOUS
<1>2. /\ z = o + Len(b) /\ Len(b) \in 1..Chunk /\ (c.last <=> z \in {m, n}) /\ (~c.last => Len(b) = Chunk)
      /\ (o < m => z <= m) /\ Right(b, o, W)
  BY <1>1, Zenon DEF Part
<1>3. Len(b) \in Nat \ {0} /\ o < z /\ o \in Nat /\ o < n
  BY <1>2, Sizes
<1>4. CASE o < m
  <2>1. InFirst(t, h, s, o, W)
    BY <1>4, Zenon DEF Amid
  <2>2. /\ ~c.last => InFirst(u, h, s, z, W)
        /\ c.last /\ ~s => Over(u, h, z, W)
        /\ c.last /\ s /\ Len(b) \in 1..Chunk /\ z # Chunk => InSecond(u, h, z, W)
    <3>1. /\ ~c.last => InFirst(u, h, s, o + Len(b), W)
          /\ c.last /\ ~s => Over(u, h, o + Len(b), W)
          /\ c.last /\ s /\ Len(b) \in 1..Chunk /\ o + Len(b) # Chunk => InSecond(u, h, o + Len(b), W)
      BY <1>1, <1>2, <1>3, <2>1, FirstGoes
    <3>2. z = o + Len(b)
      BY <1>2
    <3> QED
      BY <3>1, <3>2, Zenon
  <2>3. CASE ~c.last
    <3>1. z < m /\ z # n
      BY <1>2, <1>4, <2>3
    <3>2. ~(m <= z)
      BY <3>1
    <3> QED
      BY <1>1, <2>2, <2>3, <3>1, <3>2, Zenon DEF Amid
  <2>4. CASE c.last /\ ~s
    <3>1. z = n /\ ~(z < m) /\ ~(z < n)
      BY <1>2, <1>4, <2>4
    <3> QED
      BY <1>1, <2>2, <2>4, <3>1, Zenon DEF Amid
  <2>5. CASE c.last /\ s
    <3>1. z = m /\ z # n /\ z # Chunk /\ ~(z < m)
      BY <1>2, <1>4, <2>5
    <3> QED
      BY <1>1, <1>2, <2>2, <2>5, <3>1, Zenon DEF Amid
  <2> QED
    BY <2>3, <2>4, <2>5
<1>5. CASE ~(o < m)
  <2>1. m <= o /\ m < z
    BY <1>3, <1>5
  <2>2. InSecond(t, h, o, W)
    BY <1>3, <2>1, Zenon DEF Amid
  <2>3. IF c.last THEN Over(u, h, z, W) ELSE InSecond(u, h, z, W)
    BY <1>1, <1>2, <1>3, <2>2, SecondGoes, Zenon
  <2>4. ~(z < m) /\ (c.last <=> z = n)
    BY <1>2, <2>1
  <2>5. CASE c.last
    <3>1. z = n /\ ~(z < n)
      BY <2>4, <2>5
    <3> QED
      BY <1>1, <2>3, <2>4, <2>5, <3>1, Zenon DEF Amid
  <2>6. CASE ~c.last
    <3>1. z # n
      BY <2>4, <2>6
    <3> QED
      BY <1>1, <2>3, <2>4, <2>6, <3>1, Zenon DEF Amid
  <2> QED
    BY <2>5, <2>6
<1> QED
  BY <1>4, <1>5

\* Tss makes one frame of a segment: the header, and all the bytes in their order.
LEMMA FramesRight ==
    ASSUME NEW V, NEW h, NEW splits \in BOOLEAN, NEW s \in Seq(ChunkSet(V)), NEW n \in Nat \ {0}, NEW m \in 1..n, NEW W, NEW f,
           Read(s, f, 0, m, n, W), splits <=> m < n, splits => m # Chunk
    PROVE  OneFrame(Frames(h, s, splits), h, n, W)
<1>2. /\ Len(s) \in Nat /\ f \in [0..Len(s) -> 0..n] /\ f[0] = 0 /\ f[Len(s)] = n
      /\ \A i \in 1..Len(s) : Part(s[i], f[i - 1], f[i], m, n, W)
  BY DEF Read
<1>3. \A i \in 1..Len(s) : Len(s[i].bytes) <= Chunk
  <2>1. ASSUME NEW i \in 1..Len(s)
        PROVE  Len(s[i].bytes) <= Chunk
    <3>1. Part(s[i], f[i - 1], f[i], m, n, W)
      BY <1>2
    <3>2. Len(s[i].bytes) \in 1..Chunk
      BY <3>1, Zenon DEF Part
    <3> QED
      BY <3>2, Sizes
  <2> QED
    BY <2>1
<1>4. PICK g : g = Steps(h, s, splits)
  OBVIOUS
<1>5. g[0] = PsdHdr(h) /\ \A i \in 1..Len(s) : g[i] = TssChunk(g[i - 1], s[i], splits)
  <2>1. Stepping(Steps(h, s, splits), h, s, splits)
    BY <1>3, StepsAre
  <2> QED
    BY <1>4, <2>1, Zenon DEF Stepping
<1> DEFINE S == {i \in 0 .. Len(s) : g[i] \in Tsss(h, V) /\ Amid(g[i], h, splits, f[i], m, n, W) /\ \E l \in Nat : Light(g[i], l)}
<1>6. 0 \in S
  <2>1. PICK w : w = PsdHdr(h)
    OBVIOUS
  <2>2. w = [st |-> "DATA", prev |-> <<>>, join |-> FALSE, out |-> <<>>, frame |-> [hdr |-> <<h>>, bytes |-> <<>>]]
    BY <2>1, Zenon DEF PsdHdr
  <2>3. [hdr |-> <<h>>, bytes |-> <<>>] \in Pieces(h, V)
    BY DEF Pieces
  <2>5. w \in Tsss(h, V)
    BY <2>2, <2>3 DEF Tsss, TssStates
  <2>6. w.st = "DATA" /\ w.prev = <<>> /\ w.frame.bytes = <<>> /\ w.frame.hdr = <<h>> /\ w.out = <<>>
    BY <2>2
  <2>7. PSize(w) = 0 /\ FSize(w) = 0 /\ FSize(w) + PSize(w) = 0
    BY <2>6 DEF PSize, FSize
  <2>8. Light(w, 0)
    BY <2>6, <2>7, Sizes DEF Light
  <2>9. Under(w, h, 0, W)
    BY <2>6, <2>7, RightNone, Zenon DEF Under
  <2>10. InFirst(w, h, splits, 0, W)
    BY <2>6, <2>9, Zenon DEF InFirst
  <2>11. ~(m <= 0) /\ 0 # n
    OBVIOUS
  <2>12. Amid(w, h, splits, 0, m, n, W)
    BY <2>10, <2>11, Zenon DEF Amid
  <2>13. g[0] \in Tsss(h, V) /\ Amid(g[0], h, splits, f[0], m, n, W) /\ Light(g[0], 0)
    BY <1>2, <1>5, <2>1, <2>5, <2>8, <2>12, Zenon
  <2> QED
    BY <1>2, <2>13
<1>7. ASSUME NEW i \in 0 .. Len(s) - 1, i \in S
      PROVE  i + 1 \in S
  <2>1. g[i] \in Tsss(h, V) /\ Amid(g[i], h, splits, f[i], m, n, W) /\ \E l \in Nat : Light(g[i], l)
    BY <1>7
  <2>2. i + 1 \in 1 .. Len(s) /\ i + 1 \in 0 .. Len(s) /\ i \in 0..Len(s) /\ (i + 1) - 1 = i
    BY <1>2
  <2>3. g[i + 1] = TssChunk(g[i], s[i + 1], splits)
    BY <1>5, <2>2
  <2>4. PICK t, c, o, z : t = g[i] /\ c = s[i + 1] /\ o = f[i] /\ z = f[i + 1]
    OBVIOUS
  <2>5. c \in ChunkSet(V) /\ o \in 0..n /\ z \in 0..n /\ Len(c.bytes) <= Chunk
    <3>2. s[i + 1] \in ChunkSet(V)
      BY <2>2
    <3>3. f[i] \in 0..n /\ f[i + 1] \in 0..n
      BY <1>2, <2>2
    <3> QED
      BY <1>3, <2>2, <2>4, <3>2, <3>3
  <2>6. c \in [bytes : Seq(V), last : BOOLEAN] /\ Len(c.bytes) \in Nat
    BY <2>5 DEF ChunkSet
  <2>7. PICK l \in Nat : t \in Tsss(h, V) /\ Light(t, l) /\ Amid(t, h, splits, o, m, n, W)
    BY <2>1, <2>4, Zenon
  <2>8. TssChunk(t, c, splits) \in Tsss(h, V) /\ Light(TssChunk(t, c, splits), l + Len(c.bytes)) /\ l + Len(c.bytes) \in Nat
    BY <2>5, <2>6, <2>7, LightChunk
  <2>9. Part(c, o, z, m, n, W)
    BY <1>2, <2>2, <2>4
  <2>10. Amid(TssChunk(t, c, splits), h, splits, z, m, n, W)
    BY <2>5, <2>6, <2>7, <2>9, AmidChunk
  <2>11. g[i + 1] \in Tsss(h, V) /\ Amid(g[i + 1], h, splits, f[i + 1], m, n, W) /\ \E k \in Nat : Light(g[i + 1], k)
    BY <2>3, <2>4, <2>8, <2>10, Zenon
  <2> QED
    BY <2>2, <2>11
<1>8. Len(s) \in S
  <2> HIDE DEF S
  <2>1. \A i \in 0 .. Len(s) : i \in S
    BY <1>2, <1>6, <1>7, IntervalInduction
  <2> QED
    BY <1>2, <2>1
<1>9. PICK t : t = g[Len(s)]
  OBVIOUS
<1>10. t \in Tsss(h, V) /\ Amid(t, h, splits, n, m, n, W)
  BY <1>2, <1>8, <1>9
<1>11. Over(t, h, n, W)
  BY <1>10, Zenon DEF Amid
<1>12. OneFrame(TssResidue(t).out, h, n, W)
  BY <1>10, <1>11, ResidueGoes, Zenon
<1> QED
  BY <1>4, <1>9, <1>12, FramesAre, Zenon

LEMMA RightMore ==
    ASSUME NEW b, NEW o, NEW W, NEW X, W \subseteq X, Right(b, o, W)
    PROVE  Right(b, o, X)
  BY Zenon DEF Right

LEMMA ReadMore ==
    ASSUME NEW s, NEW f, NEW k, NEW m, NEW n, NEW W, NEW X, W \subseteq X, Read(s, f, k, m, n, W)
    PROVE  Read(s, f, k, m, n, X)
<1>1. \A i \in 1..Len(s) : Part(s[i], f[i - 1], f[i], m, n, W) => Part(s[i], f[i - 1], f[i], m, n, X)
  BY RightMore, Zenon DEF Part
<1> QED
  BY <1>1, Zenon DEF Read

LEMMA ReadJoin ==
    ASSUME NEW V, NEW s \in Seq(V), NEW t \in Seq(V), NEW m \in Nat, NEW n \in Nat, m < n, NEW W, NEW f, NEW g,
           Read(s, f, 0, m, m, W), Read(t, g, m, m, n, W)
    PROVE  \E h : Read(s \o t, h, 0, m, n, W)
<1>3. PICK k, l, u : k = Len(s) /\ l = Len(t) /\ u = s \o t
  OBVIOUS
<1>4. /\ k \in Nat /\ l \in Nat /\ Len(u) = k + l
      /\ \A i \in 1..k : u[i] = s[i]
      /\ \A i \in 1..l : u[k + i] = t[i]
  BY <1>3
<1>5. /\ f \in [0..k -> 0..m] /\ f[0] = 0 /\ f[k] = m
      /\ \A i \in 1..k : Part(s[i], f[i - 1], f[i], m, m, W)
  BY <1>3, Zenon DEF Read
<1>6. /\ g \in [0..l -> m..n] /\ g[0] = m /\ g[l] = n
      /\ \A i \in 1..l : Part(t[i], g[i - 1], g[i], m, n, W)
  BY <1>3, Zenon DEF Read
<1> DEFINE h == [i \in 0..(k + l) |-> IF i <= k THEN f[i] ELSE g[i - k]]
<1>7. h \in [0..(k + l) -> 0..n]
  <2>1. ASSUME NEW i \in 0..(k + l)
        PROVE  (IF i <= k THEN f[i] ELSE g[i - k]) \in 0..n
    <3>1. CASE i <= k
      <4>1. i \in 0..k
        BY <1>4, <3>1
      <4>2. f[i] \in 0..m
        BY <1>5, <4>1
      <4> QED
        BY <3>1, <4>2
    <3>2. CASE ~(i <= k)
      <4>1. i - k \in 0..l
        BY <1>4, <3>2
      <4>2. g[i - k] \in m..n
        BY <1>6, <4>1
      <4> QED
        BY <3>2, <4>2
    <3> QED
      BY <3>1, <3>2
  <2> QED
    BY <2>1
<1>8. \A i \in 0..k : h[i] = f[i]
  BY <1>4
<1>9. \A i \in 0..l : h[k + i] = g[i]
  <2>1. ASSUME NEW i \in 0..l
        PROVE  h[k + i] = g[i]
    <3>1. CASE i = 0
      BY <1>4, <1>5, <1>6, <3>1
    <3>2. CASE i # 0
      BY <1>4, <3>2
    <3> QED
      BY <3>1, <3>2
  <2> QED
    BY <2>1
<1> HIDE DEF h
<1>10. h[0] = 0 /\ h[k + l] = n
  BY <1>4, <1>5, <1>6, <1>8, <1>9
<1>11. ASSUME NEW i \in 1..(k + l)
       PROVE  Part(u[i], h[i - 1], h[i], m, n, W)
  <2>1. CASE i <= k
    <3>1. i \in 1..k /\ i \in 0..k /\ i - 1 \in 0..k
      BY <1>4, <2>1
    <3>2. u[i] = s[i] /\ h[i] = f[i] /\ h[i - 1] = f[i - 1]
      BY <1>4, <1>8, <3>1, Zenon
    <3>3. Part(s[i], f[i - 1], f[i], m, m, W) /\ f[i] \in 0..m
      BY <1>5, <3>1
    <3>4. f[i] \in {m, m} <=> f[i] \in {m, n}
      BY <3>3
    <3>5. Part(s[i], f[i - 1], f[i], m, n, W)
      BY <3>3, <3>4, Zenon DEF Part
    <3> QED
      BY <3>2, <3>5, Zenon
  <2>2. CASE i > k
    <3>1. PICK j : j = i - k
      OBVIOUS
    <3>2. j \in 1..l /\ j \in 0..l /\ j - 1 \in 0..l /\ i = k + j /\ i - 1 = k + (j - 1)
      BY <1>4, <2>2, <3>1
    <3>3. u[i] = t[j] /\ h[i] = g[j] /\ h[i - 1] = g[j - 1]
      BY <1>4, <1>9, <3>2, Zenon
    <3> QED
      BY <1>6, <3>2, <3>3, Zenon
  <2> QED
    BY <1>4, <2>1, <2>2
<1>12. Read(u, h, 0, m, n, W)
  BY <1>4, <1>7, <1>10, <1>11, Zenon DEF Read
<1> QED
  BY <1>3, <1>12, Zenon

LEMMA LenIs ==
    ASSUME NEW V, NEW n \in Nat, NEW v \in [1..n -> V]
    PROVE  Len(v) = n
  OBVIOUS

LEMMA MemCell ==
    ASSUME mem \in [0..(BufSize - 1) -> Nat], NEW a \in Nat, NEW n \in Nat, NEW i \in 1..n
    PROVE  mem[(a + i - 1) % BufSize] \in Nat
<1>1. PICK x : x = a + i - 1
  OBVIOUS
<1>2. x \in Int
  BY <1>1
<1>3. x % BufSize \in 0..(BufSize - 1)
  BY <1>2, DivMod, Sizes
<1> QED
  BY <1>1, <1>3

\* The values v in chunks: the chunks from k to k + n of a segment.
LEMMA ChunksRead ==
    ASSUME NEW V, NEW n \in Nat \ {0}, NEW v \in [1..n -> V], NEW k \in Nat, NEW y, y = k + n, NEW m, m = k \/ m = y, NEW W,
           Len(v) = n, Right(v, k, W)
    PROVE  \E f : Read(Chunks(v, n), f, k, m, y, W)
<1>3. PICK c, q : c = Chunks(v, n) /\ q = Count(n)
  OBVIOUS
<1>4. q \in Nat \ {0} /\ (q - 1) * Chunk < n /\ n <= q * Chunk
  BY <1>3, CountIs
<1>5. ChunksOf(c, v, n, V)
  BY <1>3, ChunksAt
<1>6. /\ Len(c) = q
      /\ \A i \in 1..q :
          /\ (i - 1) * Chunk \in Nat /\ End(n, i) \in Nat
          /\ (i - 1) * Chunk < End(n, i) /\ End(n, i) <= n
          /\ End(n, i) - (i - 1) * Chunk <= Chunk
          /\ i # q => End(n, i) - (i - 1) * Chunk = Chunk
          /\ Len(c[i].bytes) = End(n, i) - (i - 1) * Chunk
          /\ c[i].last = (i = q)
          /\ \A j \in 1 .. End(n, i) - (i - 1) * Chunk : c[i].bytes[j] = v[(i - 1) * Chunk + j]
  BY <1>3, <1>5, Zenon DEF ChunksOf
<1> DEFINE f == [i \in 0..q |-> IF i = 0 THEN k ELSE k + End(n, i)]
<1>7. f \in [0..q -> k..y]
  <2>1. ASSUME NEW i \in 0..q
        PROVE  (IF i = 0 THEN k ELSE k + End(n, i)) \in k..y
    <3>1. CASE i = 0
      BY <3>1
    <3>2. CASE i # 0
      <4>1. i \in 1..q
        BY <1>4, <3>2
      <4>2. End(n, i) \in Nat /\ End(n, i) <= n
        BY <1>6, <4>1, Zenon
      <4> QED
        BY <3>2, <4>2
    <3> QED
      BY <3>1, <3>2
  <2> QED
    BY <2>1
<1>8. f[0] = k /\ \A i \in 1..q : f[i] = k + End(n, i)
  BY <1>4
<1> HIDE DEF f
<1>9. f[q] = y
  <2>1. q \in 1..q
    BY <1>4
  <2>2. End(n, q) = n
    BY <1>3 DEF End
  <2> QED
    BY <1>8, <2>1, <2>2
<1>10. ASSUME NEW i \in 1..q
       PROVE  Part(c[i], f[i - 1], f[i], m, y, W)
  <2>1. PICK o, e, b : o = (i - 1) * Chunk /\ e = End(n, i) /\ b = Len(c[i].bytes)
    OBVIOUS
  <2>2. /\ o \in Nat /\ e \in Nat /\ o < e /\ e <= n /\ b = e - o /\ b <= Chunk
        /\ i # q => b = Chunk
        /\ c[i].last = (i = q)
        /\ \A j \in 1 .. e - o : c[i].bytes[j] = v[o + j]
    BY <1>6, <2>1, Zenon
  <2>3. i = q => e = n
    BY <1>3, <2>1 DEF End
  <2>4. i # q => e < n
    <3>1. CASE i # q
      <4>1. i <= q - 1 /\ i \in Nat
        BY <1>4, <3>1
      <4>2. i * Chunk <= (q - 1) * Chunk
        BY <1>4, <4>1, Sizes
      <4>3. e = i * Chunk
        BY <1>3, <2>1, <3>1 DEF End
      <4> QED
        BY <1>4, <4>2, <4>3, Sizes
    <3> QED
      BY <3>1
  <2>5. f[i] = k + e
    BY <1>8, <2>1
  <2>6. f[i - 1] = k + o
    <3>1. CASE i = 1
      <4>1. o = 0
        BY <2>1, <3>1, Sizes
      <4> QED
        BY <1>8, <3>1, <4>1
    <3>2. CASE i # 1
      <4>1. i - 1 \in 1..q /\ i - 1 # q
        BY <1>4, <3>2
      <4>2. f[i - 1] = k + End(n, i - 1)
        BY <1>8, <4>1
      <4>3. End(n, i - 1) = o
        BY <1>3, <2>1, <4>1 DEF End
      <4> QED
        BY <4>2, <4>3
    <3> QED
      BY <3>1, <3>2
  <2>7. PICK x, z : x = k + o /\ z = k + e
    OBVIOUS
  <2>8. z = x + b /\ b \in 1..Chunk
    BY <2>2, <2>7, Sizes
  <2>9. i = q <=> z \in {m, y}
    BY <2>2, <2>3, <2>4, <2>7
  <2>10. x < m => z <= m
    BY <2>2, <2>7
  <2>11. Right(c[i].bytes, x, W)
    <3>1. ASSUME NEW j \in 1..b
          PROVE  <<x + j, c[i].bytes[j]>> \in W
      <4>1. j \in 1..(e - o) /\ o + j \in 1..n /\ x + j = k + (o + j)
        BY <2>2, <2>7, <3>1
      <4>2. c[i].bytes[j] = v[o + j]
        BY <2>2, <4>1, Zenon
      <4>3. <<k + (o + j), v[o + j]>> \in W
        BY <4>1, Zenon DEF Right
      <4> QED
        BY <4>1, <4>2, <4>3, Zenon
    <3> QED
      BY <2>1, <3>1, Zenon DEF Right
  <2>12. c[i].last <=> z \in {m, y}
    BY <2>2, <2>9, Zenon
  <2>13. ~c[i].last => b = Chunk
    BY <2>2, Zenon
  <2>14. Part(c[i], x, z, m, y, W)
    BY <2>1, <2>8, <2>10, <2>11, <2>12, <2>13, Zenon DEF Part
  <2> QED
    BY <2>5, <2>6, <2>7, <2>14, Zenon
<1>11. Read(c, f, k, m, y, W)
  BY <1>6, <1>7, <1>8, <1>9, <1>10, Zenon DEF Read
<1> QED
  BY <1>3, <1>11, Zenon

\* What MEM reads, of n cells from a on.
LEMMA MemRead ==
    ASSUME mem \in [0..(BufSize - 1) -> Nat], NEW a \in Nat, NEW n \in Nat \ {0}, NEW k \in Nat, NEW y, y = k + n, NEW m, m = k \/ m = y,
           NEW W, \A i \in 1..n : <<k + i, mem[(a + i - 1) % BufSize]>> \in W
    PROVE  \E f : Read(MemChunks(a, n), f, k, m, y, W)
<1> DEFINE v == [i \in 1..n |-> mem[(a + i - 1) % BufSize]]
<1>1. v \in [1..n -> Nat]
  <2>1. ASSUME NEW i \in 1..n
        PROVE  mem[(a + i - 1) % BufSize] \in Nat
    BY MemCell, Zenon
  <2> QED
    BY <2>1, Zenon
<1>2. \A i \in 1..n : <<k + i, v[i]>> \in W
  BY Zenon
<1>3. MemChunks(a, n) = Chunks(v, n)
  BY Zenon DEF MemChunks
<1> HIDE DEF v
<1>4. Len(v) = n
  BY <1>1, LenIs, Zenon
<1>5. Right(v, k, W)
  BY <1>2, <1>4, Zenon DEF Right
<1>6. \E f : Read(Chunks(v, n), f, k, m, y, W)
  BY <1>1, <1>4, <1>5, ChunksRead, Zenon
<1> QED
  BY <1>3, <1>6, Zenon

----------------------------------------------------------------------------
(* What the peer waits for *)

\* At the j-th place of the payload of h: what the application wrote there, if the peer still waits for it.
Fits(h) == {z \in Int \X Nat : peer.rcv <= SeqPos(h.seq) + z[1] - 1 => z[2] = SeqPos(h.seq) + z[1] - 1}

LEMMA FitsIs ==
    ASSUME NEW h, NEW j \in Int, NEW x \in Nat, NEW s, s = SeqPos(h.seq)
    PROVE  <<j, x>> \in Fits(h) <=> (peer.rcv <= s + j - 1 => x = s + j - 1)
  BY DEF Fits

LEMMA FitsMore ==
    ASSUME NEW h, SeqPos(h.seq)' = SeqPos(h.seq), SeqPos(h.seq) \in Int, peer.rcv \in Nat, peer'.rcv \in Nat, peer.rcv <= peer'.rcv
    PROVE  Fits(h) \subseteq Fits(h)'
<1>1. PICK s, r, q : s = SeqPos(h.seq) /\ r = peer.rcv /\ q = peer'.rcv
  OBVIOUS
<1>2. Fits(h) = {z \in Int \X Nat : r <= s + z[1] - 1 => z[2] = s + z[1] - 1}
  BY <1>1, Zenon DEF Fits
<1>3. Fits(h)' = {z \in Int \X Nat : q <= s + z[1] - 1 => z[2] = s + z[1] - 1}
  BY <1>1, Zenon DEF Fits
<1>4. s \in Int /\ r \in Nat /\ q \in Nat /\ r <= q
  BY <1>1
<1>5. ASSUME NEW z \in Fits(h)
      PROVE  z \in Fits(h)'
  <2>1. z \in Int \X Nat /\ (r <= s + z[1] - 1 => z[2] = s + z[1] - 1)
    BY <1>2, Zenon
  <2>2. PICK i, x : i = z[1] /\ x = z[2]
    OBVIOUS
  <2>3. i \in Int /\ (r <= s + i - 1 => x = s + i - 1)
    BY <2>1, <2>2
  <2>4. q <= s + i - 1 => r <= s + i - 1
    BY <1>4, <2>3
  <2>5. q <= s + z[1] - 1 => z[2] = s + z[1] - 1
    BY <2>2, <2>3, <2>4, Zenon
  <2> QED
    BY <1>3, <2>1, <2>5, Zenon
<1> QED
  BY <1>5

\* The peer goes on only.
LEMMA PeerGoesOn ==
    ASSUME NetTypes, [Next]_vars
    PROVE  peer.rcv \in Nat /\ peer'.rcv \in Nat /\ peer.rcv <= peer'.rcv /\ (peer.fin => peer'.fin)
<1>0. Actions \/ UNCHANGED vars
  BY NextIs
<1>1. peer.rcv \in Nat /\ peer.rcv <= peer.rcv
  BY DEF NetTypes
<1>2. CASE UNCHANGED peer
  BY <1>1, <1>2, Zenon
<1>3. CASE \E w \in Windows : PeerTakes(w)
  <2>1. PICK w \in Windows : PeerTakes(w)
    BY <1>3
  <2>2. w \in Nat
    BY <2>1, LengthAssumption, Sizes DEF LengthAssumption
  <2>3. PICK g, h, from, next, fin, rcv : Takes(w, g, h, from, next, fin, rcv)
    BY <2>1, <2>2, TakesIs, Zenon
  <2>4. /\ next \in Nat /\ peer.rcv <= next /\ rcv = (IF fin /\ ~peer.fin THEN next + 1 ELSE next)
        /\ peer' = [rcv |-> rcv, fin |-> peer.fin \/ fin, edge |-> next + w]
    BY <2>3, Zenon DEF Takes
  <2>5. rcv \in Nat /\ peer.rcv <= rcv
    BY <1>1, <2>4
  <2>6. peer'.rcv = rcv /\ (peer.fin => peer'.fin)
    BY <2>4
  <2> QED
    BY <1>1, <2>5, <2>6
<1>4. CASE AppRequest \/ AppClose \/ SmlRequest \/ TatAnswer \/ SmlAccept \/ SmlRefuse \/ TatPush \/ Emx \/ TashIdle \/ TashStatus1 \/ TashStatus2
  BY <1>2, <1>4, Zenon DEF AppRequest, AppClose, SmlRequest, TatAnswer, SmlAccept, SmlRefuse, TatPush, Emx, TashIdle, TashStatus1, TashStatus2, net
<1>5. CASE MwrIdle \/ MwrSplit \/ MwrAligned \/ MwrFirst \/ MwrUncut \/ MwrSecond \/ MwrResidue
  BY <1>2, <1>5, Zenon DEF MwrIdle, MwrSplit, MwrAligned, MwrFirst, MwrUncut, MwrSecond, MwrResidue, net
<1>6. CASE MdlWait \/ MdlTx \/ MdlRt \/ MdlFin \/ MrdFirst \/ MrdSecond
  BY <1>2, <1>6, Zenon DEF MdlWait, MdlTx, MdlRt, MdlFin, MrdFirst, MrdSecond, net
<1>7. CASE TssHeader \/ TssSegment \/ Lose
  BY <1>2, <1>7, Zenon DEF TssHeader, TssSegment, Lose
<1>8. CASE RxeLoad \/ RxeTransition \/ TImExpire \/ UNCHANGED vars
  BY <1>2, <1>8, Zenon DEF RxeLoad, RxeTransition, TImExpire, vars, net
<1> QED
  BY <1>0, <1>3, <1>4, <1>5, <1>6, <1>7, <1>8, Zenon DEF Actions

\* What fits a header fits it after a step, too.
LEMMA FitsLast ==
    ASSUME IInv, [Next]_vars, InTime, ~peer'.fin, NEW h \in Headers, Sound(h)
    PROVE  ~peer.fin /\ Fits(h) \subseteq Fits(h)'
<1>0. Actions \/ UNCHANGED vars
  BY NextIs
<1>t. TaiTypes /\ TxeTypes /\ NetTypes /\ FinLine /\ SpaceLine /\ Pointers /\ AckLine
  BY Zenon DEF IInv, Types
<1>1. peer.rcv \in Nat /\ peer'.rcv \in Nat /\ peer.rcv <= peer'.rcv /\ ~peer.fin
  BY <1>t, PeerGoesOn, Zenon
<1>2. h.seq \in 0..(SeqMod - 1) /\ SeqPos(h.seq) \in Int
  BY <1>t, HeaderFacts, Zenon
<1>3. SeqPos(h.seq)' = SeqPos(h.seq)
  <2>1. CASE SmlAccept
    <3>1. PICK a, n, m : Room(a, n, m)
      BY <1>t, <2>1, RoomIs, Zenon DEF InTime
    <3>3. /\ n = app.next /\ app'.next = m /\ a <= A /\ m \in Int /\ a \in Int
          /\ \A x \in 0..(SeqMod - 1) : a - BufSize < SeqAt(n, x) => SeqAt(m, x) = SeqAt(n, x)
      BY <3>1, Zenon DEF Room, Stays
    <3>4. A <= peer.rcv /\ A \in Int /\ BufSize \in Nat \ {0}
      BY <1>t, PointerFacts, Sizes, Zenon DEF AckLine, RcvLine
    <3>5. peer.rcv < SeqPos(h.seq) + BufSize
      BY <1>1, Zenon DEF Sound
    <3>6. a - BufSize < SeqPos(h.seq)
      BY <1>1, <1>2, <3>3, <3>4, <3>5
    <3>7. SeqAt(m, h.seq) = SeqAt(n, h.seq)
      BY <1>2, <3>3, <3>6, Zenon DEF SeqPos
    <3> QED
      BY <3>3, <3>7, Zenon DEF SeqPos
  <2>2. CASE ~SmlAccept
    <3>1. app'.next = app.next
      BY <1>0, <1>t, <2>2, AppStep, Zenon
    <3> QED
      BY <3>1, Zenon DEF SeqPos
  <2> QED
    BY <2>1, <2>2
<1> QED
  BY <1>1, <1>2, <1>3, FitsMore, Zenon

\* The cells with the payload of h, from the k-th byte on, are right: all that the peer may wait for is kept.
LEMMA RingFits ==
    ASSUME IInv, NEW w, WrittenTo(w), ~peer.fin, NEW h \in Headers, Sound(h), NEW k \in Nat, NEW n \in Nat, k + n <= h.len,
           NEW a \in Nat, a = (SeqPos(h.seq) + k) % BufSize
    PROVE  \A i \in 1..n : <<k + i, mem[(a + i - 1) % BufSize]>> \in Fits(h)
<1>t. TaiTypes /\ TxeTypes /\ NetTypes /\ WrTypes /\ Pointers /\ AckLine /\ SentLine
  BY Zenon DEF IInv, Types
<1>1. PICK s, r, l : s = SeqPos(h.seq) /\ r = peer.rcv /\ l = h.len
  OBVIOUS
<1>2. s \in Int /\ l \in Nat /\ BufSize \in Nat \ {0} /\ r \in Nat
  <2>1. r \in Nat
    BY <1>1, <1>t DEF NetTypes
  <2> QED
    BY <1>1, <1>t, <2>1, HeaderFacts, Sizes, Zenon
<1>3. s + l <= DataEnd /\ DataEnd <= P /\ P <= w /\ DataEnd \in Int /\ P \in Int /\ w \in Int
  <2>1. s + l <= DataEnd
    BY <1>1, Zenon DEF Sound
  <2>2. DataEnd \in Int /\ P \in Int
    BY <1>t, SarFacts, PointerFacts, Zenon
  <2>3. DataEnd <= P /\ P <= w /\ w \in Int
    BY <1>t, Zenon DEF SentLine, WrittenTo, MarkLine
  <2> QED
    BY <2>1, <2>2, <2>3
<1>4. A <= r /\ A \in Int /\ \A p \in Int : A <= p /\ p < w => mem[p % BufSize] = p
  BY <1>1, <1>t, PointerFacts, Zenon DEF AckLine, RcvLine, WrittenTo, RingLine
<1>5. ASSUME NEW i \in 1..n
      PROVE  <<k + i, mem[(a + i - 1) % BufSize]>> \in Fits(h)
  <2>1. PICK x, y, v, d : x = s + (k + i) - 1 /\ y = a + i - 1 /\ v = mem[y % BufSize] /\ d = i - 1
    OBVIOUS
  <2>2. x \in Int /\ y \in Int /\ d \in Int /\ k + i \in Int /\ x = (s + k) + d /\ y = a + d /\ s + k \in Int
    BY <1>2, <2>1
  <2>3. y % BufSize = x % BufSize
    <3>1. Same(a, s + k, BufSize)
      BY <1>1, <1>2, <2>2, SameSelf, Zenon
    <3>2. Same(a + d, (s + k) + d, BufSize)
      <4>1. a \in Int
        OBVIOUS
      <4> QED
        BY <1>2, <2>2, <3>1, <4>1, SameAdd, Zenon
    <3> QED
      BY <2>2, <3>2, Zenon DEF Same
  <2>4. v \in Nat
    BY <1>t, <2>1, MemCell, Zenon DEF WrTypes
  <2>5. r <= x => v = x
    <3>1. CASE r <= x
      <4>1. A <= x
        BY <1>2, <1>4, <2>2, <3>1
      <4>2. x < w
        BY <1>1, <1>2, <1>3, <2>1
      <4>3. mem[x % BufSize] = x
        BY <1>4, <2>2, <4>1, <4>2, Zenon
      <4> QED
        BY <2>1, <2>3, <4>3, Zenon
    <3> QED
      BY <3>1
  <2>6. PICK j : j = k + i
    OBVIOUS
  <2>7. j \in Int /\ (peer.rcv <= s + j - 1 => v = s + j - 1)
    BY <1>1, <2>1, <2>2, <2>5, <2>6
  <2>8. <<j, v>> \in Fits(h)
    BY <1>1, <2>4, <2>7, FitsIs
  <2> QED
    BY <2>1, <2>6, <2>8, Zenon
<1> QED
  BY <1>5

----------------------------------------------------------------------------
(* The payload at Tss, or on its way to Tss, is that of the first header with one *)

\* h is the first header with a payload.
Leads(h) == \E i \in 1..Len(hdr) : h = hdr[i] /\ h.len # 0 /\ \A j \in 1..(i - 1) : hdr[j].len = 0

\* No payload is asked for before that of the first header with one.
LEMMA NoneBefore ==
    ASSUME TxeTypes, NEW c, Numbered(c), NEW k \in 0..Len(hdr), \A j \in 1..k : hdr[j].len = 0
    PROVE  c[k] = 0
<1>1. PICK S : S = {n \in 0..k : c[n] = 0}
  OBVIOUS
<1>2. c[0] = 0 /\ \A i \in 1..Len(hdr) : hdr[i].len = 0 => c[i] = c[i - 1]
  BY Zenon DEF Numbered
<1>3. Len(hdr) \in Nat
  BY DEF TxeTypes
<1>4. 0 \in S
  BY <1>1, <1>2, <1>3
<1>5. ASSUME NEW n \in 0..(k - 1), n \in S
      PROVE  n + 1 \in S
  <2>1. n + 1 \in 1..Len(hdr) /\ n + 1 \in 1..k /\ n + 1 \in 0..k /\ (n + 1) - 1 = n
    BY <1>3
  <2>2. c[n + 1] = c[(n + 1) - 1]
    BY <1>2, <2>1, Zenon
  <2>3. c[n] = 0
    BY <1>1, <1>5, Zenon
  <2>4. c[n + 1] = 0
    BY <2>1, <2>2, <2>3, Zenon
  <2> QED
    BY <1>1, <2>1, <2>4, Zenon
<1>6. k \in Nat /\ k \in 0..k
  BY <1>3
<1>7. \A n \in 0..k : n \in S
  BY <1>4, <1>5, <1>6, IntervalInduction, Zenon
<1> QED
  BY <1>1, <1>6, <1>7, Zenon

LEMMA LeadsIs ==
    ASSUME TxeTypes, NEW h, Leads(h)
    PROVE  h \in Headers /\ h.len \in 1..(BufSize - 1)
<1>1. PICK i \in 1..Len(hdr) : h = hdr[i] /\ h.len # 0
  BY Zenon DEF Leads
<1>2. hdr \in Seq(Headers)
  BY DEF TxeTypes
<1>3. h \in Headers
  BY <1>1, <1>2, ElementOf, Zenon
<1> QED
  BY <1>1, <1>3, Sizes DEF Headers

\* Its payload is the next one Mrd fetches, if none is being fetched.
LEMMA LeadsCommand ==
    ASSUME TxeTypes, ReadLine, split = <<>>, NEW h, Leads(h)
    PROVE  rdCmd[1] = [addr |-> Ptr(h.seq), len |-> h.len]
<1>1. PICK i \in 1..Len(hdr) : h = hdr[i] /\ h.len # 0 /\ \A j \in 1..(i - 1) : hdr[j].len = 0
  BY Zenon DEF Leads
<1>2. PICK c : Numbered(c)
  BY Zenon DEF ReadLine
<1>3. Len(hdr) \in Nat
  BY DEF TxeTypes
<1>4. i - 1 \in 0..Len(hdr)
  BY <1>3
<1>5. c[i - 1] = 0
  BY <1>1, <1>2, <1>4, NoneBefore, Zenon
<1>6. c[i] = c[i - 1] + 1 /\ (c[i] > Busy => rdCmd[c[i] - Busy] = [addr |-> Ptr(hdr[i].seq), len |-> hdr[i].len])
  BY <1>1, <1>2, Zenon DEF Numbered
<1>7. Busy = 0 /\ c[i] = 1
  BY <1>5, <1>6 DEF Busy
<1>8. c[i] > Busy /\ c[i] - Busy = 1
  BY <1>7
<1> QED
  BY <1>1, <1>6, <1>8, Zenon

\* There is such a header while a payload is fetched.
LEMMA SomeLeads ==
    ASSUME TxeTypes, ReadLine, split # <<>>
    PROVE  \E i \in 1..Len(hdr) : hdr[i].len # 0
<1> SUFFICES ASSUME \A i \in 1..Len(hdr) : hdr[i].len = 0
             PROVE  FALSE
  OBVIOUS
<1>2. PICK c : Numbered(c)
  BY Zenon DEF ReadLine
<1>3. Len(hdr) \in Nat /\ Len(hdr) \in 0..Len(hdr) /\ Len(rdCmd) \in Nat
  BY DEF TxeTypes
<1>5. c[Len(hdr)] = 0
  BY <1>2, <1>3, NoneBefore, Zenon
<1>6. c[Len(hdr)] = Busy + Len(rdCmd)
  BY <1>2, Zenon DEF Numbered
<1>7. Busy = 1
  BY DEF Busy
<1> QED
  BY <1>3, <1>5, <1>6, <1>7

\* It is at the head when those without a payload are gone.
LEMMA LeadsHead ==
    ASSUME TxeTypes, hdr # <<>>, Head(hdr).len # 0
    PROVE  Leads(Head(hdr))
<1>1. hdr \in Seq(Headers)
  BY DEF TxeTypes
<1>2. Head(hdr) = hdr[1] /\ Len(hdr) \in Nat \ {0}
  BY <1>1, HeadTail, Zenon
<1>3. 1 \in 1..Len(hdr) /\ \A j \in 1..(1 - 1) : hdr[j].len = 0
  BY <1>2
<1> QED
  BY <1>2, <1>3, Zenon DEF Leads

LEMMA LeadsTail ==
    ASSUME TxeTypes, hdr # <<>>, Head(hdr).len = 0, hdr' = Tail(hdr), NEW h, Leads(h)'
    PROVE  Leads(h)
<1>1. PICK i \in 1..Len(hdr') : h = hdr'[i] /\ h.len # 0 /\ \A j \in 1..(i - 1) : hdr'[j].len = 0
  BY Zenon DEF Leads
<1>2. hdr \in Seq(Headers)
  BY DEF TxeTypes
<1>3. /\ Head(hdr) = hdr[1] /\ Len(hdr) \in Nat \ {0} /\ Len(hdr') = Len(hdr) - 1
      /\ \A j \in 1..Len(hdr') : j + 1 \in 1..Len(hdr) /\ hdr'[j] = hdr[j + 1]
  BY <1>2, HeadTail, SMTT(40)
<1>4. i + 1 \in 1..Len(hdr) /\ hdr[i + 1] = h /\ i \in Nat
  BY <1>1, <1>3
<1>5. ASSUME NEW j \in 1..((i + 1) - 1)
      PROVE  hdr[j].len = 0
  <2>1. CASE j = 1
    BY <1>3, <2>1, Zenon
  <2>2. CASE j # 1
    <3>1. PICK k : k = j - 1
      OBVIOUS
    <3>2. k \in 1..(i - 1) /\ k \in 1..Len(hdr') /\ k + 1 = j
      BY <1>3, <1>4, <2>2, <3>1
    <3>3. hdr'[k].len = 0 /\ hdr'[k] = hdr[k + 1]
      BY <1>1, <1>3, <3>2, Zenon
    <3> QED
      BY <3>2, <3>3, Zenon
  <2> QED
    BY <2>1, <2>2
<1> QED
  BY <1>1, <1>4, <1>5, Zenon DEF Leads

LEMMA LeadsAppend ==
    ASSUME TxeTypes, NEW e \in Headers, hdr' = Append(hdr, e), \E i \in 1..Len(hdr) : hdr[i].len # 0, NEW h, Leads(h)'
    PROVE  Leads(h)
<1>1. PICK i \in 1..Len(hdr') : h = hdr'[i] /\ h.len # 0 /\ \A j \in 1..(i - 1) : hdr'[j].len = 0
  BY Zenon DEF Leads
<1>2. hdr \in Seq(Headers)
  BY DEF TxeTypes
<1>3. Len(hdr) \in Nat /\ Len(hdr') = Len(hdr) + 1 /\ \A j \in 1..Len(hdr) : hdr'[j] = hdr[j]
  <2>1. PICK s, S, t : s = hdr /\ S = Headers /\ t = Append(s, e)
    OBVIOUS
  <2>2. s \in Seq(S) /\ e \in S
    BY <1>2, <2>1
  <2>3. Len(s) \in Nat /\ Len(Append(s, e)) = Len(s) + 1 /\ \A j \in 1..Len(s) : Append(s, e)[j] = s[j]
    BY <2>2, AppendIs
  <2> QED
    BY <2>1, <2>3, Zenon
<1>4. PICK k \in 1..Len(hdr) : hdr[k].len # 0
  OBVIOUS
<1>5. ~(k \in 1..(i - 1))
  BY <1>1, <1>3, <1>4, Zenon
<1>6. i \in 1..Len(hdr)
  BY <1>3, <1>5
<1>7. \A j \in 1..(i - 1) : j \in 1..Len(hdr)
  BY <1>3, <1>6
<1>8. \A j \in 1..(i - 1) : hdr[j].len = 0
  BY <1>1, <1>3, <1>7, Zenon
<1> QED
  BY <1>1, <1>3, <1>6, <1>8, Zenon DEF Leads

----------------------------------------------------------------------------
(* What Mrd fetches is the payload of the first header with one *)

FirstPart(h) == IF Wraps(Ptr(h.seq), h.len) THEN BufSize - Ptr(h.seq) ELSE h.len
\* What Tss has, or will have with the second access, is the payload of h.
Loaded(h) ==
    /\ Head(split) <=> Wraps(Ptr(h.seq), h.len)
    /\ Head(split) => FirstPart(h) # Chunk
    /\ mrd.len # 0 => mrd.len = h.len - FirstPart(h)
    /\ \E f : Read(rdData, f, 0, FirstPart(h), h.len - mrd.len, Fits(h))
LoadLine == ~peer.fin /\ split # <<>> => \A h \in Headers : Leads(h) => Loaded(h)

LEMMA LeadsSound ==
    ASSUME IInv, NEW h, Leads(h)
    PROVE  h \in Headers /\ h.len \in 1..(BufSize - 1) /\ Sound(h)
<1>1. PICK i \in 1..Len(hdr) : h = hdr[i]
  BY Zenon DEF Leads
<1>2. TxeTypes /\ WireLine
  BY Zenon DEF IInv, Types
<1>3. Sound(hdr[i])
  BY <1>2, Zenon DEF WireLine
<1> QED
  BY <1>1, <1>2, <1>3, LeadsIs, Zenon

\* The first part of the access.
LEMMA PartIs ==
    ASSUME NEW h \in Headers, h.len \in 1..(BufSize - 1)
    PROVE  /\ Ptr(h.seq) \in 0..(BufSize - 1) /\ FirstPart(h) \in 1..h.len /\ h.len \in Nat \ {0}
           /\ Wraps(Ptr(h.seq), h.len) <=> FirstPart(h) < h.len
           /\ FirstPart(h) < h.len => FirstPart(h) = BufSize - Ptr(h.seq)
<1>1. h.seq \in Int
  BY Sizes DEF Headers
<1>2. Ptr(h.seq) \in 0..(BufSize - 1)
  BY <1>1, PtrRange, Zenon
<1>3. PICK a, l, f : a = Ptr(h.seq) /\ l = h.len /\ f = FirstPart(h)
  OBVIOUS
<1>4. /\ Wraps(a, l) <=> a + l > BufSize
      /\ f = IF Wraps(a, l) THEN BufSize - a ELSE l
  BY <1>3, Zenon DEF Wraps, FirstPart
<1>5. a \in 0..(BufSize - 1) /\ l \in 1..(BufSize - 1) /\ BufSize \in Nat \ {0}
  BY <1>2, <1>3, Sizes
<1>6. f \in 1..l /\ l \in Nat \ {0} /\ (Wraps(a, l) <=> f < l) /\ (f < l => f = BufSize - a)
  BY <1>4, <1>5
<1> QED
  BY <1>2, <1>3, <1>6, Zenon

\* What is there stays right.
LEMMA LoadKeep ==
    ASSUME IInv, [Next]_vars, InTime, LoadLine, UNCHANGED <<mrd, rdData, split>>,
           \A h \in Headers : split # <<>> /\ Leads(h)' => Leads(h)
    PROVE  LoadLine'
<1>1. ASSUME ~peer'.fin, split' # <<>>, NEW h \in Headers, Leads(h)'
      PROVE  Loaded(h)'
  <2>1. split # <<>> /\ Leads(h)
    BY <1>1, Zenon
  <2>2. Sound(h)
    BY <2>1, LeadsSound, Zenon
  <2>3. ~peer.fin /\ Fits(h) \subseteq Fits(h)'
    BY <1>1, <2>2, FitsLast, Zenon
  <2>4. Loaded(h)
    BY <2>1, <2>3, Zenon DEF LoadLine
  <2>5. PICK f : Read(rdData, f, 0, FirstPart(h), h.len - mrd.len, Fits(h))
    BY <2>4, Zenon DEF Loaded
  <2>6. PICK W, X : W = Fits(h) /\ X = Fits(h)'
    OBVIOUS
  <2>7. Read(rdData, f, 0, FirstPart(h), h.len - mrd.len, X)
    BY <2>3, <2>5, <2>6, ReadMore, Zenon
  <2> QED
    BY <2>4, <2>6, <2>7, Zenon DEF Loaded, FirstPart, Wraps, Ptr
<1> QED
  BY <1>1, Zenon DEF LoadLine

LEMMA LoadSent ==
    ASSUME IInv, [Next]_vars, InTime, LoadLine, NEW seq, NEW n, NEW fin, Sent(seq, n, fin), UNCHANGED <<mrd, rdData, split>>
    PROVE  LoadLine'
<1>t. TxeTypes /\ ReadLine
  BY Zenon DEF IInv, Types
<1>1. ASSUME NEW h \in Headers, split # <<>>, Leads(h)'
      PROVE  Leads(h)
  <2>1. \E i \in 1..Len(hdr) : hdr[i].len # 0
    BY <1>t, <1>1, SomeLeads, Zenon
  <2>2. PICK e : e = Header(seq, n, fin)
    OBVIOUS
  <2>3. e \in Headers /\ hdr' = Append(hdr, e)
    BY <2>2 DEF Sent, Header, Headers
  <2> QED
    BY <1>t, <1>1, <2>1, <2>3, LeadsAppend, Zenon
<1> QED
  BY <1>1, LoadKeep, Zenon

LEMMA LoadTssHeader ==
    ASSUME IInv, [Next]_vars, InTime, LoadLine, TssHeader
    PROVE  LoadLine'
<1>t. TxeTypes
  BY Zenon DEF IInv, Types
<1>1. hdr # <<>> /\ Head(hdr).len = 0 /\ hdr' = Tail(hdr) /\ UNCHANGED <<mrd, rdData, split>>
  BY Zenon DEF TssHeader
<1>2. ASSUME NEW h \in Headers, Leads(h)'
      PROVE  Leads(h)
  BY <1>t, <1>1, <1>2, LeadsTail, Zenon
<1> QED
  BY <1>1, <1>2, LoadKeep, Zenon

LEMMA LoadSame ==
    ASSUME IInv, [Next]_vars, InTime, LoadLine, UNCHANGED <<hdr, mrd, rdData, split>>
    PROVE  LoadLine'
<1>1. ASSUME NEW h \in Headers, Leads(h)'
      PROVE  Leads(h)
  BY <1>1, Zenon DEF Leads
<1> QED
  BY <1>1, LoadKeep, Zenon

\* As long as the peer waits for something, no access has a first part of exactly one chunk: pTcpSegStitcher
\* (TSS_DATA) leaves the TLAST of that chunk set, and the segment would end there.
LongFirstParts == ~peer.fin => \A i \in DOMAIN rdCmd : ~(Wraps(rdCmd[i].addr, rdCmd[i].len) /\ BufSize - rdCmd[i].addr = Chunk)

\* The bytes of h in the ring.
LEMMA RingAt ==
    ASSUME TaiTypes, NEW h \in Headers
    PROVE  /\ Ptr(h.seq) = (SeqPos(h.seq) + 0) % BufSize
           /\ \A m \in Nat : m = BufSize - Ptr(h.seq) => 0 = (SeqPos(h.seq) + m) % BufSize
<1>1. PICK s, x : s = SeqPos(h.seq) /\ x = h.seq
  OBVIOUS
<1>2. s \in Int /\ x \in 0..(SeqMod - 1) /\ s % SeqMod = x
  BY <1>1, HeaderFacts, Zenon
<1>3. BufSize \in Nat \ {0} /\ SeqMod \in Nat \ {0} /\ SeqMod % BufSize = 0
  BY Sizes, SizeAssumption, Zenon DEF SizeAssumption
<1>4. x % BufSize = s % BufSize
  BY <1>2, <1>3, ModMod, Zenon
<1>5. Ptr(x) = s % BufSize
  BY <1>4, Zenon DEF Ptr
<1>6. s + 0 = s
  BY <1>2
<1>7. ASSUME NEW m \in Nat, m = BufSize - (s % BufSize)
      PROVE  0 = (s + m) % BufSize
  <2>1. PICK q \in Int, r \in 0..(BufSize - 1) : s = BufSize * q + r /\ s % BufSize = r
    BY <1>2, <1>3, QuotRem
  <2>2. PICK v : v = BufSize * q
    OBVIOUS
  <2>3. v \in Int /\ s + m = v + BufSize
    BY <1>3, <1>7, <2>1, <2>2
  <2>4. BufSize * (q + 1) = v + BufSize /\ q + 1 \in Int
    BY <1>3, <2>2
  <2>5. s + m = BufSize * (q + 1) + 0 /\ s + m \in Int /\ 0 \in 0..(BufSize - 1)
    BY <1>3, <2>3, <2>4
  <2>6. (s + m) % BufSize = 0
    BY <1>3, <2>4, <2>5, ModIs, Zenon
  <2> QED
    BY <2>6
<1> QED
  BY <1>1, <1>5, <1>6, <1>7, Zenon

\* One access brings the k-th to the last of n bytes of h.
LEMMA MemHas ==
    ASSUME IInv, BytesLine, ~peer.fin, NEW h \in Headers, Sound(h), NEW k \in Nat, NEW n \in Nat \ {0}, NEW y, y = k + n, y <= h.len,
           NEW a \in Nat, a = (SeqPos(h.seq) + k) % BufSize, NEW m, m = k \/ m = y
    PROVE  \E f : Read(MemChunks(a, n), f, k, m, y, Fits(h))
<1>1. PICK w : WrittenTo(w)
  BY Zenon DEF BytesLine
<1>2. n \in Nat /\ k + n <= h.len
  OBVIOUS
<1>3. \A i \in 1..n : <<k + i, mem[(a + i - 1) % BufSize]>> \in Fits(h)
  BY <1>1, <1>2, RingFits, Zenon
<1>4. mem \in [0..(BufSize - 1) -> Nat]
  BY Zenon DEF IInv, Types, WrTypes
<1>5. PICK W : W = Fits(h)
  OBVIOUS
<1>6. \A i \in 1..n : <<k + i, mem[(a + i - 1) % BufSize]>> \in W
  BY <1>3, <1>5, Zenon
<1>7. \E f : Read(MemChunks(a, n), f, k, m, y, W)
  BY <1>4, <1>6, MemRead, Zenon
<1> QED
  BY <1>5, <1>7, Zenon

LEMMA MrdReads ==
    ASSUME TxeTypes, WrTypes, ReadLine, MrdFirst, NEW h, Leads(h)
    PROVE  /\ split = <<>> /\ Head(split') = Wraps(Ptr(h.seq), h.len) /\ hdr' = hdr
           /\ rdCmd[1] = [addr |-> Ptr(h.seq), len |-> h.len] /\ 1 \in DOMAIN rdCmd
           /\ rdData' = MemChunks(Ptr(h.seq), FirstPart(h))
           /\ mrd'.len = h.len - FirstPart(h)
<1>1. PICK c, n : c = Head(rdCmd) /\ n = FirstLength(c)
  OBVIOUS
<1>2. /\ rdCmd # <<>> /\ rdData = <<>> /\ hdr' = hdr
      /\ rdData' = rdData \o MemChunks(c.addr, n)
      /\ split' = Append(split, Wraps(c.addr, c.len))
      /\ mrd' = [addr |-> 0, len |-> c.len - n]
  BY <1>1, Zenon DEF MrdFirst, FirstLength
<1>3. split = <<>>
  BY <1>2, Zenon DEF ReadLine
<1>4. rdCmd \in Seq(ReadCommands)
  BY DEF TxeTypes, ReadCommands
<1>5. Head(rdCmd) = rdCmd[1] /\ Len(rdCmd) \in Nat \ {0}
  BY <1>2, <1>4, HeadTail, Zenon
<1>6. 1 \in DOMAIN rdCmd
  BY <1>4, <1>5
<1>7. c = [addr |-> Ptr(h.seq), len |-> h.len] /\ rdCmd[1] = c
  BY <1>1, <1>3, <1>5, LeadsCommand, Zenon
<1>8. c.addr = Ptr(h.seq) /\ c.len = h.len
  BY <1>7
<1>9. n = FirstPart(h)
  BY <1>1, <1>8, Zenon DEF FirstLength, FirstPart
<1>10. PICK b : b = Wraps(Ptr(h.seq), h.len)
  OBVIOUS
<1>11. split' = Append(<<>>, b)
  BY <1>2, <1>3, <1>8, <1>10, Zenon
<1>12. Head(split') = b
  BY <1>11
<1>13. mrd'.len = h.len - FirstPart(h)
  BY <1>2, <1>8, <1>9
<1>14. rdData' = MemChunks(Ptr(h.seq), FirstPart(h))
  <2>1. PICK d, t : t = MemChunks(c.addr, n) /\ d = rdData'
    OBVIOUS
  <2>2. \E x, y : MrdFirstDoes(x, y)
    BY MrdFirstIs, Zenon
  <2>3. PICK x, y : MrdFirstDoes(x, y)
    BY <2>2
  <2>4. x = c /\ d = MemChunks(c.addr, y) /\ mrd' = [addr |-> 0, len |-> c.len - y]
        /\ y \in 1..(BufSize - 1) \cup {BufSize}
    BY <1>1, <2>1, <2>3, Zenon DEF MrdFirstDoes
  <2>5. c.len - y = c.len - n /\ c.len \in Int /\ n \in Int /\ y \in Int
    <3>1. c.len - y = c.len - n
      <4>1. mrd'.len = c.len - y
        BY <2>4
      <4>2. mrd'.len = c.len - n
        BY <1>2
      <4> QED
        BY <4>1, <4>2
    <3>2. h \in Headers /\ h.len \in 1..(BufSize - 1)
      BY LeadsIs, Zenon
    <3>3. FirstPart(h) \in 1..h.len /\ h.len \in Nat \ {0}
      BY <3>2, PartIs, Zenon
    <3>4. c.len \in Int /\ n \in Int
      BY <1>8, <1>9, <3>3
    <3>5. y \in Int
      BY <2>4, Sizes
    <3> QED
      BY <3>1, <3>4, <3>5
  <2>6. y = n
    BY <2>5
  <2> QED
    BY <1>8, <1>9, <2>1, <2>4, <2>6, Zenon
<1> QED
  BY <1>2, <1>3, <1>6, <1>7, <1>10, <1>12, <1>13, <1>14, Zenon

LEMMA LoadMrdFirst ==
    ASSUME IInv, [Next]_vars, InTime, BytesLine, LongFirstParts, MrdFirst
    PROVE  LoadLine'
<1>t. TaiTypes /\ TxeTypes /\ WrTypes /\ ReadLine
  BY Zenon DEF IInv, Types
<1>1. ASSUME ~peer'.fin, NEW h \in Headers, Leads(h)'
      PROVE  Loaded(h)'
  <2>1. Leads(h)
    BY <1>1, Zenon DEF Leads, MrdFirst
  <2>2. h.len \in 1..(BufSize - 1) /\ Sound(h)
    BY <2>1, LeadsSound, Zenon
  <2>3. ~peer.fin /\ Fits(h) \subseteq Fits(h)'
    BY <1>1, <2>2, FitsLast, Zenon
  <2>4. PICK a, l, n : a = Ptr(h.seq) /\ l = h.len /\ n = FirstPart(h)
    OBVIOUS
  <2>5. /\ a \in 0..(BufSize - 1) /\ n \in 1..l /\ l \in Nat \ {0}
        /\ Wraps(a, l) <=> n < l
        /\ n < l => n = BufSize - a
    BY <2>2, <2>4, PartIs, Zenon
  <2>6. /\ Head(split') = Wraps(a, l) /\ rdCmd[1] = [addr |-> a, len |-> l] /\ 1 \in DOMAIN rdCmd
        /\ rdData' = MemChunks(a, n) /\ mrd'.len = l - n
    BY <1>t, <2>1, <2>4, MrdReads, Zenon
  <2>7. Wraps(a, l) => n # Chunk
    <3>1. rdCmd[1].addr = a /\ rdCmd[1].len = l
      BY <2>6
    <3>2. ~(Wraps(a, l) /\ BufSize - a = Chunk)
      BY <2>3, <2>6, <3>1, Zenon DEF LongFirstParts
    <3> QED
      BY <2>5, <3>2, Zenon
  <2>8. a \in Nat /\ n \in Nat \ {0} /\ 0 \in Nat /\ n = 0 + n /\ n <= l /\ l - mrd'.len = n
    BY <2>5, <2>6, Sizes
  <2>9. a = (SeqPos(h.seq) + 0) % BufSize
    BY <1>t, <2>4, RingAt, Zenon
  <2>10. n <= h.len
    BY <2>4, <2>8, Zenon
  <2>11. \E f : Read(MemChunks(a, n), f, 0, n, n, Fits(h))
    BY <2>2, <2>3, <2>8, <2>9, <2>10, MemHas
  <2>12. PICK f : Read(MemChunks(a, n), f, 0, n, n, Fits(h))
    BY <2>11
  <2>13. PICK W, X : W = Fits(h) /\ X = Fits(h)'
    OBVIOUS
  <2>14. Read(rdData', f, 0, n, n, X)
    BY <2>3, <2>6, <2>12, <2>13, ReadMore, Zenon
  <2>15. Read(rdData', f, 0, FirstPart(h), h.len - mrd'.len, X)
    BY <2>4, <2>8, <2>14, Zenon
  <2>16. mrd'.len # 0 => mrd'.len = h.len - FirstPart(h)
    BY <2>4, <2>6, Zenon
  <2> QED
    BY <2>4, <2>6, <2>7, <2>13, <2>15, <2>16, Zenon DEF Loaded, FirstPart, Wraps, Ptr
<1> QED
  BY <1>1, Zenon DEF LoadLine

LEMMA LoadMrdSecond ==
    ASSUME IInv, [Next]_vars, InTime, BytesLine, LoadLine, MrdSecond
    PROVE  LoadLine'
<1>t. TaiTypes /\ TxeTypes /\ WrTypes /\ ReadLine
  BY Zenon DEF IInv, Types
<1>0. /\ mrd.len # 0 /\ rdData' = rdData \o MemChunks(mrd.addr, mrd.len) /\ mrd' = [mrd EXCEPT !.len = 0]
      /\ hdr' = hdr /\ split' = split
  BY Zenon DEF MrdSecond
<1>s. split # <<>> /\ mrd.addr = 0 /\ mrd'.len = 0
  <2>1. split # <<>>
    BY <1>t, <1>0, Zenon DEF ReadLine
  <2> QED
    BY <1>t, <1>0, <2>1 DEF TxeTypes
<1>1. ASSUME ~peer'.fin, NEW h \in Headers, Leads(h)'
      PROVE  Loaded(h)'
  <2>1. Leads(h)
    BY <1>0, <1>1, Zenon DEF Leads
  <2>2. h.len \in 1..(BufSize - 1) /\ Sound(h)
    BY <2>1, LeadsSound, Zenon
  <2>3. ~peer.fin /\ Fits(h) \subseteq Fits(h)'
    BY <1>1, <2>2, FitsLast, Zenon
  <2>4. PICK r, l, m : r = mrd.len /\ l = h.len /\ m = FirstPart(h)
    OBVIOUS
  <2>5. /\ m \in 1..l /\ l \in Nat \ {0} /\ Ptr(h.seq) \in 0..(BufSize - 1)
        /\ m < l => m = BufSize - Ptr(h.seq)
    BY <2>2, <2>4, PartIs, Zenon
  <2>6. Loaded(h)
    BY <1>s, <2>1, <2>3, Zenon DEF LoadLine
  <2>7. r = l - m /\ \E f : Read(rdData, f, 0, m, l - r, Fits(h))
    BY <1>0, <2>4, <2>6, Zenon DEF Loaded
  <2>8. PICK f : Read(rdData, f, 0, m, l - r, Fits(h))
    BY <2>7
  <2>9. r # 0
    BY <1>0, <2>4, Zenon
  <2>10. m \in Nat /\ r \in Nat \ {0} /\ l = m + r /\ l <= l /\ l - r = m /\ m < l /\ l - 0 = l /\ 0 \in Nat
    BY <2>5, <2>7, <2>9
  <2>11. m = BufSize - Ptr(h.seq)
    BY <2>5, <2>10, Zenon
  <2>12. 0 = (SeqPos(h.seq) + m) % BufSize
    BY <1>t, <2>10, <2>11, RingAt, Zenon
  <2>13. l <= h.len
    BY <2>4, <2>10, Zenon
  <2>14. \E g : Read(MemChunks(0, r), g, m, m, l, Fits(h))
    BY <2>2, <2>3, <2>10, <2>12, <2>13, MemHas
  <2>15. PICK g : Read(MemChunks(0, r), g, m, m, l, Fits(h))
    BY <2>14
  <2>16. Read(rdData, f, 0, m, m, Fits(h))
    BY <2>8, <2>10, Zenon
  <2>17. rdData \in Seq(ChunkSet(Nat)) /\ MemChunks(0, r) \in Seq(ChunkSet(Nat))
    <3>1. mem \in [0..(BufSize - 1) -> Nat]
      BY <1>t, Zenon DEF WrTypes
    <3>2. MemChunks(0, r) \in Seq(ChunkSet(Nat))
      BY <2>10, <3>1, MemChunksAre, Zenon
    <3> QED
      BY <1>t, <3>2, Zenon DEF TxeTypes
  <2>18. PICK W, X : W = Fits(h) /\ X = Fits(h)'
    OBVIOUS
  <2>19. PICK V, s, t : V = ChunkSet(Nat) /\ s = rdData /\ t = MemChunks(0, r)
    OBVIOUS
  <2>20. Read(s, f, 0, m, m, W) /\ Read(t, g, m, m, l, W) /\ s \in Seq(V) /\ t \in Seq(V)
    BY <2>15, <2>16, <2>17, <2>18, <2>19, Zenon
  <2>21. l \in Nat
    BY <2>5
  <2>22. \E x : Read(s \o t, x, 0, m, l, W)
    BY <2>10, <2>20, <2>21, ReadJoin
  <2>23. PICK x : Read(s \o t, x, 0, m, l, W)
    BY <2>22
  <2>24. Read(s \o t, x, 0, m, l, X)
    BY <2>3, <2>18, <2>23, ReadMore, Zenon
  <2>25. s \o t = rdData'
    BY <1>0, <1>s, <2>4, <2>19, Zenon
  <2>26. Read(rdData', x, 0, FirstPart(h), h.len - mrd'.len, X)
    <3>1. h.len - mrd'.len = l
      BY <1>s, <2>4, <2>10, Zenon
    <3> QED
      BY <2>4, <2>24, <2>25, <3>1, Zenon
  <2> QED
    BY <1>0, <1>s, <2>6, <2>18, <2>26, Zenon DEF Loaded, FirstPart, Wraps, Ptr
<1> QED
  BY <1>1, Zenon DEF LoadLine

LEMMA LoadStep ==
    ASSUME IInv, [Next]_vars, InTime, BytesLine, LongFirstParts, LoadLine
    PROVE  LoadLine'
<1>0. Actions \/ UNCHANGED vars
  BY NextIs
<1>t. TxeTypes /\ ReadLine
  BY Zenon DEF IInv, Types
<1>1. CASE MdlTx \/ MdlRt \/ MdlFin
  <2>1. UNCHANGED <<mrd, rdData, split>>
    BY <1>1, Zenon DEF MdlTx, MdlRt, MdlFin
  <2>2. CASE UNCHANGED <<hdr, rdCmd>>
    BY <2>1, <2>2, LoadSame, Zenon
  <2>3. CASE \E seq, n, fin : Sent(seq, n, fin)
    BY <2>1, <2>3, LoadSent, Zenon
  <2> QED
    BY <1>1, <1>t, <2>2, <2>3, MdlSends, Zenon
<1>2. CASE MrdFirst \/ MrdSecond
  BY <1>2, LoadMrdFirst, LoadMrdSecond, Zenon
<1>4. CASE TssHeader
  BY <1>4, LoadTssHeader, Zenon
<1>5. CASE TssSegment
  <2>1. \E h, s, f : TssSegmentDoes(h, s, f)
    BY <1>5, <1>t, TssSegmentIs, Zenon
  <2>2. split' = <<>>
    BY <2>1, Zenon DEF TssSegmentDoes
  <2> QED
    BY <2>2, Zenon DEF LoadLine
<1>6. CASE UNCHANGED <<hdr, mrd, rdData, split>>
  BY <1>6, LoadSame, Zenon
<1>7. CASE \/ AppRequest \/ AppClose \/ SmlRequest \/ TatAnswer \/ SmlAccept \/ SmlRefuse \/ TatPush \/ Emx
           \/ MwrIdle \/ MwrSplit \/ MwrAligned \/ MwrFirst \/ MwrUncut \/ MwrSecond \/ MwrResidue
  BY <1>6, <1>7, Zenon DEF AppRequest, AppClose, SmlRequest, TatAnswer, SmlAccept, SmlRefuse, TatPush, Emx, MwrIdle, MwrSplit,
     MwrAligned, MwrFirst, MwrUncut, MwrSecond, MwrResidue, txe
<1>8. CASE \/ TashIdle \/ TashStatus1 \/ TashStatus2 \/ MdlWait
           \/ RxeLoad \/ RxeTransition \/ TImExpire \/ (\E w \in Windows : PeerTakes(w)) \/ Lose \/ UNCHANGED vars
  BY <1>6, <1>8, Zenon DEF TashIdle, TashStatus1, TashStatus2, MdlWait, RxeLoad, RxeTransition, TImExpire, PeerTakes, Lose,
     txe, vars
<1> QED
  BY <1>0, <1>1, <1>2, <1>4, <1>5, <1>7, <1>8, Zenon DEF Actions

----------------------------------------------------------------------------
(* What is on the wire *)

\* The segment g has all that its header says, and what the peer may still wait for is right.
Whole(g) == g.hdr # <<>> /\ Size(g) = g.hdr[1].len /\ Right(g.bytes, 0, Fits(g.hdr[1]))
OnWire(g) == \E k \in 1..Len(wire) : g = wire[k]
WireData == ~peer.fin => \A g \in WireFrames : OnWire(g) => Whole(g)

LEMMA WholeKeep ==
    ASSUME IInv, [Next]_vars, InTime, ~peer'.fin, NEW g \in WireFrames, OnWire(g), Whole(g)
    PROVE  Whole(g)'
<1>1. PICK k \in 1..Len(wire) : g = wire[k]
  BY Zenon DEF OnWire
<1>2. PICK h : h = g.hdr[1]
  OBVIOUS
<1>3. HasHeader(k)
  BY <1>1, Zenon DEF HasHeader, Whole
<1>4. h \in Headers /\ Sound(h)
  BY <1>1, <1>2, <1>3, SeenAt, Zenon
<1>5. Fits(h) \subseteq Fits(h)'
  BY <1>4, FitsLast, Zenon
<1>6. PICK W, X : W = Fits(h) /\ X = Fits(h)'
  OBVIOUS
<1>7. Right(g.bytes, 0, W)
  BY <1>2, <1>6, Zenon DEF Whole
<1>8. Right(g.bytes, 0, X)
  BY <1>5, <1>6, <1>7, RightMore, Zenon
<1> QED
  BY <1>2, <1>6, <1>8, Zenon DEF Whole, Size

\* What was there is there, and at most f is new.
LEMMA WireGrows ==
    ASSUME IInv, [Next]_vars, InTime, WireData,
           \A g \in WireFrames : OnWire(g)' /\ ~peer'.fin => OnWire(g) \/ Whole(g)'
    PROVE  WireData'
<1>1. ASSUME ~peer'.fin, NEW g \in WireFrames, OnWire(g)'
      PROVE  Whole(g)'
  <2>1. CASE OnWire(g)
    <3>1. ~peer.fin
      <4>1. NetTypes
        BY Zenon DEF IInv, Types
      <4> QED
        BY <1>1, <4>1, PeerGoesOn, Zenon
    <3>2. Whole(g)
      BY <2>1, <3>1, Zenon DEF WireData
    <3> QED
      BY <1>1, <2>1, <3>2, WholeKeep, Zenon
  <2> QED
    BY <1>1, <2>1, Zenon
<1> QED
  BY <1>1, Zenon DEF WireData

LEMMA WireTssHeader ==
    ASSUME IInv, [Next]_vars, InTime, WireData, TssHeader
    PROVE  WireData'
<1>t. TxeTypes /\ NetTypes
  BY Zenon DEF IInv, Types
<1>1. PICK h, e : h = Head(hdr) /\ e = [hdr |-> <<h>>, bytes |-> <<>>]
  OBVIOUS
<1>2. hdr # <<>> /\ h.len = 0 /\ wire' = Append(wire, e)
  BY <1>1, Zenon DEF TssHeader
<1>3. h \in Headers
  BY <1>t, <1>1, <1>2, HeadTail, Zenon DEF TxeTypes
<1>4. e \in WireFrames
  BY <1>1, <1>3 DEF WireFrames
<1>5. wire \in Seq(WireFrames)
  BY <1>t, Zenon DEF NetTypes
<1>6. /\ Len(wire) \in Nat /\ Len(wire') = Len(wire) + 1
      /\ \A i \in 1..Len(wire) : wire'[i] = wire[i]
      /\ wire'[Len(wire) + 1] = e
  <2>1. PICK s, S : s = wire /\ S = WireFrames
    OBVIOUS
  <2>2. s \in Seq(S) /\ e \in S
    BY <1>4, <1>5, <2>1
  <2>3. /\ Len(s) \in Nat /\ Len(Append(s, e)) = Len(s) + 1
        /\ \A i \in 1..Len(s) : Append(s, e)[i] = s[i]
        /\ Append(s, e)[Len(s) + 1] = e
    BY <2>2, AppendIs
  <2> QED
    BY <1>2, <2>1, <2>3, Zenon
<1>7. ASSUME NEW g \in WireFrames, OnWire(g)', ~peer'.fin
      PROVE  OnWire(g) \/ Whole(g)'
  <2>1. PICK k \in 1..Len(wire') : g = wire'[k]
    BY <1>7, Zenon DEF OnWire
  <2>2. CASE k \in 1..Len(wire)
    BY <1>6, <2>1, <2>2, Zenon DEF OnWire
  <2>3. CASE ~(k \in 1..Len(wire))
    <3>1. k = Len(wire) + 1
      BY <1>6, <2>3
    <3>2. g = e
      BY <1>6, <2>1, <3>1, Zenon
    <3>3. g.hdr = <<h>> /\ g.bytes = <<>> /\ g.hdr # <<>> /\ g.hdr[1] = h /\ Len(g.bytes) = 0
      BY <1>1, <3>2
    <3>4. PICK X : X = Fits(h)'
      OBVIOUS
    <3>5. Right(g.bytes, 0, X)
      BY <3>3, RightNone, Zenon
    <3>6. Size(g) = h.len
      BY <1>2, <3>3, Zenon DEF Size
    <3> QED
      BY <3>3, <3>4, <3>5, <3>6, Zenon DEF Whole, Size
  <2> QED
    BY <2>2, <2>3
<1> QED
  BY <1>7, WireGrows, Zenon

LEMMA ConcatAt ==
    ASSUME NEW S, NEW v \in Seq(S), NEW u \in Seq(S)
    PROVE  /\ Len(v) \in Nat /\ Len(v \o u) = Len(v) + Len(u)
           /\ \A k \in 1..Len(v) + Len(u) : (v \o u)[k] = IF k <= Len(v) THEN v[k] ELSE u[k - Len(v)]
  OBVIOUS

LEMMA OneMore ==
    ASSUME NEW S, NEW v \in Seq(S), NEW u \in Seq(S), Len(u) = 1
    PROVE  /\ Len(v) \in Nat /\ Len(v \o u) = Len(v) + 1
           /\ \A i \in 1..Len(v) : (v \o u)[i] = v[i]
           /\ (v \o u)[Len(v) + 1] = u[1]
<1>1. Len(v) \in Nat /\ Len(v \o u) = Len(v) + Len(u)
  BY ConcatAt, Zenon
<1>2. \A k \in 1..Len(v) + Len(u) : (v \o u)[k] = IF k <= Len(v) THEN v[k] ELSE u[k - Len(v)]
  BY ConcatAt, Zenon
<1>3. PICK n, w : n = Len(v) /\ w = v \o u
  OBVIOUS
<1>4. n \in Nat /\ Len(w) = n + 1 /\ \A k \in 1..(n + 1) : w[k] = IF k <= n THEN v[k] ELSE u[k - n]
  BY <1>1, <1>2, <1>3
<1>5. \A k \in 1..n : k \in 1..(n + 1) /\ k <= n
  BY <1>4
<1>6. \A k \in 1..n : w[k] = v[k]
  BY <1>4, <1>5, Zenon
<1>7. n + 1 \in 1..(n + 1) /\ ~(n + 1 <= n) /\ (n + 1) - n = 1
  BY <1>4
<1>8. w[n + 1] = u[(n + 1) - n]
  BY <1>4, <1>7, Zenon
<1>9. w[n + 1] = u[1]
  BY <1>7, <1>8, Zenon
<1> QED
  BY <1>3, <1>4, <1>6, <1>9, Zenon

\* Tss sends what Mrd fetched, behind the header it was fetched for.
LEMMA WireTssSegment ==
    ASSUME IInv, [Next]_vars, InTime, LoadLine, WireData, TssSegment
    PROVE  WireData'
<1>t. TxeTypes /\ NetTypes /\ ReadLine
  BY Zenon DEF IInv, Types
<1>1. PICK h, s, f : TssSegmentDoes(h, s, f)
  BY <1>t, TssSegmentIs, Zenon
<1>2. /\ hdr # <<>> /\ h = Head(hdr) /\ h \in Headers /\ h.len # 0
      /\ split # <<>> /\ s = Head(split) /\ s \in BOOLEAN /\ mrd.len = 0
      /\ f = Frames(h, rdData, s) /\ f \in Seq(WireFrames) /\ wire' = wire \o f /\ peer' = peer
  BY <1>1, Zenon DEF TssSegmentDoes
<1>3. Leads(h)
  BY <1>t, <1>2, LeadsHead, Zenon
<1>4. h.len \in 1..(BufSize - 1) /\ Sound(h)
  BY <1>3, LeadsSound, Zenon
<1>5. wire \in Seq(WireFrames)
  BY <1>t, Zenon DEF NetTypes
<1>6. ASSUME ~peer'.fin
      PROVE  OneFrame(f, h, h.len, Fits(h)) /\ Fits(h) \subseteq Fits(h)'
  <2>1. ~peer.fin /\ Fits(h) \subseteq Fits(h)'
    BY <1>2, <1>4, <1>6, FitsLast, Zenon
  <2>2. Loaded(h)
    BY <1>2, <1>3, <2>1, Zenon DEF LoadLine
  <2>3. PICK n, m, W, d : n = h.len /\ m = FirstPart(h) /\ W = Fits(h) /\ d = rdData
    OBVIOUS
  <2>4. /\ m \in 1..n /\ n \in Nat \ {0}
        /\ Wraps(Ptr(h.seq), h.len) <=> m < n
    BY <1>2, <1>4, <2>3, PartIs, Zenon
  <2>5. (s <=> m < n) /\ (s => m # Chunk)
    BY <1>2, <2>2, <2>3, <2>4, Zenon DEF Loaded
  <2>6. PICK g : Read(rdData, g, 0, FirstPart(h), h.len - mrd.len, Fits(h))
    BY <2>2, Zenon DEF Loaded
  <2>7. n - mrd.len = n
    BY <1>2, <2>4
  <2>8. Read(d, g, 0, m, n, W)
    BY <2>3, <2>6, <2>7, Zenon
  <2>9. d \in Seq(ChunkSet(Nat))
    BY <1>t, <2>3, Zenon DEF TxeTypes
  <2>10. OneFrame(Frames(h, d, s), h, n, W)
    BY <1>2, <2>4, <2>5, <2>8, <2>9, FramesRight
  <2> QED
    BY <1>2, <2>1, <2>3, <2>10, Zenon
<1>7. ASSUME NEW g \in WireFrames, OnWire(g)', ~peer'.fin
      PROVE  OnWire(g) \/ Whole(g)'
  <2>1. PICK k \in 1..Len(wire') : g = wire'[k]
    BY <1>7, Zenon DEF OnWire
  <2>2. PICK v, z : v = wire /\ z = wire'
    OBVIOUS
  <2>3. OneFrame(f, h, h.len, Fits(h))
    BY <1>6, <1>7, Zenon
  <2>4. Len(f) = 1
    BY <2>3, Zenon DEF OneFrame
  <2>5. (k \in 1..Len(v) /\ z[k] = v[k]) \/ z[k] = f[1]
    <3>1. v \in Seq(WireFrames) /\ z = v \o f /\ f \in Seq(WireFrames) /\ k \in 1..Len(z)
      BY <1>2, <1>5, <2>1, <2>2, Zenon
    <3>2. PICK S, u : S = WireFrames /\ u = f
      OBVIOUS
    <3>3. v \in Seq(S) /\ u \in Seq(S) /\ Len(u) = 1 /\ z = v \o u /\ k \in 1..Len(z)
      BY <2>4, <3>1, <3>2, Zenon
    <3>4. Len(v) \in Nat /\ Len(z) = Len(v) + 1 /\ (\A i \in 1..Len(v) : z[i] = v[i]) /\ z[Len(v) + 1] = u[1]
      BY <3>3, OneMore, Zenon
    <3>5. k \in 1..Len(v) \/ k = Len(v) + 1
      BY <3>3, <3>4
    <3> QED
      BY <3>2, <3>4, <3>5, Zenon
  <2>6. CASE k \in 1..Len(v) /\ z[k] = v[k]
    BY <2>1, <2>2, <2>6, Zenon DEF OnWire
  <2>7. CASE z[k] = f[1]
    <3>1. g = f[1]
      BY <2>1, <2>2, <2>7, Zenon
    <3>2. g.hdr = <<h>> /\ Size(g) = h.len /\ Right(g.bytes, 0, Fits(h))
      BY <2>3, <3>1, Zenon DEF OneFrame
    <3>3. g.hdr # <<>> /\ g.hdr[1] = h
      BY <3>2
    <3>4. PICK W, X, b : W = Fits(h) /\ X = Fits(h)' /\ b = g.bytes
      OBVIOUS
    <3>5. W \subseteq X /\ Right(b, 0, W)
      BY <1>6, <1>7, <3>2, <3>4, Zenon
    <3>6. Right(b, 0, X)
      BY <3>5, RightMore, Zenon
    <3> QED
      BY <3>2, <3>3, <3>4, <3>6, Zenon DEF Whole, Size
  <2> QED
    BY <2>5, <2>6, <2>7
<1> QED
  BY <1>7, WireGrows, Zenon

\* Segments leave, or stay.
LEMMA WireLess ==
    ASSUME IInv, [Next]_vars, InTime, WireData, wire' = wire \/ (wire # <<>> /\ wire' = Tail(wire))
    PROVE  WireData'
<1>1. wire \in Seq(WireFrames)
  BY Zenon DEF IInv, Types, NetTypes
<1>2. ASSUME NEW g \in WireFrames, OnWire(g)'
      PROVE  OnWire(g)
  <2>1. PICK k \in 1..Len(wire') : g = wire'[k]
    BY <1>2, Zenon DEF OnWire
  <2>2. CASE wire' = wire
    BY <2>1, <2>2, Zenon DEF OnWire
  <2>3. CASE wire # <<>> /\ wire' = Tail(wire)
    <3>1. k + 1 \in 1..Len(wire) /\ wire'[k] = wire[k + 1]
      BY <1>1, <2>1, <2>3, HeadTail, Zenon
    <3> QED
      BY <2>1, <3>1, Zenon DEF OnWire
  <2> QED
    BY <2>2, <2>3
<1> QED
  BY <1>2, WireGrows, Zenon

LEMMA WireDataStep ==
    ASSUME IInv, [Next]_vars, InTime, LoadLine, WireData
    PROVE  WireData'
<1>0. Actions \/ UNCHANGED vars
  BY NextIs
<1>1. CASE TssHeader \/ TssSegment
  BY <1>1, WireTssHeader, WireTssSegment, Zenon
<1>2. CASE (\E w \in Windows : PeerTakes(w)) \/ Lose
  <2>1. wire # <<>> /\ wire' = Tail(wire)
    BY <1>2, Zenon DEF PeerTakes, Lose
  <2> QED
    BY <2>1, WireLess, Zenon
<1>3. CASE wire' = wire
  BY <1>3, WireLess, Zenon
<1>4. CASE \/ AppRequest \/ AppClose \/ SmlRequest \/ TatAnswer \/ SmlAccept \/ SmlRefuse \/ TatPush \/ Emx
           \/ MwrIdle \/ MwrSplit \/ MwrAligned \/ MwrFirst \/ MwrUncut \/ MwrSecond \/ MwrResidue
  BY <1>3, <1>4, Zenon DEF AppRequest, AppClose, SmlRequest, TatAnswer, SmlAccept, SmlRefuse, TatPush, Emx, MwrIdle, MwrSplit,
     MwrAligned, MwrFirst, MwrUncut, MwrSecond, MwrResidue, net
<1>5. CASE \/ TashIdle \/ TashStatus1 \/ TashStatus2 \/ MdlWait \/ MdlTx \/ MdlRt \/ MdlFin \/ MrdFirst \/ MrdSecond
           \/ RxeLoad \/ RxeTransition \/ TImExpire \/ UNCHANGED vars
  BY <1>3, <1>5, Zenon DEF TashIdle, TashStatus1, TashStatus2, MdlWait, MdlTx, MdlRt, MdlFin, MrdFirst, MrdSecond,
     RxeLoad, RxeTransition, TImExpire, net, vars
<1> QED
  BY <1>0, <1>1, <1>2, <1>4, <1>5, Zenon DEF Actions

LEMMA InitLoad ==
    ASSUME Init
    PROVE  LoadLine /\ WireData
<1>1. PICK f \in Nat, n \in 1..(BufSize - 1), k \in Nat : InitFrom(f, n, k)
  BY InitIs
<1>2. split = <<>> /\ wire = <<>>
  BY <1>1, Zenon DEF InitFrom
<1>3. \A g \in WireFrames : ~OnWire(g)
  BY <1>2 DEF OnWire
<1> QED
  BY <1>2, <1>3, Zenon DEF LoadLine, WireData

\* What the invariant says of the segments on the wire.
LEMMA WireIsRight ==
    ASSUME IInv, WireData
    PROVE  PeerReads
<1> SUFFICES ASSUME ~peer.fin, NEW k \in DOMAIN wire
             PROVE  /\ wire[k].hdr # <<>>
                    /\ Len(wire[k].bytes) = wire[k].hdr[1].len
                    /\ \A i \in DOMAIN wire[k].bytes :
                          LET p == Position(wire[k].hdr[1].seq) + i - 1 IN p >= peer.rcv => wire[k].bytes[i] = p
  BY Zenon DEF PeerReads
<1>t. NetTypes /\ TaiTypes
  BY Zenon DEF IInv, Types
<1>1. k \in 1..Len(wire)
  BY <1>t DEF NetTypes
<1>2. PICK g : g = wire[k]
  OBVIOUS
<1>3. g \in WireFrames
  BY <1>t, <1>1, <1>2, ElementOf, Zenon DEF NetTypes
<1>4. Whole(g)
  BY <1>1, <1>2, <1>3, Zenon DEF WireData, OnWire
<1>5. PICK h, b : h = g.hdr[1] /\ b = g.bytes
  OBVIOUS
<1>6. g.hdr # <<>> /\ Len(b) = h.len /\ Right(b, 0, Fits(h))
  BY <1>4, <1>5, Zenon DEF Whole, Size
<1>7. HasHeader(k)
  BY <1>2, <1>6, Zenon DEF HasHeader
<1>8. h \in Headers /\ Position(h.seq) = SeqPos(h.seq)
  BY <1>1, <1>2, <1>5, <1>7, SeenAt, Zenon
<1>9. b \in Seq(Nat)
  BY <1>3, <1>5 DEF WireFrames
<1>10. ASSUME NEW i \in DOMAIN b
       PROVE  SeqPos(h.seq) + i - 1 >= peer.rcv => b[i] = SeqPos(h.seq) + i - 1
  <2>1. i \in 1..Len(b) /\ i \in Int
    BY <1>9
  <2>2. PICK j, x, s, r : j = 0 + i /\ x = b[i] /\ s = SeqPos(h.seq) /\ r = peer.rcv
    OBVIOUS
  <2>3. <<j, x>> \in Fits(h)
    BY <1>6, <2>1, <2>2, Zenon DEF Right
  <2>4. j = i
    BY <2>1, <2>2
  <2>5. x \in Nat
    BY <1>9, <2>1, <2>2, ElementOf, Zenon
  <2>6. r <= s + j - 1 => x = s + j - 1
    <3>1. j \in Int
      BY <2>1, <2>4
    <3>2. peer.rcv <= s + j - 1 => x = s + j - 1
      BY <2>2, <2>3, <2>5, <3>1, FitsIs, Zenon
    <3> QED
      BY <2>2, <3>2, Zenon
  <2>7. s \in Int /\ r \in Int
    <3>1. r \in Int
      BY <1>t, <2>2 DEF NetTypes
    <3> QED
      BY <1>t, <1>8, <2>2, <3>1, HeaderFacts, Zenon
  <2>8. s + i - 1 >= r => x = s + i - 1
    BY <2>1, <2>4, <2>6, <2>7
  <2> QED
    BY <2>2, <2>8, Zenon
<1> QED
  BY <1>2, <1>5, <1>6, <1>8, <1>10, Zenon

\* What a segment carries at the positions the peer still waits for is what the application wrote there: MEM
\* reads the ring long after pMetaDataLoader has chosen the segment, and an acknowledgment may free the cells
\* in between; pTxMemoryReader splits the access at the end of the buffer, pTcpSegStitcher joins its chunks again
\* and puts them behind a header that came another way (tx_engine.cpp).
THEOREM PeerGetsIt == Spec /\ []WholeLastChunk /\ []LongFirstParts => []PeerReads
<1> DEFINE I == Late \/ Uncut \/ (BytesLine /\ LoadLine /\ WireData)
<1>1. Init => I
  BY InitIs, InitBytes, InitLoad, Zenon
<1>2. Upheld /\ WholeLastChunk /\ LongFirstParts /\ I /\ [Next]_vars => I'
  BY SoFar, BytesStep, LoadStep, WireDataStep, Zenon DEF I
<1>3. Upheld /\ I => PeerReads
  BY WireIsRight, Zenon DEF I, Upheld, PeerReads
<1> QED
  BY <1>1, <1>2, <1>3, UpheldHolds, PTL DEF Spec

\* The same, from the constants and the alignment of the accesses.
THEOREM PeerGetsAll == Spec /\ EndsApart /\ []LongFirstParts => []PeerReads
<1> SUFFICES ASSUME EndsApart
             PROVE  Spec /\ []LongFirstParts => []PeerReads
  OBVIOUS
<1> DEFINE I == Late \/ (StreamLine /\ (Uncut \/ (BytesLine /\ LoadLine /\ WireData)))
<1>1. Init => I
  BY InitIs, InitBytes, InitStream, InitLoad, Zenon
<1>2. Upheld /\ LongFirstParts /\ I /\ [Next]_vars => I'
  BY SoFar, BytesStep, StreamStep, LoadStep, WireDataStep, WholeIf, Zenon DEF I, IInv, Types
<1>3. Upheld /\ I => PeerReads
  BY WireIsRight, Zenon DEF I, Upheld, PeerReads
<1> QED
  BY <1>1, <1>2, <1>3, UpheldHolds, PTL DEF Spec
=============================================================================
