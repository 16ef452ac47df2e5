------------------------ MODULE CompressImage_proofs ------------------------
(***************************************************************************)
(* What the compressor encodes, for every set of parameters, every source  *)
(* and any number of images: each MCU has the blocks of the image that     *)
(* belong there, and the scans together send all of every component.       *)
(***************************************************************************)
EXTENDS Compress_proofs

(* The blocks of an MCU.                                                   *)

(* Sequences put one behind the other.                                     *)
Joins(f, parts, n) == f = [i \in 0..n |-> IF i = 0 THEN << >> ELSE f[i - 1] \o parts[i]]

LEMMA JoinExists == ASSUME NEW parts PROVE \A n \in Nat : \E f : Joins(f, parts, n)
<1> DEFINE Bad == {n \in Nat : ~ \E f : Joins(f, parts, n)}
<1> SUFFICES ASSUME Bad # {} PROVE FALSE
  OBVIOUS
<1>1. PICK n \in Bad : \A k \in Bad : n <= k
  <2> Bad \in SUBSET Nat
    OBVIOUS
  <2> HIDE DEF Bad
  <2> QED
    BY Smallest
<1>2. n \in Nat
  OBVIOUS
<1>3. CASE n = 0
  <2> DEFINE v == [i \in 0..0 |-> << >>]
  <2>1. v = [i \in 0..0 |-> IF i = 0 THEN << >> ELSE v[i - 1] \o parts[i]]
    OBVIOUS
  <2> QED
    BY <1>3, <2>1, Zenon DEF Joins
<1>4. CASE n # 0
  <2>1. n - 1 \in Nat /\ n - 1 \notin Bad
    <3> HIDE DEF Bad
    <3> QED
      BY <1>1, <1>2, <1>4
  <2>2. PICK f : Joins(f, parts, n - 1)
    BY <2>1
  <2> DEFINE Rhs == [i \in 0..n - 1 |-> IF i = 0 THEN << >> ELSE f[i - 1] \o parts[i]]
             last == f[n - 1] \o parts[n]
             v == [i \in 0..n |-> IF i = n THEN last ELSE f[i]]
  <2>3. \A i \in 0..n - 1 : f[i] = IF i = 0 THEN << >> ELSE f[i - 1] \o parts[i]
    <3> HIDE DEF Rhs
    <3> QED
      BY <2>2, Zenon DEF Joins
  <2>4. /\ \A i \in 0..n - 1 : v[i] = f[i]
        /\ v[n] = last
        /\ DOMAIN v = 0..n /\ v = [i \in DOMAIN v |-> v[i]]
    <3> HIDE DEF last
    <3> QED
      BY <1>2
  <2> HIDE DEF v, Rhs
  <2>5. ASSUME NEW i \in 0..n PROVE v[i] = IF i = 0 THEN << >> ELSE v[i - 1] \o parts[i]
    <3>1. CASE i = n
      BY <1>2, <1>4, <3>1, <2>4
    <3>2. CASE i # n
      <4>1. i \in 0..n - 1 /\ (i # 0 => i - 1 \in 0..n - 1)
        BY <1>2, <3>2
      <4> QED
        BY <2>3, <2>4, <4>1, Zenon
    <3> QED
      BY <3>1, <3>2
  <2> QED
    BY <2>4, <2>5 DEF Joins
<1> QED
  BY <1>3, <1>4

\* The components of the scan with their places, as PlacesUpTo joins them.
LEMMA PlacesJoined ==
    ASSUME NEW s, Len(s.cur) \in Nat
    PROVE  LET f == PlacesUpTo(s)
           IN  /\ f[0] = << >> /\ f[Len(s.cur)] = Places(s)
               /\ \A i \in 1..Len(s.cur) : f[i] = f[i - 1] \o PlacesOf(s.cur[i], i)
<1> DEFINE n == Len(s.cur)
           f == PlacesUpTo(s)
           Rhs == [i \in 0..n |-> IF i = 0 THEN << >> ELSE f[i - 1] \o PlacesOf(s.cur[i], i)]
           parts == [i \in 1..n |-> PlacesOf(s.cur[i], i)]
<1>1. PICK g : Joins(g, parts, n)
  BY JoinExists
<1>2. g = [i \in 0..n |-> IF i = 0 THEN << >> ELSE g[i - 1] \o PlacesOf(s.cur[i], i)]
  <2>1. \A i \in 0..n : i # 0 => parts[i] = PlacesOf(s.cur[i], i)
    OBVIOUS
  <2> HIDE DEF parts
  <2> QED
    BY <1>1, <2>1 DEF Joins
<1>3. f = Rhs
  BY <1>2, Zenon DEF PlacesUpTo
<1>4. \A i \in 0..n : Rhs[i] = IF i = 0 THEN << >> ELSE f[i - 1] \o PlacesOf(s.cur[i], i)
  BY Zenon
<1> HIDE DEF f, n, Rhs
<1>5. n \in Nat /\ 0 \in 0..n /\ \A i \in 1..n : i \in 0..n /\ i # 0
  BY DEF n
<1>6. f[0] = << >> /\ \A i \in 1..n : f[i] = f[i - 1] \o PlacesOf(s.cur[i], i)
  BY <1>3, <1>4, <1>5, Zenon
<1> QED
  BY <1>6, Zenon DEF f, n, Places

(* A place of an MCU, and the one before it within its component.          *)
Triples == Int \X Int \X Int
Placed(s, p) ==
    /\ p \in Triples /\ p[1] \in 1..Len(s.cur)
    /\ p[2] \in 0..s.cur[p[1]].MCU_height - 1
    /\ p[3] \in 0..s.cur[p[1]].MCU_width - 1
Before(s, p) ==
    IF p[3] > 0 THEN << p[1], p[2], p[3] - 1 >>
    ELSE << p[1], p[2] - 1, s.cur[p[1]].MCU_width - 1 >>
IsFirst(p) == p[2] = 0 /\ p[3] = 0

Ordered(s, places) ==
    /\ places \in Seq(Triples)
    /\ \A k \in 1..Len(places) :
        /\ Placed(s, places[k])
        /\ IsFirst(places[k]) \/ (k > 1 /\ places[k - 1] = Before(s, places[k]))

LEMMA RowByRow ==
    ASSUME NEW w \in Nat \ {0}, NEW h \in Nat \ {0}, NEW k \in 0..w * h - 1
    PROVE  /\ k \div w \in 0..h - 1 /\ k % w \in 0..w - 1
           /\ k = 0 => k \div w = 0 /\ k % w = 0
           /\ k > 0 /\ k % w > 0 => (k - 1) \div w = k \div w /\ (k - 1) % w = (k % w) - 1
           /\ k > 0 /\ k % w = 0 => (k - 1) \div w = (k \div w) - 1 /\ (k - 1) % w = w - 1
<1> DEFINE q == k \div w
           r == k % w
<1>1. k \in Nat /\ w * h \in Nat /\ k < w * h
  OBVIOUS
<1>2. q \in Nat /\ r \in 0..w - 1 /\ k = w * q + r
  BY <1>1
<1> HIDE DEF q, r
<1>3. q \in 0..h - 1
  <2>1. ~ h <= q
    <3> SUFFICES ASSUME h <= q PROVE FALSE
      OBVIOUS
    <3> QED
      BY <1>1, <1>2, Multiples
  <2> QED
    BY <1>2, <2>1
<1>4. ASSUME k > 0, r > 0 PROVE (k - 1) \div w = q /\ (k - 1) % w = r - 1
  BY <1>1, <1>2, <1>4, QuotientUnique
<1>5. ASSUME k > 0, r = 0 PROVE (k - 1) \div w = q - 1 /\ (k - 1) % w = w - 1
  <2>1. q > 0
    <3>1. q = 0 => w * q = 0
      BY <1>2
    <3> QED
      BY <1>1, <1>2, <1>5, <3>1
  <2>2. w * q = w * (q - 1) + w /\ q - 1 \in Nat /\ w * (q - 1) \in Nat
    BY <1>2, <2>1
  <2>3. k - 1 = w * (q - 1) + (w - 1) /\ k - 1 \in Nat
    BY <1>1, <1>2, <1>5, <2>2
  <2>4. (k - 1) \div w = q - 1
    BY <1>2, <2>2, <2>3, QuotientUnique
  <2> QED
    BY <1>2, <2>2, <2>3, <2>4
<1> QED
  BY <1>2, <1>3, Multiples, <1>4, <1>5 DEF q, r

LEMMA PlacesOfOne ==
    ASSUME NEW s, NEW i \in 1..Len(s.cur), Len(s.cur) \in Nat,
           s.cur[i].MCU_width \in Nat \ {0}, s.cur[i].MCU_height \in Nat \ {0}
    PROVE  Ordered(s, PlacesOf(s.cur[i], i)) /\ Len(PlacesOf(s.cur[i], i)) > 0
<1> DEFINE w == s.cur[i].MCU_width
           h == s.cur[i].MCU_height
           n == w * h
           f == PlacesOf(s.cur[i], i)
           p(k) == << i, (k - 1) \div w, (k - 1) % w >>
<1>1. f = [k \in 1..n |-> p(k)]
  BY Zenon DEF PlacesOf
<1>2. n \in Nat /\ n > 0
  BY Multiples
<1>3. ASSUME NEW k \in 1..n
      PROVE  /\ p(k) \in Triples /\ p(k)[1] = i
             /\ p(k)[2] \in 0..h - 1 /\ p(k)[3] \in 0..w - 1
             /\ IsFirst(p(k)) \/ (k > 1 /\ p(k - 1) = Before(s, p(k)))
  <2> DEFINE x == k - 1
             y == x \div w
             z == x % w
  <2>1. x \in 0..w * h - 1
    BY <1>2
  <2>2. /\ y \in 0..h - 1 /\ z \in 0..w - 1
        /\ x = 0 => y = 0 /\ z = 0
        /\ x > 0 /\ z > 0 => (x - 1) \div w = y /\ (x - 1) % w = z - 1
        /\ x > 0 /\ z = 0 => (x - 1) \div w = y - 1 /\ (x - 1) % w = w - 1
    <3> HIDE DEF x, h, w
    <3> QED
      BY <2>1, RowByRow DEF w, h
  <2>3. i \in Int /\ k \in Nat /\ x = k - 1 /\ x \in Nat /\ w \in Nat \ {0} /\ h \in Nat \ {0}
    BY <1>2
  <2> DEFINE P == p(k)
             Q == p(k - 1)
             a == (x - 1) \div w
             b == (x - 1) % w
  <2>4. P = << i, y, z >> /\ Q = << i, a, b >>
    OBVIOUS
  <2>5. Before(s, << i, y, z >>) = IF z > 0 THEN << i, y, z - 1 >> ELSE << i, y - 1, w - 1 >>
    BY Zenon DEF Before
  <2> HIDE DEF P, Q, w, h, x, y, z, a, b
  <2>6. P \in Triples /\ P[1] = i /\ P[2] = y /\ P[3] = z
    BY <2>2, <2>3, <2>4, SMT DEF Triples
  <2>7. x = 0 => IsFirst(P)
    BY <2>2, <2>6, Zenon DEF IsFirst
  <2>8. x # 0 => k > 1 /\ Q = Before(s, P)
    <3>1. x # 0 => k > 1 /\ x > 0
      BY <2>3
    <3>2. z > 0 \/ z = 0
      BY <2>2, <2>3
    <3>3. z = 0 => ~ z > 0
      BY <2>3
    <3> QED
      BY <2>2, <2>4, <2>5, <3>1, <3>2, <3>3, Zenon DEF a, b
  <2> QED
    BY <2>2, <2>6, <2>7, <2>8, Zenon DEF P, Q
<1>4. f \in Seq(Triples) /\ Len(f) = n /\ \A k \in 1..n : f[k] = p(k)
  <2> HIDE DEF n, p
  <2>1. \A k \in 1..n : p(k) \in Triples
    BY <1>3
  <2> HIDE DEF f
  <2> QED
    BY <1>1, <1>2, <2>1
<1>5. \A k \in 1..n : k > 1 => k - 1 \in 1..n
  BY <1>2
<1> HIDE DEF n, p, f
<1>6. ASSUME NEW k \in 1..n
      PROVE  /\ Placed(s, f[k])
             /\ IsFirst(f[k]) \/ (k > 1 /\ f[k - 1] = Before(s, f[k]))
  BY <1>3, <1>4, <1>5, Zenon DEF Placed, w, h
<1> QED
  BY <1>2, <1>4, <1>6, Zenon DEF Ordered, f

LEMMA OrderedJoin ==
    ASSUME NEW s, NEW f, NEW g, Ordered(s, f), Ordered(s, g), Len(g) > 0 => IsFirst(g[1])
    PROVE  Ordered(s, f \o g) /\ (Len(g) > 0 => Len(f \o g) > 0)
<1>1. /\ f \in Seq(Triples) /\ g \in Seq(Triples) /\ Len(f) \in Nat /\ Len(g) \in Nat
  BY DEF Ordered
<1> DEFINE h == f \o g
           n == Len(f)
           m == Len(g)
<1>2. /\ h \in Seq(Triples) /\ Len(h) = n + m
      /\ \A k \in 1..n : h[k] = f[k]
      /\ \A k \in 1..m : h[n + k] = g[k]
  BY <1>1
<1> HIDE DEF h, n, m
<1>3. n \in Nat /\ m \in Nat
  BY <1>1 DEF n, m
<1>4. ASSUME NEW k \in 1..n + m
      PROVE  Placed(s, h[k]) /\ (IsFirst(h[k]) \/ (k > 1 /\ h[k - 1] = Before(s, h[k])))
  <2>1. CASE k \in 1..n
    BY <2>1, <1>3, <1>2 DEF Ordered, n
  <2>2. CASE k \notin 1..n
    <3> DEFINE j == k - n
    <3>1. j \in 1..m /\ k = n + j /\ (j > 1 => j - 1 \in 1..m /\ k - 1 = n + (j - 1) /\ k > 1)
      BY <1>3, <2>2
    <3> HIDE DEF j
    <3>2. Placed(s, g[j]) /\ (IsFirst(g[j]) \/ (j > 1 /\ g[j - 1] = Before(s, g[j])))
      BY <3>1, Zenon DEF Ordered, m
    <3> QED
      BY <1>2, <3>1, <3>2, Zenon
  <2> QED
    BY <2>1, <2>2
<1> QED
  BY <1>2, <1>4, <1>3 DEF Ordered, h, m

LEMMA PlacesOrdered ==
    ASSUME NEW s, Len(s.cur) \in Nat,
           \A i \in 1..Len(s.cur) : /\ s.cur[i].MCU_width \in Nat \ {0}
                                    /\ s.cur[i].MCU_height \in Nat \ {0}
    PROVE  Ordered(s, Places(s)) /\ (Len(s.cur) > 0 => Len(Places(s)) > 0)
<1> DEFINE n == Len(s.cur)
           f == PlacesUpTo(s)
           Good(i) == Ordered(s, f[i]) /\ (i > 0 => Len(f[i]) > 0)
           Bad == {i \in 0..n : ~ Good(i)}
<1>1. /\ f[0] = << >> /\ f[n] = Places(s)
      /\ \A i \in 1..n : f[i] = f[i - 1] \o PlacesOf(s.cur[i], i)
  BY PlacesJoined
<1> HIDE DEF f
<1>2. Good(0)
  BY <1>1 DEF Ordered
<1>3. ASSUME NEW i \in 1..n, Good(i - 1) PROVE Good(i)
  <2> DEFINE g == PlacesOf(s.cur[i], i)
  <2>1. Ordered(s, g) /\ Len(g) > 0
    BY PlacesOfOne
  <2>2. IsFirst(g[1])
    <3>1. 1 \in 1..Len(g)
      <4> HIDE DEF g
      <4> QED
        BY <2>1 DEF Ordered
    <3> QED
      BY <2>1, <3>1 DEF Ordered
  <2> HIDE DEF g
  <2> QED
    BY <1>1, <1>3, <2>1, <2>2, OrderedJoin, Zenon DEF g
<1>4. Bad = {}
  <2> SUFFICES ASSUME Bad # {} PROVE FALSE
    OBVIOUS
  <2>1. PICK i \in Bad : \A j \in Bad : i <= j
    <3> Bad \in SUBSET Nat
      OBVIOUS
    <3> HIDE DEF Bad
    <3> QED
      BY Smallest
  <2>2. i \in 0..n /\ ~ Good(i) /\ i # 0
    <3> HIDE DEF Good
    <3> QED
      BY <1>2, <2>1
  <2>3. i \in 1..n /\ i - 1 \in 0..n /\ ~ i <= i - 1
    BY <2>2
  <2>4. Good(i - 1)
    <3> HIDE DEF Good
    <3> QED
      BY <2>1, <2>3
  <2> QED
    BY <1>3, <2>2, <2>3, <2>4, Zenon
<1>5. Good(n)
  <2> HIDE DEF Good
  <2> QED
    BY <1>4
<1> QED
  BY <1>1, <1>5, Zenon DEF n

(* Blocks in a row, of which some repeat the DC of the one before.         *)
Fills(f, real, blocks, n) ==
    f = [k \in 1..n |-> IF real[k] THEN blocks[k] ELSE Dummy(f[k - 1])]

LEMMA FillExists ==
    ASSUME NEW real, NEW blocks, real[1] = TRUE
    PROVE  \A n \in Nat : \E f : Fills(f, real, blocks, n)
<1> DEFINE Bad == {n \in Nat : ~ \E f : Fills(f, real, blocks, n)}
<1> SUFFICES ASSUME Bad # {} PROVE FALSE
  OBVIOUS
<1>1. PICK n \in Bad : \A k \in Bad : n <= k
  <2> Bad \in SUBSET Nat
    OBVIOUS
  <2> HIDE DEF Bad
  <2> QED
    BY Smallest
<1>2. n \in Nat
  OBVIOUS
<1>3. CASE n = 0
  <2> DEFINE v == [k \in 1..0 |-> << >>]
  <2>1. v = [k \in 1..0 |-> IF real[k] THEN blocks[k] ELSE Dummy(v[k - 1])]
    OBVIOUS
  <2> QED
    BY <1>3, <2>1, Zenon DEF Fills
<1>4. CASE n # 0
  <2>1. n - 1 \in Nat /\ n - 1 \notin Bad
    <3> HIDE DEF Bad
    <3> QED
      BY <1>1, <1>2, <1>4
  <2>2. PICK f : Fills(f, real, blocks, n - 1)
    BY <2>1
  <2> DEFINE Rhs == [k \in 1..n - 1 |-> IF real[k] THEN blocks[k] ELSE Dummy(f[k - 1])]
             last == IF real[n] THEN blocks[n] ELSE Dummy(f[n - 1])
             v == [k \in 1..n |-> IF k = n THEN last ELSE f[k]]
  <2>3. \A k \in 1..n - 1 : f[k] = IF real[k] THEN blocks[k] ELSE Dummy(f[k - 1])
    <3> HIDE DEF Rhs
    <3> QED
      BY <2>2, Zenon DEF Fills
  <2>4. /\ \A k \in 1..n - 1 : v[k] = f[k]
        /\ v[n] = last
        /\ DOMAIN v = 1..n /\ v = [k \in DOMAIN v |-> v[k]]
    <3> HIDE DEF last
    <3> QED
      BY <1>2, <1>4
  <2> HIDE DEF Rhs
  <2> HIDE DEF v
  <2>5. ASSUME NEW k \in 1..n
        PROVE  v[k] = IF real[k] THEN blocks[k] ELSE Dummy(v[k - 1])
    <3>1. CASE k = 1
      BY <2>4, <3>1, <1>2, <1>4, <2>3 DEF last
    <3>2. CASE k # 1
      BY <1>2, <3>2, <2>4, <2>3 DEF last
    <3> QED
      BY <3>1, <3>2
  <2> QED
    BY <2>4, <2>5 DEF Fills
<1> QED
  BY <1>3, <1>4

\* What MCUWithDummies makes of the places one after the other.
LEMMA MCUFilled ==
    ASSUME NEW s, NEW strip, NEW last, NEW y, NEW col,
           Len(Places(s)) \in Nat \ {0}, IsReal(s, last, y, col, Places(s)[1])
    PROVE  LET n == Len(Places(s))
               mcu == MCUWithDummies(s, strip, last, y, col)
               p(k) == Places(s)[k]
           IN  /\ mcu = [k \in 1..n |-> mcu[k]]
               /\ \A k \in 1..n :
                    mcu[k] = IF IsReal(s, last, y, col, p(k)) THEN BlockAt(s, strip, y, col, p(k))
                             ELSE Dummy(mcu[k - 1])
<1> DEFINE n == Len(Places(s))
           p(k) == Places(s)[k]
           mcu == MCUWithDummies(s, strip, last, y, col)
           Real(k) == IsReal(s, last, y, col, p(k))
           Block(k) == BlockAt(s, strip, y, col, p(k))
           real == [k \in 1..n |-> Real(k)]
           blocks == [k \in 1..n |-> Block(k)]
           Rhs == [k \in 1..n |-> IF Real(k) THEN Block(k) ELSE Dummy(mcu[k - 1])]
<1>1. n \in Nat /\ 1 \in 1..n
  OBVIOUS
<1>2. \A k \in 1..n : real[k] = Real(k) /\ blocks[k] = Block(k)
  BY Zenon
<1>3. PICK f : Fills(f, real, blocks, n)
  <2> HIDE DEF real, blocks, n
  <2> QED
    BY <1>1, <1>2, FillExists, Zenon DEF IsReal
<1>4. f = [k \in 1..n |-> IF Real(k) THEN Block(k) ELSE Dummy(f[k - 1])]
  <2> HIDE DEF real, blocks, n, Real, Block
  <2> QED
    BY <1>2, <1>3 DEF Fills
<1>5. \A k \in 1..n : Rhs[k] = IF Real(k) THEN Block(k) ELSE Dummy(mcu[k - 1])
  BY Zenon
<1>6. Rhs = [k \in 1..n |-> Rhs[k]]
  <2> DEFINE e(k) == IF Real(k) THEN Block(k) ELSE Dummy(mcu[k - 1])
  <2> HIDE DEF n, e
  <2>1. Rhs = [k \in 1..n |-> e(k)]
    BY DEF e
  <2> HIDE DEF Rhs
  <2> QED
    BY <2>1
<1> HIDE DEF Rhs, mcu
<1> QED
  BY <1>4, <1>5, <1>6, Zenon DEF mcu, MCUWithDummies

(* The components of a scan: the MCUs cover their blocks, of which the     *)
(* last column and the last row have what is left.                         *)
PartOK(c, s, p) ==
    LET k == p.index
        v == c.comps[k].v
    IN  /\ k \in 1..Len(c.comps)
        /\ c.comps[k].h \in Nat \ {0} /\ v \in Nat \ {0}
        /\ p.MCU_width \in Nat \ {0} /\ p.MCU_height \in Nat \ {0}
        /\ p.last_col_width \in 1..p.MCU_width /\ p.last_row_height \in 1..v
        /\ p.MCU_width * (s.MCUs_per_row - 1) + p.last_col_width = width_in_blocks(c, k)
        /\ v * (total_iMCU_rows(c) - 1) + p.last_row_height = height_in_blocks(c, k)
        /\ IF Len(s.cur) = 1 THEN p.MCU_width = 1 /\ p.MCU_height = 1
           ELSE p.MCU_width = c.comps[k].h /\ p.MCU_height = v

LEMMA ComponentRows ==
    ASSUME NEW c, Sized(c), NEW k \in 1..Len(c.comps)
    PROVE  LET v == c.comps[k].v
               last == LastBlocks(height_in_blocks(c, k), v)
           IN  /\ last \in 1..v /\ v * (total_iMCU_rows(c) - 1) + last = height_in_blocks(c, k)
               /\ v \in Nat \ {0} /\ total_iMCU_rows(c) \in Nat \ {0}
<1> DEFINE v == c.comps[k].v
           m == MaxV(c)
<1>1. c.image_height \in Nat \ {0} /\ m \in Nat \ {0} /\ v \in 1..m
  BY MaxSampling, Zenon DEF Sized
<1>2. /\ total_iMCU_rows(c) = jdiv_round_up(c.image_height, m * DCTSIZE)
      /\ height_in_blocks(c, k) = BlocksOf(c.image_height, v, m)
  BY Zenon DEF total_iMCU_rows, height_in_blocks, BlocksOf
<1>3. jdiv_round_up(c.image_height, m * DCTSIZE) \in Nat \ {0}
  BY <1>1, IMCURows, Zenon
<1> HIDE DEF v, m
<1>4. LET rows == jdiv_round_up(c.image_height, m * DCTSIZE)
          blocks == BlocksOf(c.image_height, v, m)
      IN  LastBlocks(blocks, v) \in 1..v /\ v * (rows - 1) + LastBlocks(blocks, v) = blocks
  BY <1>1, LastRowGroup, Zenon
<1> QED
  BY <1>2, <1>1, <1>3, <1>4 DEF v

LEMMA ScanParts ==
    ASSUME NEW c, Accepted(c), NEW n \in 0..num_scans(c) - 1
    PROVE  LET s == Setup(c, n)
           IN  /\ Len(s.cur) \in Nat \ {0} /\ s.MCUs_per_row \in Nat \ {0}
               /\ \A i \in 1..Len(s.cur) : PartOK(c, s, s.cur[i])
<1> DEFINE p == select_scan_parameters(c, n)
           s == Setup(c, n)
           alone == Len(p.comps) = 1
           cur == [i \in 1..Len(p.comps) |-> ScanComponent(c, p.comps[i], alone)]
           W == s.MCUs_per_row
           size == c.image_width
           m == MaxH(c)
<1>1. /\ Len(p.comps) \in Nat \ {0}
      /\ \A i \in 1..Len(p.comps) : p.comps[i] \in 1..Len(c.comps)
  BY SelectedScan
<1>2. s = per_scan_setup(c, p)
  BY Zenon DEF Setup
<1> HIDE DEF p, s, alone
<1>3. /\ s.cur = cur
      /\ W = IF alone THEN width_in_blocks(c, p.comps[1])
             ELSE jdiv_round_up(size, m * DCTSIZE)
  BY <1>2, SMT DEF per_scan_setup, alone
<1>4. Len(cur) = Len(p.comps)
      /\ \A i \in 1..Len(p.comps) : cur[i] = ScanComponent(c, p.comps[i], alone)
  BY <1>1
<1> HIDE DEF cur
<1>5. W \in Nat \ {0}
  BY SetupShape, Zenon DEF s
<1>6. Sized(c) /\ size \in Nat \ {0} /\ m \in Nat \ {0}
  BY AcceptedIsSized, MaxSampling, Zenon DEF Sized
<1> HIDE DEF W, size, m
<1>7. ASSUME NEW i \in 1..Len(p.comps) PROVE PartOK(c, s, s.cur[i])
  <2> DEFINE k == p.comps[i]
             q == s.cur[i]
             h == c.comps[k].h
             v == c.comps[k].v
             wide == width_in_blocks(c, k)
             high == height_in_blocks(c, k)
  <2>1. k \in 1..Len(c.comps) /\ q = ScanComponent(c, k, alone)
    BY <1>1, <1>3, <1>4, Zenon
  <2>2. h \in 1..m /\ wide \in Nat \ {0}
    BY <1>6, <2>1, MaxSampling, ComponentSizes, Zenon DEF m
  <2>3. LastBlocks(high, v) \in 1..v /\ v * (total_iMCU_rows(c) - 1) + LastBlocks(high, v) = high
        /\ v \in Nat \ {0}
    BY <1>6, <2>1, ComponentRows, Zenon
  <2>4. h \in Nat \ {0}
    BY <1>6, <2>2
  <2>5. wide = BlocksOf(size, h, m)
    BY Zenon DEF width_in_blocks, BlocksOf, size, m
  <2>6. q.index = k /\ q.last_row_height = LastBlocks(high, v)
    BY <2>1, SMT DEF ScanComponent
  <2>7. CASE alone
    BY <2>1, <2>7, <1>3, <1>5, <1>4, <2>3, <2>4, <2>6 DEF ScanComponent, alone, PartOK, W
  <2>8. CASE ~alone
    <3>1. q.MCU_width = h /\ q.MCU_height = v /\ q.last_col_width = LastBlocks(wide, h)
      BY <2>1, <2>8, SMT DEF ScanComponent
    <3> HIDE DEF h, v, wide, high, k, q
    <3>2. LastBlocks(wide, h) \in 1..h /\ h * (W - 1) + LastBlocks(wide, h) = wide
      BY <1>6, <2>2, <2>5, <1>3, <2>8, LastRowGroup, Zenon
    <3>3. Len(s.cur) # 1
      BY <1>3, <1>4, <2>8, Zenon DEF alone
    <3> QED
      BY <2>1, <2>3, <2>4, <2>6, <3>1, <3>2, <3>3, Zenon DEF PartOK, W, h, v, wide, high, k, q
  <2> QED
    BY <2>7, <2>8
<1> QED
  BY <1>1, <1>3, <1>4, <1>5, <1>7, Zenon DEF W, s

(* Where a place of an MCU lies: the MCU in row y of those in iMCU row i   *)
(* and in column col.                                                      *)
RowOfPlace(c, s, i, y, p) == (RowsBefore(c, s, i) + y) * s.cur[p[1]].MCU_height + p[2]
ColOfPlace(s, col, p) == col * s.cur[p[1]].MCU_width + p[3]

LEMMA PlaceLies ==
    ASSUME NEW c, NEW s, Len(s.cur) \in Nat \ {0}, s.MCUs_per_row \in Nat \ {0},
           \A j \in 1..Len(s.cur) : PartOK(c, s, s.cur[j]),
           total_iMCU_rows(c) \in Nat \ {0},
           NEW i \in 0..total_iMCU_rows(c) - 1, NEW y \in Nat, y < RowsIn(c, s, i),
           NEW col \in Nat, col < s.MCUs_per_row, NEW p, Placed(s, p)
    PROVE  LET m == s.cur[p[1]]
               k == m.index
               v == c.comps[k].v
               row == RowOfPlace(c, s, i, y, p)
               x == ColOfPlace(s, col, p)
           IN  /\ y + p[2] \in 0..v - 1 /\ row = i * v + (y + p[2])
               /\ RealRow(m, i = total_iMCU_rows(c) - 1, y + p[2]) <=> row < height_in_blocks(c, k)
               /\ p[3] < RealAcross(s, m, col) <=> x < width_in_blocks(c, k)
               /\ p[2] = 0 => row < height_in_blocks(c, k)
               /\ p[3] = 0 => x < width_in_blocks(c, k)
               /\ row \in Nat /\ x \in Nat
<1> DEFINE j == p[1]
           m == s.cur[j]
           k == m.index
           v == c.comps[k].v
           W == s.MCUs_per_row
           rows == total_iMCU_rows(c)
           high == height_in_blocks(c, k)
           wide == width_in_blocks(c, k)
           w == m.MCU_width
           h == m.MCU_height
           lw == m.last_col_width
           lh == m.last_row_height
           r == p[2]
           b == p[3]
           B == RowsBefore(c, s, i)
           R == RowsIn(c, s, i)
           l == Len(s.cur)
<1>1. j \in 1..l /\ r \in 0..h - 1 /\ b \in 0..w - 1
  BY Zenon DEF Placed
<1>2. PartOK(c, s, m) /\ PartOK(c, s, s.cur[1])
  <2>1. 1 \in 1..Len(s.cur)
    OBVIOUS
  <2> QED
    BY <1>1, <2>1, Zenon
<1>3. /\ v \in Nat \ {0} /\ w \in Nat \ {0} /\ h \in Nat \ {0}
      /\ lw \in 1..w /\ lh \in 1..v
      /\ w * (W - 1) + lw = wide /\ v * (rows - 1) + lh = high
      /\ IF l = 1 THEN w = 1 /\ h = 1 ELSE h = v
  BY <1>2, Zenon DEF PartOK
<1>4. B = IF i = rows THEN s.MCU_rows_in_scan
          ELSE i * (IF l > 1 THEN 1 ELSE c.comps[s.cur[1].index].v)
  BY Zenon DEF RowsBefore
<1>5. R = IF l > 1 THEN 1 ELSE IF i < rows - 1 THEN c.comps[s.cur[1].index].v
          ELSE s.cur[1].last_row_height
  BY SMT DEF RowsIn, start_iMCU_row
<1>6. RowOfPlace(c, s, i, y, p) = (B + y) * h + r /\ ColOfPlace(s, col, p) = col * w + b
  BY Zenon DEF RowOfPlace, ColOfPlace
<1>7. RealRow(m, i = rows - 1, y + r) <=> (~ i = rows - 1 \/ y + r < lh)
  BY Zenon DEF RealRow
<1>8. RealAcross(s, m, col) = IF col < W - 1 THEN w ELSE lw
  BY Zenon DEF RealAcross
<1>9. y < R /\ col < W /\ W \in Nat \ {0} /\ rows \in Nat \ {0} /\ l \in Nat \ {0}
      /\ i \in 0..rows - 1
  OBVIOUS
<1>10. l = 1 => c.comps[s.cur[1].index].v = v /\ s.cur[1].last_row_height = lh
  BY <1>1
<1> DEFINE z == y + r
           row == (B + y) * h + r
           x == col * w + b
<1> HIDE DEF j, k, v, W, rows, high, wide, w, h, lw, lh, r, b, B, R, l
<1>11. z \in 0..v - 1 /\ row = i * v + z /\ (i = rows - 1 /\ r = 0 => z < lh)
  <2>1. CASE l = 1
    <3>1. B = i * v /\ h = 1 /\ r = 0 /\ R = IF i < rows - 1 THEN v ELSE lh
      <4>1. ~ l > 1 /\ i # rows
        BY <1>9, <2>1
      <4>2. B = i * v /\ h = 1 /\ R = IF i < rows - 1 THEN v ELSE lh
        BY <1>3, <1>4, <1>5, <1>10, <2>1, <4>1, Zenon
      <4> QED
        BY <1>1, <4>2
    <3>2. z = y /\ y < v /\ (i = rows - 1 => y < lh)
      BY <1>3, <1>9, <3>1
    <3> DEFINE e == i * v
    <3> HIDE DEF e
    <3> QED
      BY <3>1, <3>2, <1>3, <1>9 DEF e
  <2>2. CASE l # 1
    <3>1. B = i /\ h = v /\ y = 0
      BY <1>9, <2>2, <1>3, <1>4, <1>5
    <3>2. i + y = i
      BY <1>9, <3>1
    <3> QED
      BY <1>1, <1>3, <3>1, <3>2
  <2> QED
    BY <2>1, <2>2
<1>12. /\ row < high <=> (~ i = rows - 1 \/ z < lh)
       /\ row \in Nat
  <2> DEFINE e == i * v
             d == v * (rows - 1)
  <2>1. e \in Nat /\ d \in Nat /\ (i = rows - 1 => e = d) /\ (i # rows - 1 => e + v <= d)
    BY <1>9, <1>3, Multiples
  <2> HIDE DEF e, d, row, z
  <2>2. row = e + z /\ z \in 0..v - 1 /\ d + lh = high /\ lh \in 1..v
    BY <1>3, <1>11, Zenon DEF e, d
  <2> QED
    BY <1>3, <2>1, <2>2
<1>13. /\ x < wide <=> b < (IF col < W - 1 THEN w ELSE lw)
       /\ x \in Nat /\ (b = 0 => x < wide)
  <2> DEFINE e == col * w
             d == w * (W - 1)
  <2>1. e \in Nat /\ d \in Nat /\ (~ col < W - 1 => e = d) /\ (col < W - 1 => e + w <= d)
    BY <1>9, <1>3, Multiples
  <2> HIDE DEF e, d
  <2>2. x = e + b /\ d + lw = wide
    BY <1>3, Zenon DEF e, d
  <2> HIDE DEF x
  <2> QED
    BY <1>1, <1>3, <2>1, <2>2
<1> HIDE DEF z, row, x
<1>14. r = 0 => row < high
  BY <1>11, <1>12
<1> QED
  BY <1>6, <1>7, <1>8, <1>11, <1>12, <1>13, <1>14, Zenon
     DEF j, k, v, W, rows, high, wide, w, h, lw, lh, r, b, z, row, x, B

(* The block that belongs at row and x of component k: one of the image,   *)
(* or a dummy with the DC of the one nearest to it; below the image of the *)
(* one in column right of the last row.                                    *)
NearestBlock(c, k, row, x, right) ==
    LET lastrow == height_in_blocks(c, k) - 1
        lastcol == width_in_blocks(c, k) - 1
    IN  IF row > lastrow THEN Dummy(IdealBlock(c, k, lastrow, Least(right, lastcol)))
        ELSE IF x > lastcol THEN Dummy(IdealBlock(c, k, row, lastcol))
        ELSE IdealBlock(c, k, row, x)

LEMMA DummyTwice == \A block : Dummy(Dummy(block)) = Dummy(block)
BY SMT DEF Dummy

(* An MCU of a scan.                                                       *)
InScan(c, s, i, y, col) ==
    /\ Len(s.cur) \in Nat \ {0} /\ s.MCUs_per_row \in Nat \ {0}
    /\ \A j \in 1..Len(s.cur) : PartOK(c, s, s.cur[j])
    /\ \A j \in 1..Len(s.cur) :
        /\ height_in_blocks(c, s.cur[j].index) \in Nat \ {0}
        /\ width_in_blocks(c, s.cur[j].index) \in Nat \ {0}
    /\ total_iMCU_rows(c) \in Nat \ {0} /\ i \in 0..total_iMCU_rows(c) - 1
    /\ y \in Nat /\ y < RowsIn(c, s, i) /\ RowsBefore(c, s, i) \in Nat
    /\ col \in Nat /\ col < s.MCUs_per_row

PlaceNumber(c, s, i, y, col) == (RowsBefore(c, s, i) + y) * s.MCUs_per_row + col
RightOf(s, col, p) == (col + 1) * s.cur[p[1]].MCU_width - 1
BlockOfPlace(c, s, i, y, col, p) ==
    NearestBlock(c, s.cur[p[1]].index, RowOfPlace(c, s, i, y, p), ColOfPlace(s, col, p),
                 RightOf(s, col, p))

LEMMA MCUPlaces ==
    ASSUME NEW c, NEW s, NEW i, NEW y, NEW col, InScan(c, s, i, y, col)
    PROVE  /\ Len(Places(s)) \in Nat \ {0} /\ IsFirst(Places(s)[1]) /\ Ordered(s, Places(s))
<1>1. Len(s.cur) \in Nat \ {0} /\ \A j \in 1..Len(s.cur) : PartOK(c, s, s.cur[j])
  BY Zenon DEF InScan
<1>2. Ordered(s, Places(s)) /\ Len(Places(s)) > 0
  BY <1>1, PlacesOrdered DEF PartOK
<1>3. Len(Places(s)) \in Nat \ {0}
  BY <1>2 DEF Ordered
<1> QED
  BY <1>2, <1>3 DEF Ordered

\* The MCUs are numbered row by row.
LEMMA MCUOfNumber ==
    ASSUME NEW R \in Nat, NEW W \in Nat \ {0}, NEW col \in Nat, col < W
    PROVE  (R * W + col) \div W = R /\ (R * W + col) % W = col
<1> DEFINE n == R * W + col
<1>1. n \in Nat /\ W * R = R * W /\ W * R \in Nat
  OBVIOUS
<1> QED
  BY <1>1, QuotientUnique

LEMMA IdealMCUIs ==
    ASSUME NEW c, NEW s, NEW i, NEW y, NEW col, InScan(c, s, i, y, col)
    PROVE  LET n == Len(Places(s))
               mcu == IdealMCU(c, s, PlaceNumber(c, s, i, y, col))
           IN  /\ mcu = [k \in 1..n |-> mcu[k]]
               /\ \A k \in 1..n : mcu[k] = BlockOfPlace(c, s, i, y, col, Places(s)[k])
<1> DEFINE n == Len(Places(s))
           N1 == PlaceNumber(c, s, i, y, col)
           R == RowsBefore(c, s, i) + y
           W == s.MCUs_per_row
           block(k) == IdealMCUBlock(c, s, N1, Places(s)[k])
           mcu == IdealMCU(c, s, N1)
<1>1. N1 = R * W + col
  BY Zenon DEF PlaceNumber
<1>2. N1 \div W = R /\ N1 % W = col
  <2>1. R \in Nat /\ W \in Nat \ {0} /\ col \in Nat /\ col < W
    BY DEF InScan
  <2> HIDE DEF R, W, N1
  <2> QED
    BY <1>1, <2>1, MCUOfNumber, Zenon
<1>3. ASSUME NEW p PROVE IdealMCUBlock(c, s, N1, p) = BlockOfPlace(c, s, i, y, col, p)
  <2> HIDE DEF N1
  <2> QED
    BY <1>2, Zenon DEF IdealMCUBlock, BlockOfPlace, NearestBlock, RowOfPlace, ColOfPlace, RightOf
<1>4. mcu = [k \in 1..n |-> block(k)]
  BY Zenon DEF IdealMCU
<1> HIDE DEF block, n, mcu
<1> QED
  BY <1>3, <1>4 DEF block, n, mcu

\* A place with no block of the image borrows its DC from the place before.
LEMMA BlockBorrows ==
    ASSUME NEW c, NEW s, NEW i, NEW y, NEW col, InScan(c, s, i, y, col),
           NEW p, Placed(s, p), Placed(s, Before(s, p)),
           LET k == s.cur[p[1]].index
           IN  ~ (/\ RowOfPlace(c, s, i, y, p) < height_in_blocks(c, k)
                  /\ ColOfPlace(s, col, p) < width_in_blocks(c, k))
    PROVE  BlockOfPlace(c, s, i, y, col, p) = Dummy(BlockOfPlace(c, s, i, y, col, Before(s, p)))
<1> DEFINE q == Before(s, p)
           m == s.cur[p[1]]
           k == m.index
           high == height_in_blocks(c, k)
           wide == width_in_blocks(c, k)
           row == RowOfPlace(c, s, i, y, p)
           x == ColOfPlace(s, col, p)
           qrow == RowOfPlace(c, s, i, y, q)
           qx == ColOfPlace(s, col, q)
           right == RightOf(s, col, p)
           B == RowsBefore(c, s, i) + y
           w == m.MCU_width
           h == m.MCU_height
<1>1. p[1] \in 1..Len(s.cur) /\ p[2] \in 0..h - 1 /\ p[3] \in 0..w - 1
      /\ q[1] = p[1]
      /\ (p[3] > 0 => q[2] = p[2] /\ q[3] = p[3] - 1)
      /\ (~ p[3] > 0 => q[2] = p[2] - 1 /\ q[3] = w - 1)
  <2>1. p[1] \in 1..Len(s.cur) /\ p[2] \in 0..h - 1 /\ p[3] \in 0..w - 1
    BY Zenon DEF Placed
  <2>2. q = IF p[3] > 0 THEN << p[1], p[2], p[3] - 1 >> ELSE << p[1], p[2] - 1, w - 1 >>
    BY Zenon DEF Before
  <2> HIDE DEF q, w
  <2> QED
    BY <2>1, <2>2
<1>2. /\ PartOK(c, s, m) /\ high \in Nat \ {0} /\ wide \in Nat \ {0}
      /\ B \in Nat /\ col \in Nat /\ w \in Nat \ {0} /\ h \in Nat \ {0}
  <2>1. PartOK(c, s, m) /\ high \in Nat \ {0} /\ wide \in Nat \ {0}
        /\ RowsBefore(c, s, i) \in Nat /\ y \in Nat /\ col \in Nat
    BY <1>1, Zenon DEF InScan
  <2>2. B \in Nat
    BY <2>1
  <2> QED
    BY <2>1, <2>2 DEF PartOK
<1>3. /\ p[2] = 0 => row < high
      /\ p[3] = 0 => x < wide
      /\ row \in Nat /\ x \in Nat
  BY PlaceLies, Zenon DEF InScan
<1>4. /\ BlockOfPlace(c, s, i, y, col, p) = NearestBlock(c, k, row, x, right)
      /\ BlockOfPlace(c, s, i, y, col, q) = NearestBlock(c, k, qrow, qx, right)
  BY <1>1, Zenon DEF BlockOfPlace, RightOf
<1>5. /\ row = B * h + p[2] /\ qrow = B * h + q[2]
      /\ x = col * w + p[3] /\ qx = col * w + q[3]
      /\ right = (col + 1) * w - 1
  BY <1>1, Zenon DEF RowOfPlace, ColOfPlace, RightOf
<1>6. p[3] > 0 => qrow = row /\ qx = x - 1
  <2> DEFINE d == B * h
             e == col * w
  <2>1. d \in Nat /\ e \in Nat
    BY <1>2
  <2> HIDE DEF d, e, q, B, h, w, row, qrow, x, qx, right
  <2>2. ASSUME p[3] > 0 PROVE qx = x - 1
    <3>1. qx = e + (p[3] - 1) /\ x = e + p[3]
      BY <1>1, <1>5, <2>2, Zenon DEF e
    <3> QED
      BY <1>1, <1>2, <2>1, <3>1
  <2> QED
    BY <1>1, <1>5, <2>2, Zenon
<1>7. ~ p[3] > 0 => qrow = row - 1 /\ qx = right
  <2> DEFINE d == B * h
             e == col * w
  <2>1. d \in Nat /\ e \in Nat /\ (col + 1) * w = e + w
    BY <1>2
  <2> HIDE DEF d, e, q, B, h, w, row, qrow, x, qx, right
  <2>2. ASSUME ~ p[3] > 0 PROVE qrow = row - 1 /\ qx = right
    <3>1. qrow = d + (p[2] - 1) /\ row = d + p[2] /\ qx = e + (w - 1) /\ right = (e + w) - 1
      BY <1>1, <1>5, <2>1, <2>2, Zenon DEF d, e
    <3> QED
      BY <1>1, <1>2, <2>1, <3>1
  <2> QED
    BY <2>2
<1>8. right \in Nat
  BY <1>2, <1>5
<1>9. ~ (row < high /\ x < wide)
  OBVIOUS
<1> DEFINE Real(r, z) == IdealBlock(c, k, r, z)
<1>10. \A r, z : NearestBlock(c, k, r, z, right) =
          IF r > high - 1 THEN Dummy(Real(high - 1, Least(right, wide - 1)))
          ELSE IF z > wide - 1 THEN Dummy(Real(r, wide - 1)) ELSE Real(r, z)
  BY Zenon DEF NearestBlock
<1>11. p[3] \in Nat /\ p[3] <= w - 1
  BY <1>1, <1>2
<1> HIDE DEF q, k, high, wide, row, x, qrow, qx, right, B, w, h, Real, m
<1>12. NearestBlock(c, k, row, x, right) = Dummy(NearestBlock(c, k, qrow, qx, right))
  <2>1. CASE row > high - 1
    <3>1. NearestBlock(c, k, row, x, right) = Dummy(Real(high - 1, Least(right, wide - 1)))
      BY <1>10, <2>1
    <3>2. CASE qrow > high - 1
      BY <1>10, <3>2, <3>1, DummyTwice
    <3>3. CASE ~ qrow > high - 1
      <4>1. qrow = high - 1 /\ qx = right
        BY <1>2, <1>3, <1>7, <2>1, <3>3, <1>6
      <4>2. CASE right > wide - 1
        BY <1>2, <1>8, <4>2, <1>10, <3>3, <4>1, <3>1, DummyTwice DEF Least
      <4>3. CASE ~ right > wide - 1
        BY <1>2, <1>8, <4>3, <1>10, <3>3, <4>1, <3>1 DEF Least
      <4> QED
        BY <4>2, <4>3
    <3> QED
      BY <3>2, <3>3
  <2>2. CASE ~ row > high - 1
    <3>1. ~ x < wide /\ p[3] > 0
      BY <1>2, <1>3, <1>9, <2>2, <1>11
    <3>2. qrow = row /\ qx = x - 1 /\ x > wide - 1
      BY <1>2, <1>3, <1>6, <3>1
    <3>3. NearestBlock(c, k, row, x, right) = Dummy(Real(row, wide - 1))
      BY <1>10, <2>2, <3>2
    <3>4. CASE qx > wide - 1
      BY <1>10, <2>2, <3>2, <3>4, <3>3, DummyTwice
    <3>5. CASE ~ qx > wide - 1
      BY <1>2, <1>3, <3>2, <3>5, <1>10, <2>2, <3>3
    <3> QED
      BY <3>4, <3>5
  <2> QED
    BY <2>1, <2>2
<1> QED
  BY <1>4, <1>12, Zenon DEF q

\* The rows of blocks of iMCU row i are those of the image.
RealStrip(c, s, i, strip) ==
    \A j \in 1..Len(s.cur) :
        LET k == s.cur[j].index
            v == c.comps[k].v
        IN  \A brow \in 0..v - 1 : \A x \in 0..width_in_blocks(c, k) - 1 :
                i * v + brow < height_in_blocks(c, k) =>
                    strip[k][brow][x] = IdealBlock(c, k, i * v + brow, x)

LEMMA RealPlace ==
    ASSUME NEW c, NEW s, NEW i, NEW y, NEW col, InScan(c, s, i, y, col),
           NEW strip, RealStrip(c, s, i, strip), NEW p, Placed(s, p)
    PROVE  LET k == s.cur[p[1]].index
           IN  /\ IsReal(s, i = total_iMCU_rows(c) - 1, y, col, p) <=>
                    /\ RowOfPlace(c, s, i, y, p) < height_in_blocks(c, k)
                    /\ ColOfPlace(s, col, p) < width_in_blocks(c, k)
               /\ IsFirst(p) => IsReal(s, i = total_iMCU_rows(c) - 1, y, col, p)
               /\ IsReal(s, i = total_iMCU_rows(c) - 1, y, col, p) =>
                    BlockAt(s, strip, y, col, p) = BlockOfPlace(c, s, i, y, col, p)
<1> DEFINE m == s.cur[p[1]]
           k == m.index
           v == c.comps[k].v
           high == height_in_blocks(c, k)
           wide == width_in_blocks(c, k)
           row == RowOfPlace(c, s, i, y, p)
           x == ColOfPlace(s, col, p)
           right == RightOf(s, col, p)
           last == i = total_iMCU_rows(c) - 1
           real == IsReal(s, last, y, col, p)
<1>1. /\ y + p[2] \in 0..v - 1 /\ row = i * v + (y + p[2])
      /\ RealRow(m, last, y + p[2]) <=> row < high
      /\ p[3] < RealAcross(s, m, col) <=> x < wide
      /\ p[2] = 0 => row < high
      /\ p[3] = 0 => x < wide
      /\ row \in Nat /\ x \in Nat
  BY PlaceLies, Zenon DEF InScan
<1>2. real <=> row < high /\ x < wide
  BY <1>1, Zenon DEF IsReal
<1>3. p[1] \in 1..Len(s.cur)
  BY Zenon DEF Placed
<1>4. high \in Nat \ {0} /\ wide \in Nat \ {0}
  BY <1>3, Zenon DEF InScan
<1>5. ASSUME real PROVE BlockAt(s, strip, y, col, p) = BlockOfPlace(c, s, i, y, col, p)
  <2>1. row < high /\ x < wide
    BY <1>2, <1>5, Zenon
  <2> HIDE DEF real, last, row, x, high, wide, k, m, v
  <2>2. x \in 0..wide - 1 /\ ~ row > high - 1 /\ ~ x > wide - 1
    BY <1>1, <1>4, <2>1
  <2> USE DEF k, m, v
  <2>3. BlockOfPlace(c, s, i, y, col, p) = NearestBlock(c, k, row, x, right)
    BY Zenon DEF BlockOfPlace, row, x
  <2>4. NearestBlock(c, k, row, x, right) = IdealBlock(c, k, row, x)
    BY <2>2, Zenon DEF NearestBlock, high, wide
  <2> QED
    BY <1>1, <1>3, <2>1, <2>2, <2>3, <2>4, Zenon DEF RealStrip, high, wide, BlockAt,
       ColOfPlace, x
<1> QED
  BY <1>2, <1>1, <1>5, Zenon DEF IsFirst

LEMMA DummiesRight ==
    ASSUME NEW c, NEW s, NEW i, NEW y, NEW col, InScan(c, s, i, y, col),
           NEW strip, RealStrip(c, s, i, strip)
    PROVE  MCUWithDummies(s, strip, i = total_iMCU_rows(c) - 1, y, col)
             = IdealMCU(c, s, PlaceNumber(c, s, i, y, col))
<1> DEFINE n == Len(Places(s))
           P(k) == Places(s)[k]
           last == i = total_iMCU_rows(c) - 1
           mcu == MCUWithDummies(s, strip, last, y, col)
           ideal == IdealMCU(c, s, PlaceNumber(c, s, i, y, col))
           Block(p) == BlockOfPlace(c, s, i, y, col, p)
           Real(p) == IsReal(s, last, y, col, p)
<1>1. n \in Nat \ {0} /\ IsFirst(P(1)) /\ Ordered(s, Places(s))
  BY MCUPlaces
<1>2. \A k \in 1..n : /\ Placed(s, P(k))
                      /\ IsFirst(P(k)) \/ (k > 1 /\ P(k - 1) = Before(s, P(k)))
  BY <1>1, Zenon DEF Ordered
<1>3. ASSUME NEW p, Placed(s, p)
      PROVE  /\ IsFirst(p) => Real(p)
             /\ Real(p) => BlockAt(s, strip, y, col, p) = Block(p)
             /\ ~ Real(p) /\ Placed(s, Before(s, p)) => Block(p) = Dummy(Block(Before(s, p)))
  <2>1. ASSUME ~ Real(p), Placed(s, Before(s, p)) PROVE Block(p) = Dummy(Block(Before(s, p)))
    <3>1. LET k == s.cur[p[1]].index
          IN  ~ (/\ RowOfPlace(c, s, i, y, p) < height_in_blocks(c, k)
                 /\ ColOfPlace(s, col, p) < width_in_blocks(c, k))
      BY <1>3, <2>1, RealPlace, Zenon
    <3> QED
      BY <1>3, <2>1, <3>1, BlockBorrows, Zenon
  <2> QED
    BY <1>3, RealPlace, <2>1
<1>4. /\ mcu = [k \in 1..n |-> mcu[k]]
      /\ \A k \in 1..n : mcu[k] = IF Real(P(k)) THEN BlockAt(s, strip, y, col, P(k))
                                  ELSE Dummy(mcu[k - 1])
  BY <1>1, <1>2, <1>3, MCUFilled
<1>5. /\ ideal = [k \in 1..n |-> ideal[k]]
      /\ \A k \in 1..n : ideal[k] = Block(P(k))
  <2> HIDE DEF ideal, Block, n
  <2> QED
    BY IdealMCUIs DEF Block, ideal, n
<1> HIDE DEF n, P, last, mcu, ideal, Block, Real
<1>6. \A k \in 1..n : mcu[k] = Block(P(k))
  <2> DEFINE Bad == {k \in 1..n : mcu[k] # Block(P(k))}
  <2> SUFFICES ASSUME Bad # {} PROVE FALSE
    OBVIOUS
  <2>1. PICK k \in Bad : \A l \in Bad : k <= l
    <3>1. Bad \in SUBSET Nat
      BY <1>1
    <3> HIDE DEF Bad
    <3> QED
      BY <3>1, Smallest
  <2>2. k \in 1..n /\ mcu[k] # Block(P(k))
    OBVIOUS
  <2>3. ~ Real(P(k))
    BY <1>2, <1>3, <1>4, <2>2, Zenon
  <2>4. k > 1 /\ P(k - 1) = Before(s, P(k))
    BY <1>2, <1>3, <2>2, <2>3, Zenon
  <2>5. k - 1 \in 1..n /\ k - 1 \notin Bad
    <3> HIDE DEF Bad
    <3> QED
      BY <1>1, <2>1, <2>2, <2>4
  <2> QED
    BY <1>4, <2>2, <2>3, <2>5, <1>2, <1>3, <2>4, Zenon
<1> QED
  BY <1>4, <1>5, <1>6 DEF mcu, ideal, last

\* The blocks of an iMCU row of which all rows are right.
RightRows(c, k, i, rows) ==
    \A r \in 0..c.comps[k].v * DCTSIZE - 1 :
        rows[r] = IdealRow(c, k, i * c.comps[k].v * DCTSIZE + r)

LEMMA TransformedBlock ==
    ASSUME NEW c, NEW k, c.comps[k].v \in Nat \ {0}, NEW i \in Nat,
           NEW buffer, RightRows(c, k, i, buffer[k]),
           NEW brow \in 0..c.comps[k].v - 1, NEW x
    PROVE  DCT(buffer, k, brow, x) = IdealBlock(c, k, i * c.comps[k].v + brow, x)
<1> DEFINE v == c.comps[k].v
           b == i * v + brow
           one(j) == buffer[k][brow * DCTSIZE + j - 1]
           two(j) == IdealRow(c, k, b * DCTSIZE + j - 1)
           data == << k, x, [j \in 1..DCTSIZE |-> one(j)] >>
           ideal == << k, x, [j \in 1..DCTSIZE |-> two(j)] >>
<1>1. DCTSIZE \in Nat \ {0}
  BY SetupAssumption
<1>2. ASSUME NEW j \in 1..DCTSIZE PROVE one(j) = two(j)
  <2> DEFINE r == brow * DCTSIZE + j - 1
  <2>1. r \in 0..v * DCTSIZE - 1
    <3>1. brow \in Nat /\ brow + 1 <= v /\ brow + 1 \in Nat /\ v \in Nat
      OBVIOUS
    <3> HIDE DEF v
    <3> QED
      BY <1>1, <3>1, Multiples
  <2>2. buffer[k][r] = IdealRow(c, k, i * v * DCTSIZE + r)
    <3> HIDE DEF r
    <3> QED
      BY <2>1, Zenon DEF RightRows, v
  <2>3. i * v * DCTSIZE + r = b * DCTSIZE + j - 1
    <3> DEFINE a == i * v
    <3>1. a \in Nat /\ brow \in Nat
      OBVIOUS
    <3> HIDE DEF a
    <3> QED
      BY <1>1, <3>1 DEF a
  <2> QED
    BY <2>2, <2>3, Zenon
<1> HIDE DEF one, two
<1>3. IdealBlock(c, k, b, x) = [dc |-> ideal, ac |-> ideal]
  BY Zenon DEF IdealBlock, two
<1> QED
  BY <1>2, <1>3 DEF DCT, one

\* An iMCU row out of the main buffer, and one of the application's arrays.
LEMMA InputStripRight ==
    ASSUME NEW c, NEW s, NEW i \in Nat, NEW buffer,
           \A j \in 1..Len(s.cur) : PartOK(c, s, s.cur[j]),
           \A k \in 1..Len(c.comps) : RightRows(c, k, i, buffer[k])
    PROVE  RealStrip(c, s, i, InputStrip(c, buffer))
<1> DEFINE strip == InputStrip(c, buffer)
<1> SUFFICES ASSUME NEW j \in 1..Len(s.cur), NEW brow \in 0..c.comps[s.cur[j].index].v - 1,
                    NEW x \in 0..width_in_blocks(c, s.cur[j].index) - 1
             PROVE  strip[s.cur[j].index][brow][x]
                      = IdealBlock(c, s.cur[j].index, i * c.comps[s.cur[j].index].v + brow, x)
  BY Zenon DEF RealStrip
<1> DEFINE k == s.cur[j].index
<1>1. k \in 1..Len(c.comps) /\ c.comps[k].v \in Nat \ {0}
  BY Zenon DEF PartOK
<1>2. strip = [l \in 1..Len(c.comps) |->
                 [b \in 0..c.comps[l].v - 1 |->
                    [z \in 0..width_in_blocks(c, l) - 1 |-> DCT(buffer, l, b, z)]]]
  BY Zenon DEF InputStrip
<1> HIDE DEF k, strip
<1>3. strip[k][brow][x] = DCT(buffer, k, brow, x)
  BY <1>1, <1>2, Zenon DEF k
<1>4. DCT(buffer, k, brow, x) = IdealBlock(c, k, i * c.comps[k].v + brow, x)
  <2>1. brow \in 0..c.comps[k].v - 1 /\ RightRows(c, k, i, buffer[k])
    BY <1>1, Zenon DEF k
  <2> QED
    BY <1>1, <2>1, TransformedBlock
<1> QED
  BY <1>3, <1>4, Zenon DEF k, strip

LEMMA ApplicationStripRight ==
    ASSUME NEW c, Sized(c), NEW s, NEW i \in Nat,
           \A j \in 1..Len(s.cur) : PartOK(c, s, s.cur[j])
    PROVE  RealStrip(c, s, i, ArrayStrip(c, IdealArrays(c), i))
<1> DEFINE arrays == IdealArrays(c)
           strip == ArrayStrip(c, arrays, i)
<1> SUFFICES ASSUME NEW j \in 1..Len(s.cur), NEW brow \in 0..c.comps[s.cur[j].index].v - 1,
                    NEW x \in 0..width_in_blocks(c, s.cur[j].index) - 1,
                    i * c.comps[s.cur[j].index].v + brow < height_in_blocks(c, s.cur[j].index)
             PROVE  strip[s.cur[j].index][brow][x]
                      = IdealBlock(c, s.cur[j].index, i * c.comps[s.cur[j].index].v + brow, x)
  BY Zenon DEF RealStrip
<1> DEFINE k == s.cur[j].index
           high == height_in_blocks(c, k)
           b == i * c.comps[k].v + brow
<1>1. k \in 1..Len(c.comps) /\ c.comps[k].v \in Nat \ {0}
      /\ c.comps[k].v * (total_iMCU_rows(c) - 1) + s.cur[j].last_row_height = high
  BY Zenon DEF PartOK
<1>2. b \in 0..high - 1
  <2>1. b < high
    OBVIOUS
  <2>2. b \in Nat
    <3> DEFINE v == c.comps[k].v
    <3>1. v \in Nat \ {0} /\ brow \in 0..v - 1
      BY <1>1
    <3>2. b = i * v + brow
      OBVIOUS
    <3> HIDE DEF v, b
    <3> QED
      BY <3>1, <3>2
  <2>3. high \in Nat
    BY <1>1, ComponentSizes
  <2> HIDE DEF b, high
  <2> QED
    BY <2>1, <2>3, <2>2
<1>3. strip = [l \in 1..Len(c.comps) |->
                 [z \in 0..c.comps[l].v - 1 |-> arrays[l][i * c.comps[l].v + z]]]
  BY Zenon DEF ArrayStrip
<1>4. arrays = [l \in 1..Len(c.comps) |->
                  [r \in 0..height_in_blocks(c, l) - 1 |->
                    [z \in 0..width_in_blocks(c, l) - 1 |-> IdealBlock(c, l, r, z)]]]
  BY Zenon DEF IdealArrays
<1> HIDE DEF k, strip, arrays, b, high
<1>5. strip[k][brow] = arrays[k][b]
  BY <1>1, <1>3, Zenon DEF k, b
<1>6. arrays[k][b][x] = IdealBlock(c, k, b, x)
  BY <1>1, <1>2, <1>4, Zenon DEF k, high
<1> QED
  BY <1>5, <1>6, Zenon DEF k, strip, arrays, b

-----------------------------------------------------------------------------
(* The arrays of the whole image, in which the dummy blocks are stored too: *)
(* below the image the DC comes from the last block of the same MCU.        *)
StoredBlock(c, k, row, x) ==
    LET h == c.comps[k].h
    IN  NearestBlock(c, k, row, x, ((x \div h) + 1) * h - 1)

\* A row of MCUs covers the blocks that are stored, and is covered by them.
LEMMA AcrossScan ==
    ASSUME NEW c, NEW s, NEW p, PartOK(c, s, p), s.MCUs_per_row \in Nat \ {0}
    PROVE  p.MCU_width * s.MCUs_per_row <= BlocksAcross(c, p.index)
<1> DEFINE k == p.index
           h == c.comps[k].h
           W == s.MCUs_per_row
           wide == width_in_blocks(c, k)
           w == p.MCU_width
           lw == p.last_col_width
           l == Len(s.cur)
<1>1. /\ h \in Nat \ {0} /\ w \in Nat \ {0} /\ lw \in 1..w /\ w * (W - 1) + lw = wide
      /\ IF l = 1 THEN w = 1 ELSE w = h
  BY Zenon DEF PartOK
<1>2. BlocksAcross(c, k) = jround_up(wide, h) /\ W \in Nat \ {0}
  BY Zenon DEF BlocksAcross
<1> HIDE DEF k, h, W, wide, w, lw, l
<1>3. w * (W - 1) \in Nat /\ w * W = w * (W - 1) + w /\ wide \in Nat
  <2>1. W - 1 \in Nat /\ W = (W - 1) + 1
    BY <1>2
  <2>2. w * (W - 1) \in Nat /\ w * ((W - 1) + 1) = w * (W - 1) + w
    BY <1>1, <2>1, Multiples
  <2> DEFINE d == w * (W - 1)
  <2> HIDE DEF d
  <2> QED
    BY <2>2, <2>1, <1>1
<1>4. CASE l = 1
  <2>1. w * W <= wide
    BY <1>1, <1>2, <1>3, <1>4
  <2>2. jround_up(wide, h) \in Nat
    BY <1>1, <1>3, RoundsUpToMultiple
  <2>3. w * W \in Nat
    BY <1>1, <1>2
  <2>4. w * W <= jround_up(wide, h)
    BY <1>3, <1>1, RoundsUpToMultiple, <2>1, <2>2, <2>3
  <2> QED
    BY <1>2, <2>4, Zenon DEF k, w, W
<1>5. CASE l # 1
  <2>1. w = h
    BY <1>1, <1>5
  <2>2. wide <= h * W /\ h * W < wide + h
    <3> DEFINE d == w * (W - 1)
    <3> HIDE DEF d
    <3> QED
      BY <1>1, <2>1, <1>3
  <2> QED
    BY <1>2, <1>1, <1>3, <2>2, RoundsUpUnique, <2>1 DEF k, w, W, jround_up
<1> QED
  BY <1>4, <1>5

\* The blocks of iMCU row i as they are stored.
StoredStrip(c, s, i, strip) ==
    \A j \in 1..Len(s.cur) :
        LET k == s.cur[j].index
            v == c.comps[k].v
        IN  \A brow \in 0..v - 1 : \A x \in 0..BlocksAcross(c, k) - 1 :
                strip[k][brow][x] = StoredBlock(c, k, i * v + brow, x)

LEMMA StoredPlace ==
    ASSUME NEW c, Sized(c), NEW s, NEW i, NEW y, NEW col, InScan(c, s, i, y, col),
           NEW strip, StoredStrip(c, s, i, strip), NEW p, Placed(s, p)
    PROVE  BlockAt(s, strip, y, col, p) = BlockOfPlace(c, s, i, y, col, p)
<1> DEFINE m == s.cur[p[1]]
           k == m.index
           v == c.comps[k].v
           h == c.comps[k].h
           w == m.MCU_width
           row == RowOfPlace(c, s, i, y, p)
           x == ColOfPlace(s, col, p)
           high == height_in_blocks(c, k)
           wide == width_in_blocks(c, k)
           W == s.MCUs_per_row
           right == RightOf(s, col, p)
           stored == ((x \div h) + 1) * h - 1
           across == BlocksAcross(c, k)
<1>1. /\ y + p[2] \in 0..v - 1 /\ row = i * v + (y + p[2])
      /\ RealRow(m, i = total_iMCU_rows(c) - 1, y + p[2]) <=> row < high
      /\ p[3] < RealAcross(s, m, col) <=> x < wide
      /\ p[2] = 0 => row < high
      /\ p[3] = 0 => x < wide
      /\ row \in Nat /\ x \in Nat
  BY PlaceLies, Zenon DEF InScan
<1>2. p[1] \in 1..Len(s.cur) /\ p[2] \in 0..m.MCU_height - 1 /\ p[3] \in 0..w - 1
  BY Zenon DEF Placed
<1>3. /\ PartOK(c, s, m) /\ high \in Nat \ {0} /\ wide \in Nat \ {0} /\ W \in Nat \ {0}
      /\ col \in Nat /\ col < W
  BY <1>2, Zenon DEF InScan
<1>4. /\ h \in Nat \ {0} /\ w \in Nat \ {0} /\ k \in 1..Len(c.comps)
      /\ IF Len(s.cur) = 1 THEN w = 1 /\ m.MCU_height = 1 ELSE w = h
  BY <1>3, Zenon DEF PartOK
<1>5. w * W <= across /\ across \in Nat
  BY <1>3, AcrossScan, <1>4, RoundsUpToMultiple DEF BlocksAcross
<1>6. x = col * w + p[3] /\ right = (col + 1) * w - 1
  BY Zenon DEF ColOfPlace, RightOf
<1>7. BlockAt(s, strip, y, col, p) = strip[k][y + p[2]][x]
  BY Zenon DEF BlockAt, ColOfPlace
<1>8. BlockOfPlace(c, s, i, y, col, p) = NearestBlock(c, k, row, x, right)
  BY Zenon DEF BlockOfPlace
<1>9. StoredBlock(c, k, row, x) = NearestBlock(c, k, row, x, stored)
  BY Zenon DEF StoredBlock
<1> HIDE DEF m, k, v, h, w, row, x, high, wide, W, right, stored, across
<1>10. x \in 0..across - 1
  <2>1. w * (col + 1) <= w * W /\ w * (col + 1) = w * col + w /\ w * col \in Nat
        /\ w * col = col * w /\ w * W \in Nat
    BY <1>3, <1>4, Multiples
  <2> DEFINE a == w * col
             b == w * W
  <2>2. a \in Nat /\ b \in Nat /\ a + w <= b /\ x = a + p[3] /\ b <= across
    BY <1>5, <1>6, <2>1
  <2> HIDE DEF a, b
  <2> QED
    BY <1>1, <1>2, <1>4, <1>5, <2>2
<1>11. strip[k][y + p[2]][x] = StoredBlock(c, k, row, x)
  BY <1>1, <1>2, <1>10, Zenon DEF StoredStrip, m, k, v, across
<1>12. NearestBlock(c, k, row, x, stored) = NearestBlock(c, k, row, x, right)
  <2>1. CASE Len(s.cur) = 1
    BY <1>2, <1>4, <2>1, <1>1, <1>3 DEF NearestBlock, high, wide
  <2>2. CASE Len(s.cur) # 1
    <3>1. w = h
      BY <1>4, <2>2
    <3>2. x \div h = col
      <4>1. x = col * h + p[3] /\ p[3] \in Nat /\ p[3] < h
        BY <1>2, <1>4, <1>6, <3>1
      <4> QED
        BY <4>1, <1>3, <1>4, MCUOfNumber
    <3> QED
      BY <1>6, <3>1, <3>2, Zenon DEF stored
  <2> QED
    BY <2>1, <2>2
<1> QED
  BY <1>7, <1>8, <1>9, <1>11, <1>12, Zenon

LEMMA FromArrayRight ==
    ASSUME NEW c, Sized(c), NEW s, NEW i, NEW y, NEW col, InScan(c, s, i, y, col),
           NEW strip, StoredStrip(c, s, i, strip)
    PROVE  MCUFromArray(s, strip, y, col) = IdealMCU(c, s, PlaceNumber(c, s, i, y, col))
<1> DEFINE n == Len(Places(s))
           P(k) == Places(s)[k]
           ideal == IdealMCU(c, s, PlaceNumber(c, s, i, y, col))
           Block(p) == BlockOfPlace(c, s, i, y, col, p)
           At1(p) == BlockAt(s, strip, y, col, p)
<1>1. /\ ideal = [k \in 1..n |-> ideal[k]]
      /\ \A k \in 1..n : ideal[k] = Block(P(k))
  <2> HIDE DEF ideal, Block, n
  <2> QED
    BY IdealMCUIs DEF Block, ideal, n
<1>2. MCUFromArray(s, strip, y, col) = [k \in 1..n |-> At1(P(k))]
  BY Zenon DEF MCUFromArray
<1>3. \A k \in 1..n : At1(P(k)) = Block(P(k))
  <2> SUFFICES ASSUME NEW k \in 1..n PROVE At1(P(k)) = Block(P(k))
    OBVIOUS
  <2> DEFINE p == P(k)
  <2>1. Placed(s, p)
    BY MCUPlaces DEF Ordered
  <2> HIDE DEF p
  <2> QED
    BY <2>1, StoredPlace DEF p
<1> HIDE DEF n, P, ideal, Block, At1
<1> QED
  BY <1>2, <1>1, <1>3 DEF ideal

LEMMA DivMod ==
    ASSUME NEW r \in Nat, NEW v \in Nat \ {0}
    PROVE  r \div v \in Nat /\ r % v \in 0..v - 1 /\ r = (r \div v) * v + (r % v)
<1> DEFINE q == r \div v
           b == r % v
           e == v * q
<1>1. q \in Nat /\ e <= r /\ r < e + v
  BY Quotient
<1>2. b = r - e
  OBVIOUS
<1>3. e \in Nat /\ e = q * v
  <2> HIDE DEF q
  <2> QED
    BY <1>1
<1> HIDE DEF q, b, e
<1>4. b \in 0..v - 1 /\ r = q * v + b
  BY <1>1, <1>2, <1>3
<1> QED
  BY <1>1, <1>4, Zenon DEF q, b

\* What compress_first_pass stores in row brow of iMCU row i.
LEMMA FirstPassBlock ==
    ASSUME NEW c, Sized(c), NEW k \in 1..Len(c.comps),
           NEW i \in 0..total_iMCU_rows(c) - 1, NEW buffer, RightRows(c, k, i, buffer[k]),
           NEW brow \in 0..c.comps[k].v - 1, NEW x \in 0..BlocksAcross(c, k) - 1
    PROVE  FirstPassRow(c, buffer, k, brow, block_rows(c, k, i = total_iMCU_rows(c) - 1))[x]
             = StoredBlock(c, k, i * c.comps[k].v + brow, x)
<1> DEFINE v == c.comps[k].v
           h == c.comps[k].h
           rows == total_iMCU_rows(c)
           high == height_in_blocks(c, k)
           wide == width_in_blocks(c, k)
           left == LastBlocks(high, v)
           across == BlocksAcross(c, k)
           n == block_rows(c, k, i = rows - 1)
           right(z) == ((z \div h) + 1) * h - 1
           b == i * v + brow
           Ideal(r, z) == IdealBlock(c, k, r, z)
           Row(z) == RealBlockRow(c, buffer, k, z)
<1>1. /\ left \in 1..v /\ v * (rows - 1) + left = high
      /\ v \in Nat \ {0} /\ rows \in Nat \ {0}
  BY ComponentRows
<1>2. n = IF i = rows - 1 THEN left ELSE v
  BY Zenon DEF block_rows
<1>3. high \in Nat \ {0} /\ wide \in Nat \ {0} /\ h \in Nat \ {0}
  <2>1. high \in Nat \ {0} /\ wide \in Nat \ {0}
    BY ComponentSizes, Zenon
  <2> QED
    BY MaxSampling, <2>1
<1>4. across = jdiv_round_up(wide, h) * h
  BY Zenon DEF BlocksAcross, jround_up
<1>5. \A r, z : StoredBlock(c, k, r, z) =
        IF r > high - 1 THEN Dummy(Ideal(high - 1, Least(right(z), wide - 1)))
        ELSE IF z > wide - 1 THEN Dummy(Ideal(r, wide - 1)) ELSE Ideal(r, z)
  BY Zenon DEF StoredBlock, NearestBlock
<1>6. \A r \in 0..v - 1 : \A z : DCT(buffer, k, r, z) = Ideal(i * v + r, z)
  <2> SUFFICES ASSUME NEW r \in 0..v - 1, NEW z
               PROVE DCT(buffer, k, r, z) = IdealBlock(c, k, i * c.comps[k].v + r, z)
    BY Zenon
  <2> QED
    BY <1>1, TransformedBlock
<1>7. \A r : Row(r) = [z \in 0..across - 1 |->
                         IF z < wide THEN DCT(buffer, k, r, z)
                         ELSE Dummy(DCT(buffer, k, r, wide - 1))]
  BY Zenon DEF RealBlockRow
<1>8. FirstPassRow(c, buffer, k, brow, n) =
        IF brow < n THEN Row(brow) ELSE DummyBlockRow(c, k, Row(n - 1))
  BY Zenon DEF FirstPassRow
<1>9. \A above : DummyBlockRow(c, k, above) = [z \in DOMAIN above |-> Dummy(above[right(z)])]
  BY Zenon DEF DummyBlockRow
<1> HIDE DEF v, h, rows, high, wide, left, across, n, b, Ideal, Row
<1>10. x \in 0..across - 1 /\ brow \in 0..v - 1 /\ i \in 0..rows - 1
  BY DEF across, v, rows
<1>11. n \in 1..v
  BY <1>1, <1>2
\* A real row, of which the last is row high - 1.
<1>12. ASSUME NEW r \in 0..n - 1
       PROVE  /\ i * v + r \in Nat /\ i * v + r < high
              /\ i = rows - 1 /\ r = n - 1 => i * v + r = high - 1
              /\ \A z \in 0..across - 1 :
                    Row(r)[z] = IF z < wide THEN Ideal(i * v + r, z) ELSE Dummy(Ideal(i * v + r, wide - 1))
  <2>1. i * v + r \in Nat /\ i * v + r < high
        /\ (i = rows - 1 /\ r = n - 1 => i * v + r = high - 1)
    <3> DEFINE e == i * v
               d == v * (rows - 1)
    <3>1. e \in Nat /\ d \in Nat /\ (i = rows - 1 => e = d) /\ (i # rows - 1 => e + v <= d)
      BY <1>1, <1>10, Multiples
    <3>2. d + left = high
      BY <1>1
    <3> HIDE DEF e, d
    <3>3. e + r \in Nat /\ e + r < high /\ (i = rows - 1 /\ r = n - 1 => e + r = high - 1)
      BY <1>1, <1>2, <1>11, <3>1, <3>2
    <3> QED
      BY <3>3, Zenon DEF e
  <2>2. r \in 0..v - 1
    BY <1>1, <1>11
  <2>3. ASSUME NEW z \in 0..across - 1
        PROVE  Row(r)[z] = IF z < wide THEN Ideal(i * v + r, z) ELSE Dummy(Ideal(i * v + r, wide - 1))
    <3>1. /\ DCT(buffer, k, r, z) = Ideal(i * v + r, z)
          /\ DCT(buffer, k, r, wide - 1) = Ideal(i * v + r, wide - 1)
      BY <1>6, <2>2
    <3> HIDE DEF Ideal, Row
    <3> QED
      BY <1>7, <2>3, <3>1
  <2> QED
    BY <2>1, <2>3
<1>13. CASE brow < n
  <2>1. /\ i * v + brow \in Nat /\ i * v + brow < high
        /\ Row(brow)[x] = IF x < wide THEN Ideal(i * v + brow, x) ELSE Dummy(Ideal(i * v + brow, wide - 1))
    BY <1>10, <1>12, <1>1, <1>11, <1>13
  <2>2. b = i * v + brow
    BY DEF b, v
  <2>3. StoredBlock(c, k, b, x) = Row(brow)[x]
    BY <1>5, <2>1, <2>2, <1>3, <1>10
  <2> QED
    BY <1>8, <1>13, <2>3, Zenon DEF n, b, rows, v
<1>14. CASE ~ brow < n
  <2>1. i = rows - 1 /\ n - 1 \in 0..n - 1
    BY <1>1, <1>2, <1>10, <1>11, <1>14
  <2> DEFINE above == Row(n - 1)
             e == right(x)
             l == i * v + (n - 1)
  <2>2. /\ l = high - 1
        /\ \A z \in 0..across - 1 : above[z] = IF z < wide THEN Ideal(l, z) ELSE Dummy(Ideal(l, wide - 1))
    BY <1>12, <2>1, Zenon
  <2>3. e \in 0..across - 1
    <3> DEFINE W == jdiv_round_up(wide, h)
               q == x \div h
    <3>1. W \in Nat /\ across = W * h
      BY <1>3, <1>4, RoundsUp
    <3>2. q \in Nat /\ h * q <= x
      BY <1>3, <1>10, Quotient
    <3> HIDE DEF W, q
    <3>3. (q + 1) * h = h * q + h
      BY <1>3, <3>2
    <3>4. e = (q + 1) * h - 1
      BY Zenon DEF q
    <3> HIDE DEF e
    <3> QED
      BY <1>3, <3>1, <3>2, Multiples, <1>10, <3>3, <3>4
  <2>4. DummyBlockRow(c, k, above)[x] = Dummy(above[e])
    BY <1>9, <1>10, <1>7, Zenon
  <2>5. b > high - 1
    <3> DEFINE d == i * v
    <3>1. l = d + (n - 1) /\ b = d + brow /\ d \in Nat
      BY <1>1, <1>10 DEF b, v
    <3> HIDE DEF d, l
    <3> QED
      BY <1>1, <1>10, <1>11, <1>14, <2>2, <3>1
  <2>6. above[e] = IF e < wide THEN Ideal(high - 1, e) ELSE Dummy(Ideal(high - 1, wide - 1))
    BY <2>2, <2>3, Zenon
  <2>7. Dummy(above[e]) = Dummy(Ideal(high - 1, Least(e, wide - 1)))
    <3> HIDE DEF e, above
    <3>1. CASE e < wide
      BY <1>3, <2>3, <3>1, <2>6 DEF Least
    <3>2. CASE ~ e < wide
      BY <1>3, <2>3, <3>2, <2>6, DummyTwice DEF Least
    <3> QED
      BY <3>1, <3>2
  <2> QED
    BY <1>5, <2>5, <2>7, <1>8, <1>14, <2>4, Zenon DEF n, b, rows, v
<1> QED
  BY <1>13, <1>14

\* The arrays, and how far they are filled.
ArraysShaped(c, arrays) ==
    /\ DOMAIN arrays = 1..Len(c.comps)
    /\ \A k \in 1..Len(c.comps) : DOMAIN arrays[k] = 0..total_iMCU_rows(c) * c.comps[k].v - 1
StoredUpTo(c, arrays, n) ==
    \A k \in 1..Len(c.comps) : \A r \in 0..total_iMCU_rows(c) * c.comps[k].v - 1 :
        r \div c.comps[k].v < n =>
            \A x \in 0..BlocksAcross(c, k) - 1 : arrays[k][r][x] = StoredBlock(c, k, r, x)

LEMMA EmptyIsShaped ==
    ASSUME NEW c, Sized(c)
    PROVE  ArraysShaped(c, EmptyArrays(c)) /\ StoredUpTo(c, EmptyArrays(c), 0)
<1> DEFINE arrays == EmptyArrays(c)
           rows == total_iMCU_rows(c)
<1>1. arrays = [k \in 1..Len(c.comps) |->
                  [r \in 0..jround_up(height_in_blocks(c, k), c.comps[k].v) - 1 |->
                    [x \in 0..BlocksAcross(c, k) - 1 |-> Garbage]]]
  BY Zenon DEF EmptyArrays
<1>2. ASSUME NEW k \in 1..Len(c.comps)
      PROVE  /\ jround_up(height_in_blocks(c, k), c.comps[k].v) = rows * c.comps[k].v
             /\ \A r \in 0..rows * c.comps[k].v - 1 : ~ r \div c.comps[k].v < 0
  <2> DEFINE v == c.comps[k].v
             high == height_in_blocks(c, k)
             left == LastBlocks(high, v)
  <2>1. /\ left \in 1..v /\ v * (rows - 1) + left = high
        /\ v \in Nat \ {0} /\ rows \in Nat \ {0}
    BY ComponentRows
  <2> HIDE DEF v, high, left, rows
  <2>2. high <= v * rows /\ v * rows < high + v
    <3> DEFINE d == v * (rows - 1)
    <3>1. v * rows = d + v /\ d + left = high /\ d \in Nat
      BY <2>1, Multiples
    <3> HIDE DEF d
    <3> QED
      BY <2>1, <3>1
  <2>3. \A r \in 0..rows * v - 1 : ~ r \div v < 0
    <3> SUFFICES ASSUME NEW r \in 0..rows * v - 1 PROVE ~ r \div v < 0
      OBVIOUS
    <3> QED
      BY <2>1, Quotient
  <2> QED
    BY <2>1, ComponentSizes, <2>2, RoundsUpUnique, <2>3 DEF v, high, jround_up
<1>3. ASSUME NEW k \in 1..Len(c.comps) PROVE DOMAIN arrays[k] = 0..rows * c.comps[k].v - 1
  BY <1>1, <1>2, Zenon
<1> HIDE DEF arrays
<1> QED
  BY <1>2, <1>1, <1>3, Zenon DEF ArraysShaped, StoredUpTo, arrays

LEMMA FirstPassStores ==
    ASSUME NEW c, Sized(c), NEW i \in 0..total_iMCU_rows(c) - 1,
           NEW arrays, ArraysShaped(c, arrays), StoredUpTo(c, arrays, i),
           NEW buffer, \A k \in 1..Len(c.comps) : RightRows(c, k, i, buffer[k])
    PROVE  LET new == compress_first_pass(c, arrays, buffer, i, i = total_iMCU_rows(c) - 1)
           IN  ArraysShaped(c, new) /\ StoredUpTo(c, new, i + 1)
<1> DEFINE rows == total_iMCU_rows(c)
           last == i = rows - 1
           new == compress_first_pass(c, arrays, buffer, i, last)
<1>1. new = [k \in DOMAIN arrays |->
              [r \in DOMAIN arrays[k] |->
                IF r \div c.comps[k].v = i
                THEN FirstPassRow(c, buffer, k, r % c.comps[k].v, block_rows(c, k, last))
                ELSE arrays[k][r]]]
  BY Zenon DEF compress_first_pass
<1>2. ASSUME NEW k \in 1..Len(c.comps)
      PROVE  /\ c.comps[k].v \in Nat \ {0} /\ rows \in Nat \ {0}
             /\ DOMAIN arrays[k] = 0..rows * c.comps[k].v - 1 /\ k \in DOMAIN arrays
  BY ComponentRows DEF ArraysShaped
<1>3. ArraysShaped(c, new)
  <2>1. ASSUME NEW k \in 1..Len(c.comps) PROVE DOMAIN new[k] = 0..rows * c.comps[k].v - 1
    <3>1. DOMAIN new[k] = DOMAIN arrays[k]
      BY <1>1, <1>2, Zenon
    <3> QED
      BY <1>2, <3>1, Zenon
  <2> HIDE DEF new
  <2> QED
    BY <1>1, <2>1, Zenon DEF ArraysShaped
<1>4. ASSUME NEW k \in 1..Len(c.comps), NEW r \in 0..rows * c.comps[k].v - 1,
             r \div c.comps[k].v < i + 1, NEW x \in 0..BlocksAcross(c, k) - 1
      PROVE  new[k][r][x] = StoredBlock(c, k, r, x)
  <2> DEFINE v == c.comps[k].v
             q == r \div v
             b == r % v
  <2>1. v \in Nat \ {0} /\ r \in DOMAIN arrays[k] /\ k \in DOMAIN arrays /\ r \in Nat
    BY <1>2
  <2>2. q \in Nat /\ b \in 0..v - 1 /\ r = q * v + b
    <3> HIDE DEF v
    <3> QED
      BY <2>1, DivMod
  <2>3. new[k][r] = IF q = i THEN FirstPassRow(c, buffer, k, b, block_rows(c, k, last))
                    ELSE arrays[k][r]
    <3> HIDE DEF new
    <3> QED
      BY <2>1, <1>1, Zenon
  <2>4. q < i + 1
    BY <1>4
  <2> HIDE DEF new, q, b
  <2>5. CASE q = i
    BY <2>2, FirstPassBlock, <2>3, <2>5
  <2>6. CASE q # i
    BY <2>2, <2>6, <2>4, <2>3 DEF StoredUpTo, q
  <2> QED
    BY <2>5, <2>6
<1>5. StoredUpTo(c, new, i + 1)
  <2> HIDE DEF new
  <2> QED
    BY <1>4, Zenon DEF StoredUpTo
<1> QED
  BY <1>3, <1>5, Zenon

LEMMA ArrayStripStored ==
    ASSUME NEW c, NEW s, NEW i \in 0..total_iMCU_rows(c) - 1, total_iMCU_rows(c) \in Nat \ {0},
           \A j \in 1..Len(s.cur) : PartOK(c, s, s.cur[j]),
           NEW arrays, NEW n, i < n, StoredUpTo(c, arrays, n)
    PROVE  StoredStrip(c, s, i, ArrayStrip(c, arrays, i))
<1> DEFINE strip == ArrayStrip(c, arrays, i)
           rows == total_iMCU_rows(c)
<1> SUFFICES ASSUME NEW j \in 1..Len(s.cur), NEW brow \in 0..c.comps[s.cur[j].index].v - 1,
                    NEW x \in 0..BlocksAcross(c, s.cur[j].index) - 1
             PROVE  strip[s.cur[j].index][brow][x]
                      = StoredBlock(c, s.cur[j].index, i * c.comps[s.cur[j].index].v + brow, x)
  BY Zenon DEF StoredStrip
<1> DEFINE k == s.cur[j].index
           v == c.comps[k].v
           b == i * v + brow
<1>1. k \in 1..Len(c.comps) /\ v \in Nat \ {0}
  BY Zenon DEF PartOK
<1>2. strip = [l \in 1..Len(c.comps) |->
                 [z \in 0..c.comps[l].v - 1 |-> arrays[l][i * c.comps[l].v + z]]]
  BY Zenon DEF ArrayStrip
<1>3. strip[k][brow] = arrays[k][b]
  <2> HIDE DEF strip
  <2> QED
    BY <1>1, <1>2, Zenon
<1>4. b \in 0..rows * v - 1 /\ b \div v = i
  <2>1. brow \in 0..v - 1 /\ i \in Nat /\ i + 1 <= rows /\ i + 1 \in Nat /\ rows \in Nat
    OBVIOUS
  <2>2. b = i * v + brow
    OBVIOUS
  <2> HIDE DEF v, b, rows
  <2>3. /\ v * i = i * v /\ v * i \in Nat /\ v * rows \in Nat /\ v * rows = rows * v
        /\ v * (i + 1) <= v * rows /\ v * (i + 1) = v * i + v
    BY <1>1, <2>1, Multiples
  <2>4. b \in Nat /\ v * i <= b /\ b < v * i + v
    <3> DEFINE e == v * i
    <3>1. b = e + brow /\ e \in Nat
      BY <2>2, <2>3
    <3> HIDE DEF e
    <3>2. b \in Nat /\ e <= b /\ b < e + v
      <4>1. \A y, w \in Nat : \A z \in 0..w - 1 : y + z \in Nat /\ y <= y + z /\ y + z < y + w
        OBVIOUS
      <4>2. v \in Nat
        BY <1>1
      <4> QED
        BY <2>1, <3>1, <4>1, <4>2, Zenon
    <3> QED
      BY <3>2, Zenon DEF e
  <2>5. b \in 0..rows * v - 1
    <3> DEFINE e == v * i
               d == rows * v
    <3>1. e \in Nat /\ d \in Nat /\ e + v <= d /\ b < e + v
      BY <2>3, <2>4
    <3> HIDE DEF e, d
    <3> QED
      BY <1>1, <2>4, <3>1 DEF d
  <2> QED
    BY <1>1, <2>1, <2>4, QuotientUnique, <2>5
<1>5. arrays[k][b][x] = StoredBlock(c, k, b, x)
  <2> HIDE DEF b
  <2> QED
    BY <1>1, <1>4, Zenon DEF StoredUpTo
<1> QED
  BY <1>3, <1>5, Zenon

(* What does not change while an image is written.                         *)
SameData(c, d) == SameImage(c, d) /\ d.need_context_rows = c.need_context_rows

LEMMA SameIdeal ==
    ASSUME NEW c, NEW d, SameData(c, d)
    PROVE  /\ \A k, y : IdealRow(d, k, y) = IdealRow(c, k, y)
           /\ \A k, r, x : StoredBlock(d, k, r, x) = StoredBlock(c, k, r, x)
           /\ \A s, n : IdealMCU(d, s, n) = IdealMCU(c, s, n)
           /\ IdealArrays(d) = IdealArrays(c)
           /\ \A k : BlocksAcross(d, k) = BlocksAcross(c, k)
           /\ MaxH(d) = MaxH(c)
<1>1. /\ d.image_width = c.image_width /\ d.image_height = c.image_height
      /\ d.comps = c.comps /\ d.need_context_rows = c.need_context_rows
  BY Zenon DEF SameData, SameImage
<1>2. MaxV(d) = MaxV(c) /\ MaxH(d) = MaxH(c)
  BY <1>1, Zenon DEF MaxV, MaxH
<1>3. \A k : /\ width_in_blocks(d, k) = width_in_blocks(c, k)
             /\ height_in_blocks(d, k) = height_in_blocks(c, k)
  BY <1>1, <1>2, Zenon DEF width_in_blocks, height_in_blocks
<1>4. \A k : RowsPerRow(d, k) = RowsPerRow(c, k) /\ LastDownsampled(d, k) = LastDownsampled(c, k)
  BY <1>1, <1>2, Zenon DEF RowsPerRow, LastDownsampled
<1>5. \A k, y : IdealRow(d, k, y) = IdealRow(c, k, y)
  <2> DEFINE more(e) == IF e.need_context_rows THEN 1 ELSE 0
             row(e, k, y) == IF e.need_context_rows THEN y ELSE Least(y, LastDownsampled(e, k))
             Row(m, more1, row1, high) ==
                 [i \in 1..m + 2 * more1 |-> Clip(row1 * m + (i - 1 - more1), 0, high - 1)]
  <2>1. \A e, k, y : IdealRow(e, k, y) = Row(RowsPerRow(e, k), more(e), row(e, k, y), e.image_height)
    BY Zenon DEF IdealRow
  <2>2. \A k, y : more(d) = more(c) /\ row(d, k, y) = row(c, k, y)
    BY <1>1, <1>4, Zenon
  <2> HIDE DEF more, row, Row
  <2> QED
    BY <1>1, <1>4, <2>1, <2>2, Zenon
<1>6. \A k, r, x : IdealBlock(d, k, r, x) = IdealBlock(c, k, r, x)
  BY <1>5, Zenon DEF IdealBlock
<1>7. \A k, r, x, right : NearestBlock(d, k, r, x, right) = NearestBlock(c, k, r, x, right)
  <2> SUFFICES ASSUME NEW k, NEW r, NEW x, NEW right
               PROVE NearestBlock(d, k, r, x, right) = NearestBlock(c, k, r, x, right)
    OBVIOUS
  <2> DEFINE high == height_in_blocks(c, k)
             wide == width_in_blocks(c, k)
             Nearest(e) == IF r > high - 1 THEN Dummy(IdealBlock(e, k, high - 1, Least(right, wide - 1)))
                           ELSE IF x > wide - 1 THEN Dummy(IdealBlock(e, k, r, wide - 1))
                           ELSE IdealBlock(e, k, r, x)
  <2>1. NearestBlock(c, k, r, x, right) = Nearest(c)
    BY Zenon DEF NearestBlock
  <2>2. NearestBlock(d, k, r, x, right) = Nearest(d)
    <3>1. height_in_blocks(d, k) = high /\ width_in_blocks(d, k) = wide
      BY <1>3
    <3> HIDE DEF high, wide
    <3> QED
      BY <3>1, Zenon DEF NearestBlock
  <2>3. Nearest(c) = Nearest(d)
    <3> HIDE DEF high, wide
    <3> QED
      BY <1>6
  <2> HIDE DEF Nearest
  <2> QED
    BY <2>1, <2>2, <2>3, Zenon
<1>8. \A s, n : IdealMCU(d, s, n) = IdealMCU(c, s, n)
  <2> DEFINE k(s, p) == s.cur[p[1]].index
             r(s, n, p) == (n \div s.MCUs_per_row) * s.cur[p[1]].MCU_height + p[2]
             x(s, n, p) == (n % s.MCUs_per_row) * s.cur[p[1]].MCU_width + p[3]
             right(s, n, p) == ((n % s.MCUs_per_row) + 1) * s.cur[p[1]].MCU_width - 1
  <2>1. \A e, s, n, p : IdealMCUBlock(e, s, n, p)
                          = NearestBlock(e, k(s, p), r(s, n, p), x(s, n, p), right(s, n, p))
    <3> SUFFICES ASSUME NEW e, NEW s, NEW n, NEW p
                 PROVE  IdealMCUBlock(e, s, n, p)
                          = NearestBlock(e, k(s, p), r(s, n, p), x(s, n, p), right(s, n, p))
      BY Zenon
    <3> QED
      BY Zenon DEF IdealMCUBlock, NearestBlock
  <2> HIDE DEF k, r, x, right
  <2> QED
    BY <1>7, <2>1, Zenon DEF IdealMCU
<1>9. IdealArrays(d) = IdealArrays(c)
  <2> DEFINE Row(e, k, r, wide) == [x \in 0..wide - 1 |-> IdealBlock(e, k, r, x)]
             Rows(e, k, high, wide) == [r \in 0..high - 1 |-> Row(e, k, r, wide)]
             Arrays(e) == [k \in 1..Len(c.comps) |->
                             Rows(e, k, height_in_blocks(c, k), width_in_blocks(c, k))]
  <2>1. \A k, r, wide : Row(d, k, r, wide) = Row(c, k, r, wide)
    BY <1>6, Zenon
  <2>2. IdealArrays(c) = Arrays(c)
    BY Zenon DEF IdealArrays
  <2>3. IdealArrays(d) = [k \in 1..Len(c.comps) |->
                             Rows(d, k, height_in_blocks(d, k), width_in_blocks(d, k))]
    BY <1>1, Zenon DEF IdealArrays
  <2> HIDE DEF Row
  <2>4. \A k, high, wide : Rows(d, k, high, wide) = Rows(c, k, high, wide)
    BY <2>1, Zenon
  <2> HIDE DEF Rows
  <2>5. \A k : Rows(d, k, height_in_blocks(d, k), width_in_blocks(d, k))
                 = Rows(c, k, height_in_blocks(c, k), width_in_blocks(c, k))
    BY <1>3, <2>4, Zenon
  <2> QED
    BY <2>2, <2>3, <2>5, Zenon
<1> QED
  BY <1>2, <1>5, <1>1, <1>7, <1>8, <1>9, <1>3 DEF StoredBlock, BlocksAcross

-----------------------------------------------------------------------------
(* From source rows to the rows of the components.                          *)

\* A row of the component is made of a whole number of source rows.
LEMMA WholeRowsPerRow ==
    ASSUME NEW c, Sized(c), ~FractionalSampling(c), NEW k \in 1..Len(c.comps)
    PROVE  LET v == c.comps[k].v
               m == RowsPerRow(c, k)
           IN  v \in Nat \ {0} /\ m \in Nat \ {0} /\ v * m = MaxV(c) /\ MaxV(c) \in Nat \ {0}
<1> DEFINE v == c.comps[k].v
           big == MaxV(c)
           m == big \div v
<1>1. big \in Nat \ {0} /\ v \in 1..big
  BY MaxSampling
<1>2. big % v = 0
  BY Zenon DEF FractionalSampling
<1>3. RowsPerRow(c, k) = m
  BY Zenon DEF RowsPerRow
<1> HIDE DEF v, big
<1>4. v \in Nat \ {0}
  BY <1>1
<1>5. m \in Nat /\ big = m * v + (big % v)
  BY <1>1, <1>4, DivMod
<1> HIDE DEF m
<1>6. big = m * v /\ m * v = v * m
  BY <1>2, <1>4, <1>5
<1> QED
  BY <1>1, <1>3, <1>4, <1>5, <1>6 DEF v, big

Extra(c) == IF c.need_context_rows THEN 1 ELSE 0

\* The first n rows of a buffer are the source rows from u on.
Consecutive(buf, n, u) == \A r \in 0..n - 1 : buf[r] = u + r

\* The rows from lo to hi, counted from buffer row group on, are those of the
\* source counted from u on, with the edge rows repeated.
RowsAround(c, buf, group, lo, hi, u) ==
    \A t \in lo..hi : buf[Physical(c, group + t)] = Clip(u + t, 0, c.image_height - 1)

\* Row group g of the source is there, with the rows next to it if they are needed.
GroupThere(c, buf, group, g) ==
    RowsAround(c, buf, group, -Extra(c), MaxV(c) - 1 + Extra(c), g * MaxV(c))

LEMMA DownsampledIsIdeal ==
    ASSUME NEW c, Sized(c), ~FractionalSampling(c), c.need_context_rows \in BOOLEAN,
           NEW k \in 1..Len(c.comps),
           NEW g \in Nat, c.need_context_rows \/ g * MaxV(c) < c.image_height,
           NEW buf, NEW group \in Nat, GroupThere(c, buf, group, g), NEW y \in 0..c.comps[k].v - 1
    PROVE  DownsampledRow(c, buf, group, k, y) = IdealRow(c, k, g * c.comps[k].v + y)
<1> DEFINE v == c.comps[k].v
           m == RowsPerRow(c, k)
           big == MaxV(c)
           high == c.image_height
           more == Extra(c)
           Y == g * v + y
           row == IF c.need_context_rows THEN Y ELSE Least(Y, LastDownsampled(c, k))
           one(i) == buf[Physical(c, group + y * m + (i - 1 - more))]
           two(i) == Clip(row * m + (i - 1 - more), 0, high - 1)
<1>1. v \in Nat \ {0} /\ m \in Nat \ {0} /\ v * m = big /\ big \in Nat \ {0} /\ high \in Nat \ {0}
  BY WholeRowsPerRow, Zenon DEF Sized
<1>2. DownsampledRow(c, buf, group, k, y) = [i \in 1..m + 2 * more |-> one(i)]
  BY Zenon DEF DownsampledRow, Extra
<1>3. IdealRow(c, k, Y) = [i \in 1..m + 2 * more |-> two(i)]
  BY Zenon DEF IdealRow, Extra
<1>4. y \in Nat /\ y < v /\ more \in {0, 1}
  <2>1. more \in {0, 1}
    BY Zenon DEF Extra
  <2>2. y \in 0..v - 1
    OBVIOUS
  <2> HIDE DEF v, more
  <2> QED
    BY <1>1, <2>1, <2>2
<1>5. LastDownsampled(c, k) = jdiv_round_up(high, big) * v - 1
  BY Zenon DEF LastDownsampled
<1>6. c.need_context_rows \/ g * big < high
  OBVIOUS
<1>7. \A t \in -more..big - 1 + more : buf[Physical(c, group + t)] = Clip(g * big + t, 0, high - 1)
  BY Zenon DEF GroupThere, RowsAround
<1> HIDE DEF v, m, big, high, more, Y, row
<1>8. Y \in Nat /\ Y * m = g * big + y * m /\ y * m \in Nat /\ y * m + m <= big /\ g * big \in Nat
  <2> DEFINE d == g * v
  <2>1. d \in Nat /\ d * m = g * big /\ Y = d + y
    BY <1>1 DEF Y
  <2> HIDE DEF d
  <2>2. y * m + m <= big
    BY <1>1, <1>4, Multiples
  <2> QED
    BY <1>4, <2>1, <1>1, <2>2
\* Above the bottom nothing is repeated.
<1>9. row = Y
  <2>1. CASE c.need_context_rows
    BY <2>1 DEF row
  <2>2. CASE ~ c.need_context_rows
    <3> DEFINE q == jdiv_round_up(high, big)
    <3>1. q \in Nat /\ high <= big * q
      BY <1>1, RoundsUp
    <3> HIDE DEF q
    <3>2. big * g < big * q /\ big * q \in Nat /\ big * g \in Nat
      BY <1>1, <3>1, <1>6, <2>2
    <3> DEFINE L == LastDownsampled(c, k)
    <3>3. L = q * v - 1
      BY <1>5 DEF q
    <3>4. Y = g * v + y
      BY DEF Y
    <3> HIDE DEF L
    <3>5. Y <= L /\ L \in Int
      BY <1>1, <1>4, <3>1, Multiples, <3>2, <3>3, <3>4
    <3> QED
      BY <2>2, <1>8, <3>5 DEF row, L, Least
  <2> QED
    BY <2>1, <2>2
<1>10. ASSUME NEW i \in 1..m + 2 * more PROVE one(i) = two(i)
  <2> DEFINE t == y * m + (i - 1 - more)
  <2>1. t \in -more..big - 1 + more /\ group + y * m + (i - 1 - more) = group + t
        /\ Y * m + (i - 1 - more) = g * big + t
    <3> DEFINE d == y * m
               e == g * big
    <3>1. d \in Nat /\ d + m <= big /\ e \in Nat /\ Y * m = e + d
      BY <1>8
    <3>2. t = d + (i - 1 - more)
      OBVIOUS
    <3>3. i \in Nat /\ i >= 1 /\ i <= m + 2 * more /\ more \in Nat
      BY <1>1, <1>4
    <3> HIDE DEF d, e, t
    <3> QED
      BY <1>1, <3>1, <3>2, <3>3 DEF d, e
  <2> HIDE DEF t
  <2> QED
    BY <1>9, <2>1, <1>7, Zenon
<1> HIDE DEF one, two
<1>11. [i \in 1..m + 2 * more |-> one(i)] = [i \in 1..m + 2 * more |-> two(i)]
  BY <1>10, Zenon
<1> QED
  BY <1>2, <1>3, <1>11, Zenon DEF Y, v

\* The main buffer: the first n row groups of iMCU row cur are there.
BufferRight(c, buffer, cur, n) ==
    /\ DOMAIN buffer = 1..Len(c.comps)
    /\ \A k \in 1..Len(c.comps) :
        /\ DOMAIN buffer[k] = 0..c.comps[k].v * DCTSIZE - 1
        /\ \A r \in 0..c.comps[k].v * DCTSIZE - 1 : r \div c.comps[k].v < n =>
                buffer[k][r] = IdealRow(c, k, cur * c.comps[k].v * DCTSIZE + r)

LEMMA RowOfGroup ==
    ASSUME NEW v \in Nat \ {0}, NEW cur \in Nat, NEW r \in Nat
    PROVE  LET g == cur * DCTSIZE + (r \div v)
           IN  /\ g \in Nat /\ r \div v \in Nat /\ r % v \in 0..v - 1
               /\ cur * v * DCTSIZE + r = g * v + (r % v)
<1> DEFINE q == r \div v
           b == r % v
<1>1. q \in Nat /\ b \in 0..v - 1 /\ r = q * v + b
  BY DivMod
<1> HIDE DEF q, b
<1> DEFINE d == cur * DCTSIZE
<1>2. d \in Nat /\ cur * v * DCTSIZE = d * v
  BY SetupAssumption
<1> HIDE DEF d
<1> DEFINE e == d * v
           f == q * v
<1> HIDE DEF e, f
<1> QED
  BY <1>1, <1>2 DEF e, q, b, d

LEMMA GroupAdded ==
    ASSUME NEW c, Sized(c), ~FractionalSampling(c), c.need_context_rows \in BOOLEAN,
           NEW cur \in Nat, NEW n \in Nat, NEW g, g = cur * DCTSIZE + n,
           c.need_context_rows \/ g * MaxV(c) < c.image_height,
           NEW p, NEW group \in Nat, GroupThere(c, p.color_buf, group, g),
           NEW buffer, BufferRight(c, buffer, cur, n)
    PROVE  BufferRight(c, Downsampled(c, p, group, buffer, n), cur, n + 1)
<1> DEFINE new == Downsampled(c, p, group, buffer, n)
<1>1. new = [k \in DOMAIN buffer |->
              [r \in DOMAIN buffer[k] |->
                IF r \div c.comps[k].v = n
                THEN DownsampledRow(c, p.color_buf, group, k, r % c.comps[k].v)
                ELSE buffer[k][r]]]
  BY Zenon DEF Downsampled
<1>2. ASSUME NEW k \in 1..Len(c.comps)
      PROVE  /\ DOMAIN new[k] = 0..c.comps[k].v * DCTSIZE - 1
             /\ \A r \in 0..c.comps[k].v * DCTSIZE - 1 : r \div c.comps[k].v < n + 1 =>
                   new[k][r] = IdealRow(c, k, cur * c.comps[k].v * DCTSIZE + r)
  <2> DEFINE v == c.comps[k].v
  <2>1. v \in Nat \ {0}
    BY WholeRowsPerRow, Zenon
  <2>2. new[k] = [r \in 0..v * DCTSIZE - 1 |->
                    IF r \div v = n THEN DownsampledRow(c, p.color_buf, group, k, r % v)
                    ELSE buffer[k][r]]
    BY <1>1, Zenon DEF BufferRight
  <2> HIDE DEF new
  <2>3. ASSUME NEW r \in 0..v * DCTSIZE - 1, r \div v < n + 1
        PROVE  new[k][r] = IdealRow(c, k, cur * v * DCTSIZE + r)
    <3> DEFINE q == r \div v
               b == r % v
    <3>1. r \in Nat
      OBVIOUS
    <3>2. /\ cur * DCTSIZE + q \in Nat /\ q \in Nat /\ b \in 0..v - 1
          /\ cur * v * DCTSIZE + r = (cur * DCTSIZE + q) * v + b
      <4> HIDE DEF v
      <4> QED
        BY <2>1, <3>1, RowOfGroup
    <3>3. new[k][r] = IF q = n THEN DownsampledRow(c, p.color_buf, group, k, b) ELSE buffer[k][r]
      BY <2>2, Zenon
    <3> HIDE DEF q, b
    <3>4. CASE q = n
      <4>1. DownsampledRow(c, p.color_buf, group, k, b) = IdealRow(c, k, g * c.comps[k].v + b)
        <5>1. \A y \in 0..c.comps[k].v - 1 :
                DownsampledRow(c, p.color_buf, group, k, y) = IdealRow(c, k, g * c.comps[k].v + y)
          <6> TAKE y \in 0..c.comps[k].v - 1
          <6> DEFINE buf == p.color_buf
          <6> HIDE DEF buf
          <6>1. GroupThere(c, buf, group, g)
            BY DEF buf
          <6>2. c.need_context_rows \/ g * MaxV(c) < c.image_height
            OBVIOUS
          <6> QED
            BY SetupAssumption, <6>1, <6>2, DownsampledIsIdeal
        <5> QED
          BY <3>2, <5>1
      <4> QED
        BY <3>2, <3>3, <3>4, <4>1, Zenon
    <3>5. CASE q # n
      BY <3>2, <2>3, <3>5, <3>3 DEF BufferRight, q
    <3> QED
      BY <3>4, <3>5
  <2> QED
    BY <2>3, <2>2, Zenon
<1> QED
  <2> HIDE DEF new
  <2> QED
    BY <1>1, <1>2, Zenon DEF BufferRight, new

-----------------------------------------------------------------------------
(* The invariant of the data, together with the one of the counters.       *)

\* What the pass in progress makes its MCUs from.
KindInv ==
    /\ master.transcode = (global_state = "WRCOEFS")
    /\ pc = "main" \/ (pc = "app" /\ FromApplication) => master.pass_type = "main"
    /\ pc \in {"mcu", "rowdone"} => ((call.by = "crank") = (master.pass_type # "main"))
    /\ master.pass_type = "main" => ~master.transcode
    /\ master.pass_type # "main" /\ ~master.transcode /\ ~Opt => master.scan_number > 0
    /\ FromApplication => cinfo.raw_data_in = (global_state = "RAW_OK")
    /\ global_state = "SCANNING" => ~FractionalSampling(cinfo)

\* The iMCU rows of the arrays that the first pass has filled.
Filled ==
    IF master.pass_type = "main" /\ pc \in {"app", "main", "mcu", "rowdone"}
    THEN IF pc = "mcu" THEN coef.iMCU_row_num + 1 ELSE coef.iMCU_row_num
    ELSE T

ArraysInv ==
    /\ master.transcode => whole_image = IdealArrays(cinfo)
    /\ ~master.transcode /\ MultiPass(master) =>
        ArraysShaped(cinfo, whole_image) /\ StoredUpTo(cinfo, whole_image, Filled)

\* The rows of the conversion buffer: those of a row group that is not full,
\* or with context rows those of the row group above and of two more.
ColorBufInv ==
    /\ DOMAIN prep.color_buf = 0..BufRows(cinfo) - 1
    /\ ~cinfo.need_context_rows /\ prep.rows_to_go > 0 =>
        Consecutive(prep.color_buf, prep.next_buf_row, Groups * mv)
    /\ cinfo.need_context_rows =>
        /\ << prep.this_row_group, prep.next_buf_stop >> \in {<< 0, 2 * mv >>, << mv, 3 * mv >>, << 2 * mv, mv >>}
        /\ prep.rows_to_go = H => prep.this_row_group = 0 /\ prep.next_buf_row = 0
        /\ prep.rows_to_go = 0 => Groups * mv + 2 * mv - Gap >= H
        /\ prep.rows_to_go < H =>
            RowsAround(cinfo, prep.color_buf, prep.this_row_group, -mv, 2 * mv - Gap - 1, Groups * mv)

RowsInv ==
    TakingLines =>
        /\ BufferRight(cinfo, main.buffer, main.cur_iMCU_row, main.rowgroup_ctr)
        /\ ColorBufInv

LastInv == ~Active => done.mcus = 0
DataInv ==
    /\ LastInv /\ MCUIsIdeal
    /\ Active /\ pc # "error" => KindInv /\ ArraysInv /\ RowsInv

-----------------------------------------------------------------------------
(* The bottom of the image without context rows.                            *)

\* A row below the last one that is downsampled is a copy of it.
LEMMA BelowTheImage ==
    ASSUME NEW c, ~c.need_context_rows, NEW k, NEW y \in Int, NEW last \in Int,
           LastDownsampled(c, k) = last, last <= y
    PROVE  IdealRow(c, k, y) = IdealRow(c, k, last)
BY DEF Least, IdealRow

LEMMA LastRow ==
    ASSUME NEW c, Sized(c), NEW k, NEW g \in Nat \ {0},
           (g - 1) * MaxV(c) < c.image_height, c.image_height <= g * MaxV(c)
    PROVE  LastDownsampled(c, k) = g * c.comps[k].v - 1
<1> DEFINE big == MaxV(c)
           high == c.image_height
<1>1. big \in Nat \ {0} /\ high \in Nat
  BY MaxSampling DEF Sized
<1>2. (g - 1) * big < high /\ high <= g * big
  OBVIOUS
<1> HIDE DEF big, high
<1> DEFINE w == g * big
<1>3. w \in Nat /\ (g - 1) * big = w - big /\ big * g = w
  BY <1>1
<1>4. high <= w /\ w < high + big
  <2> HIDE DEF w
  <2> QED
    BY <1>1, <1>3, <1>2
<1> QED
  BY <1>3, <1>4, <1>1, RoundsUpUnique DEF LastDownsampled, big, high

LEMMA OutputPadded ==
    ASSUME NEW c, Sized(c), ~FractionalSampling(c), ~c.need_context_rows,
           NEW cur \in Nat, NEW n \in 1..DCTSIZE, NEW g, g = cur * DCTSIZE + n,
           (g - 1) * MaxV(c) < c.image_height, c.image_height <= g * MaxV(c),
           NEW buffer, BufferRight(c, buffer, cur, n)
    PROVE  BufferRight(c, PadOutput(c, buffer, n), cur, DCTSIZE)
<1> DEFINE new == PadOutput(c, buffer, n)
<1>1. new = [k \in DOMAIN buffer |->
              [r \in DOMAIN buffer[k] |->
                IF r >= n * c.comps[k].v THEN buffer[k][n * c.comps[k].v - 1] ELSE buffer[k][r]]]
  BY Zenon DEF PadOutput
<1>2. g \in Nat \ {0} /\ DCTSIZE \in Nat \ {0} /\ n \in Nat \ {0} /\ n <= DCTSIZE
  <2>1. DCTSIZE \in Nat \ {0}
    BY SetupAssumption
  <2> DEFINE d == cur * DCTSIZE
  <2> HIDE DEF d
  <2> QED
    BY <2>1
<1>3. ASSUME NEW k \in 1..Len(c.comps)
      PROVE  /\ DOMAIN new[k] = 0..c.comps[k].v * DCTSIZE - 1
             /\ \A r \in 0..c.comps[k].v * DCTSIZE - 1 : r \div c.comps[k].v < DCTSIZE =>
                   new[k][r] = IdealRow(c, k, cur * c.comps[k].v * DCTSIZE + r)
  <2> DEFINE v == c.comps[k].v
             o == cur * v * DCTSIZE
             z == n * v
  <2>1. v \in Nat \ {0}
    BY WholeRowsPerRow, Zenon
  <2>2. DOMAIN buffer[k] = 0..v * DCTSIZE - 1 /\ k \in DOMAIN buffer
        /\ \A r \in 0..v * DCTSIZE - 1 : r \div v < n => buffer[k][r] = IdealRow(c, k, o + r)
    BY Zenon DEF BufferRight
  <2>3. new[k] = [r \in 0..v * DCTSIZE - 1 |->
                    IF r >= z THEN buffer[k][z - 1] ELSE buffer[k][r]]
    BY <1>1, <2>2, Zenon
  <2>4. LastDownsampled(c, k) = g * v - 1
    BY <1>2, LastRow
  <2> HIDE DEF new, v
  <2>5. z \in Nat \ {0} /\ z <= v * DCTSIZE /\ o \in Nat /\ g * v = o + z /\ v * DCTSIZE \in Nat
        /\ z = v * n
    <3>1. v * n <= v * DCTSIZE /\ v * n \in Nat /\ v * n = n * v /\ v * DCTSIZE \in Nat
      BY <1>2, <2>1, Multiples
    <3> DEFINE d == cur * DCTSIZE
    <3>2. d \in Nat /\ o = d * v /\ g = d + n
      BY <1>2, <2>1
    <3> HIDE DEF d, o
    <3>3. z # 0
      BY <3>1, <1>2, <2>1, Multiples
    <3> QED
      BY <3>1, <3>2, <1>2, <2>1, <3>3
  <2> HIDE DEF z, o
  \* Which rows come before row n * v.
  <2>6. ASSUME NEW r \in Nat, r < z PROVE r \div v < n
    <3> DEFINE q == r \div v
    <3>1. q \in Nat /\ v * q <= r
      BY <2>1, Quotient
    <3> HIDE DEF q
    <3>2. ~ n <= q
      <4>1. n <= q => z <= r
        <5> SUFFICES ASSUME n <= q PROVE z <= r
          OBVIOUS
        <5> DEFINE e == v * q
        <5> HIDE DEF e
        <5> QED
          BY <2>5, <3>1, <1>2, <2>1, Multiples
      <4> QED
        BY <2>5, <2>6, <4>1
    <3> QED
      BY <1>2, <3>1, <3>2 DEF q
  <2>7. buffer[k][z - 1] = IdealRow(c, k, o + z - 1)
    <3>1. z - 1 \in 0..v * DCTSIZE - 1 /\ z - 1 \in Nat /\ z - 1 < z /\ o + (z - 1) = o + z - 1
      <4> DEFINE w == v * DCTSIZE
      <4>1. w \in Nat /\ z <= w
        BY <2>5
      <4> HIDE DEF w
      <4> QED
        BY <2>5, <4>1 DEF w
    <3> QED
      BY <2>2, <3>1, <2>6
  <2>8. ASSUME NEW r \in 0..v * DCTSIZE - 1 PROVE new[k][r] = IdealRow(c, k, o + r)
    <3>1. r \in Nat
      OBVIOUS
    <3>2. CASE r >= z
      <4>1. o + z - 1 \in Int /\ o + r \in Int /\ o + z - 1 <= o + r
        BY <2>5, <3>1, <3>2
      <4>2. LastDownsampled(c, k) = o + z - 1
        <5> DEFINE e == g * v
        <5> HIDE DEF e
        <5> QED
          BY <2>5, <2>4
      <4> QED
        BY <2>3, <2>7, <3>2, <4>1, <4>2, BelowTheImage
    <3>3. CASE ~ r >= z
      BY <2>5, <3>1, <3>3, <2>6, <2>3, <2>2
    <3> QED
      BY <3>2, <3>3
  <2> QED
    BY <2>8, <2>3, Zenon DEF o, v
<1> QED
  <2> HIDE DEF new
  <2> QED
    BY <1>1, <1>3, Zenon DEF BufferRight, new

\* A full iMCU row.
LEMMA FullRowRight ==
    ASSUME NEW c, Sized(c), NEW cur, NEW buffer, BufferRight(c, buffer, cur, DCTSIZE)
    PROVE  \A k \in 1..Len(c.comps) : RightRows(c, k, cur, buffer[k])
<1> SUFFICES ASSUME NEW k \in 1..Len(c.comps), NEW r \in 0..c.comps[k].v * DCTSIZE - 1
             PROVE  buffer[k][r] = IdealRow(c, k, cur * c.comps[k].v * DCTSIZE + r)
  BY Zenon DEF RightRows
<1> DEFINE v == c.comps[k].v
<1>1. v \in Nat \ {0} /\ DCTSIZE \in Nat \ {0}
  BY MaxSampling, SetupAssumption
<1>2. r \in 0..v * DCTSIZE - 1
  OBVIOUS
<1> HIDE DEF v
<1>3. r \div v < DCTSIZE
  <2> DEFINE q == r \div v
  <2>1. r \in Nat /\ r < v * DCTSIZE
    <3> DEFINE w == v * DCTSIZE
    <3>1. w \in Nat /\ r \in 0..w - 1
      BY <1>1, <1>2
    <3> HIDE DEF w
    <3> QED
      BY <3>1 DEF w
  <2>2. q \in Nat /\ v * q <= r
    BY <1>1, <2>1, Quotient
  <2> HIDE DEF q
  <2>3. ~ DCTSIZE <= q
    <3> SUFFICES ASSUME DCTSIZE <= q PROVE FALSE
      OBVIOUS
    <3> DEFINE e == v * q
               w == v * DCTSIZE
    <3> HIDE DEF e, w
    <3> QED
      BY <2>1, <2>2, <1>1, Multiples
  <2> QED
    BY <1>1, <2>2, <2>3 DEF q
<1> QED
  BY <1>2, <1>3, Zenon DEF BufferRight, v

\* Before any row group is there.
LEMMA EmptyBufferRight ==
    ASSUME NEW c, Sized(c), NEW cur, NEW buffer, DOMAIN buffer = 1..Len(c.comps),
           \A k \in 1..Len(c.comps) : DOMAIN buffer[k] = 0..c.comps[k].v * DCTSIZE - 1
    PROVE  BufferRight(c, buffer, cur, 0)
<1> SUFFICES ASSUME NEW k \in 1..Len(c.comps), NEW r \in 0..c.comps[k].v * DCTSIZE - 1,
                    r \div c.comps[k].v < 0
             PROVE  FALSE
  BY Zenon DEF BufferRight
<1> DEFINE v == c.comps[k].v
<1>1. v \in Nat \ {0} /\ r \in Nat
  BY MaxSampling
<1>2. r \div v < 0
  OBVIOUS
<1> HIDE DEF v
<1>3. r \div v \in Nat
  BY <1>1, Quotient
<1> QED
  BY <1>2, <1>3

-----------------------------------------------------------------------------
(* The rows of the conversion buffer.                                       *)

LEMMA Remainder ==
    ASSUME NEW x \in Nat, NEW b \in Nat \ {0}, NEW q \in Nat, NEW r \in Nat, r < b,
           x = q * b + r
    PROVE  x % b = r
<1> DEFINE e == q * b
<1>1. e \in Nat /\ b * q = e /\ x = e + r
  OBVIOUS
<1> HIDE DEF e
<1> DEFINE d == x \div b
           m == x % b
<1>2. d \in Nat /\ m \in Nat /\ x = d * b + m
  BY DivMod
<1>3. d = q
  BY <1>1, QuotientUnique
<1> HIDE DEF d, m
<1> QED
  BY <1>1, <1>2, <1>3 DEF m, e

\* Which row a row pointer stands for.
LEMMA PhysicalIs ==
    ASSUME NEW c, BufRows(c) \in Nat \ {0}, NEW a \in Int
    PROVE  /\ 0 <= a /\ a < BufRows(c) => Physical(c, a) = a
           /\ a < 0 /\ -BufRows(c) <= a => Physical(c, a) = a + BufRows(c)
           /\ BufRows(c) <= a /\ a < 2 * BufRows(c) => Physical(c, a) = a - BufRows(c)
<1> DEFINE b == BufRows(c)
<1>1. b \in Nat \ {0} /\ Physical(c, a) = (a + b) % b
  BY Zenon DEF Physical
<1> HIDE DEF b
<1>2. ASSUME 0 <= a, a < b PROVE (a + b) % b = a
  <2> DEFINE x == a + b
  <2> HIDE DEF x
  <2>1. x % b = a
    BY <1>1, <1>2, Remainder DEF x
  <2> QED
    BY <2>1 DEF x
<1>3. ASSUME a < 0, -b <= a PROVE (a + b) % b = a + b
  <2> DEFINE x == a + b
  <2>1. x \in Nat /\ x < b /\ x = 0 * b + x /\ 0 \in Nat
    BY <1>1, <1>3
  <2> HIDE DEF x
  <2> QED
    BY <1>1, <2>1, Remainder DEF x
<1>4. ASSUME b <= a, a < 2 * b PROVE (a + b) % b = a - b
  <2> DEFINE x == a + b
             z == a - b
  <2>1. x \in Nat /\ z \in Nat /\ z < b /\ x = 2 * b + z /\ 2 \in Nat
    BY <1>1, <1>4
  <2> HIDE DEF x, z
  <2> QED
    BY <1>1, <2>1, Remainder DEF x, z
<1> QED
  BY <1>1, <1>2, <1>3, <1>4, Zenon DEF b

\* What the steps of the preprocessor do to the buffers.
LEMMA StoredRows ==
    ASSUME DOMAIN prep = PrepFields, NEW n
    PROVE  /\ Stored(n).color_buf = Converted(prep, next_scanline + call.in_row_ctr, n)
           /\ Stored(n).this_row_group = prep.this_row_group
BY SMT DEF PrepFields, Stored

LEMMA PaddedRows ==
    ASSUME NEW p, DOMAIN p = PrepFields
    PROVE  /\ Padded(p).this_row_group = p.this_row_group
           /\ Padded(p).color_buf =
                IF p.rows_to_go = 0 /\ p.next_buf_row < mv
                THEN expand_bottom_edge(cinfo, p.color_buf, p.next_buf_row, mv) ELSE p.color_buf
BY SMT DEF PrepFields, Padded, mv

LEMMA EmptiedRows ==
    ASSUME NEW p, DOMAIN p = PrepFields
    PROVE  Emptied(p).color_buf = p.color_buf
BY SMT DEF PrepFields, Emptied

LEMMA EmptiedIntoRows ==
    ASSUME NEW p, DOMAIN main = MainFields
    PROVE  EmptiedInto(p).buffer =
              IF p.next_buf_row = mv
              THEN Downsampled(cinfo, p, 0, main.buffer, main.rowgroup_ctr) ELSE main.buffer
BY SMT DEF MainFields, EmptiedInto, mv

LEMMA PaddedOutputRows ==
    ASSUME NEW p, NEW m, DOMAIN m = MainFields
    PROVE  PaddedOutput(p, m).buffer =
              IF p.rows_to_go = 0 /\ m.rowgroup_ctr < DCTSIZE
              THEN PadOutput(cinfo, m.buffer, m.rowgroup_ctr) ELSE m.buffer
BY SMT DEF MainFields, PaddedOutput

LEMMA DownsampleRows ==
    ASSUME NEW p, DOMAIN p = PrepFields, DOMAIN main = MainFields, DownsampleGroup(p)
    PROVE  /\ prep'.color_buf = p.color_buf
           /\ p.next_buf_row = p.next_buf_stop =>
                /\ main'.buffer = Downsampled(cinfo, p, p.this_row_group, main.buffer, main.rowgroup_ctr)
                /\ prep'.this_row_group = Wrapped(p.this_row_group + mv)
           /\ p.next_buf_row # p.next_buf_stop => main'.buffer = main.buffer
                /\ prep'.this_row_group = p.this_row_group
<1>1. CASE p.next_buf_row = p.next_buf_stop
  <2>1. /\ main' = [main EXCEPT !.buffer = Downsampled(cinfo, p, p.this_row_group, @, main.rowgroup_ctr),
                                !.rowgroup_ctr = @ + 1]
        /\ prep' = Advanced(p)
    BY <1>1, Zenon DEF DownsampleGroup
  <2> DEFINE d == Downsampled(cinfo, p, p.this_row_group, main.buffer, main.rowgroup_ctr)
  <2>2. main' = [main EXCEPT !.buffer = d, !.rowgroup_ctr = @ + 1]
    BY <2>1
  <2> HIDE DEF d
  <2> QED
    BY <1>1, <2>2, <2>1, SMT DEF d, PrepFields, Advanced, mv, MainFields
<1>2. CASE p.next_buf_row # p.next_buf_stop
  BY <1>2, Zenon DEF DownsampleGroup
<1> QED
  BY <1>1, <1>2

LEMMA TopPaddedRows ==
    ASSUME NEW p, DOMAIN p = PrepFields
    PROVE  /\ TopPadded(p).color_buf = IF prep.rows_to_go = H THEN PadTop(cinfo, p.color_buf)
                                       ELSE p.color_buf
           /\ TopPadded(p).this_row_group = p.this_row_group
           /\ TopPadded(p).next_buf_row = p.next_buf_row
           /\ TopPadded(p).next_buf_stop = p.next_buf_stop
BY SMT DEF PrepFields, TopPadded, H

LEMMA BottomPaddedRows ==
    ASSUME NEW p, DOMAIN p = PrepFields, p.next_buf_row < p.next_buf_stop
    PROVE  /\ BottomPadded(p).color_buf =
                expand_bottom_edge(cinfo, p.color_buf, p.next_buf_row, p.next_buf_stop)
           /\ BottomPadded(p).this_row_group = p.this_row_group
BY SMT DEF PrepFields, BottomPadded

\* The rows of the bottom are those of the last one there.
LEMMA BottomSize ==
    ASSUME NEW c, NEW buf, NEW from, NEW stop
    PROVE  DOMAIN expand_bottom_edge(c, buf, from, stop) = DOMAIN buf
BY DEF expand_bottom_edge

-----------------------------------------------------------------------------
(* The preprocessor without context rows.                                   *)

\* The next row of the caller is the next one of the image.
LEMMA NextRow ==
    ASSUME IndInv, pc = "main", main.cur_iMCU_row < T, main.rowgroup_ctr < DCTSIZE
    PROVE  Taken = next_scanline + call.in_row_ctr /\ Taken \in Nat
BY InMainLoop, InLines, InPreprocessor DEF RowsCounted, TypesInv

LEMMA DataStep ==
    ASSUME IndInv, pre_process_data
    PROVE  LET n == Least(mv - prep.next_buf_row, RowsLeft)
               q == Padded(Stored(n))
               m == EmptiedInto(q)
               f == prep.next_buf_row
               g == prep.rows_to_go
               r == main.rowgroup_ctr
               z == q.next_buf_row
           IN  /\ pc = "main" /\ main.cur_iMCU_row < T /\ ~cinfo.need_context_rows
               /\ r < DCTSIZE /\ RowsLeft > 0
               /\ call' = [call EXCEPT !.in_row_ctr = @ + n]
               /\ prep' = Emptied(q) /\ main' = PaddedOutput(q, m)
               /\ UNCHANGED << cinfo, global_state, next_scanline, master, scan, entropy, writer,
                               reader, done, images, versions, refusals, coef, pc, whole_image >>
               /\ n \in Nat /\ n > 0 /\ n <= mv - f /\ n <= RowsLeft /\ f < mv
               /\ DOMAIN Stored(n) = PrepFields /\ Stored(n).rows_to_go = g - n
               /\ Stored(n).next_buf_row = f + n
               /\ DOMAIN q = PrepFields /\ q.rows_to_go = g - n
               /\ DOMAIN m = MainFields /\ DOMAIN main' = MainFields /\ DOMAIN prep' = PrepFields
               /\ prep'.rows_to_go = g - n /\ main'.suspended = main.suspended
               /\ main'.cur_iMCU_row = main.cur_iMCU_row
               /\ z = IF g - n = 0 /\ f + n < mv THEN mv ELSE f + n
               /\ m.rowgroup_ctr = IF z = mv THEN r + 1 ELSE r
               /\ prep'.next_buf_row = IF z = mv THEN 0 ELSE z
               /\ main'.rowgroup_ctr = IF g - n = 0 /\ m.rowgroup_ctr < DCTSIZE THEN DCTSIZE
                                       ELSE m.rowgroup_ctr
<1> DEFINE n == Least(mv - prep.next_buf_row, RowsLeft)
           p == Stored(n)
           q == Padded(p)
           m == EmptiedInto(q)
           f == prep.next_buf_row
           g == prep.rows_to_go
           r == main.rowgroup_ctr
           cur == main.cur_iMCU_row
<1>1. /\ pc = "main" /\ cur < T /\ ~cinfo.need_context_rows
      /\ r < DCTSIZE /\ RowsLeft > 0
      /\ call' = [call EXCEPT !.in_row_ctr = @ + n]
      /\ prep' = Emptied(q) /\ main' = PaddedOutput(q, m)
      /\ UNCHANGED << cinfo, global_state, next_scanline, master, scan, entropy, writer, reader,
                      done, images, versions, refusals, coef, pc, whole_image >>
  BY Zenon DEF pre_process_data, InMain, TakeRows, Unchanged_in_main, counts, T, mv
<1>2. /\ mv \in Nat \ {0} /\ PrepOK /\ DOMAIN prep = PrepFields /\ DOMAIN main = MainFields
      /\ f \in Nat /\ RowsLeft \in Nat
  BY <1>1, InPreprocessor
<1>3. f < mv
  BY <1>1, <1>2, Zenon DEF PrepOK
<1>4. /\ DOMAIN p = PrepFields /\ p.rows_to_go = g - n /\ p.next_buf_row = f + n
  BY <1>2, StoredIs
<1>5. n \in Nat /\ n > 0 /\ n <= mv - f /\ n <= RowsLeft
  <2> QED
    BY <1>1, <1>2, <1>3, LeastIs
<1> HIDE DEF n, p
<1>6. /\ DOMAIN q = PrepFields /\ q.rows_to_go = p.rows_to_go
      /\ q.next_buf_row = IF p.rows_to_go = 0 /\ p.next_buf_row < mv THEN mv ELSE p.next_buf_row
  BY <1>4, PaddedIs
<1> HIDE DEF q
<1>7. /\ DOMAIN m = MainFields /\ m.suspended = main.suspended /\ m.cur_iMCU_row = cur
      /\ m.rowgroup_ctr = IF q.next_buf_row = mv THEN r + 1 ELSE r
  BY <1>2, EmptiedIntoIs
<1> HIDE DEF m
<1>8. /\ DOMAIN prep' = PrepFields /\ prep'.rows_to_go = q.rows_to_go
      /\ prep'.next_buf_row = IF q.next_buf_row = mv THEN 0 ELSE q.next_buf_row
  BY <1>1, <1>6, EmptiedIs
<1>9. /\ DOMAIN main' = MainFields /\ main'.suspended = m.suspended
      /\ main'.cur_iMCU_row = m.cur_iMCU_row
      /\ main'.rowgroup_ctr = IF q.rows_to_go = 0 /\ m.rowgroup_ctr < DCTSIZE THEN DCTSIZE
                              ELSE m.rowgroup_ctr
  BY <1>1, <1>7, PaddedOutputIs
<1> HIDE DEF f, g, r, cur
<1> QED
  BY <1>1, <1>3, <1>4, <1>5, <1>6, <1>7, <1>8, <1>9, Zenon DEF n, p, q, m, f, g, r, cur

\* A full row group, out of rows that came in and copies of the last of them.
LEMMA GroupIsThere ==
    ASSUME NEW c, Sized(c), ~c.need_context_rows, NEW u \in Nat,
           NEW buf, DOMAIN buf = 0..MaxV(c) - 1, NEW top \in 1..MaxV(c),
           Consecutive(buf, top, u),
           u + top <= c.image_height, NEW new,
           \/ top = MaxV(c) /\ new = buf
           \/ u + top = c.image_height /\ new = expand_bottom_edge(c, buf, top, MaxV(c))
    PROVE  RowsAround(c, new, 0, -Extra(c), MaxV(c) - 1 + Extra(c), u)
<1> DEFINE big == MaxV(c)
           high == c.image_height
<1>1. big \in Nat \ {0} /\ high \in Nat \ {0} /\ BufRows(c) = big
  BY MaxSampling DEF BufRows, Sized
<1> SUFFICES ASSUME NEW t \in 0..big - 1 PROVE new[Physical(c, 0 + t)] = Clip(u + t, 0, high - 1)
  <2>1. \A t \in -Extra(c)..big - 1 + Extra(c) : t \in 0..big - 1
    <3> HIDE DEF big
    <3> QED
      BY <1>1 DEF Extra
  <2> QED
    BY <2>1, Zenon DEF RowsAround
<1>2. Physical(c, 0 + t) = t /\ t \in Nat /\ t < big
  <2>1. t \in Nat /\ t < big /\ 0 + t = t /\ 0 <= t /\ t \in Int
    <3> HIDE DEF big
    <3> QED
      BY <1>1
  <2> QED
    BY <2>1, <1>1, PhysicalIs
<1>3. top \in Nat \ {0} /\ top <= big
  <2>1. top \in 1..big
    OBVIOUS
  <2> HIDE DEF big
  <2> QED
    BY <1>1, <2>1
<1>4. u + top <= high
  OBVIOUS
<1>5. CASE t < top
  <2>1. Clip(u + t, 0, high - 1) = u + t
    <3>1. 0 <= u + t /\ u + t <= high - 1 /\ u + t \in Nat /\ high - 1 \in Int
      <4> HIDE DEF high, big
      <4> QED
        BY <1>1, <1>2, <1>3, <1>4, <1>5
    <3> DEFINE x == u + t
               y == high - 1
    <3> HIDE DEF x, y
    <3> QED
      BY <3>1 DEF x, y, Clip
  <2>2. new[t] = buf[t]
    <3>1. CASE new = buf
      BY <3>1
    <3>2. CASE new = expand_bottom_edge(c, buf, top, big)
      <4>1. t \in DOMAIN buf
        OBVIOUS
      <4> HIDE DEF big
      <4>2. expand_bottom_edge(c, buf, top, big)[t] = buf[t]
        BY <4>1, <1>1, <1>2, <1>3, <1>5 DEF expand_bottom_edge
      <4> QED
        BY <3>2, <4>2, Zenon DEF big
    <3> QED
      BY <3>1, <3>2
  <2> QED
    BY <1>2, <1>3, <1>5, <2>1, <2>2 DEF Consecutive
<1>6. CASE ~ t < top
  <2>1. u + top = high /\ new = expand_bottom_edge(c, buf, top, big)
    <3>1. top # big
      <4> HIDE DEF big
      <4> QED
        BY <1>1, <1>2, <1>3, <1>6
    <3> QED
      BY <3>1
  <2>2. Physical(c, top - 1) = top - 1 /\ top - 1 \in 0..top - 1
    <3>1. top - 1 \in Int /\ 0 <= top - 1 /\ top - 1 < big /\ top - 1 \in 0..top - 1
      <4> HIDE DEF big
      <4> QED
        BY <1>1, <1>3
    <3> DEFINE a == top - 1
    <3> HIDE DEF a
    <3> QED
      BY <3>1, <1>1, PhysicalIs DEF a
  <2>3. new[t] = buf[Physical(c, top - 1)]
    <3>1. t \in DOMAIN buf /\ top <= t /\ t < big /\ t \in Int /\ top \in Int /\ big \in Int
      <4>1. t \in DOMAIN buf
        OBVIOUS
      <4> HIDE DEF big
      <4> QED
        BY <1>1, <1>2, <1>3, <1>6, <4>1
    <3> HIDE DEF big
    <3> QED
      BY <2>1, <3>1 DEF expand_bottom_edge
  <2>4. u + (top - 1) = high - 1 /\ Clip(u + t, 0, high - 1) = high - 1
    <3>1. u + (top - 1) = high - 1 /\ u + t > high - 1 /\ ~ u + t < 0
      <4> HIDE DEF high, big
      <4> QED
        BY <1>1, <1>2, <1>3, <1>6, <2>1
    <3> QED
      BY <3>1, Zenon DEF Clip
  <2> QED
    BY <1>2, <2>2, <2>3, <2>4, Zenon DEF Consecutive
<1> QED
  BY <1>5, <1>6

\* What a step of the preprocessor finds, and what it is to leave.
LEMMA RowsFound ==
    ASSUME IndInv, KindInv, RowsInv, pc = "main", main.cur_iMCU_row < T,
           main.rowgroup_ctr < DCTSIZE
    PROVE  /\ Sized(cinfo) /\ ~FractionalSampling(cinfo) /\ cinfo.need_context_rows \in BOOLEAN
           /\ TakingLines /\ ColorBufInv
           /\ BufferRight(cinfo, main.buffer, main.cur_iMCU_row, main.rowgroup_ctr)
           /\ Groups = main.cur_iMCU_row * DCTSIZE + main.rowgroup_ctr
           /\ Groups * mv \in Nat
<1>1. TakingLines /\ Active /\ TypesInv /\ global_state = "SCANNING"
  BY InMainLoop
<1>2. Sized(cinfo) /\ cinfo \in ParameterSet
  BY <1>1, SettingsStay, AcceptedIsSized, Zenon DEF Accepted
<1>3. Groups * mv \in Nat
  BY InPreprocessor
<1> QED
  BY <1>1, <1>2, <1>3, ParameterTypes DEF RowsInv, KindInv, Groups

LEMMA PreProcessDataRows ==
    ASSUME IndInv, KindInv, RowsInv, pre_process_data PROVE RowsInv'
<1> DEFINE n == Least(mv - prep.next_buf_row, RowsLeft)
           p == Stored(n)
           q == Padded(p)
           m == EmptiedInto(q)
           f == prep.next_buf_row
           g == prep.rows_to_go
           r == main.rowgroup_ctr
           z == q.next_buf_row
           cur == main.cur_iMCU_row
           u == Groups * mv
           was == prep.color_buf
           in == p.color_buf
           full == q.color_buf
<1>1. /\ pc = "main" /\ cur < T /\ ~cinfo.need_context_rows /\ r < DCTSIZE
      /\ prep' = Emptied(q) /\ main' = PaddedOutput(q, m)
      /\ UNCHANGED << cinfo, global_state, pc >>
      /\ n \in Nat /\ n > 0 /\ n <= mv - f /\ n <= RowsLeft /\ f < mv
      /\ DOMAIN p = PrepFields /\ p.rows_to_go = g - n /\ p.next_buf_row = f + n
      /\ DOMAIN q = PrepFields /\ q.rows_to_go = g - n
      /\ DOMAIN m = MainFields
      /\ prep'.rows_to_go = g - n /\ main'.cur_iMCU_row = cur
      /\ z = IF g - n = 0 /\ f + n < mv THEN mv ELSE f + n
      /\ m.rowgroup_ctr = IF z = mv THEN r + 1 ELSE r
      /\ prep'.next_buf_row = IF z = mv THEN 0 ELSE z
      /\ main'.rowgroup_ctr = IF g - n = 0 /\ m.rowgroup_ctr < DCTSIZE THEN DCTSIZE
                              ELSE m.rowgroup_ctr
  BY DataStep
<1>2. /\ H \in Nat \ {0} /\ mv \in Nat \ {0} /\ DCTSIZE \in Nat \ {0}
      /\ DOMAIN prep = PrepFields /\ DOMAIN main = MainFields
      /\ f \in Nat /\ cur \in Nat /\ r \in Nat
      /\ g \in 0..H /\ Taken = H - g /\ RowsLeft <= g /\ RowsLeft \in Nat /\ Groups \in Nat
      /\ GroupsInv
  BY <1>1, InPreprocessor
<1>3. /\ Sized(cinfo) /\ ~FractionalSampling(cinfo) /\ cinfo.need_context_rows \in BOOLEAN
      /\ ColorBufInv /\ BufferRight(cinfo, main.buffer, cur, r)
      /\ Groups = cur * DCTSIZE + r /\ u \in Nat
  BY <1>1, RowsFound
<1>4. BufRows(cinfo) = mv /\ H = cinfo.image_height /\ mv = MaxV(cinfo)
  BY <1>1, Zenon DEF BufRows, H, mv
<1>5. in = Converted(prep, Taken, n)
  BY <1>2, <1>1, NextRow, StoredRows
<1>6. full = IF p.rows_to_go = 0 /\ p.next_buf_row < mv
             THEN expand_bottom_edge(cinfo, in, p.next_buf_row, mv) ELSE in
  <2> HIDE DEF p
  <2> QED
    BY <1>1, PaddedRows
<1>7. m.buffer = IF z = mv THEN Downsampled(cinfo, q, 0, main.buffer, r) ELSE main.buffer
  <2> HIDE DEF q
  <2> QED
    BY <1>2, EmptiedIntoRows
<1>8. /\ prep'.color_buf = full
      /\ main'.buffer = IF g - n = 0 /\ m.rowgroup_ctr < DCTSIZE
                        THEN PadOutput(cinfo, m.buffer, m.rowgroup_ctr) ELSE m.buffer
  <2> HIDE DEF q, m
  <2> QED
    BY <1>1, PaddedOutputRows, EmptiedRows
\* The rows that came in.
<1> HIDE DEF n, p, q, m, was, in, full
<1>9. g > 0 /\ Taken = u + f /\ H = u + f + g /\ f + n <= mv /\ n <= g /\ f + n \in Nat /\ f + n > 0
  <2>1. g > 0 /\ n <= g /\ f + n <= mv /\ f + n \in Nat /\ f + n > 0
    <3> HIDE DEF f, g
    <3> QED
      BY <1>1, <1>2
  <2>2. Taken = u + f
    BY <1>1, <1>2, <2>1, Zenon DEF GroupsInv
  <2> HIDE DEF f, g, u
  <2> QED
    BY <2>1, <2>2, <1>2, <1>3
<1>10. DOMAIN was = 0..mv - 1 /\ Consecutive(was, f, u)
  BY <1>1, <1>3, <1>4, <1>9, Zenon DEF ColorBufInv, was
<1>11. DOMAIN in = 0..mv - 1 /\ Consecutive(in, f + n, u)
  <2>1. in = [x \in DOMAIN was |-> IF x \in f..f + n - 1 THEN Taken + (x - f) ELSE was[x]]
    BY <1>5, Zenon DEF Converted, was
  <2> HIDE DEF f, g, u
  <2>2. ASSUME NEW x \in 0..(f + n) - 1 PROVE in[x] = u + x
    <3>1. x \in 0..mv - 1 /\ (x \in f..f + n - 1 => Taken + (x - f) = u + x)
          /\ (x \notin f..f + n - 1 => x \in 0..f - 1)
      BY <1>1, <1>2, <1>3, <1>9
    <3>2. CASE x \in f..f + n - 1
      BY <1>10, <2>1, <3>1, <3>2, Zenon
    <3>3. CASE x \notin f..f + n - 1
      <4>1. in[x] = was[x]
        BY <1>10, <2>1, <3>1, <3>3, Zenon
      <4> QED
        BY <1>10, <3>1, <3>3, <4>1, Zenon DEF Consecutive
    <3> QED
      BY <3>2, <3>3
  <2> QED
    BY <2>2, <1>10, <2>1, Zenon DEF Consecutive
<1>12. full = IF g - n = 0 /\ f + n < mv THEN expand_bottom_edge(cinfo, in, f + n, mv) ELSE in
  BY <1>1, <1>6, Zenon
<1> HIDE DEF f, g, u, z, r, cur
\* The row group when it is full.
<1>13. ASSUME z = mv PROVE GroupThere(cinfo, full, 0, Groups)
  <2>1. (f + n = mv /\ full = in)
        \/ (u + (f + n) = H /\ full = expand_bottom_edge(cinfo, in, f + n, mv))
    <3>1. CASE g - n = 0 /\ f + n < mv
      <4>1. u + (f + n) = H
        BY <1>1, <1>2, <1>3, <1>9, <3>1
      <4> QED
        BY <1>12, <3>1, <4>1, Zenon
    <3>2. CASE ~ (g - n = 0 /\ f + n < mv)
      BY <1>1, <1>12, <1>13, <3>2, Zenon
    <3> QED
      BY <3>1, <3>2
  <2> DEFINE top == f + n
  <2>2. /\ top \in 1..MaxV(cinfo) /\ u + top <= cinfo.image_height /\ u \in Nat
        /\ DOMAIN in = 0..MaxV(cinfo) - 1 /\ Consecutive(in, top, u)
        /\ \/ top = MaxV(cinfo) /\ full = in
           \/ u + top = cinfo.image_height /\ full = expand_bottom_edge(cinfo, in, top, MaxV(cinfo))
    BY <1>3, <1>4, <1>11, <2>1, <1>1, <1>2, <1>9
  <2> HIDE DEF top
  <2> QED
    BY <1>4, <1>1, <1>3, <2>2, GroupIsThere DEF GroupThere, u
\* What has been downsampled.
<1>14. ASSUME z = mv PROVE BufferRight(cinfo, m.buffer, cur, r + 1)
  <2> DEFINE b == main.buffer
             c == cinfo
             G == Groups
  <2>1. /\ BufferRight(c, b, cur, r) /\ GroupThere(c, q.color_buf, 0, G) /\ G = cur * DCTSIZE + r
        /\ c.need_context_rows \/ G * MaxV(c) < c.image_height
        /\ Sized(c) /\ ~FractionalSampling(c) /\ c.need_context_rows \in BOOLEAN
        /\ cur \in Nat /\ r \in Nat /\ 0 \in Nat
    BY <1>2, <1>3, <1>13, <1>14, <1>9, <1>4 DEF full, u
  <2> HIDE DEF b, c, G
  <2> QED
    BY <1>7, <1>14, <2>1, GroupAdded DEF b, c
<1>15. BufferRight(cinfo, main'.buffer, cur, main'.rowgroup_ctr)
  <2>1. CASE z # mv
    <3>1. m.buffer = main.buffer /\ m.rowgroup_ctr = r
      BY <1>1, <1>7, <2>1, Zenon
    <3>2. g - n # 0
      <4>1. ~ (g - n = 0 /\ f + n < mv) /\ f + n # mv
        BY <1>1, <2>1, Zenon
      <4> QED
        BY <1>1, <1>2, <1>9, <4>1
    <3>3. main'.buffer = main.buffer /\ main'.rowgroup_ctr = r
      BY <1>1, <1>8, <3>1, <3>2, Zenon
    <3> QED
      BY <1>3, <3>3, Zenon
  <2>2. CASE z = mv /\ ~ (g - n = 0 /\ r + 1 < DCTSIZE)
    BY <1>1, <2>2, <1>8, <1>14, Zenon
  <2>3. CASE z = mv /\ g - n = 0 /\ r + 1 < DCTSIZE
    <3> DEFINE c == cinfo
               G == Groups + 1
               e == r + 1
               b == m.buffer
    <3>1. G = cur * DCTSIZE + e
      <4> DEFINE d == cur * DCTSIZE
      <4>1. d \in Nat /\ Groups = d + r
        BY <1>2, <1>3
      <4> HIDE DEF d
      <4> QED
        BY <1>2, <4>1 DEF d
    <3>2. (G - 1) * MaxV(c) < c.image_height /\ c.image_height <= G * MaxV(c)
      <4>1. G - 1 = Groups /\ G * mv = u + mv
        BY <1>2 DEF u
      <4> HIDE DEF G
      <4> QED
        BY <1>4, <1>1, <1>2, <1>3, <1>9, <2>3, <4>1 DEF u
    <3>3. BufferRight(c, b, cur, e) /\ e \in 1..DCTSIZE /\ cur \in Nat
          /\ Sized(c) /\ ~FractionalSampling(c) /\ ~c.need_context_rows
      BY <1>2, <2>3, <1>1, <1>3, <1>14
    <3> HIDE DEF c, G, e, b
    <3> QED
      BY <1>1, <1>8, <2>3, <3>1, <3>2, <3>3, OutputPadded DEF c, b, e
  <2> QED
    BY <2>1, <2>2, <2>3
<1>16. DOMAIN full = 0..mv - 1
  BY <1>12, <1>11, BottomSize
<1>17. ColorBufInv'
  <2>1. ASSUME prep'.rows_to_go > 0
        PROVE  Consecutive(prep'.color_buf, prep'.next_buf_row, Groups' * mv)
    <3>1. g - n # 0
      BY <1>1, <1>2, <2>1
    <3>2. full = in /\ z = f + n
      BY <1>1, <1>12, <3>1, Zenon
    <3>3. CASE z = mv
      <4>1. prep'.next_buf_row = 0
        BY <1>1, <3>3, Zenon
      <4>2. 0..prep'.next_buf_row - 1 = {}
        BY <4>1
      <4> QED
        BY <4>2, Zenon DEF Consecutive
    <3>4. CASE z # mv
      <4>1. prep'.next_buf_row = f + n /\ main'.rowgroup_ctr = r
        BY <1>1, <3>1, <3>2, <3>4, Zenon
      <4>2. Groups' = Groups
        BY <1>1, <4>1, Zenon DEF Groups, cur, r
      <4> QED
        BY <1>8, <1>11, <3>2, <4>1, <4>2, Zenon DEF u
    <3> QED
      BY <3>3, <3>4
  <2> QED
    BY <1>1, <1>8, <1>16, <1>4, SameSizes, <2>1, Zenon DEF ColorBufInv
<1> QED
  BY <1>1, <1>15, <1>17, Zenon DEF RowsInv

-----------------------------------------------------------------------------
(* The preprocessor with context rows.                                      *)

\* The row groups of the buffer that the pointers can stand at.
Pointers(b) == {<< 0, 2 * b >>, << b, 3 * b >>, << 2 * b, b >>}

LEMMA PointersAre ==
    ASSUME NEW b \in Nat, NEW A, NEW s, << A, s >> \in Pointers(b)
    PROVE  /\ \/ A = 0 /\ s = 2 * b
              \/ A = b /\ s = 3 * b
              \/ A = 2 * b /\ s = b
           /\ A \in Nat /\ s \in Nat
BY DEF Pointers

\* Where the rows that come next are put.
LEMMA PlaceOfRow ==
    ASSUME NEW c, NEW b \in Nat \ {0}, BufRows(c) = 3 * b,
           NEW A, NEW s, << A, s >> \in Pointers(b), NEW t \in -b..2 * b - 1,
           NEW f \in Nat, f <= s
    PROVE  LET w == Physical(c, A + t)
           IN  /\ w \in 0..3 * b - 1
               /\ f <= w /\ w < s <=> 2 * b - (s - f) <= t
               /\ f <= w /\ w < s => w - f = t - (2 * b - (s - f))
               /\ A = 0 => w = IF t < 0 THEN t + 3 * b ELSE t
<1> DEFINE a == A + t
           w == Physical(c, a)
<1>1. /\ \/ A = 0 /\ s = 2 * b
         \/ A = b /\ s = 3 * b
         \/ A = 2 * b /\ s = b
      /\ A \in Nat /\ s \in Nat
  BY PointersAre
<1>2. a \in Int /\ a = A + t
  BY <1>1
<1> HIDE DEF a
<1>3. /\ 0 <= a /\ a < 3 * b => w = a
      /\ a < 0 /\ -(3 * b) <= a => w = a + 3 * b
      /\ 3 * b <= a /\ a < 2 * (3 * b) => w = a - 3 * b
  BY <1>2, PhysicalIs
<1> HIDE DEF w
<1>4. -b <= t /\ t < 2 * b /\ t \in Int
  OBVIOUS
<1>5. CASE A = 0 /\ s = 2 * b
  BY <1>2, <1>3, <1>4, <1>5 DEF a, w
<1>6. CASE A = b /\ s = 3 * b
  BY <1>2, <1>3, <1>4, <1>6 DEF a, w
<1>7. CASE A = 2 * b /\ s = b
  BY <1>2, <1>3, <1>4, <1>7 DEF a, w
<1> QED
  BY <1>1, <1>5, <1>6, <1>7

\* The row above the next one.
LEMMA RowAbove ==
    ASSUME NEW c, NEW b \in Nat \ {0}, BufRows(c) = 3 * b,
           NEW A, NEW s, << A, s >> \in Pointers(b), NEW f \in Nat, f < s, s - f <= 2 * b
    PROVE  Physical(c, f - 1) = Physical(c, A + (2 * b - (s - f) - 1))
           /\ 2 * b - (s - f) - 1 \in -b..2 * b - 1
<1> DEFINE x == f - 1
           y == A + (2 * b - (s - f) - 1)
           v == Physical(c, x)
           w == Physical(c, y)
<1>1. /\ \/ A = 0 /\ s = 2 * b
         \/ A = b /\ s = 3 * b
         \/ A = 2 * b /\ s = b
      /\ A \in Nat /\ s \in Nat
  BY PointersAre
<1>2. x \in Int /\ y \in Int /\ x = f - 1 /\ y = A + (2 * b - (s - f) - 1)
  BY <1>1
<1> HIDE DEF x, y
<1>3. /\ 0 <= y /\ y < 3 * b => w = y
      /\ y < 0 /\ -(3 * b) <= y => w = y + 3 * b
      /\ 3 * b <= y /\ y < 2 * (3 * b) => w = y - 3 * b
      /\ 0 <= x /\ x < 3 * b => v = x
      /\ x < 0 /\ -(3 * b) <= x => v = x + 3 * b
  BY <1>2, PhysicalIs
<1> HIDE DEF v, w
<1> QED
  BY <1>2, <1>3, <1>1 DEF v, w, x, y

LEMMA NextPlaces ==
    ASSUME NEW f \in Nat, NEW s \in Nat, NEW e \in Nat, NEW n \in Nat, n <= s - f,
           NEW t \in Int, t < e + n, NEW w \in Int, f <= w /\ w < s <=> e <= t,
           f <= w /\ w < s => w - f = t - e
    PROVE  IF e <= t THEN w \in f..f + n - 1 /\ w - f = t - e
           ELSE w \notin f..f + n - 1 /\ t <= e - 1
OBVIOUS

\* The next row comes to row f of the buffer, and is number e of the row groups
\* that start with row group A.
NextComes(c, b, A, s, f, e) ==
    /\ BufRows(c) = 3 * b /\ << A, s >> \in Pointers(b)
    /\ f <= s /\ e = 2 * b - (s - f)

\* Which rows of the buffer are the n next ones.
NextPlaced(c, b, A, f, e, n, t) ==
    LET w == Physical(c, A + t)
    IN  /\ w \in 0..3 * b - 1
        /\ IF e <= t THEN w \in f..f + n - 1 /\ w - f = t - e
           ELSE w \notin f..f + n - 1 /\ t \in -b..e - 1

LEMMA NextRowsAt ==
    ASSUME NEW c, NEW b \in Nat \ {0}, NEW A, NEW s \in Nat, NEW f \in Nat, NEW e \in Nat,
           NextComes(c, b, A, s, f, e), NEW n \in Nat, n <= s - f, NEW t \in -b..e + n - 1
    PROVE  NextPlaced(c, b, A, f, e, n, t)
<1> DEFINE w == Physical(c, A + t)
<1>1. BufRows(c) = 3 * b /\ << A, s >> \in Pointers(b) /\ f <= s /\ e = 2 * b - (s - f)
  BY Zenon DEF NextComes
<1>2. t \in -b..2 * b - 1 /\ t \in Int /\ t < e + n /\ -b <= t
  BY <1>1
<1>3. /\ w \in 0..3 * b - 1
      /\ f <= w /\ w < s <=> e <= t
      /\ f <= w /\ w < s => w - f = t - e
  BY <1>1, <1>2, PlaceOfRow
<1> HIDE DEF w
<1> QED
  BY <1>3, <1>2, NextPlaces DEF w, NextPlaced

\* The rows that come in follow those that are there.
LEMMA RowsComeIn ==
    ASSUME NEW c, NEW b \in Nat \ {0}, NEW p, NEW f \in Nat, NEW A, NEW s \in Nat, NEW e \in Nat,
           NEW n \in Nat, NEW u \in Nat, NEW high \in Nat
    PROVE  /\ NextComes(c, b, A, s, f, e) /\ n <= s - f
           /\ DOMAIN p.color_buf = 0..3 * b - 1 /\ p.next_buf_row = f
           /\ c.image_height = high /\ u + e + n <= high
           /\ RowsAround(c, p.color_buf, A, -b, e - 1, u)
           => RowsAround(c, Converted(p, u + e, n), A, -b, e + n - 1, u)
<1> DEFINE old == p.color_buf
           new == Converted(p, u + e, n)
           place(t) == Physical(c, A + t)
<1>1. ASSUME NextComes(c, b, A, s, f, e), n <= s - f,
             DOMAIN old = 0..3 * b - 1, p.next_buf_row = f,
             c.image_height = high, u + e + n <= high,
             RowsAround(c, old, A, -b, e - 1, u)
      PROVE  RowsAround(c, new, A, -b, e + n - 1, u)
  <2>1. new = [r \in 0..3 * b - 1 |-> IF r \in f..f + n - 1 THEN (u + e) + (r - f) ELSE old[r]]
    BY <1>1, Zenon DEF Converted
  <2>2. \A t \in -b..e - 1 : old[place(t)] = Clip(u + t, 0, high - 1)
    BY <1>1, Zenon DEF RowsAround
  <2> HIDE DEF old, new, place
  <2>3. ASSUME NEW t \in -b..e + n - 1
        PROVE  new[place(t)] = Clip(u + t, 0, high - 1)
    <3>1. /\ place(t) \in 0..3 * b - 1
          /\ IF e <= t THEN place(t) \in f..f + n - 1 /\ place(t) - f = t - e
             ELSE place(t) \notin f..f + n - 1 /\ t \in -b..e - 1
      <4>1. NextPlaced(c, b, A, f, e, n, t)
        BY <1>1, NextRowsAt, Zenon
      <4> QED
        BY <4>1, Zenon DEF NextPlaced, place
    <3>2. CASE e <= t
      <4>1. (u + e) + (t - e) = u + t /\ ~ u + t < 0 /\ ~ u + t > high - 1
        BY <1>1, <3>2
      <4> QED
        BY <2>1, <3>1, <3>2, <4>1, Zenon DEF Clip
    <3>3. CASE ~ e <= t
      BY <2>1, <3>1, <3>3, <2>2, Zenon
    <3> QED
      BY <3>2, <3>3
  <2> QED
    BY <1>1, <2>3, Zenon DEF RowsAround, new, place
<1> QED
  BY <1>1

\* The first rows of the image, with the first of them also in the rows above.
LEMMA FirstRowsComeIn ==
    ASSUME NEW c, NEW b \in Nat \ {0}, BufRows(c) = 3 * b, MaxV(c) = b,
           c.image_height \in Nat \ {0},
           NEW p, DOMAIN p.color_buf = 0..3 * b - 1, p.next_buf_row = 0,
           NEW n \in Nat \ {0}, n <= 2 * b, n <= c.image_height
    PROVE  RowsAround(c, PadTop(c, Converted(p, 0, n)), 0, -b, n - 1, 0)
<1> DEFINE high == c.image_height
           old == p.color_buf
           mid == Converted(p, 0, n)
           new == PadTop(c, mid)
<1>1. high \in Nat \ {0} /\ n <= high
  OBVIOUS
<1>2. mid = [r \in 0..3 * b - 1 |-> IF r \in 0..0 + n - 1 THEN 0 + (r - 0) ELSE old[r]]
  BY Zenon DEF Converted
<1>3. new = [r \in 0..3 * b - 1 |-> IF r >= 2 * b THEN mid[0] ELSE mid[r]]
  <2> HIDE DEF mid
  <2> QED
    BY <1>2 DEF PadTop
<1> HIDE DEF high, old, mid, new
<1>4. ASSUME NEW t \in -b..n - 1
      PROVE  new[Physical(c, 0 + t)] = Clip(0 + t, 0, high - 1)
  <2> DEFINE w == Physical(c, 0 + t)
  <2>1. t \in -b..2 * b - 1 /\ << 0, 2 * b >> \in Pointers(b) /\ 0 \in Nat /\ 0 <= 2 * b /\ 0 = 0
    BY DEF Pointers
  <2>2. w \in 0..3 * b - 1 /\ w = IF t < 0 THEN t + 3 * b ELSE t
    <3> DEFINE A == 0
               s == 2 * b
    <3>1. << A, s >> \in Pointers(b) /\ A \in Nat /\ A <= s /\ A = 0
      BY <2>1
    <3> HIDE DEF A, s
    <3> DEFINE v == Physical(c, A + t)
    <3>2. v \in 0..3 * b - 1 /\ (A = 0 => v = IF t < 0 THEN t + 3 * b ELSE t)
      BY <2>1, <3>1, PlaceOfRow, SMTT(60)
    <3>3. v = w
      BY <3>1
    <3> HIDE DEF v, w
    <3> QED
      BY <3>1, <3>2, <3>3, Zenon
  <2> HIDE DEF w
  <2>3. CASE t < 0
    BY <2>2, <2>3, <1>3, <1>2 DEF Clip, w
  <2>4. CASE ~ t < 0
    BY <1>1, <2>2, <2>4, <1>2, <1>3 DEF Clip, w
  <2> QED
    BY <2>3, <2>4
<1> QED
  BY <1>4, Zenon DEF RowsAround, new, mid, high

\* The bottom of the image, where the last row is repeated.
LEMMA BottomRowsRepeated ==
    ASSUME NEW c, NEW b \in Nat \ {0}, BufRows(c) = 3 * b, c.image_height \in Nat \ {0},
           NEW buf, DOMAIN buf = 0..3 * b - 1,
           NEW A, NEW s \in Nat, << A, s >> \in Pointers(b), NEW f \in Nat, f < s, s - f <= 2 * b,
           NEW u \in Nat, NEW e \in Nat, e = 2 * b - (s - f), u + e >= c.image_height,
           RowsAround(c, buf, A, -b, e - 1, u)
    PROVE  RowsAround(c, expand_bottom_edge(c, buf, f, s), A, -b, 2 * b - 1, u)
<1> DEFINE high == c.image_height
           new == expand_bottom_edge(c, buf, f, s)
           from == Physical(c, f - 1)
<1>1. /\ \/ A = 0 /\ s = 2 * b
         \/ A = b /\ s = 3 * b
         \/ A = 2 * b /\ s = b
      /\ A \in Nat /\ s \in Nat
  BY PointersAre
<1>2. u + e >= high /\ high \in Nat \ {0}
  OBVIOUS
<1>3. new = [r \in 0..3 * b - 1 |-> IF r \in f..s - 1 THEN buf[from] ELSE buf[r]]
  BY Zenon DEF expand_bottom_edge
<1>4. from = Physical(c, A + (2 * b - (s - f) - 1)) /\ 2 * b - (s - f) - 1 \in -b..2 * b - 1
  BY RowAbove
<1> HIDE DEF high, new, from
<1>5. e \in Nat /\ e - 1 = 2 * b - (s - f) - 1 /\ e - 1 \in -b..e - 1
  BY <1>1, <1>4
<1>6. buf[from] = high - 1
  <2>1. buf[Physical(c, A + (e - 1))] = Clip(u + (e - 1), 0, high - 1)
    BY <1>5, Zenon DEF RowsAround, high
  <2>2. CASE u + e = high
    BY <1>2, <1>5, <2>2, <1>4, <2>1 DEF Clip
  <2>3. CASE u + e # high
    BY <1>2, <1>5, <2>3, <1>4, <2>1 DEF Clip
  <2> QED
    BY <2>2, <2>3
<1>7. ASSUME NEW t \in -b..2 * b - 1
      PROVE  new[Physical(c, A + t)] = Clip(u + t, 0, high - 1)
  <2> DEFINE w == Physical(c, A + t)
  <2>1. f <= s
    BY <1>1
  <2>2. /\ w \in 0..3 * b - 1
        /\ f <= w /\ w < s <=> 2 * b - (s - f) <= t
    BY <2>1, PlaceOfRow
  <2> HIDE DEF w
  <2>3. CASE e <= t
    BY <1>1, <1>2, <1>5, <2>2, <2>3, <1>3, <1>6 DEF Clip, w
  <2>4. CASE ~ e <= t
    BY <1>1, <1>2, <1>5, <2>2, <2>4, <1>3 DEF RowsAround, w, high
  <2> QED
    BY <2>3, <2>4
<1> QED
  BY <1>7, Zenon DEF RowsAround, new, high

\* The next row group, seen from where it will stand.
LEMMA RowsAdvance ==
    ASSUME NEW c, NEW b \in Nat \ {0}, BufRows(c) = 3 * b, NEW buf,
           NEW A, NEW s, << A, s >> \in Pointers(b), NEW u \in Nat,
           RowsAround(c, buf, A, -b, 2 * b - 1, u),
           NEW A2, A2 = IF A + b >= 3 * b THEN 0 ELSE A + b,
           NEW s2, s2 = (IF s >= 3 * b THEN 0 ELSE s) + b
    PROVE  << A2, s2 >> \in Pointers(b) /\ RowsAround(c, buf, A2, -b, b - 1, u + b)
<1>1. \/ A2 = 0 /\ s2 = 2 * b /\ A = 2 * b
      \/ A2 = b /\ s2 = 3 * b /\ A = 0
      \/ A2 = 2 * b /\ s2 = b /\ A = b
  BY PointersAre
<1>2. ASSUME NEW t \in -b..b - 1
      PROVE  buf[Physical(c, A2 + t)] = Clip((u + b) + t, 0, c.image_height - 1)
  <2> DEFINE k == t + b
             x == A2 + t
             y == A + k
  <2>1. k \in -b..2 * b - 1 /\ u + k = (u + b) + t
    OBVIOUS
  <2>2. x \in Int /\ y \in Int /\ ((x = y /\ 0 <= y /\ y < 3 * b) \/ (y = x + 3 * b /\ A = 2 * b /\ A2 = 0))
    BY <1>1
  <2> HIDE DEF x, y
  <2>3. Physical(c, x) = Physical(c, y)
    <3>1. CASE x = y
      BY <3>1
    <3>2. CASE y = x + 3 * b /\ A = 2 * b /\ A2 = 0
      <4> DEFINE v == Physical(c, x)
                 w == Physical(c, y)
      <4> HIDE DEF v, w
      <4>1. /\ 0 <= x /\ x < 3 * b => v = x
            /\ x < 0 /\ -(3 * b) <= x => v = x + 3 * b
            /\ 0 <= y /\ y < 3 * b => w = y
            /\ 3 * b <= y /\ y < 2 * (3 * b) => w = y - 3 * b
        BY <2>2, PhysicalIs DEF v, w
      <4> QED
        BY <2>2, <3>2, <4>1 DEF v, w, x
    <3> QED
      BY <2>2, <3>1, <3>2
  <2> HIDE DEF k
  <2> QED
    BY <2>1, <2>3, Zenon DEF x, y, RowsAround
<1> QED
  BY <1>2, <1>1, Zenon DEF RowsAround, Pointers

\* What a step with context rows leaves, when it has the rows it needs.
LEMMA ContextGroup ==
    ASSUME IndInv, KindInv, RowsInv, pc = "main", main.cur_iMCU_row < T,
           main.rowgroup_ctr < DCTSIZE, cinfo.need_context_rows,
           NEW p, DOMAIN p = PrepFields, DownsampleGroup(p), p.rows_to_go < H,
           p.this_row_group = prep.this_row_group, p.next_buf_stop = prep.next_buf_stop,
           NEW z \in Nat, p.next_buf_row = z, z <= prep.next_buf_stop,
           DOMAIN p.color_buf = 0..3 * mv - 1,
           NEW e \in Int, e = 2 * mv - (prep.next_buf_stop - z),
           p.rows_to_go = 0 => Groups * mv + e >= H,
           RowsAround(cinfo, p.color_buf, prep.this_row_group, -mv, e - 1, Groups * mv),
           UNCHANGED << cinfo, global_state, pc >>
    PROVE  RowsInv'
<1> DEFINE s == prep.next_buf_stop
           A == prep.this_row_group
           b == mv
           u == Groups * mv
           r == main.rowgroup_ctr
           cur == main.cur_iMCU_row
           g == p.rows_to_go
           buf == p.color_buf
<1>1. /\ H \in Nat \ {0} /\ b \in Nat \ {0} /\ DCTSIZE \in Nat \ {0}
      /\ DOMAIN main = MainFields /\ cur \in Nat /\ r \in Nat /\ Groups \in Nat
  BY InPreprocessor
<1>2. /\ Sized(cinfo) /\ ~FractionalSampling(cinfo) /\ cinfo.need_context_rows \in BOOLEAN
      /\ ColorBufInv /\ BufferRight(cinfo, main.buffer, cur, r)
      /\ Groups = cur * DCTSIZE + r /\ u \in Nat
  BY RowsFound
<1>3. H' = H /\ mv' = mv /\ BufRows(cinfo)' = 3 * b /\ BufRows(cinfo) = 3 * b /\ b = MaxV(cinfo)
      /\ H = cinfo.image_height
  BY SameSizes, Zenon DEF BufRows, mv, H
<1>4. << A, s >> \in Pointers(b)
  BY <1>2, Zenon DEF ColorBufInv, Pointers
<1>5. /\ \/ A = 0 /\ s = 2 * b
         \/ A = b /\ s = 3 * b
         \/ A = 2 * b /\ s = b
      /\ A \in Nat /\ s \in Nat
  <2> HIDE DEF A, s, b
  <2> QED
    BY <1>4, <1>1, PointersAre
<1>6. /\ DOMAIN prep' = PrepFields /\ prep'.rows_to_go = g /\ main'.cur_iMCU_row = cur
      /\ z = s => /\ main'.rowgroup_ctr = r + 1
                  /\ prep'.next_buf_row = Wrapped(s) /\ prep'.next_buf_stop = Wrapped(s) + mv
      /\ z # s => /\ main'.rowgroup_ctr = r
                  /\ prep'.next_buf_row = z /\ prep'.next_buf_stop = s
  BY <1>1, DownsampleIs, Zenon
<1>7. /\ prep'.color_buf = buf
      /\ z = s => /\ main'.buffer = Downsampled(cinfo, p, A, main.buffer, r)
                  /\ prep'.this_row_group = Wrapped(A + mv)
      /\ z # s => main'.buffer = main.buffer /\ prep'.this_row_group = A
  BY <1>1, DownsampleRows, Zenon
<1>8. Wrapped(s) = (IF s >= 3 * b THEN 0 ELSE s) /\ Wrapped(A + mv) = IF A + b >= 3 * b THEN 0 ELSE A + b
  BY Zenon DEF Wrapped, mv
<1>9. RowsAround(cinfo, buf, A, -b, e - 1, u) /\ e = 2 * b - (s - z) /\ (g = 0 => u + e >= H) /\ g < H
      /\ DOMAIN buf = 0..3 * b - 1 /\ z <= s
  OBVIOUS
<1> HIDE DEF s, A, b, u, r, cur, g, buf
\* The row group stays where it is.
<1>10. CASE z # s
  <2>1. Gap' = s - z
    BY <1>6, <1>10, Zenon DEF Gap
  <2>2. u + 2 * b - (s - z) = u + e
    <3> DEFINE d == s - z
               k == 2 * b
    <3>1. e = k - d
      BY <1>9
    <3> HIDE DEF d, k
    <3>2. u + k - d = u + e
      BY <1>1, <1>2, <1>5, <3>1
    <3> QED
      BY <3>2 DEF d, k
  <2>3. g = H => FALSE
    BY <1>1, <1>9
  <2>4. ColorBufInv'
    <3>1. cinfo' = cinfo /\ prep'.rows_to_go = g /\ prep'.color_buf = buf
          /\ prep'.this_row_group = A /\ prep'.next_buf_stop = s
      BY <1>6, <1>7, <1>10, Zenon
    <3>2. Groups' * mv' = u
      BY <1>3, <1>6, <1>10, Zenon DEF u, Groups, cur, r
    <3>3. << A, s >> \in {<< 0, 2 * mv >>, << mv, 3 * mv >>, << 2 * mv, mv >>}
      BY <1>4, Zenon DEF Pointers, b
    <3> QED
      BY <1>3, <1>9, <2>1, <2>2, <2>3, <3>1, <3>2, <3>3, Zenon DEF ColorBufInv, b
  <2> QED
    BY <1>6, <1>2, <1>7, <1>10, <2>4, Zenon DEF RowsInv
\* The row group is downsampled, and the next one begins.
<1>11. CASE z = s
  <2>1. e = 2 * b /\ e - 1 = 2 * b - 1
    BY <1>1, <1>5, <1>9, <1>11
  <2>2. RowsAround(cinfo, buf, A, -b, 2 * b - 1, u)
    BY <1>9, <2>1, Zenon
  <2>3. GroupThere(cinfo, buf, A, Groups)
    <3>1. \A t \in -1..b - 1 + 1 : t \in -b..2 * b - 1
      BY <1>1
    <3>2. RowsAround(cinfo, buf, A, -1, b - 1 + 1, u)
      BY <2>2, <3>1, Zenon DEF RowsAround
    <3> QED
      BY <1>3, <3>2, Zenon DEF GroupThere, u, b, Extra
  <2>4. BufferRight(cinfo, main'.buffer, cur, r + 1)
    <3> DEFINE a == main.buffer
               c == cinfo
               G == Groups
    <3>1. /\ BufferRight(c, a, cur, r) /\ GroupThere(c, p.color_buf, A, G) /\ G = cur * DCTSIZE + r
          /\ c.need_context_rows \/ G * MaxV(c) < c.image_height
          /\ Sized(c) /\ ~FractionalSampling(c) /\ c.need_context_rows \in BOOLEAN
          /\ cur \in Nat /\ r \in Nat /\ A \in Nat
      BY <1>1, <1>2, <1>5, <2>3 DEF buf
    <3> HIDE DEF a, c, G
    <3> QED
      BY <1>7, <1>11, <3>1, GroupAdded DEF a, c
  <2> DEFINE A2 == Wrapped(A + mv)
             s2 == Wrapped(s) + mv
  <2>5. << A2, s2 >> \in Pointers(b) /\ RowsAround(cinfo, buf, A2, -b, b - 1, u + b)
    <3>1. A2 = (IF A + b >= 3 * b THEN 0 ELSE A + b) /\ s2 = (IF s >= 3 * b THEN 0 ELSE s) + b
      BY <1>8, Zenon DEF b
    <3> HIDE DEF A2, s2
    <3> QED
      BY <1>1, <1>4, <2>2, <3>1, <1>2, <1>3, RowsAdvance
  <2>6. Gap' = b
    <3> DEFINE w == Wrapped(s)
    <3>1. w \in Nat
      BY <1>5, <1>8
    <3>2. Gap' = (w + mv) - w
      BY <1>6, <1>11, Zenon DEF Gap
    <3> HIDE DEF w
    <3> QED
      BY <1>1, <3>1, <3>2 DEF b
  <2>7. g = H => FALSE
    BY <1>1, <1>9
  <2>8. (2 * b - b) - 1 = b - 1 /\ (u + b) + 2 * b - b = u + e
    <3>1. 2 * b - b = b /\ (u + b) + b = u + 2 * b
      BY <1>1, <1>2
    <3> QED
      BY <2>1, <3>1, Zenon
  <2>9. ColorBufInv'
    <3>1. cinfo' = cinfo /\ prep'.rows_to_go = g /\ prep'.color_buf = buf
          /\ prep'.this_row_group = A2 /\ prep'.next_buf_stop = s2
      BY <1>6, <1>7, <1>11, Zenon
    <3> HIDE DEF A2, s2
    <3>2. Groups' * mv' = u + b
      BY <1>3, <1>6, <1>11, OneGroupMore, Zenon DEF cur, r, u, b
    <3>3. << A2, s2 >> \in {<< 0, 2 * mv >>, << mv, 3 * mv >>, << 2 * mv, mv >>}
      BY <2>5, Zenon DEF Pointers, b
    <3> QED
      BY <1>3, <1>9, <2>5, <2>6, <2>7, <2>8, <3>1, <3>2, <3>3, Zenon DEF ColorBufInv, b
  <2> QED
    BY <1>6, <1>11, <2>4, <2>9, Zenon DEF RowsInv
<1> QED
  BY <1>10, <1>11

LEMMA PreProcessContextRows ==
    ASSUME IndInv, KindInv, RowsInv, pre_process_context PROVE RowsInv'
<1> DEFINE n == Least(prep.next_buf_stop - prep.next_buf_row, RowsLeft)
           s == prep.next_buf_stop
           f == prep.next_buf_row
           g == prep.rows_to_go
           A == prep.this_row_group
           b == mv
           u == Groups * mv
           e == 2 * b - (s - f)
<1>1. /\ pc = "main" /\ main.cur_iMCU_row < T /\ cinfo.need_context_rows
      /\ main.rowgroup_ctr < DCTSIZE
      /\ UNCHANGED << cinfo, global_state, pc >>
      /\ \/ RowsLeft > 0 /\ DownsampleGroup(TopPadded(Stored(n)))
         \/ RowsLeft = 0 /\ g = 0 /\ DownsampleGroup(BottomPadded(prep))
  BY Zenon DEF pre_process_context, InMain, Unchanged_in_main, counts, T, mv
<1>2. /\ H \in Nat \ {0} /\ b \in Nat \ {0} /\ PrepOK /\ GroupsInv /\ DOMAIN prep = PrepFields
      /\ f \in Nat /\ RowsLeft \in Nat /\ RowsLeft <= g /\ g \in 0..H /\ Taken = H - g /\ Groups \in Nat
  BY <1>1, InPreprocessor
<1>3. Sized(cinfo) /\ ColorBufInv /\ u \in Nat
  BY <1>1, RowsFound
<1>4. BufRows(cinfo) = 3 * b /\ b = MaxV(cinfo) /\ H = cinfo.image_height
  BY <1>1, Zenon DEF BufRows, mv, H
<1>5. << A, s >> \in Pointers(b) /\ f < s /\ Taken = next_scanline + call.in_row_ctr
      /\ DOMAIN prep.color_buf = 0..3 * b - 1
  BY <1>1, <1>2, <1>3, <1>4, NextRow, Zenon DEF ColorBufInv, Pointers, PrepOK
<1>6. /\ g = H => A = 0 /\ f = 0
      /\ g = 0 => u + 2 * b - Gap >= H
      /\ g < H => RowsAround(cinfo, prep.color_buf, A, -b, 2 * b - Gap - 1, u)
      /\ g > 0 => Taken + Gap = u + 2 * b
      /\ Groups > 0 => Gap <= b
      /\ Gap = s - f
  BY <1>1, <1>2, <1>3, Zenon DEF ColorBufInv, GroupsInv, Gap
<1> HIDE DEF s, f, g, A, b, u, n
<1>7. /\ \/ A = 0 /\ s = 2 * b
         \/ A = b /\ s = 3 * b
         \/ A = 2 * b /\ s = b
      /\ A \in Nat /\ s \in Nat
  BY <1>2, <1>5, PointersAre
\* Within the two row groups that are to be there.
<1>8. s - f \in Nat /\ s - f > 0 /\ s - f <= 2 * b
  <2>1. s - f \in Nat /\ s - f > 0
    BY <1>2, <1>5, <1>7
  <2>2. CASE Groups > 0
    BY <1>2, <1>6, <2>1, <2>2
  <2>3. CASE ~ Groups > 0
    <3>1. u = 0
      BY <1>2, <2>3 DEF u, b
    <3>2. CASE g > 0
      BY <1>2, <1>6, <2>1, <3>1, <3>2
    <3>3. CASE ~ g > 0
      <4> DEFINE d == s - f
      <4> HIDE DEF d
      <4> QED
        BY <2>1, <1>2, <1>6, <3>1, <3>3 DEF d
    <3> QED
      BY <3>2, <3>3
  <2> QED
    BY <2>1, <2>2, <2>3
<1>9. e \in Nat /\ e = 2 * b - (s - f)
  <2> DEFINE d == s - f
  <2>1. d \in Nat /\ d <= 2 * b /\ 2 * b \in Nat /\ e = 2 * b - d
    BY <1>2, <1>8
  <2> HIDE DEF d, e
  <2> QED
    BY <1>2, <2>1 DEF e
<1> HIDE DEF e
<1>10. /\ g = 0 => u + e >= H
       /\ g < H => RowsAround(cinfo, prep.color_buf, A, -b, e - 1, u)
       /\ g > 0 => Taken = u + e
       /\ s - f \in Int /\ NextComes(cinfo, b, A, s, f, e)
  <2> DEFINE d == s - f
             k == 2 * b
  <2>1. d \in Nat /\ k \in Nat /\ e = k - d /\ Gap = d /\ u \in Nat /\ Taken \in Int
    BY <1>2, <1>3, <1>6, <1>8, <1>9
  <2>2. u + k - d = u + e /\ k - d - 1 = e - 1 /\ (Taken + d = u + k => Taken = u + e)
    <3> HIDE DEF d, k
    <3> QED
      BY <2>1
  <2>3. /\ g = 0 => u + k - d >= H
        /\ g < H => RowsAround(cinfo, prep.color_buf, A, -b, k - d - 1, u)
        /\ g > 0 => Taken + d = u + k
    BY <1>6, <2>1, Zenon
  <2> HIDE DEF d, k
  <2>4. /\ g = 0 => u + e >= H
        /\ g < H => RowsAround(cinfo, prep.color_buf, A, -b, e - 1, u)
        /\ g > 0 => Taken = u + e
    BY <2>2, <2>3, Zenon
  <2> QED
    BY <1>4, <1>5, <1>9, <1>2, <1>7, <2>4, <2>1 DEF d, NextComes
\* Rows come in.
<1>11. CASE RowsLeft > 0 /\ DownsampleGroup(TopPadded(Stored(n)))
  <2> DEFINE q == Stored(n)
             p == TopPadded(q)
             z == f + n
             e2 == e + n
  <2>1. n \in Nat /\ n > 0 /\ n <= s - f /\ n <= RowsLeft
    BY <1>2, <1>8, <1>11, LeastIs DEF n, s, f
  <2>2. /\ DOMAIN q = PrepFields /\ q.rows_to_go = g - n
        /\ q.next_buf_row = z /\ q.next_buf_stop = s /\ q.this_row_group = A
        /\ q.color_buf = Converted(prep, Taken, n)
    BY <1>2, <1>5, StoredIs, StoredRows, Zenon DEF g, f, s, A
  <2> HIDE DEF q
  <2>3. /\ DOMAIN p = PrepFields /\ p.rows_to_go = g - n
    BY <2>2 DEF TopPadded, PrepFields
  <2>4. /\ p.this_row_group = A /\ p.next_buf_row = z /\ p.next_buf_stop = s
        /\ p.color_buf = IF g = H THEN PadTop(cinfo, q.color_buf) ELSE q.color_buf
    BY <2>2, TopPaddedRows, Zenon DEF g
  <2> HIDE DEF p
  <2>5. /\ g > 0 /\ g - n < H /\ z \in Nat /\ z <= s /\ e2 \in Int
        /\ Taken = u + e /\ u + e2 = H - (g - n) /\ u + e + n <= H
    <3> DEFINE d == s - f
    <3> HIDE DEF d
    <3>1. z \in Nat /\ z <= s
      BY <1>2, <2>1, <1>7, <1>8
    <3> QED
      BY <1>2, <1>3, <1>9, <2>1, <1>10, <3>1
  <2>6. e2 = 2 * b - (s - z)
    <3> DEFINE d == s - f
               k == 2 * b
    <3>1. d \in Int /\ k \in Int /\ e = k - d
      BY <1>2, <1>8, <1>9
    <3> HIDE DEF d, k
    <3> QED
      BY <1>2, <1>7, <2>1, <3>1 DEF d, k
  <2>7. RowsAround(cinfo, p.color_buf, A, -b, e2 - 1, u) /\ DOMAIN p.color_buf = 0..3 * b - 1
    <3>1. CASE g = H
      <4>1. A = 0 /\ f = 0 /\ Taken = 0 /\ u = 0 /\ e = 0
        BY <1>2, <1>6, <1>7, <3>1, <1>9, <1>3, <2>5
      <4>2. e2 - 1 = n - 1 /\ n <= 2 * b /\ n <= cinfo.image_height /\ n \in Nat \ {0}
        BY <1>2, <1>7, <4>1, <2>1, <1>4
      <4>3. RowsAround(cinfo, PadTop(cinfo, Converted(prep, 0, n)), 0, -b, n - 1, 0)
        BY <1>2, <1>4, <1>5, <4>2, <4>1, FirstRowsComeIn DEF f
      <4> QED
        BY <1>5, <4>1, <2>2, <2>4, <3>1, <4>2, <4>3 DEF PadTop, Converted
    <3>2. CASE g # H
      <4>1. g < H
        BY <1>2, <3>2
      <4> DEFINE high == H
      <4>2. /\ NextComes(cinfo, b, A, s, f, e) /\ n <= s - f
            /\ DOMAIN prep.color_buf = 0..3 * b - 1 /\ prep.next_buf_row = f
            /\ cinfo.image_height = high /\ u + e + n <= high
            /\ RowsAround(cinfo, prep.color_buf, A, -b, e - 1, u)
        BY <1>4, <1>5, <1>10, <2>1, <2>5, <4>1, Zenon DEF f
      <4>3. high \in Nat /\ e \in Nat /\ u \in Nat /\ n \in Nat /\ s \in Nat /\ f \in Nat /\ b \in Nat \ {0}
        BY <1>2, <1>3, <1>7, <1>9, <2>1
      <4> HIDE DEF high
      <4>4. RowsAround(cinfo, Converted(prep, u + e, n), A, -b, e + n - 1, u)
        BY <4>2, <4>3, RowsComeIn, Zenon
      <4>5. e + n - 1 = e2 - 1
        BY <4>3
      <4> QED
        BY <1>5, <2>2, <2>4, <2>5, <3>2, <4>4, <4>5 DEF Converted
    <3> QED
      BY <3>1, <3>2
  <2> HIDE DEF z, e2
  <2>8. p.rows_to_go < H /\ (p.rows_to_go = 0 => u + e2 >= H)
    BY <1>2, <2>1, <2>5, <2>3
  <2>9. /\ p.this_row_group = prep.this_row_group /\ p.next_buf_stop = prep.next_buf_stop
        /\ z <= prep.next_buf_stop /\ DOMAIN p.color_buf = 0..3 * mv - 1
        /\ e2 = 2 * mv - (prep.next_buf_stop - z)
        /\ (p.rows_to_go = 0 => Groups * mv + e2 >= H)
        /\ RowsAround(cinfo, p.color_buf, prep.this_row_group, -mv, e2 - 1, Groups * mv)
    BY <2>4, <2>5, <2>6, <2>7, <2>8, Zenon DEF s, A, b, u
  <2> QED
    BY <1>1, <2>3, <2>4, <2>5, <2>8, <1>11, <2>9, ContextGroup, Zenon DEF p, q
\* The bottom of the image.
<1>12. CASE RowsLeft = 0 /\ g = 0 /\ DownsampleGroup(BottomPadded(prep))
  <2> DEFINE p == BottomPadded(prep)
             e2 == 2 * b
  <2>1. /\ DOMAIN p = PrepFields /\ p.rows_to_go = g
        /\ p.next_buf_row = s /\ p.next_buf_stop = s
    BY <1>5, <1>2 DEF s, f, BottomPadded, PrepFields, g
  <2>2. p.this_row_group = A /\ p.color_buf = expand_bottom_edge(cinfo, prep.color_buf, f, s)
    BY <1>2, <1>5, BottomPaddedRows, Zenon DEF s, f, A
  <2>3. DownsampleGroup(p)
    BY <1>12, Zenon
  <2> HIDE DEF p
  <2>4. RowsAround(cinfo, p.color_buf, A, -b, e2 - 1, u)
    <3> DEFINE high == H
               old == prep.color_buf
               c == cinfo
    <3>1. /\ high \in Nat \ {0} /\ c.image_height = high /\ u + e >= high /\ u \in Nat /\ e \in Nat
          /\ b \in Nat \ {0} /\ s \in Nat /\ f \in Nat /\ f < s /\ s - f <= 2 * b
          /\ RowsAround(c, old, A, -b, e - 1, u) /\ e = 2 * b - (s - f)
          /\ << A, s >> \in Pointers(b) /\ DOMAIN old = 0..3 * b - 1 /\ BufRows(c) = 3 * b
      <4>1. g < H
        BY <1>2, <1>12
      <4> QED
        BY <1>2, <1>3, <1>4, <1>5, <1>7, <1>8, <1>9, <1>10, <1>12, <4>1, Zenon
    <3> HIDE DEF high, old, c
    <3>2. RowsAround(c, expand_bottom_edge(c, old, f, s), A, -b, 2 * b - 1, u)
      BY <3>1, BottomRowsRepeated
    <3> QED
      BY <2>2, <3>2, Zenon DEF c, old
  <2>5. s \in Nat /\ s <= s /\ e2 \in Int /\ e2 = 2 * b - (s - s)
    BY <1>2, <1>7
  <2>6. u + e2 >= H /\ g < H
    <3> HIDE DEF e2
    <3> QED
      BY <1>2, <1>3, <1>9, <1>12, <2>5, <1>8, <1>10
  <2> HIDE DEF e2
  <2>7. /\ p.this_row_group = prep.this_row_group /\ p.next_buf_stop = prep.next_buf_stop
        /\ s <= prep.next_buf_stop /\ DOMAIN p.color_buf = 0..3 * mv - 1
        /\ e2 = 2 * mv - (prep.next_buf_stop - s)
        /\ (p.rows_to_go = 0 => Groups * mv + e2 >= H) /\ p.rows_to_go < H
        /\ RowsAround(cinfo, p.color_buf, prep.this_row_group, -mv, e2 - 1, Groups * mv)
    BY <2>1, <2>2, <2>4, <1>5, BottomSize, <2>5, <2>6 DEF s, A, b, u
  <2> QED
    BY <1>1, <2>1, <2>3, <2>5, <2>7, ContextGroup, Zenon
<1> QED
  BY <1>1, <1>11, <1>12

-----------------------------------------------------------------------------
(* The MCU of a step.                                                       *)

LEMMA KindOfMaster ==
    ASSUME NEW m \in MasterRecord, NEW b \in BOOLEAN
    PROVE  /\ IsLast(m).transcode = m.transcode /\ NextPass(m, b).transcode = m.transcode
           /\ [m EXCEPT !.call_pass_startup = b].transcode = m.transcode
           /\ OutputPass.transcode = master.transcode
BY SMT DEF MasterRecord, IsLast, NextPass, OutputPass

\* In a pass without arrays the MCUs come from the application.
LEMMA SinglePassIsMain ==
    ASSUME IndInv, KindInv, Active, InPass, ~master.transcode, ~MultiPass(master)
    PROVE  master.pass_type = "main"
BY ScanOfPass, ScansCounted DEF N, PassCounted, MultiPass, KindInv

\* The rows that compress_data transforms are those of the iMCU row it is at.
LEMMA InputRowsRight ==
    ASSUME IndInv, KindInv, RowsInv, FromApplication,
           \/ pc = "main" /\ main.cur_iMCU_row < T /\ main.rowgroup_ctr = DCTSIZE
           \/ pc = "mcu" /\ call.by # "crank"
           \/ pc = "app" /\ global_state = "RAW_OK"
    PROVE  /\ coef.iMCU_row_num \in Nat
           /\ \A k \in 1..Len(cinfo.comps) : RightRows(cinfo, k, coef.iMCU_row_num, InputRows[k])
<1>1. TypesInv /\ Active /\ Accepted(cinfo) /\ Sized(cinfo)
  BY SettingsStay, AcceptedIsSized DEF IndInv, Active, FromApplication
<1>2. coef.iMCU_row_num \in Nat
  BY DEF IndInv, MCUInv, CoefRecord
<1>3. pc = "mcu" => call \in CallRecord /\ call.by \in {"lines", "raw"}
  <2>1. ASSUME pc = "mcu" PROVE call \in CallRecord
    BY <1>1, <2>1, InCoef
  <2> QED
    BY <2>1, SMT DEF CallRecord
<1>4. cinfo.raw_data_in = (global_state = "RAW_OK")
  BY Zenon DEF KindInv
<1>5. CASE global_state = "SCANNING"
  <2>1. TakingLines
    BY <1>1, <1>3, <1>5 DEF IndInv, CallInv, TakingLines
  <2>2. RowsCounted /\ NothingWaits /\ main.cur_iMCU_row \in 0..T
    BY <2>1, InLines
  <2>3. main.rowgroup_ctr = DCTSIZE
    BY <1>5, <2>2 DEF NothingWaits
  <2>4. InputRows = main.buffer
    BY <1>4, <1>5 DEF InputRows
  <2> QED
    BY <1>1, <1>2, <2>1, <2>3, <2>2, <2>4, FullRowRight DEF RowsInv, RowsCounted
<1>6. CASE global_state = "RAW_OK"
  <2> DEFINE i == coef.iMCU_row_num
             w == mv * DCTSIZE
  <2>1. next_scanline = i * w
    BY <1>6, <1>1, <1>3 DEF IndInv, CallInv, RawInv
  <2>2. w \in Nat \ {0}
    BY <1>1, Sizes
  <2>3. next_scanline \div w = i
    <3> HIDE DEF w, i
    <3>1. i \in Nat
      BY <1>2 DEF i
    <3> QED
      BY <2>1, <2>2, <3>1
  <2>4. InputRows = RawData(cinfo, i)
    <3>1. w = MaxV(cinfo) * DCTSIZE
      BY Zenon DEF mv
    <3> HIDE DEF w, i
    <3> QED
      BY <2>3, <1>4, <1>6, <3>1, Zenon DEF InputRows
  <2> HIDE DEF i, w
  <2>5. ASSUME NEW k \in 1..Len(cinfo.comps) PROVE RightRows(cinfo, k, i, InputRows[k])
    BY <2>4, Zenon DEF RawData, RightRows
  <2> QED
    BY <1>2, <2>5 DEF i
<1> QED
  BY <1>5, <1>6 DEF FromApplication

\* The place of the MCU the coefficient controller stands at.
LEMMA PlaceInScan ==
    ASSUME IndInv, pc = "mcu"
    PROVE  /\ InScan(cinfo, scan, coef.iMCU_row_num, call.yoffset, call.MCU_col_num)
           /\ done.mcus = PlaceNumber(cinfo, scan, coef.iMCU_row_num, call.yoffset, call.MCU_col_num)
           /\ coef.iMCU_row_num \in 0..T - 1 /\ T \in Nat \ {0} /\ Sized(cinfo)
           /\ \A j \in 1..Len(scan.cur) : PartOK(cinfo, scan, scan.cur[j])
<1> DEFINE i == coef.iMCU_row_num
           y == call.yoffset
           col == call.MCU_col_num
<1>1. /\ Active /\ InPass /\ TypesInv /\ i \in 0..T /\ y \in Nat /\ col \in Nat
      /\ coef.MCU_rows_per_iMCU_row = RowsIn(cinfo, scan, i)
  BY InCoef
<1>2. i < T /\ At(y, col)
  BY Zenon DEF IndInv, MCUInv
<1>3. /\ Accepted(cinfo) /\ master.scan_number \in 0..num_scans(cinfo) - 1
      /\ scan = Setup(cinfo, master.scan_number)
  BY <1>1, ScanOfPass
<1>4. Sized(cinfo)
  BY <1>3, AcceptedIsSized
<1>5. /\ T \in Nat \ {0} /\ RowsBefore(cinfo, scan, i) \in Nat
  BY <1>1, PassRows
<1>6. /\ Len(scan.cur) \in Nat \ {0} /\ scan.MCUs_per_row \in Nat \ {0}
      /\ \A j \in 1..Len(scan.cur) : PartOK(cinfo, scan, scan.cur[j])
  BY <1>3, ScanParts, Zenon
<1>7. ASSUME NEW j \in 1..Len(scan.cur)
      PROVE  /\ height_in_blocks(cinfo, scan.cur[j].index) \in Nat \ {0}
             /\ width_in_blocks(cinfo, scan.cur[j].index) \in Nat \ {0}
  BY <1>6, <1>4, ComponentSizes DEF PartOK
<1>8. y < RowsIn(cinfo, scan, i) /\ col < scan.MCUs_per_row
      /\ done.mcus = PlaceNumber(cinfo, scan, i, y, col)
  BY <1>1, <1>2, Zenon DEF At, PlaceNumber
<1> HIDE DEF i, y, col
<1> QED
  BY <1>4, <1>5, <1>1, <1>2, <1>6, <1>8, <1>7 DEF i, y, col, InScan, T

LEMMA CurrentIsIdeal ==
    ASSUME IndInv, KindInv, ArraysInv, RowsInv, pc = "mcu"
    PROVE  CurrentMCU = IdealMCU(cinfo, scan, done.mcus)
<1> DEFINE i == coef.iMCU_row_num
           y == call.yoffset
           col == call.MCU_col_num
           ideal == IdealMCU(cinfo, scan, PlaceNumber(cinfo, scan, i, y, col))
<1>1. /\ InScan(cinfo, scan, i, y, col) /\ i \in 0..T - 1 /\ T \in Nat \ {0} /\ Sized(cinfo)
      /\ \A j \in 1..Len(scan.cur) : PartOK(cinfo, scan, scan.cur[j])
      /\ ideal = IdealMCU(cinfo, scan, done.mcus)
  BY PlaceInScan, Zenon
<1>2. i \in Nat
  BY <1>1
<1>3. ASSUME NEW strip, RealStrip(cinfo, scan, i, strip)
      PROVE  MCUWithDummies(scan, strip, in_last_iMCU_row, y, col) = ideal
  <2>1. MCUWithDummies(scan, strip, i = total_iMCU_rows(cinfo) - 1, y, col) = ideal
    <3> HIDE DEF i, y, col
    <3> QED
      BY <1>1, <1>3, DummiesRight
  <2> QED
    BY <2>1, Zenon DEF in_last_iMCU_row
<1>4. CASE master.transcode
  <2>1. RealStrip(cinfo, scan, i, ArrayStrip(cinfo, whole_image, i))
    <3> HIDE DEF i
    <3> QED
      BY <1>1, <1>2, <1>4, ApplicationStripRight DEF ArraysInv
  <2> QED
    BY <1>1, <1>3, <2>1, <1>4, Zenon DEF CurrentMCU, IsTranscoding
<1>5. CASE ~master.transcode /\ MultiPass(master)
  <2>1. i < Filled
    <3>1. Filled = IF master.pass_type = "main" THEN i + 1 ELSE T
      BY SMT DEF Filled
    <3> HIDE DEF i
    <3> QED
      BY <1>1, <3>1
  <2>2. StoredStrip(cinfo, scan, i, ArrayStrip(cinfo, whole_image, i))
    <3> DEFINE n == Filled
    <3> HIDE DEF i, n
    <3> QED
      BY <1>1, <1>5, <2>1, ArrayStripStored DEF T, ArraysInv
  <2>3. MCUFromArray(scan, ArrayStrip(cinfo, whole_image, i), y, col) = ideal
    <3> DEFINE strip == ArrayStrip(cinfo, whole_image, i)
    <3> HIDE DEF i, y, col, strip
    <3> QED
      BY <1>1, <2>2, FromArrayRight, Zenon DEF strip
  <2> QED
    BY <1>1, <1>5, <2>3, Zenon DEF CurrentMCU, IsTranscoding
<1>6. CASE ~master.transcode /\ ~MultiPass(master)
  <2>1. Active /\ InPass
    BY InCoef
  <2>2. call.by # "crank" /\ FromApplication
    BY <1>6, <2>1, SinglePassIsMain, InCoef DEF KindInv, CallRecord, FromApplication,
       IndInv, CallInv
  <2>3. \A k \in 1..Len(cinfo.comps) : RightRows(cinfo, k, i, InputRows[k])
    BY <2>2, InputRowsRight, Zenon
  <2>4. RealStrip(cinfo, scan, i, InputStrip(cinfo, InputRows))
    <3> DEFINE rows == InputRows
    <3> HIDE DEF i, rows
    <3> QED
      BY <1>1, <1>2, <2>3, InputStripRight DEF rows
  <2> QED
    BY <1>1, <1>3, <2>4, <1>6, Zenon DEF CurrentMCU, IsTranscoding
<1> QED
  BY <1>4, <1>5, <1>6, Zenon

-----------------------------------------------------------------------------
(* What a step keeps.                                                       *)

LEMMA NoData ==
    ASSUME LastInv', MCUIsIdeal', ~Active' \/ pc' = "error" PROVE DataInv'
BY Zenon DEF DataInv

LEMMA DataFromParts ==
    ASSUME Active', MCUIsIdeal', KindInv', ArraysInv', RowsInv' PROVE DataInv'
BY Zenon DEF DataInv, LastInv

LEMMA NothingEncoded == ASSUME done'.mcus = 0 PROVE LastInv' /\ MCUIsIdeal'
BY DEF LastInv, MCUIsIdeal

LEMMA KindStays ==
    ASSUME KindInv, global_state' = global_state, SameImage(cinfo, cinfo'),
           cinfo'.raw_data_in = cinfo.raw_data_in, Opt' = Opt,
           master'.transcode = master.transcode,
           master'.pass_type = "main" => master.pass_type = "main",
           pc' = "main" \/ (pc' = "app" /\ FromApplication) => master'.pass_type = "main",
           pc' \in {"mcu", "rowdone"} => ((call'.by = "crank") = (master'.pass_type # "main")),
           master'.pass_type # "main" /\ ~master.transcode /\ ~Opt => master'.scan_number > 0
    PROVE  KindInv'
<1>1. cinfo'.comps = cinfo.comps /\ MaxV(cinfo') = MaxV(cinfo)
  BY SameSetup, Zenon DEF SameImage
<1>2. FractionalSampling(cinfo') <=> FractionalSampling(cinfo)
  BY <1>1, Zenon DEF FractionalSampling, MaxH
<1> QED
  BY <1>2, Zenon DEF KindInv, FromApplication

LEMMA KindSame ==
    ASSUME KindInv, cinfo' = cinfo, global_state' = global_state,
           SameCounters(master, master'), master'.transcode = master.transcode,
           pc' = "main" \/ (pc' = "app" /\ FromApplication) => master.pass_type = "main",
           pc' \in {"mcu", "rowdone"} => ((call'.by = "crank") = (master.pass_type # "main"))
    PROVE  KindInv'
BY Zenon DEF FromApplication, Opt, SameCounters, KindInv

LEMMA RowsSame ==
    ASSUME RowsInv, TakingLines' => TakingLines, cinfo' = cinfo, prep' = prep,
           main'.buffer = main.buffer, main'.cur_iMCU_row = main.cur_iMCU_row,
           main'.rowgroup_ctr = main.rowgroup_ctr
    PROVE  RowsInv'
BY Zenon DEF H, mv, Groups, Gap, ColorBufInv, RowsInv

LEMMA NoRows == ASSUME ~TakingLines' PROVE RowsInv'
BY Zenon DEF RowsInv

LEMMA SameStored ==
    ASSUME NEW c, Sized(c), NEW d, SameData(c, d), NEW a, NEW n \in Int, NEW m \in Int, m <= n,
           ArraysShaped(c, a), StoredUpTo(c, a, n)
    PROVE  ArraysShaped(d, a) /\ StoredUpTo(d, a, m)
<1>1. /\ SameImage(c, d) /\ d.comps = c.comps /\ total_iMCU_rows(d) = total_iMCU_rows(c)
      /\ \A k : BlocksAcross(d, k) = BlocksAcross(c, k)
      /\ \A k, r, x : StoredBlock(d, k, r, x) = StoredBlock(c, k, r, x)
  BY SameIdeal, SameSetup, Zenon DEF SameData, SameImage
<1>2. ASSUME NEW k \in 1..Len(c.comps), NEW r \in 0..total_iMCU_rows(c) * c.comps[k].v - 1,
             r \div c.comps[k].v < m
      PROVE  r \div c.comps[k].v < n
  <2>1. c.comps[k].v \in Nat \ {0} /\ total_iMCU_rows(c) \in Nat
    BY ComponentRows
  <2> DEFINE v == c.comps[k].v
             z == r \div v
  <2>2. r \in Nat
    BY <2>1
  <2>3. z \in Nat
    <3> HIDE DEF v
    <3> QED
      BY <2>1, <2>2, DivMod DEF v
  <2>4. z < m
    BY <1>2
  <2> HIDE DEF z
  <2> QED
    BY <2>3, <2>4 DEF z
<1>3. ASSUME NEW k \in 1..Len(c.comps), NEW r \in 0..total_iMCU_rows(c) * c.comps[k].v - 1,
             r \div c.comps[k].v < m, NEW x \in 0..BlocksAcross(c, k) - 1
      PROVE  a[k][r][x] = StoredBlock(c, k, r, x)
  BY <1>2, <1>3, Zenon DEF StoredUpTo
<1>4. ASSUME NEW k \in 1..Len(d.comps), NEW r \in 0..total_iMCU_rows(d) * d.comps[k].v - 1,
             r \div d.comps[k].v < m, NEW x \in 0..BlocksAcross(d, k) - 1
      PROVE  a[k][r][x] = StoredBlock(d, k, r, x)
  BY <1>1, <1>3, <1>4
<1> QED
  BY <1>1, <1>4, Zenon DEF StoredUpTo, ArraysShaped

LEMMA ArraysStay ==
    ASSUME Sized(cinfo), ArraysInv, SameData(cinfo, cinfo'), whole_image' = whole_image,
           master'.transcode = master.transcode, master'.total_passes = master.total_passes,
           Filled \in Int, Filled' \in Int, Filled' <= Filled
    PROVE  ArraysInv'
<1>1. ASSUME ~master.transcode, MultiPass(master)
      PROVE  ArraysShaped(cinfo', whole_image') /\ StoredUpTo(cinfo', whole_image', Filled')
  <2>1. ArraysShaped(cinfo, whole_image) /\ StoredUpTo(cinfo, whole_image, Filled)
    BY <1>1, Zenon DEF ArraysInv
  <2> DEFINE m == Filled'
             n == Filled
  <2>2. m \in Int /\ n \in Int /\ m <= n /\ StoredUpTo(cinfo, whole_image, n)
    BY <2>1
  <2> HIDE DEF m, n
  <2> QED
    BY <2>1, <2>2, SameStored DEF m
<1> QED
  BY <1>1, SameIdeal, Zenon DEF ArraysInv, MultiPass

LEMMA SameDataAgain == SameData(cinfo, cinfo)
BY Zenon DEF SameData, SameImage

\* ... while the parameters stay the same.
LEMMA ArraysSame ==
    ASSUME IndInv, Active, ArraysInv, cinfo' = cinfo, whole_image' = whole_image,
           SameCounters(master, master'), master'.transcode = master.transcode,
           Filled \in Int, Filled' \in Int, Filled' <= Filled
    PROVE  ArraysInv'
BY SettingsStay, AcceptedIsSized, SameDataAgain, ArraysStay, Zenon DEF IndInv,
   SameCounters

LEMMA IdealKept ==
    ASSUME MCUIsIdeal, SameData(cinfo, cinfo'), scan' = scan,
           done'.mcus = done.mcus, done'.last = done.last
    PROVE  MCUIsIdeal'
BY SameIdeal DEF MCUIsIdeal

\* Where the first pass stands, in numbers.
LEMMA FilledIs ==
    ASSUME IndInv, KindInv, Active
    PROVE  /\ Filled \in Nat /\ T \in Nat \ {0}
           /\ master.pass_type # "main" => Filled = T
           /\ pc \in {"finish_pass", "passes"} => Filled = T
           /\ master.pass_type = "main" /\ pc \in {"app", "main", "rowdone"} =>
                Filled = coef.iMCU_row_num
           /\ master.pass_type = "main" /\ pc = "mcu" => Filled = coef.iMCU_row_num + 1
<1>1. ASSUME master.pass_type = "main", pc \in {"app", "main", "mcu", "rowdone"}
      PROVE  coef.iMCU_row_num \in Nat
  BY <1>1 DEF IndInv, PassInv, MCUInv, CoefRecord
<1>2. /\ master.pass_type # "main" => Filled = T
      /\ pc \in {"finish_pass", "passes"} => Filled = T
      /\ pc \notin {"app", "main", "mcu", "rowdone"} => Filled = T
      /\ master.pass_type = "main" /\ pc \in {"app", "main", "rowdone"} =>
            Filled = coef.iMCU_row_num
      /\ master.pass_type = "main" /\ pc = "mcu" => Filled = coef.iMCU_row_num + 1
  BY SMT DEF Filled
<1> QED
  BY Sizes, <1>2, <1>1 DEF IndInv

-----------------------------------------------------------------------------
(* The steps in which no data moves.                                        *)

LEMMA InitData == Init => DataInv
<1> SUFFICES ASSUME Init PROVE DataInv
  OBVIOUS
<1>1. global_state = "START" /\ done = NothingDone(TRUE)
  BY Zenon DEF Init
<1>2. done.mcus = 0
  BY <1>1, SMT DEF NothingDone
<1>3. ~ done.mcus > 0
  BY <1>2
<1> QED
  BY <1>1, <1>2, <1>3, Zenon DEF DataInv, LastInv, MCUIsIdeal, Active

LEMMA StutterData == ASSUME DataInv, UNCHANGED vars PROVE DataInv'
<1>1. UNCHANGED << cinfo, global_state, next_scanline, scan, prep, main, coef, whole_image, entropy,
                   writer, reader, master, call, pc, done >>
  BY Zenon DEF vars
<1>2. ArraysInv' <=> ArraysInv
  BY <1>1, Zenon DEF ArraysInv, Filled, T
<1>3. RowsInv => RowsInv'
  BY <1>1, RowsSame, Zenon DEF TakingLines
<1> QED
  BY <1>1, <1>2, <1>3, Zenon DEF DataInv, Active, LastInv, MCUIsIdeal, KindInv, Opt,
     FromApplication

LEMMA IdleData ==
    ASSUME DataInv, Tables \/ BadScan \/ (\E all \in BOOLEAN : StartFails(all))
    PROVE  DataInv'
<1>1. done' = done /\ global_state' = global_state
  BY Zenon DEF Tables, jpeg_set_defaults, jpeg_add_quant_table, jpeg_set_quality,
     NewQuantTables, jpeg_simple_progression, SuppressTables, jpeg_write_tables,
     StartFails, BadScan
<1>2. LastInv /\ MCUIsIdeal
  BY Zenon DEF DataInv
<1>3. LastInv' /\ (Active' <=> Active)
  BY <1>1, <1>2, Zenon DEF LastInv, Active
<1>4. CASE ~Active
  BY <1>1, <1>2, <1>4, <1>3, NothingEncoded, NoData, Zenon DEF LastInv
<1>5. CASE Active
  <2>1. More /\ pc' = "error" /\ scan' = scan /\ cinfo' = cinfo
    <3>1. ~Idle
      BY <1>5, Zenon DEF Idle, Active
    <3>2. BadScan
      BY <3>1, Zenon DEF Tables, jpeg_set_defaults, jpeg_add_quant_table, jpeg_set_quality,
         NewQuantTables, jpeg_simple_progression, SuppressTables, jpeg_write_tables,
         StartFails, Between
    <3> QED
      BY <3>1, <3>2, Zenon DEF BadScan, pipeline
  <2> QED
    BY <1>3, <2>1, <1>1, <1>2, NoData, Zenon DEF MCUIsIdeal
<1> QED
  BY <1>4, <1>5, Zenon

LEMMA EndData ==
    ASSUME DataInv, GaveUp \/ Trailer \/ jpeg_abort_compress
    PROVE  DataInv'
<1>1. CASE GaveUp
  <2>1. /\ pc' = "error" /\ done' = done /\ global_state' = global_state
        /\ scan' = scan /\ cinfo' = cinfo
    BY <1>1, Zenon DEF GaveUp, StartupFails, SuspendCrank, Suspend, UnchangedInCoef,
       FlushFails, TrailerFails, FailsWithin, pipeline
  <2> QED
    BY <2>1, NoData, Zenon DEF DataInv, LastInv, Active, MCUIsIdeal
<1>2. CASE Trailer \/ jpeg_abort_compress
  BY <1>2, NothingEncoded, NoData DEF Trailer, jpeg_abort_compress, Released, NothingDone,
     Active
<1> QED
  BY <1>1, <1>2

-----------------------------------------------------------------------------
(* The steps of the application's calls.                                    *)

\* What is known in a step of an image.
LEMMA DataParts ==
    ASSUME IndInv, DataInv, Active, pc # "error"
    PROVE  KindInv /\ ArraysInv /\ RowsInv /\ MCUIsIdeal /\ TypesInv
           /\ SameData(cinfo, cinfo) /\ SameImage(cinfo, cinfo)
           /\ SameCounters(master, master)
BY SettingsStay, SameDataAgain, Zenon DEF IndInv, DataInv, SameData, SameCounters

LEMMA StartupTranscode ==
    ASSUME IndInv, Active, InPass, PassStartup
    PROVE  SameCounters(master, master') /\ master'.transcode = master.transcode
BY PassStartupKeeps, SettingsStay, KindOfMaster, Zenon DEF IndInv, PassStartup

LEMMA WriteScanlinesData ==
    ASSUME IndInv, DataInv, NEW n, jpeg_write_scanlines(n) PROVE DataInv'
<1>1. /\ pc = "app" /\ global_state = "SCANNING" /\ PassStartup /\ pc' = "main"
      /\ UNCHANGED << prep, main, coef, scan, entropy, cinfo, global_state, whole_image, done >>
  BY Zenon DEF jpeg_write_scanlines, pipeline
<1>2. Active /\ InPass /\ FromApplication /\ Active'
  BY <1>1, SMT DEF Active, InPass, FromApplication
<1>3. pc # "error" /\ pc' \notin {"mcu", "rowdone"} /\ pc' # "app"
  BY <1>1
<1>4. KindInv /\ ArraysInv /\ RowsInv /\ MCUIsIdeal /\ SameData(cinfo, cinfo)
  BY <1>2, <1>3, DataParts
<1>5. SameCounters(master, master') /\ master'.transcode = master.transcode
  BY <1>1, <1>2, StartupTranscode
<1>6. master.pass_type = "main"
  BY <1>1, <1>2, <1>4, Zenon DEF KindInv
<1>7. KindInv'
  BY <1>1, <1>3, <1>4, <1>5, <1>6, KindSame, Zenon
<1>8. ArraysInv'
  BY <1>1, <1>2, <1>4, <1>5, <1>6, FilledIs, ArraysSame DEF Filled, SameCounters
<1> QED
  BY <1>2, <1>7, <1>8, <1>1, <1>4, RowsSame, DataFromParts DEF MCUIsIdeal, TakingLines

LEMMA ReturnLinesData == ASSUME IndInv, DataInv, ReturnLines PROVE DataInv'
<1>1. /\ pc = "main" /\ pc' = "app"
      /\ UNCHANGED << prep, main, coef, scan, entropy, cinfo, global_state, whole_image, done, master >>
  BY Zenon DEF ReturnLines, pipeline
<1>2. Active /\ Active' /\ TakingLines
  BY <1>1 DEF IndInv, CallInv, TakingLines, Active
<1>3. pc # "error" /\ pc' \notin {"mcu", "rowdone"}
  BY <1>1
<1>4. KindInv /\ ArraysInv /\ RowsInv /\ MCUIsIdeal /\ SameCounters(master, master')
  BY <1>1, <1>2, <1>3, DataParts, Zenon
<1>5. master.pass_type = "main"
  BY <1>1, <1>4, Zenon DEF KindInv
<1>6. KindInv'
  BY <1>1, <1>3, <1>4, <1>5, KindSame, Zenon
<1>7. Filled \in Int /\ Filled' \in Int /\ Filled' <= Filled
  BY <1>1, <1>2, <1>4, <1>5, FilledIs DEF Filled
<1>8. RowsInv'
  BY <1>1, <1>2, <1>4, RowsSame, Zenon
<1>9. MCUIsIdeal'
  BY <1>1, <1>4, Zenon DEF MCUIsIdeal
<1> QED
  BY <1>2, <1>6, <1>1, <1>4, <1>7, ArraysSame, <1>8, <1>9, DataFromParts, Zenon

LEMMA PreProcessing ==
    ASSUME IndInv, DataInv, pre_process_data \/ pre_process_context PROVE DataInv'
<1>1. /\ pc = "main" /\ main.cur_iMCU_row < T /\ pc' = pc
      /\ UNCHANGED << coef, scan, entropy, cinfo, global_state, whole_image, done, master >>
  BY Zenon DEF pre_process_data, pre_process_context, InMain, T, Unchanged_in_main
<1>2. Active /\ Active' /\ pc # "error" /\ pc' \notin {"mcu", "rowdone"}
  BY <1>1 DEF IndInv, CallInv, Active
<1>3. KindInv /\ ArraysInv /\ RowsInv /\ MCUIsIdeal /\ SameCounters(master, master')
  BY <1>1, <1>2, DataParts, Zenon
<1>4. master.pass_type = "main"
  BY <1>1, <1>3, Zenon DEF KindInv
<1>5. ArraysInv'
  BY <1>1, <1>2, <1>3, <1>4, FilledIs, ArraysSame DEF Filled
<1>6. RowsInv'
  BY <1>3, PreProcessDataRows, PreProcessContextRows, Zenon
<1>7. MCUIsIdeal'
  BY <1>1, <1>3, Zenon DEF MCUIsIdeal
<1> QED
  BY <1>2, <1>1, <1>3, <1>4, KindSame, <1>5, <1>6, <1>7, DataFromParts, Zenon

\* In the first of several passes an iMCU row is stored in the arrays.
LEMMA ArraysFilled ==
    ASSUME IndInv, Active, KindInv, ArraysInv, RowsInv, FromApplication, FillArrays,
           \/ pc = "main" /\ main.cur_iMCU_row < T /\ main.rowgroup_ctr = DCTSIZE
           \/ pc = "app" /\ global_state = "RAW_OK",
           SameCounters(master, master'), master'.transcode = master.transcode,
           cinfo' = cinfo, coef' = coef, pc' = "mcu", coef.iMCU_row_num < T
    PROVE  ArraysInv'
<1> DEFINE i == coef.iMCU_row_num
<1>1. master.pass_type = "main" /\ ~master.transcode
  BY Zenon DEF KindInv
<1>2. /\ coef.iMCU_row_num \in Nat
      /\ \A k \in 1..Len(cinfo.comps) : RightRows(cinfo, k, i, InputRows[k])
  BY InputRowsRight, Zenon
<1>3. Filled = i /\ T \in Nat \ {0}
  BY <1>1, FilledIs
<1>4. Sized(cinfo) /\ i \in 0..T - 1
  BY <1>2, <1>3, SettingsStay, AcceptedIsSized DEF IndInv
<1>5. Filled' = i + 1
  BY <1>1, SMT DEF Filled, SameCounters
<1>6. ASSUME MultiPass(master)
      PROVE  ArraysShaped(cinfo, whole_image') /\ StoredUpTo(cinfo, whole_image', i + 1)
  <2>1. whole_image' = compress_first_pass(cinfo, whole_image, InputRows, i,
                                           i = total_iMCU_rows(cinfo) - 1)
    BY <1>1, <1>6, Zenon DEF FillArrays, IsMainPass, in_last_iMCU_row
  <2> DEFINE rows == InputRows
  <2>2. i \in 0..total_iMCU_rows(cinfo) - 1
    BY <1>4 DEF T
  <2> HIDE DEF i, rows
  <2> QED
    BY <1>2, <1>4, <1>1, <1>3, <1>6, <2>1, <2>2, FirstPassStores DEF rows, ArraysInv
<1> HIDE DEF i
<1> QED
  BY <1>1, <1>5, <1>6, Zenon DEF ArraysInv, MultiPass, SameCounters

LEMMA SendRowData == ASSUME IndInv, DataInv, SendRow PROVE DataInv'
<1>1. /\ pc = "main" /\ main.cur_iMCU_row < T /\ main.rowgroup_ctr = DCTSIZE
      /\ call' = Resume(call) /\ pc' = "mcu" /\ FillArrays
      /\ UNCHANGED << cinfo, global_state, master, scan, done, prep, main, coef >>
  BY Zenon DEF SendRow, InMain, T, Unchanged_in_main
<1>2. /\ TakingLines /\ Active /\ FromApplication
      /\ call \in CallRecord /\ call.by = "lines"
      /\ coef \in CoefRecord /\ coef.iMCU_row_num = main.cur_iMCU_row
  BY <1>1, InMainLoop
<1>3. call'.by = "lines" /\ coef.iMCU_row_num < T
  BY <1>1, <1>2, ResumedCall, Zenon
<1>4. pc # "error" /\ pc' # "main" /\ pc' # "app" /\ call'.by # "crank"
  BY <1>1, <1>3
<1>5. KindInv /\ ArraysInv /\ RowsInv /\ MCUIsIdeal /\ SameCounters(master, master')
  BY <1>1, <1>2, <1>4, DataParts, Zenon
<1>6. KindInv'
  BY <1>1, <1>4, <1>5, KindSame, Zenon DEF KindInv
<1>7. RowsInv'
  BY <1>1, <1>2, <1>5, RowsSame, Zenon
<1>8. MCUIsIdeal' /\ Active'
  BY <1>1, <1>2, <1>5, Zenon DEF MCUIsIdeal, Active
<1> QED
  BY <1>6, <1>1, <1>2, <1>3, <1>5, ArraysFilled, <1>7, <1>8, DataFromParts, Zenon

LEMMA WriteRawDataData == ASSUME IndInv, DataInv, jpeg_write_raw_data PROVE DataInv'
<1>1. /\ pc = "app" /\ global_state = "RAW_OK" /\ next_scanline < cinfo.image_height
      /\ PassStartup /\ FillArrays /\ call' = Resume(Call("raw", 0)) /\ pc' = "mcu"
      /\ UNCHANGED << prep, main, coef, scan, entropy, cinfo, global_state, done >>
  BY Zenon DEF jpeg_write_raw_data, pipeline
<1>2. Active /\ InPass /\ FromApplication /\ Active' /\ pc # "error" /\ pc' # "main" /\ pc' # "app"
  BY <1>1, SMT DEF Active, InPass, FromApplication
<1>3. KindInv /\ ArraysInv /\ RowsInv /\ MCUIsIdeal /\ TypesInv
  BY <1>2, DataParts
<1>4. SameCounters(master, master') /\ master'.transcode = master.transcode
  BY <1>1, <1>2, StartupTranscode
<1>5. coef \in CoefRecord
  BY <1>1, <1>2, Zenon DEF IndInv, MCUInv
<1>6. call'.by # "crank"
  BY NewCall, <1>1, <1>5, ResumedCall
<1>7. KindInv'
  BY <1>1, <1>2, <1>3, <1>4, <1>6, KindSame, Zenon DEF KindInv
<1>8. coef.iMCU_row_num < T
  <2> DEFINE i == coef.iMCU_row_num
             w == mv * DCTSIZE
  <2>1. /\ H \in Nat \ {0} /\ w \in Nat \ {0} /\ T \in Nat \ {0}
        /\ \A k \in Nat : T <= k <=> H <= w * k
    BY <1>2, <1>3, Sizes
  <2>2. next_scanline = i * w /\ next_scanline < H
    BY <1>1, Zenon DEF IndInv, RawInv, H
  <2>3. i \in Nat
    BY <1>5 DEF CoefRecord
  <2> HIDE DEF i, w
  <2>4. ~ H <= w * i
    BY <2>1, <2>2, <2>3
  <2> QED
    BY <2>1, <2>3, <2>4 DEF i
<1>9. ArraysInv'
  BY <1>1, <1>2, <1>3, <1>4, <1>8, ArraysFilled, Zenon
<1> QED
  BY <1>2, <1>7, <1>9, <1>1, NoRows, <1>3, DataFromParts DEF MCUIsIdeal, TakingLines

-----------------------------------------------------------------------------
(* The steps of the coefficient controllers.                                *)

\* What the steps of an iMCU row have in common.
LEMMA InRow ==
    ASSUME IndInv, DataInv, pc \in {"mcu", "rowdone"},
           UNCHANGED << cinfo, global_state, master, scan, prep, whole_image >>
    PROVE  /\ Active /\ Active' /\ InPass /\ TypesInv
           /\ KindInv /\ ArraysInv /\ RowsInv /\ MCUIsIdeal
           /\ SameCounters(master, master') /\ master'.transcode = master.transcode
           /\ (call.by = "crank") = (master.pass_type # "main")
           /\ call.by \in {"lines", "raw", "crank"}
           /\ call.by = "lines" => global_state = "SCANNING"
           /\ call.by = "raw" => global_state = "RAW_OK"
           /\ coef \in CoefRecord /\ coef.iMCU_row_num \in Nat
BY InCoef, DataParts, SMT DEF IndInv, CallInv, KindInv, Active, CallRecord, CoefRecord

LEMMA EncodedMCU ==
    ASSUME DOMAIN done = DoneFields, done.mcus \in Nat, NEW mcu,
           done' = [done EXCEPT !.mcus = @ + 1, !.last = mcu]
    PROVE  done'.mcus = done.mcus + 1 /\ done'.mcus - 1 = done.mcus /\ done'.last = mcu
BY DEF DoneFields

LEMMA EncodeMCUData == ASSUME IndInv, DataInv, encode_mcu PROVE DataInv'
<1>1. /\ pc = "mcu" /\ done' = [done EXCEPT !.mcus = @ + 1, !.last = CurrentMCU]
      /\ UNCHANGED << cinfo, global_state, master, scan, prep, whole_image, main >>
      /\ \/ pc' = pc /\ coef' = coef /\ call' = [call EXCEPT !.MCU_col_num = @ + 1]
         \/ /\ pc' = pc /\ coef' = [coef EXCEPT !.mcu_ctr = 0]
            /\ call' = [call EXCEPT !.yoffset = @ + 1, !.MCU_col_num = 0]
         \/ /\ pc' = "rowdone" /\ call' = call
            /\ coef' = start_iMCU_row(cinfo, scan, coef.iMCU_row_num + 1)
  BY Zenon DEF encode_mcu, UnchangedInCoef
<1>2. pc \in {"mcu", "rowdone"}
  BY <1>1
<1>3. /\ Active /\ Active' /\ InPass /\ TypesInv
      /\ KindInv /\ ArraysInv /\ RowsInv /\ MCUIsIdeal
      /\ SameCounters(master, master') /\ master'.transcode = master.transcode
      /\ (call.by = "crank") = (master.pass_type # "main")
      /\ coef \in CoefRecord /\ coef.iMCU_row_num \in Nat
  BY <1>1, <1>2, InRow, Zenon
<1>4. call \in CallRecord /\ DOMAIN done = DoneFields /\ done.mcus \in Nat
  BY <1>2, InCoef
<1>5. call'.by = call.by
  BY <1>4, <1>1 DEF CallRecord
<1>6. pc' # "app" /\ pc' # "main" /\ pc' # "error" /\ pc' \in {"mcu", "rowdone"}
  BY <1>1
<1>7. Filled \in Int /\ Filled' \in Int /\ Filled' <= Filled
  <2>1. /\ Filled \in Nat /\ T \in Nat
        /\ master.pass_type # "main" => Filled = T
        /\ master.pass_type = "main" => Filled = coef.iMCU_row_num + 1
    BY <1>1, <1>3, FilledIs
  <2>2. CASE master.pass_type # "main"
    BY <1>1, <2>2, <2>1 DEF Filled, T
  <2>3. CASE master.pass_type = "main" /\ pc' = "mcu"
    BY <1>1, <2>3, <1>3, <2>1 DEF CoefRecord, Filled
  <2>4. CASE master.pass_type = "main" /\ pc' = "rowdone"
    BY <1>1, <2>4, <1>3, <2>1 DEF start_iMCU_row, Filled
  <2> QED
    BY <1>6, <2>2, <2>3, <2>4
<1>8. ArraysInv'
  BY <1>1, <1>3, <1>7, ArraysSame, Zenon
<1>9. RowsInv'
  BY <1>1, <1>5, <1>6, <1>3, RowsSame DEF TakingLines
<1>10. MCUIsIdeal'
  BY <1>1, <1>3, CurrentIsIdeal, <1>4, EncodedMCU DEF MCUIsIdeal
<1> QED
  BY <1>3, <1>1, <1>5, <1>6, KindSame, <1>8, <1>9, <1>10, DataFromParts, Zenon

\* "update state counters and exit"
LEMMA SuspendedData ==
    ASSUME IndInv, DataInv, Suspend, call.by # "crank", pc' = "app", done' = done,
           main'.buffer = main.buffer, main'.cur_iMCU_row = main.cur_iMCU_row,
           main'.rowgroup_ctr = main.rowgroup_ctr
    PROVE  DataInv'
<1>1. /\ pc = "mcu"
      /\ coef' = [coef EXCEPT !.MCU_vert_offset = call.yoffset, !.mcu_ctr = call.MCU_col_num]
      /\ UNCHANGED << cinfo, global_state, master, scan, prep, whole_image >>
  BY Zenon DEF Suspend, UnchangedInCoef
<1>2. pc \in {"mcu", "rowdone"} /\ pc' \notin {"mcu", "rowdone"} /\ pc' # "main" /\ pc' # "error"
  BY <1>1
<1>3. /\ Active /\ Active' /\ InPass /\ TypesInv
      /\ KindInv /\ ArraysInv /\ RowsInv /\ MCUIsIdeal
      /\ SameCounters(master, master') /\ master'.transcode = master.transcode
      /\ (call.by = "crank") = (master.pass_type # "main")
      /\ call.by \in {"lines", "raw", "crank"}
      /\ call.by = "raw" => global_state = "RAW_OK"
      /\ coef \in CoefRecord /\ coef.iMCU_row_num \in Nat
  BY <1>1, <1>2, InRow, Zenon
<1>4. master.pass_type = "main"
  BY <1>3
<1>5. ArraysInv'
  BY <1>1, <1>3, <1>4, FilledIs, ArraysSame DEF CoefRecord, Filled
<1>6. RowsInv'
  BY <1>1, <1>3, RowsSame DEF TakingLines
<1>7. MCUIsIdeal'
  BY <1>1, <1>3, Zenon DEF MCUIsIdeal
<1> QED
  BY <1>3, <1>1, <1>2, <1>4, KindSame, <1>5, <1>6, <1>7, DataFromParts, Zenon

LEMMA SuspendData == ASSUME IndInv, DataInv, SuspendLines \/ SuspendRaw PROVE DataInv'
<1>1. main'.buffer = main.buffer /\ main'.cur_iMCU_row = main.cur_iMCU_row
      /\ main'.rowgroup_ctr = main.rowgroup_ctr
  <2>1. CASE SuspendRaw
    BY <2>1, Zenon DEF SuspendRaw
  <2>2. CASE SuspendLines
    BY <2>2, InCoef, SMT DEF SuspendLines, Suspend, IndInv, CallInv, MainOK, MainFields
  <2> QED
    BY <2>1, <2>2
<1> QED
  BY <1>1, SuspendedData DEF SuspendLines, SuspendRaw

LEMMA RowDoneRawData == ASSUME IndInv, DataInv, RowDoneRaw PROVE DataInv'
<1>1. /\ pc = "rowdone" /\ call.by = "raw" /\ pc' = "app"
      /\ UNCHANGED << cinfo, global_state, master, scan, prep, whole_image, coef, main, done >>
  BY Zenon DEF RowDoneRaw, UnchangedInCoef
<1>2. pc \in {"mcu", "rowdone"} /\ pc' \notin {"mcu", "rowdone"} /\ pc' # "main" /\ pc' # "error"
      /\ call.by # "crank"
  BY <1>1
<1>3. /\ Active /\ Active' /\ InPass /\ TypesInv
      /\ KindInv /\ ArraysInv /\ RowsInv /\ MCUIsIdeal
      /\ SameCounters(master, master') /\ master'.transcode = master.transcode
      /\ (call.by = "crank") = (master.pass_type # "main")
      /\ global_state = "RAW_OK"
      /\ coef \in CoefRecord /\ coef.iMCU_row_num \in Nat
  BY <1>1, <1>2, InRow, Zenon
<1>4. master.pass_type = "main"
  BY <1>2, <1>3
<1>5. ArraysInv'
  BY <1>1, <1>3, <1>4, FilledIs, ArraysSame DEF Filled
<1>6. RowsInv'
  BY <1>1, <1>3, NoRows DEF TakingLines
<1>7. MCUIsIdeal'
  BY <1>1, <1>3, Zenon DEF MCUIsIdeal
<1> QED
  BY <1>3, <1>1, <1>2, <1>4, KindSame, <1>5, <1>6, <1>7, DataFromParts, Zenon

LEMMA RowDoneCrankData == ASSUME IndInv, DataInv, RowDoneCrank PROVE DataInv'
<1>1. /\ pc = "rowdone" /\ call.by = "crank"
      /\ (pc' = "mcu" /\ call' = Resume(call)) \/ (pc' = "finish_pass" /\ call' = call)
      /\ UNCHANGED << cinfo, global_state, master, scan, prep, whole_image, coef, main, done >>
  BY Zenon DEF RowDoneCrank, UnchangedInCoef
<1>2. pc \in {"mcu", "rowdone"} /\ pc' # "app" /\ pc' # "main" /\ pc' # "rowdone" /\ pc' # "error"
  BY <1>1
<1>3. /\ Active /\ Active' /\ InPass /\ TypesInv
      /\ KindInv /\ ArraysInv /\ RowsInv /\ MCUIsIdeal
      /\ SameCounters(master, master') /\ master'.transcode = master.transcode
      /\ (call.by = "crank") = (master.pass_type # "main")
      /\ coef \in CoefRecord /\ coef.iMCU_row_num \in Nat
  BY <1>1, <1>2, InRow, Zenon
<1>4. call'.by = "crank"
  BY <1>2, InCoef, <1>1, <1>3, ResumedCall
<1>5. Filled \in Int /\ Filled' \in Int /\ Filled' <= Filled
  BY <1>3, <1>1, FilledIs DEF Filled, T
<1>6. ArraysInv'
  BY <1>1, <1>3, <1>5, ArraysSame, Zenon
<1>7. RowsInv'
  BY <1>2, <1>4, NoRows DEF TakingLines
<1>8. MCUIsIdeal'
  BY <1>1, <1>3, Zenon DEF MCUIsIdeal
<1> QED
  BY <1>3, <1>1, <1>2, <1>4, KindSame, <1>6, <1>7, <1>8, DataFromParts, Zenon

\* "mark the main buffer empty"
LEMMA RowDoneLinesData == ASSUME IndInv, DataInv, RowDoneLines PROVE DataInv'
<1>1. /\ pc = "rowdone" /\ call.by = "lines" /\ pc' = "main"
      /\ main' = [main EXCEPT !.suspended = FALSE, !.rowgroup_ctr = 0, !.cur_iMCU_row = @ + 1]
      /\ UNCHANGED << cinfo, global_state, master, scan, prep, whole_image, coef, done >>
  BY Zenon DEF RowDoneLines, UnchangedInCoef
<1>2. pc \in {"mcu", "rowdone"} /\ pc' \notin {"mcu", "rowdone"} /\ pc' # "app" /\ pc' # "error"
      /\ call.by # "crank"
  BY <1>1
<1>3. /\ Active /\ Active' /\ InPass /\ TypesInv
      /\ KindInv /\ ArraysInv /\ RowsInv /\ MCUIsIdeal
      /\ SameCounters(master, master') /\ master'.transcode = master.transcode
      /\ (call.by = "crank") = (master.pass_type # "main")
      /\ global_state = "SCANNING"
      /\ coef \in CoefRecord /\ coef.iMCU_row_num \in Nat
  BY <1>1, <1>2, InRow, Zenon
<1>4. master.pass_type = "main"
  BY <1>2, <1>3
<1>5. ArraysInv'
  BY <1>1, <1>3, <1>4, FilledIs, ArraysSame DEF Filled
<1>6. RowsInv'
  <2>1. TakingLines
    BY <1>1, <1>3, SMT DEF TakingLines
  <2>2. /\ NothingWaits /\ DOMAIN main = MainFields /\ main.cur_iMCU_row \in 0..T
        /\ main.rowgroup_ctr \in 0..DCTSIZE
    BY <2>1, InLines
  <2>3. BufferRight(cinfo, main.buffer, main.cur_iMCU_row, main.rowgroup_ctr) /\ ColorBufInv
    BY <1>3, <2>1, Zenon DEF RowsInv
  <2>4. main'.buffer = main.buffer /\ main'.cur_iMCU_row = main.cur_iMCU_row + 1
        /\ main'.rowgroup_ctr = 0
    BY <1>1, <2>2, SMT DEF MainFields
  <2>5. BufferRight(cinfo, main.buffer, main'.cur_iMCU_row, 0)
    <3> DEFINE buffer == main.buffer
               cur == main'.cur_iMCU_row
    <3>1. /\ DOMAIN buffer = 1..Len(cinfo.comps)
          /\ \A k \in 1..Len(cinfo.comps) : DOMAIN buffer[k] = 0..cinfo.comps[k].v * DCTSIZE - 1
      BY <2>3, Zenon DEF BufferRight
    <3> HIDE DEF buffer, cur
    <3>2. BufferRight(cinfo, buffer, cur, 0)
      BY <1>3, SettingsStay, AcceptedIsSized, <3>1, EmptyBufferRight, Zenon
    <3> QED
      BY <3>2 DEF buffer, cur
  <2>6. Groups' = Groups
    BY <1>3, Sizes, <2>2, <1>2, <2>4 DEF Groups, NothingWaits
  <2> QED
    BY <1>1, <2>4, <2>5, <2>3, <2>6, Zenon DEF RowsInv, ColorBufInv, H, mv, Gap
<1>7. MCUIsIdeal'
  BY <1>1, <1>3, Zenon DEF MCUIsIdeal
<1> QED
  BY <1>3, <1>1, <1>2, <1>4, KindSame, <1>5, <1>6, <1>7, DataFromParts, Zenon

-----------------------------------------------------------------------------
(* The start of an image.                                                   *)

LEMMA SameFraction ==
    ASSUME NEW c, NEW d, SameImage(c, d)
    PROVE  FractionalSampling(d) <=> FractionalSampling(c)
BY SameSetup, Zenon DEF SameImage, MaxH, FractionalSampling

\* The buffers before the first row of an image.
LEMMA BufferBegins ==
    ASSUME NEW c, Sized(c), main' = [NewMain EXCEPT !.buffer = EmptyBuffer(c)], cinfo' = c
    PROVE  /\ BufferRight(cinfo', main'.buffer, main'.cur_iMCU_row, main'.rowgroup_ctr)
           /\ main'.cur_iMCU_row = 0 /\ main'.rowgroup_ctr = 0
<1> DEFINE b == EmptyBuffer(c)
<1>1. /\ DOMAIN b = 1..Len(c.comps)
      /\ \A k \in 1..Len(c.comps) : DOMAIN b[k] = 0..c.comps[k].v * DCTSIZE - 1
  BY Zenon DEF EmptyBuffer
<1>2. main' = [NewMain EXCEPT !.buffer = b]
  OBVIOUS
<1> HIDE DEF b
<1>3. BufferRight(c, b, 0, 0)
  BY <1>1, EmptyBufferRight, Zenon
<1> QED
  BY <1>2, <1>3, SMT DEF NewMain

LEMMA ColorBufBegins ==
    ASSUME Sized(cinfo'), prep' = start_pass_prep(cinfo'),
           main'.cur_iMCU_row = 0, main'.rowgroup_ctr = 0
    PROVE  ColorBufInv'
<1> DEFINE h == cinfo'.image_height
           v == MaxV(cinfo')
           buf == [r \in 0..BufRows(cinfo') - 1 |-> Nothing]
<1>1. h \in Nat \ {0} /\ v \in Nat \ {0} /\ DCTSIZE \in Nat \ {0}
  BY MaxSampling, SetupAssumption, Zenon DEF Sized
<1>2. H' = h /\ mv' = v
  BY Zenon DEF H, mv
<1>3. prep' = [rows_to_go |-> h, next_buf_row |-> 0, this_row_group |-> 0,
               next_buf_stop |-> 2 * v, color_buf |-> buf]
  BY Zenon DEF start_pass_prep
<1>4. DOMAIN buf = 0..BufRows(cinfo') - 1
  BY Zenon
<1> HIDE DEF h, v, buf
<1>5. /\ prep'.rows_to_go = h /\ prep'.next_buf_row = 0 /\ prep'.this_row_group = 0
      /\ prep'.next_buf_stop = 2 * v /\ prep'.color_buf = buf
  BY <1>3, SMT
<1>6. << prep'.this_row_group, prep'.next_buf_stop >> \in {<< 0, 2 * v >>, << v, 3 * v >>, << 2 * v, v >>}
  BY <1>5, Zenon
<1>7. prep'.rows_to_go # 0 /\ ~ prep'.rows_to_go < H'
  BY <1>1, <1>2, <1>5
<1> QED
  BY <1>2, <1>4, <1>5, <1>6, <1>7 DEF ColorBufInv, Consecutive

\* The parameters an image begins with, once jinit_c_master_control and
\* per_scan_setup have changed them.
LEMMA BeginningParameters ==
    ASSUME IndInv, Idle, ~BadParameters(cinfo),
           cinfo' = WithRestart(Optimizing(cinfo), Setup(cinfo, 0))
    PROVE  /\ SameData(cinfo, cinfo') /\ SameData(Optimizing(cinfo), cinfo')
           /\ cinfo'.raw_data_in = cinfo.raw_data_in
           /\ Optimizing(cinfo).raw_data_in = cinfo.raw_data_in
           /\ Sized(cinfo') /\ Sized(Optimizing(cinfo)) /\ Accepted(Optimizing(cinfo))
           /\ start_pass_prep(Optimizing(cinfo)) = start_pass_prep(cinfo')
           /\ EmptyBuffer(Optimizing(cinfo)) = EmptyBuffer(cinfo')
           /\ Setup(cinfo, 0).MCUs_per_row \in Nat
<1> DEFINE c == Optimizing(cinfo)
           s == Setup(cinfo, 0)
<1>1. cinfo \in ParameterSet /\ Accepted(cinfo)
  BY AtRest, Zenon DEF Accepted
<1>2. c \in ParameterSet /\ SameImage(cinfo, c) /\ Accepted(c) /\ c.raw_data_in = cinfo.raw_data_in
      /\ c.need_context_rows = cinfo.need_context_rows
  BY <1>1, MasterParameters, StaysAccepted, Zenon
<1> HIDE DEF c
<1>3. s.MCUs_per_row \in Nat
  BY <1>1, ScansCounted, ScanRows
<1>4. cinfo' = WithRestart(c, s)
  BY DEF c
<1> HIDE DEF s
<1>5. /\ SameImage(c, cinfo') /\ cinfo' \in ParameterSet
      /\ cinfo'.raw_data_in = c.raw_data_in /\ cinfo'.need_context_rows = c.need_context_rows
  BY <1>2, <1>3, RestartParameters, <1>4
<1>6. SameImage(cinfo, cinfo')
  BY <1>2, <1>5, SameImageTwice, Zenon
<1>7. Sized(c) /\ Sized(cinfo')
  BY <1>1, <1>5, <1>6, StaysAccepted, <1>2, AcceptedIsSized
<1>8. start_pass_prep(c) = start_pass_prep(cinfo') /\ EmptyBuffer(c) = EmptyBuffer(cinfo')
  BY <1>5, SameSetup, Zenon DEF start_pass_prep, EmptyBuffer, BufRows, SameImage
<1> QED
  BY <1>2, <1>3, <1>5, <1>6, <1>7, <1>8, Zenon DEF SameData, c, s

LEMMA StartCompressData ==
    ASSUME IndInv, NEW all \in BOOLEAN, jpeg_start_compress(all)
    PROVE  DataInv'
<1> DEFINE c == Optimizing(cinfo)
           s == Setup(cinfo, 0)
           m == jinit_c_master_control(c, FALSE)
           w == WithTables(all)
           b == ~c.optimize_coding
           l == [m EXCEPT !.call_pass_startup = b]
<1>1. /\ Idle /\ ~BadParameters(cinfo) /\ ~CannotDownsample(cinfo)
      /\ StartMainPass(c, s, w)
      /\ global_state' = IF cinfo.raw_data_in THEN "RAW_OK" ELSE "SCANNING"
      /\ done' = NothingDone(all) /\ pc' = pc
  BY Zenon DEF jpeg_start_compress
<1>2. /\ cinfo' = WithRestart(c, s)
      /\ master' = IsLast(l) /\ coef' = start_iMCU_row(c, s, 0)
      /\ whole_image' = IF MultiPass(master') THEN EmptyArrays(c) ELSE << >>
      /\ ~c.raw_data_in =>
            prep' = start_pass_prep(c) /\ main' = [NewMain EXCEPT !.buffer = EmptyBuffer(c)]
  BY <1>1, Zenon DEF StartMainPass
<1>3. pc' = "app"
  BY <1>1, AtRest, Zenon
<1>4. /\ SameData(cinfo, cinfo') /\ SameData(c, cinfo')
      /\ cinfo'.raw_data_in = cinfo.raw_data_in /\ c.raw_data_in = cinfo.raw_data_in
      /\ Sized(cinfo') /\ Sized(c) /\ Accepted(c)
      /\ start_pass_prep(c) = start_pass_prep(cinfo')
      /\ EmptyBuffer(c) = EmptyBuffer(cinfo')
  BY <1>1, <1>2, BeginningParameters, Zenon
<1> HIDE DEF c, s, w
<1>5. m \in MasterRecord /\ m.pass_type = "main" /\ m.transcode = FALSE
  BY <1>4, NewMaster DEF jinit_c_master_control
<1> HIDE DEF m
<1>6. b \in BOOLEAN
  OBVIOUS
<1> HIDE DEF b
<1>7. l \in MasterRecord /\ l.pass_type = "main" /\ l.transcode = FALSE
  BY <1>5, <1>6, MasterStartup, KindOfMaster, Zenon DEF SameCounters
<1> HIDE DEF l
<1>8. master'.pass_type = "main" /\ master'.transcode = FALSE
  BY <1>6, <1>7, MasterLast, KindOfMaster, <1>2, Zenon
<1>9. /\ global_state' \in {"SCANNING", "RAW_OK"} /\ Active' /\ FromApplication'
      /\ global_state' # "WRCOEFS"
      /\ (global_state' = "RAW_OK") = cinfo.raw_data_in
      /\ (global_state' = "SCANNING") => ~cinfo.raw_data_in
  BY <1>1, AtRest, ParameterTypes DEF Active, FromApplication
<1>10. KindInv'
  BY <1>4, SameFraction, <1>1, <1>9, <1>8, <1>3 DEF SameData, CannotDownsample, KindInv
<1>11. ArraysInv'
  <2>1. ASSUME MultiPass(master')
        PROVE  ArraysShaped(cinfo', whole_image') /\ StoredUpTo(cinfo', whole_image', 0)
    <3> DEFINE a == EmptyArrays(c)
               z == 0
    <3>1. whole_image' = a
      BY <1>2, <2>1, Zenon
    <3>2. ArraysShaped(c, a) /\ StoredUpTo(c, a, z)
      BY <1>4, EmptyIsShaped
    <3>3. z \in Int /\ z <= z
      OBVIOUS
    <3> HIDE DEF a, z
    <3>4. ArraysShaped(cinfo', a) /\ StoredUpTo(cinfo', a, z)
      BY <1>4, <3>2, <3>3, SameStored
    <3> QED
      BY <3>1, <3>4 DEF z
  <2> QED
    BY <1>8, <1>3, <1>2, <2>1 DEF ArraysInv, Filled, start_iMCU_row
<1>12. RowsInv'
  <2>1. CASE global_state' = "SCANNING"
    <3>1. prep' = start_pass_prep(cinfo') /\ main' = [NewMain EXCEPT !.buffer = EmptyBuffer(cinfo')]
      BY <1>2, <1>4, <1>9, <2>1
    <3> DEFINE d == cinfo'
    <3> HIDE DEF d
    <3> QED
      BY <1>4, <3>1, BufferBegins, ColorBufBegins DEF RowsInv
  <2>2. CASE global_state' # "SCANNING"
    BY <2>2, Zenon DEF RowsInv, TakingLines
  <2> QED
    BY <2>1, <2>2
<1> QED
  BY <1>9, <1>1, NothingEncoded, <1>10, <1>11, <1>12, DataFromParts DEF NothingDone

LEMMA WriteCoefficientsData == ASSUME IndInv, jpeg_write_coefficients PROVE DataInv'
<1> DEFINE c == Optimizing(cinfo)
           m == jinit_c_master_control(c, TRUE)
<1>1. /\ Idle /\ ~BadParameters(cinfo) /\ cinfo' = c /\ master' = m
      /\ whole_image' = IdealArrays(cinfo) /\ global_state' = "WRCOEFS"
      /\ done' = NothingDone(TRUE) /\ pc' = pc
  BY Zenon DEF jpeg_write_coefficients
<1>2. cinfo \in ParameterSet /\ Accepted(cinfo) /\ pc = "app"
  BY <1>1, AtRest, Zenon DEF Accepted
<1>3. SameData(cinfo, c) /\ Accepted(c)
  BY <1>2, MasterParameters, StaysAccepted, Zenon DEF SameData
<1> HIDE DEF c
<1>4. m.transcode = TRUE /\ m.pass_type # "main"
  <2>1. m.pass_type = (IF Optimizes(c) THEN "huff_opt" ELSE "output")
    BY <1>3, NewMaster, Zenon
  <2>2. m.transcode = TRUE
    BY SMT DEF jinit_c_master_control
  <2> HIDE DEF m
  <2> QED
    BY <2>2, <2>1
<1> HIDE DEF m
<1>5. /\ global_state' # "SCANNING" /\ ~FromApplication' /\ Active'
      /\ pc' # "main" /\ pc' # "mcu" /\ pc' # "rowdone"
  BY <1>1, <1>2, SMT DEF FromApplication, Active
<1>6. ArraysInv'
  BY <1>3, SameIdeal, <1>1, <1>4 DEF ArraysInv
<1>7. RowsInv'
  BY <1>5, Zenon DEF RowsInv, TakingLines
<1> QED
  BY <1>5, <1>1, NothingEncoded, <1>4, <1>6, <1>7, DataFromParts DEF KindInv, NothingDone

-----------------------------------------------------------------------------
(* The end of the data, and of each pass.                                   *)

LEMMA FinishCompressData == ASSUME IndInv, DataInv, jpeg_finish_compress PROVE DataInv'
<1>1. /\ pc = "app" /\ Active /\ Active' /\ call' = Call("crank", 0)
      /\ UNCHANGED << cinfo, global_state, next_scanline, master, done, prep, main, coef, scan,
                      entropy, whole_image >>
      /\ pc' \in {"passes", "finish_pass", "error"}
      /\ global_state = "WRCOEFS" => pc' = "passes"
      /\ pc' = "finish_pass" => ~ next_scanline < cinfo.image_height
      /\ global_state # "WRCOEFS" => pc' # "passes"
  BY SMT DEF jpeg_finish_compress, pipeline, Active
<1>2. /\ pc # "error" /\ pc' # "app" /\ pc' # "main" /\ pc' # "mcu" /\ pc' # "rowdone"
  BY <1>1
<1>3. /\ KindInv /\ ArraysInv /\ RowsInv /\ MCUIsIdeal /\ TypesInv
      /\ SameCounters(master, master')
  BY <1>1, <1>2, DataParts, Zenon
<1>4. MCUIsIdeal' /\ LastInv'
  BY <1>1, <1>3, Zenon DEF MCUIsIdeal, LastInv
<1>5. CASE pc' = "error"
  BY <1>4, <1>5, NoData, Zenon
<1>6. CASE pc' # "error"
  <2>1. Filled = T /\ T \in Nat
    <3>1. T \in Nat /\ (master.pass_type # "main" => Filled = T)
      BY <1>1, <1>3, FilledIs
    <3>2. CASE master.pass_type = "main"
      <4>1. global_state \in {"SCANNING", "RAW_OK"}
        BY <3>2, <1>3, <1>1 DEF KindInv, TypesInv, Active
      <4>2. next_scanline >= cinfo.image_height
        BY <1>1, <1>6, <4>1, <1>3, SettingsStay, ParameterTypes
      <4>3. Filled = coef.iMCU_row_num
        BY <1>1, <1>3, <3>2, FilledIs
      <4> QED
        BY <3>1, <1>1, <4>1, <4>2, TakenEncoded, <4>3, Zenon
    <3> QED
      BY <3>1, <3>2
  <2>2. ArraysInv'
    BY <1>1, <1>3, <2>1, <1>2, ArraysSame DEF Filled, T
  <2> QED
    BY <1>1, <1>4, <1>2, <1>3, KindSame, <2>2, DataFromParts, Zenon DEF RowsInv,
       TakingLines
<1> QED
  BY <1>5, <1>6

\* At the end of a pass and between passes everything is stored.
LEMMA StoredBetween ==
    ASSUME IndInv, DataInv, pc \in {"finish_pass", "passes"}
    PROVE  /\ Active /\ TypesInv /\ KindInv /\ ArraysInv /\ MCUIsIdeal
           /\ Filled = T /\ T \in Nat /\ call.by = "crank" /\ master \in MasterRecord
           /\ Sized(cinfo) /\ cinfo \in ParameterSet
BY DataParts, FilledIs, SettingsStay, AcceptedIsSized DEF IndInv, CallInv

LEMMA FinishPassData == ASSUME IndInv, DataInv, finish_pass_master PROVE DataInv'
<1> DEFINE n == NextPass(master, Opt)
           sn == master.scan_number
<1>1. /\ pc = "finish_pass" /\ pc' = "passes" /\ master' = n
      /\ done' = done \/ done' = [done EXCEPT !.scans = Append(@, sn)]
      /\ UNCHANGED << cinfo, global_state, call, scan, whole_image >>
  BY Zenon DEF finish_pass_master, pipeline, Opt
<1>2. /\ Active /\ TypesInv /\ KindInv /\ ArraysInv /\ MCUIsIdeal /\ Filled = T /\ T \in Nat
      /\ master \in MasterRecord /\ Sized(cinfo) /\ cinfo \in ParameterSet
      /\ SameData(cinfo, cinfo')
  BY <1>1, StoredBetween, SameDataAgain, Zenon
<1>3. /\ n \in MasterRecord
      /\ n.pass_type = (IF master.pass_type = "output" /\ Opt THEN "huff_opt" ELSE "output")
      /\ n.scan_number = (IF master.pass_type = "output" \/ (master.pass_type = "main" /\ ~Opt)
                          THEN sn + 1 ELSE sn)
      /\ n.total_passes = master.total_passes /\ n.transcode = master.transcode
  BY <1>2, ParameterTypes, NextPassIs, KindOfMaster, Zenon DEF Opt
<1> HIDE DEF n
<1>4. done'.mcus = done.mcus /\ done'.last = done.last
  BY <1>2, SettingsStay, <1>1 DEF DoneFields
<1>5. /\ n.pass_type # "main" /\ pc' # "app" /\ pc' # "main" /\ pc' # "mcu" /\ pc' # "rowdone"
  BY <1>1, <1>3
<1>6. ~Opt => n.scan_number > 0
  BY <1>2, <1>3 DEF MasterRecord, IndInv, PassInv, PassCounted, PassTypes
<1>7. KindInv'
  BY <1>1, <1>2, <1>3, <1>5, <1>6, KindStays, Zenon DEF Opt, SameData
<1>8. ArraysInv'
  BY <1>1, <1>5, <1>2, <1>3, ArraysStay DEF Filled, T
<1>9. RowsInv'
  BY <1>5, Zenon DEF RowsInv, TakingLines
<1>10. Active'
  BY <1>1, <1>2, Zenon DEF Active
<1> QED
  BY <1>1, <1>2, <1>4, IdealKept, <1>7, <1>8, <1>9, <1>10, DataFromParts, Zenon

-----------------------------------------------------------------------------
(* The start of a later pass, for any counters m.                           *)

LEMMA PassBeginsData ==
    ASSUME IndInv, DataInv, More, NEW m \in MasterRecord, m.pass_type # "main",
           m.scan_number = master.scan_number, m.total_passes = master.total_passes,
           m.transcode = master.transcode, master' = IsLast(m),
           NEW s, s = Setup(cinfo, master.scan_number), cinfo' = WithRestart(cinfo, s),
           done' = NewPass, call' = [call EXCEPT !.yoffset = 0, !.MCU_col_num = 0],
           global_state' = global_state, whole_image' = whole_image,
           pc' \in {"mcu", "error"}
    PROVE  DataInv'
<1>1. /\ pc = "passes" /\ master.pass_type # "main" /\ call \in CallRecord /\ call.by = "crank"
      /\ Active /\ TypesInv
  BY NextScanIs, Zenon DEF More
<1>2. /\ KindInv /\ ArraysInv /\ MCUIsIdeal
      /\ Filled = T /\ T \in Nat /\ Sized(cinfo)
  BY <1>1, StoredBetween
<1>3. /\ cinfo \in ParameterSet /\ cinfo' \in ParameterSet /\ SameImage(cinfo, cinfo') /\ Opt' = Opt
  BY PassSettings, Zenon
<1>4. /\ cinfo'.raw_data_in = cinfo.raw_data_in /\ SameData(cinfo, cinfo')
  BY NextScanIs, <1>3, ScanRows, RestartParameters DEF SameData
<1>5. /\ master'.pass_type = m.pass_type /\ master'.scan_number = m.scan_number
      /\ master'.total_passes = m.total_passes /\ master'.transcode = m.transcode
  BY MasterLast, KindOfMaster
<1>6. call'.by = "crank"
  BY <1>1, CallAtStart, Zenon
<1>7. LastInv' /\ MCUIsIdeal'
  BY <1>1, SettingsStay, NothingEncoded DEF NewPass, DoneFields
<1>8. CASE pc' = "error"
  BY <1>7, <1>8, NoData, Zenon
<1>9. CASE pc' = "mcu"
  <2>1. pc' # "app" /\ pc' # "main" /\ pc' # "rowdone"
    BY <1>9
  <2>2. master'.pass_type # "main"
    BY <1>5, Zenon
  <2>3. KindInv'
    BY <1>2, <1>3, <1>4, <1>5, <1>6, <2>1, <2>2, <1>1, KindStays, Zenon DEF KindInv
  <2>4. Filled \in Int /\ Filled' \in Int /\ Filled' <= Filled
    BY <1>2, <2>2, <1>3, SameSetup DEF Filled, T
  <2>5. ArraysInv'
    BY <1>2, <1>4, <1>5, <2>4, ArraysStay, Zenon
  <2> QED
    BY <1>1, <1>7, <2>3, <2>5, <1>6, <2>1, DataFromParts DEF Active, RowsInv, TakingLines
<1> QED
  BY <1>8, <1>9

LEMMA PrepareHuffOptData == ASSUME IndInv, DataInv, PrepareHuffOpt PROVE DataInv'
<1> DEFINE m == [master EXCEPT !.call_pass_startup = FALSE]
           s == Setup(cinfo, master.scan_number)
<1>1. /\ More /\ master.pass_type = "huff_opt" /\ cinfo' = WithRestart(cinfo, s)
      /\ master' = IsLast(m) /\ done' = NewPass
      /\ call' = [call EXCEPT !.yoffset = 0, !.MCU_col_num = 0] /\ pc' = "mcu"
      /\ global_state' = global_state /\ whole_image' = whole_image
  BY Zenon DEF PrepareHuffOpt, NextScan
<1>2. SameCounters(master, m) /\ m.transcode = master.transcode
  BY <1>1, NextScanIs, SettingsStay, MasterStartup, KindOfMaster
<1> HIDE DEF m
<1>3. pc' \in {"mcu", "error"} /\ s = Setup(cinfo, master.scan_number)
  BY <1>1
<1> HIDE DEF s
<1> QED
  BY <1>1, <1>2, <1>3, PassBeginsData DEF SameCounters

LEMMA PrepareOutputData == ASSUME IndInv, DataInv, PrepareOutput PROVE DataInv'
<1> DEFINE m == OutputPass
           s == OutputScan
<1>1. /\ IsOutputPass /\ More /\ cinfo' = WithRestart(cinfo, s)
      /\ master' = IsLast(m) /\ done' = NewPass
      /\ call' = [call EXCEPT !.yoffset = 0, !.MCU_col_num = 0]
      /\ pc' = "mcu" \/ pc' = "error"
      /\ global_state' = global_state /\ whole_image' = whole_image
  BY Zenon DEF PrepareOutput, IsOutputPass, FailsWithin
<1>2. /\ m \in MasterRecord /\ m.pass_type = "output"
      /\ m.scan_number = master.scan_number /\ m.total_passes = master.total_passes
      /\ s = Setup(cinfo, master.scan_number)
  BY <1>1, OutputPassIs
<1>3. m.transcode = master.transcode
  BY <1>1, NextScanIs, SettingsStay DEF OutputPass, MasterRecord
<1> HIDE DEF m, s
<1> QED
  BY <1>1, <1>2, <1>3, PassBeginsData

-----------------------------------------------------------------------------

LEMMA NextData == ASSUME IndInv, DataInv, Next PROVE DataInv'
<1>1. CASE Tables \/ BadScan \/ (\E all \in BOOLEAN : StartFails(all))
  BY <1>1, IdleData
<1>2. CASE GaveUp \/ Trailer \/ jpeg_abort_compress
  BY <1>2, EndData
<1>3. CASE \E all \in BOOLEAN : jpeg_start_compress(all)
  BY <1>3, StartCompressData
<1>4. CASE jpeg_write_coefficients
  BY <1>4, WriteCoefficientsData
<1>5. CASE \E n \in 1..MaxRows : jpeg_write_scanlines(n)
  BY <1>5, WriteScanlinesData
<1>6. CASE jpeg_write_raw_data \/ SendRow \/ ReturnLines
  BY <1>6, WriteRawDataData, SendRowData, ReturnLinesData, Zenon
<1>7. CASE pre_process_data \/ pre_process_context
  BY <1>7, PreProcessing
<1>8. CASE encode_mcu \/ SuspendLines \/ SuspendRaw
  BY <1>8, EncodeMCUData, SuspendData, Zenon
<1>9. CASE RowDoneLines \/ RowDoneRaw \/ RowDoneCrank
  BY <1>9, RowDoneLinesData, RowDoneRawData, RowDoneCrankData, Zenon
<1>10. CASE jpeg_finish_compress \/ finish_pass_master
  BY <1>10, FinishCompressData, FinishPassData, Zenon
<1>11. CASE PrepareHuffOpt \/ PrepareOutput
  BY <1>11, PrepareHuffOptData, PrepareOutputData, Zenon
<1> QED
  BY <1>1, <1>2, <1>3, <1>4, <1>5, <1>6, <1>7, <1>8, <1>9, <1>10, <1>11, Zenon
     DEF Next, Start, Data, Coefficients, Finish, GaveUp

LEMMA DataInvHolds == Spec => [](IndInv /\ DataInv)
<1>1. Init => IndInv /\ DataInv
  BY InitInd, InitData, Zenon
<1>2. IndInv /\ DataInv /\ [Next]_vars => (IndInv /\ DataInv)'
  <2>1. ASSUME IndInv, DataInv, Next PROVE IndInv' /\ DataInv'
    BY <2>1, NextInd, NextData
  <2>2. ASSUME IndInv, DataInv, UNCHANGED vars PROVE IndInv' /\ DataInv'
    BY <2>2, StutterInd, StutterData, Zenon
  <2> QED
    BY <2>1, <2>2, Zenon
<1> QED
  BY <1>1, <1>2, PTL DEF Spec

\* Every MCU given to the entropy encoder is the one that belongs at its place of
\* the scan: compress_data, compress_first_pass, compress_output and the transcoding
\* compress_output, after pre_process_data or pre_process_context and through any
\* suspensions, make the same blocks of the same rows.
THEOREM MCUIsIdealHolds == Spec => []MCUIsIdeal
<1>1. IndInv /\ DataInv => MCUIsIdeal
  BY Zenon DEF DataInv
<1> QED
  BY <1>1, DataInvHolds, PTL

-----------------------------------------------------------------------------
(* The scripts of jpeg_simple_progression.                                  *)

ScanRecord == [comps : Seq(Int), Ss : Int, Se : Int, Ah : Int, Al : Int]

(* The walk of validate_script through a part of a script.                 *)
WalksOn(w, from, script, ncomps) ==
    /\ w[0] = from
    /\ \A k \in 1..Len(script) : w[k] = Follow(w[k - 1], script[k], ncomps, TRUE)
Leads(from, script, to, ncomps) ==
    \E w : WalksOn(w, from, script, ncomps) /\ w[Len(script)] = to

LEMMA OneLeads ==
    ASSUME NEW s, NEW from, NEW n
    PROVE  Leads(from, << s >>, Follow(from, s, n, TRUE), n)
<1> DEFINE w == [k \in 0..1 |-> IF k = 0 THEN from ELSE Follow(from, s, n, TRUE)]
<1>1. w[0] = from /\ w[1] = Follow(from, s, n, TRUE)
  OBVIOUS
<1> HIDE DEF w
<1>2. Len(<< s >>) = 1 /\ << s >>[1] = s /\ 1 - 1 = 0 /\ \A k \in 1..1 : k = 1
  OBVIOUS
<1> QED
  BY <1>1, <1>2, Zenon DEF Leads, WalksOn

LEMMA LeadsOn ==
    ASSUME NEW a, NEW b, NEW c, NEW n, NEW s \in Seq(ScanRecord), NEW t \in Seq(ScanRecord),
           Leads(a, s, b, n), Leads(b, t, c, n)
    PROVE  Leads(a, s \o t, c, n)
<1>1. PICK v : WalksOn(v, a, s, n) /\ v[Len(s)] = b
  BY Zenon DEF Leads
<1>2. PICK x : WalksOn(x, b, t, n) /\ x[Len(t)] = c
  BY Zenon DEF Leads
<1> DEFINE p == Len(s)
           q == Len(t)
           r == s \o t
           w == [k \in 0..p + q |-> IF k <= p THEN v[k] ELSE x[k - p]]
<1>3. p \in Nat /\ q \in Nat /\ Len(r) = p + q
  OBVIOUS
<1>4. \A k \in 1..p + q : r[k] = IF k <= p THEN s[k] ELSE t[k - p]
  OBVIOUS
<1> HIDE DEF r
<1>5. \A k \in 0..p + q : w[k] = IF k <= p THEN v[k] ELSE x[k - p]
  OBVIOUS
<1> HIDE DEF p, q, w
<1>6. w[0] = a
  BY <1>3, <1>1, <1>5 DEF WalksOn
<1>7. w[p + q] = c
  <2>1. CASE q = 0
    BY <1>3, <2>1, <1>5, <1>2, <1>1 DEF WalksOn, q, p
  <2>2. CASE q # 0
    <3> DEFINE z == p + q
    <3> HIDE DEF z
    <3>1. x[q] = c
      BY <1>2, Zenon DEF q
    <3> QED
      BY <1>3, <2>2, <1>5, <3>1 DEF z
  <2> QED
    BY <2>1, <2>2
<1>8. ASSUME NEW k \in 1..p + q PROVE w[k] = Follow(w[k - 1], r[k], n, TRUE)
  <2>1. CASE k <= p
    <3>1. k \in 0..p + q /\ k - 1 \in 0..p + q /\ k - 1 <= p /\ k \in 1..p
      BY <1>3, <2>1
    <3> QED
      BY <1>1, <3>1, <1>4, <1>5, <2>1, Zenon DEF WalksOn, p
  <2>2. CASE ~ k <= p
    <3> DEFINE j == k - p
    <3>1. k \in 0..p + q /\ k - 1 \in 0..p + q /\ j \in 1..q /\ (k - 1 <= p <=> k - 1 = p)
          /\ (k - 1 = p => j - 1 = 0) /\ k - 1 - p = j - 1
      BY <1>3, <2>2
    <3>2. w[k] = x[j] /\ r[k] = t[j]
      BY <1>4, <1>5, <2>2, <3>1, Zenon
    <3>3. w[k - 1] = x[j - 1]
      BY <1>5, <3>1, <1>1, <1>2 DEF WalksOn, p
    <3> HIDE DEF j
    <3> QED
      BY <3>2, <3>3, <1>2, <3>1, Zenon DEF WalksOn, q
  <2> QED
    BY <2>1, <2>2
<1> QED
  BY <1>3, <1>6, <1>7, <1>8, Zenon DEF WalksOn, Leads, r

\* The walk through the whole of a script is the one of validate_script.
LEMMA WholeWalk ==
    ASSUME NEW n, NEW script \in Seq(ScanRecord), NEW to, Progressive(script),
           Leads(NothingSent(n), script, to, n)
    PROVE  Walk(script, n) = to
<1> DEFINE w == Walked(script, n)
           len == Len(script)
<1>1. PICK v : WalksOn(v, NothingSent(n), script, n) /\ v[len] = to
  BY Zenon DEF Leads
<1>2. /\ w[0] = NothingSent(n)
      /\ \A k \in 1..len : w[k] = Follow(w[k - 1], script[k], n, TRUE)
  <2>1. Len(script) \in Nat
    OBVIOUS
  <2> QED
    BY <2>1, WalkedIs DEF Progressive
<1>3. len \in Nat
  OBVIOUS
<1> DEFINE Bad == {k \in Nat : k <= len /\ w[k] # v[k]}
<1>4. Bad = {}
  <2> SUFFICES ASSUME Bad # {} PROVE FALSE
    OBVIOUS
  <2>1. PICK k \in Bad : \A j \in Bad : k <= j
    <3> Bad \in SUBSET Nat
      OBVIOUS
    <3> HIDE DEF Bad
    <3> QED
      BY Smallest
  <2>2. k \in Nat /\ k <= len /\ w[k] # v[k]
    OBVIOUS
  <2> HIDE DEF w
  <2>3. k # 0
    BY <1>1, <1>2, <2>2, Zenon DEF WalksOn
  <2>4. k - 1 \notin Bad
    <3> HIDE DEF Bad, len
    <3> QED
      BY <2>1, <2>2, <2>3
  <2> HIDE DEF len
  <2>5. w[k - 1] = v[k - 1] /\ k \in 1..len
    BY <1>3, <2>2, <2>3, <2>4
  <2> QED
    BY <1>1, <1>2, <2>2, <2>5, Zenon DEF WalksOn, len
<1>5. w[len] = v[len]
  <2> HIDE DEF w, len
  <2> QED
    BY <1>3, <1>4
<1> QED
  BY <1>1, <1>5, Zenon DEF Walk

(* The coefficients that the scans of these scripts tell apart, and a      *)
(* state of the walk that gives them a value each: << DC, 1..5, the rest >>. *)
Band(k) == IF k = 0 THEN 1 ELSE IF k <= 5 THEN 2 ELSE 3
Levels(n, t) == [c \in 1..n |-> [k \in 0..LastCoef |-> t[c][Band(k)]]]
Level == Int \X Int \X Int

\* As in the code: 64 coefficients, precision to spare, and an interleaved scan
\* with room for the three components of a color image.
RoomForScripts == LastCoef >= 6 /\ MAX_AH_AL >= 2 /\ MAX_COMPS_IN_SCAN >= 3

LEMMA LevelsStarted == ASSUME NEW n, n \in Nat \ {0}
    PROVE NothingSent(n) = Levels(n, [c \in 1..n |-> << -1, -1, -1 >>])
<1> DEFINE t == [c \in 1..n |-> << -1, -1, -1 >>]
<1>1. ASSUME NEW c \in 1..n, NEW k \in 0..LastCoef PROVE t[c][Band(k)] = -1
  <2>1. t[c] = << -1, -1, -1 >>
    OBVIOUS
  <2> HIDE DEF t
  <2> QED
    BY <2>1, SetupAssumption DEF Band
<1> HIDE DEF t
<1>2. ASSUME NEW c \in 1..n
      PROVE  [k \in 0..LastCoef |-> t[c][Band(k)]] = [k \in 0..LastCoef |-> -1]
  BY <1>1
<1> QED
  BY <1>2 DEF NothingSent, Levels, t

LEMMA NotRefused ==
    ASSUME NEW n, n \in Nat \ {0}, NEW t PROVE Levels(n, t) # Refused
BY DEF Levels, Refused

\* A scan of the bands B in the components C takes the levels t to u.
BandOfScripts(s) ==
    \/ s.Ss = 0 /\ s.Se = 0
    \/ s.Ss = 1 /\ s.Se = 5
    \/ s.Ss = 6 /\ s.Se = LastCoef
    \/ s.Ss = 1 /\ s.Se = LastCoef
BandsAre(s, B) ==
    /\ B \subseteq 1..3 /\ \A k \in 0..LastCoef : k \in s.Ss..s.Se <=> Band(k) \in B
    /\ s.Ah \in Int /\ s.Al \in Int
LevelsMove(n, t, u, s, C, B) ==
    /\ \A c \in C : /\ s.Ss # 0 => t[c][1] >= 0
                    /\ \A b \in B : IF t[c][b] < 0 THEN s.Ah = 0
                                    ELSE s.Ah = t[c][b] /\ s.Al = s.Ah - 1
                    /\ \A b \in 1..3 : IF b \in B THEN u[c][b] = s.Al ELSE u[c][b] = t[c][b]
    /\ \A c \in (1..n) \ C : u[c] = t[c]
LevelsTyped(n, t, u, s, C) ==
    /\ n \in Nat \ {0} /\ t \in [1..n -> Level] /\ u \in [1..n -> Level]
    /\ C \subseteq 1..n /\ ToSet(s.comps) = C
BandFits(n, t, u, s, C, B) ==
    /\ LevelsTyped(n, t, u, s, C)
    /\ GoodComponents(s, n) /\ GoodBand(s)
    /\ BandOfScripts(s) /\ BandsAre(s, B) /\ LevelsMove(n, t, u, s, C, B)

LEMMA BandSent ==
    ASSUME RoomForScripts, NEW n, NEW t, NEW u, NEW s, NEW C, NEW B, BandFits(n, t, u, s, C, B)
    PROVE  Follow(Levels(n, t), s, n, TRUE) = Levels(n, u)
<1> USE DEF BandFits, LevelsTyped, BandOfScripts, BandsAre, LevelsMove
<1>1. LastCoef \in Nat /\ LastCoef >= 6
  BY SetupAssumption DEF RoomForScripts
<1>2. /\ DOMAIN Levels(n, t) = 1..n
      /\ \A c \in 1..n, k \in 0..LastCoef : Levels(n, t)[c][k] = t[c][Band(k)]
  BY DEF Levels
<1>3. \A k \in s.Ss..s.Se : k \in 0..LastCoef /\ Band(k) \in B
  BY <1>1
<1>4. \A k \in 0..LastCoef : Band(k) \in B => k \in s.Ss..s.Se
  BY Zenon
<1>5. GoodRefinement(s, Levels(n, t))
  <2> SUFFICES ASSUME NEW c \in C
               PROVE  /\ s.Ss # 0 => Levels(n, t)[c][0] >= 0
                      /\ \A k \in s.Ss..s.Se :
                           IF Levels(n, t)[c][k] < 0 THEN s.Ah = 0
                           ELSE s.Ah = Levels(n, t)[c][k] /\ s.Al = s.Ah - 1
    BY Zenon DEF GoodRefinement
  <2>1. 0 \in 0..LastCoef /\ Band(0) = 1 /\ c \in 1..n
    BY <1>1 DEF Band
  <2>2. ASSUME NEW k \in s.Ss..s.Se
        PROVE  IF Levels(n, t)[c][k] < 0 THEN s.Ah = 0
               ELSE s.Ah = Levels(n, t)[c][k] /\ s.Al = s.Ah - 1
    <3> DEFINE b == Band(k)
    <3>1. Levels(n, t)[c][k] = t[c][b] /\ b \in B
      BY <1>2, <1>3, <2>1, Zenon
    <3> HIDE DEF b
    <3> QED
      BY <3>1, Zenon
  <2> QED
    BY <1>2, <2>1, <2>2
<1>6. Follow(Levels(n, t), s, n, TRUE) = Sent(s, Levels(n, t))
  BY <1>5, NotRefused, Zenon DEF Follow, GoodScan
<1>7. ASSUME NEW c \in 1..n, NEW k \in 0..LastCoef
      PROVE  (IF c \in ToSet(s.comps) /\ k \in s.Ss..s.Se THEN s.Al ELSE Levels(n, t)[c][k])
                = u[c][Band(k)]
  BY <1>2, <1>1, <1>3, <1>4 DEF Band
<1>8. ASSUME NEW c \in 1..n
      PROVE  [k \in 0..LastCoef |->
                IF c \in ToSet(s.comps) /\ k \in s.Ss..s.Se THEN s.Al ELSE Levels(n, t)[c][k]]
               = [k \in 0..LastCoef |-> u[c][Band(k)]]
  BY <1>7, Zenon
<1> QED
  BY <1>6, <1>2, <1>8, Zenon DEF Levels, Sent

\* What the scans of the scripts do to the levels x of the components they are of.
BandStep(x, y, Ss, Se, Ah, Al) ==
    \/ Ss = 0 /\ Se = 0 /\ Ah = 0 /\ Al = 1 /\ x = << -1, -1, -1 >> /\ y = << 1, -1, -1 >>
    \/ Ss = 1 /\ Se = 5 /\ Ah = 0 /\ Al = 2 /\ x = << 1, -1, -1 >> /\ y = << 1, 2, -1 >>
    \/ Ss = 6 /\ Se = LastCoef /\ Ah = 0 /\ Al = 2 /\ x = << 1, 2, -1 >> /\ y = << 1, 2, 2 >>
    \/ Ss = 1 /\ Se = LastCoef /\ Ah = 2 /\ Al = 1 /\ x = << 1, 2, 2 >> /\ y = << 1, 1, 1 >>
    \/ Ss = 1 /\ Se = LastCoef /\ Ah = 0 /\ Al = 1 /\ x = << 1, -1, -1 >> /\ y = << 1, 1, 1 >>
    \/ Ss = 0 /\ Se = 0 /\ Ah = 1 /\ Al = 0 /\ x = << 1, 1, 1 >> /\ y = << 0, 1, 1 >>
    \/ Ss = 1 /\ Se = LastCoef /\ Ah = 1 /\ Al = 0 /\ x = << 0, 1, 1 >> /\ y = << 0, 0, 0 >>

LEMMA Bands ==
    ASSUME RoomForScripts
    PROVE  /\ {Band(k) : k \in 0..0} = {1} /\ {Band(k) : k \in 1..5} = {2}
           /\ {Band(k) : k \in 6..LastCoef} = {3} /\ {Band(k) : k \in 1..LastCoef} = {2, 3}
<1>1. LastCoef \in Nat /\ LastCoef >= 6
  BY SetupAssumption DEF RoomForScripts
<1>2. Band(0) = 1 /\ Band(1) = 2 /\ Band(6) = 3
  BY DEF Band
<1>3. /\ \A k \in 0..0 : k = 0
      /\ \A k \in 1..5 : Band(k) = 2
      /\ \A k \in 6..LastCoef : Band(k) = 3
      /\ \A k \in 1..LastCoef : Band(k) = 2 \/ Band(k) = 3
  BY <1>1 DEF Band
<1>4. 0 \in 0..0 /\ 1 \in 1..5 /\ 6 \in 6..LastCoef /\ 1 \in 1..LastCoef /\ 6 \in 1..LastCoef
  BY <1>1
<1>5. {Band(k) : k \in 6..LastCoef} = {3}
  BY <1>2, <1>3, <1>4, Zenon
<1>6. {Band(k) : k \in 1..LastCoef} = {2, 3}
  BY <1>2, <1>3, <1>4, Zenon
<1> QED
  BY <1>2, <1>3, <1>4, <1>5, <1>6, Zenon

\* The conditions of validate_script on such a step.
LEMMA BandStepGood ==
    ASSUME RoomForScripts, NEW x, NEW y, NEW Ss, NEW Se, NEW Ah, NEW Al,
           BandStep(x, y, Ss, Se, Ah, Al)
    PROVE  /\ x \in Level /\ y \in Level /\ Ss \in Int /\ Se \in Int /\ Ah \in Int /\ Al \in Int
           /\ 0 <= Ss /\ Ss <= Se /\ Se <= LastCoef
           /\ Ah \in 0..MAX_AH_AL /\ Al \in 0..MAX_AH_AL /\ (Ss = 0 => Se = 0)
           /\ \/ Ss = 0 /\ Se = 0
              \/ Ss = 1 /\ Se = 5
              \/ Ss = 6 /\ Se = LastCoef
              \/ Ss = 1 /\ Se = LastCoef
           /\ Ss # 0 => x[1] >= 0
           /\ \A b \in {Band(k) : k \in Ss..Se} :
                IF x[b] < 0 THEN Ah = 0 ELSE Ah = x[b] /\ Al = Ah - 1
           /\ \A b \in 1..3 : y[b] = IF b \in {Band(k) : k \in Ss..Se} THEN Al ELSE x[b]
<1>1. LastCoef \in Nat /\ LastCoef >= 6 /\ MAX_AH_AL \in Nat /\ MAX_AH_AL >= 2
  BY SetupAssumption DEF RoomForScripts
<1> DEFINE B == {Band(k) : k \in Ss..Se}
<1>2. /\ Ss = 0 /\ Se = 0 => B = {1}
      /\ Ss = 1 /\ Se = 5 => B = {2}
      /\ Ss = 6 /\ Se = LastCoef => B = {3}
      /\ Ss = 1 /\ Se = LastCoef => B = {2, 3}
  BY Bands, Zenon
<1> HIDE DEF B
<1>3. /\ \A b \in B : IF x[b] < 0 THEN Ah = 0 ELSE Ah = x[b] /\ Al = Ah - 1
      /\ \A b \in 1..3 : y[b] = IF b \in B THEN Al ELSE x[b]
  BY <1>1, <1>2 DEF BandStep
<1>4. \/ Ss = 0 /\ Se = 0
      \/ Ss = 1 /\ Se = 5
      \/ Ss = 6 /\ Se = LastCoef
      \/ Ss = 1 /\ Se = LastCoef
  BY Zenon DEF BandStep
<1> QED
  BY <1>1, <1>3, <1>4 DEF B, BandStep, Level

\* A scan of the components C, all at the levels x, that takes them to y.
StepFits(n, t, u, s, C, x, y) ==
    /\ n \in Nat \ {0} /\ t \in [1..n -> Level] /\ u \in [1..n -> Level]
    /\ C \subseteq 1..n /\ ToSet(s.comps) = C
    /\ Len(s.comps) \in 1..MAX_COMPS_IN_SCAN
    /\ \A i \in 1..Len(s.comps) :
        s.comps[i] \in 1..n /\ (i > 1 => s.comps[i] > s.comps[i - 1])
    /\ BandStep(x, y, s.Ss, s.Se, s.Ah, s.Al) /\ (s.Ss # 0 => Len(s.comps) = 1)
    /\ \A c \in C : t[c] = x /\ u[c] = y
    /\ \A c \in (1..n) \ C : u[c] = t[c]

LEMMA StepSent ==
    ASSUME RoomForScripts, NEW n, NEW t, NEW u, NEW s, NEW C, NEW x, NEW y,
           StepFits(n, t, u, s, C, x, y)
    PROVE  Follow(Levels(n, t), s, n, TRUE) = Levels(n, u)
<1> USE DEF StepFits
<1> DEFINE comps == s.comps
           Ss == s.Ss
           Se == s.Se
           Ah == s.Ah
           Al == s.Al
           B == {Band(k) : k \in Ss..Se}
<1>1. s.comps = comps /\ s.Ss = Ss /\ s.Se = Se /\ s.Ah = Ah /\ s.Al = Al
      /\ BandStep(x, y, Ss, Se, Ah, Al)
  OBVIOUS
<1> HIDE DEF comps, Ss, Se, Ah, Al
<1>2. /\ Ss \in Int /\ Se \in Int /\ Ah \in Int /\ Al \in Int
      /\ 0 <= Ss /\ Ss <= Se /\ Se <= LastCoef
      /\ Ah \in 0..MAX_AH_AL /\ Al \in 0..MAX_AH_AL /\ (Ss = 0 => Se = 0)
      /\ \/ Ss = 0 /\ Se = 0
         \/ Ss = 1 /\ Se = 5
         \/ Ss = 6 /\ Se = LastCoef
         \/ Ss = 1 /\ Se = LastCoef
      /\ Ss # 0 => x[1] >= 0
      /\ \A b \in B : IF x[b] < 0 THEN Ah = 0 ELSE Ah = x[b] /\ Al = Ah - 1
      /\ \A b \in 1..3 : y[b] = IF b \in B THEN Al ELSE x[b]
  BY <1>1, BandStepGood
<1>3. GoodComponents(s, n)
  BY <1>1, Zenon DEF GoodComponents
<1>4. GoodBand(s)
  BY <1>1, <1>2, Zenon DEF GoodBand
<1>5. B \in SUBSET (1..3)
  BY DEF Band
<1>6. \A k \in 0..LastCoef : k \in s.Ss..s.Se <=> Band(k) \in B
  <2>1. \A k \in 0..LastCoef, j \in Ss..Se : Band(k) = Band(j) => k \in Ss..Se
    <3> HIDE DEF B
    <3> QED
      BY <1>2, SetupAssumption DEF Band, RoomForScripts
  <2> QED
    BY <1>1, <2>1, Zenon
<1> HIDE DEF B
<1>7. ASSUME NEW c \in C
      PROVE  /\ s.Ss # 0 => t[c][1] >= 0
             /\ \A b \in B : IF t[c][b] < 0 THEN s.Ah = 0
                             ELSE s.Ah = t[c][b] /\ s.Al = s.Ah - 1
             /\ \A b \in 1..3 : IF b \in B THEN u[c][b] = s.Al ELSE u[c][b] = t[c][b]
  BY <1>1, <1>2
<1>8. /\ ToSet(s.comps) = C /\ s.Ah \in Int /\ s.Al \in Int
      /\ \/ s.Ss = 0 /\ s.Se = 0
         \/ s.Ss = 1 /\ s.Se = 5
         \/ s.Ss = 6 /\ s.Se = LastCoef
         \/ s.Ss = 1 /\ s.Se = LastCoef
  BY <1>1, <1>2, Zenon
<1>9. \A c \in C : /\ s.Ss # 0 => t[c][1] >= 0
                   /\ \A b \in B : IF t[c][b] < 0 THEN s.Ah = 0
                                   ELSE s.Ah = t[c][b] /\ s.Al = s.Ah - 1
                   /\ \A b \in 1..3 : IF b \in B THEN u[c][b] = s.Al ELSE u[c][b] = t[c][b]
  BY <1>7
<1>10. \A c \in (1..n) \ C : u[c] = t[c]
  OBVIOUS
<1>11. ToSet(s.comps) = C
  BY <1>8
<1>12. s.Ah \in Int /\ s.Al \in Int
  BY <1>8
<1>13. \/ s.Ss = 0 /\ s.Se = 0
       \/ s.Ss = 1 /\ s.Se = 5
       \/ s.Ss = 6 /\ s.Se = LastCoef
       \/ s.Ss = 1 /\ s.Se = LastCoef
  BY <1>8
<1>14. /\ n \in Nat \ {0} /\ t \in [1..n -> Level] /\ u \in [1..n -> Level]
       /\ C \subseteq 1..n /\ B \subseteq 1..3
  BY <1>5
<1>15. BandFits(n, t, u, s, C, B)
  BY <1>14, <1>11, <1>3, <1>4, <1>6, <1>12, <1>13, <1>9, <1>10, Zenon DEF LevelsTyped,
     BandsAre, BandOfScripts, LevelsMove, BandFits
<1> QED
  BY <1>15, BandSent

\* A part of a script: it takes the walk from one state to another.
Part(n, from, script, to, len) ==
    script \in Seq(ScanRecord) /\ Len(script) = len /\ Leads(from, script, to, n)

LEMMA PartsOn ==
    ASSUME NEW n, NEW a, NEW b, NEW c, NEW s, NEW t, NEW p, NEW q,
           Part(n, a, s, b, p), Part(n, b, t, c, q)
    PROVE  Part(n, a, s \o t, c, p + q)
BY LeadsOn DEF Part

LEMMA ScanRecords ==
    ASSUME RoomForScripts, NEW x, NEW y, NEW Ss, NEW Se, NEW Ah, NEW Al,
           BandStep(x, y, Ss, Se, Ah, Al), NEW comps \in Seq(Int)
    PROVE  Scan(comps, Ss, Se, Ah, Al) \in ScanRecord
BY BandStepGood DEF Scan, ScanRecord

\* A scan of one component.
OneFits(n, t, u, s, j, x, y) ==
    /\ n \in Nat \ {0} /\ t \in [1..n -> Level] /\ j \in 1..n /\ t[j] = x
    /\ u = [t EXCEPT ![j] = y]
    /\ s.comps = << j >> /\ BandStep(x, y, s.Ss, s.Se, s.Ah, s.Al)

LEMMA OneSent ==
    ASSUME RoomForScripts, NEW n, NEW t, NEW u, NEW s, NEW j, NEW x, NEW y,
           OneFits(n, t, u, s, j, x, y)
    PROVE  Follow(Levels(n, t), s, n, TRUE) = Levels(n, u)
<1> USE DEF OneFits
<1> DEFINE comps == << j >>
           C == {j}
<1>1. u \in [1..n -> Level] /\ u[j] = y /\ \A c \in (1..n) \ {j} : u[c] = t[c]
  BY BandStepGood
<1>2. Len(comps) = 1 /\ comps[1] = j /\ \A i \in 1..1 : i = 1 /\ ~ (i > 1)
  OBVIOUS
<1>3. ToSet(comps) = C
  BY DEF ToSet
<1>4. s.comps = comps
  OBVIOUS
<1> HIDE DEF comps
<1>5. C \subseteq 1..n /\ \A c \in C : t[c] = x /\ u[c] = y
  BY <1>1
<1>6. \A c \in (1..n) \ C : u[c] = t[c]
  BY <1>1
<1> HIDE DEF C
<1>7. \A i \in 1..Len(s.comps) :
        s.comps[i] \in 1..n /\ (i > 1 => s.comps[i] > s.comps[i - 1])
  BY <1>2, <1>4, Zenon
<1>8. Len(s.comps) \in 1..MAX_COMPS_IN_SCAN /\ (s.Ss # 0 => Len(s.comps) = 1)
  BY <1>2, SetupAssumption, <1>4
<1>9. StepFits(n, t, u, s, C, x, y)
  BY <1>1, <1>3, <1>5, <1>6, <1>7, <1>8, <1>4, Zenon DEF StepFits
<1> QED
  BY <1>9, StepSent

LEMMA FillAScan ==
    ASSUME RoomForScripts, NEW n, NEW t, NEW u, NEW s, NEW j, NEW x, NEW y,
           OneFits(n, t, u, s, j, x, y),
           s \in ScanRecord
    PROVE  Part(n, Levels(n, t), << s >>, Levels(n, u), 1)
<1>1. << s >> \in Seq(ScanRecord) /\ Len(<< s >>) = 1
  OBVIOUS
<1>2. Leads(Levels(n, t), << s >>, Follow(Levels(n, t), s, n, TRUE), n)
  BY OneLeads
<1> QED
  BY OneSent, <1>1, <1>2 DEF Part

\* The same levels in all components.
InAll(n, x) == [c \in 1..n |-> x]

\* A scan of each component in turn.
LEMMA FillScans ==
    ASSUME RoomForScripts, NEW n, n \in Nat \ {0},
           NEW x, NEW y, NEW Ss, NEW Se, NEW Ah, NEW Al, BandStep(x, y, Ss, Se, Ah, Al)
    PROVE  /\ Part(n, Levels(n, InAll(n, x)), fill_scans(n, Ss, Se, Ah, Al),
                   Levels(n, InAll(n, y)), n)
           /\ fill_scans(n, Ss, Se, Ah, Al)[1].Se = Se
<1> DEFINE Upto(j) == [c \in 1..n |-> IF c <= j THEN y ELSE x]
           script == fill_scans(n, Ss, Se, Ah, Al)
           w == [j \in 0..n |-> Levels(n, Upto(j))]
<1>1. /\ DOMAIN script = 1..n
      /\ \A k \in 1..n : script[k] = Scan(<< k >>, Ss, Se, Ah, Al)
      /\ script = [k \in 1..n |-> Scan(<< k >>, Ss, Se, Ah, Al)]
  BY DEF fill_scans
<1>2. \A k \in 1..n : Scan(<< k >>, Ss, Se, Ah, Al) \in ScanRecord
  <2> SUFFICES ASSUME NEW k \in 1..n PROVE Scan(<< k >>, Ss, Se, Ah, Al) \in ScanRecord
    OBVIOUS
  <2>1. << k >> \in Seq(Int)
    OBVIOUS
  <2> QED
    BY <2>1, ScanRecords
<1>3. script \in Seq(ScanRecord) /\ Len(script) = n
  <2> HIDE DEF script
  <2> QED
    BY <1>1, <1>2
<1> HIDE DEF script
<1>4. Upto(0) = InAll(n, x) /\ Upto(n) = InAll(n, y)
  BY DEF InAll
<1>5. \A k \in 0..n : w[k] = Levels(n, Upto(k))
  BY Zenon
<1>6. ASSUME NEW k \in 1..n
      PROVE  w[k] = Follow(w[k - 1], script[k], n, TRUE)
  <2>1. Upto(k) = [Upto(k - 1) EXCEPT ![k] = y]
    <3>1. \A c \in 1..n : (IF c <= k THEN y ELSE x)
                            = IF c = k THEN y ELSE IF c <= k - 1 THEN y ELSE x
      OBVIOUS
    <3> QED
      BY <3>1, Zenon
  <2> DEFINE t == Upto(k - 1)
             u == Upto(k)
  <2>2. w[k - 1] = Levels(n, t) /\ w[k] = Levels(n, u)
    BY <1>5
  <2>3. t \in [1..n -> Level] /\ t[k] = x /\ u = [t EXCEPT ![k] = y]
    BY BandStepGood, <2>1
  <2> HIDE DEF t, u, w, Upto
  <2>4. OneFits(n, t, u, script[k], k, x, y)
    BY <2>3, <1>1 DEF OneFits, Scan
  <2> QED
    BY <2>2, <2>3, <2>4, OneSent
<1>7. 0 \in 0..n /\ n \in 0..n /\ 1 \in 1..n
  OBVIOUS
<1> HIDE DEF w, Upto
<1>8. script[1].Se = Se
  BY <1>1, <1>7 DEF Scan
<1> QED
  BY <1>3, <1>4, <1>6, <1>5, <1>7, <1>8, Zenon DEF Part, script, Leads, WalksOn

\* The DC scans: one of all components if they fit in a scan.
\* How many DC scans there are.
DCScans(n) == IF n <= MAX_COMPS_IN_SCAN THEN 1 ELSE n

LEMMA FillDCScans ==
    ASSUME RoomForScripts, NEW n, n \in Nat \ {0},
           NEW x, NEW y, NEW Ah, NEW Al, BandStep(x, y, 0, 0, Ah, Al)
    PROVE  /\ Part(n, Levels(n, InAll(n, x)), fill_dc_scans(n, Ah, Al),
                   Levels(n, InAll(n, y)), DCScans(n))
           /\ fill_dc_scans(n, Ah, Al)[1].Se = 0
<1>1. CASE ~ (n <= MAX_COMPS_IN_SCAN)
  BY FillScans, <1>1 DEF DCScans, fill_dc_scans
<1>2. CASE n <= MAX_COMPS_IN_SCAN
  <2> DEFINE comps == [ci \in 1..n |-> ci]
             s == Scan(comps, 0, 0, Ah, Al)
             t == [c \in 1..n |-> x]
             u == [c \in 1..n |-> y]
             C == 1..n
  <2>1. fill_dc_scans(n, Ah, Al) = << s >>
    BY <1>2, Zenon DEF fill_dc_scans
  <2>2. t \in [1..n -> Level] /\ u \in [1..n -> Level] /\ \A c \in C : t[c] = x /\ u[c] = y
    BY BandStepGood
  <2>3. comps \in Seq(Int) /\ Len(comps) = n /\ \A i \in 1..n : comps[i] = i
    OBVIOUS
  <2>4. ToSet(comps) = C
    BY DEF ToSet
  <2> HIDE DEF comps, t, u
  <2>5. s \in ScanRecord
    BY <2>3, ScanRecords
  <2>6. Len(comps) \in 1..MAX_COMPS_IN_SCAN /\ (s.Ss # 0 => Len(comps) = 1)
    BY <1>2, <2>3, SetupAssumption DEF Scan
  <2>7. \A i \in 1..Len(comps) : comps[i] \in 1..n /\ (i > 1 => comps[i] > comps[i - 1])
    BY <2>3
  <2>8. C \subseteq 1..n /\ \A c \in (1..n) \ C : u[c] = t[c]
    OBVIOUS
  <2>9. s.comps = comps /\ BandStep(x, y, s.Ss, s.Se, s.Ah, s.Al)
    BY DEF Scan
  <2> HIDE DEF C, s
  <2>10. StepFits(n, t, u, s, C, x, y)
    BY <2>2, <2>4, <2>6, <2>7, <2>8, <2>9, Zenon DEF StepFits
  <2> USE DEF s
  <2>11. << s >>[1].Se = 0
    BY DEF Scan
  <2> HIDE DEF s
  <2>12. << s >> \in Seq(ScanRecord) /\ Len(<< s >>) = 1
    BY <2>5
  <2>13. Part(n, Levels(n, t), << s >>, Levels(n, u), 1)
    BY <2>10, StepSent, OneLeads, <2>12 DEF Part
  <2> QED
    BY <1>2, <2>1, <2>11, <2>13, Zenon DEF t, u, InAll, DCScans
<1> QED
  BY <1>1, <1>2

\* What jpeg_simple_progression promises of a script for n components.
LibraryScript(n, space, script) ==
    /\ script # << >> /\ Len(script) = nscans(n, space)
    /\ Walk(script, n) = Levels(n, InAll(n, << 0, 0, 0 >>))

LEMMA PartIsWhole ==
    ASSUME RoomForScripts, NEW n, n \in Nat \ {0}, NEW script, NEW to, NEW len \in Nat,
           Part(n, Levels(n, InAll(n, << -1, -1, -1 >>)), script, to, len),
           len >= 1, script[1].Se = 0
    PROVE  script # << >> /\ Len(script) = len /\ Walk(script, n) = to
BY SetupAssumption, LevelsStarted, WholeWalk DEF Part, Progressive, RoomForScripts, InAll

\* What comes first stays first.
LEMMA FirstKept ==
    ASSUME NEW q \in Seq(ScanRecord), NEW r \in Seq(ScanRecord), Len(q) >= 1
    PROVE  (q \o r)[1] = q[1]
OBVIOUS

\* The script for any color space.
LEMMA AnyScript ==
    ASSUME RoomForScripts, NEW n, n \in Nat \ {0}, NEW space,
           ~ (n = 3 /\ space = "YCbCr")
    PROVE  LibraryScript(n, space, SimpleProgression(n, space))
<1> DEFINE x0 == << -1, -1, -1 >>
           x1 == << 1, -1, -1 >>
           x2 == << 1, 2, -1 >>
           x3 == << 1, 2, 2 >>
           x4 == << 1, 1, 1 >>
           x5 == << 0, 1, 1 >>
           x6 == << 0, 0, 0 >>
           d == DCScans(n)
           s1 == fill_dc_scans(n, 0, 1)
           f2 == fill_scans(n, 1, 5, 0, 2)
           f3 == fill_scans(n, 6, LastCoef, 0, 2)
           f4 == fill_scans(n, 1, LastCoef, 2, 1)
           f5 == fill_dc_scans(n, 1, 0)
           f6 == fill_scans(n, 1, LastCoef, 1, 0)
<1>1. /\ BandStep(x0, x1, 0, 0, 0, 1) /\ BandStep(x1, x2, 1, 5, 0, 2)
      /\ BandStep(x2, x3, 6, LastCoef, 0, 2) /\ BandStep(x3, x4, 1, LastCoef, 2, 1)
      /\ BandStep(x4, x5, 0, 0, 1, 0) /\ BandStep(x5, x6, 1, LastCoef, 1, 0)
  BY DEF BandStep
<1>2. SimpleProgression(n, space) = s1 \o f2 \o f3 \o f4 \o f5 \o f6
  BY Zenon DEF SimpleProgression
<1>3. d \in Nat /\ d >= 1 /\ n \in Nat /\ 6 * n = n + n + n + n + n + n
      /\ d + n + n + n + d + n = nscans(n, space)
  BY SetupAssumption DEF nscans, DCScans
<1> DEFINE L(x) == Levels(n, InAll(n, x))
<1>4. Part(n, L(x0), s1, L(x1), d) /\ s1[1].Se = 0
  <2> HIDE DEF x0, x1
  <2>1. fill_dc_scans(n, 0, 1)[1].Se = 0
    BY <1>1, FillDCScans
  <2> QED
    BY <1>1, FillDCScans, <2>1
<1>5. Part(n, L(x4), f5, L(x5), d)
  <2> HIDE DEF x4, x5
  <2> QED
    BY <1>1, FillDCScans, Zenon
<1>6. Part(n, L(x1), f2, L(x2), n)
  <2> HIDE DEF x1, x2
  <2> QED
    BY <1>1, FillScans, Zenon
<1>7. Part(n, L(x2), f3, L(x3), n)
  <2> HIDE DEF x2, x3
  <2> QED
    BY <1>1, FillScans, Zenon
<1>8. Part(n, L(x3), f4, L(x4), n)
  <2> HIDE DEF x3, x4
  <2> QED
    BY <1>1, FillScans, Zenon
<1>9. Part(n, L(x5), f6, L(x6), n)
  <2> HIDE DEF x5, x6
  <2> QED
    BY <1>1, FillScans, Zenon
<1>10. L(x6) = Levels(n, InAll(n, << 0, 0, 0 >>)) /\ L(x0) = Levels(n, InAll(n, << -1, -1, -1 >>))
  BY Zenon
<1> HIDE DEF x0, x1, x2, x3, x4, x5, x6, s1, f2, f3, f4, f5, f6, L, d
<1> DEFINE s2 == s1 \o f2
           s3 == s2 \o f3
           s4 == s3 \o f4
           s5 == s4 \o f5
           s6 == s5 \o f6
           p2 == d + n
           p3 == p2 + n
           p4 == p3 + n
           p5 == p4 + d
           p6 == p5 + n
<1>11. /\ p2 \in Nat /\ p3 \in Nat /\ p4 \in Nat /\ p5 \in Nat /\ p6 \in Nat
       /\ p2 >= 1 /\ p3 >= 1 /\ p4 >= 1 /\ p5 >= 1 /\ p6 >= 1
  BY <1>3
<1>12. Part(n, L(x0), s2, L(x2), p2) /\ s2[1] = s1[1]
  <2>1. (s1 \o f2)[1] = s1[1]
    BY <1>3, <1>4, <1>6, FirstKept DEF Part
  <2> QED
    BY <1>3, <1>4, <1>6, PartsOn, <2>1
<1> HIDE DEF s2, p2
<1>13. Part(n, L(x0), s3, L(x3), p3) /\ s3[1] = s2[1]
  <2>1. (s2 \o f3)[1] = s2[1]
    BY <1>3, <1>7, <1>11, <1>12, FirstKept DEF Part
  <2> QED
    BY <1>3, <1>7, <1>11, <1>12, PartsOn, <2>1
<1> HIDE DEF s3, p3
<1>14. Part(n, L(x0), s4, L(x4), p4) /\ s4[1] = s3[1]
  <2>1. Part(n, L(x0), s3 \o f4, L(x4), p3 + n)
    BY <1>3, <1>8, <1>11, <1>13, PartsOn
  <2>2. (s3 \o f4)[1] = s3[1]
    <3>1. s3 \in Seq(ScanRecord) /\ f4 \in Seq(ScanRecord) /\ Len(s3) >= 1
      BY <1>3, <1>8, <1>11, <1>13 DEF Part
    <3> QED
      BY <3>1, FirstKept
  <2> QED
    BY <2>1, <2>2, Zenon
<1> HIDE DEF s4, p4
<1>15. Part(n, L(x0), s5, L(x5), p5) /\ s5[1] = s4[1]
  BY <1>3, <1>5, <1>11, <1>14, FirstKept, PartsOn DEF Part
<1> HIDE DEF s5, p5
<1>16. Part(n, L(x0), s6, L(x6), p6) /\ s6[1] = s5[1]
  BY <1>3, <1>9, <1>11, <1>15, FirstKept, PartsOn DEF Part
<1> HIDE DEF s6, p6
<1>17. SimpleProgression(n, space) = s6
  BY <1>2, Zenon DEF s2, s3, s4, s5, s6
<1>18. Part(n, Levels(n, InAll(n, << -1, -1, -1 >>)), s6, L(x6), p6)
  BY <1>10, <1>16, Zenon
<1>19. s6 # << >> /\ Len(s6) = p6 /\ Walk(s6, n) = L(x6)
  BY <1>11, <1>4, <1>12, <1>13, <1>14, <1>15, <1>16, <1>18, PartIsWhole
<1> QED
  BY <1>10, <1>17, <1>3, <1>19, Zenon DEF LibraryScript, p2, p3, p4, p5, p6

\* A scan of one component of three, as part of a script.
ScanOfThree(t, u, s, j, x, y) ==
    /\ t \in [1..3 -> Level] /\ j \in 1..3 /\ t[j] = x /\ u = [t EXCEPT ![j] = y]
    /\ s.comps = << j >> /\ BandStep(x, y, s.Ss, s.Se, s.Ah, s.Al)
    /\ s = Scan(<< j >>, s.Ss, s.Se, s.Ah, s.Al)

LEMMA OneOfThree ==
    ASSUME RoomForScripts, NEW t, NEW u, NEW s, NEW j, NEW x, NEW y, ScanOfThree(t, u, s, j, x, y)
    PROVE  u \in [1..3 -> Level] /\ Part(3, Levels(3, t), << s >>, Levels(3, u), 1)
<1> USE DEF ScanOfThree
<1>1. OneFits(3, t, u, s, j, x, y)
  BY DEF OneFits
<1>2. << j >> \in Seq(Int)
  OBVIOUS
<1>3. Scan(<< j >>, s.Ss, s.Se, s.Ah, s.Al) \in ScanRecord
  BY <1>2, ScanRecords
<1>4. Part(3, Levels(3, t), << s >>, Levels(3, u), 1)
  BY <1>1, <1>3, FillAScan
<1> QED
  BY BandStepGood, <1>4

\* The script that is tuned for YCbCr.
LEMMA YCbCrScript ==
    ASSUME RoomForScripts
    PROVE  LibraryScript(3, "YCbCr", SimpleProgression(3, "YCbCr"))
<1> DEFINE x0 == << -1, -1, -1 >>
           x1 == << 1, -1, -1 >>
           x2 == << 1, 2, -1 >>
           x3 == << 1, 2, 2 >>
           x4 == << 1, 1, 1 >>
           x5 == << 0, 1, 1 >>
           x6 == << 0, 0, 0 >>
           f1 == fill_dc_scans(3, 0, 1)
           c2 == Scan(<< 1 >>, 1, 5, 0, 2)
           f2 == << c2 >>
           c3 == Scan(<< 3 >>, 1, LastCoef, 0, 1)
           f3 == << c3 >>
           c4 == Scan(<< 2 >>, 1, LastCoef, 0, 1)
           f4 == << c4 >>
           c5 == Scan(<< 1 >>, 6, LastCoef, 0, 2)
           f5 == << c5 >>
           c6 == Scan(<< 1 >>, 1, LastCoef, 2, 1)
           f6 == << c6 >>
           f7 == fill_dc_scans(3, 1, 0)
           c8 == Scan(<< 3 >>, 1, LastCoef, 1, 0)
           f8 == << c8 >>
           c9 == Scan(<< 2 >>, 1, LastCoef, 1, 0)
           f9 == << c9 >>
           c10 == Scan(<< 1 >>, 1, LastCoef, 1, 0)
           f10 == << c10 >>
           t0 == InAll(3, x0)
           t1 == InAll(3, x1)
           t2 == [t1 EXCEPT ![1] = x2]
           t3 == [t2 EXCEPT ![3] = x4]
           t4 == [t3 EXCEPT ![2] = x4]
           t5 == [t4 EXCEPT ![1] = x3]
           t6 == [t5 EXCEPT ![1] = x4]
           t7 == InAll(3, x5)
           t8 == [t7 EXCEPT ![3] = x6]
           t9 == [t8 EXCEPT ![2] = x6]
           t10 == [t9 EXCEPT ![1] = x6]
<1>1. /\ BandStep(x0, x1, 0, 0, 0, 1) /\ BandStep(x1, x2, 1, 5, 0, 2)
      /\ BandStep(x2, x3, 6, LastCoef, 0, 2) /\ BandStep(x3, x4, 1, LastCoef, 2, 1)
      /\ BandStep(x4, x5, 0, 0, 1, 0) /\ BandStep(x5, x6, 1, LastCoef, 1, 0)
      /\ BandStep(x1, x4, 1, LastCoef, 0, 1)
  BY DEF BandStep
<1>2. SimpleProgression(3, "YCbCr") = f1 \o f2 \o f3 \o f4 \o f5 \o f6 \o f7 \o f8 \o f9 \o f10
  BY Zenon DEF SimpleProgression, fill_a_scan
<1>3. /\ x1 \in Level /\ x2 \in Level /\ x3 \in Level /\ x4 \in Level /\ x5 \in Level
      /\ x6 \in Level
  BY DEF Level
<1>4. DCScans(3) = 1 /\ 3 \in Nat \ {0}
  BY DEF DCScans, RoomForScripts
<1>5. /\ c2.comps = << 1 >> /\ c2.Ss = 1 /\ c2.Se = 5
      /\ c2.Ah = 0 /\ c2.Al = 2
      /\ c2 = Scan(<< 1 >>, c2.Ss, c2.Se, c2.Ah, c2.Al)
  BY DEF Scan
<1>6. /\ c3.comps = << 3 >> /\ c3.Ss = 1 /\ c3.Se = LastCoef
      /\ c3.Ah = 0 /\ c3.Al = 1
      /\ c3 = Scan(<< 3 >>, c3.Ss, c3.Se, c3.Ah, c3.Al)
  BY DEF Scan
<1>7. /\ c4.comps = << 2 >> /\ c4.Ss = 1 /\ c4.Se = LastCoef
      /\ c4.Ah = 0 /\ c4.Al = 1
      /\ c4 = Scan(<< 2 >>, c4.Ss, c4.Se, c4.Ah, c4.Al)
  BY DEF Scan
<1>8. /\ c5.comps = << 1 >> /\ c5.Ss = 6 /\ c5.Se = LastCoef
      /\ c5.Ah = 0 /\ c5.Al = 2
      /\ c5 = Scan(<< 1 >>, c5.Ss, c5.Se, c5.Ah, c5.Al)
  BY DEF Scan
<1>9. /\ c6.comps = << 1 >> /\ c6.Ss = 1 /\ c6.Se = LastCoef
      /\ c6.Ah = 2 /\ c6.Al = 1
      /\ c6 = Scan(<< 1 >>, c6.Ss, c6.Se, c6.Ah, c6.Al)
  BY DEF Scan
<1>10. /\ c8.comps = << 3 >> /\ c8.Ss = 1 /\ c8.Se = LastCoef
       /\ c8.Ah = 1 /\ c8.Al = 0
       /\ c8 = Scan(<< 3 >>, c8.Ss, c8.Se, c8.Ah, c8.Al)
  BY DEF Scan
<1>11. /\ c9.comps = << 2 >> /\ c9.Ss = 1 /\ c9.Se = LastCoef
       /\ c9.Ah = 1 /\ c9.Al = 0
       /\ c9 = Scan(<< 2 >>, c9.Ss, c9.Se, c9.Ah, c9.Al)
  BY DEF Scan
<1>12. /\ c10.comps = << 1 >> /\ c10.Ss = 1 /\ c10.Se = LastCoef
       /\ c10.Ah = 1 /\ c10.Al = 0
       /\ c10 = Scan(<< 1 >>, c10.Ss, c10.Se, c10.Ah, c10.Al)
  BY DEF Scan
<1> HIDE DEF x0, x1, x2, x3, x4, x5, x6, c2, c3, c4, c5, c6, c8, c9, c10
<1>13. t1 \in [1..3 -> Level] /\ t1[1] = x1 /\ t1[2] = x1 /\ t1[3] = x1
  BY <1>3 DEF InAll
<1> HIDE DEF t1
<1>14. t2 \in [1..3 -> Level] /\ t2[1] = x2 /\ t2[2] = x1 /\ t2[3] = x1
      /\ t2 = [t1 EXCEPT ![1] = x2]
  BY <1>3, <1>13
<1> HIDE DEF t2
<1>15. t3 \in [1..3 -> Level] /\ t3[1] = x2 /\ t3[2] = x1 /\ t3[3] = x4
      /\ t3 = [t2 EXCEPT ![3] = x4]
  BY <1>3, <1>14
<1> HIDE DEF t3
<1>16. t4 \in [1..3 -> Level] /\ t4[1] = x2 /\ t4[2] = x4 /\ t4[3] = x4
      /\ t4 = [t3 EXCEPT ![2] = x4]
  BY <1>3, <1>15
<1> HIDE DEF t4
<1>17. t5 \in [1..3 -> Level] /\ t5[1] = x3 /\ t5[2] = x4 /\ t5[3] = x4
      /\ t5 = [t4 EXCEPT ![1] = x3]
  BY <1>3, <1>16
<1>18. t6 \in [1..3 -> Level] /\ t6[1] = x4 /\ t6[2] = x4 /\ t6[3] = x4
      /\ t6 = [t5 EXCEPT ![1] = x4]
  BY <1>3, <1>17
<1>19. t6 = InAll(3, x4)
  <2> HIDE DEF t6
  <2>1. \A c \in 1..3 : t6[c] = x4
    BY <1>18
  <2>2. t6 = [c \in 1..3 |-> t6[c]]
    BY <1>18
  <2> QED
    BY <2>1, <2>2, Zenon DEF InAll
<1>20. t7 \in [1..3 -> Level] /\ t7[1] = x5 /\ t7[2] = x5 /\ t7[3] = x5
  BY <1>3 DEF InAll
<1> HIDE DEF t7
<1>21. t8 \in [1..3 -> Level] /\ t8[1] = x5 /\ t8[2] = x5 /\ t8[3] = x6
      /\ t8 = [t7 EXCEPT ![3] = x6]
  BY <1>3, <1>20
<1> HIDE DEF t8
<1>22. t9 \in [1..3 -> Level] /\ t9[1] = x5 /\ t9[2] = x6 /\ t9[3] = x6
      /\ t9 = [t8 EXCEPT ![2] = x6]
  BY <1>3, <1>21
<1> HIDE DEF t9
<1>23. t10 \in [1..3 -> Level] /\ t10[1] = x6 /\ t10[2] = x6 /\ t10[3] = x6
      /\ t10 = [t9 EXCEPT ![1] = x6]
  BY <1>3, <1>22
<1>24. t10 = InAll(3, x6)
  <2> HIDE DEF t10
  <2>1. \A c \in 1..3 : t10[c] = x6
    BY <1>23
  <2>2. t10 = [c \in 1..3 |-> t10[c]]
    BY <1>23
  <2> QED
    BY <2>1, <2>2, Zenon DEF InAll
<1> HIDE DEF t10
<1>25. f1[1].Se = 0
  BY <1>1, <1>4, FillDCScans
<1>26. Part(3, Levels(3, t1), f2, Levels(3, t2), 1)
  <2>1. ScanOfThree(t1, t2, c2, 1, x1, x2)
    BY <1>1, <1>5, <1>13, <1>14 DEF ScanOfThree
  <2> QED
    BY <2>1, OneOfThree
<1>27. Part(3, Levels(3, t2), f3, Levels(3, t3), 1)
  <2>1. ScanOfThree(t2, t3, c3, 3, x1, x4)
    BY <1>1, <1>6, <1>14, <1>15 DEF ScanOfThree
  <2> QED
    BY <2>1, OneOfThree
<1>28. Part(3, Levels(3, t3), f4, Levels(3, t4), 1)
  <2>1. ScanOfThree(t3, t4, c4, 2, x1, x4)
    BY <1>1, <1>7, <1>15, <1>16 DEF ScanOfThree
  <2> QED
    BY <2>1, OneOfThree
<1>29. Part(3, Levels(3, t4), f5, Levels(3, t5), 1)
  <2>1. ScanOfThree(t4, t5, c5, 1, x2, x3)
    BY <1>1, <1>8, <1>16, <1>17 DEF ScanOfThree
  <2> QED
    BY <2>1, OneOfThree
<1>30. Part(3, Levels(3, t5), f6, Levels(3, t6), 1)
  <2>1. ScanOfThree(t5, t6, c6, 1, x3, x4)
    BY <1>1, <1>9, <1>17, <1>18 DEF ScanOfThree
  <2> QED
    BY <2>1, OneOfThree
<1>31. Part(3, Levels(3, InAll(3, x4)), f7, Levels(3, InAll(3, x5)), DCScans(3))
  BY <1>1, <1>4, FillDCScans, Zenon
<1>32. Part(3, Levels(3, t7), f8, Levels(3, t8), 1)
  <2>1. ScanOfThree(t7, t8, c8, 3, x5, x6)
    BY <1>1, <1>10, <1>20, <1>21 DEF ScanOfThree
  <2> QED
    BY <2>1, OneOfThree
<1>33. Part(3, Levels(3, t8), f9, Levels(3, t9), 1)
  <2>1. ScanOfThree(t8, t9, c9, 2, x5, x6)
    BY <1>1, <1>11, <1>21, <1>22 DEF ScanOfThree
  <2> QED
    BY <2>1, OneOfThree
<1>34. Part(3, Levels(3, t9), f10, Levels(3, t10), 1)
  <2>1. ScanOfThree(t9, t10, c10, 1, x5, x6)
    BY <1>1, <1>12, <1>22, <1>23 DEF ScanOfThree
  <2> QED
    BY <2>1, OneOfThree
<1>35. Part(3, Levels(3, InAll(3, x0)), f1, Levels(3, t1), 1)
  BY <1>4, <1>1, FillDCScans, Zenon DEF t1
<1>36. Part(3, Levels(3, t6), f7, Levels(3, t7), 1)
  BY <1>4, <1>19, <1>31, Zenon DEF t7
<1> HIDE DEF f1, f2, f3, f4, f5, f6, f7, f8, f9, f10, t1, t2, t3, t4, t5, t6, t7, t8, t9, t10
<1> DEFINE b == Levels(3, InAll(3, x0))
           s1 == f1
           s2 == s1 \o f2
           s3 == s2 \o f3
           s4 == s3 \o f4
           s5 == s4 \o f5
           s6 == s5 \o f6
           s7 == s6 \o f7
           s8 == s7 \o f8
           s9 == s8 \o f9
           s10 == s9 \o f10
<1>37. Part(3, b, s1, Levels(3, t1), 1) /\ s1[1].Se = 0
  BY <1>25, <1>35, Zenon
<1> HIDE DEF b, s1
<1>38. Part(3, b, s2, Levels(3, t2), 2) /\ s2[1].Se = 0
  <2>1. (s1 \o f2)[1] = s1[1]
    BY <1>37, <1>26, FirstKept DEF Part
  <2>2. 1 + 1 = 2
    OBVIOUS
  <2> QED
    BY <1>37, <1>26, PartsOn, <2>1, <2>2
<1> HIDE DEF s2
<1>39. Part(3, b, s3, Levels(3, t3), 3) /\ s3[1].Se = 0
  <2>1. (s2 \o f3)[1] = s2[1]
    BY <1>38, <1>27, FirstKept DEF Part
  <2>2. 2 + 1 = 3
    OBVIOUS
  <2> QED
    BY <1>38, <1>27, PartsOn, <2>1, <2>2
<1> HIDE DEF s3
<1>40. Part(3, b, s4, Levels(3, t4), 4) /\ s4[1].Se = 0
  <2>1. (s3 \o f4)[1] = s3[1]
    BY <1>39, <1>28, FirstKept DEF Part
  <2>2. 3 + 1 = 4
    OBVIOUS
  <2> QED
    BY <1>39, <1>28, PartsOn, <2>1, <2>2
<1> HIDE DEF s4
<1>41. Part(3, b, s5, Levels(3, t5), 5) /\ s5[1].Se = 0
  <2>1. (s4 \o f5)[1] = s4[1]
    BY <1>40, <1>29, FirstKept DEF Part
  <2>2. 4 + 1 = 5
    OBVIOUS
  <2> QED
    BY <1>40, <1>29, PartsOn, <2>1, <2>2
<1> HIDE DEF s5
<1>42. Part(3, b, s6, Levels(3, t6), 6) /\ s6[1].Se = 0
  <2>1. (s5 \o f6)[1] = s5[1]
    BY <1>41, <1>30, FirstKept DEF Part
  <2>2. 5 + 1 = 6
    OBVIOUS
  <2> QED
    BY <1>41, <1>30, PartsOn, <2>1, <2>2
<1> HIDE DEF s6
<1>43. Part(3, b, s7, Levels(3, t7), 7) /\ s7[1].Se = 0
  <2>1. (s6 \o f7)[1] = s6[1]
    BY <1>42, <1>36, FirstKept DEF Part
  <2>2. 6 + 1 = 7
    OBVIOUS
  <2> QED
    BY <1>42, <1>36, PartsOn, <2>1, <2>2
<1> HIDE DEF s7
<1>44. Part(3, b, s8, Levels(3, t8), 8) /\ s8[1].Se = 0
  <2>1. (s7 \o f8)[1] = s7[1]
    BY <1>43, <1>32, FirstKept DEF Part
  <2>2. 7 + 1 = 8
    OBVIOUS
  <2> QED
    BY <1>43, <1>32, PartsOn, <2>1, <2>2
<1> HIDE DEF s8
<1>45. Part(3, b, s9, Levels(3, t9), 9) /\ s9[1].Se = 0
  <2>1. (s8 \o f9)[1] = s8[1]
    BY <1>44, <1>33, FirstKept DEF Part
  <2>2. 8 + 1 = 9
    OBVIOUS
  <2> QED
    BY <1>44, <1>33, PartsOn, <2>1, <2>2
<1> HIDE DEF s9
<1>46. Part(3, b, s10, Levels(3, t10), 10) /\ s10[1].Se = 0
  <2>1. (s9 \o f10)[1] = s9[1]
    BY <1>45, <1>34, FirstKept DEF Part
  <2>2. 9 + 1 = 10
    OBVIOUS
  <2> QED
    BY <1>45, <1>34, PartsOn, <2>1, <2>2
<1> HIDE DEF s10
<1>47. SimpleProgression(3, "YCbCr") = s10
  BY <1>2, Zenon DEF s1, s2, s3, s4, s5, s6, s7, s8, s9, s10
<1>48. 10 \in Nat /\ 10 >= 1 /\ s10[1].Se = 0
  BY <1>46
<1>49. s10 # << >> /\ Len(s10) = 10 /\ Walk(s10, 3) = Levels(3, InAll(3, << 0, 0, 0 >>))
  BY <1>4, <1>24, <1>46, <1>48, PartIsWhole DEF b, x0, x6
<1> QED
  BY <1>47, <1>49 DEF LibraryScript, nscans

\* Whatever the components, the script of the library is a good one.
LEMMA ScriptOfLibrary ==
    ASSUME RoomForScripts, NEW n, n \in Nat \ {0}, NEW space
    PROVE  LibraryScript(n, space, SimpleProgression(n, space))
BY YCbCrScript, AnyScript

\* A script of the library sends everything.
LEMMA LibraryScriptServes ==
    ASSUME RoomForScripts, NEW n, n \in Nat \ {0}, NEW space, NEW script,
           LibraryScript(n, space, script)
    PROVE  /\ Len(script) = nscans(n, space) /\ Walk(script, n) # Refused
           /\ \A c \in 1..n, k \in 0..LastCoef : Walk(script, n)[c][k] = 0
<1> DEFINE t == InAll(n, << 0, 0, 0 >>)
<1>1. Len(script) = nscans(n, space) /\ Walk(script, n) = Levels(n, t)
  BY Zenon DEF LibraryScript
<1>2. ASSUME NEW c \in 1..n, NEW k \in 0..LastCoef PROVE Levels(n, t)[c][k] = 0
  <2>1. t[c] = << 0, 0, 0 >>
    BY DEF InAll
  <2> HIDE DEF t
  <2>2. t[c][Band(k)] = 0
    BY <2>1, SetupAssumption DEF Band
  <2> QED
    BY <2>2 DEF Levels
<1> HIDE DEF t
<1> QED
  BY <1>1, <1>2, NotRefused

-----------------------------------------------------------------------------
(* The script in use is the one the application's parameters came with, or *)
(* the library's.                                                          *)

OwnScript(c) ==
    c.plan.progression =>
        /\ c.comps # << >>
        /\ c.scan_info = << >> \/ c.scan_info = SimpleProgression(Len(c.comps), c.jpeg_color_space)

ScriptInv == OwnScript(cinfo)

SameScript(c, d) ==
    /\ d.plan = c.plan /\ d.comps = c.comps /\ d.scan_info = c.scan_info
    /\ d.jpeg_color_space = c.jpeg_color_space

LEMMA ConfigScripts == ASSUME NEW c \in Configs PROVE OwnScript(c)
BY ScriptAssumption, Zenon DEF OwnScript

LEMMA ScriptKept == ASSUME NEW c, NEW d, OwnScript(c), SameScript(c, d) PROVE OwnScript(d)
BY Zenon DEF OwnScript, SameScript

LEMMA OptimizingScript == ASSUME NEW c \in ParameterSet PROVE SameScript(c, Optimizing(c))
<1> DEFINE o == Optimizes(c)
<1> HIDE DEF o
<1> QED
  BY DEF ParameterSet, SameScript, Optimizing

LEMMA RestartScript == ASSUME NEW c \in ParameterSet, NEW s PROVE SameScript(c, WithRestart(c, s))
<1> DEFINE r == RestartInterval(c, s)
<1> HIDE DEF r
<1> QED
  BY DEF ParameterSet, SameScript, WithRestart

LEMMA ProgressionScripts ==
    ASSUME IndInv, ScriptInv, jpeg_simple_progression PROVE ScriptInv'
<1> DEFINE script == SimpleProgression(Len(cinfo.comps), cinfo.jpeg_color_space)
<1>1. cinfo' = [cinfo EXCEPT !.scan_info = script] /\ cinfo.plan.progression
  BY Zenon DEF jpeg_simple_progression
<1> HIDE DEF script
<1> QED
  BY <1>1 DEF ScriptInv, OwnScript, script, ParameterSet, IndInv, TypesInv

LEMMA NextScripts == ASSUME IndInv, ScriptInv, Next PROVE ScriptInv'
<1>1. cinfo \in ParameterSet
  BY Zenon DEF IndInv, TypesInv
<1>2. ASSUME cinfo' = cinfo PROVE ScriptInv'
  BY <1>2, Zenon DEF ScriptInv
<1>3. ASSUME cinfo' = Optimizing(cinfo) PROVE ScriptInv'
  BY <1>1, <1>3, OptimizingScript, ScriptKept, Zenon DEF ScriptInv
<1>4. ASSUME NEW s, cinfo' = WithRestart(cinfo, s) PROVE ScriptInv'
  BY <1>1, <1>4, RestartScript, ScriptKept, Zenon DEF ScriptInv
<1>5. ASSUME NEW s, cinfo' = WithRestart(Optimizing(cinfo), s) PROVE ScriptInv'
  BY <1>1, MasterParameters, OptimizingScript, ScriptKept, <1>5, RestartScript DEF
     ScriptInv
<1>6. CASE Tables
  <2>1. CASE jpeg_set_defaults
    BY <2>1, ConfigScripts, Zenon DEF jpeg_set_defaults, ScriptInv
  <2>2. CASE jpeg_simple_progression
    BY <2>2, ProgressionScripts
  <2>3. CASE \E force_baseline \in BOOLEAN, slot \in 0..1, scale_factor \in ScaleFactors :
                jpeg_add_quant_table(slot, scale_factor, force_baseline)
    BY <1>2, <2>3, Zenon DEF jpeg_add_quant_table, NewQuantTables
  <2>4. CASE \E force_baseline \in BOOLEAN, quality \in Qualities :
                jpeg_set_quality(quality, force_baseline)
    BY <1>2, <2>4, Zenon DEF jpeg_set_quality, NewQuantTables
  <2>5. CASE SuppressTables \/ jpeg_write_tables
    BY <1>2, <2>5, Zenon DEF SuppressTables, jpeg_write_tables
  <2> QED
    BY <1>6, <2>1, <2>2, <2>3, <2>4, <2>5, Zenon DEF Tables
<1>7. CASE Start
  BY <1>5, <1>2, <1>3, <1>7, Zenon DEF jpeg_start_compress, StartMainPass, StartFails,
     jpeg_write_coefficients, BadScan, Start
<1>8. CASE Data
  BY <1>2, <1>8, Zenon DEF Data, jpeg_write_scanlines, jpeg_write_raw_data, StartupFails,
     pre_process_data, pre_process_context, SendRow, ReturnLines, Unchanged_in_main
<1>9. CASE Coefficients
  BY <1>2, <1>9, Zenon DEF Coefficients, encode_mcu, SuspendLines, SuspendRaw, SuspendCrank,
     Suspend, RowDoneLines, RowDoneRaw, RowDoneCrank, UnchangedInCoef
<1>10. CASE Finish
  BY <1>4, <1>2, <1>10, Zenon DEF PrepareHuffOpt, PrepareOutput, jpeg_finish_compress,
     finish_pass_master, FlushFails, TrailerFails, Trailer, jpeg_abort_compress, Finish
<1> QED
  BY <1>6, <1>7, <1>8, <1>9, <1>10, Zenon DEF Next

LEMMA ScriptsServe == ASSUME IndInv, ScriptInv PROVE ScriptServes
<1> SUFFICES ASSUME cinfo.plan.progression, cinfo.scan_info # << >>
             PROVE  LET n == Len(cinfo.comps)
                        sent == Walk(cinfo.scan_info, n)
                    IN  /\ Len(cinfo.scan_info) = nscans(n, cinfo.jpeg_color_space)
                        /\ sent # Refused
                        /\ \A c \in 1..n, k \in 0..LastCoef : sent[c][k] = 0
  BY Zenon DEF ScriptServes
<1> DEFINE n == Len(cinfo.comps)
           space == cinfo.jpeg_color_space
           script == cinfo.scan_info
<1>1. script = SimpleProgression(n, space) /\ cinfo.comps # << >>
  BY Zenon DEF ScriptInv, OwnScript
<1>2. n \in Nat \ {0}
  BY <1>1 DEF IndInv, TypesInv, ParameterSet
<1>3. RoomForScripts
  BY ScriptAssumption DEF RoomForScripts
<1> HIDE DEF n, space, script
<1>4. LibraryScript(n, space, script)
  BY <1>1, <1>2, <1>3, ScriptOfLibrary
<1> QED
  BY <1>2, <1>3, <1>4, LibraryScriptServes DEF n, space, script

\* What is sent is the image: every MCU is the right one, and a script made by
\* jpeg_simple_progression fits the space allocated for it, is accepted by
\* validate_script and sends every coefficient of every component to its last bit.
THEOREM ImageIsSentHolds == Spec => []ImageIsSent
<1>1. Init => IndInv /\ DataInv /\ ScriptInv
  BY ConfigScripts, InitInd, InitData, Zenon DEF Init, ScriptInv
<1>2. IndInv /\ DataInv /\ ScriptInv /\ [Next]_vars => (IndInv /\ DataInv /\ ScriptInv)'
  <2>1. ASSUME IndInv, DataInv, ScriptInv, Next PROVE IndInv' /\ DataInv' /\ ScriptInv'
    BY <2>1, NextInd, NextData, NextScripts
  <2>2. ASSUME IndInv, DataInv, ScriptInv, UNCHANGED vars PROVE IndInv' /\ DataInv' /\ ScriptInv'
    BY <2>2, StutterInd, StutterData, Zenon DEF vars, ScriptInv
  <2> QED
    BY <2>1, <2>2, Zenon
<1>3. IndInv /\ DataInv /\ ScriptInv => ImageIsSent
  <2> SUFFICES ASSUME IndInv, DataInv, ScriptInv PROVE ImageIsSent
    OBVIOUS
  <2> QED
    BY ScriptsServe DEF ImageIsSent, DataInv
<1> QED
  BY <1>1, <1>2, <1>3, PTL DEF Spec
=============================================================================
