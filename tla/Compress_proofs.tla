--------------------------- MODULE Compress_proofs ---------------------------
(***************************************************************************)
(* The compressor, for every set of parameters and any number of images:   *)
(* the passes encode all scans and all their MCUs, the rows the            *)
(* application hands over are accounted for whatever the destination       *)
(* refuses, and a reader of the output has the tables it needs.            *)
(***************************************************************************)
EXTENDS Compress, FiniteSetTheorems, WellFoundedInduction, TLAPS

(***************************************************************************)
(* The arithmetic of the sizes: of images, of components and of scans.     *)

(* What div is, for natural numbers, and that nothing else is.             *)
LEMMA Quotient ==
    ASSUME NEW a \in Nat, NEW b \in Nat \ {0}
    PROVE  /\ a \div b \in Nat
           /\ b * (a \div b) <= a /\ a < b * (a \div b) + b
OBVIOUS

LEMMA QuotientUnique ==
    ASSUME NEW a \in Nat, NEW b \in Nat \ {0}, NEW q \in Nat,
           b * q <= a, a < b * q + b
    PROVE  a \div b = q
OBVIOUS

(* Multiples of a number keep the order of the factors.                    *)
LEMMA Multiples ==
    ASSUME NEW n \in Nat \ {0}, NEW a \in Nat, NEW b \in Nat
    PROVE  /\ n * a \in Nat /\ n * a = a * n
           /\ a <= b <=> n * a <= n * b
           /\ a < b => n * a + n <= n * b
           /\ n * (a + b) = n * a + n * b /\ n * (a + 1) = n * a + n
OBVIOUS

(* Rounding up.                                                            *)
LEMMA RoundsUp ==
    ASSUME NEW a \in Nat, NEW b \in Nat \ {0}
    PROVE  LET q == jdiv_round_up(a, b)
           IN  q \in Nat /\ a <= b * q /\ b * q < a + b /\ (a > 0 => q > 0)
<1> DEFINE q == (a + b - 1) \div b
<1>1. q \in Nat /\ b * q <= a + b - 1 /\ a + b - 1 < b * q + b
  BY Quotient
<1>2. jdiv_round_up(a, b) = q
  BY Zenon DEF jdiv_round_up
<1> HIDE DEF q
<1> QED
  BY <1>1, <1>2

LEMMA RoundsUpUnique ==
    ASSUME NEW a \in Nat, NEW b \in Nat \ {0}, NEW q \in Nat,
           a <= b * q, b * q < a + b
    PROVE  jdiv_round_up(a, b) = q
BY QuotientUnique DEF jdiv_round_up

LEMMA RoundsUpMonotone ==
    ASSUME NEW a \in Nat, NEW c \in Nat, NEW b \in Nat \ {0}, a <= c
    PROVE  jdiv_round_up(a, b) <= jdiv_round_up(c, b)
<1> DEFINE p == jdiv_round_up(a, b)
           q == jdiv_round_up(c, b)
<1>1. /\ p \in Nat /\ a <= b * p /\ b * p < a + b
      /\ q \in Nat /\ c <= b * q /\ b * q < c + b
  BY RoundsUp
<1> HIDE DEF p, q
<1>2. ~ q < p
  <2> SUFFICES ASSUME q < p PROVE FALSE
    OBVIOUS
  <2> QED
    BY <1>1, Multiples
<1> QED
  BY <1>1, <1>2 DEF p, q

(* A size rounded up to whole blocks or iMCUs: a multiple that is not      *)
(* less, that keeps the order, and beyond all smaller multiples.           *)
LEMMA RoundsUpToMultiple ==
    ASSUME NEW a \in Nat, NEW n \in Nat \ {0}
    PROVE  /\ jround_up(a, n) \in Nat /\ a <= jround_up(a, n)
           /\ n = 1 => jround_up(a, n) = a
           /\ \A k \in Nat : k * n < a => k * n + n <= jround_up(a, n)
           /\ \A c \in Nat : a <= c => jround_up(a, n) <= jround_up(c, n)
<1> DEFINE q == jdiv_round_up(a, n)
<1>1. q \in Nat /\ a <= n * q /\ n * q < a + n
  BY RoundsUp
<1>2. jround_up(a, n) = q * n
  BY Zenon DEF jround_up
<1>3. ASSUME NEW c \in Nat, a <= c PROVE jround_up(a, n) <= jround_up(c, n)
  <2> DEFINE r == jdiv_round_up(c, n)
  <2>1. r \in Nat /\ q <= r
    BY <1>3, RoundsUp, RoundsUpMonotone
  <2>2. jround_up(c, n) = r * n
    BY Zenon DEF jround_up
  <2> HIDE DEF q, r
  <2> QED
    BY <1>2, <2>2, <1>1, <2>1, Multiples
<1> HIDE DEF q
<1>4. n * q \in Nat /\ n * q = q * n
  BY <1>1, Multiples
<1>5. ASSUME NEW k \in Nat, k * n < a PROVE k * n + n <= jround_up(a, n)
  BY <1>1, <1>4, <1>5, Multiples, <1>2
<1> QED
  BY <1>1, <1>2, <1>3, <1>4, <1>5
-----------------------------------------------------------------------------
(* One dimension of a component: size samples of the image, sampled with   *)
(* factor f of at most m.                                                  *)
BlocksOf(size, f, m) == jdiv_round_up(size * f, m * DCTSIZE)
WholeBlocks(size, f, m) == (size \div (m * DCTSIZE)) * f

LEMMA Dimension ==
    ASSUME NEW size \in Nat \ {0}, NEW m \in Nat \ {0}, NEW f \in 1 .. m
    PROVE  /\ BlocksOf(size, f, m) \in Nat \ {0}
           /\ WholeBlocks(size, f, m) \in Nat
           /\ WholeBlocks(size, f, m) <= BlocksOf(size, f, m)
<1> DEFINE b == m * DCTSIZE
           q == size \div b
           w == q * f
           sf == size * f
<1>1. b \in Nat \ {0} /\ sf \in Nat \ {0}
  BY SetupAssumption
<1>2. q \in Nat /\ b * q <= size
  BY <1>1, Quotient
<1> DEFINE p == jdiv_round_up(sf, b)
<1>3. p \in Nat /\ sf <= b * p /\ p > 0
  <2> HIDE DEF b, sf
  <2> QED
    BY <1>1, RoundsUp
<1>4. BlocksOf(size, f, m) = p /\ WholeBlocks(size, f, m) = w
  BY Zenon DEF BlocksOf, WholeBlocks
<1>5. w \in Nat /\ b * w <= sf
  <2> HIDE DEF b, q
  <2> QED
    BY <1>1, <1>2, Multiples
<1>6. w <= p
  <2> HIDE DEF b, w, p, sf
  <2> QED
    BY <1>1, <1>3, <1>5, Multiples
<1> HIDE DEF p, w
<1> QED
  BY <1>3, <1>4, <1>5, <1>6

Sized(info) ==
    /\ info.image_width \in Nat \ {0} /\ info.image_height \in Nat \ {0}
    /\ Len(info.comps) \in Nat \ {0}
    /\ \A c \in 1..Len(info.comps) : /\ info.comps[c].h \in 1..MAX_SAMP_FACTOR
                                     /\ info.comps[c].v \in 1..MAX_SAMP_FACTOR

WholeCols(info, c) == WholeBlocks(info.image_width, info.comps[c].h, MaxH(info))
WholeRows(info, c) == WholeBlocks(info.image_height, info.comps[c].v, MaxV(info))

LEMMA LargestOf ==
    ASSUME NEW S \in SUBSET (1..4), 1 \in S
    PROVE  Largest(S) \in S /\ \A y \in S : y <= Largest(S)
<1>1. \E x \in S : \A y \in S : y <= x
  OBVIOUS
<1> QED
  BY <1>1, Zenon DEF Largest

LEMMA MaxSampling ==
    ASSUME NEW info, Sized(info)
    PROVE  /\ MaxH(info) \in Nat \ {0} /\ MaxV(info) \in Nat \ {0}
           /\ \A c \in 1..Len(info.comps) : /\ info.comps[c].h \in 1..MaxH(info)
                                            /\ info.comps[c].v \in 1..MaxV(info)
<1> DEFINE hs == {info.comps[c].h : c \in 1..Len(info.comps)} \cup {1}
           vs == {info.comps[c].v : c \in 1..Len(info.comps)} \cup {1}
<1>1. /\ hs \in SUBSET (1..4) /\ vs \in SUBSET (1..4) /\ 1 \in hs /\ 1 \in vs
      /\ \A c \in 1..Len(info.comps) : info.comps[c].h \in hs /\ info.comps[c].v \in vs
  BY DEF Sized, MAX_SAMP_FACTOR
<1>2. MaxH(info) = Largest(hs) /\ MaxV(info) = Largest(vs)
  BY Zenon DEF MaxH, MaxV
<1> HIDE DEF hs, vs
<1>3. \A S \in SUBSET (1..4) : \A m \in S :
         (\A y \in S : y <= m) => m \in Nat \ {0} /\ S \subseteq 1..m
  BY SMT
<1>4. /\ MaxH(info) \in Nat \ {0} /\ hs \subseteq 1..MaxH(info)
      /\ MaxV(info) \in Nat \ {0} /\ vs \subseteq 1..MaxV(info)
  BY <1>1, <1>2, LargestOf, <1>3, Zenon
<1> QED
  BY <1>1, <1>4, Zenon

LEMMA ComponentSizes ==
    ASSUME NEW info, Sized(info), NEW c \in 1..Len(info.comps)
    PROVE  /\ width_in_blocks(info, c) \in Nat \ {0}
           /\ height_in_blocks(info, c) \in Nat \ {0}
           /\ WholeCols(info, c) \in Nat
           /\ WholeCols(info, c) <= width_in_blocks(info, c)
           /\ WholeRows(info, c) \in Nat
           /\ WholeRows(info, c) <= height_in_blocks(info, c)
BY MaxSampling, Dimension, Zenon DEF Sized, width_in_blocks, height_in_blocks, BlocksOf,
   WholeCols, WholeRows

(* The iMCU rows of an image, the last of which is not empty, and the block*)
(* rows of a component: all row groups but the last are full.              *)
LEMMA IMCURows ==
    ASSUME NEW size \in Nat \ {0}, NEW m \in Nat \ {0}
    PROVE  LET rows == jdiv_round_up(size, m * DCTSIZE)
           IN  /\ rows \in Nat \ {0}
               /\ \A k \in Nat : rows <= k <=> size <= (m * DCTSIZE) * k
<1> DEFINE b == m * DCTSIZE
           rows == jdiv_round_up(size, b)
<1>1. b \in Nat \ {0}
  BY SetupAssumption
<1>2. rows \in Nat /\ size <= b * rows /\ b * rows < size + b /\ rows > 0
  <2> HIDE DEF b
  <2> QED
    BY <1>1, RoundsUp
<1> HIDE DEF rows, b
<1>3. ASSUME NEW k \in Nat PROVE rows <= k <=> size <= b * k
  BY <1>1, <1>2, <1>3, Multiples
<1> QED
  BY <1>2, <1>3 DEF rows, b

LEMMA LastBlocksOf ==
    ASSUME NEW n \in Nat \ {0}, NEW f \in Nat \ {0}, NEW q \in Nat,
           f * q < n, n <= f * q + f
    PROVE  LastBlocks(n, f) \in 1..f /\ f * q + LastBlocks(n, f) = n
<1>1. f * q \in Nat /\ f * (q + 1) = f * q + f
  OBVIOUS
<1>2. n % f = n - f * (n \div f)
  OBVIOUS
<1> DEFINE d == n \div f
<1>3. CASE n = f * q + f
  <2>1. n % f = 0
    <3> HIDE DEF d
    <3> QED
      BY <1>1, <1>3, QuotientUnique, <1>2 DEF d
  <2> QED
    BY <1>1, <1>3, <2>1 DEF LastBlocks
<1>4. CASE n < f * q + f
  <2>1. d = q
    BY <1>1, <1>4, QuotientUnique
  <2>2. n % f = n - f * q
    BY <1>2, <2>1
  <2>3. n % f # 0 /\ n % f \in 1..f
    BY <1>1, <1>4, <2>2
  <2> QED
    BY <1>1, <2>2, <2>3 DEF LastBlocks
<1> QED
  BY <1>1, <1>3, <1>4

LEMMA LastRowGroup ==
    ASSUME NEW size \in Nat \ {0}, NEW m \in Nat \ {0}, NEW f \in 1 .. m
    PROVE  LET rows == jdiv_round_up(size, m * DCTSIZE)
               blocks == BlocksOf(size, f, m)
           IN  /\ LastBlocks(blocks, f) \in 1..f
               /\ f * (rows - 1) + LastBlocks(blocks, f) = blocks
<1> DEFINE b == m * DCTSIZE
           rows == jdiv_round_up(size, b)
           sf == size * f
           blocks == jdiv_round_up(sf, b)
           q == rows - 1
<1>1. b \in Nat \ {0} /\ sf \in Nat \ {0} /\ f \in Nat \ {0}
  BY SetupAssumption
<1>2. rows \in Nat \ {0} /\ size <= b * rows /\ ~ size <= b * q /\ q \in Nat
  <2>1. rows \in Nat \ {0} /\ \A k \in Nat : rows <= k <=> size <= b * k
    BY IMCURows
  <2>2. q \in Nat /\ ~ rows <= q /\ rows <= rows
    <3> HIDE DEF rows
    <3> QED
      BY <2>1
  <2> QED
    BY <2>1, <2>2
<1>3. blocks \in Nat /\ sf <= b * blocks /\ b * blocks < sf + b /\ blocks > 0
  <2> HIDE DEF b, sf
  <2> QED
    BY <1>1, RoundsUp
<1>4. BlocksOf(size, f, m) = blocks
  BY Zenon DEF BlocksOf
<1>5. f * q < blocks /\ blocks <= f * q + f
  <2> DEFINE e == f * q
  <2>1. e \in Nat /\ b * q \in Nat /\ b * rows = b * q + b
        /\ b * e = f * (b * q) /\ b * (e + f) = f * (b * rows)
    <3> HIDE DEF b, rows
    <3> QED
      BY <1>1, <1>2
  <2>2. b * e < sf /\ sf <= b * (e + f)
    <3> HIDE DEF b, rows, q, e
    <3> QED
      BY <1>1, <2>1, <1>2, Multiples
  <2> HIDE DEF e, q, rows, b, blocks, sf
  <2> QED
    BY <1>1, <1>3, <2>1, <2>2, Multiples DEF e
<1> HIDE DEF blocks, q
<1>6. LastBlocks(blocks, f) \in 1..f /\ f * q + LastBlocks(blocks, f) = blocks
  <2> HIDE DEF rows, b, sf
  <2>1. blocks \in Nat \ {0} /\ q \in Nat /\ f \in Nat \ {0}
    BY <1>1, <1>2, <1>3
  <2> QED
    BY <2>1, <1>5, LastBlocksOf
<1> QED
  BY <1>4, <1>6, Zenon DEF q

-----------------------------------------------------------------------------
(* Induction, as the prover can use it: a set of numbers has a smallest.   *)
LEMMA Smallest ==
    ASSUME NEW S \in SUBSET Nat, S # {}
    PROVE  \E n \in S : \A k \in S : n <= k
<1> DEFINE R == OpToRel(<, Nat)
<1>1. IsWellFoundedOn(R, Nat)
  BY NatLessThanWellFounded, Zenon
<1>2. PICK n \in S : \A k \in S : <<k, n>> \notin R
  <2> HIDE DEF R
  <2> QED
    BY <1>1, WFMin
<1>3. \A k \in S : ~ (k < n)
  BY <1>2 DEF OpToRel
<1> QED
  BY <1>3

(* The walk of validate_script through n scans, state by state.            *)
Walks(w, n, script, ncomps) ==
    w = [k \in 0..n |->
            IF k = 0 THEN NothingSent(ncomps)
            ELSE Follow(w[k - 1], script[k], ncomps, Progressive(script))]

LEMMA WalkExists ==
    ASSUME NEW script, NEW ncomps
    PROVE  \A n \in Nat : \E w : Walks(w, n, script, ncomps)
<1> DEFINE Bad == {n \in Nat : ~ \E w : Walks(w, n, script, ncomps)}
           Step(last, k) == Follow(last, script[k], ncomps, Progressive(script))
<1> SUFFICES ASSUME Bad # {} PROVE FALSE
  OBVIOUS
<1>1. PICK n \in Bad : \A k \in Bad : n <= k
  <2> Bad \in SUBSET Nat
    OBVIOUS
  <2> HIDE DEF Bad
  <2> QED
    BY Smallest
<1>2. n \in Nat
  OBVIOUS
<1>3. CASE n = 0
  <2> DEFINE v == [k \in 0..0 |-> NothingSent(ncomps)]
  <2>1. v = [k \in 0..0 |-> IF k = 0 THEN NothingSent(ncomps) ELSE Step(v[k - 1], k)]
    <3> HIDE DEF Step
    <3> QED
      OBVIOUS
  <2> QED
    BY <1>3, <2>1 DEF Walks
<1>4. CASE n # 0
  <2>1. n - 1 \in Nat /\ n - 1 \notin Bad
    <3> HIDE DEF Bad
    <3> QED
      BY <1>1, <1>2, <1>4
  <2>2. PICK w : Walks(w, n - 1, script, ncomps)
    BY <2>1
  <2> DEFINE v == [k \in 0..n |-> IF k = n THEN Step(w[n - 1], n) ELSE w[k]]
  <2>3. w = [k \in 0..n - 1 |-> IF k = 0 THEN NothingSent(ncomps) ELSE Step(w[k - 1], k)]
    BY <2>2, Zenon DEF Walks
  <2>4. v = [k \in 0..n |-> IF k = 0 THEN NothingSent(ncomps) ELSE Step(v[k - 1], k)]
    <3> HIDE DEF Step
    <3>1. \A k \in 0..n - 1 :
             w[k] = IF k = 0 THEN NothingSent(ncomps) ELSE Step(w[k - 1], k)
      <4> DEFINE Rhs == [k \in 0..n - 1 |-> IF k = 0 THEN NothingSent(ncomps)
                                            ELSE Step(w[k - 1], k)]
      <4> HIDE DEF Rhs
      <4> QED
        BY <2>3, Zenon DEF Rhs
    <3>2. \A k \in 0..n - 1 : v[k] = w[k]
      BY <1>2
    <3>3. v[n] = Step(w[n - 1], n)
      BY <1>2
    <3>4. \A k \in 0..n : v[k] = IF k = 0 THEN NothingSent(ncomps) ELSE Step(v[k - 1], k)
      <4> HIDE DEF v
      <4> SUFFICES ASSUME NEW k \in 0..n
                   PROVE v[k] = IF k = 0 THEN NothingSent(ncomps) ELSE Step(v[k - 1], k)
        OBVIOUS
      <4>1. CASE k = n
        BY <1>2, <1>4, <4>1, <3>2, <3>3
      <4>2. CASE k # n
        BY <1>2, <4>2, <3>2, <3>1
      <4> QED
        BY <4>1, <4>2
    <3>5. DOMAIN v = 0..n /\ v = [k \in DOMAIN v |-> v[k]]
      BY Zenon
    <3> HIDE DEF v
    <3> QED
      BY <3>4, <3>5, Zenon
  <2> QED
    BY <2>4 DEF Walks
<1> QED
  BY <1>3, <1>4

LEMMA WalkedIs ==
    ASSUME NEW script, NEW ncomps, Len(script) \in Nat
    PROVE  /\ Walked(script, ncomps)[0] = NothingSent(ncomps)
           /\ \A k \in 1..Len(script) :
                Walked(script, ncomps)[k]
                  = Follow(Walked(script, ncomps)[k - 1], script[k], ncomps, Progressive(script))
<1> DEFINE w == Walked(script, ncomps)
           n == Len(script)
           Step(last, k) == Follow(last, script[k], ncomps, Progressive(script))
<1>1. \E x : Walks(x, n, script, ncomps)
  BY WalkExists
<1>2. \A k \in 0..n : w[k] = IF k = 0 THEN NothingSent(ncomps) ELSE Step(w[k - 1], k)
  <2> DEFINE Rhs == [k \in 0..n |-> IF k = 0 THEN NothingSent(ncomps) ELSE Step(w[k - 1], k)]
  <2>1. \A k \in 0..n : Rhs[k] = IF k = 0 THEN NothingSent(ncomps) ELSE Step(w[k - 1], k)
    BY Zenon
  <2>2. w = Rhs
    BY <1>1, Zenon DEF Walks, Walked
  <2> HIDE DEF Rhs
  <2> QED
    BY <2>1, <2>2, Zenon
<1> HIDE DEF w, Step, n
<1> QED
  BY <1>2 DEF w, Step, n

(* A script that is not refused: every scan of it is good after those      *)
(* before it.                                                              *)
LEMMA ScriptScans ==
    ASSUME NEW script, NEW ncomps, Len(script) \in Nat,
           validate_script(script, ncomps)
    PROVE  \A k \in 1..Len(script) :
              GoodScan(script[k], Walked(script, ncomps)[k - 1], ncomps, Progressive(script))
<1> DEFINE w == Walked(script, ncomps)
           n == Len(script)
           Good(k) == GoodScan(script[k], w[k - 1], ncomps, Progressive(script))
<1>1. \A k \in 1..n : w[k] # Refused =>
         w[k - 1] # Refused /\ Good(k)
  <2> SUFFICES ASSUME NEW k \in 1..n, w[k] # Refused
               PROVE w[k - 1] # Refused /\ Good(k)
    BY Zenon
  <2>1. w[k] = Follow(w[k - 1], script[k], ncomps, Progressive(script))
    BY WalkedIs, Zenon
  <2> HIDE DEF w
  <2> QED
    BY <2>1, Zenon DEF Follow
<1>2. w[n] # Refused
  BY Zenon DEF validate_script, WalkEndsWell, Walk
<1> HIDE DEF Good
<1> DEFINE Bad == {j \in Nat : j <= n /\ w[n - j] = Refused}
<1>3. Bad = {}
  <2> SUFFICES ASSUME Bad # {} PROVE FALSE
    OBVIOUS
  <2>1. PICK j \in Bad : \A k \in Bad : j <= k
    <3> Bad \in SUBSET Nat
      OBVIOUS
    <3> HIDE DEF Bad
    <3> QED
      BY Smallest
  <2>2. j \in Nat /\ j <= n /\ w[n - j] = Refused
    OBVIOUS
  <2> HIDE DEF w
  <2>3. j # 0
    BY <1>2, <2>2
  <2>4. j - 1 \notin Bad
    <3> HIDE DEF Bad
    <3> QED
      BY <2>1, <2>2, <2>3
  <2> QED
    BY <1>1, <2>2, <2>3, <2>4
<1>4. ASSUME NEW k \in 1..n PROVE Good(k)
  <2>1. n - k \notin Bad
    BY <1>3, Zenon
  <2>2. w[k] # Refused
    <3> HIDE DEF w
    <3> QED
      BY <2>1
  <2> QED
    BY <1>1, <2>2, Zenon
<1> QED
  BY <1>4, Zenon DEF Good

-----------------------------------------------------------------------------

(***************************************************************************)
(* The parts of the invariant.                                             *)

Active == global_state # "START"
H == cinfo.image_height
mv == MaxV(cinfo)
T == total_iMCU_rows(cinfo)
N == num_scans(cinfo)
Opt == cinfo.optimize_coding

\* The records, of which a buffer may hold anything.
PassTypes == {"main", "huff_opt", "output"}
MasterRecord ==
    [pass_type : PassTypes, pass_number : Nat, scan_number : Nat,
     call_pass_startup : BOOLEAN, is_last_pass : BOOLEAN, transcode : BOOLEAN,
     total_passes : Nat]
CallRecord ==
    [by : {"lines", "raw", "crank"}, in_row_ctr : Nat, in_rows_avail : Nat,
     yoffset : Nat, MCU_col_num : Nat]
CoefRecord ==
    [iMCU_row_num : Nat, mcu_ctr : Nat, MCU_vert_offset : Nat, MCU_rows_per_iMCU_row : Nat]
PrepFields == {"rows_to_go", "next_buf_row", "this_row_group", "next_buf_stop", "color_buf"}
MainFields == {"cur_iMCU_row", "rowgroup_ctr", "suspended", "buffer"}
DoneFields == {"scans", "mcus", "last", "write_all"}

PrepOK ==
    /\ DOMAIN prep = PrepFields
    /\ prep.rows_to_go \in 0..H
    /\ prep.next_buf_row \in Nat
    /\ IF cinfo.need_context_rows
       THEN /\ prep.next_buf_stop \in {mv, 2 * mv, 3 * mv}
            /\ prep.next_buf_row < prep.next_buf_stop
       ELSE prep.next_buf_row < mv
MainOK ==
    /\ DOMAIN main = MainFields
    /\ main.cur_iMCU_row \in 0..T /\ main.rowgroup_ctr \in 0..DCTSIZE
    /\ main.suspended \in BOOLEAN

(* What the marker writer has sent, a reader knows.                        *)
OutOK(w, rd) ==
    /\ DOMAIN w = {"last_restart_interval", "tbl"} /\ DOMAIN w.tbl = TableNames
    /\ DOMAIN rd = {"tbl", "here", "ri", "sof", "scan"} /\ DOMAIN rd.tbl = TableNames
    /\ \A t \in TableNames :
        /\ DOMAIN w.tbl[t] = {"value", "sent_table"} /\ w.tbl[t].sent_table \in BOOLEAN
        /\ w.tbl[t].sent_table => rd.tbl[t] = w.tbl[t].value

TypesInv ==
    /\ global_state \in {"START", "SCANNING", "RAW_OK", "WRCOEFS"}
    /\ pc \in {"app", "main", "mcu", "rowdone", "finish_pass", "passes", "error"}
    /\ next_scanline \in Nat
    /\ cinfo \in ParameterSet
    /\ images \in 0..cinfo.plan.images /\ versions \in 0..MaxVersions /\ refusals \in 0..MaxRefusals
    /\ OutOK(writer, reader)
    /\ DOMAIN done = DoneFields /\ done.mcus \in Nat
    /\ call # Freed => call \in CallRecord /\ call.in_row_ctr <= call.in_rows_avail
    /\ ~Active => call = Freed /\ pc \in {"app", "error"}
    /\ Active => ~BadParameters(cinfo) /\ master \in MasterRecord
    /\ global_state = "SCANNING" => PrepOK /\ MainOK

-----------------------------------------------------------------------------
(* The passes.                                                             *)

\* The pass that master control stands at, in any state.
PassCounted ==
    /\ master.total_passes = IF Opt THEN 2 * N ELSE N
    /\ master.scan_number \in 0..N
    /\ master.pass_type = "main" => master.pass_number = 0 /\ master.scan_number = 0
    /\ master.pass_type = "huff_opt" => Opt /\ master.pass_number = 2 * master.scan_number
    /\ master.pass_type = "output" =>
        IF Opt THEN master.pass_number = 2 * master.scan_number + 1 /\ master.scan_number < N
        ELSE master.pass_number = master.scan_number

FromApplication == global_state \in {"SCANNING", "RAW_OK"}
InPass == pc \in {"main", "mcu", "rowdone", "finish_pass"} \/ (pc = "app" /\ FromApplication)

ScansWritten == done.scans = [i \in 1..master.scan_number |-> i - 1]

PassInv ==
    /\ Active => PassCounted
    /\ Active /\ InPass =>
        /\ master.is_last_pass = (master.pass_number = master.total_passes - 1)
        /\ master.scan_number < N
        /\ ScansWritten
        /\ entropy.gather = (Opt /\ master.pass_type # "output")
        /\ scan = Setup(cinfo, master.scan_number)
    /\ Active /\ pc = "app" /\ ~FromApplication =>
        /\ master.pass_type # "main" /\ ~master.is_last_pass
        /\ master.scan_number = 0 /\ master.pass_number = 0 /\ ScansWritten
    /\ pc = "passes" =>
        /\ master.pass_type # "main"
        /\ master.is_last_pass => master.scan_number = N
        /\ ~master.is_last_pass => master.scan_number < N
        /\ ScansWritten
        /\ Opt /\ master.pass_type = "output" => scan = Setup(cinfo, master.scan_number)

-----------------------------------------------------------------------------
(* The MCUs.                                                               *)

\* Rows of MCUs in the iMCU rows before number i.
RowsBefore(c, s, i) ==
    IF i = total_iMCU_rows(c) THEN s.MCU_rows_in_scan
    ELSE i * (IF Len(s.cur) > 1 THEN 1 ELSE c.comps[s.cur[1].index].v)

RowsIn(c, s, i) == start_iMCU_row(c, s, i).MCU_rows_per_iMCU_row

At(yoffset, col) ==
    /\ yoffset < coef.MCU_rows_per_iMCU_row
    /\ col < scan.MCUs_per_row
    /\ done.mcus = (RowsBefore(cinfo, scan, coef.iMCU_row_num) + yoffset) * scan.MCUs_per_row + col


MCUInv ==
    /\ (pc = "app" /\ FromApplication) \/ pc \in {"main", "mcu", "rowdone"} =>
        /\ coef \in CoefRecord
        /\ coef.iMCU_row_num <= T
        /\ coef.MCU_rows_per_iMCU_row = RowsIn(cinfo, scan, coef.iMCU_row_num)
    /\ (pc = "app" /\ FromApplication) \/ pc = "main" =>
        IF coef.iMCU_row_num < T THEN At(coef.MCU_vert_offset, coef.mcu_ctr)
        ELSE done.mcus = NumMCUs(scan)
    /\ pc = "mcu" => coef.iMCU_row_num < T /\ At(call.yoffset, call.MCU_col_num)
    /\ pc = "rowdone" =>
        /\ coef.iMCU_row_num > 0
        /\ coef.MCU_vert_offset = 0 /\ coef.mcu_ctr = 0
        /\ done.mcus = RowsBefore(cinfo, scan, coef.iMCU_row_num) * scan.MCUs_per_row
    /\ pc = "finish_pass" => done.mcus = NumMCUs(scan)

-----------------------------------------------------------------------------
(* The calls and the rows.                                                 *)

CallInv ==
    /\ pc \in {"main", "mcu", "rowdone", "finish_pass", "passes"} => Active /\ call # Freed
    /\ pc = "main" => call.by = "lines"
    /\ pc \in {"finish_pass", "passes"} => call.by = "crank"
    /\ pc \in {"app", "main", "mcu", "rowdone"} /\ Active =>
        /\ pc # "app" /\ call.by = "lines" => global_state = "SCANNING"
        /\ pc # "app" /\ call.by = "raw" => global_state = "RAW_OK"

\* Rows of one call, 0 between calls.
In == IF pc = "app" THEN 0 ELSE call.in_row_ctr
Avail == IF pc = "app" THEN 0 ELSE call.in_rows_avail
Hack == IF main.suspended THEN 1 ELSE 0
Taken == H - prep.rows_to_go
Groups == main.cur_iMCU_row * DCTSIZE + main.rowgroup_ctr
Gap == prep.next_buf_stop - prep.next_buf_row

TakingLines ==
    /\ global_state = "SCANNING"
    /\ pc \in {"app", "main"} \/ (pc \in {"mcu", "rowdone"} /\ call.by = "lines")

RowsCounted ==
    /\ next_scanline + Avail <= H
    /\ Taken = next_scanline + In + Hack
    /\ main.suspended => main.rowgroup_ctr = DCTSIZE /\ In = 0 /\ (pc # "app" => Avail > 0)
    /\ coef.iMCU_row_num = IF pc = "rowdone" THEN main.cur_iMCU_row + 1 ELSE main.cur_iMCU_row

\* In a call the last row taken in is one of this call's, while rows wait for
\* the compressor or for the bottom of the image; between calls none do.
NothingWaits ==
    /\ pc \in {"mcu", "rowdone"} =>
        main.rowgroup_ctr = DCTSIZE /\ main.cur_iMCU_row < T /\ (main.suspended \/ In > 0)
    /\ /\ pc = "main" /\ ~main.suspended
       /\ main.rowgroup_ctr = DCTSIZE \/ (prep.rows_to_go = 0 /\ main.cur_iMCU_row < T)
       => In > 0
    /\ pc = "app" /\ ~main.suspended =>
        main.rowgroup_ctr < DCTSIZE /\ (prep.rows_to_go = 0 => main.cur_iMCU_row = T)

\* Where the row groups come from.
GroupsInv ==
    /\ main.cur_iMCU_row = T =>
        main.rowgroup_ctr = 0 /\ prep.rows_to_go = 0 /\ ~main.suspended
    /\ ~cinfo.need_context_rows =>
        /\ prep.rows_to_go > 0 => Taken = Groups * mv + prep.next_buf_row
        /\ prep.rows_to_go = 0 /\ main.cur_iMCU_row < T =>
            main.cur_iMCU_row = T - 1 /\ main.rowgroup_ctr = DCTSIZE
    /\ cinfo.need_context_rows =>
        /\ prep.rows_to_go > 0 => Taken + Gap = Groups * mv + 2 * mv
        /\ Groups > 0 => Gap <= mv

LinesInv == TakingLines => RowsCounted /\ NothingWaits /\ GroupsInv

\* Raw data come in whole iMCU rows.
RawInv ==
    global_state = "RAW_OK" =>
        /\ pc = "app" \/ (pc = "mcu" /\ call.by = "raw") =>
            next_scanline = coef.iMCU_row_num * (mv * DCTSIZE)
        /\ pc = "rowdone" /\ call.by = "raw" =>
            next_scanline = (coef.iMCU_row_num - 1) * (mv * DCTSIZE)

IndInv == TypesInv /\ PassInv /\ MCUInv /\ CallInv /\ LinesInv /\ RawInv
-----------------------------------------------------------------------------
(* The parameters that are accepted, and what their scans look like.       *)

Accepted(c) == c \in ParameterSet /\ ~BadParameters(c)

LEMMA ParameterTypes ==
    ASSUME NEW c \in ParameterSet
    PROVE  /\ c.image_width \in Nat /\ c.image_height \in Nat
           /\ Len(c.comps) \in Nat /\ Len(c.scan_info) \in Nat
           /\ \A i \in 1..Len(c.comps) :
                /\ c.comps[i].h \in Int /\ c.comps[i].v \in Int
                /\ c.comps[i].quant_tbl_no \in {0, 1}
                /\ c.comps[i].dc_tbl_no \in {0, 1} /\ c.comps[i].ac_tbl_no \in {0, 1}
           /\ c.optimize_coding \in BOOLEAN /\ c.raw_data_in \in BOOLEAN
           /\ c.need_context_rows \in BOOLEAN
           /\ c.restart_in_rows \in Int /\ c.restart_interval \in Nat
           /\ c.plan.images \in Nat
<1> DEFINE Component ==
              [h : Int, v : Int, quant_tbl_no : 0..1, dc_tbl_no : 0..1, ac_tbl_no : 0..1]
           ScanParameters == [comps : Seq(Int), Ss : Int, Se : Int, Ah : Int, Al : Int]
           Plan == [images : Nat, tables : BOOLEAN, progression : BOOLEAN]
<1>1. /\ c.image_width \in Nat /\ c.image_height \in Nat
      /\ c.comps \in Seq(Component) /\ c.scan_info \in Seq(ScanParameters)
      /\ c.optimize_coding \in BOOLEAN /\ c.raw_data_in \in BOOLEAN
      /\ c.need_context_rows \in BOOLEAN
      /\ c.restart_in_rows \in Int /\ c.restart_interval \in Nat
      /\ c.plan \in Plan
  BY Zenon DEF ParameterSet
<1>2. \A x \in Component :
        /\ x.h \in Int /\ x.v \in Int /\ x.quant_tbl_no \in {0, 1}
        /\ x.dc_tbl_no \in {0, 1} /\ x.ac_tbl_no \in {0, 1}
  BY SMT
<1>3. c.plan.images \in Nat
  BY <1>1, Zenon
<1> HIDE DEF Component, ScanParameters, Plan
<1>4. /\ Len(c.comps) \in Nat /\ Len(c.scan_info) \in Nat
      /\ \A i \in 1..Len(c.comps) : c.comps[i] \in Component
  BY <1>1
<1> QED
  BY <1>1, <1>2, <1>3, <1>4, Zenon

LEMMA AcceptedIsSized == ASSUME NEW c, Accepted(c) PROVE Sized(c)
<1>1. c \in ParameterSet /\ ~EmptyImage(c) /\ ~BadSampling(c)
  BY Zenon DEF Accepted, BadParameters
<1>2. /\ c.image_width \in Nat /\ c.image_height \in Nat /\ Len(c.comps) \in Nat
      /\ c.comps \in Seq([h : Int, v : Int, quant_tbl_no : 0..1, dc_tbl_no : 0..1,
                          ac_tbl_no : 0..1])
  BY <1>1, ParameterTypes, Zenon DEF ParameterSet
<1>3. c.image_width # 0 /\ c.image_height # 0 /\ Len(c.comps) # 0
  BY <1>2, <1>1, SMT DEF EmptyImage
<1> QED
  BY <1>1, <1>2, <1>3, SMT DEF Sized, BadSampling

LEMMA SelectedScan ==
    ASSUME NEW c, Accepted(c), NEW n \in 0..num_scans(c) - 1
    PROVE  LET s == select_scan_parameters(c, n)
           IN  /\ Len(s.comps) \in Nat \ {0}
               /\ \A i \in 1..Len(s.comps) : s.comps[i] \in 1..Len(c.comps)
<1> DEFINE s == select_scan_parameters(c, n)
<1>1. Len(c.comps) \in Nat \ {0}
  BY AcceptedIsSized, Zenon DEF Sized
<1>2. CASE c.scan_info = << >>
  <2> DEFINE all == [i \in 1..Len(c.comps) |-> i]
  <2>1. s.comps = all
    BY <1>2, SMT DEF select_scan_parameters, Scan
  <2>2. Len(all) = Len(c.comps) /\ \A i \in 1..Len(c.comps) : all[i] = i
    BY <1>1
  <2> HIDE DEF all, s
  <2>3. Len(s.comps) = Len(c.comps) /\ \A i \in 1..Len(c.comps) : s.comps[i] = i
    BY <2>1, <2>2, Zenon
  <2> QED
    BY <1>1, <2>3 DEF s
<1>3. CASE c.scan_info # << >>
  <2>1. GoodComponents(s, Len(c.comps))
    BY <1>3, ParameterTypes, ScriptScans DEF GoodScan, Accepted, BadParameters, num_scans,
       select_scan_parameters
  <2> HIDE DEF s
  <2> QED
    BY <2>1, SetupAssumption DEF s, GoodComponents
<1> QED
  BY <1>2, <1>3

LEMMA SetupShape ==
    ASSUME NEW c, Accepted(c), NEW n \in 0..num_scans(c) - 1
    PROVE  LET s == Setup(c, n)
               k == s.cur[1].index
           IN  /\ Len(s.cur) \in Nat \ {0} /\ k \in 1..Len(c.comps)
               /\ \A i \in 1..Len(s.cur) : s.cur[i].index \in 1..Len(c.comps)
               /\ s.cur[1].last_row_height = LastBlocks(height_in_blocks(c, k), c.comps[k].v)
               /\ s.MCUs_per_row \in Nat \ {0}
               /\ s.MCU_rows_in_scan = IF Len(s.cur) = 1 THEN height_in_blocks(c, k)
                                                         ELSE total_iMCU_rows(c)
<1> DEFINE p == select_scan_parameters(c, n)
           s == Setup(c, n)
           alone == Len(p.comps) = 1
           cur == [i \in 1..Len(p.comps) |-> ScanComponent(c, p.comps[i], alone)]
<1>1. /\ Len(p.comps) \in Nat \ {0}
      /\ \A i \in 1..Len(p.comps) : p.comps[i] \in 1..Len(c.comps)
  BY SelectedScan
<1>2. s = per_scan_setup(c, p)
  BY Zenon DEF Setup
<1> HIDE DEF p, s, alone
<1>3. /\ s.cur = cur
      /\ s.MCUs_per_row = IF alone THEN width_in_blocks(c, p.comps[1])
                          ELSE jdiv_round_up(c.image_width, MaxH(c) * DCTSIZE)
      /\ s.MCU_rows_in_scan = IF alone THEN height_in_blocks(c, p.comps[1])
                              ELSE total_iMCU_rows(c)
  BY <1>2, SMT DEF per_scan_setup, alone
<1>4. \A k, b : /\ ScanComponent(c, k, b).index = k
                /\ ScanComponent(c, k, b).last_row_height
                     = LastBlocks(height_in_blocks(c, k), c.comps[k].v)
  BY SMT DEF ScanComponent
<1>5. Len(cur) = Len(p.comps)
      /\ \A i \in 1..Len(p.comps) : cur[i] = ScanComponent(c, p.comps[i], alone)
  BY <1>1
<1> HIDE DEF cur
<1>6. 1 \in 1..Len(p.comps)
  BY <1>1
<1>7. /\ \A i \in 1..Len(p.comps) : s.cur[i].index = p.comps[i]
      /\ s.cur[1].last_row_height
            = LastBlocks(height_in_blocks(c, p.comps[1]), c.comps[p.comps[1]].v)
  <2>1. \A i \in 1..Len(p.comps) : s.cur[i] = ScanComponent(c, p.comps[i], alone)
    BY <1>3, <1>5, Zenon
  <2>2. \A i \in 1..Len(p.comps) : s.cur[i].index = p.comps[i]
    BY <2>1, <1>4, Zenon
  <2>3. s.cur[1] = ScanComponent(c, p.comps[1], alone)
    BY <2>1, <1>6, Zenon
  <2>4. ScanComponent(c, p.comps[1], alone).last_row_height
          = LastBlocks(height_in_blocks(c, p.comps[1]), c.comps[p.comps[1]].v)
    BY <1>4, Zenon
  <2> QED
    BY <2>2, <2>3, <2>4, Zenon
<1>8. s.MCUs_per_row \in Nat \ {0}
  BY <1>1, <1>6, AcceptedIsSized, ComponentSizes, MaxSampling, IMCURows, <1>3, Zenon DEF
     Sized
<1> QED
  BY <1>1, <1>3, <1>5, <1>6, <1>7, <1>8, Zenon DEF s, alone

(* The iMCU rows of a scan: where each begins, counted in rows of MCUs.    *)
LEMMA ScanRows ==
    ASSUME NEW c, Accepted(c), NEW n \in 0..num_scans(c) - 1
    PROVE  LET s == Setup(c, n)
               rows == total_iMCU_rows(c)
           IN  /\ rows \in Nat \ {0}
               /\ s.MCUs_per_row \in Nat \ {0}
               /\ s.MCU_rows_in_scan = RowsBefore(c, s, rows)
               /\ RowsBefore(c, s, 0) = 0
               /\ \A i \in 0..rows : RowsBefore(c, s, i) \in Nat /\ RowsIn(c, s, i) \in Nat \ {0}
               /\ \A i \in 0..rows - 1 :
                    RowsBefore(c, s, i + 1) = RowsBefore(c, s, i) + RowsIn(c, s, i)
<1> DEFINE s == Setup(c, n)
           rows == total_iMCU_rows(c)
           k == s.cur[1].index
           v == c.comps[k].v
           m == MaxV(c)
           high == height_in_blocks(c, k)
           last == LastBlocks(high, v)
           B(i) == RowsBefore(c, s, i)
           R(i) == RowsIn(c, s, i)
           l == Len(s.cur)
<1>1. /\ l \in Nat \ {0} /\ k \in 1..Len(c.comps)
      /\ s.cur[1].last_row_height = last
      /\ s.MCUs_per_row \in Nat \ {0}
      /\ s.MCU_rows_in_scan = IF l = 1 THEN high ELSE rows
  BY SetupShape
<1>2. c.image_height \in Nat \ {0} /\ m \in Nat \ {0} /\ v \in 1..m
  BY <1>1, AcceptedIsSized, MaxSampling, Zenon DEF Sized
<1>3. rows = jdiv_round_up(c.image_height, m * DCTSIZE)
      /\ high = BlocksOf(c.image_height, v, m)
  BY Zenon DEF total_iMCU_rows, height_in_blocks, BlocksOf
<1>4. rows \in Nat \ {0}
  BY <1>2, <1>3, IMCURows
<1>5. last \in 1..v /\ v * (rows - 1) + last = high
  BY <1>2, <1>3, LastRowGroup
<1>6. \A i : B(i) = IF i = rows THEN s.MCU_rows_in_scan
                    ELSE i * (IF l > 1 THEN 1 ELSE v)
  BY Zenon DEF RowsBefore
<1>7. \A i : R(i) = IF l > 1 THEN 1 ELSE IF i < rows - 1 THEN v ELSE last
  BY <1>1, SMT DEF RowsIn, start_iMCU_row
<1> HIDE DEF s, rows, k, v, m, high, last, B, R, l
<1>8. s.MCU_rows_in_scan = B(rows)
  BY <1>6, Zenon
<1>9. v \in Nat \ {0} /\ last \in Nat \ {0}
  BY <1>2, <1>5
<1>10. \A i \in Nat : i * v \in Nat /\ v * i = i * v /\ (i + 1) * v = i * v + v
  BY <1>9
<1>11. CASE l > 1
  BY <1>1, <1>4, <1>11, <1>6, <1>7, <1>8 DEF s, rows, B, R
<1>12. CASE ~ l > 1
  <2>1. B(rows) = high /\ \A i \in 0..rows - 1 : B(i) = i * v
    BY <1>4, <1>1, <1>6, <1>12
  <2>2. /\ \A i \in 0..rows - 1 : i < rows - 1 => R(i) = v
        /\ R(rows - 1) = last /\ R(rows) = last
    BY <1>4, <1>7, <1>12
  <2>3. high \in Nat /\ high = (rows - 1) * v + last /\ rows - 1 \in Nat
    BY <1>4, <1>10, <1>5, <1>9
  <2>4. B(0) = 0
    BY <1>4, <1>9, <2>1
  <2>5. ASSUME NEW i \in 0..rows PROVE B(i) \in Nat /\ R(i) \in Nat \ {0}
    BY <1>4, <1>10, <2>1, <1>7, <1>9, <1>12, <2>3
  <2>6. ASSUME NEW i \in 0..rows - 1 PROVE B(i + 1) = B(i) + R(i)
    <3>1. i \in Nat /\ (i = rows - 1 \/ (i < rows - 1 /\ i + 1 \in 0..rows - 1))
      BY <1>4
    <3>2. CASE i = rows - 1
      BY <1>4, <3>2, <2>1, <2>2, <2>3
    <3>3. CASE i < rows - 1 /\ i + 1 \in 0..rows - 1
      BY <1>10, <2>1, <2>2, <3>1, <3>3, Zenon
    <3> QED
      BY <3>1, <3>2, <3>3
  <2> QED
    BY <1>1, <1>4, <1>8, <2>4, <2>5, <2>6, Zenon DEF s, rows, B, R
<1> QED
  BY <1>11, <1>12

(* What master control changes of the parameters is not what the sizes and *)
(* the scans are computed from.                                            *)
SameImage(c, d) ==
    /\ d.image_width = c.image_width /\ d.image_height = c.image_height
    /\ d.comps = c.comps /\ d.scan_info = c.scan_info

LEMMA SameSetup ==
    ASSUME NEW c, NEW d, SameImage(c, d)
    PROVE  /\ MaxV(d) = MaxV(c) /\ total_iMCU_rows(d) = total_iMCU_rows(c)
           /\ num_scans(d) = num_scans(c)
           /\ BadParameters(d) <=> BadParameters(c)
           /\ \A n : Setup(d, n) = Setup(c, n)
           /\ \A s, i : start_iMCU_row(d, s, i) = start_iMCU_row(c, s, i)
           /\ \A s, i : RowsBefore(d, s, i) = RowsBefore(c, s, i)
<1>1. /\ d.image_width = c.image_width /\ d.image_height = c.image_height
      /\ d.comps = c.comps /\ d.scan_info = c.scan_info
  BY Zenon DEF SameImage
<1>2. MaxV(d) = MaxV(c) /\ MaxH(d) = MaxH(c)
  BY <1>1, Zenon DEF MaxV, MaxH
<1>3. /\ total_iMCU_rows(d) = total_iMCU_rows(c)
      /\ \A k : /\ width_in_blocks(d, k) = width_in_blocks(c, k)
                /\ height_in_blocks(d, k) = height_in_blocks(c, k)
  BY <1>1, <1>2, Zenon DEF total_iMCU_rows, width_in_blocks, height_in_blocks
<1>4. \A k, b : ScanComponent(d, k, b) = ScanComponent(c, k, b)
  BY <1>1, <1>3, Zenon DEF ScanComponent
<1>5. \A s : per_scan_setup(d, s) = per_scan_setup(c, s)
  BY <1>1, <1>2, <1>3, <1>4, Zenon DEF per_scan_setup
<1>6. \A s, i : start_iMCU_row(d, s, i) = start_iMCU_row(c, s, i)
  BY <1>1, <1>3, Zenon DEF start_iMCU_row
<1>7. \A s, i : RowsBefore(d, s, i) = RowsBefore(c, s, i)
  BY <1>1, <1>3, Zenon DEF RowsBefore
<1> QED
  BY <1>2, <1>3, <1>1, <1>5, <1>6, <1>7 DEF Setup, num_scans, BadParameters, EmptyImage,
     BadSampling, select_scan_parameters

LEMMA MasterParameters ==
    ASSUME NEW c \in ParameterSet
    PROVE  /\ Optimizing(c) \in ParameterSet /\ SameImage(c, Optimizing(c))
           /\ Optimizing(c).plan = c.plan /\ Optimizing(c).raw_data_in = c.raw_data_in
           /\ Optimizing(c).need_context_rows = c.need_context_rows
           /\ Optimizing(c).optimize_coding = Optimizes(c)
<1> DEFINE o == Optimizes(c)
<1> HIDE DEF o
<1>1. Optimizing(c) = [c EXCEPT !.optimize_coding = o] /\ o \in BOOLEAN
  BY Zenon DEF o, Optimizes, Optimizing
<1>2. /\ SameImage(c, Optimizing(c))
      /\ Optimizing(c).plan = c.plan /\ Optimizing(c).raw_data_in = c.raw_data_in
      /\ Optimizing(c).need_context_rows = c.need_context_rows
      /\ Optimizing(c).optimize_coding = o
  BY <1>1, SMT DEF ParameterSet, SameImage
<1> QED
  BY <1>1, <1>2 DEF o, ParameterSet

LEMMA RestartParameters ==
    ASSUME NEW c \in ParameterSet, NEW s, s.MCUs_per_row \in Nat
    PROVE  /\ WithRestart(c, s) \in ParameterSet /\ SameImage(c, WithRestart(c, s))
           /\ WithRestart(c, s).plan = c.plan /\ WithRestart(c, s).raw_data_in = c.raw_data_in
           /\ WithRestart(c, s).need_context_rows = c.need_context_rows
           /\ WithRestart(c, s).optimize_coding = c.optimize_coding
           /\ WithRestart(c, s).restart_interval = RestartInterval(c, s)
<1> DEFINE r == RestartInterval(c, s)
<1>1. r \in Nat
  <2>1. c.restart_in_rows \in Int /\ c.restart_interval \in Nat
    BY ParameterTypes
  <2>2. CASE c.restart_in_rows > 0
    <3>1. r = Least(c.restart_in_rows * s.MCUs_per_row, 65535)
      BY <2>2, SMT DEF RestartInterval
    <3> HIDE DEF r
    <3> QED
      BY <2>1, <2>2, <3>1 DEF Least
  <2>3. CASE ~ c.restart_in_rows > 0
    <3>1. r = c.restart_interval
      BY <2>3, SMT DEF RestartInterval
    <3> HIDE DEF r
    <3> QED
      BY <2>1, <3>1, Zenon
  <2> QED
    BY <2>2, <2>3
<1> HIDE DEF r
<1>2. WithRestart(c, s) = [c EXCEPT !.restart_interval = r]
  BY Zenon DEF WithRestart, r
<1>3. /\ SameImage(c, WithRestart(c, s))
      /\ WithRestart(c, s).plan = c.plan /\ WithRestart(c, s).raw_data_in = c.raw_data_in
      /\ WithRestart(c, s).need_context_rows = c.need_context_rows
      /\ WithRestart(c, s).optimize_coding = c.optimize_coding
      /\ WithRestart(c, s).restart_interval = r
  BY <1>2, SMT DEF ParameterSet, SameImage
<1> QED
  BY <1>1, <1>2, <1>3 DEF r, ParameterSet

-----------------------------------------------------------------------------
(* The marker writer, segment by segment.                                  *)

GoodSegment(seg) == seg[1] \in {"DQT", "DHT"} => seg[2] \in TableNames
Pair(out) == DOMAIN out = {"w", "rd"}

\* One segment that is not SOI.
Follows(out, o, seg) ==
    /\ \A t \in TableNames :
        /\ out.w.tbl[t].sent_table => o.w.tbl[t].sent_table
        /\ o.w.tbl[t].sent_table => out.w.tbl[t].sent_table \/ t \in o.rd.here
    /\ out.rd.here \subseteq o.rd.here
    /\ out.w.last_restart_interval = out.rd.ri => o.w.last_restart_interval = o.rd.ri
    /\ seg[1] \in {"DQT", "DHT"} => o.w.tbl[seg[2]].sent_table
    /\ o.w.last_restart_interval =
        IF seg[1] = "DRI" THEN seg[2][1] ELSE out.w.last_restart_interval
    /\ o.rd.sof = IF seg[1] = "SOF" THEN seg[2] ELSE out.rd.sof
    /\ o.rd.scan = IF seg[1] = "SOS" THEN seg[2] ELSE out.rd.scan

SameValues(out, o) == \A t \in TableNames : o.w.tbl[t].value = out.w.tbl[t].value

LEMMA EmitTableKeeps ==
    ASSUME NEW out, Pair(out), OutOK(out.w, out.rd), NEW seg, seg[2] \in TableNames,
           seg[1] \in {"DQT", "DHT"}
    PROVE  LET o == Emit(out, seg)
           IN  Pair(o) /\ OutOK(o.w, o.rd) /\ SameValues(out, o) /\ Follows(out, o, seg)
<1> DEFINE t == seg[2]
           w == out.w
           rd == out.rd
           o == Emit(out, seg)
<1>1. /\ DOMAIN w = {"last_restart_interval", "tbl"} /\ DOMAIN w.tbl = TableNames
      /\ DOMAIN rd = {"tbl", "here", "ri", "sof", "scan"} /\ DOMAIN rd.tbl = TableNames
      /\ \A u \in TableNames :
            /\ DOMAIN w.tbl[u] = {"value", "sent_table"} /\ w.tbl[u].sent_table \in BOOLEAN
            /\ w.tbl[u].sent_table => rd.tbl[u] = w.tbl[u].value
  BY Zenon DEF OutOK
<1>2. o = EmitTable(out, t)
  BY Zenon DEF Emit
<1>3. seg[1] # "DRI" /\ seg[1] # "SOF" /\ seg[1] # "SOS"
  BY SMT
<1>4. CASE w.tbl[t].sent_table
  BY <1>2, <1>4, <1>3, Zenon DEF EmitTable, Follows, SameValues
<1>5. CASE ~ w.tbl[t].sent_table
  <2> DEFINE e == [w.tbl[t] EXCEPT !.sent_table = TRUE]
             tbl == [w.tbl EXCEPT ![t] = e]
             v == [w EXCEPT !.tbl = tbl]
             known == [rd.tbl EXCEPT ![t] = w.tbl[t].value]
             r == [rd EXCEPT !.tbl = known, !.here = @ \cup {t}]
  <2>1. o = [w |-> v, rd |-> r]
    BY <1>2, <1>5, Zenon DEF EmitTable
  <2>2. /\ DOMAIN e = {"value", "sent_table"}
        /\ e.value = w.tbl[t].value /\ e.sent_table = TRUE
    BY <1>1, SMT
  <2> HIDE DEF e
  <2>3. /\ DOMAIN tbl = TableNames /\ tbl[t] = e
        /\ \A u \in TableNames : u # t => tbl[u] = w.tbl[u]
    BY <1>1, Zenon
  <2>4. /\ DOMAIN known = TableNames /\ known[t] = w.tbl[t].value
        /\ \A u \in TableNames : u # t => known[u] = rd.tbl[u]
    BY <1>1, Zenon
  <2> HIDE DEF tbl, known
  <2>5. /\ DOMAIN v = {"last_restart_interval", "tbl"} /\ v.tbl = tbl
        /\ v.last_restart_interval = w.last_restart_interval
    BY <1>1, SMT
  <2>6. /\ DOMAIN r = {"tbl", "here", "ri", "sof", "scan"} /\ r.tbl = known
        /\ r.here = rd.here \cup {t} /\ r.ri = rd.ri /\ r.sof = rd.sof /\ r.scan = rd.scan
    BY <1>1, SMT
  <2> HIDE DEF v, r
  <2>7. o.w = v /\ o.rd = r /\ Pair(o)
    BY <2>1, SMT DEF Pair
  <2> HIDE DEF o
  <2>8. OutOK(o.w, o.rd)
    <3>1. \A u \in TableNames :
            /\ DOMAIN tbl[u] = {"value", "sent_table"} /\ tbl[u].sent_table \in BOOLEAN
            /\ tbl[u].sent_table => known[u] = tbl[u].value
      <4> SUFFICES ASSUME NEW u \in TableNames
                   PROVE /\ DOMAIN tbl[u] = {"value", "sent_table"}
                         /\ tbl[u].sent_table \in BOOLEAN
                         /\ tbl[u].sent_table => known[u] = tbl[u].value
        OBVIOUS
      <4>1. CASE u = t
        BY <2>2, <2>3, <2>4, <4>1, Zenon
      <4>2. CASE u # t
        BY <2>3, <2>4, <4>2, <1>1, Zenon
      <4> QED
        BY <4>1, <4>2
    <3> QED
      BY <2>3, <2>4, <2>5, <2>6, <2>7, <3>1, Zenon DEF OutOK
  <2> QED
    BY <2>7, <2>8, <2>2, <2>3, <2>5, <2>6, <1>3 DEF o, SameValues, Follows
<1> QED
  BY <1>4, <1>5

LEMMA EmitOtherKeeps ==
    ASSUME NEW out, Pair(out), OutOK(out.w, out.rd), NEW seg,
           seg[1] \notin {"DQT", "DHT"}
    PROVE  LET o == Emit(out, seg)
           IN  /\ Pair(o) /\ OutOK(o.w, o.rd) /\ SameValues(out, o)
               /\ seg[1] # "SOI" => Follows(out, o, seg)
<1> DEFINE w == out.w
           rd == out.rd
           o == Emit(out, seg)
<1>1. /\ DOMAIN w = {"last_restart_interval", "tbl"} /\ DOMAIN w.tbl = TableNames
      /\ DOMAIN rd = {"tbl", "here", "ri", "sof", "scan"} /\ DOMAIN rd.tbl = TableNames
      /\ \A u \in TableNames :
            /\ DOMAIN w.tbl[u] = {"value", "sent_table"} /\ w.tbl[u].sent_table \in BOOLEAN
            /\ w.tbl[u].sent_table => rd.tbl[u] = w.tbl[u].value
  BY Zenon DEF OutOK
<1>2. DOMAIN out = {"w", "rd"}
  BY Zenon DEF Pair
<1>3. /\ Pair(o)
      /\ DOMAIN o.w = DOMAIN w /\ o.w.tbl = w.tbl
      /\ DOMAIN o.rd = DOMAIN rd /\ o.rd.tbl = rd.tbl
      /\ seg[1] # "SOI" =>
            /\ o.rd.here = rd.here
            /\ w.last_restart_interval = rd.ri => o.w.last_restart_interval = o.rd.ri
            /\ o.w.last_restart_interval =
                 IF seg[1] = "DRI" THEN seg[2][1] ELSE w.last_restart_interval
            /\ o.rd.sof = IF seg[1] = "SOF" THEN seg[2] ELSE rd.sof
            /\ o.rd.scan = IF seg[1] = "SOS" THEN seg[2] ELSE rd.scan
  <2>1. CASE seg[1] = "SOI"
    <3> DEFINE v == [w EXCEPT !.last_restart_interval = 0]
               r == [rd EXCEPT !.here = {}, !.ri = 0, !.sof = "none", !.scan = << >>]
    <3>1. o = [w |-> v, rd |-> r]
      BY <2>1 DEF EmitSOI, Emit
    <3>2. /\ DOMAIN v = DOMAIN w /\ v.tbl = w.tbl
          /\ DOMAIN r = DOMAIN rd /\ r.tbl = rd.tbl
      BY <1>1, SMT
    <3> HIDE DEF v, r
    <3>3. o.w = v /\ o.rd = r /\ Pair(o)
      BY <3>1, SMT DEF Pair
    <3> HIDE DEF o
    <3> QED
      BY <2>1, <3>2, <3>3
  <2>2. CASE seg[1] = "DRI"
    <3>1. o = EmitDRI(out, seg[2][1])
      BY <2>2, SMT DEF Emit
    <3> HIDE DEF o
    <3>2. CASE seg[2][1] = w.last_restart_interval
      BY <3>1, <3>2, <1>2, <2>2 DEF EmitDRI, Pair
    <3>3. CASE seg[2][1] # w.last_restart_interval
      BY <3>1, <3>3, <1>1, <2>2 DEF EmitDRI, Pair
    <3> QED
      BY <3>2, <3>3 DEF o
  <2>3. CASE seg[1] = "SOF"
    BY <2>3, <1>1, <1>2 DEF Emit, EmitSOF, Pair
  <2>4. CASE seg[1] = "SOS"
    BY <2>4, <1>1, <1>2 DEF Emit, EmitSOS, Pair
  <2>5. CASE seg[1] \notin {"SOI", "DRI", "SOF", "SOS"}
    BY <2>5, <1>2 DEF Emit, Pair
  <2> QED
    BY <2>1, <2>2, <2>3, <2>4, <2>5
<1> HIDE DEF o
<1>4. seg[1] # "SOI" => Follows(out, o, seg)
  BY <1>3, Zenon DEF Follows
<1> QED
  BY <1>3, <1>1, <1>4 DEF o, OutOK, SameValues

(* All segments of a header.                                               *)
Writes(f, out, segs, n) ==
    f = [k \in 0..n |-> IF k = 0 THEN out ELSE Emit(f[k - 1], segs[k])]

LEMMA WritingExists ==
    ASSUME NEW out, NEW segs
    PROVE  \A n \in Nat : \E f : Writes(f, out, segs, n)
<1> DEFINE Bad == {n \in Nat : ~ \E f : Writes(f, out, segs, n)}
<1> SUFFICES ASSUME Bad # {} PROVE FALSE
  OBVIOUS
<1>1. PICK n \in Bad : \A k \in Bad : n <= k
  <2> Bad \in SUBSET Nat
    OBVIOUS
  <2> HIDE DEF Bad
  <2> QED
    BY Smallest
<1>2. n \in Nat
  OBVIOUS
<1>3. CASE n = 0
  <2> DEFINE v == [k \in 0..0 |-> out]
  <2>1. Writes(v, out, segs, 0)
    BY DEF Writes
  <2> QED
    BY <1>3, <2>1
<1>4. CASE n # 0
  <2>1. n - 1 \in Nat /\ n - 1 \notin Bad
    <3> HIDE DEF Bad
    <3> QED
      BY <1>1, <1>2, <1>4
  <2>2. PICK f : Writes(f, out, segs, n - 1)
    BY <2>1
  <2> DEFINE v == [k \in 0..n |-> IF k = n THEN Emit(f[n - 1], segs[n]) ELSE f[k]]
             Rhs == [k \in 0..n - 1 |-> IF k = 0 THEN out ELSE Emit(f[k - 1], segs[k])]
  <2>3. \A k \in 0..n - 1 : f[k] = IF k = 0 THEN out ELSE Emit(f[k - 1], segs[k])
    <3> HIDE DEF Rhs
    <3> QED
      BY <2>2, Zenon DEF Writes
  <2>4. /\ \A k \in 0..n - 1 : v[k] = f[k]
        /\ v[n] = Emit(f[n - 1], segs[n])
        /\ DOMAIN v = 0..n /\ v = [k \in DOMAIN v |-> v[k]]
    BY <1>2
  <2> HIDE DEF v
  <2>5. ASSUME NEW k \in 0..n
        PROVE  v[k] = IF k = 0 THEN out ELSE Emit(v[k - 1], segs[k])
    BY <1>2, <1>4, <2>4, <2>3
  <2> QED
    BY <2>4, <2>5 DEF Writes
<1> QED
  BY <1>3, <1>4

LEMMA WrittenIs ==
    ASSUME NEW out, NEW segs, Len(segs) \in Nat
    PROVE  LET f == WrittenUpTo(out, segs)
           IN  /\ f[0] = out /\ f[Len(segs)] = Written(out, segs)
               /\ \A k \in 1..Len(segs) : f[k] = Emit(f[k - 1], segs[k])
<1> DEFINE f == WrittenUpTo(out, segs)
           n == Len(segs)
           Rhs == [k \in 0..n |-> IF k = 0 THEN out ELSE Emit(f[k - 1], segs[k])]
<1>1. Writes(f, out, segs, n)
  BY WritingExists DEF Writes, WrittenUpTo
<1>2. \A k \in 0..n : Rhs[k] = IF k = 0 THEN out ELSE Emit(f[k - 1], segs[k])
  BY Zenon
<1> HIDE DEF f, n, Rhs
<1>3. n \in Nat /\ 0 \in 0..n /\ \A k \in 1..n : k \in 0..n /\ k # 0
  BY DEF n
<1>4. f[0] = out /\ \A k \in 1..n : f[k] = Emit(f[k - 1], segs[k])
  BY <1>1, <1>2, <1>3, Zenon DEF Writes
<1> QED
  BY <1>4, Zenon DEF f, n, Written

GoodSegments(segs) ==
    Len(segs) \in Nat /\ \A k \in 1..Len(segs) : GoodSegment(segs[k])

\* The state of both sides stays right, and no table is changed.
LEMMA WrittenKeeps ==
    ASSUME NEW out, Pair(out), OutOK(out.w, out.rd), NEW segs, GoodSegments(segs)
    PROVE  LET o == Written(out, segs)
           IN  Pair(o) /\ OutOK(o.w, o.rd) /\ SameValues(out, o)
<1> DEFINE f == WrittenUpTo(out, segs)
           n == Len(segs)
           Good(k) == Pair(f[k]) /\ OutOK(f[k].w, f[k].rd) /\ SameValues(out, f[k])
           Bad == {k \in Nat : k <= n /\ ~Good(k)}
<1>1. n \in Nat /\ \A k \in 1..n : GoodSegment(segs[k])
  BY Zenon DEF GoodSegments
<1>2. /\ f[0] = out /\ f[n] = Written(out, segs)
      /\ \A k \in 1..n : f[k] = Emit(f[k - 1], segs[k])
  BY <1>1, WrittenIs
<1>3. Good(0)
  <2> HIDE DEF f
  <2> QED
    BY <1>2, Zenon DEF SameValues
<1>4. ASSUME NEW k \in 1..n, Good(k - 1) PROVE Good(k)
  <2>1. f[k] = Emit(f[k - 1], segs[k]) /\ GoodSegment(segs[k])
    BY <1>1, <1>2
  <2> HIDE DEF f
  <2> DEFINE x == f[k - 1]
             o == Emit(x, segs[k])
  <2>2. Pair(x) /\ OutOK(x.w, x.rd) /\ SameValues(out, x)
    BY <1>4, Zenon
  <2>3. Pair(o) /\ OutOK(o.w, o.rd) /\ SameValues(x, o)
    <3> HIDE DEF x
    <3>1. CASE segs[k][1] \in {"DQT", "DHT"}
      BY <2>2, <2>1, <3>1, EmitTableKeeps DEF GoodSegment
    <3>2. CASE segs[k][1] \notin {"DQT", "DHT"}
      BY <2>2, <3>2, EmitOtherKeeps
    <3> QED
      BY <3>1, <3>2
  <2> QED
    BY <2>1, <2>2, <2>3, Zenon DEF SameValues
<1> HIDE DEF Good, f, n
<1>5. Bad = {}
  <2> SUFFICES ASSUME Bad # {} PROVE FALSE
    OBVIOUS
  <2>1. PICK k \in Bad : \A j \in Bad : k <= j
    <3> Bad \in SUBSET Nat
      OBVIOUS
    <3> HIDE DEF Bad
    <3> QED
      BY Smallest
  <2>2. k \in Nat /\ k <= n /\ ~Good(k)
    OBVIOUS
  <2>3. k - 1 \in Nat /\ k - 1 <= n /\ k \in 1..n /\ ~ k <= k - 1
    BY <1>1, <2>2, <1>3
  <2>4. k - 1 \notin Bad
    <3> HIDE DEF Bad
    <3> QED
      BY <2>1, <2>3
  <2> QED
    BY <1>4, <2>2, <2>3, <2>4
<1> QED
  BY <1>2, <1>5, <1>1 DEF Good

-----------------------------------------------------------------------------
(* The Huffman tables of a scan.                                           *)

\* A scan of components of the image, as per_scan_setup leaves it.
ScanOf(c, s) ==
    /\ Len(s.cur) \in Nat
    /\ \A i \in 1..Len(s.cur) : s.cur[i].index \in 1..Len(c.comps)

Collects(f, c, s, n) ==
    f = [k \in 0..n |-> IF k = 0 THEN << >> ELSE f[k - 1] \o ScanTables(c, s, s.cur[k].index)]

LEMMA CollectionExists ==
    ASSUME NEW c, NEW s
    PROVE  \A n \in Nat : \E f : Collects(f, c, s, n)
<1> DEFINE Bad == {n \in Nat : ~ \E f : Collects(f, c, s, n)}
           Step(x, k) == x \o ScanTables(c, s, s.cur[k].index)
<1> SUFFICES ASSUME Bad # {} PROVE FALSE
  OBVIOUS
<1>1. PICK n \in Bad : \A k \in Bad : n <= k
  <2> Bad \in SUBSET Nat
    OBVIOUS
  <2> HIDE DEF Bad
  <2> QED
    BY Smallest
<1>2. n \in Nat
  OBVIOUS
<1>3. CASE n = 0
  <2> DEFINE v == [k \in 0..0 |-> << >>]
  <2>1. v = [k \in 0..0 |-> IF k = 0 THEN << >> ELSE Step(v[k - 1], k)]
    <3> HIDE DEF Step
    <3> QED
      OBVIOUS
  <2> QED
    BY <1>3, <2>1 DEF Collects
<1>4. CASE n # 0
  <2>1. n - 1 \in Nat /\ n - 1 \notin Bad
    <3> HIDE DEF Bad
    <3> QED
      BY <1>1, <1>2, <1>4
  <2>2. PICK f : Collects(f, c, s, n - 1)
    BY <2>1
  <2> DEFINE v == [k \in 0..n |-> IF k = n THEN Step(f[n - 1], n) ELSE f[k]]
             Rhs == [k \in 0..n - 1 |-> IF k = 0 THEN << >> ELSE Step(f[k - 1], k)]
  <2>3. \A k \in 0..n - 1 : f[k] = IF k = 0 THEN << >> ELSE Step(f[k - 1], k)
    <3> HIDE DEF Rhs
    <3> QED
      BY <2>2, Zenon DEF Collects
  <2> HIDE DEF Step
  <2>4. /\ \A k \in 0..n - 1 : v[k] = f[k]
        /\ v[n] = Step(f[n - 1], n)
        /\ DOMAIN v = 0..n /\ v = [k \in DOMAIN v |-> v[k]]
    BY <1>2
  <2> HIDE DEF v
  <2>5. ASSUME NEW k \in 0..n
        PROVE  v[k] = IF k = 0 THEN << >> ELSE Step(v[k - 1], k)
    BY <1>2, <1>4, <2>4, <2>3
  <2> QED
    BY <2>4, <2>5 DEF Collects, Step
<1> QED
  BY <1>3, <1>4

LEMMA CollectedIs ==
    ASSUME NEW c, NEW s, Len(s.cur) \in Nat
    PROVE  LET f == TablesUpTo(c, s)
           IN  /\ f[0] = << >> /\ f[Len(s.cur)] = TablesOfScan(c, s)
               /\ \A k \in 1..Len(s.cur) :
                    f[k] = f[k - 1] \o ScanTables(c, s, s.cur[k].index)
<1> DEFINE f == TablesUpTo(c, s)
           n == Len(s.cur)
           Step(x, k) == x \o ScanTables(c, s, s.cur[k].index)
           Rhs == [k \in 0..n |-> IF k = 0 THEN << >> ELSE Step(f[k - 1], k)]
<1>1. \E x : Collects(x, c, s, n)
  BY CollectionExists
<1>2. f = Rhs
  BY <1>1, Zenon DEF Collects, TablesUpTo
<1>3. \A k \in 0..n : Rhs[k] = IF k = 0 THEN << >> ELSE Step(f[k - 1], k)
  BY Zenon
<1> HIDE DEF f, n, Rhs, Step
<1>4. n \in Nat /\ 0 \in 0..n /\ \A k \in 1..n : k \in 0..n /\ k # 0
  BY DEF n
<1>5. f[0] = << >> /\ \A k \in 1..n : f[k] = Step(f[k - 1], k)
  BY <1>2, <1>3, <1>4, Zenon
<1> QED
  BY <1>5, Zenon DEF f, n, Step, TablesOfScan

LEMMA ScanTablesType ==
    ASSUME NEW c \in ParameterSet, NEW s, NEW k \in 1..Len(c.comps)
    PROVE  ScanTables(c, s, k) \in Seq(HuffNames)
<1> DEFINE dc == << "dc", c.comps[k].dc_tbl_no >>
           ac == << "ac", c.comps[k].ac_tbl_no >>
<1>1. dc \in HuffNames /\ ac \in HuffNames
  BY ParameterTypes DEF HuffNames
<1> HIDE DEF dc, ac
<1> QED
  BY <1>1 DEF ScanTables, dc, ac

(* They are names of tables; and a scan that needs none for each of its    *)
(* components needs none.                                                  *)
LEMMA TablesOfScanType ==
    ASSUME NEW c \in ParameterSet, NEW s, ScanOf(c, s)
    PROVE  /\ TablesOfScan(c, s) \in Seq(TableNames) /\ TablesOfScan(c, s) \in Seq(HuffNames)
           /\ (\A k \in 1..Len(s.cur) : ScanTables(c, s, s.cur[k].index) = << >>)
                => TablesOfScan(c, s) = << >>
<1> DEFINE f == TablesUpTo(c, s)
           n == Len(s.cur)
           Part(k) == ScanTables(c, s, s.cur[k].index)
           None == \A k \in 1..n : Part(k) = << >>
           Good(k) == f[k] \in Seq(HuffNames) /\ (None => f[k] = << >>)
           Bad == {k \in Nat : k <= n /\ ~Good(k)}
<1>1. n \in Nat /\ \A k \in 1..n : Part(k) \in Seq(HuffNames)
  BY ScanTablesType, Zenon DEF ScanOf
<1>2. /\ f[0] = << >> /\ f[n] = TablesOfScan(c, s)
      /\ \A k \in 1..n : f[k] = f[k - 1] \o Part(k)
  BY <1>1, CollectedIs
<1> HIDE DEF f, n, Part
<1>3. Good(0)
  BY <1>2
<1>4. ASSUME NEW k \in 1..n, Good(k - 1) PROVE Good(k)
  <2>1. f[k] = f[k - 1] \o Part(k) /\ Part(k) \in Seq(HuffNames)
    BY <1>1, <1>2
  <2>2. f[k] \in Seq(HuffNames)
    BY <1>4, <2>1
  <2>3. ASSUME None PROVE f[k] = << >>
    BY <1>4, <2>3, <2>1
  <2> QED
    BY <2>2, <2>3
<1> HIDE DEF Good
<1>5. Bad = {}
  <2> SUFFICES ASSUME Bad # {} PROVE FALSE
    OBVIOUS
  <2>1. PICK k \in Bad : \A j \in Bad : k <= j
    <3> Bad \in SUBSET Nat
      OBVIOUS
    <3> HIDE DEF Bad
    <3> QED
      BY Smallest
  <2>2. k \in Nat /\ k <= n /\ ~Good(k)
    OBVIOUS
  <2>3. k - 1 \in Nat /\ k - 1 <= n /\ k \in 1..n /\ ~ k <= k - 1
    BY <1>1, <2>2, <1>3
  <2>4. k - 1 \notin Bad
    <3> HIDE DEF Bad
    <3> QED
      BY <2>1, <2>3
  <2> QED
    BY <1>4, <2>2, <2>3, <2>4
<1>6. Good(n)
  BY <1>5, <1>1
<1>7. \A q \in Seq(HuffNames) : q \in Seq(TableNames)
  BY DEF HuffNames, TableNames
<1> QED
  BY <1>2, <1>6, <1>7, Zenon DEF Good, Part, n

-----------------------------------------------------------------------------
(* The segments of the headers.                                            *)

Segments(segs) == \E S : segs \in Seq(S)

LEMMA SegmentsJoined ==
    ASSUME NEW a, NEW b, Segments(a), Segments(b)
    PROVE  /\ Segments(a \o b)
           /\ Len(a) \in Nat /\ Len(b) \in Nat /\ Len(a \o b) = Len(a) + Len(b)
           /\ \A i \in 1..Len(a) : (a \o b)[i] = a[i]
           /\ \A i \in 1..Len(b) : (a \o b)[Len(a) + i] = b[i]
           /\ GoodSegments(a) /\ GoodSegments(b) => GoodSegments(a \o b)
<1>1. PICK S : a \in Seq(S)
  BY Zenon DEF Segments
<1>2. PICK U : b \in Seq(U)
  BY Zenon DEF Segments
<1> DEFINE V == S \cup U
<1>3. a \in Seq(V) /\ b \in Seq(V)
  BY <1>1, <1>2
<1> HIDE DEF V
<1> DEFINE ab == a \o b
<1>4. /\ ab \in Seq(V) /\ Len(a) \in Nat /\ Len(b) \in Nat /\ Len(ab) = Len(a) + Len(b)
      /\ \A i \in 1..Len(ab) : ab[i] = IF i <= Len(a) THEN a[i] ELSE b[i - Len(a)]
  BY <1>3
<1> HIDE DEF ab
<1>5. \A i \in 1..Len(b) : ab[Len(a) + i] = b[i]
  <2> SUFFICES ASSUME NEW i \in 1..Len(b) PROVE ab[Len(a) + i] = b[i]
    OBVIOUS
  <2> DEFINE j == Len(a) + i
  <2>1. j \in 1..Len(ab) /\ ~ j <= Len(a) /\ j - Len(a) = i
    BY <1>4
  <2> HIDE DEF j
  <2> QED
    BY <1>4, <2>1 DEF j
<1>6. ASSUME GoodSegments(a), GoodSegments(b) PROVE GoodSegments(ab)
  <2>1. ASSUME NEW k \in 1..Len(ab) PROVE GoodSegment(ab[k])
    <3>1. (k <= Len(a) /\ k \in 1..Len(a)) \/ (~ k <= Len(a) /\ k - Len(a) \in 1..Len(b))
      BY <1>4
    <3> QED
      BY <1>4, <1>6, <3>1, Zenon DEF GoodSegments
  <2> QED
    BY <2>1, <1>4 DEF GoodSegments
<1> QED
  BY <1>4, <1>5, <1>6 DEF ab, Segments

LEMMA FrameHeaderIs ==
    ASSUME NEW c, NEW tbl, Len(c.comps) \in Nat
    PROVE  LET fh == write_frame_header(c, tbl)
               n == Len(c.comps)
           IN  /\ fh \in Seq({fh[i] : i \in 1..n + 1})
               /\ Len(fh) = n + 1
               /\ \A i \in 1..n : fh[i] = << "DQT", QuantTable(c, i) >>
               /\ fh[n + 1] = << "SOF", SOFCode(c, tbl) >>
<1> DEFINE n == Len(c.comps)
           Q(i) == << "DQT", QuantTable(c, i) >>
           a == [i \in 1..n |-> Q(i)]
           x == << "SOF", SOFCode(c, tbl) >>
           S == {Q(i) : i \in 1..n} \cup {x}
           fh == write_frame_header(c, tbl)
<1>1. fh = a \o << x >>
  BY Zenon DEF write_frame_header
<1> HIDE DEF n, Q, x, fh
<1>2. n \in Nat
  BY DEF n
<1>3. a \in Seq(S) /\ << x >> \in Seq(S) /\ Len(a) = n /\ \A i \in 1..n : a[i] = Q(i)
  BY <1>2
<1> HIDE DEF a, S
<1>4. fh \in Seq(S) /\ Len(fh) = n + 1 /\ (\A i \in 1..n : fh[i] = a[i]) /\ fh[n + 1] = x
  BY <1>1, <1>2, <1>3
<1>5. /\ fh \in Seq({fh[i] : i \in 1..n + 1})
  BY <1>2, <1>4
<1> QED
  BY <1>3, <1>4, <1>5, Zenon DEF n, Q, x, fh

LEMMA ScanHeaderIs ==
    ASSUME NEW c, NEW s, TablesOfScan(c, s) \in Seq(TableNames)
    PROVE  LET sh == write_scan_header(c, s)
               n == Len(TablesOfScan(c, s))
           IN  /\ sh \in Seq({sh[i] : i \in 1..n + 2})
               /\ n \in Nat /\ Len(sh) = n + 2
               /\ \A i \in 1..n : sh[i] = << "DHT", TablesOfScan(c, s)[i] >>
                                  /\ TablesOfScan(c, s)[i] \in TableNames
               /\ sh[n + 1] = << "DRI", << c.restart_interval >> >>
               /\ sh[n + 2] = << "SOS", s >>
<1> DEFINE tables == TablesOfScan(c, s)
           n == Len(tables)
           Q(i) == << "DHT", tables[i] >>
           a == [i \in 1..n |-> Q(i)]
           x == << "DRI", << c.restart_interval >> >>
           y == << "SOS", s >>
           S == {Q(i) : i \in 1..n} \cup {x, y}
           sh == write_scan_header(c, s)
<1>1. sh = a \o << x, y >>
  BY Zenon DEF write_scan_header
<1>2. n \in Nat /\ \A i \in 1..n : tables[i] \in TableNames
  <2> HIDE DEF tables
  <2> QED
    BY DEF tables
<1> HIDE DEF tables, n, Q, x, y, sh
<1>3. /\ a \in Seq(S) /\ << x, y >> \in Seq(S) /\ Len(a) = n
      /\ \A i \in 1..n : a[i] = Q(i)
  BY <1>2
<1> HIDE DEF a, S
<1>4. /\ sh \in Seq(S) /\ Len(sh) = n + 2 /\ \A i \in 1..n : sh[i] = a[i]
      /\ sh[n + 1] = x /\ sh[n + 2] = y
  <2> DEFINE b == << x, y >>
  <2>1. b \in Seq(S) /\ Len(b) = 2 /\ b[1] = x /\ b[2] = y /\ sh = a \o b
    BY <1>1, <1>3
  <2> HIDE DEF b
  <2>2. Segments(a) /\ Segments(b)
    BY <1>3, <2>1, Zenon DEF Segments
  <2>3. /\ Len(sh) = Len(a) + Len(b)
        /\ \A i \in 1..Len(a) : sh[i] = a[i]
        /\ \A i \in 1..Len(b) : sh[Len(a) + i] = b[i]
    <3>1. /\ Len(a \o b) = Len(a) + Len(b)
          /\ \A i \in 1..Len(a) : (a \o b)[i] = a[i]
          /\ \A i \in 1..Len(b) : (a \o b)[Len(a) + i] = b[i]
      BY <2>2, SegmentsJoined
    <3> QED
      BY <2>1, <3>1, Zenon
  <2>4. Len(sh) = n + 2 /\ (\A i \in 1..n : sh[i] = a[i]) /\ sh[n + 1] = x /\ sh[n + 2] = y
    BY <2>1, <2>3, <1>3
  <2> QED
    BY <1>3, <2>1, <2>4
<1>5. sh \in Seq({sh[i] : i \in 1..n + 2})
  BY <1>2, <1>4
<1> QED
  BY <1>2, <1>3, <1>4, <1>5, Zenon DEF tables, n, Q, x, y, sh

LEMMA FrameHeaderGood ==
    ASSUME NEW c \in ParameterSet, NEW tbl
    PROVE  GoodSegments(write_frame_header(c, tbl))
<1> DEFINE n == Len(c.comps)
           fh == write_frame_header(c, tbl)
<1>1. n \in Nat /\ \A i \in 1..n : c.comps[i].quant_tbl_no \in {0, 1}
  BY ParameterTypes, Zenon
<1>2. /\ Len(fh) = n + 1
      /\ \A i \in 1..n : fh[i] = << "DQT", QuantTable(c, i) >>
      /\ fh[n + 1] = << "SOF", SOFCode(c, tbl) >>
  BY <1>1, FrameHeaderIs
<1>3. /\ \A i \in 1..n : GoodSegment(fh[i])
      /\ GoodSegment(fh[n + 1])
  <2> HIDE DEF fh, n
  <2> QED
    BY <1>2, <1>1 DEF GoodSegment, QuantTable, TableNames
<1> HIDE DEF n, fh
<1> QED
  BY <1>2, <1>3, <1>1 DEF GoodSegments, n, fh

LEMMA ScanHeaderGood ==
    ASSUME NEW c \in ParameterSet, NEW s, ScanOf(c, s)
    PROVE  GoodSegments(write_scan_header(c, s))
<1> DEFINE tables == TablesOfScan(c, s)
           n == Len(tables)
           sh == write_scan_header(c, s)
<1>1. /\ n \in Nat /\ Len(sh) = n + 2
      /\ \A i \in 1..n : sh[i] = << "DHT", tables[i] >> /\ tables[i] \in TableNames
      /\ sh[n + 1] = << "DRI", << c.restart_interval >> >>
      /\ sh[n + 2] = << "SOS", s >>
  BY TablesOfScanType, ScanHeaderIs
<1> HIDE DEF n, sh, tables
<1> QED
  BY <1>1 DEF GoodSegments, GoodSegment, n, sh

LEMMA HeadersAreSegments ==
    ASSUME NEW c \in ParameterSet
    PROVE  /\ \A tbl : Segments(write_frame_header(c, tbl))
           /\ \A s : ScanOf(c, s) => Segments(write_scan_header(c, s))
<1>1. ASSUME NEW tbl PROVE Segments(write_frame_header(c, tbl))
  BY ParameterTypes, FrameHeaderIs DEF Segments
<1>2. ASSUME NEW s, ScanOf(c, s) PROVE Segments(write_scan_header(c, s))
  BY <1>2, TablesOfScanType, ScanHeaderIs, Zenon DEF Segments
<1> QED
  BY <1>1, <1>2

LEMMA SegmentsCut ==
    ASSUME NEW a, Segments(a), GoodSegments(a), NEW k \in 0..Len(a) - 1
    PROVE  GoodSegments(SubSeq(a, 1, k))
<1>1. PICK S : a \in Seq(S)
  BY Zenon DEF Segments
<1> DEFINE b == SubSeq(a, 1, k)
<1> HIDE DEF b
<1> QED
  BY <1>1 DEF GoodSegments, b

LEMMA PlainHeaders ==
    /\ Segments(write_file_header) /\ GoodSegments(write_file_header)
    /\ Segments(write_file_trailer) /\ GoodSegments(write_file_trailer)
    /\ Segments(write_tables_only) /\ GoodSegments(write_tables_only)
<1>1. /\ Segments(write_file_header) /\ GoodSegments(write_file_header)
      /\ Segments(write_file_trailer) /\ GoodSegments(write_file_trailer)
  <2>1. \A x : x[1] \notin {"DQT", "DHT"} =>
            Segments(<< x >>) /\ GoodSegments(<< x >>)
    <3> SUFFICES ASSUME NEW x, x[1] \notin {"DQT", "DHT"}
                 PROVE  Segments(<< x >>) /\ GoodSegments(<< x >>)
      OBVIOUS
    <3>1. << x >> \in Seq({x}) /\ Len(<< x >>) = 1 /\ << x >>[1] = x
      OBVIOUS
    <3>2. GoodSegments(<< x >>)
      BY <3>1 DEF GoodSegments, GoodSegment
    <3> QED
      BY <3>1, <3>2, Zenon DEF Segments
  <2> QED
    BY <2>1 DEF write_file_header, write_file_trailer
<1>2. Segments(write_tables_only) /\ GoodSegments(write_tables_only)
  <2> DEFINE a == << "SOI", << >> >>
             b == << "DQT", << "q", 0 >> >>
             c == << "DQT", << "q", 1 >> >>
             d == << "DHT", << "dc", 0 >> >>
             e == << "DHT", << "ac", 0 >> >>
             f == << "DHT", << "dc", 1 >> >>
             g == << "DHT", << "ac", 1 >> >>
             h == << "EOI", << >> >>
             all == << a, b, c, d, e, f, g, h >>
  <2>1. /\ GoodSegment(a) /\ GoodSegment(b) /\ GoodSegment(c) /\ GoodSegment(d)
        /\ GoodSegment(e) /\ GoodSegment(f) /\ GoodSegment(g) /\ GoodSegment(h)
    BY SMT DEF GoodSegment, TableNames
  <2>2. write_tables_only = all
    BY Zenon DEF write_tables_only
  <2> HIDE DEF a, b, c, d, e, f, g, h
  <2> DEFINE S == {a, b, c, d, e, f, g, h}
  <2>3. all \in Seq(S) /\ Len(all) = 8
    OBVIOUS
  <2> HIDE DEF all
  <2>4. Len(all) \in Nat /\ \A x \in S : GoodSegment(x)
    BY <2>1, <2>3
  <2> HIDE DEF S
  <2>5. \A i \in 1..Len(all) : all[i] \in S
    <3>1. \A U : \A q \in Seq(U) : \A i \in 1..Len(q) : q[i] \in U
      OBVIOUS
    <3> QED
      BY <2>3, <3>1, Zenon
  <2> QED
    BY <2>2, <2>3, <2>5, <2>4, Zenon DEF Segments, GoodSegments
<1> QED
  BY <1>1, <1>2

-----------------------------------------------------------------------------
(* What the actions do to the writer and the reader.                       *)

LEMMA OutputOK ==
    ASSUME NEW w, OutOK(w, reader), NEW segs, GoodSegments(segs)
    PROVE  LET o == OutputTo(w, segs)
           IN  Pair(o) /\ OutOK(o.w, o.rd) /\ SameValues([w |-> w, rd |-> reader], o)
<1> DEFINE out == [w |-> w, rd |-> reader]
<1>1. Pair(out) /\ out.w = w /\ out.rd = reader
  BY SMT DEF Pair
<1> HIDE DEF out
<1>2. LET o == Written(out, segs)
      IN  Pair(o) /\ OutOK(o.w, o.rd) /\ SameValues(out, o)
  BY <1>1, WrittenKeeps
<1> QED
  BY <1>2, Zenon DEF out, OutputTo

LEMMA SetOutputOK ==
    ASSUME NEW w, OutOK(w, reader), NEW segs, GoodSegments(segs),
           SetOutput(OutputTo(w, segs))
    PROVE  OutOK(writer', reader') /\ \A t \in TableNames : writer'.tbl[t].value = w.tbl[t].value
<1> DEFINE o == OutputTo(w, segs)
           out == [w |-> w, rd |-> reader]
<1>1. OutOK(o.w, o.rd) /\ SameValues(out, o)
  BY OutputOK
<1>2. out.w = w
  OBVIOUS
<1>3. writer' = o.w /\ reader' = o.rd
  BY Zenon DEF SetOutput
<1> HIDE DEF o, out
<1> QED
  BY <1>1, <1>2, <1>3, Zenon DEF SameValues

LEMMA FailsWithinOK ==
    ASSUME NEW w, OutOK(w, reader), NEW segs, Segments(segs), GoodSegments(segs),
           FailsWithin(w, segs), refusals \in 0..MaxRefusals
    PROVE  OutOK(writer', reader') /\ pc' = "error" /\ refusals' \in 0..MaxRefusals
<1>1. PICK k \in 0..Len(segs) - 1 : SetOutput(OutputTo(w, SubSeq(segs, 1, k)))
  BY Zenon DEF FailsWithin
<1>2. OutOK(writer', reader')
  BY <1>1, SegmentsCut, SetOutputOK
<1> QED
  BY ConfigsAssumption, <1>2 DEF FailsWithin, Refuse

LEMMA NewTables ==
    ASSUME NEW w, NEW rd, OutOK(w, rd), NEW tbl, DOMAIN tbl = TableNames,
           \A t \in TableNames :
                /\ DOMAIN tbl[t] = {"value", "sent_table"} /\ tbl[t].sent_table \in BOOLEAN
                /\ tbl[t].sent_table => rd.tbl[t] = tbl[t].value
    PROVE  LET v == [w EXCEPT !.tbl = tbl]
           IN  OutOK(v, rd) /\ v.tbl = tbl /\ v.last_restart_interval = w.last_restart_interval
<1> DEFINE v == [w EXCEPT !.tbl = tbl]
<1> HIDE DEF v
<1> QED
  BY DEF v, OutOK

\* jpeg_suppress_tables(FALSE): nothing is taken to be sent.
LEMMA SuppressNothing ==
    ASSUME OutOK(writer, reader), NEW all \in BOOLEAN
    PROVE  LET w == WithTables(all)
           IN  /\ OutOK(w, reader)
               /\ \A t \in TableNames :
                    /\ w.tbl[t].value = writer.tbl[t].value
                    /\ all => ~w.tbl[t].sent_table
<1>1. CASE ~all
  BY <1>1, Zenon DEF WithTables
<1>2. CASE all
  <2> DEFINE tbl == [t \in TableNames |-> [writer.tbl[t] EXCEPT !.sent_table = FALSE]]
             w == [writer EXCEPT !.tbl = tbl]
  <2>1. DOMAIN writer.tbl = TableNames
        /\ \A t \in TableNames : DOMAIN writer.tbl[t] = {"value", "sent_table"}
    BY Zenon DEF OutOK
  <2>2. WithTables(all) = w
    BY <1>2, <2>1, Zenon DEF WithTables, jpeg_suppress_tables
  <2>3. /\ DOMAIN tbl = TableNames
        /\ \A t \in TableNames : /\ DOMAIN tbl[t] = {"value", "sent_table"}
                                 /\ tbl[t].value = writer.tbl[t].value
                                 /\ tbl[t].sent_table = FALSE
    BY <2>1
  <2> HIDE DEF tbl
  <2>4. \A t \in TableNames : tbl[t].sent_table \in BOOLEAN /\ ~tbl[t].sent_table
    BY <2>3, Zenon
  <2>5. OutOK(w, reader) /\ w.tbl = tbl
    BY <2>3, <2>4, NewTables
  <2> HIDE DEF w
  <2> QED
    BY <2>2, <2>3, <2>4, <2>5, Zenon
<1> QED
  BY <1>1, <1>2

-----------------------------------------------------------------------------
(* Between images, and in error.                                           *)

LEMMA Resting ==
    ASSUME TypesInv, global_state' = "START", pc' \in {"app", "error"}, call' = Freed,
           next_scanline' = next_scanline, cinfo' \in ParameterSet,
           images' \in 0..cinfo'.plan.images, versions' \in 0..MaxVersions,
           refusals' \in 0..MaxRefusals, OutOK(writer', reader'),
           done' = done \/ \E all \in BOOLEAN : done' = NothingDone(all)
    PROVE  IndInv'
<1>1. DOMAIN done' = DoneFields /\ done'.mcus \in Nat
  <2>1. CASE done' = done
    BY <2>1, Zenon DEF TypesInv
  <2>2. ASSUME NEW all, done' = NothingDone(all) PROVE DOMAIN done' = DoneFields /\ done'.mcus \in Nat
    BY <2>2, SMT DEF NothingDone, DoneFields
  <2> QED
    BY <2>1, <2>2
<1>2. /\ global_state' # "SCANNING" /\ global_state' # "RAW_OK"
      /\ pc' # "main" /\ pc' # "mcu" /\ pc' # "rowdone" /\ pc' # "finish_pass" /\ pc' # "passes"
      /\ pc' \in {"app", "main", "mcu", "rowdone", "finish_pass", "passes", "error"}
      /\ global_state' \in {"START", "SCANNING", "RAW_OK", "WRCOEFS"}
  BY SMT
<1>3. PassInv' /\ MCUInv' /\ CallInv' /\ LinesInv' /\ RawInv'
  BY <1>2, Zenon DEF PassInv, MCUInv, CallInv, LinesInv, RawInv, Active, FromApplication, InPass,
     TakingLines
<1> QED
  BY <1>1, <1>2, <1>3, Zenon DEF IndInv, TypesInv, Active

LEMMA AtRest ==
    ASSUME IndInv, Idle
    PROVE  /\ TypesInv /\ global_state = "START" /\ pc = "app" /\ call = Freed
           /\ cinfo \in ParameterSet /\ OutOK(writer, reader)
           /\ images \in 0..cinfo.plan.images /\ versions \in 0..MaxVersions
           /\ refusals \in 0..MaxRefusals
BY Zenon DEF IndInv, TypesInv, Idle, Active

LEMMA SetDefaultsInd == IndInv /\ jpeg_set_defaults => IndInv'
<1> SUFFICES ASSUME IndInv, jpeg_set_defaults PROVE IndInv'
  OBVIOUS
<1>1. Idle /\ cinfo' \in Configs /\ cinfo'.plan = cinfo.plan
      /\ UNCHANGED << global_state, next_scanline, call, pc, reader, done, images, versions, refusals >>
  BY Zenon DEF jpeg_set_defaults, Between, pipeline, counts
<1> DEFINE tbl == [t \in TableNames |->
                      [value |-> IF t \in HuffNames THEN Standard ELSE Version(0, FALSE),
                       sent_table |-> FALSE]]
<1>2. DOMAIN tbl = TableNames
      /\ \A t \in TableNames : /\ DOMAIN tbl[t] = {"value", "sent_table"}
                               /\ tbl[t].sent_table = FALSE
  OBVIOUS
<1> HIDE DEF tbl
<1>3. OutOK(writer', reader)
  BY <1>1, <1>2, AtRest, NewTables DEF jpeg_set_defaults
<1> QED
  BY <1>1, <1>3, AtRest, ConfigsAssumption, Resting

LEMMA QuantTablesInd ==
    ASSUME IndInv, NEW slots, NEW basic, NEW scale_factor, NEW force_baseline,
           NewQuantTables(slots, basic, scale_factor, force_baseline)
    PROVE  IndInv'
<1>1. /\ Idle /\ versions < MaxVersions /\ versions' = versions + 1
      /\ UNCHANGED << cinfo, global_state, next_scanline, call, pc, reader, done, images, refusals >>
  BY Zenon DEF NewQuantTables, Between, pipeline
<1>2. /\ TypesInv /\ OutOK(writer, reader) /\ versions \in 0..MaxVersions
      /\ DOMAIN writer.tbl = TableNames
      /\ \A t \in TableNames :
            /\ DOMAIN writer.tbl[t] = {"value", "sent_table"}
            /\ writer.tbl[t].sent_table \in BOOLEAN
            /\ writer.tbl[t].sent_table => reader.tbl[t] = writer.tbl[t].value
  BY <1>1, AtRest, Zenon DEF OutOK
<1> DEFINE New(t) == QuantTableSet(basic[t[2]], scale_factor, force_baseline)
           tbl == [t \in TableNames |-> IF t[1] = "q" /\ t[2] \in slots THEN New(t)
                                                                     ELSE writer.tbl[t]]
<1>3. writer' = [writer EXCEPT !.tbl = tbl]
  BY Zenon DEF NewQuantTables
<1>4. \A t : DOMAIN New(t) = {"value", "sent_table"} /\ New(t).sent_table = FALSE
  BY SMT DEF QuantTableSet
<1> HIDE DEF New
<1>5. DOMAIN tbl = TableNames /\ \A t \in TableNames : tbl[t] = New(t) \/ tbl[t] = writer.tbl[t]
  BY Zenon
<1> HIDE DEF tbl
<1>6. \A t \in TableNames : /\ DOMAIN tbl[t] = {"value", "sent_table"}
                            /\ tbl[t].sent_table \in BOOLEAN
                            /\ tbl[t].sent_table => reader.tbl[t] = tbl[t].value
  <2> SUFFICES ASSUME NEW t \in TableNames
               PROVE  /\ DOMAIN tbl[t] = {"value", "sent_table"}
                      /\ tbl[t].sent_table \in BOOLEAN
                      /\ tbl[t].sent_table => reader.tbl[t] = tbl[t].value
    OBVIOUS
  <2>1. CASE tbl[t] = New(t)
    BY <1>4, <2>1, Zenon
  <2>2. CASE tbl[t] = writer.tbl[t]
    BY <1>2, <2>2, Zenon
  <2> QED
    BY <1>5, <2>1, <2>2
<1>7. OutOK(writer', reader)
  BY <1>2, <1>3, <1>5, <1>6, NewTables
<1> QED
  BY <1>1, <1>7, <1>2, ConfigsAssumption, AtRest, Resting

LEMMA ProgressionScript ==
    ASSUME NEW n \in Nat, NEW space
    PROVE  SimpleProgression(n, space)
             \in Seq([comps : Seq(Int), Ss : Int, Se : Int, Ah : Int, Al : Int])
<1> DEFINE S == [comps : Seq(Int), Ss : Int, Se : Int, Ah : Int, Al : Int]
<1>1. ASSUME NEW q \in Seq(Int), NEW Ss \in Int, NEW Se \in Int, NEW Ah \in Int, NEW Al \in Int
      PROVE  Scan(q, Ss, Se, Ah, Al) \in S
  BY DEF Scan
<1>2. LastCoef \in Int
  BY SetupAssumption
<1>3. \A i \in Nat : << i >> \in Seq(Int)
  OBVIOUS
<1>4. [ci \in 1..n |-> ci] \in Seq(Int)
  OBVIOUS
<1> HIDE DEF S
<1>5. \A e : e \in S => << e >> \in Seq(S)
  OBVIOUS
<1>6. ASSUME NEW ci \in Nat, NEW Ss \in Int, NEW Se \in Int, NEW Ah \in Int, NEW Al \in Int
      PROVE  fill_a_scan(ci, Ss, Se, Ah, Al) \in Seq(S)
  BY <1>1, <1>3, <1>5, Zenon DEF fill_a_scan
<1>7. ASSUME NEW Ss \in Int, NEW Se \in Int, NEW Ah \in Int, NEW Al \in Int
      PROVE  fill_scans(n, Ss, Se, Ah, Al) \in Seq(S)
  <2>1. \A ci \in 1..n : Scan(<< ci >>, Ss, Se, Ah, Al) \in S
    <3>1. \A ci \in 1..n : ci \in Nat
      OBVIOUS
    <3> QED
      BY <1>1, <1>3, <3>1, Zenon
  <2> QED
    BY <2>1 DEF fill_scans
<1>8. ASSUME NEW Ah \in Int, NEW Al \in Int PROVE fill_dc_scans(n, Ah, Al) \in Seq(S)
  <2>1. 0 \in Int
    OBVIOUS
  <2> QED
    BY <1>1, <1>4, <1>5, <1>7, <2>1, Zenon DEF fill_dc_scans
<1>9. 0 \in Int /\ 1 \in Int /\ 2 \in Int /\ 5 \in Int /\ 6 \in Int
      /\ 1 \in Nat /\ 2 \in Nat /\ 3 \in Nat
  OBVIOUS
<1>10. \A a, b : a \in Seq(S) /\ b \in Seq(S) => a \o b \in Seq(S)
  OBVIOUS
<1>11. CASE n = 3 /\ space = "YCbCr"
  <2>1. /\ fill_dc_scans(n, 0, 1) \in Seq(S) /\ fill_a_scan(1, 1, 5, 0, 2) \in Seq(S)
        /\ fill_a_scan(3, 1, LastCoef, 0, 1) \in Seq(S)
        /\ fill_a_scan(2, 1, LastCoef, 0, 1) \in Seq(S)
        /\ fill_a_scan(1, 6, LastCoef, 0, 2) \in Seq(S)
        /\ fill_a_scan(1, 1, LastCoef, 2, 1) \in Seq(S)
        /\ fill_dc_scans(n, 1, 0) \in Seq(S)
        /\ fill_a_scan(3, 1, LastCoef, 1, 0) \in Seq(S)
        /\ fill_a_scan(2, 1, LastCoef, 1, 0) \in Seq(S)
        /\ fill_a_scan(1, 1, LastCoef, 1, 0) \in Seq(S)
    BY <1>2, <1>6, <1>8, <1>9, ZenonT(40)
  <2> QED
    BY <1>10, <1>11, <2>1, ZenonT(40) DEF SimpleProgression, S
<1>12. CASE ~(n = 3 /\ space = "YCbCr")
  BY <1>2, <1>7, <1>8, <1>9, <1>10, <1>12, Zenon DEF SimpleProgression, S
<1> QED
  BY <1>11, <1>12

LEMMA ProgressionInd == IndInv /\ jpeg_simple_progression => IndInv'
<1> SUFFICES ASSUME IndInv, jpeg_simple_progression PROVE IndInv'
  OBVIOUS
<1> DEFINE script == SimpleProgression(Len(cinfo.comps), cinfo.jpeg_color_space)
<1>1. /\ Idle /\ cinfo' = [cinfo EXCEPT !.scan_info = script]
      /\ UNCHANGED << global_state, next_scanline, call, pc, writer, reader, done,
                      images, versions, refusals >>
  BY Zenon DEF jpeg_simple_progression, pipeline, counts
<1>2. script \in Seq([comps : Seq(Int), Ss : Int, Se : Int, Ah : Int, Al : Int])
  BY <1>1, AtRest, ParameterTypes, ProgressionScript, Zenon
<1> HIDE DEF script
<1> QED
  BY <1>1, <1>2, AtRest, Resting DEF ParameterSet

LEMMA SuppressInd == IndInv /\ SuppressTables => IndInv'
<1> SUFFICES ASSUME IndInv, SuppressTables PROVE IndInv'
  OBVIOUS
<1> DEFINE tbl == [t \in DOMAIN writer.tbl |-> [writer.tbl[t] EXCEPT !.sent_table = TRUE]]
           known == [t \in TableNames |-> writer.tbl[t].value]
<1>1. /\ Idle /\ writer' = [writer EXCEPT !.tbl = tbl]
      /\ reader' = [reader EXCEPT !.tbl = known]
      /\ UNCHANGED << cinfo, global_state, next_scanline, call, pc, done,
                      images, versions, refusals >>
  BY Zenon DEF SuppressTables, Between, pipeline, counts, jpeg_suppress_tables
<1>2. /\ DOMAIN writer = {"last_restart_interval", "tbl"} /\ DOMAIN writer.tbl = TableNames
      /\ DOMAIN reader = {"tbl", "here", "ri", "sof", "scan"}
      /\ \A t \in TableNames : DOMAIN writer.tbl[t] = {"value", "sent_table"}
  BY <1>1, AtRest, Zenon DEF OutOK
<1>3. /\ DOMAIN tbl = TableNames
      /\ \A t \in TableNames : /\ DOMAIN tbl[t] = {"value", "sent_table"}
                               /\ tbl[t].value = writer.tbl[t].value
                               /\ tbl[t].sent_table = TRUE
  BY <1>2
<1>4. DOMAIN known = TableNames /\ \A t \in TableNames : known[t] = writer.tbl[t].value
  BY Zenon
<1> HIDE DEF tbl, known
<1>5. \A t \in TableNames : tbl[t].sent_table \in BOOLEAN
  BY <1>3, Zenon
<1>6. OutOK(writer', reader')
  BY <1>3, <1>4, <1>1, <1>2, <1>5, SMT DEF OutOK
<1> QED
  BY <1>1, <1>6, AtRest, Resting, Zenon

LEMMA WriteTablesInd == IndInv /\ jpeg_write_tables => IndInv'
<1> SUFFICES ASSUME IndInv, jpeg_write_tables PROVE IndInv'
  OBVIOUS
<1> DEFINE w == NewWriter(writer)
<1>1. /\ Idle
      /\ \/ SetOutput(OutputTo(w, write_tables_only)) /\ UNCHANGED << refusals, pc >>
         \/ FailsWithin(w, write_tables_only)
      /\ UNCHANGED << cinfo, global_state, next_scanline, call, done, images, versions >>
  BY Zenon DEF jpeg_write_tables, Between, pipeline
<1>2. OutOK(w, reader)
  <2>1. OutOK(writer, reader) /\ DOMAIN writer = {"last_restart_interval", "tbl"}
    BY <1>1, AtRest, Zenon DEF OutOK
  <2>2. DOMAIN w = {"last_restart_interval", "tbl"} /\ w.tbl = writer.tbl
    BY <2>1, SMT DEF NewWriter
  <2> HIDE DEF w
  <2> QED
    BY <2>1, <2>2, Zenon DEF OutOK
<1> HIDE DEF w
<1>3. Segments(write_tables_only) /\ GoodSegments(write_tables_only)
  BY PlainHeaders
<1>4. /\ OutOK(writer', reader') /\ pc' \in {"app", "error"} /\ refusals' \in 0..MaxRefusals
  BY <1>2, <1>3, SetOutputOK, <1>1, AtRest, FailsWithinOK
<1> QED
  BY <1>1, <1>4, AtRest, Resting, Zenon

LEMMA OneMoreImage ==
    ASSUME IndInv, Idle, images < cinfo.plan.images, images' = images + 1,
           cinfo'.plan = cinfo.plan
    PROVE  images' \in 0..cinfo'.plan.images
BY AtRest, ParameterTypes

LEMMA StartFailsInd == ASSUME IndInv, NEW all \in BOOLEAN, StartFails(all) PROVE IndInv'
BY AtRest, SuppressNothing, MasterParameters, ConfigsAssumption, OneMoreImage, Resting DEF
   StartFails, pipeline, Refuse

LEMMA BadFirstScanInd ==
    ASSUME IndInv, Idle, images < cinfo.plan.images, images' = images + 1, pc' = "error",
           cinfo' = Optimizing(cinfo),
           UNCHANGED << global_state, next_scanline, call, done, versions, refusals >>,
           NEW all \in BOOLEAN, SetOutput(OutputTo(WithTables(all), write_file_header))
    PROVE  IndInv'
BY AtRest, SuppressNothing, PlainHeaders, SetOutputOK, MasterParameters, OneMoreImage,
   Resting

LEMMA TrailerInd == IndInv /\ Trailer => IndInv'
<1> SUFFICES ASSUME IndInv, Trailer PROVE IndInv'
  OBVIOUS
<1>1. /\ SetOutput(OutputTo(writer, write_file_trailer))
      /\ global_state' = "START" /\ pc' = "app" /\ Released
      /\ UNCHANGED << cinfo, next_scanline, images, versions, refusals >>
  BY Zenon DEF Trailer, counts
<1>2. TypesInv
  BY Zenon DEF IndInv
<1>3. /\ cinfo \in ParameterSet /\ OutOK(writer, reader)
      /\ images \in 0..cinfo.plan.images /\ versions \in 0..MaxVersions
      /\ refusals \in 0..MaxRefusals
  BY <1>2, Zenon DEF TypesInv
<1> QED
  BY <1>1, <1>2, <1>3, PlainHeaders, SetOutputOK, Resting DEF Released

LEMMA AbortInd == IndInv /\ jpeg_abort_compress => IndInv'
<1> SUFFICES ASSUME IndInv, jpeg_abort_compress PROVE IndInv'
  OBVIOUS
<1>1. TypesInv
  BY Zenon DEF IndInv
<1>2. /\ cinfo \in ParameterSet /\ OutOK(writer, reader)
      /\ images \in 0..cinfo.plan.images /\ versions \in 0..MaxVersions
      /\ refusals \in 0..MaxRefusals
  BY <1>1, Zenon DEF TypesInv
<1> QED
  BY <1>1, <1>2, Resting, Zenon DEF Released, jpeg_abort_compress, counts

-----------------------------------------------------------------------------
(* Within an image: what every step has to keep.                           *)

SameCounters(m, n) ==
    /\ n \in MasterRecord
    /\ n.pass_type = m.pass_type /\ n.pass_number = m.pass_number
    /\ n.scan_number = m.scan_number /\ n.total_passes = m.total_passes
    /\ n.is_last_pass = m.is_last_pass

LEMMA TypesStay ==
    ASSUME TypesInv, Active, global_state' = global_state,
           pc' \in {"app", "main", "mcu", "rowdone", "finish_pass", "passes", "error"},
           next_scanline' \in Nat, cinfo' \in ParameterSet, ~BadParameters(cinfo'),
           cinfo'.plan = cinfo.plan, images' = images, versions' = versions,
           refusals' \in 0..MaxRefusals, OutOK(writer', reader'),
           DOMAIN done' = DoneFields, done'.mcus \in Nat,
           call' # Freed => call' \in CallRecord /\ call'.in_row_ctr <= call'.in_rows_avail,
           master' \in MasterRecord, global_state = "SCANNING" => PrepOK' /\ MainOK'
    PROVE  TypesInv' /\ Active'
BY Zenon DEF Active, TypesInv

LEMMA InError ==
    ASSUME TypesInv', PassCounted', pc' = "error"
    PROVE  IndInv'
BY DEF PassInv, MCUInv, CallInv, LinesInv, RawInv, InPass, TakingLines, IndInv

LEMMA SettingsStay ==
    ASSUME TypesInv, Active
    PROVE  /\ cinfo \in ParameterSet /\ ~BadParameters(cinfo) /\ Accepted(cinfo)
           /\ master \in MasterRecord /\ next_scanline \in Nat
           /\ refusals \in 0..MaxRefusals /\ OutOK(writer, reader)
           /\ DOMAIN done = DoneFields /\ done.mcus \in Nat
           /\ call # Freed => call \in CallRecord /\ call.in_row_ctr <= call.in_rows_avail
           /\ global_state = "SCANNING" => PrepOK /\ MainOK
BY Zenon DEF TypesInv, Accepted

LEMMA BuffersStay ==
    ASSUME cinfo' = cinfo, prep' = prep, main' = main
    PROVE  (PrepOK' <=> PrepOK) /\ (MainOK' <=> MainOK)
BY Zenon DEF PrepOK, MainOK, H, T, mv

LEMMA Refused1 ==
    ASSUME Refuse, refusals \in 0..MaxRefusals PROVE refusals' \in 0..MaxRefusals
BY ConfigsAssumption DEF Refuse

\* In a pass the scan is the one that master control counts.
LEMMA ScanOfPass ==
    ASSUME IndInv, Active, InPass
    PROVE  /\ Accepted(cinfo) /\ PassCounted
           /\ master.scan_number \in 0..num_scans(cinfo) - 1
           /\ scan = Setup(cinfo, master.scan_number) /\ ScanOf(cinfo, scan)
<1>1. /\ PassCounted /\ master.scan_number < N /\ scan = Setup(cinfo, master.scan_number)
      /\ Accepted(cinfo)
  BY SettingsStay, Zenon DEF IndInv, PassInv
<1>2. master.scan_number \in 0..num_scans(cinfo) - 1
  BY <1>1, ParameterTypes DEF N, PassCounted, Accepted, num_scans
<1>3. ScanOf(cinfo, scan)
  <2> DEFINE s == Setup(cinfo, master.scan_number)
  <2> HIDE DEF s
  <2> QED
    BY <1>1, <1>2, SetupShape DEF ScanOf, s
<1> QED
  BY <1>1, <1>2, <1>3

LEMMA HeadersOfPass ==
    ASSUME IndInv, Active, InPass
    PROVE  LET segs == write_frame_header(cinfo, writer.tbl) \o write_scan_header(cinfo, scan)
           IN  Segments(segs) /\ GoodSegments(segs)
BY ScanOfPass, FrameHeaderGood, ScanHeaderGood, HeadersAreSegments, SegmentsJoined, Zenon
   DEF Accepted

LEMMA StartupMaster ==
    ASSUME master \in MasterRecord, master' = [master EXCEPT !.call_pass_startup = FALSE]
    PROVE  SameCounters(master, master')
BY DEF MasterRecord, SameCounters

LEMMA PassStartupKeeps ==
    ASSUME IndInv, Active, InPass, PassStartup
    PROVE  OutOK(writer', reader') /\ SameCounters(master, master')
<1>1. master \in MasterRecord /\ OutOK(writer, reader)
  BY SettingsStay, Zenon DEF IndInv
<1> DEFINE segs == write_frame_header(cinfo, writer.tbl) \o write_scan_header(cinfo, scan)
<1>2. CASE master.call_pass_startup
  <2>1. SetOutput(OutputTo(writer, segs)) /\ master' = [master EXCEPT !.call_pass_startup = FALSE]
    BY <1>2, Zenon DEF PassStartup
  <2>2. GoodSegments(segs)
    BY HeadersOfPass
  <2> HIDE DEF segs
  <2> QED
    BY <1>1, <2>1, <2>2, SetOutputOK, StartupMaster
<1>3. CASE ~master.call_pass_startup
  BY <1>1, <1>3, Zenon DEF PassStartup, SameCounters
<1> QED
  BY <1>2, <1>3

LEMMA CountedStays ==
    ASSUME PassCounted, cinfo' = cinfo, SameCounters(master, master')
    PROVE  PassCounted'
BY Zenon DEF Opt, N, PassCounted, SameCounters

LEMMA StartupFailsInd == IndInv /\ StartupFails => IndInv'
<1> SUFFICES ASSUME IndInv, StartupFails PROVE IndInv'
  OBVIOUS
<1> DEFINE segs == write_frame_header(cinfo, writer.tbl) \o write_scan_header(cinfo, scan)
<1>1. /\ pc = "app" /\ global_state \in {"SCANNING", "RAW_OK"}
      /\ FailsWithin(writer, segs)
      /\ master' = [master EXCEPT !.call_pass_startup = FALSE]
      /\ UNCHANGED << prep, main, cinfo, global_state, next_scanline, call, done, images, versions >>
  BY Zenon DEF StartupFails, pipeline
<1>2. Active /\ InPass
  BY <1>1 DEF Active, InPass, FromApplication
<1>3. TypesInv
  BY Zenon DEF IndInv
<1>4. Segments(segs) /\ GoodSegments(segs)
  BY <1>2, HeadersOfPass
<1>5. OutOK(writer', reader') /\ pc' = "error" /\ refusals' \in 0..MaxRefusals
  <2> HIDE DEF segs
  <2> QED
    BY <1>1, <1>2, <1>3, <1>4, SettingsStay, FailsWithinOK, Zenon
<1>6. SameCounters(master, master')
  BY <1>1, <1>2, <1>3, SettingsStay, StartupMaster, Zenon
<1>7. MainOK' <=> MainOK
  BY <1>1, BuffersStay, Zenon
<1>8. TypesInv'
  BY <1>1, <1>2, <1>3, <1>5, <1>6, BuffersStay, <1>7, SettingsStay, TypesStay, Zenon DEF
     SameCounters
<1> QED
  BY <1>5, <1>1, <1>2, <1>6, ScanOfPass, CountedStays, <1>8, InError

LEMMA SettingsKeptInError ==
    ASSUME IndInv, Active, pc' = "error", refusals' \in 0..MaxRefusals,
           UNCHANGED << cinfo, global_state, next_scanline, master, prep, main, writer, reader,
                        images, versions, done >>,
           call' # Freed => call' \in CallRecord /\ call'.in_row_ctr <= call'.in_rows_avail
    PROVE  IndInv'
BY SettingsStay, CountedStays, BuffersStay, TypesStay, InError DEF IndInv, PassInv,
   SameCounters

LEMMA FlushFailsInd == IndInv /\ FlushFails => IndInv'
<1> SUFFICES ASSUME IndInv, FlushFails PROVE IndInv'
  OBVIOUS
<1> QED
  BY SettingsStay, Refused1, SettingsKeptInError, Zenon DEF IndInv, CallInv, FlushFails,
     pipeline

LEMMA TrailerFailsInd == IndInv /\ TrailerFails => IndInv'
<1> SUFFICES ASSUME IndInv, TrailerFails PROVE IndInv'
  OBVIOUS
<1> QED
  BY SettingsStay, Refused1, SettingsKeptInError, Zenon DEF IndInv, CallInv, TrailerFails,
     pipeline

LEMMA SuspendCrankInd == IndInv /\ SuspendCrank => IndInv'
<1> SUFFICES ASSUME IndInv, SuspendCrank PROVE IndInv'
  OBVIOUS
<1> QED
  BY SettingsStay, Refused1, SettingsKeptInError, Zenon DEF IndInv, CallInv, SuspendCrank,
     Suspend, UnchangedInCoef

LEMMA BadScanInd == IndInv /\ BadScan => IndInv'
<1> SUFFICES ASSUME IndInv, BadScan PROVE IndInv'
  OBVIOUS
<1>1. /\ pc' = "error"
      /\ UNCHANGED << global_state, next_scanline, master, prep, main, call, done,
                      versions, refusals >>
  BY Zenon DEF BadScan, pipeline
<1>2. CASE /\ Idle /\ images < cinfo.plan.images /\ images' = images + 1
           /\ cinfo' = Optimizing(cinfo)
           /\ \E all \in BOOLEAN : SetOutput(OutputTo(WithTables(all), write_file_header))
  BY <1>1, <1>2, BadFirstScanInd, Zenon
<1>3. CASE More /\ UNCHANGED << cinfo, writer, reader, images >>
  BY <1>3, <1>1, SettingsStay, SettingsKeptInError, Zenon DEF IndInv, CallInv, More
<1> QED
  BY <1>2, <1>3, Zenon DEF BadScan

-----------------------------------------------------------------------------
(* The start of an image.                                                  *)

LEMMA ScansCounted == ASSUME NEW c, Accepted(c) PROVE num_scans(c) \in Nat \ {0}
BY DEF Accepted, ParameterSet, num_scans

LEMMA NewMaster ==
    ASSUME NEW c, Accepted(c), NEW transcode \in BOOLEAN
    PROVE  LET m == jinit_c_master_control(c, transcode)
           IN  /\ m \in MasterRecord /\ m.pass_number = 0 /\ m.scan_number = 0
               /\ m.pass_type = IF ~transcode THEN "main"
                                ELSE IF Optimizes(c) THEN "huff_opt" ELSE "output"
               /\ m.is_last_pass = FALSE
               /\ m.total_passes = IF Optimizes(c) THEN 2 * num_scans(c) ELSE num_scans(c)
<1> DEFINE total == IF Optimizes(c) THEN 2 * num_scans(c) ELSE num_scans(c)
           type == IF ~transcode THEN "main"
                   ELSE IF Optimizes(c) THEN "huff_opt" ELSE "output"
           m == jinit_c_master_control(c, transcode)
<1>1. total \in Nat
  BY ScansCounted
<1>2. type \in PassTypes
  BY DEF PassTypes
<1>3. m = [pass_type |-> type, pass_number |-> 0, scan_number |-> 0,
           call_pass_startup |-> FALSE, is_last_pass |-> FALSE, transcode |-> transcode,
           total_passes |-> total]
  BY Zenon DEF jinit_c_master_control
<1> HIDE DEF m, total, type
<1>4. m \in MasterRecord
  BY <1>1, <1>2, <1>3, SMT DEF MasterRecord
<1> QED
  BY <1>3, <1>4 DEF total, type, m

LEMMA MasterLast ==
    ASSUME NEW m \in MasterRecord
    PROVE  /\ IsLast(m) \in MasterRecord
           /\ IsLast(m).pass_type = m.pass_type /\ IsLast(m).pass_number = m.pass_number
           /\ IsLast(m).scan_number = m.scan_number
           /\ IsLast(m).total_passes = m.total_passes
           /\ IsLast(m).is_last_pass = (m.pass_number = m.total_passes - 1)
<1> DEFINE b == (m.pass_number = m.total_passes - 1)
           l == [m EXCEPT !.is_last_pass = b]
<1>1. b \in BOOLEAN
  OBVIOUS
<1>2. IsLast(m) = l
  BY Zenon DEF IsLast
<1> HIDE DEF b
<1>3. l \in MasterRecord
  BY <1>1, Zenon DEF MasterRecord
<1>4. /\ l.pass_type = m.pass_type /\ l.pass_number = m.pass_number
      /\ l.scan_number = m.scan_number /\ l.total_passes = m.total_passes
      /\ l.is_last_pass = b
  BY SMT DEF MasterRecord
<1> HIDE DEF l
<1> QED
  BY <1>2, <1>3, <1>4, Zenon DEF b

LEMMA MasterStartup ==
    ASSUME NEW m \in MasterRecord, NEW b \in BOOLEAN
    PROVE  SameCounters(m, [m EXCEPT !.call_pass_startup = b])
<1> DEFINE l == [m EXCEPT !.call_pass_startup = b]
<1> QED
  BY SMT DEF SameCounters, MasterRecord

LEMMA RowBegun ==
    ASSUME NEW c, Accepted(c), NEW n \in 0..num_scans(c) - 1,
           NEW i \in 0..total_iMCU_rows(c)
    PROVE  LET s == Setup(c, n)
               r == start_iMCU_row(c, s, i)
           IN  /\ r \in CoefRecord /\ r.iMCU_row_num = i
               /\ r.mcu_ctr = 0 /\ r.MCU_vert_offset = 0
               /\ r.MCU_rows_per_iMCU_row = RowsIn(c, s, i)
<1> DEFINE s == Setup(c, n)
           r == start_iMCU_row(c, s, i)
           high == RowsIn(c, s, i)
<1>1. total_iMCU_rows(c) \in Nat /\ high \in Nat
  BY ScanRows
<1>2. r.MCU_rows_per_iMCU_row = high
  BY Zenon DEF RowsIn
<1> DEFINE b == IF Len(s.cur) > 1 THEN 1
                ELSE IF i < total_iMCU_rows(c) - 1 THEN c.comps[s.cur[1].index].v
                ELSE s.cur[1].last_row_height
<1>3. r = [iMCU_row_num |-> i, mcu_ctr |-> 0, MCU_vert_offset |-> 0,
           MCU_rows_per_iMCU_row |-> b]
  BY Zenon DEF start_iMCU_row
<1> HIDE DEF b, r, high
<1>4. /\ r.iMCU_row_num = i /\ r.mcu_ctr = 0 /\ r.MCU_vert_offset = 0
      /\ r.MCU_rows_per_iMCU_row = b
  BY <1>3, SMT
<1> QED
  BY <1>2, <1>4, <1>3, <1>1 DEF r, high, CoefRecord

LEMMA SameImageTwice ==
    ASSUME NEW c, NEW d, NEW e, SameImage(c, d), SameImage(d, e) PROVE SameImage(c, e)
BY Zenon DEF SameImage

LEMMA StaysAccepted ==
    ASSUME NEW c, Accepted(c), NEW d \in ParameterSet, SameImage(c, d) PROVE Accepted(d)
BY SameSetup, Zenon DEF Accepted

LEMMA OptimizesOnce == ASSUME NEW c \in ParameterSet PROVE Optimizes(Optimizing(c)) = Optimizes(c)
BY MasterParameters DEF SameImage, Optimizes

\* The passes have not begun.
LEMMA NoScanWritten == << >> = [i \in 1..0 |-> i - 1]
  OBVIOUS

LEMMA ScanBegins ==
    ASSUME Accepted(cinfo'), NEW n \in 0..num_scans(cinfo') - 1, scan' = Setup(cinfo', n),
           coef' = start_iMCU_row(cinfo', scan', 0), done'.mcus = 0
    PROVE  /\ coef' \in CoefRecord /\ coef'.iMCU_row_num = 0
           /\ coef'.MCU_vert_offset = 0 /\ coef'.mcu_ctr = 0
           /\ 0 <= T' /\ 0 < T' /\ T' \in Nat
           /\ coef'.MCU_rows_per_iMCU_row = RowsIn(cinfo', scan', coef'.iMCU_row_num)
           /\ At(coef.MCU_vert_offset, coef.mcu_ctr)'
           /\ 0 < coef'.MCU_rows_per_iMCU_row /\ 0 < scan'.MCUs_per_row
           /\ done'.mcus = (RowsBefore(cinfo', scan', coef'.iMCU_row_num) + 0)
                             * scan'.MCUs_per_row + 0
<1> DEFINE s == Setup(cinfo', n)
           high == RowsIn(cinfo', s, 0)
           wide == s.MCUs_per_row
           rows == total_iMCU_rows(cinfo')
           B == RowsBefore(cinfo', s, 0)
<1>1. rows \in Nat \ {0} /\ wide \in Nat \ {0} /\ high \in Nat \ {0} /\ B = 0
  BY ScanRows
<1> DEFINE r == start_iMCU_row(cinfo', s, 0)
<1>2. /\ r \in CoefRecord /\ r.iMCU_row_num = 0 /\ r.mcu_ctr = 0 /\ r.MCU_vert_offset = 0
      /\ r.MCU_rows_per_iMCU_row = high
  BY <1>1, RowBegun
<1>3. coef' = r /\ scan' = s /\ T' = rows
  BY Zenon DEF T
<1>4. 0 <= rows /\ 0 < rows /\ rows \in Nat /\ 0 < high /\ 0 < wide /\ (B + 0) * wide + 0 = 0
  <2> HIDE DEF high, wide, rows, B
  <2> QED
    BY <1>1
<1> HIDE DEF high, wide, rows, B, r, s
<1>5. /\ coef' \in CoefRecord /\ coef'.iMCU_row_num = 0
      /\ coef'.MCU_vert_offset = 0 /\ coef'.mcu_ctr = 0
      /\ coef'.MCU_rows_per_iMCU_row = high /\ scan'.MCUs_per_row = wide
      /\ RowsBefore(cinfo', scan', coef'.iMCU_row_num) = B
      /\ RowsIn(cinfo', scan', coef'.iMCU_row_num) = high
  BY <1>2, <1>3, Zenon DEF high, B, wide
<1>6. /\ 0 < coef'.MCU_rows_per_iMCU_row /\ 0 < scan'.MCUs_per_row
      /\ done'.mcus = (RowsBefore(cinfo', scan', coef'.iMCU_row_num) + 0) * scan'.MCUs_per_row + 0
  BY <1>4, <1>5, Zenon
<1> QED
  BY <1>3, <1>4, <1>5, <1>6 DEF At

LEMMA RowsBegin ==
    ASSUME Accepted(cinfo'), prep' = start_pass_prep(cinfo'), NEW b,
           main' = [NewMain EXCEPT !.buffer = b], next_scanline' = 0, pc' = "app",
           coef'.iMCU_row_num = 0
    PROVE  PrepOK' /\ MainOK' /\ LinesInv'
<1> DEFINE h == cinfo'.image_height
           v == MaxV(cinfo')
           rows == total_iMCU_rows(cinfo')
<1>1. h \in Nat \ {0} /\ v \in Nat \ {0} /\ rows \in Nat \ {0} /\ DCTSIZE \in Nat \ {0}
  <2>1. h \in Nat \ {0} /\ v \in Nat \ {0}
    BY AcceptedIsSized, MaxSampling, Zenon DEF Sized
  <2>2. rows = jdiv_round_up(h, v * DCTSIZE)
    BY Zenon DEF total_iMCU_rows
  <2>3. rows \in Nat \ {0}
    <3> HIDE DEF h, v, rows
    <3> QED
      BY <2>1, <2>2, IMCURows
  <2> QED
    BY <2>1, <2>3, SetupAssumption
<1>2. H' = h /\ mv' = v /\ T' = rows
  BY Zenon DEF H, mv, T
<1> DEFINE buf == [r \in 0..BufRows(cinfo') - 1 |-> Nothing]
<1>3. prep' = [rows_to_go |-> h, next_buf_row |-> 0, this_row_group |-> 0,
               next_buf_stop |-> 2 * v, color_buf |-> buf]
  BY Zenon DEF start_pass_prep
<1> HIDE DEF h, v, rows, buf
<1>4. /\ DOMAIN prep' = PrepFields /\ prep'.rows_to_go = h /\ prep'.next_buf_row = 0
      /\ prep'.next_buf_stop = 2 * v
  BY <1>3, SMT DEF PrepFields
<1>5. /\ DOMAIN main' = MainFields /\ main'.cur_iMCU_row = 0 /\ main'.rowgroup_ctr = 0
      /\ main'.suspended = FALSE
  BY DEF NewMain, MainFields
<1>6. MainOK'
  <2>1. 0 \in 0..rows /\ 0 \in 0..DCTSIZE /\ FALSE \in BOOLEAN
    BY <1>1
  <2> QED
    BY <1>2, <1>5, <2>1, Zenon DEF MainOK
<1>7. In' = 0 /\ Avail' = 0 /\ Hack' = 0 /\ Taken' = h - h
  BY <1>2, <1>4, <1>5, Zenon DEF In, Avail, Hack, Taken
<1>8. RowsCounted'
  BY <1>1, <1>2, <1>5, <1>7 DEF RowsCounted
<1>9. NothingWaits'
  BY <1>1, <1>4, <1>5 DEF NothingWaits
<1>10. GroupsInv'
  BY <1>1, <1>2, <1>4, <1>5, <1>7 DEF GroupsInv, Groups, Gap
<1> QED
  BY <1>1, <1>4, <1>2, <1>6, <1>8, <1>9, <1>10 DEF LinesInv, PrepOK

LEMMA StartCompressInd ==
    ASSUME IndInv, NEW all \in BOOLEAN, jpeg_start_compress(all)
    PROVE  IndInv'
<1> DEFINE c == Optimizing(cinfo)
           s == Setup(cinfo, 0)
           m == jinit_c_master_control(c, FALSE)
           w == WithTables(all)
<1>1. /\ Idle /\ images < cinfo.plan.images /\ ~BadParameters(cinfo)
      /\ StartMainPass(c, s, w) /\ SetOutput(OutputTo(w, write_file_header))
      /\ next_scanline' = 0
      /\ global_state' = IF cinfo.raw_data_in THEN "RAW_OK" ELSE "SCANNING"
      /\ done' = NothingDone(all) /\ images' = images + 1
      /\ UNCHANGED << call, pc, versions, refusals >>
  BY Zenon DEF jpeg_start_compress
<1>2. /\ cinfo' = WithRestart(c, s) /\ scan' = s
      /\ master' = IsLast([m EXCEPT !.call_pass_startup = ~c.optimize_coding])
      /\ entropy' = start_pass_fdctmgr(w, c.optimize_coding)
      /\ coef' = start_iMCU_row(c, s, 0)
      /\ ~c.raw_data_in =>
            prep' = start_pass_prep(c) /\ main' = [NewMain EXCEPT !.buffer = EmptyBuffer(c)]
  BY <1>1, Zenon DEF StartMainPass
<1>3. /\ cinfo \in ParameterSet /\ Accepted(cinfo) /\ call = Freed /\ pc = "app"
      /\ versions \in 0..MaxVersions /\ refusals \in 0..MaxRefusals
  BY <1>1, AtRest, Zenon DEF Accepted
<1>4. c \in ParameterSet /\ SameImage(cinfo, c) /\ Accepted(c) /\ c.plan = cinfo.plan
      /\ c.raw_data_in = cinfo.raw_data_in /\ c.need_context_rows = cinfo.need_context_rows
      /\ c.optimize_coding = Optimizes(cinfo) /\ Optimizes(c) = Optimizes(cinfo)
  BY <1>3, MasterParameters, StaysAccepted, OptimizesOnce, Zenon
<1> HIDE DEF c
<1>5. num_scans(cinfo) \in Nat \ {0} /\ 0 \in 0..num_scans(cinfo) - 1
  BY <1>3, ScansCounted
<1>6. s.MCUs_per_row \in Nat
  BY <1>3, <1>5, ScanRows
<1>7. /\ cinfo' \in ParameterSet /\ SameImage(c, cinfo') /\ SameImage(cinfo, cinfo')
      /\ Accepted(cinfo') /\ cinfo'.plan = cinfo.plan
      /\ cinfo'.raw_data_in = cinfo.raw_data_in
      /\ cinfo'.optimize_coding = Optimizes(c)
      /\ cinfo'.image_height = c.image_height /\ cinfo'.need_context_rows = c.need_context_rows
  <2> HIDE DEF s
  <2>1. cinfo' \in ParameterSet /\ SameImage(c, cinfo') /\ cinfo'.plan = c.plan
        /\ cinfo'.raw_data_in = c.raw_data_in /\ cinfo'.optimize_coding = c.optimize_coding
        /\ cinfo'.need_context_rows = c.need_context_rows
    BY <1>2, <1>4, <1>6, RestartParameters, Zenon
  <2> QED
    BY <1>4, <2>1, SameImageTwice, StaysAccepted, Zenon DEF SameImage
<1>8. /\ num_scans(cinfo') = num_scans(cinfo) /\ num_scans(c) = num_scans(cinfo)
      /\ Setup(cinfo', 0) = s /\ start_iMCU_row(cinfo', s, 0) = start_iMCU_row(c, s, 0)
      /\ MaxV(cinfo') = MaxV(c)
  BY <1>4, SameSetup, <1>7
<1>9. /\ m \in MasterRecord /\ m.pass_number = 0 /\ m.scan_number = 0 /\ m.pass_type = "main"
      /\ m.total_passes = IF Optimizes(c) THEN 2 * num_scans(cinfo) ELSE num_scans(cinfo)
  BY <1>4, <1>8, NewMaster, Zenon
<1> HIDE DEF s, m, w
<1>10. /\ master' \in MasterRecord /\ master'.pass_number = 0 /\ master'.scan_number = 0
       /\ master'.pass_type = "main"
       /\ master'.total_passes = IF Optimizes(c) THEN 2 * num_scans(cinfo) ELSE num_scans(cinfo)
       /\ master'.is_last_pass = (master'.pass_number = master'.total_passes - 1)
  <2> DEFINE b == ~c.optimize_coding
             l == [m EXCEPT !.call_pass_startup = b]
  <2>1. b \in BOOLEAN
    OBVIOUS
  <2> HIDE DEF b
  <2>2. SameCounters(m, l)
    BY <1>9, <2>1, MasterStartup
  <2>3. master' = IsLast(l)
    BY <1>2, Zenon DEF b
  <2> HIDE DEF l
  <2>4. /\ l \in MasterRecord /\ l.pass_type = m.pass_type /\ l.pass_number = m.pass_number
        /\ l.scan_number = m.scan_number /\ l.total_passes = m.total_passes
    BY <2>2, Zenon DEF SameCounters
  <2> QED
    BY <1>9, <2>3, <2>4, MasterLast, ZenonT(40)
<1>11. /\ DOMAIN done' = DoneFields /\ done'.mcus = 0 /\ done'.mcus \in Nat
       /\ done'.scans = << >>
  BY <1>1, SMT DEF NothingDone, DoneFields
<1>12. OutOK(writer', reader')
  BY <1>1, AtRest, SuppressNothing, PlainHeaders, SetOutputOK DEF w
<1>13. images' \in 0..cinfo'.plan.images
  BY <1>1, <1>7, OneMoreImage
<1>14. global_state' \in {"SCANNING", "RAW_OK"} /\ FromApplication' /\ pc' = "app"
  BY <1>1, <1>3, SMT DEF FromApplication
<1>15. /\ coef' \in CoefRecord /\ coef'.iMCU_row_num = 0 /\ 0 <= T' /\ 0 < T'
       /\ coef'.MCU_rows_per_iMCU_row = RowsIn(cinfo', scan', coef'.iMCU_row_num)
       /\ At(coef.MCU_vert_offset, coef.mcu_ctr)'
  BY <1>2, <1>5, <1>8, <1>7, <1>11, ScanBegins
<1>16. global_state' = "SCANNING" => PrepOK' /\ MainOK' /\ LinesInv'
  <2> SUFFICES ASSUME global_state' = "SCANNING" PROVE PrepOK' /\ MainOK' /\ LinesInv'
    OBVIOUS
  <2>1. ~c.raw_data_in
    BY <1>1, <1>4
  <2>2. prep' = start_pass_prep(cinfo')
    BY <1>2, <1>7, <1>8, <2>1, Zenon DEF start_pass_prep, BufRows
  <2> QED
    BY <1>1, <1>2, <1>7, <1>14, <1>15, <2>1, <2>2, RowsBegin
<1>17. pc' # "main" /\ pc' # "mcu" /\ pc' # "rowdone" /\ pc' # "finish_pass" /\ pc' # "passes"
  BY <1>14, SMT
<1>18. TypesInv'
  BY <1>1, <1>14, <1>3, <1>7, <1>10, <1>11, <1>12, <1>13, <1>16 DEF Accepted, TypesInv,
     Active
<1>19. PassCounted'
  BY <1>5, <1>7, <1>8, <1>10 DEF Opt, N, PassCounted
<1>20. PassInv'
  <2>1. entropy'.gather = c.optimize_coding
    BY <1>2, SMT DEF start_pass_fdctmgr
  <2>2. entropy'.gather = (Opt' /\ master'.pass_type # "output")
    BY <1>4, <1>7, <1>10, <2>1 DEF Opt, Optimizes
  <2>3. 0 < N' /\ ScansWritten' /\ scan' = Setup(cinfo', 0)
    <3>1. 0 < num_scans(cinfo)
      BY <1>5
    <3> QED
      BY <1>2, <1>8, <1>10, <1>11, <3>1, NoScanWritten, Zenon DEF N, ScansWritten
  <2> QED
    BY <1>10, <1>14, <1>17, <1>19, <2>2, <2>3, Zenon DEF PassInv
<1>21. MCUInv'
  BY <1>14, <1>15, <1>17, Zenon DEF MCUInv
<1>22. RawInv'
  <2>1. 0 = 0 * (mv * DCTSIZE)'
    <3> DEFINE v == mv'
    <3> HIDE DEF v
    <3>1. 0 = 0 * (v * DCTSIZE)
      BY <1>7, AcceptedIsSized, MaxSampling, SetupAssumption DEF v, mv
    <3> QED
      BY <3>1, Zenon DEF v
  <2> QED
    BY <1>1, <1>15, <1>17, <2>1, Zenon DEF RawInv
<1> QED
  BY <1>16, <1>18, <1>20, <1>21, <1>14, <1>17, <1>22, Zenon DEF IndInv, LinesInv,
     TakingLines, CallInv

LEMMA WriteCoefficientsInd == IndInv /\ jpeg_write_coefficients => IndInv'
<1> SUFFICES ASSUME IndInv, jpeg_write_coefficients PROVE IndInv'
  OBVIOUS
<1> DEFINE c == Optimizing(cinfo)
           m == jinit_c_master_control(c, TRUE)
<1>1. /\ Idle /\ images < cinfo.plan.images /\ ~BadParameters(cinfo)
      /\ cinfo' = c /\ master' = m
      /\ SetOutput(OutputTo(WithTables(TRUE), write_file_header))
      /\ next_scanline' = 0 /\ global_state' = "WRCOEFS"
      /\ done' = NothingDone(TRUE) /\ images' = images + 1
      /\ UNCHANGED << call, pc, versions, refusals >>
  BY Zenon DEF jpeg_write_coefficients
<1>2. /\ cinfo \in ParameterSet /\ Accepted(cinfo) /\ call = Freed /\ pc = "app"
      /\ versions \in 0..MaxVersions /\ refusals \in 0..MaxRefusals
  BY <1>1, AtRest, Zenon DEF Accepted
<1>3. c \in ParameterSet /\ SameImage(cinfo, c) /\ Accepted(c) /\ c.plan = cinfo.plan
      /\ c.optimize_coding = Optimizes(cinfo) /\ Optimizes(c) = Optimizes(cinfo)
  BY <1>2, MasterParameters, StaysAccepted, OptimizesOnce, Zenon
<1> HIDE DEF c
<1>4. /\ m \in MasterRecord /\ m.pass_number = 0 /\ m.scan_number = 0
      /\ m.pass_type = (IF Optimizes(c) THEN "huff_opt" ELSE "output")
      /\ m.is_last_pass = FALSE
      /\ m.total_passes = IF Optimizes(c) THEN 2 * num_scans(c) ELSE num_scans(c)
  BY <1>3, NewMaster, Zenon
<1> HIDE DEF m
<1>5. /\ DOMAIN done' = DoneFields /\ done'.mcus = 0 /\ done'.mcus \in Nat
      /\ done'.scans = << >>
  BY <1>1, SMT DEF NothingDone, DoneFields
<1>6. OutOK(writer', reader')
  BY <1>1, AtRest, SuppressNothing, PlainHeaders, SetOutputOK
<1>7. images' \in 0..cinfo'.plan.images
  BY <1>1, <1>3, OneMoreImage
<1>8. /\ global_state' # "SCANNING" /\ global_state' # "RAW_OK" /\ ~FromApplication'
      /\ pc' = "app" /\ pc' # "main" /\ pc' # "mcu" /\ pc' # "rowdone"
      /\ pc' # "finish_pass" /\ pc' # "passes"
  BY <1>1, <1>2, SMT DEF FromApplication
<1>9. TypesInv'
  BY <1>1, <1>2, <1>3, <1>4, <1>5, <1>6, <1>7, <1>8 DEF Accepted, TypesInv, Active
<1>10. PassCounted'
  <2>1. 0 \in 0..num_scans(c) /\ 0 = 2 * 0 /\ Optimizes(c) \in BOOLEAN
    BY <1>3, ScansCounted DEF Optimizes
  <2>2. /\ Optimizes(c) => master'.pass_type = "huff_opt" /\ master'.pass_type # "output"
        /\ ~Optimizes(c) => master'.pass_type = "output" /\ master'.pass_type # "huff_opt"
        /\ master'.pass_type # "main"
    BY <1>1, <1>4, SMT
  <2> QED
    BY <1>1, <1>4, <1>3, <2>1, <2>2, Zenon DEF PassCounted, Opt, N
<1>11. PassInv'
  BY <1>1, <1>4, <1>5, NoScanWritten, <1>8, <1>10 DEF ScansWritten, PassInv, InPass
<1> QED
  BY <1>9, <1>11, <1>8, Zenon DEF IndInv, MCUInv, CallInv, LinesInv, TakingLines, RawInv

-----------------------------------------------------------------------------
(* The end of the data, and of each pass.                                  *)

\* TakenIsEncoded: what the application is told was taken has been encoded.
LEMMA TakenEncoded ==
    ASSUME IndInv, pc = "app", global_state \in {"SCANNING", "RAW_OK"},
           next_scanline >= cinfo.image_height
    PROVE  done.mcus = NumMCUs(scan) /\ coef.iMCU_row_num = T
<1> DEFINE h == cinfo.image_height
           v == MaxV(cinfo)
           rows == total_iMCU_rows(cinfo)
<1>1. TypesInv /\ Active /\ FromApplication /\ Accepted(cinfo) /\ next_scanline \in Nat
  BY SettingsStay DEF Active, FromApplication, IndInv
<1>2. h \in Nat \ {0} /\ v \in Nat \ {0} /\ rows \in Nat \ {0} /\ DCTSIZE \in Nat \ {0}
      /\ \A k \in Nat : rows <= k <=> h <= (v * DCTSIZE) * k
  <2>1. h \in Nat \ {0} /\ v \in Nat \ {0}
    BY <1>1, AcceptedIsSized, MaxSampling, Zenon DEF Sized
  <2>2. rows = jdiv_round_up(h, v * DCTSIZE)
    BY Zenon DEF total_iMCU_rows
  <2> HIDE DEF h, v, rows
  <2> QED
    BY <2>1, <2>2, IMCURows, SetupAssumption
<1>3. H = h /\ mv = v /\ T = rows
  BY Zenon DEF H, mv, T
<1>4. coef.iMCU_row_num \in Nat /\ coef.iMCU_row_num <= rows
  BY <1>1, <1>3 DEF IndInv, MCUInv, CoefRecord
<1> HIDE DEF h, v, rows
<1>5. coef.iMCU_row_num = rows
  <2>1. CASE global_state = "SCANNING"
    <3>1. RowsCounted /\ NothingWaits /\ GroupsInv /\ PrepOK /\ MainOK
      BY <1>1, <2>1, SettingsStay, Zenon DEF IndInv, LinesInv, TakingLines
    <3>2. /\ Taken = next_scanline + 0 + Hack /\ coef.iMCU_row_num = main.cur_iMCU_row
      BY <3>1 DEF RowsCounted, In
    <3>3. prep.rows_to_go \in 0..h /\ Taken = h - prep.rows_to_go
      BY <1>3, <3>1, Zenon DEF PrepOK, Taken
    <3>4. main.suspended \in BOOLEAN /\ (main.suspended => Hack = 1) /\ (~main.suspended => Hack = 0)
      BY <3>1, Zenon DEF MainOK, Hack
    <3>5. next_scanline >= h
      BY DEF h
    <3>6. ~main.suspended
      BY <1>1, <1>2, <3>2, <3>3, <3>5, <3>4
    <3> QED
      BY <1>3, <3>1, <3>2, <3>6, <1>1, <1>2, <3>3, <3>4, <3>5 DEF NothingWaits
  <2>2. CASE global_state = "RAW_OK"
    BY <1>3, <2>2, <1>2, <1>4, <1>1 DEF IndInv, RawInv, h
  <2> QED
    BY <2>1, <2>2
<1> QED
  BY <1>2, <1>1, <1>3, <1>5 DEF IndInv, MCUInv

LEMMA NewCall ==
    ASSUME NEW by \in {"lines", "raw", "crank"}, NEW avail \in Nat
    PROVE  LET c == Call(by, avail)
           IN  /\ c \in CallRecord /\ c.in_row_ctr <= c.in_rows_avail /\ c # Freed
               /\ c.by = by /\ c.in_row_ctr = 0 /\ c.in_rows_avail = avail
<1> DEFINE c == Call(by, avail)
<1>1. c = [by |-> by, in_row_ctr |-> 0, in_rows_avail |-> avail, yoffset |-> 0, MCU_col_num |-> 0]
  BY Zenon DEF Call
<1> HIDE DEF c
<1>2. c.by = by /\ c.in_row_ctr = 0 /\ c.in_rows_avail = avail
  BY <1>1, SMT
<1>3. c # Freed
  BY <1>1, SMT DEF Freed
<1> QED
  BY <1>2, <1>1, <1>3 DEF c, CallRecord

LEMMA FinishCompressInd == IndInv /\ jpeg_finish_compress => IndInv'
<1> SUFFICES ASSUME IndInv, jpeg_finish_compress PROVE IndInv'
  OBVIOUS
<1>1. /\ pc = "app" /\ global_state # "START" /\ Active
      /\ call' = Call("crank", 0)
      /\ UNCHANGED << cinfo, global_state, next_scanline, master, writer, reader, done,
                      images, versions, refusals, prep, main, coef, scan, entropy >>
  BY Zenon DEF jpeg_finish_compress, pipeline, counts, Active
<1>2. call' \in CallRecord /\ call'.in_row_ctr <= call'.in_rows_avail /\ call' # Freed
      /\ call'.by = "crank"
  BY <1>1, NewCall
<1>3. TypesInv
  BY Zenon DEF IndInv
<1>4. CASE pc' = "error"
  BY <1>1, <1>2, <1>3, <1>4, SettingsStay, SettingsKeptInError, Zenon
<1>5. ASSUME pc' \in {"passes", "finish_pass"} PROVE TypesInv'
  BY <1>5, <1>1, BuffersStay, <1>2, <1>3, SettingsStay, TypesStay
<1>6. PassCounted /\ PassCounted'
  BY <1>1, <1>3, SettingsStay, CountedStays, Zenon DEF SameCounters, IndInv, PassInv
<1>7. CASE global_state = "WRCOEFS"
  <2>1. /\ pc' = "passes" /\ pc' # "app" /\ pc' # "main" /\ pc' # "mcu" /\ pc' # "rowdone"
        /\ pc' # "finish_pass" /\ ~FromApplication /\ ~FromApplication'
        /\ global_state' # "RAW_OK" /\ global_state' # "SCANNING"
    BY <1>1, <1>7, SMT DEF jpeg_finish_compress, FromApplication
  <2>2. /\ master.pass_type # "main" /\ ~master.is_last_pass
        /\ master.scan_number = 0 /\ master.pass_number = 0 /\ ScansWritten
    BY <1>1, <2>1, Zenon DEF IndInv, PassInv
  <2>3. 0 < N
    BY <1>1, <1>3, SettingsStay, ScansCounted DEF N
  <2>4. PassInv'
    BY <1>1, <1>6, <2>1, <2>2, <2>3 DEF PassInv, InPass, N, ScansWritten, PassCounted
  <2> QED
    BY <1>5, <2>1, <2>4, <1>1, <1>2, Zenon DEF IndInv, MCUInv, LinesInv, TakingLines,
       RawInv, CallInv, Active
<1>8. CASE global_state # "WRCOEFS" /\ pc' # "error"
  <2>1. /\ global_state \in {"SCANNING", "RAW_OK"} /\ FromApplication /\ InPass
    BY <1>1, <1>3, <1>8 DEF TypesInv, FromApplication, InPass
  <2>2. /\ pc' = "finish_pass" /\ ~ next_scanline < cinfo.image_height
        /\ pc' # "app" /\ pc' # "main" /\ pc' # "mcu" /\ pc' # "rowdone" /\ pc' # "passes"
        /\ call'.by # "lines" /\ call'.by # "raw"
    BY <1>1, <1>2, <1>8, SMT DEF jpeg_finish_compress
  <2>3. MCUInv' /\ LinesInv' /\ RawInv'
    BY <2>2, <1>1, <2>1, <1>3, SettingsStay, ParameterTypes, TakenEncoded DEF MCUInv,
       LinesInv, TakingLines, RawInv
  <2> QED
    BY <1>5, <2>2, <1>1, <1>6, <2>1, <2>3, <1>2, Zenon DEF IndInv, CallInv, Active, N,
       Opt, ScansWritten, PassInv
<1> QED
  BY <1>4, <1>7, <1>8

LEMMA NextPassIs ==
    ASSUME NEW m \in MasterRecord, NEW opt \in BOOLEAN
    PROVE  LET n == NextPass(m, opt)
           IN  /\ n \in MasterRecord
               /\ n.pass_type = IF m.pass_type = "output" /\ opt THEN "huff_opt" ELSE "output"
               /\ n.scan_number = IF m.pass_type = "output" \/ (m.pass_type = "main" /\ ~opt)
                                  THEN m.scan_number + 1 ELSE m.scan_number
               /\ n.pass_number = m.pass_number + 1
               /\ n.total_passes = m.total_passes /\ n.is_last_pass = m.is_last_pass
<1> DEFINE type == IF m.pass_type = "output" /\ opt THEN "huff_opt" ELSE "output"
           num == IF m.pass_type = "output" \/ (m.pass_type = "main" /\ ~opt)
                  THEN m.scan_number + 1 ELSE m.scan_number
           n == [m EXCEPT !.pass_type = type, !.scan_number = num, !.pass_number = @ + 1]
<1>1. type \in PassTypes /\ num \in Nat /\ m.pass_number + 1 \in Nat
  BY DEF PassTypes, MasterRecord
<1>2. NextPass(m, opt) = n
  BY Zenon DEF NextPass
<1> HIDE DEF type, num
<1>3. n \in MasterRecord
  BY <1>1, Zenon DEF MasterRecord
<1>4. /\ n.pass_type = type /\ n.scan_number = num /\ n.pass_number = m.pass_number + 1
      /\ n.total_passes = m.total_passes /\ n.is_last_pass = m.is_last_pass
  BY SMT DEF MasterRecord
<1> HIDE DEF n
<1> QED
  BY <1>2, <1>3, <1>4, Zenon DEF type, num

LEMMA GatheredOK ==
    ASSUME OutOK(writer, reader), writer' = FinishGather, reader' = reader
    PROVE  OutOK(writer', reader')
<1> DEFINE made == [value |-> Optimized(images, master.scan_number), sent_table |-> FALSE]
           inScan == ToSet(TablesOfScan(cinfo, scan))
           tbl == [t \in DOMAIN writer.tbl |-> IF t \in inScan THEN made ELSE writer.tbl[t]]
<1>1. writer' = [writer EXCEPT !.tbl = tbl]
  BY Zenon DEF FinishGather
<1>2. DOMAIN made = {"value", "sent_table"} /\ made.sent_table = FALSE
  BY SMT
<1>3. DOMAIN writer.tbl = TableNames
      /\ \A t \in TableNames :
            /\ DOMAIN writer.tbl[t] = {"value", "sent_table"}
            /\ writer.tbl[t].sent_table \in BOOLEAN
            /\ writer.tbl[t].sent_table => reader.tbl[t] = writer.tbl[t].value
  BY Zenon DEF OutOK
<1> HIDE DEF made, inScan
<1>4. DOMAIN tbl = TableNames /\ \A t \in TableNames : tbl[t] = made \/ tbl[t] = writer.tbl[t]
  BY <1>3, Zenon
<1> HIDE DEF tbl
<1>5. \A t \in TableNames : /\ DOMAIN tbl[t] = {"value", "sent_table"}
                            /\ tbl[t].sent_table \in BOOLEAN
                            /\ tbl[t].sent_table => reader.tbl[t] = tbl[t].value
  <2> SUFFICES ASSUME NEW t \in TableNames
               PROVE  /\ DOMAIN tbl[t] = {"value", "sent_table"}
                      /\ tbl[t].sent_table \in BOOLEAN
                      /\ tbl[t].sent_table => reader.tbl[t] = tbl[t].value
    OBVIOUS
  <2>1. CASE tbl[t] = made
    BY <1>2, <2>1, Zenon
  <2>2. CASE tbl[t] = writer.tbl[t]
    BY <1>3, <2>2, Zenon
  <2> QED
    BY <1>4, <2>1, <2>2
<1> QED
  BY <1>1, <1>4, <1>5, NewTables

LEMMA ScanAppended ==
    ASSUME NEW n \in Nat
    PROVE  Append([i \in 1..n |-> i - 1], n) = [i \in 1..n + 1 |-> i - 1]
<1> DEFINE a == [i \in 1..n |-> i - 1]
           b == [i \in 1..n + 1 |-> i - 1]
<1>1. a \in Seq(Int) /\ Len(a) = n /\ \A i \in 1..n : a[i] = i - 1
  OBVIOUS
<1>2. b \in Seq(Int) /\ Len(b) = n + 1 /\ \A i \in 1..n + 1 : b[i] = i - 1
  OBVIOUS
<1> HIDE DEF a, b
<1>3. /\ Append(a, n) \in Seq(Int) /\ Len(Append(a, n)) = n + 1
      /\ \A i \in 1..n : Append(a, n)[i] = a[i]
      /\ Append(a, n)[n + 1] = n
  BY <1>1
<1>4. \A i \in 1..n + 1 : Append(a, n)[i] = i - 1
  <2> SUFFICES ASSUME NEW i \in 1..n + 1 PROVE Append(a, n)[i] = i - 1
    OBVIOUS
  <2>1. i \in 1..n \/ i = n + 1
    OBVIOUS
  <2>2. CASE i \in 1..n
    BY <1>1, <1>3, <2>2, Zenon
  <2>3. CASE i = n + 1
    BY <2>3, <1>3
  <2> QED
    BY <2>1, <2>2, <2>3
<1>5. \A p, q \in Seq(Int) : Len(p) = Len(q) /\ (\A i \in 1..Len(p) : p[i] = q[i]) => p = q
  BY SMTT(30)
<1> QED
  BY <1>2, <1>3, <1>4, <1>5 DEF a, b

LEMMA FinishPassInd == IndInv /\ finish_pass_master => IndInv'
<1> SUFFICES ASSUME IndInv, finish_pass_master PROVE IndInv'
  OBVIOUS
<1> DEFINE n == NextPass(master, Opt)
           sn == master.scan_number
           pn == master.pass_number
<1>1. /\ pc = "finish_pass" /\ pc' = "passes" /\ master' = n
      /\ IF entropy.gather THEN writer' = FinishGather /\ UNCHANGED done
         ELSE done' = [done EXCEPT !.scans = Append(@, sn)] /\ UNCHANGED writer
      /\ UNCHANGED << cinfo, global_state, next_scanline, call, reader, images, versions,
                      refusals, prep, main, scan >>
  BY Zenon DEF finish_pass_master, pipeline, counts, Opt
<1>2. TypesInv /\ Active /\ call # Freed /\ call.by = "crank" /\ InPass
  BY <1>1, Zenon DEF IndInv, CallInv, InPass
<1>3. /\ master \in MasterRecord /\ PassCounted
      /\ master.is_last_pass = (pn = master.total_passes - 1)
      /\ sn < N /\ ScansWritten
      /\ entropy.gather = (Opt /\ master.pass_type # "output")
      /\ scan = Setup(cinfo, sn)
  BY <1>2, SettingsStay, Zenon DEF IndInv, PassInv
<1>4. Opt \in BOOLEAN /\ N \in Nat \ {0}
  BY <1>2, SettingsStay, ParameterTypes, ScansCounted DEF Opt, N
<1>5. /\ n \in MasterRecord
      /\ n.pass_type = IF master.pass_type = "output" /\ Opt THEN "huff_opt" ELSE "output"
      /\ n.scan_number = IF master.pass_type = "output" \/ (master.pass_type = "main" /\ ~Opt)
                         THEN sn + 1 ELSE sn
      /\ n.pass_number = pn + 1
      /\ n.total_passes = master.total_passes /\ n.is_last_pass = master.is_last_pass
  BY <1>3, <1>4, NextPassIs
<1> HIDE DEF n
<1>6. sn \in Nat /\ pn \in Nat /\ master.pass_type \in PassTypes
  BY <1>3 DEF MasterRecord
<1>7. OutOK(writer', reader')
  BY <1>1, <1>2, SettingsStay, GatheredOK, Zenon
<1>8. TypesInv'
  BY <1>1, BuffersStay, <1>2, <1>5, <1>7, SettingsStay, TypesStay DEF DoneFields
<1>9. Opt' = Opt /\ N' = N
  BY <1>1, Zenon DEF Opt, N
<1>10. /\ pc' # "app" /\ pc' # "main" /\ pc' # "mcu" /\ pc' # "rowdone" /\ pc' # "finish_pass"
       /\ "output" # "main" /\ "huff_opt" # "main" /\ "output" # "huff_opt"
  BY <1>1, SMT
<1> DEFINE last == (pn = master.total_passes - 1)
\* The passes of a scan, one after the other.
<1>11. CASE master.pass_type = "main"
  <2>1. pn = 0 /\ sn = 0 /\ n.pass_type = "output"
    BY <1>3, <1>5, <1>10, <1>11, Zenon DEF PassCounted
  <2>2. CASE Opt
    <3>1. n.scan_number = 0 /\ n.pass_number = 1 /\ master.total_passes = 2 * N
      BY <1>3, <1>5, <1>10, <1>11, <2>1, <2>2 DEF PassCounted
    <3>2. PassCounted'
      BY <1>4, <1>1, <1>3, <1>5, <1>9, <1>10, <2>1, <2>2, <3>1 DEF PassCounted
    <3>3. ~last
      BY <1>4, <2>1, <3>1
    <3>4. ScansWritten' /\ scan' = Setup(cinfo', 0) /\ 0 < N
      BY <1>3, <1>10, <1>11, <2>2, <1>4, <1>1, <2>1, <3>1 DEF ScansWritten
    <3> QED
      <4>1. PassInv'
        BY <1>1, <1>3, <1>5, <1>9, <1>10, <2>1, <3>1, <3>2, <3>3, <3>4, Zenon DEF PassInv, InPass
      <4> QED
        BY <1>8, <4>1, <1>1, <1>2, <1>10, Zenon DEF IndInv, MCUInv, CallInv, LinesInv,
           TakingLines, RawInv, Active
  <2>3. CASE ~Opt
    <3>1. n.scan_number = 1 /\ n.pass_number = 1 /\ master.total_passes = N
      BY <1>3, <1>5, <1>10, <1>11, <2>1, <2>3 DEF PassCounted
    <3>2. PassCounted'
      BY <1>4, <1>1, <1>3, <1>5, <1>9, <1>10, <2>1, <2>3, <3>1 DEF PassCounted
    <3>3. (last => 1 = N) /\ (~last => 1 < N)
      BY <1>4, <2>1, <3>1
    <3>4. ScansWritten'
      <4>1. done' = [done EXCEPT !.scans = Append(@, sn)] /\ DOMAIN done = DoneFields
        BY <1>1, <1>2, <1>3, <2>3, SettingsStay, Zenon
      <4>2. Append([i \in 1..0 |-> i - 1], 0) = [i \in 1..1 |-> i - 1]
        BY ScanAppended
      <4> QED
        BY <1>1, <2>1, <3>1, <4>1, <1>3, <4>2 DEF ScansWritten, DoneFields
    <3> QED
      <4>1. PassInv'
        BY <1>1, <1>3, <1>5, <1>9, <1>10, <2>1, <2>3, <3>1, <3>2, <3>3, <3>4, Zenon DEF PassInv, InPass
      <4> QED
        BY <1>8, <4>1, <1>1, <1>2, <1>10, Zenon DEF IndInv, MCUInv, CallInv, LinesInv,
           TakingLines, RawInv, Active
  <2> QED
    BY <1>4, <2>2, <2>3
<1>12. CASE master.pass_type = "huff_opt"
  <2>1. Opt /\ pn = 2 * sn /\ n.pass_type = "output" /\ n.scan_number = sn
        /\ n.pass_number = pn + 1 /\ master.total_passes = 2 * N
    BY <1>3, <1>5, <1>10, <1>12, Zenon DEF PassCounted
  <2>2. pn + 1 = 2 * sn + 1 /\ ~last
    BY <1>4, <1>6, <2>1
  <2>3. ScansWritten'
    BY <1>3, <1>10, <1>12, <2>1, <1>1, Zenon DEF ScansWritten
  <2>4. PassInv'
    BY <1>1, <1>3, <1>5, <1>9, <1>10, <2>1, <2>2, <2>3, Zenon DEF PassInv, InPass,
       PassCounted
  <2> QED
    BY <1>8, <2>4, <1>1, <1>2, <1>10, Zenon DEF IndInv, MCUInv, CallInv, LinesInv,
       TakingLines, RawInv, Active
<1>13. CASE master.pass_type = "output"
  <2>1. /\ n.scan_number = sn + 1 /\ n.pass_number = pn + 1
        /\ n.pass_type = IF Opt THEN "huff_opt" ELSE "output"
    BY <1>5, <1>13, Zenon
  <2>2. /\ Opt => pn = 2 * sn + 1 /\ master.total_passes = 2 * N
        /\ ~Opt => pn = sn /\ master.total_passes = N
    BY <1>3, <1>13, Zenon DEF PassCounted
  <2>3. /\ sn + 1 \in 0..N /\ (last => sn + 1 = N) /\ (~last => sn + 1 < N)
        /\ Opt => pn + 1 = 2 * (sn + 1)
        /\ ~Opt => pn + 1 = sn + 1
    BY <2>2, <1>3, <1>4, <1>6
  <2>4. PassCounted'
    BY <1>1, <1>3, <1>4, <1>5, <1>9, <1>10, <2>1, <2>2, <2>3, Zenon DEF PassCounted
  <2>5. ScansWritten'
    <3>1. done' = [done EXCEPT !.scans = Append(@, sn)] /\ DOMAIN done = DoneFields
      BY <1>1, <1>2, <1>3, <1>13, SettingsStay, Zenon
    <3>2. done'.scans = Append(done.scans, sn)
      BY <3>1, SMT DEF DoneFields
    <3>3. done.scans = [i \in 1..sn |-> i - 1]
      BY <1>3, Zenon DEF ScansWritten
    <3>4. Append([i \in 1..sn |-> i - 1], sn) = [i \in 1..sn + 1 |-> i - 1]
      BY <1>6, ScanAppended, Zenon
    <3> QED
      BY <1>1, <2>1, <3>2, <3>3, <3>4, Zenon DEF ScansWritten
  <2>6. PassInv'
    <3>1. ~(Opt' /\ master'.pass_type = "output") /\ master'.pass_type # "main"
      BY <1>1, <1>4, <1>9, <1>10, <2>1, Zenon
    <3> QED
      BY <1>1, <1>3, <1>5, <1>9, <1>10, <2>1, <2>3, <2>4, <2>5, <3>1, Zenon DEF PassInv, InPass
  <2> QED
    BY <1>8, <2>6, <1>1, <1>2, <1>10, Zenon DEF IndInv, MCUInv, CallInv, LinesInv,
       TakingLines, RawInv, Active
<1> QED
  BY <1>6, <1>11, <1>12, <1>13 DEF PassTypes

-----------------------------------------------------------------------------
(* The start of a later pass.                                              *)

LEMMA NextScanIs ==
    ASSUME IndInv, More
    PROVE  /\ TypesInv /\ Active /\ Accepted(cinfo) /\ PassCounted /\ call # Freed
           /\ call \in CallRecord /\ call.by = "crank" /\ call.in_row_ctr <= call.in_rows_avail
           /\ master.scan_number \in 0..num_scans(cinfo) - 1 /\ master.scan_number < N
           /\ ScansWritten /\ master.pass_type # "main"
           /\ Opt /\ master.pass_type = "output" => scan = Setup(cinfo, master.scan_number)
BY SettingsStay, ScansCounted DEF IndInv, CallInv, PassInv, More, PassCounted, N

LEMMA CallAtStart ==
    ASSUME call \in CallRecord, call' = [call EXCEPT !.yoffset = 0, !.MCU_col_num = 0]
    PROVE  /\ call' \in CallRecord /\ call' # Freed /\ call'.by = call.by
           /\ call'.in_row_ctr = call.in_row_ctr /\ call'.in_rows_avail = call.in_rows_avail
           /\ call'.yoffset = 0 /\ call'.MCU_col_num = 0
<1>1. /\ call'.by = call.by /\ call'.in_row_ctr = call.in_row_ctr
      /\ call'.in_rows_avail = call.in_rows_avail
      /\ call'.yoffset = 0 /\ call'.MCU_col_num = 0
      /\ DOMAIN call' = {"by", "in_row_ctr", "in_rows_avail", "yoffset", "MCU_col_num"}
  BY SMT DEF CallRecord
<1>2. call' # Freed
  <2>1. DOMAIN Freed = {}
    BY DEF Freed
  <2>2. "by" \in DOMAIN call'
    BY <1>1, Zenon
  <2> QED
    BY <2>1, <2>2, Zenon
<1> QED
  BY <1>1, <1>2 DEF CallRecord

LEMMA BuffersSame ==
    ASSUME SameImage(cinfo, cinfo'), cinfo'.need_context_rows = cinfo.need_context_rows,
           prep' = prep, main' = main
    PROVE  (PrepOK' <=> PrepOK) /\ (MainOK' <=> MainOK)
BY SameSetup, Zenon DEF SameImage, H, T, mv, PrepOK, MainOK

\* What the start of a pass has in common, for any counters m.
LEMMA PassBegins ==
    ASSUME IndInv, More, NEW m \in MasterRecord, m.scan_number = master.scan_number,
           m.total_passes = master.total_passes, master' = IsLast(m),
           scan' = Setup(cinfo, master.scan_number), cinfo' = WithRestart(cinfo, scan'),
           coef' = start_iMCU_row(cinfo, scan', 0), done' = NewPass,
           call' = [call EXCEPT !.yoffset = 0, !.MCU_col_num = 0],
           UNCHANGED << prep, main, global_state, next_scanline, images, versions >>,
           refusals' \in 0..MaxRefusals, OutOK(writer', reader'), pc' \in {"mcu", "error"},
           Opt => m.pass_type \in {"huff_opt", "output"}, ~Opt => m.pass_type = "output",
           m.pass_type = "huff_opt" => m.pass_number = 2 * m.scan_number,
           m.pass_type = "output" => m.pass_number = IF Opt THEN 2 * m.scan_number + 1
                                                     ELSE m.scan_number,
           pc' = "mcu" => entropy'.gather = (m.pass_type = "huff_opt")
    PROVE  IndInv'
<1> DEFINE n == master.scan_number
           s == Setup(cinfo, n)
<1>1. /\ TypesInv /\ Active /\ Accepted(cinfo) /\ cinfo \in ParameterSet /\ PassCounted
      /\ call \in CallRecord /\ call.by = "crank" /\ call.in_row_ctr <= call.in_rows_avail
      /\ n \in 0..num_scans(cinfo) - 1 /\ n < N /\ ScansWritten
  BY NextScanIs, Zenon DEF Accepted
<1>2. s.MCUs_per_row \in Nat
  BY <1>1, ScanRows
<1>3. /\ cinfo' \in ParameterSet /\ SameImage(cinfo, cinfo') /\ cinfo'.plan = cinfo.plan
      /\ cinfo'.need_context_rows = cinfo.need_context_rows
      /\ cinfo'.optimize_coding = cinfo.optimize_coding
  <2> HIDE DEF s
  <2> QED
    BY <1>1, <1>2, RestartParameters, Zenon DEF s
<1>4. /\ num_scans(cinfo') = num_scans(cinfo) /\ Accepted(cinfo') /\ ~BadParameters(cinfo')
      /\ \A k : Setup(cinfo', k) = Setup(cinfo, k)
      /\ start_iMCU_row(cinfo', scan', 0) = start_iMCU_row(cinfo, scan', 0)
  BY <1>3, SameSetup, <1>1, StaysAccepted DEF Accepted
<1>5. /\ master' \in MasterRecord
      /\ master'.pass_type = m.pass_type /\ master'.pass_number = m.pass_number
      /\ master'.scan_number = n /\ master'.total_passes = master.total_passes
      /\ master'.is_last_pass = (master'.pass_number = master'.total_passes - 1)
  BY MasterLast, ZenonT(40)
<1>6. /\ DOMAIN done' = DoneFields /\ done'.mcus = 0 /\ done'.mcus \in Nat
      /\ done'.scans = done.scans
  BY <1>1, SettingsStay DEF NewPass, DoneFields
<1>7. /\ call' \in CallRecord /\ call' # Freed /\ call'.by = "crank"
      /\ call'.in_row_ctr <= call'.in_rows_avail
      /\ call'.yoffset = 0 /\ call'.MCU_col_num = 0
  BY <1>1, CallAtStart, Zenon
<1>8. (PrepOK' <=> PrepOK) /\ (MainOK' <=> MainOK)
  BY <1>3, BuffersSame, Zenon
<1>9. TypesInv' /\ Active'
  BY <1>1, <1>3, <1>4, <1>5, <1>6, <1>7, <1>8, SettingsStay, TypesStay
<1>10. Opt' = Opt /\ N' = N /\ Opt \in BOOLEAN
  BY <1>1, <1>3, <1>4, ParameterTypes, Zenon DEF Opt, N
<1>11. "huff_opt" # "main" /\ "output" # "main" /\ "huff_opt" # "output" /\ "crank" # "lines"
       /\ "crank" # "raw"
  BY SMT
<1>12. m.pass_type = "huff_opt" \/ m.pass_type = "output"
  BY <1>10, Zenon
<1>13. PassCounted'
  BY <1>1, <1>5, <1>10, <1>11, <1>12, Zenon DEF PassCounted
<1>14. CASE pc' = "error"
  BY <1>9, <1>13, <1>14, InError
<1>15. CASE pc' = "mcu"
  <2>1. /\ pc' # "app" /\ pc' # "main" /\ pc' # "rowdone" /\ pc' # "finish_pass"
        /\ pc' # "passes"
    BY <1>15, SMT
  <2>2. /\ coef' \in CoefRecord /\ coef'.iMCU_row_num = 0 /\ 0 <= T' /\ 0 < T'
        /\ coef'.MCU_rows_per_iMCU_row = RowsIn(cinfo', scan', coef'.iMCU_row_num)
        /\ 0 < coef'.MCU_rows_per_iMCU_row /\ 0 < scan'.MCUs_per_row
        /\ done'.mcus = (RowsBefore(cinfo', scan', coef'.iMCU_row_num) + 0)
                          * scan'.MCUs_per_row + 0
    <3>1. /\ n \in 0..num_scans(cinfo') - 1 /\ scan' = Setup(cinfo', n)
          /\ coef' = start_iMCU_row(cinfo', scan', 0)
      BY <1>1, <1>4, Zenon
    <3> HIDE DEF n
    <3> QED
      BY <1>4, <1>6, <3>1, ScanBegins
  <2>3. ScansWritten'
    BY <1>1, <1>5, <1>6, Zenon DEF ScansWritten
  <2>4. entropy'.gather = (Opt' /\ master'.pass_type # "output")
    BY <1>5, <1>10, <1>11, <1>12, <1>15, Zenon
  <2>5. PassInv'
    BY <1>1, <1>4, <1>5, <1>10, <1>13, <2>1, <2>3, <2>4, Zenon DEF PassInv
  <2>6. CallInv' /\ LinesInv' /\ RawInv'
    BY <1>7, <1>9, <1>11, <2>1, Zenon DEF CallInv, LinesInv, TakingLines, RawInv
  <2> QED
    BY <1>9, <2>1, <2>2, <1>7, <2>5, <2>6 DEF IndInv, MCUInv, At
<1> QED
  BY <1>14, <1>15

LEMMA PrepareHuffOptInd == IndInv /\ PrepareHuffOpt => IndInv'
<1> SUFFICES ASSUME IndInv, PrepareHuffOpt PROVE IndInv'
  OBVIOUS
<1> DEFINE m == [master EXCEPT !.call_pass_startup = FALSE]
<1>1. /\ More /\ master.pass_type = "huff_opt"
      /\ scan' = Setup(cinfo, master.scan_number) /\ cinfo' = WithRestart(cinfo, scan')
      /\ entropy' = start_pass_entropy(writer, TRUE)
      /\ coef' = start_iMCU_row(cinfo, scan', 0)
      /\ master' = IsLast(m) /\ done' = NewPass
      /\ call' = [call EXCEPT !.yoffset = 0, !.MCU_col_num = 0] /\ pc' = "mcu"
      /\ UNCHANGED << prep, main, global_state, next_scanline, writer, reader,
                      images, versions, refusals >>
  BY Zenon DEF PrepareHuffOpt, NextScan, counts
<1>2. TypesInv /\ Active /\ PassCounted /\ master \in MasterRecord
  BY <1>1, NextScanIs, SettingsStay, Zenon
<1>3. SameCounters(master, m)
  BY <1>2, MasterStartup
<1> HIDE DEF m
<1>4. /\ m \in MasterRecord /\ m.pass_type = "huff_opt"
      /\ m.scan_number = master.scan_number /\ m.total_passes = master.total_passes
      /\ m.pass_number = 2 * m.scan_number /\ Opt
  BY <1>1, <1>2, <1>3, Zenon DEF SameCounters, PassCounted
<1> QED
  BY <1>1, <1>2, <1>4, SettingsStay, PassBegins DEF start_pass_entropy

LEMMA OutputPassIs ==
    ASSUME IndInv, IsOutputPass
    PROVE  /\ OutputPass \in MasterRecord /\ OutputPass.pass_type = "output"
           /\ OutputPass.scan_number = master.scan_number
           /\ OutputPass.total_passes = master.total_passes
           /\ OutputPass.pass_number = IF Opt THEN 2 * master.scan_number + 1
                                       ELSE master.scan_number
           /\ OutputScan = Setup(cinfo, master.scan_number)
<1>1. More /\ (master.pass_type = "output" \/ master.pass_type = "huff_opt")
  BY Zenon DEF IsOutputPass
<1>2. TypesInv /\ Active /\ PassCounted /\ master \in MasterRecord
      /\ (Opt /\ master.pass_type = "output" => scan = Setup(cinfo, master.scan_number))
  BY <1>1, NextScanIs, SettingsStay, Zenon
<1> DEFINE num == IF master.pass_type = "huff_opt" THEN master.pass_number + 1
                  ELSE master.pass_number
           m == [master EXCEPT !.pass_type = "output", !.call_pass_startup = FALSE,
                               !.pass_number = num]
<1>3. OutputPass = m
  BY Zenon DEF OutputPass
<1>4. num \in Nat
  BY <1>2 DEF MasterRecord
<1>5. num = IF Opt THEN 2 * master.scan_number + 1 ELSE master.scan_number
  <2>1. CASE master.pass_type = "huff_opt"
    BY <1>2, <2>1, Zenon DEF PassCounted
  <2>2. CASE master.pass_type = "output"
    <3>1. num = master.pass_number
      BY <2>2
    <3> HIDE DEF num
    <3> QED
      BY <1>2, <2>2, <3>1, Zenon DEF PassCounted
  <2> QED
    BY <1>1, <2>1, <2>2
<1> HIDE DEF num
<1>6. m \in MasterRecord
  BY <1>2, <1>4 DEF PassTypes, MasterRecord
<1>7. /\ m.pass_type = "output" /\ m.scan_number = master.scan_number
      /\ m.total_passes = master.total_passes /\ m.pass_number = num
  BY <1>2, SMT DEF MasterRecord
<1> HIDE DEF m
<1> QED
  BY <1>2, <1>3, <1>5, <1>6, <1>7, Zenon DEF OutputScan, NextScan, Opt

LEMMA PrepareOutputInd == IndInv /\ PrepareOutput => IndInv'
<1> SUFFICES ASSUME IndInv, PrepareOutput PROVE IndInv'
  OBVIOUS
<1> DEFINE segs == OutputHeaders(cinfo', OutputScan)
           m == OutputPass
<1>1. /\ IsOutputPass /\ More
      /\ scan' = OutputScan /\ cinfo' = WithRestart(cinfo, OutputScan)
      /\ entropy' = start_pass_entropy(writer, FALSE)
      /\ coef' = start_iMCU_row(cinfo, OutputScan, 0)
      /\ master' = IsLast(m) /\ done' = NewPass
      /\ \/ SetOutput(OutputTo(writer, segs)) /\ pc' = "mcu" /\ UNCHANGED refusals
         \/ FailsWithin(writer, segs)
      /\ call' = [call EXCEPT !.yoffset = 0, !.MCU_col_num = 0]
      /\ UNCHANGED << prep, main, global_state, next_scanline, images, versions >>
  BY Zenon DEF PrepareOutput, IsOutputPass
<1>2. /\ m \in MasterRecord /\ m.pass_type = "output"
      /\ m.scan_number = master.scan_number /\ m.total_passes = master.total_passes
      /\ m.pass_number = (IF Opt THEN 2 * master.scan_number + 1 ELSE master.scan_number)
      /\ OutputScan = Setup(cinfo, master.scan_number)
  BY <1>1, OutputPassIs
<1> HIDE DEF m
<1>3. /\ TypesInv /\ Active /\ Accepted(cinfo) /\ cinfo \in ParameterSet
      /\ master.scan_number \in 0..num_scans(cinfo) - 1
      /\ OutOK(writer, reader) /\ refusals \in 0..MaxRefusals
  BY <1>1, NextScanIs, SettingsStay, Zenon DEF Accepted
<1>4. cinfo' \in ParameterSet /\ ScanOf(cinfo', OutputScan)
  <2> DEFINE s == Setup(cinfo, master.scan_number)
  <2> HIDE DEF s
  <2> QED
    BY <1>2, <1>3, SetupShape, <1>1, RestartParameters DEF ScanOf, SameImage, s
<1>5. Segments(segs) /\ GoodSegments(segs)
  BY <1>4, HeadersAreSegments, FrameHeaderGood, ScanHeaderGood, SegmentsJoined DEF
     Segments, GoodSegments, OutputHeaders
<1>6. OutOK(writer', reader') /\ pc' \in {"mcu", "error"} /\ refusals' \in 0..MaxRefusals
  <2> HIDE DEF segs
  <2>1. CASE SetOutput(OutputTo(writer, segs)) /\ pc' = "mcu" /\ UNCHANGED refusals
    BY <1>3, <1>5, <2>1, SetOutputOK
  <2>2. CASE FailsWithin(writer, segs)
    BY <1>3, <1>5, <2>2, FailsWithinOK, Zenon
  <2> QED
    BY <1>1, <2>1, <2>2
<1>7. m.pass_type # "huff_opt" /\ m.pass_type \in {"huff_opt", "output"}
  BY <1>2, SMT
<1> QED
  BY <1>1, <1>2, <1>6, <1>7, PassBegins DEF start_pass_entropy

-----------------------------------------------------------------------------
(* The steps of a pass.                                                    *)

LEMMA WithinPass ==
    ASSUME IndInv, Active, InPass, SameCounters(master, master'),
           UNCHANGED << cinfo, global_state, scan, entropy, images, versions >>,
           done'.scans = done.scans, DOMAIN done' = DoneFields, done'.mcus \in Nat,
           refusals' \in 0..MaxRefusals, OutOK(writer', reader'), next_scanline' \in Nat,
           call' # Freed => call' \in CallRecord /\ call'.in_row_ctr <= call'.in_rows_avail,
           global_state = "SCANNING" => PrepOK' /\ MainOK',
           pc' \in {"app", "main", "mcu", "rowdone", "finish_pass"},
           pc' = "app" => FromApplication
    PROVE  TypesInv' /\ Active' /\ InPass' /\ PassInv'
<1>1. /\ TypesInv /\ PassCounted
      /\ master.is_last_pass = (master.pass_number = master.total_passes - 1)
      /\ master.scan_number < N /\ ScansWritten
      /\ entropy.gather = (Opt /\ master.pass_type # "output")
      /\ scan = Setup(cinfo, master.scan_number)
  BY Zenon DEF IndInv, PassInv
<1>2. InPass' /\ pc' # "passes" /\ (pc' = "app" => FromApplication')
  BY DEF FromApplication, InPass
<1>3. N' = N /\ Opt' = Opt /\ master'.scan_number = master.scan_number
      /\ master'.pass_type = master.pass_type /\ master'.pass_number = master.pass_number
      /\ master'.total_passes = master.total_passes
      /\ master'.is_last_pass = master.is_last_pass
  BY Zenon DEF N, Opt, SameCounters
<1>4. PassInv'
  BY <1>1, CountedStays, <1>2, <1>3, Zenon DEF PassInv, ScansWritten
<1> QED
  BY <1>1, SettingsStay, TypesStay, <1>2, <1>4 DEF SameCounters

LEMMA Sizes ==
    ASSUME TypesInv, Active
    PROVE  /\ H \in Nat \ {0} /\ mv \in Nat \ {0} /\ T \in Nat \ {0} /\ DCTSIZE \in Nat \ {0}
           /\ \A k \in Nat : T <= k <=> H <= (mv * DCTSIZE) * k
BY SettingsStay, AcceptedIsSized, MaxSampling, IMCURows, SetupAssumption DEF Sized, H, mv,
   total_iMCU_rows, T

\* The iMCU rows of the scan of this pass.
LEMMA PassRows ==
    ASSUME IndInv, Active, InPass
    PROVE  /\ T \in Nat \ {0} /\ scan.MCUs_per_row \in Nat \ {0}
           /\ scan.MCU_rows_in_scan = RowsBefore(cinfo, scan, T)
           /\ \A i \in 0..T : /\ RowsBefore(cinfo, scan, i) \in Nat
                              /\ RowsIn(cinfo, scan, i) \in Nat \ {0}
                              /\ LET r == start_iMCU_row(cinfo, scan, i)
                                 IN  /\ r \in CoefRecord /\ r.iMCU_row_num = i
                                     /\ r.mcu_ctr = 0 /\ r.MCU_vert_offset = 0
                                     /\ r.MCU_rows_per_iMCU_row = RowsIn(cinfo, scan, i)
           /\ \A i \in 0..T - 1 : RowsBefore(cinfo, scan, i + 1)
                                    = RowsBefore(cinfo, scan, i) + RowsIn(cinfo, scan, i)
<1> DEFINE n == master.scan_number
           s == Setup(cinfo, n)
<1>1. Accepted(cinfo) /\ n \in 0..num_scans(cinfo) - 1 /\ scan = s
  BY ScanOfPass
<1> HIDE DEF n
<1>2. LET rows == total_iMCU_rows(cinfo)
      IN  /\ rows \in Nat \ {0} /\ s.MCUs_per_row \in Nat \ {0}
          /\ s.MCU_rows_in_scan = RowsBefore(cinfo, s, rows)
          /\ \A i \in 0..rows : RowsBefore(cinfo, s, i) \in Nat /\ RowsIn(cinfo, s, i) \in Nat \ {0}
          /\ \A i \in 0..rows - 1 :
                RowsBefore(cinfo, s, i + 1) = RowsBefore(cinfo, s, i) + RowsIn(cinfo, s, i)
  BY <1>1, ScanRows
<1>3. ASSUME NEW i \in 0..total_iMCU_rows(cinfo)
      PROVE LET r == start_iMCU_row(cinfo, s, i)
            IN  /\ r \in CoefRecord /\ r.iMCU_row_num = i
                /\ r.mcu_ctr = 0 /\ r.MCU_vert_offset = 0
                /\ r.MCU_rows_per_iMCU_row = RowsIn(cinfo, s, i)
  BY <1>1, RowBegun
<1> HIDE DEF s
<1> QED
  BY <1>1, <1>2, <1>3, Zenon DEF T

LEMMA InCall ==
    ASSUME TypesInv, Active, pc # "app" => call # Freed
    PROVE  In \in Nat /\ Avail \in Nat /\ In <= Avail
BY SettingsStay DEF In, Avail, CallRecord

\* What is known in a step that handles scanlines.
LEMMA InLines ==
    ASSUME IndInv, TakingLines
    PROVE  /\ TypesInv /\ Active /\ InPass /\ FromApplication
           /\ RowsCounted /\ NothingWaits /\ GroupsInv
           /\ DOMAIN prep = PrepFields /\ prep.rows_to_go \in 0..H /\ prep.next_buf_row \in Nat
           /\ cinfo.need_context_rows =>
                prep.next_buf_stop \in {mv, 2 * mv, 3 * mv} /\ prep.next_buf_row < prep.next_buf_stop
           /\ ~cinfo.need_context_rows => prep.next_buf_row < mv
           /\ cinfo.need_context_rows \in BOOLEAN
           /\ DOMAIN main = MainFields /\ main.cur_iMCU_row \in 0..T
           /\ main.rowgroup_ctr \in 0..DCTSIZE /\ main.suspended \in BOOLEAN
           /\ main.suspended => Hack = 1
           /\ ~main.suspended => Hack = 0
           /\ Taken = H - prep.rows_to_go
           /\ In \in Nat /\ Avail \in Nat /\ In <= Avail
           /\ pc # "app" => call # Freed /\ call \in CallRecord /\ call.by = "lines"
                            /\ In = call.in_row_ctr /\ Avail = call.in_rows_avail
           /\ pc = "app" => In = 0 /\ Avail = 0
<1>1. /\ global_state = "SCANNING"
      /\ pc \in {"app", "main"} \/ (pc \in {"mcu", "rowdone"} /\ call.by = "lines")
  BY Zenon DEF TakingLines
<1>2. TypesInv /\ Active /\ FromApplication /\ InPass
  BY <1>1, SMT DEF IndInv, Active, FromApplication, InPass
<1>3. PrepOK /\ MainOK /\ cinfo \in ParameterSet
  BY <1>1, <1>2, SettingsStay
<1>4. cinfo.need_context_rows \in BOOLEAN
  BY <1>3, ParameterTypes
<1>5. pc # "app" => call # Freed /\ call.by = "lines"
  BY <1>1, Zenon DEF IndInv, CallInv
<1>6. In \in Nat /\ Avail \in Nat /\ In <= Avail
  BY <1>2, <1>5, InCall
<1> QED
  BY <1>2, <1>3, <1>4, <1>5, <1>6, SettingsStay, Zenon DEF PrepOK, MainOK, Hack, Taken,
     In, Avail, IndInv, LinesInv

LEMMA SameSizes == ASSUME cinfo' = cinfo PROVE H' = H /\ T' = T /\ mv' = mv
BY Zenon DEF H, T, mv

LEMMA SameMaster == ASSUME TypesInv, Active, master' = master PROVE SameCounters(master, master')
BY SettingsStay, Zenon DEF SameCounters

\* The number of lines, cut to what is left of the image.
LEMMA LeastIs == ASSUME NEW a \in Nat, NEW b \in Nat
                 PROVE  Least(a, b) \in Nat /\ Least(a, b) <= a /\ Least(a, b) <= b
                        /\ (Least(a, b) = a \/ Least(a, b) = b)
BY DEF Least

LEMMA WriteScanlinesInd ==
    ASSUME IndInv, NEW n \in 1..MaxRows, jpeg_write_scanlines(n) PROVE IndInv'
<1> DEFINE left == cinfo.image_height - next_scanline
           avail == Least(n, left)
<1>1. /\ pc = "app" /\ pc' = "main" /\ global_state = "SCANNING"
      /\ PassStartup /\ call' = Call("lines", avail)
      /\ UNCHANGED << cinfo, global_state, next_scanline, images, versions, refusals,
                      prep, main, coef, scan, entropy, done >>
  BY Zenon DEF jpeg_write_scanlines, pipeline, counts
<1>2. /\ TypesInv /\ Active /\ InPass /\ FromApplication /\ RowsCounted /\ NothingWaits /\ GroupsInv
      /\ main.suspended \in BOOLEAN /\ (main.suspended => Hack = 1)
      /\ Taken = H - prep.rows_to_go /\ prep.rows_to_go \in 0..H /\ In = 0 /\ Avail = 0
  BY <1>1, InLines DEF TakingLines
<1>3. H \in Nat \ {0} /\ next_scanline \in Nat /\ H = cinfo.image_height
  BY <1>2, Sizes, SettingsStay, Zenon DEF H
<1>4. left \in Nat /\ (main.suspended => left > 0)
  BY <1>2, <1>3 DEF RowsCounted
<1> HIDE DEF left
<1>5. avail \in Nat /\ avail <= left /\ (main.suspended => avail > 0)
  BY <1>4, ConfigsAssumption, LeastIs
<1>6. next_scanline + avail <= H
  BY <1>3, <1>4, <1>5 DEF left
<1> HIDE DEF avail
<1>7. /\ call' \in CallRecord /\ call'.in_row_ctr <= call'.in_rows_avail /\ call' # Freed
      /\ call'.by = "lines" /\ call'.in_row_ctr = 0 /\ call'.in_rows_avail = avail
  BY <1>1, <1>5, NewCall
<1>8. (PrepOK' <=> PrepOK) /\ (MainOK' <=> MainOK)
  BY <1>1, BuffersStay, Zenon
<1>9. pc' \in {"app", "main", "mcu", "rowdone", "finish_pass"} /\ pc' # "app"
      /\ pc' # "mcu" /\ pc' # "rowdone" /\ pc' # "finish_pass" /\ pc' # "passes"
  BY <1>1, SMT
<1>10. TypesInv' /\ Active' /\ InPass' /\ PassInv'
  BY <1>1, <1>2, <1>7, PassStartupKeeps, <1>8, <1>9, SettingsStay, WithinPass
<1>11. H' = H /\ T' = T /\ mv' = mv
  BY <1>1, SameSizes
<1>12. MCUInv'
  BY <1>1, <1>2, <1>9, <1>11, Zenon DEF At, IndInv, MCUInv
<1>13. In' = 0 /\ Avail' = avail /\ Hack' = Hack /\ Taken' = Taken /\ Groups' = Groups /\ Gap' = Gap
  BY <1>1, <1>7, <1>9, <1>11, Zenon DEF In, Avail, Hack, Taken, Groups, Gap
<1>14. RowsCounted'
  BY <1>13, <1>1, <1>2, <1>5, <1>6, <1>9, <1>11, Zenon DEF RowsCounted
<1>15. NothingWaits'
  <2>1. ~main.suspended => main.rowgroup_ctr # DCTSIZE /\ ~(prep.rows_to_go = 0 /\ main.cur_iMCU_row < T)
    <3>1. ~ DCTSIZE < DCTSIZE /\ ~ T < T
      BY <1>2, Sizes
    <3> QED
      BY <1>1, <1>2, <3>1, Zenon DEF NothingWaits
  <2> QED
    BY <1>1, <1>9, <1>11, <2>1, Zenon DEF NothingWaits
<1>16. GroupsInv'
  BY <1>1, <1>2, <1>11, <1>13, Zenon DEF GroupsInv
<1>17. RawInv'
  BY <1>1, SMT DEF RawInv
<1> QED
  BY <1>10, <1>12, <1>1, <1>7, <1>9, <1>14, <1>15, <1>16, <1>17 DEF IndInv, LinesInv,
     CallInv

LEMMA ResumedCall ==
    ASSUME NEW cl \in CallRecord, coef \in CoefRecord
    PROVE  LET r == Resume(cl)
           IN  /\ r \in CallRecord /\ r # Freed /\ r.by = cl.by
               /\ r.in_row_ctr = cl.in_row_ctr /\ r.in_rows_avail = cl.in_rows_avail
               /\ r.yoffset = coef.MCU_vert_offset /\ r.MCU_col_num = coef.mcu_ctr
<1> DEFINE y == coef.MCU_vert_offset
           x == coef.mcu_ctr
           r == [cl EXCEPT !.yoffset = y, !.MCU_col_num = x]
<1>1. y \in Nat /\ x \in Nat
  BY DEF CoefRecord
<1>2. Resume(cl) = r
  BY Zenon DEF Resume
<1> HIDE DEF y, x
<1>3. r \in CallRecord
  BY <1>1, Zenon DEF CallRecord
<1>4. /\ r.by = cl.by /\ r.in_row_ctr = cl.in_row_ctr /\ r.in_rows_avail = cl.in_rows_avail
      /\ r.yoffset = y /\ r.MCU_col_num = x
      /\ DOMAIN r = {"by", "in_row_ctr", "in_rows_avail", "yoffset", "MCU_col_num"}
  BY SMT DEF CallRecord
<1> HIDE DEF r
<1>5. r # Freed
  BY <1>4 DEF Freed
<1> QED
  BY <1>2, <1>3, <1>4, <1>5, Zenon DEF y, x

LEMMA NowMCU == ASSUME pc' = "mcu"
                PROVE  /\ pc' # "app" /\ pc' # "main" /\ pc' # "rowdone" /\ pc' # "finish_pass"
                       /\ pc' # "passes" /\ pc' \in {"app", "main", "mcu", "rowdone", "finish_pass"}
BY SMT

LEMMA NowMain == ASSUME pc' = "main"
                 PROVE  /\ pc' # "app" /\ pc' # "mcu" /\ pc' # "rowdone" /\ pc' # "finish_pass"
                        /\ pc' # "passes" /\ pc' \in {"app", "main", "mcu", "rowdone", "finish_pass"}
BY SMT

LEMMA NowApp == ASSUME pc' = "app"
                PROVE  /\ pc' # "main" /\ pc' # "mcu" /\ pc' # "rowdone" /\ pc' # "finish_pass"
                       /\ pc' # "passes" /\ pc' \in {"app", "main", "mcu", "rowdone", "finish_pass"}
BY SMT

\* The call of the coefficient controller resumes where the last one stopped.
LEMMA Resumes ==
    ASSUME coef' = coef, scan' = scan, cinfo' = cinfo, done' = done,
           call'.yoffset = coef.MCU_vert_offset, call'.MCU_col_num = coef.mcu_ctr,
           coef.iMCU_row_num < T, T' = T, pc' = "mcu",
           coef \in CoefRecord, coef.iMCU_row_num <= T,
           coef.MCU_rows_per_iMCU_row = RowsIn(cinfo, scan, coef.iMCU_row_num),
           At(coef.MCU_vert_offset, coef.mcu_ctr)
    PROVE  MCUInv'
BY NowMCU, Zenon DEF At, MCUInv

LEMMA WriteRawDataInd == IndInv /\ jpeg_write_raw_data => IndInv'
<1> SUFFICES ASSUME IndInv, jpeg_write_raw_data PROVE IndInv'
  OBVIOUS
<1>1. /\ pc = "app" /\ pc' = "mcu" /\ global_state = "RAW_OK"
      /\ next_scanline < cinfo.image_height
      /\ PassStartup /\ call' = Resume(Call("raw", 0))
      /\ UNCHANGED << cinfo, global_state, next_scanline, images, versions, refusals,
                      prep, main, coef, scan, entropy, done >>
  BY Zenon DEF jpeg_write_raw_data, pipeline, counts
<1>2. TypesInv /\ Active /\ InPass /\ FromApplication
  BY <1>1, SMT DEF IndInv, Active, InPass, FromApplication
<1>3. /\ coef \in CoefRecord /\ coef.iMCU_row_num <= T
      /\ coef.MCU_rows_per_iMCU_row = RowsIn(cinfo, scan, coef.iMCU_row_num)
      /\ coef.iMCU_row_num < T => At(coef.MCU_vert_offset, coef.mcu_ctr)
      /\ next_scanline = coef.iMCU_row_num * (mv * DCTSIZE)
  BY <1>1, <1>2, Zenon DEF IndInv, MCUInv, RawInv
<1>4. /\ H \in Nat \ {0} /\ mv \in Nat \ {0} /\ T \in Nat \ {0} /\ DCTSIZE \in Nat \ {0}
      /\ \A k \in Nat : T <= k <=> H <= (mv * DCTSIZE) * k
  BY <1>2, Sizes
<1>5. coef.iMCU_row_num < T
  <2> DEFINE k == coef.iMCU_row_num
  <2>1. k \in Nat /\ next_scanline < H /\ next_scanline \in Nat
    BY <1>1, <1>2, <1>3, SettingsStay DEF H, CoefRecord
  <2> HIDE DEF k
  <2>2. ~ H <= (mv * DCTSIZE) * k
    <3> DEFINE z == (mv * DCTSIZE) * k
    <3>1. z \in Nat /\ z < H
      BY <1>3, <2>1, <1>4 DEF k
    <3> HIDE DEF z
    <3> QED
      BY <1>4, <3>1 DEF z
  <2> QED
    BY <1>4, <2>1, <2>2 DEF k
<1>6. /\ call' \in CallRecord /\ call' # Freed /\ call'.by = "raw"
      /\ call'.in_row_ctr <= call'.in_rows_avail
      /\ call'.yoffset = coef.MCU_vert_offset /\ call'.MCU_col_num = coef.mcu_ctr
  <2> DEFINE c == Call("raw", 0)
  <2>1. c \in CallRecord /\ c.by = "raw" /\ c.in_row_ctr <= c.in_rows_avail
    BY NewCall
  <2> HIDE DEF c
  <2>2. call' = Resume(c)
    BY <1>1, Zenon DEF c
  <2> QED
    BY <2>1, <1>3, ResumedCall, <2>2, Zenon
<1>7. (PrepOK' <=> PrepOK) /\ (MainOK' <=> MainOK)
  BY <1>1, BuffersStay, Zenon
<1>8. H' = H /\ T' = T /\ mv' = mv
  BY <1>1, SameSizes
<1>9. TypesInv' /\ Active' /\ InPass' /\ PassInv'
  BY <1>1, <1>2, <1>6, PassStartupKeeps, <1>7, NowMCU, SettingsStay, WithinPass
<1>10. CallInv' /\ LinesInv'
  BY <1>1, <1>6, <1>9, NowMCU DEF CallInv, LinesInv, TakingLines
<1>11. RawInv'
  BY <1>1, <1>3, <1>8, NowMCU, Zenon DEF RawInv
<1> QED
  BY <1>9, <1>1, <1>3, <1>5, <1>6, <1>8, Resumes, <1>10, <1>11, Zenon DEF IndInv

\* In process_data_simple_main.
LEMMA InMainLoop ==
    ASSUME IndInv, pc = "main"
    PROVE  /\ TakingLines /\ Active /\ InPass /\ TypesInv /\ FromApplication
           /\ global_state = "SCANNING" /\ global_state # "RAW_OK"
           /\ call \in CallRecord /\ call # Freed /\ call.by = "lines"
           /\ call.in_row_ctr \in Nat /\ call.in_rows_avail \in Nat
           /\ In = call.in_row_ctr /\ Avail = call.in_rows_avail /\ In <= Avail
           /\ coef \in CoefRecord /\ coef.iMCU_row_num <= T
           /\ coef.MCU_rows_per_iMCU_row = RowsIn(cinfo, scan, coef.iMCU_row_num)
           /\ coef.iMCU_row_num = main.cur_iMCU_row
           /\ IF coef.iMCU_row_num < T THEN At(coef.MCU_vert_offset, coef.mcu_ctr)
              ELSE done.mcus = NumMCUs(scan)
<1>1. pc # "app" /\ pc # "mcu" /\ pc # "rowdone"
  BY SMT
<1>2. Active /\ call # Freed /\ call.by = "lines" /\ global_state = "SCANNING"
  BY <1>1, Zenon DEF IndInv, CallInv
<1>3. TakingLines
  BY <1>2 DEF TakingLines
<1>4. /\ InPass /\ TypesInv /\ FromApplication /\ call \in CallRecord /\ RowsCounted
      /\ In = call.in_row_ctr /\ Avail = call.in_rows_avail /\ In <= Avail
  BY <1>1, <1>3, InLines, Zenon
<1>5. coef.iMCU_row_num = main.cur_iMCU_row
  BY <1>1, <1>4, Zenon DEF RowsCounted
<1>6. global_state # "RAW_OK"
  BY <1>2, SMT
<1> QED
  BY <1>2, <1>3, <1>4, <1>5, <1>6 DEF CallRecord, IndInv, MCUInv

LEMMA SendRowInd == IndInv /\ SendRow => IndInv'
<1> SUFFICES ASSUME IndInv, SendRow PROVE IndInv'
  OBVIOUS
<1>1. /\ pc = "main" /\ main.cur_iMCU_row < T /\ main.rowgroup_ctr = DCTSIZE
      /\ call' = Resume(call) /\ pc' = "mcu"
      /\ UNCHANGED << cinfo, global_state, next_scanline, master, scan, entropy, writer, reader,
                      done, images, versions, refusals, prep, main, coef >>
  BY Zenon DEF SendRow, InMain, T, Unchanged_in_main, counts
<1>2. /\ TakingLines /\ Active /\ InPass /\ TypesInv /\ FromApplication
      /\ global_state = "SCANNING" /\ global_state # "RAW_OK"
      /\ call \in CallRecord /\ call.by = "lines"
      /\ In = call.in_row_ctr /\ Avail = call.in_rows_avail /\ In <= Avail
      /\ coef \in CoefRecord /\ coef.iMCU_row_num <= T
      /\ coef.MCU_rows_per_iMCU_row = RowsIn(cinfo, scan, coef.iMCU_row_num)
      /\ coef.iMCU_row_num = main.cur_iMCU_row
      /\ IF coef.iMCU_row_num < T THEN At(coef.MCU_vert_offset, coef.mcu_ctr)
         ELSE done.mcus = NumMCUs(scan)
  BY <1>1, InMainLoop
<1>3. /\ call' \in CallRecord /\ call' # Freed /\ call'.by = "lines"
      /\ call'.in_row_ctr = In /\ call'.in_rows_avail = Avail
      /\ call'.in_row_ctr <= call'.in_rows_avail
      /\ call'.yoffset = coef.MCU_vert_offset /\ call'.MCU_col_num = coef.mcu_ctr
  BY <1>1, <1>2, ResumedCall, Zenon
<1>4. H' = H /\ T' = T /\ mv' = mv
  BY <1>1, SameSizes
<1>5. TypesInv' /\ Active' /\ InPass' /\ PassInv'
  BY <1>1, <1>2, <1>3, BuffersStay, SameMaster, NowMCU, SettingsStay, WithinPass, Zenon
<1>6. MCUInv'
  BY <1>1, <1>2, <1>3, <1>4, Resumes, Zenon
<1>7. CallInv'
  BY <1>1, <1>2, <1>3, <1>5, NowMCU DEF CallInv
<1>8. /\ RowsCounted /\ NothingWaits /\ GroupsInv
  BY <1>2, InLines
<1>9. In' = In /\ Avail' = Avail /\ Hack' = Hack /\ Taken' = Taken /\ Groups' = Groups /\ Gap' = Gap
  BY <1>1, <1>3, <1>4, NowMCU, Zenon DEF In, Avail, Hack, Taken, Groups, Gap
<1>10. pc # "app" /\ pc # "rowdone" /\ pc' # "rowdone" /\ pc' # "app"
  BY <1>1, SMT
<1>11. RowsCounted'
  BY <1>1, <1>4, <1>8, <1>9, <1>10, Zenon DEF RowsCounted
<1>12. NothingWaits'
  BY <1>1, <1>8, <1>4, <1>9, <1>10, NowMCU, Zenon DEF NothingWaits
<1>13. GroupsInv'
  BY <1>1, <1>4, <1>8, <1>9, Zenon DEF GroupsInv
<1> QED
  BY <1>5, <1>6, <1>7, <1>11, <1>12, <1>13, <1>1, <1>2, Zenon DEF IndInv, LinesInv,
     RawInv

LEMMA ReturnLinesInd == IndInv /\ ReturnLines => IndInv'
<1> SUFFICES ASSUME IndInv, ReturnLines PROVE IndInv'
  OBVIOUS
<1>1. /\ pc = "main" /\ pc' = "app" /\ next_scanline' = next_scanline + call.in_row_ctr
      /\ \/ main.cur_iMCU_row = T
         \/ /\ main.rowgroup_ctr < DCTSIZE
            /\ ~(cinfo.need_context_rows /\ prep.rows_to_go = 0)
      /\ UNCHANGED << cinfo, global_state, master, scan, entropy, writer, reader, call,
                      done, images, versions, refusals, prep, main, coef >>
  BY Zenon DEF ReturnLines, T, pipeline, counts
<1>2. /\ TakingLines /\ Active /\ InPass /\ TypesInv /\ FromApplication
      /\ global_state = "SCANNING" /\ global_state # "RAW_OK"
      /\ call \in CallRecord /\ call # Freed
      /\ In = call.in_row_ctr /\ Avail = call.in_rows_avail /\ In <= Avail
      /\ In \in Nat /\ Avail \in Nat
      /\ coef \in CoefRecord /\ coef.iMCU_row_num <= T
      /\ coef.MCU_rows_per_iMCU_row = RowsIn(cinfo, scan, coef.iMCU_row_num)
      /\ IF coef.iMCU_row_num < T THEN At(coef.MCU_vert_offset, coef.mcu_ctr)
         ELSE done.mcus = NumMCUs(scan)
  BY <1>1, InMainLoop
<1>3. /\ RowsCounted /\ NothingWaits /\ GroupsInv /\ cinfo.need_context_rows \in BOOLEAN
      /\ main.rowgroup_ctr \in 0..DCTSIZE /\ main.cur_iMCU_row \in 0..T
      /\ main.suspended \in BOOLEAN /\ (~main.suspended => Hack = 0)
      /\ Taken = H - prep.rows_to_go /\ prep.rows_to_go \in 0..H
  BY <1>2, InLines
<1>4. H \in Nat \ {0} /\ T \in Nat \ {0} /\ DCTSIZE \in Nat \ {0} /\ next_scanline \in Nat
  BY <1>2, Sizes, SettingsStay
<1>5. ~main.suspended /\ main.rowgroup_ctr < DCTSIZE
  BY <1>3, <1>4, <1>1 DEF GroupsInv, RowsCounted
<1>6. prep.rows_to_go = 0 => main.cur_iMCU_row = T
  <2> SUFFICES ASSUME prep.rows_to_go = 0, main.cur_iMCU_row # T PROVE FALSE
    OBVIOUS
  <2>1. main.rowgroup_ctr = DCTSIZE
    BY <1>3, <1>4, <1>1 DEF GroupsInv
  <2> QED
    BY <1>4, <1>5, <2>1
<1>7. /\ next_scanline' \in Nat /\ next_scanline' + 0 <= H /\ Taken = next_scanline' + 0 + 0
  <2> HIDE <1>1
  <2> QED
    BY <1>2, <1>3, <1>4, <1>5, <1>1 DEF RowsCounted
<1>8. H' = H /\ T' = T /\ mv' = mv
  BY <1>1, SameSizes
<1>9. TypesInv' /\ Active' /\ InPass' /\ PassInv'
  BY <1>1, <1>2, <1>7, BuffersStay, SameMaster, NowApp, SettingsStay, WithinPass, Zenon
<1>10. MCUInv'
  BY <1>1, <1>2, <1>8, NowApp, Zenon DEF At, MCUInv
<1>11. In' = 0 /\ Avail' = 0 /\ Hack' = 0 /\ Taken' = Taken /\ Groups' = Groups /\ Gap' = Gap
  BY <1>1, <1>5, <1>8, Zenon DEF In, Avail, Hack, Taken, Groups, Gap
<1>12. RowsCounted'
  BY <1>1, <1>3, <1>5, <1>7, <1>8, <1>11 DEF RowsCounted
<1>13. NothingWaits'
  BY <1>1, <1>5, <1>6, <1>8, NowApp, Zenon DEF NothingWaits
<1>14. GroupsInv'
  BY <1>1, <1>3, <1>8, <1>11, Zenon DEF GroupsInv
<1>15. RawInv'
  BY <1>1, <1>2, Zenon DEF RawInv
<1> QED
  BY <1>9, <1>10, <1>1, NowApp, <1>12, <1>13, <1>14, <1>15, Zenon DEF IndInv, LinesInv,
     CallInv

\* In the coefficient controller.
LEMMA InCoef ==
    ASSUME IndInv, pc \in {"mcu", "rowdone"}
    PROVE  /\ Active /\ InPass /\ TypesInv /\ cinfo \in ParameterSet
           /\ call \in CallRecord /\ call # Freed
           /\ call.in_row_ctr \in Nat /\ call.in_rows_avail \in Nat
           /\ call.in_row_ctr <= call.in_rows_avail
           /\ call.yoffset \in Nat /\ call.MCU_col_num \in Nat
           /\ coef \in CoefRecord /\ coef.iMCU_row_num \in 0..T
           /\ coef.MCU_rows_per_iMCU_row = RowsIn(cinfo, scan, coef.iMCU_row_num)
           /\ DOMAIN done = DoneFields /\ done.mcus \in Nat
           /\ OutOK(writer, reader) /\ next_scanline \in Nat /\ refusals \in 0..MaxRefusals
           /\ (global_state = "SCANNING" => PrepOK /\ MainOK)
           /\ pc # "app" /\ pc # "main" /\ pc # "finish_pass" /\ pc # "passes"
BY Sizes, SMT DEF IndInv, CallInv, MCUInv, InPass, TypesInv, CoefRecord, CallRecord

\* Places of MCUs in a pass: the next column, and the next row.
LEMMA NextPlace ==
    ASSUME NEW R \in Nat, NEW y \in Nat, NEW W \in Nat, NEW x \in Nat
    PROVE  /\ ((R + y) * W + x) + 1 = (R + y) * W + (x + 1)
           /\ x + 1 = W => ((R + y) * W + x) + 1 = (R + (y + 1)) * W + 0
<1> DEFINE a == (R + y) * W
<1> HIDE DEF a
<1> QED
  BY DEF a

\* A step from MCU to MCU does not touch the rows.
LEMMA LinesWithinRow ==
    ASSUME LinesInv, RawInv, pc = "mcu",
           UNCHANGED << prep, main, cinfo, next_scanline, global_state >>,
           call'.by = call.by, call'.in_row_ctr = call.in_row_ctr,
           call'.in_rows_avail = call.in_rows_avail, coef.iMCU_row_num \in Nat,
           \/ pc' = "mcu" /\ coef'.iMCU_row_num = coef.iMCU_row_num
           \/ pc' = "rowdone" /\ coef'.iMCU_row_num = coef.iMCU_row_num + 1
    PROVE  LinesInv' /\ RawInv'
<1>1. H' = H /\ T' = T /\ mv' = mv
  BY SameSizes
<1>2. pc # "app" /\ pc # "rowdone" /\ pc # "main" /\ pc' # "app" /\ pc' # "main"
      /\ pc \in {"mcu", "rowdone"} /\ pc' \in {"mcu", "rowdone"}
      /\ (pc' = "mcu" => pc' # "rowdone") /\ (pc' = "rowdone" => pc' # "mcu")
  BY SMT
<1>3. In' = In /\ Avail' = Avail /\ Hack' = Hack /\ Taken' = Taken /\ Groups' = Groups /\ Gap' = Gap
  BY <1>1, <1>2, Zenon DEF In, Avail, Hack, Taken, Groups, Gap
<1>4. ASSUME RowsCounted, NothingWaits, GroupsInv PROVE RowsCounted' /\ NothingWaits' /\ GroupsInv'
  BY <1>1, <1>3, <1>4, <1>2 DEF RowsCounted, GroupsInv, NothingWaits
<1>5. ASSUME global_state = "RAW_OK", call.by = "raw"
      PROVE  IF pc' = "mcu" THEN next_scanline' = coef'.iMCU_row_num * (mv' * DCTSIZE)
             ELSE next_scanline' = (coef'.iMCU_row_num - 1) * (mv' * DCTSIZE)
  BY <1>5, <1>2, <1>1 DEF RawInv
<1> QED
  BY <1>2, <1>4, <1>5 DEF RawInv, LinesInv, TakingLines

LEMMA EncodeMCUInd == IndInv /\ encode_mcu => IndInv'
<1> SUFFICES ASSUME IndInv, encode_mcu PROVE IndInv'
  OBVIOUS
<1> DEFINE k == coef.iMCU_row_num
           y == call.yoffset
           x == call.MCU_col_num
           W == scan.MCUs_per_row
           R == RowsBefore(cinfo, scan, k)
           rows == coef.MCU_rows_per_iMCU_row
<1>1. /\ pc = "mcu"
      /\ done' = [done EXCEPT !.mcus = @ + 1, !.last = CurrentMCU]
      /\ \/ /\ x + 1 < W
            /\ call' = [call EXCEPT !.MCU_col_num = x + 1]
            /\ UNCHANGED << coef, pc >>
         \/ /\ x + 1 = W
            /\ y + 1 < rows
            /\ coef' = [coef EXCEPT !.mcu_ctr = 0]
            /\ call' = [call EXCEPT !.yoffset = y + 1, !.MCU_col_num = 0]
            /\ UNCHANGED pc
         \/ /\ x + 1 = W
            /\ y + 1 = rows
            /\ coef' = start_iMCU_row(cinfo, scan, k + 1)
            /\ pc' = "rowdone" /\ UNCHANGED call
      /\ UNCHANGED << cinfo, global_state, master, scan, prep, entropy, writer, reader, images,
                      versions, main, next_scanline, refusals >>
  BY Zenon DEF encode_mcu, UnchangedInCoef
<1>2. /\ Active /\ InPass /\ TypesInv
      /\ call \in CallRecord /\ call # Freed
      /\ call.in_row_ctr <= call.in_rows_avail
      /\ y \in Nat /\ x \in Nat
      /\ coef \in CoefRecord /\ k \in 0..T
      /\ rows = RowsIn(cinfo, scan, k)
      /\ DOMAIN done = DoneFields /\ done.mcus \in Nat
      /\ OutOK(writer, reader) /\ next_scanline \in Nat /\ refusals \in 0..MaxRefusals
      /\ (global_state = "SCANNING" => PrepOK /\ MainOK)
  BY <1>1, InCoef
<1>3. /\ k < T /\ y < rows /\ x < W /\ done.mcus = (R + y) * W + x
  BY <1>1, Zenon DEF IndInv, MCUInv, At
<1>4. T \in Nat \ {0} /\ W \in Nat \ {0} /\ R \in Nat /\ rows \in Nat \ {0} /\ k + 1 \in 0..T
      /\ RowsBefore(cinfo, scan, k + 1) = R + rows
      /\ LET r == start_iMCU_row(cinfo, scan, k + 1)
         IN  /\ r \in CoefRecord /\ r.iMCU_row_num = k + 1
             /\ r.mcu_ctr = 0 /\ r.MCU_vert_offset = 0
             /\ r.MCU_rows_per_iMCU_row = RowsIn(cinfo, scan, k + 1)
  BY <1>2, PassRows, <1>3
<1> HIDE DEF k, y, x, W, R, rows
<1>5. /\ DOMAIN done' = DoneFields /\ done'.scans = done.scans /\ done'.mcus = done.mcus + 1
      /\ done'.mcus \in Nat
  BY <1>1, <1>2, SMT DEF DoneFields
<1>6. /\ done'.mcus = (R + y) * W + (x + 1)
      /\ x + 1 = W => done'.mcus = (R + (y + 1)) * W + 0
  <2>1. /\ ((R + y) * W + x) + 1 = (R + y) * W + (x + 1)
        /\ x + 1 = W => ((R + y) * W + x) + 1 = (R + (y + 1)) * W + 0
    BY <1>2, <1>4, NextPlace
  <2> QED
    BY <1>3, <1>5, <2>1, Zenon
<1>7. H' = H /\ T' = T /\ mv' = mv
  BY <1>1, SameSizes
<1>8. /\ call' \in CallRecord /\ call' # Freed /\ call'.in_row_ctr <= call'.in_rows_avail
      /\ call'.by = call.by /\ call'.in_row_ctr = call.in_row_ctr
      /\ call'.in_rows_avail = call.in_rows_avail
      /\ pc' \in {"mcu", "rowdone"}
      /\ pc' = "mcu" => /\ coef' \in CoefRecord /\ coef'.iMCU_row_num = k
                        /\ coef'.MCU_rows_per_iMCU_row = rows
                        /\ call'.yoffset < rows /\ call'.MCU_col_num < W
                        /\ done'.mcus = (R + call'.yoffset) * W + call'.MCU_col_num
      /\ pc' = "rowdone" => /\ coef' = start_iMCU_row(cinfo, scan, k + 1)
                            /\ done'.mcus = RowsBefore(cinfo, scan, k + 1) * W
  <2>1. ASSUME NEW a \in Nat, NEW b \in Nat
        PROVE  /\ call' = [call EXCEPT !.yoffset = a, !.MCU_col_num = b] =>
                    /\ call' \in CallRecord /\ call'.in_row_ctr = call.in_row_ctr
                    /\ call'.by = call.by /\ call'.in_rows_avail = call.in_rows_avail
                    /\ call'.yoffset = a /\ call'.MCU_col_num = b
               /\ call' = [call EXCEPT !.MCU_col_num = b] =>
                    /\ call' \in CallRecord /\ call'.in_row_ctr = call.in_row_ctr
                    /\ call'.by = call.by /\ call'.in_rows_avail = call.in_rows_avail
                    /\ call'.yoffset = call.yoffset /\ call'.MCU_col_num = b
    <3> DEFINE c == [call EXCEPT !.yoffset = a, !.MCU_col_num = b]
               d == [call EXCEPT !.MCU_col_num = b]
    <3>1. /\ c.in_row_ctr = call.in_row_ctr /\ c.by = call.by
          /\ c.in_rows_avail = call.in_rows_avail /\ c.yoffset = a /\ c.MCU_col_num = b
          /\ d.in_row_ctr = call.in_row_ctr /\ d.by = call.by
          /\ d.in_rows_avail = call.in_rows_avail /\ d.yoffset = call.yoffset /\ d.MCU_col_num = b
      BY <1>2, SMT DEF CallRecord
    <3> QED
      BY <1>2, <3>1, Zenon DEF CallRecord
  <2>2. \A c \in CallRecord : c # Freed
    BY DEF CallRecord, Freed
  <2>3. CASE x + 1 < W /\ call' = [call EXCEPT !.MCU_col_num = x + 1] /\ UNCHANGED << coef, pc >>
    <3>1. x + 1 \in Nat /\ pc' = "mcu" /\ pc' # "rowdone"
      BY <1>1, <1>2, <2>3
    <3>2. /\ call' \in CallRecord /\ call'.in_row_ctr = call.in_row_ctr /\ call'.by = call.by
          /\ call'.in_rows_avail = call.in_rows_avail
          /\ call'.yoffset = y /\ call'.MCU_col_num = x + 1
      BY <1>2, <2>1, <2>3, <3>1, Zenon DEF y
    <3>3. coef' \in CoefRecord /\ coef'.iMCU_row_num = k /\ coef'.MCU_rows_per_iMCU_row = rows
      BY <1>2, <2>3, Zenon DEF k, rows
    <3>4. pc' \in {"mcu", "rowdone"}
      BY <3>1
    <3> QED
      BY <1>2, <1>3, <1>6, <2>2, <2>3, <3>1, <3>2, <3>3, <3>4, Zenon
  <2>4. CASE /\ x + 1 = W /\ y + 1 < rows /\ coef' = [coef EXCEPT !.mcu_ctr = 0]
             /\ call' = [call EXCEPT !.yoffset = y + 1, !.MCU_col_num = 0] /\ UNCHANGED pc
    <3>1. y + 1 \in Nat /\ 0 \in Nat /\ pc' = "mcu" /\ pc' # "rowdone" /\ 0 < W
      BY <1>1, <1>2, <1>4, <2>4
    <3>2. /\ call' \in CallRecord /\ call'.in_row_ctr = call.in_row_ctr /\ call'.by = call.by
          /\ call'.in_rows_avail = call.in_rows_avail
          /\ call'.yoffset = y + 1 /\ call'.MCU_col_num = 0
      BY <1>2, <2>1, <2>4, <3>1, Zenon
    <3>3. coef' \in CoefRecord /\ coef'.iMCU_row_num = k /\ coef'.MCU_rows_per_iMCU_row = rows
      BY <1>2, <2>4, SMT DEF CoefRecord, k, rows
    <3>4. pc' \in {"mcu", "rowdone"}
      BY <3>1
    <3> QED
      BY <1>2, <1>3, <1>6, <2>2, <2>4, <3>1, <3>2, <3>3, <3>4, Zenon
  <2>5. CASE /\ x + 1 = W /\ y + 1 = rows /\ coef' = start_iMCU_row(cinfo, scan, k + 1)
             /\ pc' = "rowdone" /\ UNCHANGED call
    BY <1>4, <1>6, <2>5, <1>2, <2>2
  <2> QED
    BY <1>1, <2>3, <2>4, <2>5, Zenon DEF k, y, x, W, rows
<1>9. /\ pc' # "app" /\ pc' # "main" /\ pc' # "finish_pass" /\ pc' # "passes"
      /\ pc' \in {"app", "main", "mcu", "rowdone", "finish_pass"}
      /\ (pc' = "mcu" => pc' # "rowdone")
  BY <1>8, SMT
<1>10. TypesInv' /\ Active' /\ InPass' /\ PassInv'
  BY <1>1, <1>2, <1>5, BuffersStay, SameMaster, <1>8, <1>9, WithinPass, Zenon
<1>11. MCUInv'
  <2>1. CASE pc' = "mcu"
    <3>1. coef' \in CoefRecord /\ coef'.iMCU_row_num <= T' /\ coef'.iMCU_row_num < T'
          /\ coef'.MCU_rows_per_iMCU_row = RowsIn(cinfo', scan', coef'.iMCU_row_num)
      BY <1>2, <1>3, <1>4, <1>1, <1>7, <1>8, <2>1
    <3> QED
      BY <1>9, <2>1, <1>1, <1>8, <3>1 DEF MCUInv, W, R, At
  <2>2. CASE pc' = "rowdone"
    BY <1>4, <1>8, <2>2, <1>2, <1>1, <1>7, <1>9 DEF W, MCUInv
  <2> QED
    BY <1>8, <2>1, <2>2
<1>12. LinesInv' /\ RawInv'
  BY <1>4, <1>8, <1>2, <1>1, LinesWithinRow DEF k, IndInv
<1> QED
  BY <1>10, <1>11, <1>1, <1>2, <1>8, <1>9, <1>12 DEF IndInv, CallInv

\* encode_mcu returned FALSE: the place is kept.
LEMMA SuspendedAt ==
    ASSUME IndInv, Suspend
    PROVE  /\ pc = "mcu" /\ refusals' \in 0..MaxRefusals
           /\ UNCHANGED << cinfo, global_state, master, scan, prep, entropy, writer, reader,
                           images, versions >>
           /\ coef' \in CoefRecord /\ coef'.iMCU_row_num = coef.iMCU_row_num
           /\ coef'.MCU_vert_offset = call.yoffset /\ coef'.mcu_ctr = call.MCU_col_num
           /\ done' = done /\ pc' = "app" /\ FromApplication => MCUInv'
<1>1. /\ pc = "mcu" /\ refusals < MaxRefusals /\ refusals' = refusals + 1
      /\ coef' = [coef EXCEPT !.MCU_vert_offset = call.yoffset, !.mcu_ctr = call.MCU_col_num]
      /\ UNCHANGED << cinfo, global_state, master, scan, prep, entropy, writer, reader, images,
                      versions >>
  BY Zenon DEF Suspend, Refuse, UnchangedInCoef
<1>2. pc \in {"mcu", "rowdone"}
  BY <1>1
<1>3. /\ call.yoffset \in Nat /\ call.MCU_col_num \in Nat
      /\ coef \in CoefRecord /\ coef.iMCU_row_num \in 0..T
      /\ coef.MCU_rows_per_iMCU_row = RowsIn(cinfo, scan, coef.iMCU_row_num)
      /\ refusals \in 0..MaxRefusals /\ Active /\ TypesInv
  BY <1>2, InCoef
<1>4. coef.iMCU_row_num < T /\ At(call.yoffset, call.MCU_col_num)
  BY <1>1, Zenon DEF IndInv, MCUInv
<1>5. /\ coef' \in CoefRecord /\ coef'.iMCU_row_num = coef.iMCU_row_num
      /\ coef'.MCU_vert_offset = call.yoffset /\ coef'.mcu_ctr = call.MCU_col_num
      /\ coef'.MCU_rows_per_iMCU_row = coef.MCU_rows_per_iMCU_row
  <2> DEFINE a == call.yoffset
             b == call.MCU_col_num
  <2>1. a \in Nat /\ b \in Nat /\ coef' = [coef EXCEPT !.MCU_vert_offset = a, !.mcu_ctr = b]
    BY <1>1, <1>3
  <2> HIDE DEF a, b
  <2>2. /\ coef'.iMCU_row_num = coef.iMCU_row_num
        /\ coef'.MCU_vert_offset = a /\ coef'.mcu_ctr = b
        /\ coef'.MCU_rows_per_iMCU_row = coef.MCU_rows_per_iMCU_row
    BY <1>3, <2>1, SMT DEF CoefRecord
  <2> QED
    BY <1>3, <2>1, <2>2 DEF a, b, CoefRecord
<1>6. ASSUME done' = done, pc' = "app", FromApplication PROVE MCUInv'
  <2>1. /\ coef' \in CoefRecord /\ coef'.iMCU_row_num <= T' /\ coef'.iMCU_row_num < T'
        /\ coef'.MCU_rows_per_iMCU_row = RowsIn(cinfo', scan', coef'.iMCU_row_num)
    BY <1>2, <1>3, <1>4, Sizes, <1>1, <1>5, SameSizes
  <2> QED
    BY <1>6, <1>4, <1>1, <1>5, <2>1, NowApp DEF MCUInv, At
<1> QED
  BY <1>1, <1>3, ConfigsAssumption, <1>5, <1>6

LEMMA SuspendRawInd == IndInv /\ SuspendRaw => IndInv'
<1> SUFFICES ASSUME IndInv, SuspendRaw PROVE IndInv'
  OBVIOUS
<1>1. Suspend /\ call.by = "raw" /\ pc' = "app" /\ UNCHANGED << main, call, next_scanline, done >>
  BY Zenon DEF SuspendRaw
<1>2. /\ pc = "mcu" /\ refusals' \in 0..MaxRefusals
      /\ UNCHANGED << cinfo, global_state, master, scan, prep, entropy, writer, reader,
                      images, versions >>
      /\ coef'.iMCU_row_num = coef.iMCU_row_num
      /\ done' = done /\ pc' = "app" /\ FromApplication => MCUInv'
  BY <1>1, SuspendedAt, Zenon
<1>3. pc \in {"mcu", "rowdone"} /\ pc \in {"app", "main", "mcu", "rowdone"} /\ pc # "app"
  BY <1>2, SMT
<1>4. /\ Active /\ InPass /\ TypesInv
      /\ call \in CallRecord /\ call # Freed
      /\ call.in_row_ctr <= call.in_rows_avail
      /\ DOMAIN done = DoneFields /\ done.mcus \in Nat
      /\ OutOK(writer, reader) /\ next_scanline \in Nat
      /\ (global_state = "SCANNING" => PrepOK /\ MainOK)
  BY <1>3, InCoef
<1>5. global_state = "RAW_OK"
  BY <1>1, <1>3, <1>4, Zenon DEF IndInv, CallInv
<1>6. FromApplication /\ global_state # "SCANNING"
  BY <1>5, SMT DEF FromApplication
<1>7. TypesInv' /\ Active' /\ InPass' /\ PassInv'
  BY <1>1, <1>2, <1>4, <1>6, SameMaster, NowApp, WithinPass
<1>8. RawInv'
  BY <1>1, <1>2, <1>5, SameSizes, NowApp DEF IndInv, RawInv
<1> QED
  BY <1>7, <1>1, <1>2, <1>6, NowApp, <1>8, Zenon DEF IndInv, CallInv, LinesInv,
     TakingLines

LEMMA SuspendLinesInd == IndInv /\ SuspendLines => IndInv'
<1> SUFFICES ASSUME IndInv, SuspendLines PROVE IndInv'
  OBVIOUS
<1> DEFINE i == call.in_row_ctr - Pretend
<1>1. /\ Suspend /\ call.by = "lines" /\ pc' = "app" /\ done' = done
      /\ main' = [main EXCEPT !.suspended = TRUE]
      /\ call' = [call EXCEPT !.in_row_ctr = i]
      /\ next_scanline' = next_scanline + call.in_row_ctr - Pretend
  BY Zenon DEF SuspendLines
<1>2. /\ pc = "mcu" /\ refusals' \in 0..MaxRefusals
      /\ UNCHANGED << cinfo, global_state, master, scan, prep, entropy, writer, reader,
                      images, versions >>
      /\ coef'.iMCU_row_num = coef.iMCU_row_num
      /\ done' = done /\ pc' = "app" /\ FromApplication => MCUInv'
  BY <1>1, SuspendedAt, Zenon
<1>3. pc \in {"mcu", "rowdone"} /\ pc \in {"app", "main", "mcu", "rowdone"} /\ pc # "app"
      /\ pc # "rowdone"
  BY <1>2, SMT
<1>4. /\ Active /\ call \in CallRecord /\ call # Freed
      /\ DOMAIN done = DoneFields /\ done.mcus \in Nat
      /\ OutOK(writer, reader) /\ next_scanline \in Nat
  BY <1>3, InCoef
<1>5. global_state = "SCANNING" /\ global_state # "RAW_OK"
  BY <1>1, <1>3, <1>4 DEF IndInv, CallInv
<1>6. /\ TypesInv /\ InPass /\ FromApplication
      /\ RowsCounted /\ NothingWaits /\ GroupsInv
      /\ DOMAIN main = MainFields /\ main.suspended \in BOOLEAN
      /\ main.cur_iMCU_row \in 0..T /\ main.rowgroup_ctr \in 0..DCTSIZE
      /\ (main.suspended => Hack = 1) /\ (~main.suspended => Hack = 0)
      /\ Taken = H - prep.rows_to_go /\ prep.rows_to_go \in 0..H
      /\ In \in Nat /\ Avail \in Nat /\ In <= Avail
      /\ In = call.in_row_ctr /\ Avail = call.in_rows_avail
  BY <1>3, <1>1, <1>5, InLines, Zenon DEF TakingLines
<1>7. /\ PrepOK /\ H \in Nat \ {0} /\ T \in Nat \ {0}
  BY <1>4, <1>5, <1>6, Sizes, SettingsStay
<1>8. /\ main.rowgroup_ctr = DCTSIZE /\ main.cur_iMCU_row < T /\ (main.suspended \/ In > 0)
      /\ next_scanline + Avail <= H /\ Taken = next_scanline + In + Hack
      /\ (main.suspended => In = 0) /\ coef.iMCU_row_num = main.cur_iMCU_row
  BY <1>3, <1>6, Zenon DEF RowsCounted, NothingWaits
<1>9. (main.suspended => Pretend = 0) /\ (~main.suspended => Pretend = 1)
  BY DEF Pretend
<1>10. i = In - Pretend /\ next_scanline' = next_scanline + In - Pretend
  BY <1>1, <1>6, Zenon
<1> HIDE DEF i
<1>11. /\ i \in Nat /\ i <= Avail /\ next_scanline' \in Nat
       /\ next_scanline' + 0 <= H /\ Taken = next_scanline' + 0 + 1
  <2> HIDE <1>1
  <2>1. CASE main.suspended
    <3>1. Hack = 1 /\ Pretend = 0 /\ In = 0
      BY <1>6, <1>8, <1>9, <2>1, Zenon
    <3> QED
      BY <1>4, <1>6, <1>7, <1>8, <1>10, <3>1
  <2>2. CASE ~main.suspended
    BY <1>6, <1>8, <1>9, <2>2, <1>4, <1>7, <1>10
  <2> QED
    BY <2>1, <2>2
<1>12. /\ call' \in CallRecord /\ call'.in_row_ctr <= call'.in_rows_avail
  BY <1>1, <1>4, <1>11, <1>6 DEF CallRecord
<1>13. /\ DOMAIN main' = MainFields /\ main'.suspended = TRUE
       /\ main'.cur_iMCU_row = main.cur_iMCU_row /\ main'.rowgroup_ctr = main.rowgroup_ctr
  BY <1>1, <1>6, SMT DEF MainFields
<1>14. H' = H /\ T' = T /\ mv' = mv
  BY <1>2, SameSizes
<1>15. PrepOK' /\ MainOK'
  BY <1>2, <1>6, <1>7, <1>13, <1>14 DEF PrepOK, MainOK
<1>16. SameCounters(master, master')
  BY <1>2, <1>4, <1>6, SameMaster
<1>17. TypesInv' /\ Active' /\ InPass' /\ PassInv'
  BY <1>1, <1>2, <1>4, <1>6, <1>11, <1>12, <1>15, <1>16, NowApp, WithinPass, Zenon
<1>18. CallInv'
  BY <1>1, NowApp, Zenon DEF CallInv
<1>19. In' = 0 /\ Avail' = 0 /\ Hack' = 1 /\ Taken' = Taken /\ Groups' = Groups /\ Gap' = Gap
  BY <1>1, <1>2, <1>13, <1>14, Zenon DEF In, Avail, Hack, Taken, Groups, Gap
<1>20. RowsCounted'
  BY <1>1, <1>2, <1>8, <1>11, <1>13, <1>14, <1>19, NowApp, Zenon DEF RowsCounted
<1>21. NothingWaits'
  BY <1>1, <1>13, NowApp, Zenon DEF NothingWaits
<1>22. GroupsInv'
  BY <1>6, <1>7, <1>8, <1>2, <1>13, <1>14, <1>19 DEF GroupsInv
<1>23. RawInv'
  BY <1>2, <1>5, Zenon DEF RawInv
<1> QED
  BY <1>17, <1>1, <1>2, <1>6, <1>18, <1>20, <1>21, <1>22, <1>23, Zenon DEF IndInv,
     LinesInv

\* An iMCU row is done: the next begins, or the pass is complete.
LEMMA RowFinished ==
    ASSUME IndInv, pc = "rowdone"
    PROVE  /\ coef.iMCU_row_num \in 1..T
           /\ IF coef.iMCU_row_num < T THEN At(coef.MCU_vert_offset, coef.mcu_ctr)
              ELSE done.mcus = NumMCUs(scan)
<1> DEFINE k == coef.iMCU_row_num
           W == scan.MCUs_per_row
           R == RowsBefore(cinfo, scan, k)
           rows == coef.MCU_rows_per_iMCU_row
<1>1. Active /\ InPass /\ TypesInv /\ coef \in CoefRecord /\ k \in 0..T /\ rows = RowsIn(cinfo, scan, k)
  BY InCoef
<1>2. k > 0 /\ coef.MCU_vert_offset = 0 /\ coef.mcu_ctr = 0 /\ done.mcus = R * W
  BY Zenon DEF IndInv, MCUInv
<1>3. /\ T \in Nat \ {0} /\ W \in Nat \ {0}
      /\ scan.MCU_rows_in_scan = RowsBefore(cinfo, scan, T)
      /\ \A i \in 0..T : RowsBefore(cinfo, scan, i) \in Nat /\ RowsIn(cinfo, scan, i) \in Nat \ {0}
  BY <1>1, PassRows, Zenon
<1>4. R \in Nat /\ rows \in Nat \ {0}
  BY <1>1, <1>3, Zenon
<1>5. k \in 1..T /\ (~ k < T => k = T)
  BY <1>1, <1>2, <1>3
<1> HIDE DEF k, W, R, rows
<1>6. CASE k < T
  BY <1>3, <1>4, <1>2, <1>5, <1>6 DEF k, At, W, R, rows
<1>7. CASE ~ k < T
  BY <1>2, <1>3, <1>5, <1>7, <1>4 DEF R, NumMCUs, W, k
<1> QED
  BY <1>6, <1>7

LEMMA RowDoneRawInd == IndInv /\ RowDoneRaw => IndInv'
<1> SUFFICES ASSUME IndInv, RowDoneRaw PROVE IndInv'
  OBVIOUS
<1>1. /\ pc = "rowdone" /\ call.by = "raw" /\ pc' = "app"
      /\ next_scanline' = next_scanline + mv * DCTSIZE
      /\ UNCHANGED << cinfo, global_state, master, scan, prep, entropy, writer, reader, images,
                      versions, coef, call, main, done, refusals >>
  BY Zenon DEF RowDoneRaw, UnchangedInCoef, mv
<1>2. pc \in {"mcu", "rowdone"} /\ pc \in {"app", "main", "mcu", "rowdone"} /\ pc # "app"
  BY <1>1, SMT
<1>3. /\ Active /\ InPass /\ TypesInv
      /\ call \in CallRecord /\ call # Freed
      /\ call.in_row_ctr <= call.in_rows_avail
      /\ coef \in CoefRecord /\ coef.iMCU_row_num \in 0..T
      /\ coef.MCU_rows_per_iMCU_row = RowsIn(cinfo, scan, coef.iMCU_row_num)
      /\ DOMAIN done = DoneFields /\ done.mcus \in Nat
      /\ OutOK(writer, reader) /\ next_scanline \in Nat /\ refusals \in 0..MaxRefusals
  BY <1>2, InCoef
<1>4. global_state = "RAW_OK"
  BY <1>1, <1>2, <1>3, Zenon DEF IndInv, CallInv
<1>5. FromApplication /\ global_state # "SCANNING"
  BY <1>4, SMT DEF FromApplication
<1>6. SameCounters(master, master') /\ H' = H /\ T' = T /\ mv' = mv
  BY <1>1, <1>3, SameMaster, SameSizes
<1>7. mv \in Nat \ {0} /\ T \in Nat /\ DCTSIZE \in Nat \ {0}
  BY <1>3, Sizes
<1>8. /\ next_scanline' \in Nat /\ next_scanline' = coef.iMCU_row_num * (mv * DCTSIZE)
  <2> DEFINE z == mv * DCTSIZE
             k == coef.iMCU_row_num
  <2>1. next_scanline = (k - 1) * z
    BY <1>1, <1>4, Zenon DEF IndInv, RawInv
  <2>2. z \in Nat /\ k \in Nat
    BY <1>3, <1>7
  <2>3. next_scanline' = next_scanline + z
    BY <1>1, Zenon
  <2> HIDE DEF z, k
  <2>4. (k - 1) * z + z = k * z
    BY <2>2
  <2>5. next_scanline + z \in Nat
    BY <1>3, <2>2
  <2>6. next_scanline' \in Nat /\ next_scanline' = k * z
    BY <2>1, <2>3, <2>4, <2>5, Zenon
  <2> QED
    BY <2>6 DEF z, k
<1>9. TypesInv' /\ Active' /\ InPass' /\ PassInv'
  BY <1>1, <1>3, <1>5, <1>6, <1>8, NowApp, WithinPass, Zenon
<1>10. MCUInv'
  BY <1>1, RowFinished, <1>3, <1>7, <1>6, NowApp DEF At, MCUInv
<1> QED
  BY <1>9, <1>10, <1>1, <1>5, NowApp, <1>6, <1>8, Zenon DEF IndInv, CallInv, LinesInv,
     TakingLines, RawInv

LEMMA RowDoneCrankInd == IndInv /\ RowDoneCrank => IndInv'
<1> SUFFICES ASSUME IndInv, RowDoneCrank PROVE IndInv'
  OBVIOUS
<1> DEFINE k == coef.iMCU_row_num
<1>1. /\ pc = "rowdone" /\ call.by = "crank"
      /\ IF k < T THEN call' = Resume(call) /\ pc' = "mcu"
         ELSE pc' = "finish_pass" /\ UNCHANGED call
      /\ UNCHANGED << cinfo, global_state, master, scan, prep, entropy, writer, reader, images,
                      versions, coef, main, done, next_scanline, refusals >>
  BY Zenon DEF RowDoneCrank, UnchangedInCoef, T
<1>2. /\ Active /\ InPass /\ TypesInv
      /\ call \in CallRecord /\ call # Freed
      /\ call.in_row_ctr <= call.in_rows_avail
      /\ coef \in CoefRecord /\ k \in 0..T
      /\ coef.MCU_rows_per_iMCU_row = RowsIn(cinfo, scan, k)
      /\ DOMAIN done = DoneFields /\ done.mcus \in Nat
      /\ OutOK(writer, reader) /\ next_scanline \in Nat /\ refusals \in 0..MaxRefusals
      /\ (global_state = "SCANNING" => PrepOK /\ MainOK)
  BY <1>1, InCoef
<1>3. IF k < T THEN At(coef.MCU_vert_offset, coef.mcu_ctr) ELSE done.mcus = NumMCUs(scan)
  BY <1>1, RowFinished
<1>4. SameCounters(master, master') /\ H' = H /\ T' = T /\ mv' = mv
      /\ (PrepOK' <=> PrepOK) /\ (MainOK' <=> MainOK)
  BY <1>1, <1>2, SameMaster, SameSizes, BuffersStay
<1>5. /\ call' \in CallRecord /\ call' # Freed /\ call'.by = "crank"
      /\ call'.in_row_ctr <= call'.in_rows_avail
      /\ pc' \in {"mcu", "finish_pass"}
      /\ (pc' = "mcu" => /\ k < T /\ call'.yoffset = coef.MCU_vert_offset
                         /\ call'.MCU_col_num = coef.mcu_ctr)
      /\ (pc' = "finish_pass" => ~ k < T)
  BY <1>1, <1>2, ResumedCall
<1>6. /\ pc' \in {"app", "main", "mcu", "rowdone", "finish_pass"} /\ pc' # "app" /\ pc' # "main"
      /\ pc' # "rowdone" /\ pc' # "passes" /\ (pc' = "finish_pass" => pc' # "mcu")
  BY <1>5, SMT
<1>7. TypesInv' /\ Active' /\ InPass' /\ PassInv'
  BY <1>1, <1>2, <1>4, <1>5, <1>6, WithinPass, Zenon
<1>8. MCUInv'
  BY <1>2, <1>1, <1>3, <1>4, <1>5, Resumes, <1>6 DEF MCUInv
<1>9. call'.by # "lines" /\ call'.by # "raw"
  BY <1>5, SMT
<1> QED
  BY <1>7, <1>8, <1>5, <1>6, <1>9, Zenon DEF IndInv, CallInv, LinesInv, TakingLines,
     RawInv

\* The sums the row counters obey: groups of mv rows, DCTSIZE to an iMCU row.
LEMMA GroupSums ==
    ASSUME NEW d \in Nat \ {0}, NEW m \in Nat \ {0}, NEW i \in Nat, NEW g \in Nat, NEW f \in Nat
    PROVE  /\ (i + 1) * d + 0 = i * d + d
           /\ (i * d + g + 1) * m = (i * d + g) * m + m
           /\ (i * d + d) * m = (m * d) * (i + 1)
           /\ (i * d + g) * m \in Nat
           /\ g < d => (i * d + g) * m + m <= (m * d) * (i + 1)
<1> DEFINE a == i * d
<1>1. a \in Nat
  OBVIOUS
<1>2. (i * d + d) * m = (m * d) * (i + 1)
  OBVIOUS
<1>3. (a + d) * m = (m * d) * (i + 1)
  BY <1>2
<1> HIDE DEF a
<1>4. (a + g + 1) * m = (a + g) * m + m /\ (a + g) * m \in Nat
  BY <1>1
<1>5. ASSUME g < d PROVE (a + g) * m + m <= (m * d) * (i + 1)
  <2>1. PICK e \in Nat : d = g + 1 + e
    BY <1>5
  <2> DEFINE u == (a + g) * m
             w == e * m
  <2> HIDE DEF u, w
  <2>2. u + m <= u + m + w
    BY <1>4, <2>1 DEF u, w
  <2> QED
    BY <1>3, <1>1, <2>1, <2>2 DEF u, w
<1> QED
  BY <1>2, <1>4, <1>5 DEF a

LEMMA RowDoneLinesInd == IndInv /\ RowDoneLines => IndInv'
<1> SUFFICES ASSUME IndInv, RowDoneLines PROVE IndInv'
  OBVIOUS
<1> DEFINE i == IF main.suspended THEN call.in_row_ctr + 1 ELSE call.in_row_ctr
           cur == main.cur_iMCU_row
<1>1. /\ pc = "rowdone" /\ call.by = "lines" /\ pc' = "main"
      /\ call' = [call EXCEPT !.in_row_ctr = i]
      /\ main' = [main EXCEPT !.suspended = FALSE, !.rowgroup_ctr = 0, !.cur_iMCU_row = cur + 1]
      /\ UNCHANGED << cinfo, global_state, master, scan, prep, entropy, writer, reader, images,
                      versions, coef, done, next_scanline, refusals >>
  BY Zenon DEF RowDoneLines, UnchangedInCoef
<1>2. pc \in {"mcu", "rowdone"} /\ pc \in {"app", "main", "mcu", "rowdone"} /\ pc # "app"
  BY <1>1, SMT
<1>3. /\ Active /\ InPass /\ TypesInv
      /\ call \in CallRecord /\ call # Freed
      /\ coef \in CoefRecord /\ coef.iMCU_row_num \in 0..T
      /\ coef.MCU_rows_per_iMCU_row = RowsIn(cinfo, scan, coef.iMCU_row_num)
      /\ DOMAIN done = DoneFields /\ done.mcus \in Nat
      /\ OutOK(writer, reader) /\ next_scanline \in Nat /\ refusals \in 0..MaxRefusals
  BY <1>2, InCoef
<1>4. global_state = "SCANNING" /\ global_state # "RAW_OK" /\ TakingLines
  BY <1>1, <1>2, <1>3 DEF IndInv, CallInv, TakingLines
<1>5. /\ FromApplication /\ RowsCounted /\ NothingWaits /\ GroupsInv
      /\ DOMAIN prep = PrepFields /\ prep.rows_to_go \in 0..H /\ prep.next_buf_row \in Nat
      /\ cinfo.need_context_rows =>
            prep.next_buf_stop \in {mv, 2 * mv, 3 * mv} /\ prep.next_buf_row < prep.next_buf_stop
      /\ ~cinfo.need_context_rows => prep.next_buf_row < mv
      /\ cinfo.need_context_rows \in BOOLEAN
      /\ DOMAIN main = MainFields /\ main.suspended \in BOOLEAN
      /\ cur \in 0..T /\ main.rowgroup_ctr \in 0..DCTSIZE
      /\ (main.suspended => Hack = 1) /\ (~main.suspended => Hack = 0)
      /\ Taken = H - prep.rows_to_go
      /\ In \in Nat /\ Avail \in Nat /\ In <= Avail
      /\ In = call.in_row_ctr /\ Avail = call.in_rows_avail
  BY <1>2, <1>4, InLines, Zenon
<1>6. /\ PrepOK /\ H \in Nat \ {0} /\ T \in Nat \ {0} /\ mv \in Nat \ {0} /\ DCTSIZE \in Nat \ {0}
      /\ \A k \in Nat : T <= k <=> H <= (mv * DCTSIZE) * k
  BY <1>3, <1>4, Sizes, SettingsStay
<1>7. /\ main.rowgroup_ctr = DCTSIZE /\ cur < T /\ (main.suspended \/ In > 0)
      /\ next_scanline + Avail <= H /\ Taken = next_scanline + In + Hack
      /\ (main.suspended => In = 0 /\ Avail > 0) /\ coef.iMCU_row_num = cur + 1
  BY <1>1, <1>2, <1>5, Zenon DEF RowsCounted, NothingWaits
<1>8. (main.suspended => i = In + 1) /\ (~main.suspended => i = In)
  BY <1>5
<1> HIDE DEF i, cur
<1>9. i \in Nat /\ i > 0 /\ i <= Avail /\ Taken = next_scanline + i + 0
  <2> HIDE <1>1
  <2>1. CASE main.suspended
    BY <1>5, <1>7, <1>8, <2>1, <1>3
  <2>2. CASE ~main.suspended
    BY <1>5, <1>7, <1>8, <2>2, <1>3
  <2> QED
    BY <2>1, <2>2
<1>10. /\ call' \in CallRecord /\ call' # Freed /\ call'.in_row_ctr <= call'.in_rows_avail
       /\ call'.by = "lines" /\ call'.in_row_ctr = i /\ call'.in_rows_avail = Avail
  <2>1. call' \in CallRecord
    BY <1>1, <1>3, <1>9, Zenon DEF CallRecord
  <2>2. call' # Freed
    BY <2>1 DEF CallRecord, Freed
  <2> QED
    BY <1>9, <2>1, <1>1, <1>3, <1>5, <2>2 DEF CallRecord
<1>11. /\ DOMAIN main' = MainFields /\ main'.suspended = FALSE
       /\ main'.cur_iMCU_row = cur + 1 /\ main'.rowgroup_ctr = 0
  BY <1>1, <1>5, SMT DEF MainFields
<1>12. H' = H /\ T' = T /\ mv' = mv /\ SameCounters(master, master')
  BY <1>1, <1>3, SameSizes, SameMaster
<1>13. PrepOK' /\ MainOK'
  BY <1>1, <1>6, <1>11, <1>12, <1>5, <1>7 DEF PrepOK, MainOK, cur
<1>14. TypesInv' /\ Active' /\ InPass' /\ PassInv'
  BY <1>1, <1>3, <1>10, <1>12, <1>13, NowMain, WithinPass, Zenon
<1>15. MCUInv'
  BY <1>1, RowFinished, <1>3, <1>6, <1>12, NowMain DEF At, MCUInv
<1>16. CallInv'
  BY <1>1, <1>4, <1>10, <1>14, NowMain DEF CallInv
<1>17. Groups = cur * DCTSIZE + DCTSIZE /\ Groups' = Groups
  BY <1>7, <1>11, <1>5, <1>6, GroupSums DEF Groups, cur
<1>18. In' = i /\ Avail' = Avail /\ Hack' = 0 /\ Taken' = Taken /\ Gap' = Gap
  BY <1>1, <1>10, <1>11, <1>12, NowMain, Zenon DEF In, Avail, Hack, Taken, Gap
<1>19. RowsCounted'
  BY <1>1, <1>7, <1>9, <1>11, <1>12, <1>18, NowMain, Zenon DEF RowsCounted
<1>20. NothingWaits'
  BY <1>9, <1>18, NowMain, <1>1, Zenon DEF NothingWaits
<1>21. cur + 1 = T => prep.rows_to_go = 0
  <2> SUFFICES ASSUME cur + 1 = T, prep.rows_to_go # 0 PROVE FALSE
    OBVIOUS
  <2> HIDE <1>1
  <2> DEFINE g == prep.rows_to_go
             f == prep.next_buf_row
             s == prep.next_buf_stop
             G == Groups * mv
  <2>1. g \in Nat /\ g > 0 /\ Taken = H - g
    BY <1>5, <1>6
  <2>2. cur \in Nat /\ T \in Nat
    BY <1>5, <1>6
  <2>3. G = (mv * DCTSIZE) * (cur + 1)
    BY <1>6, <1>17, <2>2, GroupSums
  <2>4. H <= G
    BY <2>2, <1>6, <2>3
  <2>5. G \in Nat
    BY <1>6, <2>2, <2>3
  <2>6. CASE cinfo.need_context_rows
    <3>1. Taken + Gap = G + 2 * mv /\ (Groups > 0 => Gap <= mv)
      BY <1>5, <2>1, <2>6, Zenon DEF GroupsInv
    <3>2. Gap = s - f /\ s \in {mv, 2 * mv, 3 * mv} /\ f \in Nat
      BY <1>5, <2>6, Zenon DEF Gap
    <3>3. Groups > 0
      BY <1>6, <2>2, <1>17
    <3> HIDE DEF g, f, s, G
    <3> QED
      BY <1>6, <2>1, <2>4, <2>5, <3>1, <3>2, <3>3
  <2>7. CASE ~cinfo.need_context_rows
    <3>1. Taken = G + f /\ f \in Nat
      BY <1>5, <2>1, <2>7, Zenon DEF GroupsInv
    <3> HIDE DEF g, f, s, G
    <3> QED
      BY <1>6, <2>1, <2>4, <2>5, <3>1
  <2> QED
    BY <2>6, <2>7
<1>22. ~cinfo.need_context_rows /\ prep.rows_to_go = 0 => ~ cur + 1 < T
  <2> SUFFICES ASSUME ~cinfo.need_context_rows, prep.rows_to_go = 0 PROVE ~ cur + 1 < T
    OBVIOUS
  <2> QED
    BY <1>6, <1>5, <1>7 DEF GroupsInv, cur
<1>23. GroupsInv'
  BY <1>5, <1>1, <1>11, <1>12, <1>21, <1>17, <1>18, <1>22 DEF GroupsInv
<1> QED
  BY <1>14, <1>15, <1>16, <1>19, <1>20, <1>23, <1>1, <1>4, Zenon DEF IndInv, LinesInv,
     RawInv

\* The preprocessor takes n rows and puts them, or none, into a row group.
LEMMA RowsTakenIn ==
    ASSUME IndInv, pc = "main", main.cur_iMCU_row < T, main.rowgroup_ctr < DCTSIZE,
           NEW n \in Nat, n <= Avail - In,
           UNCHANGED << cinfo, global_state, next_scanline, master, scan, entropy, writer, reader,
                        done, images, versions, refusals, coef, pc >>,
           (call' = call /\ n = 0) \/ call' = [call EXCEPT !.in_row_ctr = @ + n],
           prep'.rows_to_go = prep.rows_to_go - n, PrepOK', DOMAIN main' = MainFields,
           main'.cur_iMCU_row = main.cur_iMCU_row, main'.suspended = main.suspended,
           main'.rowgroup_ctr \in 0..DCTSIZE, n = 0 => prep.rows_to_go = 0,
           GroupsInv'
    PROVE  IndInv'
<1>1. /\ TakingLines /\ Active /\ InPass /\ TypesInv /\ FromApplication
      /\ global_state = "SCANNING" /\ global_state # "RAW_OK"
      /\ call \in CallRecord /\ call # Freed /\ call.by = "lines"
      /\ In = call.in_row_ctr /\ Avail = call.in_rows_avail
      /\ In \in Nat /\ Avail \in Nat
      /\ coef \in CoefRecord /\ coef.iMCU_row_num <= T
      /\ coef.MCU_rows_per_iMCU_row = RowsIn(cinfo, scan, coef.iMCU_row_num)
      /\ coef.iMCU_row_num = main.cur_iMCU_row
      /\ IF coef.iMCU_row_num < T THEN At(coef.MCU_vert_offset, coef.mcu_ctr)
         ELSE done.mcus = NumMCUs(scan)
  BY InMainLoop
<1>2. /\ RowsCounted /\ NothingWaits /\ GroupsInv
      /\ main.suspended \in BOOLEAN /\ main.cur_iMCU_row \in 0..T
      /\ (~main.suspended => Hack = 0)
      /\ Taken = H - prep.rows_to_go /\ prep.rows_to_go \in 0..H
  BY <1>1, InLines
<1>3. H \in Nat \ {0} /\ T \in Nat \ {0} /\ DCTSIZE \in Nat \ {0} /\ next_scanline \in Nat
  BY <1>1, Sizes, SettingsStay
<1>4. pc # "app" /\ pc # "rowdone" /\ pc' = "main"
  BY SMT
<1>5. ~main.suspended /\ Hack = 0 /\ next_scanline + Avail <= H /\ Taken = next_scanline + In + Hack
  BY <1>3, <1>2 DEF RowsCounted
<1>6. /\ call' \in CallRecord /\ call' # Freed /\ call'.by = "lines"
      /\ call'.in_row_ctr = In + n /\ call'.in_rows_avail = Avail
  <2>1. CASE call' = call /\ n = 0
    BY <1>1, <2>1
  <2>2. CASE call' = [call EXCEPT !.in_row_ctr = @ + n]
    <3> DEFINE z == In + n
    <3>1. z \in Nat /\ call' = [call EXCEPT !.in_row_ctr = z]
      BY <1>1, <2>2
    <3> HIDE DEF z
    <3>2. call' \in CallRecord
      BY <1>1, <3>1, Zenon DEF CallRecord
    <3> QED
      BY <1>1, <3>2, <3>1 DEF z, CallRecord, Freed
  <2> QED
    BY <2>1, <2>2
<1>7. H' = H /\ T' = T /\ mv' = mv /\ SameCounters(master, master')
  BY <1>1, SameSizes, SameMaster
<1>8. /\ call'.in_row_ctr <= call'.in_rows_avail
      /\ pc' \in {"app", "main", "mcu", "rowdone", "finish_pass"}
      /\ OutOK(writer', reader') /\ refusals' \in 0..MaxRefusals
      /\ DOMAIN done' = DoneFields /\ done'.mcus \in Nat
  BY <1>1, <1>4, <1>6, NowMain, SettingsStay
<1>9. TypesInv' /\ Active' /\ InPass' /\ PassInv'
  BY <1>1, <1>3, <1>4, <1>6, <1>7, <1>2, <1>8, NowMain, WithinPass, Zenon DEF MainOK
<1>10. MCUInv'
  BY <1>1, <1>4, <1>7, NowMain, Zenon DEF At, MCUInv
<1>11. In' = In + n /\ Avail' = Avail /\ Hack' = 0 /\ Taken' = H - (prep.rows_to_go - n)
  BY <1>4, <1>5, <1>6, <1>7, NowMain, Zenon DEF In, Avail, Hack, Taken
<1>12. RowsCounted'
  BY <1>1, <1>2, <1>3, <1>5, <1>11, <1>7, <1>4, NowMain DEF RowsCounted
<1>13. NothingWaits'
  <2>1. In' > 0
    BY <1>2, <1>5, <1>1, <1>11 DEF NothingWaits
  <2> QED
    BY <1>4, <2>1, NowMain, Zenon DEF NothingWaits
<1> QED
  BY <1>9, <1>10, <1>1, <1>4, <1>6, <1>12, <1>13 DEF IndInv, LinesInv, CallInv, RawInv

\* What the steps of the preprocessor do to its counters.
LEMMA StoredIs ==
    ASSUME DOMAIN prep = PrepFields, NEW n
    PROVE  /\ DOMAIN Stored(n) = PrepFields /\ Stored(n).rows_to_go = prep.rows_to_go - n
           /\ Stored(n).next_buf_row = prep.next_buf_row + n
           /\ Stored(n).next_buf_stop = prep.next_buf_stop
BY SMT DEF PrepFields, Stored

LEMMA PaddedIs ==
    ASSUME NEW p, DOMAIN p = PrepFields
    PROVE  /\ DOMAIN Padded(p) = PrepFields /\ Padded(p).rows_to_go = p.rows_to_go
           /\ Padded(p).next_buf_row = IF p.rows_to_go = 0 /\ p.next_buf_row < mv THEN mv
                                       ELSE p.next_buf_row
BY SMT DEF PrepFields, Padded, mv

LEMMA EmptiedIs ==
    ASSUME NEW p, DOMAIN p = PrepFields
    PROVE  /\ DOMAIN Emptied(p) = PrepFields /\ Emptied(p).rows_to_go = p.rows_to_go
           /\ Emptied(p).next_buf_row = IF p.next_buf_row = mv THEN 0 ELSE p.next_buf_row
BY SMT DEF PrepFields, Emptied, mv

LEMMA EmptiedIntoIs ==
    ASSUME NEW p, DOMAIN main = MainFields
    PROVE  LET m == EmptiedInto(p)
           IN  /\ DOMAIN m = MainFields /\ m.suspended = main.suspended
               /\ m.cur_iMCU_row = main.cur_iMCU_row
               /\ m.rowgroup_ctr = IF p.next_buf_row = mv THEN main.rowgroup_ctr + 1
                                   ELSE main.rowgroup_ctr
BY SMT DEF MainFields, EmptiedInto, mv

LEMMA PaddedOutputIs ==
    ASSUME NEW p, NEW m, DOMAIN m = MainFields
    PROVE  LET o == PaddedOutput(p, m)
           IN  /\ DOMAIN o = MainFields /\ o.suspended = m.suspended
               /\ o.cur_iMCU_row = m.cur_iMCU_row
               /\ o.rowgroup_ctr = IF p.rows_to_go = 0 /\ m.rowgroup_ctr < DCTSIZE THEN DCTSIZE
                                   ELSE m.rowgroup_ctr
BY SMT DEF MainFields, PaddedOutput

LEMMA DownsampleIs ==
    ASSUME NEW p, DOMAIN p = PrepFields, DOMAIN main = MainFields, DownsampleGroup(p)
    PROVE  /\ DOMAIN prep' = PrepFields /\ prep'.rows_to_go = p.rows_to_go
           /\ DOMAIN main' = MainFields /\ main'.suspended = main.suspended
           /\ main'.cur_iMCU_row = main.cur_iMCU_row
           /\ p.next_buf_row = p.next_buf_stop =>
                /\ main'.rowgroup_ctr = main.rowgroup_ctr + 1
                /\ prep'.next_buf_row = Wrapped(p.next_buf_row)
                /\ prep'.next_buf_stop = Wrapped(p.next_buf_row) + mv
           /\ p.next_buf_row # p.next_buf_stop =>
                /\ main'.rowgroup_ctr = main.rowgroup_ctr
                /\ prep'.next_buf_row = p.next_buf_row /\ prep'.next_buf_stop = p.next_buf_stop
BY DEF DownsampleGroup, MainFields, PrepFields, Advanced, mv

\* What a step of the preprocessor finds.
LEMMA InPreprocessor ==
    ASSUME IndInv, pc = "main", main.cur_iMCU_row < T, main.rowgroup_ctr < DCTSIZE
    PROVE  /\ H \in Nat \ {0} /\ mv \in Nat \ {0} /\ T \in Nat \ {0} /\ DCTSIZE \in Nat \ {0}
           /\ \A k \in Nat : T <= k <=> H <= (mv * DCTSIZE) * k
           /\ Active /\ PrepOK /\ GroupsInv /\ DOMAIN prep = PrepFields /\ DOMAIN main = MainFields
           /\ prep.next_buf_row \in Nat
           /\ main.cur_iMCU_row \in Nat /\ main.rowgroup_ctr \in Nat
           /\ main.rowgroup_ctr + 1 \in 0..DCTSIZE /\ main.rowgroup_ctr \in 0..DCTSIZE
           /\ prep.rows_to_go \in 0..H /\ Taken = H - prep.rows_to_go
           /\ In \in Nat /\ Avail \in Nat /\ In <= Avail
           /\ RowsLeft = Avail - In /\ RowsLeft \in Nat /\ RowsLeft <= prep.rows_to_go
           /\ Groups \in Nat
<1>1. /\ TakingLines /\ Active /\ TypesInv /\ global_state = "SCANNING"
      /\ In = call.in_row_ctr /\ Avail = call.in_rows_avail
      /\ In \in Nat /\ Avail \in Nat /\ In <= Avail
  BY InMainLoop
<1>2. /\ RowsCounted /\ GroupsInv /\ DOMAIN prep = PrepFields /\ DOMAIN main = MainFields
      /\ prep.next_buf_row \in Nat /\ main.cur_iMCU_row \in 0..T
      /\ main.rowgroup_ctr \in 0..DCTSIZE
      /\ main.suspended \in BOOLEAN /\ (~main.suspended => Hack = 0)
      /\ Taken = H - prep.rows_to_go /\ prep.rows_to_go \in 0..H
  BY <1>1, InLines
<1>3. /\ H \in Nat \ {0} /\ mv \in Nat \ {0} /\ T \in Nat \ {0} /\ DCTSIZE \in Nat \ {0}
      /\ \A k \in Nat : T <= k <=> H <= (mv * DCTSIZE) * k
  BY <1>1, Sizes
<1>4. PrepOK /\ next_scanline \in Nat
  BY <1>1, SettingsStay
<1>5. RowsLeft = Avail - In
  BY <1>1, Zenon DEF RowsLeft
<1>6. main.rowgroup_ctr + 1 \in 0..DCTSIZE /\ main.rowgroup_ctr \in Nat /\ main.cur_iMCU_row \in Nat
  BY <1>2, <1>3
<1>7. Groups \in Nat
  <2> DEFINE a == main.cur_iMCU_row * DCTSIZE
  <2>1. a \in Nat
    BY <1>3, <1>6
  <2>2. Groups = a + main.rowgroup_ctr
    BY Zenon DEF Groups
  <2> HIDE DEF a
  <2> QED
    BY <1>6, <2>1, <2>2
<1> QED
  BY <1>1, <1>2, <1>3, <1>4, <1>5, <1>6, <1>7 DEF RowsCounted

LEMMA OneGroupMore ==
    ASSUME IndInv, pc = "main", main.cur_iMCU_row < T, main.rowgroup_ctr < DCTSIZE,
           main'.cur_iMCU_row = main.cur_iMCU_row,
           main'.rowgroup_ctr = main.rowgroup_ctr + 1
    PROVE  Groups' = Groups + 1 /\ Groups' * mv = Groups * mv + mv
<1> DEFINE a == main.cur_iMCU_row * DCTSIZE
<1>1. /\ main.cur_iMCU_row \in Nat /\ main.rowgroup_ctr \in Nat /\ DCTSIZE \in Nat
      /\ mv \in Nat /\ Groups \in Nat
  BY InPreprocessor
<1>2. a \in Nat
  BY <1>1
<1> HIDE DEF a
<1>3. Groups' = Groups + 1
  BY <1>1, <1>2 DEF Groups
<1> QED
  BY <1>3, <1>1

LEMMA PreProcessDataInd == IndInv /\ pre_process_data => IndInv'
<1> SUFFICES ASSUME IndInv, pre_process_data PROVE IndInv'
  OBVIOUS
<1> DEFINE n == Least(mv - prep.next_buf_row, RowsLeft)
           p == Stored(n)
           q == Padded(p)
           m == EmptiedInto(q)
           f == prep.next_buf_row
           g == prep.rows_to_go
           r == main.rowgroup_ctr
           cur == main.cur_iMCU_row
<1>1. /\ pc = "main" /\ cur < T /\ ~cinfo.need_context_rows
      /\ r < DCTSIZE /\ RowsLeft > 0
      /\ call' = [call EXCEPT !.in_row_ctr = @ + n]
      /\ prep' = Emptied(q) /\ main' = PaddedOutput(q, m)
      /\ UNCHANGED << cinfo, global_state, next_scanline, master, scan, entropy, writer, reader,
                      done, images, versions, refusals, coef, pc >>
  BY Zenon DEF pre_process_data, InMain, TakeRows, Unchanged_in_main, counts, T, mv
<1>2. /\ H \in Nat \ {0} /\ mv \in Nat \ {0} /\ T \in Nat \ {0} /\ DCTSIZE \in Nat \ {0}
      /\ \A k \in Nat : T <= k <=> H <= (mv * DCTSIZE) * k
      /\ PrepOK /\ GroupsInv /\ DOMAIN prep = PrepFields /\ DOMAIN main = MainFields
      /\ f \in Nat /\ cur \in Nat /\ r \in Nat
      /\ r + 1 \in 0..DCTSIZE /\ r \in 0..DCTSIZE
      /\ g \in 0..H /\ Taken = H - g
      /\ In \in Nat /\ Avail \in Nat /\ In <= Avail
      /\ RowsLeft = Avail - In /\ RowsLeft \in Nat /\ RowsLeft <= g /\ Groups \in Nat
  BY <1>1, InPreprocessor
<1>3. f < mv
  BY <1>1, <1>2, Zenon DEF PrepOK
<1>4. /\ DOMAIN p = PrepFields /\ p.rows_to_go = g - n /\ p.next_buf_row = f + n
      /\ p.next_buf_stop = prep.next_buf_stop
  BY <1>2, StoredIs
<1>5. n \in Nat /\ n > 0 /\ n <= mv - f /\ n <= RowsLeft
  <2>1. mv - f \in Nat /\ mv - f > 0
    BY <1>2, <1>3
  <2> QED
    BY <1>1, <1>2, <2>1, LeastIs
<1> HIDE DEF n, p
<1>6. /\ DOMAIN q = PrepFields /\ q.rows_to_go = p.rows_to_go
      /\ q.next_buf_row = IF p.rows_to_go = 0 /\ p.next_buf_row < mv THEN mv ELSE p.next_buf_row
  BY <1>4, PaddedIs
<1> HIDE DEF q
<1>7. /\ DOMAIN m = MainFields /\ m.suspended = main.suspended /\ m.cur_iMCU_row = cur
      /\ m.rowgroup_ctr = IF q.next_buf_row = mv THEN r + 1 ELSE r
  BY <1>2, EmptiedIntoIs
<1> HIDE DEF m
<1>8. /\ DOMAIN prep' = PrepFields /\ prep'.rows_to_go = q.rows_to_go
      /\ prep'.next_buf_row = IF q.next_buf_row = mv THEN 0 ELSE q.next_buf_row
  BY <1>1, <1>6, EmptiedIs
<1>9. /\ DOMAIN main' = MainFields /\ main'.suspended = m.suspended
      /\ main'.cur_iMCU_row = m.cur_iMCU_row
      /\ main'.rowgroup_ctr = IF q.rows_to_go = 0 /\ m.rowgroup_ctr < DCTSIZE THEN DCTSIZE
                              ELSE m.rowgroup_ctr
  BY <1>1, <1>7, PaddedOutputIs
<1> HIDE DEF f, g, r, cur
<1> DEFINE z == q.next_buf_row
<1>10. /\ prep'.rows_to_go = g - n /\ main'.suspended = main.suspended
       /\ main'.cur_iMCU_row = cur
       /\ z = IF g - n = 0 /\ f + n < mv THEN mv ELSE f + n
       /\ m.rowgroup_ctr = IF z = mv THEN r + 1 ELSE r
       /\ prep'.next_buf_row = IF z = mv THEN 0 ELSE z
       /\ main'.rowgroup_ctr = IF g - n = 0 /\ m.rowgroup_ctr < DCTSIZE THEN DCTSIZE
                               ELSE m.rowgroup_ctr
  BY <1>4, <1>6, <1>7, <1>8, <1>9, Zenon
<1> HIDE DEF z
\* The three outcomes: a row group is full, it is not, the image is at its end.
<1>11. \/ /\ g - n > 0 /\ f + n = mv
          /\ prep'.next_buf_row = 0 /\ main'.rowgroup_ctr = r + 1
       \/ /\ g - n > 0 /\ f + n < mv
          /\ prep'.next_buf_row = f + n /\ main'.rowgroup_ctr = r
       \/ /\ g - n = 0 /\ prep'.next_buf_row = 0 /\ main'.rowgroup_ctr = DCTSIZE
  BY <1>2, <1>3, <1>5, <1>10
<1>12. /\ prep'.rows_to_go \in 0..H /\ prep'.next_buf_row \in Nat /\ prep'.next_buf_row < mv
       /\ main'.rowgroup_ctr \in 0..DCTSIZE
  BY <1>2, <1>5, <1>10, <1>11
<1>13. H' = H /\ T' = T /\ mv' = mv
  BY <1>1, SameSizes
<1>14. PrepOK'
  BY <1>1, <1>8, <1>12, <1>13, Zenon DEF PrepOK
<1>15. Taken' = Taken + n
  BY <1>10, <1>13, <1>2, <1>5 DEF Taken
<1>16. g > 0 /\ Taken = Groups * mv + f
  BY <1>1, <1>2 DEF GroupsInv, g, f
<1>17. Groups * mv \in Nat /\ Groups * mv + mv <= (mv * DCTSIZE) * (cur + 1)
  BY <1>1, <1>2, GroupSums DEF Groups, cur, r
<1>18. prep'.rows_to_go > 0 => Taken' = Groups' * mv' + prep'.next_buf_row
  <2> SUFFICES ASSUME prep'.rows_to_go > 0 PROVE Taken' = Groups' * mv + prep'.next_buf_row
    BY <1>13
  <2>1. CASE f + n = mv /\ prep'.next_buf_row = 0 /\ main'.rowgroup_ctr = r + 1
    <3> DEFINE u == Groups * mv
    <3>1. u \in Nat
      BY <1>17
    <3> HIDE DEF u
    <3>2. (u + f) + n = (u + mv) + 0
      BY <1>2, <1>5, <2>1, <3>1
    <3> QED
      BY <2>1, <1>1, <1>10, OneGroupMore, <1>15, <1>16, <3>2, Zenon DEF u, cur, r
  <2>2. CASE f + n < mv /\ prep'.next_buf_row = f + n /\ main'.rowgroup_ctr = r
    <3> DEFINE u == Groups * mv
    <3>1. u \in Nat
      BY <1>17
    <3> HIDE DEF u
    <3>2. (u + f) + n = u + (f + n)
      BY <1>2, <1>5, <3>1
    <3> QED
      BY <2>2, <1>10, <1>15, <1>16, <3>2, Zenon DEF u, Groups, cur, r
  <2> QED
    BY <1>11, <2>1, <2>2, <1>2, <1>5, <1>10
<1>19. prep'.rows_to_go = 0 => cur = T - 1 /\ main'.rowgroup_ctr = DCTSIZE
  <2> SUFFICES ASSUME prep'.rows_to_go = 0 PROVE cur = T - 1 /\ main'.rowgroup_ctr = DCTSIZE
    OBVIOUS
  <2>1. g - n = 0 /\ ~ g - n > 0
    BY <1>2, <1>5, <1>10
  <2> DEFINE u == Groups * mv
             w == (mv * DCTSIZE) * (cur + 1)
  <2>2. H = (u + f) + n
    BY <1>15, <1>16, <1>2, <1>5, <2>1
  <2>3. u \in Nat /\ u + mv <= w /\ w \in Nat /\ cur + 1 \in Nat
    BY <1>2, <1>17
  <2> HIDE DEF u, w
  <2>4. T <= cur + 1
    BY <1>2, <2>3, <1>5, <2>2 DEF w
  <2>5. cur < T
    BY <1>1
  <2> QED
    BY <1>11, <2>1, <1>2, <2>4, <2>5
<1>20. GroupsInv'
  BY <1>1, <1>2, <1>10, <1>13, <1>18, <1>19 DEF GroupsInv
<1>21. n <= Avail - In /\ n # 0
  BY <1>2, <1>5
<1> QED
  <2> HIDE DEF n
  <2> QED
    BY <1>1, <1>5, <1>9, <1>10, <1>12, <1>14, <1>20, <1>21, RowsTakenIn DEF cur, r, g

\* A group of a context buffer is filled: by rows, or at the bottom.
LEMMA ContextStep ==
    ASSUME IndInv, pc = "main", main.cur_iMCU_row < T, main.rowgroup_ctr < DCTSIZE,
           cinfo.need_context_rows, NEW n \in Nat, n <= RowsLeft,
           NEW p, DOMAIN p = PrepFields, p.rows_to_go = prep.rows_to_go - n,
           p.next_buf_stop = prep.next_buf_stop,
           p.next_buf_row <= prep.next_buf_stop, p.next_buf_row \in Nat,
           p.rows_to_go > 0 => p.next_buf_row = prep.next_buf_row + n,
           p.next_buf_row >= prep.next_buf_row,
           DownsampleGroup(p),
           UNCHANGED << cinfo, global_state, next_scanline, master, scan, entropy, writer, reader,
                        done, images, versions, refusals, coef, pc >>,
           (call' = call /\ n = 0) \/ call' = [call EXCEPT !.in_row_ctr = @ + n],
           n = 0 => prep.rows_to_go = 0
    PROVE  IndInv'
<1> DEFINE f == prep.next_buf_row
           s == prep.next_buf_stop
           g == prep.rows_to_go
           z == p.next_buf_row
           r == main.rowgroup_ctr
           cur == main.cur_iMCU_row
<1>1. /\ H \in Nat \ {0} /\ mv \in Nat \ {0} /\ T \in Nat \ {0} /\ DCTSIZE \in Nat \ {0}
      /\ PrepOK /\ GroupsInv /\ DOMAIN prep = PrepFields /\ DOMAIN main = MainFields
      /\ f \in Nat /\ cur \in Nat /\ r \in Nat
      /\ r + 1 \in 0..DCTSIZE /\ r \in 0..DCTSIZE
      /\ g \in 0..H /\ Taken = H - g
      /\ In \in Nat /\ Avail \in Nat /\ In <= Avail
      /\ RowsLeft = Avail - In /\ RowsLeft \in Nat /\ RowsLeft <= g /\ Groups \in Nat
  BY InPreprocessor
<1>2. s \in {mv, 2 * mv, 3 * mv} /\ f < s
  BY <1>1, Zenon DEF PrepOK
<1>3. /\ DOMAIN prep' = PrepFields /\ prep'.rows_to_go = g - n
      /\ DOMAIN main' = MainFields /\ main'.suspended = main.suspended
      /\ main'.cur_iMCU_row = cur
      /\ z = s => /\ main'.rowgroup_ctr = r + 1
                  /\ prep'.next_buf_row = Wrapped(s) /\ prep'.next_buf_stop = Wrapped(s) + mv
      /\ z # s => /\ main'.rowgroup_ctr = r
                  /\ prep'.next_buf_row = z /\ prep'.next_buf_stop = s
  BY <1>1, DownsampleIs, Zenon
<1>4. H' = H /\ T' = T /\ mv' = mv
  BY SameSizes
<1> HIDE DEF f, s, g, z, r, cur
<1>5. /\ z \in Nat /\ z <= s /\ f <= z /\ (g - n > 0 => z = f + n)
      /\ g - n \in 0..H
  BY <1>1 DEF z, s, f, g
<1>6. /\ prep'.next_buf_stop \in {mv, 2 * mv, 3 * mv} /\ prep'.next_buf_row \in Nat
      /\ prep'.next_buf_row < prep'.next_buf_stop
      /\ main'.rowgroup_ctr \in 0..DCTSIZE
      /\ Gap' <= mv \/ (z # s /\ Gap' <= Gap)
      /\ z = s => Gap' = mv
      /\ z # s => Gap' = s - z
  <2>1. CASE z = s
    <3> DEFINE w == Wrapped(s)
    <3>1. w \in Nat /\ w + mv \in {mv, 2 * mv, 3 * mv} /\ w < w + mv /\ (w + mv) - w = mv
      BY <1>1, <1>2 DEF Wrapped, mv
    <3> HIDE DEF w
    <3>2. mv <= mv
      BY <1>1
    <3> QED
      BY <1>1, <2>1, <1>3, <3>1, <3>2 DEF w, Gap
  <2>2. CASE z # s
    BY <1>3, <2>2, <1>1, <1>2, <1>5 DEF Gap, s, f
  <2> QED
    BY <2>1, <2>2
<1>7. Taken' = Taken + n
  BY <1>3, <1>4, <1>1 DEF Taken
<1>8. /\ prep'.rows_to_go > 0 => Taken' + Gap' = Groups' * mv' + 2 * mv'
      /\ Groups' > 0 => Gap' <= mv'
  <2>1. /\ g > 0 => Taken + Gap = Groups * mv + 2 * mv
        /\ Groups > 0 => Gap <= mv
    BY <1>1, Zenon DEF GroupsInv, g
  <2>2. Groups * mv \in Nat /\ Gap = s - f /\ s \in Nat
    BY <1>1, <1>2 DEF Gap, s, f
  <2> DEFINE u == Groups * mv
  <2>3. u \in Nat /\ (g > 0 => Taken + (s - f) = u + 2 * mv)
    BY <2>1, <2>2, Zenon
  <2>4. CASE z = s
    <3>1. Groups' * mv = u + mv
      BY <1>3, <2>4, OneGroupMore, Zenon DEF cur, r
    <3>2. mv' <= mv'
      BY <1>1, <1>4
    <3> HIDE DEF u
    <3>3. ASSUME g - n > 0 PROVE (Taken + n) + mv = (u + mv) + 2 * mv
      BY <1>1, <1>2, <1>5, <2>2, <2>4, <3>3, <2>3
    <3> QED
      BY <1>3, <1>4, <1>6, <1>7, <2>4, <3>1, <3>2, <3>3, Zenon
  <2>5. CASE z # s
    <3>1. Groups' = Groups /\ Gap' = s - z
      BY <1>3, <1>6, <2>5, Zenon DEF Groups, cur, r
    <3>2. Groups' * mv = u
      BY <3>1, Zenon
    <3> HIDE DEF u
    <3>3. ASSUME g - n > 0 PROVE (Taken + n) + (s - z) = u + 2 * mv
      BY <1>1, <1>5, <3>3, <2>2, <2>3
    <3>4. ASSUME Groups > 0 PROVE s - z <= mv
      BY <1>1, <1>5, <2>1, <2>2, <3>4
    <3> QED
      BY <1>3, <1>4, <1>7, <3>1, <3>2, <3>3, <3>4, Zenon
  <2> QED
    BY <2>4, <2>5
<1>9. GroupsInv'
  BY <1>1, <1>3, <1>4, <1>8 DEF cur, GroupsInv
<1> QED
  BY <1>3, <1>6, <1>4, <1>5, <1>9, <1>1, RowsTakenIn DEF g, cur, PrepOK

LEMMA PreProcessContextInd == IndInv /\ pre_process_context => IndInv'
<1> SUFFICES ASSUME IndInv, pre_process_context PROVE IndInv'
  OBVIOUS
<1> DEFINE n == Least(prep.next_buf_stop - prep.next_buf_row, RowsLeft)
           s == prep.next_buf_stop
           f == prep.next_buf_row
<1>1. /\ pc = "main" /\ main.cur_iMCU_row < T /\ cinfo.need_context_rows
      /\ main.rowgroup_ctr < DCTSIZE
      /\ UNCHANGED << cinfo, global_state, next_scanline, master, scan, entropy, writer, reader,
                      done, images, versions, refusals, coef, pc >>
      /\ \/ /\ RowsLeft > 0 /\ DownsampleGroup(TopPadded(Stored(n)))
            /\ call' = [call EXCEPT !.in_row_ctr = @ + n]
         \/ /\ RowsLeft = 0 /\ prep.rows_to_go = 0
            /\ DownsampleGroup(BottomPadded(prep)) /\ UNCHANGED call
  BY Zenon DEF pre_process_context, InMain, Unchanged_in_main, counts, T, mv
<1>2. /\ mv \in Nat \ {0} /\ PrepOK /\ DOMAIN prep = PrepFields
      /\ f \in Nat /\ RowsLeft \in Nat /\ RowsLeft <= prep.rows_to_go
  BY <1>1, InPreprocessor
<1>3. s \in {mv, 2 * mv, 3 * mv} /\ f < s
  BY <1>1, <1>2, Zenon DEF PrepOK
<1>4. s \in Nat
  BY <1>2, <1>3
<1> HIDE DEF s, f
<1>5. CASE /\ RowsLeft > 0 /\ DownsampleGroup(TopPadded(Stored(n)))
           /\ call' = [call EXCEPT !.in_row_ctr = @ + n]
  <2> DEFINE p == TopPadded(Stored(n))
  <2>1. n \in Nat /\ n > 0 /\ n <= s - f /\ n <= RowsLeft
    <3>1. s - f \in Nat /\ s - f > 0
      BY <1>2, <1>3, <1>4
    <3>2. n = Least(s - f, RowsLeft)
      BY DEF s, f
    <3> HIDE DEF n
    <3> QED
      BY <1>2, <1>5, <3>1, <3>2, LeastIs
  <2>2. /\ DOMAIN Stored(n) = PrepFields /\ Stored(n).rows_to_go = prep.rows_to_go - n
        /\ Stored(n).next_buf_row = prep.next_buf_row + n
        /\ Stored(n).next_buf_stop = prep.next_buf_stop
    BY <1>2, StoredIs
  <2>3. /\ DOMAIN p = PrepFields /\ p.rows_to_go = prep.rows_to_go - n
        /\ p.next_buf_row = f + n /\ p.next_buf_stop = s
    <3> DEFINE q == Stored(n)
    <3> HIDE DEF q
    <3> QED
      BY <2>2 DEF q, s, f, TopPadded, PrepFields
  <2> HIDE DEF p
  <2> HIDE DEF n
  <2> QED
    BY <1>1, <1>5, <2>1, <2>3, <1>2, <1>4, ContextStep DEF s, f, p
<1>6. CASE /\ RowsLeft = 0 /\ prep.rows_to_go = 0
           /\ DownsampleGroup(BottomPadded(prep)) /\ UNCHANGED call
  <2> DEFINE p == BottomPadded(prep)
  <2>1. /\ DOMAIN p = PrepFields /\ p.rows_to_go = prep.rows_to_go
        /\ p.next_buf_row = prep.next_buf_stop /\ p.next_buf_stop = prep.next_buf_stop
    BY <1>3, <1>2 DEF s, f, BottomPadded, PrepFields
  <2> HIDE DEF p
  <2>2. s <= s /\ s \in Nat /\ s >= f
    BY <1>2, <1>3, <1>4
  <2> QED
    BY <1>1, <1>6, <2>1, <2>2, ContextStep DEF s, f, p
<1> QED
  BY <1>1, <1>5, <1>6

-----------------------------------------------------------------------------
(* All steps.                                                              *)

LEMMA InitInd == Init => IndInv
<1> SUFFICES ASSUME Init PROVE IndInv
  OBVIOUS
<1> DEFINE tables == [t \in TableNames |->
                        [value |-> IF t \in HuffNames THEN Standard ELSE Version(0, FALSE),
                         sent_table |-> FALSE]]
<1>1. /\ cinfo \in Configs /\ global_state = "START" /\ next_scanline = 0 /\ call = Freed
      /\ writer = [last_restart_interval |-> 0, tbl |-> tables]
      /\ pc = "app" /\ reader = NewReader /\ done = NothingDone(TRUE)
      /\ images = 0 /\ versions = 0 /\ refusals = 0
  BY Zenon DEF Init
<1>2. cinfo \in ParameterSet /\ cinfo.plan.images \in Nat
  BY <1>1, ConfigsAssumption, ParameterTypes
<1>3. OutOK(writer, reader)
  <2>1. /\ DOMAIN reader = {"tbl", "here", "ri", "sof", "scan"}
        /\ DOMAIN reader.tbl = TableNames
    BY <1>1, SMT DEF NewReader
  <2>2. DOMAIN tables = TableNames
    BY Zenon
  <2>3. ASSUME NEW t \in TableNames
        PROVE DOMAIN tables[t] = {"value", "sent_table"} /\ tables[t].sent_table = FALSE
    <3>1. tables[t] = [value |-> IF t \in HuffNames THEN Standard ELSE Version(0, FALSE),
                       sent_table |-> FALSE]
      BY Zenon
    <3> HIDE DEF tables
    <3> QED
      BY <3>1, SMT
  <2> HIDE DEF tables
  <2>4. FALSE \in BOOLEAN
    OBVIOUS
  <2> QED
    BY <1>1, <2>1, <2>2, <2>3, <2>4 DEF OutOK
<1>4. 0 \in 0..MaxVersions /\ 0 \in 0..MaxRefusals /\ 0 \in 0..cinfo.plan.images /\ 0 \in Nat
  BY <1>2, ConfigsAssumption
<1>5. /\ global_state # "SCANNING" /\ global_state # "RAW_OK"
      /\ pc # "main" /\ pc # "mcu" /\ pc # "rowdone" /\ pc # "finish_pass" /\ pc # "passes"
      /\ pc \in {"app", "main", "mcu", "rowdone", "finish_pass", "passes", "error"}
      /\ pc \in {"app", "error"}
      /\ global_state \in {"START", "SCANNING", "RAW_OK", "WRCOEFS"}
  BY <1>1, SMT
<1>6. TypesInv
  BY <1>1, <1>2, <1>3, <1>4, <1>5, SMT DEF TypesInv, Active, NothingDone, DoneFields
<1>7. PassInv /\ MCUInv /\ CallInv /\ LinesInv /\ RawInv
  BY <1>1, <1>5, Zenon DEF PassInv, MCUInv, CallInv, LinesInv, RawInv, Active, FromApplication,
     InPass, TakingLines
<1> QED
  BY <1>6, <1>7, Zenon DEF IndInv

LEMMA StutterInd == IndInv /\ UNCHANGED vars => IndInv'
<1> SUFFICES ASSUME IndInv, UNCHANGED vars PROVE IndInv'
  OBVIOUS
<1>1. UNCHANGED << cinfo, global_state, next_scanline, master, scan, prep, main, coef,
                   entropy, writer, call, pc, reader, done, images, versions, refusals >>
  BY Zenon DEF vars
<1>2. H' = H /\ T' = T /\ mv' = mv
  BY <1>1, SameSizes
<1>3. (Active' <=> Active) /\ (FromApplication' <=> FromApplication)
      /\ (OutOK(writer', reader') <=> OutOK(writer, reader))
  BY <1>1, Zenon DEF Active, FromApplication
<1>4. (InPass' <=> InPass) /\ (TakingLines' <=> TakingLines)
  BY <1>1, <1>3, Zenon DEF InPass, TakingLines
<1>5. PassInv'
  BY <1>1, <1>3, <1>4, Zenon DEF N, Opt, PassCounted, ScansWritten, IndInv, PassInv
<1>6. MCUInv'
  BY <1>1, <1>2, <1>3, Zenon DEF At, IndInv, MCUInv
<1>7. LinesInv'
  <2>1. In' = In /\ Avail' = Avail /\ Hack' = Hack /\ Taken' = Taken /\ Groups' = Groups /\ Gap' = Gap
    BY <1>1, <1>2, Zenon DEF In, Avail, Hack, Taken, Groups, Gap
  <2>2. (GroupsInv' <=> GroupsInv)
    BY <1>1, <1>2, <2>1, Zenon DEF GroupsInv
  <2> QED
    BY <1>4, <1>1, <1>2, <2>1, <2>2, Zenon DEF IndInv, LinesInv, RowsCounted, NothingWaits
<1> QED
  BY <1>1, BuffersStay, <1>3, <1>5, <1>6, <1>2, <1>7, Zenon DEF IndInv, CallInv, RawInv,
     TypesInv

LEMMA NextInd == ASSUME IndInv, Next PROVE IndInv'
<1>1. CASE Tables
  <2>1. ASSUME NEW slot, NEW scale_factor, NEW force_baseline,
               jpeg_add_quant_table(slot, scale_factor, force_baseline)
        PROVE  IndInv'
    BY <2>1, QuantTablesInd, Zenon DEF jpeg_add_quant_table
  <2>2. ASSUME NEW quality, NEW force_baseline, jpeg_set_quality(quality, force_baseline)
        PROVE  IndInv'
    BY <2>2, QuantTablesInd, Zenon DEF jpeg_set_quality
  <2> QED
    BY <1>1, <2>1, <2>2, SetDefaultsInd, ProgressionInd, SuppressInd, WriteTablesInd, Zenon
       DEF Tables
<1>2. CASE Start
  BY <1>2, StartCompressInd, StartFailsInd, WriteCoefficientsInd, BadScanInd, Zenon DEF Start
<1>3. CASE Data
  BY <1>3, WriteScanlinesInd, WriteRawDataInd, StartupFailsInd, PreProcessDataInd,
     PreProcessContextInd, SendRowInd, ReturnLinesInd, Zenon DEF Data
<1>4. CASE Coefficients
  BY <1>4, EncodeMCUInd, SuspendLinesInd, SuspendRawInd, SuspendCrankInd, RowDoneLinesInd,
     RowDoneRawInd, RowDoneCrankInd, Zenon DEF Coefficients
<1>5. CASE Finish
  BY <1>5, FinishCompressInd, FinishPassInd, FlushFailsInd, PrepareHuffOptInd, PrepareOutputInd,
     TrailerInd, TrailerFailsInd, AbortInd, Zenon DEF Finish
<1> QED
  BY <1>1, <1>2, <1>3, <1>4, <1>5, Zenon DEF Next

(* The invariant holds of every run, for every set of parameters.          *)
THEOREM IndInvHolds == Spec => []IndInv
<1>1. IndInv /\ [Next]_vars => IndInv'
  BY NextInd, StutterInd, Zenon
<1> QED
  BY InitInd, <1>1, PTL DEF Spec

-----------------------------------------------------------------------------
(* What it implies.                                                        *)

LEMMA TypesRight == IndInv => TypeOK
<1> SUFFICES ASSUME IndInv PROVE TypeOK
  OBVIOUS
<1>1. /\ TypesInv
      /\ global_state \in {"START", "SCANNING", "RAW_OK", "WRCOEFS"}
      /\ pc \in {"app", "main", "mcu", "rowdone", "finish_pass", "passes", "error"}
      /\ next_scanline \in Nat
      /\ images \in 0..cinfo.plan.images /\ versions \in 0..MaxVersions /\ refusals \in 0..MaxRefusals
      /\ OutOK(writer, reader)
      /\ global_state = "SCANNING" => PrepOK /\ MainOK
  BY Zenon DEF IndInv, TypesInv
<1>2. ASSUME global_state # "START"
      PROVE  master.pass_number \in 0..master.total_passes /\ master.scan_number \in 0..num_scans(cinfo)
  <2>1. Accepted(cinfo) /\ master \in MasterRecord /\ PassCounted
    BY <1>1, <1>2, SettingsStay DEF IndInv, PassInv, Active
  <2>2. N \in Nat \ {0}
    BY <2>1, ScansCounted, Zenon DEF N
  <2>3. /\ master.pass_type = "main" \/ master.pass_type = "huff_opt" \/ master.pass_type = "output"
        /\ master.pass_number \in Nat /\ master.scan_number \in 0..N
    BY <2>1 DEF MasterRecord, PassTypes, PassCounted
  <2> DEFINE s == master.scan_number
             n == master.pass_number
             t == master.total_passes
  <2>4. n \in 0..t
    <3>1. CASE Opt
      <4>1. t = 2 * N
        BY <2>1, <3>1, Zenon DEF PassCounted
      <4> HIDE DEF s, n, t
      <4> QED
        BY <2>2, <2>3, <4>1, <2>1, <3>1 DEF s, n, PassCounted
    <3>2. CASE ~Opt
      <4>1. t = N
        BY <2>1, <3>2, Zenon DEF PassCounted
      <4> HIDE DEF s, n, t
      <4> QED
        BY <2>2, <2>3, <4>1, <2>1, <3>2 DEF s, n, PassCounted
    <3> QED
      BY <3>1, <3>2
  <2> QED
    BY <2>3, <2>4, Zenon DEF N
<1>3. ASSUME global_state = "SCANNING"
      PROVE  /\ prep.rows_to_go \in 0..cinfo.image_height
             /\ prep.next_buf_row \in 0..BufRows(cinfo)
             /\ main.rowgroup_ctr \in 0..DCTSIZE
  <2>1. PrepOK /\ MainOK
    BY <1>1, <1>3
  <2>2. mv \in Nat \ {0} /\ cinfo.need_context_rows \in BOOLEAN
    BY <1>1, <1>3, SettingsStay, Sizes, ParameterTypes, SMT DEF Active
  <2>3. prep.next_buf_row \in 0..BufRows(cinfo)
    BY <2>1, <2>2 DEF BufRows, mv, PrepOK
  <2> QED
    BY <2>1, <2>3, Zenon DEF PrepOK, MainOK, H
<1> QED
  BY <1>1, <1>2, <1>3 DEF TypeOK, OutOK

LEMMA CounterRight == IndInv => RowCounterInRange
<1> SUFFICES ASSUME IndInv, global_state = "SCANNING", call # Freed
             PROVE  call.in_row_ctr \in 0..call.in_rows_avail
  BY DEF RowCounterInRange
<1> QED
  BY DEF CallRecord, IndInv, TypesInv

(* For every image and every sampling, however many lines a call brings    *)
(* and wherever the destination refuses: in_row_ctr never leaves its range *)
(* (it is unsigned), and an application that has been told that all its    *)
(* scanlines were taken has had all their MCUs encoded.                    *)
THEOREM RowsAccountedHolds == Spec => []RowsAccounted
<1>1. IndInv => RowsAccounted
  BY TakenEncoded, TypesRight, CounterRight, Zenon DEF RowsAccounted, TakenIsEncoded
<1> QED
  BY IndInvHolds, <1>1, PTL

(* For every script of scans, sequential or progressive, optimized or not, *)
(* from rows or from coefficients: a pass ends with all MCUs of its scan   *)
(* encoded, and the file with every scan of the script in it, in order.    *)
THEOREM ScansCompleteHolds == Spec => []ScansComplete
<1>1. IndInv => ScansInOrder
  <2> SUFFICES ASSUME IndInv, pc = "passes", master.is_last_pass
               PROVE  done.scans = [i \in 1..num_scans(cinfo) |-> i - 1]
    BY DEF ScansInOrder
  <2> QED
    BY Zenon DEF ScansWritten, N, IndInv, PassInv
<1>2. IndInv => ScansComplete
  BY <1>1, Zenon DEF ScansComplete, IndInv, MCUInv, PassIsWhole
<1> QED
  BY IndInvHolds, <1>2, PTL

-----------------------------------------------------------------------------
(* What the segments of a header bring a reader.                           *)

Content(segs) == {segs[k] : k \in 1..Len(segs)}

\* Tables are only added, and the two sides go on agreeing.
TablesAdded(out, o) ==
    /\ \A t \in TableNames :
        /\ out.w.tbl[t].sent_table => o.w.tbl[t].sent_table
        /\ o.w.tbl[t].sent_table => out.w.tbl[t].sent_table \/ t \in o.rd.here
    /\ out.rd.here \subseteq o.rd.here
    /\ out.w.last_restart_interval = out.rd.ri => o.w.last_restart_interval = o.rd.ri

\* Nothing else is told than the segments of a set S say.
IntervalTold(out, o, S) ==
    \A r : (\A seg \in S : seg[1] = "DRI" => seg[2][1] = r) =>
        \/ o.w.last_restart_interval = r
        \/ /\ o.w.last_restart_interval = out.w.last_restart_interval
           /\ \A seg \in S : seg[1] # "DRI"
FrameTold(out, o, S) ==
    \A v : (\A seg \in S : seg[1] = "SOF" => seg[2] = v) =>
        o.rd.sof = v \/ (o.rd.sof = out.rd.sof /\ \A seg \in S : seg[1] # "SOF")
ScanTold(out, o, S) ==
    \A v : (\A seg \in S : seg[1] = "SOS" => seg[2] = v) =>
        o.rd.scan = v \/ (o.rd.scan = out.rd.scan /\ \A seg \in S : seg[1] # "SOS")
TablesTold(o, S) ==
    \A seg \in S : seg[1] \in {"DQT", "DHT"} => o.w.tbl[seg[2]].sent_table

Brings(out, o, S) ==
    /\ TablesAdded(out, o) /\ TablesTold(o, S)
    /\ IntervalTold(out, o, S) /\ FrameTold(out, o, S) /\ ScanTold(out, o, S)

LEMMA BringsNothing == ASSUME NEW out PROVE Brings(out, out, {})
BY Zenon DEF Brings, TablesAdded, TablesTold, IntervalTold, FrameTold, ScanTold

LEMMA BringsOneMore ==
    ASSUME NEW out, NEW x, NEW o, NEW S, \A seg \in S : GoodSegment(seg), NEW seg,
           Brings(out, x, S), Follows(x, o, seg)
    PROVE  Brings(out, o, S \cup {seg})
<1> DEFINE U == S \cup {seg}
<1>1. \A z : z \in U <=> z \in S \/ z = seg
  OBVIOUS
<1> HIDE DEF U
<1>2. TablesTold(o, U)
  <2>1. ASSUME NEW z \in S, z[1] \in {"DQT", "DHT"} PROVE o.w.tbl[z[2]].sent_table
    BY <2>1, Zenon DEF Brings, TablesTold, GoodSegment, Follows
  <2> QED
    BY <1>1, <2>1, Zenon DEF TablesTold, Follows
<1>3. IntervalTold(out, o, U)
  <2> SUFFICES ASSUME NEW r, \A z \in U : z[1] = "DRI" => z[2][1] = r
               PROVE  \/ o.w.last_restart_interval = r
                      \/ /\ o.w.last_restart_interval = out.w.last_restart_interval
                         /\ \A z \in U : z[1] # "DRI"
    BY Zenon DEF IntervalTold
  <2>1. CASE seg[1] = "DRI"
    BY <1>1, <2>1, Zenon DEF Follows
  <2>2. CASE seg[1] # "DRI"
    BY <1>1, <2>2, Zenon DEF Follows, Brings, IntervalTold
  <2> QED
    BY <2>1, <2>2
<1>4. FrameTold(out, o, U)
  <2> SUFFICES ASSUME NEW r, \A z \in U : z[1] = "SOF" => z[2] = r
               PROVE  o.rd.sof = r \/ (o.rd.sof = out.rd.sof /\ \A z \in U : z[1] # "SOF")
    BY Zenon DEF FrameTold
  <2>1. CASE seg[1] = "SOF"
    BY <1>1, <2>1, Zenon DEF Follows
  <2>2. CASE seg[1] # "SOF"
    BY <1>1, <2>2, Zenon DEF Follows, Brings, FrameTold
  <2> QED
    BY <2>1, <2>2
<1>5. ScanTold(out, o, U)
  <2> SUFFICES ASSUME NEW r, \A z \in U : z[1] = "SOS" => z[2] = r
               PROVE  o.rd.scan = r \/ (o.rd.scan = out.rd.scan /\ \A z \in U : z[1] # "SOS")
    BY Zenon DEF ScanTold
  <2>1. CASE seg[1] = "SOS"
    BY <1>1, <2>1, Zenon DEF Follows
  <2>2. CASE seg[1] # "SOS"
    BY <1>1, <2>2, Zenon DEF Follows, Brings, ScanTold
  <2> QED
    BY <2>1, <2>2
<1> QED
  BY <1>2, <1>3, <1>4, <1>5, Zenon DEF Brings, U, TablesAdded, Follows

LEMMA WrittenBrings ==
    ASSUME NEW out, Pair(out), OutOK(out.w, out.rd), NEW segs, GoodSegments(segs),
           \A seg \in Content(segs) : seg[1] # "SOI"
    PROVE  Brings(out, Written(out, segs), Content(segs))
<1> DEFINE f == WrittenUpTo(out, segs)
           n == Len(segs)
           Part(k) == {segs[j] : j \in 1..k}
           Good(k) == Pair(f[k]) /\ OutOK(f[k].w, f[k].rd) /\ Brings(out, f[k], Part(k))
           Bad == {k \in Nat : k <= n /\ ~Good(k)}
<1>1. n \in Nat /\ \A k \in 1..n : GoodSegment(segs[k]) /\ segs[k][1] # "SOI"
  BY Zenon DEF GoodSegments, Content
<1>2. /\ f[0] = out /\ f[n] = Written(out, segs)
      /\ \A k \in 1..n : f[k] = Emit(f[k - 1], segs[k])
  BY <1>1, WrittenIs
<1>3. Good(0)
  <2>1. Part(0) = {}
    OBVIOUS
  <2> HIDE DEF f, Part
  <2> QED
    BY <1>2, <2>1, BringsNothing, Zenon
<1>4. ASSUME NEW k \in 1..n, Good(k - 1) PROVE Good(k)
  <2>1. f[k] = Emit(f[k - 1], segs[k]) /\ GoodSegment(segs[k]) /\ segs[k][1] # "SOI"
    BY <1>1, <1>2
  <2>2. /\ Part(k) = Part(k - 1) \cup {segs[k]}
        /\ \A j \in 1..k - 1 : j \in 1..n
    BY <1>1
  <2>3. \A seg \in Part(k - 1) : GoodSegment(seg)
    BY <1>1, <2>2, Zenon
  <2> HIDE DEF f, Part
  <2> DEFINE x == f[k - 1]
             o == Emit(x, segs[k])
  <2>4. Pair(x) /\ OutOK(x.w, x.rd) /\ Brings(out, x, Part(k - 1))
    BY <1>4, Zenon
  <2>5. Pair(o) /\ OutOK(o.w, o.rd) /\ Follows(x, o, segs[k])
    <3> HIDE DEF x
    <3>1. CASE segs[k][1] \in {"DQT", "DHT"}
      BY <2>4, <2>1, <3>1, EmitTableKeeps DEF GoodSegment
    <3>2. CASE segs[k][1] \notin {"DQT", "DHT"}
      BY <2>1, <2>4, <3>2, EmitOtherKeeps
    <3> QED
      BY <3>1, <3>2
  <2>6. Brings(out, o, Part(k))
    <3> HIDE DEF x, o
    <3> QED
      BY <2>4, <2>5, <2>2, <2>3, BringsOneMore
  <2> QED
    BY <2>1, <2>5, <2>6, Zenon
<1>5. Part(n) = Content(segs)
  BY Zenon DEF Content
<1> HIDE DEF Good, f, n, Part
<1>6. Bad = {}
  <2> SUFFICES ASSUME Bad # {} PROVE FALSE
    OBVIOUS
  <2>1. PICK k \in Bad : \A j \in Bad : k <= j
    <3> Bad \in SUBSET Nat
      OBVIOUS
    <3> HIDE DEF Bad
    <3> QED
      BY Smallest
  <2>2. k \in Nat /\ k <= n /\ ~Good(k)
    OBVIOUS
  <2>3. k - 1 \in Nat /\ k - 1 <= n /\ k \in 1..n /\ ~ k <= k - 1
    BY <1>1, <2>2, <1>3
  <2>4. k - 1 \notin Bad
    <3> HIDE DEF Bad
    <3> QED
      BY <2>1, <2>3
  <2> QED
    BY <1>4, <2>2, <2>3, <2>4
<1> QED
  BY <1>2, <1>6, <1>1, <1>5 DEF Good

(* The content of the headers.                                             *)

LEMMA JoinedContent ==
    ASSUME NEW a, NEW b, Segments(a), Segments(b)
    PROVE  Content(a \o b) = Content(a) \cup Content(b)
<1> DEFINE ab == a \o b
<1>1. /\ Len(a) \in Nat /\ Len(b) \in Nat /\ Len(ab) = Len(a) + Len(b)
      /\ \A i \in 1..Len(a) : ab[i] = a[i]
      /\ \A i \in 1..Len(b) : ab[Len(a) + i] = b[i]
  BY SegmentsJoined
<1> HIDE DEF ab
<1>2. \A k \in 1..Len(ab) : k \in 1..Len(a) \/ \E i \in 1..Len(b) : k = Len(a) + i
  <2> SUFFICES ASSUME NEW k \in 1..Len(ab), k \notin 1..Len(a)
               PROVE  \E i \in 1..Len(b) : k = Len(a) + i
    OBVIOUS
  <2>1. k - Len(a) \in 1..Len(b) /\ k = Len(a) + (k - Len(a))
    BY <1>1
  <2> QED
    BY <2>1, Zenon
<1>3. \A x : x \in Content(ab) => x \in Content(a) \/ x \in Content(b)
  <2>1. \A k \in 1..Len(ab) : ab[k] \in Content(a) \/ ab[k] \in Content(b)
    <3> SUFFICES ASSUME NEW k \in 1..Len(ab)
                 PROVE  ab[k] \in Content(a) \/ ab[k] \in Content(b)
      OBVIOUS
    <3>1. ASSUME NEW i \in 1..Len(b), k = Len(a) + i PROVE ab[k] \in Content(b)
      BY <1>1, <3>1, Zenon DEF Content
    <3> QED
      BY <1>2, <3>1, <1>1, Zenon DEF Content
  <2> QED
    BY <2>1, Zenon DEF Content
<1> QED
  BY <1>3, <1>1 DEF ab, Content

\* Tables of components are tables.
LEMMA QuantTables ==
    ASSUME NEW c \in ParameterSet, NEW k \in 1..Len(c.comps)
    PROVE  QuantTable(c, k) \in TableNames
BY ParameterTypes DEF QuantTable, TableNames

LEMMA FrameHeaderContent ==
    ASSUME NEW c \in ParameterSet, NEW tbl
    PROVE  LET S == Content(write_frame_header(c, tbl))
           IN  /\ \A seg \in S : seg[1] # "SOI" /\ seg[1] # "DRI" /\ seg[1] # "SOS"
               /\ \A seg \in S : seg[1] = "SOF" => seg[2] = SOFCode(c, tbl)
               /\ \E seg \in S : seg[1] = "SOF"
               /\ \A i \in 1..Len(c.comps) : << "DQT", QuantTable(c, i) >> \in S
<1> DEFINE fh == write_frame_header(c, tbl)
           n == Len(c.comps)
           x == << "SOF", SOFCode(c, tbl) >>
<1>1. n \in Nat
  BY ParameterTypes
<1>2. /\ Len(fh) = n + 1
      /\ \A i \in 1..n : fh[i] = << "DQT", QuantTable(c, i) >>
      /\ fh[n + 1] = x
  BY <1>1, FrameHeaderIs
<1> HIDE DEF fh, n, x
<1>3. /\ \A i \in 1..n : i \in 1..n + 1
      /\ n + 1 \in 1..n + 1
      /\ \A i \in 1..n + 1 : i \in 1..n \/ i = n + 1
  BY <1>1
<1>4. /\ x[1] = "SOF" /\ x[2] = SOFCode(c, tbl)
      /\ \A z : << "DQT", z >>[1] = "DQT"
  BY DEF x
<1>5. /\ "DQT" # "SOF" /\ "DQT" # "SOI" /\ "DQT" # "DRI" /\ "DQT" # "SOS"
      /\ "SOF" # "SOI" /\ "SOF" # "DRI" /\ "SOF" # "SOS"
  BY SMT
<1>6. ASSUME NEW z \in Content(fh)
      PROVE  /\ z[1] # "SOI" /\ z[1] # "DRI" /\ z[1] # "SOS"
             /\ z[1] = "SOF" => z[2] = SOFCode(c, tbl)
  <2>1. CASE z = x
    BY <1>4, <1>5, <2>1, Zenon
  <2>2. ASSUME NEW i \in 1..n, z = << "DQT", QuantTable(c, i) >> PROVE z[1] = "DQT"
    BY <2>2
  <2> QED
    BY <1>2, <1>3, <1>5, <2>1, <2>2, Zenon DEF Content
<1> QED
  BY <1>2, <1>3, <1>4, <1>6, Zenon DEF fh, n, Content

LEMMA ScanHeaderContent ==
    ASSUME NEW c \in ParameterSet, NEW s, ScanOf(c, s)
    PROVE  LET S == Content(write_scan_header(c, s))
           IN  /\ \A seg \in S : seg[1] # "SOI" /\ seg[1] # "SOF"
               /\ \A seg \in S : seg[1] = "DRI" => seg[2][1] = c.restart_interval
               /\ \E seg \in S : seg[1] = "DRI"
               /\ \A seg \in S : seg[1] = "SOS" => seg[2] = s
               /\ \E seg \in S : seg[1] = "SOS"
               /\ \A t \in ToSet(TablesOfScan(c, s)) : << "DHT", t >> \in S
<1> DEFINE tables == TablesOfScan(c, s)
           sh == write_scan_header(c, s)
           n == Len(tables)
           x == << "DRI", << c.restart_interval >> >>
           y == << "SOS", s >>
<1>1. tables \in Seq(TableNames)
  BY TablesOfScanType, Zenon
<1>2. /\ n \in Nat /\ Len(sh) = n + 2
      /\ \A i \in 1..n : sh[i] = << "DHT", tables[i] >> /\ tables[i] \in TableNames
      /\ sh[n + 1] = x /\ sh[n + 2] = y
  BY <1>1, ScanHeaderIs
<1>3. \A t \in ToSet(tables) : \E i \in 1..n : t = tables[i]
  <2> HIDE DEF tables
  <2> QED
    BY <1>1 DEF ToSet
<1> HIDE DEF tables, sh, n, x, y
<1>4. /\ \A i \in 1..n : i \in 1..n + 2
      /\ n + 1 \in 1..n + 2 /\ n + 2 \in 1..n + 2
      /\ \A i \in 1..n + 2 : i \in 1..n \/ i = n + 1 \/ i = n + 2
  BY <1>2
<1>5. x[1] = "DRI" /\ x[2][1] = c.restart_interval /\ y[1] = "SOS" /\ y[2] = s
  BY DEF x, y
<1>6. /\ "DHT" # "SOF" /\ "DHT" # "SOI" /\ "DHT" # "DRI" /\ "DHT" # "SOS"
      /\ "DRI" # "SOI" /\ "DRI" # "SOF" /\ "DRI" # "SOS"
      /\ "SOS" # "SOI" /\ "SOS" # "SOF" /\ "SOS" # "DRI"
  BY SMT
<1>7. ASSUME NEW z \in Content(sh)
      PROVE  /\ z[1] # "SOI" /\ z[1] # "SOF"
             /\ z[1] = "DRI" => z[2][1] = c.restart_interval
             /\ z[1] = "SOS" => z[2] = s
  <2>1. CASE z = x
    BY <1>5, <1>6, <2>1, Zenon
  <2>2. CASE z = y
    BY <1>5, <1>6, <2>2, Zenon
  <2>3. ASSUME NEW i \in 1..n, z = << "DHT", tables[i] >> PROVE z[1] = "DHT"
    BY <2>3
  <2> QED
    BY <1>2, <1>4, <1>6, <2>1, <2>2, <2>3, Zenon DEF Content
<1> QED
  BY <1>2, <1>4, <1>5, <1>7, <1>3, Zenon DEF sh, tables, Content

\* The headers of a scan, with those of the frame before the first one.
Headers(c, s, tbl, first) ==
    (IF first THEN write_frame_header(c, tbl) ELSE << >>) \o write_scan_header(c, s)

HeadersTold(out, o, c, s, tbl, first) ==
    /\ Pair(o) /\ OutOK(o.w, o.rd) /\ SameValues(out, o) /\ TablesAdded(out, o)
    /\ o.rd.scan = s /\ o.w.last_restart_interval = c.restart_interval
    /\ \A t \in ToSet(TablesOfScan(c, s)) : o.w.tbl[t].sent_table
    /\ o.rd.sof = IF first THEN SOFCode(c, tbl) ELSE out.rd.sof
    /\ first => \A i \in 1..Len(c.comps) : o.w.tbl[QuantTable(c, i)].sent_table

LEMMA HeadersBring ==
    ASSUME NEW out, Pair(out), OutOK(out.w, out.rd), NEW c \in ParameterSet, NEW s, ScanOf(c, s),
           NEW tbl, NEW first \in BOOLEAN
    PROVE  /\ Segments(Headers(c, s, tbl, first)) /\ GoodSegments(Headers(c, s, tbl, first))
           /\ HeadersTold(out, Written(out, Headers(c, s, tbl, first)), c, s, tbl, first)
<1> DEFINE fh == write_frame_header(c, tbl)
           sh == write_scan_header(c, s)
           a == IF first THEN fh ELSE << >>
           segs == Headers(c, s, tbl, first)
           o == Written(out, segs)
           S == Content(segs)
<1>1. /\ Segments(fh) /\ GoodSegments(fh) /\ Segments(sh) /\ GoodSegments(sh)
  BY FrameHeaderGood, ScanHeaderGood, HeadersAreSegments, Zenon
<1>2. Segments(<< >>) /\ GoodSegments(<< >>) /\ Content(<< >>) = {}
  BY DEF Segments, GoodSegments, Content
<1>3. segs = a \o sh
  BY Zenon DEF Headers
<1>4. Segments(a) /\ GoodSegments(a)
  BY <1>1, <1>2, Zenon
<1> HIDE DEF a, fh, sh
<1>5. Segments(segs) /\ GoodSegments(segs) /\ S = Content(a) \cup Content(sh)
  BY <1>1, <1>3, <1>4, SegmentsJoined, JoinedContent, Zenon
<1>6. /\ \A seg \in Content(sh) : seg[1] # "SOI" /\ seg[1] # "SOF"
      /\ \A seg \in Content(sh) : seg[1] = "DRI" => seg[2][1] = c.restart_interval
      /\ \E seg \in Content(sh) : seg[1] = "DRI"
      /\ \A seg \in Content(sh) : seg[1] = "SOS" => seg[2] = s
      /\ \E seg \in Content(sh) : seg[1] = "SOS"
      /\ \A t \in ToSet(TablesOfScan(c, s)) : << "DHT", t >> \in Content(sh)
  BY ScanHeaderContent, Zenon DEF sh
<1>7. /\ \A seg \in Content(fh) : seg[1] # "SOI" /\ seg[1] # "DRI" /\ seg[1] # "SOS"
      /\ \A seg \in Content(fh) : seg[1] = "SOF" => seg[2] = SOFCode(c, tbl)
      /\ \E seg \in Content(fh) : seg[1] = "SOF"
      /\ \A i \in 1..Len(c.comps) : << "DQT", QuantTable(c, i) >> \in Content(fh)
  BY FrameHeaderContent, Zenon DEF fh
<1>8. /\ first => Content(a) = Content(fh)
      /\ ~first => Content(a) = {}
  BY <1>2, Zenon DEF a
<1>9. \A seg \in Content(a) : seg[1] # "SOI" /\ seg[1] # "DRI" /\ seg[1] # "SOS"
  BY <1>7, <1>8, Zenon
<1> HIDE DEF segs, S, o
<1>10. Brings(out, o, S)
  BY <1>5, <1>6, <1>9, WrittenBrings, Zenon DEF S, o
<1>11. Pair(o) /\ OutOK(o.w, o.rd) /\ SameValues(out, o)
  BY <1>5, WrittenKeeps, Zenon DEF o
<1>12. TablesAdded(out, o)
  BY <1>10, Zenon DEF Brings
<1>13. o.rd.scan = s
  BY <1>5, <1>6, <1>9, <1>10, Zenon DEF Brings, ScanTold
<1>14. o.w.last_restart_interval = c.restart_interval
  BY <1>5, <1>6, <1>9, <1>10, Zenon DEF Brings, IntervalTold
<1>15. \A z : << "DHT", z >> \in S \/ << "DQT", z >> \in S => o.w.tbl[z].sent_table
  BY <1>10 DEF Brings, TablesTold
<1>16. \A t \in ToSet(TablesOfScan(c, s)) : o.w.tbl[t].sent_table
  BY <1>5, <1>6, <1>15, Zenon
<1>17. ASSUME first PROVE \A i \in 1..Len(c.comps) : o.w.tbl[QuantTable(c, i)].sent_table
  BY <1>5, <1>7, <1>8, <1>15, <1>17, Zenon
<1>18. CASE first
  <2>1. /\ \A seg \in S : seg[1] = "SOF" => seg[2] = SOFCode(c, tbl)
        /\ \E seg \in S : seg[1] = "SOF"
    BY <1>5, <1>6, <1>7, <1>8, <1>18, Zenon
  <2>2. o.rd.sof = SOFCode(c, tbl)
    BY <1>10, <2>1, Zenon DEF Brings, FrameTold
  <2> QED
    BY <1>5, <1>11, <1>12, <1>13, <1>14, <1>16, <1>17, <1>18, <2>2, Zenon DEF segs, o,
       HeadersTold
<1>19. CASE ~first
  <2>1. o.rd.sof = out.rd.sof
    BY <1>10, <1>5, <1>6, <1>8, <1>19, Zenon DEF Brings, FrameTold
  <2> QED
    BY <1>5, <1>11, <1>12, <1>13, <1>14, <1>16, <1>17, <1>19, <2>1, Zenon DEF segs, o,
       HeadersTold
<1> QED
  BY <1>18, <1>19

LEMMA WrittenOne ==
    ASSUME NEW out, NEW segs, Len(segs) = 1
    PROVE  Written(out, segs) = Emit(out, segs[1])
<1> DEFINE f == WrittenUpTo(out, segs)
<1> HIDE DEF f
<1> QED
  BY WrittenIs

\* SOI: a reader starts anew, and only the restart interval is forgotten here.
LEMMA FileHeaderBrings ==
    ASSUME NEW out, Pair(out), OutOK(out.w, out.rd)
    PROVE  LET o == Written(out, write_file_header)
           IN  /\ o.w.last_restart_interval = 0 /\ o.rd.ri = 0
               /\ \A t \in TableNames : o.w.tbl[t].sent_table <=> out.w.tbl[t].sent_table
<1> DEFINE x == << "SOI", << >> >>
           e == EmitSOI(out)
<1>1. Written(out, write_file_header) = Emit(out, x)
  <2>1. Len(write_file_header) = 1 /\ write_file_header[1] = x
    BY DEF write_file_header
  <2> HIDE DEF x
  <2> QED
    BY <2>1, WrittenOne, Zenon
<1>2. x[1] = "SOI"
  OBVIOUS
<1>3. Emit(out, x) = e
  <2> HIDE DEF x, e
  <2> QED
    BY <1>2, SMT DEF Emit, e
<1>4. /\ DOMAIN out.w = {"last_restart_interval", "tbl"}
      /\ DOMAIN out.rd = {"tbl", "here", "ri", "sof", "scan"}
  BY Zenon DEF OutOK
<1>5. e.w.last_restart_interval = 0 /\ e.rd.ri = 0 /\ e.w.tbl = out.w.tbl
  <2> DEFINE w == [out.w EXCEPT !.last_restart_interval = 0]
             rd == [out.rd EXCEPT !.here = {}, !.ri = 0, !.sof = "none", !.scan = << >>]
  <2>1. e = [w |-> w, rd |-> rd]
    BY Zenon DEF EmitSOI
  <2>2. w.last_restart_interval = 0 /\ w.tbl = out.w.tbl
    BY <1>4, SMT
  <2>3. rd.ri = 0
    BY <1>4, SMT
  <2> HIDE DEF w, rd
  <2>4. e.w = w /\ e.rd = rd
    BY <2>1, SMT
  <2> QED
    BY <2>2, <2>3, <2>4, Zenon
<1> HIDE DEF e
<1> QED
  BY <1>1, <1>3, <1>5, Zenon

-----------------------------------------------------------------------------
(* The tables.  The headers of the present scan, and of the frame, are out: *)

HeaderOut == InPass /\ ~entropy.gather /\ ~master.call_pass_startup
FrameOut == HeaderOut \/ master.scan_number > 0

\* Only the main pass without optimization puts its headers off, to the first
\* call that brings data.
StartupInv == master.call_pass_startup => pc = "app" /\ FromApplication /\ next_scanline = 0

\* The writer knows what the reader knows.
ReaderInv ==
    /\ reader.ri = writer.last_restart_interval
    /\ done.write_all =>
        \A t \in TableNames : writer.tbl[t].sent_table => t \in reader.here

\* The tables derived at the start of a pass are still those of cinfo.
UsedInv ==
    \A t \in TableNames :
        InPass \/ t \notin HuffNames => entropy.used[t] = writer.tbl[t].value

HeaderInv ==
    HeaderOut =>
        /\ reader.scan = scan /\ reader.ri = cinfo.restart_interval
        /\ \A t \in ToSet(TablesOfScan(cinfo, scan)) : writer.tbl[t].sent_table

FrameInv ==
    FrameOut =>
        /\ reader.sof = SOFCode(cinfo, writer.tbl)
        /\ \A c \in 1..Len(cinfo.comps) : writer.tbl[QuantTable(cinfo, c)].sent_table

\* In an output pass after optimization, and just before it.
OwnInv ==
    Opt /\ master.pass_type = "output" /\ (InPass \/ pc = "passes") =>
        \A t \in ToSet(TablesOfScan(cinfo, scan)) :
            writer.tbl[t].value = Optimized(images, master.scan_number)

TablesParts == StartupInv /\ ReaderInv /\ UsedInv /\ HeaderInv /\ FrameInv /\ OwnInv
TablesInv == Active /\ pc # "error" => TablesParts

LEMMA NoTables == ASSUME global_state' = "START" \/ pc' = "error" PROVE TablesInv'
BY Zenon DEF TablesInv, Active

\* The tables of a scan, and what the frame header says, depend on the parameters
\* that master control leaves alone.
LEMMA SameTables ==
    ASSUME NEW c, NEW d, SameImage(c, d)
    PROVE  /\ \A s : TablesOfScan(d, s) = TablesOfScan(c, s)
           /\ \A k : QuantTable(d, k) = QuantTable(c, k)
           /\ \A tbl : SOFCode(d, tbl) = SOFCode(c, tbl)
           /\ Len(d.comps) = Len(c.comps)
<1>1. d.comps = c.comps /\ d.scan_info = c.scan_info
  BY Zenon DEF SameImage
<1>2. \A s : TablesUpTo(d, s) = TablesUpTo(c, s)
  <2> DEFINE dc(comps, k) == << "dc", comps[k].dc_tbl_no >>
             ac(comps, k) == << "ac", comps[k].ac_tbl_no >>
             Of(comps, s, k) ==
                IF s.Ss = 0 /\ s.Se = LastCoef THEN << dc(comps, k), ac(comps, k) >>
                ELSE IF s.Ss # 0 THEN << ac(comps, k) >>
                ELSE IF s.Ah = 0 THEN << dc(comps, k) >> ELSE << >>
             UpTo(comps, s) ==
                LET tables[k \in 0..Len(s.cur)] ==
                        IF k = 0 THEN << >>
                        ELSE tables[k - 1] \o Of(comps, s, s.cur[k].index)
                IN  tables
  <2>1. \A s : TablesUpTo(d, s) = UpTo(d.comps, s)
    BY Zenon DEF TablesUpTo, ScanTables
  <2>2. \A s : TablesUpTo(c, s) = UpTo(c.comps, s)
    BY Zenon DEF TablesUpTo, ScanTables
  <2> HIDE DEF UpTo
  <2> QED
    BY <1>1, <2>1, <2>2, Zenon
<1> QED
  BY <1>1, <1>2, Zenon DEF TablesOfScan, SOFCode, IsBaseline, NeedsPrecision, QuantTable

LEMMA SameFrame ==
    ASSUME NEW c, NEW tbl, NEW new,
           \A k \in 1..Len(c.comps) : new[QuantTable(c, k)].value = tbl[QuantTable(c, k)].value
    PROVE  SOFCode(c, new) = SOFCode(c, tbl)
BY Zenon DEF NeedsPrecision, SOFCode, IsBaseline

\* Steps that leave all of this alone.
LEMMA TablesStay ==
    ASSUME TablesInv, Active, pc # "error",
           UNCHANGED << cinfo, global_state, scan, entropy, writer, reader, master, images >>,
           done'.write_all = done.write_all, InPass' => InPass,
           pc' = "passes" => ~(Opt /\ master.pass_type = "output"),
           pc # "app" \/ pc' = "error" \/ ~master.call_pass_startup
    PROVE  TablesInv'
<1>1. TablesParts
  BY Zenon DEF TablesInv
<1>2. CASE pc' = "error"
  BY <1>2, NoTables
<1>3. CASE pc' # "error"
  <2>1. ~master.call_pass_startup
    BY <1>1, <1>3, Zenon DEF TablesParts, StartupInv
  <2>2. Opt' = Opt /\ (HeaderOut' => HeaderOut) /\ (FrameOut' => FrameOut)
    BY <2>1, Zenon DEF Opt, HeaderOut, FrameOut
  <2>3. HeaderInv' /\ FrameInv'
    BY <1>1, <2>2, Zenon DEF TablesParts, HeaderInv, FrameInv
  <2>4. OwnInv'
    BY <1>1, <2>2, Zenon DEF TablesParts, OwnInv
  <2> QED
    BY <1>1, <2>1, <2>3, <2>4, Zenon DEF TablesInv, TablesParts, StartupInv, ReaderInv,
       UsedInv
<1> QED
  BY <1>2, <1>3

LEMMA Uninterrupted ==
    ASSUME TablesInv, Active, pc \in {"main", "mcu", "rowdone"},
           UNCHANGED << cinfo, global_state, scan, entropy, writer, reader, master, images >>,
           done'.write_all = done.write_all, pc' # "passes"
    PROVE  TablesInv'
BY TablesStay DEF InPass

LEMMA WithinRowsTables ==
    ASSUME IndInv, TablesInv,
           \/ pre_process_data \/ pre_process_context \/ SendRow \/ ReturnLines
           \/ encode_mcu \/ SuspendLines \/ SuspendRaw
           \/ RowDoneLines \/ RowDoneRaw \/ RowDoneCrank
    PROVE  TablesInv'
<1>1. ASSUME pc \in {"main", "mcu", "rowdone"} PROVE Active
  BY <1>1 DEF IndInv, CallInv
<1>2. CASE pre_process_data \/ pre_process_context \/ SendRow
  BY <1>2, <1>1, Uninterrupted DEF pre_process_data, pre_process_context, SendRow, InMain,
     Unchanged_in_main, counts
<1>3. CASE ReturnLines
  BY <1>3, <1>1, Uninterrupted DEF ReturnLines, pipeline, counts
<1>4. CASE encode_mcu
  BY <1>4, <1>1, Uninterrupted DEF encode_mcu, UnchangedInCoef, IndInv, TypesInv,
     DoneFields
<1>5. CASE SuspendLines \/ SuspendRaw
  BY <1>5, <1>1, Uninterrupted DEF SuspendLines, SuspendRaw, Suspend, UnchangedInCoef
<1>6. CASE RowDoneLines \/ RowDoneRaw \/ RowDoneCrank
  BY <1>6, <1>1, Uninterrupted DEF RowDoneLines, RowDoneRaw, RowDoneCrank, UnchangedInCoef
<1> QED
  BY <1>2, <1>3, <1>4, <1>5, <1>6

LEMMA FinishCompressTables ==
    ASSUME IndInv, TablesInv, jpeg_finish_compress PROVE TablesInv'
<1>1. /\ pc = "app" /\ global_state # "START"
      /\ UNCHANGED << cinfo, global_state, scan, entropy, writer, reader, master, images, done >>
      /\ IF global_state = "WRCOEFS" THEN pc' = "passes"
         ELSE pc' = IF next_scanline < cinfo.image_height THEN "error" ELSE "finish_pass"
  BY Zenon DEF jpeg_finish_compress, pipeline, counts
<1>2. Active /\ pc # "error"
  BY <1>1, SMT DEF Active
<1>3. CASE global_state = "WRCOEFS"
  <2>1. ~FromApplication /\ pc' = "passes"
    BY <1>1, <1>3, SMT DEF FromApplication
  <2>2. ~master.call_pass_startup
    BY <1>2, <2>1, Zenon DEF TablesInv, TablesParts, StartupInv
  <2> QED
    BY <1>1, <1>2, <2>1, <2>2, TablesStay DEF InPass, IndInv, PassInv, PassCounted
<1>4. CASE global_state # "WRCOEFS"
  <2>1. CASE next_scanline < cinfo.image_height
    BY <1>1, <1>4, <2>1, NoTables, Zenon
  <2>2. CASE ~ next_scanline < cinfo.image_height
    <3>1. pc' # "passes"
      BY <1>1, <1>4, <2>2
    <3>2. ~master.call_pass_startup
      BY <1>2, SettingsStay, AcceptedIsSized, <2>2 DEF IndInv, Sized, TablesInv,
         TablesParts, StartupInv
    <3> QED
      BY <1>1, <1>2, <1>4, <3>1, <3>2, TablesStay DEF InPass, IndInv, TypesInv,
         FromApplication
  <2> QED
    BY <2>1, <2>2
<1> QED
  BY <1>3, <1>4

-----------------------------------------------------------------------------
(* The start of an image.                                                  *)

LEMMA FileStarted ==
    ASSUME OutOK(writer, reader), NEW all \in BOOLEAN, done' = NothingDone(all),
           SetOutput(OutputTo(WithTables(all), write_file_header))
    PROVE  /\ ReaderInv'
           /\ \A t \in TableNames : writer'.tbl[t].value = WithTables(all).tbl[t].value
<1> DEFINE w == WithTables(all)
           out == [w |-> w, rd |-> reader]
           o == Written(out, write_file_header)
<1>1. /\ OutOK(w, reader)
      /\ \A t \in TableNames : all => ~w.tbl[t].sent_table
  BY SuppressNothing
<1>2. \A t \in TableNames : writer'.tbl[t].value = w.tbl[t].value
  <2> HIDE DEF w
  <2> QED
    BY <1>1, PlainHeaders, SetOutputOK DEF w
<1> HIDE DEF w
<1>3. Pair(out) /\ out.w = w /\ out.rd = reader
  BY SMT DEF Pair
<1>4. writer' = o.w /\ reader' = o.rd
  BY Zenon DEF SetOutput, OutputTo, w
<1> HIDE DEF out
<1>5. /\ o.w.last_restart_interval = 0 /\ o.rd.ri = 0
      /\ \A t \in TableNames : o.w.tbl[t].sent_table <=> w.tbl[t].sent_table
  BY <1>1, <1>3, FileHeaderBrings
<1> HIDE DEF o
<1>6. ReaderInv'
  BY <1>1, <1>4, <1>5, SMT DEF ReaderInv, NothingDone
<1> QED
  BY <1>2, <1>6, Zenon DEF w

LEMMA MasterStarts ==
    ASSUME NEW m \in MasterRecord
    PROVE  /\ IsLast(m).call_pass_startup = m.call_pass_startup
           /\ \A b \in BOOLEAN : [m EXCEPT !.call_pass_startup = b].call_pass_startup = b
BY SMT DEF IsLast, MasterRecord

LEMMA DivisorsTaken ==
    ASSUME NEW w, NEW gather
    PROVE  /\ start_pass_fdctmgr(w, gather).gather = gather
           /\ \A t \in TableNames : start_pass_fdctmgr(w, gather).used[t] = w.tbl[t].value
<1> DEFINE used == [t \in TableNames |-> w.tbl[t].value]
           e == [gather |-> gather, used |-> used]
<1> HIDE DEF used
<1>1. e.gather = gather /\ e.used = used
  BY SMT
<1> QED
  BY <1>1, Zenon DEF start_pass_fdctmgr

LEMMA StartCompressTables ==
    ASSUME IndInv, NEW all \in BOOLEAN, jpeg_start_compress(all)
    PROVE  TablesInv'
<1> DEFINE c == Optimizing(cinfo)
           s == Setup(cinfo, 0)
           m == jinit_c_master_control(c, FALSE)
           w == WithTables(all)
           b == ~c.optimize_coding
           l == [m EXCEPT !.call_pass_startup = b]
<1>1. /\ Idle /\ ~BadParameters(cinfo)
      /\ SetOutput(OutputTo(w, write_file_header))
      /\ next_scanline' = 0
      /\ global_state' = IF cinfo.raw_data_in THEN "RAW_OK" ELSE "SCANNING"
      /\ done' = NothingDone(all) /\ pc' = pc
      /\ cinfo' = WithRestart(c, s) /\ scan' = s
      /\ master' = IsLast(l)
      /\ entropy' = start_pass_fdctmgr(w, c.optimize_coding)
  BY Zenon DEF jpeg_start_compress, StartMainPass
<1>2. Accepted(cinfo) /\ pc' = "app" /\ OutOK(writer, reader) /\ cinfo \in ParameterSet
  BY <1>1, AtRest, Zenon DEF Accepted
<1>3. Accepted(c) /\ c.optimize_coding \in BOOLEAN
  <2>1. c \in ParameterSet /\ SameImage(cinfo, c)
    BY <1>2, MasterParameters, Zenon
  <2> HIDE DEF c
  <2> QED
    BY <1>2, <2>1, StaysAccepted, ParameterTypes, Zenon
<1>4. m \in MasterRecord /\ m.scan_number = 0 /\ m.pass_type = "main"
  <2> HIDE DEF c
  <2> QED
    BY <1>3, NewMaster, Zenon
<1> HIDE DEF m, w, c
<1>5. /\ master'.call_pass_startup = b /\ master'.scan_number = 0
      /\ master'.pass_type = "main"
  <2>1. b \in BOOLEAN
    OBVIOUS
  <2> HIDE DEF b
  <2>2. SameCounters(m, l) /\ l.call_pass_startup = b
    BY <1>4, <2>1, MasterStartup, MasterStarts
  <2> HIDE DEF l
  <2>3. l \in MasterRecord /\ l.pass_type = m.pass_type /\ l.scan_number = m.scan_number
    BY <2>2, Zenon DEF SameCounters
  <2> QED
    BY <1>1, <1>4, <2>2, <2>3, MasterLast, MasterStarts, ZenonT(40)
<1>6. /\ entropy'.gather = c.optimize_coding
      /\ \A t \in TableNames : entropy'.used[t] = w.tbl[t].value
  BY <1>1, DivisorsTaken, Zenon
<1>7. ReaderInv' /\ \A t \in TableNames : writer'.tbl[t].value = w.tbl[t].value
  BY <1>1, <1>2, FileStarted, Zenon DEF w
<1>8. ~HeaderOut'
  BY <1>5, <1>6, Zenon DEF HeaderOut
<1>9. StartupInv' /\ UsedInv'
  BY <1>1, <1>2, <1>6, <1>7 DEF StartupInv, UsedInv, FromApplication
<1> QED
  BY <1>7, <1>8, <1>5, <1>9 DEF TablesInv, TablesParts, HeaderInv, FrameInv, OwnInv,
     FrameOut

LEMMA WriteCoefficientsTables ==
    ASSUME IndInv, jpeg_write_coefficients
    PROVE  TablesInv'
<1> DEFINE c == Optimizing(cinfo)
           m == jinit_c_master_control(c, TRUE)
           w == WithTables(TRUE)
<1>1. /\ Idle /\ ~BadParameters(cinfo)
      /\ SetOutput(OutputTo(w, write_file_header))
      /\ next_scanline' = 0 /\ global_state' = "WRCOEFS"
      /\ done' = NothingDone(TRUE) /\ pc' = pc
      /\ master' = m /\ entropy' = start_pass_fdctmgr(writer, FALSE)
  BY Zenon DEF jpeg_write_coefficients
<1>2. Accepted(cinfo) /\ pc' = "app" /\ OutOK(writer, reader) /\ cinfo \in ParameterSet
  BY <1>1, AtRest, Zenon DEF Accepted
<1>3. Accepted(c)
  BY <1>2, MasterParameters, StaysAccepted, Zenon
<1>4. m.scan_number = 0
  <2> HIDE DEF c
  <2> QED
    BY <1>3, NewMaster, Zenon
<1>5. m.call_pass_startup = FALSE
  BY SMT DEF jinit_c_master_control
<1> HIDE DEF m, w, c
<1>6. \A t \in TableNames : entropy'.used[t] = writer.tbl[t].value
  BY <1>1, DivisorsTaken, Zenon
<1>7. /\ ReaderInv' /\ \A t \in TableNames : writer'.tbl[t].value = w.tbl[t].value
      /\ \A t \in TableNames : w.tbl[t].value = writer.tbl[t].value
  BY <1>1, <1>2, FileStarted, SuppressNothing DEF w
<1>8. ~InPass' /\ pc' # "passes"
  BY <1>2, <1>1 DEF InPass, FromApplication
<1>9. ~FrameOut' /\ ~HeaderOut'
  <2>1. ~ master'.scan_number > 0
    BY <1>1, <1>4
  <2> QED
    BY <1>8, <2>1, Zenon DEF FrameOut, HeaderOut
<1>10. StartupInv' /\ UsedInv'
  BY <1>1, <1>5, <1>6, <1>7, Zenon DEF StartupInv, UsedInv
<1> QED
  BY <1>7, <1>8, <1>9, <1>10, Zenon DEF TablesInv, TablesParts, HeaderInv, FrameInv, OwnInv

-----------------------------------------------------------------------------
(* The headers of a pass.                                                  *)

LEMMA ScanTableNames ==
    ASSUME NEW c \in ParameterSet, NEW s, ScanOf(c, s)
    PROVE  ToSet(TablesOfScan(c, s)) \subseteq HuffNames
           /\ ToSet(TablesOfScan(c, s)) \subseteq TableNames
BY TablesOfScanType DEF ToSet

LEMMA NotHuffman == \A c, k : QuantTable(c, k) \notin HuffNames
BY SMT DEF QuantTable, HuffNames

\* What a pass finds, and what its headers have to reach.
FrameSent(c, w, rd) ==
    /\ rd.sof = SOFCode(c, w.tbl)
    /\ \A k \in 1..Len(c.comps) : w.tbl[QuantTable(c, k)].sent_table
ScanSent(c, s, w, rd) ==
    /\ rd.scan = s /\ rd.ri = c.restart_interval
    /\ \A t \in ToSet(TablesOfScan(c, s)) : w.tbl[t].sent_table

LEMMA SameFrameSent ==
    ASSUME NEW c, NEW d, SameImage(c, d), NEW w, NEW rd, FrameSent(c, w, rd)
    PROVE  FrameSent(d, w, rd)
BY SameTables DEF FrameSent

LEMMA FrameStaysSent ==
    ASSUME NEW c \in ParameterSet, NEW v, NEW w, NEW rd, NEW new,
           \A t \in TableNames : /\ w.tbl[t].value = v.tbl[t].value
                                 /\ v.tbl[t].sent_table => w.tbl[t].sent_table,
           new.sof = rd.sof, FrameSent(c, v, rd)
    PROVE  FrameSent(c, w, new)
BY QuantTables, SameFrame DEF FrameSent

LEMMA HeadersReach ==
    ASSUME OutOK(writer, reader), NEW c \in ParameterSet, NEW s, ScanOf(c, s),
           NEW first \in BOOLEAN, ReaderInv, done'.write_all = done.write_all,
           SetOutput(OutputTo(writer, Headers(c, s, writer.tbl, first))),
           first \/ FrameSent(c, writer, reader)
    PROVE  /\ ReaderInv' /\ ScanSent(c, s, writer', reader') /\ FrameSent(c, writer', reader')
           /\ \A t \in TableNames : writer'.tbl[t].value = writer.tbl[t].value
<1> DEFINE out == [w |-> writer, rd |-> reader]
           o == Written(out, Headers(c, s, writer.tbl, first))
<1>1. Pair(out) /\ out.w = writer /\ out.rd = reader
  BY SMT DEF Pair
<1>2. writer' = o.w /\ reader' = o.rd
  BY Zenon DEF SetOutput, OutputTo
<1> HIDE DEF out
<1>3. HeadersTold(out, o, c, s, writer.tbl, first)
  BY <1>1, HeadersBring
<1> HIDE DEF o
<1>4. /\ \A t \in TableNames :
            /\ writer'.tbl[t].value = writer.tbl[t].value
            /\ writer.tbl[t].sent_table => writer'.tbl[t].sent_table
            /\ writer'.tbl[t].sent_table => writer.tbl[t].sent_table \/ t \in reader'.here
      /\ reader.here \subseteq reader'.here
      /\ writer.last_restart_interval = reader.ri => writer'.last_restart_interval = reader'.ri
  BY <1>1, <1>2, <1>3, Zenon DEF HeadersTold, SameValues, TablesAdded
<1>5. ReaderInv'
  BY <1>4, Zenon DEF ReaderInv
<1>6. ScanSent(c, s, writer', reader')
  BY <1>5, <1>2, <1>3, Zenon DEF ReaderInv, HeadersTold, ScanSent
<1>7. CASE first
  BY <1>2, <1>3, <1>7, QuantTables, <1>4, SameFrame, <1>5, <1>6 DEF HeadersTold, FrameSent
<1>8. CASE ~first
  <2>1. reader'.sof = reader.sof
    BY <1>1, <1>2, <1>3, <1>8, Zenon DEF HeadersTold
  <2>2. FrameSent(c, writer', reader')
    BY <1>4, <1>8, <2>1, FrameStaysSent, Zenon
  <2> QED
    BY <1>4, <1>5, <1>6, <2>2, Zenon
<1> QED
  BY <1>7, <1>8

LEMMA StartupTables ==
    ASSUME IndInv, TablesInv, pc = "app", FromApplication, PassStartup,
           UNCHANGED << cinfo, global_state, scan, entropy, images, done >>,
           pc' \in {"main", "mcu"}
    PROVE  TablesInv'
<1>1. Active /\ InPass /\ pc # "error" /\ pc' # "app" /\ InPass' /\ pc' # "passes"
  BY SMT DEF Active, InPass, FromApplication
<1>2. CASE ~master.call_pass_startup
  BY <1>2, <1>1, TablesStay, Zenon DEF PassStartup
<1>3. CASE master.call_pass_startup
  <2>1. /\ SetOutput(OutputTo(writer, Headers(cinfo, scan, writer.tbl, TRUE)))
        /\ master' = [master EXCEPT !.call_pass_startup = FALSE]
    BY <1>3, Zenon DEF PassStartup, Headers
  <2>2. master \in MasterRecord /\ OutOK(writer, reader)
    BY <1>1, SettingsStay, Zenon DEF IndInv
  <2>3. SameCounters(master, master') /\ master'.call_pass_startup = FALSE
    BY <2>1, <2>2, StartupMaster, MasterStarts, Zenon
  <2>4. cinfo \in ParameterSet /\ ScanOf(cinfo, scan)
    BY <1>1, ScanOfPass, Zenon DEF Accepted
  <2>5. ReaderInv /\ UsedInv /\ OwnInv
    BY <1>1, Zenon DEF TablesInv, TablesParts
  <2>6. /\ ReaderInv' /\ ScanSent(cinfo, scan, writer', reader')
        /\ FrameSent(cinfo, writer', reader')
        /\ \A t \in TableNames : writer'.tbl[t].value = writer.tbl[t].value
    BY <2>1, <2>2, <2>4, <2>5, HeadersReach, Zenon
  <2>7. HeaderInv' /\ FrameInv'
    BY <2>6, Zenon DEF HeaderInv, FrameInv, ScanSent, FrameSent
  <2> QED
    BY <2>6, <1>1, <2>3, <2>5, <2>7, <2>4, ScanTableNames, Zenon DEF TablesInv,
       TablesParts, StartupInv, UsedInv, Opt, SameCounters, OwnInv
<1> QED
  BY <1>2, <1>3

LEMMA DataTables ==
    ASSUME IndInv, TablesInv,
           (\E n \in 1..MaxRows : jpeg_write_scanlines(n)) \/ jpeg_write_raw_data
    PROVE  TablesInv'
BY StartupTables, Zenon DEF jpeg_write_scanlines, jpeg_write_raw_data, pipeline, counts,
   FromApplication

LEMMA EncoderStarts ==
    ASSUME NEW gather, UsedInv
    PROVE  /\ start_pass_entropy(writer, gather).gather = gather
           /\ \A t \in TableNames :
                start_pass_entropy(writer, gather).used[t] = writer.tbl[t].value
<1> DEFINE used == [t \in TableNames |-> IF t \in HuffNames THEN writer.tbl[t].value
                                         ELSE entropy.used[t]]
           e == [gather |-> gather, used |-> used]
<1>1. start_pass_entropy(writer, gather) = e
  BY Zenon DEF start_pass_entropy
<1>2. \A t \in TableNames : used[t] = writer.tbl[t].value
  BY Zenon DEF UsedInv
<1> HIDE DEF used
<1>3. e.gather = gather /\ e.used = used
  BY SMT
<1> QED
  BY <1>1, <1>2, <1>3, Zenon

\* Of the counters of a pass that is begun.
LEMMA NoLateStartup ==
    ASSUME NEW m \in MasterRecord, m.call_pass_startup = FALSE
    PROVE  /\ IsLast(m).call_pass_startup = FALSE /\ IsLast(m).pass_type = m.pass_type
           /\ IsLast(m).scan_number = m.scan_number
BY MasterLast, MasterStarts, Zenon

LEMMA PassSettings ==
    ASSUME IndInv, More, NEW s, s = Setup(cinfo, master.scan_number),
           cinfo' = WithRestart(cinfo, s), done' = NewPass
    PROVE  /\ cinfo \in ParameterSet /\ cinfo' \in ParameterSet /\ SameImage(cinfo, cinfo')
           /\ ScanOf(cinfo, s) /\ ScanOf(cinfo', s) /\ Opt' = Opt
           /\ done'.write_all = done.write_all
<1>1. /\ Accepted(cinfo) /\ cinfo \in ParameterSet
      /\ master.scan_number \in 0..num_scans(cinfo) - 1
  BY NextScanIs, Zenon DEF Accepted
<1>2. done'.write_all = done.write_all
  BY DEF IndInv, TypesInv, NewPass, DoneFields
<1> QED
  BY <1>1, SetupShape, RestartParameters, <1>2 DEF ScanOf, SameImage, Opt

LEMMA PrepareHuffOptTables ==
    ASSUME IndInv, TablesInv, PrepareHuffOpt PROVE TablesInv'
<1> DEFINE m == [master EXCEPT !.call_pass_startup = FALSE]
           s == Setup(cinfo, master.scan_number)
<1>1. /\ More /\ master.pass_type = "huff_opt"
      /\ scan' = s /\ cinfo' = WithRestart(cinfo, s)
      /\ entropy' = start_pass_entropy(writer, TRUE)
      /\ master' = IsLast(m) /\ done' = NewPass /\ pc' = "mcu"
      /\ UNCHANGED << global_state, writer, reader, images >>
  BY Zenon DEF PrepareHuffOpt, NextScan, counts
<1>2. Active /\ pc = "passes" /\ master \in MasterRecord
  BY <1>1, NextScanIs, SettingsStay, Zenon DEF More
<1>3. ReaderInv /\ UsedInv /\ FrameInv
  BY <1>2 DEF TablesInv, TablesParts
<1> HIDE DEF s
<1>4. /\ cinfo \in ParameterSet /\ SameImage(cinfo, cinfo') /\ done'.write_all = done.write_all
  BY <1>1, PassSettings, Zenon DEF s
<1>5. /\ master'.call_pass_startup = FALSE /\ master'.pass_type = "huff_opt"
      /\ master'.scan_number = master.scan_number
  <2>1. SameCounters(master, m) /\ m.call_pass_startup = FALSE
    BY <1>2, MasterStartup, MasterStarts
  <2> HIDE DEF m
  <2> QED
    BY <1>1, <2>1, NoLateStartup, Zenon DEF SameCounters
<1>6. /\ entropy'.gather = TRUE
      /\ \A t \in TableNames : entropy'.used[t] = writer.tbl[t].value
  BY <1>1, <1>3, EncoderStarts, Zenon
<1>7. ~HeaderOut' /\ (FrameOut' => FrameOut)
  BY <1>5, <1>6, Zenon DEF HeaderOut, FrameOut
<1>8. FrameInv'
  <2> SUFFICES ASSUME FrameOut' PROVE FrameSent(cinfo', writer', reader')
    BY Zenon DEF FrameInv, FrameSent
  <2>1. FrameSent(cinfo, writer, reader)
    BY <1>3, <1>7, Zenon DEF FrameInv, FrameSent
  <2> QED
    BY <1>1, <1>4, <2>1, SameFrameSent, Zenon
<1> QED
  BY <1>7, <1>8, <1>5, <1>1, <1>3, <1>4, <1>6 DEF TablesInv, TablesParts, HeaderInv,
     OwnInv, StartupInv, ReaderInv, UsedInv

\* A refinement of DC coefficients needs no tables, and no statistics.
LEMMA RefinementScan ==
    ASSUME NEW c, Accepted(c), NEW n \in 0..num_scans(c) - 1,
           Setup(c, n).Ss = 0, Setup(c, n).Ah # 0
    PROVE  ToSet(TablesOfScan(c, Setup(c, n))) = {}
<1> DEFINE p == select_scan_parameters(c, n)
           s == Setup(c, n)
<1>1. s.Ss = p.Ss /\ s.Se = p.Se /\ s.Ah = p.Ah
  <2> HIDE DEF p
  <2> QED
    BY DEF per_scan_setup, Setup, p
<1>2. c \in ParameterSet /\ Len(c.scan_info) \in Nat
  BY ParameterTypes, Zenon DEF Accepted
<1>3. c.scan_info # << >>
  <2> SUFFICES ASSUME c.scan_info = << >> PROVE FALSE
    OBVIOUS
  <2> QED
    BY <1>1 DEF Scan, select_scan_parameters
<1>4. /\ validate_script(c.scan_info, Len(c.comps)) /\ num_scans(c) = Len(c.scan_info)
      /\ p = c.scan_info[n + 1]
  BY <1>3, Zenon DEF Accepted, BadParameters, num_scans, select_scan_parameters
<1>5. n + 1 \in 1..Len(c.scan_info) /\ 1 \in 1..Len(c.scan_info)
  BY <1>2, <1>4
<1> HIDE DEF p
<1>6. \A k \in 1..Len(c.scan_info) :
        IF Progressive(c.scan_info) THEN GoodBand(c.scan_info[k])
        ELSE c.scan_info[k].Ah = 0
  BY <1>2, <1>4, ScriptScans, Zenon DEF GoodScan
<1>7. Progressive(c.scan_info)
  BY <1>1, <1>4, <1>5, <1>6, Zenon
<1>8. GoodBand(p) /\ GoodBand(c.scan_info[1])
  BY <1>4, <1>5, <1>6, <1>7, Zenon
<1>9. LastCoef # 0
  <2> DEFINE q == c.scan_info[1]
  <2>1. q.Ss # 0 \/ q.Se # LastCoef
    BY <1>7, Zenon DEF Progressive
  <2>2. /\ 0 <= q.Ss /\ q.Ss <= q.Se /\ q.Se <= LastCoef
        /\ q.Ss = 0 => q.Se = 0
    BY <1>8, Zenon DEF GoodBand
  <2>3. q.Ss \in Int /\ q.Se \in Int
    <3>1. \A S : \A x \in Seq(S) : \A k \in 1..Len(x) : x[k] \in S
      OBVIOUS
    <3>2. q \in [comps : Seq(Int), Ss : Int, Se : Int, Ah : Int, Al : Int]
      BY <1>5, <1>2, <3>1, Zenon DEF ParameterSet
    <3> HIDE DEF q
    <3> QED
      BY <3>2
  <2> HIDE DEF q
  <2> QED
    BY <2>1, <2>2, <2>3
<1> HIDE DEF s
<1>10. ScanOf(c, s)
  BY SetupShape DEF s, ScanOf
<1>11. TablesOfScan(c, s) = << >>
  BY <1>2, <1>1, <1>8, <1>9, <1>10, TablesOfScanType, Zenon DEF ScanTables, s, GoodBand
<1> QED
  BY <1>11 DEF s, ToSet

LEMMA PrepareOutputTables ==
    ASSUME IndInv, TablesInv, PrepareOutput PROVE TablesInv'
<1> DEFINE m == OutputPass
           s == OutputScan
           first == (master.scan_number = 0)
<1>1. /\ IsOutputPass /\ More /\ scan' = s /\ cinfo' = WithRestart(cinfo, s)
      /\ entropy' = start_pass_entropy(writer, FALSE)
      /\ master' = IsLast(m) /\ done' = NewPass
      /\ \/ SetOutput(OutputTo(writer, OutputHeaders(cinfo', s))) /\ pc' = "mcu"
         \/ FailsWithin(writer, OutputHeaders(cinfo', s))
      /\ UNCHANGED << global_state, images >>
  BY Zenon DEF PrepareOutput, IsOutputPass
<1>2. CASE pc' = "error"
  BY <1>2, NoTables
<1>3. CASE pc' # "error"
  <2>1. SetOutput(OutputTo(writer, Headers(cinfo', s, writer.tbl, first))) /\ pc' = "mcu"
    BY <1>1, <1>3, Zenon DEF FailsWithin, Headers, OutputHeaders
  <2>2. Active /\ pc = "passes" /\ master \in MasterRecord /\ OutOK(writer, reader)
        /\ Accepted(cinfo) /\ master.scan_number \in 0..num_scans(cinfo) - 1
    BY <1>1, NextScanIs, SettingsStay, Zenon DEF More
  <2>3. ReaderInv /\ UsedInv /\ FrameInv /\ OwnInv
    BY <2>2 DEF TablesInv, TablesParts
  <2>4. /\ m \in MasterRecord /\ m.pass_type = "output"
        /\ m.scan_number = master.scan_number /\ s = Setup(cinfo, master.scan_number)
    BY <1>1, OutputPassIs, Zenon
  <2>5. m.call_pass_startup = FALSE
    BY <2>2, SMT DEF OutputPass, MasterRecord
  <2> HIDE DEF m, s
  <2>6. /\ cinfo \in ParameterSet /\ cinfo' \in ParameterSet /\ SameImage(cinfo, cinfo')
        /\ ScanOf(cinfo, s) /\ ScanOf(cinfo', s) /\ Opt' = Opt
        /\ done'.write_all = done.write_all
    BY <1>1, <2>4, PassSettings, Zenon
  <2>7. /\ master'.call_pass_startup = FALSE /\ master'.pass_type = "output"
        /\ master'.scan_number = master.scan_number
    BY <1>1, <2>4, <2>5, NoLateStartup, Zenon
  <2>8. first \/ FrameSent(cinfo', writer, reader)
    <3> SUFFICES ASSUME ~first PROVE FrameSent(cinfo', writer, reader)
      OBVIOUS
    <3> QED
      BY <2>6, <2>3, <2>2, SameFrameSent DEF FrameInv, FrameOut, FrameSent, MasterRecord
  <2>9. /\ ReaderInv' /\ ScanSent(cinfo', s, writer', reader') /\ FrameSent(cinfo', writer', reader')
        /\ \A t \in TableNames : writer'.tbl[t].value = writer.tbl[t].value
    <3>1. first \in BOOLEAN
      OBVIOUS
    <3> HIDE DEF first
    <3> QED
      BY <2>1, <2>2, <2>3, <2>6, <2>8, <3>1, HeadersReach, Zenon
  <2>10. HeaderInv' /\ FrameInv'
    BY <1>1, <2>9, Zenon DEF HeaderInv, FrameInv, ScanSent, FrameSent
  <2>11. OwnInv'
    <3> SUFFICES ASSUME Opt
                 PROVE  \A t \in ToSet(TablesOfScan(cinfo', scan')) :
                            writer'.tbl[t].value = Optimized(images', master'.scan_number)
      BY <2>6, Zenon DEF OwnInv
    <3>1. TablesOfScan(cinfo', scan') = TablesOfScan(cinfo, s)
      BY <1>1, <2>6, SameTables, Zenon
    <3>2. ToSet(TablesOfScan(cinfo, s)) \subseteq TableNames
      BY <2>6, ScanTableNames, Zenon
    <3>3. CASE master.pass_type = "output"
      BY <3>3, <1>1, <2>2, <2>3, <2>7, <2>9, <3>1, <3>2, Zenon DEF s, OutputScan, Opt,
         OwnInv
    <3>4. CASE master.pass_type # "output"
      BY <1>1, <3>4, <2>2, <2>4, RefinementScan, <3>1, Zenon DEF IsOutputPass,
         SkipsGather, NextScan
    <3> QED
      BY <3>3, <3>4
  <2> QED
    BY <2>9, <2>7, <1>1, <2>3, EncoderStarts, <2>10, <2>11, Zenon DEF TablesInv,
       TablesParts, StartupInv, UsedInv
<1> QED
  BY <1>2, <1>3

-----------------------------------------------------------------------------
(* The end of a pass.                                                      *)

LEMMA GatheredTables ==
    ASSUME OutOK(writer, reader), writer' = FinishGather
    PROVE  LET inScan == ToSet(TablesOfScan(cinfo, scan))
           IN  /\ writer'.last_restart_interval = writer.last_restart_interval
               /\ \A t \in TableNames :
                    /\ t \in inScan => /\ writer'.tbl[t].value = Optimized(images, master.scan_number)
                                       /\ ~writer'.tbl[t].sent_table
                    /\ t \notin inScan => writer'.tbl[t] = writer.tbl[t]
<1> DEFINE made == [value |-> Optimized(images, master.scan_number), sent_table |-> FALSE]
           inScan == ToSet(TablesOfScan(cinfo, scan))
           tbl == [t \in DOMAIN writer.tbl |-> IF t \in inScan THEN made ELSE writer.tbl[t]]
<1>1. writer' = [writer EXCEPT !.tbl = tbl]
  BY Zenon DEF FinishGather
<1>2. made.value = Optimized(images, master.scan_number) /\ made.sent_table = FALSE
  OBVIOUS
<1>3. DOMAIN writer.tbl = TableNames /\ DOMAIN writer = {"last_restart_interval", "tbl"}
  BY Zenon DEF OutOK
<1> HIDE DEF made, inScan
<1>4. \A t \in TableNames : tbl[t] = IF t \in inScan THEN made ELSE writer.tbl[t]
  BY <1>3, Zenon
<1> HIDE DEF tbl
<1>5. /\ \A t \in TableNames : t \in inScan => tbl[t] = made
      /\ \A t \in TableNames : t \notin inScan => tbl[t] = writer.tbl[t]
  BY <1>4, Zenon
<1> QED
  BY <1>2, <1>1, <1>3, <1>5, SMT DEF inScan

LEMMA PassCounterStartup ==
    ASSUME NEW m \in MasterRecord, NEW opt
    PROVE  NextPass(m, opt).call_pass_startup = m.call_pass_startup
BY SMT DEF NextPass, MasterRecord

LEMMA FinishPassTables ==
    ASSUME IndInv, TablesInv, finish_pass_master PROVE TablesInv'
<1> DEFINE sn == master.scan_number
<1>1. /\ pc = "finish_pass" /\ pc' = "passes" /\ master' = NextPass(master, Opt)
      /\ IF entropy.gather THEN writer' = FinishGather /\ UNCHANGED done
         ELSE done' = [done EXCEPT !.scans = Append(@, sn)] /\ UNCHANGED writer
      /\ UNCHANGED << cinfo, global_state, reader, images, scan, entropy >>
  BY Zenon DEF finish_pass_master, pipeline, counts, Opt
<1>2. /\ Active /\ InPass /\ pc # "error" /\ pc # "app"
  BY <1>1 DEF IndInv, CallInv, InPass
<1>3. /\ master \in MasterRecord /\ PassCounted
      /\ entropy.gather = (Opt /\ master.pass_type # "output")
      /\ DOMAIN done = DoneFields /\ OutOK(writer, reader)
  BY <1>2, SettingsStay, Zenon DEF IndInv, PassInv
<1>4. cinfo \in ParameterSet /\ ScanOf(cinfo, scan) /\ Opt \in BOOLEAN
  BY <1>2, ScanOfPass, ParameterTypes, Zenon DEF Accepted, Opt
<1>5. /\ ReaderInv /\ UsedInv /\ HeaderInv /\ FrameInv /\ ~master.call_pass_startup
  BY <1>2, Zenon DEF TablesInv, TablesParts, StartupInv
<1>6. /\ master'.pass_type = (IF master.pass_type = "output" /\ Opt THEN "huff_opt" ELSE "output")
      /\ master'.scan_number = IF master.pass_type = "output" \/ (master.pass_type = "main" /\ ~Opt)
                               THEN sn + 1 ELSE sn
      /\ master'.call_pass_startup = master.call_pass_startup
  BY <1>1, <1>3, <1>4, NextPassIs, PassCounterStartup
<1>7. ~InPass' /\ ~HeaderOut' /\ Opt' = Opt
  BY <1>1 DEF InPass, HeaderOut, Opt
<1>8. StartupInv'
  BY <1>5, <1>6, Zenon DEF StartupInv
<1>9. CASE ~entropy.gather
  <2>1. ReaderInv' /\ UsedInv' /\ HeaderInv' /\ FrameInv'
    BY <1>1, <1>5, <1>7, <1>9, <1>3, <1>2 DEF ReaderInv, UsedInv, HeaderInv, FrameInv,
       FrameOut, HeaderOut, DoneFields
  <2> QED
    BY <1>8, <2>1, <1>7, <1>6, <1>3, <1>9 DEF TablesInv, TablesParts, OwnInv
<1>10. CASE entropy.gather
  <2>1. master'.pass_type = "output" /\ master'.scan_number = sn
    BY <1>6, <1>3, <1>10, Zenon
  <2>2. writer' = FinishGather /\ done' = done
    BY <1>1, <1>10, Zenon
  <2> DEFINE inScan == ToSet(TablesOfScan(cinfo, scan))
  <2>3. /\ writer'.last_restart_interval = writer.last_restart_interval
        /\ \A t \in TableNames :
            /\ t \in inScan => /\ writer'.tbl[t].value = Optimized(images, sn)
                               /\ ~writer'.tbl[t].sent_table
            /\ t \notin inScan => writer'.tbl[t] = writer.tbl[t]
    BY <1>3, <2>2, GatheredTables
  <2>4. inScan \subseteq HuffNames /\ inScan \subseteq TableNames
    BY <1>4, ScanTableNames
  <2> HIDE DEF inScan
  <2>5. ReaderInv'
    BY <2>3, <1>1, <1>5, <2>2, Zenon DEF ReaderInv
  <2>6. \A k \in 1..Len(cinfo.comps) :
            writer'.tbl[QuantTable(cinfo, k)] = writer.tbl[QuantTable(cinfo, k)]
    BY <1>4, <2>3, <2>4, QuantTables, NotHuffman, Zenon
  <2>7. FrameInv'
    <3> SUFFICES ASSUME FrameOut'
                 PROVE  /\ reader'.sof = SOFCode(cinfo', writer'.tbl)
                        /\ \A k \in 1..Len(cinfo'.comps) :
                                writer'.tbl[QuantTable(cinfo', k)].sent_table
      BY Zenon DEF FrameInv
    <3>1. SOFCode(cinfo, writer'.tbl) = SOFCode(cinfo, writer.tbl)
      BY <2>6, SameFrame, Zenon
    <3> QED
      BY <1>1, <1>5, <2>6, <1>7, <2>1, <3>1, Zenon DEF FrameInv, FrameOut
  <2>8. OwnInv'
    BY <1>1, <2>1, <2>3, <2>4, Zenon DEF OwnInv, inScan
  <2> QED
    BY <1>7, <1>8, <2>5, <1>1, <1>5, <2>3, <2>4, <2>7, <2>8, Zenon DEF TablesInv,
       TablesParts, HeaderInv, UsedInv
<1> QED
  BY <1>9, <1>10

-----------------------------------------------------------------------------
(* The invariant of the tables, together with the one above.               *)

LEMMA InitTables == Init => TablesInv
BY Zenon DEF Init, TablesInv, Active

LEMMA StutterTables == ASSUME TablesInv, UNCHANGED vars PROVE TablesInv'
<1>1. UNCHANGED << cinfo, global_state, next_scanline, scan, entropy, writer, reader, master,
                   images, pc, done >>
  BY Zenon DEF vars
<1>2. (Active' <=> Active) /\ (FromApplication' <=> FromApplication) /\ (Opt' <=> Opt)
  BY <1>1, Zenon DEF Active, FromApplication, Opt
<1>3. InPass' <=> InPass
  BY <1>1, <1>2, Zenon DEF InPass
<1>4. (HeaderOut' <=> HeaderOut)
  BY <1>1, <1>3, Zenon DEF HeaderOut
<1>5. FrameOut' <=> FrameOut
  BY <1>1, <1>4, Zenon DEF FrameOut
<1>6. ASSUME TablesParts PROVE TablesParts'
  BY <1>1, <1>2, <1>3, <1>6, <1>4, <1>5, Zenon DEF TablesParts, StartupInv, ReaderInv,
     UsedInv, HeaderInv, FrameInv, OwnInv
<1> QED
  BY <1>1, <1>2, <1>6, Zenon DEF TablesInv

\* The steps of an image in which the destination refuses a marker.
GaveUp == StartupFails \/ SuspendCrank \/ FlushFails \/ TrailerFails

\* Between images, and after an error, nothing is claimed.
LEMMA IdleTables ==
    ASSUME Tables \/ BadScan \/ (\E all \in BOOLEAN : StartFails(all))
    PROVE  TablesInv'
<1>1. CASE Tables
  <2>1. global_state = "START" /\ global_state' = global_state
    BY <1>1, Zenon DEF Tables, jpeg_set_defaults, jpeg_add_quant_table, jpeg_set_quality,
       NewQuantTables, jpeg_simple_progression, SuppressTables, jpeg_write_tables, Between, Idle
  <2> QED
    BY <2>1, NoTables, Zenon
<1>2. CASE BadScan \/ (\E all \in BOOLEAN : StartFails(all))
  BY <1>2, NoTables DEF BadScan, StartFails
<1> QED
  BY <1>1, <1>2

LEMMA EndTables ==
    ASSUME GaveUp \/ Trailer \/ jpeg_abort_compress
    PROVE  TablesInv'
<1>1. CASE GaveUp
  BY <1>1, NoTables DEF GaveUp, StartupFails, SuspendCrank, FlushFails, TrailerFails,
     FailsWithin
<1>2. CASE Trailer \/ jpeg_abort_compress
  BY <1>2, NoTables DEF Trailer, jpeg_abort_compress
<1> QED
  BY <1>1, <1>2

LEMMA NextTables == ASSUME IndInv, TablesInv, Next PROVE TablesInv'
<1>1. CASE Tables \/ BadScan \/ (\E all \in BOOLEAN : StartFails(all))
  BY <1>1, IdleTables
<1>2. CASE GaveUp \/ Trailer \/ jpeg_abort_compress
  BY <1>2, EndTables
<1>3. CASE \E all \in BOOLEAN : jpeg_start_compress(all)
  BY <1>3, StartCompressTables
<1>4. CASE jpeg_write_coefficients
  BY <1>4, WriteCoefficientsTables
<1>5. CASE (\E n \in 1..MaxRows : jpeg_write_scanlines(n)) \/ jpeg_write_raw_data
  BY <1>5, DataTables
<1>6. CASE \/ pre_process_data \/ pre_process_context \/ SendRow \/ ReturnLines
           \/ encode_mcu \/ SuspendLines \/ SuspendRaw
           \/ RowDoneLines \/ RowDoneRaw \/ RowDoneCrank
  BY <1>6, WithinRowsTables
<1>7. CASE jpeg_finish_compress
  BY <1>7, FinishCompressTables
<1>8. CASE finish_pass_master
  BY <1>8, FinishPassTables
<1>9. CASE PrepareHuffOpt
  BY <1>9, PrepareHuffOptTables
<1>10. CASE PrepareOutput
  BY <1>10, PrepareOutputTables
<1> QED
  BY <1>1, <1>2, <1>3, <1>4, <1>5, <1>6, <1>7, <1>8, <1>9, <1>10, Zenon
     DEF Next, Start, Data, Coefficients, Finish, GaveUp

LEMMA TablesInvHolds == Spec => [](IndInv /\ TablesInv)
<1>1. Init => IndInv /\ TablesInv
  BY InitInd, InitTables, Zenon
<1>2. IndInv /\ TablesInv /\ [Next]_vars => (IndInv /\ TablesInv)'
  <2>1. ASSUME IndInv, TablesInv, Next PROVE IndInv' /\ TablesInv'
    BY <2>1, NextInd, NextTables
  <2>2. ASSUME IndInv, TablesInv, UNCHANGED vars PROVE IndInv' /\ TablesInv'
    BY <2>2, StutterInd, StutterTables, Zenon
  <2> QED
    BY <2>1, <2>2, Zenon
<1> QED
  BY <1>1, <1>2, PTL DEF Spec

\* While data is written, all parts of the invariant speak.
LEMMA WhileWriting ==
    ASSUME IndInv, TablesInv, WritingData
    PROVE  /\ Active /\ InPass /\ HeaderOut /\ FrameOut /\ TablesParts
           /\ cinfo \in ParameterSet /\ ScanOf(cinfo, scan) /\ OutOK(writer, reader)
           /\ Opt => master.pass_type = "output"
<1>1. pc \in {"mcu", "rowdone"} /\ ~entropy.gather
  BY Zenon DEF WritingData
<1>2. InPass /\ pc # "error" /\ pc # "app"
  BY <1>1, SMT DEF InPass
<1>3. Active
  BY <1>1 DEF IndInv, CallInv
<1>4. TablesParts
  BY <1>2, <1>3, Zenon DEF TablesInv
<1>5. entropy.gather = (Opt /\ master.pass_type # "output")
  BY <1>2, <1>3, Zenon DEF IndInv, PassInv
<1> QED
  BY <1>1, <1>2, <1>3, <1>4, ScanOfPass, SettingsStay, <1>5, Zenon DEF IndInv, Accepted,
     HeaderOut, FrameOut, TablesParts, StartupInv

\* What is needed has been sent, and is what the data is coded with.
LEMMA NeededIsSent ==
    ASSUME IndInv, TablesInv, WritingData, NEW t \in Needed
    PROVE  /\ t \in TableNames /\ writer.tbl[t].sent_table
           /\ reader.tbl[t] = writer.tbl[t].value /\ entropy.used[t] = writer.tbl[t].value
<1>1. /\ InPass /\ HeaderOut /\ FrameOut /\ TablesParts
      /\ cinfo \in ParameterSet /\ ScanOf(cinfo, scan) /\ OutOK(writer, reader)
  BY WhileWriting
<1>2. t \in TableNames /\ writer.tbl[t].sent_table
  <2>1. CASE t \in ToSet(TablesOfScan(cinfo, scan))
    BY <1>1, <2>1, ScanTableNames DEF TablesParts, HeaderInv
  <2>2. CASE t \in {QuantTable(cinfo, c) : c \in 1..Len(cinfo.comps)}
    <3>1. PICK c \in 1..Len(cinfo.comps) : t = QuantTable(cinfo, c)
      BY <2>2, Zenon
    <3> QED
      BY <1>1, <3>1, QuantTables, Zenon DEF TablesParts, FrameInv
  <2> QED
    BY <2>1, <2>2, Zenon DEF Needed
<1> QED
  BY <1>1, <1>2, Zenon DEF OutOK, TablesParts, UsedInv

(* The reader of any file, however many images were written before, with   *)
(* whatever tables suppressed and files abandoned, has the tables its data *)
(* is coded with before the data comes, those of this scan if they are     *)
(* optimized, and a frame header that tells the truth about both.          *)
THEOREM TablesReachReaderHolds == Spec => []TablesReachReader
<1>1. ASSUME IndInv, TablesInv PROVE ReaderHasTables
  <2> SUFFICES ASSUME WritingData PROVE /\ reader.scan = scan
                                        /\ \A t \in Needed : reader.tbl[t] = entropy.used[t]
                                        /\ reader.ri = cinfo.restart_interval
    BY Zenon DEF ReaderHasTables
  <2> QED
    BY <1>1, NeededIsSent, WhileWriting DEF TablesParts, HeaderInv
<1>2. ASSUME IndInv, TablesInv PROVE SelfContained
  <2> SUFFICES ASSUME WritingData, done.write_all, NEW t \in Needed PROVE t \in reader.here
    BY Zenon DEF SelfContained
  <2> QED
    BY <1>2, NeededIsSent, WhileWriting DEF TablesParts, ReaderInv
<1>3. ASSUME IndInv, TablesInv PROVE OwnStatistics
  <2> SUFFICES ASSUME WritingData, cinfo.optimize_coding,
                      NEW t \in ToSet(TablesOfScan(cinfo, scan))
               PROVE  entropy.used[t] = Optimized(images, master.scan_number)
    BY Zenon DEF OwnStatistics
  <2> QED
    BY <1>3, NeededIsSent, WhileWriting DEF TablesParts, OwnInv, Opt, Needed
<1>4. ASSUME IndInv, TablesInv PROVE FrameIsHonest
  <2> SUFFICES ASSUME WritingData
               PROVE  /\ reader.sof = "SOF2" <=> Progressive(cinfo.scan_info)
                      /\ reader.sof = "SOF0" =>
                            \A c \in 1..Len(cinfo.comps) : ~Wide(entropy.used[QuantTable(cinfo, c)])
    BY Zenon DEF FrameIsHonest
  <2>1. reader.sof = SOFCode(cinfo, writer.tbl)
    BY <1>4, WhileWriting, Zenon DEF TablesParts, FrameInv
  <2>2. ASSUME reader.sof = "SOF0", NEW c \in 1..Len(cinfo.comps)
        PROVE  ~Wide(entropy.used[QuantTable(cinfo, c)])
    BY <2>1, <2>2, <1>4, NeededIsSent DEF SOFCode, IsBaseline, NeedsPrecision, Needed
  <2> QED
    BY <2>1, <2>2 DEF SOFCode
<1>5. IndInv /\ TablesInv => TablesReachReader
  BY <1>1, <1>2, <1>3, <1>4, Zenon DEF TablesReachReader
<1> QED
  BY TablesInvHolds, <1>5, PTL
=============================================================================
