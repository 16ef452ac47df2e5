------------------------ MODULE InputControl_proofs ------------------------
(* The input controller on top of the marker reader: what the scan started *)
(* last covers, and that a decompression can be upsampled.                 *)
EXTENDS InputControl, WellFoundedInduction, TLAPS

-----------------------------------------------------------------------------
(* What div is, for natural numbers, and that nothing else is.             *)
LEMMA Quotient ==
    ASSUME NEW a \in Nat, NEW b \in Nat \ {0}
    PROVE  /\ a \div b \in Nat
           /\ b * (a \div b) <= a /\ a < b * (a \div b) + b
OBVIOUS

LEMMA QuotientUnique ==
    ASSUME NEW a \in Nat, NEW b \in Nat \ {0}, NEW q \in Nat,
           b * q <= a, a < b * q + b
    PROVE  a \div b = q
OBVIOUS

(* Multiples of a number keep the order of the factors.                    *)
LEMMA Multiples ==
    ASSUME NEW n \in Nat \ {0}, NEW a \in Nat, NEW b \in Nat
    PROVE  /\ n * a \in Nat /\ n * a = a * n
           /\ a <= b <=> n * a <= n * b
           /\ a < b <=> n * a < n * b
           /\ a < b => n * a + n <= n * b
           /\ n * (a + b) = n * a + n * b /\ n * (a + 1) = n * a + n
OBVIOUS

LEMMA Product ==
    ASSUME NEW a \in Nat \ {0}, NEW b \in Nat \ {0}
    PROVE  a * b \in Nat \ {0} /\ a * b = b * a
OBVIOUS

LEMMA ThreeFactors ==
    ASSUME NEW a \in Nat, NEW b \in Nat, NEW c \in Nat
    PROVE  /\ (a * b) * c = a * (b * c) /\ (a * b) * c = (a * c) * b
           /\ (a * b) * c = b * (a * c) /\ a * b = b * a
OBVIOUS

(* Rounding up.                                                            *)
LEMMA RoundsUp ==
    ASSUME NEW a \in Nat, NEW b \in Nat \ {0}
    PROVE  LET q == jdiv_round_up(a, b)
           IN  q \in Nat /\ a <= b * q /\ b * q < a + b /\ (a > 0 => q > 0)
<1> DEFINE q == (a + b - 1) \div b
<1>1. q \in Nat /\ b * q <= a + b - 1 /\ a + b - 1 < b * q + b
  BY Quotient
<1>2. jdiv_round_up(a, b) = q
  BY Zenon DEF jdiv_round_up
<1> HIDE DEF q
<1> QED
  BY <1>1, <1>2

(* It is the smallest multiple that is enough.                             *)
LEMMA RoundsUpLeast ==
    ASSUME NEW a \in Nat, NEW b \in Nat \ {0}, NEW k \in Nat
    PROVE  jdiv_round_up(a, b) <= k <=> a <= b * k
<1> DEFINE q == jdiv_round_up(a, b)
<1>1. q \in Nat /\ a <= b * q /\ b * q < a + b
  BY RoundsUp
<1> HIDE DEF q
<1> QED
  BY <1>1, Multiples DEF q

(* Rounded up once or twice, it comes to the same.                         *)
LEMMA RoundedTwice ==
    ASSUME NEW a \in Nat, NEW b \in Nat \ {0}, NEW e \in Nat \ {0}
    PROVE  jdiv_round_up(jdiv_round_up(a, b), e) = jdiv_round_up(a, b * e)
<1> DEFINE q == jdiv_round_up(a, b)
           r == jdiv_round_up(q, e)
           p == jdiv_round_up(a, b * e)
<1>1. b * e \in Nat \ {0}
  BY Product
<1>2. q \in Nat
  BY RoundsUp
<1>3. r \in Nat /\ p \in Nat
  <2> HIDE DEF q
  <2> QED
    BY <1>1, RoundsUp, <1>2
<1>4. ASSUME NEW k \in Nat PROVE r <= k <=> p <= k
  <2>1. e * k \in Nat /\ (b * e) * k = b * (e * k)
    BY Multiples, ThreeFactors
  <2>2. r <= k <=> q <= e * k
    <3> HIDE DEF q
    <3> QED
      BY <1>2, RoundsUpLeast
  <2> QED
    BY <1>1, RoundsUpLeast, <2>1, <2>2
<1> HIDE DEF r, p
<1> QED
  BY <1>3, <1>4 DEF r, p, q

(* What is left of n in the last of several groups of f.                   *)
LEMMA LastOfGroups ==
    ASSUME NEW n \in Nat \ {0}, NEW f \in Nat \ {0}
    PROVE  LET groups == jdiv_round_up(n, f)
           IN  /\ LastOf(n, f) \in 1..f
               /\ (groups - 1) * f + LastOf(n, f) = n
<1> DEFINE q == jdiv_round_up(n, f) - 1
           d == n \div f
<1>1. q \in Nat /\ f * q < n /\ n <= f * q + f /\ f * q \in Nat
  <2> DEFINE g == jdiv_round_up(n, f)
  <2>1. g \in Nat /\ n <= f * g /\ f * g < n + f /\ g > 0
    BY RoundsUp
  <2> HIDE DEF g
  <2> QED
    BY <2>1, Multiples DEF g
<1> HIDE DEF q
<1>2. d \in Nat /\ f * d <= n /\ n < f * d + f /\ n % f = n - f * d /\ f * d \in Nat
  BY Quotient, Multiples
<1>3. CASE n = f * q + f
  <2>1. d = q + 1
    BY <1>1, Multiples, <1>3, QuotientUnique
  <2>2. LastOf(n, f) = f
    BY <1>2, <1>3, <1>1, <2>1, Multiples DEF LastOf
  <2> QED
    BY <1>1, <1>3, <2>2, Multiples DEF q
<1>4. CASE n < f * q + f
  <2>1. d = q
    BY <1>1, <1>4, QuotientUnique
  <2>2. n % f = n - f * q /\ n % f # 0
    BY <1>1, <1>2, <2>1
  <2> QED
    BY <1>1, <1>4, <2>2, Multiples DEF q, LastOf
<1> QED
  BY <1>1, <1>3, <1>4

LEMMA CommonFactor ==
    ASSUME NEW a \in Nat, NEW b \in Nat \ {0}, NEW f \in Nat \ {0}
    PROVE  jdiv_round_up(a * f, b * f) = jdiv_round_up(a, b)
<1> DEFINE p == jdiv_round_up(a * f, b * f)
           q == jdiv_round_up(a, b)
<1>1. a * f \in Nat /\ b * f \in Nat \ {0}
  BY Product, Multiples
<1>2. p \in Nat /\ q \in Nat
  BY <1>1, RoundsUp
<1>3. ASSUME NEW k \in Nat PROVE p <= k <=> q <= k
  BY <1>1, RoundsUpLeast, ThreeFactors, Multiples
<1> HIDE DEF p, q
<1> QED
  BY <1>2, <1>3 DEF p, q

-----------------------------------------------------------------------------
(* Induction, as the prover can use it: a set of numbers has a smallest.   *)
LEMMA Smallest ==
    ASSUME NEW S \in SUBSET Nat, S # {}
    PROVE  \E n \in S : \A k \in S : n <= k
<1> DEFINE R == OpToRel(<, Nat)
<1>1. IsWellFoundedOn(R, Nat)
  BY NatLessThanWellFounded, Zenon
<1>2. PICK n \in S : \A k \in S : <<k, n>> \notin R
  <2> HIDE DEF R
  <2> QED
    BY <1>1, WFMin
<1>3. \A k \in S : ~ (k < n)
  BY <1>2 DEF OpToRel
<1> QED
  BY <1>3

(* A bounded set of numbers has a largest.                                 *)
LEMMA LargestExists ==
    ASSUME NEW most \in Nat, NEW S, S \subseteq 0..most, S # {}
    PROVE  Max(S) \in S /\ \A y \in S : y <= Max(S)
<1> DEFINE T == {most - y : y \in S}
<1>1. PICK n \in T : \A k \in T : n <= k
  <2>1. T \subseteq Nat /\ T # {}
    <3>1. \A y \in S : most - y \in Nat
      OBVIOUS
    <3> QED
      BY <3>1
  <2> HIDE DEF T
  <2> QED
    BY <2>1, Smallest
<1>2. PICK x \in S : n = most - x
  BY <1>1
<1>3. \A y \in S : x >= y
  BY <1>1, <1>2
<1> QED
  BY <1>3 DEF Max

-----------------------------------------------------------------------------
(* A frame that initial_setup has accepted.                                *)
Framed(c) ==
    /\ c.width \in Nat \ {0} /\ c.height \in Nat \ {0}
    /\ DOMAIN c.comps = 1..Len(c.comps) /\ Len(c.comps) \in Nat
    /\ \A i \in DOMAIN c.comps : /\ c.comps[i].h \in 1..MAX_SAMP_FACTOR
                                 /\ c.comps[i].v \in 1..MAX_SAMP_FACTOR

LEMMA LargestSampling ==
    ASSUME NEW c, Framed(c)
    PROVE  /\ max_h_samp_factor(c) \in Nat \ {0} /\ max_v_samp_factor(c) \in Nat \ {0}
           /\ \A i \in DOMAIN c.comps : /\ c.comps[i].h \in 1..max_h_samp_factor(c)
                                        /\ c.comps[i].v \in 1..max_v_samp_factor(c)
<1> DEFINE hs == {c.comps[i].h : i \in DOMAIN c.comps}
           vs == {c.comps[i].v : i \in DOMAIN c.comps}
           most == MAX_SAMP_FACTOR
<1>1. hs \subseteq 1..most /\ vs \subseteq 1..most /\ most \in Nat
  BY Factors DEF Framed
<1>2. ASSUME NEW S, S \subseteq 1..most
      PROVE  Most(S) \in Nat \ {0} /\ \A y \in S : y \in 1..Most(S)
  <2>1. S \cup {1} \subseteq 0..most + 1 /\ S \cup {1} # {} /\ most + 1 \in Nat
    BY <1>1, <1>2
  <2>2. Most(S) \in Nat \ {0} /\ \A y \in S : y \in Nat \ {0} /\ y <= Most(S)
    <3>1. \A y \in S \cup {1} : y \in Nat \ {0}
      BY <1>1, <1>2
    <3> QED
      BY <2>1, LargestExists, <3>1 DEF Most
  <2> QED
    BY <2>2
<1>3. \A i \in DOMAIN c.comps : c.comps[i].h \in hs /\ c.comps[i].v \in vs
  BY Zenon
<1> HIDE DEF hs, vs
<1> QED
  BY <1>1, <1>2, <1>3 DEF max_h_samp_factor, max_v_samp_factor

(* One dimension: size samples of the image, sampled with factor f of at   *)
(* most m.                                                                 *)
LEMMA Dimension ==
    ASSUME NEW size \in Nat \ {0}, NEW m \in Nat \ {0}, NEW f \in Nat \ {0}
    PROVE  LET blocks == jdiv_round_up(size * f, m * DCTSIZE)
               groups == jdiv_round_up(size, m * DCTSIZE)
           IN  /\ blocks \in Nat \ {0} /\ groups \in Nat
               /\ LastOf(blocks, f) \in 1..f
               /\ (groups - 1) * f + LastOf(blocks, f) = blocks
               /\ Covers(blocks, jdiv_round_up(size * f, m))
<1> DEFINE x == size * f
           D == m * DCTSIZE
           blocks == jdiv_round_up(x, D)
           groups == jdiv_round_up(size, D)
           samples == jdiv_round_up(x, m)
<1>1. DCTSIZE \in Nat \ {0} /\ D \in Nat \ {0} /\ x \in Nat \ {0} /\ D * f \in Nat \ {0}
  <2>1. DCTSIZE \in Nat \ {0}
    BY DctSizeIsEight
  <2>2. D \in Nat \ {0} /\ x \in Nat \ {0}
    BY <2>1, Product
  <2> HIDE DEF D
  <2> QED
    BY <2>1, <2>2, Product
<1> HIDE DEF x, D
<1>2. blocks \in Nat \ {0} /\ groups \in Nat
  <2>1. blocks \in Nat /\ blocks > 0
    BY <1>1, RoundsUp
  <2>2. groups \in Nat
    BY <1>1, RoundsUp
  <2> QED
    BY <2>1, <2>2
<1>3. jdiv_round_up(blocks, f) = groups
  BY <1>1, RoundedTwice, CommonFactor DEF x
<1>4. jdiv_round_up(samples, DCTSIZE) = blocks
  BY <1>1, RoundedTwice DEF D
<1>5. Covers(blocks, samples)
  <2>1. samples \in Nat /\ samples > 0
    BY <1>1, RoundsUp
  <2> HIDE DEF samples
  <2>2. DCTSIZE * blocks < samples + DCTSIZE /\ samples <= DCTSIZE * blocks
    BY <1>1, <1>4, <2>1, RoundsUp
  <2> QED
    BY <1>2, <2>1, <2>2, DctSizeIsEight DEF Covers
<1>6. LastOf(blocks, f) \in 1..f /\ (groups - 1) * f + LastOf(blocks, f) = blocks
  <2> HIDE DEF blocks, groups
  <2> QED
    BY <1>2, <1>3, LastOfGroups
<1> QED
  BY <1>2, <1>5, <1>6 DEF x, D

(* The sizes of a component, as initial_setup works them out.              *)
Measured(c, in) ==
    /\ in.total_iMCU_rows = jdiv_round_up(c.height, max_v_samp_factor(c) * DCTSIZE)
    /\ \A i \in DOMAIN c.comps : in.size[i] = ComponentSize(c, i)

ScanOf(c) ==
    /\ DOMAIN ScanComps(c) = 1..Len(ScanComps(c)) /\ Len(ScanComps(c)) \in Nat \ {0}
    /\ \A k \in 1..Len(ScanComps(c)) : ScanComps(c)[k] \in DOMAIN c.comps

LEMMA ScanCovers ==
    ASSUME NEW c, NEW in, Framed(c), Measured(c, in), ScanOf(c), NEW k \in DOMAIN ScanComps(c)
    PROVE  LET comp == per_scan_setup(c, in).comps[k]
               size == in.size[ScanComps(c)[k]]
               rows == IF Len(ScanComps(c)) = 1 THEN in.total_iMCU_rows
                       ELSE per_scan_setup(c, in).MCU_rows
           IN  /\ comp.last_col_width \in 1..comp.MCU_width
               /\ (per_scan_setup(c, in).MCUs_per_row - 1) * comp.MCU_width + comp.last_col_width
                       = size.width_in_blocks
               /\ (rows - 1) * c.comps[ScanComps(c)[k]].v + comp.last_row_height
                       = size.height_in_blocks
               /\ Covers(size.width_in_blocks, size.downsampled_width)
               /\ Covers(size.height_in_blocks, size.downsampled_height)
<1> DEFINE i == ScanComps(c)[k]
           size == in.size[i]
           h == c.comps[i].h
           v == c.comps[i].v
           mh == max_h_samp_factor(c)
           mv == max_v_samp_factor(c)
           wide == jdiv_round_up(c.width, mh * DCTSIZE)
           high == jdiv_round_up(c.height, mv * DCTSIZE)
<1>1. i \in DOMAIN c.comps /\ k \in 1..Len(ScanComps(c))
  BY Zenon DEF ScanOf
<1>2. h \in Nat \ {0} /\ v \in Nat \ {0} /\ mh \in Nat \ {0} /\ mv \in Nat \ {0}
  <2>1. h \in 1..MAX_SAMP_FACTOR /\ v \in 1..MAX_SAMP_FACTOR
    BY <1>1, Zenon DEF Framed
  <2> QED
    BY LargestSampling, <2>1, Factors
<1>3. c.width \in Nat \ {0} /\ c.height \in Nat \ {0}
  BY DEF Framed
<1>4. /\ size.width_in_blocks = jdiv_round_up(c.width * h, mh * DCTSIZE)
      /\ size.height_in_blocks = jdiv_round_up(c.height * v, mv * DCTSIZE)
      /\ size.downsampled_width = jdiv_round_up(c.width * h, mh)
      /\ size.downsampled_height = jdiv_round_up(c.height * v, mv)
      /\ in.total_iMCU_rows = high
  <2>1. size = ComponentSize(c, i) /\ in.total_iMCU_rows = high
    BY <1>1, Zenon DEF Measured
  <2> QED
    BY <2>1 DEF ComponentSize
<1>5. /\ size.width_in_blocks \in Nat \ {0}
      /\ LastOf(size.width_in_blocks, h) \in 1..h
      /\ (wide - 1) * h + LastOf(size.width_in_blocks, h) = size.width_in_blocks
      /\ Covers(size.width_in_blocks, size.downsampled_width)
  <2> DEFINE blocks == jdiv_round_up(c.width * h, mh * DCTSIZE)
             samples == jdiv_round_up(c.width * h, mh)
  <2>1. /\ blocks \in Nat \ {0} /\ LastOf(blocks, h) \in 1..h
        /\ (wide - 1) * h + LastOf(blocks, h) = blocks /\ Covers(blocks, samples)
    <3> HIDE DEF h, mh
    <3> QED
      BY <1>2, <1>3, Dimension
  <2>2. size.width_in_blocks = blocks /\ size.downsampled_width = samples
    BY <1>4
  <2> HIDE DEF blocks, samples, size, wide, h
  <2> QED
    BY <2>1, <2>2, Zenon
<1>6. /\ (high - 1) * v + LastOf(size.height_in_blocks, v) = size.height_in_blocks
      /\ Covers(size.height_in_blocks, size.downsampled_height)
  <2> DEFINE blocks == jdiv_round_up(c.height * v, mv * DCTSIZE)
             samples == jdiv_round_up(c.height * v, mv)
  <2>1. (high - 1) * v + LastOf(blocks, v) = blocks /\ Covers(blocks, samples)
    <3> HIDE DEF v, mv
    <3> QED
      BY <1>2, <1>3, Dimension
  <2>2. size.height_in_blocks = blocks /\ size.downsampled_height = samples
    BY <1>4
  <2> HIDE DEF blocks, samples, size, high, v
  <2> QED
    BY <2>1, <2>2, Zenon
<1> HIDE DEF wide, high
<1>7. CASE Len(ScanComps(c)) = 1
  <2>1. /\ Alone(c, in).MCUs_per_row = size.width_in_blocks
        /\ Alone(c, in).comps[k].MCU_width = 1
        /\ Alone(c, in).comps[k].last_col_width = 1
        /\ Alone(c, in).comps[k].last_row_height = LastOf(size.height_in_blocks, v)
    BY <1>1, <1>7 DEF Alone
  <2>2. 1 \in 1..1 /\ (size.width_in_blocks - 1) * 1 + 1 = size.width_in_blocks
    BY <1>5
  <2>3. in.total_iMCU_rows = high
    BY <1>4
  <2> QED
    BY <1>5, <1>6, <1>7, <2>1, <2>2, <2>3, Zenon DEF per_scan_setup
<1>8. CASE Len(ScanComps(c)) # 1
  BY <1>8, <1>5, <1>6 DEF per_scan_setup, Interleaved, LastColumn, wide, high
<1> QED
  BY <1>7, <1>8

-----------------------------------------------------------------------------
(* The size of the inverse DCT of a component, a multiple k of the smallest.*)
Eights == {1, 2, 4, 8}

LEMMA SmallestSize ==
    ASSUME NEW p
    PROVE  min_DCT_scaled_size(p) \in Eights
<1> DEFINE S == {s \in ScaledSizes : p.scale_num * DCTSIZE <= p.scale_denom * s} \cup {DCTSIZE}
<1>1. S \subseteq Eights /\ S \subseteq Nat /\ S # {}
  BY DctSizeIsEight DEF ScaledSizes, Eights
<1>2. min_DCT_scaled_size(p) = Min(S)
  BY Zenon DEF min_DCT_scaled_size
<1> HIDE DEF S
<1>3. PICK n \in S : \A k \in S : n <= k
  BY <1>1, Smallest
<1> QED
  BY <1>1, <1>2, <1>3 DEF Min

LEMMA SizeIsMultiple ==
    ASSUME NEW c, Framed(c), NEW i \in DOMAIN c.comps, NEW min \in Eights
    PROVE  \E k \in Eights : ScaledSize(c, i, min) = k * min
<1> DEFINE h == c.comps[i].h
           v == c.comps[i].v
           mh == max_h_samp_factor(c)
           mv == max_v_samp_factor(c)
           T == {size \in ScaledSizes : StaysWithin(h, size, mh, min) /\ StaysWithin(v, size, mv, min)}
<1>1. /\ h \in 1..mh /\ v \in 1..mv
      /\ mh \in Nat \ {0} /\ mv \in Nat \ {0} /\ ScaledSizes = Eights
  BY LargestSampling, DctSizeIsEight DEF ScaledSizes, Eights
<1> HIDE DEF h, v, mh, mv
<1>2. min \in T
  BY <1>1, Multiples DEF Eights, StaysWithin
<1>3. T \subseteq Eights
  BY <1>1
<1>4. ScaledSize(c, i, min) = Max(T)
  BY Zenon DEF ScaledSize, h, v, mh, mv
<1> HIDE DEF T
<1>5. Max(T) \in T /\ \A y \in T : y <= Max(T)
  <2>1. T \subseteq 0..8 /\ T # {}
    BY <1>2, <1>3 DEF Eights
  <2> QED
    BY <2>1, LargestExists
<1>6. Max(T) \in Eights /\ min <= Max(T)
  BY <1>2, <1>3, <1>5
<1> QED
  BY <1>4, <1>6 DEF Eights

(* The samples of a component, at any scale, are the pixels divided by the *)
(* factor they are expanded with, rounded up.                              *)
LEMMA SamplesForPixels ==
    ASSUME NEW w \in Nat \ {0}, NEW h \in Nat \ {0}, NEW mh \in Nat \ {0}, NEW min \in Eights,
           NEW k \in Eights, NEW e \in Nat \ {0}, mh = (h * k) * e
    PROVE  Downsampled(w, h, k * min, mh)
             = jdiv_round_up(jdiv_round_up(w, DCTSIZE \div min), e)
<1> DEFINE g == h * k
           wm == w * min
           d == 8 \div min
<1>1. /\ DCTSIZE = 8 /\ min \in Nat \ {0} /\ k \in Nat \ {0}
      /\ d \in Nat \ {0} /\ d * min = 8
  BY DctSizeIsEight DEF Eights
<1>2. g \in Nat \ {0} /\ wm \in Nat \ {0} /\ 8 * e \in Nat \ {0}
  BY <1>1, Product
<1>3. mh * 8 = (8 * e) * g
  <2> HIDE DEF g
  <2> QED
    BY <1>2 DEF g
<1>4. Downsampled(w, h, k * min, mh) = jdiv_round_up(wm * g, (8 * e) * g)
  BY <1>1, <1>3 DEF Downsampled
<1> HIDE DEF g, wm, d
<1>5. jdiv_round_up(wm * g, (8 * e) * g) = jdiv_round_up(wm, 8 * e)
  BY <1>2, CommonFactor
<1>6. jdiv_round_up(wm, 8) = jdiv_round_up(w, d)
  BY <1>1, CommonFactor DEF wm
<1> QED
  BY <1>1, <1>4, <1>5, <1>2, RoundedTwice, <1>6 DEF d

LEMMA RowsFit ==
    ASSUME NEW ow \in Nat, NEW g \in Nat \ {0}, NEW e \in Nat \ {0}
    PROVE  LET dw == jdiv_round_up(ow, e)
           IN  /\ dw \in Nat /\ e * dw \in Nat /\ ow <= e * dw
               /\ jdiv_round_up(ow, g * e) * (g * e) \in Nat
               /\ e * dw <= jdiv_round_up(ow, g * e) * (g * e)
<1> DEFINE dw == jdiv_round_up(ow, e)
           t == jdiv_round_up(ow, e * g)
<1>1. dw \in Nat /\ ow <= e * dw /\ e * dw \in Nat
  BY RoundsUp, Multiples
<1>2. e * g \in Nat \ {0} /\ e * g = g * e
  BY Product
<1>3. t = jdiv_round_up(dw, g) /\ t \in Nat
  BY <1>2, RoundedTwice, RoundsUp
<1> HIDE DEF dw
<1> HIDE DEF t
<1>4. g * t \in Nat /\ e * dw <= e * (g * t)
  BY <1>1, <1>3, RoundsUp, Multiples
<1>5. e * (g * t) = t * (g * e) /\ t * (g * e) \in Nat
  BY <1>2, <1>3, ThreeFactors, Multiples
<1> QED
  BY <1>1, <1>2, <1>4, <1>5 DEF dw, t

(* The factor a component is expanded with.                                *)
LEMMA Divides ==
    ASSUME NEW m \in Nat \ {0}, NEW g \in Nat \ {0}, m % g = 0
    PROVE  m \div g \in Nat \ {0} /\ m = g * (m \div g)
BY Quotient, Multiples

(* A component whose sampling divides the largest one can be upsampled.    *)
LEMMA ComponentFits ==
    ASSUME NEW c, Framed(c), NEW p, NEW i \in DOMAIN c.comps,
           Integral(c, jpeg_calc_output_dimensions(c, p), i)
    PROVE  Fits(c, p, jpeg_calc_output_dimensions(c, p), i)
<1> DEFINE out == jpeg_calc_output_dimensions(c, p)
           min == min_DCT_scaled_size(p)
           h == c.comps[i].h
           v == c.comps[i].v
           mh == max_h_samp_factor(c)
           mv == max_v_samp_factor(c)
           ow == jdiv_round_up(c.width, DCTSIZE \div min)
           size == ScaledSize(c, i, min)
<1>1. /\ out.min = min /\ out.width = ow /\ out.size[i] = size
      /\ out.downsampled_width[i] = Downsampled(c.width, h, size, mh)
  BY DEF jpeg_calc_output_dimensions, SizedFor
<1>2. min \in Eights /\ min \in Nat \ {0}
  BY SmallestSize DEF Eights
<1>3. PICK k \in Eights : size = k * min
  BY <1>2, SizeIsMultiple
<1>4. h \in Nat \ {0} /\ v \in Nat \ {0} /\ mh \in Nat \ {0} /\ c.width \in Nat \ {0} /\ k \in Nat \ {0}
  <2>1. c.width \in Nat \ {0} /\ k \in Nat \ {0}
    BY DEF Framed, Eights
  <2> QED
    BY LargestSampling, <2>1
<1>5. h_in_group(c, out, i) = (h * size) \div min /\ v_in_group(c, out, i) = (v * size) \div min
  BY <1>1, Zenon DEF h_in_group, v_in_group
<1>6. mh % h_in_group(c, out, i) = 0
  BY Zenon DEF Integral
<1> HIDE DEF out, min, h, v, mh, mv, ow, size
<1> DEFINE g == h * k
           e == mh \div g
           dw == jdiv_round_up(ow, e)
<1>7. /\ h_in_group(c, out, i) = g /\ g \in Nat \ {0}
      /\ v_in_group(c, out, i) * min = v * size
  <2>1. ASSUME NEW f \in Nat \ {0} PROVE (f * size) \div min = f * k
    <3>1. f * k \in Nat \ {0}
      BY <1>4, Product
    <3> HIDE DEF g
    <3> QED
      BY <1>2, <3>1, <1>4, ThreeFactors, Product, <1>3, QuotientUnique
  <2>2. (v * k) * min = v * size
    BY <1>2, <1>3, <1>4, ThreeFactors
  <2> QED
    BY <1>4, <1>5, <2>1, Product, <2>2
<1> HIDE DEF g
<1>8. e \in Nat \ {0} /\ mh = g * e
  BY <1>4, <1>6, <1>7, Divides
<1>9. h_expand(c, out, i) = e
  BY <1>7, Zenon DEF h_expand, mh
<1> HIDE DEF e
<1>10. out.downsampled_width[i] = dw /\ ow \in Nat
  <2>1. DCTSIZE \div min \in Nat \ {0}
    BY <1>2, DctSizeIsEight DEF Eights
  <2>2. ow \in Nat
    BY <1>4, <2>1, RoundsUp DEF ow
  <2> QED
    BY <1>1, <1>3, <1>2, <1>4, <1>8, SamplesForPixels, <2>2 DEF ow, g
<1>11. Written(c, p, out, i) = e * dw
  <2>1. CASE Fancy(c, p, out, i)
    BY <1>7, <2>1, <1>8, <1>10 DEF Fancy, mh, Written
  <2>2. CASE ~Fancy(c, p, out, i)
    BY <1>1, <1>9, <2>2 DEF Written
  <2> QED
    BY <2>1, <2>2
<1>12. /\ dw \in Nat /\ e * dw \in Nat /\ ow <= e * dw
       /\ ColorBuffer(c, out) \in Nat /\ e * dw <= ColorBuffer(c, out)
  BY <1>1, <1>8, <1>7, <1>10, RowsFit DEF ColorBuffer, mh
<1>13. v_in_group(c, out, i) * out.min = c.comps[i].v * out.size[i]
  BY <1>1, <1>7 DEF v
<1> QED
  BY <1>1, <1>10, <1>11, <1>12, <1>9, <1>13 DEF Fits, out

(* Merged upsampling is chosen for three components, the first with a      *)
(* horizontal factor of 2 and all but its vertical factor 1.               *)
LEMMA MergedSampling ==
    ASSUME NEW c, Framed(c), NEW p,
           use_merged_upsample(c, p, jpeg_calc_output_dimensions(c, p))
    PROVE  /\ DOMAIN c.comps = 1..3
           /\ \A i \in 1..3 :
                /\ Integral(c, jpeg_calc_output_dimensions(c, p), i)
                /\ h_expand(c, jpeg_calc_output_dimensions(c, p), i) = IF i = 1 THEN 1 ELSE 2
<1> DEFINE out == jpeg_calc_output_dimensions(c, p)
           min == min_DCT_scaled_size(p)
           mh == max_h_samp_factor(c)
           mv == max_v_samp_factor(c)
           v1 == c.comps[1].v
<1>1. /\ jpeg_color_space(c) = "YCbCr" /\ c.comps[1].h = 2 /\ c.comps[1].v <= 2
      /\ \A i \in {2, 3} : c.comps[i].h = 1 /\ c.comps[i].v = 1
      /\ \A i \in 1..3 : out.size[i] = out.min
  BY Zenon DEF use_merged_upsample
<1>2. DOMAIN c.comps = 1..3
  BY <1>1 DEF jpeg_color_space, FourColors, Framed
<1>3. out.min = min /\ min \in Nat \ {0}
  BY SmallestSize DEF jpeg_calc_output_dimensions, SizedFor, Eights
<1>4. v1 \in {1, 2} /\ c.comps[1].h = 2
  <2>1. v1 \in 1..MAX_SAMP_FACTOR
    BY <1>2 DEF Framed
  <2> QED
    BY <1>1, <2>1, Factors
<1>5. mh = 2 /\ mv = v1
  <2>1. ASSUME NEW n \in {1, 2} PROVE Most({1, n}) = n
    BY LargestExists DEF Most
  <2>2. {1, 2} = {1, 2} /\ Most({1, 2}) = 2 /\ Most({1, v1}) = v1
    BY <1>4, <2>1
  <2> QED
    BY <1>2, <1>1, <2>2 DEF max_h_samp_factor, max_v_samp_factor
<1>6. ASSUME NEW i \in 1..3
      PROVE  Integral(c, out, i) /\ h_expand(c, out, i) = IF i = 1 THEN 1 ELSE 2
  <2> DEFINE h == c.comps[i].h
             v == c.comps[i].v
  <2>1. /\ h = (IF i = 1 THEN 2 ELSE 1) /\ v = (IF i = 1 THEN v1 ELSE 1)
    BY <1>1
  <2>2. ASSUME NEW f \in {1, 2} PROVE (f * out.size[i]) \div out.min = f
    BY <1>3, Multiples, QuotientUnique, <1>1
  <2>3. h_in_group(c, out, i) = h /\ v_in_group(c, out, i) = v
    BY <1>4, <2>1, <2>2 DEF h_in_group, v_in_group
  <2>4. h_expand(c, out, i) = IF i = 1 THEN 1 ELSE 2
    BY <1>5, <2>1, <2>3 DEF h_expand
  <2> QED
    BY <1>4, <1>5, <2>1, <2>3, <2>4 DEF Integral
<1> QED
  BY <1>2, <1>6, Zenon

(* What a selection without error sets up for the output.                  *)
FitsOutput(c, p, out, merged, how) ==
    /\ \A i \in DOMAIN c.comps : how[i].needed => Fits(c, p, out, i)
    /\ merged => /\ DOMAIN c.comps = 1..3
                 /\ \A i \in 1..3 : h_expand(c, out, i) = IF i = 1 THEN 1 ELSE 2

LEMMA SelectionFits ==
    ASSUME NEW c, Framed(c), NEW p,
           SelectionError(c, p, jpeg_calc_output_dimensions(c, p)) = "none"
    PROVE  LET out == jpeg_calc_output_dimensions(c, p)
           IN  FitsOutput(c, p, out, use_merged_upsample(c, p, out), Upsampling(c, p, out))
<1> DEFINE out == jpeg_calc_output_dimensions(c, p)
<1>1. CASE use_merged_upsample(c, p, out)
  BY <1>1, MergedSampling, ComponentFits, Zenon DEF FitsOutput
<1>2. CASE ~use_merged_upsample(c, p, out)
  <2>1. ~Fractional(c, p, out)
    <3> HIDE DEF out
    <3> QED
      BY <1>2 DEF SelectionError, out
  <2> QED
    BY <1>2, <2>1, ComponentFits DEF FitsOutput, Upsampling, Fractional
<1> QED
  BY <1>1, <1>2

-----------------------------------------------------------------------------
(* The inductive invariant.  What the records of the state are: their      *)
(* fields, and no more of the values than the position in the datastream   *)
(* and the frame depend on.                                                *)
SourceFields == {"pos", "avail", "unread_marker", "discarded_bytes", "next_restart_num", "ok"}
IsSource(s) ==
    s = [x \in SourceFields |-> s[x]] /\ s.pos \in Nat /\ s.avail \in 0..Len(data)

ComponentFields == {"id", "h", "v", "q", "dc", "ac"}
ObjectFields ==
    {"quant", "dc", "ac", "restart_interval", "progressive", "precision", "height", "width",
     "num_components", "comps", "scan", "input_scan_number", "JFIF", "Adobe", "marker_list"}
ScanFields == {"comps_in_scan", "cur_comp_info", "Ss", "Se", "Ah", "Al"}
IsScan(scan) == scan = [x \in ScanFields |-> scan[x]]
IsObject(c) ==
    /\ c = [x \in ObjectFields |-> c[x]]
    /\ Len(c.comps) \in Nat /\ c.comps = [i \in 1..Len(c.comps) |-> c.comps[i]]
    /\ \A i \in 1..Len(c.comps) : c.comps[i] = [x \in ComponentFields |-> c.comps[i][x]]
    /\ IsScan(c.scan)

ItemFields == {"marker", "original_length", "data_length", "data"}
IsItem(item) ==
    /\ item = [x \in ItemFields |-> item[x]]
    /\ item.original_length \in Nat /\ item.data_length \in 0..item.original_length
    /\ item.data \in Seq(0..255) /\ Len(item.data) <= item.data_length

MarkerFields == {"saw_SOI", "saw_SOF", "cur_marker", "current_sos_marker_position"}
IsMarker(m) ==
    /\ m = [x \in MarkerFields |-> m[x]]
    /\ m.saw_SOF \in BOOLEAN
    /\ m.cur_marker = NoMarker \/ IsItem(m.cur_marker)

InputFields ==
    {"inheaders", "has_multiple_scans", "eoi_reached", "error", "size", "total_iMCU_rows",
     "scan", "saved", "output", "tables"}
IsInput(in) == in = [x \in InputFields |-> in[x]] /\ in.inheaders \in BOOLEAN

(* A frame header that has been read and accepted.                         *)
FrameRead(c) ==
    /\ c.width \in Nat \ {0} /\ c.height \in Nat \ {0}
    /\ c.num_components = Len(c.comps)

(* Before a frame header has been read, only one that get_sof could not    *)
(* finish has left components, as many as it will find when it comes back. *)
Resumes(c, s) ==
    \/ marker.saw_SOF \/ c.comps = << >>
    \/ IsSOF(s.unread_marker) /\ Len(c.comps) = SofComps(s)

(* A second SOF writes its size and its number of components over those of *)
(* the frame before get_sof refuses it, and also when get_sof suspends in  *)
(* it.  The reader never gets past such a marker, so that the header of    *)
(* the frame is intact unless it waits in front of one.                    *)
FrameIntact == ret = "SOS" \/ ~IsSOF(src.unread_marker)

Readable ==
    /\ IsBytes(files) /\ data \in Seq(0..255)
    /\ IsSource(src) /\ IsObject(cinfo) /\ IsMarker(marker)
    /\ limits \in [MiscMarkers -> Int]
    /\ Resumes(cinfo, src)
    /\ marker.saw_SOF /\ FrameIntact => FrameRead(cinfo)

(* What the input controller has worked out from the headers agrees with   *)
(* the object as long as the header of the frame is intact.                *)
SetUp ==
    /\ IsInput(input)
    /\ ~input.inheaders => marker.saw_SOF /\ (FrameIntact => Framed(cinfo) /\ Measured(cinfo, input))
    /\ input.inheaders => input.scan = NoScan /\ input.output = NoOutput /\ index = NoIndex
    /\ Working /\ input.output # NoOutput =>
        FitsOutput(cinfo, input.output.p, input.output.out, input.output.merged, input.output.how)

AtScan ==
    /\ ret = "SOS" => marker.saw_SOF /\ ScanOf(cinfo)
    /\ ret = "SOS" /\ Working => ~input.inheaders
    /\ Started /\ ret = "SOS" /\ index = NoIndex => input.scan = per_scan_setup(cinfo, input)

IInv == Readable /\ SetUp /\ AtScan

-----------------------------------------------------------------------------
(* Sequences and bytes.                                                    *)
LEMMA Numbered ==
    ASSUME NEW n \in Nat, NEW f, f = [i \in 1..n |-> f[i]]
    PROVE  Len(f) = n /\ DOMAIN f = 1..n
<1> DEFINE S == {f[i] : i \in 1..n}
<1> HIDE DEF S
<1> QED
  OBVIOUS

LEMMA Elements ==
    ASSUME NEW S, NEW f \in Seq(S)
    PROVE  Len(f) \in Nat /\ DOMAIN f = 1..Len(f) /\ \A j \in 1..Len(f) : f[j] \in S
OBVIOUS

LEMMA ArrivedByte ==
    ASSUME data \in Seq(0..255), NEW s, IsSource(s), NEW k \in Nat \ {0}, Arrived(s, k)
    PROVE  Byte(s, k) \in 0..255
<1>1. Len(data) \in Nat /\ \A j \in 1..Len(data) : data[j] \in 0..255
  BY Elements
<1>2. s.pos + k \in 1..Len(data)
  BY <1>1 DEF IsSource, Arrived
<1> QED
  BY <1>1, <1>2, Zenon DEF Byte

LEMMA ArrivedBefore ==
    ASSUME NEW s, IsSource(s), NEW k \in Nat, NEW j \in 0..k, Arrived(s, k)
    PROVE  Arrived(s, j)
BY DEF IsSource, Arrived

LEMMA ArrivedWord ==
    ASSUME data \in Seq(0..255), NEW s, IsSource(s), NEW k \in Nat \ {0}, Arrived(s, k + 1)
    PROVE  TwoByte(s, k) \in Nat
<1>1. Arrived(s, k)
  BY ArrivedBefore
<1>2. Byte(s, k) \in 0..255 /\ Byte(s, k + 1) \in 0..255
  BY <1>1, ArrivedByte
<1>3. \A a, b \in 0..255 : 256 * a + b \in Nat
  OBVIOUS
<1> QED
  BY <1>2, <1>3, Zenon DEF TwoByte

(* A source that has moved on.                                             *)
LEMMA Moved ==
    ASSUME NEW s, IsSource(s), NEW t,
           t = [x \in SourceFields |-> t[x]], t.pos \in Nat, t.avail = s.avail
    PROVE  IsSource(t)
BY DEF IsSource

LEMMA CodesAhead ==
    ASSUME data \in Seq(0..255), NEW s, IsSource(s), NEW S, S \subseteq MarkerCodes(data, s), S # {}
    PROVE  Min(S) \in S /\ Max(S) \in S /\ Min(S) \in Nat /\ Max(S) \in Nat
<1>1. s.pos \in Nat /\ s.avail \in 0..Len(data) /\ Len(data) \in Nat
  BY DEF IsSource
<1>2. S \subseteq 0..Len(data) /\ S \subseteq Nat
  BY <1>1 DEF MarkerCodes
<1>3. PICK n \in S : \A k \in S : n <= k
  BY <1>2, Smallest
<1> QED
  BY <1>2, <1>1, LargestExists, <1>3 DEF Min

LEMMA AtCode ==
    ASSUME NEW s, IsSource(s), NEW i \in Nat
    PROVE  IsSource(Met(data, s, i))
<1> DEFINE t == Met(data, s, i)
<1> HIDE DEF t
<1> QED
  BY Moved DEF t, IsSource, Met, SourceFields

LEMMA NextMarker ==
    ASSUME data \in Seq(0..255), NEW s, IsSource(s)
    PROVE  IsSource(next_marker(data, s))
<1>1. CASE MarkerCodes(data, s) # {}
  BY <1>1, CodesAhead, AtCode DEF next_marker
<1>2. CASE MarkerCodes(data, s) = {}
  <2> DEFINE t == next_marker(data, s)
             S == {s.pos} \cup {i \in s.pos + 1 .. s.avail : data[i] # FillByte}
  <2>1. LastDiscarded(data, s) \in Nat
    <3>1. s.pos \in Nat /\ s.avail \in Nat
      BY DEF IsSource
    <3> DEFINE most == s.pos + s.avail
    <3>2. S \subseteq 0..most /\ S # {} /\ most \in Nat
      BY <3>1
    <3>3. LastDiscarded(data, s) = Max(S)
      BY Zenon DEF LastDiscarded
    <3> HIDE DEF S, most
    <3>4. \A n \in 0..most : n \in Nat
      BY <3>2
    <3> QED
      BY <3>3, <3>2, LargestExists, <3>4
  <2>2. t = [s EXCEPT !.ok = FALSE, !.pos = LastDiscarded(data, s),
                      !.discarded_bytes = @ + Cardinality(Discarded(data, s))]
    BY <1>2, Zenon DEF next_marker
  <2> HIDE DEF t
  <2> QED
    BY <2>1, <2>2, Moved DEF t, IsSource, SourceFields
<1> QED
  BY <1>1, <1>2

LEMMA FoundMarker ==
    ASSUME data \in Seq(0..255), NEW s, IsSource(s)
    PROVE  IsSource(Found(s))
<1> DEFINE t == [s EXCEPT !.ok = TRUE]
<1>1. IsSource(t)
  <2>1. t = [x \in SourceFields |-> t[x]] /\ t.pos \in Nat /\ t.avail = s.avail
    BY DEF IsSource, SourceFields
  <2> HIDE DEF t
  <2> QED
    BY <2>1, Moved
<1>2. CASE s.unread_marker # 0
  BY <1>1, <1>2, Zenon DEF Found
<1>3. CASE s.unread_marker = 0 /\ marker.saw_SOI
  BY <1>1, <1>3, NextMarker DEF Found
<1>4. CASE s.unread_marker = 0 /\ ~marker.saw_SOI
  <2> DEFINE u == first_marker(t)
  <2>1. Found(s) = u
    BY <1>4, Zenon DEF Found
  <2> HIDE DEF t
  <2>2. \/ u = [t EXCEPT !.ok = FALSE] \/ u = t
        \/ u = [t EXCEPT !.pos = @ + 2, !.unread_marker = SOIMarker]
    BY Zenon DEF first_marker
  <2> HIDE DEF u
  <2>3. u = [x \in SourceFields |-> u[x]] /\ u.pos \in Nat /\ u.avail = t.avail
    <3>1. CASE u = [t EXCEPT !.ok = FALSE]
      BY <1>1, <3>1 DEF IsSource, SourceFields
    <3>2. CASE u = t
      BY <1>1, <3>2 DEF IsSource
    <3>3. CASE u = [t EXCEPT !.pos = @ + 2, !.unread_marker = SOIMarker]
      <4>1. t = [x \in SourceFields |-> t[x]] /\ t.pos \in Nat
        BY <1>1 DEF IsSource
      <4>2. u = [x \in SourceFields |-> u[x]] /\ u.avail = t.avail /\ u.pos = t.pos + 2
        BY <3>3, <4>1 DEF SourceFields
      <4> QED
        BY <4>1, <4>2
    <3> QED
      BY <2>2, <3>1, <3>2, <3>3
  <2> QED
    BY <1>1, <2>1, <2>3, Moved
<1> QED
  BY <1>2, <1>3, <1>4, Zenon

-----------------------------------------------------------------------------
(* The routines of the markers.  Most of them leave the frame alone, and   *)
(* none of them the sampling factors of a frame that has been read.        *)
SameFactors(c, d) ==
    /\ Len(d.comps) = Len(c.comps) /\ DOMAIN d.comps = DOMAIN c.comps
    /\ \A i \in DOMAIN c.comps : /\ d.comps[i].h = c.comps[i].h /\ d.comps[i].v = c.comps[i].v
                                 /\ d.comps[i].id = c.comps[i].id
SameFrame(c, d) ==
    /\ d.width = c.width /\ d.height = c.height /\ d.num_components = c.num_components
    /\ SameFactors(c, d)
Keeps(c, d) == IsObject(d) /\ SameFrame(c, d)

IsResult(r) == r.st \in {"done", "suspend", "error"} /\ r.used \in Nat
KeepsFrame(c, r) == IsResult(r) /\ Keeps(c, r.c)

(* Everything else may have changed.                                       *)
Untouched(c, d) ==
    /\ d = [x \in ObjectFields |-> d[x]]
    /\ d.width = c.width /\ d.height = c.height /\ d.num_components = c.num_components
    /\ d.comps = c.comps /\ d.scan = c.scan

LEMMA OtherFields ==
    ASSUME NEW c, IsObject(c), NEW d, Untouched(c, d)
    PROVE  Keeps(c, d)
BY Zenon DEF Keeps, IsObject, SameFrame, SameFactors, Untouched

LEMMA KeepsTwice ==
    ASSUME NEW c, NEW d, NEW e, Keeps(c, d), Keeps(d, e)
    PROVE  Keeps(c, e)
BY Zenon DEF Keeps, SameFrame, SameFactors

LEMMA KeepsItself ==
    ASSUME NEW c, IsObject(c)
    PROVE  Keeps(c, c)
BY Zenon DEF Keeps, SameFrame, SameFactors

LEMMA Results ==
    ASSUME NEW c, NEW d, Keeps(c, d)
    PROVE  /\ KeepsFrame(c, Suspend(d)) /\ KeepsFrame(c, Error(d))
           /\ \A n \in Nat : KeepsFrame(c, Done(d, n))
BY DEF KeepsFrame, IsResult, Suspend, Error, Done

LEMMA AfterSOIKeeps ==
    ASSUME NEW c, IsObject(c)
    PROVE  Keeps(c, AfterSOI(c))
<1> DEFINE d == AfterSOI(c)
<1>1. Untouched(c, d)
  BY DEF AfterSOI, IsObject, ObjectFields, Untouched
<1> HIDE DEF d
<1> QED
  BY <1>1, OtherFields DEF d

LEMMA ExaminedKeeps ==
    ASSUME NEW c, IsObject(c), NEW m, NEW bytes
    PROVE  Keeps(c, Examined(c, m, bytes))
<1> DEFINE d == Examined(c, m, bytes)
<1> HIDE DEF d
<1>1. ASSUME NEW v PROVE Keeps(c, [c EXCEPT !.JFIF = v])
  <2> DEFINE e == [c EXCEPT !.JFIF = v]
  <2> HIDE DEF e
  <2> QED
    BY OtherFields DEF e, IsObject, ObjectFields, Untouched
<1>2. ASSUME NEW v PROVE Keeps(c, [c EXCEPT !.Adobe = v])
  <2> DEFINE e == [c EXCEPT !.Adobe = v]
  <2> HIDE DEF e
  <2> QED
    BY OtherFields DEF e, IsObject, ObjectFields, Untouched
<1> QED
  BY <1>1, <1>2, KeepsItself, Zenon DEF d, Examined, examine_app0, examine_app14

LEMMA LinkedKeeps ==
    ASSUME NEW c, IsObject(c), NEW item
    PROVE  Keeps(c, Linked(c, item))
<1> DEFINE new == [marker |-> item.marker, original_length |-> item.original_length,
                   data |-> item.data]
           d == [c EXCEPT !.marker_list = Append(@, new)]
<1>1. Keeps(c, d)
  <2>1. Untouched(c, d)
    <3> HIDE DEF new
    <3> QED
      BY DEF IsObject, ObjectFields, Untouched
  <2> HIDE DEF d
  <2> QED
    BY <2>1, OtherFields
<1>2. Linked(c, item) = Examined(d, item.marker, item.data)
  BY Zenon DEF Linked
<1> HIDE DEF d
<1> QED
  BY <1>1, <1>2, ExaminedKeeps, KeepsTwice DEF Keeps

(* get_dht and get_dqt: the tables they store are not those of the frame,  *)
(* and they end done, suspended or with an error.                          *)
LEMMA EndedKeeps ==
    ASSUME data \in Seq(0..255), NEW c, NEW d, Keeps(c, d), NEW s, IsSource(s), Arrived(s, 2), NEW r
    PROVE  KeepsFrame(c, Ended(r, d, s))
BY ArrivedWord, Results DEF Ended

LEMMA HuffmanKeeps ==
    ASSUME data \in Seq(0..255), NEW c, IsObject(c), NEW s, IsSource(s)
    PROVE  KeepsFrame(c, get_dht(c, s))
<1>1. CASE ~Arrived(s, 2)
  BY <1>1, Results, KeepsItself, Zenon DEF get_dht
<1>2. CASE Arrived(s, 2)
  <2> DEFINE r == DhtLoop(s, [st |-> "more", dc |-> c.dc, ac |-> c.ac, k |-> 2,
                              length |-> TwoByte(s, 1) - 2])
             d == [c EXCEPT !.dc = r.dc, !.ac = r.ac]
  <2>1. get_dht(c, s) = Ended(r, d, s)
    BY <1>2, Zenon DEF get_dht
  <2> HIDE DEF r
  <2>2. Untouched(c, d)
    BY DEF IsObject, ObjectFields, Untouched
  <2> HIDE DEF d
  <2> QED
    BY <1>2, <2>1, <2>2, OtherFields, EndedKeeps, Zenon
<1> QED
  BY <1>1, <1>2

LEMMA QuantizersKeep ==
    ASSUME data \in Seq(0..255), NEW c, IsObject(c), NEW s, IsSource(s)
    PROVE  KeepsFrame(c, get_dqt(c, s))
<1>1. CASE ~Arrived(s, 2)
  BY <1>1, Results, KeepsItself, Zenon DEF get_dqt
<1>2. CASE Arrived(s, 2)
  <2> DEFINE r == DqtLoop(s, [st |-> "more", quant |-> c.quant, k |-> 2,
                              length |-> TwoByte(s, 1) - 2])
             d == [c EXCEPT !.quant = r.quant]
  <2>1. get_dqt(c, s) = Ended(r, d, s)
    BY <1>2, Zenon DEF get_dqt
  <2> HIDE DEF r
  <2>2. Untouched(c, d)
    BY DEF IsObject, ObjectFields, Untouched
  <2> HIDE DEF d
  <2> QED
    BY <1>2, <2>1, <2>2, OtherFields, EndedKeeps, Zenon
<1> QED
  BY <1>1, <1>2

LEMMA RestartsKeep ==
    ASSUME NEW c, IsObject(c), NEW s
    PROVE  KeepsFrame(c, get_dri(c, s))
<1> DEFINE d == [c EXCEPT !.restart_interval = TwoByte(s, 3)]
<1>1. Keeps(c, d)
  <2>1. Untouched(c, d)
    BY DEF IsObject, ObjectFields, Untouched
  <2> HIDE DEF d
  <2> QED
    BY <2>1, OtherFields
<1>2. get_dri(c, s) \in {Suspend(c), Error(c), Done(d, 4)}
  BY Zenon DEF get_dri
<1> HIDE DEF d
<1> QED
  BY <1>1, <1>2, Results, KeepsItself

(* A length word below 2 leaves nothing to skip.                           *)
LEMMA SkipsForward ==
    ASSUME data \in Seq(0..255), NEW s, IsSource(s), Arrived(s, 2)
    PROVE  2 + AtLeast(TwoByte(s, 1) - 2, 0) \in Nat
BY ArrivedWord DEF AtLeast

LEMMA SkipKeeps ==
    ASSUME data \in Seq(0..255), NEW c, IsObject(c), NEW s, IsSource(s)
    PROVE  KeepsFrame(c, skip_variable(c, s))
BY SkipsForward, Results, KeepsItself, Zenon DEF skip_variable

LEMMA InterestingKeeps ==
    ASSUME data \in Seq(0..255), NEW c, IsObject(c), NEW s, IsSource(s)
    PROVE  KeepsFrame(c, get_interesting_appn(c, s))
BY SkipsForward, Results, KeepsItself, ExaminedKeeps, Zenon DEF get_interesting_appn

(* get_sos sets table numbers of components and fields of the scan header, *)
(* and when it is done these are those of a scan of the frame.             *)
LEMMA SosTablesKeep ==
    ASSUME NEW c, IsObject(c), NEW s, NEW scan, IsScan(scan)
    PROVE  Keeps(c, [c EXCEPT !.comps = SosTables(c, s), !.scan = scan])
<1> DEFINE comps == SosTables(c, s)
           d == [c EXCEPT !.comps = comps, !.scan = scan]
           n == Len(c.comps)
           Turned(k, x) == \/ x = c.comps[k]
                           \/ \E a, b : x = [c.comps[k] EXCEPT !.dc = a, !.ac = b]
<1>1. n \in Nat /\ c.comps = [i \in 1..n |-> c.comps[i]] /\ DOMAIN c.comps = 1..n
  BY Numbered DEF IsObject
<1>2. comps = [k \in 1..n |-> comps[k]] /\ \A k \in 1..n : Turned(k, comps[k])
  BY <1>1, Zenon DEF SosTables
<1> HIDE DEF comps
<1>3. /\ d = [x \in ObjectFields |-> d[x]] /\ d.width = c.width /\ d.height = c.height
      /\ d.num_components = c.num_components /\ d.comps = comps /\ d.scan = scan
  BY DEF IsObject, ObjectFields
<1> HIDE DEF d
<1>4. \A k \in 1..n : /\ comps[k] = [x \in ComponentFields |-> comps[k][x]]
                      /\ comps[k].h = c.comps[k].h /\ comps[k].v = c.comps[k].v
                      /\ comps[k].id = c.comps[k].id
  <2> SUFFICES ASSUME NEW k \in 1..n
               PROVE  /\ comps[k] = [x \in ComponentFields |-> comps[k][x]]
                      /\ comps[k].h = c.comps[k].h /\ comps[k].v = c.comps[k].v
                      /\ comps[k].id = c.comps[k].id
    OBVIOUS
  <2>1. c.comps[k] = [x \in ComponentFields |-> c.comps[k][x]]
    BY DEF IsObject
  <2>2. CASE comps[k] = c.comps[k]
    BY <2>1, <2>2, Zenon
  <2>3. ASSUME NEW a, NEW b, comps[k] = [c.comps[k] EXCEPT !.dc = a, !.ac = b]
        PROVE  /\ comps[k] = [x \in ComponentFields |-> comps[k][x]]
               /\ comps[k].h = c.comps[k].h /\ comps[k].v = c.comps[k].v
               /\ comps[k].id = c.comps[k].id
    <3> DEFINE f == c.comps[k]
               g == comps[k]
    <3>1. g = [f EXCEPT !.dc = a, !.ac = b] /\ f = [x \in ComponentFields |-> f[x]]
      BY <2>1, <2>3
    <3> HIDE DEF f, g
    <3> QED
      BY <3>1 DEF f, g, ComponentFields
  <2> QED
    BY <2>2, <2>3, <1>2, Zenon
<1>5. Len(comps) = n /\ DOMAIN comps = 1..n
  BY <1>1, <1>2, Numbered
<1>6. IsObject(d)
  BY <1>1, <1>2, <1>3, <1>4, <1>5, Zenon DEF IsObject
<1> QED
  BY <1>6, <1>1, <1>3, <1>4, <1>5 DEF Keeps, d, comps, SameFrame, SameFactors

LEMMA SosFieldsKeep ==
    ASSUME NEW c, IsObject(c), NEW s
    PROVE  /\ Keeps(c, SosSpecified(c, s)) /\ Keeps(c, SosFields(c, s))
           /\ Keeps(c, [SosFields(c, s) EXCEPT !.input_scan_number = @ + 1])
           /\ SosFields(c, s).comps = SosTables(c, s)
           /\ SosFields(c, s).scan.comps_in_scan = SosComps(s)
           /\ SosFields(c, s).scan.cur_comp_info = SosHeader(c, s).cur_comp_info
<1> DEFINE comps == SosTables(c, s)
           scan == SosHeader(c, s)
           all == SosParameters(scan, s)
           d == SosSpecified(c, s)
           e == SosFields(c, s)
           f == [e EXCEPT !.input_scan_number = @ + 1]
<1>1. IsScan(scan) /\ scan.comps_in_scan = SosComps(s)
  <2> DEFINE cur == [i \in 1..MAX_COMPS_IN_SCAN |->
                        IF i \in SosTaken(c, s) THEN Index(c, SosId(s, i)) ELSE c.scan.cur_comp_info[i]]
  <2>1. scan = [c.scan EXCEPT !.comps_in_scan = SosComps(s), !.cur_comp_info = cur]
    BY Zenon DEF SosHeader
  <2> HIDE DEF scan, cur
  <2>2. scan = [x \in ScanFields |-> scan[x]] /\ scan.comps_in_scan = SosComps(s)
    BY <2>1 DEF ScanFields, IsObject, IsScan
  <2> QED
    BY <2>2 DEF IsScan
<1> HIDE DEF scan
<1>2. /\ IsScan(all) /\ all.comps_in_scan = scan.comps_in_scan
      /\ all.cur_comp_info = scan.cur_comp_info
  BY <1>1 DEF SosParameters, IsScan, ScanFields
<1> HIDE DEF all, comps
<1>3. d = [c EXCEPT !.comps = comps, !.scan = scan]
  BY Zenon DEF SosSpecified, scan, comps
<1>4. e = [c EXCEPT !.comps = comps, !.scan = all]
  <2>1. e = [d EXCEPT !.scan = all]
    BY <1>3 DEF all, SosFields, IsObject, ObjectFields
  <2> HIDE DEF d, e
  <2> QED
    BY <1>3, <2>1 DEF IsObject, ObjectFields
<1> HIDE DEF d, e
<1>5. Keeps(c, d) /\ Keeps(c, e)
  BY <1>1, <1>2, <1>3, <1>4, SosTablesKeep, Zenon DEF comps
<1>6. IsObject(e)
  BY <1>5, Zenon DEF Keeps
<1>7. Untouched(e, f)
  BY <1>6 DEF IsObject, ObjectFields, Untouched
<1> HIDE DEF f
<1>8. Keeps(c, f)
  BY <1>5, <1>6, <1>7, OtherFields, KeepsTwice
<1> QED
  BY <1>1, <1>2, <1>5, <1>8, <1>4 DEF d, e, f, comps, scan, IsObject, ObjectFields

(* Every known id is that of some component of the frame.                  *)
LEMMA KnownComponent ==
    ASSUME NEW c, IsObject(c), c.num_components = Len(c.comps), NEW id, KnownId(c, id)
    PROVE  Index(c, id) \in 1..Len(c.comps)
<1> DEFINE S == {i \in 1..Len(c.comps) : c.comps[i].id = id}
<1>1. Len(c.comps) \in Nat
  BY DEF IsObject
<1>2. S \subseteq Nat /\ S # {}
  BY <1>1 DEF KnownId
<1>3. PICK i \in S : \A j \in S : i <= j
  <2> HIDE DEF S
  <2> QED
    BY <1>2, Smallest
<1> QED
  BY <1>3, <1>1 DEF Index

LEMMA ScanHeaderKeeps ==
    ASSUME data \in Seq(0..255), NEW c, IsObject(c), NEW s, IsSource(s), NEW saw,
           saw => c.num_components = Len(c.comps)
    PROVE  /\ KeepsFrame(c, get_sos(c, s, saw))
           /\ get_sos(c, s, saw).st = "done" => saw /\ ScanOf(get_sos(c, s, saw).c)
<1> DEFINE d == SosSpecified(c, s)
           e == SosFields(c, s)
           f == [e EXCEPT !.input_scan_number = @ + 1]
           r == get_sos(c, s, saw)
           n == SosComps(s)
<1>1. \/ r \in {Suspend(c), Error(c), Error(d), Suspend(e)}
      \/ /\ saw /\ Arrived(s, 3) /\ n \in 1..MAX_COMPS_IN_SCAN
         /\ \A i \in SosSpecs(s) : ~BadSpec(c, s, i)
         /\ Arrived(s, SosEnd(s)) /\ r = Done(f, SosEnd(s))
  BY Zenon DEF get_sos, SosWhenSuspended
<1>2. /\ Keeps(c, d) /\ Keeps(c, e) /\ Keeps(c, f) /\ e.comps = SosTables(c, s)
      /\ e.scan.comps_in_scan = n /\ e.scan.cur_comp_info = SosHeader(c, s).cur_comp_info
  BY SosFieldsKeep
<1> HIDE DEF d, e
<1>3. CASE r \in {Suspend(c), Error(c), Error(d), Suspend(e)}
  <2>1. r.st # "done"
    BY <1>3 DEF Suspend, Error
  <2> QED
    BY <1>2, <1>3, Results, KeepsItself, <2>1
<1>4. CASE /\ saw /\ Arrived(s, 3) /\ n \in 1..MAX_COMPS_IN_SCAN
           /\ \A i \in SosSpecs(s) : ~BadSpec(c, s, i)
           /\ Arrived(s, SosEnd(s)) /\ r = Done(f, SosEnd(s))
  <2>1. n \in Nat \ {0} /\ SosEnd(s) \in Nat /\ 1..n \subseteq 1..MAX_COMPS_IN_SCAN
    <3>1. n \in Nat \ {0} /\ 1..n \subseteq 1..MAX_COMPS_IN_SCAN
      <4>1. MAX_COMPS_IN_SCAN \in Nat /\ n \in 1..MAX_COMPS_IN_SCAN
        BY <1>4, SavedMarkers
      <4> HIDE DEF n
      <4> QED
        BY <4>1
    <3> QED
      BY <3>1 DEF SosEnd
  <2>2. \A i \in 1..n : i \in SosSpecs(s)
    <3> SUFFICES ASSUME NEW i \in 1..n PROVE Arrived(s, 3 + 2 * i)
      BY DEF SosSpecs
    <3>1. 3 + 2 * i \in 0..SosEnd(s)
      BY <2>1 DEF SosEnd
    <3> QED
      BY <1>4, <2>1, <3>1, ArrivedBefore
  <2>3. \A i \in 1..n : ~BadSpec(c, s, i) /\ KnownId(c, SosId(s, i)) /\ i \in SosTaken(c, s)
    BY <1>4, <2>2, <2>1 DEF BadSpec, SosTaken
  <2>4. \A i \in 1..n : Index(c, SosId(s, i)) \in DOMAIN c.comps
    BY Numbered, <1>4, <2>3, KnownComponent DEF IsObject
  <2>5. \A i \in 1..n : e.scan.cur_comp_info[i] = Index(c, SosId(s, i))
    <3> DEFINE cur == [i \in 1..MAX_COMPS_IN_SCAN |->
                          IF i \in SosTaken(c, s) THEN Index(c, SosId(s, i))
                          ELSE c.scan.cur_comp_info[i]]
    <3>1. SosHeader(c, s).cur_comp_info = cur
      <4> HIDE DEF cur
      <4> QED
        BY DEF IsObject, IsScan, ScanFields, SosHeader, cur
    <3> QED
      BY <1>2, <2>1, <2>3, <3>1, Zenon
  <2>6. IsObject(e) /\ DOMAIN e.comps = DOMAIN c.comps
    BY <1>2, Zenon DEF Keeps, SameFrame, SameFactors
  <2>7. f.comps = e.comps /\ f.scan = e.scan
    BY <2>6 DEF IsObject, ObjectFields
  <2> HIDE DEF f
  <2>8. ScanOf(f)
    <3> DEFINE cur == ScanComps(f)
    <3>1. cur = [k \in 1..n |-> f.scan.cur_comp_info[k]]
      BY <1>2, <2>7, Zenon DEF ScanComps
    <3>2. \A k \in 1..n : cur[k] \in DOMAIN f.comps
      BY <2>4, <2>5, <2>6, <2>7, <3>1, Zenon
    <3>3. Len(cur) = n /\ DOMAIN cur = 1..n
      <4> HIDE DEF cur
      <4> QED
        BY <2>1, <3>1, Numbered
    <3> HIDE DEF cur
    <3> QED
      BY <2>1, <3>2, <3>3, Zenon DEF ScanOf, cur
  <2>9. r.c = f
    <3> HIDE DEF r
    <3> QED
      BY <1>4 DEF Done
  <2> QED
    BY <1>4, <2>8, <1>2, <2>1, Results, <2>9, Zenon
<1> QED
  BY <1>1, <1>3, <1>4

(* get_sof: a frame is read once, and its size is not zero.  The header of *)
(* a second one is written all the same, without its components.           *)
LEMMA FrameFields ==
    ASSUME NEW c, IsObject(c), NEW s, IsSource(s)
    PROVE  /\ IsObject(SofFields(c, s)) /\ SameFactors(c, SofFields(c, s))
           /\ SofFields(c, s).comps = c.comps
           /\ Arrived(s, SofLength) =>
                /\ SofFields(c, s).width = TwoByte(s, 6) /\ SofFields(c, s).height = TwoByte(s, 4)
                /\ SofFields(c, s).num_components = SofComps(s)
<1> DEFINE precision == ByteField(s, 3, c.precision)
           height == TwoByteField(s, 4, c.height)
           width == TwoByteField(s, 6, c.width)
           number == ByteField(s, SofLength, c.num_components)
           d == SofFields(c, s)
<1>1. d = [c EXCEPT !.precision = precision, !.height = height, !.width = width,
                    !.num_components = number]
  BY Zenon DEF SofFields
<1>2. ASSUME Arrived(s, SofLength)
      PROVE  width = TwoByte(s, 6) /\ height = TwoByte(s, 4) /\ number = SofComps(s)
  BY <1>2, ArrivedBefore DEF SofLength, TwoByteField, ByteField, SofComps
<1> HIDE DEF precision, height, width, number, d
<1>3. /\ d = [x \in ObjectFields |-> d[x]] /\ d.comps = c.comps /\ d.scan = c.scan
      /\ d.width = width /\ d.height = height /\ d.num_components = number
  BY <1>1 DEF IsObject, ObjectFields
<1>4. IsObject(d) /\ SameFactors(c, d)
  BY <1>3, Zenon DEF IsObject, SameFactors
<1> QED
  BY <1>2, <1>3, <1>4, Zenon DEF d

LEMMA FrameComponents ==
    ASSUME data \in Seq(0..255), NEW c, IsObject(c), NEW s, IsSource(s), Arrived(s, SofLength),
           c.comps # << >> => Len(c.comps) = SofComps(s)
    PROVE  LET e == SofWithComps(SofHeader(c, s), s)
           IN  /\ IsObject(e) /\ e.width = TwoByte(s, 6) /\ e.height = TwoByte(s, 4)
               /\ e.num_components = SofComps(s) /\ Len(e.comps) = SofComps(s)
<1> DEFINE N == SofComps(s)
           none == [id |-> 0, h |-> 0, v |-> 0, q |-> 0, dc |-> 0, ac |-> 0]
           new == [i \in 1..N |-> none]
           b == SofFields(c, s)
           begun == IF b.comps = << >> THEN new ELSE b.comps
           d == SofHeader(c, s)
           read == [i \in DOMAIN begun |-> SofComponent(s, SofLength + 3 * i - 2, begun[i])]
           e == SofWithComps(d, s)
           Comp(x) == x = [f \in ComponentFields |-> x[f]]
<1>1. N \in Nat
  <2>1. Byte(s, SofLength) \in 0..255
    <3>1. SofLength \in Nat \ {0}
      BY DEF SofLength
    <3> QED
      BY <3>1, ArrivedByte
  <2>2. \A n \in 0..255 : n \in Nat
    OBVIOUS
  <2> QED
    BY <2>1, <2>2, Zenon DEF SofComps
<1>2. /\ IsObject(b) /\ b.comps = c.comps /\ b.width = TwoByte(s, 6)
      /\ b.height = TwoByte(s, 4) /\ b.num_components = N
  BY FrameFields
<1>3. /\ d = [x \in ObjectFields |-> d[x]] /\ d.comps = begun /\ d.scan = b.scan
      /\ d.width = TwoByte(s, 6) /\ d.height = TwoByte(s, 4) /\ d.num_components = N
  <2>1. d = [b EXCEPT !.comps = begun]
    BY Zenon DEF SofHeader
  <2> HIDE DEF b, begun, d, N
  <2> QED
    BY <1>2, <2>1 DEF IsObject, ObjectFields
<1>4. begun = [i \in 1..N |-> begun[i]] /\ \A i \in 1..N : Comp(begun[i])
  <2>1. CASE c.comps = << >>
    <3>1. Comp(none)
      BY DEF ComponentFields
    <3>2. new = [i \in 1..N |-> new[i]] /\ \A i \in 1..N : new[i] = none
      <4> HIDE DEF none, N
      <4> QED
        OBVIOUS
    <3> HIDE DEF none, Comp, new, b
    <3>3. begun = new
      BY <1>2, <2>1, Zenon
    <3> HIDE DEF begun
    <3> QED
      BY <3>2, <3>3, <3>1
  <2>2. CASE c.comps # << >>
    <3> HIDE DEF b
    <3>1. begun = c.comps /\ Len(c.comps) = N
      BY <1>2, <2>2, Zenon
    <3>2. /\ c.comps = [i \in 1..Len(c.comps) |-> c.comps[i]]
          /\ \A i \in 1..Len(c.comps) : Comp(c.comps[i])
      BY Zenon DEF IsObject
    <3> HIDE DEF Comp, begun
    <3> QED
      BY <3>1, <3>2
  <2> QED
    BY <2>1, <2>2
<1>5. DOMAIN begun = 1..N
  BY <1>4, Zenon
<1> HIDE DEF begun, b, N
<1>6. read = [i \in 1..N |-> read[i]] /\ \A i \in 1..N : Comp(read[i])
  <2>1. ASSUME NEW k, NEW old, Comp(old) PROVE Comp(SofComponent(s, k, old))
    BY <2>1 DEF SofComponent, ComponentFields
  <2> HIDE DEF Comp
  <2>2. read = [i \in 1..N |-> read[i]]
    BY <1>5, Zenon
  <2>3. \A i \in 1..N : read[i] = SofComponent(s, SofLength + 3 * i - 2, begun[i])
    BY <1>5, Zenon
  <2> HIDE DEF read
  <2> QED
    BY <1>4, <2>1, <2>2, <2>3, Zenon
<1> HIDE DEF d
<1>7. e = [d EXCEPT !.comps = read]
  BY <1>3, Zenon DEF SofWithComps
<1> HIDE DEF e, read
<1>8. /\ e = [x \in ObjectFields |-> e[x]] /\ e.comps = read /\ e.scan = b.scan
      /\ e.width = TwoByte(s, 6) /\ e.height = TwoByte(s, 4) /\ e.num_components = N
  BY <1>3, <1>7 DEF ObjectFields
<1>9. Len(read) = N
  BY <1>1, <1>6, Numbered
<1> QED
  BY <1>8, <1>9, <1>1, <1>2, <1>6, Zenon DEF e, d, N, IsObject

LEMMA FrameHeader ==
    ASSUME data \in Seq(0..255), NEW c, IsObject(c), NEW s, IsSource(s), NEW saw \in BOOLEAN,
           saw \/ c.comps = << >> \/ Len(c.comps) = SofComps(s)
    PROVE  LET r == get_sof(c, s, saw)
           IN  /\ IsResult(r) /\ IsObject(r.c)
               /\ saw => SameFactors(c, r.c) /\ r.st # "done"
               /\ r.st = "done" => FrameRead(r.c)
               /\ saw \/ r.c.comps = << >> \/ Len(r.c.comps) = SofComps(s)
<1> DEFINE r == get_sof(c, s, saw)
           d == SofFields(c, s)
           e == SofWithComps(SofHeader(c, s), s)
           used == SofLength + 3 * SofComps(s)
<1>1. CASE r \in {Suspend(d), Error(d)}
  <2>1. IsObject(d) /\ SameFactors(c, d) /\ d.comps = c.comps
    BY FrameFields
  <2> HIDE DEF d
  <2> HIDE DEF r
  <2> QED
    BY <2>1, <1>1 DEF r, IsResult, Suspend, Error
<1>2. CASE /\ ~saw /\ TwoByte(s, 4) # 0 /\ TwoByte(s, 6) # 0 /\ Arrived(s, SofLength)
           /\ r = Suspend(e) \/ r = Done(e, used)
  <2>1. /\ IsObject(e) /\ e.width = TwoByte(s, 6) /\ e.height = TwoByte(s, 4)
        /\ e.num_components = SofComps(s) /\ Len(e.comps) = SofComps(s)
    BY <1>2, FrameComponents
  <2>2. TwoByte(s, 4) \in Nat /\ TwoByte(s, 6) \in Nat /\ used \in Nat
    <3>1. Arrived(s, 8) /\ 8 \in Nat \ {0} /\ Byte(s, 8) \in 0..255
      <4>1. Arrived(s, 8) /\ 8 \in Nat \ {0}
        BY <1>2 DEF SofLength
      <4> QED
        BY <4>1, ArrivedByte
    <3>2. TwoByte(s, 4) \in Nat /\ TwoByte(s, 6) \in Nat
      BY <3>1, ArrivedBefore, ArrivedWord
    <3>3. \A n \in 0..255 : 8 + 3 * n \in Nat
      OBVIOUS
    <3>4. used = 8 + 3 * Byte(s, 8)
      BY DEF SofLength, SofComps
    <3> QED
      BY <3>1, <3>2, <3>3, <3>4, Zenon
  <2> HIDE DEF e, used, r
  <2> QED
    BY <1>2, <2>1, <2>2 DEF r, IsResult, Suspend, Done, FrameRead
<1> QED
  BY <1>1, <1>2 DEF get_sof

LEMMA FrameBegun ==
    ASSUME NEW c, IsObject(c), NEW m
    PROVE  Keeps(c, SofStarted(c, m))
<1> DEFINE d == SofStarted(c, m)
<1> HIDE DEF d
<1> QED
  BY OtherFields DEF d, SofStarted, IsObject, ObjectFields, Untouched

(* What comes of a marker that is not saved.                               *)
Processes(c, s, r) ==
    /\ IsResult(r) /\ IsObject(r.c)
    /\ ~IsSOF(s.unread_marker) => SameFrame(c, r.c)
    /\ marker.saw_SOF => SameFactors(c, r.c) /\ (IsSOF(s.unread_marker) => r.st # "done")
    /\ IsSOF(s.unread_marker) /\ r.st = "done" => FrameRead(r.c)
    /\ IsSOF(s.unread_marker) => Resumes(r.c, s)
    /\ s.unread_marker = SOS /\ r.st = "done" => marker.saw_SOF /\ ScanOf(r.c)

LEMMA ProcessedMarker ==
    ASSUME data \in Seq(0..255), marker.saw_SOF \in BOOLEAN,
           NEW c, IsObject(c), NEW s, IsSource(s), Resumes(c, s),
           marker.saw_SOF /\ ~IsSOF(s.unread_marker) => FrameRead(c)
    PROVE  Processes(c, s, Processed(c, s))
<1> DEFINE r == Processed(c, s)
           m == s.unread_marker
           start_of_frame == get_sof(SofStarted(c, m), s, marker.saw_SOF)
           start_of_scan == get_sos(c, s, marker.saw_SOF)
<1>1. \/ ~IsSOF(m) /\ m # SOS
         /\ r \in {Error(c), Done(c, 0), Done(AfterSOI(c), 0), get_dht(c, s), get_dqt(c, s),
                   get_dri(c, s), skip_variable(c, s), get_interesting_appn(c, s)}
      \/ IsSOF(m) /\ m # SOS /\ r = start_of_frame
      \/ ~IsSOF(m) /\ m = SOS /\ r = start_of_scan
  <2>1. CASE IsSOF(m)
    <3>1. /\ m # SOIMarker /\ m # SOS /\ m # DHT /\ m # DQT /\ m # DRI /\ m # DNL
          /\ m \notin MiscMarkers /\ m # EOIMarker /\ ~Parameterless(m)
      <4>1. m \in 192..194
        BY <2>1 DEF IsSOF, SOF0, SOF1, SOF2
      <4> HIDE DEF m
      <4>2. m \notin MiscMarkers
        BY <4>1, SavedMarkers DEF APP, COM
      <4> QED
        BY <4>1, <4>2 DEF SOS, SOIMarker, DHT, DQT, DRI, DNL, EOIMarker, Parameterless, IsRST,
             RSTn, IsTEM
    <3> QED
      BY <2>1, <3>1, Zenon DEF Processed
  <2>2. CASE m = SOS
    <3>1. /\ m # SOIMarker /\ ~IsSOF(m) /\ m # DHT /\ m # DQT /\ m # DRI /\ m # DNL
          /\ m \notin MiscMarkers /\ m # EOIMarker /\ ~Parameterless(m)
      BY <2>2, SavedMarkers DEF IsSOF, SOF0, SOF1, SOF2, SOS, SOIMarker, DHT, DQT, DRI, DNL,
           EOIMarker, Parameterless, IsRST, RSTn, IsTEM, APP, COM
    <3> QED
      BY <2>2, <3>1, Zenon DEF Processed
  <2>3. CASE ~IsSOF(m) /\ m # SOS
    BY <2>3, Zenon DEF Processed
  <2> QED
    BY <2>1, <2>2, <2>3, Zenon
<1>2. CASE ~IsSOF(m) /\ m # SOS
           /\ r \in {Error(c), Done(c, 0), Done(AfterSOI(c), 0), get_dht(c, s), get_dqt(c, s),
                     get_dri(c, s), skip_variable(c, s), get_interesting_appn(c, s)}
  <2>1. 0 \in Nat
    OBVIOUS
  <2>2. KeepsFrame(c, r)
    BY <1>2, <2>1, Results, KeepsItself, AfterSOIKeeps, HuffmanKeeps, QuantizersKeep, RestartsKeep,
       SkipKeeps, InterestingKeeps
  <2> QED
    BY <1>2, <2>2, Zenon DEF Processes, KeepsFrame, Keeps, SameFrame
<1>3. CASE IsSOF(m) /\ m # SOS /\ r = start_of_frame
  <2> DEFINE d == SofStarted(c, m)
  <2>1. Keeps(c, d)
    BY FrameBegun
  <2> HIDE DEF d
  <2>2. SameFactors(c, d) /\ (d.comps = << >> <=> c.comps = << >>) /\ Len(d.comps) = Len(c.comps)
    BY <2>1 DEF d, SofStarted, IsObject, ObjectFields, Keeps, SameFrame
  <2>3. /\ IsResult(start_of_frame) /\ IsObject(start_of_frame.c)
        /\ marker.saw_SOF => SameFactors(d, start_of_frame.c) /\ start_of_frame.st # "done"
        /\ start_of_frame.st = "done" => FrameRead(start_of_frame.c)
        /\ \/ marker.saw_SOF \/ start_of_frame.c.comps = << >>
           \/ Len(start_of_frame.c.comps) = SofComps(s)
    BY <2>1, <2>2, FrameHeader DEF d, Keeps, Resumes
  <2> HIDE DEF start_of_frame, r
  <2> QED
    BY <1>3, <2>3, <2>2, Zenon DEF Processes, Resumes, r, SameFactors
<1>4. CASE ~IsSOF(m) /\ m = SOS /\ r = start_of_scan
  <2>1. /\ KeepsFrame(c, start_of_scan)
        /\ start_of_scan.st = "done" => marker.saw_SOF /\ ScanOf(start_of_scan.c)
    BY <1>4, ScanHeaderKeeps DEF FrameRead
  <2> HIDE DEF start_of_scan, r
  <2> QED
    BY <1>4, <2>1, Zenon DEF Processes, KeepsFrame, Keeps, SameFrame, r
<1> QED
  BY <1>1, <1>2, <1>3, <1>4

-----------------------------------------------------------------------------
(* One turn of read_markers.  The sampling factors of a frame that has been *)
(* seen stay, and the rest of it does as long as it is intact; and a scan  *)
(* header is only good behind a frame.                                     *)
FrameKept ==
    /\ marker.saw_SOF => marker'.saw_SOF /\ SameFactors(cinfo, cinfo')
    /\ marker.saw_SOF /\ FrameIntact' => FrameIntact /\ SameFrame(cinfo, cinfo')

Reads ==
    /\ Readable' /\ FrameKept /\ files' = files /\ data' = data /\ index' = index
    /\ ret' = "SOS" => marker'.saw_SOF /\ ScanOf(cinfo')

LEMMA SourceStays ==
    ASSUME NEW s, IsSource(s), data' = data, src' = s
    PROVE  IsSource(src)'
BY Zenon DEF IsSource

LEMMA ObjectNext ==
    ASSUME NEW c, IsObject(c), cinfo' = c
    PROVE  IsObject(cinfo)'
BY Zenon DEF IsObject

(* A frame header the reader waits in front of is what it finds again.     *)
Finds(s) ==
    /\ IsSource(s) /\ Resumes(cinfo, s)
    /\ IsSOF(src.unread_marker) => s.unread_marker = src.unread_marker /\ s.ok

LEMMA FoundFrame ==
    ASSUME Readable
    PROVE  Finds(Found(src))
<1> DEFINE t == [src EXCEPT !.ok = TRUE]
<1>1. IsSource(src) /\ IsSource(Found(src)) /\ Resumes(cinfo, src)
  BY FoundMarker DEF Readable
<1>2. ASSUME IsSOF(src.unread_marker)
      PROVE  Found(src).unread_marker = src.unread_marker /\ Found(src).ok /\ Found(src).pos = src.pos
  <2>1. t.unread_marker = src.unread_marker /\ t.ok /\ t.pos = src.pos
    BY <1>1 DEF IsSource, SourceFields
  <2> HIDE DEF t
  <2> QED
    BY <1>2, <2>1 DEF Found, IsSOF, SOF0, SOF1, SOF2
<1> QED
  BY <1>1, <1>2, Zenon DEF Finds, Resumes, SofComps, Byte

(* Components that are not there are not there in an object like it.       *)
LEMMA NoComponents ==
    ASSUME NEW c, NEW d, IsObject(d), SameFactors(c, d), c.comps = << >>
    PROVE  d.comps = << >>
BY DEF SameFactors, IsObject

(* A step that leaves the object alone, and does not bring the reader past *)
(* a frame header it waits in front of.                                    *)
LEMMA NothingRead ==
    ASSUME cinfo' = cinfo, marker'.saw_SOF = marker.saw_SOF, FrameIntact' => FrameIntact
    PROVE  FrameKept
BY Zenon DEF FrameKept, SameFrame, SameFactors

LEMMA StillResumes ==
    ASSUME Resumes(cinfo, src), cinfo' = cinfo, data' = data, marker'.saw_SOF = marker.saw_SOF,
           IsSOF(src.unread_marker) =>
               src'.unread_marker = src.unread_marker /\ src'.pos = src.pos
    PROVE  Resumes(cinfo, src)'
BY Zenon DEF Resumes, SofComps, Byte, IsSOF

LEMMA OutcomeReads ==
    ASSUME Readable, NEW s, Finds(s), NEW r, Processes(cinfo, s, r), Outcome(s, r)
    PROVE  Reads
<1>1. /\ files' = files /\ data' = data /\ index' = index /\ limits' = limits /\ cinfo' = r.c
  BY DEF Outcome, fileState
<1>2. IsSource(src)' /\ IsSource(s)
  <2> DEFINE t == [s EXCEPT !.pos = @ + r.used, !.unread_marker = 0,
                            !.next_restart_num = IF s.unread_marker = SOS THEN 0 ELSE @]
  <2>1. src' = s \/ src' = t
    BY Zenon DEF Outcome
  <2>2. IsSource(t)
    <3>1. s = [x \in SourceFields |-> s[x]] /\ s.pos \in Nat /\ r.used \in Nat
      BY DEF Finds, IsSource, Processes, IsResult
    <3>2. t = [x \in SourceFields |-> t[x]] /\ t.avail = s.avail /\ t.pos = s.pos + r.used
      BY <3>1 DEF SourceFields
    <3> HIDE DEF t
    <3> QED
      BY <3>2, <3>1, Moved DEF Finds
  <2> HIDE DEF t
  <2> QED
    BY <1>1, <2>1, <2>2, SourceStays DEF Finds
<1>3. /\ IsMarker(marker)'
      /\ marker'.saw_SOF <=> marker.saw_SOF \/ (IsSOF(s.unread_marker) /\ r.st = "done")
  <2> DEFINE p == IF s.unread_marker = SOF2 THEN -1 ELSE SosPosition(s)
             soi == marker.saw_SOI \/ (s.unread_marker = SOIMarker /\ r.st = "done")
             sof == marker.saw_SOF \/ (IsSOF(s.unread_marker) /\ r.st = "done")
  <2>1. marker' = [marker EXCEPT !.saw_SOI = soi, !.saw_SOF = sof,
                                 !.current_sos_marker_position = p]
    BY Zenon DEF Outcome, SeesFrame
  <2>2. sof \in BOOLEAN
    BY DEF Readable, IsMarker
  <2> HIDE DEF p, soi, sof
  <2>3. /\ marker' = [x \in MarkerFields |-> marker'[x]] /\ marker'.saw_SOF = sof
        /\ marker'.cur_marker = marker.cur_marker
    BY <2>1 DEF Readable, IsMarker, MarkerFields
  <2> QED
    BY <2>3, <2>2, Zenon DEF IsMarker, sof, Readable
<1>4. IsSOF(s.unread_marker) /\ r.st # "done" =>
        ~FrameIntact' /\ src'.unread_marker = s.unread_marker /\ src'.pos = s.pos
  <2> SUFFICES ASSUME IsSOF(s.unread_marker), r.st # "done"
               PROVE  ~FrameIntact' /\ src'.unread_marker = s.unread_marker /\ src'.pos = s.pos
    BY Zenon
  <2> QED
    BY DEF FrameIntact, IsSOF, Processes, IsResult, Outcome
<1>5. FrameKept
  <2>1. ASSUME marker.saw_SOF, FrameIntact' PROVE FrameIntact /\ SameFrame(cinfo, cinfo')
    BY <1>4, <2>1, <1>1, Zenon DEF Processes, Finds, FrameIntact
  <2> QED
    BY <1>1, <1>3, <2>1, Zenon DEF FrameKept, Processes
<1>6. Resumes(cinfo, src)'
  <2> SUFFICES ASSUME ~marker'.saw_SOF
               PROVE  \/ cinfo'.comps = << >>
                      \/ /\ IsSOF(src'.unread_marker)
                         /\ Len(cinfo'.comps) = data'[src'.pos + SofLength]
    BY Zenon DEF Resumes, SofComps, Byte, IsSOF, SofLength
  <2>1. ~marker.saw_SOF
    BY <1>3
  <2>2. CASE IsSOF(s.unread_marker)
    BY <1>3, <2>2, <1>1, <1>4, <2>1, Zenon DEF Processes, Resumes, SofComps, Byte
  <2>3. CASE ~IsSOF(s.unread_marker)
    BY <2>1, <2>3, <1>1, NoComponents DEF Finds, Resumes, Processes, SameFrame
  <2> QED
    BY <2>2, <2>3
<1>7. ret' = "SOS" => marker'.saw_SOF /\ ScanOf(cinfo')
  <2>1. ASSUME ret' = "SOS" PROVE s.unread_marker = SOS /\ r.st = "done"
    BY <2>1 DEF Processes, IsResult, Outcome, Returned
  <2> QED
    BY <1>1, <1>3, <2>1, Zenon DEF Processes
<1> QED
  BY <1>1, <1>2, ObjectNext, <1>3, <1>5, <1>6, <1>7 DEF Reads, Readable, Processes,
     FrameKept, FrameRead, SameFrame, SameFactors

LEMMA BytesTaken ==
    ASSUME data \in Seq(0..255), NEW s, IsSource(s), NEW k \in Nat, NEW item, IsItem(item)
    PROVE  /\ Wanted(s, k, item) \in 0..item.data_length - Len(item.data)
           /\ BytesFrom(s, k, Wanted(s, k, item)) \in Seq(0..255)
           /\ Len(BytesFrom(s, k, Wanted(s, k, item))) = Wanted(s, k, item)
<1> DEFINE n == Wanted(s, k, item)
           room == item.data_length - Len(item.data)
           there == s.avail - s.pos - k
           taken == BytesFrom(s, k, n)
<1>1. room \in Nat
  BY DEF IsItem
<1>2. there \in Int
  BY DEF IsSource
<1>3. n = AtMost(room, AtLeast(there, 0))
  BY Zenon DEF Wanted, KeepsBytes
<1> HIDE DEF n, room, there
<1>4. n \in 0..room /\ (n > 0 => n <= there)
  BY <1>1, <1>2, <1>3 DEF AtMost, AtLeast
<1>5. n \in Nat
  BY <1>1, <1>4
<1>6. \A i \in 1..n : Byte(s, k + i) \in 0..255
  <2> SUFFICES ASSUME NEW i \in 1..n PROVE Byte(s, k + i) \in 0..255
    OBVIOUS
  <2>1. k + i \in Nat \ {0} /\ s.pos + (k + i) <= s.avail
    BY <1>4, <1>5 DEF IsSource, there
  <2> QED
    BY <2>1, ArrivedByte DEF Arrived
<1>7. taken \in [1..n -> 0..255]
  BY <1>6 DEF BytesFrom
<1> HIDE DEF taken
<1>8. taken \in Seq(0..255) /\ Len(taken) = n
  BY <1>5, <1>7
<1> QED
  BY <1>4, <1>8 DEF n, room, taken

LEMMA FilledItem ==
    ASSUME data \in Seq(0..255), NEW s, IsSource(s), NEW k \in Nat, NEW item, IsItem(item)
    PROVE  IsItem(Filled(s, k, item))
<1> DEFINE new == BytesFrom(s, k, Wanted(s, k, item))
           all == item.data \o new
           t == Filled(s, k, item)
<1>1. /\ new \in Seq(0..255) /\ Len(new) \in 0..item.data_length - Len(item.data)
  BY BytesTaken, Zenon
<1>2. t = [item EXCEPT !.data = all]
  BY Zenon DEF Filled
<1> HIDE DEF new
<1>3. /\ item = [x \in ItemFields |-> item[x]] /\ item.data \in Seq(0..255)
      /\ Len(item.data) \in Nat /\ item.data_length \in Nat
      /\ item.data_length \in 0..item.original_length /\ item.original_length \in Nat
  BY DEF IsItem
<1>4. all \in Seq(0..255) /\ Len(all) = Len(item.data) + Len(new)
  BY <1>1, <1>3
<1> HIDE DEF all, t
<1>5. /\ t = [x \in ItemFields |-> t[x]] /\ t.data = all
      /\ t.data_length = item.data_length /\ t.original_length = item.original_length
  BY <1>2, <1>3 DEF ItemFields
<1>6. IsItem(t)
  BY <1>3, <1>4, <1>1, <1>5 DEF IsItem
<1> QED
  BY <1>6 DEF t

LEMMA SavedReads ==
    ASSUME Readable, NEW s, Finds(s), ~IsSOF(s.unread_marker), NEW k \in Nat, NEW item, IsItem(item),
           SaveFrom(s, k, item), UNCHANGED << fileState, limits, index, saves >>
    PROVE  Reads
<1> DEFINE wanted == Wanted(s, k, item)
           filled == Filled(s, k, item)
<1>1. files' = files /\ data' = data /\ index' = index /\ limits' = limits
  BY DEF fileState
<1>2. IsItem(filled) /\ data \in Seq(0..255) /\ IsObject(cinfo) /\ IsSource(s)
  BY FilledItem DEF Readable, Finds
<1>3. wanted \in Nat
  <2>1. wanted \in 0..item.data_length - Len(item.data)
    BY <1>2, BytesTaken, Zenon
  <2> QED
    BY <2>1 DEF IsItem
<1> HIDE DEF wanted, filled
<1>4. /\ ret' # "SOS"
      /\ cinfo' = cinfo \/ cinfo' = Linked(cinfo, filled)
      /\ \/ src' = [s EXCEPT !.unread_marker = 0,
                             !.pos = @ + k + wanted + item.original_length - item.data_length]
         \/ src' = [s EXCEPT !.pos = @ + k + wanted]
      /\ \/ marker' = [marker EXCEPT !.cur_marker = NoMarker,
                                     !.current_sos_marker_position = SosPosition(s)]
         \/ marker' = [marker EXCEPT !.cur_marker = filled,
                                     !.current_sos_marker_position = SosPosition(s)]
  BY DEF SaveFrom, wanted, filled
<1>5. Keeps(cinfo, cinfo')
  BY <1>2, <1>4, KeepsItself, LinkedKeeps
<1>6. IsSource(src)'
  <2> DEFINE rest == item.original_length - item.data_length
             a == s.pos + k + wanted + item.original_length - item.data_length
             b == s.pos + k + wanted
  <2>1. s = [x \in SourceFields |-> s[x]] /\ a \in Nat /\ b \in Nat
    <3>1. s = [x \in SourceFields |-> s[x]] /\ s.pos \in Nat
      BY <1>2, Zenon DEF IsSource
    <3>2. a \in Nat
      BY <1>3, <3>1 DEF IsItem
    <3> QED
      BY <3>1, <1>3, <3>2
  <2>2. \/ src' = [s EXCEPT !.unread_marker = 0, !.pos = a]
        \/ src' = [s EXCEPT !.pos = b]
    BY <1>4, Zenon
  <2> HIDE DEF a, b
  <2> QED
    BY <1>1, <1>2, <2>1, <2>2, Moved, SourceStays DEF SourceFields
<1>7. IsMarker(marker)' /\ marker'.saw_SOF = marker.saw_SOF
  <2>1. marker = [x \in MarkerFields |-> marker[x]] /\ marker.saw_SOF \in BOOLEAN
    BY DEF Readable, IsMarker
  <2> DEFINE position == SosPosition(s)
  <2> HIDE DEF position
  <2> QED
    BY <2>1, <1>4, <1>2 DEF IsMarker, MarkerFields
<1>8. IsObject(cinfo)' /\ SameFrame(cinfo, cinfo')
  BY <1>5, ObjectNext, Zenon DEF Keeps
<1>9. FrameIntact /\ FrameKept
  BY <1>7, <1>8, Zenon DEF Finds, FrameIntact, FrameKept, SameFrame
<1>10. Resumes(cinfo, src)'
  BY <1>5, NoComponents, <1>7 DEF Finds, Resumes, Keeps, SameFrame
<1> QED
  BY <1>1, <1>4, <1>9, <1>6, <1>7, <1>8, <1>10, Zenon DEF Reads, Readable, FrameRead,
     SameFrame, SameFactors

LEMMA BegunItem ==
    ASSUME data \in Seq(0..255), limits \in [MiscMarkers -> Int],
           NEW s, IsSource(s), IsSaved(s), Arrived(s, 2), ~(Begun(s) < 0)
    PROVE  IsItem(NewItem(s))
<1> DEFINE limit == limits[s.unread_marker]
           length == Begun(s)
           kept == SaveLength(length, limit)
           t == NewItem(s)
<1>1. limit \in Nat
  BY DEF IsSaved, Processor
<1>2. length \in Nat
  BY ArrivedWord DEF Begun
<1>3. t = [marker |-> s.unread_marker, original_length |-> length, data_length |-> kept, data |-> << >>]
  BY Zenon DEF NewItem
<1> HIDE DEF limit, length, t
<1>4. kept \in 0..length
  BY <1>1, <1>2 DEF SaveLength, AtMost
<1> HIDE DEF kept
<1>5. /\ t = [x \in ItemFields |-> t[x]] /\ t.original_length = length /\ t.data_length = kept
      /\ t.data = << >>
  BY <1>3 DEF ItemFields
<1>6. << >> \in Seq(0..255) /\ Len(<< >>) = 0
  OBVIOUS
<1>7. t.data \in Seq(0..255) /\ Len(t.data) <= t.data_length
  <2>1. t.data \in Seq(0..255) /\ Len(t.data) = 0
    BY <1>5, <1>6, Zenon
  <2> QED
    BY <2>1, <1>2, <1>4, <1>5
<1> QED
  BY <1>2, <1>4, <1>5, <1>7 DEF t, IsItem

(* A marker that is saved is neither a frame nor a scan header.            *)
LEMMA SavedProcesses ==
    ASSUME NEW c, NEW s, s.unread_marker \in MiscMarkers, NEW r, KeepsFrame(c, r)
    PROVE  Processes(c, s, r)
<1>1. ~IsSOF(s.unread_marker) /\ s.unread_marker # SOS
  BY SavedMarkers DEF IsSOF, SOF0, SOF1, SOF2, SOS, APP, COM
<1> QED
  BY <1>1, Zenon DEF Processes, KeepsFrame, Keeps, SameFrame

LEMMA SaveMarkerReads ==
    ASSUME Readable, NEW s, Finds(s), save_marker(s)
    PROVE  Reads
<1>1. /\ data \in Seq(0..255) /\ limits \in [MiscMarkers -> Int] /\ IsObject(cinfo)
      /\ s.unread_marker \in MiscMarkers /\ IsSaved(s) /\ IsSource(s)
      /\ marker.cur_marker = NoMarker \/ IsItem(marker.cur_marker)
      /\ ~IsSOF(s.unread_marker)
  <2>1. s.unread_marker \in MiscMarkers
    BY Zenon DEF save_marker, IsSaved
  <2>2. ~IsSOF(s.unread_marker)
    BY <2>1, SavedMarkers DEF IsSOF, SOF0, SOF1, SOF2, APP, COM
  <2> QED
    BY <2>1, <2>2, Zenon DEF Readable, IsMarker, save_marker, Finds
<1>2. CASE marker.cur_marker # NoMarker
  BY <1>2, <1>1, SavedReads DEF save_marker
<1>3. CASE marker.cur_marker = NoMarker /\ ~Arrived(s, 2)
  BY <1>3, <1>1, KeepsItself, Results, SavedProcesses, OutcomeReads DEF save_marker
<1>4. CASE marker.cur_marker = NoMarker /\ Arrived(s, 2) /\ Begun(s) < 0
  <2> DEFINE r == Done(Examined(cinfo, s.unread_marker, << >>), 2)
  <2>1. Outcome(s, r)
    BY <1>4, Zenon DEF save_marker
  <2>2. KeepsFrame(cinfo, r)
    BY <1>1, ExaminedKeeps, Results
  <2> HIDE DEF r
  <2>3. Processes(cinfo, s, r)
    BY <1>1, <2>2, SavedProcesses
  <2> QED
    BY <2>1, <2>3, OutcomeReads
<1>5. CASE marker.cur_marker = NoMarker /\ Arrived(s, 2) /\ ~(Begun(s) < 0)
  BY <1>5, <1>1, BegunItem, SavedReads DEF save_marker
<1> QED
  BY <1>2, <1>3, <1>4, <1>5

LEMMA ReadStep ==
    ASSUME Readable, read_markers
    PROVE  Reads
<1> DEFINE s == Found(src)
<1>1. /\ Finds(s) /\ IsSource(s) /\ Resumes(cinfo, s)
      /\ IsObject(cinfo) /\ data \in Seq(0..255) /\ marker.saw_SOF \in BOOLEAN
  BY FoundFrame DEF Readable, IsMarker, Finds
<1>2. NoMarkerYet(s) \/ NoSOI(s) \/ ProcessMarker(s) \/ save_marker(s)
  BY Zenon DEF read_markers
<1> HIDE DEF s
<1>3. CASE NoMarkerYet(s)
  <2>1. /\ src' = s /\ ret' # "SOS" /\ ~s.ok
        /\ UNCHANGED << files, data, cinfo, marker, limits, index >>
    BY <1>3 DEF NoMarkerYet, fileState
  <2>2. FrameIntact /\ ~IsSOF(src.unread_marker)
    BY <1>1, <2>1, Zenon DEF Finds, FrameIntact
  <2>3. FrameKept /\ Resumes(cinfo, src)'
    BY <2>1, <2>2, NothingRead, StillResumes DEF Readable
  <2> QED
    BY <2>1, <2>3, <1>1, SourceStays, <2>2 DEF Reads, Readable, IsObject, IsMarker,
       IsItem, FrameRead
<1>4. CASE NoSOI(s)
  <2>1. /\ ret' # "SOS"
        /\ UNCHANGED << files, data, src, cinfo, marker, limits, index >>
    BY <1>4 DEF NoSOI, fileState
  <2>2. FrameIntact' => FrameIntact
    BY <2>1, Zenon DEF FrameIntact
  <2> QED
    BY <2>1, <2>2, NothingRead, StillResumes DEF Reads, Readable, IsSource, IsObject,
       IsMarker, IsItem, FrameRead
<1>5. CASE ProcessMarker(s)
  BY <1>1, ProcessedMarker, <1>5, OutcomeReads DEF Readable, Finds, FrameIntact,
     ProcessMarker
<1>6. CASE save_marker(s)
  BY <1>1, <1>6, SaveMarkerReads
<1> QED
  BY <1>2, <1>3, <1>4, <1>5, <1>6

-----------------------------------------------------------------------------
(* What was worked out for one object holds for another with its frame,    *)
(* and as long as only the sampling factors matter, with these.            *)
LEMMA SameSampling ==
    ASSUME NEW c, NEW d, SameFactors(c, d)
    PROVE  /\ max_h_samp_factor(d) = max_h_samp_factor(c)
           /\ max_v_samp_factor(d) = max_v_samp_factor(c)
BY DEF SameFactors, max_h_samp_factor, max_v_samp_factor

LEMMA FrameStays ==
    ASSUME NEW c, NEW d, SameFrame(c, d), IsObject(d), Framed(c)
    PROVE  Framed(d) /\ \A in : Measured(c, in) => Measured(d, in)
<1>1. ASSUME NEW in, Measured(c, in) PROVE Measured(d, in)
  <2>1. d.width = c.width /\ d.height = c.height /\ DOMAIN d.comps = DOMAIN c.comps
    BY DEF SameFrame, SameFactors
  <2>2. ASSUME NEW i \in DOMAIN d.comps PROVE ComponentSize(d, i) = ComponentSize(c, i)
    BY <2>1, SameSampling, Zenon DEF SameFrame, SameFactors, ComponentSize
  <2>3. ASSUME NEW i \in DOMAIN d.comps PROVE in.size[i] = ComponentSize(d, i)
    BY <1>1, <2>1, <2>2, Zenon DEF Measured
  <2> QED
    BY <1>1, <2>1, SameSampling, <2>3, Zenon DEF Measured, SameFrame
<1> QED
  BY Numbered, <1>1 DEF Framed, SameFrame, SameFactors, IsObject

LEMMA OutputStays ==
    ASSUME NEW c, NEW d, SameFactors(c, d), NEW p, NEW out, NEW merged, NEW how,
           FitsOutput(c, p, out, merged, how)
    PROVE  FitsOutput(d, p, out, merged, how)
<1>1. /\ max_h_samp_factor(d) = max_h_samp_factor(c) /\ DOMAIN d.comps = DOMAIN c.comps
      /\ max_v_samp_factor(d) = max_v_samp_factor(c)
  BY SameSampling DEF SameFactors
<1>2. ASSUME NEW i \in DOMAIN c.comps
      PROVE  /\ h_expand(d, out, i) = h_expand(c, out, i)
             /\ Fits(d, p, out, i) <=> Fits(c, p, out, i)
  <2>1. d.comps[i].h = c.comps[i].h /\ d.comps[i].v = c.comps[i].v
    BY DEF SameFactors
  <2>2. h_in_group(d, out, i) = h_in_group(c, out, i) /\ v_in_group(d, out, i) = v_in_group(c, out, i)
    BY <2>1, Zenon DEF h_in_group, v_in_group
  <2>3. h_expand(d, out, i) = h_expand(c, out, i)
    BY <1>1, <2>2, Zenon DEF h_expand
  <2>4. Fits(d, p, out, i) <=> Fits(c, p, out, i)
    BY <2>1, <2>2, <2>3, <1>1, Zenon DEF Fits, ColorBuffer, Written, Fancy
  <2> QED
    BY <2>3, <2>4
<1>3. ASSUME NEW i \in DOMAIN d.comps, how[i].needed PROVE Fits(d, p, out, i)
  BY <1>1, <1>2, <1>3, Zenon DEF FitsOutput
<1>4. ASSUME merged, NEW i \in 1..3 PROVE h_expand(d, out, i) = IF i = 1 THEN 1 ELSE 2
  BY <1>4, <1>2, Zenon DEF FitsOutput
<1> QED
  BY <1>3, <1>4, <1>1, Zenon DEF FitsOutput

(* The steps that leave the frame and the sizes of the components alone    *)
(* leave what was set up intact.                                           *)
LEMMA SetUpStays ==
    ASSUME SetUp, IsObject(cinfo)', FrameKept,
           IsInput(input'), input'.inheaders = input.inheaders, input'.size = input.size,
           input'.total_iMCU_rows = input.total_iMCU_rows, input'.output = input.output,
           input'.error = "none" => Working,
           input.inheaders => input'.scan = NoScan /\ index' = NoIndex
    PROVE  SetUp'
<1>1. CASE input.inheaders
  BY <1>1 DEF NoOutput, NoScan, NoIndex, SetUp, IsInput
<1>2. CASE ~input.inheaders
  <2>1. /\ marker'.saw_SOF /\ SameFactors(cinfo, cinfo') /\ ~input'.inheaders
        /\ FrameIntact => Framed(cinfo) /\ Measured(cinfo, input)
        /\ FrameIntact' => FrameIntact /\ SameFrame(cinfo, cinfo')
    BY <1>2, Zenon DEF SetUp, FrameKept
  <2>2. ASSUME FrameIntact' PROVE Framed(cinfo') /\ Measured(cinfo', input)
    BY <2>1, <2>2, FrameStays DEF IsObject
  <2>3. ASSUME Working', input'.output # NoOutput
        PROVE  FitsOutput(cinfo', input'.output.p, input'.output.out, input'.output.merged,
                          input'.output.how)
    BY <2>3, <2>1, OutputStays DEF SetUp, Working
  <2> QED
    BY <2>1, <2>2, <2>3, Zenon DEF SetUp, IsInput, Framed, Measured, FitsOutput, NoOutput
<1> QED
  BY <1>1, <1>2

LEMMA PassStarted ==
    ASSUME NEW c, NEW in, IsInput(in)
    PROVE  LET r == start_input_pass(c, in)
           IN  /\ IsInput(r) /\ r.inheaders = in.inheaders /\ r.size = in.size
               /\ r.total_iMCU_rows = in.total_iMCU_rows /\ r.output = in.output
               /\ r.error = "none" => in.error = "none" /\ r.scan = per_scan_setup(c, r)
<1> DEFINE r == start_input_pass(c, in)
           setup == per_scan_setup(c, in)
           saved == latch_quant_tables(c, in)
<1>1. CASE BadMCUSize(c)
  <2>1. r = [in EXCEPT !.error = "BAD_MCU_SIZE"]
    BY <1>1, Zenon DEF start_input_pass
  <2> HIDE DEF r
  <2> QED
    BY <2>1 DEF r, IsInput, InputFields
<1>2. CASE ~BadMCUSize(c)
  <2> DEFINE error == IF Missing(c, in) # {} THEN "NO_QUANT_TABLE" ELSE in.error
  <2>1. r = [in EXCEPT !.scan = setup, !.saved = saved, !.error = error]
    BY <1>2, Zenon DEF start_input_pass
  <2>2. error = "none" => in.error = "none"
    OBVIOUS
  <2> HIDE DEF r, setup, saved, error
  <2>3. /\ r = [x \in InputFields |-> r[x]] /\ r.inheaders = in.inheaders /\ r.size = in.size
        /\ r.total_iMCU_rows = in.total_iMCU_rows /\ r.output = in.output /\ r.error = error
        /\ r.scan = setup
    BY <2>1 DEF IsInput, InputFields
  <2>4. setup = per_scan_setup(c, r)
    BY <2>3, Zenon DEF setup, per_scan_setup, Alone, Interleaved
  <2> QED
    BY <2>2, <2>3, <2>4 DEF r, IsInput
<1> QED
  BY <1>1, <1>2

-----------------------------------------------------------------------------
(* The other steps of the marker reader.                                   *)
LEMMA StaysReadable ==
    ASSUME Readable, UNCHANGED << files, data, cinfo >>, IsSource(src)',
           IsMarker(marker'), marker'.saw_SOF = marker.saw_SOF, limits' \in [MiscMarkers -> Int],
           FrameIntact' => FrameIntact, Resumes(cinfo, src)'
    PROVE  Readable' /\ FrameKept
BY ObjectNext, NothingRead DEF Readable, IsBytes, IsMarker, IsItem, FrameRead

(* A source that has moved on by n bytes, to a marker or not.              *)
LEMMA SourceMoves ==
    ASSUME Readable, NEW n \in Nat, NEW m,
           \/ src' = [src EXCEPT !.pos = @ + n]
           \/ src' = [src EXCEPT !.pos = @ + n, !.unread_marker = m],
           data' = data
    PROVE  IsSource(src)'
<1>1. src = [x \in SourceFields |-> src[x]] /\ src.pos \in Nat
  BY DEF Readable, IsSource
<1>2. src' = [x \in SourceFields |-> src'[x]] /\ src'.avail = src.avail /\ src'.pos = src.pos + n
  BY <1>1 DEF SourceFields
<1>3. IsSource(src')
  BY <1>2, <1>1, Moved DEF Readable
<1> QED
  BY <1>3, Zenon DEF IsSource

LEMMA DeliverReads ==
    ASSUME Readable, fill_input_buffer
    PROVE  Readable' /\ FrameKept /\ UNCHANGED << cinfo, marker, ret, index >>
<1>1. /\ UNCHANGED << files, data, cinfo, marker, limits, ret, index >>
      /\ src' = [src EXCEPT !.avail = @ + 1] /\ src.avail < Len(data)
  BY DEF fill_input_buffer, fileState
<1>2. /\ src = [x \in SourceFields |-> src[x]] /\ src.pos \in Nat
      /\ src.avail \in 0..Len(data) /\ Len(data) \in Nat
  BY DEF Readable, IsSource
<1>3. /\ src' = [x \in SourceFields |-> src'[x]] /\ src'.pos = src.pos
      /\ src'.avail = src.avail + 1 /\ src'.unread_marker = src.unread_marker
  BY <1>1, <1>2 DEF SourceFields
<1>4. IsSource(src)'
  BY <1>1, <1>2, <1>3 DEF IsSource
<1>5. Resumes(cinfo, src)'
  BY <1>1, <1>3, StillResumes DEF Readable
<1> QED
  BY <1>1, <1>4, <1>3, <1>5, StaysReadable, Zenon DEF Readable, FrameIntact, IsSOF

LEMMA SkippedScan ==
    ASSUME data \in Seq(0..255), NEW s, IsSource(s)
    PROVE  IsSource(SkipScan(s))
<1> DEFINE t == IF Restarts(s) = {} THEN s ELSE Met(data, s, Max(Restarts(s)))
<1>1. CASE Restarts(s) = {}
  BY <1>1, NextMarker DEF SkipScan
<1>2. CASE Restarts(s) # {}
  <2> HIDE DEF t
  <2> QED
    BY <1>2, CodesAhead, AtCode, NextMarker DEF SkipScan, t, Restarts
<1> QED
  BY <1>1, <1>2

(* The data of a scan is taken, or the marker behind it met, or the scan   *)
(* ended, whatever data is left: the object stays as it is.                *)
LEMMA ScanStepReads ==
    ASSUME Readable, ret = "SOS" => marker.saw_SOF,
           DecodeBytes \/ MeetMarker \/ finish_input_pass \/ get_sos_marker_position
    PROVE  /\ Readable' /\ FrameKept /\ UNCHANGED cinfo /\ marker'.saw_SOF = marker.saw_SOF
           /\ ret' = "SOS" => ret = "SOS" /\ index' = index
<1>1. /\ IsMarker(marker) /\ IsSource(src) /\ data \in Seq(0..255)
      /\ limits \in [MiscMarkers -> Int] /\ ret = "SOS" /\ marker.saw_SOF /\ FrameIntact
  BY DEF DecodeBytes, MeetMarker, finish_input_pass, get_sos_marker_position, Readable,
     FrameIntact
<1>2. CASE DecodeBytes
  BY <1>2, SourceMoves, <1>1, StaysReadable DEF DecodeBytes, fileState, Unit, Resumes
<1>3. CASE MeetMarker
  BY <1>3, SourceMoves, <1>1, StaysReadable DEF MeetMarker, fileState, Resumes
<1>4. CASE finish_input_pass
  BY <1>4, <1>1, SourceStays, StaysReadable DEF finish_input_pass, fileState, Resumes
<1>5. CASE get_sos_marker_position
  <2> DEFINE p == SkipScan(src).pos - 2
  <2>1. /\ UNCHANGED << files, data, cinfo, limits >> /\ ret' = "none"
        /\ src' = SkipScan(src)
        /\ marker' = [marker EXCEPT !.current_sos_marker_position = p]
    BY <1>5 DEF get_sos_marker_position, fileState
  <2> HIDE DEF p
  <2>2. /\ marker' = [x \in MarkerFields |-> marker'[x]] /\ marker'.saw_SOF = marker.saw_SOF
        /\ marker'.cur_marker = marker.cur_marker
    BY <1>1, <2>1 DEF IsMarker, MarkerFields
  <2>3. "none" # "SOS"
    OBVIOUS
  <2> QED
    BY <1>1, <2>1, SkippedScan, SourceStays, <2>2, <2>3, StaysReadable DEF Resumes,
       IsMarker
<1> QED
  BY <1>2, <1>3, <1>4, <1>5

LEMMA SaveReads ==
    ASSUME Readable, NEW m \in MiscMarkers, NEW n \in Limits, jpeg_save_markers(m, n)
    PROVE  Readable' /\ FrameKept /\ UNCHANGED << cinfo, marker, ret, index >>
BY SavedMarkers, SourceStays, StillResumes, StaysReadable DEF jpeg_save_markers,
   SavedLimit, AtLeast, Readable, FrameIntact, IsSOF

(* The next of several datastreams.                                        *)
LEMMA NextFile ==
    ASSUME NEW f, IsBytes(f), f # << >>
    PROVE  IsBytes(Tail(f)) /\ StreamBytes(Head(f).segs) \in Seq(0..255)
<1> DEFINE S == ToSet(f)
           g == Tail(f)
<1>1. f \in Seq(S) /\ \A i \in 1..Len(f) : StreamBytes(f[i].segs) \in Seq(0..255)
  BY DEF IsBytes
<1> HIDE DEF S
<1>2. /\ Len(f) \in Nat \ {0} /\ Head(f) = f[1]
      /\ g \in Seq(S) /\ Len(g) = Len(f) - 1 /\ \A i \in 1..Len(g) : g[i] = f[i + 1]
  BY <1>1
<1> HIDE DEF g
<1>3. /\ \A i \in 1..Len(g) : i + 1 \in 1..Len(f) /\ 1 \in 1..Len(f)
      /\ 1 \in 1..Len(f)
  BY <1>2
<1>4. g \in Seq(ToSet(g))
  BY <1>2 DEF ToSet
<1> QED
  BY <1>1, <1>2, <1>3, <1>4, Zenon DEF IsBytes, g

LEMMA ResetReads ==
    ASSUME Readable, reset_marker_reader
    PROVE  Readable' /\ ret' = "none" /\ index' = NoIndex
<1>1. /\ files # << >> /\ files' = Tail(files)
      /\ segs' = Head(files).segs /\ data' = StreamBytes(segs')
      /\ limits' = limits /\ ret' = "none" /\ index' = NoIndex
      /\ cinfo' = ResetCinfo(cinfo)
      /\ marker' = [marker EXCEPT !.saw_SOI = FALSE, !.saw_SOF = FALSE, !.cur_marker = NoMarker]
      /\ src' = [src EXCEPT !.pos = 0, !.avail = IF Head(files).whole THEN Len(data') ELSE 0,
                            !.unread_marker = 0, !.discarded_bytes = ResetDiscards(src)]
  BY Zenon DEF reset_marker_reader
<1>2. IsBytes(files)' /\ data' \in Seq(0..255)
  BY <1>1, NextFile DEF Readable, IsBytes
<1>3. IsSource(src)'
  <2> DEFINE a == IF Head(files).whole THEN Len(data') ELSE 0
             d == ResetDiscards(src)
  <2>1. src' = [src EXCEPT !.pos = 0, !.avail = a, !.unread_marker = 0, !.discarded_bytes = d]
    BY <1>1, Zenon
  <2>2. a \in 0..Len(data')
    BY <1>2
  <2> HIDE DEF a, d
  <2> QED
    BY <2>2, <2>1 DEF IsSource, Readable, SourceFields
<1>4. IsObject(cinfo)' /\ Resumes(cinfo, src)'
  <2>1. /\ cinfo' = [x \in ObjectFields |-> cinfo'[x]] /\ cinfo'.comps = << >>
        /\ cinfo'.scan = cinfo.scan
    BY <1>1 DEF Readable, IsObject, ObjectFields, ResetCinfo
  <2>2. Resumes(cinfo, src)'
    BY <2>1, Zenon DEF Resumes
  <2> QED
    BY <2>1, <2>2 DEF Readable, IsObject, IsScan
<1> QED
  BY <1>1, <1>2, <1>3, <1>4 DEF Readable, IsMarker, MarkerFields, NoMarker

-----------------------------------------------------------------------------
(* The steps of the input controller.                                      *)
LEMMA FirstSetup ==
    ASSUME NEW c, IsObject(c), c.width \in Nat \ {0}, c.height \in Nat \ {0}, IsInput(input), Working
    PROVE  LET r == initial_setup(c)
           IN  /\ IsInput(r) /\ r.scan = input.scan /\ r.output = input.output
               /\ r.error = "none" => ~r.inheaders /\ Framed(c) /\ Measured(c, r)
               /\ r.error # "none" => r.inheaders = input.inheaders
<1> DEFINE r == initial_setup(c)
           error == SetupError(c)
<1>1. CASE error # "none"
  <2>1. r = [input EXCEPT !.error = error]
    BY <1>1, Zenon DEF initial_setup
  <2> HIDE DEF r, error
  <2> QED
    BY <1>1, <2>1 DEF r, IsInput, InputFields
<1>2. CASE error = "none"
  <2> DEFINE size == [i \in DOMAIN c.comps |-> ComponentSize(c, i)]
             saved == [i \in DOMAIN c.comps |-> NoTable]
             rows == jdiv_round_up(c.height, max_v_samp_factor(c) * DCTSIZE)
             multiple == c.scan.comps_in_scan < c.num_components \/ c.progressive
  <2>1. r = [input EXCEPT !.inheaders = FALSE, !.size = size, !.saved = saved,
                          !.total_iMCU_rows = rows, !.has_multiple_scans = multiple]
    BY <1>2, Zenon DEF initial_setup
  <2> HIDE DEF r, error, size, saved, rows, multiple
  <2>2. /\ r = [x \in InputFields |-> r[x]] /\ r.inheaders = FALSE /\ r.size = size
        /\ r.total_iMCU_rows = rows /\ r.error = input.error
        /\ r.scan = input.scan /\ r.output = input.output
    BY <2>1 DEF IsInput, InputFields
  <2>3. Framed(c)
    BY <1>2, Numbered DEF SetupError, error, IsObject, Framed
  <2>4. r.error = "none"
    BY <2>2 DEF Working
  <2> QED
    BY <2>2, <2>3, <2>4 DEF r, IsInput, Measured, size, rows
<1> QED
  BY <1>1, <1>2

(* One marker read: the object at the first scan header is measured, at    *)
(* the later ones the pass is started.                                     *)
LEMMA ConsumeStep ==
    ASSUME IInv, consume_markers
    PROVE  IInv'
<1>1. /\ Working /\ index = NoIndex /\ read_markers
      /\ Readable /\ SetUp /\ AtScan /\ IsInput(input)
  BY DEF consume_markers, IInv, SetUp
<1>2. /\ Readable' /\ index' = index /\ IsObject(cinfo') /\ IsObject(cinfo)'
      /\ FrameKept
      /\ ret' = "SOS" => marker'.saw_SOF /\ ScanOf(cinfo')
      /\ ret' = "SOS" => cinfo'.width \in Nat \ {0} /\ cinfo'.height \in Nat \ {0}
  BY <1>1, ReadStep DEF Reads, Readable, IsObject, FrameIntact, FrameRead
<1>3. NoScan' = NoScan /\ NoOutput' = NoOutput /\ NoIndex' = NoIndex
  BY DEF NoScan, NoOutput, NoIndex
<1>4. input.inheaders => input.scan = NoScan /\ input.output = NoOutput
  BY <1>1 DEF SetUp
<1>5. CASE ret' = "SOS" /\ input.inheaders
  <2>1. /\ IsInput(input') /\ input'.scan = NoScan /\ input'.output = NoOutput
        /\ Working' => ~input'.inheaders /\ Framed(cinfo') /\ Measured(cinfo', input')
        /\ ~Working' => input'.inheaders
    BY <1>1, <1>2, <1>4, <1>5, FirstSetup DEF Working, consume_markers, FirstScan
  <2>2. AtScan'
    BY <1>2, <1>3, <1>5, <2>1, Zenon DEF AtScan, ScanOf, Started
  <2> QED
    BY <1>2, <1>1, <1>3, <1>5, <2>1, <2>2 DEF IInv, SetUp, IsInput, Framed, Measured
<1>6. CASE ret' = "SOS" /\ ~input.inheaders
  <2>1. LaterScan(cinfo')
    BY <1>6 DEF consume_markers
  <2>2. CASE input.has_multiple_scans
    <3>1. /\ IsInput(input') /\ input'.inheaders = input.inheaders /\ input'.size = input.size
          /\ input'.total_iMCU_rows = input.total_iMCU_rows /\ input'.output = input.output
          /\ input'.error = "none" => Working /\ input'.scan = per_scan_setup(cinfo', input')
      BY <1>1, <2>1, <2>2, PassStarted DEF Working, LaterScan
    <3>2. AtScan'
      BY <1>2, <1>6, <3>1, Zenon DEF AtScan, ScanOf, Started, Working, per_scan_setup, Alone,
                                     Interleaved
    <3> QED
      BY <1>2, <1>1, <1>6, <3>1, SetUpStays, <3>2 DEF IInv
  <2>3. CASE ~input.has_multiple_scans
    BY <2>1, <2>3, <1>1, <1>2, <1>6, SetUpStays DEF LaterScan, IsInput, InputFields,
       AtScan, ScanOf, Started, Working, IInv
  <2> QED
    BY <2>2, <2>3
<1>7. CASE ret' = "EOI"
  <2> DEFINE error == IF input.inheaders /\ marker'.saw_SOF THEN "SOF_NO_SOS" ELSE input.error
  <2>1. "EOI" # "SOS"
    OBVIOUS
  <2> HIDE DEF error
  <2>2. SetUp'
    BY <1>1, <1>2, <1>4, <1>7, <2>1, SetUpStays DEF IsInput, InputFields, consume_markers,
       ReachEOI
  <2> QED
    BY <1>2, <2>2, <1>7, <2>1 DEF IInv, AtScan
<1>8. CASE ret' \notin {"SOS", "EOI"}
  BY <1>8, <1>1, <1>2, <1>4, SetUpStays DEF consume_markers, Working, AtScan, IInv
<1> QED
  BY <1>5, <1>6, <1>7, <1>8

(* The steps of the marker reader that leave the input controller alone.   *)
LEMMA InputStays ==
    ASSUME IInv, input' = input, Readable',
           FrameKept,
           input.inheaders => index' = NoIndex,
           ret' = "SOS" => marker'.saw_SOF /\ ScanOf(cinfo') /\ (Working => ~input.inheaders),
           Started /\ ret' = "SOS" /\ index' = NoIndex =>
               cinfo' = cinfo /\ ret = "SOS" /\ index = NoIndex
    PROVE  IInv'
<1>1. SetUp /\ AtScan /\ IsInput(input) /\ IsObject(cinfo)'
  BY DEF IInv, SetUp, Readable
<1>2. NoIndex' = NoIndex /\ NoScan' = NoScan
  BY DEF NoIndex, NoScan
<1>3. AtScan'
  <2>1. ASSUME Started', ret' = "SOS", index' = NoIndex
        PROVE  input'.scan = per_scan_setup(cinfo, input)'
    BY <1>2, <2>1, <1>1 DEF Started, Working, AtScan, per_scan_setup, Alone, Interleaved
  <2> QED
    BY <1>2, <2>1, Zenon DEF AtScan, ScanOf, ScanComps, Working
<1> QED
  BY <1>1, SetUpStays, <1>3 DEF IInv, Working, SetUp

(* The start of a pass: nothing has been read.                             *)
LEMMA UnchangedReadable ==
    ASSUME Readable, UNCHANGED << files, data, src, cinfo, marker, limits, ret >>
    PROVE  Readable' /\ FrameKept
BY StillResumes, SourceStays, StaysReadable DEF FrameIntact, IsSOF, Readable

LEMMA PassStays ==
    ASSUME IInv, UNCHANGED vars, ~input.inheaders, IsInput(input'),
           input'.inheaders = input.inheaders, input'.size = input.size,
           input'.total_iMCU_rows = input.total_iMCU_rows,
           Working' => input'.scan = per_scan_setup(cinfo, input'),
           Working' /\ input'.output # NoOutput =>
               FitsOutput(cinfo, input'.output.p, input'.output.out, input'.output.merged,
                          input'.output.how)
    PROVE  IInv'
<1>1. UNCHANGED << files, data, src, cinfo, marker, limits, ret, index >>
  BY DEF vars
<1>2. marker.saw_SOF /\ (FrameIntact => Framed(cinfo) /\ Measured(cinfo, input))
  BY DEF IInv, SetUp
<1>3. SetUp'
  BY <1>1, <1>2, Zenon DEF SetUp, IsInput, Working, FitsOutput, NoOutput, Framed,
     Measured, FrameIntact, IsSOF
<1>4. AtScan'
  <2>1. Started' => input'.scan = per_scan_setup(cinfo, input)'
    BY <1>1, Zenon DEF Started, Working, per_scan_setup, Alone, Interleaved
  <2> QED
    BY <1>1, <2>1, Zenon DEF AtScan, IInv, ScanOf, ScanComps
<1> QED
  BY <1>1, UnchangedReadable, <1>3, <1>4 DEF IInv

LEMMA StartStep ==
    ASSUME IInv, StartFirstPass
    PROVE  IInv'
BY PassStarted, PassStays DEF StartFirstPass, CanStart, IInv, SetUp, AtScan, Working

LEMMA DecompressStep ==
    ASSUME IInv, NEW p, jpeg_start_decompress(p)
    PROVE  IInv'
<1> DEFINE out == jpeg_calc_output_dimensions(cinfo, p)
           error == SelectionError(cinfo, p, out)
<1>1. /\ UNCHANGED vars /\ input' = master_selection(cinfo, p, out)
      /\ Working /\ ret = "SOS" /\ IsInput(input) /\ ~input.inheaders /\ Framed(cinfo)
  BY Zenon DEF jpeg_start_decompress, CanStart, IInv, SetUp, AtScan, FrameIntact
<1>2. CASE error # "none"
  <2> DEFINE o == [p |-> p]
  <2>1. input' = [input EXCEPT !.error = error, !.output = o]
    BY <1>1, <1>2, Zenon DEF master_selection
  <2> HIDE DEF error, o
  <2> QED
    BY <1>1, <1>2, <2>1, PassStays DEF Working, IsInput, InputFields
<1>3. CASE error = "none"
  <2> DEFINE o == OutputFor(cinfo, p, out)
             in == [input EXCEPT !.output = o]
  <2>1. input' = start_input_pass(cinfo, in)
    BY <1>1, <1>3, Zenon DEF master_selection
  <2>2. FitsOutput(cinfo, o.p, o.out, o.merged, o.how)
    BY <1>1, <1>3, SelectionFits DEF OutputFor
  <2> HIDE DEF o
  <2>3. /\ in = [x \in InputFields |-> in[x]] /\ in.inheaders = input.inheaders
        /\ in.size = input.size /\ in.total_iMCU_rows = input.total_iMCU_rows /\ in.output = o
    BY <1>1 DEF IsInput, InputFields
  <2> HIDE DEF in
  <2>4. IsInput(in)
    BY <1>1, <2>3, Zenon DEF IsInput
  <2>5. /\ IsInput(input') /\ input'.inheaders = input.inheaders /\ input'.size = input.size
        /\ input'.total_iMCU_rows = input.total_iMCU_rows /\ input'.output = o
        /\ Working' => input'.scan = per_scan_setup(cinfo, input')
    BY <2>1, <2>3, <2>4, PassStarted, Zenon DEF Working
  <2> QED
    BY <1>1, <2>2, <2>5, PassStays, Zenon
<1> QED
  BY <1>2, <1>3

LEMMA ResetStep ==
    ASSUME IInv, reset_input_controller
    PROVE  IInv'
<1>1. reset_marker_reader /\ input' = jinit_input_controller /\ Readable
  BY DEF reset_input_controller, IInv
<1>2. Readable' /\ ret' = "none" /\ index' = NoIndex
  BY <1>1, ResetReads
<1>3. SetUp'
  BY <1>2, <1>1 DEF SetUp, NoIndex, NoScan, NoOutput, jinit_input_controller, IsInput,
     InputFields
<1> QED
  BY <1>2, <1>3 DEF IInv, AtScan

LEMMA InputStep ==
    ASSUME IInv, [InputNext]_inputVars
    PROVE  IInv'
<1>1. Readable /\ SetUp /\ AtScan
  BY DEF IInv
<1>2. CASE Deliver
  BY <1>1, <1>2, DeliverReads, InputStays DEF Deliver, SetUp, AtScan
<1>3. CASE consume_markers
  BY <1>3, ConsumeStep
<1>4. CASE IndexMarkers
  BY <1>4, <1>1, ReadStep, InputStays DEF IndexMarkers, Reads, SetUp
<1>5. CASE StartFirstPass
  BY <1>5, StartStep
<1>6. ASSUME NEW p \in Requests, jpeg_start_decompress(p) PROVE IInv'
  BY <1>6, DecompressStep
<1>7. CASE ScanStep
  BY <1>7, <1>1, ScanStepReads, InputStays DEF ScanStep, AtScan, Started, SetUp
<1>8. CASE SaveMarkers
  BY <1>8, <1>1, SaveReads, InputStays DEF SaveMarkers, SetUp, AtScan
<1>9. CASE reset_input_controller
  BY <1>9, ResetStep
<1>10. CASE UNCHANGED inputVars
  BY <1>10, <1>1, UnchangedReadable, InputStays DEF inputVars, vars, SetUp, AtScan
<1> QED
  BY <1>2, <1>3, <1>4, <1>5, <1>6, <1>7, <1>8, <1>9, <1>10, Zenon DEF InputNext

LEMMA InputBegins ==
    ASSUME InputInit
    PROVE  IInv
<1>1. /\ Init /\ input = jinit_input_controller
  BY DEF InputInit
<1>2. PICK f \in Files :
        /\ files = Tail(f) /\ data = StreamBytes(f[1].segs)
        /\ src = [pos |-> 0, avail |-> IF f[1].whole THEN Len(data) ELSE 0,
                  unread_marker |-> 0, discarded_bytes |-> 0, next_restart_num |-> 0, ok |-> TRUE]
  BY <1>1, Zenon DEF Init
<1>3. IsBytes(files) /\ data \in Seq(0..255)
  BY FilesAreBytes, <1>2, NextFile DEF IsBytes
<1>4. IsObject(cinfo) /\ cinfo.comps = << >>
  <2>1. cinfo = [x \in ObjectFields |-> cinfo[x]] /\ cinfo.comps = << >> /\ cinfo.scan = NoScanYet
    BY <1>1 DEF NewObject, ObjectFields, Init
  <2>2. IsScan(NoScanYet)
    BY DEF NoScanYet, IsScan, ScanFields
  <2> QED
    BY <2>1, <2>2 DEF IsObject
<1>5. IsMarker(marker) /\ marker.saw_SOF = FALSE
  <2> HIDE DEF NoMarker
  <2> QED
    BY <1>1 DEF IsMarker, MarkerFields, Init
<1>6. limits \in [MiscMarkers -> Int] /\ ret = "none" /\ index = NoIndex
  BY <1>1 DEF Init
<1>7. SetUp /\ AtScan
  BY <1>6, <1>1 DEF SetUp, AtScan, jinit_input_controller, IsInput, InputFields
<1> QED
  BY <1>3, <1>2, <1>4, <1>5, <1>6, <1>7 DEF IInv, Readable, Resumes, IsSource,
     SourceFields

-----------------------------------------------------------------------------
(* What the invariant gives.                                               *)
LEMMA InvariantCovers ==
    ASSUME IInv
    PROVE  GeometryCovers
<1> SUFFICES ASSUME Started, ret = "SOS", index = NoIndex, NEW k \in DOMAIN ScanComps(cinfo)
             PROVE  \E comp \in {input.scan.comps[k]}, size \in {input.size[ScanComps(cinfo)[k]]} :
                /\ comp.last_col_width \in 1..comp.MCU_width
                /\ (input.scan.MCUs_per_row - 1) * comp.MCU_width + comp.last_col_width
                        = size.width_in_blocks
                /\ (RowsOf(k) - 1) * cinfo.comps[ScanComps(cinfo)[k]].v + comp.last_row_height
                        = size.height_in_blocks
                /\ Covers(size.width_in_blocks, size.downsampled_width)
                /\ Covers(size.height_in_blocks, size.downsampled_height)
  BY Zenon DEF GeometryCovers
<1> QED
  BY ScanCovers DEF RowsOf, IInv, SetUp, AtScan, Started, FrameIntact

LEMMA InvariantFits ==
    ASSUME IInv
    PROVE  OutputFits
<1>1. ASSUME input.output # NoOutput, Working
      PROVE  FitsOutput(cinfo, input.output.p, input.output.out, input.output.merged,
                        input.output.how)
  BY <1>1, Zenon DEF IInv, SetUp
<1> QED
  BY <1>1, Zenon DEF OutputFits, FitsOutput

-----------------------------------------------------------------------------
(* Whatever markers come between the headers, however the source cuts them *)
(* up and whichever datastreams follow each other through one object, the  *)
(* MCUs of the scan started last cover each component of the scan exactly, *)
(* as long as the reader stands at its header or in its data: the sizes    *)
(* initial_setup worked out at the first scan header are those             *)
(* per_scan_setup divides into MCUs at a later one.  Between scans a       *)
(* second SOF may overwrite the size of the image, but get_sof refuses it  *)
(* whenever it has all arrived, so that no scan is started behind it.      *)
THEOREM ScansAreCovered == InputSpec => []GeometryCovers
<1>1. InputInit => IInv
  BY InputBegins
<1>2. IInv /\ [InputNext]_inputVars => IInv'
  BY InputStep
<1>3. IInv => GeometryCovers
  BY InvariantCovers
<1> QED
  BY <1>1, <1>2, <1>3, PTL DEF InputSpec

(* What jpeg_start_decompress chooses without an error can upsample every  *)
(* component that is needed into the buffers set up for it, for every      *)
(* image size, sampling and scale (jdmaster.c, jdsample.c, jdmerge.c).     *)
THEOREM OutputIsUpsampled == InputSpec => []OutputFits
<1>1. InputInit => IInv
  BY InputBegins
<1>2. IInv /\ [InputNext]_inputVars => IInv'
  BY InputStep
<1>3. IInv => OutputFits
  BY InvariantFits
<1> QED
  BY <1>1, <1>2, <1>3, PTL DEF InputSpec
=============================================================================
