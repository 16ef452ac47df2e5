-------------------------- MODULE Transform_proofs --------------------------
(* Lossless transformation, for every file and every option: the geometry  *)
(* of the output, and the block each loop of a do_ routine puts there.     *)
EXTENDS Transform, FiniteSetTheorems, WellFoundedInduction, TLAPS

(* The arithmetic of the sizes, as in `Compress_proofs'.                    *)

(* What div is, for natural numbers, and that nothing else is.             *)
LEMMA Quotient ==
    ASSUME NEW a \in Nat, NEW b \in Nat \ {0}
    PROVE  /\ a \div b \in Nat
           /\ b * (a \div b) <= a /\ a < b * (a \div b) + b
OBVIOUS

LEMMA QuotientUnique ==
    ASSUME NEW a \in Nat, NEW b \in Nat \ {0}, NEW q \in Nat,
           b * q <= a, a < b * q + b
    PROVE  a \div b = q
OBVIOUS

(* Multiples of a number keep the order of the factors.                    *)
LEMMA Multiples ==
    ASSUME NEW n \in Nat \ {0}, NEW a \in Nat, NEW b \in Nat
    PROVE  /\ n * a \in Nat /\ n * a = a * n
           /\ a <= b <=> n * a <= n * b
           /\ a < b => n * a + n <= n * b
           /\ n * (a + b) = n * a + n * b /\ n * (a + 1) = n * a + n
OBVIOUS

(* Rounding up.                                                            *)
LEMMA RoundsUp ==
    ASSUME NEW a \in Nat, NEW b \in Nat \ {0}
    PROVE  LET q == jdiv_round_up(a, b)
           IN  q \in Nat /\ a <= b * q /\ b * q < a + b /\ (a > 0 => q > 0)
<1> DEFINE q == (a + b - 1) \div b
<1>1. q \in Nat /\ b * q <= a + b - 1 /\ a + b - 1 < b * q + b
  BY Quotient
<1>2. jdiv_round_up(a, b) = q
  BY Zenon DEF jdiv_round_up
<1> HIDE DEF q
<1> QED
  BY <1>1, <1>2

LEMMA RoundsUpUnique ==
    ASSUME NEW a \in Nat, NEW b \in Nat \ {0}, NEW q \in Nat,
           a <= b * q, b * q < a + b
    PROVE  jdiv_round_up(a, b) = q
BY QuotientUnique DEF jdiv_round_up

LEMMA RoundsUpMonotone ==
    ASSUME NEW a \in Nat, NEW c \in Nat, NEW b \in Nat \ {0}, a <= c
    PROVE  jdiv_round_up(a, b) <= jdiv_round_up(c, b)
<1> DEFINE p == jdiv_round_up(a, b)
           q == jdiv_round_up(c, b)
<1>1. /\ p \in Nat /\ a <= b * p /\ b * p < a + b
      /\ q \in Nat /\ c <= b * q /\ b * q < c + b
  BY RoundsUp
<1> HIDE DEF p, q
<1>2. ~ q < p
  <2> SUFFICES ASSUME q < p PROVE FALSE
    OBVIOUS
  <2> QED
    BY <1>1, Multiples
<1> QED
  BY <1>1, <1>2 DEF p, q

(* A size rounded up to whole blocks or iMCUs: a multiple that is not      *)
(* less, that keeps the order, and beyond all smaller multiples.           *)
LEMMA RoundsUpToMultiple ==
    ASSUME NEW a \in Nat, NEW n \in Nat \ {0}
    PROVE  /\ jround_up(a, n) \in Nat /\ a <= jround_up(a, n)
           /\ n = 1 => jround_up(a, n) = a
           /\ \A k \in Nat : k * n < a => k * n + n <= jround_up(a, n)
           /\ \A c \in Nat : a <= c => jround_up(a, n) <= jround_up(c, n)
<1> DEFINE q == jdiv_round_up(a, n)
<1>1. q \in Nat /\ a <= n * q /\ n * q < a + n
  BY RoundsUp
<1>2. jround_up(a, n) = q * n
  BY Zenon DEF jround_up
<1>3. ASSUME NEW c \in Nat, a <= c PROVE jround_up(a, n) <= jround_up(c, n)
  <2> DEFINE r == jdiv_round_up(c, n)
  <2>1. r \in Nat /\ q <= r
    BY <1>3, RoundsUp, RoundsUpMonotone
  <2>2. jround_up(c, n) = r * n
    BY Zenon DEF jround_up
  <2> HIDE DEF q, r
  <2> QED
    BY <1>2, <2>2, <1>1, <2>1, Multiples
<1> HIDE DEF q
<1>4. n * q \in Nat /\ n * q = q * n
  BY <1>1, Multiples
<1>5. ASSUME NEW k \in Nat, k * n < a PROVE k * n + n <= jround_up(a, n)
  BY <1>1, <1>4, <1>5, Multiples, <1>2
<1> QED
  BY <1>1, <1>2, <1>3, <1>4, <1>5
-----------------------------------------------------------------------------
(* One dimension of a component: size samples of the image, sampled with   *)
(* factor f of at most m.                                                  *)
BlocksOf(size, f, m) == jdiv_round_up(size * f, m * DCTSIZE)
WholeBlocks(size, f, m) == (size \div (m * DCTSIZE)) * f

LEMMA Dimension ==
    ASSUME NEW size \in Nat \ {0}, NEW m \in Nat \ {0}, NEW f \in 1 .. m
    PROVE  /\ BlocksOf(size, f, m) \in Nat \ {0}
           /\ WholeBlocks(size, f, m) \in Nat
           /\ WholeBlocks(size, f, m) <= BlocksOf(size, f, m)
<1> DEFINE b == m * DCTSIZE
           q == size \div b
           w == q * f
           sf == size * f
<1>1. b \in Nat \ {0} /\ sf \in Nat \ {0}
  BY SetupAssumption
<1>2. q \in Nat /\ b * q <= size
  BY <1>1, Quotient
<1> DEFINE p == jdiv_round_up(sf, b)
<1>3. p \in Nat /\ sf <= b * p /\ p > 0
  <2> HIDE DEF b, sf
  <2> QED
    BY <1>1, RoundsUp
<1>4. BlocksOf(size, f, m) = p /\ WholeBlocks(size, f, m) = w
  BY Zenon DEF BlocksOf, WholeBlocks
<1>5. w \in Nat /\ b * w <= sf
  <2> HIDE DEF b, q
  <2> QED
    BY <1>1, <1>2, Multiples
<1>6. w <= p
  <2> HIDE DEF b, w, p, sf
  <2> QED
    BY <1>1, <1>3, <1>5, Multiples
<1> HIDE DEF p, w
<1> QED
  BY <1>3, <1>4, <1>5, <1>6

LEMMA DimensionGrows ==
    ASSUME NEW size \in Nat, NEW more \in Nat, size <= more,
           NEW m \in Nat \ {0}, NEW f \in 1 .. m
    PROVE  BlocksOf(size, f, m) <= BlocksOf(more, f, m)
BY Multiples, SetupAssumption, RoundsUpMonotone DEF BlocksOf

(* A component that is sampled in full has as many blocks as it would have *)
(* by itself.                                                              *)
LEMMA DimensionAlone ==
    ASSUME NEW size \in Nat \ {0}, NEW m \in Nat \ {0}
    PROVE  BlocksOf(size, m, m) = BlocksOf(size, 1, 1)
<1> DEFINE D == DCTSIZE
           q == jdiv_round_up(size, D)
           sm == size * m
           b == m * D
<1>1. D \in Nat \ {0} /\ b \in Nat \ {0} /\ sm \in Nat
  BY SetupAssumption
<1>2. q \in Nat /\ size <= D * q /\ D * q < size + D
  BY <1>1, RoundsUp
<1>3. sm <= b * q /\ b * q < sm + b
  <2> DEFINE e == D * q
  <2>1. e \in Nat /\ size <= e /\ e < size + D
    <3> HIDE DEF q, D
    <3> QED
      BY <1>1, <1>2, Multiples
  <2>2. b * q = m * e /\ sm = m * size
    <3> HIDE DEF q, D
    <3> QED
      BY <1>1, <1>2
  <2> HIDE DEF e, q, D
  <2> QED
    BY <1>1, <2>2, <2>1, Multiples
<1>4. jdiv_round_up(sm, b) = q
  <2> HIDE DEF b, sm, q
  <2> QED
    BY <1>1, <1>2, <1>3, RoundsUpUnique
<1> QED
  BY <1>4, <1>1 DEF BlocksOf
-----------------------------------------------------------------------------
(* Sizes.                                                                  *)

Sized(info) ==
    /\ info.image_width \in Nat \ {0} /\ info.image_height \in Nat \ {0}
    /\ Len(info.comps) \in Nat \ {0}
    /\ \A c \in 1..Len(info.comps) : /\ info.comps[c].h \in 1..MAX_SAMP_FACTOR
                                     /\ info.comps[c].v \in 1..MAX_SAMP_FACTOR

WholeCols(info, c) == WholeBlocks(info.image_width, info.comps[c].h, MaxH(info))
WholeRows(info, c) == WholeBlocks(info.image_height, info.comps[c].v, MaxV(info))

LEMMA LargestOf ==
    ASSUME NEW S \in SUBSET (1..4), 1 \in S
    PROVE  Largest(S) \in S /\ \A y \in S : y <= Largest(S)
<1>1. \E x \in S : \A y \in S : y <= x
  OBVIOUS
<1> QED
  BY <1>1, Zenon DEF Largest

LEMMA MaxSampling ==
    ASSUME NEW info, Sized(info)
    PROVE  /\ MaxH(info) \in Nat \ {0} /\ MaxV(info) \in Nat \ {0}
           /\ \A c \in 1..Len(info.comps) : /\ info.comps[c].h \in 1..MaxH(info)
                                            /\ info.comps[c].v \in 1..MaxV(info)
<1> DEFINE hs == {info.comps[c].h : c \in 1..Len(info.comps)} \cup {1}
           vs == {info.comps[c].v : c \in 1..Len(info.comps)} \cup {1}
<1>1. /\ hs \in SUBSET (1..4) /\ vs \in SUBSET (1..4) /\ 1 \in hs /\ 1 \in vs
      /\ \A c \in 1..Len(info.comps) : info.comps[c].h \in hs /\ info.comps[c].v \in vs
  BY DEF Sized, MAX_SAMP_FACTOR
<1>2. MaxH(info) = Largest(hs) /\ MaxV(info) = Largest(vs)
  BY Zenon DEF MaxH, MaxV
<1> HIDE DEF hs, vs
<1>3. \A S \in SUBSET (1..4) : \A m \in S :
         (\A y \in S : y <= m) => m \in Nat \ {0} /\ S \subseteq 1..m
  BY SMT
<1>4. /\ MaxH(info) \in Nat \ {0} /\ hs \subseteq 1..MaxH(info)
      /\ MaxV(info) \in Nat \ {0} /\ vs \subseteq 1..MaxV(info)
  BY <1>1, <1>2, LargestOf, <1>3, Zenon
<1> QED
  BY <1>1, <1>4, Zenon

LEMMA ComponentSizes ==
    ASSUME NEW info, Sized(info), NEW c \in 1..Len(info.comps)
    PROVE  /\ width_in_blocks(info, c) \in Nat \ {0}
           /\ height_in_blocks(info, c) \in Nat \ {0}
           /\ WholeCols(info, c) \in Nat
           /\ WholeCols(info, c) <= width_in_blocks(info, c)
           /\ WholeRows(info, c) \in Nat
           /\ WholeRows(info, c) <= height_in_blocks(info, c)
BY MaxSampling, Dimension, Zenon DEF Sized, width_in_blocks, height_in_blocks, BlocksOf,
   WholeCols, WholeRows

-----------------------------------------------------------------------------
(* Induction, as the prover can use it: a set of numbers has a smallest.   *)
LEMMA Smallest ==
    ASSUME NEW S \in SUBSET Nat, S # {}
    PROVE  \E n \in S : \A k \in S : n <= k
<1> DEFINE R == OpToRel(<, Nat)
<1>1. IsWellFoundedOn(R, Nat)
  BY NatLessThanWellFounded, Zenon
<1>2. PICK n \in S : \A k \in S : <<k, n>> \notin R
  <2> HIDE DEF R
  <2> QED
    BY <1>1, WFMin
<1>3. \A k \in S : ~ (k < n)
  BY <1>2 DEF OpToRel
<1> QED
  BY <1>3

(* Trimming leaves the complete iMCUs, and nothing else where there are any*)
LEMMA DimensionTrimmed ==
    ASSUME NEW size \in Nat \ {0}, NEW m \in Nat \ {0}, NEW f \in 1 .. m
    PROVE  LET trimmed == Trimmed(size, m * DCTSIZE)
           IN  /\ trimmed \in Nat \ {0} /\ trimmed <= size
               /\ WholeBlocks(trimmed, f, m) = WholeBlocks(size, f, m)
               /\ size >= m * DCTSIZE
                    => BlocksOf(trimmed, f, m) = WholeBlocks(size, f, m)
<1> DEFINE b == m * DCTSIZE
           q == size \div b
           t == q * b
           w == q * f
           tf == t * f
<1>1. b \in Nat \ {0}
  BY SetupAssumption
<1>2. q \in Nat /\ b * q <= size /\ size < b * q + b
  BY <1>1, Quotient
<1>3. CASE size < b
  BY <1>3, <1>1 DEF Trimmed
<1>4. CASE ~ size < b
  <2>1. Trimmed(size, b) = t
    BY <1>4, Zenon DEF Trimmed
  <2>2. q # 0 /\ t = b * q /\ t \in Nat \ {0} /\ t <= size
    <3> HIDE DEF b, q
    <3> QED
      BY <1>1, <1>2, <1>4
  <2>3. t \div b = q
    <3> HIDE DEF q, t, b
    <3> QED
      BY <1>1, <1>2, <2>2, QuotientUnique
  <2>4. WholeBlocks(t, f, m) = w /\ WholeBlocks(size, f, m) = w
    BY <2>3, Zenon DEF WholeBlocks
  <2>5. BlocksOf(t, f, m) = w
    <3>1. w \in Nat /\ tf = b * w /\ tf \in Nat
      <4> HIDE DEF q, b
      <4> QED
        BY <1>1, <1>2
    <3>2. jdiv_round_up(tf, b) = w
      <4> HIDE DEF tf, b, w
      <4> QED
        BY <1>1, <3>1, RoundsUpUnique
    <3> QED
      BY <3>2, Zenon DEF BlocksOf
  <2> HIDE DEF t, w, b
  <2> QED
    BY <2>1, <2>2, <2>4, <2>5 DEF b
<1> QED
  BY <1>3, <1>4

-----------------------------------------------------------------------------
(* The parameters of the output, for one job.                              *)

FileComponent == [id : Nat, h : 1..MAX_SAMP_FACTOR, v : 1..MAX_SAMP_FACTOR,
                  quant_tbl_no : Nat]
Tables == UNION {[T -> BOOLEAN] : T \in SUBSET Nat}
Info == [image_width : Nat \ {0}, image_height : Nat \ {0}, colors : ColorSpaces,
         comps : Seq(FileComponent) \ {<< >>},
         quant : Tables]

CopiedOf(s) ==
    [image_width |-> s.image_width, image_height |-> s.image_height,
     colors |-> s.colors,
     comps |-> [c \in 1..Len(s.comps) |->
                   Component(s.comps[c].id, s.comps[c].h, s.comps[c].v,
                             s.comps[c].quant_tbl_no)],
     quant |-> [q \in {s.comps[c].quant_tbl_no : c \in 1..Len(s.comps)} |-> FALSE]]
BaseOf(jb) == IF jb.force_grayscale THEN Grayscale(CopiedOf(jb.source))
                                    ELSE CopiedOf(jb.source)
CorrectedOf(jb) == Corrected(BaseOf(jb), jb.transform)
FinalOf(jb) ==
    IF jb.trim THEN TrimBottom(TrimRight(CorrectedOf(jb), jb.transform), jb.transform)
               ELSE CorrectedOf(jb)
KeptOf(jb) ==
    IF jb.force_grayscale
    THEN [jb.source EXCEPT !.comps = << [jb.source.comps[1] EXCEPT !.h = 1, !.v = 1] >>]
    ELSE jb.source

(* What jtransform_adjust_parameters asks of a file it makes gray.         *)
Drawable(jb) == jb.force_grayscale => CanBeGray(CopiedOf(jb.source))

(* And what it takes for granted but does not test: that the luminance of  *)
(* that file is sampled in full, for the one component kept gets the       *)
(* sampling factors 1 by 1.  A file to be made gray whose luminance is     *)
(* subsampled is the one case the theorems on the arrays leave out; there  *)
(* the loops do run over the end of the arrays.                            *)
LumaIsFull(jb) ==
    LET s == jb.source
    IN  jb.force_grayscale /\ Drawable(jb) =>
            s.comps[1].h = MaxH(s) /\ s.comps[1].v = MaxV(s)

LEMMA CopiedType ==
    ASSUME NEW s \in SourceFile
    PROVE  /\ CopiedOf(s) \in Info
           /\ CopiedOf(s).image_width = s.image_width
           /\ CopiedOf(s).image_height = s.image_height
           /\ CopiedOf(s).colors = s.colors
           /\ Len(CopiedOf(s).comps) = Len(s.comps)
           /\ \A c \in 1..Len(s.comps) :
                /\ CopiedOf(s).comps[c].h = s.comps[c].h
                /\ CopiedOf(s).comps[c].v = s.comps[c].v
                /\ CopiedOf(s).comps[c].quant_tbl_no = s.comps[c].quant_tbl_no
                /\ s.comps[c].quant_tbl_no \in DOMAIN CopiedOf(s).quant
           /\ \A q \in DOMAIN CopiedOf(s).quant : CopiedOf(s).quant[q] = FALSE
<1> DEFINE n == Len(s.comps)
           comps == [c \in 1..n |->
                        Component(s.comps[c].id, s.comps[c].h, s.comps[c].v,
                                  s.comps[c].quant_tbl_no)]
           tables == {s.comps[c].quant_tbl_no : c \in 1..n}
           quant == [q \in tables |-> FALSE]
<1>1. /\ s.comps \in Seq(FileComponent) /\ s.comps # << >>
      /\ s.image_width \in Nat \ {0} /\ s.image_height \in Nat \ {0}
      /\ s.colors \in ColorSpaces
  BY Zenon DEF SourceFile, FileComponent
<1>2. n \in Nat \ {0} /\ \A c \in 1..n : s.comps[c] \in FileComponent
  BY <1>1, SMT
<1>3. /\ comps \in Seq(FileComponent) /\ comps # << >> /\ Len(comps) = n
      /\ \A c \in 1..n : /\ comps[c].h = s.comps[c].h
                         /\ comps[c].v = s.comps[c].v
                         /\ comps[c].quant_tbl_no = s.comps[c].quant_tbl_no
  BY <1>2, SMTT(20) DEF FileComponent, Component
<1>4. tables \in SUBSET Nat
  BY <1>2, SMT DEF FileComponent
<1>5. /\ quant \in [tables -> BOOLEAN] /\ DOMAIN quant = tables
      /\ \A q \in tables : quant[q] = FALSE
  BY Zenon
<1>6. /\ CopiedOf(s).image_width = s.image_width
      /\ CopiedOf(s).image_height = s.image_height
      /\ CopiedOf(s).colors = s.colors
      /\ CopiedOf(s).comps = comps /\ CopiedOf(s).quant = quant
      /\ CopiedOf(s) = [image_width |-> s.image_width,
                        image_height |-> s.image_height, colors |-> s.colors,
                        comps |-> comps, quant |-> quant]
  BY SMT DEF CopiedOf
<1> HIDE DEF comps, quant
<1>7. CopiedOf(s) \in Info
  BY <1>4, <1>5, <1>1, <1>3, <1>6, Zenon DEF Tables, Info
<1> QED
  BY <1>3, <1>5, <1>6, <1>7, Zenon

(* What each step of jtransform_adjust_parameters makes of them.           *)
LEMMA GrayscaleType ==
    ASSUME NEW info \in Info
    PROVE  /\ Grayscale(info) \in Info
           /\ Grayscale(info).image_width = info.image_width
           /\ Grayscale(info).image_height = info.image_height
           /\ Grayscale(info).colors = "GRAYSCALE"
           /\ Len(Grayscale(info).comps) = 1
           /\ Grayscale(info).comps[1].h = 1 /\ Grayscale(info).comps[1].v = 1
           /\ Grayscale(info).comps[1].quant_tbl_no = info.comps[1].quant_tbl_no
           /\ Grayscale(info).quant = info.quant
<1> DEFINE one == Component(1, Plain.h, Plain.v, info.comps[1].quant_tbl_no)
           g == Grayscale(info)
<1>1. info.comps[1] \in FileComponent
  BY SMT DEF Info
<1>2. /\ one \in FileComponent /\ one.h = 1 /\ one.v = 1
      /\ one.quant_tbl_no = info.comps[1].quant_tbl_no
  BY <1>1, SMT DEF FileComponent, Component, Plain, SET_COMP, MAX_SAMP_FACTOR
<1>3. g = [info EXCEPT !.colors = "GRAYSCALE", !.comps = << one >>]
  BY Zenon DEF Grayscale
<1> HIDE DEF one, g
<1>4. /\ << one >> \in Seq(FileComponent) \ {<< >>} /\ Len(<< one >>) = 1
      /\ << one >>[1] = one
  BY <1>2, SMT
<1>5. /\ g \in Info /\ g.image_width = info.image_width
      /\ g.image_height = info.image_height /\ g.colors = "GRAYSCALE"
      /\ g.comps = << one >> /\ g.quant = info.quant
  <2> DEFINE comps == << one >>
  <2> HIDE DEF comps
  <2>1. g = [info EXCEPT !.colors = "GRAYSCALE", !.comps = comps]
        /\ comps \in Seq(FileComponent) \ {<< >>}
    BY <1>3, <1>4, Zenon DEF comps
  <2> QED
    BY <2>1 DEF comps, Info, ColorSpaces
<1> QED
  BY <1>2, <1>4, <1>5, Zenon DEF g

LEMMA TransposedType ==
    ASSUME NEW info \in Info
    PROVE  LET t == transpose_critical_parameters(info)
           IN  /\ t \in Info /\ t.image_width = info.image_height
               /\ t.image_height = info.image_width
               /\ t.colors = info.colors /\ Len(t.comps) = Len(info.comps)
               /\ \A c \in 1..Len(info.comps) :
                    /\ t.comps[c].h = info.comps[c].v
                    /\ t.comps[c].v = info.comps[c].h
                    /\ t.comps[c].quant_tbl_no = info.comps[c].quant_tbl_no
               /\ DOMAIN t.quant = DOMAIN info.quant
               /\ \A q \in DOMAIN info.quant : t.quant[q] = ~ info.quant[q]
<1> DEFINE t == transpose_critical_parameters(info)
           n == Len(info.comps)
           comps == [c \in 1..n |-> Flipped(info.comps[c])]
           quant == [q \in DOMAIN info.quant |-> ~ info.quant[q]]
<1>1. /\ info.image_width \in Nat \ {0} /\ info.image_height \in Nat \ {0}
      /\ info.comps \in Seq(FileComponent) /\ info.comps # << >>
      /\ info.quant \in Tables
  BY Zenon DEF Info
<1>2. n \in Nat \ {0} /\ \A c \in 1..n : info.comps[c] \in FileComponent
  BY <1>1, SMT
<1>3. \A f \in FileComponent :
         /\ Flipped(f) \in FileComponent /\ Flipped(f).h = f.v
         /\ Flipped(f).v = f.h /\ Flipped(f).quant_tbl_no = f.quant_tbl_no
  <2> SUFFICES ASSUME NEW f \in FileComponent
               PROVE  /\ Flipped(f) \in FileComponent /\ Flipped(f).h = f.v
                      /\ Flipped(f).v = f.h
                      /\ Flipped(f).quant_tbl_no = f.quant_tbl_no
    OBVIOUS
  <2> QED
    BY DEF FileComponent, Flipped
<1>4. /\ comps \in Seq(FileComponent) /\ comps # << >> /\ Len(comps) = n
      /\ \A c \in 1..n : comps[c] = Flipped(info.comps[c])
  BY <1>2, <1>3, SMT
<1>5. /\ quant \in Tables /\ DOMAIN quant = DOMAIN info.quant
      /\ \A q \in DOMAIN info.quant : quant[q] = ~ info.quant[q]
  <2>1. PICK T \in SUBSET Nat : info.quant \in [T -> BOOLEAN]
    BY <1>1, Zenon DEF Tables
  <2> QED
    BY <2>1, Zenon DEF Tables
<1>6. t = [info EXCEPT !.image_width = info.image_height,
                       !.image_height = info.image_width,
                       !.comps = comps, !.quant = quant]
  BY Zenon DEF transpose_critical_parameters
<1> HIDE DEF t, comps, quant
<1>7. t \in Info
  BY <1>1, <1>4, <1>5, <1>6, Zenon DEF Info
<1> QED
  BY <1>2, <1>3, <1>4, <1>5, <1>7, <1>6, SMT DEF t, Info

LEMMA TrimmedRightType ==
    ASSUME NEW info \in Info, Trimmed(info.image_width, MaxH(info) * DCTSIZE) \in Nat \ {0}
    PROVE  LET t == trim_right_edge(info)
           IN  /\ t \in Info /\ t.image_height = info.image_height
               /\ t.image_width = Trimmed(info.image_width, MaxH(info) * DCTSIZE)
               /\ t.colors = info.colors /\ t.comps = info.comps
               /\ t.quant = info.quant
<1> DEFINE t == trim_right_edge(info)
           w == Trimmed(info.image_width, MaxH(info) * DCTSIZE)
<1> HIDE DEF t, w
<1> QED
  BY DEF Info, t, w, trim_right_edge

LEMMA TrimmedBottomType ==
    ASSUME NEW info \in Info, Trimmed(info.image_height, MaxV(info) * DCTSIZE) \in Nat \ {0}
    PROVE  LET t == trim_bottom_edge(info)
           IN  /\ t \in Info /\ t.image_width = info.image_width
               /\ t.image_height = Trimmed(info.image_height, MaxV(info) * DCTSIZE)
               /\ t.colors = info.colors /\ t.comps = info.comps
               /\ t.quant = info.quant
<1> DEFINE t == trim_bottom_edge(info)
           h == Trimmed(info.image_height, MaxV(info) * DCTSIZE)
<1> HIDE DEF t, h
<1> QED
  BY DEF Info, t, h, trim_bottom_edge
LEMMA InfoIsSized == \A info \in Info : Sized(info)
<1> SUFFICES ASSUME NEW info \in Info PROVE Sized(info)
  OBVIOUS
<1>1. \A f \in FileComponent : f.h \in 1..MAX_SAMP_FACTOR /\ f.v \in 1..MAX_SAMP_FACTOR
  BY Zenon DEF FileComponent
<1> QED
  BY <1>1 DEF Sized, Info

LEMMA SourceIsSized == \A s \in SourceFile : Sized(s)
<1> SUFFICES ASSUME NEW s \in SourceFile PROVE Sized(s)
  OBVIOUS
<1>1. /\ s.image_width \in Nat \ {0} /\ s.image_height \in Nat \ {0}
      /\ s.comps \in Seq(FileComponent) /\ s.comps # << >>
  BY Zenon DEF SourceFile, FileComponent
<1>2. \A f \in FileComponent : f.h \in 1..MAX_SAMP_FACTOR /\ f.v \in 1..MAX_SAMP_FACTOR
  BY Zenon DEF FileComponent
<1> QED
  BY <1>1, <1>2 DEF Sized

(* A transposed image has its sizes exchanged.                             *)
LEMMA TransposedSizes ==
    ASSUME NEW info \in Info, NEW c \in 1..Len(info.comps)
    PROVE  LET t == transpose_critical_parameters(info)
           IN  /\ MaxH(t) = MaxV(info) /\ MaxV(t) = MaxH(info)
               /\ width_in_blocks(t, c) = height_in_blocks(info, c)
               /\ height_in_blocks(t, c) = width_in_blocks(info, c)
               /\ WholeCols(t, c) = WholeRows(info, c)
               /\ WholeRows(t, c) = WholeCols(info, c)
<1> DEFINE t == transpose_critical_parameters(info)
           n == Len(info.comps)
<1>1. /\ t.image_width = info.image_height /\ t.image_height = info.image_width
      /\ Len(t.comps) = n
      /\ \A d \in 1..n : t.comps[d].h = info.comps[d].v /\ t.comps[d].v = info.comps[d].h
  BY TransposedType
<1> HIDE DEF t
<1>2. /\ {t.comps[d].h : d \in 1..n} = {info.comps[d].v : d \in 1..n}
      /\ {t.comps[d].v : d \in 1..n} = {info.comps[d].h : d \in 1..n}
  BY <1>1, Zenon
<1> QED
  BY <1>1, <1>2, Zenon DEF width_in_blocks, height_in_blocks, WholeCols, WholeRows, t,
     MaxH, MaxV

(* A trimmed image is no larger, and has the same complete iMCUs.          *)
LEMMA TrimmedRightSizes ==
    ASSUME NEW info \in Info, NEW c \in 1..Len(info.comps)
    PROVE  LET t == trim_right_edge(info)
           IN  /\ t \in Info /\ t.comps = info.comps /\ t.quant = info.quant
               /\ t.colors = info.colors
               /\ t.image_height = info.image_height
               /\ MaxH(t) = MaxH(info) /\ MaxV(t) = MaxV(info)
               /\ height_in_blocks(t, c) = height_in_blocks(info, c)
               /\ width_in_blocks(t, c) <= width_in_blocks(info, c)
               /\ WholeCols(t, c) = WholeCols(info, c)
               /\ WholeRows(t, c) = WholeRows(info, c)
               /\ info.image_width >= MaxH(info) * DCTSIZE
                    => width_in_blocks(t, c) = WholeCols(t, c)
<1> DEFINE t == trim_right_edge(info)
           size == info.image_width
           m == MaxH(info)
           f == info.comps[c].h
           trimmed == Trimmed(size, m * DCTSIZE)
<1>1. size \in Nat \ {0} /\ m \in Nat \ {0} /\ f \in 1..m
  BY MaxSampling, InfoIsSized, Zenon DEF Sized
<1>2. /\ trimmed \in Nat \ {0} /\ trimmed <= size
      /\ WholeBlocks(trimmed, f, m) = WholeBlocks(size, f, m)
      /\ size >= m * DCTSIZE => BlocksOf(trimmed, f, m) = WholeBlocks(size, f, m)
  <2> HIDE DEF size, m, f
  <2> QED
    BY <1>1, DimensionTrimmed
<1>3. /\ t \in Info /\ t.image_height = info.image_height
      /\ t.image_width = trimmed /\ t.colors = info.colors
      /\ t.comps = info.comps /\ t.quant = info.quant
  BY <1>2, TrimmedRightType, Zenon
<1>4. MaxH(t) = MaxH(info) /\ MaxV(t) = MaxV(info)
  <2> HIDE DEF t
  <2> QED
    BY <1>3, Zenon DEF MaxH, MaxV
<1>5. /\ width_in_blocks(t, c) = BlocksOf(trimmed, f, m)
      /\ width_in_blocks(info, c) = BlocksOf(size, f, m)
      /\ WholeCols(t, c) = WholeBlocks(trimmed, f, m)
      /\ WholeCols(info, c) = WholeBlocks(size, f, m)
      /\ height_in_blocks(t, c) = height_in_blocks(info, c)
      /\ WholeRows(t, c) = WholeRows(info, c)
  <2> HIDE DEF t
  <2> QED
    BY <1>3, <1>4, Zenon DEF width_in_blocks, height_in_blocks, BlocksOf,
       WholeCols, WholeRows
<1>6. BlocksOf(trimmed, f, m) <= BlocksOf(size, f, m)
  <2> HIDE DEF size, m, f, trimmed
  <2> QED
    BY <1>1, <1>2, DimensionGrows
<1> QED
  BY <1>2, <1>3, <1>4, <1>5, <1>6, Zenon

LEMMA TrimmedBottomSizes ==
    ASSUME NEW info \in Info, NEW c \in 1..Len(info.comps)
    PROVE  LET t == trim_bottom_edge(info)
           IN  /\ t \in Info /\ t.comps = info.comps /\ t.quant = info.quant
               /\ t.colors = info.colors
               /\ t.image_width = info.image_width
               /\ MaxH(t) = MaxH(info) /\ MaxV(t) = MaxV(info)
               /\ width_in_blocks(t, c) = width_in_blocks(info, c)
               /\ height_in_blocks(t, c) <= height_in_blocks(info, c)
               /\ WholeCols(t, c) = WholeCols(info, c)
               /\ WholeRows(t, c) = WholeRows(info, c)
               /\ info.image_height >= MaxV(info) * DCTSIZE
                    => height_in_blocks(t, c) = WholeRows(t, c)
<1> DEFINE t == trim_bottom_edge(info)
           size == info.image_height
           m == MaxV(info)
           f == info.comps[c].v
           trimmed == Trimmed(size, m * DCTSIZE)
<1>1. size \in Nat \ {0} /\ m \in Nat \ {0} /\ f \in 1..m
  BY MaxSampling, InfoIsSized, Zenon DEF Sized
<1>2. /\ trimmed \in Nat \ {0} /\ trimmed <= size
      /\ WholeBlocks(trimmed, f, m) = WholeBlocks(size, f, m)
      /\ size >= m * DCTSIZE => BlocksOf(trimmed, f, m) = WholeBlocks(size, f, m)
  <2> HIDE DEF size, m, f
  <2> QED
    BY <1>1, DimensionTrimmed
<1>3. /\ t \in Info /\ t.image_width = info.image_width
      /\ t.image_height = trimmed /\ t.colors = info.colors
      /\ t.comps = info.comps /\ t.quant = info.quant
  BY <1>2, TrimmedBottomType, Zenon
<1>4. MaxH(t) = MaxH(info) /\ MaxV(t) = MaxV(info)
  <2> HIDE DEF t
  <2> QED
    BY <1>3, Zenon DEF MaxH, MaxV
<1>5. /\ height_in_blocks(t, c) = BlocksOf(trimmed, f, m)
      /\ height_in_blocks(info, c) = BlocksOf(size, f, m)
      /\ WholeRows(t, c) = WholeBlocks(trimmed, f, m)
      /\ WholeRows(info, c) = WholeBlocks(size, f, m)
      /\ width_in_blocks(t, c) = width_in_blocks(info, c)
      /\ WholeCols(t, c) = WholeCols(info, c)
  <2> HIDE DEF t
  <2> QED
    BY <1>3, <1>4, Zenon DEF width_in_blocks, height_in_blocks, BlocksOf,
       WholeCols, WholeRows
<1>6. BlocksOf(trimmed, f, m) <= BlocksOf(size, f, m)
  <2> HIDE DEF size, m, f, trimmed
  <2> QED
    BY <1>1, <1>2, DimensionGrows
<1> QED
  BY <1>2, <1>3, <1>4, <1>5, <1>6, Zenon

(* Only the dimensions and the sampling factors matter for sizes.          *)
SameShape(i, j) ==
    /\ i.image_width = j.image_width /\ i.image_height = j.image_height
    /\ Len(i.comps) = Len(j.comps)
    /\ \A c \in 1..Len(j.comps) : /\ i.comps[c].h = j.comps[c].h
                                  /\ i.comps[c].v = j.comps[c].v

LEMMA SameSizes ==
    ASSUME NEW i, NEW j, SameShape(i, j), NEW c \in 1..Len(j.comps)
    PROVE  /\ MaxH(i) = MaxH(j) /\ MaxV(i) = MaxV(j)
           /\ width_in_blocks(i, c) = width_in_blocks(j, c)
           /\ height_in_blocks(i, c) = height_in_blocks(j, c)
           /\ WholeCols(i, c) = WholeCols(j, c) /\ WholeRows(i, c) = WholeRows(j, c)
BY Zenon DEF SameShape, MaxH, MaxV, width_in_blocks, height_in_blocks, WholeCols,
   WholeRows

LEMMA JobType ==
    ASSUME NEW jb \in Jobs
    PROVE  /\ jb.source \in SourceFile /\ CopiedOf(jb.source) \in Info
           /\ BaseOf(jb) \in Info /\ Sized(jb.source) /\ Sized(BaseOf(jb))
           /\ jb.trim \in BOOLEAN /\ jb.force_grayscale \in BOOLEAN
BY JobsAssumption, CopiedType, GrayscaleType, InfoIsSized, SourceIsSized DEF BaseOf

(* Copied or made gray, the parameters have the shape of the picture kept. *)
LEMMA KeptShape ==
    ASSUME NEW jb \in Jobs
    PROVE  /\ SameShape(BaseOf(jb), KeptOf(jb)) /\ Sized(KeptOf(jb))
           /\ Len(KeptOf(jb).comps) = IF jb.force_grayscale THEN 1
                                      ELSE Len(jb.source.comps)
           /\ jb.force_grayscale => KeptOf(jb).comps[1].h = 1 /\ KeptOf(jb).comps[1].v = 1
           /\ KeptOf(jb).image_width = jb.source.image_width
           /\ KeptOf(jb).image_height = jb.source.image_height
<1> DEFINE s == jb.source
           base == BaseOf(jb)
           copied == CopiedOf(s)
<1>1. /\ s \in SourceFile /\ copied \in Info /\ Sized(base)
      /\ jb.force_grayscale \in BOOLEAN
  BY JobType
<1>2. /\ copied.image_width = s.image_width /\ copied.image_height = s.image_height
      /\ Len(copied.comps) = Len(s.comps)
      /\ \A c \in 1..Len(s.comps) : /\ copied.comps[c].h = s.comps[c].h
                                    /\ copied.comps[c].v = s.comps[c].v
  BY <1>1, CopiedType
<1>3. CASE jb.force_grayscale
  <2> DEFINE g == Grayscale(copied)
             luma == [s.comps[1] EXCEPT !.h = 1, !.v = 1]
             comps == << luma >>
             kept == KeptOf(jb)
  <2>1. base = g
    BY <1>3, Zenon DEF BaseOf
  <2>2. /\ g.image_width = s.image_width /\ g.image_height = s.image_height
        /\ Len(g.comps) = 1 /\ g.comps[1].h = 1 /\ g.comps[1].v = 1
    BY <1>1, <1>2, GrayscaleType, Zenon
  <2>3. s.comps \in Seq(FileComponent) /\ s.comps # << >>
    BY <1>1, Zenon DEF SourceFile, FileComponent
  <2>4. luma.h = 1 /\ luma.v = 1
    BY <2>3, SMT DEF FileComponent
  <2> HIDE DEF luma
  <2>5. Len(comps) = 1 /\ comps[1] = luma
    BY SMT
  <2> HIDE DEF comps
  <2>6. kept = [s EXCEPT !.comps = comps]
    BY <1>3, Zenon DEF KeptOf, comps, luma
  <2> HIDE DEF kept
  <2>7. /\ kept.image_width = s.image_width /\ kept.image_height = s.image_height
        /\ kept.comps = comps
    BY <1>1, <2>6, SMT DEF SourceFile
  <2>8. SameShape(base, kept)
    BY <2>1, <2>2, <2>4, <2>5, <2>7 DEF SameShape
  <2> QED
    BY <1>3, <2>4, <2>5, <2>7, <2>8, <1>1, Zenon DEF kept, SameShape, Sized
<1>4. CASE ~ jb.force_grayscale
  BY <1>4, <1>2, JobType DEF BaseOf, KeptOf, SameShape
<1> QED
  BY <1>1, <1>3, <1>4

(* The picture kept fits the arrays that were asked for the source.        *)
LEMMA KeptFits ==
    ASSUME NEW jb \in Jobs, Drawable(jb), LumaIsFull(jb),
           NEW c \in 1..Len(KeptOf(jb).comps)
    PROVE  LET s == jb.source
               kept == KeptOf(jb)
           IN  /\ c \in 1..Len(s.comps)
               /\ width_in_blocks(kept, c) = width_in_blocks(s, c)
               /\ height_in_blocks(kept, c) = height_in_blocks(s, c)
               /\ jround_up(width_in_blocks(kept, c), kept.comps[c].h) <= PaddedWidth(s, c)
               /\ jround_up(height_in_blocks(kept, c), kept.comps[c].v) <= PaddedHeight(s, c)
<1> DEFINE s == jb.source
           kept == KeptOf(jb)
<1>1. Sized(s) /\ jb.force_grayscale \in BOOLEAN /\ Len(s.comps) \in Nat \ {0}
  BY JobType, Zenon DEF Sized
<1>2. CASE jb.force_grayscale
  <2>1. c = 1 /\ 1 \in 1..Len(s.comps)
    BY <1>1, <1>2, KeptShape, SMT
  <2>2. Sized(kept) /\ kept.comps[1].h = 1 /\ kept.comps[1].v = 1
        /\ kept.image_width = s.image_width /\ kept.image_height = s.image_height
        /\ Len(kept.comps) = 1
    BY <1>2, KeptShape, Zenon
  <2>3. s.comps[1].h = MaxH(s) /\ s.comps[1].v = MaxV(s)
    BY <1>2, Zenon DEF LumaIsFull
  <2>4. /\ MaxH(s) \in Nat \ {0} /\ MaxV(s) \in Nat \ {0}
        /\ s.image_width \in Nat \ {0} /\ s.image_height \in Nat \ {0}
        /\ s.comps[1].h \in Nat \ {0} /\ s.comps[1].v \in Nat \ {0}
    BY <1>1, <2>3, MaxSampling, Zenon DEF Sized
  <2>5. MaxH(kept) = 1 /\ MaxV(kept) = 1
    BY <2>2, LargestOf DEF MaxH, MaxV
  <2>6. /\ jround_up(width_in_blocks(s, 1), 1) <= PaddedWidth(s, 1)
        /\ jround_up(height_in_blocks(s, 1), 1) <= PaddedHeight(s, 1)
    <3> DEFINE w == width_in_blocks(s, 1)
               h == height_in_blocks(s, 1)
               f == s.comps[1].h
               g == s.comps[1].v
    <3>1. w \in Nat /\ h \in Nat /\ f \in Nat \ {0} /\ g \in Nat \ {0}
      BY <2>4, <1>1, <2>1, ComponentSizes
    <3> HIDE DEF w, h, f, g
    <3>2. 1 \in Nat \ {0}
      BY SMT
    <3> QED
      BY <3>1, <3>2, RoundsUpToMultiple DEF w, h, f, g, PaddedWidth, PaddedHeight
  <2> QED
    BY <2>1, <2>2, <2>4, <2>3, <2>5, DimensionAlone, <2>6, Zenon DEF width_in_blocks,
       height_in_blocks, BlocksOf
<1>3. CASE ~ jb.force_grayscale
  <2>1. kept = s
    BY <1>3, Zenon DEF KeptOf
  <2>2. width_in_blocks(s, c) \in Nat /\ height_in_blocks(s, c) \in Nat
        /\ s.comps[c].h \in Nat \ {0} /\ s.comps[c].v \in Nat \ {0}
    <3>1. s.comps[c].h \in 1..4 /\ s.comps[c].v \in 1..4
      BY <1>1, <2>1, Zenon DEF Sized, MAX_SAMP_FACTOR
    <3>2. /\ width_in_blocks(s, c) \in Nat \ {0}
          /\ height_in_blocks(s, c) \in Nat \ {0}
      BY <1>1, <2>1, ComponentSizes, Zenon
    <3> QED
      BY <3>1, <3>2, SMTT(20)
  <2>3. PaddedWidth(s, c) \in Nat /\ PaddedHeight(s, c) \in Nat
    BY <2>2, RoundsUpToMultiple, Zenon DEF PaddedWidth, PaddedHeight
  <2> QED
    BY <2>1, <2>3, SMT DEF PaddedWidth, PaddedHeight
<1> QED
  BY <1>1, <1>2, <1>3

(* What lies across the output: what lies across the source, or, for a     *)
(* transformation that transposes, what lies down it.                      *)
Turned(jb, x, y) == IF Swaps(jb.transform) THEN y ELSE x

LEMMA CorrectedGeometry ==
    ASSUME NEW jb \in Jobs
    PROVE  LET t == CorrectedOf(jb)
               k == KeptOf(jb)
           IN  /\ t \in Info /\ Len(t.comps) = Len(k.comps)
               /\ t.image_width = Turned(jb, k.image_width, k.image_height)
               /\ t.image_height = Turned(jb, k.image_height, k.image_width)
               /\ MaxH(t) = Turned(jb, MaxH(k), MaxV(k))
               /\ MaxV(t) = Turned(jb, MaxV(k), MaxH(k))
               /\ \A c \in 1..Len(k.comps) :
                    /\ t.comps[c].h = Turned(jb, k.comps[c].h, k.comps[c].v)
                    /\ t.comps[c].v = Turned(jb, k.comps[c].v, k.comps[c].h)
                    /\ width_in_blocks(t, c)
                           = Turned(jb, width_in_blocks(k, c), height_in_blocks(k, c))
                    /\ height_in_blocks(t, c)
                           = Turned(jb, height_in_blocks(k, c), width_in_blocks(k, c))
                    /\ WholeCols(t, c) = Turned(jb, WholeCols(k, c), WholeRows(k, c))
                    /\ WholeRows(t, c) = Turned(jb, WholeRows(k, c), WholeCols(k, c))
<1> DEFINE t == CorrectedOf(jb)
           k == KeptOf(jb)
           b == BaseOf(jb)
<1>1. b \in Info /\ SameShape(b, k) /\ Sized(k)
  BY JobType, KeptShape, Zenon
<1>2. Len(k.comps) \in Nat \ {0} /\ Len(b.comps) = Len(k.comps)
  BY <1>1, Zenon DEF SameShape, Sized
<1>3. 1 \in 1..Len(k.comps)
  BY <1>2, SMT
<1>4. \A c \in 1..Len(k.comps) :
         /\ MaxH(b) = MaxH(k) /\ MaxV(b) = MaxV(k)
         /\ width_in_blocks(b, c) = width_in_blocks(k, c)
         /\ height_in_blocks(b, c) = height_in_blocks(k, c)
         /\ WholeCols(b, c) = WholeCols(k, c) /\ WholeRows(b, c) = WholeRows(k, c)
  BY <1>1, SameSizes
<1>5. CASE Swaps(jb.transform)
  <2>1. t = transpose_critical_parameters(b)
    BY <1>5, Zenon DEF CorrectedOf, Corrected
  <2>2. /\ t \in Info /\ Len(t.comps) = Len(b.comps)
        /\ t.image_width = b.image_height /\ t.image_height = b.image_width
        /\ \A c \in 1..Len(b.comps) : /\ t.comps[c].h = b.comps[c].v
                                      /\ t.comps[c].v = b.comps[c].h
    <3> DEFINE u == transpose_critical_parameters(b)
    <3> QED
      BY <2>1, <1>1, TransposedType
  <2>3. \A c \in 1..Len(b.comps) :
           /\ MaxH(t) = MaxV(b) /\ MaxV(t) = MaxH(b)
           /\ width_in_blocks(t, c) = height_in_blocks(b, c)
           /\ height_in_blocks(t, c) = width_in_blocks(b, c)
           /\ WholeCols(t, c) = WholeRows(b, c) /\ WholeRows(t, c) = WholeCols(b, c)
    <3> DEFINE u == transpose_critical_parameters(b)
    <3> QED
      BY <2>1, <1>1, TransposedSizes
  <2> HIDE DEF t, k, b
  <2>4. \A x, y : Turned(jb, x, y) = y
    BY <1>5, Zenon DEF Turned
  <2>5. /\ t.image_width = k.image_height /\ t.image_height = k.image_width
        /\ MaxH(t) = MaxV(k) /\ MaxV(t) = MaxH(k)
    BY <1>1, <1>2, <1>3, <1>4, <2>2, <2>3, Zenon DEF SameShape
  <2>6. \A c \in 1..Len(k.comps) : /\ t.comps[c].h = k.comps[c].v
                                    /\ t.comps[c].v = k.comps[c].h
    BY <1>1, <1>2, <2>2, Zenon DEF SameShape
  <2>7. ASSUME NEW c \in 1..Len(k.comps)
        PROVE  /\ t.comps[c].h = Turned(jb, k.comps[c].h, k.comps[c].v)
               /\ t.comps[c].v = Turned(jb, k.comps[c].v, k.comps[c].h)
    BY <2>4, <2>6, Zenon
  <2>8. ASSUME NEW c \in 1..Len(k.comps)
        PROVE  /\ width_in_blocks(t, c)
                    = Turned(jb, width_in_blocks(k, c), height_in_blocks(k, c))
               /\ height_in_blocks(t, c)
                    = Turned(jb, height_in_blocks(k, c), width_in_blocks(k, c))
               /\ WholeCols(t, c) = Turned(jb, WholeCols(k, c), WholeRows(k, c))
               /\ WholeRows(t, c) = Turned(jb, WholeRows(k, c), WholeCols(k, c))
    BY <2>4, <1>2, <1>4, <2>3, Zenon
  <2>9. /\ t.image_width = Turned(jb, k.image_width, k.image_height)
        /\ t.image_height = Turned(jb, k.image_height, k.image_width)
        /\ MaxH(t) = Turned(jb, MaxH(k), MaxV(k))
        /\ MaxV(t) = Turned(jb, MaxV(k), MaxH(k))
    BY <2>4, <2>5, Zenon
  <2> QED
    BY <2>7, <2>8, <2>9, <1>2, <2>2, Zenon DEF t, k
<1>6. CASE ~ Swaps(jb.transform)
  <2>1. t = b
    BY <1>6, Zenon DEF CorrectedOf, Corrected
  <2> HIDE DEF t, k, b
  <2> QED
    BY <1>1, <1>2, <1>3, <1>4, <2>1, <1>6, Zenon DEF SameShape, t, k, Turned
<1> QED
  BY <1>5, <1>6

(* Without its right edge.                                                 *)
LEMMA TrimRightGeometry ==
    ASSUME NEW info \in Info, NEW transform, NEW c \in 1..Len(info.comps)
    PROVE  LET r == TrimRight(info, transform)
           IN  /\ r \in Info /\ r.comps = info.comps /\ r.quant = info.quant
               /\ r.colors = info.colors
               /\ r.image_height = info.image_height /\ MaxV(r) = MaxV(info)
               /\ height_in_blocks(r, c) = height_in_blocks(info, c)
               /\ width_in_blocks(r, c) <= width_in_blocks(info, c)
               /\ WholeCols(r, c) = WholeCols(info, c)
               /\ WholeRows(r, c) = WholeRows(info, c)
               /\ info.image_width >= MaxH(info) * DCTSIZE /\ TrimsRight(transform)
                    => width_in_blocks(r, c) = WholeCols(r, c)
<1>1. CASE TrimsRight(transform)
  BY <1>1, TrimmedRightSizes DEF TrimRight
<1>2. CASE ~ TrimsRight(transform)
  BY InfoIsSized, ComponentSizes, <1>2 DEF TrimRight
<1> QED
  BY <1>1, <1>2

LEMMA TrimBottomGeometry ==
    ASSUME NEW info \in Info, NEW transform, NEW c \in 1..Len(info.comps)
    PROVE  LET r == TrimBottom(info, transform)
           IN  /\ r \in Info /\ r.comps = info.comps /\ r.quant = info.quant
               /\ r.colors = info.colors
               /\ width_in_blocks(r, c) = width_in_blocks(info, c)
               /\ height_in_blocks(r, c) <= height_in_blocks(info, c)
               /\ WholeCols(r, c) = WholeCols(info, c)
               /\ WholeRows(r, c) = WholeRows(info, c)
               /\ info.image_height >= MaxV(info) * DCTSIZE /\ TrimsBottom(transform)
                    => height_in_blocks(r, c) = WholeRows(r, c)
<1>1. CASE TrimsBottom(transform)
  BY <1>1, TrimmedBottomSizes DEF TrimBottom
<1>2. CASE ~ TrimsBottom(transform)
  BY InfoIsSized, ComponentSizes, <1>2 DEF TrimBottom
<1> QED
  BY <1>1, <1>2

(* The output: no larger than the picture kept, of its size if nothing is  *)
(* trimmed, and made of complete iMCUs where edges are trimmed.            *)
LargeEnough(k) == /\ k.image_width >= MaxH(k) * DCTSIZE
                  /\ k.image_height >= MaxV(k) * DCTSIZE

Geometry(jb, t, c) ==
    LET k == KeptOf(jb)
    IN  /\ t.comps[c].h = Turned(jb, k.comps[c].h, k.comps[c].v)
        /\ t.comps[c].v = Turned(jb, k.comps[c].v, k.comps[c].h)
        /\ width_in_blocks(t, c)
               <= Turned(jb, width_in_blocks(k, c), height_in_blocks(k, c))
        /\ height_in_blocks(t, c)
               <= Turned(jb, height_in_blocks(k, c), width_in_blocks(k, c))
        /\ ~ jb.trim =>
             /\ width_in_blocks(t, c)
                  = Turned(jb, width_in_blocks(k, c), height_in_blocks(k, c))
             /\ height_in_blocks(t, c)
                  = Turned(jb, height_in_blocks(k, c), width_in_blocks(k, c))
        /\ WholeCols(t, c) = Turned(jb, WholeCols(k, c), WholeRows(k, c))
        /\ WholeRows(t, c) = Turned(jb, WholeRows(k, c), WholeCols(k, c))
        /\ jb.trim /\ LargeEnough(k) =>
             /\ TrimsRight(jb.transform) => width_in_blocks(t, c) = WholeCols(t, c)
             /\ TrimsBottom(jb.transform) => height_in_blocks(t, c) = WholeRows(t, c)

LEMMA FinalGeometry ==
    ASSUME NEW jb \in Jobs
    PROVE  /\ FinalOf(jb) \in Info
           /\ Len(FinalOf(jb).comps) = Len(KeptOf(jb).comps)
           /\ \A c \in 1..Len(KeptOf(jb).comps) : Geometry(jb, FinalOf(jb), c)
<1> DEFINE t == FinalOf(jb)
           k == KeptOf(jb)
           d == CorrectedOf(jb)
           r == TrimRight(d, jb.transform)
           b == TrimBottom(r, jb.transform)
<1>1. /\ d \in Info /\ Len(d.comps) = Len(k.comps)
      /\ d.image_width = Turned(jb, k.image_width, k.image_height)
      /\ d.image_height = Turned(jb, k.image_height, k.image_width)
      /\ MaxH(d) = Turned(jb, MaxH(k), MaxV(k))
      /\ MaxV(d) = Turned(jb, MaxV(k), MaxH(k))
  BY CorrectedGeometry
<1>2. ASSUME NEW c \in 1..Len(k.comps)
      PROVE  /\ d.comps[c].h = Turned(jb, k.comps[c].h, k.comps[c].v)
             /\ d.comps[c].v = Turned(jb, k.comps[c].v, k.comps[c].h)
             /\ width_in_blocks(d, c)
                    = Turned(jb, width_in_blocks(k, c), height_in_blocks(k, c))
             /\ height_in_blocks(d, c)
                    = Turned(jb, height_in_blocks(k, c), width_in_blocks(k, c))
             /\ WholeCols(d, c) = Turned(jb, WholeCols(k, c), WholeRows(k, c))
             /\ WholeRows(d, c) = Turned(jb, WholeRows(k, c), WholeCols(k, c))
  BY CorrectedGeometry
<1>3. ASSUME NEW c \in 1..Len(k.comps)
      PROVE  /\ width_in_blocks(d, c) \in Nat \ {0}
             /\ height_in_blocks(d, c) \in Nat \ {0}
  BY <1>1, InfoIsSized, ComponentSizes, Zenon
<1>4. CASE ~ jb.trim
  <2>1. ASSUME NEW c \in 1..Len(k.comps) PROVE Geometry(jb, d, c)
    <3> HIDE DEF d
    <3> QED
      BY <1>2, <1>4, <1>3 DEF Geometry
  <2> QED
    BY <1>1, <1>4, <2>1, Zenon DEF FinalOf
<1>5. CASE jb.trim
  <2>1. t = b
    BY <1>5, Zenon DEF FinalOf
  <2> HIDE DEF d
  <2>2. ASSUME NEW c \in 1..Len(k.comps)
        PROVE  /\ r \in Info /\ r.comps = d.comps
               /\ r.image_height = d.image_height /\ MaxV(r) = MaxV(d)
               /\ height_in_blocks(r, c) = height_in_blocks(d, c)
               /\ width_in_blocks(r, c) <= width_in_blocks(d, c)
               /\ WholeCols(r, c) = WholeCols(d, c)
               /\ WholeRows(r, c) = WholeRows(d, c)
               /\ d.image_width >= MaxH(d) * DCTSIZE /\ TrimsRight(jb.transform)
                    => width_in_blocks(r, c) = WholeCols(r, c)
    BY <1>1, TrimRightGeometry
  <2> HIDE DEF r
  <2>3. ASSUME NEW c \in 1..Len(k.comps)
        PROVE  /\ b \in Info /\ b.comps = d.comps
               /\ width_in_blocks(b, c) = width_in_blocks(r, c)
               /\ height_in_blocks(b, c) <= height_in_blocks(d, c)
               /\ WholeCols(b, c) = WholeCols(d, c)
               /\ WholeRows(b, c) = WholeRows(d, c)
               /\ d.image_height >= MaxV(d) * DCTSIZE /\ TrimsBottom(jb.transform)
                    => height_in_blocks(b, c) = WholeRows(b, c)
    <3>1. /\ b \in Info /\ b.comps = r.comps
          /\ width_in_blocks(b, c) = width_in_blocks(r, c)
          /\ height_in_blocks(b, c) <= height_in_blocks(r, c)
          /\ WholeCols(b, c) = WholeCols(r, c)
          /\ WholeRows(b, c) = WholeRows(r, c)
          /\ r.image_height >= MaxV(r) * DCTSIZE /\ TrimsBottom(jb.transform)
               => height_in_blocks(b, c) = WholeRows(b, c)
      BY <1>1, <2>2, TrimBottomGeometry
    <3> HIDE DEF b
    <3> QED
      BY <2>2, <3>1, Zenon
  <2> HIDE DEF b
  <2>4. ASSUME NEW c \in 1..Len(k.comps) PROVE Geometry(jb, b, c)
    BY <1>2, <2>3, <2>2, <1>1, <1>5, Zenon DEF Geometry, LargeEnough, Turned
  <2>5. b \in Info /\ Len(b.comps) = Len(k.comps)
    BY <1>1, <2>3, KeptShape DEF Sized
  <2> QED
    BY <2>1, <2>4, <2>5, Zenon
<1> QED
  BY <1>4, <1>5
-----------------------------------------------------------------------------
(* The block each loop puts at a place of the output.                      *)

Block(x, y, t, h, v) == [x |-> x, y |-> y, t |-> t, h |-> h, v |-> v]

LEMMA TransposedBlock ==
    ASSUME NEW x, NEW y, NEW t, NEW h, NEW v
    PROVE  Transposed(Block(x, y, FALSE, h, v)) = Block(x, y, TRUE, v, h)
<1> DEFINE b == Block(x, y, FALSE, h, v)
           fields == {"x", "y", "t", "h", "v"}
           e == [b EXCEPT !.t = TRUE, !.h = v, !.v = h]
<1>1. b.x = x /\ b.y = y /\ b.t = FALSE /\ b.h = h /\ b.v = v /\ DOMAIN b = fields
  BY Zenon DEF Block
<1> HIDE DEF b
<1>2. e.x = x /\ e.y = y /\ e.t = TRUE /\ e.h = v /\ e.v = h
  BY <1>1, SMT
<1>3. e = [k \in fields |-> e[k]]
  BY <1>1, Zenon
<1>4. Transposed(b) = e
  BY <1>1, Zenon DEF Transposed
<1> HIDE DEF e
<1>5. e = Block(x, y, TRUE, v, h)
  BY <1>2, <1>3, Zenon DEF Block
<1> QED
  BY <1>4, <1>5, Zenon DEF b

LEMMA OddColumnsBlock ==
    ASSUME NEW x, NEW y, NEW t, NEW h, NEW v
    PROVE  OddColumns(Block(x, y, t, FALSE, v)) = Block(x, y, t, TRUE, v)
<1> DEFINE b == Block(x, y, t, FALSE, v)
           fields == {"x", "y", "t", "h", "v"}
           e == [b EXCEPT !.h = TRUE]
<1>1. b.x = x /\ b.y = y /\ b.t = t /\ b.h = FALSE /\ b.v = v /\ DOMAIN b = fields
  BY Zenon DEF Block
<1> HIDE DEF b
<1>2. e.x = x /\ e.y = y /\ e.t = t /\ e.h = TRUE /\ e.v = v
  BY <1>1, SMT
<1>3. e = [k \in fields |-> e[k]]
  BY <1>1, Zenon
<1>4. OddColumns(b) = e
  BY <1>1 DEF OddColumns
<1> HIDE DEF e
<1>5. e = Block(x, y, t, TRUE, v)
  BY <1>2, <1>3, Zenon DEF Block
<1> QED
  BY <1>4, <1>5, Zenon DEF b

LEMMA OddRowsBlock ==
    ASSUME NEW x, NEW y, NEW t, NEW h, NEW v
    PROVE  OddRows(Block(x, y, t, h, FALSE)) = Block(x, y, t, h, TRUE)
<1> DEFINE b == Block(x, y, t, h, FALSE)
           fields == {"x", "y", "t", "h", "v"}
           e == [b EXCEPT !.v = TRUE]
<1>1. b.x = x /\ b.y = y /\ b.t = t /\ b.h = h /\ b.v = FALSE /\ DOMAIN b = fields
  BY Zenon DEF Block
<1> HIDE DEF b
<1>2. e.x = x /\ e.y = y /\ e.t = t /\ e.h = h /\ e.v = TRUE
  BY <1>1, SMT
<1>3. e = [k \in fields |-> e[k]]
  BY <1>1, Zenon
<1>4. OddRows(b) = e
  BY <1>1 DEF OddRows
<1> HIDE DEF e
<1>5. e = Block(x, y, t, h, TRUE)
  BY <1>2, <1>3, Zenon DEF Block
<1> QED
  BY <1>4, <1>5, Zenon DEF b

(* Mirrored are the columns or rows before n.                              *)
Turn(n, i) == IF i < n THEN n - 1 - i ELSE i
Across(transform, w, x) == IF TrimsRight(transform) THEN Turn(w, x) ELSE x
Down(transform, h, y) == IF TrimsBottom(transform) THEN Turn(h, y) ELSE y

(* The column and row of the source, and the block made from it.           *)
FromX(transform, w, h, x, y) ==
    IF Swaps(transform) THEN Down(transform, h, y) ELSE Across(transform, w, x)
FromY(transform, w, h, x, y) ==
    IF Swaps(transform) THEN Across(transform, w, x) ELSE Down(transform, h, y)
Moved(transform, w, h, x, y) ==
    Block(FromX(transform, w, h, x, y), FromY(transform, w, h, x, y),
          Swaps(transform), TrimsRight(transform) /\ x < w,
          TrimsBottom(transform) /\ y < h)

Transformations == {"NONE", "FLIP_H", "FLIP_V", "TRANSPOSE", "TRANSVERSE", "ROT_90",
                    "ROT_180", "ROT_270"}

LEMMA NewBlockMoved ==
    ASSUME NEW transform \in Transformations \ {"NONE"}, NEW w, NEW h, NEW x, NEW y,
           NEW a,
           LET i == FromX(transform, w, h, x, y)
               j == FromY(transform, w, h, x, y)
           IN  a[j][i] = At(i, j)
    PROVE  NewBlock(transform, a, w, h, x, y) = Moved(transform, w, h, x, y)
<1> DEFINE l == x < w
           u == y < h
           i == FromX(transform, w, h, x, y)
           j == FromY(transform, w, h, x, y)
<1>1. a[j][i] = Block(i, j, FALSE, FALSE, FALSE)
  BY Zenon DEF At, Block
<1> DEFINE b == Block(i, j, FALSE, FALSE, FALSE)
           m == Moved(transform, w, h, x, y)
<1>2. /\ OddColumns(b) = Block(i, j, FALSE, TRUE, FALSE)
      /\ OddRows(b) = Block(i, j, FALSE, FALSE, TRUE)
      /\ OddRows(OddColumns(b)) = Block(i, j, FALSE, TRUE, TRUE)
      /\ Transposed(b) = Block(i, j, TRUE, FALSE, FALSE)
      /\ OddColumns(Transposed(b)) = Block(i, j, TRUE, TRUE, FALSE)
      /\ OddRows(Transposed(b)) = Block(i, j, TRUE, FALSE, TRUE)
      /\ OddColumns(OddRows(Transposed(b))) = Block(i, j, TRUE, TRUE, TRUE)
  <2> HIDE DEF i, j
  <2>1. \A t, f, g : /\ OddColumns(Block(i, j, t, FALSE, g)) = Block(i, j, t, TRUE, g)
                     /\ OddRows(Block(i, j, t, f, FALSE)) = Block(i, j, t, f, TRUE)
                     /\ Transposed(Block(i, j, FALSE, f, g)) = Block(i, j, TRUE, g, f)
    <3> TAKE t, f, g
    <3>1. Transposed(Block(i, j, FALSE, f, g)) = Block(i, j, TRUE, g, f)
      BY TransposedBlock, Zenon
    <3> QED
      BY OddColumnsBlock, OddRowsBlock, <3>1
  <2>2. /\ OddColumns(b) = Block(i, j, FALSE, TRUE, FALSE)
        /\ OddRows(b) = Block(i, j, FALSE, FALSE, TRUE)
        /\ Transposed(b) = Block(i, j, TRUE, FALSE, FALSE)
    BY <2>1, Zenon
  <2> HIDE DEF b
  <2> QED
    BY <2>2, <2>1, Zenon
<1>3. /\ l /\ TrimsRight(transform) => (TrimsRight(transform) /\ l) = TRUE
      /\ ~ (l /\ TrimsRight(transform)) => (TrimsRight(transform) /\ l) = FALSE
      /\ u /\ TrimsBottom(transform) => (TrimsBottom(transform) /\ u) = TRUE
      /\ ~ (u /\ TrimsBottom(transform)) => (TrimsBottom(transform) /\ u) = FALSE
  OBVIOUS
<1>4. m = Block(i, j, Swaps(transform), TrimsRight(transform) /\ l,
               TrimsBottom(transform) /\ u)
  BY Zenon DEF Moved
<1>5. CASE transform = "FLIP_H"
  <2>1. /\ Swaps(transform) = FALSE /\ TrimsRight(transform)
        /\ ~ TrimsBottom(transform)
        /\ NewBlock(transform, a, w, h, x, y) = do_flip_h(a, w, h, x, y)
    BY <1>5 DEF Swaps, TrimsRight, TrimsBottom, NewBlock
  <2>2. CASE l
    BY <2>1, <2>2, <1>1, <1>3, <1>4, <1>2, Zenon DEF FromX, FromY, Across, Down, Turn,
       do_flip_h
  <2>3. CASE ~ l
    BY <2>1, <2>3, <1>1, <1>3, <1>4, <1>2, Zenon DEF FromX, FromY, Across, Down, Turn,
       do_flip_h
  <2> QED
    BY <2>2, <2>3
<1>6. CASE transform = "FLIP_V"
  <2>1. /\ Swaps(transform) = FALSE /\ ~ TrimsRight(transform)
        /\ TrimsBottom(transform)
        /\ NewBlock(transform, a, w, h, x, y) = do_flip_v(a, w, h, x, y)
    BY <1>6 DEF Swaps, TrimsRight, TrimsBottom, NewBlock
  <2>2. CASE u
    BY <2>1, <2>2, <1>1, <1>3, <1>4, <1>2, Zenon DEF FromX, FromY, Across, Down, Turn,
       do_flip_v
  <2>3. CASE ~ u
    BY <2>1, <2>3, <1>1, <1>3, <1>4, <1>2, Zenon DEF FromX, FromY, Across, Down, Turn,
       do_flip_v
  <2> QED
    BY <2>2, <2>3
<1>7. CASE transform = "TRANSPOSE"
  <2>1. /\ Swaps(transform) = TRUE /\ ~ TrimsRight(transform)
        /\ ~ TrimsBottom(transform)
        /\ NewBlock(transform, a, w, h, x, y) = do_transpose(a, w, h, x, y)
    BY <1>7 DEF Swaps, TrimsRight, TrimsBottom, NewBlock
  <2> QED
    BY <1>2, <2>1, <1>1, <1>3, <1>4, Zenon DEF do_transpose, FromX, FromY, Across, Down,
       Turn
<1>8. CASE transform = "ROT_90"
  <2>1. /\ Swaps(transform) = TRUE /\ TrimsRight(transform)
        /\ ~ TrimsBottom(transform)
        /\ NewBlock(transform, a, w, h, x, y) = do_rot_90(a, w, h, x, y)
    BY <1>8 DEF Swaps, TrimsRight, TrimsBottom, NewBlock
  <2>2. CASE l
    BY <2>1, <2>2, <1>1, <1>3, <1>4, <1>2, Zenon DEF FromX, FromY, Across, Down, Turn,
       do_rot_90
  <2>3. CASE ~ l
    BY <2>1, <2>3, <1>1, <1>3, <1>4, <1>2, Zenon DEF FromX, FromY, Across, Down, Turn,
       do_rot_90
  <2> QED
    BY <2>2, <2>3
<1>9. CASE transform = "ROT_270"
  <2>1. /\ Swaps(transform) = TRUE /\ ~ TrimsRight(transform)
        /\ TrimsBottom(transform)
        /\ NewBlock(transform, a, w, h, x, y) = do_rot_270(a, w, h, x, y)
    BY <1>9 DEF Swaps, TrimsRight, TrimsBottom, NewBlock
  <2>2. CASE u
    BY <2>1, <2>2, <1>1, <1>3, <1>4, <1>2, Zenon DEF FromX, FromY, Across, Down, Turn,
       do_rot_270
  <2>3. CASE ~ u
    BY <2>1, <2>3, <1>1, <1>3, <1>4, <1>2, Zenon DEF FromX, FromY, Across, Down, Turn,
       do_rot_270
  <2> QED
    BY <2>2, <2>3
<1>10. CASE transform = "ROT_180"
  <2>1. /\ Swaps(transform) = FALSE /\ TrimsRight(transform)
        /\ TrimsBottom(transform)
        /\ NewBlock(transform, a, w, h, x, y) = do_rot_180(a, w, h, x, y)
    BY <1>10 DEF Swaps, TrimsRight, TrimsBottom, NewBlock
  <2>2. CASE l /\ u
    BY <2>1, <2>2, <1>1, <1>3, <1>4, <1>2, Zenon DEF FromX, FromY, Across, Down, Turn,
       do_rot_180, do_flip_h
  <2>3. CASE l /\ ~ u
    BY <2>1, <2>3, <1>1, <1>3, <1>4, <1>2, Zenon DEF FromX, FromY, Across, Down, Turn,
       do_rot_180, do_flip_h
  <2>4. CASE ~ l /\ u
    BY <2>1, <2>4, <1>1, <1>3, <1>4, <1>2, Zenon DEF FromX, FromY, Across, Down, Turn,
       do_rot_180, do_flip_h
  <2>5. CASE ~ l /\ ~ u
    BY <2>1, <2>5, <1>1, <1>3, <1>4, <1>2, Zenon DEF FromX, FromY, Across, Down, Turn,
       do_rot_180, do_flip_h
  <2> QED
    BY <2>2, <2>3, <2>4, <2>5
<1>11. CASE transform = "TRANSVERSE"
  <2>1. /\ Swaps(transform) = TRUE /\ TrimsRight(transform)
        /\ TrimsBottom(transform)
        /\ NewBlock(transform, a, w, h, x, y) = do_transverse(a, w, h, x, y)
    BY <1>11 DEF Swaps, TrimsRight, TrimsBottom, NewBlock
  <2>2. CASE l /\ u
    BY <2>1, <2>2, <1>1, <1>3, <1>4, <1>2, Zenon DEF FromX, FromY, Across, Down, Turn,
       do_transverse
  <2>3. CASE l /\ ~ u
    BY <2>1, <2>3, <1>1, <1>3, <1>4, <1>2, Zenon DEF FromX, FromY, Across, Down, Turn,
       do_transverse
  <2>4. CASE ~ l /\ u
    BY <2>1, <2>4, <1>1, <1>3, <1>4, <1>2, Zenon DEF FromX, FromY, Across, Down, Turn,
       do_transverse
  <2>5. CASE ~ l /\ ~ u
    BY <2>1, <2>5, <1>1, <1>3, <1>4, <1>2, Zenon DEF FromX, FromY, Across, Down, Turn,
       do_transverse
  <2> QED
    BY <2>2, <2>3, <2>4, <2>5
<1> QED
  BY <1>5, <1>6, <1>7, <1>8, <1>9, <1>10, <1>11, Zenon DEF Transformations
-----------------------------------------------------------------------------
(* The samples of the blocks.                                              *)

LEMMA SwappedPair == \A i, j : Swapped(<<i, j>>) = <<j, i>>
BY DEF Swapped

LEMMA MirroredX == \A n, i, j : MirrorX(n, <<i, j>>) = <<Turn(n, i), j>>
<1> TAKE n, i, j
<1>1. <<i, j>>[1] = i /\ <<i, j>>[2] = j
  BY SMT
<1>2. CASE i < n
  BY <1>1, <1>2, Zenon DEF MirrorX, Turn
<1>3. CASE ~ (i < n)
  BY <1>1, <1>3, Zenon DEF MirrorX, Turn
<1> QED
  BY <1>2, <1>3

LEMMA MirroredY == \A n, i, j : MirrorY(n, <<i, j>>) = <<i, Turn(n, j)>>
<1> TAKE n, i, j
<1>1. MirrorX(n, <<j, i>>) = <<Turn(n, j), i>>
  BY MirroredX, Zenon
<1>2. Swapped(<<Turn(n, j), i>>) = <<i, Turn(n, j)>>
  BY SwappedPair, Zenon
<1> QED
  BY SwappedPair, <1>1, <1>2, Zenon DEF MirrorY

(* The combination of flips and transposition takes each place of the      *)
(* output to the place the block there comes from.                         *)
Before(transform, n, k) == IF Swaps(transform) THEN k ELSE n

LEMMA CombinationMoves ==
    ASSUME NEW transform \in Transformations, NEW w, NEW h, NEW i, NEW j
    PROVE  LET n == Before(transform, w, h)
               k == Before(transform, h, w)
           IN  Combination(transform, w, h, <<i, j>>)
                   = <<FromX(transform, n, k, i, j), FromY(transform, n, k, i, j)>>
<1> DEFINE p == <<i, j>>
           n == Before(transform, w, h)
           k == Before(transform, h, w)
           r == <<FromX(transform, n, k, i, j), FromY(transform, n, k, i, j)>>
<1>1. CASE transform = "NONE"
  BY <1>1 DEF Swaps, TrimsRight, TrimsBottom, FromX, FromY, Across, Down, Before,
     Combination
<1>2. CASE transform = "FLIP_H"
  BY <1>2, MirroredX, Zenon DEF Swaps, TrimsRight, TrimsBottom, FromX, FromY, Across,
     Down, Before, Combination
<1>3. CASE transform = "FLIP_V"
  BY <1>3, MirroredY, Zenon DEF Swaps, TrimsRight, TrimsBottom, FromX, FromY, Across,
     Down, Before, Combination
<1>4. CASE transform = "TRANSPOSE"
  BY <1>4, SwappedPair, Zenon DEF Swaps, TrimsRight, TrimsBottom, FromX, FromY, Across,
     Down, Before, Combination
<1>5. CASE transform = "ROT_90"
  <2>1. Swaps(transform) /\ TrimsRight(transform) /\ ~ TrimsBottom(transform)
    BY <1>5, Zenon DEF Swaps, TrimsRight, TrimsBottom
  <2>2. Combination(transform, w, h, p) = Swapped(MirrorX(h, p))
    BY <1>5, Zenon DEF Combination
  <2>3. MirrorX(h, p) = <<Turn(h, i), j>>
    BY MirroredX, Zenon
  <2>4. Swapped(<<Turn(h, i), j>>) = <<j, Turn(h, i)>>
    BY SwappedPair, Zenon
  <2> QED
    BY <2>1, <2>2, <2>3, <2>4, Zenon DEF FromX, FromY, Across, Down, Before
<1>6. CASE transform = "ROT_270"
  <2>1. Swaps(transform) /\ ~ TrimsRight(transform) /\ TrimsBottom(transform)
    BY <1>6, Zenon DEF Swaps, TrimsRight, TrimsBottom
  <2>2. Combination(transform, w, h, p) = MirrorX(w, Swapped(p))
    BY <1>6, Zenon DEF Combination
  <2>3. Swapped(p) = <<j, i>>
    BY SwappedPair, Zenon
  <2>4. MirrorX(w, <<j, i>>) = <<Turn(w, j), i>>
    BY MirroredX, Zenon
  <2> QED
    BY <2>1, <2>2, <2>3, <2>4, Zenon DEF FromX, FromY, Across, Down, Before
<1>7. CASE transform = "ROT_180"
  <2>1. ~ Swaps(transform) /\ TrimsRight(transform) /\ TrimsBottom(transform)
    BY <1>7, Zenon DEF Swaps, TrimsRight, TrimsBottom
  <2>2. Combination(transform, w, h, p) = MirrorY(h, MirrorX(w, p))
    BY <1>7, Zenon DEF Combination
  <2>3. MirrorX(w, p) = <<Turn(w, i), j>>
    BY MirroredX, Zenon
  <2>4. MirrorY(h, <<Turn(w, i), j>>) = <<Turn(w, i), Turn(h, j)>>
    BY MirroredY, Zenon
  <2> QED
    BY <2>1, <2>2, <2>3, <2>4, Zenon DEF FromX, FromY, Across, Down, Before
<1>8. CASE transform = "TRANSVERSE"
  <2>1. r = <<Turn(w, j), Turn(h, i)>>
    BY <1>8, Zenon DEF FromX, FromY, Across, Down, Before, Swaps, TrimsRight, TrimsBottom
  <2>2. MirrorY(h, <<j, i>>) = <<j, Turn(h, i)>>
    BY MirroredY, Zenon
  <2>3. MirrorX(w, <<j, Turn(h, i)>>) = <<Turn(w, j), Turn(h, i)>>
    BY MirroredX, Zenon
  <2> QED
    BY <2>1, <1>8, SwappedPair, <2>2, <2>3, Zenon DEF Combination
<1> QED
  BY <1>1, <1>2, <1>3, <1>4, <1>5, <1>6, <1>7, <1>8, Zenon DEF Transformations

(* Mirroring samples mirrors the blocks and the samples in each of them.   *)
LEMMA TurnSamples ==
    ASSUME NEW n \in Nat, NEW x \in Nat, NEW a \in 0..DCTSIZE - 1
    PROVE  /\ x < n => Turn(n * DCTSIZE, x * DCTSIZE + a)
                           = Turn(n, x) * DCTSIZE + (DCTSIZE - 1 - a)
           /\ ~ (x < n) => Turn(n * DCTSIZE, x * DCTSIZE + a) = Turn(n, x) * DCTSIZE + a
           /\ Turn(n, x) \in Nat
<1> DEFINE d == DCTSIZE
<1> HIDE DEF d
<1>1. d \in Nat \ {0} /\ a \in 0..d - 1
  BY SetupAssumption DEF d
<1>2. d * n \in Nat /\ d * x \in Nat /\ d * n = n * d /\ d * x = x * d
  BY <1>1, Multiples
<1>3. CASE x < n
  BY <1>1, <1>2, <1>3, Multiples DEF Turn, d
<1>4. CASE ~ (x < n)
  BY <1>1, <1>4, Multiples, <1>2 DEF Turn, d
<1> QED
  BY <1>3, <1>4

LEMMA SampleOf ==
    ASSUME NEW m \in Blocks, NEW a \in 0..DCTSIZE - 1, NEW b \in 0..DCTSIZE - 1
    PROVE  LET q1 == IF m.h THEN DCTSIZE - 1 - a ELSE a
               q2 == IF m.v THEN DCTSIZE - 1 - b ELSE b
           IN  /\ m.t => Sample(m, <<a, b>>) = <<m.x * DCTSIZE + q2, m.y * DCTSIZE + q1>>
               /\ ~ m.t => Sample(m, <<a, b>>) = <<m.x * DCTSIZE + q1, m.y * DCTSIZE + q2>>
<1> DEFINE q1 == IF m.h THEN DCTSIZE - 1 - a ELSE a
           q2 == IF m.v THEN DCTSIZE - 1 - b ELSE b
           n1 == IF m.h THEN DCTSIZE ELSE 0
           n2 == IF m.v THEN DCTSIZE ELSE 0
           q == MirrorX(n1, MirrorY(n2, <<a, b>>))
           r == IF m.t THEN Swapped(q) ELSE q
<1>1. Sample(m, <<a, b>>) = <<m.x * DCTSIZE + r[1], m.y * DCTSIZE + r[2]>>
  BY Zenon DEF Sample
<1>2. Turn(n1, a) = q1
  BY SetupAssumption DEF Turn
<1>3. Turn(n2, b) = q2
  BY SetupAssumption DEF Turn
<1> HIDE DEF n1, n2, q1, q2
<1>4. q = <<q1, q2>>
  <2>1. MirrorX(n1, <<a, q2>>) = <<q1, q2>>
    BY MirroredX, <1>2, Zenon
  <2> QED
    BY <1>3, MirroredY, <2>1, Zenon
<1> HIDE DEF q
<1>5. \A e, f : <<e, f>>[1] = e /\ <<e, f>>[2] = f
  BY SMT
<1>6. CASE m.t
  <2>1. r = <<q2, q1>>
    BY <1>4, SwappedPair, <1>6, Zenon
  <2> HIDE DEF r
  <2>2. Sample(m, <<a, b>>) = <<m.x * DCTSIZE + q2, m.y * DCTSIZE + q1>>
    BY <1>1, <1>5, <2>1, Zenon
  <2> QED
    BY <1>6, <2>2, Zenon DEF q1, q2
<1>7. CASE ~ m.t
  <2>1. r = <<q1, q2>>
    BY <1>4, <1>7, Zenon
  <2> HIDE DEF r
  <2> QED
    BY <1>7, <1>1, <1>5, <2>1, Zenon DEF q1, q2
<1> QED
  BY <1>6, <1>7

SampleMoves(transform, w, h, x, y, a, b) ==
    Sample(Moved(transform, w, h, x, y), <<a, b>>)
        = <<FromX(transform, w * DCTSIZE, h * DCTSIZE, x * DCTSIZE + a, y * DCTSIZE + b),
            FromY(transform, w * DCTSIZE, h * DCTSIZE, x * DCTSIZE + a, y * DCTSIZE + b)>>

LEMMA SampleMoved ==
    ASSUME NEW transform \in Transformations, NEW w \in Nat, NEW h \in Nat,
           NEW x \in Nat, NEW y \in Nat, NEW a \in 0..DCTSIZE - 1, NEW b \in 0..DCTSIZE - 1
    PROVE  SampleMoves(transform, w, h, x, y, a, b)
<1> DEFINE d == DCTSIZE
           i == x * d + a
           j == y * d + b
           n == w * d
           k == h * d
           fx == FromX(transform, w, h, x, y)
           fy == FromY(transform, w, h, x, y)
           l == TrimsRight(transform) /\ x < w
           u == TrimsBottom(transform) /\ y < h
           q1 == IF l THEN d - 1 - a ELSE a
           q2 == IF u THEN d - 1 - b ELSE b
<1>1. /\ x < w => Turn(n, i) = Turn(w, x) * d + (d - 1 - a)
      /\ ~ (x < w) => Turn(n, i) = Turn(w, x) * d + a
      /\ Turn(w, x) \in Nat
  BY TurnSamples, ZenonT(60)
<1>2. /\ y < h => Turn(k, j) = Turn(h, y) * d + (d - 1 - b)
      /\ ~ (y < h) => Turn(k, j) = Turn(h, y) * d + b
      /\ Turn(h, y) \in Nat
  BY TurnSamples
<1> HIDE DEF d, i, j, n, k
<1>3. /\ Across(transform, n, i) = Across(transform, w, x) * d + q1
      /\ Across(transform, w, x) \in Nat
  BY <1>1 DEF Across, i
<1>4. /\ Down(transform, k, j) = Down(transform, h, y) * d + q2
      /\ Down(transform, h, y) \in Nat
  BY <1>2 DEF Down, j
<1>5. fx \in Nat /\ fy \in Nat
  BY <1>3, <1>4, Zenon DEF FromX, FromY
<1> DEFINE m == Moved(transform, w, h, x, y)
<1>6. m = Block(fx, fy, Swaps(transform), l, u)
  BY Zenon DEF Moved
<1>7. Swaps(transform) \in BOOLEAN /\ l \in BOOLEAN /\ u \in BOOLEAN
  BY DEF Swaps
<1> HIDE DEF fx, fy, l, u
<1>8. fx \in Int /\ fy \in Int
  BY <1>5
<1>9. /\ Swaps(transform) => Sample(Block(fx, fy, Swaps(transform), l, u), <<a, b>>)
                                  = <<fx * d + q2, fy * d + q1>>
      /\ ~ Swaps(transform) => Sample(Block(fx, fy, Swaps(transform), l, u), <<a, b>>)
                                    = <<fx * d + q1, fy * d + q2>>
  <2> DEFINE e == Block(fx, fy, Swaps(transform), l, u)
  <2>1. /\ e \in Blocks /\ e.x = fx /\ e.y = fy
        /\ e.t = Swaps(transform) /\ e.h = l /\ e.v = u
    <3> HIDE DEF l, u, fx, fy
    <3> QED
      BY <1>7, <1>8, Zenon DEF Block, Blocks
  <2> HIDE DEF e, q1, q2
  <2>2. /\ e.t => Sample(e, <<a, b>>) = <<e.x * DCTSIZE + q2, e.y * DCTSIZE + q1>>
        /\ ~ e.t => Sample(e, <<a, b>>) = <<e.x * DCTSIZE + q1, e.y * DCTSIZE + q2>>
    BY <2>1, SampleOf DEF d, q1, q2
  <2> QED
    BY <2>1, <2>2, Zenon DEF d, e
<1> HIDE DEF q1, q2
<1>10. CASE Swaps(transform)
  <2>1. fx * d + q2 = FromX(transform, n, k, i, j) /\ fy * d + q1 = FromY(transform, n, k, i, j)
    BY <1>3, <1>4, <1>10, Zenon DEF FromX, FromY, fx, fy
  <2> QED
    BY <1>6, <1>9, <1>10, <2>1, Zenon DEF SampleMoves, d, i, j, n, k
<1>11. CASE ~ Swaps(transform)
  <2>1. fx * d + q1 = FromX(transform, n, k, i, j) /\ fy * d + q2 = FromY(transform, n, k, i, j)
    BY <1>3, <1>4, <1>11, Zenon DEF FromX, FromY, fx, fy
  <2> QED
    BY <1>6, <1>9, <1>11, <2>1, Zenon DEF SampleMoves, d, i, j, n, k
<1> QED
  BY <1>10, <1>11
-----------------------------------------------------------------------------
(* The arrays: what is asked for from the source has room for the output.  *)

ArrayOf(rows, cols) == [0..rows - 1 -> [0..cols - 1 -> Blocks]]
OutRows(jb, c) == Turned(jb, PaddedHeight(jb.source, c), PaddedWidth(jb.source, c))
OutCols(jb, c) == Turned(jb, PaddedWidth(jb.source, c), PaddedHeight(jb.source, c))

PaddedCols(info, c) == jround_up(width_in_blocks(info, c), info.comps[c].h)
PaddedRows(info, c) == jround_up(height_in_blocks(info, c), info.comps[c].v)

LEMMA SourcePadding ==
    ASSUME NEW s, Sized(s), NEW c \in 1..Len(s.comps)
    PROVE  /\ PaddedCols(s, c) \in Nat /\ width_in_blocks(s, c) <= PaddedCols(s, c)
           /\ PaddedRows(s, c) \in Nat /\ height_in_blocks(s, c) <= PaddedRows(s, c)
           /\ s.comps[c].h \in Nat \ {0} /\ s.comps[c].v \in Nat \ {0}
           /\ \A k \in Nat : k * s.comps[c].v < height_in_blocks(s, c) =>
                  k * s.comps[c].v + s.comps[c].v <= PaddedRows(s, c)
<1>1. s.comps[c].h \in Nat \ {0} /\ s.comps[c].v \in Nat \ {0}
  BY SMT DEF Sized, MAX_SAMP_FACTOR
<1>2. width_in_blocks(s, c) \in Nat /\ height_in_blocks(s, c) \in Nat
  BY ComponentSizes, SMT
<1> QED
  BY <1>1, <1>2, RoundsUpToMultiple, Zenon DEF PaddedCols, PaddedRows

LEMMA OutputFits ==
    ASSUME NEW jb \in Jobs, Drawable(jb), LumaIsFull(jb),
           NEW c \in 1..Len(FinalOf(jb).comps)
    PROVE  LET f == FinalOf(jb)
           IN  /\ Sized(f)
               /\ PaddedCols(f, c) <= OutCols(jb, c) /\ OutCols(jb, c) \in Nat
               /\ PaddedRows(f, c) <= OutRows(jb, c) /\ OutRows(jb, c) \in Nat
               /\ c \in 1..Len(jb.source.comps)
               /\ c \in 1..WorkComponents(jb.source, jb.force_grayscale)
<1> DEFINE f == FinalOf(jb)
           s == jb.source
           k == KeptOf(jb)
<1>1. f \in Info /\ Len(f.comps) = Len(k.comps) /\ Geometry(jb, f, c)
  BY FinalGeometry, Zenon
<1>2. Sized(f) /\ Sized(k) /\ Sized(s) /\ jb.force_grayscale \in BOOLEAN
  BY <1>1, InfoIsSized, KeptShape, JobType, Zenon
<1>3. /\ c \in 1..Len(s.comps) /\ c \in 1..Len(k.comps) /\ c \in 1..Len(f.comps)
      /\ PaddedCols(k, c) <= PaddedCols(s, c)
      /\ PaddedRows(k, c) <= PaddedRows(s, c)
  BY <1>1, KeptFits, Zenon DEF PaddedCols, PaddedRows, PaddedWidth, PaddedHeight
<1>4. c \in 1..WorkComponents(s, jb.force_grayscale)
  BY KeptShape, <1>3 DEF WorkComponents
<1>5. /\ PaddedCols(s, c) \in Nat /\ PaddedRows(s, c) \in Nat
      /\ PaddedCols(k, c) \in Nat /\ PaddedRows(k, c) \in Nat
      /\ PaddedCols(f, c) \in Nat /\ PaddedRows(f, c) \in Nat
      /\ f.comps[c].h \in Nat \ {0} /\ f.comps[c].v \in Nat \ {0}
  BY <1>2, <1>3, SourcePadding, Zenon
<1>6. /\ width_in_blocks(f, c) \in Nat /\ height_in_blocks(f, c) \in Nat
      /\ width_in_blocks(k, c) \in Nat /\ height_in_blocks(k, c) \in Nat
  BY <1>2, <1>3, ComponentSizes
<1>7. \A n \in Nat \ {0} : \A a, b \in Nat : a <= b => jround_up(a, n) <= jround_up(b, n)
  BY RoundsUpToMultiple, Zenon
<1>8. PaddedCols(f, c) <= Turned(jb, PaddedCols(k, c), PaddedRows(k, c))
  BY <1>6, <1>1, <1>5, <1>7, Zenon DEF Turned, PaddedCols, Geometry, PaddedRows
<1>9. PaddedRows(f, c) <= Turned(jb, PaddedRows(k, c), PaddedCols(k, c))
  BY <1>6, <1>1, <1>5, <1>7, Zenon DEF Turned, PaddedRows, Geometry, PaddedCols
<1>10. /\ OutCols(jb, c) = Turned(jb, PaddedCols(s, c), PaddedRows(s, c))
       /\ OutRows(jb, c) = Turned(jb, PaddedRows(s, c), PaddedCols(s, c))
  BY Zenon DEF OutCols, OutRows, PaddedCols, PaddedRows, PaddedWidth, PaddedHeight
<1>11. /\ PaddedCols(f, c) <= OutCols(jb, c) /\ OutCols(jb, c) \in Nat
       /\ PaddedRows(f, c) <= OutRows(jb, c) /\ OutRows(jb, c) \in Nat
  <2> DEFINE a == PaddedCols(s, c)
             b == PaddedRows(s, c)
             d == PaddedCols(k, c)
             e == PaddedRows(k, c)
  <2>1. CASE Swaps(jb.transform)
    BY <1>8, <1>9, <1>10, <2>1, <1>3, <1>5 DEF Turned
  <2>2. CASE ~ Swaps(jb.transform)
    BY <1>8, <1>9, <1>10, <2>2, <1>3, <1>5 DEF Turned
  <2> QED
    BY <2>1, <2>2
<1> QED
  BY <1>2, <1>3, <1>4, <1>11, Zenon
-----------------------------------------------------------------------------
(* The inductive invariant.                                                *)

Stages == {"jtransform_request_workspace", "jpeg_read_coefficients",
           "jpeg_copy_critical_parameters", "jtransform_adjust_parameters",
           "jpeg_write_coefficients", "jcopy_markers_execute",
           "jtransform_execute_transformation", "done", "error"}
BeforeArrays == {"jtransform_request_workspace", "jpeg_read_coefficients"}
Looping == {"jtransform_execute_transformation", "done"}
Ready == {"jpeg_write_coefficients", "jcopy_markers_execute"} \cup Looping

StageInv ==
    /\ job \in Jobs /\ stage \in Stages /\ in_place \in BOOLEAN /\ blk_y \in Nat
    /\ stage \notin Looping => ci = 1 /\ blk_y = 0
    /\ stage # "jtransform_request_workspace" =>
         (in_place <=> job.transform \in {"NONE", "FLIP_H"})

SourceArrays ==
    IF stage \in BeforeArrays THEN src = << >>
    ELSE /\ DOMAIN src = 1..Len(job.source.comps)
         /\ \A c \in 1..Len(job.source.comps) :
              src[c] \in ArrayOf(PaddedHeight(job.source, c), PaddedWidth(job.source, c))

Workspaces ==
    IF in_place \/ stage = "jtransform_request_workspace" THEN dst = << >>
    ELSE /\ DOMAIN dst = 1..WorkComponents(job.source, job.force_grayscale)
         /\ \A c \in 1..WorkComponents(job.source, job.force_grayscale) :
              dst[c] \in ArrayOf(OutRows(job, c), OutCols(job, c))

Parameters ==
    /\ stage = "jtransform_adjust_parameters" => dstinfo = CopiedOf(job.source)
    /\ stage \in Ready => dstinfo = FinalOf(job) /\ Drawable(job)

Loops ==
    stage \in Ready =>
        /\ ci \in 1..Len(dstinfo.comps) + 1
        /\ ci <= Len(dstinfo.comps) => \E k \in Nat : blk_y = k * dstinfo.comps[ci].v
        /\ stage = "done" => job.transform = "NONE" \/ ci = Len(dstinfo.comps) + 1

(* The rows the loops have been over.                                      *)
Passed(c, y) == c < ci \/ (c = ci /\ y < blk_y)

SourceBlocks ==
    stage \notin BeforeArrays =>
        \A c \in 1..Len(job.source.comps) :
            \A y \in 0..PaddedHeight(job.source, c) - 1 :
                \A x \in 0..PaddedWidth(job.source, c) - 1 :
                    job.transform # "FLIP_H" \/ ~ Passed(c, y) => src[c][y][x] = At(x, y)

OutputBlocks ==
    stage \in Looping /\ job.transform # "NONE" =>
        \A c \in 1..Len(dstinfo.comps) :
            \A y \in 0..height_in_blocks(dstinfo, c) - 1 :
                \A x \in 0..width_in_blocks(dstinfo, c) - 1 :
                    Passed(c, y) =>
                        Output[c][y][x] = Moved(job.transform, WholeCols(dstinfo, c),
                                                WholeRows(dstinfo, c), x, y)

IndInv == /\ StageInv /\ SourceArrays /\ Workspaces /\ Parameters /\ Loops
          /\ SourceBlocks /\ OutputBlocks
-----------------------------------------------------------------------------
(* Blocks and arrays have their types, and every block read lies inside    *)
(* the source arrays.                                                      *)

LEMMA TurnInside ==
    ASSUME NEW n \in Nat, NEW k \in Nat, n <= k, NEW i \in 0..k - 1
    PROVE  Turn(n, i) \in 0..k - 1
BY DEF Turn

LEMMA FromInside ==
    ASSUME NEW jb \in Jobs, Drawable(jb), LumaIsFull(jb),
           NEW c \in 1..Len(FinalOf(jb).comps),
           NEW x \in 0..PaddedCols(FinalOf(jb), c) - 1,
           NEW y \in 0..PaddedRows(FinalOf(jb), c) - 1
    PROVE  LET f == FinalOf(jb)
               w == WholeCols(f, c)
               h == WholeRows(f, c)
           IN  /\ FromX(jb.transform, w, h, x, y) \in 0..PaddedWidth(jb.source, c) - 1
               /\ FromY(jb.transform, w, h, x, y) \in 0..PaddedHeight(jb.source, c) - 1
<1> DEFINE f == FinalOf(jb)
           s == jb.source
           w == WholeCols(f, c)
           h == WholeRows(f, c)
           across == Across(jb.transform, w, x)
           down == Down(jb.transform, h, y)
<1>1. /\ Sized(f) /\ c \in 1..Len(f.comps)
      /\ PaddedCols(f, c) <= OutCols(jb, c) /\ OutCols(jb, c) \in Nat
      /\ PaddedRows(f, c) <= OutRows(jb, c) /\ OutRows(jb, c) \in Nat
  BY OutputFits, Zenon
<1>2. /\ w \in Nat /\ w <= width_in_blocks(f, c) /\ width_in_blocks(f, c) \in Nat \ {0}
      /\ h \in Nat /\ h <= height_in_blocks(f, c) /\ height_in_blocks(f, c) \in Nat \ {0}
      /\ PaddedCols(f, c) \in Nat /\ width_in_blocks(f, c) <= PaddedCols(f, c)
      /\ PaddedRows(f, c) \in Nat /\ height_in_blocks(f, c) <= PaddedRows(f, c)
  BY <1>1, ComponentSizes, SourcePadding, Zenon
<1> DEFINE pc == PaddedCols(f, c)
           pr == PaddedRows(f, c)
<1>3. x \in 0..pc - 1 /\ y \in 0..pr - 1
  OBVIOUS
<1> HIDE DEF f, w, h, pc, pr
<1>4. w <= pc /\ h <= pr /\ pc \in Nat /\ pr \in Nat /\ w \in Nat /\ h \in Nat
  BY <1>2 DEF pc, pr
<1>5. across \in 0..pc - 1 /\ down \in 0..pr - 1
  BY <1>3, <1>4, TurnInside, Zenon DEF Across, Down
<1> HIDE DEF across, down
<1>6. across \in 0..OutCols(jb, c) - 1 /\ down \in 0..OutRows(jb, c) - 1
  <2>1. pc <= OutCols(jb, c) /\ pr <= OutRows(jb, c)
    BY <1>1, Zenon DEF pc, pr
  <2>2. \A a, b \in Nat : a <= b => 0..a - 1 \subseteq 0..b - 1
    OBVIOUS
  <2> QED
    BY <1>1, <1>4, <1>5, <2>1, <2>2, Zenon
<1> QED
  BY <1>6, Zenon DEF across, down, w, h, f, FromX, FromY, OutCols, OutRows, Turned

LEMMA MovedType ==
    ASSUME NEW jb \in Jobs, Drawable(jb), LumaIsFull(jb),
           NEW c \in 1..Len(FinalOf(jb).comps),
           NEW x \in 0..PaddedCols(FinalOf(jb), c) - 1,
           NEW y \in 0..PaddedRows(FinalOf(jb), c) - 1
    PROVE  LET f == FinalOf(jb)
           IN  Moved(jb.transform, WholeCols(f, c), WholeRows(f, c), x, y) \in Blocks
<1> DEFINE f == FinalOf(jb)
           w == WholeCols(f, c)
           h == WholeRows(f, c)
           i == FromX(jb.transform, w, h, x, y)
           j == FromY(jb.transform, w, h, x, y)
           t == Swaps(jb.transform)
           l == TrimsRight(jb.transform) /\ x < w
           u == TrimsBottom(jb.transform) /\ y < h
<1>1. i \in Int /\ j \in Int
  BY FromInside, SMT
<1>2. t \in BOOLEAN /\ l \in BOOLEAN /\ u \in BOOLEAN
  BY DEF Swaps
<1>3. Moved(jb.transform, w, h, x, y) = Block(i, j, t, l, u)
  BY Zenon DEF Moved
<1> HIDE DEF i, j, t, l, u
<1>4. Block(i, j, t, l, u) \in Blocks
  BY <1>1, <1>2, Zenon DEF Block, Blocks
<1> QED
  BY <1>3, <1>4, Zenon

LEMMA AtType == \A x, y \in Int : At(x, y) \in Blocks
BY DEF At, Blocks

LEMMA NewArrayType == \A rows, cols \in Nat : NewArray(rows, cols) \in ArrayOf(rows, cols)
<1> HIDE DEF Garbage
<1> QED
  BY AtType DEF NewArray, ArrayOf, Garbage
-----------------------------------------------------------------------------
(* One turn of the loop.                                                   *)

RowDue == /\ Executing /\ job.transform # "NONE"
          /\ ci <= Len(dstinfo.comps) /\ blk_y < height_in_blocks(dstinfo, ci)

LEMMA AtRow ==
    ASSUME IndInv, LumaIsFull(job), RowDue
    PROVE  /\ job \in Jobs /\ Drawable(job) /\ dstinfo = FinalOf(job) /\ Sized(dstinfo)
           /\ job.transform \in Transformations \ {"NONE"}
           /\ ci \in 1..Len(dstinfo.comps) /\ ci \in 1..Len(job.source.comps)
           /\ ci \in 1..WorkComponents(job.source, job.force_grayscale)
           /\ blk_y \in Nat /\ dstinfo.comps[ci].v \in Nat \ {0}
           /\ blk_y + dstinfo.comps[ci].v <= PaddedRows(dstinfo, ci)
           /\ PaddedRows(dstinfo, ci) \in Nat /\ PaddedCols(dstinfo, ci) \in Nat
           /\ width_in_blocks(dstinfo, ci) \in Nat \ {0}
           /\ height_in_blocks(dstinfo, ci) \in Nat \ {0}
           /\ WholeCols(dstinfo, ci) \in Nat
           /\ WholeCols(dstinfo, ci) <= width_in_blocks(dstinfo, ci)
           /\ WholeRows(dstinfo, ci) \in Nat
           /\ WholeRows(dstinfo, ci) <= height_in_blocks(dstinfo, ci)
           /\ width_in_blocks(dstinfo, ci) <= PaddedCols(dstinfo, ci)
           /\ height_in_blocks(dstinfo, ci) <= PaddedRows(dstinfo, ci)
<1>1. /\ job \in Jobs /\ Drawable(job) /\ dstinfo = FinalOf(job) /\ blk_y \in Nat
      /\ ci \in 1..Len(dstinfo.comps) + 1 /\ ci <= Len(dstinfo.comps)
      /\ \E k \in Nat : blk_y = k * dstinfo.comps[ci].v
  BY Zenon DEF IndInv, StageInv, Parameters, Loops, RowDue, Executing, Ready, Looping,
     BeforeArrays
<1>2. dstinfo \in Info /\ Sized(dstinfo) /\ Len(dstinfo.comps) \in Nat \ {0}
  BY <1>1, FinalGeometry, InfoIsSized, Zenon DEF Sized
<1>3. ci \in 1..Len(dstinfo.comps)
  BY <1>1, <1>2
<1>4. /\ ci \in 1..Len(job.source.comps)
      /\ ci \in 1..WorkComponents(job.source, job.force_grayscale)
  BY <1>1, <1>3, OutputFits, Zenon
<1>5. /\ PaddedRows(dstinfo, ci) \in Nat /\ PaddedCols(dstinfo, ci) \in Nat
      /\ dstinfo.comps[ci].v \in Nat \ {0}
      /\ width_in_blocks(dstinfo, ci) <= PaddedCols(dstinfo, ci)
      /\ height_in_blocks(dstinfo, ci) <= PaddedRows(dstinfo, ci)
      /\ \A k \in Nat : k * dstinfo.comps[ci].v < height_in_blocks(dstinfo, ci) =>
            k * dstinfo.comps[ci].v + dstinfo.comps[ci].v <= PaddedRows(dstinfo, ci)
  BY <1>2, <1>3, SourcePadding, Zenon
<1>6. /\ width_in_blocks(dstinfo, ci) \in Nat \ {0}
      /\ height_in_blocks(dstinfo, ci) \in Nat \ {0}
      /\ WholeCols(dstinfo, ci) \in Nat
      /\ WholeCols(dstinfo, ci) <= width_in_blocks(dstinfo, ci)
      /\ WholeRows(dstinfo, ci) \in Nat
      /\ WholeRows(dstinfo, ci) <= height_in_blocks(dstinfo, ci)
  BY <1>2, <1>3, ComponentSizes, Zenon
<1> QED
  BY <1>1, <1>2, <1>3, JobsAssumption, <1>4, <1>5, <1>6, Zenon DEF RowDue, Transformations

LEMMA Loop ==
    ASSUME IndInv, LumaIsFull(job), RowDue
    PROVE  /\ comp_width(ci) = WholeCols(dstinfo, ci)
           /\ comp_height(ci) = WholeRows(dstinfo, ci)
           /\ RowGroup = blk_y..blk_y + dstinfo.comps[ci].v - 1
           /\ RowGroup \subseteq 0..PaddedRows(dstinfo, ci) - 1
           /\ \A y \in RowGroup : ~ (y < blk_y)
           /\ Columns(ci) \subseteq 0..PaddedCols(dstinfo, ci) - 1
           /\ job.transform = "FLIP_H" => Columns(ci) = 0..WholeCols(dstinfo, ci) - 1
           /\ job.transform # "FLIP_H" =>
                0..width_in_blocks(dstinfo, ci) - 1 \subseteq Columns(ci)
<1> DEFINE v == dstinfo.comps[ci].v
           w == WholeCols(dstinfo, ci)
           W == width_in_blocks(dstinfo, ci)
           pc == PaddedCols(dstinfo, ci)
           pr == PaddedRows(dstinfo, ci)
<1>1. comp_width(ci) = w /\ comp_height(ci) = WholeRows(dstinfo, ci)
  BY Zenon DEF comp_width, comp_height, WholeCols, WholeRows, WholeBlocks
<1>2. RowGroup = blk_y..blk_y + v - 1
  BY Zenon DEF RowGroup
<1>3. /\ blk_y \in Nat /\ v \in Nat \ {0} /\ blk_y + v <= pr /\ pr \in Nat
      /\ w \in Nat /\ w <= W /\ W \in Nat \ {0} /\ W <= pc /\ pc \in Nat
  BY AtRow, Zenon
<1> HIDE DEF v, w, W, pc, pr
<1>4. /\ blk_y..blk_y + v - 1 \subseteq 0..pr - 1
      /\ \A y \in blk_y..blk_y + v - 1 : ~ (y < blk_y)
  BY <1>3
<1>5. 0..w - 1 \subseteq 0..W - 1 /\ 0..W - 1 \subseteq 0..pc - 1
      /\ 0..w - 1 \subseteq 0..pc - 1 /\ 0..pc - 1 \subseteq 0..pc - 1
  BY <1>3
<1>6. CASE job.transform = "FLIP_H"
  BY <1>1, <1>6, <1>2, <1>4, <1>5, Zenon DEF Columns, v, w, W, pc, pr
<1>7. CASE job.transform # "FLIP_H" /\ Swaps(job.transform)
  BY <1>7, <1>1, <1>2, <1>4, <1>5, Zenon DEF Columns, pc, PaddedCols, v, w, W, pr
<1>8. CASE job.transform # "FLIP_H" /\ ~ Swaps(job.transform)
  BY <1>8, <1>1, <1>2, <1>4, <1>5, Zenon DEF Columns, W, v, w, pc, pr
<1> QED
  BY <1>6, <1>7, <1>8

(* The blocks that are made are the source's, moved.                       *)
LEMMA RowMoved ==
    ASSUME IndInv, LumaIsFull(job), RowDue, NEW y \in RowGroup, NEW x \in Columns(ci)
    PROVE  LET m == Moved(job.transform, WholeCols(dstinfo, ci), WholeRows(dstinfo, ci), x, y)
           IN  /\ NewBlock(job.transform, src[ci], comp_width(ci), comp_height(ci), x, y) = m
               /\ m \in Blocks
<1> DEFINE w == WholeCols(dstinfo, ci)
           h == WholeRows(dstinfo, ci)
           i == FromX(job.transform, w, h, x, y)
           j == FromY(job.transform, w, h, x, y)
<1>1. /\ job \in Jobs /\ Drawable(job) /\ dstinfo = FinalOf(job)
      /\ job.transform \in Transformations \ {"NONE"}
      /\ ci \in 1..Len(dstinfo.comps) /\ ci \in 1..Len(job.source.comps)
  BY AtRow, Zenon
<1>2. /\ comp_width(ci) = w /\ comp_height(ci) = h
      /\ x \in 0..PaddedCols(dstinfo, ci) - 1 /\ y \in 0..PaddedRows(dstinfo, ci) - 1
      /\ ~ (y < blk_y)
  BY Loop, Zenon
<1>3. /\ i \in 0..PaddedWidth(job.source, ci) - 1 /\ j \in 0..PaddedHeight(job.source, ci) - 1
      /\ Moved(job.transform, w, h, x, y) \in Blocks
  BY <1>1, <1>2, FromInside, MovedType, Zenon
<1>4. job.transform = "FLIP_H" => ~ Passed(ci, j)
  BY <1>1, <1>2 DEF Passed, FromY, Down, Swaps, TrimsBottom
<1>5. NewBlock(job.transform, src[ci], w, h, x, y) = Moved(job.transform, w, h, x, y)
  <2> DEFINE tr == job.transform
             a == src[ci]
             b == a[FromY(tr, w, h, x, y)][FromX(tr, w, h, x, y)]
  <2>1. b = At(FromX(tr, w, h, x, y), FromY(tr, w, h, x, y))
    BY <1>1, <1>3, <1>4, Zenon DEF IndInv, SourceBlocks, RowDue, Executing, BeforeArrays
  <2>2. tr \in Transformations \ {"NONE"}
    BY <1>1, Zenon
  <2> HIDE DEF tr, a, w, h
  <2>3. NewBlock(tr, a, w, h, x, y) = Moved(tr, w, h, x, y)
    BY <2>1, <2>2, NewBlockMoved
  <2> QED
    BY <2>3, Zenon DEF tr, a
<1> QED
  BY <1>2, <1>3, <1>5, Zenon
(* The array after the turn: its type, and every block of it.              *)
LEMMA FilledBlocks ==
    ASSUME IndInv, LumaIsFull(job), RowDue, NEW rows, NEW cols, NEW a \in ArrayOf(rows, cols)
    PROVE  LET new == Filled(a, src[ci])
           IN  /\ new \in ArrayOf(rows, cols)
               /\ \A y \in 0..rows - 1 : \A x \in 0..cols - 1 :
                    /\ y \in RowGroup /\ x \in Columns(ci) =>
                         new[y][x] = Moved(job.transform, WholeCols(dstinfo, ci),
                                           WholeRows(dstinfo, ci), x, y)
                    /\ ~ (y \in RowGroup /\ x \in Columns(ci)) => new[y][x] = a[y][x]
<1> DEFINE new == Filled(a, src[ci])
           Made(x, y) == NewBlock(job.transform, src[ci], comp_width(ci), comp_height(ci),
                                  x, y)
<1>1. /\ DOMAIN a = 0..rows - 1
      /\ \A y \in 0..rows - 1 : a[y] \in [0..cols - 1 -> Blocks]
  BY Zenon DEF ArrayOf
<1>2. new = [y \in 0..rows - 1 |->
                IF y \notin RowGroup THEN a[y]
                ELSE [x \in 0..cols - 1 |->
                         IF x \in Columns(ci) THEN Made(x, y) ELSE a[y][x]]]
  BY <1>1, Zenon DEF Filled
<1>3. \A y \in RowGroup : \A x \in Columns(ci) :
         /\ Made(x, y) = Moved(job.transform, WholeCols(dstinfo, ci),
                               WholeRows(dstinfo, ci), x, y)
         /\ Made(x, y) \in Blocks
  BY RowMoved, Zenon
<1> HIDE DEF new, Made
<1>4. ASSUME NEW y \in 0..rows - 1
      PROVE  /\ new[y] \in [0..cols - 1 -> Blocks]
             /\ \A x \in 0..cols - 1 :
                  /\ y \in RowGroup /\ x \in Columns(ci) => new[y][x] = Made(x, y)
                  /\ ~ (y \in RowGroup /\ x \in Columns(ci)) => new[y][x] = a[y][x]
  <2>1. CASE y \notin RowGroup
    BY <1>2, <2>1, <1>1, Zenon
  <2>2. CASE y \in RowGroup
    BY <1>2, <2>2, <1>1, <1>3, Zenon
  <2> QED
    BY <2>1, <2>2
<1> QED
  BY <1>3, <1>4, <1>2, Zenon DEF new, ArrayOf

LEMMA InPlaceMoved ==
    ASSUME NEW transform, NEW w, NEW h, NEW x, NEW y,
           transform = "NONE" \/ (transform = "FLIP_H" /\ ~ (x < w))
    PROVE  Moved(transform, w, h, x, y) = At(x, y)
<1>1. /\ ~ Swaps(transform) /\ ~ TrimsBottom(transform)
      /\ ~ (TrimsRight(transform) /\ x < w)
  BY Zenon DEF Swaps, TrimsBottom, TrimsRight
<1>2. /\ Swaps(transform) = FALSE /\ (TrimsBottom(transform) /\ y < h) = FALSE
      /\ (TrimsRight(transform) /\ x < w) = FALSE
  BY <1>1 DEF Swaps
<1>3. FromX(transform, w, h, x, y) = x /\ FromY(transform, w, h, x, y) = y
  BY <1>1, Zenon DEF FromX, FromY, Across, Down, Turn
<1> QED
  BY <1>2, <1>3, Zenon DEF Block, At, Moved

(* The arrays the loops write and the encoder reads.                       *)
LEMMA OutputArrays ==
    ASSUME IndInv, LumaIsFull(job), stage \in Ready, NEW c \in 1..Len(dstinfo.comps)
    PROVE  /\ Output[c] \in ArrayOf(OutRows(job, c), OutCols(job, c))
           /\ c \in 1..Len(job.source.comps) /\ Sized(dstinfo)
           /\ in_place => ~ Swaps(job.transform)
           /\ 0..width_in_blocks(dstinfo, c) - 1 \subseteq 0..OutCols(job, c) - 1
           /\ 0..height_in_blocks(dstinfo, c) - 1 \subseteq 0..OutRows(job, c) - 1
           /\ 0..PaddedCols(dstinfo, c) - 1 \subseteq 0..OutCols(job, c) - 1
           /\ 0..PaddedRows(dstinfo, c) - 1 \subseteq 0..OutRows(job, c) - 1
           /\ OutCols(job, c) \in Nat /\ OutRows(job, c) \in Nat
<1>1. /\ job \in Jobs /\ Drawable(job) /\ dstinfo = FinalOf(job)
      /\ stage \notin BeforeArrays /\ stage # "jtransform_request_workspace"
      /\ in_place <=> job.transform \in {"NONE", "FLIP_H"}
  BY Zenon DEF IndInv, StageInv, Parameters, Ready, Looping, BeforeArrays
<1>2. /\ Sized(dstinfo) /\ c \in 1..Len(job.source.comps)
      /\ c \in 1..WorkComponents(job.source, job.force_grayscale)
      /\ PaddedCols(dstinfo, c) <= OutCols(job, c) /\ OutCols(job, c) \in Nat
      /\ PaddedRows(dstinfo, c) <= OutRows(job, c) /\ OutRows(job, c) \in Nat
  BY <1>1, OutputFits, Zenon
<1>3. /\ width_in_blocks(dstinfo, c) <= PaddedCols(dstinfo, c)
      /\ height_in_blocks(dstinfo, c) <= PaddedRows(dstinfo, c)
      /\ PaddedCols(dstinfo, c) \in Nat /\ PaddedRows(dstinfo, c) \in Nat
      /\ width_in_blocks(dstinfo, c) \in Nat \ {0}
      /\ height_in_blocks(dstinfo, c) \in Nat \ {0}
  BY <1>2, SourcePadding, ComponentSizes, Zenon
<1>4. \A a, b, e \in Nat : a <= b /\ b <= e =>
         0..a - 1 \subseteq 0..e - 1 /\ 0..b - 1 \subseteq 0..e - 1
  OBVIOUS
<1>5. in_place => ~ Swaps(job.transform)
  BY <1>1, Zenon DEF Swaps
<1>6. Output[c] \in ArrayOf(OutRows(job, c), OutCols(job, c))
  BY <1>1, <1>2, <1>5 DEF IndInv, SourceArrays, OutRows, OutCols, Turned, Output,
     Workspaces
<1> QED
  BY <1>2, <1>3, <1>4, <1>5, <1>6
-----------------------------------------------------------------------------
(* Every step keeps the invariant.                                         *)

LEMMA InitInd == Init => IndInv
<1> SUFFICES ASSUME Init PROVE IndInv
  OBVIOUS
<1>1. /\ job \in Jobs /\ stage = "jtransform_request_workspace" /\ in_place = FALSE
      /\ src = << >> /\ dst = << >> /\ ci = 1 /\ blk_y = 0
  BY Zenon DEF Init
<1>2. /\ stage \in Stages /\ stage \in BeforeArrays /\ stage \notin Looping
      /\ stage \notin Ready /\ stage # "jtransform_adjust_parameters"
  BY <1>1, Zenon DEF Stages, BeforeArrays, Looping, Ready
<1>3. StageInv
  BY <1>1, <1>2 DEF StageInv
<1> QED
  BY <1>3, <1>1, <1>2, Zenon DEF IndInv, SourceArrays, Workspaces, Parameters, Loops,
     SourceBlocks, OutputBlocks

LEMMA RequestInd == IndInv /\ jtransform_request_workspace => IndInv'
<1> SUFFICES ASSUME IndInv, jtransform_request_workspace PROVE IndInv'
  OBVIOUS
<1> DEFINE n == WorkComponents(job.source, job.force_grayscale)
           mirrored == job.transform \in {"NONE", "FLIP_H"}
<1>1. /\ stage = "jtransform_request_workspace" /\ stage' = "jpeg_read_coefficients"
      /\ (in_place' = mirrored) /\ job' = job /\ src' = src /\ dstinfo' = dstinfo
      /\ ci' = ci /\ blk_y' = blk_y
      /\ dst' = IF mirrored THEN << >>
                ELSE [c \in 1..n |-> Workspace(job.source, c, job.transform)]
  BY Zenon DEF jtransform_request_workspace
<1>2. /\ stage' \in Stages /\ stage' \in BeforeArrays /\ stage' \notin Looping
      /\ stage' \notin Ready /\ stage' # "jtransform_adjust_parameters"
      /\ stage \in BeforeArrays /\ stage \notin Looping
  BY <1>1, Zenon DEF Stages, BeforeArrays, Looping, Ready
<1>3. /\ job \in Jobs /\ blk_y \in Nat /\ ci = 1 /\ blk_y = 0 /\ src = << >>
  BY <1>2, Zenon DEF IndInv, StageInv, SourceArrays
<1>4. mirrored \in BOOLEAN
  OBVIOUS
<1> HIDE DEF mirrored
<1>5. StageInv'
  BY <1>1, <1>4, <1>2, <1>3 DEF StageInv, mirrored
<1>6. Workspaces'
  <2>1. CASE mirrored
    BY <1>1, <2>1, Zenon DEF Workspaces
  <2>2. CASE ~ mirrored
    <3>1. Sized(job.source) /\ Len(job.source.comps) \in Nat \ {0}
      BY <1>3, JobType, Zenon DEF Sized
    <3>2. \A c \in 1..n : c \in 1..Len(job.source.comps)
      BY <3>1 DEF WorkComponents
    <3>3. ASSUME NEW c \in 1..n
          PROVE  Workspace(job.source, c, job.transform)
                     \in ArrayOf(OutRows(job, c), OutCols(job, c))
      BY <3>1, <3>2, SourcePadding, NewArrayType, Zenon DEF PaddedCols, PaddedRows,
         PaddedWidth, PaddedHeight, Workspace, OutRows, OutCols, Turned
    <3> HIDE DEF n
    <3>4. /\ DOMAIN dst' = 1..WorkComponents(job'.source, job'.force_grayscale)
          /\ \A c \in 1..WorkComponents(job'.source, job'.force_grayscale) :
                dst'[c] \in ArrayOf(OutRows(job', c), OutCols(job', c))
      BY <1>1, <3>3, <2>2, Zenon DEF n
    <3> QED
      BY <1>1, <2>2, <3>4, Zenon DEF Workspaces
  <2> QED
    BY <2>1, <2>2
<1> QED
  BY <1>5, <1>1, <1>2, <1>3, <1>6, Zenon DEF IndInv, SourceArrays, Parameters, Loops,
     SourceBlocks, OutputBlocks

LEMMA ReadInd == IndInv /\ jpeg_read_coefficients => IndInv'
<1> SUFFICES ASSUME IndInv, jpeg_read_coefficients PROVE IndInv'
  OBVIOUS
<1>1. /\ stage = "jpeg_read_coefficients" /\ stage' = "jpeg_copy_critical_parameters"
      /\ src' = [c \in 1..Len(job.source.comps) |->
                    [y \in 0..PaddedHeight(job.source, c) - 1 |->
                        [x \in 0..PaddedWidth(job.source, c) - 1 |-> At(x, y)]]]
      /\ in_place' = in_place /\ job' = job /\ dst' = dst /\ dstinfo' = dstinfo
      /\ ci' = ci /\ blk_y' = blk_y
  BY Zenon DEF jpeg_read_coefficients
<1>2. /\ stage' \in Stages /\ stage' \notin BeforeArrays /\ stage' \notin Looping
      /\ stage' \notin Ready /\ stage' # "jtransform_adjust_parameters"
      /\ stage' # "jtransform_request_workspace" /\ stage # "jtransform_request_workspace"
      /\ stage \notin Looping
  BY <1>1, Zenon DEF Stages, BeforeArrays, Looping, Ready
<1>3. SourceArrays'
  <2>1. ASSUME NEW h, NEW w
        PROVE  [y \in 0..h - 1 |-> [x \in 0..w - 1 |-> At(x, y)]] \in ArrayOf(h, w)
    BY AtType DEF ArrayOf
  <2> QED
    BY <1>1, <1>2, <2>1, Zenon DEF SourceArrays
<1>4. SourceBlocks'
  BY <1>1, <1>2, Zenon DEF SourceBlocks
<1> QED
  BY <1>1, <1>2, <1>3, <1>4, Zenon DEF IndInv, StageInv, Workspaces, Parameters, Loops,
     OutputBlocks
(* Between reading the file and transforming it the arrays stay as they    *)
(* are.                                                                    *)
LEMMA ArraysKept ==
    ASSUME IndInv, stage \notin BeforeArrays, stage' \notin BeforeArrays, stage' \in Stages,
           stage \notin Looping,
           job' = job, src' = src, dst' = dst, in_place' = in_place, ci' = ci,
           blk_y' = blk_y
    PROVE  /\ StageInv' /\ SourceArrays' /\ Workspaces' /\ SourceBlocks'
           /\ ci' = 1 /\ blk_y' = 0
<1>1. /\ stage # "jtransform_request_workspace" /\ stage' # "jtransform_request_workspace"
      /\ ci = 1 /\ blk_y = 0
  BY Zenon DEF IndInv, StageInv, BeforeArrays
<1>2. SourceBlocks'
  <2>1. \A c, y : Passed(c, y)' <=> Passed(c, y)
    BY Zenon DEF Passed
  <2>2. ASSUME NEW c \in 1..Len(job.source.comps),
             NEW y \in 0..PaddedHeight(job.source, c) - 1,
             NEW x \in 0..PaddedWidth(job.source, c) - 1,
             job.transform # "FLIP_H" \/ ~ Passed(c, y)'
      PROVE  src[c][y][x] = At(x, y)
    BY <2>1, <2>2, Zenon DEF SourceBlocks, IndInv
  <2>3. SUFFICES ASSUME NEW c \in 1..Len(job'.source.comps),
                      NEW y \in 0..PaddedHeight(job'.source, c) - 1,
                      NEW x \in 0..PaddedWidth(job'.source, c) - 1,
                      job'.transform # "FLIP_H" \/ ~ Passed(c, y)'
               PROVE  src'[c][y][x] = At(x, y)
    BY Zenon DEF SourceBlocks
  <2> QED
    BY <2>2, <2>3, Zenon
<1> QED
  BY <1>1, <1>2, Zenon DEF IndInv, StageInv, SourceArrays, Workspaces

LEMMA FirstRow ==
    ASSUME NEW jb \in Jobs
    PROVE  /\ 1 \in 1..Len(FinalOf(jb).comps) + 1
           /\ 1 <= Len(FinalOf(jb).comps) =>
                \E k \in Nat : 0 = k * FinalOf(jb).comps[1].v
<1>1. Sized(FinalOf(jb)) /\ Len(FinalOf(jb).comps) \in Nat \ {0}
  BY FinalGeometry, InfoIsSized, Zenon DEF Sized
<1>2. ASSUME 1 <= Len(FinalOf(jb).comps) PROVE \E k \in Nat : 0 = k * FinalOf(jb).comps[1].v
  BY <1>1, SourcePadding
<1> QED
  BY <1>1, <1>2

LEMMA CopyInd == IndInv /\ jpeg_copy_critical_parameters => IndInv'
<1> SUFFICES ASSUME IndInv, jpeg_copy_critical_parameters PROVE IndInv'
  OBVIOUS
<1>1. /\ stage = "jpeg_copy_critical_parameters" /\ stage' = "jtransform_adjust_parameters"
      /\ dstinfo' = CopiedOf(job.source)
      /\ job' = job /\ src' = src /\ dst' = dst /\ in_place' = in_place /\ ci' = ci
      /\ blk_y' = blk_y
  BY Zenon DEF jpeg_copy_critical_parameters, CopiedOf
<1>2. /\ stage' \in Stages /\ stage' \notin BeforeArrays /\ stage' \notin Looping
      /\ stage' \notin Ready /\ stage \notin BeforeArrays /\ stage \notin Looping
  BY <1>1, Zenon DEF Stages, BeforeArrays, Looping, Ready
<1> QED
  BY <1>1, <1>2, ArraysKept, Zenon DEF IndInv, Parameters, Loops, OutputBlocks

LEMMA AdjustInd == IndInv /\ jtransform_adjust_parameters => IndInv'
<1> SUFFICES ASSUME IndInv, jtransform_adjust_parameters PROVE IndInv'
  OBVIOUS
<1>1. /\ stage = "jtransform_adjust_parameters"
      /\ \/ stage' = "error"
         \/ /\ job.force_grayscale /\ CanBeGray(dstinfo)
            /\ dstinfo' = Adjusted(Grayscale(dstinfo))
            /\ stage' = "jpeg_write_coefficients"
         \/ /\ ~ job.force_grayscale
            /\ dstinfo' = Adjusted(dstinfo)
            /\ stage' = "jpeg_write_coefficients"
      /\ job' = job /\ src' = src /\ dst' = dst /\ in_place' = in_place /\ ci' = ci
      /\ blk_y' = blk_y
  BY Zenon DEF jtransform_adjust_parameters
<1>2. /\ stage' \in Stages /\ stage' \notin BeforeArrays /\ stage' \notin Looping
      /\ stage' # "jtransform_adjust_parameters"
      /\ stage' \in Ready => stage' # "error"
      /\ stage' # "done"
      /\ stage \notin BeforeArrays /\ stage \notin Looping
  BY <1>1, Zenon DEF Stages, BeforeArrays, Looping, Ready
<1>3. StageInv' /\ SourceArrays' /\ Workspaces' /\ SourceBlocks' /\ ci' = 1 /\ blk_y' = 0
  BY <1>1, <1>2, ArraysKept, Zenon
<1>4. job \in Jobs /\ dstinfo = CopiedOf(job.source)
  BY <1>1, Zenon DEF IndInv, StageInv, Parameters
<1>5. Parameters'
  BY <1>2, <1>1, <1>4 DEF Parameters, Adjusted, FinalOf, CorrectedOf, BaseOf, Drawable
<1>6. Loops'
  <2>1. SUFFICES ASSUME stage' \in Ready PROVE Loops'
    BY Zenon DEF Loops
  <2> QED
    BY <1>2, <1>3, <1>4, <1>1, <1>5, <2>1, FirstRow, Zenon DEF Loops, Parameters
<1> QED
  BY <1>3, <1>5, <1>6, <1>2, Zenon DEF IndInv, OutputBlocks

LEMMA WriteInd ==
    IndInv /\ (jpeg_write_coefficients \/ jcopy_markers_execute) => IndInv'
<1> SUFFICES ASSUME IndInv, jpeg_write_coefficients \/ jcopy_markers_execute PROVE IndInv'
  OBVIOUS
<1>1. /\ \/ /\ stage = "jpeg_write_coefficients" /\ stage' = "jcopy_markers_execute"
         \/ /\ stage = "jcopy_markers_execute"
            /\ stage' = "jtransform_execute_transformation"
      /\ job' = job /\ src' = src /\ dst' = dst /\ in_place' = in_place /\ ci' = ci
      /\ blk_y' = blk_y /\ dstinfo' = dstinfo
  BY Zenon DEF jpeg_write_coefficients, jcopy_markers_execute
<1>2. /\ stage' \in Stages /\ stage' \notin BeforeArrays /\ stage' \in Ready
      /\ stage' # "jtransform_adjust_parameters" /\ stage' # "done"
      /\ stage \notin BeforeArrays /\ stage \notin Looping /\ stage \in Ready
  BY <1>1, Zenon DEF Stages, BeforeArrays, Looping, Ready
<1>3. StageInv' /\ SourceArrays' /\ Workspaces' /\ SourceBlocks' /\ ci' = 1 /\ blk_y' = 0
  BY <1>1, <1>2, ArraysKept, Zenon
<1>4. OutputBlocks'
  BY <1>1, <1>3 DEF OutputBlocks, Passed
<1> QED
  BY <1>3, <1>1, <1>2, <1>4, Zenon DEF IndInv, Parameters, Loops

LEMMA ExecutedInd == IndInv /\ Executed => IndInv'
<1> SUFFICES ASSUME IndInv, Executed PROVE IndInv'
  OBVIOUS
<1>1. /\ stage = "jtransform_execute_transformation" /\ stage' = "done"
      /\ job.transform = "NONE" \/ ci > Len(dstinfo.comps)
      /\ job' = job /\ src' = src /\ dst' = dst /\ in_place' = in_place /\ ci' = ci
      /\ blk_y' = blk_y /\ dstinfo' = dstinfo
  BY Zenon DEF Executed, Executing
<1>2. /\ stage' \in Stages /\ stage' \notin BeforeArrays /\ stage' \in Ready
      /\ stage' # "jtransform_adjust_parameters" /\ stage' \in Looping
      /\ stage' # "jtransform_request_workspace"
      /\ stage # "jtransform_request_workspace"
      /\ stage \notin BeforeArrays /\ stage \in Looping /\ stage \in Ready
  BY <1>1, Zenon DEF Stages, BeforeArrays, Looping, Ready
<1>3. SourceBlocks' /\ OutputBlocks'
  <2>1. SourceBlocks /\ OutputBlocks
    BY Zenon DEF IndInv
  <2>2. \A c, y : Passed(c, y)' <=> Passed(c, y)
    BY <1>1, Zenon DEF Passed
  <2>3. ASSUME NEW c \in 1..Len(job.source.comps),
             NEW y \in 0..PaddedHeight(job.source, c) - 1,
             NEW x \in 0..PaddedWidth(job.source, c) - 1,
             job.transform # "FLIP_H" \/ ~ Passed(c, y)'
      PROVE  src[c][y][x] = At(x, y)
    BY <2>2, <2>3, <1>2, <2>1, Zenon DEF SourceBlocks
  <2>4. SourceBlocks'
    <3>1. SUFFICES ASSUME NEW c \in 1..Len(job'.source.comps),
                        NEW y \in 0..PaddedHeight(job'.source, c) - 1,
                        NEW x \in 0..PaddedWidth(job'.source, c) - 1,
                        job'.transform # "FLIP_H" \/ ~ Passed(c, y)'
                 PROVE  src'[c][y][x] = At(x, y)
      BY Zenon DEF SourceBlocks
    <3> QED
      BY <1>1, <2>3, <3>1, Zenon
  <2>5. ASSUME job.transform # "NONE", NEW c \in 1..Len(dstinfo.comps),
               NEW y \in 0..height_in_blocks(dstinfo, c) - 1,
               NEW x \in 0..width_in_blocks(dstinfo, c) - 1, Passed(c, y)'
        PROVE  Output[c][y][x] = Moved(job.transform, WholeCols(dstinfo, c),
                                       WholeRows(dstinfo, c), x, y)
    BY <2>2, <2>5, <1>2, <2>1, Zenon DEF OutputBlocks
  <2> QED
    BY <2>4, <1>1, <2>5 DEF OutputBlocks, Output
<1>4. Loops'
  <2>1. /\ ci \in 1..Len(dstinfo.comps) + 1
        /\ ci <= Len(dstinfo.comps) => \E k \in Nat : blk_y = k * dstinfo.comps[ci].v
    BY <1>2, Zenon DEF IndInv, Loops
  <2>2. job.transform = "NONE" \/ ci = Len(dstinfo.comps) + 1
    BY <1>2, FinalGeometry, InfoIsSized, <1>1, <2>1 DEF IndInv, StageInv, Parameters,
       Sized
  <2> QED
    BY <1>1, <2>1, <2>2, Zenon DEF Loops
<1> QED
  BY <1>1, <1>2, <1>3, <1>4, Zenon DEF IndInv, StageInv, SourceArrays, Workspaces,
     Parameters
(* One turn of the loop: the rows of the group are passed, no others.      *)
LEMMA RowPassed ==
    ASSUME IndInv, LumaIsFull(job), RowDue, ci' = ci, blk_y' = blk_y + dstinfo.comps[ci].v
    PROVE  \A c, y \in Int :
              /\ Passed(c, y) => Passed(c, y)'
              /\ Passed(c, y)' /\ ~ Passed(c, y) => c = ci /\ y \in RowGroup
              /\ c = ci /\ y \in RowGroup => ~ Passed(c, y) /\ Passed(c, y)'
<1> DEFINE v == dstinfo.comps[ci].v
<1>1. /\ blk_y \in Nat /\ v \in Nat \ {0} /\ ci \in 1..Len(dstinfo.comps)
  BY AtRow, Zenon
<1>2. RowGroup = blk_y..blk_y + v - 1
  BY Zenon DEF RowGroup
<1>3. \A c, y : /\ Passed(c, y) <=> (c < ci \/ (c = ci /\ y < blk_y))
                /\ Passed(c, y)' <=> (c < ci \/ (c = ci /\ y < blk_y + v))
  BY Zenon DEF Passed
<1> HIDE DEF v
<1>4. \A c, y \in Int :
         /\ c < ci \/ (c = ci /\ y < blk_y) => c < ci \/ (c = ci /\ y < blk_y + v)
         /\ (c < ci \/ (c = ci /\ y < blk_y + v)) /\ ~ (c < ci \/ (c = ci /\ y < blk_y))
              => c = ci /\ y \in blk_y..blk_y + v - 1
         /\ c = ci /\ y \in blk_y..blk_y + v - 1 =>
              /\ ~ (c < ci \/ (c = ci /\ y < blk_y))
              /\ c < ci \/ (c = ci /\ y < blk_y + v)
  BY <1>1
<1> QED
  BY <1>2, <1>3, <1>4, Zenon

LEMMA RowStep ==
    ASSUME IndInv, LumaIsFull(job), TransformRow
    PROVE  LET new == Filled(Output[ci], src[ci])
               n == Len(job.source.comps)
           IN  /\ RowDue /\ stage' = stage /\ job' = job /\ in_place' = in_place
               /\ dstinfo' = dstinfo /\ ci' = ci
               /\ blk_y' = blk_y + dstinfo.comps[ci].v
               /\ IF in_place THEN src' = [src EXCEPT ![ci] = new] /\ dst' = dst
                  ELSE dst' = [dst EXCEPT ![ci] = new] /\ src' = src
               /\ Output'[ci] = new
               /\ \A c \in 1..Len(dstinfo.comps) : c # ci => Output'[c] = Output[c]
<1>1. /\ RowDue /\ stage' = stage /\ job' = job /\ in_place' = in_place
      /\ dstinfo' = dstinfo /\ ci' = ci
      /\ blk_y' = blk_y + dstinfo.comps[ci].v
      /\ \/ /\ in_place /\ src' = [src EXCEPT ![ci] = Filled(src[ci], src[ci])]
            /\ dst' = dst
         \/ /\ ~ in_place /\ dst' = [dst EXCEPT ![ci] = Filled(dst[ci], src[ci])]
            /\ src' = src
  BY Zenon DEF TransformRow, RowDue
<1>2. stage \in Ready /\ stage \notin BeforeArrays /\ stage # "jtransform_request_workspace"
  BY <1>1, Zenon DEF RowDue, Executing, Ready, Looping, BeforeArrays
<1>3. /\ ci \in 1..Len(job.source.comps)
      /\ ci \in 1..WorkComponents(job.source, job.force_grayscale)
      /\ \A c \in 1..Len(dstinfo.comps) : c \in 1..Len(job.source.comps)
  BY <1>1, <1>2, AtRow, OutputArrays, Zenon
<1>4. CASE in_place
  BY <1>1, <1>4, <1>2, <1>3, Zenon DEF Output, IndInv, SourceArrays
<1>5. CASE ~ in_place
  <2>1. ASSUME NEW c \in 1..Len(dstinfo.comps) PROVE c \in DOMAIN dst
    BY <1>1, AtRow, OutputFits, <1>2, <1>5, Zenon DEF IndInv, Workspaces
  <2> QED
    BY <1>1, <1>5, <1>2, <1>3, <2>1, Zenon DEF Output, IndInv, Workspaces
<1> QED
  BY <1>4, <1>5

LEMMA RowInd == ASSUME LumaIsFull(job) PROVE IndInv /\ TransformRow => IndInv'
<1> SUFFICES ASSUME IndInv, TransformRow PROVE IndInv'
  OBVIOUS
<1> DEFINE v == dstinfo.comps[ci].v
           new == Filled(Output[ci], src[ci])
           w == WholeCols(dstinfo, ci)
           h == WholeRows(dstinfo, ci)
           rows == OutRows(job, ci)
           cols == OutCols(job, ci)
<1>1. /\ RowDue /\ stage' = stage /\ job' = job /\ in_place' = in_place
      /\ dstinfo' = dstinfo /\ ci' = ci /\ blk_y' = blk_y + v
      /\ IF in_place THEN src' = [src EXCEPT ![ci] = new] /\ dst' = dst
         ELSE dst' = [dst EXCEPT ![ci] = new] /\ src' = src
      /\ Output'[ci] = new
      /\ \A c \in 1..Len(dstinfo.comps) : c # ci => Output'[c] = Output[c]
  BY RowStep, Zenon
<1>2. /\ stage = "jtransform_execute_transformation" /\ stage \in Ready
      /\ stage \notin BeforeArrays /\ stage \in Looping
      /\ stage # "jtransform_request_workspace" /\ stage # "done"
      /\ job.transform # "NONE"
  BY <1>1, Zenon DEF RowDue, Executing, Ready, Looping, BeforeArrays
<1>3. /\ job \in Jobs /\ ci \in 1..Len(dstinfo.comps) /\ blk_y \in Nat /\ v \in Nat \ {0}
      /\ in_place <=> job.transform \in {"NONE", "FLIP_H"}
  BY <1>1, <1>2, AtRow, Zenon DEF IndInv, StageInv
<1>4. /\ Output[ci] \in ArrayOf(rows, cols)
      /\ in_place => ~ Swaps(job.transform)
      /\ ci \in 1..Len(job.source.comps)
      /\ 0..width_in_blocks(dstinfo, ci) - 1 \subseteq 0..cols - 1
      /\ 0..height_in_blocks(dstinfo, ci) - 1 \subseteq 0..rows - 1
  BY <1>2, <1>3, OutputArrays, Zenon
<1>5. /\ new \in ArrayOf(rows, cols)
      /\ \A y \in 0..rows - 1 : \A x \in 0..cols - 1 :
           /\ y \in RowGroup /\ x \in Columns(ci) =>
                 new[y][x] = Moved(job.transform, w, h, x, y)
           /\ ~ (y \in RowGroup /\ x \in Columns(ci)) => new[y][x] = Output[ci][y][x]
  <2> DEFINE a == Output[ci]
  <2>1. a \in ArrayOf(rows, cols) /\ RowDue
    BY <1>1, <1>4, Zenon
  <2> HIDE DEF a, rows, cols
  <2> QED
    BY <2>1, FilledBlocks DEF a
<1>6. \A c, y \in Int :
         /\ Passed(c, y) => Passed(c, y)'
         /\ Passed(c, y)' /\ ~ Passed(c, y) => c = ci /\ y \in RowGroup
         /\ c = ci /\ y \in RowGroup => ~ Passed(c, y) /\ Passed(c, y)'
  BY <1>1, RowPassed, Zenon
<1>7. \A k : (\A e \in 0..k : e \in Int) /\ (\A e \in 1..k : e \in Int)
  BY SMT
<1>8. in_place => /\ rows = PaddedHeight(job.source, ci) /\ cols = PaddedWidth(job.source, ci)
  BY <1>4, Zenon DEF OutRows, OutCols, Turned
<1> HIDE DEF new, rows, cols, w, h
<1>9. StageInv' /\ Parameters'
  BY <1>1, <1>3, <1>2 DEF IndInv, StageInv, Parameters
<1>10. Loops'
  <2>1. /\ ci \in 1..Len(dstinfo.comps) + 1
        /\ \E k \in Nat : blk_y = k * v
    BY <1>1, <1>2, Zenon DEF IndInv, Loops, RowDue
  <2> HIDE DEF v
  <2>2. PICK k \in Nat : blk_y = k * v
    BY <2>1
  <2>3. k + 1 \in Nat /\ blk_y + v = (k + 1) * v
    BY <1>3, <2>2
  <2> QED
    BY <1>1, <1>2, <2>1, <2>3, Zenon DEF Loops, v
<1>11. SourceArrays'
  BY <1>2, <1>1, <1>4, <1>5, <1>8 DEF IndInv, SourceArrays
<1>12. Workspaces'
  <2>1. CASE in_place
    BY <1>1, <1>2, <2>1, Zenon DEF IndInv, Workspaces
  <2>2. CASE ~ in_place
    <3> DEFINE n == WorkComponents(job.source, job.force_grayscale)
    <3>1. /\ DOMAIN dst = 1..n
          /\ \A c \in 1..n : dst[c] \in ArrayOf(OutRows(job, c), OutCols(job, c))
      BY <1>2, <2>2, Zenon DEF IndInv, Workspaces
    <3> QED
      BY <1>1, <1>2, <2>2, <3>1, AtRow, <1>5, Zenon DEF Workspaces, rows, cols
  <2> QED
    BY <2>1, <2>2
<1>13. SourceBlocks'
  <2>1. SUFFICES ASSUME NEW c \in 1..Len(job'.source.comps),
                        NEW y \in 0..PaddedHeight(job'.source, c) - 1,
                        NEW x \in 0..PaddedWidth(job'.source, c) - 1,
                        job'.transform # "FLIP_H" \/ ~ Passed(c, y)'
                 PROVE  src'[c][y][x] = At(x, y)
    BY Zenon DEF SourceBlocks
  <2>2. /\ c \in 1..Len(job.source.comps)
        /\ y \in 0..PaddedHeight(job.source, c) - 1
        /\ x \in 0..PaddedWidth(job.source, c) - 1
        /\ job.transform # "FLIP_H" \/ ~ Passed(c, y)'
    BY <1>1, <2>1, Zenon
  <2>3. c \in Int /\ y \in Int
    BY <1>7, Zenon
  <2>4. src[c][y][x] = At(x, y)
    BY <1>2, <2>2, <1>6, <2>3, Zenon DEF IndInv, SourceBlocks
  <2>5. CASE ~ in_place
    BY <1>1, <2>5, <2>4, Zenon
  <2>6. CASE in_place
    <3>1. src' = [src EXCEPT ![ci] = new] /\ Output = src
      BY <1>1, <2>6, Zenon DEF Output
    <3>2. DOMAIN src = 1..Len(job.source.comps)
      BY <1>2, Zenon DEF IndInv, SourceArrays
    <3>3. CASE c # ci
      BY <2>2, <2>4, <3>1, <3>2, <3>3, Zenon
    <3>4. CASE c = ci
      <4>1. ~ Passed(c, y)' /\ y \notin RowGroup
        BY <1>2, <1>3, <2>6, <1>6, <2>2, <2>3, <3>4, Zenon
      <4>2. new[y][x] = src[ci][y][x]
        BY <1>5, <1>8, <2>2, <2>6, <3>1, <3>4, <4>1, Zenon
      <4> QED
        BY <2>4, <3>4, <2>2, <3>1, <3>2, <4>2, Zenon
    <3> QED
      BY <3>3, <3>4
  <2> QED
    BY <2>5, <2>6
<1>14. OutputBlocks'
  <2>1. SUFFICES ASSUME NEW c \in 1..Len(dstinfo.comps),
                        NEW y \in 0..height_in_blocks(dstinfo, c) - 1,
                        NEW x \in 0..width_in_blocks(dstinfo, c) - 1,
                        Passed(c, y)'
                 PROVE  Output'[c][y][x] = Moved(job.transform, WholeCols(dstinfo, c),
                                                 WholeRows(dstinfo, c), x, y)
    BY <1>1, Zenon DEF OutputBlocks
  <2>2. c \in Int /\ y \in Int
    BY <1>7, Zenon
  <2>3. Passed(c, y) => Output[c][y][x] = Moved(job.transform, WholeCols(dstinfo, c),
                                                WholeRows(dstinfo, c), x, y)
    BY <1>2, Zenon DEF IndInv, OutputBlocks
  <2>4. CASE ~ (c = ci /\ y \in RowGroup)
    <3>1. Passed(c, y)
      BY <1>6, <2>1, <2>2, <2>4, Zenon
    <3>2. CASE c # ci
      BY <1>1, <2>3, <3>1, <3>2, Zenon
    <3>3. CASE c = ci
      BY <1>4, <1>5, <2>4, <3>3, <1>1, <2>3, <3>1, Zenon
    <3> QED
      BY <3>2, <3>3
  <2>5. CASE c = ci /\ y \in RowGroup
    <3>1. x \in 0..cols - 1 /\ y \in 0..rows - 1
      BY <1>4, <2>5, Zenon
    <3>2. CASE x \in Columns(ci)
      BY <1>1, <1>5, <2>5, <3>1, <3>2, Zenon DEF w, h
    <3>3. CASE x \notin Columns(ci)
      <4>1. job.transform = "FLIP_H" /\ x \notin 0..w - 1
        BY <1>1, <2>5, <3>3, Loop, Zenon DEF w
      <4>2. in_place /\ Output = src
        BY <1>3, <4>1, Zenon DEF Output
      <4>3. src[ci][y][x] = At(x, y)
        BY <1>2, <1>4, <1>8, <3>1, <4>2, <1>6, <2>2, <2>5, Zenon DEF IndInv, SourceBlocks
      <4>4. Moved(job.transform, w, h, x, y) = At(x, y)
        BY <4>1, <1>1, AtRow, InPlaceMoved DEF w
      <4> QED
        BY <1>1, <2>5, <1>5, <3>1, <3>3, <4>2, <4>3, <4>4, Zenon DEF w, h
    <3> QED
      BY <3>2, <3>3
  <2> QED
    BY <2>4, <2>5
<1> QED
  BY <1>9, <1>10, <1>11, <1>12, <1>13, <1>14, Zenon DEF IndInv
LEMMA NextComponentInd == ASSUME LumaIsFull(job) PROVE IndInv /\ NextComponent => IndInv'
<1> SUFFICES ASSUME IndInv, NextComponent PROVE IndInv'
  OBVIOUS
<1>1. /\ stage = "jtransform_execute_transformation" /\ job.transform # "NONE"
      /\ ci <= Len(dstinfo.comps) /\ blk_y >= height_in_blocks(dstinfo, ci)
      /\ ci' = ci + 1 /\ blk_y' = 0
      /\ stage' = stage /\ job' = job /\ src' = src /\ dst' = dst /\ in_place' = in_place
      /\ dstinfo' = dstinfo
  BY Zenon DEF NextComponent, Executing
<1>2. /\ stage \in Ready /\ stage \notin BeforeArrays /\ stage \in Looping
      /\ stage # "jtransform_request_workspace" /\ stage # "done"
  BY <1>1, Zenon DEF Ready, Looping, BeforeArrays
<1>3. /\ job \in Jobs /\ dstinfo = FinalOf(job) /\ blk_y \in Nat
      /\ ci \in 1..Len(dstinfo.comps) + 1
  BY <1>2, Zenon DEF IndInv, StageInv, Parameters, Loops
<1>4. Sized(dstinfo) /\ Len(dstinfo.comps) \in Nat \ {0}
  BY <1>3, FinalGeometry, InfoIsSized, Zenon DEF Sized
<1>5. /\ ci \in 1..Len(dstinfo.comps) /\ ci + 1 \in 1..Len(dstinfo.comps) + 1
      /\ ci + 1 <= Len(dstinfo.comps) => ci + 1 \in 1..Len(dstinfo.comps)
  BY <1>1, <1>3, <1>4
<1>6. height_in_blocks(dstinfo, ci) \in Nat \ {0}
  BY <1>4, <1>5, ComponentSizes, Zenon
<1>7. Loops'
  <2>1. ASSUME ci + 1 <= Len(dstinfo.comps)
        PROVE  \E k \in Nat : 0 = k * dstinfo.comps[ci + 1].v
    BY <1>4, <1>5, <2>1, SourcePadding
  <2> QED
    BY <1>1, <1>2, <1>5, <2>1, Zenon DEF Loops
<1>8. \A k : (\A e \in 0..k : e \in Int) /\ (\A e \in 1..k : e \in Int)
  BY SMT
<1>9. \A c, y : /\ Passed(c, y) <=> (c < ci \/ (c = ci /\ y < blk_y))
                /\ Passed(c, y)' <=> (c < ci + 1 \/ (c = ci + 1 /\ y < 0))
  BY <1>1, Zenon DEF Passed
<1>10. ASSUME NEW c \in Int, NEW y \in Int
       PROVE  /\ Passed(c, y) => Passed(c, y)'
              /\ Passed(c, y)' /\ y \in 0..height_in_blocks(dstinfo, ci) - 1 =>
                    Passed(c, y) \/ (c = ci + 1 /\ y < 0)
  <2> DEFINE n == height_in_blocks(dstinfo, ci)
  <2>1. n \in Nat /\ blk_y >= n
    BY <1>1, <1>6
  <2> HIDE DEF n
  <2> QED
    BY <1>9, <1>3, <1>5, <2>1 DEF n
<1>11. SourceBlocks'
  <2>1. SUFFICES ASSUME NEW c \in 1..Len(job'.source.comps),
                        NEW y \in 0..PaddedHeight(job'.source, c) - 1,
                        NEW x \in 0..PaddedWidth(job'.source, c) - 1,
                        job'.transform # "FLIP_H" \/ ~ Passed(c, y)'
                 PROVE  src'[c][y][x] = At(x, y)
    BY Zenon DEF SourceBlocks
  <2> QED
    BY <1>1, <1>2, <1>10, <2>1, <1>8, Zenon DEF IndInv, SourceBlocks
<1>12. OutputBlocks'
  <2>1. SUFFICES ASSUME NEW c \in 1..Len(dstinfo.comps),
                        NEW y \in 0..height_in_blocks(dstinfo, c) - 1,
                        NEW x \in 0..width_in_blocks(dstinfo, c) - 1,
                        Passed(c, y)'
                 PROVE  Output[c][y][x] = Moved(job.transform, WholeCols(dstinfo, c),
                                                WholeRows(dstinfo, c), x, y)
    BY <1>1, Zenon DEF OutputBlocks, Output
  <2>2. Passed(c, y)
    <3>1. c < ci \/ (c = ci /\ y \in 0..height_in_blocks(dstinfo, ci) - 1)
      BY <1>9, <2>1, <1>5, <1>8
    <3>2. c < ci \/ (c = ci /\ y < blk_y)
      <4> DEFINE n == height_in_blocks(dstinfo, ci)
      <4>1. n \in Nat /\ blk_y >= n
        BY <1>1, <1>6
      <4> HIDE DEF n
      <4> QED
        BY <3>1, <1>3, <4>1 DEF n
    <3> QED
      BY <1>9, <3>2, Zenon
  <2> QED
    BY <1>1, <1>2, <2>2, Zenon DEF IndInv, OutputBlocks
<1> QED
  BY <1>1, <1>2, <1>7, <1>11, <1>12 DEF IndInv, SourceArrays, Workspaces, Parameters,
     StageInv

LEMMA StutterInd == IndInv /\ UNCHANGED vars => IndInv'
<1> SUFFICES ASSUME IndInv, UNCHANGED vars PROVE IndInv'
  OBVIOUS
<1>1. /\ stage' = stage /\ job' = job /\ src' = src /\ dst' = dst /\ in_place' = in_place
      /\ dstinfo' = dstinfo /\ ci' = ci /\ blk_y' = blk_y
  BY Zenon DEF vars
<1>2. \A c, y : Passed(c, y)' <=> Passed(c, y)
  BY <1>1, Zenon DEF Passed
<1>3. SourceBlocks'
  <2>1. SUFFICES ASSUME stage' \notin BeforeArrays,
                        NEW c \in 1..Len(job'.source.comps),
                        NEW y \in 0..PaddedHeight(job'.source, c) - 1,
                        NEW x \in 0..PaddedWidth(job'.source, c) - 1,
                        job'.transform # "FLIP_H" \/ ~ Passed(c, y)'
                 PROVE  src'[c][y][x] = At(x, y)
    BY Zenon DEF SourceBlocks
  <2>2. src[c][y][x] = At(x, y)
    BY <1>1, <1>2, <2>1, Zenon DEF SourceBlocks, IndInv
  <2> QED
    BY <1>1, <2>2, Zenon
<1>4. OutputBlocks'
  <2>1. OutputBlocks /\ Output' = Output
    BY <1>1, Zenon DEF IndInv, Output
  <2>2. SUFFICES ASSUME stage \in Looping /\ job.transform # "NONE",
                        NEW c \in 1..Len(dstinfo.comps),
                        NEW y \in 0..height_in_blocks(dstinfo, c) - 1,
                        NEW x \in 0..width_in_blocks(dstinfo, c) - 1,
                        Passed(c, y)'
                 PROVE  Output[c][y][x] = Moved(job.transform, WholeCols(dstinfo, c),
                                                WholeRows(dstinfo, c), x, y)
    BY <1>1, <2>1, Zenon DEF OutputBlocks
  <2> QED
    BY <2>1, <2>2, <1>2, Zenon DEF OutputBlocks
<1> QED
  BY <1>1, <1>3, <1>4, Zenon DEF IndInv, StageInv, SourceArrays, Workspaces, Parameters,
     Loops

LEMMA JobStays == [Next]_vars => job' = job
BY Zenon DEF Next, vars, jtransform_request_workspace, jpeg_read_coefficients,
   jpeg_copy_critical_parameters, jtransform_adjust_parameters, jpeg_write_coefficients,
   jcopy_markers_execute, TransformRow, NextComponent, Executed

Sound == LumaIsFull(job) => IndInv

LEMMA SoundInd == Sound /\ [Next]_vars => Sound'
<1> SUFFICES ASSUME Sound, [Next]_vars, LumaIsFull(job)' PROVE IndInv'
  BY Zenon DEF Sound
<1>1. LumaIsFull(job) /\ IndInv
  BY JobStays, Zenon DEF Sound
<1> QED
  BY <1>1, RequestInd, ReadInd, CopyInd, AdjustInd, WriteInd, RowInd, NextComponentInd,
     ExecutedInd, StutterInd, Zenon DEF Next

THEOREM IndInvHolds == Spec => [](LumaIsFull(job) => IndInv)
<1>1. Init => Sound
  BY InitInd DEF Sound
<1>2. Sound => (LumaIsFull(job) => IndInv)
  BY Zenon DEF Sound
<1> QED
  BY <1>1, <1>2, SoundInd, PTL DEF Spec
-----------------------------------------------------------------------------
(* Nothing outside of the arrays is read or written.                       *)

LEMMA ArrayShape ==
    ASSUME NEW rows \in Nat, NEW cols \in Nat, NEW a \in ArrayOf(rows, cols)
    PROVE  /\ RowsOf(a) = rows /\ DOMAIN a = 0..rows - 1
           /\ rows > 0 => ColsOf(a) = cols
           /\ \A y \in DOMAIN a : a[y] \in [0..ColsOf(a) - 1 -> Blocks]
<1>1. /\ DOMAIN a = 0..rows - 1
      /\ \A y \in 0..rows - 1 : a[y] \in [0..cols - 1 -> Blocks]
  BY Zenon DEF ArrayOf
<1>2. \A n \in Nat : Cardinality(0..n - 1) = n
  <2> TAKE n \in Nat
  <2> QED
    BY FS_Interval
<1>3. ASSUME rows > 0 PROVE ColsOf(a) = cols
  BY <1>3, <1>1, <1>2 DEF ColsOf
<1>4. ASSUME NEW y \in DOMAIN a PROVE a[y] \in [0..ColsOf(a) - 1 -> Blocks]
  BY <1>1, <1>3
<1> QED
  BY <1>1, <1>2, <1>3, <1>4, Zenon DEF RowsOf

LEMMA MaxIs ==
    ASSUME NEW S \in SUBSET Int, NEW m \in S, \A y \in S : y <= m
    PROVE  Max(S) = m
<1>1. \A x \in S : (\A y \in S : x >= y) <=> x = m
  BY SMT
<1> QED
  BY <1>1, Zenon DEF Max

(* The arrays of any state.                                                *)
LEMMA ArraysSized ==
    ASSUME IndInv, LumaIsFull(job), NEW a \in ToSet(src) \cup ToSet(dst)
    PROVE  \E rows, cols \in Nat : a \in ArrayOf(rows, cols)
<1>1. Sized(job.source) /\ Len(job.source.comps) \in Nat \ {0}
  BY JobType, Zenon DEF Sized, IndInv, StageInv
<1>2. \A c \in 1..Len(job.source.comps) :
         PaddedWidth(job.source, c) \in Nat /\ PaddedHeight(job.source, c) \in Nat
  BY <1>1, SourcePadding, Zenon DEF PaddedCols, PaddedRows, PaddedWidth, PaddedHeight
<1>3. DOMAIN << >> = {}
  BY SMT
<1>4. CASE a \in ToSet(src)
  <2>1. PICK c \in DOMAIN src : a = src[c]
    BY <1>4, Zenon DEF ToSet
  <2> QED
    BY <1>2, <2>1, <1>3, Zenon DEF IndInv, SourceArrays
<1>5. CASE a \in ToSet(dst)
  <2>1. PICK c \in DOMAIN dst : a = dst[c]
    BY <1>5, Zenon DEF ToSet
  <2>2. /\ c \in 1..WorkComponents(job.source, job.force_grayscale)
        /\ a \in ArrayOf(OutRows(job, c), OutCols(job, c))
    BY <2>1, <1>3, Zenon DEF IndInv, Workspaces
  <2> QED
    BY <2>2, <1>2, <1>1 DEF OutRows, OutCols, Turned, WorkComponents
<1> QED
  BY <1>4, <1>5

LEMMA TypesRight == ASSUME IndInv, LumaIsFull(job) PROVE TypeOK
<1>1. /\ job \in Jobs /\ in_place \in BOOLEAN /\ blk_y \in Nat /\ stage \in Stages
      /\ stage \notin Looping => ci = 1
  BY Zenon DEF IndInv, StageInv
<1>2. ASSUME NEW a \in ToSet(src) \cup ToSet(dst), NEW y \in DOMAIN a
      PROVE  a[y] \in [0..ColsOf(a) - 1 -> Blocks]
  BY ArraysSized, ArrayShape, Zenon
<1>3. Sized(job.source) /\ Len(job.source.comps) \in Nat \ {0}
  BY <1>1, JobType, Zenon DEF Sized
<1>4. ci \in 1..Len(job.source.comps) + 1
  BY <1>1, <1>3, FinalGeometry, KeptShape DEF IndInv, Parameters, Loops, Ready
<1> QED
  BY <1>1, <1>2, <1>4, Zenon DEF TypeOK

(* The columns of a turn: from the left edge to beyond the complete iMCUs. *)
LEMMA ColumnRange ==
    ASSUME IndInv, LumaIsFull(job), RowDue
    PROVE  \E n \in Nat : /\ Columns(ci) = 0..n - 1 /\ comp_width(ci) \in Nat
                          /\ comp_width(ci) <= n /\ n <= PaddedCols(dstinfo, ci)
<1> DEFINE w == WholeCols(dstinfo, ci)
           W == width_in_blocks(dstinfo, ci)
           pc == PaddedCols(dstinfo, ci)
<1>1. w \in Nat /\ w <= W /\ W \in Nat \ {0} /\ W <= pc /\ pc \in Nat
      /\ comp_width(ci) = w
  BY AtRow, Loop, Zenon
<1>2. CASE job.transform = "FLIP_H"
  <2> HIDE DEF w, W, pc
  <2> QED
    BY <1>1, <1>2 DEF pc, Columns
<1>3. CASE job.transform # "FLIP_H" /\ Swaps(job.transform)
  <2> HIDE DEF w, W, pc
  <2> QED
    BY <1>1, <1>3 DEF pc, Columns, PaddedCols
<1>4. CASE job.transform # "FLIP_H" /\ ~ Swaps(job.transform)
  <2>1. Columns(ci) = 0..W - 1
    BY <1>4, Zenon DEF Columns
  <2> HIDE DEF w, W, pc
  <2> QED
    BY <1>1, <2>1 DEF pc
<1> QED
  BY <1>2, <1>3, <1>4

LEMMA ReadsAndWritesInside == ASSUME IndInv, LumaIsFull(job) PROVE InsideArrays
<1> SUFFICES ASSUME RowDue PROVE InsideArrays
  BY Zenon DEF InsideArrays, RowDue
<1> DEFINE v == dstinfo.comps[ci].v
           w == comp_width(ci)
           h == comp_height(ci)
           rows == Max({blk_y + v, h})
           cols == Max(Columns(ci) \cup {w - 1}) + 1
           R == OutRows(job, ci)
           C == OutCols(job, ci)
<1>1. /\ stage \in Ready /\ stage \notin BeforeArrays
  BY Zenon DEF RowDue, Executing, Ready, Looping, BeforeArrays
<1>2. /\ job \in Jobs /\ Drawable(job) /\ dstinfo = FinalOf(job)
      /\ ci \in 1..Len(dstinfo.comps) /\ ci \in 1..Len(job.source.comps)
      /\ blk_y \in Nat /\ v \in Nat \ {0} /\ blk_y + v <= PaddedRows(dstinfo, ci)
      /\ PaddedRows(dstinfo, ci) \in Nat /\ PaddedCols(dstinfo, ci) \in Nat
      /\ h \in Nat /\ h <= height_in_blocks(dstinfo, ci)
      /\ height_in_blocks(dstinfo, ci) <= PaddedRows(dstinfo, ci)
      /\ height_in_blocks(dstinfo, ci) \in Nat \ {0}
      /\ width_in_blocks(dstinfo, ci) <= PaddedCols(dstinfo, ci)
      /\ width_in_blocks(dstinfo, ci) \in Nat \ {0}
  BY AtRow, Loop, Zenon
<1>3. /\ PaddedCols(dstinfo, ci) <= C /\ C \in Nat
      /\ PaddedRows(dstinfo, ci) <= R /\ R \in Nat
  BY <1>2, OutputFits, Zenon
<1>4. PICK n \in Nat : /\ Columns(ci) = 0..n - 1 /\ w \in Nat
                       /\ w <= n /\ n <= PaddedCols(dstinfo, ci)
  BY ColumnRange, Zenon
<1>5. Output[ci] \in ArrayOf(R, C)
  BY <1>1, <1>2, OutputArrays, Zenon
<1>6. src[ci] \in ArrayOf(PaddedHeight(job.source, ci), PaddedWidth(job.source, ci))
  BY <1>1, <1>2, Zenon DEF IndInv, SourceArrays
<1>7. IF Swaps(job.transform)
      THEN R = PaddedWidth(job.source, ci) /\ C = PaddedHeight(job.source, ci)
      ELSE R = PaddedHeight(job.source, ci) /\ C = PaddedWidth(job.source, ci)
  BY Zenon DEF OutRows, OutCols, Turned
<1> HIDE DEF v, w, h, R, C
<1>8. cols = n
  <2> DEFINE S == 0..n - 1 \cup {w - 1}
  <2>1. S \in SUBSET Int /\ n - 1 \in S /\ \A y \in S : y <= n - 1
    BY <1>4
  <2>2. Max(S) = n - 1
    BY <2>1, MaxIs, Zenon
  <2> QED
    BY <1>4, <2>2
<1>9. rows \in {blk_y + v, h}
  <2> DEFINE S == {blk_y + v, h}
  <2>1. S \in SUBSET Int
    BY <1>2
  <2>2. PICK m \in S : \A y \in S : y <= m
    BY <1>2
  <2> QED
    BY <2>1, <2>2, MaxIs
<1>10. /\ blk_y + v <= R /\ rows <= R /\ R \in Nat /\ R > 0
       /\ cols <= C /\ C \in Nat
  <2> HIDE DEF rows, cols
  <2> QED
    BY <1>2, <1>3, <1>4, <1>8, <1>9
<1>11. RowsOf(Output[ci]) = R /\ ColsOf(Output[ci]) = C
  BY <1>5, <1>10, ArrayShape, Zenon
<1>12. C > 0
  BY <1>2, <1>3
<1>13. IF Swaps(job.transform) THEN RowsOf(src[ci]) = C /\ ColsOf(src[ci]) = R
       ELSE RowsOf(src[ci]) = R /\ ColsOf(src[ci]) = C
  BY <1>6, <1>7, <1>10, <1>12, ArrayShape
<1>14. /\ blk_y + v <= RowsOf(Output[ci]) /\ cols <= ColsOf(Output[ci])
       /\ IF Swaps(job.transform)
          THEN rows <= ColsOf(src[ci]) /\ cols <= RowsOf(src[ci])
          ELSE rows <= RowsOf(src[ci]) /\ cols <= ColsOf(src[ci])
  BY <1>10, <1>11, <1>13, Zenon
<1> QED
  BY <1>14, Zenon DEF InsideArrays, v, w, h

(* Types, and nothing outside of the arrays is read or written:            *)
(* StaysInside in every state, for every file and all options, except when *)
(* a file with subsampled luminance is made gray.                          *)
THEOREM StaysInsideHolds == Spec => [](LumaIsFull(job) => StaysInside)
<1>1. (LumaIsFull(job) => IndInv) => (LumaIsFull(job) => StaysInside)
  BY TypesRight, ReadsAndWritesInside, Zenon DEF StaysInside
<1> QED
  BY IndInvHolds, <1>1, PTL
-----------------------------------------------------------------------------
(* The output when the loops have ended.                                   *)

LEMMA FinalBlocks ==
    ASSUME IndInv, LumaIsFull(job), stage = "done", NEW c \in 1..Len(dstinfo.comps),
           NEW x \in 0..width_in_blocks(dstinfo, c) - 1,
           NEW y \in 0..height_in_blocks(dstinfo, c) - 1
    PROVE  Output[c][y][x] = Moved(job.transform, WholeCols(dstinfo, c),
                                   WholeRows(dstinfo, c), x, y)
<1>1. stage \in Ready /\ stage \in Looping /\ stage \notin BeforeArrays
      /\ stage # "jtransform_request_workspace"
  BY Zenon DEF Ready, Looping, BeforeArrays
<1>2. CASE job.transform = "NONE"
  <2>1. in_place /\ Output = src
    BY <1>1, <1>2, Zenon DEF IndInv, StageInv, Output
  <2>2. /\ c \in 1..Len(job.source.comps) /\ ~ Swaps(job.transform)
        /\ x \in 0..OutCols(job, c) - 1 /\ y \in 0..OutRows(job, c) - 1
    BY <1>1, <2>1, OutputArrays, Zenon
  <2>3. job.transform # "FLIP_H"
    BY <1>2
  <2>4. src[c][y][x] = At(x, y)
    BY <1>1, <2>2, <2>3, Zenon DEF IndInv, SourceBlocks, OutRows, OutCols, Turned
  <2> QED
    BY <2>1, <2>4, <1>2, InPlaceMoved
<1>3. CASE job.transform # "NONE"
  BY <1>1, <1>3, FinalGeometry, InfoIsSized DEF IndInv, Loops, StageInv, Parameters,
     Sized, OutputBlocks, Passed
<1> QED
  BY <1>2, <1>3

(* The quantization table of each component is transposed if blocks are.   *)
LEMMA FinalTables ==
    ASSUME NEW jb \in Jobs, NEW c \in 1..Len(FinalOf(jb).comps)
    PROVE  LET f == FinalOf(jb)
           IN  f.quant[f.comps[c].quant_tbl_no] = Swaps(jb.transform)
<1> DEFINE f == FinalOf(jb)
           s == jb.source
           copied == CopiedOf(s)
           b == BaseOf(jb)
           d == CorrectedOf(jb)
           q == b.comps[c].quant_tbl_no
<1>1. /\ s \in SourceFile /\ copied \in Info /\ b \in Info
      /\ jb.force_grayscale \in BOOLEAN /\ jb.trim \in BOOLEAN /\ Sized(s)
  BY JobType, Zenon
<1>2. Len(f.comps) = Len(b.comps) /\ Len(f.comps) = Len(d.comps) /\ d \in Info
  BY FinalGeometry, KeptShape, CorrectedGeometry, Zenon DEF SameShape
<1>3. /\ Len(copied.comps) = Len(s.comps)
      /\ \A e \in 1..Len(s.comps) : copied.comps[e].quant_tbl_no \in DOMAIN copied.quant
      /\ \A e \in DOMAIN copied.quant : copied.quant[e] = FALSE
  BY <1>1, CopiedType, Zenon
<1>4. q \in DOMAIN b.quant /\ b.quant[q] = FALSE
  <2>1. CASE ~ jb.force_grayscale
    BY <2>1, <1>2, <1>3, Zenon DEF BaseOf
  <2>2. CASE jb.force_grayscale
    <3>1. /\ Len(b.comps) = 1 /\ b.comps[1].quant_tbl_no = copied.comps[1].quant_tbl_no
          /\ b.quant = copied.quant
      BY <1>1, <2>2, GrayscaleType, Zenon DEF BaseOf
    <3>2. c = 1
      <4>1. c \in 1..1
        BY <1>2, <3>1, Zenon
      <4> QED
        BY <4>1
    <3> QED
      BY <1>3, <3>1, <3>2, <1>1 DEF Sized
  <2> QED
    BY <1>1, <2>1, <2>2
<1>5. d.quant[d.comps[c].quant_tbl_no] = Swaps(jb.transform)
  <2>1. CASE Swaps(jb.transform)
    <3>1. d = transpose_critical_parameters(b)
      BY <2>1, Zenon DEF CorrectedOf, Corrected
    <3>2. d.comps[c].quant_tbl_no = q /\ d.quant[q] = ~ b.quant[q]
      <4>1. c \in 1..Len(b.comps)
        BY <1>2, Zenon
      <4> HIDE DEF b, d, f
      <4>2. /\ \A e \in 1..Len(b.comps) : d.comps[e].quant_tbl_no = b.comps[e].quant_tbl_no
            /\ \A e \in DOMAIN b.quant : d.quant[e] = ~ b.quant[e]
        BY <1>1, <3>1, TransposedType
      <4> QED
        BY <4>1, <4>2, <1>4
    <3> QED
      BY <3>2, <1>4, <2>1 DEF Swaps
  <2>2. CASE ~ Swaps(jb.transform)
    <3>1. Swaps(jb.transform) = FALSE
      BY <2>2 DEF Swaps
    <3> QED
      BY <1>4, <2>2, <3>1, Zenon DEF CorrectedOf, Corrected
  <2> QED
    BY <2>1, <2>2
<1>6. f.comps = d.comps /\ f.quant = d.quant
  <2>1. CASE ~ jb.trim
    BY <2>1, Zenon DEF FinalOf
  <2>2. CASE jb.trim
    <3> DEFINE r == TrimRight(d, jb.transform)
    <3>1. f = TrimBottom(r, jb.transform)
      BY <2>2, Zenon DEF FinalOf
    <3>2. r \in Info /\ r.comps = d.comps /\ r.quant = d.quant
      BY <1>2, TrimRightGeometry, Zenon
    <3> HIDE DEF r
    <3>3. f.comps = r.comps /\ f.quant = r.quant
      BY <1>2, <3>1, <3>2, TrimBottomGeometry, ZenonT(40)
    <3> QED
      BY <3>2, <3>3
  <2> QED
    BY <1>1, <2>1, <2>2
<1> QED
  BY <1>5, <1>6, Zenon

LEMMA Remainder ==
    ASSUME NEW a \in Nat, NEW b \in Nat \ {0}
    PROVE  a % b \in 0..b - 1 /\ a % b = a - b * (a \div b)
OBVIOUS

LEMMA SampleIndex ==
    ASSUME NEW n \in Nat, NEW i \in 0..n * DCTSIZE - 1
    PROVE  /\ i \div DCTSIZE \in 0..n - 1 /\ i % DCTSIZE \in 0..DCTSIZE - 1
           /\ i = (i \div DCTSIZE) * DCTSIZE + (i % DCTSIZE)
<1> DEFINE d == DCTSIZE
<1>1. d \in Nat \ {0}
  BY SetupAssumption
<1>2. i \in 0..n * d - 1
  OBVIOUS
<1> HIDE DEF d
<1>3. i \in Nat
  BY <1>2
<1> DEFINE q == i \div d
           r == i % d
<1>4. r \in 0..d - 1 /\ r = i - d * q
  BY <1>1, <1>3, Remainder, Zenon
<1>5. q \in Nat /\ d * q <= i
  BY <1>1, <1>3, Quotient
<1> HIDE DEF q, r
<1>6. d * q = q * d /\ d * q \in Nat
  BY <1>1, <1>5, Multiples
<1>7. q < n
  <2> SUFFICES ASSUME ~ (q < n) PROVE FALSE
    OBVIOUS
  <2> HIDE DEF d
  <2> QED
    BY <1>2, <1>1, Multiples, <1>5, <1>6
<1> QED
  BY <1>4, <1>5, <1>7, <1>3, <1>6 DEF d, q, r

(* The sample that the output shows at a place.                            *)
LEMMA ShownIs ==
    ASSUME IndInv, LumaIsFull(job), stage = "done", NEW c \in 1..Len(dstinfo.comps),
           NEW i \in 0..width_in_blocks(dstinfo, c) * DCTSIZE - 1,
           NEW j \in 0..height_in_blocks(dstinfo, c) * DCTSIZE - 1
    PROVE  LET w == WholeCols(dstinfo, c) * DCTSIZE
               h == WholeRows(dstinfo, c) * DCTSIZE
               t == job.transform
           IN  Shown(Output[c], <<i, j>>) = <<FromX(t, w, h, i, j), FromY(t, w, h, i, j)>>
<1> DEFINE t == job.transform
           w == WholeCols(dstinfo, c)
           h == WholeRows(dstinfo, c)
           x == i \div DCTSIZE
           y == j \div DCTSIZE
           a == i % DCTSIZE
           b == j % DCTSIZE
<1>1. /\ width_in_blocks(dstinfo, c) \in Nat /\ height_in_blocks(dstinfo, c) \in Nat
      /\ w \in Nat /\ h \in Nat /\ t \in Transformations
  BY OutputArrays, JobsAssumption, ComponentSizes DEF Ready, Looping, IndInv, StageInv,
     Transformations
<1>2. /\ x \in 0..width_in_blocks(dstinfo, c) - 1 /\ a \in 0..DCTSIZE - 1
      /\ i = x * DCTSIZE + a
  BY <1>1, SampleIndex, Zenon
<1>3. /\ y \in 0..height_in_blocks(dstinfo, c) - 1 /\ b \in 0..DCTSIZE - 1
      /\ j = y * DCTSIZE + b
  BY <1>1, SampleIndex, Zenon
<1>4. Shown(Output[c], <<i, j>>) = Sample(Output[c][y][x], <<a, b>>)
  BY DEF Shown
<1>5. x \in Nat /\ y \in Nat
  <2> HIDE DEF x, y
  <2> QED
    BY <1>1, <1>2, <1>3
<1> HIDE DEF a, b, x, y, w, h, t
<1>6. Sample(Moved(t, w, h, x, y), <<a, b>>)
        = <<FromX(t, w * DCTSIZE, h * DCTSIZE, x * DCTSIZE + a, y * DCTSIZE + b),
            FromY(t, w * DCTSIZE, h * DCTSIZE, x * DCTSIZE + a, y * DCTSIZE + b)>>
  <2>1. SampleMoves(t, w, h, x, y, a, b)
    BY <1>1, <1>2, <1>3, <1>5, SampleMoved
  <2> QED
    BY <2>1, Zenon DEF SampleMoves
<1>7. Sample(Moved(t, w, h, x, y), <<a, b>>)
        = <<FromX(t, w * DCTSIZE, h * DCTSIZE, i, j),
            FromY(t, w * DCTSIZE, h * DCTSIZE, i, j)>>
  BY <1>2, <1>3, <1>6, Zenon
<1> QED
  BY <1>2, <1>3, FinalBlocks, <1>4, <1>7, Zenon DEF w, h, t

(* The picture kept, and the parameters of the output.                     *)
LEMMA AtEnd ==
    ASSUME IndInv, LumaIsFull(job), stage = "done"
    PROVE  /\ job \in Jobs /\ dstinfo = FinalOf(job) /\ Sized(dstinfo)
           /\ job.transform \in Transformations /\ job.trim \in BOOLEAN
           /\ Kept = KeptOf(job) /\ Sized(Kept) /\ Len(dstinfo.comps) = Len(Kept.comps)
           /\ \A c \in 1..Len(dstinfo.comps) : Geometry(job, dstinfo, c)
<1>1. job \in Jobs /\ dstinfo = FinalOf(job)
  BY Zenon DEF IndInv, StageInv, Parameters, Ready, Looping
<1>2. Kept = KeptOf(job)
  BY Zenon DEF Kept, KeptOf
<1>3. job.transform \in Transformations
  BY <1>1, JobsAssumption, Zenon DEF Transformations
<1> QED
  BY <1>1, <1>2, KeptShape, JobType, FinalGeometry, <1>3, InfoIsSized, Zenon

LEMMA WholeSamples ==
    ASSUME NEW info, NEW c
    PROVE  /\ WholeWidth(info, c) = WholeCols(info, c) * DCTSIZE
           /\ WholeHeight(info, c) = WholeRows(info, c) * DCTSIZE
BY Zenon DEF WholeWidth, WholeHeight, WholeCols, WholeRows, WholeBlocks

LEMMA PictureRight == ASSUME IndInv, LumaIsFull(job) PROVE PictureIsCombination
<1> SUFFICES ASSUME stage = "done", NEW c \in 1..Len(dstinfo.comps),
                    NEW p \in Samples(dstinfo, c)
             PROVE  Shown(Output[c], p)
                      = Combination(job.transform, WholeWidth(Kept, c),
                                    WholeHeight(Kept, c), p)
  BY Zenon DEF PictureIsCombination
<1> DEFINE t == job.transform
           w == WholeCols(dstinfo, c) * DCTSIZE
           h == WholeRows(dstinfo, c) * DCTSIZE
           n == WholeWidth(Kept, c)
           k == WholeHeight(Kept, c)
<1>1. PICK i \in 0..width_in_blocks(dstinfo, c) * DCTSIZE - 1,
           j \in 0..height_in_blocks(dstinfo, c) * DCTSIZE - 1 : p = <<i, j>>
  BY DEF Samples
<1>2. Shown(Output[c], p) = <<FromX(t, w, h, i, j), FromY(t, w, h, i, j)>>
  BY <1>1, ShownIs, Zenon
<1>3. /\ WholeCols(dstinfo, c) = Turned(job, WholeCols(Kept, c), WholeRows(Kept, c))
      /\ WholeRows(dstinfo, c) = Turned(job, WholeRows(Kept, c), WholeCols(Kept, c))
      /\ t \in Transformations
  BY AtEnd, Zenon DEF Geometry
<1>4. w = Before(t, n, k) /\ h = Before(t, k, n)
  BY <1>3, WholeSamples DEF Before, Turned
<1>5. Combination(t, n, k, <<i, j>>)
        = <<FromX(t, Before(t, n, k), Before(t, k, n), i, j),
            FromY(t, Before(t, n, k), Before(t, k, n), i, j)>>
  <2> HIDE DEF n, k, w, h, t
  <2> QED
    BY <1>3, CombinationMoves
<1> HIDE DEF n, k, w, h, t
<1> QED
  BY <1>2, <1>1, <1>4, <1>5, Zenon DEF n, k, t

LEMMA MovedTurns ==
    \A transform, w, h, x, y : Moved(transform, w, h, x, y).t = Swaps(transform)
<1> TAKE transform, w, h, x, y
<1> DEFINE m == Moved(transform, w, h, x, y)
<1>1. m = [x |-> m.x, y |-> m.y, t |-> Swaps(transform), h |-> m.h, v |-> m.v]
  BY Zenon DEF Moved, Block
<1> HIDE DEF m
<1> QED
  BY <1>1 DEF m

LEMMA TablesRight == ASSUME IndInv, LumaIsFull(job) PROVE TablesFollowBlocks
<1> SUFFICES ASSUME stage = "done", NEW c \in 1..Len(dstinfo.comps),
                    NEW q \in Visible(dstinfo, c)
             PROVE  Output[c][q[2]][q[1]].t = dstinfo.quant[dstinfo.comps[c].quant_tbl_no]
  BY Zenon DEF TablesFollowBlocks
<1>1. PICK x \in 0..width_in_blocks(dstinfo, c) - 1,
           y \in 0..height_in_blocks(dstinfo, c) - 1 : q[1] = x /\ q[2] = y
  BY DEF Visible
<1>2. Output[c][y][x].t = Swaps(job.transform)
  <2> DEFINE w == WholeCols(dstinfo, c)
             h == WholeRows(dstinfo, c)
  <2> HIDE DEF w, h
  <2> QED
    BY FinalBlocks, MovedTurns DEF w, h
<1> QED
  BY <1>1, <1>2, AtEnd, FinalTables, Zenon

(* The output is the transformed source, sample by sample, whatever the    *)
(* size of the image, its sampling factors and its partial iMCUs, and its  *)
(* tables are transposed with the blocks: OutputIsCombination.  Files with *)
(* subsampled luminance that are made gray are again left out.             *)
THEOREM OutputIsCombinationHolds == Spec => [](LumaIsFull(job) => OutputIsCombination)
<1>1. (LumaIsFull(job) => IndInv) => (LumaIsFull(job) => OutputIsCombination)
  BY PictureRight, TablesRight, Zenon DEF OutputIsCombination
<1> QED
  BY IndInvHolds, <1>1, PTL

-----------------------------------------------------------------------------
(* The edges.                                                              *)

(* Mirroring the complete iMCUs twice is doing nothing.                    *)
LEMMA TurnsBack ==
    ASSUME NEW n \in Nat, NEW k \in Nat, n <= k, NEW i \in 0..k - 1
    PROVE  Turn(n, i) \in 0..k - 1 /\ Turn(n, Turn(n, i)) = i
BY DEF Turn

LEMMA AcrossBack ==
    ASSUME NEW transform, NEW n \in Nat, NEW k \in Nat, n <= k, NEW i \in 0..k - 1
    PROVE  /\ Across(transform, n, i) \in 0..k - 1
           /\ Across(transform, n, Across(transform, n, i)) = i
BY TurnsBack DEF Across

LEMMA DownBack ==
    ASSUME NEW transform, NEW n \in Nat, NEW k \in Nat, n <= k, NEW i \in 0..k - 1
    PROVE  /\ Down(transform, n, i) \in 0..k - 1
           /\ Down(transform, n, Down(transform, n, i)) = i
BY TurnsBack DEF Down

LEMMA NoEdgeLeft == ASSUME IndInv, LumaIsFull(job) PROVE TrimLeavesNoEdge
<1> SUFFICES ASSUME stage = "done", job.trim,
                    Kept.image_width >= MaxH(Kept) * DCTSIZE,
                    Kept.image_height >= MaxV(Kept) * DCTSIZE,
                    NEW c \in 1..Len(dstinfo.comps), NEW p \in Samples(dstinfo, c)
             PROVE  LET w == width_in_blocks(dstinfo, c) * DCTSIZE
                        h == height_in_blocks(dstinfo, c) * DCTSIZE
                        q == IF TrimsRight(job.transform) THEN MirrorX(w, p) ELSE p
                        r == IF TrimsBottom(job.transform) THEN MirrorY(h, q) ELSE q
                    IN  Shown(Output[c], p) = IF Swaps(job.transform) THEN Swapped(r) ELSE r
  BY Zenon DEF TrimLeavesNoEdge
<1> DEFINE t == job.transform
           w == width_in_blocks(dstinfo, c) * DCTSIZE
           h == height_in_blocks(dstinfo, c) * DCTSIZE
           W == WholeCols(dstinfo, c) * DCTSIZE
           H == WholeRows(dstinfo, c) * DCTSIZE
           q == IF TrimsRight(t) THEN MirrorX(w, p) ELSE p
           r == IF TrimsBottom(t) THEN MirrorY(h, q) ELSE q
<1>1. PICK i \in 0..width_in_blocks(dstinfo, c) * DCTSIZE - 1,
           j \in 0..height_in_blocks(dstinfo, c) * DCTSIZE - 1 : p = <<i, j>>
  BY DEF Samples
<1>2. Shown(Output[c], p) = <<FromX(t, W, H, i, j), FromY(t, W, H, i, j)>>
  BY <1>1, ShownIs, Zenon
<1>3. (TrimsRight(t) => w = W) /\ (TrimsBottom(t) => h = H)
  BY AtEnd, Zenon DEF LargeEnough, Geometry
<1> HIDE DEF w, h, W, H, t
<1>4. q = <<Across(t, W, i), j>>
  BY <1>1, <1>3, MirroredX DEF Across
<1> HIDE DEF q
<1>5. r = <<Across(t, W, i), Down(t, H, j)>>
  BY <1>3, <1>4, MirroredY DEF Down
<1> HIDE DEF r
<1>6. Shown(Output[c], p) = IF Swaps(t) THEN Swapped(r) ELSE r
  BY <1>5, SwappedPair, <1>2 DEF FromX, FromY
<1> QED
  BY <1>6, Zenon DEF r, q, w, h, t

(* The block of the source that a block of the output comes from.          *)
LEMMA MovedFrom ==
    \A transform, w, h, x, y :
        /\ Moved(transform, w, h, x, y).x = FromX(transform, w, h, x, y)
        /\ Moved(transform, w, h, x, y).y = FromY(transform, w, h, x, y)
<1> TAKE transform, w, h, x, y
<1> DEFINE m == Moved(transform, w, h, x, y)
           i == FromX(transform, w, h, x, y)
           j == FromY(transform, w, h, x, y)
<1>1. m = [x |-> i, y |-> j, t |-> m.t, h |-> m.h, v |-> m.v]
  BY Zenon DEF Moved, Block
<1> HIDE DEF m, i, j
<1> QED
  BY <1>1 DEF m, i, j

(* A product of ranges, its factors in either order.                       *)
LEMMA ProductOfRanges ==
    ASSUME NEW m \in Nat, NEW n \in Nat
    PROVE  /\ Cardinality((0..m - 1) \X (0..n - 1)) = m * n
           /\ m * n = n * m
<1>1. Cardinality((0..m - 1) \X (0..n - 1)) = m * n
  <2> DEFINE S == 0..m - 1
             T == 0..n - 1
  <2>1. IsFiniteSet(S) /\ IsFiniteSet(T) /\ Cardinality(S) = m /\ Cardinality(T) = n
    BY FS_Interval
  <2> HIDE DEF S, T
  <2>2. Cardinality(S \X T) = Cardinality(S) * Cardinality(T)
    BY <2>1, FS_Product
  <2> QED
    BY <2>1, <2>2, Zenon DEF S, T
<1> QED
  BY <1>1

LEMMA NothingLost == ASSUME IndInv, LumaIsFull(job) PROVE Lossless
<1> SUFFICES ASSUME stage = "done", ~ job.trim, NEW c \in 1..Len(dstinfo.comps)
             PROVE  /\ {<<Output[c][q[2]][q[1]].x, Output[c][q[2]][q[1]].y>> :
                           q \in Visible(dstinfo, c)} = Visible(Kept, c)
                    /\ Cardinality(Visible(dstinfo, c)) = Cardinality(Visible(Kept, c))
  BY Zenon DEF Lossless
<1> DEFINE t == job.transform
           w == WholeCols(dstinfo, c)
           h == WholeRows(dstinfo, c)
           m == width_in_blocks(dstinfo, c)
           n == height_in_blocks(dstinfo, c)
           mk == width_in_blocks(Kept, c)
           nk == height_in_blocks(Kept, c)
           From(q) == <<Output[c][q[2]][q[1]].x, Output[c][q[2]][q[1]].y>>
           V == Visible(dstinfo, c)
           VK == Visible(Kept, c)
<1>1. /\ m \in Nat /\ n \in Nat /\ w \in Nat /\ h \in Nat /\ w <= m /\ h <= n
  BY AtEnd, ComponentSizes
<1>2. IF Swaps(t) THEN m = nk /\ n = mk ELSE m = mk /\ n = nk
  BY AtEnd, Zenon DEF Geometry, Turned
<1>3. V = (0..m - 1) \X (0..n - 1) /\ VK = (0..mk - 1) \X (0..nk - 1)
  BY Zenon DEF Visible
<1>4. ASSUME NEW x \in 0..m - 1, NEW y \in 0..n - 1
      PROVE  From(<<x, y>>) = <<FromX(t, w, h, x, y), FromY(t, w, h, x, y)>>
  <2>1. Output[c][y][x] = Moved(t, w, h, x, y)
    BY FinalBlocks, Zenon
  <2>2. From(<<x, y>>) = <<Output[c][y][x].x, Output[c][y][x].y>>
    OBVIOUS
  <2> HIDE DEF w, h, From
  <2>3. /\ Moved(t, w, h, x, y).x = FromX(t, w, h, x, y)
        /\ Moved(t, w, h, x, y).y = FromY(t, w, h, x, y)
    BY MovedFrom
  <2> QED
    BY <2>1, <2>2, <2>3, Zenon
<1> DEFINE ax(x) == Across(t, w, x)
           dy(y) == Down(t, h, y)
<1>5. /\ \A x \in 0..m - 1 : ax(x) \in 0..m - 1 /\ ax(ax(x)) = x
      /\ \A y \in 0..n - 1 : dy(y) \in 0..n - 1 /\ dy(dy(y)) = y
  BY <1>1, AcrossBack, DownBack, Zenon
<1>6. \A x, y : <<FromX(t, w, h, x, y), FromY(t, w, h, x, y)>>
                   = IF Swaps(t) THEN <<dy(y), ax(x)>> ELSE <<ax(x), dy(y)>>
  BY Zenon DEF FromX, FromY
<1> HIDE DEF ax, dy, w, h, m, n, mk, nk, t, From, V, VK
<1>7. ASSUME NEW q \in V PROVE From(q) \in VK
  <2>1. PICK x \in 0..m - 1, y \in 0..n - 1 : q = <<x, y>>
    BY <1>3
  <2>2. From(q) = IF Swaps(t) THEN <<dy(y), ax(x)>> ELSE <<ax(x), dy(y)>>
    BY <1>4, <1>6, <2>1, Zenon
  <2>3. ax(x) \in 0..m - 1 /\ dy(y) \in 0..n - 1
    BY <1>5, Zenon
  <2>4. CASE Swaps(t)
    BY <1>2, <2>3, <2>4, <2>2, <1>3
  <2>5. CASE ~ Swaps(t)
    BY <1>2, <2>3, <2>5, <2>2, <1>3
  <2> QED
    BY <2>4, <2>5
<1>8. ASSUME NEW s \in VK PROVE \E q \in V : From(q) = s
  <2>1. PICK a \in 0..mk - 1, b \in 0..nk - 1 : s = <<a, b>>
    BY <1>3
  <2>2. ASSUME NEW x \in 0..m - 1, NEW y \in 0..n - 1,
               s = IF Swaps(t) THEN <<dy(y), ax(x)>> ELSE <<ax(x), dy(y)>>
        PROVE  \E q \in V : From(q) = s
    BY <1>3, <1>4, <1>6, <2>2, Zenon
  <2>3. CASE Swaps(t)
    BY <1>2, <2>3, <1>5, <2>1, <2>2, Zenon
  <2>4. CASE ~ Swaps(t)
    BY <1>2, <2>4, <1>5, <2>1, <2>2, Zenon
  <2> QED
    BY <2>3, <2>4
<1>9. Cardinality(V) = Cardinality(VK)
  <2>1. Cardinality(V) = m * n /\ m * n = n * m
    BY <1>1, <1>3, ProductOfRanges, Zenon
  <2>2. CASE Swaps(t)
    BY <1>2, <2>2, <1>1, <1>3, ProductOfRanges, <2>1
  <2>3. CASE ~ Swaps(t)
    BY <1>2, <2>3, <1>3
  <2> QED
    BY <2>2, <2>3
<1> QED
  BY <1>7, <1>8, <1>9, Zenon DEF From, V, VK

(* Without trimming every block of the source is in the output, once; with *)
(* it, no edge is left unturned, in an image of a complete iMCU at least:  *)
(* EdgesRight, with the same files left out.                               *)
THEOREM EdgesRightHolds == Spec => [](LumaIsFull(job) => EdgesRight)
<1>1. (LumaIsFull(job) => IndInv) => (LumaIsFull(job) => EdgesRight)
  BY NothingLost, NoEdgeLeft, Zenon DEF EdgesRight
<1> QED
  BY IndInvHolds, <1>1, PTL

-----------------------------------------------------------------------------
(* The markers that are copied.                                            *)

Selects(f, markers, chosen, n) ==
    f = [k \in 0..n |->
            IF k = 0 THEN << >>
            ELSE IF markers[k] \in chosen THEN Append(f[k - 1], markers[k]) ELSE f[k - 1]]
Extended(f, markers, chosen, k) ==
    IF markers[k] \in chosen THEN Append(f, markers[k]) ELSE f

LEMMA SelectionExists ==
    ASSUME NEW markers, NEW chosen
    PROVE  \A n \in Nat : \E f : Selects(f, markers, chosen, n)
<1> DEFINE Bad == {n \in Nat : ~ \E f : Selects(f, markers, chosen, n)}
           Next1(x, k) == Extended(x, markers, chosen, k)
<1> SUFFICES ASSUME Bad # {} PROVE FALSE
  OBVIOUS
<1>1. \A f, n : Selects(f, markers, chosen, n)
                <=> f = [k \in 0..n |-> IF k = 0 THEN << >> ELSE Next1(f[k - 1], k)]
  BY Zenon DEF Selects, Extended
<1>2. PICK n \in Bad : \A k \in Bad : n <= k
  <2> Bad \in SUBSET Nat
    OBVIOUS
  <2> HIDE DEF Bad
  <2> QED
    BY Smallest
<1> HIDE DEF Next1
<1>3. n \in Nat
  OBVIOUS
<1>4. CASE n = 0
  <2> DEFINE v == [k \in 0..0 |-> << >>]
  <2>1. v = [k \in 0..0 |-> IF k = 0 THEN << >> ELSE Next1(v[k - 1], k)]
    OBVIOUS
  <2> QED
    BY <1>4, <1>1, <2>1
<1>5. CASE n # 0
  <2>1. n - 1 \in Nat /\ n - 1 \notin Bad
    <3> HIDE DEF Bad
    <3> QED
      BY <1>2, <1>3, <1>5
  <2>2. PICK f : Selects(f, markers, chosen, n - 1)
    BY <2>1
  <2> DEFINE v == [k \in 0..n |-> IF k = n THEN Next1(f[n - 1], n) ELSE f[k]]
             Rhs == [k \in 0..n - 1 |-> IF k = 0 THEN << >> ELSE Next1(f[k - 1], k)]
  <2>3. \A k \in 0..n - 1 : f[k] = IF k = 0 THEN << >> ELSE Next1(f[k - 1], k)
    <3> HIDE DEF Rhs
    <3> QED
      BY <2>2, Zenon DEF Selects, Extended, Next1
  <2>4. /\ \A k \in 0..n - 1 : v[k] = f[k]
        /\ v[n] = Next1(f[n - 1], n)
        /\ DOMAIN v = 0..n /\ v = [k \in DOMAIN v |-> v[k]]
    BY <1>3
  <2> HIDE DEF v
  <2>5. ASSUME NEW k \in 0..n
        PROVE  v[k] = IF k = 0 THEN << >> ELSE Next1(v[k - 1], k)
    BY <1>3, <1>5, <2>4, <2>3
  <2>6. v = [k \in 0..n |-> IF k = 0 THEN << >> ELSE Next1(v[k - 1], k)]
    BY <2>4, <2>5, Zenon
  <2> QED
    BY <1>1, <2>6
<1> QED
  BY <1>4, <1>5

LEMMA SelectedSteps ==
    ASSUME NEW markers, NEW chosen, Len(markers) \in Nat
    PROVE  LET f == SelectedUpTo(markers, chosen)
           IN  /\ f[0] = << >> /\ f[Len(markers)] = Selected(markers, chosen)
               /\ \A k \in 1..Len(markers) : f[k] = Extended(f[k - 1], markers, chosen, k)
<1> DEFINE f == SelectedUpTo(markers, chosen)
           n == Len(markers)
           Rhs == [k \in 0..n |-> IF k = 0 THEN << >>
                                  ELSE Extended(f[k - 1], markers, chosen, k)]
<1>1. \E x : Selects(x, markers, chosen, n)
  BY SelectionExists
<1>2. Selects(f, markers, chosen, n)
  BY <1>1, Zenon DEF Selects, SelectedUpTo
<1>3. \A k \in 0..n : Rhs[k] = IF k = 0 THEN << >> ELSE Extended(f[k - 1], markers, chosen, k)
  BY Zenon
<1> HIDE DEF f, n, Rhs
<1>4. n \in Nat /\ 0 \in 0..n /\ \A k \in 1..n : k \in 0..n /\ k # 0
  BY DEF n
<1>5. f[0] = << >> /\ \A k \in 1..n : f[k] = Extended(f[k - 1], markers, chosen, k)
  BY <1>2, <1>3, <1>4, Zenon DEF Selects, Extended
<1> QED
  BY <1>5, Zenon DEF f, n, Selected

(* What is selected was in the list, and was chosen.                       *)
LEMMA SelectedType ==
    ASSUME NEW M, NEW markers \in Seq(M), NEW chosen
    PROVE  Selected(markers, chosen) \in Seq(M \cap chosen)
<1> DEFINE f == SelectedUpTo(markers, chosen)
           n == Len(markers)
           Good(k) == f[k] \in Seq(M \cap chosen)
           Bad == {k \in Nat : k <= n /\ ~Good(k)}
<1>1. n \in Nat /\ \A k \in 1..n : markers[k] \in M
  OBVIOUS
<1>2. /\ f[0] = << >> /\ f[n] = Selected(markers, chosen)
      /\ \A k \in 1..n : f[k] = Extended(f[k - 1], markers, chosen, k)
  BY <1>1, SelectedSteps
<1>3. Good(0)
  <2> HIDE DEF f
  <2> QED
    BY <1>2
<1>4. ASSUME NEW k \in 1..n, Good(k - 1) PROVE Good(k)
  <2>1. f[k] = Extended(f[k - 1], markers, chosen, k) /\ markers[k] \in M
    BY <1>1, <1>2
  <2> HIDE DEF f
  <2>2. CASE markers[k] \in chosen
    BY <1>4, <2>1, <2>2 DEF Extended
  <2>3. CASE markers[k] \notin chosen
    BY <1>4, <2>1, <2>3 DEF Extended
  <2> QED
    BY <2>2, <2>3
<1> HIDE DEF Good, f, n
<1>5. Bad = {}
  <2> SUFFICES ASSUME Bad # {} PROVE FALSE
    OBVIOUS
  <2>1. PICK k \in Bad : \A j \in Bad : k <= j
    <3> Bad \in SUBSET Nat
      OBVIOUS
    <3> HIDE DEF Bad
    <3> QED
      BY Smallest
  <2>2. k \in Nat /\ k <= n /\ ~Good(k)
    OBVIOUS
  <2>3. k - 1 \in Nat /\ k - 1 <= n /\ k \in 1..n /\ ~ k <= k - 1
    BY <1>1, <2>2, <1>3
  <2>4. k - 1 \notin Bad
    <3> HIDE DEF Bad
    <3> QED
      BY <2>1, <2>3
  <2> QED
    BY <1>4, <2>2, <2>3, <2>4
<1>6. n \in Nat /\ n <= n
  BY <1>1
<1>7. Good(n)
  BY <1>5, <1>6
<1> QED
  BY <1>2, <1>7, Zenon DEF Good

LEMMA InList ==
    ASSUME NEW M, NEW list \in Seq(M)
    PROVE  /\ Len(list) \in Nat /\ list \in Seq(ToSet(list))
           /\ \A m \in ToSet(list) : \E i \in 1..Len(list) : m = list[i]
BY DEF ToSet

-----------------------------------------------------------------------------
(* What a decoder makes of markers.                                        *)

LEMMA OneMax == Max({1}) = 1
BY DEF Max

(* The cases the output of a transformation is in.                         *)
LEMMA Recognized ==
    ASSUME NEW markers, NEW comps
    PROVE  LET colors == default_decompress_parms(markers, comps)
           IN  /\ Len(comps) = 1 => colors = "GRAYSCALE"
               /\ Len(comps) = 3 /\ Saw(markers, "JFIF") # {} => colors = "YCbCr"
               /\ Len(comps) = 3 /\ Saw(markers, "JFIF") = {} /\ Saw(markers, "Adobe") = {1}
                  /\ markers[1].transform = 0 => colors = "RGB"
               /\ Len(comps) = 4 /\ Saw(markers, "Adobe") = {1} =>
                    colors = IF markers[1].transform = 0 THEN "CMYK" ELSE "YCCK"
               /\ Len(comps) \notin {1, 3, 4} => colors = "UNKNOWN"
<1> DEFINE adobe == Saw(markers, "Adobe")
           colors == default_decompress_parms(markers, comps)
           transform == markers[Max(adobe)].transform
           three == Len(comps) = 3
           four == Len(comps) = 4
<1>1. three /\ Saw(markers, "JFIF") # {} => colors = "YCbCr"
  BY SMT DEF default_decompress_parms
<1>2. adobe = {1} => transform = markers[1].transform /\ adobe # {}
  BY OneMax, Zenon
<1>3. three /\ Saw(markers, "JFIF") = {} /\ adobe # {} /\ transform = 0 => colors = "RGB"
  BY SMT DEF default_decompress_parms
<1>4. four /\ adobe # {} => colors = IF transform = 0 THEN "CMYK" ELSE "YCCK"
  BY SMT DEF default_decompress_parms
<1>5. Len(comps) \notin {1, 3, 4} => colors = "UNKNOWN"
  BY SMT DEF default_decompress_parms
<1> HIDE DEF colors, transform, three, four
<1>6. three /\ Saw(markers, "JFIF") = {} /\ adobe = {1} /\ markers[1].transform = 0
      => colors = "RGB"
  BY <1>3, <1>2, Zenon
<1>7. four /\ adobe = {1} => colors = IF markers[1].transform = 0 THEN "CMYK" ELSE "YCCK"
  BY <1>2, <1>4, Zenon
<1> QED
  BY <1>1, <1>5, <1>6, <1>7 DEF colors, three, four, default_decompress_parms

(* The cases a source is in.                                               *)
LEMMA SourceColors ==
    ASSUME NEW markers, NEW comps
    PROVE  LET colors == default_decompress_parms(markers, comps)
           IN  /\ Len(comps) = 3 => colors \in {"YCbCr", "RGB"}
               /\ Len(comps) = 3 /\ colors = "RGB" => Saw(markers, "JFIF") = {}
               /\ Len(comps) = 4 => colors \in {"CMYK", "YCCK"}
BY SMT DEF default_decompress_parms

LEMMA FinalColors ==
    ASSUME NEW jb \in Jobs
    PROVE  /\ FinalOf(jb).colors = IF jb.force_grayscale THEN "GRAYSCALE" ELSE jb.source.colors
           /\ Len(FinalOf(jb).comps) = IF jb.force_grayscale THEN 1 ELSE Len(jb.source.comps)
<1> DEFINE Fields == {"image_width", "image_height", "colors", "comps", "quant"}
           d == CorrectedOf(jb)
           r == TrimRight(d, jb.transform)
           b == TrimBottom(r, jb.transform)
<1>1. /\ jb.source \in SourceFile /\ BaseOf(jb) \in Info /\ CopiedOf(jb.source) \in Info
      /\ jb.force_grayscale \in BOOLEAN
  BY JobType
<1>2. DOMAIN BaseOf(jb) = Fields
  BY <1>1, SMT DEF Info
<1>3. BaseOf(jb).colors = IF jb.force_grayscale THEN "GRAYSCALE" ELSE jb.source.colors
  BY <1>1, CopiedType, GrayscaleType, Zenon DEF BaseOf
<1> HIDE DEF Fields
<1>4. ASSUME NEW info, DOMAIN info = Fields, NEW w, NEW h
      PROVE  /\ [info EXCEPT !.image_width = w].colors = info.colors
             /\ [info EXCEPT !.image_height = h].colors = info.colors
             /\ DOMAIN [info EXCEPT !.image_width = w] = Fields
             /\ DOMAIN [info EXCEPT !.image_height = h] = Fields
  BY <1>4, SMT DEF Fields
<1>5. DOMAIN d = Fields /\ d.colors = BaseOf(jb).colors
  <2>1. CASE Swaps(jb.transform)
    <3>1. d \in Info /\ d.colors = BaseOf(jb).colors
      BY <1>1, TransposedType, <2>1 DEF CorrectedOf, Corrected
    <3>2. DOMAIN d = Fields
      <4> HIDE DEF d
      <4> QED
        BY <3>1, SMT DEF Info, Fields
    <3> QED
      BY <3>1, <3>2
  <2>2. CASE ~Swaps(jb.transform)
    BY <1>2, <2>2, Zenon DEF CorrectedOf, Corrected
  <2> QED
    BY <2>1, <2>2
<1> HIDE DEF d
<1>6. DOMAIN r = Fields /\ r.colors = d.colors
  BY <1>4, <1>5, Zenon DEF TrimRight, trim_right_edge
<1> HIDE DEF r
<1>7. FinalOf(jb).colors = BaseOf(jb).colors
  BY <1>5, <1>6, <1>4, Zenon DEF FinalOf, d, r, TrimBottom, trim_bottom_edge
<1>8. Len(FinalOf(jb).comps) = IF jb.force_grayscale THEN 1 ELSE Len(jb.source.comps)
  BY FinalGeometry, KeptShape, Zenon
<1> QED
  BY <1>3, <1>7, <1>8, Zenon

(* Whatever is copied behind the markers of the header, the file is taken  *)
(* for what it is.                                                         *)
LEMMA ColorsTold ==
    ASSUME NEW jb \in Jobs,
           NEW rest \in Seq({m \in ToSet(jb.source.markers) :
                                ~Duplicate(m, FinalOf(jb).colors)})
    PROVE  default_decompress_parms(HeaderMarkers(FinalOf(jb).colors) \o rest,
                                    FinalOf(jb).comps) = FinalOf(jb).colors
<1> DEFINE colors == FinalOf(jb).colors
           comps == FinalOf(jb).comps
           s == jb.source
           own == Adobe(IF colors = "YCCK" THEN 2 ELSE 0)
           w == HeaderMarkers(colors) \o rest
           Copy == {m \in ToSet(s.markers) : ~Duplicate(m, colors)}
<1>1. /\ colors = (IF jb.force_grayscale THEN "GRAYSCALE" ELSE s.colors)
      /\ Len(comps) = (IF jb.force_grayscale THEN 1 ELSE Len(s.comps))
  BY FinalColors, Zenon
<1>2. /\ s.colors = default_decompress_parms(s.markers, s.comps)
      /\ \A m \in ToSet(s.markers) :
            (m.id = "JFIF" => m.kind = "APP0") /\ (m.id = "Adobe" => m.kind = "APP14")
  BY ColorsAreTold, Zenon
<1>3. s \in SourceFile /\ Len(s.comps) \in Nat /\ Len(s.markers) \in Nat
      /\ \A m \in ToSet(s.markers) : \E j \in 1..Len(s.markers) : m = s.markers[j]
  <2>1. s \in SourceFile
    BY JobType
  <2>2. Len(s.comps) \in Nat /\ Len(s.markers) \in Nat
        /\ \A m \in ToSet(s.markers) : \E j \in 1..Len(s.markers) : m = s.markers[j]
    <3> DEFINE M == [kind : STRING, id : STRING, short : BOOLEAN, transform : Nat]
    <3>1. s.comps \in Seq(FileComponent) /\ s.markers \in Seq(M)
      BY <2>1, Zenon DEF SourceFile, FileComponent
    <3> HIDE DEF s, M
    <3>2. \A m \in ToSet(s.markers) : \E j \in 1..Len(s.markers) : m = s.markers[j]
      BY <3>1, InList, Zenon
    <3> QED
      BY <3>1, <3>2
  <2> QED
    BY <2>1, <2>2
<1>4. rest \in Seq(Copy)
  OBVIOUS
<1> HIDE DEF colors, comps, w, own, s, Copy
<1>5. /\ Len(rest) \in Nat
      /\ \A i \in 1..Len(rest) : rest[i] \in ToSet(s.markers) /\ ~Duplicate(rest[i], colors)
  BY <1>4 DEF Copy
\* With an Adobe marker of its own the output has no other.
<1>6. ASSUME write_Adobe_marker(colors), ~write_JFIF_header(colors)
      PROVE  /\ Saw(w, "Adobe") = {1} /\ w[1] = own /\ own.transform = (IF colors = "YCCK" THEN 2 ELSE 0)
             /\ \A i \in 2..Len(w) : w[i] = rest[i - 1] /\ i - 1 \in 1..Len(rest)
             /\ own.id = "Adobe"
  <2>1. /\ Len(w) = Len(rest) + 1 /\ w[1] = own
        /\ \A i \in 2..Len(w) : w[i] = rest[i - 1] /\ i - 1 \in 1..Len(rest)
    BY <1>5, <1>6 DEF HeaderMarkers, own, w
  <2>2. \A i \in 2..Len(w) : w[i].id # "Adobe"
    <3> SUFFICES ASSUME NEW i \in 2..Len(w), w[i].id = "Adobe" PROVE FALSE
      OBVIOUS
    <3> QED
      BY <1>6, <2>1, <1>2, <1>5, Zenon DEF Duplicate
  <2>3. 1 \in 1..Len(w)
    BY <1>5, <2>1
  <2> QED
    BY <2>1, <2>2, <1>5, <2>3 DEF Saw, own, Adobe, Marker
<1>7. CASE Len(comps) = 1
  BY <1>1, <1>2, <1>7, Recognized, Zenon DEF w, colors, comps
<1>8. CASE Len(comps) # 1
  <2>1. colors = s.colors /\ Len(comps) = Len(s.comps)
    BY <1>1, <1>8, Zenon
  <2>2. CASE Len(comps) = 3
    <3>1. colors \in {"YCbCr", "RGB"} /\ (colors = "RGB" => Saw(s.markers, "JFIF") = {})
      BY <1>2, <2>1, <2>2, SourceColors, Zenon
    <3>2. CASE colors = "YCbCr"
      <4>1. w[1] = JFIF /\ 1 \in 1..Len(w)
        BY <3>2, <1>5, SMT DEF w, HeaderMarkers, write_JFIF_header, write_Adobe_marker
      <4>2. Saw(w, "JFIF") # {}
        BY <4>1 DEF Saw, JFIF, Marker
      <4> QED
        BY <2>2, <3>2, <4>2, Recognized, Zenon DEF w, comps, colors
    <3>3. CASE colors = "RGB"
      <4>1. write_Adobe_marker(colors) /\ ~write_JFIF_header(colors) /\ colors # "YCCK"
        BY <3>3, SMT DEF write_Adobe_marker, write_JFIF_header
      <4>2. Saw(w, "JFIF") = {}
        <5> SUFFICES ASSUME NEW i \in 1..Len(w), w[i].id = "JFIF", ~w[i].short PROVE FALSE
          BY Zenon DEF Saw
        <5>1. w[i] \in ToSet(s.markers)
          BY <1>5, <1>6, <4>1
        <5>2. PICK j \in 1..Len(s.markers) : w[i] = s.markers[j]
          BY <1>3, <5>1, Zenon
        <5> QED
          BY <3>1, <3>3, <5>2, Zenon DEF Saw
      <4> QED
        BY <2>2, <3>3, <1>6, <4>1, <4>2, Recognized, Zenon DEF w, comps, colors
    <3> QED
      BY <3>1, <3>2, <3>3, Zenon
  <2>3. CASE Len(comps) = 4
    <3>1. colors \in {"CMYK", "YCCK"}
      BY <1>2, <2>1, <2>3, SourceColors, Zenon
    <3>2. Saw(w, "Adobe") = {1} /\ w[1].transform = IF colors = "YCCK" THEN 2 ELSE 0
      BY <1>6, <3>1, SMT DEF write_Adobe_marker, write_JFIF_header
    <3>3. default_decompress_parms(w, comps) = colors
      BY <3>1, <3>2, <2>3, Recognized, SMT
    <3> QED
      BY <3>3, Zenon DEF w, comps, colors
  <2>4. CASE Len(comps) \notin {1, 3, 4}
    BY <1>2, <2>1, <2>4, Recognized, Zenon DEF w, comps, colors
  <2> QED
    BY <1>8, <2>2, <2>3, <2>4, Zenon
<1> QED
  BY <1>7, <1>8

-----------------------------------------------------------------------------
(* The color space of the output.                                          *)

MarkersInv ==
    /\ job \in Jobs
    /\ stage = "jtransform_adjust_parameters" => dstinfo = CopiedOf(job.source)
    /\ stage \in Ready => dstinfo = FinalOf(job)
    /\ marker_list = Saved(job.source, job.copyoption)
    /\ stage = "jcopy_markers_execute" => written = HeaderMarkers(dstinfo.colors)
    /\ stage \in Looping =>
        written = HeaderMarkers(dstinfo.colors) \o Copied(marker_list, dstinfo.colors)

LEMMA MarkersStay ==
    ASSUME MarkersInv, UNCHANGED << job, marker_list, written, dstinfo >>,
           stage' = "jtransform_adjust_parameters" => stage = "jtransform_adjust_parameters",
           stage' \in Ready => stage \in Ready,
           stage' = "jcopy_markers_execute" => stage = "jcopy_markers_execute",
           stage' \in Looping => stage \in Looping
    PROVE  MarkersInv'
BY Zenon DEF MarkersInv

LEMMA AdjustMarkers == ASSUME MarkersInv, jtransform_adjust_parameters PROVE MarkersInv'
<1>1. /\ stage = "jtransform_adjust_parameters" /\ UNCHANGED << job, marker_list >>
      /\ \/ stage' = "error"
         \/ /\ job.force_grayscale /\ dstinfo' = Adjusted(Grayscale(dstinfo))
            /\ stage' = "jpeg_write_coefficients"
         \/ /\ ~ job.force_grayscale /\ dstinfo' = Adjusted(dstinfo)
            /\ stage' = "jpeg_write_coefficients"
  BY Zenon DEF jtransform_adjust_parameters
<1>2. /\ stage' # "jtransform_adjust_parameters" /\ stage' # "jcopy_markers_execute"
      /\ stage' \notin Looping /\ (stage' = "error" => stage' \notin Ready)
  BY <1>1, SMT DEF Ready, Looping
<1> QED
  BY <1>1, <1>2, Zenon DEF MarkersInv, Adjusted, FinalOf, CorrectedOf, BaseOf

LEMMA NextMarkers == ASSUME MarkersInv, Next PROVE MarkersInv'
<1>1. CASE jtransform_request_workspace \/ jpeg_read_coefficients
  BY <1>1, MarkersStay DEF jtransform_request_workspace, jpeg_read_coefficients, Looping,
     Ready
<1>2. CASE jpeg_copy_critical_parameters
  BY <1>2 DEF jpeg_copy_critical_parameters, CopiedOf, Looping, Ready, MarkersInv
<1>3. CASE jtransform_adjust_parameters
  BY <1>3, AdjustMarkers
<1>4. CASE jpeg_write_coefficients
  BY <1>4 DEF jpeg_write_coefficients, Looping, Ready, MarkersInv
<1>5. CASE jcopy_markers_execute
  BY <1>5 DEF jcopy_markers_execute, Ready, MarkersInv
<1>6. CASE TransformRow \/ NextComponent
  BY <1>6, MarkersStay, Zenon DEF TransformRow, NextComponent
<1>7. CASE Executed
  BY <1>7, MarkersStay DEF Executed, Executing, Ready, Looping
<1> QED
  BY <1>1, <1>2, <1>3, <1>4, <1>5, <1>6, <1>7, Zenon DEF Next

(* Whatever markers the source has and whichever are copied, a decoder     *)
(* that reads the output takes the coefficients for the color space they   *)
(* are in: with the markers the library writes and those it holds back as  *)
(* duplicates, no marker that is copied can mislead it.                    *)
THEOREM ColorsSurviveHolds == Spec => []ColorsSurvive
<1>1. Init => MarkersInv
  <2> SUFFICES ASSUME Init PROVE MarkersInv
    OBVIOUS
  <2> QED
    BY DEF MarkersInv, Looping, Ready, Init
<1>2. MarkersInv /\ [Next]_vars => MarkersInv'
  <2>1. ASSUME MarkersInv, UNCHANGED vars PROVE MarkersInv'
    BY <2>1, MarkersStay, Zenon DEF vars
  <2> QED
    BY <2>1, NextMarkers, Zenon
<1>3. MarkersInv => ColorsSurvive
  <2> SUFFICES ASSUME MarkersInv, stage = "done"
               PROVE  default_decompress_parms(written, dstinfo.comps) = dstinfo.colors
    BY Zenon DEF ColorsSurvive
  <2> DEFINE M == ToSet(job.source.markers)
  <2>1. job \in Jobs /\ dstinfo = FinalOf(job) /\ stage \in Looping
    BY Zenon DEF MarkersInv, Ready, Looping
  <2>2. marker_list \in Seq(M)
    <3>1. marker_list \in Seq(M \cap {m \in M : Saves(job.copyoption, m)})
      BY <2>1, JobType, InList, SelectedType DEF MarkersInv, Saved, SourceFile
    <3> HIDE DEF M
    <3> QED
      BY <3>1
  <2>3. Copied(marker_list, dstinfo.colors) \in Seq({m \in M : ~Duplicate(m, dstinfo.colors)})
    <3> DEFINE D == {m \in ToSet(marker_list) : ~Duplicate(m, dstinfo.colors)}
               E == {m \in M : ~Duplicate(m, dstinfo.colors)}
    <3>1. Copied(marker_list, dstinfo.colors) \in Seq(M \cap D)
      BY <2>2, SelectedType, Zenon DEF Copied
    <3>2. M \cap D \subseteq E
      OBVIOUS
    <3> HIDE DEF M, D, E
    <3>3. Copied(marker_list, dstinfo.colors) \in Seq(E)
      BY <3>1, <3>2
    <3> QED
      BY <3>3, Zenon DEF E
  <2> QED
    BY <2>1, <2>3, ColorsTold, Zenon DEF MarkersInv
<1> QED
  BY <1>1, <1>2, <1>3, PTL DEF Spec
=============================================================================
