---------------------------- MODULE Color_proofs ----------------------------
(***************************************************************************)
(* The conversion of the rows an application writes: for every picture,    *)
(* however its rows are handed over, each pixel gets the samples that the  *)
(* equations of jccolor.c give.                                            *)
(***************************************************************************)
EXTENDS Color, FiniteSetTheorems, SequenceTheorems, TLAPS

(***************************************************************************)
(* The arithmetic of rgb_ycc_convert.                                      *)
(***************************************************************************)
LEMMA Shifted ==
    ASSUME NEW s \in Nat, s <= 16777215
    PROVE  /\ s \div 65536 \in 0..255 /\ (s \div 65536) % 256 = s \div 65536
           /\ 65536 * (s \div 65536) <= s /\ s < 65536 * (s \div 65536) + 65536
BY SMT

\* What the tables add up to is a sample, although nothing limits it, and the
\* one nearest to the value of the equation; and a gray has no chroma.
LEMMA RgbYccNear ==
    ASSUME NEW r \in 0..255, NEW g \in 0..255, NEW b \in 0..255
    PROVE  /\ \A i \in 1..3 : Near(rgb_ycc_convert(r, g, b)[i], ExactYCC(r, g, b)[i])
           /\ r = g /\ g = b => rgb_ycc_convert(r, g, b) = <<r, 128, 128>>
<1> DEFINE y  == Luminance(r, g, b)
           cb == BlueChroma(r, g, b)
           cr == RedChroma(r, g, b)
<1>1. rgb_ycc_convert(r, g, b) = <<y, cb, cr>>
  BY DEF rgb_ycc_convert
<1>2. /\ y \in 0..255
      /\ 100000 * y - (29900 * r + 58700 * g + 11400 * b) <= 60000
      /\ (29900 * r + 58700 * g + 11400 * b) - 100000 * y <= 60000
      /\ r = g /\ g = b => y = r
  <2> DEFINE s == 19595 * r + 38470 * g + 7471 * b + 32768
  <2>1. s \in Nat /\ s <= 16777215
    BY SMT
  <2>2. y = (s \div 65536) % 256
    BY SMT DEF Luminance, R_Y, G_Y, B_Y, RIGHT_SHIFT, CBCR_OFFSET, CENTERJSAMPLE,
               SCALE, ONE_HALF, Samples, MAXJSAMPLE
  <2> HIDE DEF s, y
  <2>3. /\ s \div 65536 \in 0..255 /\ (s \div 65536) % 256 = s \div 65536
        /\ 65536 * (s \div 65536) <= s /\ s < 65536 * (s \div 65536) + 65536
    BY SMT, <2>1, Shifted
  <2> QED
    BY <2>2, <2>3, SMT DEF s
<1>3. /\ cb \in 0..255
      /\ 100000 * cb - (50000 * b - 16874 * r - 33126 * g + 12800000) <= 60000
      /\ (50000 * b - 16874 * r - 33126 * g + 12800000) - 100000 * cb <= 60000
      /\ r = g /\ g = b => cb = 128
  <2> DEFINE s == 32768 * b - 11059 * r - 21709 * g + 8421375
  <2>1. s \in Nat /\ s <= 16777215
    BY SMT
  <2>2. cb = (s \div 65536) % 256
    BY SMT DEF BlueChroma, R_CB, G_CB, B_CB, RIGHT_SHIFT, CBCR_OFFSET, CENTERJSAMPLE,
               SCALE, ONE_HALF, Samples, MAXJSAMPLE
  <2> HIDE DEF s, cb
  <2>3. /\ s \div 65536 \in 0..255 /\ (s \div 65536) % 256 = s \div 65536
        /\ 65536 * (s \div 65536) <= s /\ s < 65536 * (s \div 65536) + 65536
    BY SMT, <2>1, Shifted
  <2> QED
    BY <2>2, <2>3, SMT DEF s
<1>4. /\ cr \in 0..255
      /\ 100000 * cr - (50000 * r - 41869 * g - 8131 * b + 12800000) <= 60000
      /\ (50000 * r - 41869 * g - 8131 * b + 12800000) - 100000 * cr <= 60000
      /\ r = g /\ g = b => cr = 128
  <2> DEFINE s == 32768 * r - 27439 * g - 5329 * b + 8421375
  <2>1. s \in Nat /\ s <= 16777215
    BY SMT
  <2>2. cr = (s \div 65536) % 256
    BY SMT DEF RedChroma, R_CR, G_CR, B_CR, B_CB, RIGHT_SHIFT, CBCR_OFFSET, CENTERJSAMPLE,
               SCALE, ONE_HALF, Samples, MAXJSAMPLE
  <2> HIDE DEF s, cr
  <2>3. /\ s \div 65536 \in 0..255 /\ (s \div 65536) % 256 = s \div 65536
        /\ 65536 * (s \div 65536) <= s /\ s < 65536 * (s \div 65536) + 65536
    BY SMT, <2>1, Shifted
  <2> QED
    BY <2>2, <2>3, SMT DEF s
<1> HIDE DEF y, cb, cr
<1>5. \A i \in 1..3 : Near(<<y, cb, cr>>[i], ExactYCC(r, g, b)[i])
  BY SMT, <1>2, <1>3, <1>4 DEF Near, ExactYCC, UNIT, CENTERJSAMPLE, Samples,
            MAXJSAMPLE
<1> QED
  BY <1>2, <1>3, <1>4, <1>1, <1>5

(***************************************************************************)
(* The picture.                                                            *)
(***************************************************************************)
LEMMA InputLastOf ==
    ASSUME NEW n \in Nat, NEW f, DOMAIN f = 0..n
    PROVE  LastOf(f) = n
  BY SMT DEF LastOf, Max

LEMMA PictureRows ==
    ASSUME picture \in Pictures
    PROVE  /\ Height \in Nat \ {0} /\ Width \in Nat \ {0}
           /\ picture.input_components \in Nat
           /\ Len(picture.h) \in 1..10
           /\ picture.h \in Seq(1..4) /\ picture.v \in Seq(1..4) /\ Len(picture.v) = Len(picture.h)
           /\ DOMAIN picture.rows = 0..Height - 1
           /\ \A r \in 0..Height - 1 :
                /\ DOMAIN picture.rows[r] = 0..Width - 1
                /\ \A c \in 0..Width - 1 :
                      picture.rows[r][c] \in [1..picture.input_components -> 0..255]
<1> DEFINE height == LastOf(picture.rows)
           width  == LastOf(picture.rows[0])
<1>1. /\ picture.h \in Seq(1..4) /\ picture.v \in Seq(1..4)
      /\ Len(picture.h) \in 1..10 /\ Len(picture.v) = Len(picture.h)
      /\ picture.input_components \in Nat /\ height \in Nat /\ width \in Nat
      /\ picture.rows \in [0..height -> [0..width -> [1..picture.input_components -> 0..255]]]
  BY PicturesAssumption DEF WellFormedPicture, Samples, MAXJSAMPLE
<1>2. Height = height + 1 /\ Width = width + 1
  BY DEF Height, Width
<1> HIDE DEF height, width
<1>3. /\ DOMAIN picture.rows = 0..Height - 1
      /\ 0..Width - 1 = 0..width
  BY <1>1, <1>2, SMT
<1>4. \A r \in 0..Height - 1 : picture.rows[r] \in [0..width -> [1..picture.input_components -> 0..255]]
  BY <1>1, <1>3, Zenon
<1>5. Height \in Nat \ {0} /\ Width \in Nat \ {0}
  BY <1>1, <1>2
<1>6. ASSUME NEW r \in 0..Height - 1
      PROVE  /\ DOMAIN picture.rows[r] = 0..Width - 1
             /\ \A c \in 0..Width - 1 : picture.rows[r][c] \in [1..picture.input_components -> 0..255]
  BY <1>3, <1>4, Zenon
<1> QED
  BY <1>1, <1>3, <1>5, <1>6, Zenon

LEMMA PictureAccepted ==
    ASSUME CompressError(picture) = "none"
    PROVE  /\ picture.input_components \in Counts(picture.in_color_space)
           /\ Len(picture.h) \in Counts(picture.jpeg_color_space)
           /\ ConvertsInto(picture.in_color_space, picture.jpeg_color_space)
           /\ picture.jpeg_color_space = "UNKNOWN" => Len(picture.h) = picture.input_components
  BY SMT DEF CompressError, ConverterError

\* The factors of the components, and the largest.
LEMMA LargestFactor ==
    ASSUME picture \in Pictures
    PROVE  max_v_sampling \in 1..4
<1> DEFINE factors == {picture.v[i] : i \in DOMAIN picture.v}
<1>1. factors \subseteq 1..4 /\ picture.v[1] \in factors
  BY PictureRows, SMT
<1>2. max_v_sampling = Max(factors)
  BY DEF max_v_sampling, Biggest
<1> HIDE DEF factors
<1>3. \E m \in factors : \A n \in factors : m >= n
  <2>1. CASE 4 \in factors
    BY <1>1, <2>1, SMT
  <2>2. CASE 4 \notin factors /\ 3 \in factors
    BY <1>1, <2>2, SMT
  <2>3. CASE 4 \notin factors /\ 3 \notin factors /\ 2 \in factors
    BY <1>1, <2>3, SMT
  <2>4. CASE 4 \notin factors /\ 3 \notin factors /\ 2 \notin factors
    <3> DEFINE first == picture.v[1]
    <3> HIDE DEF first
    <3>1. first \in factors
      BY <1>1 DEF first
    <3>2. \A n \in factors : first >= n
      BY <3>1, <1>1, <2>4, SMT
    <3> QED
      BY <3>1, <3>2, Zenon
  <2> QED
    BY <2>1, <2>2, <2>3, <2>4
<1>4. Max(factors) \in factors
  BY <1>3, Zenon DEF Max
<1> QED
  BY <1>1, <1>2, <1>4

\* A pixel converted has the samples that its color calls for.
LEMMA ConvertRepresents ==
    ASSUME CompressError(picture) = "none",
           NEW p \in [1..picture.input_components -> 0..255]
    PROVE  Represents([i \in 1..Len(picture.h) |-> converted(picture, p)[i]], p)
<1> DEFINE in  == picture.in_color_space
           out == picture.jpeg_color_space
           s   == [i \in 1..Len(picture.h) |-> converted(picture, p)[i]]
<1>1. /\ picture.input_components \in Counts(in)
      /\ Len(picture.h) \in Counts(out)
      /\ ConvertsInto(in, out)
  BY PictureAccepted
<1> SUFFICES Represents(s, p)
  OBVIOUS
<1>2. CASE in = "RGB" /\ out = "YCbCr"
  <2>1. picture.input_components = 3 /\ Len(picture.h) = 3
    BY <1>1, <1>2 DEF Counts
  <2>2. p[1] \in 0..255 /\ p[2] \in 0..255 /\ p[3] \in 0..255
    BY <2>1
  <2>3. s = rgb_ycc_convert(p[1], p[2], p[3])
    BY <2>1, <1>2, SMT DEF rgb_ycc_convert, converted
  <2>4. \A i \in 1..3 : Near(s[i], ExactYCC(p[1], p[2], p[3])[i])
    BY <2>2, <2>3, RgbYccNear
  <2>5. IsGray(p) => s = <<p[1], 128, 128>>
    <3> SUFFICES ASSUME p[1] = p[2], p[2] = p[3]  PROVE s = <<p[1], 128, 128>>
      BY DEF IsGray
    <3> DEFINE r == p[1]
               g == p[2]
               b == p[3]
    <3>1. r \in 0..255 /\ g \in 0..255 /\ b \in 0..255 /\ r = g /\ g = b
      BY <2>2
    <3> HIDE DEF r, g, b
    <3>2. rgb_ycc_convert(r, g, b) = <<r, 128, 128>>
      BY <3>1, RgbYccNear, Zenon
    <3> QED
      BY <2>3, <3>2, Zenon DEF r, g, b
  <2> HIDE DEF s
  <2> QED
    BY <1>2, <2>4, <2>5 DEF Represents, CENTERJSAMPLE
<1>3. CASE in = "RGB" /\ out = "GRAYSCALE"
  <2>1. picture.input_components = 3 /\ Len(picture.h) = 1
    BY <1>1, <1>3 DEF Counts
  <2>2. s[1] = rgb_ycc_convert(p[1], p[2], p[3])[1]
    BY <2>1, <1>3 DEF converted, rgb_gray_convert, rgb_ycc_convert
  <2>3. Near(s[1], ExactYCC(p[1], p[2], p[3])[1])
    <3> DEFINE r == p[1]
               g == p[2]
               b == p[3]
    <3>1. r \in 0..255 /\ g \in 0..255 /\ b \in 0..255
      BY <2>1
    <3> HIDE DEF r, g, b
    <3>2. \A i \in 1..3 : Near(rgb_ycc_convert(r, g, b)[i], ExactYCC(r, g, b)[i])
      BY <3>1, RgbYccNear, Zenon
    <3>3. Near(rgb_ycc_convert(r, g, b)[1], ExactYCC(r, g, b)[1])
      BY <3>2
    <3> QED
      BY <2>2, <3>3, Zenon DEF r, g, b
  <2> HIDE DEF s
  <2> QED
    BY <1>3, <2>3 DEF Represents
<1>4. CASE in = "CMYK" /\ out = "YCCK"
  <2>1. picture.input_components = 4 /\ Len(picture.h) = 4
    BY <1>1, <1>4 DEF Counts
  <2> DEFINE r == 255 - p[1]
             g == 255 - p[2]
             b == 255 - p[3]
             ycc == rgb_ycc_convert(r, g, b)
  <2>2. converted(picture, p) = Append(ycc, p[4])
    BY <1>4 DEF converted, cmyk_ycck_convert, MAXJSAMPLE
  <2>3. r \in 0..255 /\ g \in 0..255 /\ b \in 0..255
    BY <2>1
  <2>4. \E x1, x2, x3 : ycc = <<x1, x2, x3>>
    BY DEF rgb_ycc_convert
  <2> HIDE DEF r, g, b
  <2>5. \A i \in 1..3 : Near(ycc[i], ExactYCC(r, g, b)[i])
    BY <2>3, RgbYccNear, Zenon
  <2> HIDE DEF ycc
  <2>6. (\A i \in 1..3 : s[i] = ycc[i]) /\ s[4] = p[4]
    BY <2>1, <2>2, <2>4, SMT
  <2> HIDE DEF s
  <2> QED
    BY <1>4, <2>6, <2>5 DEF Represents, MAXJSAMPLE, r, g, b
<1>5. CASE in \in {"GRAYSCALE", "YCbCr"} /\ out = "GRAYSCALE"
  <2>1. Len(picture.h) = 1
    BY <1>1, <1>5 DEF Counts
  <2>2. converted(picture, p) = <<p[1]>>
    BY <1>5 DEF converted, grayscale_convert
  <2>3. \A i \in DOMAIN s : s[i] = p[i]
    BY <2>1, <2>2
  <2> HIDE DEF s
  <2> QED
    BY <1>5, <2>3 DEF Represents
<1>6. CASE in = out /\ in # "GRAYSCALE"
  <2>1. \A i \in DOMAIN s : s[i] = p[i]
    BY <1>6 DEF converted
  <2> HIDE DEF s
  <2> QED
    BY <1>6, <2>1 DEF Represents
<1> QED
  BY <1>1, <1>2, <1>3, <1>4, <1>5, <1>6 DEF ConvertsInto

\* Copied in words or one by one, a pixel keeps its samples.
LEMMA QuadsCopy ==
    ASSUME NEW n \in Nat, NEW row, DOMAIN row = 0..n, NEW c \in 0..n, NEW i \in 1..3
    PROVE  QuadsConverted(row)[i][c] = row[c][i]
<1> DEFINE quads == 4 * ((n + 1) \div 4)
           B(m)  == row[m \div 3][(m % 3) + 1]
           q     == c \div 4
           k     == c % 4
<1>1. LastOf(row) = n
  BY InputLastOf
<1>2. \A m \in 0..3 * (n + 1) - 1 : Bytes(row)[m] = B(m)
  BY <1>1 DEF Bytes
<1>3. QuadsConverted(row)[i][c] = IF c < quads THEN copyquads(row, q)[i][k + 1]
                                        ELSE Bytes(row)[3 * c + i - 1]
  BY <1>1 DEF QuadsConverted
<1>4. CASE ~ c < quads
  <2>1. 3 * c + i - 1 \in 0..3 * (n + 1) - 1 /\ (3 * c + i - 1) \div 3 = c /\ (3 * c + i - 1) % 3 = i - 1
    BY SMT
  <2> DEFINE m == 3 * c + i - 1
  <2>2. Bytes(row)[m] = B(m)
    BY <1>2, <2>1
  <2>3. m \div 3 = c /\ (m % 3) + 1 = i
    BY <2>1, SMT
  <2>4. B(m) = row[c][i]
    BY <2>3, Zenon
  <2> QED
    BY <1>3, <1>4, <2>2, <2>4
<1>5. CASE c < quads
  <2>1. q \in Nat /\ k \in 0..3 /\ c = 4 * q + k /\ 12 * q + 11 <= 3 * (n + 1) - 1
    BY <1>5, SMT
  <2> HIDE DEF q, k
  <2>2. copyquads(row, q)[i][k + 1] = Bytes(row)[12 * q + 3 * k + i - 1]
    <3> DEFINE W(w, b) == Word(row, 3 * q + w)[b]
    <3>1. copyquads(row, q) = << <<W(0, 0), W(0, 3), W(1, 2), W(2, 1)>>,
                                       <<W(0, 1), W(1, 0), W(1, 3), W(2, 2)>>,
                                       <<W(0, 2), W(1, 1), W(2, 0), W(2, 3)>> >>
      BY DEF copyquads
    <3>2. \A w \in 0..2 : \A b \in 0..3 : W(w, b) = Bytes(row)[12 * q + 4 * w + b]
      BY <2>1, SMT DEF Word
    <3> HIDE DEF W
    <3> DEFINE F == Bytes(row)
    <3> HIDE DEF F
    <3>3. /\ W(0, 0) = F[12 * q + 0] /\ W(0, 1) = F[12 * q + 1] /\ W(0, 2) = F[12 * q + 2] /\ W(0, 3) = F[12 * q + 3]
          /\ W(1, 0) = F[12 * q + 4] /\ W(1, 1) = F[12 * q + 5] /\ W(1, 2) = F[12 * q + 6] /\ W(1, 3) = F[12 * q + 7]
          /\ W(2, 0) = F[12 * q + 8] /\ W(2, 1) = F[12 * q + 9] /\ W(2, 2) = F[12 * q + 10] /\ W(2, 3) = F[12 * q + 11]
      BY <3>2, <2>1, SMT DEF F
    <3>4. \/ k = 0 \/ k = 1 \/ k = 2 \/ k = 3
      BY <2>1
    <3>5. copyquads(row, q)[i][k + 1] = F[12 * q + 3 * k + i - 1]
      <4>1. CASE i = 1
        <5>1. CASE k = 0
          BY <2>1, <3>1, <3>3, <4>1, <5>1, SMT
        <5>2. CASE k = 1
          BY <2>1, <3>1, <3>3, <4>1, <5>2, SMT
        <5>3. CASE k = 2
          BY <2>1, <3>1, <3>3, <4>1, <5>3, SMT
        <5>4. CASE k = 3
          BY <2>1, <3>1, <3>3, <4>1, <5>4, SMT
        <5> QED
          BY <3>4, <5>1, <5>2, <5>3, <5>4
      <4>2. CASE i = 2
        <5>1. CASE k = 0
          BY <2>1, <3>1, <3>3, <4>2, <5>1, SMT
        <5>2. CASE k = 1
          BY <2>1, <3>1, <3>3, <4>2, <5>2, SMT
        <5>3. CASE k = 2
          BY <2>1, <3>1, <3>3, <4>2, <5>3, SMT
        <5>4. CASE k = 3
          BY <2>1, <3>1, <3>3, <4>2, <5>4, SMT
        <5> QED
          BY <3>4, <5>1, <5>2, <5>3, <5>4
      <4>3. CASE i = 3
        <5>1. CASE k = 0
          BY <2>1, <3>1, <3>3, <4>3, <5>1, SMT
        <5>2. CASE k = 1
          BY <2>1, <3>1, <3>3, <4>3, <5>2, SMT
        <5>3. CASE k = 2
          BY <2>1, <3>1, <3>3, <4>3, <5>3, SMT
        <5>4. CASE k = 3
          BY <2>1, <3>1, <3>3, <4>3, <5>4, SMT
        <5> QED
          BY <3>4, <5>1, <5>2, <5>3, <5>4
      <4> QED
        BY <4>1, <4>2, <4>3
    <3> QED
      BY <3>5 DEF F
  <2>3. QuadsConverted(row)[i][c] = Bytes(row)[12 * q + 3 * k + i - 1]
    BY <1>3, <1>5, <2>2 DEF q, k
  <2>4. /\ 12 * q + 3 * k + i - 1 \in 0..3 * (n + 1) - 1
        /\ (12 * q + 3 * k + i - 1) \div 3 = c /\ (12 * q + 3 * k + i - 1) % 3 = i - 1
    BY <2>1, SMT
  <2> QED
    BY <1>2, <2>3, <2>4, SMT
<1> QED
  BY <1>4, <1>5

(***************************************************************************)
(* What the conversion buffer holds.                                       *)
(***************************************************************************)
Buffered ==
    /\ CompressError(picture) = "none"
    /\ next_scanline <= Height
    /\ DOMAIN color_buf = 1..Len(picture.h)
    /\ \A i \in 1..Len(picture.h) :
         /\ DOMAIN color_buf[i] = 0..next_scanline - 1
         /\ \A r \in 0..next_scanline - 1 : \A c \in 0..Width - 1 :
              color_buf[i][r][c] = converted(picture, picture.rows[r][c])[i]

InputInvariant ==
    /\ picture \in Pictures
    /\ next_scanline \in Nat /\ row_groups \in Nat
    /\ cstate = "START" => next_scanline = 0
    /\ cstate \in {"SCANNING", "FINISHED"} => Buffered

LEMMA BufferedRepresents ==
    ASSUME InputInvariant
    PROVE  PixelsAreConverted
<1> SUFFICES ASSUME NEW r \in 0..next_scanline - 1, NEW c \in 0..Width - 1,
                    cstate \in {"SCANNING", "FINISHED"}
             PROVE  Represents([i \in DOMAIN color_buf |-> color_buf[i][r][c]],
                                     picture.rows[r][c])
  BY DEF PixelsAreConverted, PixelsAreConverted
<1> DEFINE p == picture.rows[r][c]
<1>1. Buffered /\ picture \in Pictures
  BY DEF InputInvariant
<1>2. p \in [1..picture.input_components -> 0..255]
  <2>1. r \in 0..Height - 1
    BY <1>1, PictureRows DEF Buffered, InputInvariant
  <2> QED
    BY <1>1, <2>1, PictureRows
<1> HIDE DEF p
<1>3. Represents([i \in 1..Len(picture.h) |-> converted(picture, p)[i]], p)
  BY <1>1, <1>2, ConvertRepresents DEF Buffered
<1> QED
  BY <1>1, <1>3 DEF p, Buffered

\* A turn of the preprocessor's loop adds whole rows below those it has.
LEMMA RowsAdded ==
    ASSUME InputInvariant, ConvertRows
    PROVE  InputInvariant'
<1>1. /\ cstate = "SCANNING" /\ Buffered /\ picture \in Pictures
      /\ UNCHANGED <<picture, cstate, components, row_groups>>
      /\ next_scanline \in Nat /\ row_groups \in Nat
  BY DEF InputInvariant, ConvertRows
<1> DEFINE last == Min({RowsTaken, Height})
<1>2. PICK num_rows \in 1..last - next_scanline, is_quad \in BOOLEAN :
        /\ color_buf' = [i \in DOMAIN color_buf |->
             [r \in DOMAIN color_buf[i] \cup next_scanline..next_scanline + num_rows - 1 |->
                IF r \in next_scanline..next_scanline + num_rows - 1
                THEN RowConverted(picture.rows[r], num_rows, is_quad)[i]
                ELSE color_buf[i][r]]]
        /\ next_scanline' = next_scanline + num_rows
  BY DEF ConvertRows
<1>3. last \in Int /\ last <= Height
  <2>1. RowsTaken \in Int /\ Height \in Int
    BY <1>1, PictureRows, LargestFactor, SMT DEF RowsTaken
  <2>2. \E m \in {RowsTaken, Height} : \A n \in {RowsTaken, Height} : m <= n
    BY <2>1, SMT
  <2>3. last \in {RowsTaken, Height} /\ \A n \in {RowsTaken, Height} : last <= n
    BY <2>2, Zenon DEF Min
  <2> QED
    BY <2>1, <2>3, SMT
<1> HIDE DEF last
<1>4. next_scanline' \in Nat /\ next_scanline' <= Height /\ num_rows \in Nat
  BY <1>1, PictureRows, <1>2, <1>3, SMT
<1>5. ASSUME NEW i \in 1..Len(picture.h)
      PROVE  DOMAIN color_buf'[i] = 0..next_scanline' - 1
  <2>1. DOMAIN color_buf[i] = 0..next_scanline - 1
    BY <1>1 DEF Buffered
  <2>2. DOMAIN color_buf'[i] = (0..next_scanline - 1) \cup (next_scanline..next_scanline + num_rows - 1)
    BY <1>1, <1>2, <2>1, Zenon DEF Buffered
  <2>3. (0..next_scanline - 1) \cup (next_scanline..next_scanline + num_rows - 1) = 0..next_scanline + num_rows - 1
    BY <1>1, <1>4, SMT
  <2>4. next_scanline' = next_scanline + num_rows
    BY <1>2
  <2>5. 0..next_scanline' - 1 = 0..next_scanline + num_rows - 1
    BY <1>1, <1>4, <2>4, SMT
  <2> QED
    BY <2>2, <2>3, <2>5, Zenon
<1>6. ASSUME NEW i \in 1..Len(picture.h), NEW r \in 0..next_scanline' - 1, NEW c \in 0..Width - 1
      PROVE  color_buf'[i][r][c] = converted(picture, picture.rows[r][c])[i]
  <2>1. r \in DOMAIN color_buf'[i] /\ r \in 0..Height - 1
    <3>1. Height \in Int
      BY <1>1, PictureRows
    <3>2. r \in 0..Height - 1
      <4> DEFINE height == Height
      <4>1. height \in Int /\ next_scanline' \in Nat /\ next_scanline' <= height
        BY <1>4, <3>1
      <4> HIDE DEF height
      <4> QED
        BY <1>1, <1>2, <4>1, SMT DEF height
    <3> QED
      BY <1>5, <3>2
  <2>2. r \in DOMAIN color_buf[i] \cup next_scanline..next_scanline + num_rows - 1
    BY <1>1, <1>2, <2>1, Zenon DEF Buffered
  <2>3. CASE r \in next_scanline..next_scanline + num_rows - 1
    <3>1. CompressError(picture) = "none" /\ picture \in Pictures
      BY <1>1 DEF Buffered
    <3>2. RowConverted(picture.rows[r], num_rows, is_quad)[i][c]
            = converted(picture, picture.rows[r][c])[i]
      <4> DEFINE row == picture.rows[r]
      <4>1. Width - 1 \in Nat /\ DOMAIN row = 0..Width - 1
        BY <2>1, <3>1, PictureRows
      <4>2. CASE /\ UsesNullConvert /\ num_rows = 1 /\ num_components = 3 /\ is_quad
        <5>1. RowConverted(row, num_rows, is_quad) = QuadsConverted(row)
          BY <4>2 DEF RowConverted
        <5> HIDE DEF row
        <5>2. QuadsConverted(row)[i][c] = row[c][i]
          BY <4>1, <4>2, QuadsCopy DEF num_components
        <5> QED
          BY <4>2, <5>1, <5>2 DEF row, UsesNullConvert, converted
      <4>3. CASE ~ (UsesNullConvert /\ num_rows = 1 /\ num_components = 3 /\ is_quad)
        BY <4>3, <4>1 DEF RowConverted, Converted, num_components
      <4> QED
        BY <4>2, <4>3
    <3> QED
      BY <1>1, <1>2, <2>2, <2>3, <3>2, Zenon DEF Buffered
  <2>4. CASE r \notin next_scanline..next_scanline + num_rows - 1
    BY <1>1, <1>2, <2>2, <2>4 DEF Buffered
  <2> QED
    BY <2>3, <2>4
<1>7. /\ Height' = Height /\ Width' = Width
      /\ CompressError(picture)' = CompressError(picture)
  BY <1>1 DEF Height, Width
<1>8. Buffered'
  <2>1. \A i \in 1..Len(picture.h) : \A r \in 0..next_scanline' - 1 : \A c \in 0..Width - 1 :
           color_buf'[i][r][c] = converted(picture, picture.rows[r][c])[i]
    BY <1>6
  <2>2. picture' = picture
    BY <1>1
  <2>3. CompressError(picture) = "none"
    BY <1>1 DEF Buffered
  <2> QED
    <3>1. \A i \in 1..Len(picture'.h) : \A r \in 0..next_scanline' - 1 : \A c \in 0..Width' - 1 :
             color_buf'[i][r][c] = converted(picture', picture'.rows[r][c])[i]
      <4>1. Width' = Width
        BY <1>7
      <4>2. ASSUME NEW i \in 1..Len(picture'.h), NEW r \in 0..next_scanline' - 1, NEW c \in 0..Width' - 1
            PROVE  color_buf'[i][r][c] = converted(picture', picture'.rows[r][c])[i]
        BY <2>2, <4>1, <2>1, Zenon
      <4> QED
        BY <4>2, Zenon
    <3>2. DOMAIN color_buf' = 1..Len(picture'.h) /\ next_scanline' <= Height'
          /\ CompressError(picture') = "none"
      BY <1>4, <1>1, <1>2, <1>7, <2>2, <2>3 DEF Buffered
    <3> QED
      BY <3>1, <1>5, <2>2, <3>2, Zenon DEF Buffered
<1> QED
  BY <1>1, <1>4, <1>8 DEF InputInvariant

LEMMA InputInductive ==
    ASSUME InputInvariant, InputNext \/ UNCHANGED input_vars
    PROVE  InputInvariant'
<1>1. CASE StartCompress
  <2>1. /\ cstate = "START" /\ CompressError(picture) = "none"
        /\ picture \in Pictures /\ next_scanline = 0 /\ row_groups \in Nat
        /\ color_buf' = [i \in DOMAIN picture.h |-> NoRows]
        /\ UNCHANGED <<picture, next_scanline, row_groups>>
        /\ cstate' = "SCANNING"
    BY <1>1 DEF InputInvariant, StartCompress
  <2>2. DOMAIN picture.h = 1..Len(picture.h) /\ 0 <= Height
    BY <2>1, PictureRows
  <2>3. DOMAIN NoRows = {}
    BY DEF NoRows
  <2>4. 0..0 - 1 = {}
    BY SMT
  <2>5. Buffered'
    BY <2>1, <2>2, <2>3, <2>4 DEF Buffered, Height, CompressError, ConverterError,
       DownsamplerError
  <2> QED
    BY <2>1, <2>5 DEF InputInvariant
<1>2. CASE CompressFails
  BY <1>2, SMT DEF CompressError, ConverterError, DownsamplerError, InputInvariant,
     CompressFails
<1>3. CASE ConvertRows
  BY <1>3, RowsAdded
<1>4. CASE sep_downsample
  <2>1. /\ cstate = "SCANNING" /\ UNCHANGED <<picture, color_buf, next_scanline>>
        /\ row_groups' = row_groups + 1 /\ cstate' \in {"SCANNING", "FINISHED"}
    BY <1>4 DEF sep_downsample
  <2> QED
    BY <2>1 DEF InputInvariant, Buffered, Height, Width
<1>5. CASE UNCHANGED input_vars
  BY <1>5 DEF InputInvariant, Buffered, input_vars, Height, Width
<1> QED
  BY <1>1, <1>2, <1>3, <1>4, <1>5 DEF InputNext

\* Every pixel that was converted has the samples the equations of jccolor.c
\* give, none out of range although nothing limits them and a gray without
\* chroma; and a row that null_convert copies in words has the bytes of one
\* copied one by one, whatever its width and in how many calls the rows came.
THEOREM PixelsAreConvertedHolds == BothSpec => []PixelsAreConverted
<1>1. BothInit => InputInvariant
  BY DEF BothInit, InputInit, InputInvariant
<1>2. InputInvariant /\ [BothNext]_<<vars, input_vars>> => InputInvariant'
  BY InputInductive DEF BothNext, input_vars
<1>3. InputInvariant => PixelsAreConverted
  BY BufferedRepresents
<1> QED
  BY <1>1, <1>2, <1>3, PTL DEF BothSpec

(***************************************************************************)
(* The image: the samples of a row and column of the output.               *)
(***************************************************************************)
LEMMA LastOfRange ==
    ASSUME NEW n \in Nat, NEW f, DOMAIN f = 0..n
    PROVE  LastOf(f) = n
  BY InputLastOf

LEMMA PairBounds ==
    ASSUME NEW a \in Int, NEW b \in Int
    PROVE  /\ Max({a, b}) = IF a >= b THEN a ELSE b
           /\ Min({a, b}) = IF a <= b THEN a ELSE b
BY SMT DEF Max, Min

\* A column or row beside the plane is the nearest one of it.
LEMMA Clamped ==
    ASSUME NEW n \in Nat, NEW k \in Int
    PROVE  Max({0, Min({k, n})}) = IF k < 0 THEN 0 ELSE IF k > n THEN n ELSE k
<1>1. Min({k, n}) = IF k <= n THEN k ELSE n
  BY PairBounds
<1>2. Min({k, n}) \in Int
  BY <1>1
<1>3. Max({0, Min({k, n})}) = IF 0 >= Min({k, n}) THEN 0 ELSE Min({k, n})
  BY <1>2, PairBounds
<1> QED
  BY <1>1, <1>3, SMT

\* The planes of an image.
PlaneIs(plane, rows, cols) ==
    /\ rows \in Nat /\ cols \in Nat
    /\ DOMAIN plane = 0..rows
    /\ \A r \in 0..rows : DOMAIN plane[r] = 0..cols /\ \A c \in 0..cols : plane[r][c] \in 0..255

LEMMA PlaneSamples ==
    ASSUME NEW plane, NEW rows, NEW cols, PlaneIs(plane, rows, cols), NEW r \in Int, NEW c \in Int
    PROVE  /\ LastOf(plane) = rows /\ LastOf(plane[0]) = cols
           /\ RowAt(plane, r) = plane[IF r < 0 THEN 0 ELSE IF r > rows THEN rows ELSE r]
           /\ SampleAt(plane, r, c)
                = plane[IF r < 0 THEN 0 ELSE IF r > rows THEN rows ELSE r]
                       [IF c < 0 THEN 0 ELSE IF c > cols THEN cols ELSE c]
           /\ SampleAt(plane, r, c) \in 0..255
<1>1. LastOf(plane) = rows
  BY LastOfRange DEF PlaneIs
<1>2. LastOf(plane[0]) = cols
  BY LastOfRange DEF PlaneIs
<1>3. RowAt(plane, r) = plane[IF r < 0 THEN 0 ELSE IF r > rows THEN rows ELSE r]
  BY <1>1, Clamped DEF RowAt, PlaneIs
<1> DEFINE k == IF r < 0 THEN 0 ELSE IF r > rows THEN rows ELSE r
           m == IF c < 0 THEN 0 ELSE IF c > cols THEN cols ELSE c
<1>4. k \in 0..rows /\ m \in 0..cols
  BY SMT DEF PlaneIs
<1>5. SampleAt(plane, r, c) = plane[k][m]
  BY <1>3, <1>2, Clamped DEF SampleAt, PlaneIs
<1>6. plane[k][m] \in 0..255
  BY <1>4 DEF PlaneIs
<1> HIDE DEF k, m
<1> QED
  BY <1>1, <1>2, <1>3, <1>5, <1>6, Zenon DEF k, m

\* h2v1_fancy_upsample is the triangle filter in the columns.
LEMMA FancyColumns ==
    ASSUME NEW plane, NEW rows, NEW cols, PlaneIs(plane, rows, cols),
           NEW r \in 0..rows, NEW c \in 0..2 * cols + 1
    PROVE  /\ h2v1_fancy_upsample(plane, r, c) \in 0..255
           /\ Magnitude(16 * h2v1_fancy_upsample(plane, r, c)
                 - (3 * (4 * SampleAt(plane, r, Nearest(c, 2)))
                    + 4 * SampleAt(plane, r, NextNearest(c, 2)))) <= 8
<1> DEFINE k    == c \div 2
           P(m) == plane[r][m]
           near == SampleAt(plane, r, k)
           next == SampleAt(plane, r, NextNearest(c, 2))
           u    == h2v1_fancy_upsample(plane, r, c)
<1>1. /\ k \in 0..cols /\ rows \in Nat /\ cols \in Nat /\ r \in 0..rows
      /\ \A m \in 0..cols : P(m) \in 0..255
  BY SMT DEF PlaneIs
<1>2. \A m \in Int : SampleAt(plane, r, m) = P(IF m < 0 THEN 0 ELSE IF m > cols THEN cols ELSE m)
  <2> TAKE m \in Int
  <2>1. r \in Int /\ (IF r < 0 THEN 0 ELSE IF r > rows THEN rows ELSE r) = r
    BY <1>1
  <2> QED
    BY <2>1, PlaneSamples
<1>3. near = P(k)
  BY <1>1, <1>2, SMT
<1>4. u = CASE c = 0                 -> P(0)
            [] c = 2 * cols + 1      -> P(cols)
            [] c > 0 /\ c % 2 = 0    -> (3 * P(k) + P(k - 1) + 1) \div 4
            [] OTHER                 -> (3 * P(k) + P(k + 1) + 2) \div 4
  BY LastOfRange DEF h2v1_fancy_upsample, PlaneIs
<1> SUFFICES u \in 0..255 /\ Magnitude(16 * u - (3 * (4 * near) + 4 * next)) <= 8
  BY DEF Nearest
<1> HIDE DEF P, near, next, u
<1>5. CASE c = 0
  BY <1>5, <1>1, <1>2, <1>3, <1>4, SMT DEF NextNearest, next, Magnitude
<1>6. CASE c = 2 * cols + 1
  BY <1>1, <1>6, <1>2, <1>3, <1>4, SMT DEF NextNearest, next, Magnitude
<1>7. CASE c # 0 /\ c # 2 * cols + 1 /\ c % 2 = 0
  <2>1. NextNearest(c, 2) = k - 1 /\ k - 1 \in 0..cols /\ c > 0
    BY <1>1, <1>7, SMT DEF NextNearest
  <2> DEFINE a == P(k)
             b == P(k - 1)
  <2>2. a \in 0..255 /\ b \in 0..255
    BY <1>1, <2>1
  <2>3. u = (3 * a + b + 1) \div 4 /\ next = b /\ near = a
    BY <1>3, <1>1, <1>2, <1>4, <1>7, <2>1, SMT DEF next
  <2> HIDE DEF a, b
  <2> QED
    BY <2>2, <2>3, SMT DEF Magnitude
<1>8. CASE c # 0 /\ c # 2 * cols + 1 /\ c % 2 # 0
  <2>1. NextNearest(c, 2) = k + 1 /\ k + 1 \in 0..cols
    BY <1>1, <1>8, SMT DEF NextNearest
  <2> DEFINE a == P(k)
             b == P(k + 1)
  <2>2. a \in 0..255 /\ b \in 0..255
    BY <1>1, <2>1
  <2>3. u = (3 * a + b + 2) \div 4 /\ next = b /\ near = a
    BY <1>3, <1>1, <1>2, <1>4, <1>8, <2>1, SMT DEF next
  <2> HIDE DEF a, b
  <2> QED
    BY <2>2, <2>3, SMT DEF Magnitude
<1> QED
  BY <1>5, <1>6, <1>7, <1>8

\* h2v2_fancy_upsample is the triangle filter in rows and columns.
LEMMA FancyBoth ==
    ASSUME NEW plane, NEW rows, NEW cols, PlaneIs(plane, rows, cols),
           NEW r \in 0..2 * rows + 1, NEW c \in 0..2 * cols + 1
    PROVE  /\ h2v2_fancy_upsample(plane, r, c) \in 0..255
           /\ Magnitude(16 * h2v2_fancy_upsample(plane, r, c)
                 - (3 * (3 * SampleAt(plane, Nearest(r, 2), Nearest(c, 2))
                         + SampleAt(plane, NextNearest(r, 2), Nearest(c, 2)))
                    + (3 * SampleAt(plane, Nearest(r, 2), NextNearest(c, 2))
                       + SampleAt(plane, NextNearest(r, 2), NextNearest(c, 2))))) <= 8
<1> DEFINE k    == c \div 2
           n    == r \div 2
           f    == NextNearest(r, 2)
           near == RowAt(plane, n)
           far  == RowAt(plane, f)
           S(m) == 3 * near[m] + far[m]
           T(m) == 3 * SampleAt(plane, n, m) + SampleAt(plane, f, m)
           u    == h2v2_fancy_upsample(plane, r, c)
<1>1. /\ k \in 0..cols /\ n \in Int /\ f \in Int /\ rows \in Nat /\ cols \in Nat
      /\ f = IF r % 2 = 0 THEN r \div 2 - 1 ELSE r \div 2 + 1
  BY SMT DEF PlaneIs, NextNearest
<1> HIDE DEF f
<1>2. ASSUME NEW g \in Int
      PROVE  /\ \A m \in 0..cols : RowAt(plane, g)[m] \in 0..255
             /\ \A m \in Int : SampleAt(plane, g, m)
                  = RowAt(plane, g)[IF m < 0 THEN 0 ELSE IF m > cols THEN cols ELSE m]
             /\ DOMAIN RowAt(plane, g) = 0..cols
  <2> DEFINE q == IF g < 0 THEN 0 ELSE IF g > rows THEN rows ELSE g
  <2>1. q \in 0..rows
    BY <1>1
  <2>2. RowAt(plane, g) = plane[q]
    BY PlaneSamples
  <2>3. \A m \in Int : SampleAt(plane, g, m) = plane[q][IF m < 0 THEN 0 ELSE IF m > cols THEN cols ELSE m]
    BY PlaneSamples
  <2> HIDE DEF q
  <2> QED
    BY <2>1, <2>2, <2>3 DEF PlaneIs
<1>3. \A m \in 0..cols : S(m) \in 0..1020
  <2> TAKE m \in 0..cols
  <2> DEFINE a == near[m]
             b == far[m]
  <2>1. a \in 0..255 /\ b \in 0..255
    BY <1>1, <1>2
  <2> HIDE DEF a, b
  <2>2. 3 * a + b \in 0..1020
    BY <2>1, SMT
  <2> QED
    BY <2>2 DEF a, b
<1>4. \A m \in Int : T(m) = S(IF m < 0 THEN 0 ELSE IF m > cols THEN cols ELSE m)
  BY <1>1, <1>2
<1>5. u = CASE c = 0                 -> (4 * S(0) + 8) \div 16
            [] c = 2 * cols + 1      -> (4 * S(k) + 7) \div 16
            [] c > 0 /\ c % 2 = 0    -> (3 * S(k) + S(k - 1) + 8) \div 16
            [] OTHER                 -> (3 * S(k) + S(k + 1) + 7) \div 16
  BY <1>1, <1>2, LastOfRange DEF h2v2_fancy_upsample
<1> SUFFICES u \in 0..255 /\ Magnitude(16 * u - (3 * T(k) + T(NextNearest(c, 2)))) <= 8
  BY DEF Nearest, f
<1> HIDE DEF S, T, u
<1>6. CASE c = 0
  <2>1. k = 0 /\ NextNearest(c, 2) = -1
    BY <1>6, SMT DEF NextNearest
  <2>2. u = (4 * S(0) + 8) \div 16 /\ T(k) = S(0) /\ T(NextNearest(c, 2)) = S(0) /\ S(0) \in 0..1020
    BY <1>1, <1>3, <1>4, <1>5, <1>6, <2>1, SMT
  <2> QED
    BY <2>2, SMT DEF Magnitude
<1>7. CASE c = 2 * cols + 1
  <2>1. k = cols /\ NextNearest(c, 2) = cols + 1 /\ c # 0
    BY <1>1, <1>7, SMT DEF NextNearest
  <2>2. u = (4 * S(cols) + 7) \div 16 /\ T(k) = S(cols) /\ T(NextNearest(c, 2)) = S(cols)
        /\ S(cols) \in 0..1020
    BY <1>1, <1>3, <1>4, <1>5, <1>7, <2>1, SMT
  <2> QED
    BY <2>2, SMT DEF Magnitude
<1>8. CASE c # 0 /\ c # 2 * cols + 1 /\ c % 2 = 0
  <2>1. NextNearest(c, 2) = k - 1 /\ k - 1 \in 0..cols /\ c > 0
    BY <1>1, <1>8, SMT DEF NextNearest
  <2> DEFINE a == S(k)
             b == S(k - 1)
  <2>2. a \in 0..1020 /\ b \in 0..1020
    <3>1. k \in 0..cols /\ k - 1 \in 0..cols
      BY <1>1, <2>1
    <3>2. \A m \in 0..cols : S(m) \in 0..1020
      BY <1>3
    <3> QED
      BY <3>1, <3>2
  <2>3. u = (3 * a + b + 8) \div 16 /\ T(k) = a /\ T(NextNearest(c, 2)) = b
    BY <1>1, <1>4, <1>5, <1>8, <2>1, SMT
  <2> HIDE DEF a, b
  <2> QED
    BY <2>2, <2>3, SMT DEF Magnitude
<1>9. CASE c # 0 /\ c # 2 * cols + 1 /\ c % 2 # 0
  <2>1. NextNearest(c, 2) = k + 1 /\ k + 1 \in 0..cols
    BY <1>1, <1>9, SMT DEF NextNearest
  <2> DEFINE a == S(k)
             b == S(k + 1)
  <2>2. a \in 0..1020 /\ b \in 0..1020
    <3>1. k \in 0..cols /\ k + 1 \in 0..cols
      BY <1>1, <2>1
    <3>2. \A m \in 0..cols : S(m) \in 0..1020
      BY <1>3
    <3> QED
      BY <3>1, <3>2
  <2>3. u = (3 * a + b + 7) \div 16 /\ T(k) = a /\ T(NextNearest(c, 2)) = b
    BY <1>1, <1>4, <1>5, <1>9, <2>1, SMT
  <2> HIDE DEF a, b
  <2> QED
    BY <2>2, <2>3, SMT DEF Magnitude
<1> QED
  BY <1>6, <1>7, <1>8, <1>9

LEMMA BiggestOf ==
    ASSUME NEW n \in Nat \ {0}, NEW s \in [1..n -> 1..4]
    PROVE  /\ Biggest(s) \in 1..4 /\ \A i \in 1..n : s[i] <= Biggest(s)
           /\ Biggest(s) \in {s[i] : i \in 1..n}
<1> DEFINE factors == {s[i] : i \in DOMAIN s}
           first   == s[1]
<1>1. factors \subseteq 1..4 /\ first \in factors
  BY SMT
<1>2. \A i \in 1..n : s[i] \in factors
  OBVIOUS
<1>3. Biggest(s) = Max(factors)
  BY DEF Biggest
<1> HIDE DEF factors, first
<1>4. \E m \in factors : \A k \in factors : m >= k
  <2>1. CASE 4 \in factors
    BY <1>1, <2>1, SMT
  <2>2. CASE 4 \notin factors /\ 3 \in factors
    BY <1>1, <2>2, SMT
  <2>3. CASE 4 \notin factors /\ 3 \notin factors /\ 2 \in factors
    <3>1. \A k \in factors : k \in 1..4 /\ k # 3 /\ k # 4
      BY <1>1, <2>3, Zenon
    <3>2. \A k \in factors : 2 >= k
      BY <3>1, SMT
    <3> QED
      BY <2>3, <3>2, Zenon
  <2>4. CASE 4 \notin factors /\ 3 \notin factors /\ 2 \notin factors
    BY <1>1, <2>4, SMT
  <2> QED
    BY <2>1, <2>2, <2>3, <2>4
<1>5. Max(factors) \in factors /\ \A k \in factors : Max(factors) >= k
  BY <1>4, Zenon DEF Max
<1>6. Max(factors) \in 1..4
  BY <1>1, <1>5, Zenon
<1>7. \A i \in 1..n : Max(factors) >= s[i]
  BY <1>2, <1>5, Zenon
<1>8. Biggest(s) \in 1..4 /\ \A i \in 1..n : s[i] <= Biggest(s)
  BY <1>3, <1>6, <1>7, SMT
<1>9. Biggest(s) \in {s[i] : i \in 1..n}
  BY <1>3, <1>5 DEF factors
<1> QED
  BY <1>8, <1>9

\* A component's plane, expanded, covers the output.
LEMMA ImagePlanes ==
    ASSUME NEW im, WellFormed(im), NEW i \in 1..im.num_components
    PROVE  LET plane == im.planes[i]
               h     == Expand(im, im.h, i)
               v     == Expand(im, im.v, i)
           IN  /\ PlaneIs(plane, LastOf(plane), LastOf(plane[0]))
               /\ h \in 1..4 /\ v \in 1..4
               /\ im.output_width \in Nat /\ im.output_height \in Nat
               /\ im.output_width <= h * (LastOf(plane[0]) + 1)
               /\ im.output_height <= v * (LastOf(plane) + 1)
<1> DEFINE plane == im.planes[i]
           rows  == LastOf(plane)
           cols  == LastOf(plane[0])
           h     == Expand(im, im.h, i)
           v     == Expand(im, im.v, i)
           gh    == InGroup(im, im.h, i)
           gv    == InGroup(im, im.v, i)
<1>1. /\ im.num_components \in 1..10
      /\ im.output_width \in Nat \ {0} /\ im.output_height \in Nat \ {0}
      /\ im.h \in [1..im.num_components -> 1..4] /\ im.v \in [1..im.num_components -> 1..4]
      /\ gh \in 1..Biggest(im.h) /\ gv \in 1..Biggest(im.v)
      /\ rows \in Nat /\ cols \in Nat
      /\ plane \in [0..rows -> [0..cols -> 0..255]]
      /\ im.output_width <= h * (cols + 1)
      /\ im.output_height <= v * (rows + 1)
  BY Zenon DEF WellFormed, PlaneOf, Samples, MAXJSAMPLE
<1>2. Biggest(im.h) \in 1..4 /\ Biggest(im.v) \in 1..4
  <2>1. im.num_components \in Nat \ {0}
    <3>1. im.num_components \in 1..10
      BY <1>1, Zenon
    <3> QED
      BY <3>1
  <2> QED
    BY <1>1, <2>1, BiggestOf
<1>3. h = Biggest(im.h) \div gh /\ v = Biggest(im.v) \div gv
  BY DEF Expand
<1> HIDE DEF plane, rows, cols, h, v, gh, gv
<1>4. h \in 1..4
  <2> DEFINE b == Biggest(im.h)
  <2>1. b \in 1..4 /\ gh \in 1..b /\ h = b \div gh
    BY <1>1, <1>2, <1>3
  <2> HIDE DEF b
  <2> QED
    BY <2>1, SMT
<1>5. v \in 1..4
  <2> DEFINE b == Biggest(im.v)
  <2>1. b \in 1..4 /\ gv \in 1..b /\ v = b \div gv
    BY <1>1, <1>2, <1>3
  <2> HIDE DEF b
  <2> QED
    BY <2>1, SMT
<1>6. PlaneIs(plane, rows, cols)
  <2>1. \A r \in 0..rows : DOMAIN plane[r] = 0..cols /\ \A c \in 0..cols : plane[r][c] \in 0..255
    <3> TAKE r \in 0..rows
    <3>1. plane[r] \in [0..cols -> 0..255]
      BY <1>1
    <3> QED
      BY <3>1
  <2> QED
    BY <1>1, <2>1, Zenon DEF PlaneIs
<1> QED
  BY <1>1, <1>4, <1>5, <1>6 DEF plane, rows, cols, h, v

\* Every sample that is upsampled is one, and the triangle filter's.
LEMMA UpsampledSample ==
    ASSUME WellFormed(image), NEW i \in 1..image.num_components,
           NEW r \in 0..image.output_height - 1, NEW c \in 0..image.output_width - 1
    PROVE  /\ Upsampled(image, i, r, c) \in 0..255
           /\ Magnitude(16 * Upsampled(image, i, r, c) - Interpolated(i, r, c)) <= 8
<1> DEFINE plane == image.planes[i]
           rows  == LastOf(plane)
           cols  == LastOf(plane[0])
           h     == Expand(image, image.h, i)
           v     == Expand(image, image.v, i)
           fancy == /\ image.do_fancy_upsampling /\ image.min_DCT_scaled_size > 1
                    /\ LastOf(plane[0]) > 1
           u     == Upsampled(image, i, r, c)
           shown == Interpolated(i, r, c)
<1>1. /\ PlaneIs(plane, rows, cols) /\ h \in 1..4 /\ v \in 1..4
      /\ image.output_width \in Nat /\ image.output_height \in Nat
      /\ image.output_width <= h * (cols + 1)
      /\ image.output_height <= v * (rows + 1)
  BY ImagePlanes, Zenon
<1>2. u = CASE h = 1 /\ v = 1           -> plane[r][c]
            [] h = 2 /\ v = 1 /\ fancy  -> h2v1_fancy_upsample(plane, r, c)
            [] h = 2 /\ v = 1 /\ ~fancy -> h2v1_upsample(plane, r, c)
            [] h = 2 /\ v = 2 /\ fancy  -> h2v2_fancy_upsample(plane, r, c)
            [] h = 2 /\ v = 2 /\ ~fancy -> h2v2_upsample(plane, r, c)
            [] OTHER                    -> int_upsample(plane, r, c, h, v)
  BY DEF Upsampled
<1>3. CASE fancy /\ h = 2 /\ v = 1
  <2>1. u = h2v1_fancy_upsample(plane, r, c)
    BY <1>2, <1>3
  <2>2. shown = 3 * (4 * SampleAt(plane, r, Nearest(c, 2))) + 4 * SampleAt(plane, r, NextNearest(c, 2))
    BY <1>3 DEF Interpolated
  <2> HIDE DEF plane, rows, cols, h, v, fancy, u, shown
  <2>3. r \in 0..rows /\ c \in 0..2 * cols + 1 /\ rows \in Nat /\ cols \in Nat
    BY <1>1, <1>3, SMT DEF PlaneIs
  <2> QED
    BY <1>1, <2>3, FancyColumns, <2>1, <2>2 DEF u, shown
<1>4. CASE fancy /\ h = 2 /\ v = 2
  <2>1. u = h2v2_fancy_upsample(plane, r, c)
    BY <1>2, <1>4
  <2>2. shown = 3 * (3 * SampleAt(plane, Nearest(r, 2), Nearest(c, 2))
                     + SampleAt(plane, NextNearest(r, 2), Nearest(c, 2)))
                + (3 * SampleAt(plane, Nearest(r, 2), NextNearest(c, 2))
                   + SampleAt(plane, NextNearest(r, 2), NextNearest(c, 2)))
    BY <1>4 DEF Interpolated
  <2> HIDE DEF plane, rows, cols, h, v, fancy, u, shown
  <2>3. r \in 0..2 * rows + 1 /\ c \in 0..2 * cols + 1 /\ rows \in Nat /\ cols \in Nat
    BY <1>1, <1>4, SMT DEF PlaneIs
  <2> QED
    <3>1. /\ h2v2_fancy_upsample(plane, r, c) \in 0..255
          /\ Magnitude(16 * h2v2_fancy_upsample(plane, r, c)
               - (3 * (3 * SampleAt(plane, Nearest(r, 2), Nearest(c, 2))
                       + SampleAt(plane, NextNearest(r, 2), Nearest(c, 2)))
                  + (3 * SampleAt(plane, Nearest(r, 2), NextNearest(c, 2))
                     + SampleAt(plane, NextNearest(r, 2), NextNearest(c, 2))))) <= 8
      BY <1>1, <2>3, FancyBoth
    <3>2. u \in 0..255 /\ Magnitude(16 * u - shown) <= 8
      BY <2>1, <2>2, <3>1
    <3> QED
      BY <3>2 DEF u, shown
<1>5. CASE ~ (fancy /\ h = 2 /\ v <= 2)
  <2>1. shown = 16 * plane[r \div v][c \div h]
    BY <1>5 DEF Interpolated, Nearest
  <2>2. r \div 1 = r /\ c \div 1 = c
    BY SMT
  <2>3. u = plane[r \div v][c \div h]
    <3> HIDE DEF plane, fancy, h, v, u
    <3>1. CASE h = 1 /\ v = 1
      BY <1>2, <2>2, <3>1
    <3>2. CASE h = 2 /\ v <= 2 /\ ~ fancy
      BY <1>2, <2>2, <1>1, <3>2 DEF h2v1_upsample, h2v2_upsample
    <3>3. CASE ~ (h = 1 /\ v = 1) /\ ~ (h = 2 /\ v <= 2)
      BY <1>1, <3>3, <1>2 DEF int_upsample
    <3> QED
      BY <1>5, <3>1, <3>2, <3>3
  <2> HIDE DEF plane, rows, cols, h, v, fancy, u, shown
  <2>4. r \div v \in 0..rows /\ c \div h \in 0..cols
    <3>1. /\ h = 1 \/ h = 2 \/ h = 3 \/ h = 4
          /\ v = 1 \/ v = 2 \/ v = 3 \/ v = 4
      BY <1>1
    <3>2. rows \in Nat /\ cols \in Nat
      BY <1>1 DEF PlaneIs
    <3>3. r \div v \in 0..rows
      BY <1>1, <3>1, <3>2, SMT
    <3>4. c \div h \in 0..cols
      BY <1>1, <3>1, <3>2, SMT
    <3> QED
      BY <3>3, <3>4
  <2>5. u \in 0..255
    BY <1>1, <2>3, <2>4 DEF PlaneIs
  <2>6. shown = 16 * u
    BY <2>1, <2>3
  <2> QED
    BY <2>5, <2>6, SMT DEF Magnitude, u, shown
<1> QED
  BY <1>1, <1>3, <1>4, <1>5

(***************************************************************************)
(* The colors of a pixel.                                                  *)
(***************************************************************************)
\* Where the conversions index the range limit table.
Indexes == -256..511

LEMMA RangeLimited ==
    ASSUME NEW x \in Indexes
    PROVE  range_limit[x] = IF x < 0 THEN 0 ELSE IF x > 255 THEN 255 ELSE x
  BY SMTT(60) DEF Indexes, range_limit, RangeLimitIndexes, MAXJSAMPLE, CENTERJSAMPLE

LEMMA LimitedNear ==
    ASSUME NEW x \in Indexes, NEW exact \in Int,
           100000 * x - exact <= 60000, exact - 100000 * x <= 60000
    PROVE  Near(range_limit[x], Limited(exact))
<1>1. range_limit[x] = IF x < 0 THEN 0 ELSE IF x > 255 THEN 255 ELSE x
  BY RangeLimited, SMT
<1>2. x \in -256..511
  BY SMT DEF Indexes
<1>3. CASE x < 0
  BY <1>1, <1>3, <1>2, SMT DEF Limited, Near, Samples, MAXJSAMPLE, UNIT
<1>4. CASE x > 255
  BY <1>1, <1>2, <1>4, SMT DEF Near, Limited, Samples, MAXJSAMPLE, UNIT
<1>5. CASE x \in 0..255
  BY <1>1, <1>5, SMT DEF Near, Limited, Samples, MAXJSAMPLE, UNIT
<1> QED
  BY <1>2, <1>3, <1>4, <1>5, SMT

\* The limited color is the one nearest to the values of the equations; and
\* nothing indexes the range limit table out of its bounds.
LEMMA RgbNear ==
    ASSUME NEW y \in 0..255, NEW cb \in 0..255, NEW cr \in 0..255, NEW i \in 1..3
    PROVE  /\ RedGreenBlue(y, cb, cr)[i] \in Indexes
           /\ 255 - RedGreenBlue(y, cb, cr)[i] \in Indexes
           /\ Near(range_limit[RedGreenBlue(y, cb, cr)[i]], Limited(ExactRGB(y, cb, cr)[i]))
<1> DEFINE red   == RedGreenBlue(y, cb, cr)[1]
           green == RedGreenBlue(y, cb, cr)[2]
           blue  == RedGreenBlue(y, cb, cr)[3]
<1>1. /\ red \in Indexes
      /\ 100000 * red - (100000 * y + 140200 * (cr - 128)) <= 60000
      /\ (100000 * y + 140200 * (cr - 128)) - 100000 * red <= 60000
  <2> DEFINE s == 91881 * (cr - 128) + 32768
             t == s \div 65536
  <2>1. red = y + t
    BY SMT DEF RedGreenBlue, Cr_r_tab, RIGHT_SHIFT, SCALE, ONE_HALF, Samples, MAXJSAMPLE, CENTERJSAMPLE
  <2>2. s \in Int
    BY SMT
  <2> HIDE DEF s, red
  <2>3. t \in Int /\ 65536 * t <= s /\ s < 65536 * t + 65536
    BY <2>2, SMT
  <2> HIDE DEF t
  <2> QED
    BY <2>1, <2>3, SMT DEF s, Indexes
<1>2. /\ green \in Indexes
      /\ 100000 * green - (100000 * y - 34414 * (cb - 128) - 71414 * (cr - 128)) <= 60000
      /\ (100000 * y - 34414 * (cb - 128) - 71414 * (cr - 128)) - 100000 * green <= 60000
  <2> DEFINE s == -22554 * (cb - 128) + 32768 + -46802 * (cr - 128)
             t == s \div 65536
  <2>1. green = y + t
    BY SMT DEF RedGreenBlue, Cb_g_tab, Cr_g_tab, RIGHT_SHIFT, SCALE, ONE_HALF, Samples, MAXJSAMPLE, CENTERJSAMPLE
  <2>2. s \in Int
    BY SMT
  <2> HIDE DEF s, green
  <2>3. t \in Int /\ 65536 * t <= s /\ s < 65536 * t + 65536
    BY <2>2, SMT
  <2> HIDE DEF t
  <2> QED
    BY <2>1, <2>3, SMT DEF s, Indexes
<1>3. /\ blue \in Indexes
      /\ 100000 * blue - (100000 * y + 177200 * (cb - 128)) <= 60000
      /\ (100000 * y + 177200 * (cb - 128)) - 100000 * blue <= 60000
  <2> DEFINE s == 116130 * (cb - 128) + 32768
             t == s \div 65536
  <2>1. blue = y + t
    BY SMT DEF RedGreenBlue, Cb_b_tab, RIGHT_SHIFT, SCALE, ONE_HALF, Samples, MAXJSAMPLE, CENTERJSAMPLE
  <2>2. s \in Int
    BY SMT
  <2> HIDE DEF s, blue
  <2>3. t \in Int /\ 65536 * t <= s /\ s < 65536 * t + 65536
    BY <2>2, SMT
  <2> HIDE DEF t
  <2> QED
    BY <2>1, <2>3, SMT DEF s, Indexes
<1>4. /\ ExactRGB(y, cb, cr)[1] = 100000 * y + 140200 * (cr - 128)
      /\ ExactRGB(y, cb, cr)[2] = 100000 * y - 34414 * (cb - 128) - 71414 * (cr - 128)
      /\ ExactRGB(y, cb, cr)[3] = 100000 * y + 177200 * (cb - 128)
  BY DEF ExactRGB, UNIT, CENTERJSAMPLE
<1> DEFINE exact == ExactRGB(y, cb, cr)
<1>5. \A k \in 1..3 : exact[k] \in Int
  BY <1>4, SMT
<1> HIDE DEF red, green, blue, exact
<1>6. 255 - red \in Indexes /\ 255 - green \in Indexes /\ 255 - blue \in Indexes
  BY SMT, <1>1, <1>2, <1>3 DEF Indexes
<1>7. /\ Near(range_limit[red], Limited(exact[1]))
      /\ Near(range_limit[green], Limited(exact[2]))
      /\ Near(range_limit[blue], Limited(exact[3]))
  <2>1. /\ exact[1] \in Int /\ exact[2] \in Int /\ exact[3] \in Int
        /\ exact[1] = 100000 * y + 140200 * (cr - 128)
        /\ exact[2] = 100000 * y - 34414 * (cb - 128) - 71414 * (cr - 128)
        /\ exact[3] = 100000 * y + 177200 * (cb - 128)
    BY <1>4, <1>5 DEF exact
  <2>2. Near(range_limit[red], Limited(exact[1]))
    <3>1. exact[1] \in Int
      BY SMT, <1>5
    <3> DEFINE e == exact[1]
    <3> HIDE DEF e
    <3>2. e \in Int /\ 100000 * red - e <= 60000 /\ e - 100000 * red <= 60000
      BY <1>1, <2>1, <3>1, SMT DEF e, Indexes
    <3>3. Near(range_limit[red], Limited(e))
      BY <1>1, <3>2, LimitedNear, SMT
    <3> QED
      BY SMT, <3>3 DEF e
  <2>3. Near(range_limit[green], Limited(exact[2]))
    <3>1. exact[2] \in Int
      BY SMT, <1>5
    <3> DEFINE e == exact[2]
    <3> HIDE DEF e
    <3>2. e \in Int /\ 100000 * green - e <= 60000 /\ e - 100000 * green <= 60000
      BY <1>2, <2>1, <3>1, SMT DEF e, Indexes
    <3>3. Near(range_limit[green], Limited(e))
      BY <1>2, <3>2, LimitedNear, SMT
    <3> QED
      BY SMT, <3>3 DEF e
  <2>4. Near(range_limit[blue], Limited(exact[3]))
    <3>1. exact[3] \in Int
      BY SMT, <1>5
    <3> DEFINE e == exact[3]
    <3> HIDE DEF e
    <3>2. e \in Int /\ 100000 * blue - e <= 60000 /\ e - 100000 * blue <= 60000
      BY <1>3, <2>1, <3>1, SMT DEF e, Indexes
    <3>3. Near(range_limit[blue], Limited(e))
      BY <1>3, <3>2, LimitedNear, SMT
    <3> QED
      BY SMT, <3>3 DEF e
  <2> QED
    BY <2>2, <2>3, <2>4
<1>8. /\ red \in Indexes /\ green \in Indexes /\ blue \in Indexes
  BY <1>1, <1>2, <1>3
<1>9. CASE i = 1
  BY <1>6, <1>7, <1>8, <1>9, Zenon DEF red, exact
<1>10. CASE i = 2
  BY <1>6, <1>7, <1>8, <1>10, Zenon DEF green, exact
<1>11. CASE i = 3
  BY <1>6, <1>7, <1>8, <1>11, Zenon DEF blue, exact
<1> QED
  BY <1>9, <1>10, <1>11

\* A sample is not changed when it is limited.
LEMMA SampleLimited ==
    ASSUME NEW x \in 0..255
    PROVE  range_limit[x] = x
BY RangeLimited, SMT DEF Indexes

LEMMA NearSample ==
    ASSUME NEW v, NEW exact, Near(v, exact)
    PROVE  v \in 0..255
  BY SMT DEF Near, Samples, MAXJSAMPLE

LEMMA AppendThree ==
    ASSUME NEW a, NEW b, NEW c, NEW d
    PROVE  LET p == Append(<<a, b, c>>, d)
           IN  p[1] = a /\ p[2] = b /\ p[3] = c /\ p[4] = d /\ p # <<>>
<1> DEFINE p == Append(<<a, b, c>>, d)
<1>1. p # <<>>
  BY SMT
<1> QED
  BY <1>1, SMT

\* A color of YCbCr, limited.
LEMMA YccLimited ==
    ASSUME NEW s, s[1] \in 0..255, s[2] \in 0..255, s[3] \in 0..255
    PROVE  LET p == Limit(ToRGB(s))
           IN  /\ \A i \in 1..3 : p[i] \in 0..255 /\ Near(p[i], Limited(ExactRGB(s[1], s[2], s[3])[i]))
               /\ p = <<p[1], p[2], p[3]>>
<1> DEFINE y   == s[1]
           cb  == s[2]
           cr  == s[3]
           rgb == RedGreenBlue(y, cb, cr)
           p   == Limit(rgb)
<1>1. rgb = <<rgb[1], rgb[2], rgb[3]>>
  BY DEF RedGreenBlue
<1>2. y \in 0..255 /\ cb \in 0..255 /\ cr \in 0..255
  OBVIOUS
<1>3. ToRGB(s) = rgb
  BY DEF ToRGB
<1> HIDE DEF y, cb, cr
<1>4. \A i \in 1..3 : Near(range_limit[rgb[i]], Limited(ExactRGB(y, cb, cr)[i]))
  BY <1>2, RgbNear, Zenon
<1> DEFINE exact == ExactRGB(y, cb, cr)
<1> HIDE DEF rgb, exact
<1>5. DOMAIN rgb = 1..3
  BY SMT, <1>1
<1>6. p = <<p[1], p[2], p[3]>>
  BY <1>5, SMT DEF Limit
<1>7. \A i \in 1..3 : p[i] \in 0..255 /\ Near(p[i], Limited(exact[i]))
  BY <1>4, <1>5, NearSample, Zenon DEF exact, Limit
<1> HIDE DEF p
<1> QED
  BY <1>3, <1>6, <1>7, Zenon DEF p, y, cb, cr, exact

\* The same for the colors of YCCK, which are inverted.
LEMMA YcckLimited ==
    ASSUME NEW s, s[1] \in 0..255, s[2] \in 0..255, s[3] \in 0..255
    PROVE  LET p == ycck_cmyk_convert(s)
           IN  /\ \A i \in 1..3 : Near(255 - p[i], Limited(ExactRGB(s[1], s[2], s[3])[i]))
               /\ p[4] = s[4] /\ p # <<>>
<1> DEFINE y   == s[1]
           cb  == s[2]
           cr  == s[3]
           rgb == RedGreenBlue(y, cb, cr)
           inv == [i \in 1..3 |-> 255 - rgb[i]]
           lim == [i \in 1..3 |-> range_limit[255 - rgb[i]]]
           p   == ycck_cmyk_convert(s)
<1>1. y \in 0..255 /\ cb \in 0..255 /\ cr \in 0..255
  OBVIOUS
<1>2. p = Append(lim, s[4])
  BY Zenon DEF Limit, ycck_cmyk_convert, ToRGB, MAXJSAMPLE
<1> HIDE DEF y, cb, cr
<1>3. \A i \in 1..3 : /\ rgb[i] \in Indexes /\ 255 - rgb[i] \in Indexes
                      /\ Near(range_limit[rgb[i]], Limited(ExactRGB(y, cb, cr)[i]))
  <2>1. \A i \in 1..3 : Near(range_limit[rgb[i]], Limited(ExactRGB(y, cb, cr)[i]))
    BY <1>1, RgbNear, Zenon
  <2>2. \A i \in 1..3 : rgb[i] \in Indexes
    BY <1>1, RgbNear, Zenon
  <2>3. \A i \in 1..3 : 255 - rgb[i] \in Indexes
    BY <1>1, RgbNear, Zenon
  <2> QED
    BY <2>1, <2>2, <2>3, Zenon
<1> DEFINE exact == ExactRGB(y, cb, cr)
<1> HIDE DEF rgb, exact
<1>4. ASSUME NEW i \in 1..3
      PROVE  255 - lim[i] = range_limit[rgb[i]]
  <2> DEFINE x == rgb[i]
             z == 255 - x
  <2>1. x \in Indexes /\ z \in Indexes /\ lim[i] = range_limit[z]
    BY <1>3
  <2> HIDE DEF x, lim
  <2>2. range_limit[x] = IF x < 0 THEN 0 ELSE IF x > 255 THEN 255 ELSE x
    BY <2>1, RangeLimited, Zenon
  <2>3. range_limit[z] = IF z < 0 THEN 0 ELSE IF z > 255 THEN 255 ELSE z
    <3> HIDE DEF z
    <3> QED
      BY <2>1, RangeLimited, Zenon
  <2>4. 255 - range_limit[z] = range_limit[x]
    BY SMT, <2>1, <2>2, <2>3 DEF Indexes
  <2> QED
    BY <2>1, <2>4, Zenon DEF x
<1>5. \A i \in 1..3 : Near(255 - lim[i], Limited(exact[i]))
  BY <1>3, <1>4, Zenon DEF exact
<1>6. lim = <<lim[1], lim[2], lim[3]>>
  BY SMT
<1> HIDE DEF lim, p
<1>7. /\ p[1] = lim[1] /\ p[2] = lim[2] /\ p[3] = lim[3]
      /\ p[4] = s[4] /\ p # <<>>
  <2>1. p = Append(<<lim[1], lim[2], lim[3]>>, s[4])
    BY <1>2, <1>6, Zenon
  <2> QED
    <3> DEFINE a == lim[1]
               b == lim[2]
               c == lim[3]
               d == s[4]
    <3>1. p = Append(<<a, b, c>>, d)
      BY <2>1
    <3> HIDE DEF a, b, c, d
    <3>2. p[1] = a /\ p[2] = b /\ p[3] = c /\ p[4] = d /\ p # <<>>
      BY <3>1, AppendThree
    <3> QED
      BY <3>2 DEF a, b, c, d
<1>8. \A i \in 1..3 : p[i] = lim[i]
  BY SMT, <1>7
<1>9. \A i \in 1..3 : Near(255 - p[i], Limited(exact[i]))
  BY <1>5, <1>8, Zenon
<1> QED
  BY <1>7, <1>9, Zenon DEF p, y, cb, cr, exact

(***************************************************************************)
(* What is delivered when nothing is dithered.                             *)
(***************************************************************************)
PixelOf(im, need, r, c) ==
    [i \in DOMAIN im.planes |-> IF need[i] THEN Upsampled(im, i, r, c) ELSE <<>>]

PlainPixel(im, need, r, c) ==
    IF im.out_color_space = "RGB_565" THEN rgb_565_convert(im, PixelOf(im, need, r, c), 0)
    ELSE color_convert(im, PixelOf(im, need, r, c))

\* The components the conversion reads; see StartDecompress.
Needed(im) == [i \in DOMAIN im.planes |-> im.out_color_space = "GRAYSCALE" => i = 1]

\* Which conversions an image that was not refused can ask for.
LEMMA ImageAccepted ==
    ASSUME NEW im, WellFormed(im), SetupError(im) = "none"
    PROVE  /\ DOMAIN im.planes = 1..im.num_components
           /\ im.num_components \in 1..10
           /\ im.num_components \in NumComponents(im.jpeg_color_space)
           /\ Converts(im.jpeg_color_space, im.out_color_space)
           /\ im.jpeg_color_space \in {"UNKNOWN", "GRAYSCALE", "RGB", "YCbCr", "CMYK", "YCCK"}
<1>1. /\ im.num_components \in 1..10 /\ DOMAIN im.planes = 1..im.num_components
      /\ im.jpeg_color_space \in {"UNKNOWN", "GRAYSCALE", "RGB", "YCbCr", "CMYK", "YCCK"}
  BY Zenon DEF WellFormed
<1>2. CASE use_merged_upsample(im)
  BY <1>2, <1>1 DEF use_merged_upsample, NumComponents, Converts, RGBSpaces
<1>3. CASE ~ use_merged_upsample(im)
  BY <1>3, <1>1 DEF SetupError, ConversionError
<1> QED
  BY <1>2, <1>3

LEMMA SplitByte ==
    ASSUME NEW n \in 0..255, NEW d \in {4, 8}
    PROVE  d * (n \div d) + (n % d) = n /\ n % d \in 0..d - 1
<1>1. CASE d = 4
  BY <1>1, SMT
<1>2. CASE d = 8
  BY <1>2, SMT
<1> QED
  BY <1>1, <1>2

\* The fields of a 16-bit pixel are the upper bits of a color.
LEMMA PackedColor ==
    ASSUME NEW p, p[1] \in 0..255, p[2] \in 0..255, p[3] \in 0..255
    PROVE  LET q == PACK_SHORT_565(p)
               v == <<p[1] % 8, 2 * (p[2] % 4), p[3] % 8>>
           IN  /\ v \in [1..3 -> 0..7]
               /\ 8 * q[1] + v[1] = p[1] /\ 4 * q[2] + v[2] \div 2 = p[2] /\ 8 * q[3] + v[3] = p[3]
<1> DEFINE a == p[1]
           b == p[2]
           c == p[3]
<1>1. a \in 0..255 /\ b \in 0..255 /\ c \in 0..255
  OBVIOUS
<1> HIDE DEF a, b, c
<1>2. 4 * (b \div 4) + (b % 4) = b /\ b % 4 \in 0..3
  BY <1>1, SplitByte
<1>3. (2 * (b % 4)) \div 2 = b % 4 /\ 2 * (b % 4) \in 0..7
  BY SMT, <1>2
<1>4. 8 * (c \div 8) + (c % 8) = c /\ c % 8 \in 0..7
  BY <1>1, SplitByte
<1>5. /\ 8 * (a \div 8) + (a % 8) = a /\ a % 8 \in 0..7
      /\ 4 * (b \div 4) + (b % 4) = b /\ b % 4 \in 0..3 /\ (2 * (b % 4)) \div 2 = b % 4
      /\ 2 * (b % 4) \in 0..7
      /\ 8 * (c \div 8) + (c % 8) = c /\ c % 8 \in 0..7
  BY <1>1, SplitByte, <1>2, <1>3, <1>4
<1> QED
  BY <1>5, SMT DEF PACK_SHORT_565, a, b, c

\* The color a conversion to RGB, RGBA or RGB_565 starts from, limited.
LEMMA ColorOfRGB ==
    ASSUME NEW im, NEW s, im.jpeg_color_space \in {"GRAYSCALE", "RGB", "YCbCr"},
           s[1] \in 0..255,
           im.jpeg_color_space # "GRAYSCALE" =>
              s[2] \in 0..255 /\ s[3] \in 0..255 /\ s = <<s[1], s[2], s[3]>>
    PROVE  LET p == Limit(RGBOf(im, s))
           IN  /\ p = <<p[1], p[2], p[3]>>
               /\ p[1] \in 0..255 /\ p[2] \in 0..255 /\ p[3] \in 0..255
               /\ IF im.jpeg_color_space = "YCbCr" THEN Colored(p, ExactRGB(s[1], s[2], s[3]))
                  ELSE p = RGBOf(im, s)
<1> DEFINE p == Limit(RGBOf(im, s))
<1>1. CASE im.jpeg_color_space = "YCbCr"
  <2>1. s[1] \in 0..255 /\ s[2] \in 0..255 /\ s[3] \in 0..255
    BY <1>1
  <2>2. /\ \A i \in 1..3 : p[i] \in 0..255 /\ Near(p[i], Limited(ExactRGB(s[1], s[2], s[3])[i]))
        /\ p = <<p[1], p[2], p[3]>>
    BY <1>1, <2>1, YccLimited DEF RGBOf
  <2> HIDE DEF p
  <2>3. Colored(p, ExactRGB(s[1], s[2], s[3]))
    BY <2>2, Zenon DEF Colored
  <2> QED
    BY <1>1, <2>2, <2>3 DEF p
<1>2. CASE im.jpeg_color_space # "YCbCr"
  <2> DEFINE q == RGBOf(im, s)
  <2>1. q = <<q[1], q[2], q[3]>> /\ q[1] \in 0..255 /\ q[2] \in 0..255 /\ q[3] \in 0..255
    BY <1>2 DEF RGBOf, gray_rgb_convert
  <2>2. p = Limit(q)
    OBVIOUS
  <2> HIDE DEF p, q
  <2>3. range_limit[q[1]] = q[1] /\ range_limit[q[2]] = q[2] /\ range_limit[q[3]] = q[3]
    BY <2>1, SampleLimited
  <2>4. DOMAIN q = 1..3
    BY SMT, <2>1
  <2>5. p = [i \in 1..3 |-> range_limit[q[i]]]
    BY <2>2, <2>4, Zenon DEF Limit
  <2>6. [i \in 1..3 |-> range_limit[q[i]]] = <<q[1], q[2], q[3]>>
    BY SMT, <2>3
  <2> QED
    BY <1>2, <2>1, <2>5, <2>6, Zenon DEF p, q
<1> QED
  BY <1>1, <1>2

LEMMA IndexInt ==
    ASSUME NEW x, x \in Indexes
    PROVE  x \in Int
  BY SMT DEF Indexes

LEMMA NotEmpty ==
    ASSUME NEW s, 1 \in DOMAIN s
    PROVE  s # <<>>
  OBVIOUS

\* Dithering with 0 changes nothing.
LEMMA UnditheredColor ==
    ASSUME NEW im, NEW s, im.jpeg_color_space \in {"GRAYSCALE", "RGB", "YCbCr"},
           s[1] \in 0..255,
           im.jpeg_color_space # "GRAYSCALE" =>
              s[2] \in 0..255 /\ s[3] \in 0..255 /\ s = <<s[1], s[2], s[3]>>
    PROVE  DITHER_565(im, RGBOf(im, s), 0) = RGBOf(im, s)
<1> DEFINE q == RGBOf(im, s)
<1>1. q = <<q[1], q[2], q[3]>> /\ q[1] \in Int /\ q[2] \in Int /\ q[3] \in Int
  <2>1. CASE im.jpeg_color_space = "GRAYSCALE"
    BY <2>1 DEF RGBOf, gray_rgb_convert
  <2>2. CASE im.jpeg_color_space = "RGB"
    BY <2>2 DEF RGBOf
  <2>3. CASE im.jpeg_color_space = "YCbCr"
    <3>1. q = RedGreenBlue(s[1], s[2], s[3])
      BY <2>3 DEF RGBOf, ToRGB
    <3>2. s[1] \in 0..255 /\ s[2] \in 0..255 /\ s[3] \in 0..255
      BY <2>3
    <3>3. \A i \in 1..3 : q[i] \in Indexes
      BY <3>1, <3>2, RgbNear, Zenon
    <3> HIDE DEF q
    <3>4. q[1] \in Int /\ q[2] \in Int /\ q[3] \in Int
      BY <3>3, IndexInt, SMT
    <3> QED
      BY <3>1, <3>4 DEF q, RedGreenBlue
  <2> QED
    BY <2>1, <2>2, <2>3
<1> HIDE DEF q
<1>2. DITHER_565(im, q, 0) = <<q[1], q[2], q[3]>>
  <2>1. CASE im.jpeg_color_space = "GRAYSCALE"
    BY <2>1, <1>1, SMT DEF DITHER_565
  <2>2. CASE im.jpeg_color_space # "GRAYSCALE"
    BY <1>1, <2>2, SMT DEF DITHER_565
  <2> QED
    BY <2>1, <2>2
<1> QED
  BY <1>1, <1>2, Zenon DEF q

IsFunction(s) == s = [i \in DOMAIN s |-> s[i]]

LEMMA TripleOf ==
    ASSUME NEW s
    PROVE  [i \in 1..3 |-> s[i]] = <<s[1], s[2], s[3]>>
  BY SMT

\* What a conversion delivers shows the color of the samples it was given.
Convertible(s) ==
    /\ WellFormed(image) /\ SetupError(image) = "none"
    /\ s[1] \in 0..255 /\ DOMAIN s = 1..image.num_components
    /\ image.out_color_space # "GRAYSCALE" =>
          \A i \in 1..image.num_components : s[i] \in 0..255
    /\ IsFunction(s)

LEMMA ConvertedShows ==
    ASSUME NEW s, Convertible(s)
    PROVE  LET p == IF image.out_color_space = "RGB_565" THEN rgb_565_convert(image, s, 0)
                    ELSE color_convert(image, s)
           IN  p # <<>> /\ Shows(p, s)
<1> DEFINE p == IF image.out_color_space = "RGB_565" THEN rgb_565_convert(image, s, 0)
                ELSE color_convert(image, s)
           from == image.jpeg_color_space
           to == image.out_color_space
           exact == ExactRGB(s[1], s[2], s[3])
<1>1. /\ s[1] \in 0..255 /\ DOMAIN s = 1..image.num_components
      /\ to # "GRAYSCALE" => \A i \in 1..image.num_components : s[i] \in 0..255
  BY DEF Convertible
<1>2. s[1] \in 0..255
  BY <1>1
<1>3. /\ image.num_components \in 1..10
      /\ image.num_components \in NumComponents(from)
      /\ Converts(from, to)
      /\ from \in {"UNKNOWN", "GRAYSCALE", "RGB", "YCbCr", "CMYK", "YCCK"}
  BY ImageAccepted DEF Convertible
<1>4. ASSUME to \in {"RGB", "RGBA_8888", "RGB_565"}
      PROVE  /\ from \in {"GRAYSCALE", "RGB", "YCbCr"}
             /\ from # "GRAYSCALE" =>
                   s[2] \in 0..255 /\ s[3] \in 0..255 /\ s = <<s[1], s[2], s[3]>>
  <2>1. from \in {"GRAYSCALE", "RGB", "YCbCr"}
    BY <1>3, <1>4 DEF Converts, RGBSpaces
  <2>2. ASSUME from # "GRAYSCALE"
        PROVE  s[2] \in 0..255 /\ s[3] \in 0..255 /\ s = <<s[1], s[2], s[3]>>
    <3>1. image.num_components = 3
      BY <1>3, <2>1, <2>2 DEF NumComponents
    <3>2. s = [i \in 1..3 |-> s[i]]
      BY <1>1, <3>1, Zenon DEF IsFunction, Convertible
    <3>3. [i \in 1..3 |-> s[i]] = <<s[1], s[2], s[3]>>
      BY TripleOf, Zenon
    <3>4. \A i \in 1..3 : s[i] \in 0..255
      BY <1>1, <1>4, <3>1
    <3>5. s[2] \in 0..255 /\ s[3] \in 0..255
      BY SMT, <3>4
    <3> QED
      BY <3>2, <3>3, <3>5, Zenon
  <2> QED
    BY <2>1, <2>2
<1> DEFINE q == Limit(RGBOf(image, s))
<1>5. ASSUME to \in {"RGB", "RGBA_8888", "RGB_565"}
      PROVE  /\ q = <<q[1], q[2], q[3]>>
             /\ q[1] \in 0..255 /\ q[2] \in 0..255 /\ q[3] \in 0..255
             /\ IF from = "YCbCr" THEN Colored(q, exact) ELSE q = RGBOf(image, s)
  BY <1>4, <1>5, <1>2, ColorOfRGB
<1>6. CASE to = "GRAYSCALE"
  BY <1>6 DEF color_convert, grayscale_convert, Shows
<1>7. CASE to = "RGBA_8888"
  <2>1. p = Append(q, 255)
    BY <1>7 DEF color_convert, rgba_8888_convert, MAXJSAMPLE
  <2>2. q = <<q[1], q[2], q[3]>> /\ (IF from = "YCbCr" THEN Colored(q, exact) ELSE q = RGBOf(image, s))
    BY <1>5, <1>7
  <2> HIDE DEF q, p
  <2>3. p = Append(<<q[1], q[2], q[3]>>, 255)
    BY <2>1, <2>2, Zenon
  <2>4. p[1] = q[1] /\ p[2] = q[2] /\ p[3] = q[3] /\ p[4] = 255 /\ p # <<>>
    BY <2>3, AppendThree
  <2>5. Colored(q, exact) => Colored(p, exact)
    BY <2>4, SMT DEF Colored
  <2>6. IF from = "YCbCr" THEN Colored(p, exact) ELSE <<p[1], p[2], p[3]>> = RGBOf(image, s)
    BY <2>2, <2>4, <2>5, Zenon
  <2>7. Shows(p, s)
    BY <1>7, <2>4, <2>6 DEF Shows, MAXJSAMPLE
  <2> QED
    BY <2>4, <2>7 DEF p
<1>8. CASE to = "RGB_565"
  <2> DEFINE v == <<q[1] % 8, 2 * (q[2] % 4), q[3] % 8>>
  <2>1. DITHER_565(image, RGBOf(image, s), 0) = RGBOf(image, s)
    BY <1>2, <1>4, <1>8, UnditheredColor
  <2>2. p = PACK_SHORT_565(q)
    BY <1>8, <2>1, Zenon DEF rgb_565_convert
  <2>3. /\ q = <<q[1], q[2], q[3]>>
        /\ q[1] \in 0..255 /\ q[2] \in 0..255 /\ q[3] \in 0..255
        /\ IF from = "YCbCr" THEN Colored(q, exact) ELSE q = RGBOf(image, s)
    BY <1>5, <1>8
  <2> HIDE DEF q, p
  <2>4. /\ v \in [1..3 -> 0..7]
        /\ 8 * p[1] + v[1] = q[1] /\ 4 * p[2] + v[2] \div 2 = q[2] /\ 8 * p[3] + v[3] = q[3]
    BY <2>2, <2>3, PackedColor, Zenon
  <2> HIDE DEF v
  <2>5. p # <<>>
    BY <2>2 DEF PACK_SHORT_565
  <2>6. LET full == <<8 * p[1] + v[1], 4 * p[2] + v[2] \div 2, 8 * p[3] + v[3]>>
        IN  IF from = "YCbCr" THEN Colored(full, exact) ELSE full = RGBOf(image, s)
    BY <2>3, <2>4, Zenon
  <2>7. Shows(p, s)
    BY <1>8, <2>4, <2>6, Zenon DEF Shows
  <2> QED
    BY <2>5, <2>7 DEF p
<1>9. CASE to = "RGB"
  <2>1. from \in {"GRAYSCALE", "RGB", "YCbCr"}
    BY <1>4, <1>9
  <2>2. p = IF from = "YCbCr" THEN q ELSE RGBOf(image, s)
    BY <1>9, <2>1 DEF color_convert, ycc_rgb_convert, RGBOf, null_convert
  <2>3. /\ q = <<q[1], q[2], q[3]>>
        /\ IF from = "YCbCr" THEN Colored(q, exact) ELSE q = RGBOf(image, s)
    BY <1>5, <1>9
  <2> HIDE DEF q, p
  <2>4. p = q
    BY <2>2, <2>3
  <2>5. p # <<>>
    BY <2>3, <2>4
  <2>6. Shows(p, s)
    BY <1>9, <2>3, <2>4, Zenon DEF Shows
  <2> QED
    BY <2>5, <2>6 DEF p
<1>10. CASE to = "CMYK" /\ from = "YCCK"
  <2>1. \A i \in 1..4 : s[i] \in 0..255
    BY <1>1, <1>10, <1>3 DEF NumComponents
  <2>2. s[2] \in 0..255 /\ s[3] \in 0..255
    BY SMT, <2>1
  <2>3. /\ \A i \in 1..3 : Near(255 - p[i], Limited(exact[i]))
        /\ p[4] = s[4] /\ p # <<>>
    BY <1>2, <1>10, <2>2, YcckLimited DEF color_convert
  <2> HIDE DEF p
  <2>4. Colored([i \in 1..3 |-> MAXJSAMPLE - p[i]], exact)
    BY <2>3, Zenon DEF MAXJSAMPLE, Colored
  <2> QED
    BY <2>3, <1>10, <2>4 DEF p, Shows
<1>11. CASE to = from /\ to \notin {"GRAYSCALE", "RGBA_8888", "RGB_565", "RGB"}
  <2>1. s # <<>>
    BY <1>3, <1>1, NotEmpty, SMT
  <2>2. Shows(s, s)
    BY <1>11 DEF Shows
  <2> QED
    BY <1>11, <2>1, <2>2 DEF color_convert, null_convert
<1> QED
  BY <1>6, <1>7, <1>8, <1>9, <1>10, <1>11, <1>3 DEF Converts, RGBSpaces

\* So does the pixel the separate routines deliver for a position.
LEMMA PlainShows ==
    ASSUME WellFormed(image), SetupError(image) = "none", needed = Needed(image),
           NEW r \in 0..image.output_height - 1, NEW c \in Columns
    PROVE  /\ PlainPixel(image, needed, r, c) # <<>>
           /\ Shows(PlainPixel(image, needed, r, c), UpsampledPixel(r, c))
<1> DEFINE s == UpsampledPixel(r, c)
           n == image.num_components
<1>1. DOMAIN image.planes = 1..n /\ n \in 1..10
  BY ImageAccepted
<1>2. s = PixelOf(image, needed, r, c) /\ IsFunction(s) /\ DOMAIN s = 1..n
  BY <1>1, Zenon DEF UpsampledPixel, PixelOf, IsFunction
<1>3. c \in 0..image.output_width - 1
  BY DEF Columns
<1>4. ASSUME NEW i \in 1..n, needed[i]
      PROVE  s[i] \in 0..255
  BY <1>1, <1>4, <1>3, UpsampledSample, Zenon DEF UpsampledPixel
<1>5. \A i \in 1..n : needed[i] = (image.out_color_space = "GRAYSCALE" => i = 1)
  BY <1>1, Zenon DEF Needed
<1>6. s[1] \in 0..255
  <2>1. 1 \in 1..n
    BY <1>1
  <2>2. needed[1]
    BY <1>5, <2>1
  <2> QED
    BY <1>4, <2>1, <2>2
<1>7. image.out_color_space # "GRAYSCALE" => \A i \in 1..n : s[i] \in 0..255
  BY <1>4, <1>5, Zenon
<1> HIDE DEF s
<1>8. LET p == IF image.out_color_space = "RGB_565" THEN rgb_565_convert(image, s, 0)
               ELSE color_convert(image, s)
      IN  p # <<>> /\ Shows(p, s)
  BY <1>2, <1>6, <1>7, ConvertedShows DEF Convertible
<1> QED
  BY <1>8, <1>2, Zenon DEF s, PlainPixel

(***************************************************************************)
(* The rows a call delivers, when they start at row first of the image.    *)
(***************************************************************************)
Plainly(im) == im.dither_mode = "NONE" \/ im.out_color_space # "RGB_565"
ColumnsOf(im) == 0..im.output_width - 1

\* Row j is written, and shows row r of the image.
RowGood(im, need, r, rows, misaligned, j) ==
    /\ r \in 0..im.output_height - 1
    /\ DOMAIN rows[j] = ColumnsOf(im)
    /\ \/ \A c \in ColumnsOf(im) : rows[j][c] # <<>>
       \/ /\ im.out_color_space = "RGB_565" /\ ~ use_merged_upsample(im)
          /\ \E k \in 1..j - 1 : misaligned[k]
    /\ Plainly(im) => \A c \in ColumnsOf(im) : rows[j][c] \in {<<>>, PlainPixel(im, need, r, c)}

\* What a row of a merged upsampler always is.
RowShown(im, need, r, row) ==
    /\ DOMAIN row = ColumnsOf(im)
    /\ \A c \in ColumnsOf(im) :
        row[c] # <<>> /\ (Plainly(im) => row[c] = PlainPixel(im, need, r, c))

FirstGood(im, need, first, rows, misaligned) ==
    im.out_color_space = "RGB_565" /\ im.dither_mode # "NONE" /\ rows # <<>> /\ ~ misaligned[1]
    /\ ~ (use_merged_upsample(im) /\ Biggest(im.v) = 2) =>
        \A c \in ColumnsOf(im) :
            rows[1][c] = rgb_565_convert(im, PixelOf(im, need, first, c),
                                         dither_matrix[(first % 4) + 1][(c % 4) + 1])

RowsGood(im, need, first, rows, misaligned) ==
    /\ DOMAIN rows = 1..Len(rows) /\ Len(rows) \in Nat
    /\ \A j \in 1..Len(rows) : RowGood(im, need, first + j - 1, rows, misaligned, j)
    /\ FirstGood(im, need, first, rows, misaligned)

(***************************************************************************)
(* The invariant: where in the image the upsampler stands, what it keeps   *)
(* back, and what the last call delivered.                                 *)
(***************************************************************************)
Started == state \in {"SCANNING", "STOPPING"}

Position ==
    IF ~ use_merged_upsample(image)
    THEN /\ next_row_out \in 0..max_v_samp_factor
         /\ output_scanline = row_group * max_v_samp_factor
                              + (IF next_row_out >= max_v_samp_factor THEN 0 ELSE next_row_out)
    ELSE IF max_v_samp_factor = 1 THEN row_group = output_scanline
    ELSE output_scanline = 2 * row_group + (IF spare_full THEN 1 ELSE 0)

SpareGood ==
    use_merged_upsample(image) /\ max_v_samp_factor = 2 /\ spare_full
    /\ output_scanline < image.output_height =>
        RowShown(image, needed, output_scanline, spare_row)

OutInvariant ==
    /\ image \in Images
    /\ output_scanline \in Nat /\ row_group \in Nat /\ spare_full \in BOOLEAN
    /\ ~ Started => output_scanline = 0 /\ row_group = 0 /\ ~ spare_full /\ call.rows = <<>>
    /\ Started => /\ SetupError(image) = "none" /\ needed = Needed(image)
                  /\ output_scanline <= image.output_height
                  /\ rows_to_go = image.output_height - output_scanline
                  /\ Position /\ SpareGood
                  /\ Len(call.rows) <= output_scanline
                  /\ RowsGood(image, needed, output_scanline - Len(call.rows),
                              call.rows, call.misaligned)

LEMMA NothingSkipped ==
    ASSUME NEW mine, NEW j \in Nat \ {0}, \A k \in 1..j - 1 : ~ mine[k], mine[j] \in BOOLEAN,
           image.output_width \in Nat
    PROVE  (IF mine[j] THEN 1 ELSE 0) + num_cols(mine, j) = image.output_width
<1> DEFINE S == {k \in 1..j : mine[k]}
<1>1. num_cols(mine, j) = image.output_width - Cardinality(S)
  BY DEF num_cols
<1>2. CASE mine[j]
  <2>1. S = {j}
    BY <1>2, SMT
  <2>2. Cardinality(S) = 1
    BY <2>1, FS_Singleton, Zenon
  <2> QED
    BY <1>1, <1>2, <2>2
<1>3. CASE ~ mine[j]
  BY <1>3, FS_EmptySet, <1>1, SMT
<1> QED
  BY <1>2, <1>3

LEMMA PackedPixel ==
    ASSUME NEW im, NEW s, NEW d
    PROVE  rgb_565_convert(im, s, d) # <<>>
  BY DEF rgb_565_convert, PACK_SHORT_565

LEMMA SizeOf ==
    ASSUME NEW im, WellFormed(im)
    PROVE  /\ im.output_width \in Nat \ {0} /\ im.output_height \in Nat \ {0}
           /\ Biggest(im.v) \in 1..4
<1>1. /\ im.output_width \in Nat \ {0} /\ im.output_height \in Nat \ {0}
      /\ im.num_components \in 1..10 /\ im.v \in [1..im.num_components -> 1..4]
  BY Zenon DEF WellFormed
<1>2. im.num_components \in Nat \ {0}
  BY SMT, <1>1
<1>3. Biggest(im.v) \in 1..4
  BY <1>1, <1>2, BiggestOf, Zenon
<1> QED
  BY <1>1, <1>3

\* The separate upsampler and the color converter, for rows from first on.
LEMMA SeparateGood ==
    ASSUME WellFormed(image), SetupError(image) = "none", ~ use_merged_upsample(image),
           needed = Needed(image), output_scanline \in Nat,
           NEW mine, NEW n \in Nat, mine \in [1..n -> BOOLEAN], Len(mine) = n,
           output_scanline + n <= image.output_height
    PROVE  LET rows == SeparateRows(output_scanline, mine)
           IN  Len(rows) = n /\ RowsGood(image, needed, output_scanline, rows, mine)
<1> DEFINE rows == SeparateRows(output_scanline, mine)
           first == output_scanline
           im == image
<1>1. ColumnsOf(im) = Columns
  BY DEF ColumnsOf, Columns
<1>2. ASSUME NEW j \in 1..n
      PROVE  first + j - 1 \in 0..im.output_height - 1
  BY SMT, SizeOf
<1>3. CASE im.out_color_space = "RGB_565"
  <2> DEFINE lead(j) == IF mine[j] THEN 1 ELSE 0
             turns(j, c) == Turns(mine, j - 1) + (IF c < lead(j) THEN 0 ELSE c - lead(j))
             Pixel565(j, c) == rgb_565_convert(im, UpsampledPixel(first + j - 1, c),
                                               DitherByte(output_scanline, turns(j, c)))
  <2>1. rows = [j \in 1..n |-> [c \in Columns |->
                    IF c < lead(j) + num_cols(mine, j) THEN Pixel565(j, c) ELSE <<>>]]
    BY <1>3 DEF SeparateRows, Converted565, Unwritten
  <2> HIDE DEF lead, turns, rows
  <2>2. DOMAIN rows = 1..n /\ Len(rows) = n
    BY <2>1
  <2>3. ASSUME NEW j \in 1..n
        PROVE  /\ DOMAIN rows[j] = Columns
               /\ \A c \in Columns :
                    rows[j][c] = IF c < lead(j) + num_cols(mine, j) THEN Pixel565(j, c) ELSE <<>>
    BY <2>1, Zenon
  <2>4. ASSUME NEW j \in 1..n, \A k \in 1..j - 1 : ~ mine[k]
        PROVE  \A c \in Columns : rows[j][c] = Pixel565(j, c)
    <3>1. lead(j) + num_cols(mine, j) = im.output_width
      BY <2>4, NothingSkipped, SizeOf, SMT DEF lead
    <3> QED
      BY <2>3, <3>1, SizeOf, SMT DEF Columns
  <2>5. ASSUME NEW j \in 1..n
        PROVE  RowGood(im, needed, first + j - 1, rows, mine, j)
    <3>1. \/ \A c \in Columns : rows[j][c] # <<>>
          \/ \E k \in 1..j - 1 : mine[k]
      <4>1. CASE \A k \in 1..j - 1 : ~ mine[k]
        BY <2>4, <4>1, PackedPixel, Zenon
      <4> QED
        BY <4>1, Zenon
    <3>2. ASSUME Plainly(im), NEW c \in Columns
          PROVE  rows[j][c] \in {<<>>, PlainPixel(im, needed, first + j - 1, c)}
      BY <1>3, <3>2, <2>3 DEF Plainly, DitherByte, PlainPixel, PixelOf, UpsampledPixel
    <3> QED
      BY <1>1, <1>2, <1>3, <2>3, <3>1, <3>2, Zenon DEF RowGood
  <2>6. FirstGood(im, needed, first, rows, mine)
    <3> SUFFICES ASSUME im.dither_mode # "NONE", rows # <<>>, ~ mine[1], NEW c \in Columns
                 PROVE  rows[1][c] = rgb_565_convert(im, PixelOf(im, needed, first, c),
                                         dither_matrix[(first % 4) + 1][(c % 4) + 1])
      BY <1>1, Zenon DEF FirstGood
    <3>1. 1 \in 1..n /\ \A k \in 1..1 - 1 : ~ mine[k]
      BY <2>1, SMT
    <3>2. turns(1, c) = c
      <4>1. Turns(mine, 1 - 1) = 0
        <5>1. 1 - 1 = 0
          BY SMT
        <5> QED
          BY <5>1, Zenon DEF Turns
      <4>2. c \in Nat
        BY SMT, SizeOf DEF Columns
      <4> QED
        BY <4>1, <4>2, SMT DEF turns, lead
    <3>3. DitherByte(output_scanline, c) = dither_matrix[(first % 4) + 1][(c % 4) + 1]
      BY Zenon DEF DitherByte
    <3>4. first + 1 - 1 = first
      BY SMT
    <3> QED
      BY <2>4, <3>1, <3>2, <3>3, <3>4 DEF PixelOf, UpsampledPixel
  <2> QED
    BY <2>2, <2>5, <2>6, Zenon DEF RowsGood, rows
<1>4. CASE im.out_color_space # "RGB_565"
  <2>1. rows = [j \in 1..n |-> [c \in Columns |-> color_convert(im, UpsampledPixel(first + j - 1, c))]]
    BY <1>4, Zenon DEF SeparateRows, ConvertedRows
  <2> HIDE DEF rows
  <2>2. DOMAIN rows = 1..n /\ Len(rows) = n
    BY <2>1
  <2>3. ASSUME NEW j \in 1..n
        PROVE  RowGood(im, needed, first + j - 1, rows, mine, j)
    <3>1. ASSUME NEW c \in Columns
          PROVE  rows[j][c] = PlainPixel(im, needed, first + j - 1, c)
      BY <2>1, <1>4, Zenon DEF PlainPixel, PixelOf, UpsampledPixel
    <3>2. \A c \in Columns : PlainPixel(im, needed, first + j - 1, c) # <<>>
      BY <1>2, PlainShows, Zenon
    <3> QED
      BY <1>1, <1>2, <2>1, <3>1, <3>2, Zenon DEF RowGood
  <2>4. FirstGood(im, needed, first, rows, mine)
    BY <1>4, Zenon DEF FirstGood
  <2> QED
    BY <2>2, <2>3, <2>4, Zenon DEF RowsGood, rows
<1> QED
  BY <1>3, <1>4

(***************************************************************************)
(* The merged upsampler.                                                   *)
(***************************************************************************)
LEMMA MergedImage ==
    ASSUME NEW im, WellFormed(im), use_merged_upsample(im)
    PROVE  /\ DOMAIN im.planes = 1..3
           /\ Biggest(im.v) \in {1, 2}
           /\ Expand(im, im.h, 1) = 1 /\ Expand(im, im.v, 1) = 1
           /\ \A i \in {2, 3} : Expand(im, im.h, i) = 2 /\ Expand(im, im.v, i) = Biggest(im.v)
           /\ ~ im.do_fancy_upsampling
           /\ im.jpeg_color_space = "YCbCr" /\ im.out_color_space \in {"RGB", "RGB_565"}
<1> DEFINE d == im.min_DCT_scaled_size
           bh == Biggest(im.h)
           bv == Biggest(im.v)
<1>1. 3 \in Nat \ {0}
  BY SMT
<1>2. /\ im.num_components = 3
      /\ im.h = <<2, 1, 1>> /\ im.v[1] <= 2 /\ im.v[2] = 1 /\ im.v[3] = 1
      /\ \A i \in 1..3 : im.DCT_scaled_size[i] = d
      /\ ~ im.do_fancy_upsampling
      /\ im.jpeg_color_space = "YCbCr" /\ im.out_color_space \in {"RGB", "RGB_565"}
  BY Zenon DEF use_merged_upsample
<1>3. /\ DOMAIN im.planes = 1..3 /\ d \in {1, 2, 4, 8}
      /\ im.h \in [1..3 -> 1..4] /\ im.v \in [1..3 -> 1..4]
  BY <1>2, Zenon DEF WellFormed
<1>4. bh = 2
  <2>1. bh \in 1..4 /\ \A i \in 1..3 : im.h[i] <= bh
    BY <1>3, BiggestOf, <1>1
  <2>2. bh \in {im.h[i] : i \in 1..3}
    BY <1>3, BiggestOf, <1>1
  <2>3. im.h[1] = 2 /\ im.h[2] = 1 /\ im.h[3] = 1
    BY <1>2
  <2> HIDE DEF bh
  <2> QED
    BY SMT, <2>1, <2>2, <2>3
<1>5. bv = im.v[1] /\ bv \in {1, 2}
  <2>1. bv \in 1..4 /\ \A i \in 1..3 : im.v[i] <= bv
    BY <1>3, BiggestOf, <1>1
  <2>2. bv \in {im.v[i] : i \in 1..3}
    BY <1>3, BiggestOf, <1>1
  <2>3. im.v[1] \in 1..4
    BY <1>3
  <2> HIDE DEF bv
  <2> QED
    BY SMT, <1>2, <2>1, <2>2, <2>3
<1>6. /\ InGroup(im, im.h, 1) = 2 /\ InGroup(im, im.v, 1) = bv
      /\ \A i \in {2, 3} : InGroup(im, im.h, i) = 1 /\ InGroup(im, im.v, i) = 1
  <2>1. \A i \in 1..3 : im.DCT_scaled_size[i] = d
    BY <1>2
  <2>2. im.h[1] = 2 /\ im.h[2] = 1 /\ im.h[3] = 1
    BY <1>2
  <2>3. (2 * d) \div d = 2 /\ (1 * d) \div d = 1
    BY SMT, <1>3
  <2>4. (bv * d) \div d = bv
    BY <2>3, <1>5
  <2>5. ASSUME NEW i \in {2, 3}
        PROVE  InGroup(im, im.h, i) = 1 /\ InGroup(im, im.v, i) = 1
    BY <1>2, <2>1, <2>2, <2>3 DEF InGroup
  <2> QED
    BY <1>5, <2>1, <2>2, <2>3, <2>4, <2>5 DEF InGroup
<1> HIDE DEF bh, bv
<1>7. 2 \div 2 = 1 /\ bv \div bv = 1 /\ 2 \div 1 = 2 /\ bv \div 1 = bv
  BY SMT, <1>5
<1>8. \A i \in {2, 3} : Expand(im, im.h, i) = 2 /\ Expand(im, im.v, i) = bv
  BY <1>4, <1>6, <1>7, Zenon DEF Expand, bh, bv
<1> QED
  BY <1>2, <1>3, <1>5, <1>4, <1>6, <1>7, <1>8 DEF bv, Expand, bh

\* The samples a merged routine takes are those the separate ones would.
LEMMA MergedSamplesOf ==
    ASSUME WellFormed(image), use_merged_upsample(image), needed = Needed(image),
           row_group \in Nat, NEW row \in 0..max_v_samp_factor - 1, NEW c \in Columns
    PROVE  MergedSamples(row_group * max_v_samp_factor + row, c)
             = PixelOf(image, needed, row_group * max_v_samp_factor + row, c)
<1> DEFINE im == image
           v  == Biggest(im.v)
           r  == row_group * max_v_samp_factor + row
           p  == PixelOf(im, needed, r, c)
<1>1. /\ DOMAIN im.planes = 1..3
      /\ v \in {1, 2}
      /\ Expand(im, im.h, 1) = 1 /\ Expand(im, im.v, 1) = 1
      /\ \A i \in {2, 3} : Expand(im, im.h, i) = 2 /\ Expand(im, im.v, i) = v
      /\ ~ im.do_fancy_upsampling
      /\ im.out_color_space # "GRAYSCALE"
  BY MergedImage
<1>2. max_v_samp_factor = v
  BY DEF max_v_samp_factor
<1>3. r \div v = row_group /\ r \in Nat /\ (v = 1 => r = row_group)
  BY <1>1, <1>2, SMT
<1> HIDE DEF r, v
<1>4. ASSUME NEW i \in {2, 3}
      PROVE  Upsampled(im, i, r, c) = im.planes[i][row_group][c \div 2]
  <2>1. Expand(im, im.h, i) = 2 /\ Expand(im, im.v, i) = v
    BY <1>1
  <2>2. CASE v = 1
    BY <1>1, <2>1, <2>2, <1>3 DEF Upsampled, h2v1_upsample
  <2>3. CASE v = 2
    BY <1>1, <2>1, <2>3, <1>3 DEF Upsampled, h2v2_upsample
  <2> QED
    BY <1>1, <2>2, <2>3
<1>5. p = [i \in 1..3 |-> Upsampled(im, i, r, c)]
  BY <1>1, Zenon DEF PixelOf, Needed
<1>6. p = <<Upsampled(im, 1, r, c), Upsampled(im, 2, r, c), Upsampled(im, 3, r, c)>>
  <2> HIDE DEF p
  <2> QED
    BY <1>5, TripleOf
<1>7. MergedSamples(r, c) = <<im.planes[1][r][c], im.planes[2][row_group][c \div 2],
                              im.planes[3][row_group][c \div 2]>>
  BY Zenon DEF MergedSamples
<1>8. MergedSamples(r, c) = p
  BY <1>1, <1>4, <1>6, <1>7 DEF Upsampled
<1> QED
  BY <1>8 DEF r

LEMMA MergedPixelOf ==
    ASSUME WellFormed(image), use_merged_upsample(image), needed = Needed(image),
           row_group \in Nat, NEW row \in 0..max_v_samp_factor - 1, NEW c \in Columns,
           NEW d, image.dither_mode = "NONE" => d = 0
    PROVE  LET r == row_group * max_v_samp_factor + row
               p == MergedPixel(r, c, d)
           IN  /\ p # <<>>
               /\ Plainly(image) => p = PlainPixel(image, needed, r, c)
               /\ image.out_color_space = "RGB_565" =>
                     p = rgb_565_convert(image, PixelOf(image, needed, r, c), d)
<1> DEFINE r == row_group * max_v_samp_factor + row
           p == MergedPixel(r, c, d)
           s == PixelOf(image, needed, r, c)
<1>1. MergedSamples(r, c) = s
  BY MergedSamplesOf
<1>2. image.jpeg_color_space = "YCbCr" /\ image.out_color_space \in {"RGB", "RGB_565"}
  BY MergedImage
<1> HIDE DEF r, s
<1>3. CASE image.out_color_space = "RGB_565"
  BY <1>1, <1>3, PackedPixel DEF MergedPixel, Plainly, PlainPixel, s, r
<1>4. CASE image.out_color_space = "RGB"
  <2>1. p = ycc_rgb_convert(s)
    BY <1>1, <1>4, Zenon DEF MergedPixel
  <2>2. 1 \in DOMAIN p
    BY <2>1 DEF ycc_rgb_convert, Limit, ToRGB, RedGreenBlue
  <2>3. PlainPixel(image, needed, r, c) = ycc_rgb_convert(s)
    BY <1>2, <1>4 DEF PlainPixel, color_convert, s
  <2> QED
    BY <1>4, <2>1, <2>2, NotEmpty, <2>3 DEF r, s
<1> QED
  BY <1>2, <1>3, <1>4

LEMMA MergedRow1 ==
    ASSUME WellFormed(image), use_merged_upsample(image), needed = Needed(image),
           row_group \in Nat, max_v_samp_factor = 1
    PROVE  /\ RowShown(image, needed, row_group, h2v1_merged_upsample)
           /\ image.out_color_space = "RGB_565" =>
                \A c \in Columns : h2v1_merged_upsample[c] =
                    rgb_565_convert(image, PixelOf(image, needed, row_group, c),
                                    DitherByte(output_scanline, c))
<1> DEFINE row == h2v1_merged_upsample
<1>1. row_group * 1 + 0 = row_group /\ 0 \in 0..1 - 1
  BY SMT
<1>2. DOMAIN row = Columns
      /\ \A c \in Columns : row[c] = MergedPixel(row_group, c, DitherByte(output_scanline, c))
  BY Zenon DEF h2v1_merged_upsample
<1>3. ASSUME NEW c \in Columns
      PROVE  /\ row[c] # <<>>
             /\ Plainly(image) => row[c] = PlainPixel(image, needed, row_group, c)
             /\ image.out_color_space = "RGB_565" =>
                   row[c] = rgb_565_convert(image, PixelOf(image, needed, row_group, c),
                                            DitherByte(output_scanline, c))
  <2> DEFINE d == DitherByte(output_scanline, c)
  <2>1. image.dither_mode = "NONE" => d = 0
    BY Zenon DEF DitherByte
  <2> HIDE DEF d
  <2>2. LET r == row_group * max_v_samp_factor + 0
            p == MergedPixel(r, c, d)
        IN  /\ p # <<>>
            /\ Plainly(image) => p = PlainPixel(image, needed, r, c)
            /\ image.out_color_space = "RGB_565" =>
                  p = rgb_565_convert(image, PixelOf(image, needed, r, c), d)
    BY <1>1, <2>1, MergedPixelOf
  <2>3. row[c] = MergedPixel(row_group, c, d)
    BY <1>2 DEF d
  <2> HIDE DEF row
  <2> QED
    BY <2>2, <1>1, <2>3 DEF d
<1>4. RowShown(image, needed, row_group, row)
  BY <1>2, <1>3 DEF RowShown, ColumnsOf, Columns
<1> QED
  BY <1>3, <1>4

LEMMA MergedRow2 ==
    ASSUME WellFormed(image), use_merged_upsample(image), needed = Needed(image),
           row_group \in Nat, max_v_samp_factor = 2, NEW row \in 0..1
    PROVE  RowShown(image, needed, 2 * row_group + row, h2v2_merged_upsample(row))
<1> DEFINE u == h2v2_merged_upsample(row)
           w == image.output_width \div 2
           turns(c) == IF row = 0 \/ c = 2 * w THEN 2 * (c \div 2) ELSE 2 * (c \div 2) + 1
           line(c) == IF c < 2 * w THEN c % 2 ELSE row
           d(c) == DitherByte(output_scanline + line(c), turns(c))
<1>1. 2 * row_group + row = row_group * 2 + row /\ row \in 0..2 - 1
  BY SMT
<1>2. DOMAIN u = Columns
      /\ \A c \in Columns : u[c] = MergedPixel(2 * row_group + row, c, d(c))
  BY Zenon DEF h2v2_merged_upsample
<1> HIDE DEF w, turns, line
<1>3. ASSUME NEW c \in Columns
      PROVE  /\ u[c] # <<>>
             /\ Plainly(image) => u[c] = PlainPixel(image, needed, 2 * row_group + row, c)
  <2>1. image.dither_mode = "NONE" => d(c) = 0
    BY Zenon DEF DitherByte
  <2> DEFINE e == d(c)
  <2>2. u[c] = MergedPixel(2 * row_group + row, c, e)
    BY <1>2
  <2> HIDE DEF d, e, u
  <2>3. LET r == row_group * max_v_samp_factor + row
            p == MergedPixel(r, c, e)
        IN  /\ p # <<>>
            /\ Plainly(image) => p = PlainPixel(image, needed, r, c)
    BY <1>1, <2>1, MergedPixelOf DEF e
  <2>4. row_group * max_v_samp_factor + row = 2 * row_group + row
    BY <1>1
  <2> QED
    BY <2>3, <2>4, <2>2, Zenon
<1> HIDE DEF d
<1> QED
  BY <1>2, <1>3 DEF RowShown, ColumnsOf, Columns

LEMMA MergedGood ==
    ASSUME NEW im, WellFormed(im), use_merged_upsample(im), NEW need,
           NEW first \in Nat, NEW rows, NEW mine, NEW n \in Nat,
           DOMAIN rows = 1..n, Len(rows) = n, first + n <= im.output_height,
           \A j \in 1..n : RowShown(im, need, first + j - 1, rows[j]),
           FirstGood(im, need, first, rows, mine)
    PROVE  RowsGood(im, need, first, rows, mine)
<1>1. ASSUME NEW j \in 1..n
      PROVE  RowGood(im, need, first + j - 1, rows, mine, j)
  <2>1. first + j - 1 \in 0..im.output_height - 1
    BY SizeOf, SMT
  <2>2. /\ DOMAIN rows[j] = ColumnsOf(im)
        /\ \A c \in ColumnsOf(im) : rows[j][c] # <<>>
        /\ Plainly(im) => \A c \in ColumnsOf(im) : rows[j][c] = PlainPixel(im, need, first + j - 1, c)
    BY DEF RowShown
  <2> QED
    BY <2>1, <2>2, Zenon DEF RowGood
<1> QED
  BY <1>1, Zenon DEF RowsGood

(***************************************************************************)
(* The steps.                                                              *)
(***************************************************************************)
LEMMA LeastOfThree ==
    ASSUME NEW a \in Nat, NEW b \in Nat, NEW c \in Nat
    PROVE  LET m == Min({a, b, c})
           IN  m \in {a, b, c} /\ m \in Nat /\ m <= a /\ m <= b /\ m <= c
<1> DEFINE S == {a, b, c}
<1>1. \E m \in S : \A k \in S : m <= k
  BY SMT
<1> HIDE DEF S
<1>2. S \subseteq Nat /\ a \in S /\ b \in S /\ c \in S
  BY DEF S
<1> QED
  BY <1>1, <1>2 DEF S, Min

LEMMA FirstOnes ==
    ASSUME NEW m \in Nat, NEW f \in [1..m -> BOOLEAN], NEW n \in Nat \ {0}, n <= m
    PROVE  SubSeq(f, 1, n) \in [1..n -> BOOLEAN] /\ Len(SubSeq(f, 1, n)) = n
<1> DEFINE u == SubSeq(f, 1, n)
<1>1. \A i \in 1..n : f[i] \in BOOLEAN
  BY SMT
<1>2. u \in Seq(BOOLEAN) /\ Len(u) = (IF 1 <= n THEN n - 1 + 1 ELSE 0)
  BY <1>1, SubSeqProperties
<1>3. Len(u) = n
  BY SMT, <1>2
<1> HIDE DEF u
<1>4. u \in [1..n -> BOOLEAN]
  BY <1>2, <1>3
<1> QED
  BY <1>3, <1>4 DEF u

\* What a call that delivers good rows leaves, wherever the upsampler stands.
Delivery ==
    /\ image \in Images /\ output_scanline \in Nat /\ Started
    /\ SetupError(image) = "none" /\ needed = Needed(image)
    /\ output_scanline <= image.output_height
    /\ rows_to_go = image.output_height - output_scanline
    /\ Len(call.rows) <= output_scanline
    /\ RowsGood(image, needed, output_scanline - Len(call.rows), call.rows, call.misaligned)

LEMMA DeliveryPreserved ==
    ASSUME OutInvariant, MaySend, NEW rows, NEW mine, NEW n \in Nat,
           Delivered(rows, mine), Len(rows) = n,
           output_scanline + n <= image.output_height,
           RowsGood(image, needed, output_scanline, rows, mine)
    PROVE  Delivery'
<1>1. /\ image' = image /\ needed' = needed
      /\ output_scanline' = output_scanline + n
      /\ rows_to_go' = rows_to_go - n
      /\ call'.rows = rows /\ call'.misaligned = mine
      /\ state' \in {"SCANNING", "STOPPING"}
  BY DEF Delivered, MaySend
<1>2. /\ image \in Images /\ output_scanline \in Nat
      /\ SetupError(image) = "none" /\ needed = Needed(image)
      /\ rows_to_go = image.output_height - output_scanline
  BY DEF OutInvariant, MaySend, Started
<1>3. /\ output_scanline' \in Nat /\ output_scanline' <= image.output_height
      /\ rows_to_go' = image.output_height - output_scanline'
      /\ Len(rows) <= output_scanline' /\ output_scanline' - Len(rows) = output_scanline
  BY <1>1, <1>2, SizeOf, ImagesAssumption, SMT
<1>4. SetupError(image') = "none" /\ needed' = Needed(image') /\ image'.output_height = image.output_height
  BY <1>1, <1>2
<1> QED
  BY <1>1, <1>2, <1>3, <1>4 DEF Delivery, Started

LEMMA SeparateStep ==
    ASSUME OutInvariant, MaySend, NEW max_lines \in 1..MaxLines,
           NEW misaligned \in [1..max_lines -> BOOLEAN], sep_upsample(max_lines, misaligned)
    PROVE  OutInvariant'
<1> DEFINE V    == max_v_samp_factor
           next == IF next_row_out >= V THEN 0 ELSE next_row_out
           n    == Min({V - next, rows_to_go, max_lines})
           mine == SubSeq(misaligned, 1, n)
           rows == SeparateRows(row_group * V + next, mine)
<1>1. /\ image \in Images /\ WellFormed(image) /\ output_scanline \in Nat /\ row_group \in Nat
      /\ SetupError(image) = "none" /\ needed = Needed(image)
      /\ rows_to_go = image.output_height - output_scanline
      /\ output_scanline < image.output_height
      /\ Position
  BY ImagesAssumption DEF OutInvariant, MaySend, Started
<1>2. /\ ~ use_merged_upsample(image)
      /\ Delivered(rows, mine)
      /\ next_row_out' = next + n
      /\ row_group' = IF next + n >= V THEN row_group + 1 ELSE row_group
      /\ spare_full' = spare_full
  BY Zenon DEF sep_upsample
<1>3. V \in 1..4 /\ image.output_height \in Nat
  BY <1>1, SizeOf, Zenon DEF max_v_samp_factor
<1>4. /\ next_row_out \in 0..V
      /\ output_scanline = row_group * V + next
  BY <1>1, <1>2, Zenon DEF Position
<1>5. next \in 0..V - 1
  BY SMT, <1>3, <1>4
<1> HIDE DEF V, next
<1>6. V - next \in Nat \ {0} /\ rows_to_go \in Nat \ {0} /\ max_lines \in Nat \ {0}
  BY SMT, <1>1, <1>3, <1>5
<1>7. n \in Nat \ {0} /\ n <= V - next /\ n <= rows_to_go /\ n <= max_lines
  <2>1. /\ n \in {V - next, rows_to_go, max_lines} /\ n \in Nat
        /\ n <= V - next /\ n <= rows_to_go /\ n <= max_lines
    BY <1>6, LeastOfThree, Zenon
  <2> HIDE DEF n
  <2> QED
    BY SMT, <1>6, <2>1
<1> HIDE DEF n
<1>8. mine \in [1..n -> BOOLEAN] /\ Len(mine) = n
  BY <1>6, <1>7, FirstOnes
<1> HIDE DEF mine
<1>9. output_scanline + n <= image.output_height /\ n \in Nat
  BY SMT, <1>1, <1>3, <1>7
<1>10. Len(rows) = n /\ RowsGood(image, needed, output_scanline, rows, mine)
  BY <1>1, <1>2, <1>8, <1>9, <1>4, SeparateGood
<1> HIDE DEF rows
<1>11. image' = image /\ output_scanline' = output_scanline + n
  BY <1>2, <1>10 DEF Delivered
<1>12. next_row_out' \in 0..V /\ row_group' \in Nat
       /\ output_scanline' = row_group' * V + (IF next_row_out' >= V THEN 0 ELSE next_row_out')
  <2>1. next + n \in 0..V
    BY SMT, <1>3, <1>5, <1>7
  <2>2. CASE next + n >= V
    <3>1. row_group' = row_group + 1 /\ next_row_out' = V /\ next + n = V
      BY SMT, <1>2, <1>3, <1>5, <1>7, <2>1, <2>2
    <3>2. (row_group + 1) * V = row_group * V + V
      BY <1>3, <1>1, SMT
    <3>3. row_group * V \in Int
      BY SMT, <1>1, <1>3
    <3>4. output_scanline' = row_group * V + V
      BY SMT, <1>3, <1>4, <1>5, <1>7, <1>11, <3>1, <3>3
    <3> QED
      BY SMT, <1>1, <1>3, <3>1, <3>2, <3>3, <3>4
  <2>3. CASE ~ (next + n >= V)
    <3>1. output_scanline' = row_group * V + (next + n)
      BY <1>4, <1>5, <1>7, <1>11, <1>1, <1>3, SMT
    <3> QED
      BY <1>1, <2>1, <2>3, <1>2, <3>1
  <2> QED
    BY <2>2, <2>3
<1>13. Position' /\ SpareGood'
  BY <1>12, <1>2, <1>11 DEF Position, SpareGood, V, max_v_samp_factor
<1>14. spare_full' \in BOOLEAN
  BY <1>2 DEF OutInvariant
<1> QED
  BY <1>2, <1>9, <1>10, DeliveryPreserved, <1>12, <1>13, <1>14 DEF OutInvariant, Delivery

LEMMA Merged1Step ==
    ASSUME OutInvariant, MaySend, NEW misaligned, merged_1v_upsample(misaligned)
    PROVE  OutInvariant'
<1> DEFINE mine == SubSeq(misaligned, 1, 1)
           row  == h2v1_merged_upsample
           rows == <<row>>
<1>1. /\ image \in Images /\ WellFormed(image) /\ output_scanline \in Nat /\ row_group \in Nat
      /\ SetupError(image) = "none" /\ needed = Needed(image)
      /\ output_scanline < image.output_height
      /\ Position
  BY ImagesAssumption DEF OutInvariant, MaySend, Started
<1>2. /\ use_merged_upsample(image) /\ max_v_samp_factor = 1
      /\ Delivered(rows, mine)
      /\ row_group' = row_group + 1 /\ spare_full' = spare_full
  BY Zenon DEF merged_1v_upsample
<1>3. row_group = output_scanline
  BY <1>1, <1>2, Zenon DEF Position
<1>4. /\ RowShown(image, needed, row_group, row)
      /\ image.out_color_space = "RGB_565" =>
           \A c \in Columns : row[c] =
               rgb_565_convert(image, PixelOf(image, needed, row_group, c),
                               DitherByte(output_scanline, c))
  BY <1>1, <1>2, MergedRow1
<1> HIDE DEF mine, row
<1>5. DOMAIN rows = 1..1 /\ Len(rows) = 1 /\ rows[1] = row
  OBVIOUS
<1> HIDE DEF rows
<1>6. FirstGood(image, needed, output_scanline, rows, mine)
  BY <1>3, <1>4, <1>5 DEF DitherByte, ColumnsOf, Columns, FirstGood
<1>7. RowsGood(image, needed, output_scanline, rows, mine)
  <2>1. 1 \in Nat /\ output_scanline + 1 <= image.output_height
    BY SMT, <1>1, SizeOf
  <2>2. \A j \in 1..1 : RowShown(image, needed, output_scanline + j - 1, rows[j])
    <3>1. ASSUME NEW j \in 1..1
          PROVE  j = 1 /\ output_scanline + j - 1 = output_scanline
      BY SMT, <1>1
    <3> QED
      BY <1>3, <1>4, <1>5, <3>1, Zenon
  <2> QED
    BY <1>1, <1>2, <1>5, <1>6, <2>1, <2>2, MergedGood
<1>8. Delivery'
  <2>1. 1 \in Nat /\ output_scanline + 1 <= image.output_height
    BY SMT, <1>1, SizeOf
  <2> QED
    BY <1>2, <1>5, <1>7, <2>1, DeliveryPreserved
<1>9. image' = image /\ output_scanline' = output_scanline + 1
  BY <1>2, <1>5 DEF Delivered
<1>10. row_group' = output_scanline' /\ row_group' \in Nat
  BY <1>1, <1>2, <1>3, <1>9
<1>11. 1 # 2
  OBVIOUS
<1>12. Position' /\ SpareGood'
  BY <1>2, <1>9, <1>10, <1>11 DEF Position, SpareGood, max_v_samp_factor
<1> QED
  BY <1>8, <1>10, <1>12, <1>2 DEF OutInvariant, Delivery

LEMMA Merged2Step ==
    ASSUME OutInvariant, MaySend, NEW max_lines \in 1..MaxLines,
           NEW misaligned, merged_2v_upsample(max_lines, misaligned)
    PROVE  OutInvariant'
<1>1. /\ image \in Images /\ WellFormed(image) /\ output_scanline \in Nat /\ row_group \in Nat
      /\ SetupError(image) = "none" /\ needed = Needed(image)
      /\ output_scanline < image.output_height
      /\ rows_to_go = image.output_height - output_scanline
      /\ Position /\ SpareGood /\ spare_full \in BOOLEAN
  BY ImagesAssumption DEF OutInvariant, MaySend, Started
<1>2. /\ use_merged_upsample(image) /\ max_v_samp_factor = 2
      /\ row_group' = IF spare_full' THEN row_group ELSE row_group + 1
  BY Zenon DEF merged_2v_upsample
<1>3. output_scanline = 2 * row_group + (IF spare_full THEN 1 ELSE 0)
  BY <1>1, <1>2 DEF Position
<1>4. image.output_height \in Nat
  BY <1>1, SizeOf
<1>5. ASSUME NEW rows, NEW mine
      PROVE  FirstGood(image, needed, output_scanline, rows, mine)
  BY <1>2, Zenon DEF FirstGood, max_v_samp_factor
<1>6. ASSUME NEW rows, NEW mine, NEW n \in 1..2, Delivered(rows, mine),
             DOMAIN rows = 1..n, Len(rows) = n, n <= rows_to_go,
             \A j \in 1..n : RowShown(image, needed, output_scanline + j - 1, rows[j])
      PROVE  /\ Delivery' /\ image' = image /\ needed' = needed
             /\ output_scanline' = output_scanline + n
             /\ use_merged_upsample(image') /\ max_v_samp_factor' = 2
  <2>1. n \in Nat /\ output_scanline + n <= image.output_height
    BY SMT, <1>1, <1>4, <1>6
  <2>2. FirstGood(image, needed, output_scanline, rows, mine)
    BY <1>5
  <2>3. RowsGood(image, needed, output_scanline, rows, mine)
    BY <1>1, <1>2, <1>6, <2>1, <2>2, MergedGood
  <2>4. Delivery'
    BY <1>6, <2>1, <2>3, DeliveryPreserved
  <2>5. image' = image /\ needed' = needed /\ output_scanline' = output_scanline + n
    BY <1>6 DEF Delivered
  <2> QED
    BY <1>2, <2>4, <2>5 DEF max_v_samp_factor
<1>7. ASSUME Delivery', use_merged_upsample(image'), max_v_samp_factor' = 2,
             spare_full' \in BOOLEAN, row_group' \in Nat,
             output_scanline' = 2 * row_group' + (IF spare_full' THEN 1 ELSE 0),
             spare_full' => RowShown(image', needed', output_scanline', spare_row')
      PROVE  OutInvariant'
  <2>1. 2 # 1
    OBVIOUS
  <2>2. Position' /\ SpareGood'
    BY <1>7, <2>1, Zenon DEF Position, SpareGood
  <2> QED
    BY <1>7, <2>2, Zenon DEF OutInvariant, Delivery
<1>8. CASE spare_full
  <2> DEFINE mine == SubSeq(misaligned, 1, 1)
             rows == <<spare_row>>
  <2>1. Delivered(rows, mine) /\ spare_full' = FALSE
    BY <1>8, Zenon DEF merged_2v_upsample
  <2> HIDE DEF mine
  <2>2. DOMAIN rows = 1..1 /\ Len(rows) = 1 /\ rows[1] = spare_row
    OBVIOUS
  <2> HIDE DEF rows
  <2>3. \A j \in 1..1 : RowShown(image, needed, output_scanline + j - 1, rows[j])
    <3>1. ASSUME NEW j \in 1..1
          PROVE  j = 1 /\ output_scanline + j - 1 = output_scanline
      BY SMT, <1>1
    <3> QED
      BY <1>1, <1>2, <1>8, <2>2, <3>1, Zenon DEF SpareGood
  <2>4. /\ Delivery' /\ image' = image
        /\ output_scanline' = output_scanline + 1
        /\ use_merged_upsample(image') /\ max_v_samp_factor' = 2
    BY <1>6, <2>1, <2>2, <1>1, <1>4, <2>3, SMT
  <2>5. row_group' = row_group + 1 /\ row_group' \in Nat
    BY <1>1, <1>2, <2>1
  <2>6. output_scanline' = 2 * row_group' + (IF spare_full' THEN 1 ELSE 0)
    BY <2>1, <1>1, <1>3, <1>8, <2>4, <2>5, SMT
  <2> QED
    BY <1>7, <2>1, <2>4, <2>5, <2>6
<1>9. CASE ~ spare_full
  <2> DEFINE n == Min({2, rows_to_go, max_lines})
             mine == SubSeq(misaligned, 1, n)
             rows == [j \in 1..n |-> h2v2_merged_upsample(j - 1)]
  <2>1. /\ Delivered(rows, mine) /\ spare_full' = (n = 1)
        /\ spare_row' = IF n = 1 THEN h2v2_merged_upsample(1) ELSE spare_row
    BY <1>9, Zenon DEF merged_2v_upsample
  <2>2. n \in 1..2 /\ n <= rows_to_go
    <3>1. 2 \in Nat /\ rows_to_go \in Nat \ {0} /\ max_lines \in Nat \ {0}
      BY SMT, <1>1, <1>4
    <3>2. n \in {2, rows_to_go, max_lines} /\ n \in Nat /\ n <= 2 /\ n <= rows_to_go
      BY <3>1, LeastOfThree
    <3> HIDE DEF n
    <3> QED
      BY SMT, <3>1, <3>2
  <2>3. \A row \in 0..1 : RowShown(image, needed, 2 * row_group + row, h2v2_merged_upsample(row))
    BY <1>1, <1>2, MergedRow2
  <2> HIDE DEF n, mine
  <2>4. DOMAIN rows = 1..n /\ Len(rows) = n
    BY <2>2
  <2>5. \A j \in 1..n : RowShown(image, needed, output_scanline + j - 1, rows[j])
    <3> SUFFICES ASSUME NEW j \in 1..n
                 PROVE  RowShown(image, needed, output_scanline + j - 1, rows[j])
      OBVIOUS
    <3>1. rows[j] = h2v2_merged_upsample(j - 1)
      OBVIOUS
    <3> HIDE DEF rows
    <3> QED
      BY <2>3, <1>1, <1>3, <1>9, <2>2, <3>1, SMT
  <2> HIDE DEF rows
  <2>6. /\ Delivery' /\ image' = image /\ needed' = needed
        /\ output_scanline' = output_scanline + n
        /\ use_merged_upsample(image') /\ max_v_samp_factor' = 2
    BY <1>6, <2>1, <2>2, <2>4, <2>5
  <2>7. CASE n = 1
    <3>1. spare_full' = TRUE /\ row_group' = row_group /\ spare_row' = h2v2_merged_upsample(1)
      BY <1>2, <2>1, <2>7
    <3>2. output_scanline' = 2 * row_group + 1
      BY SMT, <1>1, <1>3, <1>9, <2>6, <2>7
    <3>3. RowShown(image', needed', output_scanline', spare_row')
      BY <2>3, <2>6, <3>1, <3>2, SMT
    <3> QED
      BY <1>1, <1>7, <2>6, <3>1, <3>3, <3>2
  <2>8. CASE n = 2
    <3>1. n # 1
      BY SMT, <2>8
    <3>2. spare_full' = FALSE
      BY <2>1, <3>1, Zenon
    <3>3. spare_full' = FALSE /\ row_group' = row_group + 1
      BY <1>2, <3>2
    <3>4. output_scanline' = 2 * row_group' + 0 /\ row_group' \in Nat
      BY SMT, <1>1, <1>3, <1>9, <2>6, <2>8, <3>3
    <3> QED
      BY <1>7, <2>6, <3>3, <3>4
  <2> QED
    BY <2>2, <2>7, <2>8
<1> QED
  BY <1>1, <1>8, <1>9

LEMMA EmptyCall ==
    ASSUME NEW im, NEW need, NEW first, NEW mine
    PROVE  RowsGood(im, need, first, <<>>, mine)
BY SMT DEF FirstGood, RowsGood

LEMMA SetupErrors ==
    ASSUME NEW im
    PROVE  SetupError(im) \notin {"READY", "SCANNING", "STOPPING"}
  BY DEF SetupError, ConversionError, UpsamplerError

LEMMA OutInductive == OutInvariant /\ [Next]_vars => OutInvariant'
<1> SUFFICES ASSUME OutInvariant, [Next]_vars
             PROVE  OutInvariant'
  OBVIOUS
<1>1. CASE StartDecompress
  <2>1. /\ image' = image /\ call' = call /\ row_group' = row_group
        /\ output_scanline' = output_scanline
        /\ state' = "SCANNING" /\ spare_full' = FALSE
        /\ SetupError(image) = "none" /\ needed' = Needed(image)
        /\ rows_to_go' = image.output_height /\ next_row_out' = max_v_samp_factor
    BY <1>1, Zenon DEF StartDecompress, Needed
  <2>2. /\ image \in Images /\ WellFormed(image)
        /\ output_scanline = 0 /\ row_group = 0 /\ call.rows = <<>>
    BY <1>1, ImagesAssumption DEF StartDecompress, Started, OutInvariant
  <2>3. image.output_height \in Nat /\ max_v_samp_factor \in 1..4
    BY <2>2, SizeOf DEF max_v_samp_factor
  <2>4. max_v_samp_factor' = max_v_samp_factor
    BY <2>1 DEF max_v_samp_factor
  <2>5. Position'
    BY <2>1, <2>3, <2>4, <2>2, SMT DEF Position
  <2>6. /\ output_scanline' \in Nat /\ row_group' \in Nat /\ spare_full' \in BOOLEAN
        /\ output_scanline' <= image'.output_height
        /\ rows_to_go' = image'.output_height - output_scanline'
    <3>1. 0 \in Nat /\ 0 <= image.output_height /\ image.output_height = image.output_height - 0
      BY SMT, <2>3
    <3> QED
      BY <2>1, <2>2, <3>1, Zenon
  <2>7. /\ Len(call'.rows) <= output_scanline'
        /\ RowsGood(image', needed', output_scanline' - Len(call'.rows), call'.rows, call'.misaligned)
    BY <2>1, <2>2, EmptyCall
  <2>8. Started' /\ SetupError(image') = "none" /\ needed' = Needed(image') /\ image' \in Images
    BY <2>1, <2>2 DEF Started
  <2> QED
    BY <2>5, <2>1, <2>6, <2>7, <2>8, Zenon DEF OutInvariant, SpareGood
<1>2. CASE StartFails
  BY <1>2, SetupErrors DEF StartFails, Started, OutInvariant
<1>3. CASE jpeg_read_scanlines
  <2>1. PICK max_lines \in 1..MaxLines :
            \E misaligned \in [1..max_lines -> BOOLEAN] :
                /\ MaySend
                /\ \/ sep_upsample(max_lines, misaligned)
                   \/ merged_1v_upsample(misaligned)
                   \/ merged_2v_upsample(max_lines, misaligned)
    BY <1>3, Zenon DEF jpeg_read_scanlines
  <2>2. PICK misaligned \in [1..max_lines -> BOOLEAN] :
            /\ MaySend
            /\ \/ sep_upsample(max_lines, misaligned)
               \/ merged_1v_upsample(misaligned)
               \/ merged_2v_upsample(max_lines, misaligned)
    BY <2>1
  <2> QED
    BY <2>2, SeparateStep, Merged1Step, Merged2Step
<1>4. CASE UNCHANGED vars
  BY <1>4 DEF vars, Position, max_v_samp_factor, SpareGood, Started, OutInvariant
<1> QED
  BY <1>1, <1>2, <1>3, <1>4 DEF Next

\* The invariant in every behavior of the two applications.
LEMMA OutHolds == BothSpec => []OutInvariant
<1>1. BothInit => OutInvariant
  <2> SUFFICES ASSUME BothInit
               PROVE  OutInvariant
    OBVIOUS
  <2>1. /\ image \in Images /\ state = "READY" /\ output_scanline = 0 /\ row_group = 0
        /\ spare_full = FALSE /\ call.rows = <<>>
    BY DEF BothInit, Init
  <2> QED
    BY <2>1 DEF OutInvariant, Started
<1>2. OutInvariant /\ [BothNext]_<<vars, input_vars>> => OutInvariant'
  BY OutInductive DEF BothNext, vars
<1> QED
  BY <1>1, <1>2, PTL DEF BothSpec

\* Every row of the last call, where it is and what it holds.
LEMMA RowOfCall ==
    ASSUME OutInvariant, NEW j \in DOMAIN call.rows
    PROVE  /\ image \in Images /\ WellFormed(image) /\ SetupError(image) = "none"
           /\ needed = Needed(image)
           /\ RowGood(image, needed, RowOf(j), call.rows, call.misaligned, j)
<1>1. Started
  <2> SUFFICES ASSUME ~ Started
               PROVE  FALSE
    OBVIOUS
  <2>1. DOMAIN <<>> = {}
    BY SMT
  <2> QED
    BY <2>1 DEF OutInvariant
<1>2. /\ image \in Images /\ SetupError(image) = "none" /\ needed = Needed(image)
      /\ RowsGood(image, needed, output_scanline - Len(call.rows), call.rows, call.misaligned)
  BY <1>1, Zenon DEF OutInvariant
<1>3. RowGood(image, needed, RowOf(j), call.rows, call.misaligned, j)
  BY <1>2, Zenon DEF RowsGood, RowOf
<1> QED
  BY <1>2, ImagesAssumption, <1>3

\* jdsample.c: every sample delivered is that of the centered triangle filter
\* at its place in the image, never off by more than the rounding.
THEOREM TriangleFilterHolds == BothSpec => []TriangleFilter
<1>1. OutInvariant => TriangleFilter
  <2> SUFFICES ASSUME OutInvariant, NEW j \in DOMAIN call.rows, NEW i \in DOMAIN image.planes,
                      NEW c \in Columns, needed[i]
               PROVE  Magnitude(16 * Upsampled(image, i, RowOf(j), c)
                                  - Interpolated(i, RowOf(j), c)) <= 8
    BY Zenon DEF TriangleFilter
  <2>1. WellFormed(image) /\ RowOf(j) \in 0..image.output_height - 1
    BY RowOfCall, Zenon DEF RowGood
  <2>2. c \in 0..image.output_width - 1
    BY DEF Columns
  <2> HIDE DEF RowOf
  <2> QED
    BY <2>1, <2>2, UpsampledSample, Zenon DEF WellFormed
<1> QED
  BY <1>1, OutHolds, PTL

\* jdmerge.c: "merging is the equivalent of plain box-filter upsampling".
THEOREM MergedIsSeparateHolds == BothSpec => []MergedIsSeparate
<1>1. OutInvariant => MergedIsSeparate
  <2> SUFFICES ASSUME OutInvariant, use_merged_upsample(image), image.dither_mode = "NONE",
                      NEW j \in DOMAIN call.rows, NEW c \in Columns
               PROVE  call.rows[j][c] =
                         IF image.out_color_space = "RGB_565"
                         THEN rgb_565_convert(image, UpsampledPixel(RowOf(j), c), 0)
                         ELSE color_convert(image, UpsampledPixel(RowOf(j), c))
    BY Zenon DEF MergedIsSeparate
  <2>1. RowGood(image, needed, RowOf(j), call.rows, call.misaligned, j)
    BY RowOfCall, Zenon
  <2>2. call.rows[j][c] # <<>> /\ call.rows[j][c] \in {<<>>, PlainPixel(image, needed, RowOf(j), c)}
    BY <2>1 DEF RowGood, ColumnsOf, Columns, Plainly
  <2> QED
    BY <2>2 DEF PlainPixel, PixelOf, UpsampledPixel
<1> QED
  BY <1>1, OutHolds, PTL

\* jdcolor.c and jdmerge.c: every row is written from the first column to the
\* last, in the colors of its own row and columns, dithered for its own place.
THEOREM RowsAreConvertedHolds == BothSpec => []RowsAreConverted
<1>1. OutInvariant => RowsAreConverted
  <2> SUFFICES ASSUME OutInvariant
               PROVE  RowsAreConverted
    OBVIOUS
  <2>1. ColumnsOf(image) = Columns
    BY DEF ColumnsOf, Columns
  <2>2. RowsWhole
    <3> SUFFICES ASSUME NEW j \in DOMAIN call.rows
                 PROVE  /\ DOMAIN call.rows[j] = Columns
                        /\ \/ \A c \in Columns : call.rows[j][c] # Unwritten
                           \/ /\ image.out_color_space = "RGB_565" /\ ~ use_merged_upsample(image)
                              /\ \E k \in 1..j - 1 : call.misaligned[k]
      BY Zenon DEF RowsWhole
    <3> QED
      BY <2>1, RowOfCall, Zenon DEF RowGood, Unwritten
  <2>3. ColorsRight
    <3> SUFFICES ASSUME image.dither_mode = "NONE" \/ image.out_color_space # "RGB_565",
                        NEW j \in DOMAIN call.rows, NEW c \in Columns,
                        call.rows[j][c] # Unwritten
                 PROVE  Shows(call.rows[j][c], UpsampledPixel(RowOf(j), c))
      BY Zenon DEF ColorsRight
    <3>1. /\ WellFormed(image) /\ SetupError(image) = "none" /\ needed = Needed(image)
          /\ RowGood(image, needed, RowOf(j), call.rows, call.misaligned, j)
      BY RowOfCall, Zenon
    <3> DEFINE r == RowOf(j)
    <3>2. r \in 0..image.output_height - 1 /\ call.rows[j][c] = PlainPixel(image, needed, r, c)
      BY <2>1, <3>1, Zenon DEF RowGood, Plainly, Unwritten
    <3> HIDE DEF r
    <3>3. Shows(call.rows[j][c], UpsampledPixel(r, c))
      BY <3>2, <3>1, PlainShows
    <3> QED
      BY <3>3 DEF r
  <2>4. FirstRowDithered
    <3> SUFFICES ASSUME IsDithered, call.rows # <<>>, ~ call.misaligned[1],
                        ~ (use_merged_upsample(image) /\ max_v_samp_factor = 2),
                        NEW c \in Columns
                 PROVE  call.rows[1][c] = DitheredAt(1, c)
      BY Zenon DEF FirstRowDithered
    <3>1. /\ output_scanline \in Nat /\ Len(call.rows) <= output_scanline
          /\ RowsGood(image, needed, output_scanline - Len(call.rows), call.rows, call.misaligned)
      BY DEF OutInvariant
    <3> DEFINE first == output_scanline - Len(call.rows)
    <3>2. RowOf(1) = first
      BY <3>1, SMT DEF RowOf, RowsGood
    <3>3. FirstGood(image, needed, first, call.rows, call.misaligned)
      BY <3>1, Zenon DEF RowsGood
    <3> HIDE DEF first
    <3>4. call.rows[1][c] = rgb_565_convert(image, PixelOf(image, needed, first, c),
                                            dither_matrix[(first % 4) + 1][(c % 4) + 1])
      BY <2>1, <3>3, Zenon DEF FirstGood, IsDithered, max_v_samp_factor
    <3> QED
      BY <3>2, <3>4, Zenon DEF DitheredAt, PixelOf, UpsampledPixel
  <2> QED
    BY <2>2, <2>3, <2>4 DEF RowsAreConverted
<1> QED
  BY <1>1, OutHolds, PTL
=============================================================================
