---------------------------- MODULE ColorTables ----------------------------
(***************************************************************************)
(* The arithmetic of color conversion: the range limit table every         *)
(* decompressor makes (jdmaster.c), the tables from YCbCr to RGB           *)
(* (jdcolor.c, and again in jdmerge.c) and from RGB to YCbCr (jccolor.c).  *)
(*                                                                         *)
(* Samples have 8 bits.  Fractions are scaled by 2^16 and rounded; a table *)
(* is a function of the sample it is indexed with.  The tables of jccolor  *)
(* are parts of one array there, and functions of their own here.          *)
(***************************************************************************)
EXTENDS Integers

MAXJSAMPLE == 255
CENTERJSAMPLE == 128
Samples == 0..MAXJSAMPLE

SCALE == 65536          \* 1 << SCALEBITS
ONE_HALF == 32768
RIGHT_SHIFT(x) == x \div SCALE

(***************************************************************************)
(* sample_range_limit, indexed from -(MAXJSAMPLE+1), and the IDCTs' way to *)
(* index it: from CENTERJSAMPLE on, masked to two bits more than a sample. *)
(***************************************************************************)
RangeLimitIndexes == -(MAXJSAMPLE + 1) .. 4 * (MAXJSAMPLE + 1) + CENTERJSAMPLE - 1

range_limit ==
    [x \in RangeLimitIndexes |->
        CASE x < 0                                     -> 0
          [] x \in 0..MAXJSAMPLE                       -> x
          [] x > MAXJSAMPLE
             /\ x < 2 * (MAXJSAMPLE + 1) + CENTERJSAMPLE -> MAXJSAMPLE
          [] x >= 2 * (MAXJSAMPLE + 1) + CENTERJSAMPLE
             /\ x < 4 * (MAXJSAMPLE + 1)               -> 0
          [] x >= 4 * (MAXJSAMPLE + 1)                 -> x - 4 * (MAXJSAMPLE + 1)]

RANGE_MASKED(x) == x % (MAXJSAMPLE * 4 + 4)
IDCT_range_limit(x) == range_limit[CENTERJSAMPLE + RANGE_MASKED(x)]

(***************************************************************************)
(* build_ycc_rgb_table.  FIX(1.40200) is 91881, and so on.                 *)
(***************************************************************************)
Cr_r_tab == [i \in Samples |-> RIGHT_SHIFT(91881 * (i - CENTERJSAMPLE) + ONE_HALF)]
Cb_b_tab == [i \in Samples |-> RIGHT_SHIFT(116130 * (i - CENTERJSAMPLE) + ONE_HALF)]
Cr_g_tab == [i \in Samples |-> -46802 * (i - CENTERJSAMPLE)]
Cb_g_tab == [i \in Samples |-> -22554 * (i - CENTERJSAMPLE) + ONE_HALF]

\* The red, green and blue of a pixel before they are limited.
\* Bug: the chroma tables of green are swapped.
RedGreenBlue_swapped(y, cb, cr) ==
    <<y + Cr_r_tab[cr], y + RIGHT_SHIFT(Cb_g_tab[cr] + Cr_g_tab[cb]), y + Cb_b_tab[cb]>>

RedGreenBlue(y, cb, cr) ==
    <<y + Cr_r_tab[cr], y + RIGHT_SHIFT(Cb_g_tab[cb] + Cr_g_tab[cr]), y + Cb_b_tab[cb]>>

(***************************************************************************)
(* rgb_ycc_start: the sections of rgb_ycc_tab.                             *)
(***************************************************************************)
CBCR_OFFSET == CENTERJSAMPLE * SCALE

R_Y == [i \in Samples |-> 19595 * i]
G_Y == [i \in Samples |-> 38470 * i]
B_Y == [i \in Samples |-> 7471 * i + ONE_HALF]
R_CB == [i \in Samples |-> -11059 * i]
G_CB == [i \in Samples |-> -21709 * i]
\* Bug: rounded by a half, so that a pure color exceeds the range.
B_CB_rounded == [i \in Samples |-> 32768 * i + CBCR_OFFSET + ONE_HALF]
B_CB == [i \in Samples |-> 32768 * i + CBCR_OFFSET + ONE_HALF - 1]
R_CR == B_CB
G_CR == [i \in Samples |-> -27439 * i]
B_CR == [i \in Samples |-> -5329 * i]

\* What is stored is a JSAMPLE.
Luminance(r, g, b) == RIGHT_SHIFT(R_Y[r] + G_Y[g] + B_Y[b]) % (MAXJSAMPLE + 1)
BlueChroma(r, g, b) == RIGHT_SHIFT(R_CB[r] + G_CB[g] + B_CB[b]) % (MAXJSAMPLE + 1)
RedChroma(r, g, b) == RIGHT_SHIFT(R_CR[r] + G_CR[g] + B_CR[b]) % (MAXJSAMPLE + 1)

\* jccolor.c and jdcolor.c both have it: the other components are left out.
grayscale_convert(s) == <<s[1]>>

(***************************************************************************)
(* What the conversions approximate, in hundred thousandths: the equations *)
(* of CCIR 601-1 that the comments of both files give.                     *)
(***************************************************************************)
UNIT == 100000

ExactRGB(y, cb, cr) ==
    LET u == cb - CENTERJSAMPLE
        v == cr - CENTERJSAMPLE
    IN  <<UNIT * y + 140200 * v, UNIT * y - 34414 * u - 71414 * v, UNIT * y + 177200 * u>>

ExactYCC(r, g, b) ==
    <<29900 * r + 58700 * g + 11400 * b,
      -16874 * r - 33126 * g + 50000 * b + UNIT * CENTERJSAMPLE,
      50000 * r - 41869 * g - 8131 * b + UNIT * CENTERJSAMPLE>>

Limited(exact) == IF exact < 0 THEN 0
                  ELSE IF exact > UNIT * MAXJSAMPLE THEN UNIT * MAXJSAMPLE ELSE exact

\* v is the sample nearest to the exact value, but for the rounding of the
\* scaled constants: six tenths of a unit instead of a half.
Near(v, exact) == /\ v \in Samples
                  /\ UNIT * v - exact <= 60000 /\ exact - UNIT * v <= 60000
=============================================================================
