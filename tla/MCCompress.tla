----------------------------- MODULE MCCompress -----------------------------
(***************************************************************************)
(* Instances of Compress for TLC.  DCTSIZE is 2; an image of 5 by 5         *)
(* pixels has 2 by 2 MCUs with dummy blocks on the right and at the        *)
(* bottom.                                                                 *)
(***************************************************************************)
EXTENDS Compress

Comp(samp, q, d, a) ==
    [h |-> samp, v |-> samp, quant_tbl_no |-> q, dc_tbl_no |-> d, ac_tbl_no |-> a]
Y == Comp(2, 0, 0, 0)
C == Comp(1, 1, 1, 1)

Image(width, height, comps, script) ==
    [image_width |-> width, image_height |-> height, comps |-> comps, scan_info |-> script,
     optimize_coding |-> FALSE, raw_data_in |-> FALSE, need_context_rows |-> FALSE,
     restart_in_rows |-> 0, restart_interval |-> 0,
     jpeg_color_space |-> "UNKNOWN",
     plan |-> [images |-> 1, tables |-> FALSE, progression |-> FALSE]]

YC(height, script) == Image(5, height, << Y, C >>, script)

All(comps) == Scan(comps, 0, LastCoef, 0, 0)
TwoScans == << All(<< 2 >>), All(<< 1 >>) >>

\* DC first and refined, AC of one component in two steps, of the other in one.
ProgressiveScript ==
    << Scan(<< 1, 2 >>, 0, 0, 0, 1), Scan(<< 1 >>, 1, LastCoef, 0, 1),
       Scan(<< 1, 2 >>, 0, 0, 1, 0), Scan(<< 2 >>, 1, LastCoef, 0, 0),
       Scan(<< 1 >>, 1, LastCoef, 1, 0) >>

\* An AC scan before its DC; and an MCU too big in the second scan.
BadScript == << Scan(<< 1 >>, 1, LastCoef, 0, 0) >>
BigScript == << All(<< 1 >>), All(<< 2, 3 >>) >>

\* Sampling factors no downsampler serves, but which raw data may have.
ThreeToTwo == << [C EXCEPT !.v = 3], [C EXCEPT !.v = 2] >>

\* Rows and MCUs: every height that ends differently, with and without context
\* rows, in one pass and in several.
Rows ==
    {YC(h, << >>) : h \in {3, 5, 6, 8}}
    \cup {[YC(h, << >>) EXCEPT !.need_context_rows = TRUE] : h \in {1, 5, 8, 11}}
    \cup {[YC(5, TwoScans) EXCEPT !.restart_in_rows = 1],
          [YC(5, << >>) EXCEPT !.raw_data_in = TRUE],
          [YC(5, ProgressiveScript) EXCEPT !.raw_data_in = TRUE],
          [Image(3, 7, ThreeToTwo, << >>) EXCEPT !.raw_data_in = TRUE],
          [YC(5, TwoScans) EXCEPT !.optimize_coding = TRUE, !.restart_in_rows = 1]}

\* Parameters that are refused, at once or at the second scan.
BadOnes == {Image(3, 3, << C >>, BadScript), Image(3, 3, << Y, Y, C >>, << >>),
            Image(3, 3, << C, Y, Y >>, BigScript), Image(3, 3, ThreeToTwo, << >>)}

\* Two images one after the other, of one MCU, and what the application may do to
\* the tables before each.
Small(script) == [Image(1, 1, << C >>, script) EXCEPT !.plan.images = 2, !.plan.tables = TRUE]
Sequel == {Small(<< >>), [Small(<< >>) EXCEPT !.optimize_coding = TRUE],
           Small(<< Scan(<< 1 >>, 0, 0, 0, 1), Scan(<< 1 >>, 1, LastCoef, 0, 0),
                    Scan(<< 1 >>, 0, 0, 1, 0) >>)}

\* The scripts of the library, for images of one MCU in the color space it chooses
\* itself; five components are more than fit in a scan.
Standardized(in_color_space, input_components) ==
    LET space == jpeg_default_colorspace(in_color_space)
    IN  [Image(1, 1, jpeg_set_colorspace(space, input_components), << >>)
            EXCEPT !.jpeg_color_space = space, !.plan.progression = TRUE]
Progressions ==
    {Standardized("GRAYSCALE", 1), Standardized("RGB", 3), Standardized("CMYK", 4),
     Standardized("UNKNOWN", 5)}

MCConfigs == Rows \cup BadOnes \cup Sequel \cup Progressions

\* Scaling that leaves the tables at 8 bits, that makes one of them wide, and both.
MCScaleFactors == {100, 250}
MCQualities == {10, 20, 75}
=============================================================================
