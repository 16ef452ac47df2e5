---------------------------- MODULE ScanScripts ----------------------------
(***************************************************************************)
(* The parameters jcparam.c chooses by itself: the components of a color   *)
(* space, the quality scale, and the recommended progressive scripts.      *)
(***************************************************************************)
EXTENDS CompressSetup

SET_COMP(h, v, quant, dctbl, actbl) ==
    [h |-> h, v |-> v, quant_tbl_no |-> quant, dc_tbl_no |-> dctbl, ac_tbl_no |-> actbl]

Luma == SET_COMP(2, 2, 0, 0, 0)
Chroma == SET_COMP(1, 1, 1, 1, 1)
Plain == SET_COMP(1, 1, 0, 0, 0)

jpeg_set_colorspace(colorspace, input_components) ==
    CASE colorspace = "GRAYSCALE" -> << Plain >>
      [] colorspace = "RGB"       -> << Plain, Plain, Plain >>
      [] colorspace = "YCbCr"     -> << Luma, Chroma, Chroma >>
      [] colorspace = "CMYK"      -> << Plain, Plain, Plain, Plain >>
      [] colorspace = "YCCK"      -> << Luma, Chroma, Chroma, Luma >>
      [] colorspace = "UNKNOWN"   -> [c \in 1..input_components |-> Plain]

jpeg_default_colorspace(in_color_space) ==
    IF in_color_space = "RGB" THEN "YCbCr" ELSE in_color_space

----------------------------------------------------------------------------
(* jpeg_simple_progression.                                                *)

fill_a_scan(ci, Ss, Se, Ah, Al) == << Scan(<< ci >>, Ss, Se, Ah, Al) >>

fill_scans(ncomps, Ss, Se, Ah, Al) ==
    [ci \in 1..ncomps |-> Scan(<< ci >>, Ss, Se, Ah, Al)]

fill_dc_scans(ncomps, Ah, Al) ==
    IF ncomps <= MAX_COMPS_IN_SCAN
    THEN << Scan([ci \in 1..ncomps |-> ci], 0, 0, Ah, Al) >>
    ELSE fill_scans(ncomps, 0, 0, Ah, Al)

\* The number of scans the space for the script is allocated for: "Calculation
\* must match code below!"
nscans(ncomps, colorspace) ==
    IF ncomps = 3 /\ colorspace = "YCbCr" THEN 10
    ELSE IF ncomps > MAX_COMPS_IN_SCAN THEN 6 * ncomps ELSE 2 + 4 * ncomps

\* Mutant of SimpleProgression: the second band starts one coefficient late.
GapInBand(ncomps, colorspace) ==
    fill_dc_scans(ncomps, 0, 1) \o fill_scans(ncomps, 1, 5, 0, 2)
    \o fill_scans(ncomps, 7, LastCoef, 0, 2) \o fill_scans(ncomps, 1, LastCoef, 2, 1)
    \o fill_dc_scans(ncomps, 1, 0) \o fill_scans(ncomps, 1, LastCoef, 1, 0)

SimpleProgression(ncomps, colorspace) ==
    IF ncomps = 3 /\ colorspace = "YCbCr"
    THEN fill_dc_scans(ncomps, 0, 1)
         \o fill_a_scan(1, 1, 5, 0, 2)
         \o fill_a_scan(3, 1, LastCoef, 0, 1)
         \o fill_a_scan(2, 1, LastCoef, 0, 1)
         \o fill_a_scan(1, 6, LastCoef, 0, 2)
         \o fill_a_scan(1, 1, LastCoef, 2, 1)
         \o fill_dc_scans(ncomps, 1, 0)
         \o fill_a_scan(3, 1, LastCoef, 1, 0)
         \o fill_a_scan(2, 1, LastCoef, 1, 0)
         \o fill_a_scan(1, 1, LastCoef, 1, 0)
    ELSE fill_dc_scans(ncomps, 0, 1)
         \o fill_scans(ncomps, 1, 5, 0, 2)
         \o fill_scans(ncomps, 6, LastCoef, 0, 2)
         \o fill_scans(ncomps, 1, LastCoef, 2, 1)
         \o fill_dc_scans(ncomps, 1, 0)
         \o fill_scans(ncomps, 1, LastCoef, 1, 0)

----------------------------------------------------------------------------
(* The quality scale.                                                      *)

jpeg_quality_scaling(quality) ==
    LET q == IF quality <= 0 THEN 1 ELSE IF quality > 100 THEN 100 ELSE quality
    IN  IF q < 50 THEN 5000 \div q ELSE 200 - q * 2

\* One entry of jpeg_add_quant_table.
ScaledQuant(basic, scale_factor, force_baseline) ==
    LET temp == (basic * scale_factor + 50) \div 100
        most == IF force_baseline THEN 255 ELSE 32767
    IN  IF temp <= 0 THEN 1 ELSE Least(temp, most)
=============================================================================
