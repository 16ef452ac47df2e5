----------------------------- MODULE ColorOutput -----------------------------
(***************************************************************************)
(* From the components of a decompressed image to the rows of pixels the   *)
(* application reads: the upsampler (jdsample.c) with the color converter  *)
(* (jdcolor.c), or the two merged (jdmerge.c).  RowPipe has the control    *)
(* around them; here are the samples.                                      *)
(*                                                                         *)
(* A row delivered is a function from columns, which count from 0, to      *)
(* pixels, sequences of samples; the three fields of a 16-bit pixel of     *)
(* RGB_565 are a sequence too.  What the rows of the application's buffer  *)
(* hold before they are written is Unwritten.                              *)
(***************************************************************************)
EXTENDS ColorTables, Sampling, Sequences

CONSTANTS Images,         \* decompressed images and what is asked for; see Init
          MaxLines        \* bound: rows the application offers in one call

VARIABLES image,          \* the fields of cinfo that stay, and the components' planes
          state,
          out_color_components,
          needed,         \* component_needed of each component
          output_scanline,
          rows_to_go,     \* upsample->rows_to_go
          next_row_out,   \* upsample->next_row_out, of the separate upsampler
          row_group,      \* the row group the main controller offers
          spare_row, spare_full,
          call            \* history: the rows the last call wrote, and their alignment

vars == <<image, state, out_color_components, needed, output_scanline, rows_to_go,
          next_row_out, row_group, spare_row, spare_full, call>>

RGB_PIXELSIZE == 3
Unwritten == <<>>
Columns == 0..image.output_width - 1

Init == /\ image \in Images
        /\ state = "READY"
        /\ out_color_components = 0 /\ needed = <<>>
        /\ output_scanline = 0 /\ rows_to_go = 0 /\ next_row_out = 0 /\ row_group = 0
        /\ spare_row = <<>> /\ spare_full = FALSE
        /\ call = [misaligned |-> <<>>, rows |-> <<>>]

(***************************************************************************)
(* The choice of the routines: jdmaster.c and jinit_color_deconverter.     *)
(***************************************************************************)
NumComponents(space) == CASE space = "GRAYSCALE"         -> {1}
                          [] space \in {"RGB", "YCbCr"}  -> {3}
                          [] space \in {"CMYK", "YCCK"}  -> {4}
                          [] OTHER                       -> 1..10

RGBSpaces == {"RGB", "RGBA_8888", "RGB_565"}
Converts(from, to) ==
    \/ to = "GRAYSCALE" /\ from \in {"GRAYSCALE", "YCbCr"}
    \/ to \in RGBSpaces /\ from \in {"GRAYSCALE", "YCbCr", "RGB"}
    \/ to = "CMYK" /\ from \in {"CMYK", "YCCK"}
    \/ to = from

OutComponents(to, num_components) ==
    CASE to = "GRAYSCALE"           -> 1
      [] to \in {"RGB", "RGB_565"}  -> RGB_PIXELSIZE
      [] to \in {"RGBA_8888", "CMYK"} -> 4
      [] OTHER                      -> num_components

use_merged_upsample(im) ==
    /\ ~ im.do_fancy_upsampling /\ ~ im.CCIR601_sampling
    /\ im.jpeg_color_space = "YCbCr" /\ im.num_components = 3
    /\ im.out_color_space \in {"RGB", "RGB_565"}
    /\ im.h = <<2, 1, 1>> /\ im.v[1] <= 2 /\ im.v[2] = 1 /\ im.v[3] = 1
    /\ \A i \in 1..3 : im.DCT_scaled_size[i] = im.min_DCT_scaled_size

ConversionError(im) ==
    IF im.num_components \notin NumComponents(im.jpeg_color_space) THEN "BAD_J_COLORSPACE"
    ELSE IF ~ Converts(im.jpeg_color_space, im.out_color_space) THEN "CONVERSION_NOTIMPL"
    ELSE "none"

max_v_samp_factor == Biggest(image.v)

\* How much of a full size group a component has after its inverse DCT: a
\* larger transform does part of the upsampling.
InGroup(im, factors, i) == (factors[i] * im.DCT_scaled_size[i]) \div im.min_DCT_scaled_size

Expand(im, factors, i) == Biggest(factors) \div InGroup(im, factors, i)

UpsamplerError(im) ==
    IF im.CCIR601_sampling THEN "CCIR601_NOTIMPL"
    ELSE IF \E i \in 1..im.num_components :
               /\ im.out_color_space = "GRAYSCALE" => i = 1
               /\ \/ Biggest(im.h) % InGroup(im, im.h, i) # 0
                  \/ Biggest(im.v) % InGroup(im, im.v, i) # 0
         THEN "FRACT_SAMPLE_NOTIMPL"
    ELSE "none"

SetupError(im) == IF use_merged_upsample(im) THEN "none"
                  ELSE IF ConversionError(im) # "none" THEN ConversionError(im)
                  ELSE UpsamplerError(im)

\* What jdmaster.c and the main controller make of a file that was accepted:
\* every component has planes of its size, which expanded cover the output.
PlaneOf(plane) == [0..LastOf(plane) -> [0..LastOf(plane[0]) -> Samples]]

WellFormed(im) ==
    LET comps == 1..im.num_components
    IN  /\ im.jpeg_color_space \in {"UNKNOWN", "GRAYSCALE", "RGB", "YCbCr", "CMYK", "YCCK"}
        /\ im.num_components \in 1..10
        /\ im.output_width \in Nat \ {0} /\ im.output_height \in Nat \ {0}
        /\ im.h \in [comps -> 1..4] /\ im.v \in [comps -> 1..4]
        /\ im.min_DCT_scaled_size \in {1, 2, 4, 8}
        /\ im.DCT_scaled_size \in [comps -> {1, 2, 4, 8}]
        /\ DOMAIN im.planes = comps
        /\ \A i \in comps :
            LET plane == im.planes[i]
            IN  /\ InGroup(im, im.h, i) \in 1..Biggest(im.h)
                /\ InGroup(im, im.v, i) \in 1..Biggest(im.v)
                /\ LastOf(plane) \in Nat /\ LastOf(plane[0]) \in Nat
                /\ plane \in PlaneOf(plane)
                /\ im.output_width <= Expand(im, im.h, i) * (LastOf(plane[0]) + 1)
                /\ im.output_height <= Expand(im, im.v, i) * (LastOf(plane) + 1)

ASSUME ImagesAssumption == MaxLines \in Nat \ {0} /\ \A im \in Images : WellFormed(im)

StartDecompress ==
    /\ state = "READY"
    /\ SetupError(image) = "none"
    /\ out_color_components' = OutComponents(image.out_color_space, image.num_components)
    /\ needed' = [i \in DOMAIN image.planes |->
                    image.out_color_space = "GRAYSCALE" => i = 1]
    /\ rows_to_go' = image.output_height
    /\ next_row_out' = max_v_samp_factor
    /\ spare_full' = FALSE
    /\ state' = "SCANNING"
    /\ UNCHANGED <<image, output_scanline, row_group, spare_row, call>>

StartFails ==
    /\ state = "READY"
    /\ SetupError(image) # "none"
    /\ state' = SetupError(image)
    /\ UNCHANGED <<image, out_color_components, needed, output_scanline, rows_to_go,
                   next_row_out, row_group, spare_row, spare_full, call>>

(***************************************************************************)
(* jdsample.c: the upsampled sample of component i, by the routine that    *)
(* jinit_upsampler chooses.  fullsize_upsample copies nothing.             *)
(***************************************************************************)
Upsampled(im, i, r, c) ==
    LET plane == im.planes[i]
        h     == Expand(im, im.h, i)
        v     == Expand(im, im.v, i)
        fancy == /\ im.do_fancy_upsampling /\ im.min_DCT_scaled_size > 1
                 /\ LastOf(plane[0]) > 1
    IN  CASE h = 1 /\ v = 1           -> plane[r][c]
          [] h = 2 /\ v = 1 /\ fancy  -> h2v1_fancy_upsample(plane, r, c)
          [] h = 2 /\ v = 1 /\ ~fancy -> h2v1_upsample(plane, r, c)
          [] h = 2 /\ v = 2 /\ fancy  -> h2v2_fancy_upsample(plane, r, c)
          [] h = 2 /\ v = 2 /\ ~fancy -> h2v2_upsample(plane, r, c)
          [] OTHER                    -> int_upsample(plane, r, c, h, v)

\* noop_upsample leaves no row to read.
UpsampledPixel(r, c) ==
    [i \in DOMAIN image.planes |-> IF needed[i] THEN Upsampled(image, i, r, c) ELSE <<>>]

(***************************************************************************)
(* jdcolor.c.  s is the pixel's samples, one for each component.           *)
(***************************************************************************)
Limit(p) == [i \in DOMAIN p |-> range_limit[p[i]]]
ToRGB(s) == RedGreenBlue(s[1], s[2], s[3])

null_convert(s) == s
ycc_rgb_convert(s) == Limit(ToRGB(s))
gray_rgb_convert(s) == <<s[1], s[1], s[1]>>
ycck_cmyk_convert(s) ==
    Append(Limit([i \in 1..3 |-> MAXJSAMPLE - ToRGB(s)[i]]), s[4])

\* The routines for RGBA_8888 and RGB_565, with the color before it is limited.
RGBOf(im, s) == CASE im.jpeg_color_space = "YCbCr"     -> ToRGB(s)
                  [] im.jpeg_color_space = "GRAYSCALE" -> gray_rgb_convert(s)
                  [] im.jpeg_color_space = "RGB"       -> s
rgba_8888_convert(im, s) == Append(Limit(RGBOf(im, s)), MAXJSAMPLE)

\* The fields of a 16-bit pixel.  A gray level is dithered once, as red is.
PACK_SHORT_565(p) == <<p[1] \div 8, p[2] \div 4, p[3] \div 8>>
DITHER_565(im, p, d) == IF im.jpeg_color_space = "GRAYSCALE"
                        THEN [i \in 1..3 |-> p[i] + d]
                        ELSE <<p[1] + d, p[2] + d \div 2, p[3] + d>>
rgb_565_convert(im, s, d) == PACK_SHORT_565(Limit(DITHER_565(im, RGBOf(im, s), d)))

color_convert(im, s) ==
    CASE im.out_color_space = "RGBA_8888" -> rgba_8888_convert(im, s)
      [] im.out_color_space = "GRAYSCALE" -> grayscale_convert(s)
      [] im.out_color_space = "RGB" /\ im.jpeg_color_space = "YCbCr" -> ycc_rgb_convert(s)
      [] im.out_color_space = "RGB" /\ im.jpeg_color_space = "GRAYSCALE" ->
            gray_rgb_convert(s)
      [] im.out_color_space = "CMYK" /\ im.jpeg_color_space = "YCCK" -> ycck_cmyk_convert(s)
      [] OTHER -> null_convert(s)

(***************************************************************************)
(* Dithering.  A line of the matrix is four bytes in a register, which     *)
(* DITHER_ROTATE turns to the next byte; only the lowest one is used.      *)
(***************************************************************************)
dither_matrix == << <<10, 2, 8, 0>>, <<6, 14, 4, 12>>, <<9, 1, 11, 3>>, <<5, 13, 7, 15>> >>
\* Bug: the register is turned once for a pair of pixels.
DitherByte_pairs(line, turns) == IF image.dither_mode = "NONE" THEN 0
                                 ELSE dither_matrix[(line % 4) + 1][((turns \div 2) % 4) + 1]

DitherByte(line, turns) == IF image.dither_mode = "NONE" THEN 0
                           ELSE dither_matrix[(line % 4) + 1][(turns % 4) + 1]

(***************************************************************************)
(* One call of color_convert: n rows from row first on.  The 565 routines  *)
(* write a single pixel first where a row is not aligned to 32 bits, then  *)
(* pairs, then a last single pixel; num_cols and the register live through *)
(* the rows of the call.                                                   *)
(***************************************************************************)
ConvertedRows(first, n) ==
    [j \in 1..n |-> [c \in Columns |-> color_convert(image, UpsampledPixel(first + j - 1, c))]]

\* num_cols, and the turns of the register, after j rows of the call.
\* Bug: the last pixel of an odd row is left out.
num_cols_even(misaligned, j) ==
    2 * ((image.output_width - Cardinality({k \in 1..j : misaligned[k]})) \div 2)

num_cols(misaligned, j) == image.output_width - Cardinality({k \in 1..j : misaligned[k]})
Turns(misaligned, j) ==
    IF j = 0 THEN 0
    ELSE MapThenSumSet(LAMBDA k : 2 * (num_cols(misaligned, k) \div 2), 1..j)

Converted565(first, misaligned) ==
    [j \in DOMAIN misaligned |->
        LET lead     == IF misaligned[j] THEN 1 ELSE 0
            turns(c) == Turns(misaligned, j - 1) + (IF c < lead THEN 0 ELSE c - lead)
        IN  [c \in Columns |->
                IF c < lead + num_cols(misaligned, j)
                THEN rgb_565_convert(image, UpsampledPixel(first + j - 1, c),
                                     DitherByte(output_scanline, turns(c)))
                ELSE Unwritten]]

SeparateRows(first, misaligned) ==
    IF image.out_color_space = "RGB_565" THEN Converted565(first, misaligned)
    ELSE ConvertedRows(first, Len(misaligned))

(***************************************************************************)
(* jdmerge.c: one row group, which is one or two rows.  The chroma samples *)
(* are shared by a pair of columns, and by the two rows.                   *)
(***************************************************************************)
\* Bug: the chroma samples of the column itself are taken.
MergedSamples_columns(luma_row, c) ==
    <<image.planes[1][luma_row][c], SampleAt(image.planes[2], row_group, c),
      SampleAt(image.planes[3], row_group, c)>>

MergedSamples(luma_row, c) ==
    <<image.planes[1][luma_row][c], image.planes[2][row_group][c \div 2],
      image.planes[3][row_group][c \div 2]>>

MergedPixel(luma_row, c, d) ==
    IF image.out_color_space = "RGB_565" THEN rgb_565_convert(image, MergedSamples(luma_row, c), d)
    ELSE ycc_rgb_convert(MergedSamples(luma_row, c))

h2v1_merged_upsample ==
    [c \in Columns |-> MergedPixel(row_group, c, DitherByte(output_scanline, c))]

\* d0 is used for the first pixel of a pair in either row, d1 for the second;
\* each is turned after it was used.
h2v2_merged_upsample(row) ==
    [c \in Columns |->
        LET pair  == 2 * (c \div 2)
            turns == IF row = 0 \/ c = 2 * (image.output_width \div 2) THEN pair ELSE pair + 1
            line  == IF c < 2 * (image.output_width \div 2) THEN c % 2 ELSE row
        IN  MergedPixel(2 * row_group + row, c, DitherByte(output_scanline + line, turns))]

(***************************************************************************)
(* jpeg_read_scanlines, for rows of which some may not be aligned.         *)
(***************************************************************************)
Delivered(rows, misaligned) ==
    /\ call' = [misaligned |-> misaligned, rows |-> rows]
    /\ output_scanline' = output_scanline + Len(rows)
    /\ rows_to_go' = rows_to_go - Len(rows)
    /\ UNCHANGED <<image, out_color_components, needed>>
    /\ state' = IF output_scanline + Len(rows) = image.output_height THEN "STOPPING" ELSE state

MaySend == state = "SCANNING" /\ output_scanline < image.output_height

sep_upsample(max_lines, misaligned) ==
    LET empty    == next_row_out >= max_v_samp_factor
        next     == IF empty THEN 0 ELSE next_row_out
        num_rows == Min({max_v_samp_factor - next, rows_to_go, max_lines})
        mine     == SubSeq(misaligned, 1, num_rows)
    IN  /\ ~ use_merged_upsample(image)
        /\ Delivered(SeparateRows(row_group * max_v_samp_factor + next, mine), mine)
        /\ next_row_out' = next + num_rows
        /\ row_group' = IF next + num_rows >= max_v_samp_factor THEN row_group + 1
                        ELSE row_group
        /\ UNCHANGED <<spare_row, spare_full>>

merged_1v_upsample(misaligned) ==
    /\ use_merged_upsample(image) /\ max_v_samp_factor = 1
    /\ Delivered(<<h2v1_merged_upsample>>, SubSeq(misaligned, 1, 1))
    /\ row_group' = row_group + 1
    /\ UNCHANGED <<next_row_out, spare_row, spare_full>>

merged_2v_upsample(max_lines, misaligned) ==
    /\ use_merged_upsample(image) /\ max_v_samp_factor = 2
    /\ IF spare_full
       THEN /\ Delivered(<<spare_row>>, SubSeq(misaligned, 1, 1))
            /\ spare_full' = FALSE
            /\ UNCHANGED spare_row
       ELSE LET num_rows == Min({2, rows_to_go, max_lines})
            IN  /\ Delivered([j \in 1..num_rows |-> h2v2_merged_upsample(j - 1)],
                             SubSeq(misaligned, 1, num_rows))
                /\ spare_full' = (num_rows = 1)
                /\ spare_row' = IF num_rows = 1 THEN h2v2_merged_upsample(1) ELSE spare_row
    /\ row_group' = IF spare_full' THEN row_group ELSE row_group + 1
    /\ UNCHANGED next_row_out

jpeg_read_scanlines ==
    \E max_lines \in 1..MaxLines : \E misaligned \in [1..max_lines -> BOOLEAN] :
        /\ MaySend
        /\ \/ sep_upsample(max_lines, misaligned)
           \/ merged_1v_upsample(misaligned)
           \/ merged_2v_upsample(max_lines, misaligned)

Next == StartDecompress \/ StartFails \/ jpeg_read_scanlines

Spec == Init /\ [][Next]_vars

(***************************************************************************)
(* Properties.                                                             *)
(***************************************************************************)
\* The row of the image that the j'th row of the last call is.
RowOf(j) == output_scanline - Len(call.rows) + j - 1

\* What a component shows at a position, times 16: with fancy upsampling 3/4 of
\* the nearest sample and 1/4 of the next nearest, in each direction it is
\* expanded by two, otherwise the sample that covers the position.
Nearest(n, expand) == n \div expand
NextNearest(n, expand) == IF n % 2 = 0 THEN n \div expand - 1 ELSE n \div expand + 1

Interpolated(i, r, c) ==
    LET plane == image.planes[i]
        h     == Expand(image, image.h, i)
        v     == Expand(image, image.v, i)
        fancy == /\ image.do_fancy_upsampling /\ image.min_DCT_scaled_size > 1
                 /\ LastOf(plane[0]) > 1 /\ h = 2 /\ v <= 2
        row(n)  == IF v = 1 THEN 4 * SampleAt(plane, r, n)
                   ELSE 3 * SampleAt(plane, Nearest(r, v), n)
                        + SampleAt(plane, NextNearest(r, v), n)
    IN  IF fancy THEN 3 * row(Nearest(c, h)) + row(NextNearest(c, h))
        ELSE 16 * plane[Nearest(r, v)][Nearest(c, h)]

\* jdsample.c promises a triangle filter with centered samples, rounded up or
\* down but never by more than a half, on every row and at every edge: the
\* samples used are those around the row that is delivered, whatever the calls
\* it was delivered with.
TriangleFilter ==
    \A j \in DOMAIN call.rows : \A i \in DOMAIN image.planes : \A c \in Columns :
        needed[i] => Magnitude(16 * Upsampled(image, i, RowOf(j), c) - Interpolated(i, RowOf(j), c)) <= 8

Colored(pixel, exact) == \A i \in 1..3 : Near(pixel[i], Limited(exact[i]))

\* The pixel shows the color of the samples at its position.
Shows(pixel, s) ==
    CASE image.out_color_space = "GRAYSCALE" -> pixel = <<s[1]>>
      [] image.out_color_space = "RGBA_8888" ->
            /\ pixel[4] = MAXJSAMPLE
            /\ IF image.jpeg_color_space = "YCbCr" THEN Colored(pixel, ExactRGB(s[1], s[2], s[3]))
               ELSE <<pixel[1], pixel[2], pixel[3]>> = RGBOf(image, s)
      [] image.out_color_space = "RGB_565" ->
            \E v \in [1..3 -> 0..7] :
               LET full == <<8 * pixel[1] + v[1], 4 * pixel[2] + v[2] \div 2, 8 * pixel[3] + v[3]>>
               IN  IF image.jpeg_color_space = "YCbCr"
                   THEN Colored(full, ExactRGB(s[1], s[2], s[3])) ELSE full = RGBOf(image, s)
      [] image.out_color_space = "RGB" ->
            IF image.jpeg_color_space = "YCbCr" THEN Colored(pixel, ExactRGB(s[1], s[2], s[3]))
            ELSE pixel = RGBOf(image, s)
      [] image.out_color_space = "CMYK" /\ image.jpeg_color_space = "YCCK" ->
            /\ pixel[4] = s[4]
            /\ Colored([i \in 1..3 |-> MAXJSAMPLE - pixel[i]], ExactRGB(s[1], s[2], s[3]))
      [] OTHER -> pixel = s

\* "Merging is the equivalent of plain box-filter upsampling": the merged
\* routines deliver to the bit what the separate ones would have.
MergedIsSeparate ==
    use_merged_upsample(image) /\ image.dither_mode = "NONE" =>
        \A j \in DOMAIN call.rows : \A c \in Columns :
            call.rows[j][c] = IF image.out_color_space = "RGB_565"
                              THEN rgb_565_convert(image, UpsampledPixel(RowOf(j), c), 0)
                              ELSE color_convert(image, UpsampledPixel(RowOf(j), c))

\* A row delivered is written in every column, unless it is one of RGB_565 that
\* was converted in one call with a misaligned row before it: num_cols is not
\* set again for the next row.
RowsWhole ==
    \A j \in DOMAIN call.rows :
        /\ DOMAIN call.rows[j] = Columns
        /\ \/ \A c \in Columns : call.rows[j][c] # Unwritten
           \/ /\ image.out_color_space = "RGB_565" /\ ~ use_merged_upsample(image)
              /\ \E k \in 1..j - 1 : call.misaligned[k]

ColorsRight ==
    image.dither_mode = "NONE" \/ image.out_color_space # "RGB_565" =>
        \A j \in DOMAIN call.rows : \A c \in Columns :
            call.rows[j][c] # Unwritten => Shows(call.rows[j][c], UpsampledPixel(RowOf(j), c))

DitheredAt(j, c) ==
    rgb_565_convert(image, UpsampledPixel(RowOf(j), c), dither_matrix[(RowOf(j) % 4) + 1][(c % 4) + 1])
IsDithered == image.out_color_space = "RGB_565" /\ image.dither_mode # "NONE"

\* The first row of every call, if it is aligned and not made in pairs, is
\* dithered with the entries of the 4x4 array for its position in the image,
\* however many rows the calls before returned.
FirstRowDithered ==
    IsDithered /\ call.rows # <<>> /\ ~ call.misaligned[1]
    /\ ~ (use_merged_upsample(image) /\ max_v_samp_factor = 2) =>
        \A c \in Columns : call.rows[1][c] = DitheredAt(1, c)

\* Every row is written from the first column to the last, and every pixel has
\* the color that the conversion equations give for the samples of its own row
\* and column: rows split between calls, spare rows and the chroma samples that
\* merged upsampling shares are not mixed up.
RowsAreConverted == RowsWhole /\ ColorsRight /\ FirstRowDithered
=============================================================================
