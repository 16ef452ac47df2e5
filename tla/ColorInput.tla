----------------------------- MODULE ColorInput -----------------------------
(***************************************************************************)
(* From the rows of pixels an application writes to the components that    *)
(* are compressed: the color converter (jccolor.c) fills a buffer, a row   *)
(* or a few in each call, and the downsampler (jcsample.c) takes a row     *)
(* group from it, with the rows around it if it smooths.  CompressRows and *)
(* Compress have the buffer's control; here are the samples.               *)
(*                                                                         *)
(* A pixel is a sequence of samples; rows and columns count from 0.        *)
(***************************************************************************)
EXTENDS ColorTables, Sampling, Sequences

CONSTANTS Pictures,   \* images and the parameters of their compression; see InputInit
          DCTSIZE     \* the side of a block

VARIABLES picture,        \* the fields of cinfo, and the rows the application has
          cstate,
          color_buf,      \* for each component its rows, as far as they are converted
          next_scanline,
          components,     \* for each component the rows that were downsampled
          row_groups      \* how many row groups were

input_vars == <<picture, cstate, color_buf, next_scanline, components, row_groups>>

num_components == Len(picture.h)
max_h_sampling == Biggest(picture.h)
max_v_sampling == Biggest(picture.v)
Height == LastOf(picture.rows) + 1
Width == LastOf(picture.rows[0]) + 1
NoRows == [r \in {} |-> <<>>]

InputInit == /\ picture \in Pictures
             /\ cstate = "START"
             /\ color_buf = <<>> /\ next_scanline = 0
             /\ components = <<>> /\ row_groups = 0

\* The sizes and factors that jcmaster.c and jcparam.c let through, and rows of
\* pixels that have as many samples as the application said.
WellFormedPicture(im) ==
    LET height == LastOf(im.rows)
        width  == LastOf(im.rows[0])
    IN  /\ im.h \in Seq(1..4) /\ im.v \in Seq(1..4)
        /\ Len(im.h) \in 1..10 /\ Len(im.v) = Len(im.h)
        /\ im.input_components \in Nat /\ height \in Nat /\ width \in Nat
        /\ im.rows \in [0..height -> [0..width -> [1..im.input_components -> Samples]]]

ASSUME PicturesAssumption == \A im \in Pictures : WellFormedPicture(im)

(***************************************************************************)
(* jinit_color_converter and jinit_downsampler.                            *)
(***************************************************************************)
Counts(space) == CASE space = "GRAYSCALE"        -> {1}
                   [] space \in {"RGB", "YCbCr"} -> {3}
                   [] space \in {"CMYK", "YCCK"} -> {4}
                   [] OTHER                      -> 1..10

ConvertsInto(from, to) ==
    \/ to = "GRAYSCALE" /\ from \in {"GRAYSCALE", "RGB", "YCbCr"}
    \/ to = "YCbCr" /\ from = "RGB"
    \/ to = "YCCK" /\ from = "CMYK"
    \/ to = from

ConverterError(im) ==
    CASE im.input_components \notin Counts(im.in_color_space) -> "BAD_IN_COLORSPACE"
      [] Len(im.h) \notin Counts(im.jpeg_color_space)         -> "BAD_J_COLORSPACE"
      [] ~ ConvertsInto(im.in_color_space, im.jpeg_color_space)   -> "CONVERSION_NOTIMPL"
      [] im.jpeg_color_space = "UNKNOWN" /\ Len(im.h) # im.input_components ->
            "CONVERSION_NOTIMPL"
      [] OTHER -> "none"

DownsamplerError(im) ==
    CASE im.CCIR601_sampling -> "CCIR601_NOTIMPL"
      [] \E i \in DOMAIN im.h : \/ Biggest(im.h) % im.h[i] # 0
                                \/ Biggest(im.v) % im.v[i] # 0 -> "FRACT_SAMPLE_NOTIMPL"
      [] OTHER -> "none"

CompressError(im) == IF ConverterError(im) # "none" THEN ConverterError(im) ELSE DownsamplerError(im)

StartCompress ==
    /\ cstate = "START" /\ CompressError(picture) = "none"
    /\ cstate' = "SCANNING"
    /\ color_buf' = [i \in DOMAIN picture.h |-> NoRows]
    /\ components' = [i \in DOMAIN picture.h |-> NoRows]
    /\ UNCHANGED <<picture, next_scanline, row_groups>>

CompressFails ==
    /\ cstate = "START" /\ CompressError(picture) # "none"
    /\ cstate' = CompressError(picture)
    /\ UNCHANGED <<picture, color_buf, next_scanline, components, row_groups>>

\* The factors of a component, and whether it is smoothed.
h_expand(i) == max_h_sampling \div picture.h[i]
v_expand(i) == max_v_sampling \div picture.v[i]
Smoothed(i) == picture.smoothing_factor # 0 /\ <<h_expand(i), v_expand(i)>> \in {<<1, 1>>, <<2, 2>>}
need_context_rows == \E i \in DOMAIN picture.h : Smoothed(i)

(***************************************************************************)
(* jccolor.c.  p is a pixel, a sequence of input_components samples.       *)
(***************************************************************************)
rgb_ycc_convert(r, g, b) == <<Luminance(r, g, b), BlueChroma(r, g, b), RedChroma(r, g, b)>>
rgb_gray_convert(p) == <<Luminance(p[1], p[2], p[3])>>
cmyk_ycck_convert(p) ==
    Append(rgb_ycc_convert(MAXJSAMPLE - p[1], MAXJSAMPLE - p[2], MAXJSAMPLE - p[3]), p[4])

converted(im, p) ==
    CASE im.jpeg_color_space = "GRAYSCALE" /\ im.in_color_space = "RGB" -> rgb_gray_convert(p)
      [] im.jpeg_color_space = "GRAYSCALE" /\ im.in_color_space # "RGB" -> grayscale_convert(p)
      [] im.jpeg_color_space = "YCbCr" /\ im.in_color_space = "RGB" ->
            rgb_ycc_convert(p[1], p[2], p[3])
      [] im.jpeg_color_space = "YCCK" /\ im.in_color_space = "CMYK" -> cmyk_ycck_convert(p)
      [] im.jpeg_color_space = im.in_color_space /\ im.in_color_space # "GRAYSCALE" -> p

Converted(row) == [i \in 1..num_components |-> [c \in DOMAIN row |-> converted(picture, row[c])[i]]]

\* The bytes of a row of three-component pixels, and the four of a 32-bit word.
Bytes(row) == [n \in 0..3 * (LastOf(row) + 1) - 1 |-> row[n \div 3][(n % 3) + 1]]
Word(row, w) == [b \in 0..3 |-> Bytes(row)[4 * w + b]]

\* Three words hold four pixels; PACK puts the bytes B0 to B3 of the three words
\* src0 to src2 into the words of the components.
copyquads(row, q) ==
    LET src(n) == Word(row, 3 * q + n)
    IN  << <<src(0)[0], src(0)[3], src(1)[2], src(2)[1]>>,
           <<src(0)[1], src(1)[0], src(1)[3], src(2)[2]>>,
           <<src(0)[2], src(1)[1], src(2)[0], src(2)[3]>> >>

\* Bug: the pixels left over are copied from the row's start.
QuadsConverted_restart(row) ==
    LET quads == 4 * ((LastOf(row) + 1) \div 4)
    IN  [i \in 1..3 |-> [c \in DOMAIN row |->
            IF c < quads THEN copyquads(row, c \div 4)[i][(c % 4) + 1]
            ELSE Bytes(row)[3 * (c - quads) + i - 1]]]

QuadsConverted(row) ==
    LET quads == 4 * ((LastOf(row) + 1) \div 4)
    IN  [i \in 1..3 |-> [c \in DOMAIN row |->
            IF c < quads THEN copyquads(row, c \div 4)[i][(c % 4) + 1]
            ELSE Bytes(row)[3 * c + i - 1]]]

UsesNullConvert == /\ picture.jpeg_color_space = picture.in_color_space
                   /\ picture.in_color_space # "GRAYSCALE"

\* One call of color_convert, for num_rows rows.  The quick way of null_convert
\* is for one row of three components, in words where all pointers allow it.
RowConverted(row, num_rows, is_quad) ==
    IF UsesNullConvert /\ num_rows = 1 /\ num_components = 3 /\ is_quad
    THEN QuadsConverted(row) ELSE Converted(row)

(***************************************************************************)
(* jcsample.c: sample (r, c) of component i.                               *)
(***************************************************************************)
width_in_blocks(i) ==
    (Width * picture.h[i] + max_h_sampling * DCTSIZE - 1) \div (max_h_sampling * DCTSIZE)
output_cols(i) == width_in_blocks(i) * DCTSIZE

Downsampled(i, r, c) ==
    LET factors == <<h_expand(i), v_expand(i)>>
        SF      == picture.smoothing_factor
        plane   == color_buf[i]
    IN  CASE factors = <<1, 1>> /\ SF # 0 ->
                fullsize_smooth_downsample(plane, r, c, output_cols(i), SF)
          [] factors = <<1, 1>> /\ SF = 0 -> fullsize_downsample(plane, r, c)
          [] factors = <<2, 1>>           -> h2v1_downsample(plane, r, c)
          [] factors = <<2, 2>> /\ SF # 0 ->
                h2v2_smooth_downsample(plane, r, c, output_cols(i), SF)
          [] factors = <<2, 2>> /\ SF = 0 -> h2v2_downsample(plane, r, c)
          [] OTHER -> int_downsample(plane, r, c, factors[1], factors[2])

GroupDownsampled ==
    [i \in DOMAIN components |->
        [r \in 0..(row_groups + 1) * picture.v[i] - 1 |->
            IF r \in DOMAIN components[i] THEN components[i][r]
            ELSE [c \in 0..output_cols(i) - 1 |-> Downsampled(i, r, c)]]]

\* The conversion buffer holds what the next row group takes: its own rows and,
\* with context, those of the group below; or the image ends, and its last row
\* is repeated.
RowsTaken == (row_groups + (IF need_context_rows THEN 2 ELSE 1)) * max_v_sampling
GroupReady == \/ next_scanline >= RowsTaken
              \/ next_scanline = Height /\ row_groups * max_v_sampling < Height

\* A turn of the preprocessor's loop: it converts rows until the group is full.
ConvertRows ==
    /\ cstate = "SCANNING" /\ ~ GroupReady /\ next_scanline < Height
    /\ \E num_rows \in 1..Min({RowsTaken, Height}) - next_scanline : \E is_quad \in BOOLEAN :
        LET rows == next_scanline..next_scanline + num_rows - 1
        IN  /\ color_buf' = [i \in DOMAIN color_buf |->
                    [r \in DOMAIN color_buf[i] \cup rows |->
                        IF r \in rows THEN RowConverted(picture.rows[r], num_rows, is_quad)[i]
                        ELSE color_buf[i][r]]]
            /\ next_scanline' = next_scanline + num_rows
    /\ UNCHANGED <<picture, cstate, components, row_groups>>

sep_downsample ==
    /\ cstate = "SCANNING" /\ GroupReady
    /\ components' = GroupDownsampled
    /\ row_groups' = row_groups + 1
    /\ cstate' = IF (row_groups + 1) * max_v_sampling >= Height THEN "FINISHED" ELSE cstate
    /\ UNCHANGED <<picture, color_buf, next_scanline>>

InputNext == StartCompress \/ CompressFails \/ ConvertRows \/ sep_downsample

InputSpec == InputInit /\ [][InputNext]_input_vars

(***************************************************************************)
(* Properties.                                                             *)
(***************************************************************************)
IsGray(p) == p[1] = p[2] /\ p[2] = p[3]

\* What the samples of a pixel have to be, by the equations of jccolor.c.
Represents(s, p) ==
    CASE picture.in_color_space = "RGB" /\ picture.jpeg_color_space = "YCbCr" ->
            /\ \A i \in 1..3 : Near(s[i], ExactYCC(p[1], p[2], p[3])[i])
            /\ IsGray(p) => s = <<p[1], CENTERJSAMPLE, CENTERJSAMPLE>>
      [] picture.in_color_space = "RGB" /\ picture.jpeg_color_space = "GRAYSCALE" ->
            Near(s[1], ExactYCC(p[1], p[2], p[3])[1])
      [] picture.in_color_space = "CMYK" /\ picture.jpeg_color_space = "YCCK" ->
            /\ s[4] = p[4]
            /\ \A i \in 1..3 : Near(s[i], ExactYCC(MAXJSAMPLE - p[1], MAXJSAMPLE - p[2],
                                                   MAXJSAMPLE - p[3])[i])
      [] OTHER -> \A i \in DOMAIN s : s[i] = p[i]

\* Every converted pixel has the samples that the conversion equations give,
\* rounded, never out of range although nothing limits it, and exact for grays;
\* a row copied in words has the bytes of one copied one by one, whatever its
\* width, and in how many calls the rows came.
PixelsAreConverted ==
    \A r \in 0..next_scanline - 1 : \A c \in 0..Width - 1 :
        cstate \in {"SCANNING", "FINISHED"} =>
            Represents([i \in DOMAIN color_buf |-> color_buf[i][r][c]], picture.rows[r][c])

\* The image beyond its edges: the nearest pixel is repeated.
Sample(i, r, c) ==
    LET row == Max({0, Min({r, Height - 1})})
        col == Max({0, Min({c, Width - 1})})
    IN  Converted(picture.rows[row])[i][col]

\* The smoothed pixel, times 1024: with SF = smoothing_factor / 1024 it keeps
\* 1 - 8 * SF of itself and takes SF from each of its eight neighbors.
SmoothedSample(i, r, c) ==
    LET SF     == IF Smoothed(i) THEN picture.smoothing_factor ELSE 0
        around == ((-1..1) \X (-1..1)) \ {<<0, 0>>}
    IN  (1024 - 8 * SF) * Sample(i, r, c)
        + SF * MapThenSumSet(LAMBDA d : Sample(i, r + d[1], c + d[2]), around)

\* Every sample of a component is the average of the (smoothed) pixels it stands
\* for, rounded by a half at most: in the first and the last column and row, in
\* the columns that fill up the last block, and where the rows around it came
\* in later calls.
SamplesAreAverages ==
    \A i \in DOMAIN components : \A r \in DOMAIN components[i] : \A c \in 0..output_cols(i) - 1 :
        LET h      == h_expand(i)
            v      == v_expand(i)
            pixels == (0..v - 1) \X (0..h - 1)
            sum    == MapThenSumSet(
                        LAMBDA p : SmoothedSample(i, r * v + p[1], c * h + p[2]), pixels)
        IN  Magnitude(1024 * h * v * components[i][r][c] - sum) <= 512 * h * v
=============================================================================
