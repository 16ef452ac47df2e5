------------------------------ MODULE MCColor ------------------------------
(***************************************************************************)
(* One application does its work beside another that is refused: they      *)
(* share nothing.                                                          *)
(*                                                                         *)
(* Images of 3 to 6 columns and 2 to 5 rows, with every way of upsampling  *)
(* and every conversion.  The planes hold whole row groups: the row of     *)
(* luminance below an odd number of rows is what the inverse DCT left.     *)
(* Pictures of 1 to 9 columns, some of which fill no block and some no     *)
(* four pixels, and of 1 to 5 rows, in every pair of color spaces and with *)
(* every way of downsampling.                                              *)
(***************************************************************************)
EXTENDS Color

\* Samples that differ from row to row and from column to column and reach both
\* ends of the range.
Plane(rows, columns, seed) ==
    [r \in 0..rows - 1 |-> [c \in 0..columns - 1 |->
        (seed + 97 * r + 61 * c + 45 * r * c) % (MAXJSAMPLE + 1)]]
Ends(rows, columns, seed) ==
    [r \in 0..rows - 1 |-> [c \in 0..columns - 1 |-> IF (r + c + seed) % 2 = 0 THEN 0 ELSE MAXJSAMPLE]]

Up(a, b) == (a + b - 1) \div b

\* The first component is at full size, the others at 1/h and 1/v of it.
Planes(P(_, _, _), n, width, height, h, v) ==
    [i \in 1..n |-> IF i = 1 \/ i = 4 THEN P(v * Up(height, v), width, 20 * i)
                    ELSE P(Up(height, v), Up(width, h), 70 * i)]
Factors(n, f) == [i \in 1..n |-> IF i = 1 \/ i = 4 THEN f ELSE 1]

Image(from, to, n, width, height, h, v) ==
    [num_components |-> n, jpeg_color_space |-> from, out_color_space |-> to, dither_mode |-> "NONE",
     do_fancy_upsampling |-> FALSE, CCIR601_sampling |-> FALSE,
     min_DCT_scaled_size |-> 8, DCT_scaled_size |-> [i \in 1..n |-> 8],
     output_width |-> width, output_height |-> height,
     h |-> Factors(n, h), v |-> Factors(n, v),
     planes |-> Planes(Plane, n, width, height, h, v)]

Sampled == {<<1, 1>>, <<2, 1>>, <<2, 2>>, <<1, 2>>, <<3, 1>>}

Colors == {Image("YCbCr", to, 3, 5, 3, f[1], f[2]) :
             to \in {"RGB", "GRAYSCALE", "RGBA_8888", "RGB_565"}, f \in Sampled}
Others == {Image("GRAYSCALE", to, 1, 3, 2, 1, 1) : to \in {"GRAYSCALE", "RGB", "RGBA_8888", "RGB_565"}}
    \cup {Image("RGB", to, 3, 3, 3, 1, 2) : to \in {"RGB", "RGBA_8888", "RGB_565", "YCbCr"}}
    \cup {Image("YCCK", to, 4, 3, 2, 2, 1) : to \in {"CMYK", "YCCK", "RGB"}}
    \cup {Image("CMYK", "CMYK", 4, 3, 2, 1, 1), Image("UNKNOWN", "UNKNOWN", 2, 3, 2, 2, 1),
          Image("YCbCr", "GRAYSCALE", 2, 3, 2, 1, 1)}
Extremes == {[Image("YCbCr", "RGB", 3, 6, 4, f[1], f[2]) EXCEPT
                !.planes = Planes(Ends, 3, 6, 4, f[1], f[2])] : f \in Sampled}

\* Half the size, with the chroma transformed at its full resolution.
Scaled == {[Image("YCbCr", "RGB", 3, 4, 2, 2, 2) EXCEPT
              !.min_DCT_scaled_size = 4, !.DCT_scaled_size = <<4, 8, 8>>,
              !.planes = [i \in 1..3 |-> Plane(2, 4, 50 * i)]]}
Refused == {[Image("YCbCr", "RGB", 3, 3, 2, 1, 1) EXCEPT !.CCIR601_sampling = TRUE],
            [Image("YCbCr", "RGB", 3, 3, 2, 1, 1) EXCEPT !.h = <<3, 2, 1>>]}

Fancy(S) == {[im EXCEPT !.do_fancy_upsampling = TRUE] : im \in S}
Dithered(S) == {[im EXCEPT !.dither_mode = "ORDERED"] :
                  im \in {other \in S : other.out_color_space = "RGB_565"}}

Tall == {Image("YCbCr", "RGB_565", 3, 6, 5, f[1], f[2]) : f \in {<<1, 1>>, <<2, 1>>, <<2, 2>>}}

MCImages ==
    LET plain == Colors \cup Others \cup Extremes \cup Scaled \cup Refused
    IN  plain \cup Fancy(plain) \cup Dithered(plain \cup Fancy(plain) \cup Tall)

----------------------------------------------------------------------------
\* Pixels whose samples reach both ends of the range, and grays.
Rows(height, width, n) ==
    [r \in 0..height - 1 |-> [c \in 0..width - 1 |->
        [i \in 1..n |->
            IF (r + c) % 5 = 4 THEN (50 * r + 31 * c) % (MAXJSAMPLE + 1)
            ELSE IF (r + 2 * c) % 5 = 2 THEN MAXJSAMPLE * (((r + c) \div 2^(i - 1)) % 2)
            ELSE (83 * r + 57 * c + 101 * i + 19 * r * c) % (MAXJSAMPLE + 1)]]]

Picture(from, n, to, h, v, height, width, SF) ==
    [in_color_space |-> from, input_components |-> n, jpeg_color_space |-> to,
     h |-> h, v |-> v, smoothing_factor |-> SF, CCIR601_sampling |-> FALSE,
     rows |-> Rows(height, width, n)]

Ones(n) == [i \in 1..n |-> 1]
First(n, f) == [i \in 1..n |-> IF i = 1 THEN f ELSE 1]

Spaces == {Picture("RGB", 3, "YCbCr", Ones(3), Ones(3), 2, 6, 0),
           Picture("RGB", 3, "GRAYSCALE", Ones(1), Ones(1), 2, 6, 0),
           Picture("YCbCr", 3, "GRAYSCALE", Ones(1), Ones(1), 2, 5, 0),
           Picture("GRAYSCALE", 1, "GRAYSCALE", Ones(1), Ones(1), 2, 5, 0),
           Picture("CMYK", 4, "YCCK", Ones(4), Ones(4), 2, 5, 0),
           Picture("CMYK", 4, "CMYK", Ones(4), Ones(4), 2, 5, 0),
           Picture("UNKNOWN", 2, "UNKNOWN", Ones(2), Ones(2), 2, 5, 0)}
    \cup {Picture("RGB", 3, "RGB", Ones(3), First(3, 2), 3, width, 0) : width \in {1, 4, 7, 8}}
    \cup {Picture("YCbCr", 3, "YCbCr", First(3, 2), Ones(3), 2, 9, 0)}

Downsized == {Picture("RGB", 3, "YCbCr", First(3, f[1]), First(3, f[2]), 5, width, SF) :
              f \in {<<2, 1>>, <<2, 2>>, <<1, 2>>, <<3, 1>>}, width \in {3, 9}, SF \in {0, 100}}
    \cup {Picture("GRAYSCALE", 1, "GRAYSCALE", Ones(1), Ones(1), height, 9, SF) :
            height \in {1, 3}, SF \in {1, 50}}

Unsuited == {Picture("RGB", 4, "YCbCr", Ones(3), Ones(3), 1, 1, 0),
            Picture("RGB", 3, "YCbCr", Ones(4), Ones(4), 1, 1, 0),
            Picture("GRAYSCALE", 1, "YCbCr", Ones(3), Ones(3), 1, 1, 0),
            Picture("UNKNOWN", 2, "UNKNOWN", Ones(3), Ones(3), 1, 1, 0),
            Picture("RGB", 3, "YCbCr", <<3, 2, 1>>, Ones(3), 1, 1, 0),
            [Picture("RGB", 3, "YCbCr", Ones(3), Ones(3), 1, 1, 0) EXCEPT !.CCIR601_sampling = TRUE]}

MCPictures == Spaces \cup Downsized \cup Unsuited

----------------------------------------------------------------------------
Idle == CHOOSE im \in Refused : im.CCIR601_sampling
NotStarted == CHOOSE p \in Unsuited : p.CCIR601_sampling

MCInit == BothInit /\ (image = Idle \/ picture = NotStarted)
MCSpec == MCInit /\ [][BothNext]_<<vars, input_vars>>
=============================================================================
