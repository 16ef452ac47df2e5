---------------------------- MODULE OutputSetup ----------------------------
(***************************************************************************)
(* What a decompression gets ready before it reads the first scan: the     *)
(* color spaces guessed at the end of the header (jdapimin.c), the output  *)
(* size and the size of the inverse DCT of each component (jdmaster.c),    *)
(* the color conversion (jdcolor.c) and how each component is upsampled    *)
(* (jdsample.c).  c is the object as the markers left it, p the parameters *)
(* of the application: scale_num, scale_denom, out_color_space ("guess"    *)
(* for the default) and do_fancy_upsampling.                               *)
(***************************************************************************)
EXTENDS Datastream

CONSTANT DCTSIZE    \* the side of a block

\* "Sorry, this code only copes with 8x8 DCTs."
ASSUME DctSizeIsEight == DCTSIZE = 8

jdiv_round_up(a, b) == (a + b - 1) \div b
Most(S) == Max(S \cup {1})
max_h_samp_factor(c) == Most({c.comps[i].h : i \in DOMAIN c.comps})
max_v_samp_factor(c) == Most({c.comps[i].v : i \in DOMAIN c.comps})

----------------------------------------------------------------------------
(* default_decompress_parms: "guess the input colorspace".                 *)

Ids(c) == [i \in DOMAIN c.comps |-> c.comps[i].id]
ThreeColors(c) ==
    IF c.JFIF.saw THEN "YCbCr"
    ELSE IF c.Adobe.saw THEN IF c.Adobe.transform = 0 THEN "RGB" ELSE "YCbCr"
    ELSE IF Ids(c) = << 82, 71, 66 >> THEN "RGB" ELSE "YCbCr"
FourColors(c) == IF c.Adobe.saw /\ c.Adobe.transform # 0 THEN "YCCK" ELSE "CMYK"

jpeg_color_space(c) ==
    CASE Len(c.comps) = 1 -> "GRAYSCALE"
      [] Len(c.comps) = 3 -> ThreeColors(c)
      [] Len(c.comps) = 4 -> FourColors(c)
      [] OTHER -> "UNKNOWN"
GuessedOutput(c) ==
    CASE Len(c.comps) = 3 -> "RGB"
      [] Len(c.comps) = 4 -> "CMYK"
      [] OTHER -> jpeg_color_space(c)
out_color_space(c, p) == IF p.out_color_space = "guess" THEN GuessedOutput(c) ELSE p.out_color_space

----------------------------------------------------------------------------
(* jpeg_calc_output_dimensions.                                            *)

ScaledSizes == {1, 2, 4, DCTSIZE}
min_DCT_scaled_size(p) ==
    Min({s \in ScaledSizes : p.scale_num * DCTSIZE <= p.scale_denom * s} \cup {DCTSIZE})

\* "Scale up the chroma components via IDCT scaling rather than upsampling": the
\* size is doubled as long as the component stays within the largest one.
StaysWithin(factor, size, most, min) == factor * size <= most * min
ScaledSize(c, i, min) ==
    Max({size \in ScaledSizes :
            /\ StaysWithin(c.comps[i].h, size, max_h_samp_factor(c), min)
            /\ StaysWithin(c.comps[i].v, size, max_v_samp_factor(c), min)})

\* Mutant of Downsampled: the size before scaling, as initial_setup has it.
Unscaled(n, factor, size, most) == jdiv_round_up(n * factor, most)
Downsampled(n, factor, size, most) == jdiv_round_up(n * factor * size, most * DCTSIZE)

SizedFor(c, min, sizes) ==
    [min |-> min, size |-> sizes,
     width |-> jdiv_round_up(c.width, DCTSIZE \div min),
     height |-> jdiv_round_up(c.height, DCTSIZE \div min),
     downsampled_width |-> [i \in DOMAIN c.comps |->
        Downsampled(c.width, c.comps[i].h, sizes[i], max_h_samp_factor(c))],
     downsampled_height |-> [i \in DOMAIN c.comps |->
        Downsampled(c.height, c.comps[i].v, sizes[i], max_v_samp_factor(c))]]

jpeg_calc_output_dimensions(c, p) ==
    SizedFor(c, min_DCT_scaled_size(p),
             [i \in DOMAIN c.comps |-> ScaledSize(c, i, min_DCT_scaled_size(p))])

\* Merging is plain box-filter upsampling of 2h1v and 2h2v, YCbCr to RGB.
use_merged_upsample(c, p, out) ==
    /\ ~p.do_fancy_upsampling
    /\ jpeg_color_space(c) = "YCbCr" /\ out_color_space(c, p) = "RGB"
    /\ c.comps[1].h = 2 /\ c.comps[1].v <= 2
    /\ \A i \in {2, 3} : c.comps[i].h = 1 /\ c.comps[i].v = 1
    /\ \A i \in 1..3 : out.size[i] = out.min

----------------------------------------------------------------------------
(* jinit_color_deconverter and jinit_upsampler.                            *)

Conversions ==
    { << "YCbCr", "GRAYSCALE" >>, << "YCbCr", "RGB" >>, << "GRAYSCALE", "RGB" >>,
      << "YCCK", "CMYK" >> }
Convertible(from, to) == from = to \/ << from, to >> \in Conversions
component_needed(c, p, i) ==
    out_color_space(c, p) = "GRAYSCALE" /\ jpeg_color_space(c) = "YCbCr" => i = 1

\* Samples of a component that become max_h by max_v pixels.
h_in_group(c, out, i) == (c.comps[i].h * out.size[i]) \div out.min
v_in_group(c, out, i) == (c.comps[i].v * out.size[i]) \div out.min

Integral(c, out, i) ==
    /\ max_h_samp_factor(c) % h_in_group(c, out, i) = 0
    /\ max_v_samp_factor(c) % v_in_group(c, out, i) = 0
Fancy(c, p, out, i) ==
    /\ p.do_fancy_upsampling /\ out.min > 1
    /\ h_in_group(c, out, i) * 2 = max_h_samp_factor(c)
    /\ max_v_samp_factor(c) \in {v_in_group(c, out, i), 2 * v_in_group(c, out, i)}
    /\ out.downsampled_width[i] > 2

\* JERR_FRACT_SAMPLE_NOTIMPL
Fractional(c, p, out) ==
    \E i \in DOMAIN c.comps : component_needed(c, p, i) /\ ~Integral(c, out, i)

Upsampling(c, p, out) ==
    [i \in DOMAIN c.comps |->
        [needed |-> component_needed(c, p, i), fancy |-> Fancy(c, p, out, i)]]

SelectionError(c, p, out) ==
    IF use_merged_upsample(c, p, out) THEN "none"
    ELSE IF ~Convertible(jpeg_color_space(c), out_color_space(c, p))
    THEN "CONVERSION_NOTIMPL"
    ELSE IF Fractional(c, p, out) THEN "FRACT_SAMPLE_NOTIMPL"
    ELSE "none"

----------------------------------------------------------------------------
(* What this has to give, for a selection without error.  h_expand and so  *)
(* on are the factors the upsamplers of jdsample.c and jdmerge.c work with.*)

h_expand(c, out, i) == max_h_samp_factor(c) \div h_in_group(c, out, i)

\* Samples a row of the upsampler's output has: the triangle filter writes two
\* for every sample of the component, the others as many as the output needs.
Written(c, p, out, i) ==
    IF Fancy(c, p, out, i) THEN 2 * out.downsampled_width[i]
    ELSE h_expand(c, out, i) * jdiv_round_up(out.width, h_expand(c, out, i))
ColorBuffer(c, out) == jdiv_round_up(out.width, max_h_samp_factor(c)) * max_h_samp_factor(c)

\* The upsampled row covers the output row and fits in the conversion buffer, the
\* samples it is made from are all there, and a row group of each component is a
\* whole number of its rows.
Fits(c, p, out, i) ==
    /\ Written(c, p, out, i) \in out.width..ColorBuffer(c, out)
    /\ Written(c, p, out, i) <= h_expand(c, out, i) * out.downsampled_width[i]
    /\ v_in_group(c, out, i) * out.min = c.comps[i].v * out.size[i]
=============================================================================
