------------------------------ MODULE MCRowPipe ------------------------------
(* Images of a luminance and a chrominance component, subsampled as files  *)
(* are, with the DCT scaling jpeg_calc_output_dimensions chooses for them  *)
(* at several output scales, and heights around those of whole iMCU rows.  *)
EXTENDS RowPipe

Luma(y, c) == [i \in {"Y", "C"} |-> IF i = "Y" THEN y ELSE c]

Shape(scale, max_v, v, size, fancy, method) ==
    [M |-> scale, max_v_samp_factor |-> max_v, v_samp_factor |-> v,
     DCT_scaled_size |-> size, Fancy |-> fancy, upsampler |-> method,
     quantize |-> "none", image_height |-> 1]

Sized(shape, q, heights) ==
    {[shape EXCEPT !.quantize = q, !.image_height = h] : h \in heights}

(* 2:1 and 4:1 images at full scale, 4:1 at 1/2, 2:1 at 1/8, and an image  *)
(* that is not subsampled vertically at 1/2.                               *)
triangle == Shape(8, 2, Luma(2, 1), Luma(8, 8), {"C"}, "sep")
fourToOne == Shape(8, 4, Luma(4, 1), Luma(8, 8), {}, "sep")
half     == Shape(4, 4, Luma(4, 1), Luma(4, 8), {"C"}, "sep")
eighth   == Shape(1, 2, Luma(2, 1), Luma(1, 2), {}, "sep")
merged   == Shape(8, 2, Luma(2, 1), Luma(8, 8), {}, "merged_2v")
flat     == Shape(4, 1, Luma(1, 1), Luma(4, 4), {}, "merged_1v")

AllImages ==
    UNION {Sized(triangle, "none", {1, 15, 16, 17, 31, 33, 34, 49}),
           Sized(triangle, "2pass", {7, 17}),
           Sized(half, "1pass", {1, 33, 34, 46, 63}),
           Sized(fourToOne, "1pass", {31, 33, 38}),
           Sized(eighth, "2pass", {1, 17, 33}),
           Sized(merged, "2pass", {1, 7, 9, 18}),
           Sized(flat, "2pass", {1, 7, 8, 9, 17})}

TallStrips == Sized(fourToOne, "2pass", {3})
=============================================================================
