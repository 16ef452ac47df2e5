------------------------------ MODULE Quantize2 ------------------------------
(***************************************************************************)
(* The two-pass color quantizer (jquant2.c): a histogram of the image, the *)
(* median cut that turns it into a colormap, and the inverse colormap that *)
(* then takes the histogram's place, a cache of the nearest color of every *)
(* cell that is filled one update box at a time.                           *)
(*                                                                         *)
(* A cell is a triple of histogram indexes.  The sums of Thomas' method    *)
(* are given in closed form.  Pixels, rows, colormaps and NULL are as in   *)
(* Quantize1.                                                              *)
(***************************************************************************)
EXTENDS Quantize1

CONSTANTS HIST_BITS,       \* HIST_C0_BITS.. ; <<5, 6, 5>> in the code
          BOX_LOG,         \* BOX_C0_LOG.. ; <<2, 3, 2>> in the code
          HistMax,         \* the largest histcell; 65535 in the code
          MinDesired       \* the least desired_number_of_colors; 8 in the code

C_SCALE == <<2, 3, 1>>
Axes == 1..3
BITS_IN_JSAMPLE == CHOOSE b \in 1..16 : 2^b = MAXJSAMPLE + 1
Step(a) == 2^(BITS_IN_JSAMPLE - HIST_BITS[a])
MAXNUMCOLORS == MAXJSAMPLE + 1

MaxIndex(a) == MAXJSAMPLE \div Step(a)
Cells == (0..MaxIndex(1)) \X (0..MaxIndex(2)) \X (0..MaxIndex(3))
CellOf(pixel) == <<pixel[1] \div Step(1), pixel[2] \div Step(2), pixel[3] \div Step(3)>>
Center(cell) == [a \in Axes |-> cell[a] * Step(a) + Step(a) \div 2]
ZeroHistogram == [cell \in Cells |-> 0]
Squared(d) == d[1] * d[1] + d[2] * d[2] + d[3] * d[3]

\* Bug: the count is not held at its largest value.
prescan_quantize_overflow(q, row) ==
    LET seen(cell) == Cardinality({c \in DOMAIN row : CellOf(row[c]) = cell})
    IN  [q EXCEPT !.histogram = [cell \in Cells |-> @[cell] + seen(cell)]]

prescan_quantize(q, row) ==
    LET seen(cell) == Cardinality({c \in DOMAIN row : CellOf(row[c]) = cell})
    IN  [q EXCEPT !.histogram =
            [cell \in Cells |-> Min({@[cell] + seen(cell), HistMax})]]

(***************************************************************************)
(* The median cut.                                                         *)
(***************************************************************************)
CellsOf(box) == (box.min[1]..box.max[1]) \X (box.min[2]..box.max[2])
                                         \X (box.min[3]..box.max[3])

UsedCells(hist, box) == {cell \in CellsOf(box) : hist[cell] # 0}

ScaledSide(box, a) == (box.max[a] - box.min[a]) * Step(a) * C_SCALE[a]

\* Shrunk around the cells used, with its statistics; a box with no used cell
\* would keep its bounds.
update_box(hist, min, max) ==
    LET used == UsedCells(hist, [min |-> min, max |-> max])
        lo   == [a \in Axes |-> Min({cell[a] : cell \in used})]
        hi   == [a \in Axes |-> Max({cell[a] : cell \in used})]
        box  == IF used = {} THEN [min |-> min, max |-> max]
                             ELSE [min |-> lo, max |-> hi]
    IN  [min |-> box.min, max |-> box.max,
         volume |-> Squared([a \in Axes |-> ScaledSide(box, a)]),
         colorcount |-> Cardinality(used)]

First(S) == IF S = {} THEN 0 ELSE Min(S)

find_biggest_color_pop(boxlist) ==
    LET splittable == {i \in DOMAIN boxlist : boxlist[i].volume > 0
                                              /\ boxlist[i].colorcount > 0}
    IN  First({i \in splittable : \A j \in splittable :
                    boxlist[j].colorcount <= boxlist[i].colorcount})

find_biggest_volume(boxlist) ==
    First({i \in DOMAIN boxlist : /\ boxlist[i].volume > 0
                                  /\ \A j \in DOMAIN boxlist :
                                        boxlist[j].volume <= boxlist[i].volume})

BoxToSplit(boxlist, desired) ==
    IF Len(boxlist) * 2 <= desired THEN find_biggest_color_pop(boxlist)
                                   ELSE find_biggest_volume(boxlist)

\* Ties in favor of green, then red.
LongestAxis(box) ==
    CHOOSE a \in Axes : \A b \in Axes :
        \/ ScaledSide(box, b) < ScaledSide(box, a)
        \/ ScaledSide(box, b) = ScaledSide(box, a) /\ (a = 2 \/ b = a \/ (a = 1 /\ b = 3))

LowerHalf(hist, box, n) ==
    update_box(hist, box.min,
               [box.max EXCEPT ![n] = (box.max[n] + box.min[n]) \div 2])

\* Bug: the upper half begins at the cell where the lower one ends.
UpperHalf_overlaps(hist, box, n) ==
    update_box(hist, [box.min EXCEPT ![n] = (box.max[n] + box.min[n]) \div 2], box.max)

UpperHalf(hist, box, n) ==
    update_box(hist, [box.min EXCEPT ![n] = (box.max[n] + box.min[n]) \div 2 + 1],
               box.max)

RECURSIVE median_cut(_, _, _)
median_cut(hist, boxlist, desired) ==
    LET i == BoxToSplit(boxlist, desired)
    IN  IF Len(boxlist) >= desired \/ i = 0 THEN boxlist
        ELSE LET n == LongestAxis(boxlist[i])
             IN  median_cut(hist,
                    Append([boxlist EXCEPT ![i] = LowerHalf(hist, boxlist[i], n)],
                           UpperHalf(hist, boxlist[i], n)),
                    desired)

compute_color(hist, box) ==
    LET total   == MapThenSumSet(LAMBDA cell : hist[cell], CellsOf(box))
        mean(a) == (MapThenSumSet(LAMBDA cell : Center(cell)[a] * hist[cell], CellsOf(box))
                    + total \div 2) \div total
    IN  <<mean(1), mean(2), mean(3)>>

SelectedBoxes(hist, desired) ==
    median_cut(hist, <<update_box(hist, <<0, 0, 0>>, <<MaxIndex(1), MaxIndex(2), MaxIndex(3)>>)>>,
               desired)

select_colors(hist, boxlist) ==
    [code \in 0..Len(boxlist) - 1 |-> compute_color(hist, boxlist[code + 1])]

(***************************************************************************)
(* The inverse colormap.                                                   *)
(***************************************************************************)
\* The update box that holds a cell, by its first cell, and the centers of
\* its corner cells.
BoxOrigin(cell) == [a \in Axes |-> (cell[a] \div 2^BOX_LOG[a]) * 2^BOX_LOG[a]]
minc(cell) == Center(BoxOrigin(cell))
maxc(cell) == [a \in Axes |-> minc(cell)[a] + (2^BOX_LOG[a] - 1) * Step(a)]

NearestSide(x, low, high) == IF x < low THEN x - low ELSE IF x > high THEN x - high ELSE 0
FarthestSide(x, low, high) ==
    IF x < low \/ (x <= high /\ x <= (low + high) \div 2) THEN x - high ELSE x - low

MinDist(color, low, high) ==
    Squared([a \in Axes |-> NearestSide(color[a], low[a], high[a]) * C_SCALE[a]])
MaxDist(color, low, high) ==
    Squared([a \in Axes |-> FarthestSide(color[a], low[a], high[a]) * C_SCALE[a]])

\* The colorlist: the colors that may be nearest to some cell between two corners.
find_nearby_colors(colormap, low, high) ==
    LET minmaxdist == Min({MaxDist(colormap[i], low, high) : i \in DOMAIN colormap})
    IN  {i \in DOMAIN colormap : MinDist(colormap[i], low, high) <= minmaxdist}

\* The distance along one axis after k steps of the loop over its cells.
Along(low, value, a, k) ==
    LET STEP == Step(a) * C_SCALE[a]
        inc  == (low - value) * C_SCALE[a]
    IN  inc * inc + k * (inc * (2 * STEP) + STEP * STEP) + k * (k - 1) * STEP * STEP

ThomasDistance(color, low, offset) ==
    Along(low[1], color[1], 1, offset[1]) + Along(low[2], color[2], 2, offset[2])
    + Along(low[3], color[3], 3, offset[3])

find_best_colors(colormap, low, colorlist, offset) ==
    Min({i \in colorlist : \A j \in colorlist :
            ThomasDistance(colormap[i], low, offset)
            <= ThomasDistance(colormap[j], low, offset)})

fill_inverse_cmap(hist, colormap, cell) ==
    LET origin    == BoxOrigin(cell)
        colorlist == find_nearby_colors(colormap, minc(cell), maxc(cell))
    IN  [c \in Cells |->
            IF BoxOrigin(c) = origin
            THEN find_best_colors(colormap, minc(cell), colorlist,
                                  [a \in Axes |-> c[a] - origin[a]]) + 1
            ELSE hist[c]]

\* The inverse colormap once a cell has been looked up.
LookedUp(hist, colormap, cell) ==
    IF hist[cell] = 0 THEN fill_inverse_cmap(hist, colormap, cell) ELSE hist

(***************************************************************************)
(* The mapping of one row.                                                 *)
(***************************************************************************)
pass2_no_dither(q, colormap, row) ==
    LET emit(s, pixel) ==
            LET hist == LookedUp(s.hist, colormap, CellOf(pixel))
            IN  [hist |-> hist, out |-> Append(s.out, hist[CellOf(pixel)] - 1)]
        done == FoldLeft(emit, [hist |-> q.histogram, out |-> <<>>], row)
    IN  [q |-> [q EXCEPT !.histogram = done.hist], reach |-> 0, out |-> done.out]

\* Errors 1:1 up to a sixteenth of the range, 1:2 up to three, then clamped.
init_error_limit ==
    LET STEPSIZE == (MAXJSAMPLE + 1) \div 16
        slope(in) == STEPSIZE + in \div 2 - STEPSIZE \div 2
        limit(in) == IF in < STEPSIZE THEN in
                     ELSE IF in < 3 * STEPSIZE THEN slope(in) ELSE slope(3 * STEPSIZE)
    IN  [e \in -MAXJSAMPLE..MAXJSAMPLE |-> IF e < 0 THEN -limit(-e) ELSE limit(e)]

Scaled(k, v) == [a \in Axes |-> k * v[a]]
Plus(u, v) == [a \in Axes |-> u[a] + v[a]]
Zero == <<0, 0, 0>>

\* The pixel that comes k'th: its three components at once, as the color that
\* is nearest depends on all of them.
\* Bug: the error is taken from the value before it is range-limited.
FSPixel_unlimited(s, colormap, limiter, pixel, behind, here) ==
    LET term  == [a \in Axes |-> (s.cur[a] + s.errors[here][a] + 8) \div 16]
        value == [a \in Axes |-> At(limiter, term[a]) + pixel[a]]
        cell  == CellOf([a \in Axes |-> Clamp(value[a])])
        hist  == LookedUp(s.hist, colormap, cell)
        code  == hist[cell] - 1
        err   == [a \in Axes |-> value[a] - colormap[code][a]]
    IN  [hist |-> hist, cur |-> Scaled(7, err), belowerr |-> err,
         bpreverr |-> Plus(s.belowerr, Scaled(5, err)),
         errors |-> [s.errors EXCEPT ![behind] = Plus(s.bpreverr, Scaled(3, err))],
         codes  |-> [s.codes EXCEPT ![here] = code],
         reach  |-> Max({s.reach} \cup {Magnitude(term[a]) : a \in Axes})]

FSPixel(s, colormap, limiter, pixel, behind, here) ==
    LET term  == [a \in Axes |-> (s.cur[a] + s.errors[here][a] + 8) \div 16]
        value == [a \in Axes |-> Clamp(At(limiter, term[a]) + pixel[a])]
        hist  == LookedUp(s.hist, colormap, CellOf(value))
        code  == hist[CellOf(value)] - 1
        err   == [a \in Axes |-> value[a] - colormap[code][a]]
    IN  [hist |-> hist, cur |-> Scaled(7, err), belowerr |-> err,
         bpreverr |-> Plus(s.belowerr, Scaled(5, err)),
         errors |-> [s.errors EXCEPT ![behind] = Plus(s.bpreverr, Scaled(3, err))],
         codes  |-> [s.codes EXCEPT ![here] = code],
         reach  |-> Max({s.reach} \cup {Magnitude(term[a]) : a \in Axes})]

pass2_fs_dither(q, colormap, row) ==
    LET W == Len(row)
        at(k) == Place(q.on_odd_row, W, k)
        step[k \in 0..W] ==
            IF k = 0
            THEN [hist |-> q.histogram, cur |-> Zero, belowerr |-> Zero, bpreverr |-> Zero,
                  errors |-> q.fserrors, codes |-> [c \in 1..W |-> 0], reach |-> 0]
            ELSE FSPixel(step[k - 1], colormap, q.error_limiter, row[at(k)],
                         at(k - 1), at(k))
    IN  [q |-> [q EXCEPT !.histogram = step[W].hist,
                         !.fserrors = [step[W].errors EXCEPT ![at(W)] = step[W].bpreverr],
                         !.on_odd_row = ~ @],
         reach |-> step[W].reach, out |-> step[W].codes]

(***************************************************************************)
(* The passes.                                                             *)
(***************************************************************************)
SupportedDither(dither_mode) == IF dither_mode = "NONE" THEN "NONE" ELSE "FS"

NoErrors2(width) == [c \in 0..width + 1 |-> Zero]

Zeroed(q, needed) ==
    [q EXCEPT !.histogram = IF needed THEN ZeroHistogram ELSE @, !.needs_zeroed = FALSE]

\* Bug: the prescan trusts that nothing used the histogram since it was zeroed.
start_prescan_dirty(q) ==
    Zeroed([q EXCEPT !.method = "prescan_quantize", !.finish_pass = "finish_pass1"],
           q.needs_zeroed)

start_prescan(q) ==
    Zeroed([q EXCEPT !.method = "prescan_quantize", !.finish_pass = "finish_pass1"], TRUE)

start_mapping(q, dither_mode, width) ==
    LET mapping == [q EXCEPT !.finish_pass = "finish_pass2"]
    IN  Zeroed(IF dither_mode = "FS"
               THEN [mapping EXCEPT !.method = "pass2_fs_dither",
                                    !.fserrors = NoErrors2(width),
                                    !.error_limiter = init_error_limit,
                                    !.on_odd_row = FALSE]
               ELSE [mapping EXCEPT !.method = "pass2_no_dither"],
               q.needs_zeroed)

start_pass_2_quant(q, is_pre_scan, dither_mode, width) ==
    IF is_pre_scan THEN start_prescan(q)
                   ELSE start_mapping(q, SupportedDither(dither_mode), width)

start_pass_2_error(is_pre_scan, colors) ==
    CASE ~ is_pre_scan /\ colors < 1            -> "JERR_QUANT_FEW_COLORS"
      [] ~ is_pre_scan /\ colors > MAXNUMCOLORS -> "JERR_QUANT_MANY_COLORS"
      [] OTHER                                  -> "none"

finish_pass1(q) ==
    LET boxlist == SelectedBoxes(q.histogram, q.desired)
    IN  [q EXCEPT !.boxlist = boxlist,
                  !.sv_colormap = select_colors(q.histogram, boxlist),
                  !.needs_zeroed = TRUE]

\* Bug: the inverse colormap of the old colormap is kept.
new_color_map_2_quant_stale(q) == q

new_color_map_2_quant(q) == [q EXCEPT !.needs_zeroed = TRUE]

color_quantize_2(q, colormap, row) ==
    CASE q.method = "pass2_no_dither" -> pass2_no_dither(q, colormap, row)
      [] q.method = "pass2_fs_dither" -> pass2_fs_dither(q, colormap, row)

jinit_2pass_error(nc, enable_2pass, desired) ==
    CASE nc # 3                                 -> "JERR_NOTIMPL"
      [] enable_2pass /\ desired < MinDesired   -> "JERR_QUANT_FEW_COLORS"
      [] enable_2pass /\ desired > MAXNUMCOLORS -> "JERR_QUANT_MANY_COLORS"
      [] OTHER                                  -> "none"

\* garbage is what the freshly allocated histogram holds.
jinit_2pass_quantizer(desired, dither_mode, width, garbage) ==
    [sv_colormap |-> <<>>, desired |-> desired,
     histogram |-> [cell \in Cells |-> garbage], needs_zeroed |-> TRUE,
     fserrors |-> IF dither_mode # "NONE" THEN NoErrors2(width) ELSE <<>>,
     error_limiter |-> IF dither_mode # "NONE" THEN init_error_limit ELSE <<>>,
     on_odd_row |-> FALSE, boxlist |-> <<>>,
     method |-> "none", finish_pass |-> "none"]
=============================================================================
