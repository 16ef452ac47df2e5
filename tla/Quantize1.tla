------------------------------ MODULE Quantize1 ------------------------------
(***************************************************************************)
(* The one-pass color quantizer (jquant1.c): an orthogonal colormap chosen *)
(* without looking at the image, a table that gives for every sample its   *)
(* share of the color code, and three ways to map a row of pixels.         *)
(*                                                                         *)
(* A pixel and a color are sequences with one value per component; a row   *)
(* is a sequence of pixels; a colormap is a function from color codes,     *)
(* which start at 0, to colors.  The quantizer's object is the record q    *)
(* that jinit_1pass_quantizer makes.  <<>> stands for a NULL pointer.      *)
(* color_quantize3 and quantize3_ord_dither unroll the loop of the general *)
(* routines over three components and are the same operators here.         *)
(***************************************************************************)
EXTENDS Integers, Sequences, FiniteSetsExt, SequencesExt

CONSTANTS MAXJSAMPLE,            \* the largest sample; 255 in the code
          ODITHER_SIZE,          \* the side of the dither matrix; 16 in the code
          base_dither_matrix     \* base_dither_matrix[j][k], j, k \in 0..ODITHER_SIZE-1

MAX_Q_COMPS == 4
Samples == 0..MAXJSAMPLE
ODITHER_CELLS == ODITHER_SIZE * ODITHER_SIZE

Clamp(v) == IF v < 0 THEN 0 ELSE IF v > MAXJSAMPLE THEN MAXJSAMPLE ELSE v
Magnitude(v) == IF v < 0 THEN -v ELSE v
\* What is read beside a table: no color code, so that it shows.
At(table, i) == IF i \in DOMAIN table THEN table[i] ELSE -1

(***************************************************************************)
(* The choice of the colors.                                               *)
(***************************************************************************)
\* The number of codes the components i.. make up: blkdist of component i.
BlockOf(N, i) == FoldFunctionOnSet(LAMBDA n, a : a * n, 1, N, i..Len(N))

iroot(nc, max) == Max({1} \cup {r \in 1..max : r^nc <= max})

RGB_order(nc, is_rgb) == IF is_rgb THEN <<2, 1, 3>> ELSE [i \in 1..nc |-> i]

\* One more value for the i'th component of the order, and then for the next;
\* a pass ends at the first that does not fit, the last one where it begins.
RECURSIVE Increments(_, _, _, _)
Increments(N, order, i, max) ==
    LET j == order[i]
    IN  IF (BlockOf(N, 1) \div N[j]) * (N[j] + 1) <= max
        THEN Increments([N EXCEPT ![j] = @ + 1], order, (i % Len(N)) + 1, max)
        ELSE IF i = 1 THEN N ELSE Increments(N, order, 1, max)

\* Bug: what is left after the root is not handed out.
select_ncolors_root(nc, is_rgb, max) == [i \in 1..nc |-> iroot(nc, max)]

select_ncolors(nc, is_rgb, max) ==
    Increments([i \in 1..nc |-> iroot(nc, max)], RGB_order(nc, is_rgb), 1, max)

output_value(j, maxj) == (j * MAXJSAMPLE + maxj \div 2) \div maxj

largest_input_value(j, maxj) == ((2*j + 1) * MAXJSAMPLE + maxj) \div (2 * maxj)

create_colormap(N) ==
    [code \in 0..BlockOf(N, 1) - 1 |->
        [i \in 1..Len(N) |->
            output_value((code % BlockOf(N, i)) \div BlockOf(N, i + 1), N[i] - 1)]]

Level(n, v) == Min({val \in 0..n - 1 : v <= largest_input_value(val, n - 1)})

create_colorindex(N, dither_mode) ==
    LET pad == IF dither_mode = "ORDERED" THEN MAXJSAMPLE ELSE 0
    IN  [i \in 1..Len(N) |->
            [v \in -pad .. MAXJSAMPLE + pad |->
                Level(N[i], Clamp(v)) * BlockOf(N, i + 1)]]

make_odither_array(n) ==
    LET den == 2 * ODITHER_CELLS * (n - 1)
        num(f) == (ODITHER_CELLS - 1 - 2*f) * MAXJSAMPLE
    IN  [j \in 0..ODITHER_SIZE - 1 |->
            [k \in 0..ODITHER_SIZE - 1 |->
                IF num(base_dither_matrix[j][k]) < 0
                THEN -((-num(base_dither_matrix[j][k])) \div den)
                ELSE num(base_dither_matrix[j][k]) \div den]]

create_odither_tables(N) == [i \in 1..Len(N) |-> make_odither_array(N[i])]

(***************************************************************************)
(* The mapping of one row.  Each routine returns the quantizer and the     *)
(* codes of the row's pixels, and how far the error term reached.          *)
(***************************************************************************)
color_quantize(q, row) ==
    [q |-> q, reach |-> 0,
     out |-> [c \in DOMAIN row |->
                FoldLeft(LAMBDA a, i : a + At(q.colorindex[i], row[c][i]), 0,
                         [i \in 1..Len(q.Ncolors) |-> i])]]

quantize_ord_dither(q, row) ==
    [q |-> [q EXCEPT !.row_index = (@ + 1) % ODITHER_SIZE], reach |-> 0,
     out |-> [c \in DOMAIN row |->
                FoldLeft(LAMBDA a, i : a + At(q.colorindex[i],
                            row[c][i]
                            + q.odither[i][q.row_index][(c - 1) % ODITHER_SIZE]),
                         0, [i \in 1..Len(q.Ncolors) |-> i])]]

\* The k'th entry from the side a row begins at; the 0'th is the dummy column.
Place(odd, width, k) == IF odd THEN width + 1 - k ELSE k

\* The pixels of one component, one after the other: cur, belowerr and bpreverr
\* are the locals, errors the component's fserrors.
FSComponent(q, row, i) ==
    LET W == Len(row)
        step[k \in 0..W] ==
            IF k = 0
            THEN [cur |-> 0, belowerr |-> 0, bpreverr |-> 0, reach |-> 0,
                  errors |-> q.fserrors[i], codes |-> [c \in 1..W |-> 0]]
            ELSE LET s     == step[k - 1]
                     c     == Place(q.on_odd_row, W, k)
                     term  == (s.cur + s.errors[c] + 8) \div 16
                     value == Clamp(term + row[c][i])
                     code  == At(q.colorindex[i], value)
                     err   == value - q.sv_colormap[code][i]
                 IN  [cur |-> 7 * err,
                      belowerr |-> err,
                      bpreverr |-> s.belowerr + 5 * err,
                      reach    |-> Max({s.reach, Magnitude(term)}),
                      errors   |-> [s.errors EXCEPT
                          ![Place(q.on_odd_row, W, k - 1)] = s.bpreverr + 3 * err],
                      codes    |-> [s.codes EXCEPT ![c] = code]]
    IN  [step[W] EXCEPT !.errors[Place(q.on_odd_row, W, W)] = step[W].bpreverr]

quantize_fs_dither(q, row) ==
    LET done == [i \in 1..Len(q.Ncolors) |-> FSComponent(q, row, i)]
    IN  [q |-> [q EXCEPT !.fserrors = [i \in DOMAIN done |-> done[i].errors],
                         !.on_odd_row = ~ @],
         reach |-> Max({done[i].reach : i \in DOMAIN done}),
         out |-> [c \in DOMAIN row |->
                    FoldLeft(LAMBDA a, d : a + d.codes[c], 0, done)]]

(***************************************************************************)
(* The passes.                                                             *)
(***************************************************************************)
NoErrors(nc, width) == [i \in 1..nc |-> [c \in 0..width + 1 |-> 0]]

\* Bug: a pass cut short at an odd row leaves the next one mirrored.
start_pass_1_quant_odd(q, dither_mode, width) ==
    LET nc == Len(q.Ncolors)
    IN  CASE dither_mode = "NONE"    -> [q EXCEPT !.method = "color_quantize"]
          [] dither_mode = "ORDERED" ->
                [q EXCEPT !.method = "quantize_ord_dither",
                          !.row_index = 0,
                          !.colorindex = create_colorindex(q.Ncolors, "ORDERED"),
                          !.is_padded = TRUE,
                          !.odither = create_odither_tables(q.Ncolors)]
          [] dither_mode = "FS"      ->
                [q EXCEPT !.method = "quantize_fs_dither",
                          !.fserrors = NoErrors(nc, width)]

start_pass_1_quant(q, dither_mode, width) ==
    LET nc == Len(q.Ncolors)
    IN  CASE dither_mode = "NONE"    -> [q EXCEPT !.method = "color_quantize"]
          [] dither_mode = "ORDERED" ->
                [q EXCEPT !.method = "quantize_ord_dither",
                          !.row_index = 0,
                          !.colorindex = IF q.is_padded THEN @
                                         ELSE create_colorindex(q.Ncolors, "ORDERED"),
                          !.is_padded = TRUE,
                          !.odither = IF @ = <<>> THEN create_odither_tables(q.Ncolors)
                                      ELSE @]
          [] dither_mode = "FS"      ->
                [q EXCEPT !.method = "quantize_fs_dither",
                          !.on_odd_row = FALSE,
                          !.fserrors = NoErrors(nc, width)]

color_quantize_1(q, row) ==
    CASE q.method = "color_quantize"      -> color_quantize(q, row)
      [] q.method = "quantize_ord_dither" -> quantize_ord_dither(q, row)
      [] q.method = "quantize_fs_dither"  -> quantize_fs_dither(q, row)

jinit_1pass_error(nc, desired) ==
    CASE nc > MAX_Q_COMPS             -> "JERR_QUANT_COMPONENTS"
      [] desired > MAXJSAMPLE + 1     -> "JERR_QUANT_MANY_COLORS"
      [] iroot(nc, desired) < 2       -> "JERR_QUANT_FEW_COLORS"
      [] OTHER                        -> "none"

jinit_1pass_quantizer(nc, is_rgb, desired, dither_mode, width) ==
    LET N == select_ncolors(nc, is_rgb, desired)
    IN  [Ncolors |-> N,
         sv_colormap |-> create_colormap(N),
         colorindex |-> create_colorindex(N, dither_mode),
         is_padded |-> dither_mode = "ORDERED",
         odither |-> <<>>, row_index |-> 0,
         fserrors |-> IF dither_mode = "FS" THEN NoErrors(nc, width) ELSE <<>>,
         on_odd_row |-> FALSE,
         method |-> "none"]
=============================================================================
