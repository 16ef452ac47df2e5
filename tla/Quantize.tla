------------------------------ MODULE Quantize ------------------------------
(***************************************************************************)
(* Color quantization through the output passes of one decompression: the  *)
(* master's choice of a quantizer (jdmaster.c), the two quantizers, and    *)
(* the application, which between the passes of a buffered image may ask   *)
(* for another dithering, for a new choice of the method, or for a         *)
(* colormap of its own.                                                    *)
(*                                                                         *)
(* A picture is what the upsampler delivers in one output pass.  A         *)
(* two-pass quantizer sees it twice: the post controller keeps it.         *)
(***************************************************************************)
EXTENDS Quantize2

CONSTANTS Requests,      \* what the application may ask for; see Init
          Pictures(_),   \* the pictures with that many components: sequences of rows
          Colormaps,     \* the application's own colormaps, of 3 components
          MaxPasses      \* bound: output passes of a buffered image

VARIABLES cinfo,          \* the fields of the decompressor about quantization
          state,          \* cinfo->global_state; ERREXIT after an error
          error,          \* the error's code
          is_dummy_pass,
          quantizer_1pass, quantizer_2pass,   \* the objects, <<>> for NULL
          picture, rows,  \* the picture of this pass and how many rows went by
          out,            \* the codes of the row delivered last
          reach,          \* history: the largest error term met in that row
          ideal,          \* history: what that row should have been; see IdealRow
          passes

vars == <<cinfo, state, error, is_dummy_pass, quantizer_1pass, quantizer_2pass,
          picture, rows, out, reach, ideal, passes>>

Init == /\ \E r \in Requests :
            cinfo = [nc |-> r.nc, is_rgb |-> r.is_rgb, desired |-> r.desired, buffered |-> r.buffered,
                     dither_mode |-> r.dither_mode, two_pass |-> r.two_pass,
                     colormap |-> r.colormap,
                     enable_1pass |-> r.enable_1pass,
                     enable_external |-> r.enable_external,
                     enable_2pass |-> r.enable_2pass,
                     output_width |-> r.output_width,
                     cquantize |-> "none"]
        /\ state = "DSTATE_READY" /\ error = "none" /\ is_dummy_pass = FALSE
        /\ quantizer_1pass = <<>> /\ quantizer_2pass = <<>>
        /\ picture = <<>> /\ rows = 0 /\ out = <<>> /\ reach = 0 /\ ideal = <<>>
        /\ passes = 0

ERREXIT(code) == /\ state' = "ERREXIT" /\ error' = code
                 /\ UNCHANGED <<cinfo, is_dummy_pass, quantizer_1pass, quantizer_2pass,
                                picture, rows, out, reach, ideal, passes>>

(***************************************************************************)
(* jpeg_start_decompress: which quantizers this decompression will have.   *)
(***************************************************************************)
Enabled1pass(c) == \/ (c.buffered /\ c.enable_1pass)
                   \/ c.nc # 3
                   \/ (c.colormap = <<>> /\ ~ c.two_pass)
EnabledExternal(c) == c.nc = 3 /\ ((c.buffered /\ c.enable_external) \/ c.colormap # <<>>)
Enabled2pass(c) == c.nc = 3 /\ ((c.buffered /\ c.enable_2pass)
                                \/ (c.colormap = <<>> /\ c.two_pass))

SelectionError(c) ==
    CASE Enabled1pass(c) /\ jinit_1pass_error(c.nc, c.desired) # "none" ->
            jinit_1pass_error(c.nc, c.desired)
      [] Enabled2pass(c) \/ EnabledExternal(c) ->
            jinit_2pass_error(c.nc, Enabled2pass(c), c.desired)
      [] OTHER -> "none"

master_selection ==
    /\ state = "DSTATE_READY"
    /\ SelectionError(cinfo) = "none"
    /\ quantizer_1pass' = IF Enabled1pass(cinfo)
                          THEN jinit_1pass_quantizer(cinfo.nc, cinfo.is_rgb,
                                   cinfo.desired, cinfo.dither_mode, cinfo.output_width)
                          ELSE <<>>
    /\ LET two == Enabled2pass(cinfo) \/ EnabledExternal(cinfo)
       IN  /\ quantizer_2pass' = IF two
                                 THEN jinit_2pass_quantizer(cinfo.desired,
                                          cinfo.dither_mode, cinfo.output_width, 1)
                                 ELSE <<>>
           /\ cinfo' = [cinfo EXCEPT
                  !.enable_1pass    = Enabled1pass(cinfo),
                  !.enable_external = EnabledExternal(cinfo),
                  !.enable_2pass    = Enabled2pass(cinfo),
                  !.colormap        = IF cinfo.nc = 3 THEN @ ELSE <<>>,
                  !.dither_mode     = IF two THEN SupportedDither(@) ELSE @,
                  !.cquantize       = IF two THEN "2pass" ELSE "1pass"]
    /\ state' = IF cinfo.buffered THEN "DSTATE_BUFIMAGE" ELSE "DSTATE_PRELOAD"
    /\ UNCHANGED <<error, is_dummy_pass, picture, rows, out, reach, ideal, passes>>

SelectionFails == /\ state = "DSTATE_READY"
                  /\ SelectionError(cinfo) # "none"
                  /\ ERREXIT(SelectionError(cinfo))

(***************************************************************************)
(* The application between two passes of a buffered image.                 *)
(***************************************************************************)
BetweenPasses == state = "DSTATE_BUFIMAGE" /\ passes < MaxPasses

AskForDither == /\ BetweenPasses
                /\ \E mode \in {"NONE", "ORDERED", "FS"} \ {cinfo.dither_mode} :
                        cinfo' = [cinfo EXCEPT !.dither_mode = mode]
                /\ UNCHANGED <<state, error, is_dummy_pass, quantizer_1pass,
                               quantizer_2pass, picture, rows, out, reach, ideal, passes>>

AskForNewMethod == /\ BetweenPasses
                   /\ \E two_pass \in BOOLEAN :
                        cinfo' = [cinfo EXCEPT !.colormap = <<>>, !.two_pass = two_pass]
                   /\ UNCHANGED <<state, error, is_dummy_pass, quantizer_1pass,
                                  quantizer_2pass, picture, rows, out, reach, ideal, passes>>

jpeg_new_colormap ==
    /\ BetweenPasses
    /\ \E map \in Colormaps :
        IF cinfo.enable_external
        THEN /\ cinfo' = [cinfo EXCEPT !.colormap = map, !.cquantize = "2pass"]
             /\ quantizer_2pass' = new_color_map_2_quant(quantizer_2pass)
             /\ is_dummy_pass' = FALSE
             /\ UNCHANGED <<state, error, quantizer_1pass, picture, rows, out, reach,
                            ideal, passes>>
        ELSE ERREXIT("JERR_MODE_CHANGE")

(***************************************************************************)
(* The passes.                                                             *)
(***************************************************************************)
SelectsQuantizer(c) ==
    CASE c.colormap # <<>>           -> c.cquantize
      [] c.two_pass /\ c.enable_2pass -> "2pass"
      [] c.enable_1pass               -> "1pass"
      [] OTHER                        -> "none"

\* The history of a pass that begins: the dithering asked for, no error yet.
FreshIdeal(dither_mode, limited) ==
    [dither |-> dither_mode, limited |-> limited, target |-> <<>>,
     errors |-> [c \in 0..cinfo.output_width + 1 |-> [i \in 1..cinfo.nc |-> 0]]]

\* What start_pass of the selected quantizer does with its own state, with
\* the colormap and with the dithering.
StartPass1 ==
    /\ quantizer_1pass' = start_pass_1_quant(quantizer_1pass, cinfo.dither_mode,
                                             cinfo.output_width)
    /\ cinfo' = [cinfo EXCEPT !.cquantize = "1pass",
                              !.colormap = quantizer_1pass.sv_colormap]
    /\ ideal' = FreshIdeal(cinfo.dither_mode, FALSE)
    /\ UNCHANGED quantizer_2pass

StartPass2(is_pre_scan) ==
    /\ quantizer_2pass' = start_pass_2_quant(quantizer_2pass, is_pre_scan,
                                             cinfo.dither_mode, cinfo.output_width)
    /\ cinfo' = [cinfo EXCEPT !.cquantize = "2pass",
                              !.dither_mode = SupportedDither(@)]
    /\ ideal' = FreshIdeal(SupportedDither(cinfo.dither_mode), TRUE)
    /\ UNCHANGED quantizer_1pass

prepare_for_output_pass ==
    /\ state = "DSTATE_PRELOAD" \/ BetweenPasses
    /\ ~ is_dummy_pass
    /\ \E p \in Pictures(cinfo.nc) : picture' = p
    /\ LET quantizer == SelectsQuantizer(cinfo)
           dummy     == cinfo.colormap = <<>> /\ quantizer = "2pass"
       IN  /\ quantizer # "none"
           /\ quantizer = "2pass" =>
                start_pass_2_error(dummy, Cardinality(DOMAIN cinfo.colormap)) = "none"
           /\ is_dummy_pass' = dummy
           /\ state' = IF dummy THEN "DSTATE_PRESCAN" ELSE "DSTATE_SCANNING"
           /\ IF quantizer = "1pass" THEN StartPass1 ELSE StartPass2(dummy)
    /\ rows' = 0 /\ out' = <<>> /\ reach' = 0
    /\ passes' = passes + 1
    /\ UNCHANGED error

ModeChangeFails ==
    /\ BetweenPasses
    /\ SelectsQuantizer(cinfo) = "none"
    /\ ERREXIT("JERR_MODE_CHANGE")

\* An application's colormap may have more colors than the quantizer can code.
ColormapFails ==
    /\ state = "DSTATE_PRELOAD" \/ BetweenPasses
    /\ ~ is_dummy_pass
    /\ cinfo.colormap # <<>> /\ SelectsQuantizer(cinfo) = "2pass"
    /\ \E code \in {start_pass_2_error(FALSE, Cardinality(DOMAIN cinfo.colormap))} :
            code # "none" /\ ERREXIT(code)

PrescanRow ==
    /\ state = "DSTATE_PRESCAN" /\ is_dummy_pass
    /\ rows < Len(picture)
    /\ quantizer_2pass' = prescan_quantize(quantizer_2pass, picture[rows + 1])
    /\ rows' = rows + 1
    /\ UNCHANGED <<cinfo, state, error, is_dummy_pass, quantizer_1pass, picture, out,
                   reach, ideal, passes>>

\* finish_output_pass: the quantizer's finish_pass method.
FinishPass ==
    IF cinfo.cquantize = "2pass" /\ quantizer_2pass.finish_pass = "finish_pass1"
    THEN /\ quantizer_2pass' = finish_pass1(quantizer_2pass)
         /\ cinfo' = [cinfo EXCEPT !.colormap = quantizer_2pass'.sv_colormap]
    ELSE UNCHANGED <<quantizer_2pass, cinfo>>

FinishPrescan ==
    /\ state = "DSTATE_PRESCAN" /\ is_dummy_pass
    /\ rows = Len(picture)
    /\ FinishPass
    /\ state' = "SELECTED"
    /\ UNCHANGED <<error, is_dummy_pass, quantizer_1pass, picture, rows, out, reach,
                   ideal, passes>>

PrepareFinalPass ==
    /\ state = "SELECTED" /\ is_dummy_pass
    /\ start_pass_2_error(FALSE, Cardinality(DOMAIN cinfo.colormap)) = "none"
    /\ StartPass2(FALSE)
    /\ is_dummy_pass' = FALSE
    /\ state' = "DSTATE_SCANNING"
    /\ rows' = 0
    /\ UNCHANGED <<error, picture, out, reach, passes>>

(***************************************************************************)
(* The history of a row: for every pixel the value to be shown, and by how *)
(* much the color delivered misses it.  Without dithering that value is    *)
(* the pixel's; ordered dithering adds the matrix entry of the position;   *)
(* Floyd-Steinberg adds 7/16 of the error of the neighbor visited before,  *)
(* and of the row above, which was visited in the other direction, 3/16,   *)
(* 5/16 and 1/16 of the errors behind, above and ahead.                    *)
(***************************************************************************)
Ordered(row, r) ==
    [c \in DOMAIN row |-> [i \in 1..cinfo.nc |->
        Clamp(row[c][i] + make_odither_array(quantizer_1pass.Ncolors[i])
                              [r % ODITHER_SIZE][(c - 1) % ODITHER_SIZE])]]

Corrected(v, term, limited) ==
    Clamp(v + IF limited THEN At(init_error_limit, term) ELSE term)

Diffused(row, r, codes) ==
    LET W == Len(row)
        at(k) == Place(r % 2 = 1, W, k)
        none  == [i \in 1..cinfo.nc |-> 0]
        above == ideal.errors
        step[k \in 0..W] ==
            IF k = 0 THEN [target |-> [c \in 1..W |-> none], errors |-> [c \in 0..W + 1 |-> none]]
            ELSE LET s == step[k - 1]
                     c == at(k)
                     value == [i \in 1..cinfo.nc |->
                        Corrected(row[c][i],
                            (7 * s.errors[at(k - 1)][i] + 3 * above[at(k - 1)][i]
                             + 5 * above[c][i] + above[at(k + 1)][i] + 8) \div 16,
                            ideal.limited)]
                 IN  [target |-> [s.target EXCEPT ![c] = value],
                      errors |-> [s.errors EXCEPT ![c] =
                         [i \in 1..cinfo.nc |-> value[i] - cinfo.colormap[codes[c]][i]]]]
    IN  step[W]

IdealRow(row, r, codes) ==
    IF \E c \in DOMAIN codes : codes[c] \notin DOMAIN cinfo.colormap THEN ideal
    ELSE CASE ideal.dither = "NONE"    -> [ideal EXCEPT !.target = row]
           [] ideal.dither = "ORDERED" -> [ideal EXCEPT !.target = Ordered(row, r)]
           [] ideal.dither = "FS"      ->
                [ideal EXCEPT !.target = Diffused(row, r, codes).target,
                              !.errors = Diffused(row, r, codes).errors]

QuantizeRow ==
    /\ state = "DSTATE_SCANNING"
    /\ rows < Len(picture)
    /\ LET row == picture[rows + 1]
       IN  IF cinfo.cquantize = "1pass"
           THEN \E d \in {color_quantize_1(quantizer_1pass, row)} :
                    /\ quantizer_1pass' = d.q /\ out' = d.out /\ reach' = d.reach
                    /\ ideal' = IdealRow(row, rows, d.out)
                    /\ UNCHANGED quantizer_2pass
           ELSE \E d \in {color_quantize_2(quantizer_2pass, cinfo.colormap, row)} :
                    /\ quantizer_2pass' = d.q /\ out' = d.out /\ reach' = d.reach
                    /\ ideal' = IdealRow(row, rows, d.out)
                    /\ UNCHANGED quantizer_1pass
    /\ rows' = rows + 1
    /\ UNCHANGED <<cinfo, state, error, is_dummy_pass, picture, passes>>

\* jpeg_finish_output, at any row; or the last row of a file read in one go.
FinishOutput ==
    /\ state = "DSTATE_SCANNING"
    /\ cinfo.buffered \/ rows = Len(picture)
    /\ FinishPass
    /\ state' = IF cinfo.buffered THEN "DSTATE_BUFIMAGE" ELSE "DSTATE_STOPPING"
    /\ picture' = <<>> /\ rows' = 0 /\ out' = <<>> /\ reach' = 0 /\ ideal' = <<>>
    /\ UNCHANGED <<error, is_dummy_pass, quantizer_1pass, passes>>

Next == \/ master_selection \/ SelectionFails
        \/ AskForDither \/ AskForNewMethod \/ jpeg_new_colormap
        \/ prepare_for_output_pass \/ ModeChangeFails \/ ColormapFails
        \/ PrescanRow \/ FinishPrescan \/ PrepareFinalPass
        \/ QuantizeRow \/ FinishOutput

Spec == Init /\ [][Next]_vars

(***************************************************************************)
(* Properties.                                                             *)
(***************************************************************************)
TypeOK ==
    /\ state \in {"DSTATE_READY", "DSTATE_PRELOAD", "DSTATE_BUFIMAGE", "DSTATE_PRESCAN",
                  "SELECTED", "DSTATE_SCANNING", "DSTATE_STOPPING", "ERREXIT"}
    /\ is_dummy_pass = (state \in {"DSTATE_PRESCAN", "SELECTED"})
    /\ quantizer_2pass # <<>> => quantizer_2pass.histogram \in [Cells -> 0..HistMax]
    /\ \A i \in DOMAIN out : out[i] \in DOMAIN cinfo.colormap
    /\ rows \in 0..Len(picture) /\ passes \in 0..MaxPasses

\* In the prescan every histogram cell holds the number of pixels seen so far
\* in it, up to the largest count, whatever the histogram was used for in the
\* passes before.
HistogramCounts ==
    state = "DSTATE_PRESCAN" =>
        \A cell \in Cells :
            quantizer_2pass.histogram[cell] =
                Min({HistMax, MapThenSumSet(
                        LAMBDA r : Cardinality({c \in DOMAIN picture[r] :
                                                  CellOf(picture[r][c]) = cell}),
                        1..rows)})

\* The boxes of the median cut part the used cells among them: every used
\* cell is in exactly one box, no box is empty (compute_color divides by its
\* population), and the color of a box lies within the samples of its cells.
BoxesPartition ==
    state = "SELECTED" =>
        LET boxes == quantizer_2pass.boxlist
            hist  == quantizer_2pass.histogram
        IN  /\ \A cell \in Cells : hist[cell] # 0 =>
                    Cardinality({b \in DOMAIN boxes : cell \in CellsOf(boxes[b])}) = 1
            /\ \A b \in DOMAIN boxes :
                    /\ UsedCells(hist, boxes[b]) # {}
                    /\ CellOf(cinfo.colormap[b - 1]) \in CellsOf(boxes[b])

\* A colormap the library chooses has no more colors than were asked for and
\* leaves none out that it could have: no component of the one-pass colormap
\* could have one more value, and a median cut that stops early has no box
\* left that could be split.
ColorBudget ==
    /\ quantizer_1pass # <<>> =>
        LET N == quantizer_1pass.Ncolors
        IN  /\ BlockOf(N, 1) <= cinfo.desired
            /\ \A i \in DOMAIN N : BlockOf([N EXCEPT ![i] = @ + 1], 1) > cinfo.desired
            /\ \A i \in DOMAIN N : Cardinality(
                    {color[i] : color \in {quantizer_1pass.sv_colormap[c] :
                                    c \in DOMAIN quantizer_1pass.sv_colormap}}) = N[i]
    /\ state = "SELECTED" =>
        LET boxes == quantizer_2pass.boxlist
        IN  /\ Len(boxes) <= cinfo.desired
            /\ Len(boxes) < cinfo.desired => \A b \in DOMAIN boxes :
                    Cardinality(UsedCells(quantizer_2pass.histogram, boxes[b])) = 1

Distance(color, cell) ==
    Squared([a \in Axes |-> (color[a] - Center(cell)[a]) * C_SCALE[a]])

\* Every entry of the inverse colormap is the first of the colors of the
\* colormap in use that are nearest to the cell's center: Heckbert's criterion
\* rejects none of them, Thomas' sums give the distances, and nothing in it is
\* left from another colormap or from the histogram.
InverseMapIsNearest ==
    state = "DSTATE_SCANNING" /\ cinfo.cquantize = "2pass" =>
        \A cell \in Cells :
            LET code == quantizer_2pass.histogram[cell] - 1
                D(i) == Distance(cinfo.colormap[i], cell)
            IN  code # -1 => /\ code \in DOMAIN cinfo.colormap
                             /\ \A i \in DOMAIN cinfo.colormap :
                                    D(code) < D(i) \/ (D(code) = D(i) /\ code <= i)

\* No value of the component is nearer by more than one, the price of rounding
\* the break points.
NearestLevel(code, i, value) ==
    \A other \in DOMAIN cinfo.colormap :
        Magnitude(cinfo.colormap[code][i] - value)
            <= Magnitude(cinfo.colormap[other][i] - value) + 1

\* Every pixel is delivered as the color nearest to the value it should have:
\* the pixel of this row of this pass with the dithering of this pass, computed
\* from the errors of this pass alone.  Nothing of an earlier pass shows, which
\* dithering it used and at which row it was cut short.
MapsToNearest ==
    state = "DSTATE_SCANNING" /\ rows > 0 =>
        \A c \in DOMAIN out :
            /\ out[c] \in DOMAIN cinfo.colormap
            /\ IF cinfo.cquantize = "1pass"
               THEN \A i \in 1..cinfo.nc : NearestLevel(out[c], i, ideal.target[c][i])
               ELSE \A other \in DOMAIN cinfo.colormap :
                        Distance(cinfo.colormap[out[c]], CellOf(ideal.target[c]))
                            <= Distance(cinfo.colormap[other], CellOf(ideal.target[c]))

\* The error term of a pixel stays within the range the tables are made for
\* (range_limit and error_limit are indexed with it unchecked), and the sums
\* kept for the next row within nine times that, which fits in an FSERROR.
ErrorsInRange ==
    /\ reach <= MAXJSAMPLE
    /\ quantizer_1pass # <<>> => \A i \in DOMAIN quantizer_1pass.fserrors :
            \A c \in DOMAIN quantizer_1pass.fserrors[i] :
                Magnitude(quantizer_1pass.fserrors[i][c]) <= 9 * MAXJSAMPLE
    /\ quantizer_2pass # <<>> => \A c \in DOMAIN quantizer_2pass.fserrors : \A a \in Axes :
            Magnitude(quantizer_2pass.fserrors[c][a]) <= 9 * MAXJSAMPLE
\* The values the tables are indexed with, and what is stored, keep their range.
ValuesInRange == TypeOK /\ ErrorsInRange

\* The histogram counts the colors of the image, and the colormap chosen from it
\* represents every one of them, by a box of its own part of color space, and
\* uses the colors that were asked for.
ColormapFits == HistogramCounts /\ BoxesPartition /\ ColorBudget

\* Every color is mapped to the nearest one of the colormap in use.
NearestColors == InverseMapIsNearest /\ MapsToNearest
=============================================================================
