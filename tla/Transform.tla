----------------------------- MODULE Transform -----------------------------
(***************************************************************************)
(* Lossless transformation of a JPEG file, as jpegtran does it: transupp.c *)
(* driven by main() of jpegtran.c, with the part of jctrans.c and jcmaster *)
(* that sets the output up.                                                *)
(*                                                                         *)
(* A block of coefficients is not spelled out: all that happens to it is   *)
(* that it is moved, transposed, and that the signs of its odd columns or  *)
(* of its odd rows are changed, which mirrors its samples.  The record of  *)
(* a block says where in the source it comes from and what was done to it: *)
(* transposed if t, then columns negated if h and rows negated if v.       *)
(*                                                                         *)
(* One step of "execute" is one turn of the blk_y loop of a do_ routine: a *)
(* row of iMCUs of one component, read and written through the virtual     *)
(* arrays.  The routines that fill a workspace take each source row group  *)
(* from an array nothing writes to; the horizontal flip is in place.       *)
(***************************************************************************)
EXTENDS ScanScripts

CONSTANT Jobs    \* the files and options jpegtran is run with

ColorSpaces == {"UNKNOWN", "GRAYSCALE", "RGB", "YCbCr", "CMYK", "YCCK"}

(* The files jpeg_read_header accepts (initial_setup of jdinput.c, get_sof *)
(* of jdmarker.c), as far as a transformation looks at them.               *)
SourceFile ==
    [image_width : Nat \ {0}, image_height : Nat \ {0}, colors : ColorSpaces,
     comps : Seq([id : Nat, h : 1..MAX_SAMP_FACTOR, v : 1..MAX_SAMP_FACTOR,
                  quant_tbl_no : Nat]) \ {<< >>},
     markers : Seq([kind : STRING, id : STRING, short : BOOLEAN, transform : Nat])]

ASSUME JobsAssumption ==
    \A job \in Jobs :
        /\ job.source \in SourceFile
        /\ job.transform \in {"NONE", "FLIP_H", "FLIP_V", "TRANSPOSE", "TRANSVERSE",
                              "ROT_90", "ROT_180", "ROT_270"}
        /\ job.trim \in BOOLEAN /\ job.force_grayscale \in BOOLEAN
        /\ job.copyoption \in {"NONE", "COMMENTS", "ALL"}

VARIABLES
    stage,      \* the call of main() to be made next, "done", or "error"
    job,        \* the source file and the options
    marker_list,\* srcinfo.marker_list
    src, dst,   \* the coefficient arrays of the source, and the workspace ...
    in_place,   \* ... or no workspace: the source arrays are the output
    dstinfo,    \* the compression parameters
    ci, blk_y,  \* the loops of the do_ routines
    written     \* the markers written to the output file

vars == <<stage, job, marker_list, src, dst, in_place, dstinfo, ci, blk_y, written>>

----------------------------------------------------------------------------
(* Blocks and arrays of blocks.                                            *)

At(x, y) == [x |-> x, y |-> y, t |-> FALSE, h |-> FALSE, v |-> FALSE]
Garbage == At(-1, -1)            \* a block of an array that was not pre-zeroed

Transposed(b) == [b EXCEPT !.t = ~b.t, !.h = b.v, !.v = b.h]
OddColumns(b) == [b EXCEPT !.h = ~b.h]
OddRows(b) == [b EXCEPT !.v = ~b.v]

NewArray(rows, cols) == [y \in 0..rows - 1 |-> [x \in 0..cols - 1 |-> Garbage]]
RowsOf(a) == Cardinality(DOMAIN a)
ColsOf(a) == Cardinality(DOMAIN a[0])

----------------------------------------------------------------------------
(* jtransform_request_workspace.                                           *)

Swaps(transform) == transform \in {"TRANSPOSE", "TRANSVERSE", "ROT_90", "ROT_270"}

WorkComponents(s, gray) ==
    IF gray /\ s.colors = "YCbCr" /\ Len(s.comps) = 3 THEN 1 ELSE Len(s.comps)

PaddedWidth(s, c) == jround_up(width_in_blocks(s, c), s.comps[c].h)
PaddedHeight(s, c) == jround_up(height_in_blocks(s, c), s.comps[c].v)

UnpaddedWorkspace(s, c, transform) ==           \* mutant: no room for padding
    IF Swaps(transform) THEN NewArray(width_in_blocks(s, c), height_in_blocks(s, c))
                        ELSE NewArray(height_in_blocks(s, c), width_in_blocks(s, c))

Workspace(s, c, transform) ==
    IF Swaps(transform) THEN NewArray(PaddedWidth(s, c), PaddedHeight(s, c))
                        ELSE NewArray(PaddedHeight(s, c), PaddedWidth(s, c))

jtransform_request_workspace ==
    /\ stage = "jtransform_request_workspace"
    /\ in_place' = (job.transform \in {"NONE", "FLIP_H"})
    /\ dst' = IF job.transform \in {"NONE", "FLIP_H"} THEN << >>
              ELSE [c \in 1..WorkComponents(job.source, job.force_grayscale) |->
                       Workspace(job.source, c, job.transform)]
    /\ stage' = "jpeg_read_coefficients"
    /\ UNCHANGED <<job, marker_list, src, dstinfo, ci, blk_y, written>>

(* The arrays of the decompressor are padded to whole iMCUs.               *)
jpeg_read_coefficients ==
    /\ stage = "jpeg_read_coefficients"
    /\ src' = [c \in 1..Len(job.source.comps) |->
                  [y \in 0..PaddedHeight(job.source, c) - 1 |->
                      [x \in 0..PaddedWidth(job.source, c) - 1 |-> At(x, y)]]]
    /\ stage' = "jpeg_copy_critical_parameters"
    /\ UNCHANGED <<job, marker_list, dst, in_place, dstinfo, ci, blk_y, written>>

----------------------------------------------------------------------------
(* The parameters of the output.                                           *)

(* What jpeg_set_colorspace decides about the file header.                 *)
write_JFIF_header(colors) == colors \in {"GRAYSCALE", "YCbCr"}
NoAdobeForRGB(colors) == colors \in {"CMYK", "YCCK"}    \* mutant: RGB forgotten
write_Adobe_marker(colors) == colors \in {"RGB", "CMYK", "YCCK"}

Component(id, h, v, quant) == [id |-> id, h |-> h, v |-> v, quant_tbl_no |-> quant]

(* The quantization tables by slot: TRUE for one that has been transposed. *)
jpeg_copy_critical_parameters ==
    /\ stage = "jpeg_copy_critical_parameters"
    /\ dstinfo' = [image_width |-> job.source.image_width,
                   image_height |-> job.source.image_height,
                   colors |-> job.source.colors,
                   comps |-> [c \in 1..Len(job.source.comps) |->
                                 Component(job.source.comps[c].id, job.source.comps[c].h,
                                           job.source.comps[c].v,
                                           job.source.comps[c].quant_tbl_no)],
                   quant |-> [q \in {job.source.comps[c].quant_tbl_no :
                                        c \in 1..Len(job.source.comps)} |-> FALSE]]
    /\ stage' = "jtransform_adjust_parameters"
    /\ UNCHANGED <<job, marker_list, src, dst, in_place, ci, blk_y, written>>

Flipped(c) == [c EXCEPT !.h = c.v, !.v = c.h]

(* Mutant: tables transposed once for each component that uses them.       *)
TransposePerComponent(info) ==
    [info EXCEPT !.image_width = info.image_height, !.image_height = info.image_width,
                 !.comps = [c \in 1..Len(info.comps) |-> Flipped(info.comps[c])],
                 !.quant = [q \in DOMAIN info.quant |->
                     Cardinality({c \in 1..Len(info.comps) :
                                     info.comps[c].quant_tbl_no = q}) % 2 = 1]]

transpose_critical_parameters(info) ==
    [info EXCEPT !.image_width = info.image_height, !.image_height = info.image_width,
                 !.comps = [c \in 1..Len(info.comps) |-> Flipped(info.comps[c])],
                 !.quant = [q \in DOMAIN info.quant |-> ~info.quant[q]]]

(* What is left of a dimension without the partial iMCU; never nothing.    *)
Trimmed(size, iMCU) == IF size < iMCU THEN size ELSE (size \div iMCU) * iMCU

trim_right_edge(info) ==
    [info EXCEPT !.image_width = Trimmed(@, MaxH(info) * DCTSIZE)]
trim_bottom_edge(info) ==
    [info EXCEPT !.image_height = Trimmed(@, MaxV(info) * DCTSIZE)]

CanBeGray(info) ==
    \/ info.colors = "YCbCr" /\ Len(info.comps) = 3
    \/ info.colors = "GRAYSCALE" /\ Len(info.comps) = 1

(* jpeg_set_colorspace(JCS_GRAYSCALE), the quantization table number kept. *)
Grayscale(info) ==
    [info EXCEPT !.colors = "GRAYSCALE",
                 !.comps = << Component(1, Plain.h, Plain.v, info.comps[1].quant_tbl_no) >>]

Corrected(info, transform) == IF Swaps(transform) THEN transpose_critical_parameters(info)
                                                  ELSE info
TrimsRight(transform)  == transform \in {"FLIP_H", "ROT_90", "ROT_180", "TRANSVERSE"}
TrimsBottom(transform) == transform \in {"FLIP_V", "ROT_270", "ROT_180", "TRANSVERSE"}

TrimBottom(info, transform) == IF TrimsBottom(transform) THEN trim_bottom_edge(info) ELSE info
TrimRight(info, transform) == IF TrimsRight(transform) THEN trim_right_edge(info) ELSE info

(* Mutant: the edges are trimmed before the image is transposed.           *)
TrimmedFirst(info) ==
    IF job.trim
    THEN Corrected(TrimBottom(TrimRight(info, job.transform), job.transform), job.transform)
    ELSE Corrected(info, job.transform)

Adjusted(info) ==
    IF job.trim
    THEN TrimBottom(TrimRight(Corrected(info, job.transform), job.transform), job.transform)
    ELSE Corrected(info, job.transform)

jtransform_adjust_parameters ==
    /\ stage = "jtransform_adjust_parameters"
    /\ \/ /\ job.force_grayscale /\ ~CanBeGray(dstinfo)
          /\ stage' = "error" /\ UNCHANGED dstinfo
       \/ /\ job.force_grayscale /\ CanBeGray(dstinfo)
          /\ dstinfo' = Adjusted(Grayscale(dstinfo))
          /\ stage' = "jpeg_write_coefficients"
       \/ /\ ~job.force_grayscale
          /\ dstinfo' = Adjusted(dstinfo)
          /\ stage' = "jpeg_write_coefficients"
    /\ UNCHANGED <<job, marker_list, src, dst, in_place, ci, blk_y, written>>

----------------------------------------------------------------------------
(* Markers.  A marker is its kind and what its first bytes say: a JFIF     *)
(* marker, an Adobe marker with its transform code, or something else;     *)
(* "short" is cut before the end of the fields a decoder looks for.        *)

Marker(kind, id, short, transform) ==
    [kind |-> kind, id |-> id, short |-> short, transform |-> transform]
JFIF == Marker("APP0", "JFIF", FALSE, 0)
Adobe(transform) == Marker("APP14", "Adobe", FALSE, transform)

(* The markers of a list that are in a set, in their order.                *)
SelectedUpTo(markers, chosen) ==
    LET selected[n \in 0..Len(markers)] ==
            IF n = 0 THEN << >>
            ELSE IF markers[n] \in chosen THEN Append(selected[n - 1], markers[n])
                 ELSE selected[n - 1]
    IN  selected
Selected(markers, chosen) == SelectedUpTo(markers, chosen)[Len(markers)]

(* jcopy_markers_setup: what jpeg_read_header will save.                   *)
Saves(option, m) ==
    \/ option # "NONE" /\ m.kind = "COM"
    \/ option = "ALL" /\ m.kind # "COM"

Saved(file, option) ==
    Selected(file.markers, {m \in ToSet(file.markers) : Saves(option, m)})

HeaderMarkers(colors) ==
    (IF write_JFIF_header(colors) THEN << JFIF >> ELSE << >>)
    \o (IF write_Adobe_marker(colors)
        THEN << Adobe(IF colors = "YCCK" THEN 2 ELSE 0) >> ELSE << >>)

(* The output file is opened: initial_setup, the array pointers, SOI and   *)
(* the JFIF and Adobe markers.                                             *)
jpeg_write_coefficients ==
    /\ stage = "jpeg_write_coefficients"
    /\ written' = HeaderMarkers(dstinfo.colors)
    /\ stage' = "jcopy_markers_execute"
    /\ UNCHANGED <<job, marker_list, src, dst, in_place, dstinfo, ci, blk_y>>

Duplicate(m, colors) ==
    \/ write_JFIF_header(colors) /\ m.kind = "APP0" /\ m.id = "JFIF"
    \/ write_Adobe_marker(colors) /\ m.kind = "APP14" /\ m.id = "Adobe"

Copied(markers, colors) == Selected(markers, {m \in ToSet(markers) : ~Duplicate(m, colors)})

jcopy_markers_execute ==
    /\ stage = "jcopy_markers_execute"
    /\ written' = written \o Copied(marker_list, dstinfo.colors)
    /\ stage' = "jtransform_execute_transformation"
    /\ UNCHANGED <<job, marker_list, src, dst, in_place, dstinfo, ci, blk_y>>

----------------------------------------------------------------------------
(* The do_ routines: the block of the output at column x and row y, given  *)
(* the source array a and the columns w and rows h of the output that make *)
(* up complete iMCUs; partial iMCUs keep their place in that direction.    *)

do_flip_h(a, w, h, x, y) == IF x < w THEN OddColumns(a[y][w - 1 - x]) ELSE a[y][x]

do_flip_v(a, w, h, x, y) == IF y < h THEN OddRows(a[h - 1 - y][x]) ELSE a[y][x]

do_transpose(a, w, h, x, y) == Transposed(a[x][y])

do_rot_90(a, w, h, x, y) ==
    IF x < w THEN OddColumns(Transposed(a[w - 1 - x][y])) ELSE Transposed(a[x][y])

do_rot_270(a, w, h, x, y) ==
    IF y < h THEN OddRows(Transposed(a[x][h - 1 - y])) ELSE Transposed(a[x][y])

do_rot_180(a, w, h, x, y) ==
    IF y < h THEN OddRows(do_flip_h(a, w, h, x, h - 1 - y))
             ELSE do_flip_h(a, w, h, x, y)

(* Mutant: the rows below the last complete iMCU are copied as they are.   *)
TransverseEdge(a, w, h, x, y) ==
    IF y < h
    THEN IF x < w THEN OddColumns(OddRows(Transposed(a[w - 1 - x][h - 1 - y])))
                  ELSE OddRows(Transposed(a[x][h - 1 - y]))
    ELSE Transposed(a[x][y])

do_transverse(a, w, h, x, y) ==
    IF y < h
    THEN IF x < w THEN OddColumns(OddRows(Transposed(a[w - 1 - x][h - 1 - y])))
                  ELSE OddRows(Transposed(a[x][h - 1 - y]))
    ELSE IF x < w THEN OddColumns(Transposed(a[w - 1 - x][y]))
                  ELSE Transposed(a[x][y])

NewBlock(transform, a, w, h, x, y) ==
    CASE transform = "FLIP_H"     -> do_flip_h(a, w, h, x, y)
      [] transform = "FLIP_V"     -> do_flip_v(a, w, h, x, y)
      [] transform = "TRANSPOSE"  -> do_transpose(a, w, h, x, y)
      [] transform = "ROT_90"     -> do_rot_90(a, w, h, x, y)
      [] transform = "ROT_270"    -> do_rot_270(a, w, h, x, y)
      [] transform = "ROT_180"    -> do_rot_180(a, w, h, x, y)
      [] transform = "TRANSVERSE" -> do_transverse(a, w, h, x, y)

(* MCU_cols and MCU_rows times the sampling factor of the component.       *)
PartialToo(c) ==                       \* mutant: the partial iMCU is mirrored
    jdiv_round_up(dstinfo.image_width, MaxH(dstinfo) * DCTSIZE) * dstinfo.comps[c].h

comp_width(c) ==
    (dstinfo.image_width \div (MaxH(dstinfo) * DCTSIZE)) * dstinfo.comps[c].h
comp_height(c) ==
    (dstinfo.image_height \div (MaxV(dstinfo) * DCTSIZE)) * dstinfo.comps[c].v

(* The columns a turn of the loop writes.  The routines that transpose     *)
(* work in whole iMCUs, the horizontal flip only up to the partial one.    *)
Columns(c) ==
    IF job.transform = "FLIP_H" THEN 0..comp_width(c) - 1
    ELSE IF Swaps(job.transform)
         THEN 0..jround_up(width_in_blocks(dstinfo, c), dstinfo.comps[c].h) - 1
         ELSE 0..width_in_blocks(dstinfo, c) - 1

RowGroup == blk_y..blk_y + dstinfo.comps[ci].v - 1

(* The array a with the row group made from the source array b.            *)
Filled(a, b) ==
    [y \in DOMAIN a |->
        IF y \notin RowGroup THEN a[y]
        ELSE [x \in DOMAIN a[y] |->
                 IF x \in Columns(ci)
                 THEN NewBlock(job.transform, b, comp_width(ci), comp_height(ci), x, y)
                 ELSE a[y][x]]]

Executing == stage = "jtransform_execute_transformation"

TransformRow ==
    /\ Executing /\ job.transform # "NONE"
    /\ ci <= Len(dstinfo.comps) /\ blk_y < height_in_blocks(dstinfo, ci)
    /\ \/ in_place /\ src' = [src EXCEPT ![ci] = Filled(@, @)] /\ UNCHANGED dst
       \/ ~in_place /\ dst' = [dst EXCEPT ![ci] = Filled(@, src[ci])] /\ UNCHANGED src
    /\ blk_y' = blk_y + dstinfo.comps[ci].v
    /\ UNCHANGED <<stage, job, marker_list, in_place, dstinfo, ci, written>>

(* Mutant: the counter is incremented in the loop as well.                 *)
EveryOtherComponent ==
    /\ Executing /\ job.transform # "NONE"
    /\ ci <= Len(dstinfo.comps) /\ blk_y >= height_in_blocks(dstinfo, ci)
    /\ ci' = ci + 2 /\ blk_y' = 0
    /\ UNCHANGED <<stage, job, marker_list, src, dst, in_place, dstinfo, written>>

NextComponent ==
    /\ Executing /\ job.transform # "NONE"
    /\ ci <= Len(dstinfo.comps) /\ blk_y >= height_in_blocks(dstinfo, ci)
    /\ ci' = ci + 1 /\ blk_y' = 0
    /\ UNCHANGED <<stage, job, marker_list, src, dst, in_place, dstinfo, written>>

(* jpeg_finish_compress then encodes the output arrays.                    *)
Executed ==
    /\ Executing
    /\ job.transform = "NONE" \/ ci > Len(dstinfo.comps)
    /\ stage' = "done"
    /\ UNCHANGED <<job, marker_list, src, dst, in_place, dstinfo, ci, blk_y, written>>

NoInfo == [image_width |-> 0, image_height |-> 0, colors |-> "UNKNOWN",
           comps |-> << >>, quant |-> << >>]

(* jcopy_markers_setup and jpeg_read_header have been called.              *)
Init ==
    /\ job \in Jobs
    /\ marker_list = Saved(job.source, job.copyoption)
    /\ stage = "jtransform_request_workspace"
    /\ src = << >> /\ dst = << >> /\ in_place = FALSE
    /\ dstinfo = NoInfo /\ ci = 1 /\ blk_y = 0 /\ written = << >>

Next ==
    \/ jtransform_request_workspace \/ jpeg_read_coefficients
    \/ jpeg_copy_critical_parameters \/ jtransform_adjust_parameters
    \/ jpeg_write_coefficients \/ jcopy_markers_execute
    \/ TransformRow \/ NextComponent \/ Executed

Spec == Init /\ [][Next]_vars

----------------------------------------------------------------------------
(* Properties.                                                             *)

Blocks == [x : Int, y : Int, t : BOOLEAN, h : BOOLEAN, v : BOOLEAN]

TypeOK ==
    /\ job \in Jobs
    /\ in_place \in BOOLEAN
    /\ ci \in 1..Len(job.source.comps) + 1 /\ blk_y \in Nat
    /\ \A a \in ToSet(src) \cup ToSet(dst) :
        \A y \in DOMAIN a : a[y] \in [0..ColsOf(a) - 1 -> Blocks]

Output == IF in_place THEN src ELSE dst

(* The blocks that the encoder reads: those of the image, not the padding. *)
Visible(info, c) ==
    (0..width_in_blocks(info, c) - 1) \X (0..height_in_blocks(info, c) - 1)

(* The source picture as it is kept: all of it, or its luminance alone.    *)
Kept ==
    IF job.force_grayscale
    THEN [job.source EXCEPT !.comps = << [job.source.comps[1] EXCEPT !.h = 1, !.v = 1] >>]
    ELSE job.source

(* Samples.  <<i, j>> is a column and a row.                               *)
Swapped(p) == <<p[2], p[1]>>
MirrorX(w, p) == IF p[1] < w THEN <<w - 1 - p[1], p[2]>> ELSE p
MirrorY(h, p) == Swapped(MirrorX(h, Swapped(p)))

(* The sample of the source that a block shows at p.                       *)
Sample(b, p) ==
    LET q == MirrorX(IF b.h THEN DCTSIZE ELSE 0, MirrorY(IF b.v THEN DCTSIZE ELSE 0, p))
        r == IF b.t THEN Swapped(q) ELSE q
    IN  <<b.x * DCTSIZE + r[1], b.y * DCTSIZE + r[2]>>

Shown(a, p) == Sample(a[p[2] \div DCTSIZE][p[1] \div DCTSIZE],
                      <<p[1] % DCTSIZE, p[2] % DCTSIZE>>)

Samples(info, c) ==
    (0..width_in_blocks(info, c) * DCTSIZE - 1) \X (0..height_in_blocks(info, c) * DCTSIZE - 1)

(* The samples of a component that lie in complete iMCUs.                  *)
WholeWidth(info, c) == (info.image_width \div (MaxH(info) * DCTSIZE)) * info.comps[c].h * DCTSIZE
WholeHeight(info, c) == (info.image_height \div (MaxV(info) * DCTSIZE)) * info.comps[c].v * DCTSIZE

(* The transformation of a picture w by h, as combinations of mirroring    *)
(* and transposition.                                                      *)
Combination(transform, w, h, p) ==
    CASE transform = "NONE"       -> p
      [] transform = "FLIP_H"     -> MirrorX(w, p)
      [] transform = "FLIP_V"     -> MirrorY(h, p)
      [] transform = "TRANSPOSE"  -> Swapped(p)
      [] transform = "ROT_90"     -> Swapped(MirrorX(h, p))
      [] transform = "ROT_270"    -> MirrorX(w, Swapped(p))
      [] transform = "ROT_180"    -> MirrorY(h, MirrorX(w, p))
      [] transform = "TRANSVERSE" -> MirrorX(w, MirrorY(h, Swapped(p)))

(* Every sample of the output is the sample of the source which the        *)
(* transformation puts there, where rotations are combinations of flips    *)
(* and a transposition that leave partial iMCUs in place: "The other       *)
(* transforms are defined as combinations of these basic transforms and    *)
(* process edge blocks in a way that preserves the equivalence"            *)
(* (transupp.h:80).                                                        *)
PictureIsCombination ==
    stage = "done" =>
        \A c \in 1..Len(dstinfo.comps) : \A p \in Samples(dstinfo, c) :
            Shown(Output[c], p)
                = Combination(job.transform, WholeWidth(Kept, c), WholeHeight(Kept, c), p)

(* Without trimming nothing is lost and no padding becomes visible: the    *)
(* blocks of the output are the blocks of the source, each of them once.   *)
Lossless ==
    stage = "done" /\ ~job.trim =>
        \A c \in 1..Len(dstinfo.comps) :
            /\ {<<Output[c][q[2]][q[1]].x, Output[c][q[2]][q[1]].y>> :
                    q \in Visible(dstinfo, c)} = Visible(Kept, c)
            /\ Cardinality(Visible(dstinfo, c)) = Cardinality(Visible(Kept, c))

(* With trimming, in an image of at least one iMCU each way, the whole     *)
(* output is mirrored: no edge is left where it was.                       *)
TrimLeavesNoEdge ==
    stage = "done" /\ job.trim
    /\ Kept.image_width >= MaxH(Kept) * DCTSIZE
    /\ Kept.image_height >= MaxV(Kept) * DCTSIZE =>
        \A c \in 1..Len(dstinfo.comps) : \A p \in Samples(dstinfo, c) :
            LET w == width_in_blocks(dstinfo, c) * DCTSIZE
                h == height_in_blocks(dstinfo, c) * DCTSIZE
                q == IF TrimsRight(job.transform) THEN MirrorX(w, p) ELSE p
                r == IF TrimsBottom(job.transform) THEN MirrorY(h, q) ELSE q
            IN  Shown(Output[c], p) = IF Swaps(job.transform) THEN Swapped(r) ELSE r

(* A block is transposed if and only if the quantization table its         *)
(* component uses is, so that each coefficient still meets its divisor.    *)
TablesFollowBlocks ==
    stage = "done" =>
        \A c \in 1..Len(dstinfo.comps) : \A q \in Visible(dstinfo, c) :
            Output[c][q[2]][q[1]].t = dstinfo.quant[dstinfo.comps[c].quant_tbl_no]

(* The blocks a turn of the loop is about to read and to write all lie     *)
(* inside the arrays: workspace is requested before the output parameters  *)
(* exist, from the padded sizes of the source.                             *)
InsideArrays ==
    Executing /\ job.transform # "NONE" /\ ci <= Len(dstinfo.comps)
    /\ blk_y < height_in_blocks(dstinfo, ci) =>
        LET rows == Max({blk_y + dstinfo.comps[ci].v, comp_height(ci)})
            cols == Max(Columns(ci) \cup {comp_width(ci) - 1}) + 1
        IN  /\ blk_y + dstinfo.comps[ci].v <= RowsOf(Output[ci])
            /\ cols <= ColsOf(Output[ci])
            /\ IF Swaps(job.transform)
               THEN rows <= ColsOf(src[ci]) /\ cols <= RowsOf(src[ci])
               ELSE rows <= RowsOf(src[ci]) /\ cols <= ColsOf(src[ci])

(* What a decoder takes the colors of a file to be.                        *)
Saw(markers, id) ==
    {i \in 1..Len(markers) : markers[i].id = id /\ ~markers[i].short}

default_decompress_parms(markers, comps) ==
    LET adobe == Saw(markers, "Adobe")
        transform == markers[Max(adobe)].transform
        ids == [c \in 1..Len(comps) |-> comps[c].id]
    IN  CASE Len(comps) = 1 -> "GRAYSCALE"
          [] Len(comps) = 3 ->
                IF Saw(markers, "JFIF") # {} THEN "YCbCr"
                ELSE IF adobe # {} THEN IF transform = 0 THEN "RGB" ELSE "YCbCr"
                ELSE IF ids = <<82, 71, 66>> THEN "RGB" ELSE "YCbCr"
          [] Len(comps) = 4 ->
                IF adobe = {} \/ transform = 0 THEN "CMYK" ELSE "YCCK"
          [] OTHER -> "UNKNOWN"

(* So the source was read; and a marker is known as JFIF or Adobe only if  *)
(* it is of the kind in which the decoder looks for that.                  *)
ASSUME ColorsAreTold ==
    \A jb \in Jobs :
        /\ jb.source.colors = default_decompress_parms(jb.source.markers, jb.source.comps)
        /\ \A m \in ToSet(jb.source.markers) :
              (m.id = "JFIF" => m.kind = "APP0") /\ (m.id = "Adobe" => m.kind = "APP14")

(* A decoder that reads the output takes it for the color space the        *)
(* coefficients are in, whatever markers were saved, copied or dropped.    *)
ColorsSurvive ==
    stage = "done" => default_decompress_parms(written, dstinfo.comps) = dstinfo.colors
(* Nothing outside of the arrays is read or written.                       *)
StaysInside == TypeOK /\ InsideArrays

(* The output shows the transformed source, each coefficient dequantized   *)
(* as it was in the source.                                                *)
OutputIsCombination == PictureIsCombination /\ TablesFollowBlocks

(* At the edges nothing is lost when it should be kept, and nothing kept   *)
(* that should be trimmed.                                                 *)
EdgesRight == Lossless /\ TrimLeavesNoEdge
=============================================================================
