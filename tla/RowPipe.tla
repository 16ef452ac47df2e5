------------------------------- MODULE RowPipe -------------------------------
(***************************************************************************)
(* The row pipeline of the decompressor: the main buffer controller        *)
(* (jdmainct.c) with its context rows, the control of the upsamplers       *)
(* (jdsample.c, jdmerge.c) and the postprocessing controller (jdpostct.c), *)
(* between the coefficient controller, which delivers an iMCU row of       *)
(* samples or suspends, and the application, which asks for a few rows at  *)
(* a time.  A sample row is known by its number.                           *)
(***************************************************************************)
EXTENDS Integers, Sequences, FiniteSetsExt

CONSTANTS
    Images,         \* the images considered, with the parameters chosen
    MaxLines        \* most rows the application asks for in a call

(* An image is a record of                                                 *)
(*   image_height, before scaling;                                         *)
(*   M, min_DCT_scaled_size: the number of row groups in an iMCU row;      *)
(*   max_v_samp_factor;                                                    *)
(*   v_samp_factor and DCT_scaled_size, functions of the components;       *)
(*   Fancy, the components with h2v2_fancy_upsample;                       *)
(*   upsampler: "sep", "merged_2v" or "merged_1v";                         *)
(*   quantize: "none", "1pass" or "2pass" (with the whole-image buffer).   *)
Component(f) == DOMAIN f.v_samp_factor
iMCUheight(f, c) == f.v_samp_factor[c] * f.DCT_scaled_size[c]
RowGroup(f, c) == iMCUheight(f, c) \div f.M
NeedContextRows(f) == f.Fancy # {}

ImageOK(f) ==
    /\ f.image_height \in Nat \ {0}
    /\ f.M \in {1, 2, 4, 8} /\ (NeedContextRows(f) => f.M > 1)
    /\ f.max_v_samp_factor \in 1 .. 4 /\ f.Fancy \subseteq Component(f)
    /\ \A c \in Component(f) :
          /\ f.v_samp_factor[c] \in 1 .. f.max_v_samp_factor
          /\ f.DCT_scaled_size[c] \in {1, 2, 4, 8}
          /\ f.DCT_scaled_size[c] >= f.M
          /\ f.max_v_samp_factor % RowGroup(f, c) = 0
          /\ c \in f.Fancy => /\ f.max_v_samp_factor = 2 * RowGroup(f, c)
                              /\ f.DCT_scaled_size[c] = 8
    /\ f.upsampler \in {"sep", "merged_2v", "merged_1v"}
    /\ f.upsampler # "sep" => ~ NeedContextRows(f)
    /\ f.upsampler = "merged_2v" => f.M = 8 /\ f.max_v_samp_factor = 2
    /\ f.upsampler = "merged_1v" => f.max_v_samp_factor = 1
    /\ f.quantize \in {"none", "1pass", "2pass"}

ASSUME PipeAssumption ==
    MaxLines \in Nat \ {0} /\ \A f \in Images : ImageOK(f)

VARIABLES
    image,              \* the image being decompressed
    pass,               \* "none" or the buffer mode of the output pass
    output_scanline,
    got,                \* the rows delivered by the last call
    output_iMCU_row,    \* the next iMCU row the coefficient side delivers
    buffer,             \* the workspace: sample row in each physical row
    xbuffer,            \* the two pointer lists of the context case
    buffer_full, rowgroup_ctr, whichptr, context_state, rowgroups_avail,
    iMCU_row_ctr,
    next_row_out, rows_to_go,
    color_buf,          \* the row group being converted
    spare_full, spare_row,
    whole_image,        \* the full-image buffer of the post controller
    strip,              \* the strip its buffer points to, NoStrip at first
    starting_row, next_row,
    at,                 \* where the process_data call on the stack is
    out_row_ctr, out_rows_avail         \* and its arguments

main == <<buffer_full, rowgroup_ctr, whichptr, context_state,
          rowgroups_avail, iMCU_row_ctr, xbuffer>>
upsample == <<next_row_out, rows_to_go, color_buf, spare_full, spare_row>>
post == <<whole_image, strip, starting_row, next_row>>
args == <<at, out_row_ctr, out_rows_avail>>
vars == <<image, pass, output_scanline, got, output_iMCU_row, buffer, main,
          upsample, post, args>>

Garbage == -1
NoStrip == -1
NoLines == [i \in {} |-> 0]

-----------------------------------------------------------------------------
(* Dimensions: initial_setup and jpeg_calc_output_dimensions.              *)
CeilDiv(a, b) == (a + b - 1) \div b

output_height(f) == CeilDiv(f.image_height * f.M, 8)
downsampled_height(f, c) ==
    CeilDiv(f.image_height * iMCUheight(f, c), f.max_v_samp_factor * 8)
height_in_blocks(f, c) ==
    CeilDiv(f.image_height * f.v_samp_factor[c], f.max_v_samp_factor * 8)
total_iMCU_rows(f) == CeilDiv(f.image_height, f.max_v_samp_factor * 8)

NotRounded(f) == output_height(f)                               \* mutant
rounded_height(f) ==
    CeilDiv(output_height(f), f.max_v_samp_factor) * f.max_v_samp_factor

(* The rows of a row group that row q of its output is made from, relative *)
(* to the first one: the nearest and the next nearest with the triangle    *)
(* filter, else only the nearest.                                          *)
Uses(f, c, q) ==
    LET near == q \div (f.max_v_samp_factor \div RowGroup(f, c))
    IN  IF c \in f.Fancy
        THEN <<near, IF q % 2 = 0 THEN near - 1 ELSE near + 1>>
        ELSE <<near>>

Clamp(f, c, s) == Max({0, Min({s, downsampled_height(f, c) - 1})})

(* What row r of an image should be made from: the rows beyond the top and *)
(* the bottom repeat the first and the last.                               *)
Line(f, r) ==
    LET group == r \div f.max_v_samp_factor
        q == r % f.max_v_samp_factor
    IN  [c \in Component(f) |->
           [k \in 1 .. Len(Uses(f, c, q)) |->
              Clamp(f, c, group * RowGroup(f, c) + Uses(f, c, q)[k])]]

(* The parameters of the image at hand.                                    *)
M == image.M
max_v_samp_factor == image.max_v_samp_factor
rgroup(c) == RowGroup(image, c)
need_context_rows == NeedContextRows(image)
upsampler == image.upsampler
quantize == image.quantize
strip_height == image.max_v_samp_factor

(* Rows of a full-size component are read in the workspace when they are   *)
(* emitted.  Components subsampled only horizontally, which are copied,    *)
(* are taken as full-size: a late read can only be worse.                  *)
Fullsize(c) == rgroup(c) = max_v_samp_factor /\ upsampler = "sep"

-----------------------------------------------------------------------------
(* The pointer lists.  Rows -rgroup .. rgroup * (M + 3) - 1 of a list      *)
(* point to rows of the workspace; Garbage is a pointer not yet set.       *)
ListRows(c) == -rgroup(c) .. rgroup(c) * (M + 3) - 1
WorkRows(c) == 0 .. rgroup(c) * (IF need_context_rows THEN M + 2 ELSE M) - 1

NoPointers == [w \in {0, 1} |->
                 [c \in Component(image) |-> [i \in ListRows(c) |-> Garbage]]]

make_funny_pointers ==
    [w \in {0, 1} |-> [c \in Component(image) |->
       LET g == rgroup(c) IN
       [i \in ListRows(c) |->
          IF i \in 0 .. g * (M + 2) - 1
          THEN IF w = 0 \/ i < g * (M - 2) THEN i
               ELSE IF i < g * M THEN i + 2 * g ELSE i - 2 * g
          ELSE IF w = 0 /\ i < 0 THEN 0 ELSE xbuffer[w][c][i]]]]

KeepsTopPointers == xbuffer                                     \* mutant
set_wraparound_pointers ==
    [w \in {0, 1} |-> [c \in Component(image) |->
       LET g == rgroup(c) IN
       [i \in ListRows(c) |->
          IF i < 0 THEN xbuffer[w][c][g * (M + 2) + i]
          ELSE IF i >= g * (M + 2) THEN xbuffer[w][c][i - g * (M + 2)]
          ELSE xbuffer[w][c][i]]]]

rows_left(c) ==
    LET rest == downsampled_height(image, c) % iMCUheight(image, c)
    IN  IF rest = 0 THEN iMCUheight(image, c) ELSE rest

OnlyWholeGroups(c) == rows_left(c) \div rgroup(c)               \* mutant
RowGroupsLeft(c) == (rows_left(c) - 1) \div rgroup(c) + 1

Duplicated(i, n, g) == n <= i /\ i < n + 2 * g

set_bottom_pointers ==
    [xbuffer EXCEPT ![whichptr] =
       [c \in Component(image) |->
          [i \in ListRows(c) |->
             IF Duplicated(i, rows_left(c), rgroup(c))
             THEN @[c][rows_left(c) - 1] ELSE @[c][i]]]]

(* The sample row that row i of the list the upsampler is given shows.     *)
Shown(w, c, i) ==
    LET p == IF need_context_rows THEN xbuffer[w][c][i] ELSE i
    IN  IF p \in WorkRows(c) THEN buffer[c][p] ELSE Garbage

-----------------------------------------------------------------------------
Init ==
    /\ image \in Images
    /\ pass = "none" /\ output_scanline = 0 /\ got = NoLines
    /\ output_iMCU_row = 0
    /\ buffer = [c \in Component(image) |-> [p \in WorkRows(c) |-> Garbage]]
    /\ xbuffer = NoPointers
    /\ buffer_full = FALSE /\ rowgroup_ctr = 0 /\ whichptr = 0
    /\ context_state = "PREPARE_FOR_IMCU" /\ rowgroups_avail = 0
    /\ iMCU_row_ctr = 0
    /\ next_row_out = max_v_samp_factor /\ rows_to_go = 0
    /\ color_buf = [list |-> 0, group |-> 0, rows |-> NoLines]
    /\ spare_full = FALSE /\ spare_row = NoLines
    /\ whole_image = [r \in 0 .. rounded_height(image) - 1 |-> NoLines]
    /\ strip = NoStrip /\ starting_row = 0 /\ next_row = 0
    /\ at = "idle" /\ out_row_ctr = 0 /\ out_rows_avail = 0

Complete == output_scanline = output_height(image)

(* The passes prepare_for_output_pass can ask for: a dummy pass, which is  *)
(* run to its end, the pass over the saved image right after it, or an     *)
(* ordinary pass.  A pass over the image may be given up at any row.       *)
PassAllowed(mode) ==
    CASE mode = "CRANK_DEST" -> pass = "SAVE_AND_PASS" /\ Complete
      [] mode = "SAVE_AND_PASS" -> quantize = "2pass" /\ pass # mode
      [] mode = "PASS_THRU" -> pass # "SAVE_AND_PASS"

(* prepare_for_output_pass: start_output_pass of the coefficient           *)
(* controller, start_pass of the upsampler, the post and the main          *)
(* controller.                                                             *)
StartPass(mode) ==
    /\ at = "idle" /\ PassAllowed(mode)
    /\ pass' = mode /\ output_scanline' = 0 /\ got' = NoLines
    /\ starting_row' = 0 /\ next_row' = 0
    /\ IF mode = "CRANK_DEST"
       THEN UNCHANGED <<output_iMCU_row, main, upsample, strip>>
       ELSE /\ output_iMCU_row' = 0
            /\ next_row_out' = max_v_samp_factor
            /\ rows_to_go' = output_height(image)
            /\ spare_full' = FALSE
            /\ UNCHANGED <<color_buf, spare_row>>
            /\ strip' = IF /\ mode = "PASS_THRU" /\ quantize = "2pass"
                           /\ strip = NoStrip
                        THEN 0 ELSE strip
            /\ buffer_full' = FALSE /\ rowgroup_ctr' = 0
            /\ UNCHANGED rowgroups_avail
            /\ IF need_context_rows
               THEN /\ xbuffer' = make_funny_pointers
                    /\ whichptr' = 0 /\ iMCU_row_ctr' = 0
                    /\ context_state' = "PREPARE_FOR_IMCU"
               ELSE UNCHANGED <<xbuffer, whichptr, iMCU_row_ctr,
                                context_state>>
    /\ UNCHANGED <<image, buffer, whole_image, args>>

(* jpeg_read_scanlines, or a turn of the loop of output_pass_setup, which  *)
(* passes output_scanline itself and no output buffer.                     *)
ProcessData(n) ==
    /\ at = "idle" /\ pass # "none" /\ ~ Complete
    /\ pass = "SAVE_AND_PASS" <=> n = 0
    /\ out_row_ctr' = IF pass = "SAVE_AND_PASS" THEN output_scanline ELSE 0
    /\ out_rows_avail' = n
    /\ got' = NoLines
    /\ at' = IF pass = "CRANK_DEST" THEN "crank"
             ELSE IF buffer_full THEN "feed" ELSE "fill"
    /\ UNCHANGED <<image, pass, output_scanline, output_iMCU_row, buffer,
                   main, upsample, post>>

Return == at' = "idle"

(* decompress_data of the coefficient controller gives an iMCU row, except *)
(* for the dummy block rows at the bottom, or suspends.                    *)
block_rows(c) ==
    LET rest == height_in_blocks(image, c) % image.v_samp_factor[c]
    IN  IF output_iMCU_row < total_iMCU_rows(image) - 1 \/ rest = 0
        THEN image.v_samp_factor[c] ELSE rest

DecompressData ==
    /\ buffer' =
         [c \in Component(image) |->
            LET row(p) == {j \in 0 .. block_rows(c) * image.DCT_scaled_size[c] - 1 :
                              p = IF need_context_rows
                                  THEN xbuffer[whichptr][c][j] ELSE j}
            IN  [p \in WorkRows(c) |->
                   IF row(p) = {} THEN buffer[c][p]
                   ELSE output_iMCU_row * iMCUheight(image, c) + Max(row(p))]]
    /\ output_iMCU_row' = output_iMCU_row + 1

Fill ==
    /\ at = "fill"
    /\ DecompressData
    /\ buffer_full' = TRUE /\ at' = "feed"
    /\ iMCU_row_ctr' = IF need_context_rows THEN iMCU_row_ctr + 1
                                            ELSE iMCU_row_ctr
    /\ UNCHANGED <<image, pass, output_scanline, got, rowgroup_ctr, whichptr,
                   context_state, rowgroups_avail, xbuffer, upsample, post,
                   out_row_ctr, out_rows_avail>>

Suspend ==
    /\ at = "fill" /\ Return
    /\ UNCHANGED <<image, pass, output_scanline, got, output_iMCU_row, buffer,
                   main, upsample, post, out_row_ctr, out_rows_avail>>

-----------------------------------------------------------------------------
(* One call of the upsampler for row group rowgroup_ctr, with room for     *)
(* that many rows: the rows it emits, whether the row group is used up,    *)
(* and what it remembers.                                                  *)
ConvRow(buf, q) ==
    [c \in Component(image) |->
       [k \in 1 .. Len(Uses(image, c, q)) |->
          IF Fullsize(c)
          THEN Shown(buf.list, c, buf.group * rgroup(c) + q)
          ELSE buf.rows[c][Uses(image, c, q)[k]]]]

Group ==
    [list |-> whichptr, group |-> rowgroup_ctr,
     rows |-> [c \in Component(image) |->
                 [j \in -1 .. rgroup(c) |->
                    Shown(whichptr, c, rowgroup_ctr * rgroup(c) + j)]]]

BeyondLast == next_row_out > max_v_samp_factor                  \* mutant
ConvBufEmpty == next_row_out >= max_v_samp_factor

IgnoresBottom(first, room) ==                                   \* mutant
    Min({max_v_samp_factor - first, room})
RowsOut(first, room) ==
    Min({max_v_samp_factor - first, rows_to_go, room})

sep_upsample(room) ==
    LET buf == IF ConvBufEmpty THEN Group ELSE color_buf
        first == IF ConvBufEmpty THEN 0 ELSE next_row_out
        num_rows == RowsOut(first, room)
    IN  [lines |-> [i \in 0 .. num_rows - 1 |-> ConvRow(buf, first + i)],
         num_rows |-> num_rows,
         consumed |-> first + num_rows >= max_v_samp_factor,
         color_buf |-> buf, next_row_out |-> first + num_rows,
         spare_full |-> spare_full, spare_row |-> spare_row]

merged_2v_upsample(room) ==
    LET num_rows == IF spare_full THEN 1 ELSE Min({2, rows_to_go, room})
        full == ~ spare_full /\ num_rows <= 1
    IN  [lines |-> [i \in 0 .. num_rows - 1 |->
                      IF spare_full THEN spare_row ELSE ConvRow(Group, i)],
         num_rows |-> num_rows,
         consumed |-> ~ full,
         color_buf |-> color_buf, next_row_out |-> next_row_out,
         spare_full |-> full,
         spare_row |-> IF full THEN ConvRow(Group, 1) ELSE spare_row]

merged_1v_upsample ==
    [lines |-> [i \in {0} |-> ConvRow(Group, 0)], num_rows |-> 1,
     consumed |-> TRUE, color_buf |-> color_buf,
     next_row_out |-> next_row_out, spare_full |-> spare_full,
     spare_row |-> spare_row]

Upsampled(room) ==
    CASE upsampler = "sep" -> sep_upsample(room)
      [] upsampler = "merged_2v" -> merged_2v_upsample(room)
      [] upsampler = "merged_1v" -> merged_1v_upsample

(* post_process_data on one row group: straight to the upsampler, or to    *)
(* post_process_1pass or post_process_prepass.                             *)
Room ==
    IF pass = "SAVE_AND_PASS" THEN strip_height - next_row
    ELSE IF quantize = "none" THEN out_rows_avail - out_row_ctr
    ELSE Min({strip_height, out_rows_avail - out_row_ctr})

AdvanceStrip(n) ==
    IF n >= strip_height
    THEN starting_row' = starting_row + strip_height /\ next_row' = 0
    ELSE next_row' = n /\ UNCHANGED starting_row

Emit(lines, n) ==
    /\ out_row_ctr' = out_row_ctr + n
    /\ output_scanline' = output_scanline + n
    /\ got' = [r \in DOMAIN got \cup
                    {output_scanline + i : i \in DOMAIN lines} |->
                 IF r \in DOMAIN got THEN got[r]
                 ELSE lines[r - output_scanline]]

Store(first, lines) ==
    whole_image' = [r \in DOMAIN whole_image |->
                      IF r - first \in DOMAIN lines THEN lines[r - first]
                      ELSE whole_image[r]]

PostProcess(u) ==
    /\ Emit(u.lines, u.num_rows)
    /\ rows_to_go' = IF upsampler = "merged_1v" THEN rows_to_go
                                                ELSE rows_to_go - u.num_rows
    /\ color_buf' = u.color_buf /\ next_row_out' = u.next_row_out
    /\ spare_full' = u.spare_full /\ spare_row' = u.spare_row
    /\ IF pass = "SAVE_AND_PASS"
       THEN /\ strip' = IF next_row = 0 THEN starting_row ELSE strip
            /\ Store(strip' + next_row, u.lines)
            /\ AdvanceStrip(next_row + u.num_rows)
       ELSE /\ IF quantize = "2pass" THEN Store(strip, u.lines)
                                     ELSE UNCHANGED whole_image
            /\ UNCHANGED <<strip, starting_row, next_row>>

CountsEveryCall(u) == rowgroup_ctr + 1                          \* mutant
GroupsDone(u) == rowgroup_ctr + (IF u.consumed THEN 1 ELSE 0)

-----------------------------------------------------------------------------
(* process_data_simple_main, after the buffer has been filled.             *)
FeedSimple ==
    LET u == Upsampled(Room)
    IN  /\ at = "feed" /\ ~ need_context_rows
        /\ PostProcess(u)
        /\ IF GroupsDone(u) >= M
           THEN buffer_full' = FALSE /\ rowgroup_ctr' = 0
           ELSE rowgroup_ctr' = GroupsDone(u) /\ UNCHANGED buffer_full
        /\ Return
        /\ UNCHANGED <<image, pass, output_iMCU_row, buffer, whichptr,
                       context_state, rowgroups_avail, iMCU_row_ctr, xbuffer,
                       out_rows_avail>>

(* process_data_context_main, the three cases of its switch.               *)
FeedPostponed ==
    LET u == Upsampled(Room)
    IN  /\ at = "feed" /\ need_context_rows
        /\ context_state = "POSTPONED_ROW"
        /\ PostProcess(u)
        /\ rowgroup_ctr' = GroupsDone(u)
        /\ IF GroupsDone(u) < rowgroups_avail
           THEN Return /\ UNCHANGED context_state
           ELSE /\ context_state' = "PREPARE_FOR_IMCU"
                /\ IF out_row_ctr' >= out_rows_avail THEN Return
                                                     ELSE UNCHANGED at
        /\ UNCHANGED <<image, pass, output_iMCU_row, buffer, whichptr,
                       buffer_full, rowgroups_avail, iMCU_row_ctr, xbuffer,
                       out_rows_avail>>

AtBottom == iMCU_row_ctr = total_iMCU_rows(image)

PrepareForIMCU ==
    /\ at = "feed" /\ need_context_rows /\ context_state = "PREPARE_FOR_IMCU"
    /\ rowgroup_ctr' = 0
    /\ IF AtBottom
       THEN /\ xbuffer' = set_bottom_pointers
            /\ rowgroups_avail' =
                 RowGroupsLeft(CHOOSE c \in Component(image) : TRUE)
       ELSE /\ rowgroups_avail' = M - 1
            /\ UNCHANGED xbuffer
    /\ context_state' = "PROCESS_IMCU"
    /\ UNCHANGED <<image, pass, output_scanline, got, output_iMCU_row, buffer,
                   buffer_full, whichptr, iMCU_row_ctr, upsample, post, args>>

ProcessIMCU ==
    LET u == Upsampled(Room)
    IN  /\ at = "feed" /\ need_context_rows /\ context_state = "PROCESS_IMCU"
        /\ PostProcess(u)
        /\ IF GroupsDone(u) < rowgroups_avail
           THEN /\ rowgroup_ctr' = GroupsDone(u)
                /\ UNCHANGED <<whichptr, buffer_full, rowgroups_avail,
                               context_state, xbuffer>>
           ELSE /\ xbuffer' = IF iMCU_row_ctr = 1
                              THEN set_wraparound_pointers ELSE xbuffer
                /\ whichptr' = 1 - whichptr
                /\ buffer_full' = FALSE
                /\ rowgroup_ctr' = M + 1 /\ rowgroups_avail' = M + 2
                /\ context_state' = "POSTPONED_ROW"
        /\ Return
        /\ UNCHANGED <<image, pass, output_iMCU_row, buffer, iMCU_row_ctr,
                       out_rows_avail>>

(* process_data_crank_post and post_process_2pass.                         *)
CrankPost ==
    LET from == IF next_row = 0 THEN starting_row ELSE strip
        num_rows == Min({strip_height - next_row,
                         out_rows_avail - out_row_ctr,
                         output_height(image) - starting_row})
    IN  /\ at = "crank" /\ strip' = from
        /\ Emit([i \in 0 .. num_rows - 1 |-> whole_image[from + next_row + i]],
                num_rows)
        /\ AdvanceStrip(next_row + num_rows)
        /\ Return
        /\ UNCHANGED <<image, pass, output_iMCU_row, buffer, main, upsample,
                       whole_image, out_rows_avail>>

-----------------------------------------------------------------------------
Mode == {"PASS_THRU", "SAVE_AND_PASS", "CRANK_DEST"}

Feed ==
    FeedSimple \/ FeedPostponed \/ PrepareForIMCU \/ ProcessIMCU \/ CrankPost

Next ==
    \/ \E mode \in Mode : StartPass(mode)
    \/ \E n \in 0 .. MaxLines : ProcessData(n)
    \/ Fill \/ Suspend
    \/ Feed

Spec == Init /\ [][Next]_vars

-----------------------------------------------------------------------------
(* Every pointer the upsampler may follow points into the workspace, every *)
(* counter stays in its range.                                             *)
TypeOK ==
    /\ image \in Images
    /\ pass \in Mode \cup {"none"}
    /\ at \in {"idle", "fill", "feed", "crank"}
    /\ buffer_full \in BOOLEAN /\ spare_full \in BOOLEAN
    /\ context_state \in {"POSTPONED_ROW", "PREPARE_FOR_IMCU", "PROCESS_IMCU"}
    /\ whichptr \in {0, 1}
    /\ rowgroup_ctr \in 0 .. M + 2 /\ rowgroups_avail \in 0 .. M + 2
    /\ rows_to_go \in 0 .. output_height(image)
    /\ next_row_out \in 0 .. max_v_samp_factor
    /\ next_row \in 0 .. strip_height - 1
    /\ \A w \in {0, 1} : \A c \in Component(image) :
          \A i \in ListRows(c) :
             xbuffer[w][c][i] \in WorkRows(c) \cup {Garbage}

(* However few rows the application takes at a time, whatever iMCU row the *)
(* source suspends at and whatever an earlier pass left behind, every row  *)
(* of every pass is delivered once, in order, and is made from its own     *)
(* sample rows and, with the triangle filter, from their neighbours, the   *)
(* first and the last one repeated at the top and at the bottom: the       *)
(* pointer lists of jdmainct.c never show the upsampler another row.       *)
Delivery == INSTANCE RowDelivery
DeliverySpec == Delivery!Spec

(* The main controller asks the coefficient controller for an iMCU row     *)
(* only when there is one left: it counts its row groups, the upsampler    *)
(* counts output rows, and decompress_data does not check.                 *)
NeverPastLastRow == at = "fill" => output_iMCU_row < total_iMCU_rows(image)

(* set_bottom_pointers computes the row groups left from the first         *)
(* component only: "Should get same answer for each component".            *)
SameRowGroupsLeft ==
    \A c, d \in Component(image) : RowGroupsLeft(c) = RowGroupsLeft(d)

(* A call of process_data that the source did not suspend returns at least *)
(* one row, as libjpeg.doc:679 lets applications assume; the loop of       *)
(* output_pass_setup takes a call that returns none for a suspension.      *)
NoEmptyReturn ==
    [][(at \in {"feed", "crank"} /\ at' = "idle") => got' # NoLines]_vars

(* The strips the post controller accesses lie inside the virtual array it *)
(* requested, which is rounded up to whole strips.                         *)
StripInside ==
    quantize = "2pass" /\ strip # NoStrip =>
        strip + strip_height <= rounded_height(image)

(* The second pass of two-pass quantization checks for the bottom of the   *)
(* image: "We have to check bottom of image here, can't depend on          *)
(* upsampler" (jdpostct.c).                                                *)
NoRowPastBottom == output_scanline <= output_height(image)

(* The counters of the three controllers, the pointers the upsampler may   *)
(* follow, the strips of the post controller and the iMCU rows asked of    *)
(* the coefficient controller all stay inside what was set up for the      *)
(* image; the row groups left at the bottom are the same for all           *)
(* components, although only the first was asked.                          *)
StaysInside == TypeOK /\ StripInside /\ NeverPastLastRow /\ SameRowGroupsLeft
=============================================================================
