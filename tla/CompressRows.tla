---------------------------- MODULE CompressRows ----------------------------
(***************************************************************************)
(* The data path of the compressor from source rows to MCUs: the           *)
(* preprocessing controller (jcprepct.c), what its downsampler makes of    *)
(* the rows it hands over (jcsample.c), and the construction of blocks and *)
(* MCUs with their dummy blocks (jccoefct.c, jctrans.c).                   *)
(*                                                                         *)
(* Pixels are abstracted to where they come from.  A source row is its     *)
(* number; a downsampled row is the sequence of the source rows it was     *)
(* computed from; a block is the column it stands in and its DCTSIZE       *)
(* downsampled rows.  A coefficient block is [dc, ac], each the block it   *)
(* was computed from: a dummy block has ac = "zero" and borrows its dc.    *)
(***************************************************************************)
EXTENDS CompressSetup

Nothing == -1          \* a row of a buffer that was never stored to

----------------------------------------------------------------------------
(* The preprocessing controller.  prep is its private state together with  *)
(* color_buf, the rows physically allocated: one row group, or three with  *)
(* context rows, whose row pointers wrap around above and below.           *)

BufRows(cinfo) == IF cinfo.need_context_rows THEN 3 * MaxV(cinfo) ELSE MaxV(cinfo)

\* The row a (possibly wrapped around) row pointer stands for.
Physical(cinfo, r) == (r + BufRows(cinfo)) % BufRows(cinfo)

start_pass_prep(cinfo) ==
    [rows_to_go |-> cinfo.image_height, next_buf_row |-> 0, this_row_group |-> 0,
     next_buf_stop |-> 2 * MaxV(cinfo),
     color_buf |-> [r \in 0..BufRows(cinfo) - 1 |-> Nothing]]

\* color_convert of the n source rows from first on, into the rows from
\* next_buf_row on.
Converted(prep, first, n) ==
    [r \in DOMAIN prep.color_buf |->
        IF r \in prep.next_buf_row..prep.next_buf_row + n - 1
        THEN first + (r - prep.next_buf_row) ELSE prep.color_buf[r]]

\* expand_bottom_edge: duplicate row from - 1 into the rows up to stop.
expand_bottom_edge(cinfo, buf, from, stop) ==
    [r \in DOMAIN buf |-> IF r \in from..stop - 1
                          THEN buf[Physical(cinfo, from - 1)] ELSE buf[r]]

\* Mutant of PadTop: the rows above the image are left as they are.
NoTopPadding(cinfo, buf) == buf

\* "Pad at top of image, if first time through": row 0 into the MaxV rows
\* above it, which are the last row group of the buffer.
PadTop(cinfo, buf) ==
    [r \in DOMAIN buf |-> IF r >= 2 * MaxV(cinfo) THEN buf[0] ELSE buf[r]]

\* What jinit_downsampler refuses: a sample is made of a whole number of pixels.
FractionalSampling(cinfo) ==
    \E c \in 1..Len(cinfo.comps) :
        \/ MaxH(cinfo) % cinfo.comps[c].h # 0
        \/ MaxV(cinfo) % cinfo.comps[c].v # 0

\* Rows of source data that make one row of component c.
RowsPerRow(cinfo, c) == MaxV(cinfo) \div cinfo.comps[c].v

\* Row y of component c in the row group that starts at buffer row group: the
\* source rows the downsampler reads, with one more on each side if it smooths.
DownsampledRow(cinfo, buf, group, c, y) ==
    LET m == RowsPerRow(cinfo, c)
        more == IF cinfo.need_context_rows THEN 1 ELSE 0
    IN  [i \in 1..m + 2 * more |->
            buf[Physical(cinfo, group + y * m + (i - 1 - more))]]

\* One row group of every component into row group out of the main buffer.
Downsampled(cinfo, prep, group, buffer, out) ==
    [c \in DOMAIN buffer |->
        [r \in DOMAIN buffer[c] |->
            IF r \div cinfo.comps[c].v = out
            THEN DownsampledRow(cinfo, prep.color_buf, group, c, r % cinfo.comps[c].v)
            ELSE buffer[c][r]]]

\* Padding of the output at the bottom of the image: the last row downsampled
\* into all that are missing in the iMCU row.
PadOutput(cinfo, buffer, out) ==
    [c \in DOMAIN buffer |->
        [r \in DOMAIN buffer[c] |->
            IF r >= out * cinfo.comps[c].v
            THEN buffer[c][out * cinfo.comps[c].v - 1] ELSE buffer[c][r]]]

\* The main buffer: the rows of one iMCU row of every component.
EmptyBuffer(cinfo) ==
    [c \in 1..Len(cinfo.comps) |->
        [r \in 0..cinfo.comps[c].v * DCTSIZE - 1 |-> << >>]]

----------------------------------------------------------------------------
(* Blocks.                                                                 *)

\* What forward_DCT makes of block row brow, column x, of component c.
DCT(buffer, c, brow, x) ==
    LET data == << c, x, [i \in 1..DCTSIZE |-> buffer[c][brow * DCTSIZE + i - 1]] >>
    IN  [dc |-> data, ac |-> data]

Garbage == [dc |-> << >>, ac |-> << >>]    \* a block nobody has stored to
Dummy(block) == [dc |-> block.dc, ac |-> << "zero" >>]

\* The blocks of an MCU in order: component of the scan, block row, column.
PlacesOf(comp, i) ==
    [k \in 1..comp.MCU_width * comp.MCU_height |->
        << i, (k - 1) \div comp.MCU_width, (k - 1) % comp.MCU_width >>]
PlacesUpTo(scan) ==
    LET places[i \in 0..Len(scan.cur)] ==
            IF i = 0 THEN << >> ELSE places[i - 1] \o PlacesOf(scan.cur[i], i)
    IN  places
Places(scan) == PlacesUpTo(scan)[Len(scan.cur)]

\* How many blocks of component comp are real in column col of MCUs, and is
\* block row brow of the iMCU row a real one?
RealAcross(scan, comp, col) ==
    IF col < scan.MCUs_per_row - 1 THEN comp.MCU_width ELSE comp.last_col_width
RealRow(comp, in_last_iMCU_row, brow) ==
    ~in_last_iMCU_row \/ brow < comp.last_row_height

\* One block of the MCU in row yoffset of MCUs, column col, taken from strip,
\* the iMCU row as a function of component, block row and column.
BlockAt(scan, strip, yoffset, col, place) ==
    LET comp == scan.cur[place[1]]
    IN  strip[comp.index][yoffset + place[2]][col * comp.MCU_width + place[3]]

IsReal(scan, in_last_iMCU_row, yoffset, col, place) ==
    /\ RealRow(scan.cur[place[1]], in_last_iMCU_row, yoffset + place[2])
    /\ place[3] < RealAcross(scan, scan.cur[place[1]], col)

\* The MCU with its dummy blocks: each has the DC value of the block before it.
MCUWithDummies(scan, strip, in_last_iMCU_row, yoffset, col) ==
    LET places == Places(scan)
        mcu[k \in 1..Len(places)] ==
            IF IsReal(scan, in_last_iMCU_row, yoffset, col, places[k])
            THEN BlockAt(scan, strip, yoffset, col, places[k])
            ELSE Dummy(mcu[k - 1])
    IN  mcu

\* The MCU when the dummy blocks are in the arrays already.
MCUFromArray(scan, strip, yoffset, col) ==
    [k \in 1..Len(Places(scan)) |-> BlockAt(scan, strip, yoffset, col, Places(scan)[k])]

----------------------------------------------------------------------------
(* The coefficient controllers.                                            *)

\* compress_data: an iMCU row transformed out of the main buffer.
InputStrip(cinfo, buffer) ==
    [c \in 1..Len(cinfo.comps) |->
        [brow \in 0..cinfo.comps[c].v - 1 |->
            [x \in 0..width_in_blocks(cinfo, c) - 1 |-> DCT(buffer, c, brow, x)]]]

\* An iMCU row of the arrays of the whole image.
ArrayStrip(cinfo, whole_image, iMCU_row_num) ==
    [c \in 1..Len(cinfo.comps) |->
        [brow \in 0..cinfo.comps[c].v - 1 |->
            whole_image[c][iMCU_row_num * cinfo.comps[c].v + brow]]]

\* Real block rows of component c in the iMCU row.  "can't use last_row_height
\* here, since may not be set!"
block_rows(cinfo, c, in_last_iMCU_row) ==
    IF in_last_iMCU_row THEN LastBlocks(height_in_blocks(cinfo, c), cinfo.comps[c].v)
    ELSE cinfo.comps[c].v

\* Blocks of component c across the padded array.
BlocksAcross(cinfo, c) == jround_up(width_in_blocks(cinfo, c), cinfo.comps[c].h)

\* A real block row with its dummy blocks at the right edge.
RealBlockRow(cinfo, buffer, c, brow) ==
    [x \in 0..BlocksAcross(cinfo, c) - 1 |->
        IF x < width_in_blocks(cinfo, c) THEN DCT(buffer, c, brow, x)
        ELSE Dummy(DCT(buffer, c, brow, width_in_blocks(cinfo, c) - 1))]

\* A dummy block row: in each MCU the DC value of the last block of the MCU in
\* the row above.
DummyBlockRow(cinfo, c, above) ==
    [x \in DOMAIN above |-> Dummy(above[((x \div cinfo.comps[c].h) + 1) * cinfo.comps[c].h - 1])]

\* compress_first_pass up to the call of compress_output: all components are
\* transformed into the arrays, of which row is the last real one above.
FirstPassRow(cinfo, buffer, c, brow, rows) ==
    IF brow < rows THEN RealBlockRow(cinfo, buffer, c, brow)
    ELSE DummyBlockRow(cinfo, c, RealBlockRow(cinfo, buffer, c, rows - 1))

compress_first_pass(cinfo, whole_image, buffer, iMCU_row_num, in_last_iMCU_row) ==
    [c \in DOMAIN whole_image |->
        [r \in DOMAIN whole_image[c] |->
            IF r \div cinfo.comps[c].v = iMCU_row_num
            THEN FirstPassRow(cinfo, buffer, c, r % cinfo.comps[c].v,
                              block_rows(cinfo, c, in_last_iMCU_row))
            ELSE whole_image[c][r]]]

\* The arrays of jinit_c_coef_controller, padded to whole MCUs.
EmptyArrays(cinfo) ==
    [c \in 1..Len(cinfo.comps) |->
        [r \in 0..jround_up(height_in_blocks(cinfo, c), cinfo.comps[c].v) - 1 |->
            [x \in 0..BlocksAcross(cinfo, c) - 1 |-> Garbage]]]

----------------------------------------------------------------------------
(* What the data of a scan should be, whatever the path it takes: defined  *)
(* over the whole image, with no buffer and no order of operations.        *)

Clip(x, lo, hi) == IF x < lo THEN lo ELSE IF x > hi THEN hi ELSE x

\* Row y of component c: the source rows it covers, the edge rows repeated.
\* Below the image without context rows the downsampled row is repeated that
\* has the last source row in it.
LastDownsampled(cinfo, c) ==
    jdiv_round_up(cinfo.image_height, MaxV(cinfo)) * cinfo.comps[c].v - 1

IdealRow(cinfo, c, y) ==
    LET m == RowsPerRow(cinfo, c)
        more == IF cinfo.need_context_rows THEN 1 ELSE 0
        row == IF cinfo.need_context_rows THEN y ELSE Least(y, LastDownsampled(cinfo, c))
    IN  [i \in 1..m + 2 * more |->
            Clip(row * m + (i - 1 - more), 0, cinfo.image_height - 1)]

IdealBlock(cinfo, c, brow, x) ==
    LET data == << c, x, [i \in 1..DCTSIZE |-> IdealRow(cinfo, c, brow * DCTSIZE + i - 1)] >>
    IN  [dc |-> data, ac |-> data]

IdealArrays(cinfo) ==
    [c \in 1..Len(cinfo.comps) |->
        [r \in 0..height_in_blocks(cinfo, c) - 1 |->
            [x \in 0..width_in_blocks(cinfo, c) - 1 |-> IdealBlock(cinfo, c, r, x)]]]

\* The rows an application hands to jpeg_write_raw_data for one iMCU row.
RawData(cinfo, iMCU_row) ==
    [c \in 1..Len(cinfo.comps) |->
        [r \in 0..cinfo.comps[c].v * DCTSIZE - 1 |->
            IdealRow(cinfo, c, iMCU_row * cinfo.comps[c].v * DCTSIZE + r)]]

\* Block b of the nth MCU of a scan (from 0): the real block nearest to its
\* place, within the blocks of its MCU and its component, or a dummy with the
\* DC of that block.
IdealMCUBlock(cinfo, scan, n, place) ==
    LET comp == scan.cur[place[1]]
        row  == (n \div scan.MCUs_per_row) * comp.MCU_height + place[2]
        col  == (n % scan.MCUs_per_row) * comp.MCU_width + place[3]
        lastrow == height_in_blocks(cinfo, comp.index) - 1
        lastcol == width_in_blocks(cinfo, comp.index) - 1
        \* below the image, the block before is the last of the row above
        right   == ((n % scan.MCUs_per_row) + 1) * comp.MCU_width - 1
    IN  IF row > lastrow
        THEN Dummy(IdealBlock(cinfo, comp.index, lastrow, Least(right, lastcol)))
        ELSE IF col > lastcol
        THEN Dummy(IdealBlock(cinfo, comp.index, row, lastcol))
        ELSE IdealBlock(cinfo, comp.index, row, col)

IdealMCU(cinfo, scan, n) ==
    [k \in 1..Len(Places(scan)) |-> IdealMCUBlock(cinfo, scan, n, Places(scan)[k])]

NumMCUs(scan) == scan.MCUs_per_row * scan.MCU_rows_in_scan
=============================================================================
