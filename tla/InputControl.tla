---------------------------- MODULE InputControl ----------------------------
(***************************************************************************)
(* The input controller (jdinput.c) on top of the marker reader.  At the   *)
(* first scan header it works out the sizes of the components; whenever a  *)
(* scan starts, it works out the shape of its MCUs and saves the           *)
(* quantization tables of components not seen before.  For the first scan  *)
(* this is done when the application starts the decompression or the       *)
(* transcoding, for the others by the step that reads the scan header.     *)
(***************************************************************************)
EXTENDS MarkerReader, OutputSetup

CONSTANTS Requests,             \* what applications ask of a decompression
          BITS_IN_JSAMPLE,      \* 8 in the code
          JPEG_MAX_DIMENSION,   \* 65500 in the code
          MAX_COMPONENTS,       \* 10 in the code
          MAX_SAMP_FACTOR,      \* 4 in the code
          D_MAX_BLOCKS_IN_MCU   \* 10 in the code

ASSUME Factors == MAX_SAMP_FACTOR \in Nat \ {0}

VARIABLE input      \* inheaders, has_multiple_scans, eoi_reached, the sizes of the
                    \* components, the scan started last, the saved tables, what is set up
                    \* for output, and error, what was raised; tables is history

inputVars == << vars, input >>

NoScan == [blocks |-> << >>, comps |-> << >>, MCUs_per_row |-> 0, MCU_rows |-> 0]

NoOutput == [p |-> << >>]

jinit_input_controller ==
    [inheaders |-> TRUE, has_multiple_scans |-> FALSE, eoi_reached |-> FALSE, error |-> "none",
     size |-> << >>, total_iMCU_rows |-> 0, scan |-> NoScan, saved |-> << >>,
     output |-> NoOutput, tables |-> cinfo.quant]

----------------------------------------------------------------------------
(* initial_setup, for the object c with the first scan header.             *)

SetupError(c) ==
    IF c.height > JPEG_MAX_DIMENSION \/ c.width > JPEG_MAX_DIMENSION THEN "IMAGE_TOO_BIG"
    ELSE IF c.precision # BITS_IN_JSAMPLE THEN "BAD_PRECISION"
    ELSE IF c.num_components > MAX_COMPONENTS THEN "COMPONENT_COUNT"
    ELSE IF \E i \in DOMAIN c.comps : {c.comps[i].h, c.comps[i].v} \ (1..MAX_SAMP_FACTOR) # {}
    THEN "BAD_SAMPLING"
    ELSE "none"

ComponentSize(c, i) ==
    [width_in_blocks |-> jdiv_round_up(c.width * c.comps[i].h, max_h_samp_factor(c) * DCTSIZE),
     height_in_blocks |-> jdiv_round_up(c.height * c.comps[i].v, max_v_samp_factor(c) * DCTSIZE),
     downsampled_width |-> jdiv_round_up(c.width * c.comps[i].h, max_h_samp_factor(c)),
     downsampled_height |-> jdiv_round_up(c.height * c.comps[i].v, max_v_samp_factor(c))]

initial_setup(c) ==
    IF SetupError(c) # "none" THEN [input EXCEPT !.error = SetupError(c)]
    ELSE [input EXCEPT
            !.inheaders = FALSE,
            !.size = [i \in DOMAIN c.comps |-> ComponentSize(c, i)],
            !.saved = [i \in DOMAIN c.comps |-> NoTable],
            !.total_iMCU_rows = jdiv_round_up(c.height, max_v_samp_factor(c) * DCTSIZE),
            !.has_multiple_scans = c.scan.comps_in_scan < c.num_components \/ c.progressive]

----------------------------------------------------------------------------
(* per_scan_setup, for the components of the scan.                         *)

ScanComps(c) == [k \in 1..c.scan.comps_in_scan |-> c.scan.cur_comp_info[k]]

\* What is left of n in the last of several groups of size.
LastOf(n, size) == IF n % size = 0 THEN size ELSE n % size

Alone(c, in) ==
    [blocks |-> << 1 >>,
     MCUs_per_row |-> in.size[ScanComps(c)[1]].width_in_blocks,
     MCU_rows |-> in.size[ScanComps(c)[1]].height_in_blocks,
     comps |-> << [MCU_width |-> 1, MCU_height |-> 1, last_col_width |-> 1,
                   last_row_height |-> LastOf(in.size[ScanComps(c)[1]].height_in_blocks,
                                              c.comps[ScanComps(c)[1]].v)] >>]

\* Mutant of LastColumn: a full last column has no blocks.
PlainRemainder(n, width) == n % width
LastColumn(n, width) == LastOf(n, width)

MCUBlocks(c, i) == c.comps[i].h * c.comps[i].v
Membership(c) ==
    FlattenSeq([k \in DOMAIN ScanComps(c) |-> [b \in 1..MCUBlocks(c, ScanComps(c)[k]) |-> k]])

Interleaved(c, in) ==
    [blocks |-> Membership(c),
     MCUs_per_row |-> jdiv_round_up(c.width, max_h_samp_factor(c) * DCTSIZE),
     MCU_rows |-> jdiv_round_up(c.height, max_v_samp_factor(c) * DCTSIZE),
     comps |-> [k \in DOMAIN ScanComps(c) |->
        [MCU_width |-> c.comps[ScanComps(c)[k]].h, MCU_height |-> c.comps[ScanComps(c)[k]].v,
         last_col_width |-> LastColumn(in.size[ScanComps(c)[k]].width_in_blocks,
                                       c.comps[ScanComps(c)[k]].h),
         last_row_height |-> LastOf(in.size[ScanComps(c)[k]].height_in_blocks,
                                    c.comps[ScanComps(c)[k]].v)]]]

BadMCUSize(c) == Len(ScanComps(c)) > 1 /\ Len(Membership(c)) > D_MAX_BLOCKS_IN_MCU
per_scan_setup(c, in) == IF Len(ScanComps(c)) = 1 THEN Alone(c, in) ELSE Interleaved(c, in)

----------------------------------------------------------------------------
(* latch_quant_tables: "we copy the table at the start of the first scan   *)
(* containing the component".                                              *)

\* Mutant of Unsaved: the table is taken again for every scan.
Always(saved, i) == TRUE
Unsaved(saved, i) == saved[i] = NoTable

\* Components of the scan in need of a table; the loop ends at the first without one.
Needy(c, in) == {k \in DOMAIN ScanComps(c) : Unsaved(in.saved, ScanComps(c)[k])}
Present(c, i) == c.comps[i].q \in TableSlots /\ c.quant[c.comps[i].q] # NoTable
Missing(c, in) == {k \in Needy(c, in) : ~Present(c, ScanComps(c)[k])}

latch_quant_tables(c, in) ==
    [i \in DOMAIN in.saved |->
        IF \E k \in Needy(c, in) : ScanComps(c)[k] = i /\ \A j \in Missing(c, in) : k < j
        THEN c.quant[c.comps[i].q] ELSE in.saved[i]]

start_input_pass(c, in) ==
    IF BadMCUSize(c) THEN [in EXCEPT !.error = "BAD_MCU_SIZE"]
    ELSE [in EXCEPT !.scan = per_scan_setup(c, in),
                    !.saved = latch_quant_tables(c, in),
                    !.error = IF Missing(c, in) # {} THEN "NO_QUANT_TABLE" ELSE @]

----------------------------------------------------------------------------
(* consume_markers and its callers.                                        *)

InputInit == Init /\ input = jinit_input_controller

Working == input.error = "none"

FirstScan(c) == input' = initial_setup(c)
LaterScan(c) ==
    input' = IF input.has_multiple_scans THEN start_input_pass(c, input)
             ELSE [input EXCEPT !.error = "EOI_EXPECTED"]
ReachEOI ==
    input' = [input EXCEPT
                !.eoi_reached = TRUE,
                !.error = IF input.inheaders /\ marker'.saw_SOF THEN "SOF_NO_SOS" ELSE @]

consume_markers ==
    /\ Working /\ ~input.eoi_reached /\ index = NoIndex
    /\ read_markers
    /\ CASE ret' = "SOS" /\ input.inheaders  -> FirstScan(cinfo')
         [] ret' = "SOS" /\ ~input.inheaders -> LaterScan(cinfo')
         [] ret' = "EOI" -> ReachEOI
         [] ret' \notin {"SOS", "EOI"} -> UNCHANGED input

\* get_sos_marker_position calls read_markers itself.
IndexMarkers == Working /\ index # NoIndex /\ read_markers /\ UNCHANGED input

Started == Working /\ input.scan # NoScan
CanStart == Working /\ ret = "SOS" /\ input.scan = NoScan
StartFirstPass ==
    /\ CanStart
    /\ input' = start_input_pass(cinfo, input)
    /\ UNCHANGED vars

\* jpeg_start_decompress, of files with one scan that have all arrived, a bound: what
\* it sets up for output is not touched again.
OutputFor(c, p, out) ==
    [p |-> p, out |-> out, merged |-> use_merged_upsample(c, p, out), how |-> Upsampling(c, p, out)]
master_selection(c, p, out) ==
    IF SelectionError(c, p, out) # "none"
    THEN [input EXCEPT !.error = SelectionError(c, p, out), !.output = [p |-> p]]
    ELSE start_input_pass(c, [input EXCEPT !.output = OutputFor(c, p, out)])

jpeg_start_decompress(p) ==
    /\ CanStart /\ src.avail = Len(data) /\ ~input.has_multiple_scans
    /\ \E out \in {jpeg_calc_output_dimensions(cinfo, p)} : input' = master_selection(cinfo, p, out)
    /\ UNCHANGED vars

\* The data of a scan is touched after its start only.
ScanStep ==
    /\ Started
    /\ DecodeBytes \/ MeetMarker \/ finish_input_pass \/ get_sos_marker_position
    /\ UNCHANGED input

\* An application chooses before it starts the decompression, a bound.
SaveMarkers ==
    /\ Working /\ input.scan = NoScan
    /\ \E m \in MiscMarkers, n \in Limits : jpeg_save_markers(m, n)
    /\ UNCHANGED input

Deliver == Working /\ fill_input_buffer /\ UNCHANGED input

\* jpeg_abort: the saved tables go with the image pool.
reset_input_controller ==
    /\ ret \in {"EOI", "ERROR", "SUSPENDED"} \/ ~Working
    /\ reset_marker_reader
    /\ input' = jinit_input_controller

InputNext ==
    \/ Deliver
    \/ consume_markers
    \/ IndexMarkers
    \/ StartFirstPass
    \/ \E p \in Requests : jpeg_start_decompress(p)
    \/ ScanStep
    \/ SaveMarkers
    \/ reset_input_controller

\* The source delivers and the application calls again, with the data of scans
\* taken or not.
Fairness ==
    /\ WF_inputVars(Deliver)
    /\ WF_inputVars(consume_markers)
    /\ WF_inputVars(IndexMarkers)
    /\ WF_inputVars(StartFirstPass)
    /\ WF_inputVars(Started /\ finish_input_pass /\ UNCHANGED input)
    /\ WF_inputVars(Started /\ get_sos_marker_position /\ UNCHANGED input)

InputSpec == InputInit /\ [][InputNext]_inputVars /\ Fairness

----------------------------------------------------------------------------
(* Properties.                                                             *)

\* The scan started last covers every block of its components once and no block
\* outside of them: MCUs times their width, less what the last column lacks, is
\* the width in blocks, and the iMCU rows likewise; and the blocks of a component
\* cover its samples and no more than that (per_scan_setup against initial_setup).
Covers(blocks, samples) == (blocks - 1) * DCTSIZE < samples /\ samples <= blocks * DCTSIZE
RowsOf(k) == IF Len(ScanComps(cinfo)) = 1 THEN input.total_iMCU_rows ELSE input.scan.MCU_rows
GeometryCovers ==
    Started /\ ret = "SOS" /\ index = NoIndex =>
        \A k \in DOMAIN ScanComps(cinfo) :
            \E comp \in {input.scan.comps[k]}, size \in {input.size[ScanComps(cinfo)[k]]} :
                /\ comp.last_col_width \in 1..comp.MCU_width
                /\ (input.scan.MCUs_per_row - 1) * comp.MCU_width + comp.last_col_width
                        = size.width_in_blocks
                /\ (RowsOf(k) - 1) * cinfo.comps[ScanComps(cinfo)[k]].v + comp.last_row_height
                        = size.height_in_blocks
                /\ Covers(size.width_in_blocks, size.downsampled_width)
                /\ Covers(size.height_in_blocks, size.downsampled_height)

\* The table saved for a component is the one its slot held at the header of the
\* first scan with that component, although the slot may have been redefined since
\* and the header was read in pieces; no other component has one; and a file is
\* refused for want of a table only if the slot never got one.
SlotAt(n, q) ==
    FoldLeft(LAMBDA t, i : IF segs[i].t = "DQT" THEN QuantTables(t, segs[i].tbls) ELSE t,
             input.tables, [i \in 1..n - 1 |-> i])[q]
HeadersOf(i) ==
    {n \in 1..Count(src.pos) :
        segs[n].t = "SOS" /\ \E s \in 1..Len(segs[n].comps) : segs[n].comps[s].id = cinfo.comps[i].id}
TableAtFirstScan(i) ==
    IF HeadersOf(i) = {} \/ cinfo.comps[i].q \notin TableSlots THEN NoTable
    ELSE SlotAt(Min(HeadersOf(i)), cinfo.comps[i].q)

LatchedTables ==
    /\ Started /\ index = NoIndex /\ Between =>
        \A i \in DOMAIN cinfo.comps : input.saved[i] = TableAtFirstScan(i)
    /\ input.error = "NO_QUANT_TABLE" =>
        \E k \in DOMAIN ScanComps(cinfo) : TableAtFirstScan(ScanComps(cinfo)[k]) = NoTable

\* Every component of a decompression that has started can be upsampled from its
\* samples into the buffers set up for it, at every scale (jinit_upsampler against
\* jpeg_calc_output_dimensions), and merged upsampling is chosen only for the ratios
\* jdmerge.c knows.
OutputFits ==
    input.output # NoOutput /\ Working =>
        /\ \A i \in DOMAIN cinfo.comps :
            input.output.how[i].needed => Fits(cinfo, input.output.p, input.output.out, i)
        /\ input.output.merged =>
            \A i \in 1..3 : h_expand(cinfo, input.output.out, i) = IF i = 1 THEN 1 ELSE 2

\* A source that can hold the largest marker that is not saved delivers every file
\* to its end or to what is refused in it, markers larger than the source can hold
\* included (read_markers and save_marker, called again by consume_markers).
EveryFileIsReadOut == []<>(ret \in {"EOI", "ERROR"} \/ ~Working)
=============================================================================
