----------------------------- MODULE Decompress -----------------------------
(***************************************************************************)
(* One JPEG decompression object as its application drives it: the API     *)
(* state machine (jdapimin.c, jdapistd.c, jcomapi.c, jdtrans.c), the input *)
(* controller (jdinput.c), the marker reader at the granularity of one     *)
(* marker (jdmarker.c), the coefficient controller (jdcoefct.c) and master *)
(* control with its dummy passes (jdmaster.c).                             *)
(*                                                                         *)
(* The library is single threaded: an API call runs to its return.  What   *)
(* interleaves with it is the data source, which may run dry inside any    *)
(* loop of any call (suspension), and the application, which may make any  *)
(* legal call next, give up and abort.  One step of a loop of the library  *)
(* is one action; "call" says which API function is on the stack.          *)
(***************************************************************************)
EXTENDS Integers, Sequences, FiniteSets

CONSTANTS
    Files,            \* the datastreams a source may deliver
    Modes,            \* the decompression parameters an application may set
    total_iMCU_rows,  \* rows of interleaved MCUs in the image
    MCUs_per_row,     \* MCUs in one MCU row
    v_samp_factor,    \* MCU rows of an iMCU row in a noninterleaved scan ...
    last_row_height,  \* ... and in its last iMCU row
    MaxTarget,        \* bound on the scan number given to jpeg_start_output
    SourceBuffer      \* bound on the units held by the source's buffer

(* A datastream is a sequence of units: one marker segment that the model  *)
(* tells apart, or the compressed data of one MCU.                         *)
SOF(n, prog) == [m |-> "sof", comps |-> n, prog |-> prog, Ss |-> 0]
SOS(n, ss)   == [m |-> "sos", comps |-> n, prog |-> FALSE, Ss |-> ss]
MCU          == [m |-> "mcu", comps |-> 0, prog |-> FALSE, Ss |-> 0]
EOI          == [m |-> "eoi", comps |-> 0, prog |-> FALSE, Ss |-> 0]

Unit == [m : {"sof", "sos", "mcu", "eoi"}, comps : Nat,
         prog : BOOLEAN, Ss : Nat]

Quantizers == {"1pass", "2pass"}

Mode == [buffered : BOOLEAN, raw : BOOLEAN, quantize : BOOLEAN,
         two_pass : BOOLEAN, enable : SUBSET Quantizers]

ASSUME ConstantsAssumption ==
    /\ total_iMCU_rows \in Nat \ {0}
    /\ MCUs_per_row \in Nat \ {0}
    /\ v_samp_factor \in Nat \ {0}
    /\ last_row_height \in 1..v_samp_factor
    /\ MaxTarget \in Nat
    /\ SourceBuffer \in Nat \ {0}
    /\ Modes \subseteq Mode

(* The source appends an EOI when its file ends without one, so that every *)
(* datastream ends with an EOI.                                            *)
ASSUME FilesAssumption ==
    \A f \in Files : f \in Seq(Unit) /\ f # << >> /\ f[Len(f)] = EOI

Rows == 0 .. total_iMCU_rows - 1

NoFile == << >>

VARIABLES
    global_state,        \* cinfo->global_state
    call,                \* the API call in progress, "none", or "error"
                         \* when error_exit has left the library
    mode,                \* buffered_image, raw_data_out, quantization
    colormap,            \* cinfo->colormap # NULL
    file, rd, wr,        \* the datastream, units consumed, units arrived
    saw_SOF,             \* marker->saw_SOF
    num_components,
    progressive_mode,
    input_scan_number,
    comps_in_scan,
    Ss,
    consume_input,       \* inputctl->consume_input, a method pointer
    has_multiple_scans,
    eoi_reached,
    inheaders,
    input_iMCU_row,
    MCU_vert_offset,
    MCU_ctr,
    whole_image,         \* per iMCU row, the last scan stored in the
                         \* coefficient arrays
    decompress_data,     \* coef->decompress_data, a method pointer
    output_scan_number,
    output_iMCU_row,
    output_scanline,     \* in units of iMCU rows
    is_dummy_pass,       \* master->is_dummy_pass
    post_mode,           \* the buffer mode of the current output pass
    saved,               \* post->whole_image, filled by a dummy pass
    image,               \* the rows given to the application in this pass
    pass_target          \* least scan number asked for in this pass (ghost)

api    == <<global_state, call>>
params == <<mode, colormap>>
marker == <<saw_SOF, num_components, progressive_mode, input_scan_number,
            comps_in_scan, Ss>>
inctl  == <<consume_input, has_multiple_scans, eoi_reached, inheaders>>
coef   == <<input_iMCU_row, MCU_vert_offset, MCU_ctr, whole_image>>
master == <<decompress_data, is_dummy_pass, post_mode>>
pass   == <<output_iMCU_row, output_scanline, saved, image>>

(* Everything a consume_input method may change.                           *)
input  == <<rd, marker, inctl, coef, output_scan_number>>

vars == <<api, params, file, wr, input, master, pass, pass_target>>

Least(a, b) == IF a <= b THEN a ELSE b

(* One row of the picture: the scan whose data it shows and the scan the   *)
(* row below had reached when block smoothing looked at it.                *)
Row == [scan : Nat, next : Nat]
NoRow == [scan |-> 0, next |-> 0]
Blank == [r \in Rows |-> NoRow]

DefaultMode == [buffered |-> FALSE, raw |-> FALSE, quantize |-> FALSE,
                two_pass |-> TRUE, enable |-> {}]

TypeOK ==
    /\ global_state \in {"START", "INHEADER", "READY", "PRELOAD", "PRESCAN",
                         "SCANNING", "RAW_OK", "BUFIMAGE", "BUFPOST",
                         "RDCOEFS", "STOPPING"}
    /\ call \in {"none", "error", "read_header", "consume_input",
                 "start_decompress", "output_pass_setup", "read",
                 "finish_output", "read_coefficients", "finish_decompress"}
    /\ mode \in Mode
    /\ colormap \in BOOLEAN
    /\ file \in Files \cup {NoFile}
    /\ rd \in Nat /\ wr \in Nat /\ rd <= wr /\ wr <= Len(file)
    /\ saw_SOF \in BOOLEAN
    /\ num_components \in Nat
    /\ progressive_mode \in BOOLEAN
    /\ input_scan_number \in Nat
    /\ comps_in_scan \in Nat
    /\ Ss \in Nat
    /\ consume_input \in {"consume_markers", "consume_data",
                          "dummy_consume_data"}
    /\ has_multiple_scans \in BOOLEAN
    /\ eoi_reached \in BOOLEAN
    /\ inheaders \in BOOLEAN
    /\ input_iMCU_row \in 0 .. total_iMCU_rows
    /\ MCU_vert_offset \in Nat
    /\ MCU_ctr \in Nat
    /\ whole_image \in [Rows -> Nat]
    /\ decompress_data \in {"none", "decompress_onepass", "decompress_data",
                            "decompress_smooth_data"}
    /\ output_scan_number \in Nat
    /\ output_iMCU_row \in Nat
    /\ output_scanline \in 0 .. total_iMCU_rows
    /\ is_dummy_pass \in BOOLEAN
    /\ post_mode \in {"none", "PASS_THRU", "SAVE_AND_PASS", "CRANK_DEST"}
    /\ saved \in [Rows -> Row]
    /\ image \in [Rows -> Row]
    /\ pass_target \in Nat

(* jpeg_CreateDecompress, with jinit_marker_reader and                     *)
(* jinit_input_controller.                                                 *)
Init ==
    /\ global_state = "START" /\ call = "none"
    /\ mode = DefaultMode /\ colormap = FALSE
    /\ file = NoFile /\ rd = 0 /\ wr = 0
    /\ saw_SOF = FALSE /\ num_components = 0 /\ progressive_mode = FALSE
    /\ input_scan_number = 0 /\ comps_in_scan = 0 /\ Ss = 0
    /\ consume_input = "consume_markers"
    /\ has_multiple_scans = FALSE /\ eoi_reached = FALSE /\ inheaders = TRUE
    /\ input_iMCU_row = 0 /\ MCU_vert_offset = 0 /\ MCU_ctr = 0
    /\ whole_image = [r \in Rows |-> 0]
    /\ decompress_data = "none"
    /\ output_scan_number = 0 /\ output_iMCU_row = 0 /\ output_scanline = 0
    /\ is_dummy_pass = FALSE /\ post_mode = "none"
    /\ saved = Blank /\ image = Blank /\ pass_target = 0
-----------------------------------------------------------------------------
(* The input side: the methods consume_input may point at.  Each is an     *)
(* action with the return code r; "MORE" is the loop inside the method     *)
(* going round again, "ERROR" an ERREXIT.                                  *)

HaveData == rd < wr
NextUnit == file[rd + 1]

(* start_input_pass of jdinput.c with start_input_pass of jdcoefct.c.      *)
StartInputPass(method) ==
    /\ input_iMCU_row' = 0 /\ MCU_vert_offset' = 0 /\ MCU_ctr' = 0
    /\ consume_input' = method

(* The source ran dry.  get_sos stores comps_in_scan and Ss as it parses,  *)
(* before it finds out that the rest of the segment is missing.            *)
SuspendInMarkers ==
    /\ ~ HaveData
    /\ \/ UNCHANGED <<comps_in_scan, Ss>>
       \/ /\ rd < Len(file) /\ NextUnit.m = "sos" /\ saw_SOF
          /\ comps_in_scan' = NextUnit.comps
          /\ Ss' \in {Ss, NextUnit.Ss}
    /\ UNCHANGED <<rd, saw_SOF, num_components, progressive_mode,
                   input_scan_number, inctl, coef, output_scan_number>>

(* get_sof: a second SOF is an error.                                      *)
GetSOF(r) ==
    /\ HaveData /\ NextUnit.m = "sof"
    /\ rd' = rd + 1
    /\ IF saw_SOF
       THEN r = "ERROR" /\ UNCHANGED <<saw_SOF, num_components,
                                       progressive_mode>>
       ELSE /\ r = "MORE" /\ saw_SOF' = TRUE
            /\ num_components' = NextUnit.comps
            /\ progressive_mode' = NextUnit.prog
    /\ UNCHANGED <<input_scan_number, comps_in_scan, Ss, inctl, coef,
                   output_scan_number>>

(* next_marker skips whatever is not a marker.                             *)
SkipGarbage ==
    /\ HaveData /\ NextUnit.m = "mcu"
    /\ rd' = rd + 1
    /\ UNCHANGED <<marker, inctl, coef, output_scan_number>>

(* get_sos and what consume_markers does on it: initial_setup for the      *)
(* first SOS, start_input_pass for a later one.                            *)
GetSOS(r) ==
    /\ HaveData /\ NextUnit.m = "sos"
    /\ rd' = rd + 1
    /\ IF ~ saw_SOF
       THEN r = "ERROR" /\ UNCHANGED <<input_scan_number, comps_in_scan, Ss,
                                       inctl, coef>>
       ELSE /\ input_scan_number' = input_scan_number + 1
            /\ comps_in_scan' = NextUnit.comps
            /\ Ss' = NextUnit.Ss
            /\ \/ /\ inheaders /\ r = "SOS"
                  /\ inheaders' = FALSE
                  /\ has_multiple_scans' = \/ NextUnit.comps < num_components
                                           \/ progressive_mode
                  /\ UNCHANGED <<consume_input, eoi_reached, coef>>
               \/ /\ ~ inheaders /\ ~ has_multiple_scans /\ r = "ERROR"
                  /\ UNCHANGED <<inctl, coef>>
               \/ /\ ~ inheaders /\ has_multiple_scans /\ r = "SOS"
                  /\ StartInputPass("consume_data")
                  /\ UNCHANGED <<has_multiple_scans, eoi_reached, inheaders,
                                 whole_image>>
    /\ UNCHANGED <<saw_SOF, num_components, progressive_mode,
                   output_scan_number>>

(* EOI: the clamp keeps decompress_data from waiting for a scan that will  *)
(* never come.                                                             *)
UnclampedTarget == output_scan_number          \* mutant: the clamp forgotten
ClampedTarget == Least(output_scan_number, input_scan_number)

(* Mutant: eoi_reached is not recorded.                                    *)
GetEOIUnnoticed(r) ==
    /\ HaveData /\ NextUnit.m = "eoi"
    /\ rd' = rd + 1
    /\ r = IF inheaders /\ saw_SOF THEN "ERROR" ELSE "EOI"
    /\ output_scan_number' = IF inheaders THEN output_scan_number
                                          ELSE ClampedTarget
    /\ UNCHANGED <<marker, inctl, coef>>

GetEOI(r) ==
    /\ HaveData /\ NextUnit.m = "eoi"
    /\ rd' = rd + 1
    /\ eoi_reached' = TRUE
    /\ r = IF inheaders /\ saw_SOF THEN "ERROR" ELSE "EOI"
    /\ output_scan_number' = IF inheaders THEN output_scan_number
                                          ELSE ClampedTarget
    /\ UNCHANGED <<marker, consume_input, has_multiple_scans, inheaders,
                   coef>>

ConsumeMarkers(r) ==
    \/ eoi_reached /\ r = "EOI" /\ UNCHANGED input
    \/ ~ eoi_reached /\ r = "SUSPENDED" /\ SuspendInMarkers
    \/ ~ eoi_reached /\ r = "MORE" /\ SkipGarbage
    \/ ~ eoi_reached /\ GetSOF(r)
    \/ ~ eoi_reached /\ GetSOS(r)
    \/ ~ eoi_reached /\ GetEOI(r)

(* start_iMCU_row: MCU rows making up the current iMCU row.                *)
FullHeightRows ==                      \* mutant: no last_row_height
    IF comps_in_scan > 1 THEN 1 ELSE v_samp_factor

MCU_rows_per_iMCU_row ==
    IF comps_in_scan > 1 THEN 1
    ELSE IF input_iMCU_row < total_iMCU_rows - 1 THEN v_samp_factor
    ELSE last_row_height

OverrunIMCURow == input_iMCU_row + 1 > total_iMCU_rows  \* mutant: one too far
LastIMCURow == input_iMCU_row + 1 >= total_iMCU_rows

(* The MCU loop shared by consume_data and decompress_onepass.  At a       *)
(* marker decode_mcu takes no data and makes up a zero MCU.                *)
DecodeRow(r) ==
    \/ /\ ~ HaveData /\ r = "SUSPENDED"
       /\ UNCHANGED <<rd, MCU_ctr, MCU_vert_offset, input_iMCU_row,
                      consume_input>>
    \/ /\ HaveData
       /\ rd' = IF NextUnit.m = "mcu" THEN rd + 1 ELSE rd
       /\ \/ /\ MCU_ctr + 1 < MCUs_per_row /\ r = "MORE"
             /\ MCU_ctr' = MCU_ctr + 1
             /\ UNCHANGED <<MCU_vert_offset, input_iMCU_row, consume_input>>
          \/ /\ MCU_ctr + 1 >= MCUs_per_row
             /\ MCU_vert_offset + 1 < MCU_rows_per_iMCU_row /\ r = "MORE"
             /\ MCU_ctr' = 0 /\ MCU_vert_offset' = MCU_vert_offset + 1
             /\ UNCHANGED <<input_iMCU_row, consume_input>>
          \/ /\ MCU_ctr + 1 >= MCUs_per_row
             /\ MCU_vert_offset + 1 >= MCU_rows_per_iMCU_row
             /\ MCU_ctr' = 0 /\ input_iMCU_row' = input_iMCU_row + 1
             /\ IF LastIMCURow
                THEN /\ r = "SCAN" /\ consume_input' = "consume_markers"
                     /\ UNCHANGED MCU_vert_offset
                ELSE /\ r = "ROW" /\ MCU_vert_offset' = 0
                     /\ UNCHANGED consume_input

RowDone(r) == r \in {"ROW", "SCAN"}

ConsumeData(r) ==
    /\ DecodeRow(r)
    /\ whole_image' = IF RowDone(r)
                      THEN [whole_image EXCEPT ![input_iMCU_row] =
                                                    input_scan_number]
                      ELSE whole_image
    /\ UNCHANGED <<marker, has_multiple_scans, eoi_reached, inheaders,
                   output_scan_number>>

ConsumeInput(r) ==
    \/ consume_input = "consume_markers" /\ ConsumeMarkers(r)
    \/ consume_input = "consume_data" /\ ConsumeData(r)
    \/ /\ consume_input = "dummy_consume_data"
       /\ r = "SUSPENDED" /\ UNCHANGED input

Returns == {"SUSPENDED", "MORE", "SOS", "EOI", "ROW", "SCAN", "ERROR"}
-----------------------------------------------------------------------------
(* The output side.                                                        *)

NextCall(r) == CASE r = "SUSPENDED" -> "none"
                 [] r = "ERROR"     -> "error"
                 [] OTHER           -> call

Full == decompress_data \in {"decompress_data", "decompress_smooth_data"}

(* prepare_for_output_pass, with start_output_pass of jdcoefct.c.  md and  *)
(* cm are the parameters and colormap the application has left in cinfo;   *)
(* smooth says whether it wants smoothing and smoothing_ok agrees.         *)
SelectsTwoPass(md, cm) == /\ md.quantize /\ ~ cm
                          /\ md.two_pass /\ "2pass" \in md.enable
SelectsOnePass(md, cm) == /\ md.quantize /\ ~ cm
                          /\ ~ SelectsTwoPass(md, cm) /\ "1pass" \in md.enable
KeepsColormap(md, cm)  == ~ md.quantize \/ cm

(* Mutant: the row counter keeps the value of the pass before.             *)
StartOutputPassNoReset(smooth) ==
    /\ smooth => progressive_mode
    /\ decompress_data' = IF ~ Full THEN decompress_data
                          ELSE IF smooth THEN "decompress_smooth_data"
                          ELSE "decompress_data"
    /\ UNCHANGED output_iMCU_row

StartOutputPass(smooth) ==
    /\ output_iMCU_row' = 0
    /\ smooth => progressive_mode
    /\ decompress_data' = IF ~ Full THEN decompress_data
                          ELSE IF smooth THEN "decompress_smooth_data"
                          ELSE "decompress_data"

PrepareForOutputPass(smooth, md, cm) ==
    \/ /\ is_dummy_pass
       /\ is_dummy_pass' = FALSE /\ post_mode' = "CRANK_DEST"
       /\ colormap' = cm
       /\ UNCHANGED <<decompress_data, output_iMCU_row>>
    \/ /\ ~ is_dummy_pass
       /\ \/ SelectsTwoPass(md, cm)
          \/ SelectsOnePass(md, cm)
          \/ KeepsColormap(md, cm)
       /\ is_dummy_pass' = SelectsTwoPass(md, cm)
       /\ colormap' = (cm \/ SelectsOnePass(md, cm))
       /\ post_mode' = IF SelectsTwoPass(md, cm) THEN "SAVE_AND_PASS"
                                                 ELSE "PASS_THRU"
       /\ StartOutputPass(smooth)

(* First part of output_pass_setup.                                        *)
SetUpPass(smooth, md, cm) ==
    /\ PrepareForOutputPass(smooth, md, cm)
    /\ output_scanline' = 0 /\ image' = Blank /\ UNCHANGED saved
    /\ global_state' = "PRESCAN" /\ call' = "output_pass_setup"

(* One iMCU row leaves the coefficient controller for the postprocessor.   *)
Deliver(row) ==
    /\ IF post_mode = "SAVE_AND_PASS"
       THEN /\ saved' = [saved EXCEPT ![output_scanline] = row]
            /\ UNCHANGED image
       ELSE /\ image' = [image EXCEPT ![output_scanline] = row]
            /\ UNCHANGED saved
    /\ output_scanline' = output_scanline + 1
    /\ call' = IF call = "read" THEN "none" ELSE call

(* A call that wants rows decoded: read_scanlines or read_raw_data in a    *)
(* real pass, output_pass_setup in a dummy one.                            *)
Decoding ==
    \/ call = "read" /\ post_mode # "CRANK_DEST"
    \/ /\ call = "output_pass_setup" /\ is_dummy_pass
       /\ output_scanline < total_iMCU_rows

outputFrame == <<global_state, params, file, wr, master, pass_target>>

DecompressOnepass ==
    /\ Decoding /\ decompress_data = "decompress_onepass"
    /\ \E r \in Returns :
          /\ DecodeRow(r)
          /\ IF RowDone(r)
             THEN /\ Deliver([scan |-> input_scan_number,
                              next |-> input_scan_number])
                  /\ output_iMCU_row' = output_iMCU_row + 1
             ELSE UNCHANGED pass /\ call' = NextCall(r)
    /\ UNCHANGED <<outputFrame, marker, has_multiple_scans, eoi_reached,
                   inheaders, whole_image, output_scan_number>>

(* The loops that force input while output would get ahead of it.          *)
InputBehindLate ==                                \* mutant: < for <=
    \/ input_scan_number < output_scan_number
    \/ /\ input_scan_number = output_scan_number
       /\ input_iMCU_row < output_iMCU_row

InputBehind ==
    \/ input_scan_number < output_scan_number
    \/ /\ input_scan_number = output_scan_number
       /\ input_iMCU_row <= output_iMCU_row

NoLead == 0                                       \* mutant: no row of lead
DCLead == IF Ss = 0 THEN 1 ELSE 0

SmoothInputBehind ==
    /\ input_scan_number <= output_scan_number
    /\ ~ eoi_reached
    /\ ~ /\ input_scan_number = output_scan_number
         /\ input_iMCU_row > output_iMCU_row + DCLead

MustForceInput ==
    \/ decompress_data = "decompress_data" /\ InputBehind
    \/ decompress_data = "decompress_smooth_data" /\ SmoothInputBehind

ForceInput ==
    /\ Decoding /\ Full /\ MustForceInput
    /\ \E r \in Returns : ConsumeInput(r) /\ call' = NextCall(r)
    /\ UNCHANGED <<outputFrame, pass>>

(* The row after r, of which smoothing reads the DC values.                *)
RowBelow(r) == Least(r + 1, total_iMCU_rows - 1)

DecompressBuffered ==
    /\ Decoding /\ Full /\ ~ MustForceInput
    /\ Deliver([scan |-> whole_image[output_iMCU_row],
                next |-> whole_image[RowBelow(output_iMCU_row)]])
    /\ output_iMCU_row' = output_iMCU_row + 1
    /\ UNCHANGED <<outputFrame, input>>

(* Second pass of 2-pass quantization: post_process_2pass, no decoding.    *)
CrankRow ==
    /\ call = "read" /\ post_mode = "CRANK_DEST"
    /\ Deliver(saved[output_scanline])
    /\ UNCHANGED <<outputFrame, input, output_iMCU_row>>

(* output_pass_setup after the last row of a dummy pass: the quantizer     *)
(* chooses its colormap (finish_pass1) and the pass proper is prepared.    *)
FinishDummyPass ==
    /\ call = "output_pass_setup" /\ is_dummy_pass
    /\ output_scanline = total_iMCU_rows
    /\ PrepareForOutputPass(FALSE, mode, TRUE)
    /\ output_scanline' = 0
    /\ UNCHANGED <<api, mode, file, wr, input, saved, image, pass_target>>

FinishSetup ==
    /\ call = "output_pass_setup" /\ ~ is_dummy_pass
    /\ global_state' = IF mode.raw THEN "RAW_OK" ELSE "SCANNING"
    /\ call' = "none"
    /\ UNCHANGED <<params, file, wr, input, master, pass, pass_target>>
-----------------------------------------------------------------------------
(* The API.  Idle: no call is on the stack.                                *)

Idle == call = "none"
Enter(c) == Idle /\ call' = c

sourceFrame == <<file, wr>>
outputState == <<master, pass, pass_target>>

(* DSTATE_START: reset_input_controller, reset_marker_reader, init_source. *)
BeginDatastream ==
    /\ global_state = "START" /\ global_state' = "INHEADER"
    /\ \E f \in Files : file' = f
    /\ rd' = 0 /\ wr' = 0
    /\ consume_input' = "consume_markers" /\ has_multiple_scans' = FALSE
    /\ eoi_reached' = FALSE /\ inheaders' = TRUE
    /\ saw_SOF' = FALSE /\ input_scan_number' = 0
    /\ UNCHANGED <<num_components, progressive_mode, comps_in_scan, Ss, coef,
                   output_scan_number>>

ReadHeader ==
    /\ Enter("read_header")
    /\ \/ BeginDatastream
       \/ /\ global_state = "INHEADER"
          /\ UNCHANGED <<global_state, sourceFrame, input>>
    /\ UNCHANGED <<params, outputState>>

(* jpeg_consume_input; in READY it returns at once.  Its switch leaves out *)
(* DSTATE_RDCOEFS.                                                         *)
ConsumingReady == {"INHEADER", "READY", "PRELOAD", "PRESCAN", "SCANNING",
                   "RAW_OK", "BUFIMAGE", "BUFPOST", "STOPPING"}  \* mutant

Consuming == {"INHEADER", "PRELOAD", "PRESCAN", "SCANNING", "RAW_OK",
              "BUFIMAGE", "BUFPOST", "STOPPING"}

JpegConsumeInput ==
    /\ Idle
    /\ \/ BeginDatastream /\ call' = "consume_input"
       \/ /\ global_state \in Consuming /\ call' = "consume_input"
          /\ UNCHANGED <<global_state, sourceFrame, input>>
       \/ /\ global_state = "RDCOEFS" /\ call' = "error"
          /\ UNCHANGED <<global_state, sourceFrame, input>>
    /\ UNCHANGED <<params, outputState>>

(* Inside jpeg_consume_input, called directly or from jpeg_read_header.    *)
(* default_decompress_parms runs at the first SOS.                         *)
HeaderStep ==
    /\ call \in {"read_header", "consume_input"} /\ global_state = "INHEADER"
    /\ \E r \in Returns :
          /\ ConsumeInput(r)
          /\ \/ /\ r = "SOS"
                /\ global_state' = "READY" /\ call' = "none"
                /\ mode' = DefaultMode /\ colormap' = FALSE
             \/ /\ r = "EOI" /\ call = "consume_input" /\ call' = "none"
                /\ UNCHANGED <<global_state, params>>
             \/ /\ r = "EOI" /\ call = "read_header"
                /\ \/ call' = "error" /\ UNCHANGED global_state
                   \/ call' = "none" /\ global_state' = "START"
                /\ UNCHANGED params
             \/ /\ r \in {"MORE", "SUSPENDED", "ERROR"}
                /\ call' = NextCall(r)
                /\ UNCHANGED <<global_state, params>>
    /\ UNCHANGED <<sourceFrame, outputState>>

ConsumeStep ==
    /\ call = "consume_input" /\ global_state # "INHEADER"
    /\ \E r \in Returns :
          /\ ConsumeInput(r)
          /\ call' = IF r \in {"ROW", "SCAN", "SOS", "EOI"} THEN "none"
                                                            ELSE NextCall(r)
    /\ UNCHANGED <<global_state, params, sourceFrame, outputState>>

(* master_selection and transdecode_master_selection: the coefficient      *)
(* controller gets a full-image buffer or a single MCU.                    *)
SelectCoefController(full) ==
    /\ StartInputPass(IF full THEN "consume_data" ELSE "dummy_consume_data")
    /\ decompress_data' = IF full THEN "decompress_data"
                                  ELSE "decompress_onepass"
    /\ whole_image' = [r \in Rows |-> 0]
    /\ is_dummy_pass' = FALSE /\ post_mode' = "none"

(* The quantizers master_selection initializes.                            *)
EnabledQuantizers(m) ==
    IF ~ m.quantize THEN {}
    ELSE (IF m.buffered THEN m.enable ELSE {})
             \cup {IF m.two_pass THEN "2pass" ELSE "1pass"}

StartDecompress ==
    /\ Idle
    /\ \/ \E m \in Modes :
             /\ global_state = "READY"
             /\ mode' = [m EXCEPT !.enable = EnabledQuantizers(m)]
             /\ SelectCoefController(has_multiple_scans \/ m.buffered)
             /\ IF m.buffered
                THEN global_state' = "BUFIMAGE" /\ call' = "none"
                ELSE global_state' = "PRELOAD" /\ call' = "start_decompress"
       \/ /\ global_state \in {"PRELOAD", "PRESCAN"}
          /\ call' = IF global_state = "PRELOAD" THEN "start_decompress"
                                                 ELSE "output_pass_setup"
          /\ UNCHANGED <<global_state, mode, consume_input, coef, master>>
    /\ UNCHANGED <<colormap, sourceFrame, rd, marker, has_multiple_scans,
                   eoi_reached, inheaders, output_scan_number, pass,
                   pass_target>>

OneScanLoaded == has_multiple_scans =>            \* mutant: stops too early
                     input_iMCU_row = total_iMCU_rows
Preloaded == has_multiple_scans => eoi_reached

PreloadStep ==
    /\ call = "start_decompress" /\ ~ Preloaded
    /\ \E r \in Returns : ConsumeInput(r) /\ call' = NextCall(r)
    /\ UNCHANGED <<global_state, params, sourceFrame, outputState>>

PreloadDone ==
    /\ call = "start_decompress" /\ Preloaded
    /\ output_scan_number' = input_scan_number
    /\ pass_target' = input_scan_number
    /\ \E smooth \in BOOLEAN : SetUpPass(smooth, mode, colormap)
    /\ UNCHANGED <<mode, sourceFrame, rd, marker, inctl, coef>>

(* jpeg_read_scanlines and jpeg_read_raw_data; a call at the bottom of the *)
(* image only warns.                                                       *)
ReadRows ==
    /\ Enter("read")
    /\ global_state \in {"SCANNING", "RAW_OK"}
    /\ output_scanline < total_iMCU_rows
    /\ UNCHANGED <<global_state, params, sourceFrame, input, outputState>>

(* jpeg_start_output.  Before a new pass the application may change its    *)
(* mind on quantization and clear cinfo->colormap.  A call that resumes a  *)
(* suspended pass stores its scan number all the same.                     *)
FreeTarget(n) == IF n <= 0 THEN 1 ELSE n          \* mutant: no upper limit

LimitedTarget(n) ==
    LET low == IF n <= 0 THEN 1 ELSE n
    IN  IF eoi_reached THEN Least(low, input_scan_number) ELSE low

NewPass(target) ==
    \E smooth, two_pass, clear \in BOOLEAN :
        LET md == [mode EXCEPT !.two_pass = two_pass]
            cm == colormap /\ ~ clear
        IN  /\ global_state = "BUFIMAGE"
            /\ mode' = md /\ pass_target' = target
            /\ \/ SetUpPass(smooth, md, cm)
               \/ /\ ~ SelectsTwoPass(md, cm) /\ ~ SelectsOnePass(md, cm)
                  /\ ~ KeepsColormap(md, cm) /\ colormap' = cm
                  /\ call' = "error"
                  /\ UNCHANGED <<global_state, master, pass>>

StartOutput ==
    /\ Idle
    /\ \E n \in 0 .. MaxTarget :
          /\ output_scan_number' = LimitedTarget(n)
          /\ \/ NewPass(LimitedTarget(n))
             \/ /\ global_state = "PRESCAN" /\ call' = "output_pass_setup"
                /\ pass_target' = Least(pass_target, LimitedTarget(n))
                /\ UNCHANGED <<global_state, params, master, pass>>
    /\ UNCHANGED <<sourceFrame, rd, marker, inctl, coef>>

FinishOutput ==
    /\ Enter("finish_output")
    /\ \/ global_state \in {"SCANNING", "RAW_OK"} /\ mode.buffered
       \/ global_state = "BUFPOST"
    /\ global_state' = "BUFPOST"
    /\ UNCHANGED <<params, sourceFrame, input, outputState>>

AwaitsScan == input_scan_number <= output_scan_number    \* mutant: or EOI
AwaitsMarker == input_scan_number <= output_scan_number /\ ~ eoi_reached

FinishOutputStep ==
    /\ call = "finish_output"
    /\ IF AwaitsMarker
       THEN /\ \E r \in Returns : ConsumeInput(r) /\ call' = NextCall(r)
            /\ UNCHANGED global_state
       ELSE /\ global_state' = "BUFIMAGE" /\ call' = "none"
            /\ UNCHANGED input
    /\ UNCHANGED <<params, sourceFrame, outputState>>

(* jpeg_read_coefficients.                                                 *)
ReadCoefficients ==
    /\ Enter("read_coefficients")
    /\ \/ /\ global_state = "READY" /\ global_state' = "RDCOEFS"
          /\ mode' = [mode EXCEPT !.buffered = TRUE]
          /\ SelectCoefController(TRUE)
       \/ /\ global_state = "RDCOEFS"
          /\ UNCHANGED <<global_state, mode, consume_input, coef, master>>
    /\ UNCHANGED <<colormap, sourceFrame, rd, marker, has_multiple_scans,
                   eoi_reached, inheaders, output_scan_number, pass,
                   pass_target>>

ReadCoefficientsStep ==
    /\ call = "read_coefficients"
    /\ IF eoi_reached
       THEN /\ global_state' = "STOPPING" /\ call' = "none"
            /\ UNCHANGED input
       ELSE /\ \E r \in Returns : ConsumeInput(r) /\ call' = NextCall(r)
            /\ UNCHANGED global_state
    /\ UNCHANGED <<params, sourceFrame, outputState>>

(* jpeg_abort frees the JPOOL_IMAGE pool: the coefficient controller, the  *)
(* virtual arrays and master control are gone.                             *)
FreeImagePool ==
    /\ MCU_vert_offset' = 0 /\ MCU_ctr' = 0
    /\ whole_image' = [r \in Rows |-> 0]
    /\ decompress_data' = "none" /\ is_dummy_pass' = FALSE
    /\ post_mode' = "none" /\ saved' = Blank /\ image' = Blank
    /\ pass_target' = 0

JpegAbort ==
    /\ call \in {"none", "error"} /\ call' = "none"
    /\ global_state' = "START"
    /\ FreeImagePool
    /\ UNCHANGED <<params, sourceFrame, rd, marker, inctl, input_iMCU_row,
                   output_scan_number, output_iMCU_row, output_scanline>>

(* jpeg_finish_decompress as Android builds it: every scanline counts as   *)
(* read, and the loop that reads until EOI is compiled out.                *)
FinishDecompress ==
    /\ Enter("finish_decompress")
    /\ \/ /\ global_state \in {"SCANNING", "RAW_OK"} /\ ~ mode.buffered
          /\ output_scanline' = total_iMCU_rows
       \/ /\ global_state \in {"BUFIMAGE", "STOPPING"}
          /\ UNCHANGED output_scanline
    /\ global_state' = "STOPPING"
    /\ UNCHANGED <<params, sourceFrame, input, master, output_iMCU_row, saved,
                   image, pass_target>>

FinishDecompressStep ==
    /\ call = "finish_decompress" /\ call' = "none"
    /\ global_state' = "START"
    /\ FreeImagePool
    /\ UNCHANGED <<params, sourceFrame, rd, marker, inctl, input_iMCU_row,
                   output_scan_number, output_iMCU_row, output_scanline>>

(* The source receives one more unit (a whole marker segment or MCU).      *)
Arrive ==
    /\ wr < Len(file) /\ wr < rd + SourceBuffer
    /\ wr' = wr + 1
    /\ UNCHANGED <<api, params, file, input, outputState>>

Library ==
    \/ HeaderStep \/ ConsumeStep \/ PreloadStep \/ PreloadDone
    \/ DecompressOnepass \/ ForceInput \/ DecompressBuffered \/ CrankRow
    \/ FinishDummyPass \/ FinishSetup \/ FinishOutputStep
    \/ ReadCoefficientsStep \/ FinishDecompressStep

Application ==
    \/ ReadHeader \/ JpegConsumeInput \/ StartDecompress \/ ReadRows
    \/ StartOutput \/ FinishOutput \/ ReadCoefficients \/ FinishDecompress
    \/ JpegAbort

Next == Library \/ Application \/ Arrive

Spec == Init /\ [][Next]_vars

(* Fairness for the liveness properties: a call that has been entered runs *)
(* on, the missing data arrives, and an application that was told to come  *)
(* back repeats its call, however often it calls something else meanwhile. *)
Fairness ==
    /\ WF_vars(Library) /\ WF_vars(Arrive)
    /\ SF_vars(StartDecompress) /\ SF_vars(ReadRows) /\ SF_vars(FinishOutput)

FairSpec == Spec /\ Fairness
-----------------------------------------------------------------------------
(* Properties.                                                             *)

(* What the application was promised for the pass: the scan it asked for,  *)
(* or the last scan there is.                                              *)
Promised == IF eoi_reached THEN Least(pass_target, input_scan_number)
                           ELSE pass_target

InPass == global_state \in {"SCANNING", "RAW_OK"}

(* The output side never overtakes the input side: whatever mix of         *)
(* suspensions, read-ahead by jpeg_consume_input, retries and early EOI    *)
(* occurs, each row handed out in a pass shows the data of every scan up   *)
(* to the pass's target (the loops of decompress_data and                  *)
(* decompress_smooth_data, and consume_markers' clamp at EOI).             *)
PassQuality ==
    InPass => \A r \in Rows : r < output_scanline => image[r].scan >= Promised

(* The Ss of the k-th scan of the file.                                    *)
IsScan(i, k) == /\ file[i].m = "sos"
                /\ Cardinality({j \in 1 .. i : file[j].m = "sos"}) = k
IsDCScan(k) == \E i \in 1 .. Len(file) : IsScan(i, k) /\ file[i].Ss = 0

(* Block smoothing reads the DC values of the row below.  When the target  *)
(* is a DC scan, that row holds them too by the time it is looked at: the  *)
(* one-row lead that decompress_smooth_data forces through cinfo->Ss.      *)
SmoothingSeesNextRow ==
    InPass /\ decompress_data = "decompress_smooth_data" /\ IsDCScan(Promised)
        => \A r \in Rows : r < output_scanline => image[r].next >= Promised

(* Outside buffered-image mode the one picture the application gets is     *)
(* made from every scan of its image (PRELOAD absorbs them all), and from  *)
(* none of an image that follows in the same datastream.                   *)
ScansInImage ==
    Cardinality({i \in 1 .. Len(file) :
                    /\ file[i].m = "sos"
                    /\ \A j \in 1 .. i : file[j].m # "eoi"})

FinalQuality ==
    InPass /\ ~ mode.buffered /\ has_multiple_scans
        => \A r \in Rows : r < output_scanline => image[r].scan = ScansInImage

(* Each row the application is given shows the scans it was promised.      *)
OutputQuality == PassQuality /\ FinalQuality

(* Single-MCU operation keeps no coefficients, so that input and output    *)
(* must run in lockstep, through suspensions and dummy passes.             *)
LockStep ==
    global_state \in {"PRESCAN", "SCANNING", "RAW_OK"}
    /\ decompress_data = "decompress_onepass"
        => input_iMCU_row = output_iMCU_row

(* However the input is cut up by suspensions, and whatever the sampling   *)
(* factors and the height of the last row, the entropy decoder stops on    *)
(* the last MCU of a scan: it is never started on a marker, and the marker *)
(* reader never on compressed data (in well-formed files).                 *)
ScanMCUs(n) ==
    MCUs_per_row * IF n > 1 THEN total_iMCU_rows
                   ELSE v_samp_factor * (total_iMCU_rows - 1) + last_row_height

(* Unit i is among the data that the SOS at place s announces.             *)
InScan(f, s, i) == /\ f[s].m = "sos"
                   /\ s < i /\ i <= s + ScanMCUs(f[s].comps)

(* A file with one SOF at its head, where all the data announced by an SOS *)
(* follows it and no other unit is data.                                   *)
WellFormed(f) ==
    \A i \in 1 .. Len(f) :
        /\ f[i].m = "sof" => i = 1
        /\ f[i].m = "sos" => f[1].m = "sof" /\ i + ScanMCUs(f[i].comps) < Len(f)
        /\ (f[i].m = "mcu") <=> \E s \in 1 .. Len(f) : InScan(f, s, i)

ScanAligned ==
    WellFormed(file) /\ HaveData /\ call # "error" /\ global_state \notin {"START", "READY"}
        => (NextUnit.m = "mcu" <=> consume_input # "consume_markers")

(* A scan is entered only when the one before it has been stored to its    *)
(* last row; in particular nobody reads past the first SOS before          *)
(* jpeg_start_decompress has set up the coefficient controller.            *)
ScanComplete ==
    \/ decompress_data = "decompress_onepass"
          /\ input_iMCU_row = total_iMCU_rows
    \/ Full /\ \A r \in Rows : whole_image[r] = input_scan_number

NextScanWaits ==
    [][input_scan_number > 0 /\ input_scan_number' = input_scan_number + 1
           => ScanComplete]_vars

(* After hitting EOI nothing more is taken from the source: what follows   *)
(* belongs to the next image (consume_markers' first test).                *)
StopsAtEOI == [][eoi_reached /\ eoi_reached' => rd' = rd]_vars

(* A suspended call that is repeated comes through: absorbing the file,    *)
(* cranking a dummy pass, looking for the next SOS, and each row of a pass.*)
PrescanEnds == global_state = "PRESCAN" ~> global_state # "PRESCAN"
PreloadEnds == global_state = "PRELOAD" ~> global_state # "PRELOAD"
BufpostEnds == global_state = "BUFPOST" ~> global_state # "BUFPOST"
RowComes ==
    \A r \in Rows : (InPass /\ output_scanline = r)
                        ~> (~ InPass \/ output_scanline # r)
(* A suspended call that is repeated comes through: the file is absorbed,  *)
(* the dummy pass ends, the next SOS is found and each row of a pass       *)
(* comes, whatever the application does between the calls.                 *)
SuspendedCallsEnd == PreloadEnds /\ PrescanEnds /\ BufpostEnds /\ RowComes
=============================================================================
