------------------------------ MODULE Compress ------------------------------
(***************************************************************************)
(* The compressor as its API drives it (jcapimin.c, jcapistd.c): master    *)
(* control with its passes (jcmaster.c, jcinit.c), the main controller     *)
(* with its suspension hack (jcmainct.c), the preprocessing and the        *)
(* coefficient controllers (CompressRows), the marker writer               *)
(* (MarkerWriter), the transcoding compressor (jctrans.c) and the          *)
(* parameters the library computes itself (ScanScripts).                   *)
(*                                                                         *)
(* One step is one iteration of a loop, or one call up to the next loop;   *)
(* pc says where the library stands, "app" being the application's turn.   *)
(* The destination may refuse to empty its buffer: encode_mcu then returns *)
(* FALSE, while marker output and the end of a pass cannot suspend and     *)
(* raise an error, after which the application must abort.                 *)
(***************************************************************************)
EXTENDS CompressRows, MarkerWriter, ScanScripts

CONSTANTS Configs,      \* the parameter sets an application may choose, each with
                        \* its bounds: plan.images, the images it starts;
                        \* plan.tables, does it touch the tables between images?
                        \* plan.progression, does it ask for a standard script?
          ScaleFactors, \* the arguments of jpeg_add_quant_table
          Qualities,    \* and of jpeg_set_quality
          MaxVersions,  \* bound: quantization tables set by the application
          MaxRows,      \* bound: scanlines handed over per call
          MaxRefusals   \* bound: refusals of the destination per run

(* What an application can set: the fields of jpeg_compress_struct, of the  *)
(* types of jpeglib.h, with a scan script of any length.  validate_script,  *)
(* initial_setup and per_scan_setup refuse what does not fit together.      *)
ParameterSet ==
    [image_width : Nat, image_height : Nat,
     comps : Seq([h : Int, v : Int, quant_tbl_no : 0..1, dc_tbl_no : 0..1, ac_tbl_no : 0..1]),
     scan_info : Seq([comps : Seq(Int), Ss : Int, Se : Int, Ah : Int, Al : Int]),
     optimize_coding : BOOLEAN, raw_data_in : BOOLEAN, need_context_rows : BOOLEAN,
     restart_in_rows : Int, restart_interval : Nat, jpeg_color_space : STRING,
     plan : [images : Nat, tables : BOOLEAN, progression : BOOLEAN]]

ASSUME ConfigsAssumption ==
    /\ Configs \subseteq ParameterSet
    /\ ScaleFactors \subseteq Int /\ Qualities \subseteq Int
    /\ MaxVersions \in Nat /\ MaxRows \in Nat /\ MaxRefusals \in Nat

\* What the scripts of jpeg_simple_progression take for granted: 64 coefficients,
\* bits to approximate by, an interleaved scan with room for a color image; and an
\* application that asks for one after jpeg_set_defaults, which leaves at least one
\* component and no script of its own.
ASSUME ScriptAssumption ==
    /\ LastCoef >= 6 /\ MAX_AH_AL >= 2 /\ MAX_COMPS_IN_SCAN >= 3
    /\ \A c \in Configs : c.plan.progression => c.comps # << >> /\ c.scan_info = << >>

VARIABLES
    cinfo,          \* the parameters, with optimize_coding and restart_interval
    global_state,   \* "START", "SCANNING", "RAW_OK" or "WRCOEFS"
    next_scanline,
    master,         \* pass_type, pass_number, total_passes, scan_number, ...
    scan,           \* the result of per_scan_setup for the current scan
    prep, main,     \* private states of the two controllers
    coef,           \* private state of the coefficient controller
    whole_image,    \* its arrays, or those of the application in transcoding
    entropy,        \* gathering or not, and the tables start_pass took
    writer,         \* the marker writer and the tables of cinfo
    call,           \* locals of the API call in progress
    pc,
    reader,         \* what a reader of the output knows (history)
    done,           \* scans written and MCUs seen in this pass (history)
    images, versions, refusals   \* what the bounds are on

vars == << cinfo, global_state, next_scanline, master, scan, prep, main, coef,
           whole_image, entropy, writer, call, pc, reader, done, images,
           versions, refusals >>

\* What the application's calls leave alone while no pass is running.
pipeline == << prep, main, coef, scan, entropy >>
counts == << images, versions, refusals >>

HuffNames == {"dc", "ac"} \X {0, 1}
Standard == << "std" >>
Optimized(image, scan_number) == << "opt", image, scan_number >>

----------------------------------------------------------------------------
(* Start of a pass.                                                        *)

start_iMCU_row(c, s, iMCU_row) ==
    [iMCU_row_num |-> iMCU_row, mcu_ctr |-> 0, MCU_vert_offset |-> 0,
     MCU_rows_per_iMCU_row |->
        IF Len(s.cur) > 1 THEN 1
        ELSE IF iMCU_row < total_iMCU_rows(c) - 1 THEN c.comps[s.cur[1].index].v
        ELSE s.cur[1].last_row_height]

\* The entropy encoder derives its tables now, whatever becomes of them later.
\* The divisors of the forward DCT were derived in the main pass.
start_pass_entropy(w, gather) ==
    [gather |-> gather,
     used |-> [t \in TableNames |-> IF t \in HuffNames THEN w.tbl[t].value
                                    ELSE entropy.used[t]]]
start_pass_fdctmgr(w, gather) ==
    [gather |-> gather, used |-> [t \in TableNames |-> w.tbl[t].value]]

NewMain == [cur_iMCU_row |-> 0, rowgroup_ctr |-> 0, suspended |-> FALSE, buffer |-> << >>]

\* The history: scan numbers written, MCUs encoded in this pass and the last of
\* them, and whether the image was to be written with all its tables.
NothingDone(write_all) == [scans |-> << >>, mcus |-> 0, last |-> << >>, write_all |-> write_all]
\* jpeg_abort frees the image pool, in which all these states live.
Freed == << >>
Released ==
    /\ master' = Freed /\ scan' = Freed /\ prep' = Freed /\ main' = Freed
    /\ coef' = Freed /\ whole_image' = Freed /\ entropy' = Freed
    /\ call' = Freed /\ done' = NothingDone(TRUE)

NewPass == [done EXCEPT !.mcus = 0, !.last = << >>]

Setup(c, scan_number) == per_scan_setup(c, select_scan_parameters(c, scan_number))

WithRestart(c, s) == [c EXCEPT !.restart_interval = RestartInterval(c, s)]

IsLast(m) == [m EXCEPT !.is_last_pass = (m.pass_number = m.total_passes - 1)]

\* jinit_c_master_control: "assume default tables no good for progressive mode"
Optimizes(c) == c.optimize_coding \/ Progressive(c.scan_info)

jinit_c_master_control(c, transcode_only) ==
    [pass_type |-> IF ~transcode_only THEN "main"
                   ELSE IF Optimizes(c) THEN "huff_opt" ELSE "output",
     pass_number |-> 0, scan_number |-> 0, call_pass_startup |-> FALSE,
     is_last_pass |-> FALSE, transcode |-> transcode_only,
     total_passes |-> IF Optimizes(c) THEN 2 * num_scans(c) ELSE num_scans(c)]

MultiPass(m) == m.total_passes > 1
IsTranscoding(m) == m.transcode

IsMainPass(m) == m.pass_type = "main"

\* Output of segments.  The destination may refuse after any number of them,
\* and a marker cannot be suspended: an error.
OutputTo(w, segs) == Written([w |-> w, rd |-> reader], segs)
SetOutput(out) == writer' = out.w /\ reader' = out.rd
Refuse == refusals < MaxRefusals /\ refusals' = refusals + 1
FailsWithin(w, segs) ==
    /\ Refuse
    /\ \E k \in 0..Len(segs) - 1 : SetOutput(OutputTo(w, SubSeq(segs, 1, k)))
    /\ pc' = "error"

----------------------------------------------------------------------------
(* The application between images.                                         *)

Idle == pc = "app" /\ global_state = "START"
Between == Idle /\ cinfo.plan.tables /\ images < cinfo.plan.images

\* jpeg_set_defaults, then the application's own choices: the standard tables
\* again, to be written again.
jpeg_set_defaults ==
    /\ Between /\ cinfo' \in {c \in Configs : c.plan = cinfo.plan}
    /\ writer' = [writer EXCEPT !.tbl =
            [t \in TableNames |-> [value |-> IF t \in HuffNames THEN Standard ELSE Version(0, FALSE),
                                   sent_table |-> FALSE]]]
    /\ UNCHANGED << pipeline, global_state, next_scanline, master, whole_image,
                    call, pc, reader, done, counts >>

\* A table of the application: new contents, "so table will be written to JPEG
\* file".  Of basic_table only the largest entry matters.
QuantTableSet(basic, scale_factor, force_baseline) ==
    [value |-> Version(versions + 1, ScaledQuant(basic, scale_factor, force_baseline) > 255),
     sent_table |-> FALSE]

NewQuantTables(slots, basic, scale_factor, force_baseline) ==
    /\ Between /\ versions < MaxVersions
    /\ versions' = versions + 1
    /\ writer' = [writer EXCEPT !.tbl =
            [t \in TableNames |->
                IF t[1] = "q" /\ t[2] \in slots
                THEN QuantTableSet(basic[t[2]], scale_factor, force_baseline) ELSE @[t]]]
    /\ UNCHANGED << pipeline, cinfo, global_state, next_scanline, master, whole_image,
                    call, pc, reader, done, images, refusals >>

\* The largest entries of std_luminance_quant_tbl and std_chrominance_quant_tbl.
StandardTables == [slot \in 0..1 |-> IF slot = 0 THEN 121 ELSE 99]

jpeg_add_quant_table(slot, scale_factor, force_baseline) ==
    NewQuantTables({slot}, StandardTables, scale_factor, force_baseline)

jpeg_set_quality(quality, force_baseline) ==
    NewQuantTables({0, 1}, StandardTables, jpeg_quality_scaling(quality), force_baseline)

jpeg_simple_progression ==
    /\ Idle /\ cinfo.plan.progression /\ images = 0 /\ cinfo.scan_info = << >>
    /\ cinfo' = [cinfo EXCEPT !.scan_info =
            SimpleProgression(Len(cinfo.comps), cinfo.jpeg_color_space)]
    /\ UNCHANGED << pipeline, global_state, next_scanline, master, whole_image, call, pc,
                    writer, reader, done, counts >>

\* jpeg_suppress_tables(TRUE) by an application whose reader has the tables.
SuppressTables ==
    /\ Between
    /\ writer' = [writer EXCEPT !.tbl = jpeg_suppress_tables(@, TRUE)]
    /\ reader' = [reader EXCEPT !.tbl = [t \in TableNames |-> writer.tbl[t].value]]
    /\ UNCHANGED << pipeline, cinfo, global_state, next_scanline, master, whole_image,
                    call, pc, done, counts >>

\* jpeg_write_tables; jinit_marker_writer resets the restart interval.
NewWriter(w) == [w EXCEPT !.last_restart_interval = 0]

jpeg_write_tables ==
    /\ Between
    /\ \/ SetOutput(OutputTo(NewWriter(writer), write_tables_only))
          /\ UNCHANGED << refusals, pc >>
       \/ FailsWithin(NewWriter(writer), write_tables_only)
    /\ UNCHANGED << pipeline, cinfo, global_state, next_scanline, master, whole_image,
                    call, done, images, versions >>

----------------------------------------------------------------------------
(* Start of an image.                                                      *)

\* Mutant of WithTables: write_all_tables is not heeded.
FlagsLeftAlone(write_all) == writer

WithTables(write_all) ==
    IF write_all THEN [writer EXCEPT !.tbl = jpeg_suppress_tables(@, FALSE)] ELSE writer

\* The parameters as master control leaves them.
Optimizing(c) == [c EXCEPT !.optimize_coding = Optimizes(c)]

\* Raw data are downsampled already.
CannotDownsample(c) == ~c.raw_data_in /\ FractionalSampling(c)

\* An error before anything is written; what was done to the flags stays.
StartFails(write_all) ==
    /\ Idle /\ images < cinfo.plan.images
    /\ \/ BadParameters(cinfo) /\ UNCHANGED << refusals, cinfo >>
       \/ /\ ~BadParameters(cinfo) /\ cinfo' = Optimizing(cinfo)
          /\ IF CannotDownsample(cinfo) THEN UNCHANGED refusals ELSE Refuse
    /\ writer' = WithTables(write_all) /\ pc' = "error"
    /\ images' = images + 1
    /\ UNCHANGED << pipeline, global_state, next_scanline, master, whole_image, call,
                    reader, done, versions >>

\* jinit_compress_master and prepare_for_pass for the main pass.
StartMainPass(c, s, w) ==
    /\ cinfo' = WithRestart(c, s) /\ scan' = s
    /\ master' = IsLast([jinit_c_master_control(c, FALSE)
                            EXCEPT !.call_pass_startup = ~c.optimize_coding])
    /\ entropy' = start_pass_fdctmgr(w, c.optimize_coding)
    /\ coef' = start_iMCU_row(c, s, 0)
    /\ whole_image' = IF MultiPass(master') THEN EmptyArrays(c) ELSE << >>
    /\ IF c.raw_data_in THEN UNCHANGED << prep, main >>
       ELSE prep' = start_pass_prep(c) /\ main' = [NewMain EXCEPT !.buffer = EmptyBuffer(c)]

jpeg_start_compress(write_all) ==
    /\ Idle /\ images < cinfo.plan.images /\ ~BadParameters(cinfo)
    /\ ~CannotDownsample(cinfo) /\ ~BadMCU(cinfo, select_scan_parameters(cinfo, 0))
    /\ StartMainPass(Optimizing(cinfo), Setup(cinfo, 0), WithTables(write_all))
    /\ SetOutput(OutputTo(WithTables(write_all), write_file_header))
    /\ next_scanline' = 0
    /\ global_state' = IF cinfo.raw_data_in THEN "RAW_OK" ELSE "SCANNING"
    /\ done' = NothingDone(write_all)
    /\ images' = images + 1
    /\ UNCHANGED << call, pc, versions, refusals >>

\* jpeg_write_coefficients; the application fills the arrays before it finishes.
jpeg_write_coefficients ==
    /\ Idle /\ images < cinfo.plan.images /\ ~BadParameters(cinfo)
    /\ cinfo' = Optimizing(cinfo)
    /\ master' = jinit_c_master_control(Optimizing(cinfo), TRUE)
    /\ entropy' = start_pass_fdctmgr(writer, FALSE)
    /\ whole_image' = IdealArrays(cinfo)
    /\ SetOutput(OutputTo(WithTables(TRUE), write_file_header))
    /\ next_scanline' = 0 /\ global_state' = "WRCOEFS"
    /\ done' = NothingDone(TRUE)
    /\ images' = images + 1
    /\ UNCHANGED << prep, main, coef, scan, call, pc, versions, refusals >>

----------------------------------------------------------------------------
(* Data from the application.                                              *)

\* pass_startup: the headers, at the first call that brings data.
PassStartup ==
    IF master.call_pass_startup
    THEN /\ SetOutput(OutputTo(writer, write_frame_header(cinfo, writer.tbl) \o write_scan_header(cinfo, scan)))
         /\ master' = [master EXCEPT !.call_pass_startup = FALSE]
    ELSE UNCHANGED << writer, reader, master >>

StartupFails ==
    /\ pc = "app" /\ global_state \in {"SCANNING", "RAW_OK"}
    /\ next_scanline < cinfo.image_height /\ master.call_pass_startup
    /\ FailsWithin(writer, write_frame_header(cinfo, writer.tbl) \o write_scan_header(cinfo, scan))
    /\ master' = [master EXCEPT !.call_pass_startup = FALSE]
    /\ UNCHANGED << pipeline, cinfo, global_state, next_scanline, whole_image, call, done,
                    images, versions >>

Call(by, avail) == [by |-> by, in_row_ctr |-> 0, in_rows_avail |-> avail,
                    yoffset |-> 0, MCU_col_num |-> 0]

jpeg_write_scanlines(num_lines) ==
    /\ pc = "app" /\ global_state = "SCANNING"
    /\ PassStartup
    /\ call' = Call("lines", Least(num_lines, cinfo.image_height - next_scanline))
    /\ pc' = "main"
    /\ UNCHANGED << pipeline, cinfo, global_state, next_scanline, whole_image, done, counts >>

\* The call of the coefficient controller: where it resumes, and in a multi-pass
\* mode the transformation of the whole iMCU row, done again after a suspension.
in_last_iMCU_row == coef.iMCU_row_num = total_iMCU_rows(cinfo) - 1

InputRows == IF cinfo.raw_data_in
             THEN RawData(cinfo, next_scanline \div (MaxV(cinfo) * DCTSIZE)) ELSE main.buffer

FillArrays ==
    IF IsMainPass(master) /\ MultiPass(master)
    THEN whole_image' = compress_first_pass(cinfo, whole_image, InputRows,
                                            coef.iMCU_row_num, in_last_iMCU_row)
    ELSE UNCHANGED whole_image

Resume(cl) == [cl EXCEPT !.yoffset = coef.MCU_vert_offset, !.MCU_col_num = coef.mcu_ctr]

\* jpeg_write_raw_data, which takes one iMCU row at a time.
jpeg_write_raw_data ==
    /\ pc = "app" /\ global_state = "RAW_OK" /\ next_scanline < cinfo.image_height
    /\ PassStartup
    /\ FillArrays /\ call' = Resume(Call("raw", 0)) /\ pc' = "mcu"
    /\ UNCHANGED << pipeline, cinfo, global_state, next_scanline, done, counts >>

----------------------------------------------------------------------------
(* process_data_simple_main and the preprocessor's loops.                  *)

InMain == pc = "main" /\ main.cur_iMCU_row < total_iMCU_rows(cinfo)
RowsLeft == call.in_rows_avail - call.in_row_ctr
Unchanged_in_main == UNCHANGED << cinfo, global_state, next_scanline, master, scan,
                                  entropy, writer, reader, done, counts >>

\* Rows taken in: n of them, from the caller's row in_row_ctr on.
Stored(n) == [prep EXCEPT !.color_buf = Converted(prep, next_scanline + call.in_row_ctr, n),
                          !.next_buf_row = @ + n, !.rows_to_go = @ - n]

\* pre_process_data after the conversion: fill up a row group at the bottom.
Padded(p) ==
    IF p.rows_to_go = 0 /\ p.next_buf_row < MaxV(cinfo)
    THEN [p EXCEPT !.color_buf = expand_bottom_edge(cinfo, @, p.next_buf_row, MaxV(cinfo)),
                   !.next_buf_row = MaxV(cinfo)]
    ELSE p

\* ... empty a full conversion buffer into the next row group, and at the bottom
\* of the image pad the output to a full iMCU row.
EmptiedInto(p) ==
    IF p.next_buf_row # MaxV(cinfo) THEN main
    ELSE [main EXCEPT !.buffer = Downsampled(cinfo, p, 0, @, main.rowgroup_ctr),
                      !.rowgroup_ctr = @ + 1]
PaddedOutput(p, m) ==
    IF p.rows_to_go = 0 /\ m.rowgroup_ctr < DCTSIZE
    THEN [m EXCEPT !.buffer = PadOutput(cinfo, @, m.rowgroup_ctr), !.rowgroup_ctr = DCTSIZE]
    ELSE m
Emptied(p) == IF p.next_buf_row = MaxV(cinfo) THEN [p EXCEPT !.next_buf_row = 0] ELSE p

TakeRows(p, n) ==
    /\ call' = [call EXCEPT !.in_row_ctr = @ + n]
    /\ prep' = Emptied(p)
    /\ main' = PaddedOutput(p, EmptiedInto(p))

pre_process_data ==
    /\ InMain /\ ~cinfo.need_context_rows
    /\ main.rowgroup_ctr < DCTSIZE /\ RowsLeft > 0
    /\ LET n == Least(MaxV(cinfo) - prep.next_buf_row, RowsLeft)
       IN  TakeRows(Padded(Stored(n)), n)
    /\ Unchanged_in_main /\ UNCHANGED << coef, whole_image, pc >>

\* pre_process_context: with rows to take in, or at the bottom with none.
TopPadded(p) ==
    IF prep.rows_to_go = cinfo.image_height
    THEN [p EXCEPT !.color_buf = PadTop(cinfo, @)] ELSE p
BottomPadded(p) ==
    IF p.next_buf_row < p.next_buf_stop
    THEN [p EXCEPT !.color_buf = expand_bottom_edge(cinfo, @, p.next_buf_row, p.next_buf_stop),
                   !.next_buf_row = p.next_buf_stop]
    ELSE p

\* Mutant of Wrapped: the pointers run on behind the buffer.
NotWrapped(x) == x

\* "Advance pointers with wraparound as necessary."
Wrapped(x) == IF x >= 3 * MaxV(cinfo) THEN 0 ELSE x
Advanced(p) ==
    [p EXCEPT !.this_row_group = Wrapped(@ + MaxV(cinfo)),
              !.next_buf_row = Wrapped(@),
              !.next_buf_stop = Wrapped(p.next_buf_row) + MaxV(cinfo)]

DownsampleGroup(p) ==
    IF p.next_buf_row = p.next_buf_stop
    THEN /\ main' = [main EXCEPT !.buffer = Downsampled(cinfo, p, p.this_row_group, @,
                                                        main.rowgroup_ctr),
                                 !.rowgroup_ctr = @ + 1]
         /\ prep' = Advanced(p)
    ELSE prep' = p /\ UNCHANGED main

pre_process_context ==
    /\ InMain /\ cinfo.need_context_rows /\ main.rowgroup_ctr < DCTSIZE
    /\ \/ /\ RowsLeft > 0
          /\ LET n == Least(prep.next_buf_stop - prep.next_buf_row, RowsLeft)
             IN  /\ DownsampleGroup(TopPadded(Stored(n)))
                 /\ call' = [call EXCEPT !.in_row_ctr = @ + n]
       \/ /\ RowsLeft = 0 /\ prep.rows_to_go = 0
          /\ DownsampleGroup(BottomPadded(prep)) /\ UNCHANGED call
    /\ Unchanged_in_main /\ UNCHANGED << coef, whole_image, pc >>

\* Nothing more to do in this call: "return to application for more data".
ReturnLines ==
    /\ pc = "main"
    /\ \/ main.cur_iMCU_row = total_iMCU_rows(cinfo)
       \/ /\ main.rowgroup_ctr < DCTSIZE /\ RowsLeft = 0
          /\ ~(cinfo.need_context_rows /\ prep.rows_to_go = 0)
    /\ next_scanline' = next_scanline + call.in_row_ctr
    /\ pc' = "app"
    /\ UNCHANGED << pipeline, cinfo, global_state, master, whole_image, writer, call,
                    reader, done, counts >>

\* "Send the completed row to the compressor."
SendRow ==
    /\ InMain /\ main.rowgroup_ctr = DCTSIZE
    /\ FillArrays /\ call' = Resume(call) /\ pc' = "mcu"
    /\ Unchanged_in_main /\ UNCHANGED << prep, main, coef >>

----------------------------------------------------------------------------
(* compress_data, compress_first_pass, compress_output.                    *)

CurrentMCU ==
    IF IsTranscoding(master)
    THEN MCUWithDummies(scan, ArrayStrip(cinfo, whole_image, coef.iMCU_row_num),
                        in_last_iMCU_row, call.yoffset, call.MCU_col_num)
    ELSE IF MultiPass(master)
    THEN MCUFromArray(scan, ArrayStrip(cinfo, whole_image, coef.iMCU_row_num),
                      call.yoffset, call.MCU_col_num)
    ELSE MCUWithDummies(scan, InputStrip(cinfo, InputRows), in_last_iMCU_row,
                        call.yoffset, call.MCU_col_num)

UnchangedInCoef == UNCHANGED << cinfo, global_state, master, scan, prep, whole_image,
                                entropy, writer, reader, images, versions >>

encode_mcu ==
    /\ pc = "mcu"
    /\ done' = [done EXCEPT !.mcus = @ + 1, !.last = CurrentMCU]
    /\ \/ /\ call.MCU_col_num + 1 < scan.MCUs_per_row
          /\ call' = [call EXCEPT !.MCU_col_num = @ + 1]
          /\ UNCHANGED << coef, pc >>
       \/ /\ call.MCU_col_num + 1 = scan.MCUs_per_row
          /\ call.yoffset + 1 < coef.MCU_rows_per_iMCU_row
          /\ coef' = [coef EXCEPT !.mcu_ctr = 0]
          /\ call' = [call EXCEPT !.yoffset = @ + 1, !.MCU_col_num = 0]
          /\ UNCHANGED pc
       \/ /\ call.MCU_col_num + 1 = scan.MCUs_per_row
          /\ call.yoffset + 1 = coef.MCU_rows_per_iMCU_row
          /\ coef' = start_iMCU_row(cinfo, scan, coef.iMCU_row_num + 1)
          /\ pc' = "rowdone" /\ UNCHANGED call
    /\ UnchangedInCoef /\ UNCHANGED << main, next_scanline, refusals >>

\* encode_mcu returns FALSE: "update state counters and exit".
Suspend ==
    /\ pc = "mcu" /\ ~entropy.gather /\ Refuse
    /\ coef' = [coef EXCEPT !.MCU_vert_offset = call.yoffset, !.mcu_ctr = call.MCU_col_num]
    /\ UnchangedInCoef

\* Mutants of Pretend: the hack left out, and done at every suspension.
NeverPretend == 0
AlwaysPretend == 1

\* In process_data_simple_main "we pretend we didn't yet consume the last input
\* row; otherwise ... the application would think we were done".
Pretend == IF main.suspended THEN 0 ELSE 1

SuspendLines ==
    /\ Suspend /\ call.by = "lines"
    /\ main' = [main EXCEPT !.suspended = TRUE]
    /\ call' = [call EXCEPT !.in_row_ctr = @ - Pretend]
    /\ next_scanline' = next_scanline + call.in_row_ctr - Pretend
    /\ pc' = "app" /\ UNCHANGED done

SuspendRaw == Suspend /\ call.by = "raw" /\ pc' = "app" /\ UNCHANGED << main, call, next_scanline, done >>
SuspendCrank == Suspend /\ call.by = "crank" /\ pc' = "error" /\ UNCHANGED << main, call, next_scanline, done >>

\* The row is done.  "Undo our little suspension hack if a previous call
\* suspended; then mark the main buffer empty."
RowDoneLines ==
    /\ pc = "rowdone" /\ call.by = "lines"
    /\ call' = [call EXCEPT !.in_row_ctr = IF main.suspended THEN @ + 1 ELSE @]
    /\ main' = [main EXCEPT !.suspended = FALSE, !.rowgroup_ctr = 0, !.cur_iMCU_row = @ + 1]
    /\ pc' = "main"
    /\ UnchangedInCoef /\ UNCHANGED << coef, done, next_scanline, refusals >>

RowDoneRaw ==
    /\ pc = "rowdone" /\ call.by = "raw"
    /\ next_scanline' = next_scanline + MaxV(cinfo) * DCTSIZE
    /\ pc' = "app"
    /\ UnchangedInCoef /\ UNCHANGED << coef, call, main, done, refusals >>

\* Mutant of RowDoneCrank: the loop stops one row early.
StopsOneRowEarly ==
    /\ pc = "rowdone" /\ call.by = "crank"
    /\ IF coef.iMCU_row_num < total_iMCU_rows(cinfo) - 1
       THEN call' = Resume(call) /\ pc' = "mcu"
       ELSE pc' = "finish_pass" /\ UNCHANGED call
    /\ UnchangedInCoef /\ UNCHANGED << coef, main, done, next_scanline, refusals >>

\* The loop of jpeg_finish_compress over the iMCU rows of a later pass.
RowDoneCrank ==
    /\ pc = "rowdone" /\ call.by = "crank"
    /\ IF coef.iMCU_row_num < total_iMCU_rows(cinfo)
       THEN call' = Resume(call) /\ pc' = "mcu"
       ELSE pc' = "finish_pass" /\ UNCHANGED call
    /\ UnchangedInCoef /\ UNCHANGED << coef, main, done, next_scanline, refusals >>

----------------------------------------------------------------------------
(* jpeg_finish_compress.                                                   *)

jpeg_finish_compress ==
    /\ pc = "app" /\ global_state # "START"
    /\ IF global_state = "WRCOEFS" THEN pc' = "passes"
       ELSE pc' = IF next_scanline < cinfo.image_height THEN "error" ELSE "finish_pass"
    /\ call' = Call("crank", 0)
    /\ UNCHANGED << pipeline, cinfo, global_state, next_scanline, master, whole_image,
                    writer, reader, done, counts >>

\* Mutant of NextPass: the scan of the main pass is not counted.
MainScanNotCounted(m, optimize) ==
    [m EXCEPT !.pass_type = IF m.pass_type = "output" /\ optimize THEN "huff_opt" ELSE "output",
              !.scan_number = IF m.pass_type = "output" THEN @ + 1 ELSE @,
              !.pass_number = @ + 1]

\* What finish_pass_master makes of the pass counters.
NextPass(m, optimize) ==
    [m EXCEPT !.pass_type = IF m.pass_type = "output" /\ optimize THEN "huff_opt" ELSE "output",
              !.scan_number =
                  IF m.pass_type = "output" \/ (m.pass_type = "main" /\ ~optimize)
                  THEN @ + 1 ELSE @,
              !.pass_number = @ + 1]

\* Mutants of FinishGather: the new tables are still marked as sent, and tables
\* are made once per image for each slot.
StillMarkedSent ==
    [writer EXCEPT !.tbl =
        [t \in DOMAIN @ |->
            IF t \in ToSet(TablesOfScan(cinfo, scan))
            THEN [@[t] EXCEPT !.value = Optimized(images, master.scan_number)] ELSE @[t]]]
OncePerSlot ==
    [writer EXCEPT !.tbl =
        [t \in DOMAIN @ |->
            IF t \in ToSet(TablesOfScan(cinfo, scan)) /\ @[t].value[1] # "opt"
            THEN [value |-> Optimized(images, master.scan_number), sent_table |-> FALSE]
            ELSE @[t]]]

\* finish_pass_gather: the tables of the scan, made from its statistics.
FinishGather ==
    [writer EXCEPT !.tbl =
        [t \in DOMAIN @ |->
            IF t \in ToSet(TablesOfScan(cinfo, scan))
            THEN [value |-> Optimized(images, master.scan_number), sent_table |-> FALSE]
            ELSE @[t]]]

finish_pass_master ==
    /\ pc = "finish_pass"
    /\ master' = NextPass(master, cinfo.optimize_coding)
    /\ IF entropy.gather THEN writer' = FinishGather /\ UNCHANGED done
       ELSE done' = [done EXCEPT !.scans = Append(@, master.scan_number)] /\ UNCHANGED writer
    /\ pc' = "passes"
    /\ UNCHANGED << pipeline, cinfo, global_state, next_scanline, whole_image, call,
                    reader, counts >>

\* flush_bits at the end of an output pass cannot suspend either.
FlushFails ==
    /\ pc = "finish_pass" /\ ~entropy.gather /\ Refuse /\ pc' = "error"
    /\ UNCHANGED << pipeline, cinfo, global_state, next_scanline, master, whole_image,
                    writer, call, reader, done, images, versions >>

\* "Special case: Huffman DC refinement scans need no Huffman table and therefore
\* we can skip the optimization pass for them."
NextScan == Setup(cinfo, master.scan_number)
SkipsGather == NextScan.Ss = 0 /\ NextScan.Ah # 0

More == pc = "passes" /\ ~master.is_last_pass

PrepareHuffOpt ==
    /\ More /\ master.pass_type = "huff_opt" /\ ~SkipsGather
    /\ ~BadMCU(cinfo, select_scan_parameters(cinfo, master.scan_number))
    /\ scan' = NextScan /\ cinfo' = WithRestart(cinfo, NextScan)
    /\ entropy' = start_pass_entropy(writer, TRUE)
    /\ coef' = start_iMCU_row(cinfo, NextScan, 0)
    /\ master' = IsLast([master EXCEPT !.call_pass_startup = FALSE])
    /\ done' = NewPass
    /\ call' = [call EXCEPT !.yoffset = 0, !.MCU_col_num = 0] /\ pc' = "mcu"
    /\ UNCHANGED << prep, main, whole_image, global_state, next_scanline, writer, reader, counts >>

\* The scan an output pass is for: set up again, unless the optimization pass
\* before did it.
OutputScan == IF cinfo.optimize_coding /\ master.pass_type = "output" THEN scan ELSE NextScan
OutputHeaders(c, s) ==
    (IF master.scan_number = 0 THEN write_frame_header(c, writer.tbl) ELSE << >>) \o write_scan_header(c, s)
OutputPass == [master EXCEPT !.pass_type = "output", !.call_pass_startup = FALSE,
                             !.pass_number = IF master.pass_type = "huff_opt" THEN @ + 1 ELSE @]

IsOutputPass ==
    /\ More
    /\ master.pass_type = "output" \/ (master.pass_type = "huff_opt" /\ SkipsGather)

PrepareOutput ==
    /\ IsOutputPass /\ ~BadMCU(cinfo, select_scan_parameters(cinfo, master.scan_number))
    /\ scan' = OutputScan /\ cinfo' = WithRestart(cinfo, OutputScan)
    /\ entropy' = start_pass_entropy(writer, FALSE)
    /\ coef' = start_iMCU_row(cinfo, OutputScan, 0)
    /\ master' = IsLast(OutputPass)
    /\ done' = NewPass
    /\ \/ SetOutput(OutputTo(writer, OutputHeaders(cinfo', OutputScan)))
          /\ pc' = "mcu" /\ UNCHANGED refusals
       \/ FailsWithin(writer, OutputHeaders(cinfo', OutputScan))
    /\ call' = [call EXCEPT !.yoffset = 0, !.MCU_col_num = 0]
    /\ UNCHANGED << prep, main, whole_image, global_state, next_scanline, images, versions >>

\* per_scan_setup refuses the MCU of a scan; in the main pass this happens
\* within jpeg_start_compress, after the SOI and after the choice to optimize.
BadScan ==
    /\ \/ Idle /\ images < cinfo.plan.images /\ ~BadParameters(cinfo)
          /\ ~CannotDownsample(cinfo) /\ BadMCU(cinfo, select_scan_parameters(cinfo, 0))
          /\ \E write_all \in BOOLEAN : SetOutput(OutputTo(WithTables(write_all), write_file_header))
          /\ cinfo' = Optimizing(cinfo) /\ images' = images + 1
       \/ More /\ BadMCU(cinfo, select_scan_parameters(cinfo, master.scan_number))
          /\ UNCHANGED << cinfo, writer, reader, images >>
    /\ pc' = "error"
    /\ UNCHANGED << pipeline, global_state, next_scanline, master, whole_image, call,
                    done, versions, refusals >>

\* EOI, and jpeg_abort "to release memory and reset global_state".
Trailer ==
    /\ pc = "passes" /\ master.is_last_pass
    /\ SetOutput(OutputTo(writer, write_file_trailer))
    /\ global_state' = "START" /\ pc' = "app" /\ Released
    /\ UNCHANGED << cinfo, next_scanline, counts >>

\* The destination may refuse the EOI as well.
TrailerFails ==
    /\ pc = "passes" /\ master.is_last_pass /\ Refuse /\ pc' = "error"
    /\ UNCHANGED << pipeline, cinfo, global_state, next_scanline, master, whole_image,
                    writer, call, reader, done, images, versions >>

jpeg_abort_compress ==
    /\ pc = "error" \/ (pc = "app" /\ global_state # "START")
    /\ global_state' = "START" /\ pc' = "app" /\ Released
    /\ UNCHANGED << cinfo, next_scanline, writer, reader, counts >>

----------------------------------------------------------------------------
Init ==
    /\ cinfo \in Configs
    /\ global_state = "START" /\ next_scanline = 0
    /\ master = Freed /\ scan = Freed /\ prep = Freed /\ main = Freed
    /\ coef = Freed /\ whole_image = Freed /\ entropy = Freed /\ call = Freed
    /\ writer = [last_restart_interval |-> 0,
                 tbl |-> [t \in TableNames |->
                             [value |-> IF t \in HuffNames THEN Standard ELSE Version(0, FALSE),
                              sent_table |-> FALSE]]]
    /\ pc = "app"
    /\ reader = NewReader
    /\ done = NothingDone(TRUE)
    /\ images = 0 /\ versions = 0 /\ refusals = 0

Tables ==
    \/ jpeg_set_defaults
    \/ \E force_baseline \in BOOLEAN :
        \/ \E slot \in 0..1, scale_factor \in ScaleFactors :
            jpeg_add_quant_table(slot, scale_factor, force_baseline)
        \/ \E quality \in Qualities : jpeg_set_quality(quality, force_baseline)
    \/ jpeg_simple_progression
    \/ SuppressTables
    \/ jpeg_write_tables

Start ==
    \/ \E write_all \in BOOLEAN : jpeg_start_compress(write_all) \/ StartFails(write_all)
    \/ jpeg_write_coefficients
    \/ BadScan

Data ==
    \/ \E n \in 1..MaxRows : jpeg_write_scanlines(n)
    \/ jpeg_write_raw_data \/ StartupFails
    \/ pre_process_data \/ pre_process_context \/ SendRow \/ ReturnLines

Coefficients ==
    \/ encode_mcu \/ SuspendLines \/ SuspendRaw \/ SuspendCrank
    \/ RowDoneLines \/ RowDoneRaw \/ RowDoneCrank

Finish ==
    \/ jpeg_finish_compress \/ finish_pass_master \/ FlushFails
    \/ PrepareHuffOpt \/ PrepareOutput \/ Trailer \/ TrailerFails \/ jpeg_abort_compress

Next == Tables \/ Start \/ Data \/ Coefficients \/ Finish

Spec == Init /\ [][Next]_vars

----------------------------------------------------------------------------
(* Properties.                                                             *)

TypeOK ==
    /\ global_state \in {"START", "SCANNING", "RAW_OK", "WRCOEFS"}
    /\ pc \in {"app", "main", "mcu", "rowdone", "finish_pass", "passes", "error"}
    /\ next_scanline \in Nat
    /\ global_state # "START" =>
        /\ master.pass_number \in 0..master.total_passes
        /\ master.scan_number \in 0..num_scans(cinfo)
    /\ global_state = "SCANNING" =>
        /\ prep.rows_to_go \in 0..cinfo.image_height
        /\ prep.next_buf_row \in 0..BufRows(cinfo)
        /\ main.rowgroup_ctr \in 0..DCTSIZE
    /\ DOMAIN writer.tbl = TableNames
    /\ \A t \in TableNames : writer.tbl[t].sent_table \in BOOLEAN
    /\ images \in 0..cinfo.plan.images /\ versions \in 0..MaxVersions /\ refusals \in 0..MaxRefusals

\* Every MCU given to the entropy encoder, in a single pass, in the first of
\* several, in a pass out of the arrays or in transcoding, is the MCU that
\* belongs at its place of the scan: the right rows and columns, context rows and
\* edges included, and the dummy blocks with the DC value of their neighbour.
\* Suspension in the middle of a row group of the application's rows, the wrap
\* around of the context buffer and the redone first pass must not show.
MCUIsIdeal ==
    done.mcus > 0 => done.last = IdealMCU(cinfo, scan, done.mcus - 1)

\* A pass ends with all MCUs of its scan encoded, none twice: statistics are
\* gathered over exactly the data that is then written.
PassIsWhole == pc = "finish_pass" => done.mcus = NumMCUs(scan)

\* "otherwise, if it happened to be the last row of the image, the application
\* would think we were done": when the application has been told that all its
\* scanlines were taken, all their MCUs have been encoded.
TakenIsEncoded ==
    /\ pc = "app" /\ global_state \in {"SCANNING", "RAW_OK"}
    /\ next_scanline >= cinfo.image_height
    => done.mcus = NumMCUs(scan)

\* The unsigned in_row_ctr is never decremented below zero by the suspension
\* hack, nor incremented past the rows that were handed over, while the call runs
\* and when it returns the number of rows it took.
RowCounterInRange ==
    global_state = "SCANNING" /\ call # Freed => call.in_row_ctr \in 0..call.in_rows_avail

\* When EOI is written every scan of the script has been, once and in order.
ScansInOrder ==
    pc = "passes" /\ master.is_last_pass
    => done.scans = [i \in 1..num_scans(cinfo) |-> i - 1]

\* While compressed data is written, a reader of the output has read the header
\* of this scan and has the tables the encoder derived its codes and divisors
\* from when the pass started, and the restart interval.
WritingData == pc \in {"mcu", "rowdone"} /\ ~entropy.gather
Needed == ToSet(TablesOfScan(cinfo, scan)) \cup
          {QuantTable(cinfo, c) : c \in 1..Len(cinfo.comps)}

ReaderHasTables ==
    WritingData => /\ reader.scan = scan
                   /\ \A t \in Needed : reader.tbl[t] = entropy.used[t]
                   /\ reader.ri = cinfo.restart_interval

\* A datastream that was to be written with all its tables contains them.
SelfContained == WritingData /\ done.write_all => Needed \subseteq reader.here

\* With optimize_coding each scan is coded with the tables made from its own
\* statistics, though the passes of all scans share the same table slots.
OwnStatistics ==
    WritingData /\ cinfo.optimize_coding =>
        \A t \in ToSet(TablesOfScan(cinfo, scan)) :
            entropy.used[t] = Optimized(images, master.scan_number)

\* The SOF marker announces what follows: a decoder that knows only the baseline
\* process is never given a progressive file or a table with 16-bit entries,
\* though the table may have been sent in an earlier file.
FrameIsHonest ==
    WritingData =>
        /\ reader.sof = "SOF2" <=> Progressive(cinfo.scan_info)
        /\ reader.sof = "SOF0" =>
            \A c \in 1..Len(cinfo.comps) : ~Wide(entropy.used[QuantTable(cinfo, c)])

\* A script made by jpeg_simple_progression fills the space it was counted to
\* need, is one validate_script accepts, and sends every coefficient of every
\* component down to its last bit.
ScriptServes ==
    Idle /\ cinfo.plan.progression /\ cinfo.scan_info # << >> =>
        LET n == Len(cinfo.comps)
            sent == Walk(cinfo.scan_info, n)
        IN  /\ Len(cinfo.scan_info) = nscans(n, cinfo.jpeg_color_space)
            /\ sent # Refused
            /\ \A c \in 1..n, k \in 0..LastCoef : sent[c][k] = 0

\* What is sent is the image, and all of it: in every MCU the blocks that belong
\* there, and by a script of the library every bit of every coefficient.
ImageIsSent == MCUIsIdeal /\ ScriptServes

\* A pass encodes all MCUs of its scan, none twice, and the passes all scans.
ScansComplete == PassIsWhole /\ ScansInOrder

\* The rows the application is told were taken are those that went in, and at
\* the end of the image their MCUs have come out.
RowsAccounted == TypeOK /\ RowCounterInRange /\ TakenIsEncoded

\* The file holds, ahead of the data, the tables a reader needs: those the data
\* is coded with, made from the statistics of this scan if they are optimized,
\* and in this very file if it is to be complete; and the kind of frame is told.
TablesReachReader == ReaderHasTables /\ SelfContained /\ OwnStatistics /\ FrameIsHonest
=============================================================================
