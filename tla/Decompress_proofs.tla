------------------------- MODULE Decompress_proofs -------------------------
(* Type correctness of Decompress and its main safety invariants, for      *)
(* every set of datastreams and parameters and every image height.         *)
EXTENDS Decompress, FiniteSetTheorems, TLAPS

Active == global_state \notin {"START", "INHEADER", "READY"}
PassState == global_state \in {"PRESCAN", "SCANNING", "RAW_OK"}
Onepass == decompress_data = "decompress_onepass"

(* The call on the stack fits the state it put the object in.              *)
CallOK ==
    /\ call = "read" => InPass /\ output_scanline < total_iMCU_rows
    /\ call = "output_pass_setup" => global_state = "PRESCAN"
    /\ call = "start_decompress" => global_state = "PRELOAD"
    /\ call = "finish_output" => global_state = "BUFPOST"
    /\ call = "read_coefficients" => global_state = "RDCOEFS"
    /\ call = "read_header" => global_state = "INHEADER"
    /\ call = "consume_input" => global_state \in Consuming
    /\ call = "finish_decompress" => global_state = "STOPPING"

(* What each state says of the input side and of the modules selected.     *)
PhaseOK ==
    /\ (decompress_data = "none") <=> ~ Active
    /\ global_state \in {"INHEADER", "READY"}
         => consume_input = "consume_markers"
    /\ global_state = "INHEADER" /\ call # "error"
         => inheaders /\ input_scan_number = 0
    /\ global_state = "READY"
         => ~ eoi_reached /\ input_scan_number = 1
    /\ global_state \notin {"START", "INHEADER"} => ~ inheaders
    /\ Onepass => ~ has_multiple_scans
    /\ Active /\ mode.buffered => Full
    /\ global_state \in {"BUFIMAGE", "BUFPOST", "RDCOEFS"} => Full
    /\ global_state = "PRELOAD" /\ Onepass => input_iMCU_row = 0
    /\ global_state \in {"PRELOAD", "BUFIMAGE", "BUFPOST"} => ~ is_dummy_pass

(* The coefficient arrays hold every scan before the current one in full   *)
(* and the current one down to the input row.                              *)
ScansStored ==
    \A r \in Rows :
        /\ whole_image[r] <= input_scan_number
        /\ whole_image[r] >= IF r < input_iMCU_row THEN input_scan_number
                                                   ELSE input_scan_number - 1

InputOK ==
    Active /\ call # "error" =>
        /\ consume_input = "consume_markers"
             <=> input_iMCU_row = total_iMCU_rows
        /\ Full => consume_input # "dummy_consume_data" /\ ScansStored
        /\ Onepass => consume_input # "consume_data"
        /\ eoi_reached => consume_input = "consume_markers"

Good(rows, n) == \A r \in Rows : r < n => rows[r].scan >= Promised

PassOK ==
    PassState =>
        /\ post_mode \in {"PASS_THRU", "SAVE_AND_PASS", "CRANK_DEST"}
        /\ is_dummy_pass <=> post_mode = "SAVE_AND_PASS"
        /\ is_dummy_pass => global_state = "PRESCAN"
        /\ post_mode # "CRANK_DEST" => output_iMCU_row = output_scanline
        /\ Onepass => /\ pass_target <= input_scan_number
                      /\ input_iMCU_row = output_iMCU_row
        /\ Full => output_scan_number >= Promised
        /\ post_mode = "SAVE_AND_PASS" => Good(saved, output_scanline)
        /\ post_mode = "CRANK_DEST" => Good(saved, total_iMCU_rows)
        /\ post_mode # "SAVE_AND_PASS" => Good(image, output_scanline)

IndInv == TypeOK /\ CallOK /\ PhaseOK /\ InputOK /\ PassOK
-----------------------------------------------------------------------------
(* The part of the type invariant that a consume_input method can touch.   *)
InputTypeOK ==
    /\ rd \in Nat /\ wr \in Nat /\ rd <= wr /\ wr <= Len(file)
    /\ saw_SOF \in BOOLEAN
    /\ num_components \in Nat
    /\ progressive_mode \in BOOLEAN
    /\ input_scan_number \in Nat
    /\ comps_in_scan \in Nat
    /\ Ss \in Nat
    /\ consume_input \in {"consume_markers", "consume_data",
                          "dummy_consume_data"}
    /\ has_multiple_scans \in BOOLEAN
    /\ eoi_reached \in BOOLEAN
    /\ inheaders \in BOOLEAN
    /\ input_iMCU_row \in 0 .. total_iMCU_rows
    /\ MCU_vert_offset \in Nat
    /\ MCU_ctr \in Nat
    /\ whole_image \in [Rows -> Nat]
    /\ output_scan_number \in Nat

(* Clauses of InputOK once a scan is being read and no error has occurred. *)
RowsOK ==
    /\ consume_input = "consume_markers"
         <=> input_iMCU_row = total_iMCU_rows
    /\ Full => consume_input # "dummy_consume_data" /\ ScansStored
    /\ Onepass => consume_input # "consume_data"
    /\ eoi_reached => consume_input = "consume_markers"

(* How input may move the scan counters: the scan number only grows, and   *)
(* never after EOI; the target moves only at EOI, down to the last scan.   *)
CountersStep ==
    /\ input_scan_number' >= input_scan_number
    /\ eoi_reached => /\ eoi_reached'
                      /\ input_scan_number' = input_scan_number
                      /\ output_scan_number' = output_scan_number
    /\ ~ eoi_reached /\ ~ eoi_reached'
         => output_scan_number' = output_scan_number
    /\ ~ eoi_reached /\ eoi_reached'
         => /\ input_scan_number' = input_scan_number
            /\ ~ inheaders => output_scan_number' =
                                 Least(output_scan_number, input_scan_number)

(* While headers are read nothing but the first SOS leaves header mode.    *)
HeaderEffect(r) ==
    /\ consume_input' = "consume_markers"
    /\ r \in {"MORE", "SUSPENDED", "EOI"}
         => inheaders' /\ input_scan_number' = 0
    /\ r = "SOS" => /\ ~ inheaders' /\ input_scan_number' = 1
                    /\ ~ eoi_reached'

ScanEffect(r) ==
    /\ ~ inheaders'
    /\ r # "ERROR" => RowsOK'
    /\ Onepass => /\ input_iMCU_row' = input_iMCU_row
                  /\ has_multiple_scans' = has_multiple_scans

(* A unit of a datastream is well formed.                                  *)
LEMMA UnitType ==
    ASSUME TypeOK, HaveData
    PROVE  /\ NextUnit \in Unit
           /\ rd + 1 <= wr /\ rd + 1 \in Nat
BY FilesAssumption DEF TypeOK, HaveData, NoFile, NextUnit

(* consume_markers, one marker at a time.                                  *)
LEMMA ConsumeMarkersStep ==
    ASSUME TypeOK, NEW r, ConsumeMarkers(r), file' = file, wr' = wr,
           decompress_data' = decompress_data,
           consume_input = "consume_markers"
    PROVE  /\ InputTypeOK' /\ CountersStep
           /\ global_state = "INHEADER" /\ inheaders /\ input_scan_number = 0
                => HeaderEffect(r)
           /\ RowsOK /\ ~ inheaders /\ decompress_data # "none"
              /\ (Onepass => ~ has_multiple_scans) => ScanEffect(r)
<1> USE ConstantsAssumption DEF InputTypeOK, CountersStep, HeaderEffect,
        ScanEffect, RowsOK, Full, Onepass, inctl, coef
<1>1. CASE eoi_reached /\ r = "EOI" /\ UNCHANGED input
  BY <1>1, SMT DEF input, marker, TypeOK, ScansStored
<1>2. CASE ~ eoi_reached /\ r = "SUSPENDED" /\ SuspendInMarkers
  <2>1. comps_in_scan' \in Nat /\ Ss' \in Nat
    <3>1. CASE UNCHANGED <<comps_in_scan, Ss>>
      BY <3>1, SMT DEF TypeOK
    <3>2. CASE /\ rd < Len(file) /\ NextUnit.m = "sos" /\ saw_SOF
               /\ comps_in_scan' = NextUnit.comps
               /\ Ss' \in {Ss, NextUnit.Ss}
      <4>1. NextUnit \in Unit
        BY <3>2, FilesAssumption, SMT DEF NextUnit, TypeOK, NoFile
      <4> QED
        BY <3>2, <4>1, SMT DEF Unit, TypeOK
    <3> QED
      BY <1>2, <3>1, <3>2 DEF SuspendInMarkers
  <2> QED
    BY <1>2, <2>1, SMT DEF SuspendInMarkers, TypeOK, ScansStored
<1>3. CASE ~ eoi_reached /\ r = "MORE" /\ SkipGarbage
  BY <1>3, UnitType, SMT DEF SkipGarbage, marker, TypeOK, ScansStored
<1>4. CASE ~ eoi_reached /\ GetSOF(r)
  <2>1. /\ NextUnit.comps \in Nat /\ NextUnit.prog \in BOOLEAN
        /\ rd' = rd + 1 /\ rd + 1 <= wr /\ rd + 1 \in Nat
    BY <1>4, UnitType, SMT DEF GetSOF, Unit
  <2>2. /\ r \in {"MORE", "ERROR"}
        /\ UNCHANGED <<input_scan_number, comps_in_scan, Ss, inctl, coef,
                       output_scan_number>>
        /\ num_components' \in {num_components, NextUnit.comps}
        /\ progressive_mode' \in {progressive_mode, NextUnit.prog}
        /\ saw_SOF' \in {saw_SOF, TRUE}
    BY <1>4, Zenon DEF GetSOF
  <2>3. saw_SOF' \in BOOLEAN /\ progressive_mode' \in BOOLEAN
    BY <2>1, <2>2, Zenon DEF TypeOK
  <2>4. InputTypeOK'
    BY <2>1, <2>2, <2>3, SMT DEF TypeOK
  <2> QED
    BY <1>4, <2>2, <2>4, SMT DEF TypeOK, ScansStored
<1>5. CASE ~ eoi_reached /\ GetSOS(r)
  <2>1. /\ NextUnit.comps \in Nat /\ NextUnit.Ss \in Nat
        /\ rd' = rd + 1 /\ rd + 1 <= wr /\ rd + 1 \in Nat
    BY <1>5, UnitType, SMT DEF GetSOS, Unit
  <2>2. UNCHANGED <<saw_SOF, num_components, progressive_mode,
                    output_scan_number>>
    BY <1>5, Zenon DEF GetSOS
  <2>3. CASE ~ saw_SOF
    BY <1>5, <2>3, <2>1, <2>2 DEF GetSOS, TypeOK
  <2>4. CASE saw_SOF
    <3>1. /\ input_scan_number' = input_scan_number + 1
          /\ comps_in_scan' = NextUnit.comps /\ Ss' = NextUnit.Ss
      BY <1>5, <2>4, Zenon DEF GetSOS
    <3>2. CASE /\ inheaders /\ r = "SOS" /\ inheaders' = FALSE
               /\ has_multiple_scans' \in BOOLEAN
               /\ UNCHANGED <<consume_input, eoi_reached, coef>>
      <4>1. has_multiple_scans' \in BOOLEAN /\ inheaders' \in BOOLEAN
        BY <3>2, Zenon
      <4>2. InputTypeOK'
        BY <3>2, <2>1, <2>2, <3>1, <4>1 DEF TypeOK
      <4> QED
        BY <1>5, <2>2, <3>1, <3>2, <4>2, SMT DEF TypeOK
    <3>3. CASE ~ inheaders /\ r = "ERROR" /\ UNCHANGED <<inctl, coef>>
      BY <1>5, <2>1, <2>2, <3>1, <3>3, SMT DEF TypeOK
    <3>4. CASE /\ ~ inheaders /\ has_multiple_scans /\ r = "SOS"
               /\ StartInputPass("consume_data")
               /\ UNCHANGED <<has_multiple_scans, eoi_reached, inheaders,
                              whole_image>>
      <4>1. ASSUME RowsOK, Full PROVE ScansStored'
        BY <4>1, <3>1, <3>4 DEF StartInputPass, TypeOK, ScansStored, Rows
      <4> QED
        BY <1>5, <3>4, <2>1, <2>2, <3>1, <4>1 DEF StartInputPass, TypeOK
    <3> QED
      BY <1>5, <2>4, <3>2, <3>3, <3>4, Zenon DEF GetSOS
  <2> QED
    BY <2>3, <2>4, Zenon
<1>6. CASE ~ eoi_reached /\ GetEOI(r)
  BY <1>6, UnitType, SMT DEF GetEOI, marker, ClampedTarget, Least, TypeOK,
     ScansStored
<1> QED
  BY <1>1, <1>2, <1>3, <1>4, <1>5, <1>6 DEF ConsumeMarkers

(* One turn of the MCU loop: the row counter moves on exactly when a row   *)
(* is done, and the scan ends with the last row.                           *)
DecodeEffect(r) ==
    /\ r \in {"SUSPENDED", "MORE", "ROW", "SCAN"}
    /\ ~ RowDone(r) => /\ input_iMCU_row' = input_iMCU_row
                       /\ consume_input' = consume_input
    /\ RowDone(r) => /\ input_iMCU_row' = input_iMCU_row + 1
                     /\ consume_input' = IF input_iMCU_row' = total_iMCU_rows
                                         THEN "consume_markers"
                                         ELSE consume_input

LEMMA DecodeRowStep ==
    ASSUME TypeOK, NEW r, DecodeRow(r), input_iMCU_row < total_iMCU_rows
    PROVE  /\ rd' \in Nat /\ rd' <= wr
           /\ MCU_ctr' \in Nat /\ MCU_vert_offset' \in Nat
           /\ DecodeEffect(r)
<1> USE ConstantsAssumption DEF DecodeEffect, RowDone
<1>1. CASE ~ HaveData
  BY <1>1, SMT DEF DecodeRow, TypeOK
<1>2. CASE HaveData
  BY <1>2, UnitType DEF DecodeRow, TypeOK, LastIMCURow
<1> QED
  BY <1>1, <1>2

LEMMA ConsumeDataStep ==
    ASSUME TypeOK, NEW r, ConsumeData(r), file' = file, wr' = wr,
           decompress_data' = decompress_data,
           consume_input = "consume_data", RowsOK, Full, ~ inheaders
    PROVE  InputTypeOK' /\ CountersStep /\ ScanEffect(r)
<1> USE ConstantsAssumption
<1>1. input_iMCU_row < total_iMCU_rows
  BY SMT DEF RowsOK, TypeOK
<1>2. /\ rd' \in Nat /\ rd' <= wr
      /\ MCU_ctr' \in Nat /\ MCU_vert_offset' \in Nat
      /\ DecodeEffect(r)
  BY <1>1, DecodeRowStep DEF ConsumeData
<1>3. /\ UNCHANGED <<marker, has_multiple_scans, eoi_reached, inheaders,
                     output_scan_number>>
      /\ whole_image' = IF RowDone(r)
                        THEN [whole_image EXCEPT ![input_iMCU_row] =
                                                      input_scan_number]
                        ELSE whole_image
  BY Zenon DEF ConsumeData
<1>4. whole_image' \in [Rows -> Nat]
  BY <1>1, <1>3, SMT DEF TypeOK, Rows
<1>5. InputTypeOK'
  BY <1>2, <1>3, <1>1, <1>4 DEF InputTypeOK, marker, TypeOK, DecodeEffect, RowDone
<1>6. ScansStored'
  <2>1. ScansStored
    BY SMT DEF RowsOK
  <2>2. CASE RowDone(r)
    BY <1>1, <1>2, <1>3, <2>1, <2>2, SMT DEF DecodeEffect, ScansStored, Rows,
       TypeOK, marker
  <2>3. CASE ~ RowDone(r)
    BY <1>2, <1>3, <2>1, <2>3, SMT DEF DecodeEffect, ScansStored, Rows,
       TypeOK, marker
  <2> QED
    BY <2>2, <2>3
<1>7. Full' /\ ~ Onepass' /\ ~ Onepass /\ ~ inheaders' /\ ~ eoi_reached'
  BY <1>3, SMT DEF Full, Onepass, RowsOK
<1> QED
  BY <1>5, <1>3, <1>6, <1>1, <1>2, <1>7, SMT DEF ScanEffect, RowsOK, CountersStep,
     marker, TypeOK, DecodeEffect, RowDone

(* What any call of the consume_input method does, seen by its callers.    *)
LEMMA ConsumeInputStep ==
    ASSUME IndInv, NEW r, ConsumeInput(r), file' = file, wr' = wr,
           decompress_data' = decompress_data, call # "error",
           global_state # "START"
    PROVE  /\ InputTypeOK' /\ CountersStep
           /\ global_state = "INHEADER" => HeaderEffect(r)
           /\ Active => ScanEffect(r)
<1>1. TypeOK /\ CallOK /\ PhaseOK /\ InputOK
  BY Zenon DEF IndInv
<1>2. ASSUME Active
      PROVE  /\ ~ inheaders /\ RowsOK /\ decompress_data # "none"
             /\ Onepass => ~ has_multiple_scans
  BY <1>1, <1>2, Zenon DEF InputOK, RowsOK, PhaseOK, Active
<1>3. ASSUME global_state = "INHEADER"
      PROVE  inheaders /\ input_scan_number = 0 /\ ~ Active
             /\ consume_input = "consume_markers"
  BY <1>1, <1>3, Zenon DEF PhaseOK, Active
<1>4. CASE consume_input = "consume_markers" /\ ConsumeMarkers(r)
  BY <1>1, <1>2, <1>3, <1>4, ConsumeMarkersStep, Zenon
<1>5. CASE consume_input = "consume_data" /\ ConsumeData(r)
  BY <1>1, <1>5, ConstantsAssumption, <1>2, ConsumeDataStep, <1>3 DEF PhaseOK, Active,
     TypeOK, RowsOK, Full, Onepass
<1>6. CASE consume_input = "dummy_consume_data" /\ r = "SUSPENDED"
           /\ UNCHANGED input
  <2>1. ASSUME Active PROVE ScanEffect(r)
    BY <1>2, <1>6, <2>1, SMT DEF input, marker, inctl, coef, ScanEffect,
       RowsOK, ScansStored, Full, Onepass
  <2> QED
    BY <1>1, <1>6, <2>1, <1>3, SMT DEF input, marker, inctl, coef, TypeOK, InputTypeOK,
       CountersStep
<1> QED
  BY <1>4, <1>5, <1>6, Zenon DEF ConsumeInput

-----------------------------------------------------------------------------
(* Whatever the input side does, the promise of the pass only falls, and   *)
(* the target output_scan_number stays at or above it.                     *)
LEMMA PromisedFalls ==
    ASSUME TypeOK, CountersStep, InputTypeOK', ~ inheaders,
           pass_target' = pass_target
    PROVE  /\ Promised' \in Nat /\ Promised \in Nat /\ Promised' <= Promised
           /\ output_scan_number >= Promised
                => output_scan_number' >= Promised'
<1>1. /\ input_scan_number \in Nat /\ output_scan_number \in Nat
      /\ pass_target \in Nat
      /\ input_scan_number' \in Nat /\ output_scan_number' \in Nat
  BY Zenon DEF TypeOK, InputTypeOK
<1>2. CASE eoi_reached
  BY <1>2, <1>1 DEF CountersStep, Promised, Least
<1>3. CASE ~ eoi_reached /\ ~ eoi_reached'
  BY <1>3, <1>1 DEF CountersStep, Promised
<1>4. CASE ~ eoi_reached /\ eoi_reached'
  BY <1>4, <1>1 DEF CountersStep, Promised, Least
<1> QED
  BY <1>2, <1>3, <1>4, Zenon

(* A lower promise is easier to keep.                                      *)
LEMMA GoodStays ==
    ASSUME NEW rows \in [Rows -> Row], NEW n \in Nat, Good(rows, n),
           Promised \in Nat, Promised' \in Nat, Promised' <= Promised
    PROVE  \A r \in Rows : r < n => rows[r].scan >= Promised'
BY SMT DEF Good, Row

(* A call that forces one step of input and changes nothing else keeps the *)
(* invariant: jpeg_consume_input, the loops of jpeg_start_decompress,      *)
(* jpeg_finish_output and jpeg_read_coefficients, and those of the         *)
(* decompress_data methods.                                                *)
LEMMA CallerStep ==
    ASSUME IndInv, Active, call # "error", NEW r, ConsumeInput(r),
           call' \in {call, "none", "error"}, r = "ERROR" => call' = "error",
           UNCHANGED <<global_state, params, file, wr, master, pass,
                       pass_target>>
    PROVE  IndInv'
<1> USE ConstantsAssumption
<1>1. TypeOK /\ CallOK /\ PhaseOK /\ InputOK /\ PassOK
  BY Zenon DEF IndInv
<1>2. /\ UNCHANGED <<global_state, mode, colormap, file, wr, is_dummy_pass,
                     decompress_data, post_mode, output_iMCU_row,
                     output_scanline, saved, image, pass_target>>
      /\ global_state # "START"
  BY SMT DEF params, master, pass, Active
<1>3. InputTypeOK' /\ CountersStep /\ ScanEffect(r)
  BY <1>2, ConsumeInputStep, Zenon
<1>4. TypeOK'
  <2>1. /\ global_state' = global_state /\ mode' = mode
        /\ colormap' = colormap /\ file' = file /\ wr' = wr
        /\ decompress_data' = decompress_data
        /\ output_iMCU_row' = output_iMCU_row
        /\ output_scanline' = output_scanline
        /\ is_dummy_pass' = is_dummy_pass /\ post_mode' = post_mode
        /\ saved' = saved /\ image' = image /\ pass_target' = pass_target
    BY <1>2, Zenon
  <2>2. /\ global_state' \in {"START", "INHEADER", "READY", "PRELOAD",
                              "PRESCAN", "SCANNING", "RAW_OK", "BUFIMAGE",
                              "BUFPOST", "RDCOEFS", "STOPPING"}
        /\ mode' \in Mode /\ colormap' \in BOOLEAN
        /\ file' \in Files \cup {NoFile}
        /\ decompress_data' \in {"none", "decompress_onepass",
                                 "decompress_data", "decompress_smooth_data"}
        /\ output_iMCU_row' \in Nat
        /\ output_scanline' \in 0 .. total_iMCU_rows
        /\ is_dummy_pass' \in BOOLEAN
        /\ post_mode' \in {"none", "PASS_THRU", "SAVE_AND_PASS",
                           "CRANK_DEST"}
        /\ saved' \in [Rows -> Row] /\ image' \in [Rows -> Row]
        /\ pass_target' \in Nat
    BY <1>1, <2>1, ZenonT(60) DEF TypeOK
  <2> QED
    BY <1>3, <2>2, <1>1 DEF TypeOK, InputTypeOK
<1>5. PhaseOK'
  BY <1>3, <1>1, <1>2 DEF ScanEffect, PhaseOK, Active, Onepass, Full
<1>6. PassOK'
  <2>1. /\ Promised' \in Nat /\ Promised \in Nat /\ Promised' <= Promised
        /\ output_scan_number >= Promised
             => output_scan_number' >= Promised'
    BY <1>1, <1>2, <1>3, PromisedFalls DEF PhaseOK, Active
  <2>2. /\ output_scanline \in Nat /\ total_iMCU_rows \in Nat
        /\ saved \in [Rows -> Row] /\ image \in [Rows -> Row]
    BY <1>1, SMT DEF TypeOK
  <2>3. input_scan_number' >= input_scan_number
        /\ input_scan_number \in Nat /\ input_scan_number' \in Nat
        /\ pass_target \in Nat
    BY <1>1, <1>3, Zenon DEF CountersStep, TypeOK, InputTypeOK
  <2> QED
    BY <1>1, <1>2, <2>1, <2>2, GoodStays, <1>3, <2>3, SMT DEF PassOK, PassState, Onepass,
       Full, ScanEffect, Good
<1> QED
  BY <1>4, <1>1, <1>2, <1>5, <1>3, <1>6 DEF IndInv, CallOK, InPass, InputOK, RowsOK,
     ScanEffect

-----------------------------------------------------------------------------
(* The invariant holds of a new decompression object.                      *)
LEMMA InitInv ==
    ASSUME Init
    PROVE  IndInv
<1> USE ConstantsAssumption
<1>1. DefaultMode \in Mode
  BY SMT DEF DefaultMode, Mode
<1>2. Blank \in [Rows -> Row]
  BY SMT DEF Blank, NoRow, Row
<1>3. TypeOK
  <2>1. /\ [r \in Rows |-> 0] \in [Rows -> Nat]
        /\ Len(NoFile) = 0 /\ 0 \in 0 .. total_iMCU_rows
        /\ 0 \in Nat /\ 0 <= 0
    BY SMT DEF NoFile
  <2>2. /\ rd = 0 /\ wr = 0 /\ file = NoFile
        /\ rd \in Nat /\ wr \in Nat /\ rd <= wr /\ wr <= Len(file)
    BY <2>1, Zenon DEF Init
  <2> QED
    BY <1>1, <1>2, <2>1, <2>2, Zenon DEF Init, TypeOK
<1>4. global_state = "START" /\ call = "none" /\ decompress_data = "none"
  BY Zenon DEF Init
<1> QED
  BY <1>3, <1>4, SMT DEF IndInv, CallOK, PhaseOK, InputOK, PassOK, Active,
     PassState, InPass, Onepass, Full

(* A step that takes or leaves the object outside the states in which the  *)
(* decompression modules exist.                                            *)
LEMMA InactiveStep ==
    ASSUME TypeOK', CallOK', global_state' \in {"START", "INHEADER", "READY"},
           decompress_data' = "none",
           global_state' # "START" => consume_input' = "consume_markers",
           global_state' = "INHEADER" /\ call' # "error"
             => inheaders' /\ input_scan_number' = 0,
           global_state' = "READY"
             => ~ eoi_reached' /\ input_scan_number' = 1 /\ ~ inheaders'
    PROVE  IndInv'
BY DEF Active, PassState, Onepass, Full, PhaseOK, InputOK, PassOK, IndInv

LEMMA HeaderInv ==
    ASSUME IndInv, HeaderStep
    PROVE  IndInv'
<1>1. TypeOK /\ PhaseOK /\ CallOK
  BY Zenon DEF IndInv
<1>2. PICK r \in Returns :
          /\ ConsumeInput(r)
          /\ \/ /\ r = "SOS"
                /\ global_state' = "READY" /\ call' = "none"
                /\ mode' = DefaultMode /\ colormap' = FALSE
             \/ /\ r = "EOI" /\ call = "consume_input" /\ call' = "none"
                /\ UNCHANGED <<global_state, params>>
             \/ /\ r = "EOI" /\ call = "read_header"
                /\ \/ call' = "error" /\ UNCHANGED global_state
                   \/ call' = "none" /\ global_state' = "START"
                /\ UNCHANGED params
             \/ /\ r \in {"MORE", "SUSPENDED", "ERROR"}
                /\ call' = NextCall(r)
                /\ UNCHANGED <<global_state, params>>
  BY Zenon DEF HeaderStep
<1>3. /\ UNCHANGED <<file, wr, is_dummy_pass, decompress_data, post_mode,
                     output_iMCU_row, output_scanline, saved, image,
                     pass_target>>
      /\ global_state = "INHEADER" /\ call # "error" /\ call \in {"read_header", "consume_input"}
  BY SMT DEF HeaderStep, sourceFrame, outputState, master, pass
<1>4. InputTypeOK' /\ HeaderEffect(r) /\ ConsumeInput(r)
  BY <1>2, <1>3, ConsumeInputStep, SMT
<1>5. mode' \in Mode /\ colormap' \in BOOLEAN
  <2>1. DefaultMode \in Mode
    BY SMT DEF DefaultMode, Mode
  <2>2. \/ mode' = DefaultMode /\ colormap' = FALSE
        \/ mode' = mode /\ colormap' = colormap
    BY <1>2, SMT DEF params
  <2> QED
    BY <1>1, <2>1, <2>2, Zenon DEF TypeOK
<1>6. /\ call' \in {"none", "error", call}
      /\ global_state' \in {"START", "INHEADER", "READY"}
      /\ global_state' = "READY" => r = "SOS" /\ call' = "none"
      /\ global_state' = "START" => call' = "none"
      /\ global_state' = "INHEADER" /\ call' # "error"
           => r \in {"MORE", "SUSPENDED", "EOI"}
  BY <1>2, <1>3, SMT DEF NextCall
<1>7. TypeOK'
  BY <1>1, <1>3, <1>6, <1>4, <1>5 DEF TypeOK, InputTypeOK
<1>8. consume_input' = "consume_markers"
  BY <1>4, Zenon DEF HeaderEffect
<1>9. /\ global_state' = "INHEADER" /\ call' # "error"
           => inheaders' /\ input_scan_number' = 0
      /\ global_state' = "READY"
           => ~ eoi_reached' /\ input_scan_number' = 1 /\ ~ inheaders'
  BY <1>4, <1>6, Zenon DEF HeaderEffect
<1> QED
  BY <1>6, <1>7, <1>3, <1>1, <1>8, <1>9, InactiveStep, SMT DEF CallOK, Consuming,
     PhaseOK, Active

LEMMA BeginInv ==
    ASSUME IndInv, BeginDatastream, call' \in {"read_header", "consume_input"},
           UNCHANGED <<params, outputState>>
    PROVE  IndInv'
<1> USE ConstantsAssumption
<1>1. TypeOK /\ PhaseOK
  BY Zenon DEF IndInv
<1>2. PICK f \in Files : file' = f
  BY Zenon DEF BeginDatastream
<1>3. /\ UNCHANGED <<mode, colormap, is_dummy_pass, decompress_data, post_mode,
                     output_iMCU_row, output_scanline, saved, image,
                     pass_target, num_components, progressive_mode,
                     comps_in_scan, Ss, input_iMCU_row, MCU_vert_offset,
                     MCU_ctr, whole_image, output_scan_number>>
      /\ global_state = "START" /\ global_state' = "INHEADER"
      /\ rd' = 0 /\ wr' = 0 /\ input_scan_number' = 0
      /\ consume_input' = "consume_markers"
  BY SMT DEF BeginDatastream, params, outputState, master, pass, coef
<1>4. /\ has_multiple_scans' \in BOOLEAN /\ eoi_reached' \in BOOLEAN
      /\ inheaders' /\ inheaders' \in BOOLEAN /\ saw_SOF' \in BOOLEAN
  BY Zenon DEF BeginDatastream
<1>5. decompress_data' = "none"
  BY <1>1, <1>3, SMT DEF PhaseOK, Active
<1> QED
  BY <1>3, <1>4, <1>1, <1>2, FilesAssumption, <1>5, InactiveStep DEF CallOK, Consuming,
     TypeOK

(* A step that only puts a call on the stack, or takes one off.            *)
LEMMA CallChange ==
    ASSUME IndInv, CallOK',
           UNCHANGED <<global_state, params, file, wr, input, master, pass,
                       pass_target>>,
           call # "error" \/ call' = call,
           call' \in {"none", "error", "read_header", "consume_input",
                 "start_decompress", "output_pass_setup", "read",
                 "finish_output", "read_coefficients", "finish_decompress"}
    PROVE  IndInv'
<1>1. TypeOK /\ CallOK /\ PhaseOK /\ InputOK /\ PassOK
  BY Zenon DEF IndInv
<1>2. UNCHANGED <<global_state, mode, colormap, file, wr, is_dummy_pass,
                  decompress_data, post_mode, output_iMCU_row,
                  output_scanline, saved, image, pass_target, rd, saw_SOF,
                  num_components, progressive_mode, input_scan_number,
                  comps_in_scan, Ss, consume_input, has_multiple_scans,
                  eoi_reached, inheaders, input_iMCU_row, MCU_vert_offset,
                  MCU_ctr, whole_image, output_scan_number>>
  BY SMT DEF params, master, pass, input, marker, inctl, coef
<1>3. InputOK'
  BY <1>1, <1>2, SMT DEF InputOK, ScansStored, Active, Onepass, Full
<1>4. PassOK'
  BY <1>1, <1>2, SMT DEF PassOK, PassState, Onepass, Full, Good, Promised
<1> QED
  BY <1>1, <1>2, <1>3, <1>4, SMT DEF IndInv, TypeOK, PhaseOK, Active, Onepass, Full

LEMMA ReadHeaderInv ==
    ASSUME IndInv, ReadHeader
    PROVE  IndInv'
BY BeginInv, CallChange, SMT DEF ReadHeader, Enter, Idle, sourceFrame, outputState, CallOK

LEMMA JpegConsumeInputInv ==
    ASSUME IndInv, JpegConsumeInput
    PROVE  IndInv'
BY BeginInv, CallChange, SMT DEF JpegConsumeInput, Idle, sourceFrame, outputState, CallOK

LEMMA ReadRowsInv ==
    ASSUME IndInv, ReadRows
    PROVE  IndInv'
BY CallChange DEF ReadRows, Enter, Idle, sourceFrame, outputState, InPass, pass, CallOK

LEMMA StutterInv ==
    ASSUME IndInv, UNCHANGED vars
    PROVE  IndInv'
BY CallChange DEF vars, api, pass, IndInv, CallOK, InPass, TypeOK

LEMMA ArriveInv ==
    ASSUME IndInv, Arrive
    PROVE  IndInv'
<1>1. TypeOK /\ CallOK /\ PhaseOK /\ InputOK /\ PassOK
  BY Zenon DEF IndInv
<1>2. /\ wr' = wr + 1 /\ wr < Len(file)
      /\ UNCHANGED <<global_state, call, mode, colormap, file, is_dummy_pass,
                  decompress_data, post_mode, output_iMCU_row,
                  output_scanline, saved, image, pass_target, rd, saw_SOF,
                  num_components, progressive_mode, input_scan_number,
                  comps_in_scan, Ss, consume_input, has_multiple_scans,
                  eoi_reached, inheaders, input_iMCU_row, MCU_vert_offset,
                  MCU_ctr, whole_image, output_scan_number>>
  BY SMT DEF Arrive, api, params, outputState, master, pass, input, marker,
     inctl, coef
<1>3. TypeOK'
  BY <1>1, <1>2, FilesAssumption DEF TypeOK, NoFile
<1>4. InputOK'
  BY <1>1, <1>2, SMT DEF InputOK, ScansStored, Active, Onepass, Full
<1>5. PassOK'
  BY <1>1, <1>2, SMT DEF PassOK, PassState, Onepass, Full, Good, Promised
<1> QED
  BY <1>3, <1>1, <1>2, <1>4, <1>5 DEF IndInv, CallOK, PhaseOK, Active, Onepass, Full,
     InPass

(* The callers of consume_input.                                           *)
LEMMA ForcedInputInv ==
    ASSUME IndInv, ConsumeStep \/ PreloadStep \/ ForceInput
    PROVE  IndInv'
<1>1. TypeOK /\ CallOK /\ PhaseOK
  BY Zenon DEF IndInv
<1>2. CASE ConsumeStep
  <2>1. PICK r \in Returns :
            /\ ConsumeInput(r)
            /\ call' = IF r \in {"ROW", "SCAN", "SOS", "EOI"} THEN "none"
                                                            ELSE NextCall(r)
    BY <1>2, Zenon DEF ConsumeStep
  <2>2. /\ call' \in {call, "none", "error"}
        /\ r = "ERROR" => call' = "error"
    BY <2>1, SMT DEF NextCall
  <2> QED
    BY <2>1, <1>2, <1>1, <2>2, CallerStep, SMT DEF CallOK, Consuming, Active, ConsumeStep,
       sourceFrame, outputState
<1>3. CASE PreloadStep
  <2>1. PICK r \in Returns : ConsumeInput(r) /\ call' = NextCall(r)
    BY <1>3, Zenon DEF PreloadStep
  <2>2. /\ call' \in {call, "none", "error"}
        /\ r = "ERROR" => call' = "error"
    BY <2>1, SMT DEF NextCall
  <2> QED
    BY <2>1, <1>3, <1>1, <2>2, CallerStep, SMT DEF CallOK, Active, PreloadStep,
       sourceFrame, outputState
<1>4. CASE ForceInput
  <2>1. PICK r \in Returns : ConsumeInput(r) /\ call' = NextCall(r)
    BY <1>4, Zenon DEF ForceInput
  <2>2. /\ call' \in {call, "none", "error"}
        /\ r = "ERROR" => call' = "error"
    BY <2>1, SMT DEF NextCall
  <2> QED
    BY <2>1, <1>4, <1>1, <2>2, CallerStep, SMT DEF CallOK, Active, InPass, ForceInput,
       outputFrame, Decoding
<1> QED
  BY <1>2, <1>3, <1>4

(* Leaving for the states without an output pass; the input side and the   *)
(* modules selected stay as they are.                                      *)
LEMMA LeavePass ==
    ASSUME IndInv, CallOK', Active, call # "error",
           call' \in {"none", "finish_output", "finish_decompress"},
           \/ global_state' = "STOPPING"
           \/ global_state' \in {"BUFIMAGE", "BUFPOST"} /\ Full /\ ~ is_dummy_pass,
           output_scanline' \in 0 .. total_iMCU_rows,
           UNCHANGED <<params, file, wr, input, master, output_iMCU_row,
                       saved, image, pass_target>>
    PROVE  IndInv'
<1>1. TypeOK /\ CallOK /\ PhaseOK /\ InputOK /\ PassOK
  BY Zenon DEF IndInv
<1>2. /\ UNCHANGED <<mode, colormap, file, wr, is_dummy_pass,
                  decompress_data, post_mode, output_iMCU_row,
                  saved, image, pass_target, rd, saw_SOF,
                  num_components, progressive_mode, input_scan_number,
                  comps_in_scan, Ss, consume_input, has_multiple_scans,
                  eoi_reached, inheaders, input_iMCU_row, MCU_vert_offset,
                  MCU_ctr, whole_image, output_scan_number>>
      /\ global_state' \in {"STOPPING", "BUFIMAGE", "BUFPOST"}
      /\ Active'
  BY SMT DEF params, master, input, marker, inctl, coef, Active
<1>3. InputOK'
  BY <1>1, <1>2, SMT DEF InputOK, ScansStored, Active, Onepass, Full
<1>4. PassOK'
  BY <1>2, SMT DEF PassOK, PassState
<1> QED
  BY <1>1, <1>2, <1>3, <1>4, SMT DEF IndInv, TypeOK, PhaseOK, Active, Onepass, Full

LEMMA FinishOutputInv ==
    ASSUME IndInv, FinishOutput \/ FinishOutputStep
    PROVE  IndInv'
<1>1. TypeOK /\ CallOK /\ PhaseOK /\ PassOK
  BY Zenon DEF IndInv
<1>2. CASE FinishOutput
  <2>1. /\ UNCHANGED <<params, file, wr, input, master, output_iMCU_row,
                       output_scanline, saved, image, pass_target>>
        /\ call = "none" /\ call' = "finish_output"
        /\ global_state' = "BUFPOST"
    BY <1>2, SMT DEF FinishOutput, Enter, Idle, sourceFrame, outputState, pass
  <2>2. Active /\ Full /\ ~ is_dummy_pass
    BY <1>1, <1>2 DEF PhaseOK, PassOK, PassState, Active, Full, FinishOutput
  <2> QED
    BY <2>1, <2>2, <1>1, LeavePass DEF CallOK, TypeOK
<1>3. CASE FinishOutputStep /\ AwaitsMarker
  <2>1. PICK r \in Returns : ConsumeInput(r) /\ call' = NextCall(r)
    BY <1>3, Zenon DEF FinishOutputStep
  <2>2. /\ call' \in {call, "none", "error"}
        /\ r = "ERROR" => call' = "error"
    BY <2>1, SMT DEF NextCall
  <2> QED
    BY <2>1, <1>3, <1>1, <2>2, CallerStep, SMT DEF CallOK, Active, FinishOutputStep,
       sourceFrame, outputState
<1>4. CASE FinishOutputStep /\ ~ AwaitsMarker
  BY <1>4, <1>1, LeavePass DEF FinishOutputStep, sourceFrame, outputState, pass, CallOK,
     PhaseOK, Active, Full, TypeOK
<1> QED
  BY <1>2, <1>3, <1>4

LEMMA ReadCoefficientsStepInv ==
    ASSUME IndInv, ReadCoefficientsStep
    PROVE  IndInv'
<1>1. TypeOK /\ CallOK
  BY Zenon DEF IndInv
<1>2. call = "read_coefficients" /\ Active
  BY <1>1, SMT DEF ReadCoefficientsStep, CallOK, Active
<1>3. CASE eoi_reached
  BY <1>3, <1>1, <1>2, LeavePass DEF ReadCoefficientsStep, sourceFrame, outputState, pass,
     CallOK, TypeOK
<1>4. CASE ~ eoi_reached
  <2>1. PICK r \in Returns : ConsumeInput(r) /\ call' = NextCall(r)
    BY <1>4, Zenon DEF ReadCoefficientsStep
  <2> QED
    BY <1>2, <2>1, <1>4, CallerStep, SMT DEF ReadCoefficientsStep, sourceFrame,
       outputState, NextCall
<1> QED
  BY <1>3, <1>4

LEMMA FinishDecompressInv ==
    ASSUME IndInv, FinishDecompress
    PROVE  IndInv'
<1>1. /\ UNCHANGED <<params, file, wr, input, master, output_iMCU_row,
                     saved, image, pass_target>>
      /\ call = "none" /\ call' = "finish_decompress"
      /\ global_state' = "STOPPING"
  BY SMT DEF FinishDecompress, Enter, Idle, sourceFrame
<1>2. output_scanline' \in 0 .. total_iMCU_rows
  BY ConstantsAssumption DEF FinishDecompress, TypeOK, IndInv
<1> QED
  BY <1>1, <1>2, LeavePass, SMT DEF FinishDecompress, Active, CallOK

(* jpeg_abort, called by the application or by jpeg_finish_decompress.     *)
LEMMA AbortInv ==
    ASSUME IndInv, JpegAbort \/ FinishDecompressStep
    PROVE  IndInv'
<1>1. /\ call' = "none" /\ global_state' = "START" /\ FreeImagePool
      /\ UNCHANGED <<params, sourceFrame, rd, marker, inctl, input_iMCU_row,
                     output_scan_number, output_iMCU_row, output_scanline>>
  BY Zenon DEF JpegAbort, FinishDecompressStep
<1>2. /\ UNCHANGED <<mode, colormap, file, wr, rd, saw_SOF, num_components,
                     progressive_mode, input_scan_number, comps_in_scan, Ss,
                     consume_input, has_multiple_scans, eoi_reached,
                     inheaders, input_iMCU_row, output_scan_number,
                     output_iMCU_row, output_scanline>>
      /\ MCU_vert_offset' = 0 /\ MCU_ctr' = 0
      /\ decompress_data' = "none" /\ post_mode' = "none"
      /\ saved' = Blank /\ image' = Blank /\ pass_target' = 0
      /\ whole_image' = [r \in Rows |-> 0]
  BY <1>1, SMT DEF FreeImagePool, params, sourceFrame, marker, inctl
<1>3. is_dummy_pass' \in BOOLEAN
  BY <1>1, Zenon DEF FreeImagePool
<1>4. Blank \in [Rows -> Row] /\ whole_image' \in [Rows -> Nat]
  BY <1>2, SMT DEF Blank, NoRow, Row
<1>5. TypeOK'
  BY <1>1, <1>2, <1>3, <1>4 DEF TypeOK, IndInv
<1> QED
  BY <1>1, <1>2, <1>5, InactiveStep DEF CallOK

(* master_selection: the controllers of a new decompression.               *)
LEMMA SelectInv ==
    ASSUME IndInv, CallOK', global_state = "READY", NEW full \in BOOLEAN,
           SelectCoefController(full), mode' \in Mode, call # "error",
           global_state' \in {"PRELOAD", "BUFIMAGE", "RDCOEFS"},
           global_state' # "PRELOAD" \/ mode'.buffered => full,
           has_multiple_scans => full,
           call' \in {"none", "start_decompress", "read_coefficients"},
           UNCHANGED <<colormap, sourceFrame, rd, marker, has_multiple_scans,
                       eoi_reached, inheaders, output_scan_number, pass,
                       pass_target>>
    PROVE  IndInv'
<1> USE ConstantsAssumption
<1>1. TypeOK /\ PhaseOK
  BY Zenon DEF IndInv
<1>2. /\ UNCHANGED <<colormap, file, wr, rd, saw_SOF, num_components,
                     progressive_mode, input_scan_number, comps_in_scan, Ss,
                     has_multiple_scans, eoi_reached, inheaders,
                     output_scan_number, output_iMCU_row, output_scanline,
                     saved, image, pass_target>>
      /\ input_iMCU_row' = 0 /\ MCU_vert_offset' = 0 /\ MCU_ctr' = 0
      /\ post_mode' = "none"
      /\ whole_image' = [r \in Rows |-> 0]
  BY SMT DEF SelectCoefController, StartInputPass, sourceFrame, marker, pass
<1>3. /\ is_dummy_pass' = FALSE /\ is_dummy_pass' \in BOOLEAN
      /\ full => /\ decompress_data' = "decompress_data"
                 /\ consume_input' = "consume_data"
      /\ ~ full => /\ decompress_data' = "decompress_onepass"
                   /\ consume_input' = "dummy_consume_data"
  BY Zenon DEF SelectCoefController, StartInputPass
<1>4. InputOK'
  BY <1>1, <1>2, <1>3 DEF PhaseOK, ScansStored, Rows, InputOK, Onepass, Full
<1>5. PassOK'
  BY SMT DEF PassOK, PassState
<1> QED
  BY <1>2, <1>3, <1>1, <1>4, <1>5 DEF IndInv, PhaseOK, Active, Onepass, Full, TypeOK

LEMMA StartDecompressInv ==
    ASSUME IndInv, StartDecompress
    PROVE  IndInv'
<1> USE ConstantsAssumption
<1>1. /\ UNCHANGED <<colormap, sourceFrame, rd, marker, has_multiple_scans,
                   eoi_reached, inheaders, output_scan_number, pass,
                   pass_target>>
      /\ call = "none"
  BY Zenon DEF StartDecompress, Idle
<1>2. ASSUME NEW m \in Modes,
             global_state = "READY",
             mode' = [m EXCEPT !.enable = EnabledQuantizers(m)],
             SelectCoefController(has_multiple_scans \/ m.buffered),
             IF m.buffered
                THEN global_state' = "BUFIMAGE" /\ call' = "none"
                ELSE global_state' = "PRELOAD" /\ call' = "start_decompress"
      PROVE  IndInv'
  <2>1. mode' \in Mode /\ mode'.buffered = m.buffered
    BY <1>2 DEF Mode, EnabledQuantizers, Quantizers
  <2>2. PICK full \in BOOLEAN : full = (has_multiple_scans \/ m.buffered)
    BY Zenon
  <2>3. /\ has_multiple_scans => full
        /\ global_state' # "PRELOAD" \/ mode'.buffered => full
    BY <2>2, <1>2, <2>1, Zenon
  <2>4. call # "error"
    BY <1>1, SMT
  <2> QED
    BY <1>1, <1>2, <2>1, <2>3, <2>2, <2>4, SelectInv DEF CallOK
<1>3. CASE /\ global_state \in {"PRELOAD", "PRESCAN"}
           /\ call' = IF global_state = "PRELOAD" THEN "start_decompress"
                                                  ELSE "output_pass_setup"
           /\ UNCHANGED <<global_state, mode, consume_input, coef, master>>
  BY <1>1, <1>3, CallChange DEF params, sourceFrame, input, inctl, CallOK
<1> QED
  BY <1>2, <1>3, Zenon DEF StartDecompress

LEMMA ReadCoefficientsInv ==
    ASSUME IndInv, ReadCoefficients
    PROVE  IndInv'
<1>1. /\ UNCHANGED <<colormap, sourceFrame, rd, marker, has_multiple_scans,
                   eoi_reached, inheaders, output_scan_number, pass,
                   pass_target>>
      /\ call = "none" /\ call' = "read_coefficients"
  BY Zenon DEF ReadCoefficients, Enter, Idle
<1>2. CASE /\ global_state = "READY" /\ global_state' = "RDCOEFS"
           /\ mode' = [mode EXCEPT !.buffered = TRUE]
           /\ SelectCoefController(TRUE)
  <2>1. PICK full \in BOOLEAN : full = TRUE
    BY Zenon
  <2> QED
    BY <1>1, <1>2, <2>1, SelectInv DEF CallOK, TypeOK, Mode, IndInv
<1>3. CASE /\ global_state = "RDCOEFS"
           /\ UNCHANGED <<global_state, mode, consume_input, coef, master>>
  BY <1>1, <1>3, CallChange DEF params, sourceFrame, input, inctl, CallOK
<1> QED
  BY <1>2, <1>3, Zenon DEF ReadCoefficients

(* output_pass_setup: a pass starts with nothing delivered.                *)
LEMMA SetUpInv ==
    ASSUME IndInv, global_state \in {"PRELOAD", "BUFIMAGE"}, call # "error",
           NEW smooth \in BOOLEAN, NEW md \in Mode, NEW cm \in BOOLEAN,
           SetUpPass(smooth, md, cm), mode' = md,
           md.buffered = mode.buffered,
           output_scan_number' \in Nat, pass_target' \in Nat,
           pass_target' <= output_scan_number',
           Onepass => pass_target' <= input_scan_number,
           UNCHANGED <<sourceFrame, rd, marker, inctl, coef>>
    PROVE  IndInv'
<1> USE ConstantsAssumption
<1>1. TypeOK /\ PhaseOK /\ InputOK
  BY Zenon DEF IndInv
<1>2. /\ UNCHANGED <<file, wr, rd, saw_SOF, num_components,
                     progressive_mode, input_scan_number, comps_in_scan, Ss,
                     consume_input, has_multiple_scans, eoi_reached,
                     inheaders, input_iMCU_row, MCU_vert_offset, MCU_ctr,
                     whole_image, saved>>
      /\ output_scanline' = 0 /\ image' = Blank
      /\ global_state' = "PRESCAN" /\ call' = "output_pass_setup"
  BY SMT DEF SetUpPass, sourceFrame, marker, inctl, coef
<1>3. /\ is_dummy_pass' = SelectsTwoPass(md, cm)
      /\ colormap' = (cm \/ SelectsOnePass(md, cm))
      /\ post_mode' = IF SelectsTwoPass(md, cm) THEN "SAVE_AND_PASS"
                                                ELSE "PASS_THRU"
      /\ StartOutputPass(smooth)
  BY <1>1 DEF SetUpPass, PrepareForOutputPass, PhaseOK
<1>4. /\ is_dummy_pass' \in BOOLEAN /\ colormap' \in BOOLEAN
      /\ post_mode' \in {"PASS_THRU", "SAVE_AND_PASS"}
      /\ is_dummy_pass' <=> post_mode' = "SAVE_AND_PASS"
  BY <1>3 DEF SelectsTwoPass
<1>5. /\ output_iMCU_row' = 0
      /\ Full => decompress_data' \in {"decompress_data",
                                       "decompress_smooth_data"}
      /\ ~ Full => decompress_data' = decompress_data
  BY <1>3, SMT DEF StartOutputPass
<1>6. (Full' <=> Full) /\ (Onepass' <=> Onepass)
      /\ decompress_data' \in {"decompress_onepass", "decompress_data",
                               "decompress_smooth_data"}
  BY <1>1, <1>5, SMT DEF Full, Onepass, PhaseOK, Active, TypeOK
<1>7. TypeOK'
  BY <1>1, <1>2, <1>4, <1>5, <1>6 DEF Blank, NoRow, Row, TypeOK, InputTypeOK
<1>8. InputOK'
  BY <1>1, <1>2, <1>6, SMT DEF InputOK, ScansStored, Active
<1>9. PassOK'
  <2>1. Promised' <= pass_target' /\ Promised' \in Nat
    <3>1. pass_target' \in Nat /\ input_scan_number' \in Nat
      BY <1>7, Zenon DEF TypeOK
    <3>2. CASE eoi_reached'
      BY <3>1, <3>2, SMT DEF Promised, Least
    <3>3. CASE ~ eoi_reached'
      BY <3>1, <3>3, SMT DEF Promised
    <3> QED
      BY <3>2, <3>3
  <2>2. output_scan_number' >= Promised'
    BY <2>1, SMT
  <2>3. global_state' = "PRESCAN" /\ post_mode' # "CRANK_DEST"
    BY <1>2, <1>4, SMT
  <2> QED
    BY <1>2, <1>4, <1>5, <1>6, <1>1, <2>2, <2>3, SMT DEF PassOK, PhaseOK, Onepass, Full,
       Good, Rows
<1> QED
  BY <1>7, <1>2, <1>1, <1>6, <1>8, <1>9 DEF IndInv, CallOK, PhaseOK, Active

LEMMA PreloadDoneInv ==
    ASSUME IndInv, PreloadDone
    PROVE  IndInv'
<1>1. TypeOK /\ CallOK
  BY Zenon DEF IndInv
<1>2. PICK smooth \in BOOLEAN : SetUpPass(smooth, mode, colormap)
  BY Zenon DEF PreloadDone
<1>3. /\ output_scan_number' = input_scan_number
      /\ pass_target' = input_scan_number
      /\ UNCHANGED <<mode, sourceFrame, rd, marker, inctl, coef>>
      /\ call = "start_decompress"
  BY Zenon DEF PreloadDone
<1>4. global_state = "PRELOAD" /\ call # "error"
  BY <1>1, <1>3, SMT DEF CallOK
<1>5. global_state \in {"PRELOAD", "BUFIMAGE"} /\ mode' = mode
  BY <1>3, <1>4, SMT
<1> QED
  BY <1>2, <1>3, <1>4, <1>1, <1>5, SetUpInv DEF TypeOK

LEMMA StartOutputInv ==
    ASSUME IndInv, StartOutput
    PROVE  IndInv'
<1>1. TypeOK /\ CallOK /\ PhaseOK /\ InputOK /\ PassOK
  BY Zenon DEF IndInv
<1>2. PICK n \in 0 .. MaxTarget :
          /\ output_scan_number' = LimitedTarget(n)
          /\ \/ NewPass(LimitedTarget(n))
             \/ /\ global_state = "PRESCAN" /\ call' = "output_pass_setup"
                /\ pass_target' = Least(pass_target, LimitedTarget(n))
                /\ UNCHANGED <<global_state, params, master, pass>>
  BY Zenon DEF StartOutput
<1>3. /\ UNCHANGED <<sourceFrame, rd, marker, inctl, coef>>
      /\ call = "none"
  BY Zenon DEF StartOutput, Idle
<1>4. LimitedTarget(n) \in Nat
  BY <1>1, ConstantsAssumption DEF TypeOK, LimitedTarget, Least
<1>5. CASE NewPass(LimitedTarget(n))
  <2>1. PICK smooth, two_pass, clear \in BOOLEAN :
          /\ global_state = "BUFIMAGE"
          /\ mode' = [mode EXCEPT !.two_pass = two_pass]
          /\ pass_target' = LimitedTarget(n)
          /\ \/ SetUpPass(smooth, [mode EXCEPT !.two_pass = two_pass],
                          colormap /\ ~ clear)
             \/ /\ colormap' = (colormap /\ ~ clear)
                /\ call' = "error"
                /\ UNCHANGED <<global_state, master, pass>>
    BY <1>5, Zenon DEF NewPass
  <2>2. [mode EXCEPT !.two_pass = two_pass] \in Mode
    BY <1>1, Zenon DEF TypeOK, Mode
  <2>3. [mode EXCEPT !.two_pass = two_pass].buffered = mode.buffered
    BY <1>1, SMT DEF TypeOK, Mode
  <2>4. (colormap /\ ~ clear) \in BOOLEAN
    BY Zenon
  <2>5. CASE SetUpPass(smooth, [mode EXCEPT !.two_pass = two_pass],
                       colormap /\ ~ clear)
    <3>1. /\ output_scan_number' \in Nat /\ pass_target' \in Nat
          /\ pass_target' <= output_scan_number'
      BY <1>2, <1>4, <2>1, SMT
    <3>2. PICK cm \in BOOLEAN : cm = (colormap /\ ~ clear)
      BY <2>4, Zenon
    <3>3. PICK md \in Mode : md = [mode EXCEPT !.two_pass = two_pass]
      BY <2>2, Zenon
    <3>4. SetUpPass(smooth, md, cm) /\ mode' = md /\ md.buffered = mode.buffered
      BY <2>1, <2>3, <2>5, <3>2, <3>3, Zenon
    <3> QED
      BY <1>3, <1>1, <2>1, <3>1, <3>4, SetUpInv, SMT DEF PhaseOK, Onepass, Full
  <2>6. CASE /\ colormap' = (colormap /\ ~ clear)
             /\ call' = "error"
             /\ UNCHANGED <<global_state, master, pass>>
    <3>1. /\ UNCHANGED <<file, wr, rd, saw_SOF, num_components,
                     progressive_mode, input_scan_number, comps_in_scan, Ss,
                     consume_input, has_multiple_scans, eoi_reached,
                     inheaders, input_iMCU_row, MCU_vert_offset, MCU_ctr,
                     whole_image, saved, image, output_iMCU_row,
                     output_scanline, decompress_data, is_dummy_pass,
                     post_mode>>
          /\ global_state' = "BUFIMAGE" /\ global_state = "BUFIMAGE"
          /\ call' = "error"
      BY <1>3, <2>1, <2>6, SMT DEF sourceFrame, marker, inctl, coef, master,
         pass
    <3>2. colormap' \in BOOLEAN /\ mode' \in Mode
          /\ mode'.buffered = mode.buffered
      BY <2>1, <2>2, <2>3, <2>4, <2>6, Zenon
    <3>3. output_scan_number' \in Nat /\ pass_target' \in Nat
      BY <1>2, <1>4, <2>1, Zenon
    <3>4. call' \in {"none", "error", "read_header", "consume_input",
              "start_decompress", "output_pass_setup", "read",
              "finish_output", "read_coefficients", "finish_decompress"}
      BY <3>1, SMT
    <3>5. TypeOK'
      BY <1>1, <3>1, <3>3, <3>2, <3>4 DEF TypeOK, InputTypeOK
    <3>6. PhaseOK'
      BY <1>1, <3>1 DEF PhaseOK, Full, Onepass, Active
    <3> QED
      BY <3>5, <3>1, <3>6 DEF IndInv, CallOK, InputOK, PassOK, PassState
  <2> QED
    BY <2>1, <2>5, <2>6, Zenon
<1>6. CASE /\ global_state = "PRESCAN" /\ call' = "output_pass_setup"
           /\ pass_target' = Least(pass_target, LimitedTarget(n))
           /\ UNCHANGED <<global_state, params, master, pass>>
  <2>1. /\ UNCHANGED <<mode, colormap, file, wr, rd, saw_SOF, num_components,
                     progressive_mode, input_scan_number, comps_in_scan, Ss,
                     consume_input, has_multiple_scans, eoi_reached,
                     inheaders, input_iMCU_row, MCU_vert_offset, MCU_ctr,
                     whole_image, saved, image, output_iMCU_row,
                     output_scanline, decompress_data, is_dummy_pass,
                     post_mode, global_state>>
        /\ global_state = "PRESCAN" /\ call' = "output_pass_setup"
    BY <1>3, <1>6, SMT DEF sourceFrame, params, marker, inctl, coef, master,
       pass
  <2>2. /\ pass_target' \in Nat /\ pass_target \in Nat
        /\ output_scan_number' \in Nat
        /\ pass_target' <= output_scan_number'
        /\ pass_target' <= pass_target
    BY <1>1, <1>2, <1>4, <1>6 DEF TypeOK, Least
  <2>3. InputOK'
    BY <1>1, <1>3, <2>1, SMT DEF InputOK, ScansStored, Active, Onepass, Full
  <2>4. /\ Promised \in Nat /\ Promised' \in Nat /\ Promised' <= Promised
        /\ Promised' <= output_scan_number'
    BY <1>1, <2>1, <2>2 DEF TypeOK, Promised, Least
  <2>5. /\ Good(saved, output_scanline) => Good(saved, output_scanline)'
        /\ Good(saved, total_iMCU_rows) => Good(saved, total_iMCU_rows)'
        /\ Good(image, output_scanline) => Good(image, output_scanline)'
    <3>1. /\ output_scanline \in Nat /\ total_iMCU_rows \in Nat
          /\ saved \in [Rows -> Row] /\ image \in [Rows -> Row]
      BY <1>1, ConstantsAssumption, SMT DEF TypeOK
    <3> QED
      BY <2>1, <2>4, <3>1, GoodStays, SMT DEF Good
  <2>6. PassOK'
    BY <1>1, <2>1, <2>2, <2>4, <2>5 DEF PassOK, PassState, Onepass, Full, TypeOK
  <2> QED
    BY <1>1, <2>1, <2>2, <2>3, <2>6, SMT DEF IndInv, TypeOK, CallOK, PhaseOK, Active,
       Onepass, Full
<1> QED
  BY <1>2, <1>5, <1>6, Zenon

(* One more row of the pass, good enough for the promise.                  *)
LEMMA DeliverInv ==
    ASSUME IndInv, PassState, NEW row \in Row, row.scan >= Promised,
           Deliver(row), output_scanline < total_iMCU_rows,
           call \in {"read", "output_pass_setup"},
           UNCHANGED <<outputFrame, input_scan_number, eoi_reached,
                       output_scan_number, inheaders, has_multiple_scans>>,
           InputTypeOK', InputOK', output_iMCU_row' \in Nat,
           post_mode # "CRANK_DEST" => output_iMCU_row' = output_scanline + 1,
           Onepass => input_iMCU_row' = output_iMCU_row'
    PROVE  IndInv'
<1> USE ConstantsAssumption
<1>1. TypeOK /\ CallOK /\ PhaseOK /\ PassOK
  BY Zenon DEF IndInv
<1>2. /\ UNCHANGED <<global_state, mode, colormap, file, wr, is_dummy_pass,
                     decompress_data, post_mode, pass_target,
                     input_scan_number, eoi_reached, output_scan_number,
                     inheaders, has_multiple_scans>>
      /\ output_scanline' = output_scanline + 1
      /\ call' = IF call = "read" THEN "none" ELSE call
  BY SMT DEF outputFrame, params, master, Deliver
<1>3. /\ saved \in [Rows -> Row] /\ image \in [Rows -> Row]
      /\ output_scanline \in Rows
  BY <1>1, SMT DEF TypeOK, Rows
<1>4. /\ post_mode = "SAVE_AND_PASS"
           => /\ saved' = [saved EXCEPT ![output_scanline] = row]
              /\ image' = image
      /\ post_mode # "SAVE_AND_PASS"
           => /\ image' = [image EXCEPT ![output_scanline] = row]
              /\ saved' = saved
  BY SMT DEF Deliver
<1>5. saved' \in [Rows -> Row] /\ image' \in [Rows -> Row]
  BY <1>3, <1>4, SMT
<1>6. call' \in {"none", "output_pass_setup"}
      /\ (call' = "output_pass_setup" => call = "output_pass_setup")
  BY <1>2, SMT
<1>7. TypeOK'
  <2>1. output_scanline' \in 0 .. total_iMCU_rows
    BY <1>2, <1>3, SMT DEF Rows
  <2>2. call' \in {"none", "error", "read_header", "consume_input",
                 "start_decompress", "output_pass_setup", "read",
                 "finish_output", "read_coefficients", "finish_decompress"}
    BY <1>6, SMT
  <2> QED
    BY <1>1, <1>2, <1>5, <2>1, <2>2, SMTT(40) DEF TypeOK, InputTypeOK
<1>8. PassOK'
  <2>1. Promised' = Promised
    BY <1>2, SMT DEF Promised
  <2>2. /\ post_mode = "SAVE_AND_PASS" => Good(saved, output_scanline)
        /\ post_mode = "CRANK_DEST" => Good(saved, total_iMCU_rows)
        /\ post_mode # "SAVE_AND_PASS" => Good(image, output_scanline)
    BY <1>1, Zenon DEF PassOK
  <2>3. post_mode = "SAVE_AND_PASS" => Good(saved, output_scanline)'
    BY <1>2, <1>3, <1>4, <2>1, <2>2, SMT DEF Good, Rows
  <2>4. post_mode # "SAVE_AND_PASS" => Good(image, output_scanline)'
    BY <1>2, <1>3, <1>4, <2>1, <2>2, SMT DEF Good, Rows
  <2>5. /\ post_mode \in {"PASS_THRU", "SAVE_AND_PASS", "CRANK_DEST"}
        /\ is_dummy_pass <=> post_mode = "SAVE_AND_PASS"
        /\ is_dummy_pass => global_state = "PRESCAN"
        /\ Onepass => pass_target <= input_scan_number
        /\ Full => output_scan_number >= Promised
    BY <1>1, Zenon DEF PassOK
  <2>6. (Full' <=> Full) /\ (Onepass' <=> Onepass)
    BY <1>2, SMT DEF Full, Onepass
  <2>7. post_mode # "CRANK_DEST" => output_iMCU_row' = output_scanline'
    BY <1>2, Zenon
  <2> QED
    BY <1>2, <2>1, <2>3, <1>4, <2>2, <2>4, <2>5, <2>6, <2>7 DEF PassOK, Good
<1> QED
  BY <1>7, <1>1, <1>2, <1>6, <1>8, SMT DEF IndInv, CallOK, PhaseOK, Active, PassState,
     Onepass, Full

(* A call that decodes is inside a pass, with a row left to deliver, and   *)
(* the coefficient controller is at the row the pass is at.                *)
LEMMA DecodingRow ==
    ASSUME IndInv, Decoding
    PROVE  /\ PassState /\ output_scanline < total_iMCU_rows
           /\ post_mode # "CRANK_DEST" /\ output_iMCU_row = output_scanline
           /\ call \in {"read", "output_pass_setup"} /\ Active
BY DEF IndInv, CallOK, PassOK, PassState, InPass, Active, Decoding

LEMMA DecompressOnepassInv ==
    ASSUME IndInv, DecompressOnepass
    PROVE  IndInv'
<1> USE ConstantsAssumption
<1>1. TypeOK /\ CallOK /\ PhaseOK /\ InputOK /\ PassOK
  BY Zenon DEF IndInv
<1>2. /\ PassState /\ output_scanline < total_iMCU_rows
      /\ post_mode # "CRANK_DEST" /\ output_iMCU_row = output_scanline
      /\ call \in {"read", "output_pass_setup"} /\ Active /\ Onepass
  BY DecodingRow, Zenon DEF DecompressOnepass, Onepass
<1>3. /\ input_iMCU_row = output_iMCU_row
      /\ pass_target <= input_scan_number
  BY <1>1, <1>2, Zenon DEF PassOK
<1>4. PICK r \in Returns :
          /\ DecodeRow(r)
          /\ IF RowDone(r)
             THEN /\ Deliver([scan |-> input_scan_number,
                              next |-> input_scan_number])
                  /\ output_iMCU_row' = output_iMCU_row + 1
             ELSE UNCHANGED pass /\ call' = NextCall(r)
  BY Zenon DEF DecompressOnepass
<1>5. UNCHANGED <<outputFrame, marker, has_multiple_scans, eoi_reached,
                   inheaders, whole_image, output_scan_number>>
  BY Zenon DEF DecompressOnepass
<1>6. UNCHANGED <<global_state, mode, colormap, file, wr, is_dummy_pass,
                  decompress_data, post_mode, pass_target, saw_SOF,
                  num_components, progressive_mode, input_scan_number,
                  comps_in_scan, Ss, has_multiple_scans, eoi_reached,
                  inheaders, whole_image, output_scan_number>>
  BY <1>5, SMT DEF outputFrame, params, master, marker
<1>7. /\ rd' \in Nat /\ rd' <= wr
      /\ MCU_ctr' \in Nat /\ MCU_vert_offset' \in Nat
      /\ DecodeEffect(r)
  BY <1>1, <1>2, <1>3, <1>4, DecodeRowStep, SMT
<1>8. consume_input = "dummy_consume_data" /\ ~ eoi_reached
  BY <1>1, <1>2, <1>3 DEF TypeOK, InputOK
<1>9. input_iMCU_row' \in 0 .. total_iMCU_rows
      /\ consume_input' \in {"consume_markers", "dummy_consume_data"}
      /\ (consume_input' = "consume_markers"
            <=> input_iMCU_row' = total_iMCU_rows)
  BY <1>1, <1>2, <1>3, <1>7, <1>8, SMT DEF DecodeEffect, RowDone, TypeOK
<1>10. InputTypeOK'
  BY <1>1, <1>6, <1>7, <1>9, SMT DEF TypeOK, InputTypeOK
<1>11. InputOK'
  BY <1>2, <1>6, <1>9, <1>8 DEF Onepass, Full, InputOK
<1>12. CASE RowDone(r)
  <2> DEFINE row == [scan |-> input_scan_number, next |-> input_scan_number]
  <2>1. row \in Row /\ row.scan >= Promised
    BY <1>1, <1>3, <1>8 DEF Row, Promised, TypeOK
  <2>2. Deliver(row) /\ output_iMCU_row' = output_iMCU_row + 1
    BY <1>4, <1>12, Zenon
  <2>3. output_iMCU_row' = output_scanline + 1
        /\ input_iMCU_row' = output_iMCU_row'
    BY <1>2, <1>3, <2>2, <1>7, <1>12, Zenon DEF DecodeEffect
  <2>4. UNCHANGED <<outputFrame, input_scan_number, eoi_reached,
                    output_scan_number, inheaders, has_multiple_scans>>
    BY <1>5, <1>6, Zenon
  <2> HIDE DEF row
  <2> QED
    BY <1>2, <1>10, <1>11, <2>1, <2>2, <1>1, <2>3, <2>4, DeliverInv DEF TypeOK
<1>13. CASE ~ RowDone(r)
  <2>1. /\ UNCHANGED <<output_iMCU_row, output_scanline, saved, image>>
        /\ input_iMCU_row' = input_iMCU_row
        /\ call' \in {"none", call}
    BY <1>4, <1>7, <1>13, SMT DEF pass, NextCall, DecodeEffect
  <2>2. CallOK'
    BY <1>1, <1>2, <1>6, <2>1, SMT DEF CallOK, InPass
  <2>3. PhaseOK'
    BY <1>1, <1>2, <1>6, <2>1, SMT DEF PhaseOK, Active, PassState, Onepass,
       Full
  <2>4. PassOK'
    BY <1>1, <1>2, <1>6, <2>1, SMT DEF PassOK, PassState, Onepass, Full,
       Good, Promised
  <2> QED
    BY <1>11, <1>1, <1>2, <1>6, <1>10, <2>1, <2>2, <2>3, <2>4 DEF IndInv, TypeOK,
       InputTypeOK
<1> QED
  BY <1>12, <1>13

(* The heart of it: when the loops of decompress_data and                  *)
(* decompress_smooth_data let output proceed, the row they hand out holds  *)
(* every scan up to the target.                                            *)
LEMMA EnoughInput ==
    ASSUME IndInv, Decoding, Full, ~ MustForceInput
    PROVE  whole_image[output_iMCU_row] >= Promised
<1> USE ConstantsAssumption
<1>1. TypeOK /\ InputOK /\ PassOK
  BY Zenon DEF IndInv
<1>2. /\ PassState /\ output_scanline < total_iMCU_rows
      /\ output_iMCU_row = output_scanline
      /\ call \in {"read", "output_pass_setup"} /\ Active
  BY DecodingRow, Zenon
<1>3. /\ input_scan_number \in Nat /\ output_scan_number \in Nat
      /\ input_iMCU_row \in 0 .. total_iMCU_rows /\ pass_target \in Nat
      /\ output_iMCU_row \in Rows /\ whole_image \in [Rows -> Nat]
  BY <1>1, <1>2, SMT DEF TypeOK, Rows
<1>4. /\ ScansStored
      /\ consume_input = "consume_markers"
             <=> input_iMCU_row = total_iMCU_rows
      /\ eoi_reached => consume_input = "consume_markers"
  BY <1>2, <1>1 DEF InputOK
<1>5. Promised \in Nat
  BY <1>3, SMT DEF Promised, Least
<1>6. CASE \/ input_scan_number > output_scan_number
           \/ /\ input_scan_number = output_scan_number
              /\ input_iMCU_row > output_iMCU_row
  BY <1>3, <1>4, <1>1, <1>2, <1>5, <1>6 DEF ScansStored, PassOK
<1>7. CASE eoi_reached
  BY <1>3, <1>4, <1>7, <1>5 DEF Promised, Least, ScansStored, Rows
<1>8. CASE decompress_data = "decompress_data"
  BY <1>8, <1>3, <1>6 DEF MustForceInput, InputBehind, Rows
<1>9. CASE decompress_data = "decompress_smooth_data" /\ ~ eoi_reached
  BY <1>9, <1>3, <1>6 DEF MustForceInput, SmoothInputBehind, DCLead, Rows
<1> QED
  BY <1>7, <1>8, <1>9 DEF Full

LEMMA DecompressBufferedInv ==
    ASSUME IndInv, DecompressBuffered
    PROVE  IndInv'
<1> USE ConstantsAssumption
<1>1. TypeOK /\ InputOK /\ PassOK
  BY Zenon DEF IndInv
<1>2. /\ PassState /\ output_scanline < total_iMCU_rows
      /\ output_iMCU_row = output_scanline
      /\ call \in {"read", "output_pass_setup"} /\ Active
      /\ Full /\ ~ MustForceInput /\ Decoding
  BY DecodingRow, Zenon DEF DecompressBuffered
<1> DEFINE row == [scan |-> whole_image[output_iMCU_row],
                   next |-> whole_image[RowBelow(output_iMCU_row)]]
<1>3. /\ Deliver(row) /\ output_iMCU_row' = output_iMCU_row + 1
      /\ UNCHANGED <<outputFrame, input>>
  BY Zenon DEF DecompressBuffered
<1>4. row \in Row /\ row.scan = whole_image[output_iMCU_row]
  <2>1. /\ whole_image[output_iMCU_row] \in Nat
        /\ whole_image[RowBelow(output_iMCU_row)] \in Nat
    BY <1>1, <1>2, SMT DEF TypeOK, Rows, RowBelow, Least
  <2> QED
    BY <2>1, SMT DEF Row
<1>5. /\ UNCHANGED <<outputFrame, input_scan_number, eoi_reached,
                     output_scan_number, inheaders, has_multiple_scans>>
      /\ InputTypeOK'
  BY <1>1, <1>3, SMT DEF input, marker, inctl, coef, outputFrame, TypeOK,
     InputTypeOK
<1>6. InputOK'
  <2>1. /\ UNCHANGED <<decompress_data, consume_input, input_iMCU_row,
                       eoi_reached, whole_image, input_scan_number>>
        /\ call # "error"
    BY <1>2, <1>3, SMT DEF outputFrame, master, input, marker, inctl, coef
  <2> QED
    BY <1>1, <1>2, <1>3, <2>1 DEF InputOK, Full, Onepass, ScansStored, Active, Deliver
<1>7. output_iMCU_row' \in Nat /\ output_iMCU_row' = output_scanline + 1
  BY <1>1, <1>2, <1>3, SMT DEF TypeOK
<1>8. ~ Onepass
  BY <1>2, SMT DEF Full, Onepass
<1> HIDE DEF row
<1> QED
  BY <1>2, <1>3, <1>4, EnoughInput, <1>5, <1>6, <1>7, <1>8, DeliverInv, Zenon

LEMMA CrankRowInv ==
    ASSUME IndInv, CrankRow
    PROVE  IndInv'
<1> USE ConstantsAssumption
<1>1. TypeOK /\ CallOK /\ InputOK /\ PassOK
  BY Zenon DEF IndInv
<1>2. /\ call = "read" /\ post_mode = "CRANK_DEST"
      /\ Deliver(saved[output_scanline])
      /\ UNCHANGED <<outputFrame, input, output_iMCU_row>>
  BY Zenon DEF CrankRow
<1>3. InPass /\ output_scanline < total_iMCU_rows /\ PassState
  BY <1>1, <1>2, SMT DEF CallOK, InPass, PassState
<1>4. /\ saved[output_scanline] \in Row
      /\ saved[output_scanline].scan >= Promised
  BY <1>1, <1>2, <1>3 DEF PassOK, Good, TypeOK, Rows
<1>5. InputOK'
  <2>1. /\ UNCHANGED <<decompress_data, consume_input, input_iMCU_row,
                       eoi_reached, whole_image, input_scan_number>>
        /\ call # "error" /\ Active
    BY <1>2, <1>3, SMT DEF outputFrame, master, input, marker, inctl, coef,
       Active, PassState
  <2> QED
    BY <1>1, <1>2, <2>1 DEF InputOK, Full, Onepass, ScansStored, Active, Deliver
<1>6. /\ output_iMCU_row' \in Nat
      /\ Onepass => input_iMCU_row' = output_iMCU_row'
  BY <1>1, <1>3, <1>2 DEF PassOK, TypeOK, input, coef
<1> QED
  BY <1>2, <1>3, <1>4, <1>1, <1>5, <1>6, DeliverInv, SMT DEF input, marker, inctl, coef,
     outputFrame, TypeOK, InputTypeOK

LEMMA FinishDummyPassInv ==
    ASSUME IndInv, FinishDummyPass
    PROVE  IndInv'
<1> USE ConstantsAssumption
<1>1. TypeOK /\ CallOK /\ PhaseOK /\ InputOK /\ PassOK
  BY Zenon DEF IndInv
<1>2. /\ call = "output_pass_setup" /\ is_dummy_pass
      /\ output_scanline = total_iMCU_rows /\ output_scanline' = 0
      /\ UNCHANGED <<api, mode, file, wr, input, saved, image, pass_target>>
  BY Zenon DEF FinishDummyPass
<1>3. /\ is_dummy_pass' = FALSE /\ post_mode' = "CRANK_DEST"
      /\ colormap' = TRUE
      /\ UNCHANGED <<decompress_data, output_iMCU_row>>
  BY <1>2, Zenon DEF FinishDummyPass, PrepareForOutputPass
<1>4. /\ is_dummy_pass' \in BOOLEAN /\ colormap' \in BOOLEAN /\ ~ is_dummy_pass'
  BY <1>3, Zenon
<1>5. UNCHANGED <<global_state, call, mode, file, wr,
                  decompress_data, output_iMCU_row,
                  saved, image, pass_target, rd, saw_SOF,
                  num_components, progressive_mode, input_scan_number,
                  comps_in_scan, Ss, consume_input, has_multiple_scans,
                  eoi_reached, inheaders, input_iMCU_row, MCU_vert_offset,
                  MCU_ctr, whole_image, output_scan_number>>
  BY <1>2, <1>3, SMT DEF api, input, marker, inctl, coef
<1>6. PassState /\ global_state = "PRESCAN"
  BY <1>1, <1>2, SMT DEF CallOK, PassState
<1>7. TypeOK'
  <2>1. InputTypeOK'
    BY <1>1, <1>5, SMT DEF TypeOK, InputTypeOK
  <2>2. post_mode' \in {"none", "PASS_THRU", "SAVE_AND_PASS", "CRANK_DEST"}
        /\ output_scanline' \in 0 .. total_iMCU_rows
    BY <1>2, <1>3, SMT
  <2> QED
    BY <1>1, <1>4, <1>5, <2>1, <2>2, ZenonT(60) DEF TypeOK, InputTypeOK
<1>8. InputOK'
  BY <1>1, <1>5, SMT DEF InputOK, ScansStored, Active, Onepass, Full
<1>9. PassOK'
  BY <1>1, <1>2, <1>6, <1>5, <1>3, <1>4, SMT DEF PassOK, Promised, Onepass, Full, Good,
     Rows
<1> QED
  BY <1>7, <1>2, <1>5, <1>6, <1>1, <1>8, <1>9, SMT DEF IndInv, CallOK, PhaseOK, Active,
     Onepass, Full

LEMMA FinishSetupInv ==
    ASSUME IndInv, FinishSetup
    PROVE  IndInv'
<1>1. TypeOK /\ CallOK /\ PhaseOK /\ InputOK /\ PassOK
  BY Zenon DEF IndInv
<1>2. /\ call = "output_pass_setup" /\ ~ is_dummy_pass /\ call' = "none"
      /\ global_state' = IF mode.raw THEN "RAW_OK" ELSE "SCANNING"
      /\ UNCHANGED <<params, file, wr, input, master, pass, pass_target>>
  BY Zenon DEF FinishSetup
<1>3. UNCHANGED <<mode, colormap, file, wr, is_dummy_pass,
                  decompress_data, post_mode, output_iMCU_row,
                  output_scanline, saved, image, pass_target, rd, saw_SOF,
                  num_components, progressive_mode, input_scan_number,
                  comps_in_scan, Ss, consume_input, has_multiple_scans,
                  eoi_reached, inheaders, input_iMCU_row, MCU_vert_offset,
                  MCU_ctr, whole_image, output_scan_number>>
  BY <1>2, SMT DEF params, master, pass, input, marker, inctl, coef
<1>4. global_state = "PRESCAN" /\ global_state' \in {"RAW_OK", "SCANNING"}
  BY <1>1, <1>2, SMT DEF CallOK
<1>5. PhaseOK'
  BY <1>1, <1>3, <1>4, SMT DEF PhaseOK, Active, Onepass, Full
<1>6. InputOK'
  BY <1>1, <1>2, <1>3, <1>4, SMT DEF InputOK, ScansStored, Active, Onepass,
     Full
<1>7. PassOK'
  BY <1>3, <1>4, <1>1, <1>2 DEF Promised, Onepass, Full, Good, PassState, PassOK
<1> QED
  BY <1>1, <1>2, <1>3, <1>4, <1>5, <1>6, <1>7, SMT DEF IndInv, TypeOK, CallOK
-----------------------------------------------------------------------------
(* Every step of the library, of the application or of the source keeps    *)
(* the invariant.                                                          *)
LEMMA NextInv ==
    ASSUME IndInv, [Next]_vars
    PROVE  IndInv'
<1>1. CASE Library
  <2>1. CASE HeaderStep
    BY <2>1, HeaderInv
  <2>2. CASE ConsumeStep \/ PreloadStep \/ ForceInput
    BY <2>2, ForcedInputInv
  <2>3. CASE PreloadDone
    BY <2>3, PreloadDoneInv
  <2>4. CASE DecompressOnepass
    BY <2>4, DecompressOnepassInv
  <2>5. CASE DecompressBuffered
    BY <2>5, DecompressBufferedInv
  <2>6. CASE CrankRow
    BY <2>6, CrankRowInv
  <2>7. CASE FinishDummyPass
    BY <2>7, FinishDummyPassInv
  <2>8. CASE FinishSetup
    BY <2>8, FinishSetupInv
  <2>9. CASE FinishOutputStep
    BY <2>9, FinishOutputInv
  <2>10. CASE ReadCoefficientsStep
    BY <2>10, ReadCoefficientsStepInv
  <2>11. CASE FinishDecompressStep
    BY <2>11, AbortInv
  <2> QED
    BY <1>1, <2>1, <2>2, <2>3, <2>4, <2>5, <2>6, <2>7, <2>8, <2>9, <2>10,
       <2>11, Zenon DEF Library
<1>2. CASE Application
  <2>1. CASE ReadHeader
    BY <2>1, ReadHeaderInv
  <2>2. CASE JpegConsumeInput
    BY <2>2, JpegConsumeInputInv
  <2>3. CASE StartDecompress
    BY <2>3, StartDecompressInv
  <2>4. CASE ReadRows
    BY <2>4, ReadRowsInv
  <2>5. CASE StartOutput
    BY <2>5, StartOutputInv
  <2>6. CASE FinishOutput
    BY <2>6, FinishOutputInv
  <2>7. CASE ReadCoefficients
    BY <2>7, ReadCoefficientsInv
  <2>8. CASE FinishDecompress
    BY <2>8, FinishDecompressInv
  <2>9. CASE JpegAbort
    BY <2>9, AbortInv
  <2> QED
    BY <1>2, <2>1, <2>2, <2>3, <2>4, <2>5, <2>6, <2>7, <2>8, <2>9, Zenon
    DEF Application
<1>3. CASE Arrive
  BY <1>3, ArriveInv
<1>4. CASE UNCHANGED vars
  BY <1>4, StutterInv
<1> QED
  BY <1>1, <1>2, <1>3, <1>4, Zenon DEF Next

(* The inductive invariant holds in every reachable state.                 *)
THEOREM Invariant == Spec => []IndInv
<1>1. Init => IndInv
  BY InitInv
<1>2. IndInv /\ [Next]_vars => IndInv'
  BY NextInv
<1> QED
  BY <1>1, <1>2, PTL DEF Spec

(* Every variable keeps its type, whatever calls the application makes and *)
(* however the data arrives (the states and counters of cinfo).            *)
THEOREM TypeCorrect == Spec => []TypeOK
<1>1. IndInv => TypeOK
  BY Zenon DEF IndInv
<1> QED
  BY <1>1, Invariant, PTL

(* Every row handed out in a pass shows every scan up to the pass's target *)
(* or, at EOI, up to the last scan: the loops of decompress_data and       *)
(* decompress_smooth_data and the clamp in consume_markers.                *)
THEOREM PassQualityHolds == Spec => []PassQuality
<1>1. IndInv => PassQuality
  <2> SUFFICES ASSUME IndInv, InPass, NEW r \in Rows, r < output_scanline
               PROVE  image[r].scan >= Promised
    BY Zenon DEF PassQuality
  <2>1. Good(image, output_scanline)
    BY SMT DEF IndInv, PassOK, InPass, PassState
  <2> QED
    BY <2>1, Zenon DEF Good
<1> QED
  BY <1>1, Invariant, PTL

(* In single-MCU operation the row counter of the input side and that of   *)
(* the output side agree throughout a pass (decompress_onepass).           *)
THEOREM LockStepHolds == Spec => []LockStep
<1>1. IndInv => LockStep
  BY Zenon DEF IndInv, PassOK, PassState, Onepass, LockStep
<1> QED
  BY <1>1, Invariant, PTL

-----------------------------------------------------------------------------
(* What a step can do to the source and to the scan number.                *)
LEMMA InputOfStep ==
    ASSUME IndInv, [Next]_vars
    PROVE  \/ \E r \in Returns : /\ ConsumeInput(r) /\ call # "error"
                                 /\ Active \/ global_state = "INHEADER"
           \/ DecompressOnepass
           \/ eoi_reached' = FALSE /\ input_scan_number' = 0
           \/ UNCHANGED <<rd, input_scan_number>>
<1>1. CASE HeaderStep
  BY <1>1 DEF HeaderStep
<1>2. CASE ConsumeStep \/ PreloadStep \/ ForceInput
           \/ (FinishOutputStep /\ AwaitsMarker)
           \/ (ReadCoefficientsStep /\ ~ eoi_reached)
  <2>1. \/ call = "consume_input" /\ global_state # "INHEADER"
        \/ call \in {"start_decompress", "read", "output_pass_setup",
                     "finish_output", "read_coefficients"}
    BY <1>2, SMT DEF ConsumeStep, PreloadStep, ForceInput, Decoding,
       FinishOutputStep, ReadCoefficientsStep
  <2>2. Active /\ call # "error"
    BY <2>1 DEF CallOK, Active, Consuming, InPass, IndInv
  <2> QED
    BY <1>2, <2>2, Zenon DEF ConsumeStep, PreloadStep, ForceInput, FinishOutputStep,
       ReadCoefficientsStep
<1>3. CASE DecompressOnepass
  BY <1>3
<1>4. CASE BeginDatastream
  BY <1>4, Zenon DEF BeginDatastream
<1>5. CASE \/ PreloadDone \/ StartDecompress \/ StartOutput
           \/ ReadCoefficients \/ JpegAbort \/ FinishDecompressStep
  BY <1>5 DEF PreloadDone, StartDecompress, StartOutput, ReadCoefficients, JpegAbort,
     FinishDecompressStep, marker
<1>6. CASE \/ DecompressBuffered \/ CrankRow \/ FinishDummyPass
           \/ FinishSetup \/ ReadRows \/ FinishOutput \/ FinishDecompress
           \/ Arrive \/ (FinishOutputStep /\ ~ AwaitsMarker)
           \/ (ReadCoefficientsStep /\ eoi_reached) \/ UNCHANGED vars
  <2>1. UNCHANGED input
    <3>1. CASE DecompressBuffered \/ CrankRow
      BY <3>1, Zenon DEF DecompressBuffered, CrankRow
    <3>2. CASE FinishDummyPass \/ FinishSetup \/ ReadRows \/ FinishOutput
      BY <3>2, Zenon DEF FinishDummyPass, FinishSetup, ReadRows, FinishOutput
    <3>3. CASE FinishDecompress \/ Arrive \/ UNCHANGED vars
      BY <3>3, Zenon DEF FinishDecompress, Arrive, vars
    <3>4. CASE \/ FinishOutputStep /\ ~ AwaitsMarker
               \/ ReadCoefficientsStep /\ eoi_reached
      BY <3>4, Zenon DEF FinishOutputStep, ReadCoefficientsStep
    <3> QED
      BY <1>6, <3>1, <3>2, <3>3, <3>4, Zenon
  <2> QED
    BY <2>1, SMT DEF input, marker
<1>7. CASE ReadHeader \/ JpegConsumeInput
  BY <1>7, <1>4 DEF ReadHeader, JpegConsumeInput, input, marker
<1> QED
  BY <1>1, <1>2, <1>3, <1>5, <1>6, <1>7, Zenon DEF Next, Library,
     Application

(* A scan number moves on only in consume_markers, when the input side has *)
(* come to the end of a scan.                                              *)
LEMMA ScanEnds ==
    ASSUME IndInv, Active, call # "error", NEW r, ConsumeInput(r),
           input_scan_number' # input_scan_number
    PROVE  ScanComplete
<1>1. TypeOK /\ PhaseOK /\ InputOK
  BY Zenon DEF IndInv
<1>2. input_iMCU_row = total_iMCU_rows /\ (Full => ScansStored)
  BY <1>1 DEF InputOK, ConsumeData, marker, input, ConsumeInput
<1>3. CASE Onepass
  BY <1>2, <1>3, Zenon DEF ScanComplete, Onepass
<1>4. CASE Full
  BY <1>1, <1>2, <1>4, ConstantsAssumption, SMT DEF ScansStored, Rows,
     ScanComplete, TypeOK
<1> QED
  BY <1>1, <1>3, <1>4, SMT DEF PhaseOK, TypeOK, Onepass, Full

(* A scan is entered only when the one before it has been stored to its    *)
(* last row (consume_markers and the method pointer consume_input).        *)
THEOREM NextScanWaitsHolds == Spec => NextScanWaits
<1>1. ASSUME IndInv, [Next]_vars, input_scan_number > 0,
             input_scan_number' = input_scan_number + 1
      PROVE  ScanComplete
  <2>1. TypeOK /\ PhaseOK
    BY <1>1, Zenon DEF IndInv
  <2>2. /\ input_scan_number \in Nat
        /\ input_scan_number' # input_scan_number /\ input_scan_number' # 0
    BY <1>1, <2>1, SMT DEF TypeOK
  <2>3. CASE DecompressOnepass
    BY <2>2, <2>3, SMT DEF DecompressOnepass, marker
  <2>4. CASE \E r \in Returns : /\ ConsumeInput(r) /\ call # "error"
                                /\ Active \/ global_state = "INHEADER"
    <3>1. PICK r \in Returns : /\ ConsumeInput(r) /\ call # "error"
                               /\ Active \/ global_state = "INHEADER"
      BY <2>4, Zenon
    <3> QED
      BY <1>1, <2>2, <3>1, <2>1, ScanEnds DEF PhaseOK
  <2> QED
    BY <1>1, <2>2, <2>3, <2>4, InputOfStep, Zenon
<1>2. IndInv /\ [Next]_vars
        => [input_scan_number > 0
            /\ input_scan_number' = input_scan_number + 1
              => ScanComplete]_vars
  BY <1>1, Zenon
<1> QED
  BY <1>2, Invariant, PTL DEF Spec, NextScanWaits

(* After EOI nothing more is taken from the source (the first test of      *)
(* consume_markers).                                                       *)
THEOREM StopsAtEOIHolds == Spec => StopsAtEOI
<1>1. ASSUME IndInv, [Next]_vars, eoi_reached, eoi_reached'
      PROVE  rd' = rd
  <2>1. TypeOK /\ PhaseOK /\ InputOK /\ PassOK
    BY <1>1, Zenon DEF IndInv
  <2>2. CASE DecompressOnepass
    BY <1>1, <2>2, DecodingRow, <2>1, ConstantsAssumption DEF DecompressOnepass, Onepass,
       InputOK, TypeOK, PassOK
  <2>3. CASE \E r \in Returns : /\ ConsumeInput(r) /\ call # "error"
                                /\ Active \/ global_state = "INHEADER"
    <3>1. PICK r \in Returns : /\ ConsumeInput(r) /\ call # "error"
                               /\ Active \/ global_state = "INHEADER"
      BY <2>3, Zenon
    <3>2. UNCHANGED input
      BY <1>1, <2>1, <3>1 DEF ConsumeInput, ConsumeMarkers, InputOK, PhaseOK
    <3> QED
      BY <3>2, SMT DEF input
  <2> QED
    BY <1>1, <2>2, <2>3, InputOfStep, Zenon
<1>2. IndInv /\ [Next]_vars
        => [eoi_reached /\ eoi_reached' => rd' = rd]_vars
  BY <1>1, Zenon
<1> QED
  BY <1>2, Invariant, PTL DEF Spec, StopsAtEOI

(***************************************************************************)
(* What the decompressor has read of its file, for every set of files and  *)
(* parameters and every image: where in the file the input side stands,    *)
(* which scan the numbers in cinfo are of, and what that means for the     *)
(* rows an application is given.                                           *)
(***************************************************************************)

(* A datastream is being read: between BeginDatastream and abort or error. *)
Reading == global_state # "START" /\ call # "error"

(* The SOS units among the first n of f, and the last of them.             *)
SOSes(f, n) == {j \in 1 .. n : f[j].m = "sos"}
LastSOS(f, n, s) == s \in SOSes(f, n) /\ \A j \in SOSes(f, n) : j <= s

(* MCU rows of an iMCU row; MCU rows and MCUs of the scan gone through.    *)
Height(n, row) == IF n > 1 THEN 1
                  ELSE IF row < total_iMCU_rows - 1 THEN v_samp_factor
                  ELSE last_row_height
Line(n, row, offset) == IF n > 1 THEN row ELSE v_samp_factor * row + offset
Place(n, row, offset, ctr) == MCUs_per_row * Line(n, row, offset) + ctr
MCUsDone == Place(comps_in_scan, input_iMCU_row, MCU_vert_offset, MCU_ctr)

CountOK == input_scan_number = Cardinality(SOSes(file, rd))

(* The only EOI read so far is the unit read last.                         *)
EOIOK ==
    /\ \A i \in 1 .. rd : file[i].m = "eoi" => i = rd /\ eoi_reached
    /\ eoi_reached => rd >= 1 /\ file[rd].m = "eoi"

(* While its data is read, cinfo describes the last SOS read; elsewhere a  *)
(* suspended get_sos may have stored part of the next one.                 *)
HeaderOK ==
    consume_input # "consume_markers" \/ global_state = "READY" =>
        \E s \in 1 .. rd : /\ LastSOS(file, rd, s)
                           /\ Ss = file[s].Ss /\ comps_in_scan = file[s].comps
                           /\ global_state = "READY" => s = rd

(* In a well-formed file the counters of the input side tell how far from  *)
(* the last SOS it stands, and markers are read between whole scans.       *)
AlignedOK ==
    WellFormed(file) =>
        /\ consume_input = "consume_markers" /\ global_state # "READY" =>
             \A s \in SOSes(file, rd) : s + ScanMCUs(file[s].comps) <= rd
        /\ consume_input # "consume_markers" =>
             /\ \A s \in 1 .. rd : LastSOS(file, rd, s) => rd = s + MCUsDone
             /\ MCU_ctr < MCUs_per_row
             /\ MCU_vert_offset < Height(comps_in_scan, input_iMCU_row)

SourceInv == Reading => CountOK /\ EOIOK /\ HeaderOK /\ AlignedOK
-----------------------------------------------------------------------------
(* One more unit adds to the SOS units read exactly if it is one.          *)
LEMMA SOSesFinite ==
    ASSUME NEW f, NEW n \in Nat
    PROVE  IsFiniteSet(SOSes(f, n)) /\ Cardinality(SOSes(f, n)) \in Nat
<1>1. SOSes(f, n) \in SUBSET (1 .. n)
  BY SMT DEF SOSes
<1>2. IsFiniteSet(SOSes(f, n))
  BY FS_Interval, <1>1, FS_Subset, SMT
<1> QED
  BY <1>2, FS_CardinalityType, Zenon

LEMMA SOSesGrow ==
    ASSUME NEW f, NEW n \in Nat
    PROVE  /\ f[n + 1].m = "sos"
                => /\ SOSes(f, n + 1) = SOSes(f, n) \cup {n + 1}
                   /\ Cardinality(SOSes(f, n + 1)) = Cardinality(SOSes(f, n)) + 1
                   /\ LastSOS(f, n + 1, n + 1)
           /\ f[n + 1].m # "sos" => SOSes(f, n + 1) = SOSes(f, n)
<1>1. ASSUME f[n + 1].m # "sos" PROVE SOSes(f, n + 1) = SOSes(f, n)
  BY <1>1, SMT DEF SOSes
<1>2. ASSUME f[n + 1].m = "sos"
      PROVE  /\ SOSes(f, n + 1) = SOSes(f, n) \cup {n + 1}
             /\ Cardinality(SOSes(f, n + 1)) = Cardinality(SOSes(f, n)) + 1
             /\ LastSOS(f, n + 1, n + 1)
  <2>1. SOSes(f, n + 1) = SOSes(f, n) \cup {n + 1} /\ n + 1 \notin SOSes(f, n)
    BY <1>2, SMT DEF SOSes
  <2>2. LastSOS(f, n + 1, n + 1)
    BY <1>2, SMT DEF SOSes, LastSOS
  <2>3. Cardinality(SOSes(f, n) \cup {n + 1}) = Cardinality(SOSes(f, n)) + 1
    BY <2>1, SOSesFinite, FS_AddElement
  <2> QED
    BY <2>1, <2>2, <2>3, Zenon
<1> QED
  BY <1>1, <1>2

(* A scan is known by its number.                                          *)
LEMMA SameNumber ==
    ASSUME NEW f, NEW i \in Nat, NEW j \in Nat, i <= j, i >= 1,
           f[i].m = "sos", f[j].m = "sos",
           Cardinality(SOSes(f, i)) = Cardinality(SOSes(f, j))
    PROVE  i = j
<1>1. SOSes(f, i) \in SUBSET SOSes(f, j)
  BY SMT DEF SOSes
<1>2. SOSes(f, j) = SOSes(f, i)
  BY SOSesFinite, <1>1, FS_Subset
<1> QED
  BY <1>2, SMT DEF SOSes
-----------------------------------------------------------------------------
(* How the counters of the input side count the MCUs of a scan.            *)
LEMMA Multiply ==
    ASSUME NEW a \in Nat, NEW b \in Nat, NEW c \in Nat, b <= c
    PROVE  a * b <= a * c /\ a * b \in Nat /\ a * c \in Nat
           /\ a * (b + 1) = a * b + a
<1>1. c - b \in Nat /\ c = b + (c - b)
  BY SMT
<1>2. a * b \in Nat /\ a * c \in Nat /\ a * (b + 1) = a * b + a
  BY SMT
<1> DEFINE p == a * b
           q == a * c
           d == a * (c - b)
<1>3. p \in Nat /\ d \in Nat /\ q = p + d
  BY <1>1, <1>2, SMT
<1>4. p <= q
  <2> HIDE DEF p, q, d
  <2> QED
    BY <1>3, SMT
<1> QED
  BY <1>2, <1>4, Zenon

Lines(n) == IF n > 1 THEN total_iMCU_rows
            ELSE v_samp_factor * (total_iMCU_rows - 1) + last_row_height

LEMMA LineOfScan ==
    ASSUME NEW n \in Nat, NEW row \in 0 .. total_iMCU_rows - 1,
           NEW offset \in Nat, offset < Height(n, row)
    PROVE  /\ Line(n, row, offset) \in Nat /\ Lines(n) \in Nat
           /\ Line(n, row, offset) < Lines(n)
           /\ offset + 1 < Height(n, row)
                => Line(n, row, offset + 1) = Line(n, row, offset) + 1
           /\ offset + 1 >= Height(n, row) /\ row + 1 < total_iMCU_rows
                => Line(n, row + 1, 0) = Line(n, row, offset) + 1
           /\ offset + 1 >= Height(n, row) /\ row + 1 >= total_iMCU_rows
                => Lines(n) = Line(n, row, offset) + 1
<1> DEFINE T == total_iMCU_rows
           V == v_samp_factor
           L == last_row_height
<1>1. /\ T \in Nat /\ T >= 1 /\ V \in Nat /\ V >= 1
      /\ L \in Nat /\ L >= 1 /\ L <= V
      /\ row \in Nat /\ row + 1 <= T /\ T - 1 \in Nat
  BY ConstantsAssumption, SMT
<1>2. CASE n > 1
  BY <1>1, <1>2, SMT DEF Line, Lines, Height
<1>3. CASE ~ n > 1 /\ row < T - 1
  <2> DEFINE A == V * row
             B == V * (T - 1)
             C == V * (row + 1)
  <2>1. /\ Line(n, row, offset) = A + offset
        /\ Line(n, row, offset + 1) = A + (offset + 1)
        /\ Line(n, row + 1, 0) = C + 0
        /\ Lines(n) = B + L /\ Height(n, row) = V
    BY <1>3, Zenon DEF Line, Lines, Height
  <2>2. A \in Nat /\ B \in Nat /\ C = A + V /\ C <= B
    BY <1>1, <1>3, Multiply
  <2> HIDE DEF A, B, C, T, V, L
  <2> QED
    BY <1>1, <1>3, <2>1, <2>2, SMT DEF T
<1>4. CASE ~ n > 1 /\ ~ row < T - 1
  <2>1. row = T - 1
    BY <1>1, <1>4, SMT
  <2> DEFINE A == V * row
  <2>2. /\ Line(n, row, offset) = A + offset
        /\ Line(n, row, offset + 1) = A + (offset + 1)
        /\ Lines(n) = A + L /\ Height(n, row) = L
    BY <1>4, <2>1, Zenon DEF Line, Lines, Height
  <2>3. A \in Nat
    BY <1>1
  <2> HIDE DEF A, T, V, L
  <2> QED
    BY <1>1, <1>4, <2>1, <2>2, <2>3, SMT DEF T
<1> QED
  BY <1>2, <1>3, <1>4, Zenon

LEMMA PlaceOfScan ==
    ASSUME NEW n \in Nat, NEW row \in 0 .. total_iMCU_rows - 1,
           NEW offset \in Nat, offset < Height(n, row),
           NEW ctr \in Nat, ctr < MCUs_per_row
    PROVE  /\ Place(n, row, offset, ctr) \in Nat /\ ScanMCUs(n) \in Nat
           /\ Place(n, row, offset, ctr) < ScanMCUs(n)
           /\ Place(n, row, offset, ctr + 1) = Place(n, row, offset, ctr) + 1
           /\ ctr + 1 >= MCUs_per_row /\ offset + 1 < Height(n, row)
                => Place(n, row, offset + 1, 0) = Place(n, row, offset, ctr) + 1
           /\ ctr + 1 >= MCUs_per_row /\ offset + 1 >= Height(n, row)
              /\ row + 1 < total_iMCU_rows
                => Place(n, row + 1, 0, 0) = Place(n, row, offset, ctr) + 1
           /\ ctr + 1 >= MCUs_per_row /\ offset + 1 >= Height(n, row)
              /\ row + 1 >= total_iMCU_rows
                => ScanMCUs(n) = Place(n, row, offset, ctr) + 1
<1> DEFINE M == MCUs_per_row
           line == Line(n, row, offset)
           lines == Lines(n)
<1>1. M \in Nat /\ M >= 1
  BY ConstantsAssumption, SMT
<1>2. /\ line \in Nat /\ lines \in Nat /\ line + 1 \in Nat /\ line + 1 <= lines
  BY LineOfScan, SMT
<1>3. /\ M * line \in Nat /\ M * lines \in Nat
      /\ M * (line + 1) = M * line + M /\ M * (line + 1) <= M * lines
  <2> HIDE DEF M, line, lines
  <2> QED
    BY <1>1, <1>2, Multiply
<1> DEFINE p == M * line
           q == M * lines
<1>4. /\ Place(n, row, offset, ctr) = p + ctr
      /\ Place(n, row, offset, ctr + 1) = p + (ctr + 1)
      /\ ScanMCUs(n) = q
  BY Zenon DEF Place, ScanMCUs, Lines
<1>5. p \in Nat /\ q \in Nat /\ p + M <= q /\ M * (line + 1) = p + M
  BY <1>3, Zenon
<1>6. ASSUME offset + 1 < Height(n, row)
      PROVE  Place(n, row, offset + 1, 0) = p + M + 0
  BY <1>5, <1>6, LineOfScan, Zenon DEF Place
<1>7. ASSUME offset + 1 >= Height(n, row), row + 1 < total_iMCU_rows
      PROVE  Place(n, row + 1, 0, 0) = p + M + 0
  BY <1>5, <1>7, LineOfScan, Zenon DEF Place
<1>8. ASSUME offset + 1 >= Height(n, row), row + 1 >= total_iMCU_rows
      PROVE  q = p + M
  BY <1>5, <1>8, LineOfScan, Zenon
<1>9. ctr < M /\ (ctr + 1 >= M <=> ctr + 1 >= MCUs_per_row)
  BY Zenon
<1> HIDE DEF p, q, M, line, lines
<1> QED
  BY <1>4, <1>5, <1>6, <1>7, <1>8, <1>9, <1>1, SMT

(* Where no scan has begun to be read its first MCU comes next.            *)
LEMMA PlaceOfStart ==
    ASSUME NEW n \in Nat
    PROVE  Place(n, 0, 0, 0) = 0 /\ 0 < MCUs_per_row /\ 0 < Height(n, 0)
BY ConstantsAssumption DEF Line, Place, Height
-----------------------------------------------------------------------------
(* In a well-formed file every scan before a unit that is not data is over *)
(* before it, and the units of a scan are data.                            *)
LEMMA BeforeMarker ==
    ASSUME NEW f, WellFormed(f), NEW i \in 1 .. Len(f), f[i].m # "mcu",
           NEW s \in 1 .. Len(f), f[s].m = "sos", s < i,
           ScanMCUs(f[s].comps) \in Nat, Len(f) \in Nat
    PROVE  s + ScanMCUs(f[s].comps) < i
<1>1. ~ InScan(f, s, i)
  BY Zenon DEF WellFormed
<1>2. ~ i <= s + ScanMCUs(f[s].comps)
  BY <1>1, Zenon DEF InScan
<1> QED
  BY <1>2, SMT

LEMMA DataOfScan ==
    ASSUME NEW f, WellFormed(f), Len(f) \in Nat,
           NEW s \in 1 .. Len(f), f[s].m = "sos",
           ScanMCUs(f[s].comps) \in Nat,
           NEW i \in Nat, s < i, i <= s + ScanMCUs(f[s].comps)
    PROVE  i \in 1 .. Len(f) /\ f[i].m = "mcu"
BY DEF WellFormed, InScan

(* Data outside the scans gone through is not well formed.                 *)
LEMMA NoStrayData ==
    ASSUME NEW f, WellFormed(f), Len(f) \in Nat, NEW n \in Nat, n < Len(f),
           \A s \in 1 .. Len(f) : ScanMCUs(f[s].comps) \in Nat,
           \A s \in SOSes(f, n) : s + ScanMCUs(f[s].comps) <= n
    PROVE  f[n + 1].m # "mcu"
<1> SUFFICES ASSUME f[n + 1].m = "mcu" PROVE FALSE
  OBVIOUS
<1>1. PICK s \in 1 .. Len(f) : InScan(f, s, n + 1)
  BY DEF WellFormed
<1>2. s \in SOSes(f, n) /\ n + 1 <= s + ScanMCUs(f[s].comps)
  BY <1>1, SMT DEF InScan, SOSes
<1> QED
  BY <1>2, SMT

(* Every unit of the file being read is a unit, and its scan has a length. *)
LEMMA FileType ==
    ASSUME TypeOK
    PROVE  /\ Len(file) \in Nat
           /\ \A i \in 1 .. Len(file) : /\ file[i] \in Unit
                                        /\ file[i].comps \in Nat
                                        /\ ScanMCUs(file[i].comps) \in Nat
<1>1. CASE file = NoFile
  BY <1>1, SMT DEF NoFile
<1>2. CASE file # NoFile
  <2>1. file \in Seq(Unit)
    BY <1>2, FilesAssumption, Zenon DEF TypeOK
  <2>2. Len(file) \in Nat
    BY <2>1, SMT
  <2>3. \A i \in 1 .. Len(file) : file[i] \in Unit /\ file[i].comps \in Nat
    <3>1. \A i \in 1 .. Len(file) : file[i] \in Unit
      BY <2>1, SMT
    <3> QED
      BY <3>1, SMT DEF Unit
  <2>4. ASSUME NEW n \in Nat PROVE ScanMCUs(n) \in Nat
    BY PlaceOfStart, ConstantsAssumption, PlaceOfScan
  <2> QED
    BY <2>2, <2>3, <2>4, Zenon
<1> QED
  BY <1>1, <1>2
-----------------------------------------------------------------------------
(* The marker reader, one marker at a time.                                *)
LEMMA MarkersSource ==
    ASSUME IndInv, SourceInv, Reading, Reading', NEW r, ConsumeMarkers(r),
           consume_input = "consume_markers", file' = file, r # "ERROR",
           global_state # "READY",
           global_state' = "READY" <=> (global_state = "INHEADER" /\ r = "SOS")
    PROVE  SourceInv'
<1>1. TypeOK /\ PhaseOK /\ CountOK /\ EOIOK /\ HeaderOK /\ AlignedOK
  BY Zenon DEF IndInv, SourceInv
<1>2. /\ rd \in Nat /\ input_scan_number \in Nat /\ rd + 1 \in Nat
      /\ Len(file) \in Nat
      /\ \A i \in 1 .. Len(file) : ScanMCUs(file[i].comps) \in Nat
  BY <1>1, FileType, SMT DEF TypeOK
<1>3. WellFormed(file) => \A s \in SOSes(file, rd) :
                              s + ScanMCUs(file[s].comps) <= rd
  BY <1>1, Zenon DEF AlignedOK
<1>4. WellFormed(file)' <=> WellFormed(file)
  BY Zenon DEF WellFormed, InScan, ScanMCUs
<1>5. CASE /\ UNCHANGED <<rd, input_scan_number, eoi_reached, consume_input>>
           /\ r # "SOS"
  BY <1>5, <1>1, <1>3, <1>4, Zenon DEF CountOK, EOIOK, HeaderOK, AlignedOK, ScanMCUs,
     SourceInv
<1>6. CASE /\ rd' = rd + 1 /\ HaveData /\ ~ eoi_reached
           /\ NextUnit.m \in {"mcu", "sof", "eoi"} /\ r # "SOS"
           /\ UNCHANGED <<input_scan_number, consume_input>>
           /\ eoi_reached' <=> NextUnit.m = "eoi"
  <2>1. global_state' # "READY" /\ consume_input' = "consume_markers"
    BY <1>6, Zenon
  <2>2. SOSes(file, rd + 1) = SOSes(file, rd)
    BY <1>2, <1>1, <1>6, SOSesGrow DEF NextUnit, HaveData, TypeOK
  <2>3. AlignedOK'
    <3>1. \A s \in SOSes(file, rd) :
              s + ScanMCUs(file[s].comps) <= rd =>
                  s + ScanMCUs(file[s].comps) <= rd + 1
      BY <1>1, <1>2, SMT DEF SOSes, TypeOK
    <3> QED
      BY <1>3, <1>4, <1>6, <2>1, <2>2, <3>1, Zenon DEF AlignedOK, ScanMCUs
  <2> QED
    BY <1>1, <1>6, <2>1, <2>2, <1>2, <2>3 DEF SourceInv, CountOK, HeaderOK, EOIOK,
       NextUnit
<1>7. CASE /\ r = "SOS" /\ rd' = rd + 1 /\ HaveData /\ ~ eoi_reached
           /\ NextUnit.m = "sos"
           /\ input_scan_number' = input_scan_number + 1
           /\ comps_in_scan' = NextUnit.comps /\ Ss' = NextUnit.Ss
           /\ ~ eoi_reached'
           /\ \/ inheaders /\ consume_input' = consume_input
              \/ ~ inheaders /\ StartInputPass("consume_data")
  <2>1. /\ file[rd + 1].m = "sos" /\ rd + 1 \in 1 .. Len(file)
        /\ rd + 1 \in 1 .. rd + 1
    BY <1>1, <1>7, SMT DEF NextUnit, HaveData, TypeOK
  <2>2. /\ Cardinality(SOSes(file, rd + 1)) = Cardinality(SOSes(file, rd)) + 1
        /\ SOSes(file, rd + 1) = SOSes(file, rd) \cup {rd + 1}
        /\ LastSOS(file, rd + 1, rd + 1)
    BY <1>2, <2>1, SOSesGrow, Zenon
  <2>3. HeaderOK'
    BY <1>7, <2>1, <2>2, Zenon DEF NextUnit, HeaderOK
  <2>4. AlignedOK'
    <3>1. CASE inheaders /\ consume_input' = consume_input
      BY <1>1, <3>1, <1>7, Zenon DEF PhaseOK, Reading, AlignedOK
    <3>2. CASE ~ inheaders /\ StartInputPass("consume_data")
      <4>1. /\ input_iMCU_row' = 0 /\ MCU_vert_offset' = 0 /\ MCU_ctr' = 0
            /\ consume_input' # "consume_markers" /\ comps_in_scan' \in Nat
        BY <1>1, <1>7, <2>1, <3>2, FileType, SMT DEF StartInputPass, NextUnit
      <4>2. MCUsDone' = 0 /\ MCU_ctr' < MCUs_per_row
            /\ MCU_vert_offset' < Height(comps_in_scan', input_iMCU_row')
        BY <4>1, PlaceOfStart, Zenon DEF MCUsDone, Place, Line, Height
      <4>3. ASSUME NEW s \in 1 .. rd', LastSOS(file, rd + 1, s)
            PROVE  rd' = s + MCUsDone'
        BY <1>2, <1>7, <2>2, <4>3, <4>2 DEF LastSOS
      <4> QED
        BY <4>1, <4>2, <1>7, <4>3, Zenon DEF AlignedOK, Height, LastSOS, SOSes
    <3> QED
      BY <1>7, <3>1, <3>2, Zenon
  <2> QED
    BY <1>1, <1>7, <2>2, <1>2, <2>1, <2>3, <2>4 DEF SourceInv, CountOK, EOIOK
<1>8. CASE eoi_reached /\ r = "EOI" /\ UNCHANGED input
  BY <1>5, <1>8, SMT DEF input, marker, inctl
<1>9. CASE ~ eoi_reached /\ r = "SUSPENDED" /\ SuspendInMarkers
  BY <1>5, <1>9, SMT DEF SuspendInMarkers, inctl
<1>10. CASE ~ eoi_reached /\ r = "MORE" /\ SkipGarbage
  BY <1>6, <1>10, SMT DEF SkipGarbage, marker, inctl
<1>11. CASE ~ eoi_reached /\ GetSOF(r)
  BY <1>11, <1>6 DEF GetSOF, inctl
<1>12. CASE ~ eoi_reached /\ GetSOS(r)
  BY <1>12, <1>7, Zenon DEF GetSOS
<1>13. CASE ~ eoi_reached /\ GetEOI(r)
  BY <1>13, <1>6 DEF GetEOI, marker
<1> QED
  BY <1>8, <1>9, <1>10, <1>11, <1>12, <1>13, Zenon DEF ConsumeMarkers

(* One turn of the MCU loop (consume_data and decompress_onepass).         *)
LEMMA DecodeSource ==
    ASSUME IndInv, SourceInv, Reading, Active, NEW r, DecodeRow(r),
           input_iMCU_row < total_iMCU_rows,
           consume_input # "consume_markers",
           UNCHANGED <<file, global_state, input_scan_number, comps_in_scan,
                       Ss, eoi_reached>>
    PROVE  SourceInv'
<1>1. TypeOK /\ InputOK /\ CountOK /\ EOIOK /\ HeaderOK /\ AlignedOK
  BY Zenon DEF IndInv, SourceInv
<1>2. /\ rd \in Nat /\ rd + 1 \in Nat /\ Len(file) \in Nat
      /\ comps_in_scan \in Nat /\ MCU_vert_offset \in Nat /\ MCU_ctr \in Nat
      /\ input_iMCU_row \in 0 .. total_iMCU_rows - 1
      /\ \A i \in 1 .. Len(file) : ScanMCUs(file[i].comps) \in Nat
      /\ rd <= Len(file)
  BY <1>1, FileType, ConstantsAssumption, SMT DEF TypeOK
<1>3. ~ eoi_reached /\ global_state # "READY" /\ global_state' # "READY"
  BY <1>1, SMT DEF InputOK, Reading, Active
<1>4. WellFormed(file)' <=> WellFormed(file)
  BY Zenon DEF WellFormed, InScan, ScanMCUs
<1>5. PICK s \in 1 .. rd : /\ LastSOS(file, rd, s)
                           /\ Ss = file[s].Ss /\ comps_in_scan = file[s].comps
  BY <1>1, Zenon DEF HeaderOK
<1>6. ASSUME WellFormed(file)
      PROVE  /\ rd = s + MCUsDone /\ MCU_ctr < MCUs_per_row
             /\ MCU_vert_offset < Height(comps_in_scan, input_iMCU_row)
  BY <1>1, <1>5, <1>6, Zenon DEF AlignedOK
<1>7. /\ s \in Nat /\ s \in 1 .. Len(file) /\ file[s].m = "sos"
      /\ ScanMCUs(comps_in_scan) \in Nat
  BY <1>2, <1>5, SMT DEF LastSOS, SOSes
<1>8. CASE ~ HaveData
  <2>1. UNCHANGED <<rd, MCU_ctr, MCU_vert_offset, input_iMCU_row,
                    consume_input>>
    BY <1>8, Zenon DEF DecodeRow
  <2>2. AlignedOK'
    BY <2>1, <1>1, <1>3, <1>4, Zenon DEF MCUsDone, Place, Line, Height, AlignedOK
  <2> QED
    BY <1>1, <2>1, <2>2, Zenon DEF SourceInv, CountOK, EOIOK, HeaderOK
<1>9. CASE HaveData
  <2>1. rd' = IF file[rd + 1].m = "mcu" THEN rd + 1 ELSE rd
    BY <1>9, Zenon DEF DecodeRow, NextUnit
  <2>2. rd' \in Nat /\ SOSes(file, rd') = SOSes(file, rd) /\ rd <= rd'
        /\ s \in 1 .. rd'
        /\ \A i \in 1 .. rd' : i \in 1 .. rd \/ file[i].m = "mcu"
    <3>1. CASE file[rd + 1].m = "mcu"
      <4>1. rd' = rd + 1 /\ file[rd + 1].m # "sos"
        BY <2>1, <3>1, SMT
      <4> QED
        BY <1>2, <3>1, <4>1, SOSesGrow, SMT
    <3>2. CASE file[rd + 1].m # "mcu"
      BY <1>2, <2>1, <3>2, SMT
    <3> QED
      BY <3>1, <3>2, Zenon
  <2>3. LastSOS(file, rd', s)
    BY <1>5, <2>2, Zenon DEF LastSOS
  <2>4. HeaderOK'
    BY <1>5, <2>2, <2>3, <1>3, Zenon DEF HeaderOK
  <2>5. ASSUME WellFormed(file) PROVE AlignedOK'
    <3> DEFINE done == Place(comps_in_scan, input_iMCU_row, MCU_vert_offset,
                             MCU_ctr)
               size == ScanMCUs(comps_in_scan)
               high == Height(comps_in_scan, input_iMCU_row)
    <3>1. /\ MCU_ctr < MCUs_per_row /\ MCU_vert_offset < high
          /\ rd = s + done
      BY <1>6, <2>5, Zenon DEF MCUsDone
    <3>2. /\ done \in Nat /\ size \in Nat /\ done < size
          /\ Place(comps_in_scan, input_iMCU_row, MCU_vert_offset,
                   MCU_ctr + 1) = done + 1
          /\ MCU_ctr + 1 >= MCUs_per_row /\ MCU_vert_offset + 1 < high
                => Place(comps_in_scan, input_iMCU_row, MCU_vert_offset + 1, 0)
                     = done + 1
          /\ MCU_ctr + 1 >= MCUs_per_row /\ MCU_vert_offset + 1 >= high
             /\ input_iMCU_row + 1 < total_iMCU_rows
                => Place(comps_in_scan, input_iMCU_row + 1, 0, 0) = done + 1
          /\ MCU_ctr + 1 >= MCUs_per_row /\ MCU_vert_offset + 1 >= high
             /\ input_iMCU_row + 1 >= total_iMCU_rows
                => size = done + 1
      BY <1>2, <3>1, PlaceOfScan, SMT
    <3>3. high = MCU_rows_per_iMCU_row
      BY Zenon DEF Height, MCU_rows_per_iMCU_row
    <3>4. file[rd + 1].m = "mcu"
      <4>1. s < rd + 1 /\ rd + 1 <= s + size
        <5> HIDE DEF done, size
        <5> HIDE <1>2, <1>7, <3>1, <3>2
        <5> QED
          BY <3>1, <3>2, <1>2, <1>7, SMT
      <4> QED
        BY <1>2, <1>5, <1>7, <2>5, <4>1, DataOfScan, Zenon
    <3>5. rd' = rd + 1
      BY <2>1, <3>4, Zenon
    <3>6. ASSUME MCUsDone' = done + 1
          PROVE  \A t \in 1 .. rd' : LastSOS(file, rd, t)' => rd' = t + MCUsDone'
      <4>1. rd' = s + MCUsDone'
        <5> HIDE DEF done
        <5> QED
          BY <1>7, <3>1, <3>2, <3>5, <3>6, SMT
      <4>2. ASSUME NEW t \in 1 .. rd', LastSOS(file, rd', t) PROVE t = s
        BY <1>7, <2>2, <2>3, <4>2, SMT DEF LastSOS
      <4>3. ASSUME NEW t \in 1 .. rd', LastSOS(file, rd, t)'
            PROVE  rd' = t + MCUsDone'
        BY <4>3, <4>1, <4>2, Zenon DEF LastSOS, SOSes
      <4> QED
        BY <4>3, Zenon
    <3>7. CASE MCU_ctr + 1 < MCUs_per_row
      <4>1. /\ MCU_ctr' = MCU_ctr + 1
            /\ UNCHANGED <<MCU_vert_offset, input_iMCU_row, consume_input>>
        BY <1>2, <3>7, ConstantsAssumption, <1>9 DEF DecodeRow
      <4>2. (MCU_vert_offset < Height(comps_in_scan, input_iMCU_row))'
        BY <3>1, <4>1, Zenon DEF Height
      <4> QED
        BY <3>6, <4>1, <3>2, <3>7, <4>2, Zenon DEF AlignedOK, MCUsDone, Place, Line
    <3>8. CASE MCU_ctr + 1 >= MCUs_per_row /\ MCU_vert_offset + 1 < high
      <4>1. /\ MCU_ctr' = 0 /\ MCU_vert_offset' = MCU_vert_offset + 1
            /\ UNCHANGED <<input_iMCU_row, consume_input>>
        <5>1. high \in Nat
          BY ConstantsAssumption, SMT DEF Height
        <5>2. ~ MCU_vert_offset + 1 >= MCU_rows_per_iMCU_row
          <6> HIDE DEF high
          <6> QED
            BY <1>2, <3>3, <3>8, <5>1, SMT
        <5> QED
          BY <1>9, <1>2, <3>8, ConstantsAssumption, <5>2 DEF DecodeRow
      <4>2. (MCU_vert_offset < Height(comps_in_scan, input_iMCU_row))'
        BY <3>8, <4>1, Zenon DEF Height
      <4> QED
        BY <3>6, <4>1, <3>2, <3>8, PlaceOfStart, <1>2, <4>2, Zenon DEF AlignedOK,
           MCUsDone, Place, Line
    <3>9. CASE MCU_ctr + 1 >= MCUs_per_row /\ MCU_vert_offset + 1 >= high
      <4>1. /\ MCU_ctr' = 0 /\ input_iMCU_row' = input_iMCU_row + 1
            /\ IF LastIMCURow
               THEN consume_input' = "consume_markers"
               ELSE MCU_vert_offset' = 0 /\ UNCHANGED consume_input
        <5>1. high \in Nat
          BY ConstantsAssumption, SMT DEF Height
        <5>2. ~ MCU_vert_offset + 1 < MCU_rows_per_iMCU_row
          <6> HIDE DEF high
          <6> QED
            BY <1>2, <3>3, <3>9, <5>1, SMT
        <5> QED
          BY <1>9, <1>2, <3>9, ConstantsAssumption, <5>2 DEF DecodeRow
      <4>2. CASE LastIMCURow
        <5>1. size = done + 1
          BY <3>2, <3>9, <4>2, Zenon DEF LastIMCURow
        <5>2. ASSUME NEW t \in SOSes(file, rd)
              PROVE  t + ScanMCUs(file[t].comps) <= rd'
          <6>1. t \in 1 .. Len(file) /\ file[t].m = "sos" /\ t <= s
            BY <1>2, <1>5, SMT DEF SOSes, LastSOS
          <6>2. CASE t = s
            <7> HIDE DEF done
            <7>1. s + size <= rd'
              BY <1>2, <1>7, <3>1, <3>2, <3>5, <5>1, SMT
            <7> QED
              BY <1>5, <6>2, <7>1, Zenon
          <6>3. CASE t # s
            <7>1. file[s].m # "mcu" /\ t < s
              BY <1>7, <6>1, <6>3, SMT
            <7>2. t + ScanMCUs(file[t].comps) < s
              BY <1>2, <1>7, <2>5, <6>1, <7>1, BeforeMarker, Zenon
            <7> QED
              BY <1>2, <1>5, <3>5, <7>2, <6>1, SMT
          <6> QED
            BY <6>2, <6>3
        <5> QED
          BY <2>2, <4>1, <4>2, <5>2, Zenon DEF AlignedOK, ScanMCUs
      <4>3. CASE ~ LastIMCURow
        BY <1>2, <4>1, <4>3, ConstantsAssumption, <3>2, <3>9, PlaceOfStart, <3>6 DEF
           LastIMCURow, MCUsDone, Place, Line, Height, AlignedOK
      <4> QED
        BY <4>2, <4>3
    <3>10. high \in Nat
      BY ConstantsAssumption, SMT DEF Height
    <3> HIDE DEF high
    <3> QED
      BY <1>2, <3>7, <3>8, <3>9, <3>10, ConstantsAssumption, SMT
  <2>6. ~ WellFormed(file) => AlignedOK'
    BY <1>4, Zenon DEF AlignedOK
  <2> QED
    BY <1>1, <2>2, <1>3, <2>4, <2>5, <2>6 DEF SourceInv, CountOK, EOIOK
<1> QED
  BY <1>8, <1>9
-----------------------------------------------------------------------------
(* The steps as the input side sees them: nothing of it changes, the input *)
(* pass of the first scan is set up, or a consume_input method is called.  *)
position == <<file, rd, input_scan_number, comps_in_scan, Ss, consume_input,
              eoi_reached, input_iMCU_row, MCU_vert_offset, MCU_ctr>>

Still ==
    /\ UNCHANGED position
    /\ Reading
    /\ (global_state' = "READY") <=> (global_state = "READY")

Selected ==
    /\ Reading /\ global_state = "READY" /\ global_state' # "READY"
    /\ StartInputPass("consume_data") \/ StartInputPass("dummy_consume_data")
    /\ UNCHANGED <<file, rd, input_scan_number, comps_in_scan, Ss, eoi_reached>>

Taken(r) ==
    /\ ConsumeInput(r) /\ r # "ERROR"
    /\ Reading /\ file' = file
    /\ \/ Active /\ global_state' = global_state
       \/ /\ global_state = "INHEADER"
          /\ (global_state' = "READY") <=> (r = "SOS")

SourceStep ==
    \/ ~ Reading' \/ BeginDatastream \/ Still \/ Selected
    \/ \E r \in Returns : Taken(r)
    \/ DecompressOnepass

LEMMA LibrarySource ==
    ASSUME IndInv, Library
    PROVE  SourceStep
<1>1. TypeOK /\ CallOK
  BY Zenon DEF IndInv
<1>2. CASE HeaderStep
  <2>1. PICK r \in Returns :
          /\ ConsumeInput(r)
          /\ \/ /\ r = "SOS"
                /\ global_state' = "READY" /\ call' = "none"
                /\ mode' = DefaultMode /\ colormap' = FALSE
             \/ /\ r = "EOI" /\ call = "consume_input" /\ call' = "none"
                /\ UNCHANGED <<global_state, params>>
             \/ /\ r = "EOI" /\ call = "read_header"
                /\ \/ call' = "error" /\ UNCHANGED global_state
                   \/ call' = "none" /\ global_state' = "START"
                /\ UNCHANGED params
             \/ /\ r \in {"MORE", "SUSPENDED", "ERROR"}
                /\ call' = NextCall(r)
                /\ UNCHANGED <<global_state, params>>
    BY <1>2, Zenon DEF HeaderStep
  <2>2. /\ global_state = "INHEADER" /\ call # "error" /\ file' = file
    BY <1>2, SMT DEF HeaderStep, sourceFrame
  <2>3. Reading
    BY <2>2, SMT DEF Reading
  <2> QED
    BY <2>1, <2>2, <2>3 DEF SourceStep, Taken, Reading, NextCall
<1>3. CASE ConsumeStep \/ PreloadStep \/ ForceInput
           \/ (FinishOutputStep /\ AwaitsMarker)
           \/ (ReadCoefficientsStep /\ ~ eoi_reached)
  <2>1. PICK r \in Returns : /\ ConsumeInput(r)
                             /\ r = "ERROR" => call' = "error"
    <3>1. CASE ConsumeStep
      <4>1. PICK r \in Returns :
                /\ ConsumeInput(r)
                /\ call' = IF r \in {"ROW", "SCAN", "SOS", "EOI"} THEN "none"
                           ELSE NextCall(r)
        BY <3>1, Zenon DEF ConsumeStep
      <4> QED
        BY <4>1 DEF NextCall
    <3>2. CASE \E r \in Returns : ConsumeInput(r) /\ call' = NextCall(r)
      <4>1. PICK r \in Returns : ConsumeInput(r) /\ call' = NextCall(r)
        BY <3>2, Zenon
      <4> QED
        BY <4>1 DEF NextCall
    <3> QED
      BY <1>3, <3>1, <3>2, Zenon DEF PreloadStep, ForceInput,
         FinishOutputStep, ReadCoefficientsStep
  <2>2. \/ call = "consume_input" /\ global_state # "INHEADER"
        \/ call \in {"start_decompress", "read", "output_pass_setup",
                     "finish_output", "read_coefficients"}
    BY <1>3, SMT DEF ConsumeStep, PreloadStep, ForceInput, Decoding,
       FinishOutputStep, ReadCoefficientsStep
  <2>3. global_state' = global_state /\ file' = file
    BY <1>3 DEF ConsumeStep, PreloadStep, sourceFrame, ForceInput, outputFrame,
       FinishOutputStep, ReadCoefficientsStep
  <2> QED
    BY <2>1, <1>1, <2>2, <2>3 DEF SourceStep, Taken, CallOK, Active, Consuming, InPass,
       Reading
<1>4. CASE DecompressOnepass
  BY <1>4, Zenon DEF SourceStep
<1>5. CASE PreloadDone
  <2>1. /\ global_state = "PRELOAD" /\ global_state' = "PRESCAN"
        /\ call = "start_decompress"
    BY <1>1, <1>5, SMT DEF PreloadDone, SetUpPass, CallOK
  <2> QED
    BY <1>5, <2>1 DEF SourceStep, Still, Reading, PreloadDone, sourceFrame, marker, inctl,
       coef, position
<1>6. CASE DecompressBuffered \/ CrankRow
  <2>1. UNCHANGED position /\ global_state' = global_state
    BY <1>6, SMT DEF DecompressBuffered, CrankRow, outputFrame, input, marker,
       inctl, coef, position
  <2> QED
    BY <2>1, <1>1, <1>6 DEF SourceStep, Still, Reading, DecompressBuffered, CrankRow,
       Decoding, CallOK, InPass
<1>7. CASE FinishDummyPass \/ FinishSetup
  <2>1. UNCHANGED <<file, input>> /\ call = "output_pass_setup"
        /\ \/ global_state' = global_state
           \/ global_state' = IF mode.raw THEN "RAW_OK" ELSE "SCANNING"
    BY <1>7 DEF FinishDummyPass, api, FinishSetup
  <2>2. call = "output_pass_setup" /\ global_state = "PRESCAN"
        /\ global_state' \in {"PRESCAN", "RAW_OK", "SCANNING"}
    BY <1>1, <2>1, SMT DEF CallOK
  <2> QED
    BY <2>1, <2>2 DEF SourceStep, Still, Reading, input, marker, inctl, coef, position
<1>8. CASE \/ FinishOutputStep /\ ~ AwaitsMarker
           \/ ReadCoefficientsStep /\ eoi_reached
  <2>1. UNCHANGED position
    BY <1>8, SMT DEF FinishOutputStep, ReadCoefficientsStep, sourceFrame,
       input, marker, inctl, coef, position
  <2> QED
    BY <2>1, <1>1, <1>8 DEF SourceStep, Still, Reading, FinishOutputStep,
       ReadCoefficientsStep, CallOK
<1>9. CASE FinishDecompressStep
  BY <1>9, SMT DEF FinishDecompressStep, SourceStep, Reading
<1> QED
  BY <1>2, <1>3, <1>4, <1>5, <1>6, <1>7, <1>8, <1>9, Zenon DEF Library

LEMMA ApplicationSource ==
    ASSUME IndInv, Application \/ Arrive \/ UNCHANGED vars
    PROVE  SourceStep
<1>1. CASE ReadHeader \/ JpegConsumeInput
  <2>1. CASE BeginDatastream
    BY <2>1, Zenon DEF SourceStep
  <2>2. CASE ReadHeader /\ ~ BeginDatastream
    <3>1. UNCHANGED position /\ global_state = "INHEADER" /\ call = "none"
          /\ global_state' = global_state
      BY <2>2, SMT DEF ReadHeader, Enter, Idle, sourceFrame, input, marker,
         inctl, coef, position
    <3> QED
      BY <3>1, SMT DEF SourceStep, Still, Reading
  <2>3. CASE JpegConsumeInput /\ ~ BeginDatastream
    <3>1. /\ UNCHANGED position /\ call = "none"
          /\ global_state' = global_state
          /\ global_state \in Consuming \/ call' = "error"
      BY <2>3, SMT DEF JpegConsumeInput, Idle, sourceFrame, input, marker,
         inctl, coef, position
    <3> QED
      BY <3>1, SMT DEF SourceStep, Still, Reading, Consuming
  <2> QED
    BY <1>1, <2>1, <2>2, <2>3, Zenon
<1>2. CASE StartDecompress \/ ReadCoefficients
  <2>1. /\ call = "none"
        /\ UNCHANGED <<sourceFrame, rd, marker, eoi_reached>>
    BY <1>2, Zenon DEF StartDecompress, ReadCoefficients, Enter, Idle
  <2>2. UNCHANGED <<file, rd, input_scan_number, comps_in_scan, Ss, eoi_reached>>
    BY <2>1, SMT DEF sourceFrame, marker
  <2>3. \/ /\ global_state = "READY"
           /\ \E full \in BOOLEAN : SelectCoefController(full)
           /\ global_state' \in {"BUFIMAGE", "PRELOAD", "RDCOEFS"}
        \/ /\ global_state \in {"PRELOAD", "PRESCAN", "RDCOEFS"}
           /\ UNCHANGED <<global_state, consume_input, coef>>
    <3>1. CASE ReadCoefficients
      BY <3>1 DEF ReadCoefficients
    <3>2. CASE StartDecompress
      <4>1. \/ \E m \in Modes :
                  /\ global_state = "READY"
                  /\ SelectCoefController(has_multiple_scans \/ m.buffered)
                  /\ global_state' \in {"BUFIMAGE", "PRELOAD"}
            \/ /\ global_state \in {"PRELOAD", "PRESCAN"}
               /\ UNCHANGED <<global_state, consume_input, coef>>
        BY <3>2, ZenonT(40) DEF StartDecompress
      <4>2. ASSUME NEW m \in Modes
            PROVE  (has_multiple_scans \/ m.buffered) \in BOOLEAN
        BY Zenon
      <4> QED
        BY <4>1, <4>2, Zenon
    <3> QED
      BY <1>2, <3>1, <3>2
  <2>4. CASE /\ global_state = "READY"
             /\ \E full \in BOOLEAN : SelectCoefController(full)
             /\ global_state' \in {"BUFIMAGE", "PRELOAD", "RDCOEFS"}
    BY <2>4, <2>1, <2>2 DEF SelectCoefController, Reading, SourceStep, Selected
  <2>5. CASE /\ global_state \in {"PRELOAD", "PRESCAN", "RDCOEFS"}
             /\ UNCHANGED <<global_state, consume_input, coef>>
    BY <2>1, <2>2, <2>5, SMT DEF SourceStep, Still, Reading, position, coef
  <2> QED
    BY <2>3, <2>4, <2>5
<1>3. CASE ReadRows \/ FinishOutput \/ FinishDecompress
  <2>1. UNCHANGED position /\ call = "none"
    BY <1>3, SMT DEF ReadRows, FinishOutput, FinishDecompress, Enter, Idle,
       sourceFrame, input, marker, inctl, coef, position
  <2> QED
    BY <2>1, <1>3 DEF SourceStep, Still, Reading, ReadRows, FinishOutput, FinishDecompress
<1>4. CASE StartOutput
  <2>1. UNCHANGED position /\ call = "none"
    BY <1>4, SMT DEF StartOutput, Idle, sourceFrame, marker, inctl, coef,
       position
  <2>2. global_state \in {"BUFIMAGE", "PRESCAN"}
        /\ global_state' \in {"BUFIMAGE", "PRESCAN"}
    <3>1. PICK n \in 0 .. MaxTarget :
              \/ NewPass(LimitedTarget(n))
              \/ global_state = "PRESCAN" /\ UNCHANGED global_state
      BY <1>4, SMT DEF StartOutput
    <3>2. CASE NewPass(LimitedTarget(n))
      BY <3>2, SMT DEF NewPass, SetUpPass
    <3> QED
      BY <3>1, <3>2, SMT
  <2> QED
    BY <2>1, <2>2, SMT DEF SourceStep, Still, Reading
<1>5. CASE JpegAbort
  BY <1>5, SMT DEF JpegAbort, SourceStep, Reading
<1>6. CASE Arrive \/ UNCHANGED vars
  <2>1. UNCHANGED position /\ UNCHANGED <<global_state, call>>
    BY <1>6, SMT DEF Arrive, vars, api, input, marker, inctl, coef, position
  <2> QED
    BY <2>1, SMT DEF SourceStep, Still, Reading
<1> QED
  BY <1>1, <1>2, <1>3, <1>4, <1>5, <1>6, Zenon DEF Application

LEMMA SourceInvKept ==
    ASSUME IndInv, SourceInv, [Next]_vars
    PROVE  SourceInv'
<1>1. TypeOK /\ PhaseOK /\ InputOK
  BY Zenon DEF IndInv
<1>2. SUFFICES ASSUME Reading' PROVE SourceInv'
  BY Zenon DEF SourceInv
<1>3. CASE BeginDatastream
  BY <1>3, FS_EmptySet, SMT DEF BeginDatastream, SOSes, CountOK, EOIOK, HeaderOK,
     AlignedOK, SourceInv
<1>4. CASE Still
  <2>1. CountOK /\ EOIOK /\ HeaderOK /\ AlignedOK
    BY <1>4, Zenon DEF SourceInv, Still
  <2>2. /\ UNCHANGED <<file, rd, input_scan_number, comps_in_scan, Ss,
                       consume_input, eoi_reached, input_iMCU_row,
                       MCU_vert_offset, MCU_ctr>>
        /\ (global_state' = "READY") <=> (global_state = "READY")
    BY <1>4, Zenon DEF Still, position
  <2>3. MCUsDone' = MCUsDone /\ (WellFormed(file)' <=> WellFormed(file))
        /\ Height(comps_in_scan, input_iMCU_row)'
             = Height(comps_in_scan, input_iMCU_row)
    BY <2>2, Zenon DEF MCUsDone, Place, Line, Height, WellFormed, InScan,
       ScanMCUs
  <2>4. AlignedOK'
    BY <2>2, <2>1, <2>3, Zenon DEF LastSOS, SOSes, ScanMCUs, AlignedOK
  <2> QED
    BY <2>1, <2>2, <2>4, Zenon DEF SourceInv, CountOK, EOIOK, HeaderOK
<1>5. CASE Selected
  <2>1. CountOK /\ EOIOK /\ HeaderOK
    BY <1>5, Zenon DEF SourceInv, Selected
  <2>2. /\ UNCHANGED <<file, rd, input_scan_number, comps_in_scan, Ss,
                       eoi_reached>>
        /\ global_state = "READY" /\ global_state' # "READY"
        /\ input_iMCU_row' = 0 /\ MCU_vert_offset' = 0 /\ MCU_ctr' = 0
        /\ consume_input' # "consume_markers"
    BY <1>5, SMT DEF Selected, StartInputPass
  <2>3. /\ rd \in 1 .. rd /\ LastSOS(file, rd, rd)
        /\ Ss = file[rd].Ss /\ comps_in_scan = file[rd].comps
    BY <2>1, <2>2, Zenon DEF HeaderOK
  <2>4. AlignedOK'
    <3>1. comps_in_scan \in Nat /\ rd \in Nat
      BY <1>1, Zenon DEF TypeOK
    <3>2. MCUsDone' = 0 /\ MCU_ctr' < MCUs_per_row
          /\ MCU_vert_offset' < Height(comps_in_scan', input_iMCU_row')
      BY <2>2, <3>1, PlaceOfStart, Zenon DEF MCUsDone, Place, Line, Height
    <3>3. ASSUME NEW s \in 1 .. rd, LastSOS(file, rd, s) PROVE rd = s + 0
      BY <2>3, <3>1, <3>3, SMT DEF LastSOS
    <3> QED
      BY <2>2, <3>2, <3>3, Zenon DEF AlignedOK, Height, LastSOS, SOSes
  <2> QED
    BY <2>1, <2>2, <2>3, <2>4, Zenon DEF SourceInv, CountOK, EOIOK, HeaderOK
<1>6. CASE \E r \in Returns : Taken(r)
  <2>1. PICK r \in Returns : Taken(r)
    BY <1>6
  <2>2. /\ ConsumeInput(r) /\ r # "ERROR" /\ Reading /\ file' = file
        /\ \/ Active /\ global_state' = global_state
           \/ /\ global_state = "INHEADER"
              /\ (global_state' = "READY") <=> (r = "SOS")
    BY <2>1, Zenon DEF Taken
  <2>3. CASE consume_input = "consume_markers" /\ ConsumeMarkers(r)
    BY <2>2, <1>2, <2>3, MarkersSource DEF Active
  <2>4. CASE consume_input = "consume_data" /\ ConsumeData(r)
    BY <1>1, <2>2, <2>4, ConstantsAssumption, DecodeSource, SMT DEF PhaseOK, InputOK,
       Reading, TypeOK, ConsumeData, marker
  <2>5. CASE consume_input = "dummy_consume_data" /\ UNCHANGED input
    BY <1>1, <2>2, <2>5, <1>4 DEF PhaseOK, Still, position, input, marker, inctl, coef
  <2> QED
    BY <2>2, <2>3, <2>4, <2>5, Zenon DEF ConsumeInput
<1>7. CASE DecompressOnepass
  <2>1. /\ PassState /\ output_scanline < total_iMCU_rows
        /\ output_iMCU_row = output_scanline
        /\ call \in {"read", "output_pass_setup"} /\ Active /\ Onepass
    BY <1>7, DecodingRow, Zenon DEF DecompressOnepass, Onepass
  <2>2. PICK r \in Returns : DecodeRow(r)
    BY <1>7, Zenon DEF DecompressOnepass
  <2>3. Reading
    BY <2>1, SMT DEF Reading, Active
  <2>4. input_iMCU_row = output_iMCU_row
    BY <2>1, Zenon DEF IndInv, PassOK
  <2>5. consume_input # "consume_markers"
    BY <1>1, <2>1, <2>4, ConstantsAssumption, <2>3 DEF TypeOK, InputOK, Reading
  <2> QED
    BY <2>1, <2>2, <1>7, <2>3, <2>4, <2>5, DecodeSource DEF outputFrame, marker,
       DecompressOnepass
<1> QED
  BY LibrarySource, ApplicationSource, <1>2, <1>3, <1>4, <1>5, <1>6, <1>7, Zenon DEF
     SourceStep, Next

LEMMA SourceInvariant == Spec => [](IndInv /\ SourceInv)
<1>1. Init => SourceInv
  BY Zenon DEF Init, SourceInv, Reading
<1>2. IndInv /\ SourceInv /\ [Next]_vars => SourceInv'
  BY SourceInvKept
<1> QED
  BY <1>1, <1>2, Invariant, PTL DEF Spec

(* In a well-formed file the entropy decoder stops on the last MCU of each *)
(* scan, for every sampling factor and every height of the last iMCU row:  *)
(* it is never started on a marker, nor next_marker on compressed data     *)
(* (consume_data, start_iMCU_row, consume_markers).                        *)
THEOREM ScanAlignedHolds == Spec => []ScanAligned
<1>1. IndInv /\ SourceInv => ScanAligned
  <2> SUFFICES ASSUME IndInv, SourceInv, WellFormed(file), HaveData,
                      call # "error", global_state \notin {"START", "READY"}
               PROVE  NextUnit.m = "mcu" <=> consume_input # "consume_markers"
    BY Zenon DEF ScanAligned
  <2>1. TypeOK /\ PhaseOK /\ InputOK
    BY Zenon DEF IndInv
  <2>2. Reading /\ global_state # "READY"
    BY SMT DEF Reading
  <2>3. HeaderOK /\ AlignedOK
    BY <2>2, Zenon DEF SourceInv
  <2>4. /\ rd \in Nat /\ Len(file) \in Nat /\ rd < Len(file)
        /\ \A s \in 1 .. Len(file) : ScanMCUs(file[s].comps) \in Nat
    BY <2>1, FileType, SMT DEF TypeOK, HaveData
  <2>5. CASE consume_input = "consume_markers"
    BY <2>2, <2>3, <2>5, <2>4, NoStrayData, Zenon DEF AlignedOK, NextUnit
  <2>6. CASE consume_input # "consume_markers"
    <3>1. PICK s \in 1 .. rd : /\ LastSOS(file, rd, s)
                               /\ comps_in_scan = file[s].comps
      BY <2>3, <2>6, Zenon DEF HeaderOK
    <3>2. /\ rd = s + MCUsDone /\ MCU_ctr < MCUs_per_row
          /\ MCU_vert_offset < Height(comps_in_scan, input_iMCU_row)
      BY <2>3, <2>6, <3>1, Zenon DEF AlignedOK
    <3> DEFINE size == ScanMCUs(comps_in_scan)
    <3>3. MCUsDone \in Nat /\ size \in Nat /\ MCUsDone < size
      BY <3>2, <2>1, <2>6, <2>2, ConstantsAssumption, PlaceOfScan DEF MCUsDone, TypeOK,
         InputOK, PhaseOK, Active, Reading
    <3>4. s \in 1 .. Len(file) /\ file[s].m = "sos" /\ s \in Nat
      BY <2>4, <3>1, SMT DEF LastSOS, SOSes
    <3>5. rd + 1 \in Nat /\ s < rd + 1 /\ rd + 1 <= s + size
      <4> HIDE DEF size
      <4> QED
        BY <2>4, <3>2, <3>3, <3>4, SMT
    <3> QED
      BY <2>6, <2>4, <3>1, <3>3, <3>4, <3>5, DataOfScan, Zenon DEF NextUnit
  <2> QED
    BY <2>5, <2>6
<1> QED
  BY <1>1, SourceInvariant, PTL
-----------------------------------------------------------------------------
(* All rows that a pass has made are in S: n rows of the image or of the   *)
(* saved image, and, to be cranked, all rows of the saved image.           *)
AllIn(S, pm, n, sv, im) ==
    /\ pm = "SAVE_AND_PASS" => \A r \in Rows : r < n => sv[r] \in S
    /\ pm = "CRANK_DEST" => \A r \in Rows : sv[r] \in S
    /\ pm # "SAVE_AND_PASS" => \A r \in Rows : r < n => im[r] \in S

Whole(n) == {row \in Row : row.scan = n}
Lead(n, dc) == {row \in Row : row.next >= n - 1 /\ (dc => row.next >= n)}
NextWanted == Lead(Promised, IsDCScan(Promised))

(* In a pass that follows PRELOAD the whole file has been absorbed.        *)
FinalOK ==
    PassState /\ ~ mode.buffered /\ has_multiple_scans =>
        /\ call # "error" /\ eoi_reached
        /\ consume_input = "consume_markers"
        /\ \A r \in Rows : whole_image[r] = input_scan_number
        /\ AllIn(Whole(input_scan_number), post_mode, output_scanline, saved,
                 image)

(* A pass with smoothing: rows come only when the promise can no longer    *)
(* fall at EOI, so that the target it stands for does not become another.  *)
LeadOK ==
    PassState /\ decompress_data = "decompress_smooth_data" =>
        /\ output_scanline > 0 \/ post_mode = "CRANK_DEST"
             => eoi_reached \/ input_scan_number >= pass_target
        /\ AllIn(NextWanted, post_mode, output_scanline, saved, image)

BufferedOK == global_state \in {"BUFIMAGE", "BUFPOST"} => mode.buffered

OutputInv == FinalOK /\ LeadOK /\ BufferedOK
-----------------------------------------------------------------------------
LEMMA DeliverAll ==
    ASSUME TypeOK, output_scanline < total_iMCU_rows, NEW S, NEW row \in S,
           row \in Row, Deliver(row), post_mode' = post_mode,
           AllIn(S, post_mode, output_scanline, saved, image)
    PROVE  AllIn(S, post_mode', output_scanline', saved', image')
<1>1. /\ saved \in [Rows -> Row] /\ image \in [Rows -> Row]
      /\ output_scanline \in Rows /\ output_scanline' = output_scanline + 1
  BY ConstantsAssumption DEF TypeOK, Rows, Deliver
<1>2. CASE post_mode = "SAVE_AND_PASS"
  BY <1>2, <1>1 DEF Deliver, AllIn, Rows
<1>3. CASE post_mode # "SAVE_AND_PASS"
  BY <1>3, <1>1 DEF Deliver, AllIn, Rows
<1> QED
  BY <1>2, <1>3

(* A lower target is easier to meet, be it that of a DC scan or not.       *)
LEMMA LeadFalls ==
    ASSUME NEW p \in Nat, NEW q \in Nat, NEW pdc, NEW qdc, q <= p,
           q = p => (qdc => pdc)
    PROVE  Lead(p, pdc) \subseteq Lead(q, qdc)
<1> SUFFICES ASSUME NEW row \in Lead(p, pdc) PROVE row \in Lead(q, qdc)
  OBVIOUS
<1>1. row \in Row /\ row.next >= p - 1 /\ (pdc => row.next >= p)
  BY Zenon DEF Lead
<1>2. CASE q = p
  BY <1>1, <1>2, Zenon DEF Lead
<1>3. CASE q # p
  <2> DEFINE m == row.next
  <2>1. m >= q - 1 /\ m >= q
    <3>1. m \in Nat /\ m >= p - 1
      BY <1>1 DEF Row
    <3> HIDE DEF m
    <3> QED
      BY <1>3, <3>1, SMT
  <2> QED
    BY <1>1, <2>1, Zenon DEF Lead
<1> QED
  BY <1>2, <1>3

(* A pass that has made no row yet.                                        *)
LEMMA NoneIn ==
    ASSUME NEW S, NEW pm, NEW sv, NEW im, pm # "CRANK_DEST"
    PROVE  AllIn(S, pm, 0, sv, im)
BY DEF Rows, AllIn

(* A step that leaves the pass and the input side alone.                   *)
LEMMA OutputStill ==
    ASSUME OutputInv, PassState,
           UNCHANGED <<mode, file, input, master, pass, pass_target>>,
           PassState', call' = "error" => call = "error"
    PROVE  OutputInv'
<1>1. UNCHANGED <<mode, file, has_multiple_scans, eoi_reached, consume_input,
                  whole_image, input_scan_number, post_mode, output_scanline,
                  saved, image, decompress_data, pass_target>>
  BY SMT DEF input, marker, inctl, coef, master, pass
<1>2. LeadOK'
  BY <1>1, Zenon DEF OutputInv, LeadOK, NextWanted, Lead, Promised, Least, IsDCScan,
     IsScan
<1> QED
  BY <1>1, <1>2, SMT DEF OutputInv, FinalOK, BufferedOK, PassState

(* What one step of input leaves as it is while scans are read.            *)
LEMMA ScansStep ==
    ASSUME IndInv, Active, call # "error", NEW r, ConsumeInput(r)
    PROVE  /\ has_multiple_scans' = has_multiple_scans
           /\ eoi_reached => UNCHANGED input /\ r = "EOI"
<1>1. ~ inheaders /\ (eoi_reached => consume_input = "consume_markers")
  BY Zenon DEF PhaseOK, InputOK, Active, IndInv
<1>2. CASE consume_input = "consume_markers" /\ ConsumeMarkers(r)
  <2>1. eoi_reached => UNCHANGED input /\ r = "EOI"
    BY <1>2, Zenon DEF ConsumeMarkers
  <2>2. CASE UNCHANGED input
    BY <2>1, <2>2, SMT DEF input, inctl
  <2>3. CASE SuspendInMarkers \/ SkipGarbage \/ GetSOF(r)
    BY <2>3, <2>1 DEF SuspendInMarkers, SkipGarbage, GetSOF, inctl
  <2>4. CASE GetSOS(r)
    BY <1>1, <2>4, <2>1 DEF GetSOS, inctl
  <2>5. CASE GetEOI(r)
    BY <2>1, <2>5, Zenon DEF GetEOI
  <2> QED
    BY <1>2, <2>2, <2>3, <2>4, <2>5, Zenon DEF ConsumeMarkers
<1>3. CASE consume_input = "consume_data" /\ ConsumeData(r)
  BY <1>1, <1>3, SMT DEF ConsumeData
<1>4. CASE consume_input = "dummy_consume_data" /\ UNCHANGED input
  BY <1>1, <1>4, SMT DEF input, inctl
<1> QED
  BY <1>2, <1>3, <1>4, Zenon DEF ConsumeInput

(* A call that forces input in the middle of a pass.                       *)
LEMMA OutputForced ==
    ASSUME IndInv, OutputInv, PassState, call # "error",
           NEW r, ConsumeInput(r), call' = "error" => r = "ERROR",
           UNCHANGED <<global_state, mode, file, wr, master, pass,
                       pass_target>>
    PROVE  OutputInv'
<1>1. TypeOK /\ PhaseOK /\ Active
  BY SMT DEF IndInv, PassState, Active
<1>2. UNCHANGED <<global_state, mode, file, wr, post_mode, output_scanline,
                  saved, image, decompress_data, pass_target>>
  BY SMT DEF master, pass
<1>3. InputTypeOK' /\ CountersStep
  BY <1>1, <1>2, ConsumeInputStep DEF Active
<1>4. /\ has_multiple_scans' = has_multiple_scans
      /\ eoi_reached => UNCHANGED input /\ r = "EOI"
  BY <1>1, ScansStep, Zenon
<1>5. FinalOK'
  <2> SUFFICES ASSUME PassState', ~ mode'.buffered, has_multiple_scans'
               PROVE  /\ call' # "error" /\ eoi_reached'
                      /\ consume_input' = "consume_markers"
                      /\ \A s \in Rows : whole_image'[s] = input_scan_number'
                      /\ AllIn(Whole(input_scan_number'), post_mode',
                               output_scanline', saved', image')
    BY Zenon DEF FinalOK, AllIn, Whole
  <2>1. /\ eoi_reached /\ consume_input = "consume_markers"
        /\ \A s \in Rows : whole_image[s] = input_scan_number
        /\ AllIn(Whole(input_scan_number), post_mode, output_scanline, saved,
                 image)
    BY <1>2, <1>4, Zenon DEF OutputInv, FinalOK
  <2> QED
    BY <1>2, <2>1, <1>4, SMT DEF input, marker, inctl, coef
<1>6. LeadOK'
  <2> SUFFICES ASSUME decompress_data = "decompress_smooth_data"
               PROVE  /\ output_scanline > 0 \/ post_mode = "CRANK_DEST"
                           => eoi_reached' \/ input_scan_number' >= pass_target
                      /\ AllIn(NextWanted', post_mode, output_scanline, saved,
                               image)
    BY <1>2, Zenon DEF LeadOK, AllIn
  <2>1. /\ output_scanline > 0 \/ post_mode = "CRANK_DEST"
             => eoi_reached \/ input_scan_number >= pass_target
        /\ AllIn(NextWanted, post_mode, output_scanline, saved, image)
    BY Zenon DEF OutputInv, LeadOK
  <2>2. /\ input_scan_number \in Nat /\ input_scan_number' \in Nat
        /\ pass_target \in Nat /\ output_scanline \in Nat
        /\ input_scan_number' >= input_scan_number
        /\ eoi_reached => /\ eoi_reached'
                          /\ input_scan_number' = input_scan_number
        /\ ~ eoi_reached /\ eoi_reached'
             => input_scan_number' = input_scan_number
    <3>1. output_scanline \in Nat
      BY <1>1, SMT DEF TypeOK
    <3>2. /\ input_scan_number' >= input_scan_number
          /\ eoi_reached => /\ eoi_reached'
                            /\ input_scan_number' = input_scan_number
          /\ ~ eoi_reached /\ eoi_reached'
               => input_scan_number' = input_scan_number
      BY <1>3, Zenon DEF CountersStep
    <3> QED
      BY <1>1, <1>3, <3>1, <3>2, Zenon DEF TypeOK, InputTypeOK
  <2>3. CASE output_scanline > 0 \/ post_mode = "CRANK_DEST"
    <3>1. eoi_reached' \/ input_scan_number' >= pass_target
      BY <2>2, <2>1, <2>3
    <3>2. Promised' = Promised
      BY <1>2, <2>2, <2>1, <2>3, SMT DEF Promised, Least
    <3> QED
      BY <2>1, <3>1, <1>2, <3>2, Zenon DEF NextWanted, Lead, IsDCScan, IsScan
  <2>4. CASE ~ (output_scanline > 0 \/ post_mode = "CRANK_DEST")
    BY <2>2, <2>4, NoneIn
  <2> QED
    BY <2>3, <2>4
<1> QED
  BY <1>5, <1>6, <1>2, Zenon DEF OutputInv, BufferedOK

(* The rows that smoothing looks at when it makes one.                     *)
LEMMA NextRowSeen ==
    ASSUME IndInv, SourceInv, Decoding,
           decompress_data = "decompress_smooth_data", ~ MustForceInput
    PROVE  LET next == whole_image[RowBelow(output_iMCU_row)]
           IN  /\ eoi_reached \/ input_scan_number >= pass_target
               /\ next >= Promised - 1
               /\ IsDCScan(Promised) => next >= Promised
<1> USE ConstantsAssumption
<1> DEFINE below == RowBelow(output_iMCU_row)
           next == whole_image[below]
           isn == input_scan_number
<1>1. TypeOK /\ InputOK /\ PassOK
  BY Zenon DEF IndInv
<1>2. /\ PassState /\ output_scanline < total_iMCU_rows /\ Full
      /\ output_iMCU_row = output_scanline
      /\ call \in {"read", "output_pass_setup"} /\ Active
  BY DecodingRow, Zenon DEF Full
<1>3. /\ isn \in Nat /\ output_scan_number \in Nat
      /\ input_iMCU_row \in 0 .. total_iMCU_rows /\ pass_target \in Nat
      /\ output_iMCU_row \in Rows /\ whole_image \in [Rows -> Nat]
  BY <1>1, <1>2, SMT DEF TypeOK, Rows
<1>4. /\ ScansStored
      /\ (consume_input = "consume_markers")
           <=> (input_iMCU_row = total_iMCU_rows)
      /\ eoi_reached => consume_input = "consume_markers"
  BY <1>2, <1>1 DEF InputOK
<1>5. output_scan_number >= Promised
  BY <1>1, <1>2, Zenon DEF PassOK
<1>6. Promised \in Nat
  BY <1>3, SMT DEF Promised, Least
<1>7. /\ below \in Rows /\ next \in Nat
      /\ below = output_iMCU_row + 1 \/ below = total_iMCU_rows - 1
      /\ below <= output_iMCU_row + 1
  BY <1>3, SMT DEF RowBelow, Least, Rows
<1>8. /\ next >= isn - 1
      /\ below < input_iMCU_row => next >= isn
  BY <1>3, <1>4, <1>7, SMT DEF ScansStored
<1>9. ASSUME input_iMCU_row = total_iMCU_rows PROVE next >= isn
  BY <1>3, <1>7, <1>8, <1>9, SMT DEF Rows
<1>10. CASE eoi_reached
  <2>1. Promised <= isn
    BY <1>3, <1>10, SMT DEF Promised, Least
  <2>2. next >= Promised /\ next >= Promised - 1
    <3> HIDE DEF next, isn
    <3> QED
      BY <1>3, <1>6, <1>7, <1>4, <1>9, <1>10, <2>1
  <2> QED
    BY <1>10, <2>2, Zenon
<1>11. CASE ~ eoi_reached
  <2>1. Promised = pass_target
    BY <1>11, Zenon DEF Promised
  <2>2. \/ ~ isn <= output_scan_number
        \/ /\ isn = output_scan_number
           /\ input_iMCU_row > output_iMCU_row + DCLead
    BY <1>11, Zenon DEF SmoothInputBehind, MustForceInput
  <2>3. isn >= pass_target /\ next >= Promised - 1
    <3> HIDE DEF next, isn
    <3> QED
      BY <1>3, <1>5, <1>6, <1>7, <1>8, <2>1, <2>2, SMT
  <2>4. ASSUME IsDCScan(Promised) PROVE next >= Promised
    <3>1. CASE Promised < isn
      <4> HIDE DEF next, isn
      <4> QED
        BY <1>3, <1>6, <1>7, <1>8, <3>1, SMT
    <3>2. CASE consume_input = "consume_markers"
      <4> HIDE DEF next, isn
      <4> QED
        BY <1>3, <1>6, <1>7, <2>1, <2>3, <1>4, <1>9, <3>2
    <3>3. CASE Promised = isn /\ consume_input # "consume_markers"
      <4>1. PICK i \in 1 .. Len(file) : IsScan(i, isn) /\ file[i].Ss = 0
        BY <2>4, <3>3, Zenon DEF IsDCScan
      <4>2. Reading
        BY <1>2, SMT DEF Reading, Active
      <4>3. PICK s \in 1 .. rd : /\ LastSOS(file, rd, s)
                                 /\ Ss = file[s].Ss
        BY <3>3, <4>2, Zenon DEF SourceInv, HeaderOK
      <4>4. /\ i \in Nat /\ i >= 1 /\ s \in Nat /\ s >= 1 /\ rd \in Nat
            /\ file[i].m = "sos" /\ file[s].m = "sos"
        BY <1>1, FileType, <4>3, <4>1 DEF TypeOK, LastSOS, SOSes, IsScan
      <4>5. Cardinality(SOSes(file, rd)) = isn
        BY <4>2, Zenon DEF SourceInv, CountOK
      <4>6. Cardinality(SOSes(file, i)) = isn
        BY <4>1, Zenon DEF IsScan, SOSes
      <4>7. i = s
        BY <4>4, <4>3, <4>5, <4>6, SameNumber, SMT DEF LastSOS, SOSes
      <4>8. \/ isn > output_scan_number
            \/ below < input_iMCU_row
        <5> HIDE DEF isn, below
        <5> QED
          BY <1>3, <1>7, <2>2, <4>1, <4>3, <4>7 DEF Rows, DCLead
      <4>9. next >= isn
        <5>1. ~ isn > output_scan_number
          <6> HIDE DEF isn
          <6> QED
            BY <1>3, <1>5, <1>6, <3>3, SMT
        <5> QED
          BY <1>8, <4>8, <5>1, Zenon
      <4> QED
        BY <3>3, <4>9, Zenon
    <3>4. Promised < isn \/ Promised = isn
      <4> HIDE DEF isn
      <4> QED
        BY <1>3, <1>6, <2>1, <2>3, SMT
    <3> QED
      BY <3>1, <3>2, <3>3, <3>4, Zenon
  <2> QED
    BY <2>3, <2>4, Zenon
<1> QED
  BY <1>10, <1>11

LEMMA OutputBuffered ==
    ASSUME IndInv, SourceInv, OutputInv, DecompressBuffered
    PROVE  OutputInv'
<1>1. TypeOK
  BY Zenon DEF IndInv
<1>2. /\ PassState /\ output_scanline < total_iMCU_rows
      /\ output_iMCU_row = output_scanline
      /\ call \in {"read", "output_pass_setup"}
      /\ Full /\ ~ MustForceInput /\ Decoding
  BY DecodingRow, Zenon DEF DecompressBuffered
<1> DEFINE row == [scan |-> whole_image[output_iMCU_row],
                   next |-> whole_image[RowBelow(output_iMCU_row)]]
<1>3. Deliver(row) /\ UNCHANGED <<outputFrame, input>>
  BY Zenon DEF DecompressBuffered
<1>4. UNCHANGED <<global_state, mode, file, has_multiple_scans, eoi_reached,
                  consume_input, whole_image, input_scan_number, post_mode,
                  decompress_data, pass_target>>
  BY <1>3, SMT DEF input, marker, inctl, coef, outputFrame, params, master
<1>5. /\ row \in Row /\ output_iMCU_row \in Rows
      /\ whole_image[RowBelow(output_iMCU_row)] \in Nat
  <2>1. output_iMCU_row \in Rows /\ RowBelow(output_iMCU_row) \in Rows
    BY <1>1, <1>2, ConstantsAssumption, SMT DEF TypeOK, Rows, RowBelow, Least
  <2>2. /\ whole_image[output_iMCU_row] \in Nat
        /\ whole_image[RowBelow(output_iMCU_row)] \in Nat
    BY <1>1, <2>1, SMT DEF TypeOK
  <2> QED
    BY <2>1, <2>2, SMT DEF Row
<1>6. FinalOK'
  <2> SUFFICES ASSUME PassState', ~ mode'.buffered, has_multiple_scans'
               PROVE  /\ call' # "error" /\ eoi_reached'
                      /\ consume_input' = "consume_markers"
                      /\ \A s \in Rows : whole_image'[s] = input_scan_number'
                      /\ AllIn(Whole(input_scan_number'), post_mode',
                               output_scanline', saved', image')
    BY Zenon DEF FinalOK, AllIn, Whole
  <2>1. /\ eoi_reached /\ consume_input = "consume_markers"
        /\ \A s \in Rows : whole_image[s] = input_scan_number
        /\ AllIn(Whole(input_scan_number), post_mode, output_scanline, saved,
                 image)
    BY <1>2, <1>4, Zenon DEF OutputInv, FinalOK
  <2>2. row \in Whole(input_scan_number)
    BY <1>5, <2>1, Zenon DEF Whole
  <2>3. AllIn(Whole(input_scan_number), post_mode', output_scanline', saved',
              image')
    <3> HIDE DEF row
    <3> QED
      BY <1>1, <1>2, <1>3, <1>4, <1>5, <2>1, <2>2, DeliverAll, Zenon
  <2> QED
    BY <1>4, <1>2, <1>3, <2>1, <2>3 DEF Deliver
<1>7. LeadOK'
  <2> SUFFICES ASSUME decompress_data = "decompress_smooth_data"
               PROVE  /\ eoi_reached' \/ input_scan_number' >= pass_target'
                      /\ AllIn(NextWanted', post_mode', output_scanline',
                               saved', image')
    BY <1>4, Zenon DEF LeadOK, AllIn
  <2> DEFINE next == whole_image[RowBelow(output_iMCU_row)]
  <2>1. /\ eoi_reached \/ input_scan_number >= pass_target
        /\ next >= Promised - 1
        /\ IsDCScan(Promised) => next >= Promised
    BY <1>2, NextRowSeen, Zenon
  <2>2. row \in NextWanted
    BY <1>5, <2>1, Zenon DEF NextWanted, Lead
  <2>3. AllIn(NextWanted, post_mode', output_scanline', saved', image')
    <3> HIDE DEF row
    <3> QED
      BY <1>1, <1>2, <1>3, <1>4, <1>5, <2>2, DeliverAll, Zenon DEF OutputInv, LeadOK
  <2> QED
    BY <1>4, <2>1, <2>3, Zenon DEF NextWanted, Lead, Promised, Least, IsDCScan, IsScan
<1> QED
  BY <1>6, <1>7, <1>4, Zenon DEF OutputInv, BufferedOK

LEMMA OutputCranked ==
    ASSUME IndInv, OutputInv, CrankRow
    PROVE  OutputInv'
<1>1. TypeOK /\ CallOK
  BY Zenon DEF IndInv
<1>2. /\ call = "read" /\ post_mode = "CRANK_DEST"
      /\ Deliver(saved[output_scanline])
      /\ UNCHANGED <<outputFrame, input>>
  BY Zenon DEF CrankRow
<1>3. InPass /\ output_scanline < total_iMCU_rows /\ PassState
  BY <1>1, <1>2, SMT DEF CallOK, InPass, PassState
<1>4. UNCHANGED <<global_state, mode, file, has_multiple_scans, eoi_reached,
                  consume_input, whole_image, input_scan_number, post_mode,
                  decompress_data, pass_target>>
  BY <1>2, SMT DEF input, marker, inctl, coef, outputFrame, params, master
<1>5. output_scanline \in Rows /\ saved[output_scanline] \in Row
  BY <1>1, <1>3, ConstantsAssumption DEF TypeOK, Rows
<1>6. ASSUME NEW S, AllIn(S, post_mode, output_scanline, saved, image)
      PROVE  AllIn(S, post_mode', output_scanline', saved', image')
  BY <1>2, <1>5, <1>6, <1>1, <1>3, <1>4, DeliverAll, Zenon DEF AllIn
<1>7. LeadOK'
  BY <1>4, <1>2, <1>3, <1>6, Zenon DEF NextWanted, Lead, Promised, Least, IsDCScan,
     IsScan, OutputInv, LeadOK
<1> QED
  BY <1>3, <1>4, <1>2, <1>6, <1>7 DEF OutputInv, BufferedOK, FinalOK, Whole, Deliver

(* The pass proper after a dummy pass starts with all rows saved.          *)
LEMMA OutputDummyDone ==
    ASSUME IndInv, OutputInv, FinishDummyPass
    PROVE  OutputInv'
<1>1. /\ call = "output_pass_setup" /\ is_dummy_pass
      /\ output_scanline = total_iMCU_rows /\ output_scanline' = 0
      /\ UNCHANGED <<api, mode, file, input, saved, image, pass_target>>
  BY Zenon DEF FinishDummyPass
<1>2. post_mode' = "CRANK_DEST" /\ UNCHANGED decompress_data
  BY <1>1, Zenon DEF FinishDummyPass, PrepareForOutputPass
<1>3. PassState /\ post_mode = "SAVE_AND_PASS" /\ global_state = "PRESCAN"
  BY <1>1 DEF CallOK, PassState, PassOK, IndInv
<1>4. UNCHANGED <<global_state, call, mode, file, has_multiple_scans,
                  eoi_reached, consume_input, whole_image,
                  input_scan_number, decompress_data, pass_target, saved,
                  image>>
  BY <1>1, <1>2, SMT DEF input, marker, inctl, coef, api
<1>5. ASSUME NEW S, AllIn(S, post_mode, output_scanline, saved, image)
      PROVE  AllIn(S, post_mode', output_scanline', saved', image')
  BY <1>1, ConstantsAssumption, <1>3, <1>5, <1>2, <1>4 DEF Rows, AllIn
<1>6. LeadOK'
  <2>1. NextWanted' = NextWanted
    BY <1>4, Zenon DEF NextWanted, Lead, Promised, Least, IsDCScan, IsScan
  <2> QED
    BY <1>3, <1>4, <1>5, <2>1, <1>1, ConstantsAssumption, SMT DEF OutputInv, LeadOK
<1> QED
  BY <1>3, <1>4, <1>5, <1>6, Zenon DEF OutputInv, FinalOK, Whole, BufferedOK

(* output_pass_setup entered for a new pass.                               *)
LEMMA OutputSetUp ==
    ASSUME IndInv, SourceInv, OutputInv,
           NEW smooth \in BOOLEAN, NEW md, NEW cm, SetUpPass(smooth, md, cm),
           mode' = md, md.buffered = mode.buffered,
           UNCHANGED <<file, rd, marker, inctl, coef>>,
           \/ global_state = "BUFIMAGE"
           \/ global_state = "PRELOAD" /\ call = "start_decompress" /\ Preloaded
    PROVE  OutputInv'
<1>1. TypeOK /\ PhaseOK /\ InputOK
  BY Zenon DEF IndInv
<1>2. /\ output_scanline' = 0 /\ global_state' = "PRESCAN"
      /\ call' = "output_pass_setup"
      /\ PrepareForOutputPass(smooth, md, cm)
  BY Zenon DEF SetUpPass
<1>3. post_mode' # "CRANK_DEST"
  BY <1>1, <1>2 DEF PhaseOK, PrepareForOutputPass
<1>4. UNCHANGED <<has_multiple_scans, eoi_reached, consume_input, whole_image,
                  input_scan_number>>
  BY SMT DEF marker, inctl, coef
<1>5. \A S : AllIn(S, post_mode', output_scanline', saved', image')
  BY <1>2, <1>3, NoneIn, Zenon
<1>6. FinalOK'
  <2> SUFFICES ASSUME ~ mode'.buffered, has_multiple_scans'
               PROVE  /\ eoi_reached' /\ consume_input' = "consume_markers"
                      /\ \A r \in Rows : whole_image'[r] = input_scan_number'
    BY <1>2, <1>5 DEF FinalOK, AllIn, Whole
  <2>1. /\ global_state = "PRELOAD" /\ call = "start_decompress"
        /\ eoi_reached /\ has_multiple_scans
    BY <1>4, Zenon DEF OutputInv, BufferedOK, Preloaded
  <2>2. /\ consume_input = "consume_markers" /\ ScansStored
        /\ input_iMCU_row = total_iMCU_rows
    BY <1>1, <2>1 DEF InputOK, PhaseOK, Active, Full, Onepass, TypeOK
  <2> QED
    BY <1>4, <2>1, <2>2, <1>1, ConstantsAssumption DEF TypeOK, ScansStored, Rows
<1> QED
  BY <1>6, <1>2, <1>3, <1>5 DEF OutputInv, BufferedOK, LeadOK, AllIn

(* A suspended pass resumed by jpeg_start_output, with another target.     *)
LEMMA OutputResumed ==
    ASSUME IndInv, OutputInv, NEW target \in Nat,
           global_state = "PRESCAN", call' # "error",
           pass_target' = Least(pass_target, target),
           UNCHANGED <<global_state, params, master, pass, file, rd, marker,
                       inctl, coef>>
    PROVE  OutputInv'
<1>1. UNCHANGED <<global_state, mode, file, has_multiple_scans, eoi_reached,
                  consume_input, whole_image, input_scan_number, post_mode,
                  output_scanline, saved, image, decompress_data>>
  BY SMT DEF params, marker, inctl, coef, master, pass
<1>2. PassState
  BY SMT DEF PassState
<1>3. /\ pass_target \in Nat /\ pass_target' \in Nat
      /\ pass_target' <= pass_target /\ input_scan_number \in Nat
  BY DEF IndInv, TypeOK, Least
<1>4. NextWanted \subseteq NextWanted'
  <2> DEFINE pdc == IsDCScan(Promised)
             qdc == IsDCScan(Promised)'
  <2>1. Lead(Promised, pdc) \subseteq Lead(Promised', qdc)
    <3>1. Promised' = Promised => (qdc => pdc)
      BY <1>1, Zenon DEF IsDCScan, IsScan
    <3> HIDE DEF pdc, qdc
    <3> QED
      BY <1>1, <1>3, <3>1, LeadFalls DEF Promised, Least
  <2> QED
    BY <2>1, Zenon DEF NextWanted, Lead
<1>5. LeadOK'
  <2> SUFFICES ASSUME decompress_data = "decompress_smooth_data"
               PROVE  /\ output_scanline > 0 \/ post_mode = "CRANK_DEST"
                           => eoi_reached \/ input_scan_number >= pass_target'
                      /\ AllIn(NextWanted', post_mode, output_scanline, saved,
                               image)
    BY <1>1, Zenon DEF LeadOK, AllIn
  <2>1. input_scan_number >= pass_target => input_scan_number >= pass_target'
    BY <1>3, SMT
  <2> QED
    BY <1>2, <1>4, <2>1, Zenon DEF AllIn, OutputInv, LeadOK
<1> QED
  BY <1>1, <1>2, <1>5, Zenon DEF OutputInv, FinalOK, AllIn, Whole, BufferedOK

(* A step that ends outside a pass.                                        *)
LEMMA OutputElsewhere ==
    ASSUME ~ PassState', BufferedOK'
    PROVE  OutputInv'
BY Zenon DEF OutputInv, FinalOK, LeadOK

LEMMA LibraryOutput ==
    ASSUME IndInv, SourceInv, OutputInv, Library
    PROVE  OutputInv'
<1>1. TypeOK /\ CallOK /\ PhaseOK /\ PassOK /\ BufferedOK
  BY Zenon DEF IndInv, OutputInv
<1>2. CASE HeaderStep
  BY <1>2, OutputElsewhere, SMT DEF HeaderStep, PassState, BufferedOK
<1>3. CASE ConsumeStep
  <2>1. PICK r \in Returns :
            /\ ConsumeInput(r)
            /\ call' = IF r \in {"ROW", "SCAN", "SOS", "EOI"} THEN "none"
                                                            ELSE NextCall(r)
    BY <1>3, Zenon DEF ConsumeStep
  <2>2. /\ UNCHANGED <<global_state, mode, file, wr, master, pass,
                       pass_target>>
        /\ call # "error"
    BY <1>3, SMT DEF ConsumeStep, sourceFrame, outputState, params
  <2>3. CASE PassState
    BY <2>1, <2>2, <1>3, <2>3, OutputForced DEF NextCall, ConsumeStep
  <2>4. CASE ~ PassState
    BY <1>1, <2>2, <2>4, OutputElsewhere, Zenon DEF PassState, BufferedOK
  <2> QED
    BY <2>3, <2>4
<1>4. CASE ForceInput
  <2>1. PICK r \in Returns : ConsumeInput(r) /\ call' = NextCall(r)
    BY <1>4, Zenon DEF ForceInput
  <2> QED
    BY <2>1, <1>4, DecodingRow, OutputForced DEF NextCall, ForceInput, outputFrame, params
<1>5. CASE PreloadDone
  <2>1. PICK smooth \in BOOLEAN : SetUpPass(smooth, mode, colormap)
    BY <1>5, Zenon DEF PreloadDone
  <2>2. /\ call = "start_decompress" /\ Preloaded
        /\ UNCHANGED <<mode, sourceFrame, rd, marker, inctl, coef>>
    BY <1>5, Zenon DEF PreloadDone
  <2> QED
    BY <2>1, <2>2, <1>1, OutputSetUp, SMT DEF CallOK, sourceFrame
<1>6. CASE DecompressOnepass
  <2>1. /\ PassState /\ call \in {"read", "output_pass_setup"} /\ Onepass
    BY <1>6, DecodingRow, Zenon DEF DecompressOnepass, Onepass
  <2>2. UNCHANGED <<global_state, mode, decompress_data, has_multiple_scans>>
    BY <1>6 DEF outputFrame, params, master, DecompressOnepass
  <2> QED
    BY <1>1, <2>2, <2>1, SMT DEF OutputInv, FinalOK, LeadOK, BufferedOK, PhaseOK, Onepass
<1>7. CASE FinishSetup
  BY <1>7, <1>1, OutputStill DEF FinishSetup, CallOK, PassState, params
<1>8. CASE PreloadStep \/ FinishOutputStep \/ ReadCoefficientsStep
  BY <1>8, <1>1, OutputElsewhere DEF PreloadStep, FinishOutputStep, ReadCoefficientsStep,
     params, CallOK, PassState, BufferedOK
<1>9. CASE FinishDecompressStep
  BY <1>9, OutputElsewhere, SMT DEF FinishDecompressStep, PassState,
     BufferedOK
<1> QED
  BY <1>2, <1>3, <1>4, <1>5, <1>6, <1>7, <1>8, <1>9, OutputBuffered,
     OutputCranked, OutputDummyDone, Zenon DEF Library

LEMMA ApplicationOutput ==
    ASSUME IndInv, SourceInv, OutputInv,
           Application \/ Arrive \/ UNCHANGED vars
    PROVE  OutputInv'
<1>1. TypeOK /\ CallOK /\ PhaseOK /\ BufferedOK
  BY Zenon DEF IndInv, OutputInv
<1>2. ASSUME UNCHANGED <<global_state, mode, file, input, master, pass,
                         pass_target>>,
             call' = "error" => call = "error" \/ ~ PassState
      PROVE  OutputInv'
  BY <1>2, OutputStill, <1>1, OutputElsewhere DEF PassState, BufferedOK
<1>3. CASE ReadHeader \/ JpegConsumeInput
  <2>1. CASE BeginDatastream
    BY <2>1, OutputElsewhere, SMT DEF BeginDatastream, PassState, BufferedOK
  <2>2. CASE ~ BeginDatastream
    <3>1. /\ UNCHANGED <<global_state, params, sourceFrame, input,
                         outputState>>
          /\ call' # "error" \/ global_state = "RDCOEFS"
      BY <2>2, <1>3 DEF ReadHeader, Enter, JpegConsumeInput
    <3> QED
      BY <1>2, <3>1, SMT DEF PassState, params, sourceFrame, outputState
  <2> QED
    BY <2>1, <2>2
<1>4. CASE StartDecompress
  <2>1. \/ \E m \in Modes :
              /\ global_state = "READY"
              /\ mode' = [m EXCEPT !.enable = EnabledQuantizers(m)]
              /\ \/ m.buffered /\ global_state' = "BUFIMAGE"
                 \/ global_state' = "PRELOAD"
        \/ /\ call' \in {"start_decompress", "output_pass_setup"}
           /\ UNCHANGED <<global_state, mode, consume_input, coef, master>>
    <3>1. \/ \E m \in Modes :
               /\ global_state = "READY"
               /\ mode' = [m EXCEPT !.enable = EnabledQuantizers(m)]
               /\ IF m.buffered
                  THEN global_state' = "BUFIMAGE" /\ call' = "none"
                  ELSE global_state' = "PRELOAD" /\ call' = "start_decompress"
          \/ /\ call' = IF global_state = "PRELOAD" THEN "start_decompress"
                                                    ELSE "output_pass_setup"
             /\ UNCHANGED <<global_state, mode, consume_input, coef, master>>
      BY <1>4, ZenonT(40) DEF StartDecompress
    <3>2. ASSUME NEW m \in Modes,
                 IF m.buffered
                 THEN global_state' = "BUFIMAGE" /\ call' = "none"
                 ELSE global_state' = "PRELOAD" /\ call' = "start_decompress"
          PROVE  \/ m.buffered /\ global_state' = "BUFIMAGE"
                 \/ global_state' = "PRELOAD"
      BY <3>2, Zenon
    <3>3. ASSUME call' = IF global_state = "PRELOAD" THEN "start_decompress"
                                                    ELSE "output_pass_setup"
          PROVE  call' \in {"start_decompress", "output_pass_setup"}
      BY <3>3, SMT
    <3> QED
      BY <3>1, <3>2, <3>3, Zenon
  <2>2. ASSUME NEW m \in Modes, global_state = "READY",
               mode' = [m EXCEPT !.enable = EnabledQuantizers(m)],
               \/ m.buffered /\ global_state' = "BUFIMAGE"
               \/ global_state' = "PRELOAD"
        PROVE  OutputInv'
    BY ConstantsAssumption, <2>2, OutputElsewhere DEF Mode, PassState, BufferedOK
  <2>3. ASSUME call' \in {"start_decompress", "output_pass_setup"},
               UNCHANGED <<global_state, mode, consume_input, coef, master>>
        PROVE  OutputInv'
    BY <1>4, <2>3, <1>2 DEF StartDecompress, sourceFrame, input, inctl
  <2> QED
    BY <2>1, <2>2, <2>3, Zenon
<1>5. CASE ReadRows
  BY <1>5, <1>2 DEF ReadRows, Enter, params, sourceFrame, outputState
<1>6. CASE StartOutput
  <2>1. PICK n \in 0 .. MaxTarget :
            \/ NewPass(LimitedTarget(n))
            \/ /\ global_state = "PRESCAN" /\ call' = "output_pass_setup"
               /\ pass_target' = Least(pass_target, LimitedTarget(n))
               /\ UNCHANGED <<global_state, params, master, pass>>
    BY <1>6, Zenon DEF StartOutput
  <2>2. UNCHANGED <<file, rd, marker, inctl, coef>>
    BY <1>6 DEF sourceFrame, StartOutput
  <2>3. CASE NewPass(LimitedTarget(n))
    <3>1. PICK smooth \in BOOLEAN, two_pass \in BOOLEAN, clear \in BOOLEAN :
            LET md == [mode EXCEPT !.two_pass = two_pass]
                cm == colormap /\ ~ clear
            IN  /\ global_state = "BUFIMAGE"
                /\ mode' = md
                /\ \/ SetUpPass(smooth, md, cm)
                   \/ UNCHANGED global_state
      BY <2>3, Zenon DEF NewPass
    <3> DEFINE md == [mode EXCEPT !.two_pass = two_pass]
               cm == colormap /\ ~ clear
    <3>2. mode' = md /\ md.buffered = mode.buffered
      BY <1>1, <3>1, SMT DEF TypeOK, Mode
    <3>3. CASE SetUpPass(smooth, md, cm)
      <4> HIDE DEF md, cm
      <4> QED
        BY <2>2, <3>1, <3>2, <3>3, OutputSetUp, Zenon
    <3>4. CASE UNCHANGED global_state
      BY <1>1, <3>1, <3>2, <3>4, OutputElsewhere DEF BufferedOK, PassState
    <3> QED
      BY <3>1, <3>3, <3>4, Zenon
  <2>4. CASE /\ global_state = "PRESCAN" /\ call' = "output_pass_setup"
             /\ pass_target' = Least(pass_target, LimitedTarget(n))
             /\ UNCHANGED <<global_state, params, master, pass>>
    <3>1. LimitedTarget(n) \in Nat
      BY <1>1, ConstantsAssumption DEF TypeOK, LimitedTarget, Least
    <3> QED
      BY <2>2, <2>4, <3>1, OutputResumed
  <2> QED
    BY <2>1, <2>3, <2>4, Zenon
<1>7. CASE FinishOutput
  BY <1>7, <1>1, OutputElsewhere DEF FinishOutput, PassState, BufferedOK, params
<1>8. CASE ReadCoefficients
  BY <1>8, OutputElsewhere DEF ReadCoefficients, PassState, BufferedOK
<1>9. CASE FinishDecompress \/ JpegAbort
  BY <1>9, OutputElsewhere DEF FinishDecompress, JpegAbort, PassState, BufferedOK
<1>10. CASE Arrive \/ UNCHANGED vars
  BY <1>10, <1>2 DEF Arrive, vars, api, params, outputState
<1> QED
  BY <1>3, <1>4, <1>5, <1>6, <1>7, <1>8, <1>9, <1>10, Zenon DEF Application

LEMMA OutputInvariant == Spec => [](IndInv /\ SourceInv /\ OutputInv)
<1>1. Init => OutputInv
  BY SMT DEF Init, OutputInv, FinalOK, LeadOK, BufferedOK, PassState
<1>2. IndInv /\ SourceInv /\ OutputInv /\ [Next]_vars => OutputInv'
  BY LibraryOutput, ApplicationOutput, Zenon DEF Next
<1> QED
  BY <1>1, <1>2, SourceInvariant, PTL DEF Spec

(* A pass that is handing out rows has decided on its post-processing, and *)
(* every row it gave lies where its post mode says.                        *)
LEMMA RowsOfPass ==
    ASSUME IndInv, InPass, NEW S,
           AllIn(S, post_mode, output_scanline, saved, image)
    PROVE  \A r \in Rows : r < output_scanline => image[r] \in S
BY DEF IndInv, InPass, PassState, PassOK, AllIn

(* Whatever scan a pass of a progressive image was asked for, and however  *)
(* the input is cut up, decompress_smooth_data finds DC values of that     *)
(* scan in the row below each row it smooths when the scan is a DC scan:   *)
(* the row of lead it forces by cinfo->Ss is that of the scan it waits for.*)
THEOREM SmoothingSeesNextRowHolds == Spec => []SmoothingSeesNextRow
<1>1. IndInv /\ OutputInv => SmoothingSeesNextRow
  <2> SUFFICES ASSUME IndInv, OutputInv, InPass,
                      decompress_data = "decompress_smooth_data",
                      IsDCScan(Promised), NEW r \in Rows, r < output_scanline
               PROVE  image[r].next >= Promised
    BY Zenon DEF SmoothingSeesNextRow
  <2>1. image[r] \in NextWanted
    BY RowsOfPass DEF OutputInv, LeadOK, InPass, PassState
  <2> QED
    BY <2>1, Zenon DEF NextWanted, Lead
<1> QED
  BY <1>1, OutputInvariant, PTL

(* Outside buffered-image mode every row given to the application is made  *)
(* from all scans of its image and from none of the next: the PRELOAD loop *)
(* of jpeg_start_decompress goes on to EOI and consume_markers never past. *)
THEOREM FinalQualityHolds == Spec => []FinalQuality
<1>1. IndInv /\ SourceInv /\ OutputInv => FinalQuality
  <2> SUFFICES ASSUME IndInv, SourceInv, OutputInv, InPass, ~ mode.buffered,
                      has_multiple_scans, NEW r \in Rows, r < output_scanline
               PROVE  image[r].scan = ScansInImage
    BY Zenon DEF FinalQuality
  <2>1. PassState
    BY SMT DEF InPass, PassState
  <2>2. /\ call # "error" /\ eoi_reached
        /\ AllIn(Whole(input_scan_number), post_mode, output_scanline, saved,
                 image)
    BY <2>1, Zenon DEF OutputInv, FinalOK
  <2>3. image[r].scan = input_scan_number
    <3>1. image[r] \in Whole(input_scan_number)
      BY <2>2, RowsOfPass, Zenon
    <3> QED
      BY <3>1, Zenon DEF Whole
  <2>4. CountOK /\ EOIOK
    BY <2>1, <2>2, SMT DEF SourceInv, Reading, PassState
  <2>5. rd \in Nat /\ Len(file) \in Nat /\ rd <= Len(file)
    BY FileType DEF IndInv, TypeOK
  <2>6. /\ rd >= 1 /\ file[rd].m = "eoi"
        /\ \A i \in 1 .. rd : file[i].m = "eoi" => i = rd
    BY <2>2, <2>4, Zenon DEF EOIOK
  <2> DEFINE ofImage == {i \in 1 .. Len(file) :
                            /\ file[i].m = "sos"
                            /\ \A j \in 1 .. i : file[j].m # "eoi"}
  <2>7. ofImage = SOSes(file, rd)
    <3>1. ASSUME NEW i \in 1 .. Len(file), file[i].m = "sos",
                 \A j \in 1 .. i : file[j].m # "eoi"
          PROVE  i \in SOSes(file, rd)
      BY <2>6, <3>1, <2>5 DEF SOSes
    <3>2. ASSUME NEW i \in 1 .. rd, file[i].m = "sos"
          PROVE  i \in 1 .. Len(file) /\ \A j \in 1 .. i : file[j].m # "eoi"
      BY <2>6, <3>2, <2>5
    <3> QED
      BY <3>1, <3>2, Zenon DEF SOSes
  <2> QED
    BY <2>3, <2>4, <2>7, Zenon DEF CountOK, ScansInImage
<1> QED
  BY <1>1, OutputInvariant, PTL

(* Each row the application is given shows every scan up to the target of  *)
(* its pass, and outside buffered-image mode the last scan of its image.   *)
THEOREM OutputQualityHolds == Spec => []OutputQuality
<1>1. PassQuality /\ FinalQuality => OutputQuality
  BY Zenon DEF OutputQuality
<1> QED
  BY <1>1, PassQualityHolds, FinalQualityHolds, PTL

=============================================================================
