---------------------------- MODULE MCDecompress ----------------------------
(* Small instances of Decompress: an image of a few iMCU rows and the      *)
(* datastreams in which the interesting things happen.                     *)
EXTENDS Decompress

Data(n) == [i \in 1 .. n |-> MCU]
WholeScan == Data(total_iMCU_rows * MCUs_per_row)

(* A scan of one component has v_samp_factor MCU rows in an iMCU row.       *)
FineRows(k) == Data(MCUs_per_row * (v_samp_factor * (k - 1) + last_row_height))
OneScan     == FineRows(total_iMCU_rows)

baseline    == <<SOF(1, FALSE), SOS(1, 0)>> \o OneScan \o <<EOI>>
progressive == <<SOF(1, TRUE), SOS(1, 0)>> \o OneScan
                   \o <<SOS(1, 1)>> \o OneScan \o <<EOI>>
componentwise == <<SOF(2, FALSE), SOS(1, 0)>> \o OneScan
                   \o <<SOS(1, 0)>> \o OneScan \o <<EOI>>
interleaved == <<SOF(2, FALSE), SOS(2, 0)>> \o WholeScan \o <<EOI>>
mixedScans  == <<SOF(2, TRUE), SOS(2, 0)>> \o WholeScan
                   \o <<SOS(1, 1)>> \o OneScan \o <<EOI>>

(* Damaged: data missing from the second scan, data left over in the first *)
damaged     == <<SOF(1, TRUE), SOS(1, 0)>> \o OneScan \o Data(1)
                   \o <<SOS(1, 1)>> \o Data(1) \o <<EOI>>
tablesOnly  == <<EOI>>
twoImages   == progressive \o <<SOF(1, FALSE), SOS(1, 0), EOI>>
noSOS       == <<SOF(1, FALSE), EOI>>
noSOF       == <<SOS(1, 0), EOI>>
twoSOF      == <<SOF(1, FALSE), SOF(1, FALSE), EOI>>
extraScan   == <<SOF(1, FALSE), SOS(1, 0)>> \o OneScan \o <<SOS(1, 0), EOI>>

WellFormedFiles == {baseline, progressive, componentwise, interleaved,
                    mixedScans, tablesOnly}
IllFormedFiles  == {damaged, twoImages, noSOS, noSOF, twoSOF, extraScan}
AllFiles        == WellFormedFiles \cup IllFormedFiles
LiveFiles     == {baseline, progressive}

plain == [buffered |-> FALSE, raw |-> FALSE, quantize |-> FALSE,
          two_pass |-> TRUE, enable |-> {}]
raw        == [plain EXCEPT !.raw = TRUE]
twoPass    == [plain EXCEPT !.quantize = TRUE]
onePass    == [twoPass EXCEPT !.two_pass = FALSE]
buffered   == [plain EXCEPT !.buffered = TRUE]
bufferedQ1 == [onePass EXCEPT !.buffered = TRUE]
bufferedQ2 == [bufferedQ1 EXCEPT !.enable = Quantizers]

LiveModes == {plain, twoPass, buffered, bufferedQ2}
AllModes  == {plain, raw, twoPass, onePass, buffered, bufferedQ1, bufferedQ2}
=============================================================================
