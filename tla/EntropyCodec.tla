---------------------------- MODULE EntropyCodec ----------------------------
(***************************************************************************)
(* One image through the entropy encoder and back through the decoder.     *)
(* The encoder writes into a destination that may have little room and     *)
(* refuses to empty its buffer; the decoder reads a source whose bytes     *)
(* arrive one by one, and which may have lost or damaged the data between  *)
(* two restart markers.  Scans are written and read one after the other.   *)
(* In tile mode the decoder first runs over the file to build the Huffman  *)
(* index, and then decodes from any of its entries.                        *)
(***************************************************************************)
EXTENDS HuffDecode

CONSTANTS Images,           \* what is encoded, and how (see MCEntropyCodec)
          FreeSizes         \* room the application makes in the destination

VARIABLES
    img,        \* one of Images
    phase,      \* "gather", "encode", "decode", "index", "tile", "done" or an error
    scan,       \* index of the scan in img.scans
    mcu,        \* next MCU, from 1
    enc,        \* the entropy encoder
    counts,     \* dc_count_ptrs[] and ac_count_ptrs[]: what gather counted
    tbls,       \* Huffman tables of the scan
    free,       \* free_in_buffer of the destination
    file,       \* bytes written for this scan
    dec,        \* the entropy decoder and its source
    coefs,      \* decoded coefficients
    index       \* huffman_index: one offset for every MCU_sample_size MCUs

vars == <<img, phase, scan, mcu, enc, counts, tbls, free, file, dec, coefs, index>>

NumMCUs   == Len(img.mcus)
ThisScan  == img.scans[scan]
Zeros     == [k \in 0 .. DCTSIZE2 - 1 |-> 0]
NoDC      == [ci \in 1 .. 2 |-> 0]
MCU_sample_size == 2
MaxSkew   == 20     \* bound: symbols of a distribution of which each is twice the next

StartEncoder(im) ==
    [put |-> <<>>, last_dc_val |-> NoDC, restarts_to_go |-> im.restart_interval,
     next_restart_num |-> 0, p |-> start_pass_phuff]

NoTables == [dc |-> <<>>, ac |-> <<>>]
NewDecoder ==
    [pos |-> 0, avail |-> 0, ok |-> TRUE, unread_marker |-> 0, discarded_bytes |-> 0,
     next_restart_num |-> 0, get_buffer |-> <<>>, insufficient_data |-> FALSE,
     last_dc_val |-> NoDC, EOBRUN |-> 0, restarts_to_go |-> 0, tbls |-> NoTables,
     mcu |-> <<>>, val |-> 0, k |-> 0, newnz |-> {}]

Init ==
    /\ img \in Images
    /\ phase = IF img.optimize THEN "gather" ELSE "encode"
    /\ scan = 1 /\ mcu = 1
    /\ enc = StartEncoder(img)
    /\ counts = [dc |-> <<>>, ac |-> <<>>]
    /\ tbls = img.tables
    /\ free \in FreeSizes
    /\ file = <<>>
    /\ dec = NewDecoder
    /\ coefs = [m \in DOMAIN img.mcus |-> [b \in DOMAIN img.mcus[m] |-> Zeros]]
    /\ index = <<>>

-----------------------------------------------------------------------------
(* Encoding                                                                *)

Restarting(e) == img.restart_interval > 0 /\ e.restarts_to_go = 0

CountRestart(e) ==
    IF img.restart_interval = 0 THEN e
    ELSE IF e.restarts_to_go = 0
    THEN [e EXCEPT !.restarts_to_go = img.restart_interval - 1,
                   !.next_restart_num = (@ + 1) % 8]
    ELSE [e EXCEPT !.restarts_to_go = @ - 1]

(* The predictor of block b: the last block of the component before it.    *)
Predictor(last, m, b) ==
    LET before == {a \in 1 .. b - 1 : img.MCU_membership[a] = img.MCU_membership[b]}
    IN  IF before = {} THEN last[img.MCU_membership[b]] ELSE m[Max(before)][0]

LastDC(last, m) ==
    [ci \in DOMAIN last |->
        LET of == {b \in DOMAIN m : img.MCU_membership[b] = ci}
        IN  IF of = {} THEN last[ci] ELSE m[Max(of)][0]]

(* Progressive state after a restart, its pending codes in out.            *)
Reset(p) == IF ThisScan.Ss = 0 THEN [p EXCEPT !.last_dc_val = 0]
            ELSE [p EXCEPT !.EOBRUN = 0, !.corr = <<>>]
Restarted(p) == Reset(emit_eobrun(p))

(* What encoding MCU m puts out: the codes before the restart marker, if   *)
(* one is due, the codes after it, and the state then.                     *)
Progressed(e, pre, p) ==
    [pre |-> pre, codes |-> p.out,
     enc |-> [CountRestart(e) EXCEPT !.p = [p EXCEPT !.out = <<>>]]]
EncodedPhuff(e, m, p) ==
    Progressed(e, p.out, encode_mcu_phuff([p EXCEPT !.out = <<>>], ThisScan, m[1]))
EncodedHuff(e, m, last) ==
    [pre |-> <<>>,
     codes |-> FlattenSeq([b \in DOMAIN m |-> encode_one_block(m[b], Predictor(last, m, b))]),
     enc |-> [CountRestart(e) EXCEPT !.last_dc_val = LastDC(last, m)]]
Encoded(e, m) ==
    IF img.progressive THEN EncodedPhuff(e, m, IF Restarting(e) THEN Restarted(e.p) ELSE e.p)
    ELSE EncodedHuff(e, m, IF Restarting(e) THEN NoDC ELSE e.last_dc_val)

PredictorKept(e, m) ==                                          \* mutant
    FlattenSeq([b \in DOMAIN m |-> htest_one_block(m[b], Predictor(e.last_dc_val, m, b))])

(* encode_mcu_gather: only the predictors are reset at a restart.          *)
Counted(e, m) ==
    LET last == IF Restarting(e) THEN NoDC ELSE e.last_dc_val
    IN  FlattenSeq([b \in DOMAIN m |-> htest_one_block(m[b], Predictor(last, m, b))])

SymbolsOf(codes) ==
    LET S == SelectSeq(codes, LAMBDA c : c.kind = "symbol")
    IN  [i \in DOMAIN S |-> <<S[i].tbl, S[i].val>>]

AddCounts(c, symbols) ==
    LET seen(t) == {symbols[i][2] : i \in {j \in DOMAIN symbols : symbols[j][1] = t}}
        times(t, s) == Cardinality({i \in DOMAIN symbols : symbols[i] = <<t, s>>})
    IN  [t \in DOMAIN c |->
            [s \in DOMAIN c[t] \cup seen(t) |->
                times(t, s) + IF s \in DOMAIN c[t] THEN c[t][s] ELSE 0]]

BadMCU ==
    LET last == IF Restarting(enc) THEN NoDC ELSE enc.last_dc_val
        m    == img.mcus[mcu]
    IN  ~img.progressive /\ \E b \in DOMAIN m : BadCoefficient(m[b], Predictor(last, m, b))

CountMCU(r) ==
    /\ counts' = AddCounts(counts, IF img.progressive THEN SymbolsOf(r.pre \o r.codes)
                                   ELSE Counted(enc, img.mcus[mcu]))
    /\ enc' = r.enc

Gather ==
    /\ phase = "gather" /\ mcu <= NumMCUs /\ ~BadMCU
    /\ CountMCU(Encoded(enc, img.mcus[mcu]))
    /\ mcu' = mcu + 1
    /\ UNCHANGED <<img, phase, scan, tbls, free, file, dec, coefs, index>>

OptimalTable(c) ==
    IF c = <<>> THEN [bits |-> [l \in 1 .. MaxLength |-> 0], huffval |-> <<>>]
    ELSE jpeg_gen_optimal_table(c)

OptimalTables(c) == [t \in DOMAIN c |-> OptimalTable(c[t])]

(* finish_pass_gather: a last EOB run is counted, one table is made for    *)
(* each that was counted, and the output pass starts.                      *)
FinishGather ==
    /\ phase = "gather" /\ mcu > NumMCUs
    /\ tbls' = OptimalTables(AddCounts(counts, SymbolsOf(emit_eobrun(enc.p).out)))
    /\ phase' = "encode" /\ mcu' = 1
    /\ enc' = StartEncoder(img)
    /\ counts' = [dc |-> <<>>, ac |-> <<>>]
    /\ UNCHANGED <<img, scan, free, file, dec, coefs, index>>

CTables(t) == [i \in DOMAIN t |-> jpeg_make_c_derived_tbl(t[i])]

(* The bytes of one MCU, from the bits left over before it.                *)
AtRestart(e, w) ==
    IF Restarting(e)
    THEN [put |-> w.put, bytes |-> w.bytes \o RestartMarker(e.next_restart_num)]
    ELSE w
Result(r, w) ==
    [bytes |-> w.bytes, enc |-> [r.enc EXCEPT !.put = w.put], codes |-> r.pre \o r.codes]
WrittenFrom(e, t, r) ==
    Result(r, emit_codes(AtRestart(e,
                  IF Restarting(e)
                  THEN flush_bits(emit_codes([put |-> e.put, bytes |-> <<>>], t, r.pre))
                  ELSE [put |-> e.put, bytes |-> <<>>]),
              t, r.codes))
Written(e, t, m) == WrittenFrom(e, CTables(t), Encoded(e, m))

Missing(t, codes) == \E i \in DOMAIN codes : ~HasCode(CTables(t), codes[i])

OutOfRoom(n) == img.suspending /\ n >= free

StateUpdatedEarly(w) ==                                         \* mutant
    /\ IF Missing(tbls, w.codes) \/ OutOfRoom(Len(w.bytes))
       THEN enc' = w.enc /\ UNCHANGED <<phase, mcu, free, file>>
       ELSE /\ enc' = w.enc
            /\ file' = file \o w.bytes
            /\ free' = IF img.suspending THEN free - Len(w.bytes) ELSE free
            /\ mcu' = mcu + 1
            /\ UNCHANGED phase

(* A destination that cannot empty its buffer suspends the call as soon as *)
(* it is full; nothing is updated then and the MCU is encoded again.       *)
Put(w) ==
    IF Missing(tbls, w.codes)
    THEN phase' = "JERR_HUFF_MISSING_CODE" /\ UNCHANGED <<mcu, enc, free, file>>
    ELSE IF OutOfRoom(Len(w.bytes)) THEN UNCHANGED <<phase, mcu, enc, free, file>>
    ELSE /\ enc' = w.enc
         /\ file' = file \o w.bytes
         /\ free' = IF img.suspending THEN free - Len(w.bytes) ELSE free
         /\ mcu' = mcu + 1
         /\ UNCHANGED phase

EncodeMCU ==
    /\ phase = "encode" /\ mcu <= NumMCUs /\ ~BadMCU
    /\ Put(Written(enc, tbls, img.mcus[mcu]))
    /\ UNCHANGED <<img, scan, counts, tbls, dec, coefs, index>>

EncodeError ==
    /\ phase \in {"gather", "encode"} /\ mcu <= NumMCUs /\ BadMCU
    /\ phase' = "JERR_BAD_DCT_COEF"
    /\ UNCHANGED <<img, scan, mcu, enc, counts, tbls, free, file, dec, coefs, index>>

(* The application takes what is in the buffer, up to the restart point.   *)
Drain(n) ==
    /\ phase = "encode" /\ img.suspending /\ n > free
    /\ free' = n
    /\ UNCHANGED <<img, phase, scan, mcu, enc, counts, tbls, file, dec, coefs, index>>

-----------------------------------------------------------------------------
(* From the file to the decoder: the data between two restart markers may  *)
(* be lost, sent twice, garbled or cut short.                              *)

Starts(bytes) == InOrder([i \in {1} \cup
    {j \in DOMAIN bytes : bytes[j] = FF /\ j < Len(bytes) /\ IsRST(bytes[j + 1])} |-> i])
Between(bytes, at) == [j \in 1 .. Len(at) - 1 |-> SubSeq(bytes, at[j], at[j + 1] - 1)]
Segments(bytes) == Between(bytes, Append(Starts(bytes), Len(bytes) + 1))

MarkerLen(j) == IF j = 1 THEN 0 ELSE 2
Delivered(seg, j, loss) ==
    IF j \notin loss.first .. loss.last THEN seg
    ELSE CASE loss.kind = "drop"   -> <<>>
           [] loss.kind = "repeat" -> seg \o seg
           [] loss.kind = "cut"    -> SubSeq(seg, 1, (Len(seg) + MarkerLen(j)) \div 2)
           [] loss.kind = "garble" -> [i \in DOMAIN seg |->
                  IF i <= MarkerLen(j) THEN seg[i] ELSE (seg[i] + 77) % FF]

DeliveredAll(seg) == FlattenSeq([j \in DOMAIN seg |-> Delivered(seg[j], j, img.loss)])
Channel(bytes) == DeliveredAll(Segments(bytes))

EndMarker == <<FF, EOIMarker>>

DTables(t) == [i \in DOMAIN t |-> jpeg_make_d_derived_tbl(t[i])]

(* finish_pass flushes the last bits; it cannot suspend, and the buffer    *)
(* must have room.  The scan is then read by the decoder: start_pass.      *)
LastBits(w) ==
    IF OutOfRoom(Len(w.bytes))
    THEN phase' = "JERR_CANT_SUSPEND" /\ UNCHANGED <<file, dec, mcu>>
    ELSE /\ file' = Channel(file \o w.bytes) \o EndMarker
         /\ dec' = start_pass([NewDecoder EXCEPT !.avail = IF img.tile THEN Len(file') ELSE 0],
                              img, DTables(tbls))
         /\ phase' = IF img.tile THEN "index" ELSE "decode"
         /\ mcu' = 1
FinishEncode ==
    /\ phase = "encode" /\ mcu > NumMCUs
    /\ LastBits(flush_bits(emit_codes([put |-> enc.put, bytes |-> <<>>], CTables(tbls),
                                      emit_eobrun(enc.p).out)))
    /\ UNCHANGED <<img, scan, enc, counts, tbls, free, coefs, index>>

-----------------------------------------------------------------------------
(* Decoding                                                                *)

Arrive ==
    /\ phase = "decode" /\ dec.avail < Len(file)
    /\ dec' = [dec EXCEPT !.avail = @ + 1]
    /\ UNCHANGED <<img, phase, scan, mcu, enc, counts, tbls, free, file, coefs, index>>

Idle(d) == [d EXCEPT !.ok = TRUE, !.mcu = <<>>, !.val = 0, !.k = 0, !.newnz = {}]

(* Past the end of the file the source delivers a made-up EOI.             *)
Source == IF phase = "tile" THEN file \o EndMarker ELSE file

Keep(d) == /\ dec' = Idle(d)
           /\ coefs' = [coefs EXCEPT ![mcu] = d.mcu]
           /\ mcu' = IF d.ok THEN mcu + 1 ELSE mcu
DecodeMCU ==
    /\ phase \in {"decode", "tile"} /\ mcu <= NumMCUs
    /\ Keep(decode_mcu(Source, [dec EXCEPT !.mcu = coefs[mcu]], img, ThisScan))
    /\ UNCHANGED <<img, phase, scan, enc, counts, tbls, free, file, index>>

EndOfScan ==
    /\ phase = "decode" /\ mcu > NumMCUs
    /\ IF scan = Len(img.scans)
       THEN phase' = "done" /\ UNCHANGED <<scan, mcu, enc, file, dec>>
       ELSE /\ scan' = scan + 1 /\ mcu' = 1
            /\ phase' = IF img.optimize THEN "gather" ELSE "encode"
            /\ enc' = StartEncoder(img)
            /\ file' = <<>> /\ dec' = NewDecoder
    /\ UNCHANGED <<img, counts, tbls, free, coefs, index>>

-----------------------------------------------------------------------------
(* The Huffman index (baseline): the position in the file and the bits     *)
(* left are packed in one number.                                          *)

NoPredictors(d, m) ==                                           \* mutant
    [mcu |-> m, bitstream_offset |-> d.pos * BIT_BUF_SIZE + Len(d.get_buffer),
     get_buffer |-> d.get_buffer, restarts_to_go |-> d.restarts_to_go,
     next_restart_num |-> d.next_restart_num, prev_dc |-> NoDC]
Offset(d, m) ==
    [mcu |-> m, bitstream_offset |-> d.pos * BIT_BUF_SIZE + Len(d.get_buffer),
     get_buffer |-> d.get_buffer, restarts_to_go |-> d.restarts_to_go,
     next_restart_num |-> d.next_restart_num, prev_dc |-> d.last_dc_val]

(* get_huffman_decoder_configuration reads a restart marker that is due,   *)
(* then decode_mcu_discard_coef passes over the MCU.                       *)
Sampled == (mcu - 1) % MCU_sample_size = 0
Sample(s) ==
    /\ index' = IF Sampled THEN Append(index, Offset(s, mcu)) ELSE index
    /\ dec' = Idle(decode_mcu(file, [s EXCEPT !.mcu = coefs[mcu]], img, ThisScan))
IndexMCU ==
    /\ phase = "index" /\ mcu <= NumMCUs
    /\ Sample(IF Sampled /\ img.restart_interval > 0 /\ dec.restarts_to_go = 0
              THEN process_restart(file, dec, img) ELSE dec)
    /\ mcu' = mcu + 1
    /\ UNCHANGED <<img, phase, scan, enc, counts, tbls, free, file, coefs>>

(* configure_huffman_decoder                                               *)
Seek(i) ==
    /\ phase \in {"index", "tile"} /\ (phase = "index" => mcu > NumMCUs)
    /\ LET o == index[i]
           n == o.bitstream_offset % BIT_BUF_SIZE
           b == o.get_buffer
       IN  /\ dec' = [dec EXCEPT !.unread_marker = 0,
                                 !.restarts_to_go = o.restarts_to_go,
                                 !.next_restart_num = o.next_restart_num,
                                 !.pos = o.bitstream_offset \div BIT_BUF_SIZE,
                                 !.avail = Len(file) + Len(EndMarker),
                                 !.get_buffer = SubSeq(b, Len(b) - n + 1, Len(b)),
                                 !.last_dc_val = o.prev_dc]
           /\ mcu' = o.mcu
    /\ phase' = "tile"
    /\ coefs' = [m \in DOMAIN coefs |-> [b \in DOMAIN coefs[m] |-> Zeros]]
    /\ UNCHANGED <<img, scan, enc, counts, tbls, free, file, index>>

Next ==
    \/ Gather \/ FinishGather
    \/ EncodeMCU \/ EncodeError \/ FinishEncode
    \/ \E n \in FreeSizes : Drain(n)
    \/ Arrive \/ DecodeMCU \/ EndOfScan
    \/ IndexMCU \/ \E i \in DOMAIN index : Seek(i)

Spec == Init /\ [][Next]_vars
-----------------------------------------------------------------------------
(* Properties                                                              *)

Errors == {"JERR_HUFF_MISSING_CODE", "JERR_BAD_DCT_COEF", "JERR_CANT_SUSPEND"}

(* Type correctness of the codec, with the sizes of its bit registers: an  *)
(* encoder keeps at most 7 bits between calls, a decoder 32.               *)
TypeOK ==
    /\ img \in Images
    /\ phase \in {"gather", "encode", "decode", "index", "tile", "done"} \cup Errors
    /\ scan \in 1 .. Len(img.scans) /\ mcu \in 1 .. NumMCUs + 1
    /\ Len(enc.put) <= 7
    /\ enc.restarts_to_go \in 0 .. img.restart_interval
    /\ enc.p.EOBRUN \in 0 .. MAX_EOBRUN - 1
    /\ \A i \in DOMAIN file : file[i] \in 0 .. 255
    /\ dec.pos \in 0 .. dec.avail
    /\ Len(dec.get_buffer) <= BIT_BUF_SIZE
    /\ dec.next_restart_num \in 0 .. 7

(* However often encode_mcu_huff had to give up for lack of room, the bytes *)
(* in the destination are those of an encoder that never had to            *)
(* (jchuff.c: nothing is updated before the MCU is complete).              *)
Joined(bytes, w) == [enc |-> w.enc, bytes |-> bytes \o w.bytes]
RECURSIVE Ideal(_, _)
Ideal(w, m) ==
    IF m = mcu THEN w
    ELSE Ideal(Joined(w.bytes, Written(w.enc, tbls, img.mcus[m])), m + 1)
WrittenIsIdeal ==
    phase = "encode" =>
        file = Ideal([enc |-> StartEncoder(img), bytes |-> <<>>], 1).bytes

(* Whatever the counts were, the tables made from them are code trees that *)
(* both sides accept, with no code of all ones and none too long; also for *)
(* counts so skewed, as in a long scan, that Huffman's procedure makes     *)
(* codes of more than MaxLength bits.                                      *)
Accepted(tbl, isDC) == /\ ~BadForEncoder(tbl, isDC) /\ ~BadForDecoder(tbl, isDC)
                       /\ Len(HuffSizes(tbl)) = Len(tbl.huffval)

SkewedTreesShortened ==
    \A n \in MaxLength .. MaxSkew :
        Accepted(jpeg_gen_optimal_table([s \in 1 .. n |-> 2 ^ s]), FALSE)

TablesAccepted ==
    phase = "encode" /\ mcu = 1 =>
        /\ \A t \in DOMAIN tbls : Accepted(tbls[t], t = "dc")
        /\ SkewedTreesShortened

(* A table made from the counts of a statistics pass has a code for every  *)
(* symbol the output pass emits ("This process MUST agree with the code    *)
(* above").                                                                *)
GatherCoversEncode ==
    /\ img.optimize => phase # "JERR_HUFF_MISSING_CODE"
    /\ TablesAccepted

(* Correction bits never overrun bit_buffer, and are held back only with   *)
(* an EOB run that will put them out (encode_mcu_AC_refine).               *)
CorrectionBitsKept ==
    /\ enc.p.high <= MAX_CORR_BITS
    /\ enc.p.corr # <<>> => enc.p.EOBRUN > 0

(* What is known of a coefficient once the scans before s are decoded.     *)
Known(v, k, s) ==
    LET sent == {j \in 1 .. s - 1 : k \in img.scans[j].Ss .. img.scans[j].Se}
        al   == img.scans[Max(sent)].Al
    IN  IF ~img.progressive THEN IF s > 1 THEN v ELSE 0
        ELSE IF sent = {} THEN 0
        ELSE IF k = 0 THEN (v \div 2 ^ al) * 2 ^ al
        ELSE PointTransform(v, al) * 2 ^ al

Segment(m) == (m - 1) \div img.restart_interval + 1
Lost(m) == /\ img.loss.kind \notin {"none", "repeat"}
           /\ Segment(m) \in img.loss.first .. img.loss.last

NextOf(m) == IF phase = "done" \/ (phase = "decode" /\ m < mcu) THEN scan + 1 ELSE scan

(* Every MCU decoded so far, of this scan and of earlier ones, is the MCU  *)
(* that was encoded, whatever calls were suspended on the way; and losing, *)
(* repeating or damaging one or two segments of a scan with restart        *)
(* markers harms the MCUs of those segments only (jpeg_resync_to_restart). *)
DecodedAsEncoded ==
    phase \in {"gather", "encode", "decode", "done"} =>
        \A m \in 1 .. NumMCUs : \/ phase = "decode" /\ m = mcu
                                \/ Lost(m)
                                \/ \A b \in DOMAIN coefs[m] : \A k \in DOMAIN Zeros :
                                      coefs[m][b][k] = Known(img.mcus[m][b][k], k, NextOf(m))

(* When the last MCU of an intact scan is decoded, its data has been read  *)
(* but for the ones that fill the last byte, and nothing of what follows:  *)
(* the next marker is found at once.                                       *)
ScanEndsAtMarker ==
    (phase = "decode" /\ mcu > NumMCUs /\ img.loss.kind = "none") =>
        /\ \/ dec.unread_marker = EOIMarker
           \/ dec.unread_marker = 0 /\ SubSeq(file, dec.pos + 1, Len(file)) = EndMarker
        /\ dec.get_buffer = [i \in 1 .. Len(dec.get_buffer) |-> 1]
        /\ Len(dec.get_buffer) <= 7

(* Between MCUs the bit buffer is never full: bits_left fits the 5 bits    *)
(* that jpeg_get_huffman_decoder_configuration gives it in an offset.      *)
BitsLeftFitsOffset ==
    phase \in {"decode", "index", "tile"} => Len(dec.get_buffer) < BIT_BUF_SIZE

(* "Configure the Huffman decoder to decode the image starting from the    *)
(* bitstream position recorded in offset" (jdhuff.c:512): what is decoded  *)
(* after that is the image, from the MCU of the offset on.                 *)
TileIsImage ==
    phase = "tile" =>
        \E i \in DOMAIN index :
            \A m \in 1 .. NumMCUs :
                coefs[m] = IF m \in index[i].mcu .. mcu - 1 THEN img.mcus[m]
                           ELSE [b \in DOMAIN coefs[m] |-> Zeros]

(* Once the whole file has arrived no call suspends: the decoder never     *)
(* waits for data past the end of the scan, however the data was damaged   *)
(* (a suspended call would be repeated for ever).                          *)
NeverStarves ==
    (phase = "decode" /\ mcu <= NumMCUs /\ dec.avail = Len(file)) =>
        decode_mcu(file, [dec EXCEPT !.mcu = coefs[mcu]], img, ThisScan).ok
(* What the coder holds back between calls fits the place made for it:     *)
(* bits, EOB runs, correction bits, and the offsets of the index.          *)
BuffersHold == TypeOK /\ CorrectionBitsKept /\ BitsLeftFitsOffset

(* Decoding stops at the marker that ends the scan, having read all of its *)
(* data, and never waits for anything behind it.                           *)
StopsAtMarker == ScanEndsAtMarker /\ NeverStarves
=============================================================================
