----------------------------- MODULE HuffDecode -----------------------------
(***************************************************************************)
(* The entropy decoders: jdhuff.c and jdhuff.h for sequential scans,       *)
(* jdphuff.c for progressive ones.  A decoder d is one record: the source  *)
(* (MarkerScan), the bit buffer, and the state that is saved from one MCU  *)
(* to the next.  An MCU is decoded on a working copy; d.ok = FALSE in the  *)
(* copy says that the source wants to suspend.                             *)
(***************************************************************************)
EXTENDS HuffEncode, MarkerResync

BIT_BUF_SIZE == 32
Of64Bits     == 64 - 7                                           \* mutant
MIN_GET_BITS == BIT_BUF_SIZE - 7

(* Load bytes until MIN_GET_BITS bits are there, a marker is found or the  *)
(* source suspends.  FF/00 is a data byte FF; so is FF/FF/00.              *)
RECURSIVE LoadBytes(_, _)
LoadBytes(data, d) ==
    IF Len(d.get_buffer) >= MIN_GET_BITS THEN d
    ELSE IF d.pos >= d.avail THEN [d EXCEPT !.ok = FALSE]
    ELSE LET b    == data[d.pos + 1]
             code == {i \in d.pos + 2 .. d.avail : data[i] # FF}
         IN  IF b # FF
             THEN LoadBytes(data, [d EXCEPT !.pos = @ + 1, !.get_buffer = @ \o Bits(b, 8)])
             ELSE IF code = {} THEN [d EXCEPT !.ok = FALSE]
             ELSE IF data[Min(code)] = 0
             THEN LoadBytes(data, [d EXCEPT !.pos = Min(code),
                                            !.get_buffer = @ \o Bits(FF, 8)])
             ELSE [d EXCEPT !.pos = Min(code), !.unread_marker = data[Min(code)]]

(* At a marker, zeros stand for the bits that are missing.                 *)
FillZeros(d, nbits) ==
    IF nbits <= Len(d.get_buffer) THEN d
    ELSE [d EXCEPT !.insufficient_data = TRUE,
                   !.get_buffer = @ \o [i \in 1 .. MIN_GET_BITS - Len(@) |-> 0]]

NoMoreBytes(d, nbits) ==
    IF ~d.ok \/ d.unread_marker = 0 THEN d ELSE FillZeros(d, nbits)
jpeg_fill_bit_buffer(data, d, nbits) ==
    NoMoreBytes(IF d.unread_marker = 0 THEN LoadBytes(data, d) ELSE d, nbits)

CHECK_BIT_BUFFER(data, d, nbits) ==
    IF Len(d.get_buffer) < nbits THEN jpeg_fill_bit_buffer(data, d, nbits) ELSE d

PEEK_BITS(d, n) == Value(SubSeq(d.get_buffer, 1, n))
DROP_BITS(d, n) == [d EXCEPT !.get_buffer = SubSeq(@, n + 1, Len(@))]

(* The next n bits, as d.val.                                              *)
GET_BITS(d, n) == IF d.ok THEN [DROP_BITS(d, n) EXCEPT !.val = PEEK_BITS(d, n)] ELSE d
GetBits(data, d, n) == GET_BITS(CHECK_BIT_BUFFER(data, d, n), n)

(* The rest of a code, bit by bit, of which l bits are in d.val.           *)
OneMoreBit(d, code) == [d EXCEPT !.val = 2 * code + @]
RECURSIVE RestOfCode(_, _, _, _)
RestOfCode(data, d, tbl, l) ==
    IF ~d.ok THEN d
    ELSE IF d.val <= tbl.maxcode[l]
    THEN [d EXCEPT !.val = IF l > MaxLength THEN 0
                           ELSE tbl.huffval[@ + tbl.valoffset[l]]]
    ELSE RestOfCode(data, OneMoreBit(GetBits(data, d, 1), d.val), tbl, l + 1)

jpeg_huff_decode(data, d, tbl, min_bits) ==
    RestOfCode(data, GetBits(data, d, min_bits), tbl, min_bits)

(* By table when enough bits can be looked at, else the hard way.          *)
LookedUp(data, d, tbl, short) ==
    LET look == tbl.look[PEEK_BITS(d, HUFF_LOOKAHEAD)] IN
    IF ~d.ok THEN d
    ELSE IF ~short /\ look # NoCode THEN [DROP_BITS(d, look[1]) EXCEPT !.val = look[2]]
    ELSE jpeg_huff_decode(data, d, tbl, IF short THEN 1 ELSE HUFF_LOOKAHEAD + 1)
Looked(data, d, tbl) == LookedUp(data, d, tbl, Len(d.get_buffer) < HUFF_LOOKAHEAD)

(* The next symbol, as d.val.                                              *)
HUFF_DECODE(data, d, tbl) ==
    Looked(data, IF Len(d.get_buffer) < HUFF_LOOKAHEAD
                 THEN jpeg_fill_bit_buffer(data, d, 0) ELSE d, tbl)

HUFF_EXTEND(x, s) == IF x < 2 ^ (s - 1) THEN x - 2 ^ s + 1 ELSE x

(* A value of s bits after its symbol.                                     *)
SignExtend(d, s) == IF d.ok THEN [d EXCEPT !.val = HUFF_EXTEND(@, s)] ELSE d
Extended(data, d, s) ==
    IF ~d.ok THEN d
    ELSE IF s = 0 THEN [d EXCEPT !.val = 0]
    ELSE SignExtend(GetBits(data, d, s), s)

(* The extra entries of jpeg_natural_order[] catch positions past the end. *)
Place(k) == Min({k, DCTSIZE2 - 1})

-----------------------------------------------------------------------------
(* Sequential MCUs: d.mcu is the MCU being decoded, zeroed by the caller.  *)

PutDC(d, b, ci, v, Al) ==
    IF d.ok THEN [d EXCEPT !.last_dc_val[ci] = v, !.mcu[b][0] = v * 2 ^ Al] ELSE d
DecodedDC(d, b, ci, Al) == PutDC(d, b, ci, d.val + d.last_dc_val[ci], Al)
DecodeDiff(data, d) == Extended(data, d, d.val)
DecodeDC(data, d, tbl, b, ci, Al) ==
    DecodedDC(DecodeDiff(data, HUFF_DECODE(data, d, tbl)), b, ci, Al)

(* The AC coefficients: a code is a run r of zeros and a size s.           *)
PutAC(d, b, at, Al) == IF d.ok THEN [d EXCEPT !.mcu[b][at] = d.val * 2 ^ Al] ELSE d
TakeAC(data, d, b, k, Al) ==
    IF d.val % 16 # 0
    THEN PutAC(Extended(data, d, d.val % 16), b, Place(k + d.val \div 16), Al)
    ELSE d
NextK(d, k) ==
    IF d.val % 16 = 0 /\ d.val \div 16 # 15 THEN DCTSIZE2 ELSE k + d.val \div 16 + 1

RECURSIVE DecodeAC(_, _, _, _, _)
CodeAC(data, d, tbl, b, k) ==
    IF d.ok THEN DecodeAC(data, TakeAC(data, d, b, k, 0), tbl, b, NextK(d, k)) ELSE d
DecodeAC(data, d, tbl, b, k) ==
    IF ~d.ok \/ k >= DCTSIZE2 THEN d
    ELSE CodeAC(data, HUFF_DECODE(data, d, tbl), tbl, b, k)

RECURSIVE DecodeBlocks(_, _, _, _)
DecodeBlocks(data, d, member, b) ==
    IF ~d.ok \/ b > Len(member) THEN d
    ELSE DecodeBlocks(data,
           DecodeAC(data, DecodeDC(data, d, d.tbls["dc"], b, member[b], 0),
                    d.tbls["ac"], b, 1),
           member, b + 1)

-----------------------------------------------------------------------------
(* Progressive MCUs, of one block.                                         *)

(* The run of an EOBn symbol, as d.EOBRUN.                                 *)
StartRun(d, r) == IF d.ok THEN [d EXCEPT !.EOBRUN = 2 ^ r + d.val] ELSE d
EobRun(data, d, r) ==
    StartRun(IF r = 0 THEN [d EXCEPT !.val = 0] ELSE GetBits(data, d, r), r)
IsEOB(d) == d.val % 16 = 0 /\ d.val \div 16 # 15

CountBlock(d) == IF d.ok THEN [d EXCEPT !.EOBRUN = @ - 1] ELSE d

RECURSIVE BandFirst(_, _, _, _)
CodeFirst(data, d, scan, k) ==
    IF ~d.ok THEN d
    ELSE IF IsEOB(d) THEN CountBlock(EobRun(data, d, d.val \div 16))
    ELSE BandFirst(data, TakeAC(data, d, 1, k, scan.Al), scan, NextK(d, k))
BandFirst(data, d, scan, k) ==
    IF ~d.ok \/ k > scan.Se THEN d
    ELSE CodeFirst(data, HUFF_DECODE(data, d, d.tbls["ac"]), scan, k)

decode_mcu_AC_first(data, d, scan) ==
    IF d.EOBRUN > 0 THEN [d EXCEPT !.EOBRUN = @ - 1]
    ELSE BandFirst(data, d, scan, scan.Ss)

BitSet(v, p1) == (v \div p1) % 2 = 1        \* of the two's complement

(* A bit for the coefficient at k, away from zero; it may have been        *)
(* applied before, by a call that had to suspend.                          *)
AddBit(d, k, p1) ==
    LET v == d.mcu[1][k] IN
    IF d.ok /\ d.val = 1 /\ ~BitSet(v, p1)
    THEN [d EXCEPT !.mcu[1][k] = IF v >= 0 \/ k = 0 THEN v + p1 ELSE v - p1]
    ELSE d
Correct(data, d, scan, k) == AddBit(GetBits(data, d, 1), k, 2 ^ scan.Al)

decode_mcu_DC_refine(data, d, scan) == Correct(data, d, scan, 0)

Advance(d) == IF d.ok THEN [d EXCEPT !.k = @ + 1] ELSE d

(* Over r zeros and the nonzeros between; d.k is where it stopped.         *)
RECURSIVE PassOver(_, _, _, _)
PassOver(data, d, scan, r) ==
    IF ~d.ok \/ d.k > scan.Se THEN d
    ELSE IF d.mcu[1][d.k] # 0
    THEN PassOver(data, Advance(Correct(data, d, scan, d.k)), scan, r)
    ELSE IF r = 0 THEN d
    ELSE PassOver(data, Advance(d), scan, r - 1)

(* The coefficient that becomes nonzero, at the place passed over to.      *)
PutNew(d, v) ==
    IF ~d.ok THEN d
    ELSE Advance([d EXCEPT !.mcu[1][Place(d.k)] = v, !.newnz = @ \cup {Place(d.k)}])

(* The codes of the band up to its end; newnz are the places that became   *)
(* nonzero.                                                                *)
TakeNew(data, d, scan, r) ==
    PutNew(PassOver(data, d, scan, r),
           IF d.val = 1 THEN 2 ^ scan.Al ELSE -(2 ^ scan.Al))
TakeRefine(data, d, scan, r) ==
    IF d.val % 16 # 0 THEN TakeNew(data, GetBits(data, d, 1), scan, r)
    ELSE Advance(PassOver(data, d, scan, r))

RECURSIVE BandRefine(_, _, _)
CodeRefine(data, d, scan) ==
    IF ~d.ok THEN d
    ELSE IF IsEOB(d) THEN EobRun(data, d, d.val \div 16)
    ELSE BandRefine(data, TakeRefine(data, d, scan, d.val \div 16), scan)
BandRefine(data, d, scan) ==
    IF ~d.ok \/ d.k > scan.Se THEN d
    ELSE CodeRefine(data, HUFF_DECODE(data, d, d.tbls["ac"]), scan)

RECURSIVE CorrectRest(_, _, _)
CorrectRest(data, d, scan) ==
    IF ~d.ok \/ d.k > scan.Se THEN d
    ELSE CorrectRest(data,
           Advance(IF d.mcu[1][d.k] # 0 THEN Correct(data, d, scan, d.k) ELSE d), scan)

LeavesThem(d) == d                                              \* mutant

(* undoit: the places made nonzero are zeroed again on suspension; the     *)
(* correction bits stay.                                                   *)
Undo(d) == [d EXCEPT !.mcu[1] = [k \in DOMAIN @ |-> IF k \in d.newnz THEN 0 ELSE @[k]]]

InRun(data, d, scan) ==
    IF d.ok /\ d.EOBRUN > 0 THEN CountBlock(CorrectRest(data, d, scan)) ELSE d
UndoIfSuspended(d) == IF d.ok THEN d ELSE Undo(d)
Refine(data, d, scan) ==
    UndoIfSuspended(
        InRun(data, IF d.EOBRUN = 0 THEN BandRefine(data, d, scan) ELSE d, scan))
decode_mcu_AC_refine(data, d, scan) ==
    Refine(data, [d EXCEPT !.k = scan.Ss, !.newnz = {}], scan)

-----------------------------------------------------------------------------
(* One call of decode_mcu.                                                 *)

start_pass(d, img, tbls) ==
    [d EXCEPT !.get_buffer = <<>>, !.insufficient_data = FALSE, !.EOBRUN = 0,
              !.last_dc_val = [ci \in DOMAIN @ |-> 0],
              !.restarts_to_go = img.restart_interval, !.tbls = tbls]

(* The bits left are discarded, the marker is read, predictions and the    *)
(* EOB run start over; data that ended early stays ended if the next       *)
(* marker was met.                                                         *)
StartSegment(s, img) ==
    IF ~s.ok THEN s
    ELSE [s EXCEPT !.last_dc_val = [ci \in DOMAIN @ |-> 0], !.EOBRUN = 0,
                   !.restarts_to_go = img.restart_interval,
                   !.insufficient_data = IF s.unread_marker = 0 THEN FALSE ELSE @]
process_restart(data, d, img) ==
    StartSegment(read_restart_marker(data,
                     [d EXCEPT !.discarded_bytes = @ + Len(d.get_buffer) \div 8,
                               !.get_buffer = <<>>]),
                 img)

DecodeData(data, d, img, scan) ==
    IF ~img.progressive THEN DecodeBlocks(data, d, img.MCU_membership, 1)
    ELSE IF scan.Ah = 0 /\ scan.Ss = 0 THEN DecodeDC(data, d, d.tbls["dc"], 1, 1, scan.Al)
    ELSE IF scan.Ah = 0 THEN decode_mcu_AC_first(data, d, scan)
    ELSE IF scan.Ss = 0 THEN decode_mcu_DC_refine(data, d, scan)
    ELSE decode_mcu_AC_refine(data, d, scan)

(* DC refinement does not look whether the data has ended.                 *)
ReadsPastEnd(img, scan) == img.progressive /\ scan.Ah # 0 /\ scan.Ss = 0

(* The state after the call: what a suspended call leaves behind is the    *)
(* restart marker search and the coefficients it has written.              *)
Completed(w, s) ==
    IF w.ok THEN [w EXCEPT !.restarts_to_go = @ - 1] ELSE [s EXCEPT !.ok = FALSE, !.mcu = w.mcu]
DecodeAt(data, s, img, scan) ==
    IF ~s.ok THEN s
    ELSE Completed(IF s.insufficient_data /\ ~ReadsPastEnd(img, scan) THEN s
                   ELSE DecodeData(data, s, img, scan), s)
decode_mcu(data, d, img, scan) ==
    DecodeAt(data, IF img.restart_interval > 0 /\ d.restarts_to_go = 0
                   THEN process_restart(data, d, img) ELSE d,
             img, scan)
=============================================================================
