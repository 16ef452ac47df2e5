----------------------------- MODULE HuffEncode -----------------------------
(***************************************************************************)
(* The entropy encoders: jchuff.c for sequential scans, jcphuff.c for      *)
(* progressive ones.  Encoding an MCU yields a list of codes: a symbol of  *)
(* the DC or AC table, or raw bits.  A statistics pass counts the symbols, *)
(* an output pass turns the list into bits and the bits into bytes.        *)
(* A block is a function of the zigzag position 0 .. DCTSIZE2 - 1.         *)
(***************************************************************************)
EXTENDS HuffTables

CONSTANTS DCTSIZE2,         \* coefficients of a block: 64 in the code
          MAX_CORR_BITS,    \* correction bits that can be buffered: 1000
          MAX_EOBRUN        \* EOB run that is forced out: 0x7FFF

ASSUME SizeAssumption == DCTSIZE2 \in Nat \ {0} /\ MAX_CORR_BITS >= DCTSIZE2

MAX_COEF_BITS == 10
RST0  == 208                \* 0xD0
FF    == 255

Symbol(t, s)  == [kind |-> "symbol", tbl |-> t, val |-> s, size |-> 0]
RawBits(v, n) == [kind |-> "bits", tbl |-> "", val |-> v % 2 ^ n, size |-> n]
ZRL == 240                  \* run of 16 zeros, 0xF0
EOB == 0

AbsVal(v) == IF v < 0 THEN -v ELSE v
Width(v) == IF v = 0 THEN 0 ELSE CHOOSE n \in 1 .. 16 : 2 ^ (n - 1) <= v /\ v < 2 ^ n

(* The low bits of v, or of the complement of its magnitude.               *)
Magnitude(v) == RawBits(IF v < 0 THEN v - 1 ELSE v, Width(AbsVal(v)))

Bits(v, n) == [i \in 1 .. n |-> (v \div 2 ^ (n - i)) % 2]
RECURSIVE Value(_)
Value(bits) == IF bits = <<>> THEN 0 ELSE 2 * Value(Front(bits)) + Last(bits)

-----------------------------------------------------------------------------
(* Sequential blocks                                                       *)

DcCodes(diff) ==
    <<Symbol("dc", Width(AbsVal(diff)))>>
      \o (IF diff = 0 THEN <<>> ELSE <<Magnitude(diff)>>)

(* The AC coefficients from position k, r zeros having been passed.        *)
RECURSIVE AcCodes(_, _, _)
AcCodes(block, k, r) ==
    IF k = DCTSIZE2
    THEN IF r > 0 THEN <<Symbol("ac", EOB)>> ELSE <<>>
    ELSE IF block[k] = 0 THEN AcCodes(block, k + 1, r + 1)
    ELSE [i \in 1 .. r \div 16 |-> Symbol("ac", ZRL)]
           \o <<Symbol("ac", 16 * (r % 16) + Width(AbsVal(block[k]))),
                Magnitude(block[k])>>
           \o AcCodes(block, k + 1, 0)

AlwaysEOB(block, last_dc_val) ==                                \* mutant
    DcCodes(block[0] - last_dc_val) \o SelectSeq(AcCodes(block, 1, 0), LAMBDA c : c # Symbol("ac", EOB))
      \o <<Symbol("ac", EOB)>>
encode_one_block(block, last_dc_val) ==
    DcCodes(block[0] - last_dc_val) \o AcCodes(block, 1, 0)

(* The symbols a statistics pass counts: its own walk over the block.      *)
RECURSIVE AcCounted(_, _, _)
AcCounted(block, k, r) ==
    IF k = DCTSIZE2
    THEN IF r > 0 THEN <<<<"ac", EOB>>>> ELSE <<>>
    ELSE IF block[k] = 0 THEN AcCounted(block, k + 1, r + 1)
    ELSE [i \in 1 .. r \div 16 |-> <<"ac", ZRL>>]
           \o <<<<"ac", 16 * (r % 16) + Width(AbsVal(block[k]))>>>>
           \o AcCounted(block, k + 1, 0)

htest_one_block(block, last_dc_val) ==
    <<<<"dc", Width(AbsVal(block[0] - last_dc_val))>>>> \o AcCounted(block, 1, 0)

(* JERR_BAD_DCT_COEF                                                       *)
BadCoefficient(block, last_dc_val) ==
    \/ Width(AbsVal(block[0] - last_dc_val)) > MAX_COEF_BITS + 1
    \/ \E k \in 1 .. DCTSIZE2 - 1 : Width(AbsVal(block[k])) > MAX_COEF_BITS

-----------------------------------------------------------------------------
(* Bytes.  A writer w holds the bits that do not fill a byte yet and the   *)
(* bytes it has put out; a data byte FF is followed by a stuffed zero.     *)

Stuffed(b) == IF b = FF THEN <<FF, 0>> ELSE <<b>>

PutOut(bytes, bits) ==
    LET n == Len(bits) \div 8
    IN  [put   |-> SubSeq(bits, 8 * n + 1, Len(bits)),
         bytes |-> bytes \o FlattenSeq([i \in 1 .. n |->
                                Stuffed(Value(SubSeq(bits, 8 * i - 7, 8 * i)))])]

(* emit_bits, of the bits of a whole list of codes.                        *)
emit_bits(w, bits) == PutOut(w.bytes, w.put \o bits)

(* Any partial byte is filled with ones.                                   *)
flush_bits(w) ==
    [put |-> <<>>, bytes |-> emit_bits(w, [i \in 1 .. 7 |-> 1]).bytes]

RestartMarker(n) == <<FF, RST0 + n>>

(* The bits of a code; JERR_HUFF_MISSING_CODE when there is none.          *)
HasCode(tbls, c) == c.kind = "bits" \/ c.val \in DOMAIN tbls[c.tbl]
CodeBits(tbls, c) ==
    IF c.kind = "bits" THEN Bits(c.val, c.size)
    ELSE Bits(CodeOf(tbls[c.tbl], c.val)[1], CodeOf(tbls[c.tbl], c.val)[2])

emit_codes(w, tbls, codes) ==
    emit_bits(w, FlattenSeq([i \in DOMAIN codes |-> CodeBits(tbls, codes[i])]))

-----------------------------------------------------------------------------
(* Progressive scans.  The state p that outlives an MCU: the EOB run, the  *)
(* correction bits held back with it (BE of them), the DC predictor; high  *)
(* is the highest place of bit_buffer ever written.                        *)

Shifted(v, al) == AbsVal(v) \div 2 ^ al            \* towards zero
PointTransform(v, al) == IF v < 0 THEN -Shifted(v, al) ELSE Shifted(v, al)

AsBits(bits) == [i \in DOMAIN bits |-> RawBits(bits[i], 1)]

(* The pending EOB run, then the correction bits that belong to it.        *)
emit_eobrun(p) ==
    IF p.EOBRUN = 0 THEN p
    ELSE LET nbits == Width(p.EOBRUN) - 1 IN
         [p EXCEPT !.out = @ \o <<Symbol("ac", 16 * nbits)>>
                             \o (IF nbits = 0 THEN <<>> ELSE <<RawBits(p.EOBRUN, nbits)>>)
                             \o AsBits(p.corr),
                   !.EOBRUN = 0, !.corr = <<>>]

encode_mcu_DC_first(p, scan, block) ==
    LET v == block[0] \div 2 ^ scan.Al
    IN  [p EXCEPT !.out = @ \o DcCodes(v - p.last_dc_val), !.last_dc_val = v]

encode_mcu_DC_refine(p, scan, block) ==
    [p EXCEPT !.out = Append(@, RawBits(block[0] \div 2 ^ scan.Al, 1))]

(* One more block in the run; full says that it must not grow.             *)
CountEOB(p, full) == IF full THEN emit_eobrun(p) ELSE p

RECURSIVE AcFirst(_, _, _, _, _)
AcFirst(p, scan, block, k, r) ==
    LET v == PointTransform(block[k], scan.Al) IN
    IF k > scan.Se
    THEN IF r = 0 THEN p
         ELSE CountEOB([p EXCEPT !.EOBRUN = @ + 1], p.EOBRUN + 1 = MAX_EOBRUN)
    ELSE IF v = 0 THEN AcFirst(p, scan, block, k + 1, r + 1)
    ELSE AcFirst([emit_eobrun(p) EXCEPT
                     !.out = @ \o [i \in 1 .. r \div 16 |-> Symbol("ac", ZRL)]
                       \o <<Symbol("ac", 16 * (r % 16) + Width(AbsVal(v))), Magnitude(v)>>],
                 scan, block, k + 1, 0)

encode_mcu_AC_first(p, scan, block) == AcFirst(p, scan, block, scan.Ss, 0)

(* Correction bits of this block (BR of them) are written behind the BE    *)
(* held back, at offset off, until a code of this block carries them.      *)
Carry(p) == [p EXCEPT !.out = @ \o AsBits(p.br), !.br = <<>>, !.off = 0]

RECURSIVE RunsOf16(_)
RunsOf16(p) ==
    IF p.r <= 15 THEN p
    ELSE RunsOf16(Carry([emit_eobrun(p) EXCEPT !.out = Append(@, Symbol("ac", ZRL)),
                                               !.r = @ - 16]))

(* A coefficient that was nonzero before: its next bit.                    *)
AddCorrection(p, v) ==
    [p EXCEPT !.br = Append(@, v % 2), !.high = Max({@, p.off + Len(p.br) + 1})]

(* One that becomes nonzero, with its sign.                                *)
EmitNew(p, sign) ==
    Carry([p EXCEPT !.out = @ \o <<Symbol("ac", 16 * p.r + 1), RawBits(sign, 1)>>,
                    !.r = 0])

RefineOne(p, coef, v) ==
    IF v > 1 THEN AddCorrection(p, v)
    ELSE EmitNew(emit_eobrun(p), IF coef < 0 THEN 0 ELSE 1)

RECURSIVE AcRefine(_, _, _, _, _)
AcRefine(p, scan, block, k, last) ==
    LET v == Shifted(block[k], scan.Al) IN
    IF k > scan.Se THEN p
    ELSE AcRefine(IF v = 0 THEN [p EXCEPT !.r = @ + 1]
                  ELSE RefineOne(IF k <= last THEN RunsOf16(p) ELSE p, block[k], v),
                  scan, block, k + 1, last)

AtLastPlace(p) == Len(p.corr) > MAX_CORR_BITS - 1                 \* mutant

(* The correction buffer must have room for those of another block.        *)
CorrFull(p) == Len(p.corr) > MAX_CORR_BITS - DCTSIZE2 + 1

(* Zeros or correction bits are left: the block joins the EOB run.         *)
ForceOut(p) == CountEOB(p, p.EOBRUN = MAX_EOBRUN \/ CorrFull(p))
JoinRun(p) ==
    IF p.r > 0 \/ p.br # <<>>
    THEN ForceOut([p EXCEPT !.EOBRUN = @ + 1, !.corr = @ \o p.br, !.br = <<>>, !.r = 0,
                            !.off = 0])
    ELSE [p EXCEPT !.r = 0, !.off = 0]

encode_mcu_AC_refine(p, scan, block) ==
    LET newly == {k \in scan.Ss .. scan.Se : Shifted(block[k], scan.Al) = 1}
        last  == IF newly = {} THEN 0 ELSE Max(newly)
    IN  JoinRun(AcRefine([p EXCEPT !.off = Len(p.corr)], scan, block, scan.Ss, last))

start_pass_phuff ==
    [EOBRUN |-> 0, corr |-> <<>>, br |-> <<>>, off |-> 0, r |-> 0, high |-> 0,
     last_dc_val |-> 0, out |-> <<>>]

encode_mcu_phuff(p, scan, block) ==
    IF scan.Ah = 0
    THEN IF scan.Ss = 0 THEN encode_mcu_DC_first(p, scan, block)
         ELSE encode_mcu_AC_first(p, scan, block)
    ELSE IF scan.Ss = 0 THEN encode_mcu_DC_refine(p, scan, block)
         ELSE encode_mcu_AC_refine(p, scan, block)
=============================================================================
