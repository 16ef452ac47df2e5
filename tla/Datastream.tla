----------------------------- MODULE Datastream -----------------------------
(***************************************************************************)
(* JPEG datastreams as sequences of segments, their bytes, and what each   *)
(* segment means to a decoder: the reference MarkerReader is compared      *)
(* with, which knows nothing of bytes, buffers and suspension.             *)
(*                                                                         *)
(* A segment is a record with a type t and the marker code m, unless it is *)
(* "RAW", bytes between two markers.  A Huffman table is [bits, vals], a   *)
(* quantization table the sequence of its values.  cinfo is the part of    *)
(* the decompression object that markers set; its tables survive from one  *)
(* datastream to the next.                                                 *)
(***************************************************************************)
EXTENDS MarkerScan

CONSTANTS HuffLengths,       \* 16 in the code, the number of code lengths
          QuantSize,         \* DCTSIZE2
          NUM_TBLS,          \* NUM_QUANT_TBLS and NUM_HUFF_TBLS, 4 in the code
          MAX_COMPS_IN_SCAN, \* 4 in the code
          APP0_DATA_LEN,     \* 14 in the code: what makes a JFIF marker
          APP14_DATA_LEN     \* 12 in the code: what makes an Adobe marker

SOF1 == 193
SOF2 == 194
DHT == 196
SOIMarker == 216
SOS == 218
DQT == 219
DNL == 220
DRI == 221
APP(n) == 224 + n
COM == 254
IsTEM(m) == m = 1

JFIF_ID == 74     \* "J", for the five bytes "JFIF\0"
Adobe_ID == 65    \* "A", for "Adobe"

NoTable == << >>
TableSlots == 0..NUM_TBLS - 1

\* What get_soi sets, and what a decompression object starts with.
NoJFIF == [saw |-> FALSE, version |-> 1, density |-> 1]
NoAdobe == [saw |-> FALSE, transform |-> 0]

AfterSOI(c) == [c EXCEPT !.restart_interval = 0, !.JFIF = NoJFIF, !.Adobe = NoAdobe]

\* The header of a scan; cur_comp_info has the numbers of its components, which are in
\* the first comps_in_scan entries.
NoScanYet ==
    [comps_in_scan |-> 0, cur_comp_info |-> [i \in 1..MAX_COMPS_IN_SCAN |-> 0],
     Ss |-> 0, Se |-> 0, Ah |-> 0, Al |-> 0]

NewObject ==
    [quant |-> [n \in TableSlots |-> NoTable], dc |-> [n \in TableSlots |-> NoTable],
     ac |-> [n \in TableSlots |-> NoTable], restart_interval |-> 0,
     progressive |-> FALSE, precision |-> 0, height |-> 0, width |-> 0, num_components |-> 0,
     comps |-> << >>, scan |-> NoScanYet, input_scan_number |-> 0, JFIF |-> NoJFIF,
     Adobe |-> NoAdobe, marker_list |-> << >>]

----------------------------------------------------------------------------
(* Bytes.                                                                  *)

TwoBytes(n) == << n \div 256, n % 256 >>
TableBytes(tbl) ==      \* of DHT
    << tbl.n + (IF tbl.ac THEN 16 ELSE 0) >> \o tbl.bits \o tbl.vals
QuantBytes(tbl) ==
    IF tbl.wide THEN << 16 + tbl.n >> \o FlattenSeq([i \in 1..QuantSize |-> TwoBytes(tbl.vals[i])])
    ELSE << tbl.n >> \o tbl.vals

SofBytes(seg) ==
    << seg.precision >> \o TwoBytes(seg.height) \o TwoBytes(seg.width) \o << Len(seg.comps) >>
    \o FlattenSeq([i \in 1..Len(seg.comps) |->
           << seg.comps[i].id, 16 * seg.comps[i].h + seg.comps[i].v, seg.comps[i].q >>])
SosBytes(seg) ==
    << Len(seg.comps) >>
    \o FlattenSeq([i \in 1..Len(seg.comps) |->
           << seg.comps[i].id, 16 * seg.comps[i].dc + seg.comps[i].ac >>])
    \o << seg.Ss, seg.Se, 16 * seg.Ah + seg.Al >>

Payload(seg) ==
    CASE seg.t = "SOF"  -> SofBytes(seg)
      [] seg.t = "SOS"  -> SosBytes(seg)
      [] seg.t = "DHT"  -> FlattenSeq([i \in 1..Len(seg.tbls) |-> TableBytes(seg.tbls[i])])
      [] seg.t = "DQT"  -> FlattenSeq([i \in 1..Len(seg.tbls) |-> QuantBytes(seg.tbls[i])])
      [] seg.t = "DRI"  -> TwoBytes(seg.interval)
      [] seg.t = "MISC" -> seg.data
      [] seg.t = "BAD"  -> seg.data

\* "BOGUS" is a marker with a length word too small to be one; "BARE" has none.
Bytes(seg) ==
    CASE seg.t = "RAW"   -> seg.bytes
      [] seg.t = "BARE"  -> << FillByte, seg.m >>
      [] seg.t = "BOGUS" -> << FillByte, seg.m, 0, seg.length >>
      [] OTHER -> << FillByte, seg.m >> \o TwoBytes(Len(Payload(seg)) + 2) \o Payload(seg)

StreamBytes(segs) == FlattenSeq([i \in 1..Len(segs) |-> Bytes(segs[i])])
End(segs, n) == Len(StreamBytes(SubSeq(segs, 1, n)))

----------------------------------------------------------------------------
(* Meaning.  limit(m) is how much of a marker is to be saved, or -1 when   *)
(* the marker is not to be saved.                                          *)

IsJFIF(data) == Len(data) >= APP0_DATA_LEN /\ data[1] = JFIF_ID
IsAdobe(data) == Len(data) >= APP14_DATA_LEN /\ data[1] = Adobe_ID

Noted(c, m, data) ==
    IF m = APP(0) /\ IsJFIF(data)
    THEN [c EXCEPT !.JFIF = [saw |-> TRUE, version |-> data[2], density |-> data[3]]]
    ELSE IF m = APP(14) /\ IsAdobe(data)
    THEN [c EXCEPT !.Adobe = [saw |-> TRUE, transform |-> data[2]]]
    ELSE c

SavedMarker(m, data, n) ==
    [marker |-> m, original_length |-> Len(data), data |-> SubSeq(data, 1, n)]
SavedAs(c, m, data, limit) ==
    IF limit[m] < 0 THEN c
    ELSE [c EXCEPT !.marker_list =
            Append(@, SavedMarker(m, data, IF Len(data) < limit[m] THEN Len(data) ELSE limit[m]))]

Index(c, id) == CHOOSE i \in 1..Len(c.comps) : c.comps[i].id = id /\ \A j \in 1..i - 1 : c.comps[j].id # id

\* The last of several tables for a slot counts.
HuffTables(old, tbls, ac) ==
    [n \in TableSlots |->
        LET mine == {i \in 1..Len(tbls) : tbls[i].n = n /\ tbls[i].ac = ac}
        IN  IF mine = {} THEN old[n]
            ELSE [bits |-> tbls[Max(mine)].bits, vals |-> tbls[Max(mine)].vals]]
QuantTables(old, tbls) ==
    [n \in TableSlots |->
        LET mine == {i \in 1..Len(tbls) : tbls[i].n = n}
        IN  IF mine = {} THEN old[n] ELSE tbls[Max(mine)].vals]

WithFrame(c, seg) ==
    [c EXCEPT !.progressive = (seg.m = SOF2), !.precision = seg.precision,
              !.height = seg.height, !.width = seg.width, !.num_components = Len(seg.comps),
              !.comps = [i \in 1..Len(seg.comps) |->
                  [id |-> seg.comps[i].id, h |-> seg.comps[i].h, v |-> seg.comps[i].v,
                   q |-> seg.comps[i].q, dc |-> 0, ac |-> 0]]]

\* The component specification a scan header has for component i, if any.
SpecOf(c, seg, i) == {s \in 1..Len(seg.comps) : Index(c, seg.comps[s].id) = i}
WithScan(c, seg) ==
    [c EXCEPT !.comps = [i \in 1..Len(c.comps) |->
                  IF SpecOf(c, seg, i) = {} THEN c.comps[i]
                  ELSE [c.comps[i] EXCEPT !.dc = seg.comps[Max(SpecOf(c, seg, i))].dc,
                                          !.ac = seg.comps[Max(SpecOf(c, seg, i))].ac]],
              !.scan = [comps_in_scan |-> Len(seg.comps),
                        cur_comp_info |-> [i \in 1..MAX_COMPS_IN_SCAN |->
                            IF i <= Len(seg.comps) THEN Index(c, seg.comps[i].id)
                            ELSE c.scan.cur_comp_info[i]],
                        Ss |-> seg.Ss, Se |-> seg.Se, Ah |-> seg.Ah, Al |-> seg.Al],
              !.input_scan_number = @ + 1]

Apply(c, seg, limit) ==
    CASE seg.t = "SOF" -> WithFrame(c, seg)
      [] seg.t = "SOS" -> WithScan(c, seg)
      [] seg.t = "DHT" -> [c EXCEPT !.dc = HuffTables(@, seg.tbls, FALSE),
                                    !.ac = HuffTables(@, seg.tbls, TRUE)]
      [] seg.t = "DQT" -> [c EXCEPT !.quant = QuantTables(@, seg.tbls)]
      [] seg.t = "DRI" -> [c EXCEPT !.restart_interval = seg.interval]
      [] seg.t = "MISC" -> Noted(SavedAs(c, seg.m, seg.data, limit), seg.m, seg.data)
      [] seg.t = "BARE" /\ seg.m = SOIMarker -> AfterSOI(c)
      [] OTHER -> c

\* The segments a decoder must refuse, in the state c it meets them.
Refused(c, seg, saw_SOI, saw_SOF) ==
    \/ seg.t = "BAD"
    \/ ~saw_SOI /\ (seg.t = "RAW" \/ seg.m # SOIMarker)
    \/ seg.t = "BARE" /\ seg.m = SOIMarker /\ saw_SOI
    \/ seg.t = "SOF" /\ (saw_SOF \/ seg.height = 0 \/ seg.width = 0 \/ seg.comps = << >>)
    \/ seg.t = "SOS" /\ \/ ~saw_SOF
                        \/ Len(seg.comps) \notin 1..MAX_COMPS_IN_SCAN
                        \/ \E i \in 1..Len(seg.comps) :
                            \/ \A k \in 1..Len(c.comps) : c.comps[k].id # seg.comps[i].id
                            \/ \E j \in 1..i - 1 : seg.comps[j].id = seg.comps[i].id

Has(segs, n, t) == \E i \in 1..n : segs[i].t = t
\* Segments first to n, applied to c in turn.
Ideal(segs, first, n, c, limit) ==
    FoldLeft(LAMBDA d, i : Apply(d, segs[first + i - 1], limit), c, [i \in 1..n - first + 1 |-> i])
RefusedAt(segs, first, i, c, limit) ==
    Refused(Ideal(segs, first, i - 1, c, limit), segs[i], i > 1, Has(segs, i - 1, "SOF"))
=============================================================================
