---------------------------- MODULE MarkerWriter ----------------------------
(***************************************************************************)
(* The marker writer (jcmarker.c): which segments it writes, in which      *)
(* order, and the sent_table flags by which it writes a table once.  A     *)
(* segment is a pair <<marker, argument>>; its bytes are left out.  The    *)
(* tables are named <<class, slot>> with class "q", "dc" or "ac", and have *)
(* a value, which stands for their contents.                               *)
(*                                                                         *)
(* w is the writer: tbl, the tables with their sent_table flags, and       *)
(* last_restart_interval.  rd is what a reader of everything written so    *)
(* far knows: the tables, those among them that it got from the present    *)
(* datastream, the restart interval, the kind of frame, and the scan whose *)
(* header came last.                                                       *)
(***************************************************************************)
EXTENDS CompressSetup

TableNames == {"q", "dc", "ac"} \X {0, 1}

\* jpeg_suppress_tables
jpeg_suppress_tables(tbl, suppress) ==
    [t \in DOMAIN tbl |-> [tbl[t] EXCEPT !.sent_table = suppress]]

NewReader == [tbl |-> [t \in TableNames |-> << "none" >>], here |-> {}, ri |-> 0,
              sof |-> "none", scan |-> << >>]

\* The contents of a quantization table, of which only this matters: is there an
\* entry above 255?  Then the file is not a baseline one.
Version(n, wide) == << "q", n, wide >>
Wide(value) == value[3]

----------------------------------------------------------------------------
(* The segments of each header.                                            *)

write_file_header == << << "SOI", << >> >> >>

QuantTable(cinfo, c) == << "q", cinfo.comps[c].quant_tbl_no >>

\* Mutant of NeedsPrecision: only the tables that are to be sent are looked at.
PrecisionOfUnsent(cinfo, tbl) ==
    \E c \in 1..Len(cinfo.comps) :
        Wide(tbl[QuantTable(cinfo, c)].value) /\ ~tbl[QuantTable(cinfo, c)].sent_table

\* emit_dqt finds the precision of every table, sent or not.
NeedsPrecision(cinfo, tbl) ==
    \E c \in 1..Len(cinfo.comps) : Wide(tbl[QuantTable(cinfo, c)].value)

IsBaseline(cinfo, tbl) ==
    /\ ~NeedsPrecision(cinfo, tbl)
    /\ \A c \in 1..Len(cinfo.comps) :
        cinfo.comps[c].dc_tbl_no <= 1 /\ cinfo.comps[c].ac_tbl_no <= 1

SOFCode(cinfo, tbl) ==
    IF Progressive(cinfo.scan_info) THEN "SOF2"
    ELSE IF IsBaseline(cinfo, tbl) THEN "SOF0" ELSE "SOF1"

write_frame_header(cinfo, tbl) ==
    [c \in 1..Len(cinfo.comps) |-> << "DQT", QuantTable(cinfo, c) >>]
    \o << << "SOF", SOFCode(cinfo, tbl) >> >>

\* The Huffman tables component c needs in the scan.  "DC needs no table for
\* refinement scan"; an AC scan of a progressive file needs no DC table.
ScanTables(cinfo, scan, c) ==
    IF scan.Ss = 0 /\ scan.Se = LastCoef
    THEN << << "dc", cinfo.comps[c].dc_tbl_no >>, << "ac", cinfo.comps[c].ac_tbl_no >> >>
    ELSE IF scan.Ss # 0 THEN << << "ac", cinfo.comps[c].ac_tbl_no >> >>
    ELSE IF scan.Ah = 0 THEN << << "dc", cinfo.comps[c].dc_tbl_no >> >>
    ELSE << >>

TablesUpTo(cinfo, scan) ==
    LET tables[k \in 0..Len(scan.cur)] ==
            IF k = 0 THEN << >>
            ELSE tables[k - 1] \o ScanTables(cinfo, scan, scan.cur[k].index)
    IN  tables

TablesOfScan(cinfo, scan) == TablesUpTo(cinfo, scan)[Len(scan.cur)]

write_scan_header(cinfo, scan) ==
    [i \in 1..Len(TablesOfScan(cinfo, scan)) |-> << "DHT", TablesOfScan(cinfo, scan)[i] >>]
    \o << << "DRI", << cinfo.restart_interval >> >>, << "SOS", scan >> >>

write_tables_only ==
    << << "SOI", << >> >>,
       << "DQT", << "q", 0 >> >>, << "DQT", << "q", 1 >> >>,
       << "DHT", << "dc", 0 >> >>, << "DHT", << "ac", 0 >> >>,
       << "DHT", << "dc", 1 >> >>, << "DHT", << "ac", 1 >> >>,
       << "EOI", << >> >> >>

write_file_trailer == << << "EOI", << >> >> >>

----------------------------------------------------------------------------
(* Writing one segment; out = [w, rd].                                     *)

\* emit_dqt and emit_dht: suppress a table that was sent already.
EmitTable(out, t) ==
    IF out.w.tbl[t].sent_table THEN out
    ELSE [w  |-> [out.w EXCEPT !.tbl[t].sent_table = TRUE],
          rd |-> [out.rd EXCEPT !.tbl[t] = out.w.tbl[t].value, !.here = @ \cup {t}]]

\* SOI resets the restart interval on both sides.
EmitSOI(out) ==
    [w  |-> [out.w EXCEPT !.last_restart_interval = 0],
     rd |-> [out.rd EXCEPT !.here = {}, !.ri = 0, !.sof = "none", !.scan = << >>]]

\* "We avoid wasting space with unnecessary DRIs, however."
EmitDRI(out, interval) ==
    IF interval = out.w.last_restart_interval THEN out
    ELSE [w  |-> [out.w EXCEPT !.last_restart_interval = interval],
          rd |-> [out.rd EXCEPT !.ri = interval]]

EmitSOF(out, code) == [out EXCEPT !.rd.sof = code]
EmitSOS(out, scan) == [out EXCEPT !.rd.scan = scan]

Emit(out, seg) ==
    CASE seg[1] \in {"DQT", "DHT"} -> EmitTable(out, seg[2])
      [] seg[1] = "SOI" -> EmitSOI(out)
      [] seg[1] = "DRI" -> EmitDRI(out, seg[2][1])
      [] seg[1] = "SOF" -> EmitSOF(out, seg[2])
      [] seg[1] = "SOS" -> EmitSOS(out, seg[2])
      [] OTHER -> out

\* All of them, in order.
WrittenUpTo(out, segs) ==
    LET written[k \in 0..Len(segs)] ==
            IF k = 0 THEN out ELSE Emit(written[k - 1], segs[k])
    IN  written

Written(out, segs) == WrittenUpTo(out, segs)[Len(segs)]
=============================================================================
