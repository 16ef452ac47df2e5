---------------------------- MODULE MarkerReader ----------------------------
(***************************************************************************)
(* The marker reader (jdmarker.c) behind a data source that delivers the   *)
(* datastream in pieces.  read_markers suspends wherever the source runs   *)
(* dry, and is called again from the start of the marker it could not      *)
(* finish; what the routines have changed by then stays changed.  Saved    *)
(* markers are the exception: they are read piece by piece, so that a      *)
(* marker larger than the buffer gets through.                             *)
(*                                                                         *)
(* A position of the source beyond what has arrived is a pending           *)
(* skip_input_data.  One step is one marker, or the suspension at it.      *)
(***************************************************************************)
EXTENDS Datastream

CONSTANTS Files,        \* what an object may read: sequences of datastreams, each
                        \* [segs, whole], whole if it is all in memory at once
          MiscMarkers,  \* the APPn and COM markers that occur
          Limits,       \* limits an application may give to jpeg_save_markers
          BufferSize,   \* bytes a suspending source can hold
          MaxSaves      \* bound: calls of jpeg_save_markers

\* A file is one or more datastreams of bytes.
IsBytes(f) ==
    f \in Seq(ToSet(f)) /\ \A i \in 1..Len(f) : StreamBytes(f[i].segs) \in Seq(0..255)
ASSUME FilesAreBytes == \A f \in Files : f # << >> /\ IsBytes(f)

\* Markers that may be saved, and how much of them may be.
ASSUME SavedMarkers ==
    /\ MiscMarkers \subseteq {APP(n) : n \in 0..15} \cup {COM}
    /\ Limits \cup {APP0_DATA_LEN, APP14_DATA_LEN, MAX_COMPS_IN_SCAN} \subseteq Nat

VARIABLES
    files,      \* datastreams not yet begun
    segs,       \* the present one, as segments
    data, ends, \* its bytes, and where each segment ends (what it is)
    src,        \* pos, avail, unread_marker, discarded_bytes, next_restart_num
    cinfo,
    marker,     \* saw_SOI, saw_SOF, cur_marker, current_sos_marker_position
    limits,     \* length_limit of each marker that is saved, -1 for the others
    ret,        \* what read_markers returned, "none" while it runs
    index,      \* scan positions given to the Huffman index
    start,      \* segments read and cinfo when the datastream was begun, or when
                \* the limits were changed since (history)
    from,       \* where the search for the next marker began (history)
    saves

vars == << files, segs, data, ends, src, cinfo, marker, limits, ret, index, start, from, saves >>
NoIndex == << -1 >>
fileState == << files, segs, data, ends, start >>

----------------------------------------------------------------------------
(* The bytes behind the restart point: the kth of them, and whether it has *)
(* arrived.  A routine gives the object as it leaves it, with the number   *)
(* of bytes it took, or "suspend" or "error".                              *)

Byte(s, k) == data[s.pos + k]
Arrived(s, k) == s.pos + k <= s.avail
TwoByte(s, k) == 256 * Byte(s, k) + Byte(s, k + 1)

AtLeast(a, b) == IF a < b THEN b ELSE a
AtMost(a, b) == IF a < b THEN a ELSE b

Done(c, n) == [st |-> "done", c |-> c, used |-> n]
Suspend(c) == [st |-> "suspend", c |-> c, used |-> 0]
Error(c) == [st |-> "error", c |-> c, used |-> 0]

----------------------------------------------------------------------------
(* get_sof.  Every field is set as soon as its bytes have come up, the     *)
(* size half by half, before the header is checked: a second SOF leaves    *)
(* another size behind.                                                    *)

SofLength == 8
SofComps(s) == Byte(s, SofLength)

ByteField(s, k, old) == IF Arrived(s, k) THEN Byte(s, k) ELSE old
TwoByteField(s, k, old) ==
    IF Arrived(s, k + 1) THEN TwoByte(s, k)
    ELSE IF Arrived(s, k) THEN 256 * Byte(s, k) ELSE old

SofFields(c, s) ==
    [c EXCEPT !.precision = ByteField(s, 3, @), !.height = TwoByteField(s, 4, @),
              !.width = TwoByteField(s, 6, @), !.num_components = ByteField(s, SofLength, @)]
SofHeader(c, s) ==
    [SofFields(c, s) EXCEPT
        !.comps = IF @ = << >>          \* "do only once, even if suspend"
                  THEN [i \in 1..SofComps(s) |->
                           [id |-> 0, h |-> 0, v |-> 0, q |-> 0, dc |-> 0, ac |-> 0]]
                  ELSE @]

SofComponent(s, k, old) ==
    [old EXCEPT !.id = ByteField(s, k, @), !.q = ByteField(s, k + 2, @),
                !.h = IF Arrived(s, k + 1) THEN Byte(s, k + 1) \div 16 ELSE @,
                !.v = IF Arrived(s, k + 1) THEN Byte(s, k + 1) % 16 ELSE @]
SofWithComps(c, s) ==
    [c EXCEPT !.comps = [i \in DOMAIN @ |-> SofComponent(s, SofLength + 3 * i - 2, @[i])]]

get_sof(c, s, saw_SOF) ==
    IF ~Arrived(s, SofLength) THEN Suspend(SofFields(c, s))
    ELSE IF \/ saw_SOF \/ TwoByte(s, 4) = 0 \/ TwoByte(s, 6) = 0 \/ SofComps(s) = 0
            \/ TwoByte(s, 1) - 8 # 3 * SofComps(s)
         THEN Error(SofFields(c, s))
    ELSE IF Arrived(s, SofLength + 3 * SofComps(s))
         THEN Done(SofWithComps(SofHeader(c, s), s), SofLength + 3 * SofComps(s))
         ELSE Suspend(SofWithComps(SofHeader(c, s), s))

----------------------------------------------------------------------------
(* get_sos.  Here too every field is set as its bytes come up: the number  *)
(* of components, each of them with its table numbers, and the parameters. *)

SosComps(s) == Byte(s, 3)
SosId(s, i) == Byte(s, 2 + 2 * i)
SosEnd(s) == 3 + 2 * SosComps(s) + 3

KnownId(c, id) == \E i \in 1..c.num_components : c.comps[i].id = id
SosSpecs(s) == {i \in 1..SosComps(s) : Arrived(s, 3 + 2 * i)}
BadSpec(c, s, i) == ~KnownId(c, SosId(s, i)) \/ \E j \in 1..i - 1 : SosId(s, j) = SosId(s, i)

\* The specifications taken: the loop ends behind the first bad one, which is taken
\* itself if its component is known.
SosTaken(c, s) ==
    {i \in SosSpecs(s) : KnownId(c, SosId(s, i)) /\ \A j \in 1..i - 1 : ~BadSpec(c, s, j)}
TakenFor(c, s, k) == {i \in SosTaken(c, s) : Index(c, SosId(s, i)) = k}

SosTables(c, s) ==
    [k \in DOMAIN c.comps |->
        IF TakenFor(c, s, k) = {} THEN c.comps[k]
        ELSE [c.comps[k] EXCEPT !.dc = Byte(s, 3 + 2 * Max(TakenFor(c, s, k))) \div 16,
                                !.ac = Byte(s, 3 + 2 * Max(TakenFor(c, s, k))) % 16]]

SosHeader(c, s) ==
    [c.scan EXCEPT
        !.comps_in_scan = SosComps(s),
        !.cur_comp_info = [i \in 1..MAX_COMPS_IN_SCAN |->
            IF i \in SosTaken(c, s) THEN Index(c, SosId(s, i)) ELSE @[i]]]
SosParameters(scan, s) ==
    [scan EXCEPT !.Ss = ByteField(s, SosEnd(s) - 2, @), !.Se = ByteField(s, SosEnd(s) - 1, @),
                 !.Ah = IF Arrived(s, SosEnd(s)) THEN Byte(s, SosEnd(s)) \div 16 ELSE @,
                 !.Al = IF Arrived(s, SosEnd(s)) THEN Byte(s, SosEnd(s)) % 16 ELSE @]

SosSpecified(c, s) == [c EXCEPT !.comps = SosTables(c, s), !.scan = SosHeader(c, s)]
SosFields(c, s) == [SosSpecified(c, s) EXCEPT !.scan = SosParameters(@, s)]

\* Mutant of SosWhenSuspended: the scan is counted before it is all there.
CountedEarly(c, s) == [SosFields(c, s) EXCEPT !.input_scan_number = @ + 1]
SosWhenSuspended(c, s) == SosFields(c, s)

get_sos(c, s, saw_SOF) ==
    IF ~saw_SOF THEN Error(c)
    ELSE IF ~Arrived(s, 3) THEN Suspend(c)
    ELSE IF TwoByte(s, 1) # 2 * SosComps(s) + 6 \/ SosComps(s) \notin 1..MAX_COMPS_IN_SCAN
         THEN Error(c)
    ELSE IF \E i \in SosSpecs(s) : BadSpec(c, s, i) THEN Error(SosSpecified(c, s))
    ELSE IF Arrived(s, SosEnd(s))
         THEN Done([SosFields(c, s) EXCEPT !.input_scan_number = @ + 1], SosEnd(s))
         ELSE Suspend(SosWhenSuspended(c, s))

----------------------------------------------------------------------------
(* get_dht: one table after the other; a table that has not all arrived is *)
(* not stored.                                                             *)

HuffBits(s, k) == [i \in 1..HuffLengths |-> Byte(s, k + 1 + i)]
HuffCount(s, k) == FoldLeft(LAMBDA a, b : a + b, 0, HuffBits(s, k))
HuffTable(s, k) ==
    [bits |-> HuffBits(s, k),
     vals |-> [i \in 1..HuffCount(s, k) |-> Byte(s, k + 1 + HuffLengths + i)]]

BadHuffIndex(s, k) == Byte(s, k + 1) \notin TableSlots \cup {n + 16 : n \in TableSlots}
HuffSize(s, k) == 1 + HuffLengths + HuffCount(s, k)

\* The loop r has the tables so far, k bytes read and length left; st is "more"
\* while it goes on.
StoredHuff(s, r) ==
    IF Byte(s, r.k + 1) >= 16 THEN [r EXCEPT !.ac[Byte(s, r.k + 1) - 16] = HuffTable(s, r.k)]
    ELSE [r EXCEPT !.dc[Byte(s, r.k + 1)] = HuffTable(s, r.k)]

DhtTurn(s, r) ==
    IF r.st # "more" THEN r
    ELSE IF r.length <= HuffLengths THEN [r EXCEPT !.st = IF r.length = 0 THEN "done" ELSE "error"]
    ELSE IF ~Arrived(s, r.k + 1 + HuffLengths) THEN [r EXCEPT !.st = "suspend"]
    ELSE IF HuffCount(s, r.k) > 256 \/ HuffSize(s, r.k) > r.length
    THEN [r EXCEPT !.st = "error"]
    ELSE IF ~Arrived(s, r.k + HuffSize(s, r.k)) THEN [r EXCEPT !.st = "suspend"]
    ELSE IF BadHuffIndex(s, r.k) THEN [r EXCEPT !.st = "error"]
    ELSE [StoredHuff(s, r) EXCEPT !.k = @ + HuffSize(s, r.k), !.length = @ - HuffSize(s, r.k)]

\* Every table takes so much of the length, the last maybe more than is left; one
\* turn more ends the loop.
MostTurns(r, least) == AtLeast(r.length, 0) \div least + 2
DhtLoop(s, r) ==
    LET after[n \in 0..MostTurns(r, HuffLengths + 1)] ==
            IF n = 0 THEN r ELSE CHOOSE t \in {DhtTurn(s, q) : q \in {after[n - 1]}} : TRUE
    IN  after[MostTurns(r, HuffLengths + 1)]

\* What a loop that ended as r says of c: a length of 0 is left when it is done.
Ended(r, c, s) ==
    IF r.st = "done" THEN Done(c, TwoByte(s, 1))
    ELSE IF r.st = "error" THEN Error(c) ELSE Suspend(c)

get_dht(c, s) ==
    IF ~Arrived(s, 2) THEN Suspend(c)
    ELSE LET r == DhtLoop(s, [st |-> "more", dc |-> c.dc, ac |-> c.ac, k |-> 2,
                              length |-> TwoByte(s, 1) - 2])
         IN  Ended(r, [c EXCEPT !.dc = r.dc, !.ac = r.ac], s)

----------------------------------------------------------------------------
(* get_dqt: the values are stored one by one, into the table in use.       *)

Precision(s, k) == IF Byte(s, k + 1) \div 16 # 0 THEN 2 ELSE 1
QuantIndex(s, k) == Byte(s, k + 1) % 16
QuantValue(s, k, i) ==
    IF Precision(s, k) = 2 THEN TwoByte(s, k + 2 * i) ELSE Byte(s, k + 1 + i)
ValueArrived(s, k, i) == Arrived(s, k + 1 + i * Precision(s, k))
ByteSize(s, k) == 1 + QuantSize * Precision(s, k)

StoredQuant(s, r) ==
    [r EXCEPT !.quant[QuantIndex(s, r.k)] =
        [i \in 1..QuantSize |-> IF ValueArrived(s, r.k, i) THEN QuantValue(s, r.k, i)
                                ELSE IF @ = NoTable THEN 0 ELSE @[i]]]

DqtTurn(s, r) ==
    IF r.st # "more" THEN r
    ELSE IF r.length <= 0 THEN [r EXCEPT !.st = IF r.length = 0 THEN "done" ELSE "error"]
    ELSE IF ~Arrived(s, r.k + 1) THEN [r EXCEPT !.st = "suspend"]
    ELSE IF QuantIndex(s, r.k) >= NUM_TBLS THEN [r EXCEPT !.st = "error"]
    ELSE IF ~ValueArrived(s, r.k, QuantSize) THEN [StoredQuant(s, r) EXCEPT !.st = "suspend"]
    ELSE [StoredQuant(s, r) EXCEPT !.k = @ + ByteSize(s, r.k), !.length = @ - ByteSize(s, r.k)]

DqtLoop(s, r) ==
    LET after[n \in 0..MostTurns(r, QuantSize + 1)] ==
            IF n = 0 THEN r ELSE CHOOSE t \in {DqtTurn(s, q) : q \in {after[n - 1]}} : TRUE
    IN  after[MostTurns(r, QuantSize + 1)]

get_dqt(c, s) ==
    IF ~Arrived(s, 2) THEN Suspend(c)
    ELSE LET r == DqtLoop(s, [st |-> "more", quant |-> c.quant, k |-> 2,
                              length |-> TwoByte(s, 1) - 2])
         IN  Ended(r, [c EXCEPT !.quant = r.quant], s)

get_dri(c, s) ==
    IF ~Arrived(s, 2) THEN Suspend(c)
    ELSE IF TwoByte(s, 1) # 4 THEN Error(c)
    ELSE IF Arrived(s, 4) THEN Done([c EXCEPT !.restart_interval = TwoByte(s, 3)], 4)
    ELSE Suspend(c)

----------------------------------------------------------------------------
(* APPn and COM.                                                           *)

examine_app0(c, bytes) ==
    IF Len(bytes) >= APP0_DATA_LEN /\ bytes[1] = JFIF_ID
    THEN [c EXCEPT !.JFIF = [saw |-> TRUE, version |-> bytes[2], density |-> bytes[3]]] ELSE c
examine_app14(c, bytes) ==
    IF Len(bytes) >= APP14_DATA_LEN /\ bytes[1] = Adobe_ID
    THEN [c EXCEPT !.Adobe = [saw |-> TRUE, transform |-> bytes[2]]] ELSE c
Examined(c, m, bytes) ==
    IF m = APP(0) THEN examine_app0(c, bytes)
    ELSE IF m = APP(14) THEN examine_app14(c, bytes) ELSE c

BytesFrom(s, k, n) == [i \in 1..n |-> Byte(s, k + i)]

\* A length word below 2 leaves nothing to skip.
skip_variable(c, s) ==
    IF Arrived(s, 2) THEN Done(c, 2 + AtLeast(TwoByte(s, 1) - 2, 0)) ELSE Suspend(c)

APPN_DATA_LEN == AtLeast(APP0_DATA_LEN, APP14_DATA_LEN)
Interesting(s) == AtLeast(AtMost(TwoByte(s, 1) - 2, APPN_DATA_LEN), 0)

get_interesting_appn(c, s) ==
    IF Arrived(s, 2) /\ Arrived(s, 2 + Interesting(s))
    THEN Done(Examined(c, s.unread_marker, BytesFrom(s, 2, Interesting(s))),
              2 + AtLeast(TwoByte(s, 1) - 2, 0))
    ELSE Suspend(c)

----------------------------------------------------------------------------
(* save_marker.  cur_marker is the item being read, with its data so far.  *)

NoMarker == << >>

\* Mutant of SaveLength: the limit, for a marker shorter than it.
AlwaysTheLimit(length, limit) == limit
SaveLength(length, limit) == AtMost(length, limit)

Begun(s) == TwoByte(s, 1) - 2
NewItem(s) ==
    [marker |-> s.unread_marker, original_length |-> Begun(s),
     data_length |-> SaveLength(Begun(s), limits[s.unread_marker]), data |-> << >>]

\* Mutant of KeepsBytes: nothing is taken before all of it has arrived.
TakesNone(n, wanted) == IF n < wanted THEN 0 ELSE n
KeepsBytes(n, wanted) == n

\* The item with all the bytes that are there, and how many these are.
Wanted(s, k, item) ==
    KeepsBytes(AtMost(item.data_length - Len(item.data), AtLeast(s.avail - s.pos - k, 0)),
               item.data_length - Len(item.data))
Filled(s, k, item) == [item EXCEPT !.data = @ \o BytesFrom(s, k, Wanted(s, k, item))]

Linked(c, item) ==
    Examined([c EXCEPT !.marker_list = Append(@,
                [marker |-> item.marker, original_length |-> item.original_length,
                 data |-> item.data])],
             item.marker, item.data)

----------------------------------------------------------------------------
(* One marker.                                                             *)

Init ==
    /\ \E f \in Files :
        /\ files = Tail(f) /\ segs = f[1].segs
        /\ data = StreamBytes(f[1].segs)
        /\ ends = [i \in 1..Len(f[1].segs) |-> End(f[1].segs, i)]
        /\ src = [pos |-> 0, avail |-> IF f[1].whole THEN Len(data) ELSE 0,
                  unread_marker |-> 0, discarded_bytes |-> 0, next_restart_num |-> 0, ok |-> TRUE]
    /\ cinfo = NewObject /\ start = [n |-> 0, c |-> NewObject]
    /\ marker = [saw_SOI |-> FALSE, saw_SOF |-> FALSE, cur_marker |-> NoMarker,
                 current_sos_marker_position |-> 0]
    /\ limits = [m \in MiscMarkers |-> -1]
    /\ ret = "none" /\ index = NoIndex /\ from = 0 /\ saves = 0

Reading == ret \in {"none", "SUSPENDED"}

\* first_marker: "we do not allow preceding garbage or fill".
first_marker(s) ==
    IF ~Arrived(s, 2) THEN [s EXCEPT !.ok = FALSE]
    ELSE IF Byte(s, 1) = FillByte /\ Byte(s, 2) = SOIMarker
    THEN [s EXCEPT !.pos = @ + 2, !.unread_marker = SOIMarker]
    ELSE s

Found(s) ==
    IF s.unread_marker # 0 THEN [s EXCEPT !.ok = TRUE]
    ELSE IF marker.saw_SOI THEN next_marker(data, [s EXCEPT !.ok = TRUE])
    ELSE first_marker([s EXCEPT !.ok = TRUE])

\* "Save the position of the first marker after SOF."
Position(s) == s.pos - 2
SosPosition(s) ==
    IF marker.current_sos_marker_position = -1 THEN Position(s)
    ELSE marker.current_sos_marker_position

IsSOF(m) == m \in {SOF0, SOF1, SOF2}
Parameterless(m) == IsRST(m) \/ IsTEM(m)

\* progressive_mode is set before anything has been read.
SofStarted(c, m) == [c EXCEPT !.progressive = (m = SOF2)]

Processor(m) ==
    IF limits[m] >= 0 THEN "save"
    ELSE IF m \in {APP(0), APP(14)} THEN "interesting" ELSE "skip"

\* Everything but save_marker.
Processed(c, s) ==
    CASE s.unread_marker = SOIMarker ->
            IF marker.saw_SOI THEN Error(c) ELSE Done(AfterSOI(c), 0)
      [] IsSOF(s.unread_marker) -> get_sof(SofStarted(c, s.unread_marker), s, marker.saw_SOF)
      [] s.unread_marker = SOS -> get_sos(c, s, marker.saw_SOF)
      [] s.unread_marker = DHT -> get_dht(c, s)
      [] s.unread_marker = DQT -> get_dqt(c, s)
      [] s.unread_marker = DRI -> get_dri(c, s)
      [] s.unread_marker = DNL -> skip_variable(c, s)
      [] s.unread_marker \in MiscMarkers ->
            IF Processor(s.unread_marker) = "skip" THEN skip_variable(c, s)
            ELSE get_interesting_appn(c, s)
      [] s.unread_marker = EOIMarker \/ Parameterless(s.unread_marker) -> Done(c, 0)
      [] OTHER -> Error(c)

IsSaved(s) == s.unread_marker \in MiscMarkers /\ Processor(s.unread_marker) = "save"

Returned(m) == IF m = SOS THEN "SOS" ELSE IF m = EOIMarker THEN "EOI" ELSE "none"

\* Mutant of SeesFrame: the frame counts as seen from its first byte.
SeesAtOnce(s, st) == marker.saw_SOF \/ IsSOF(s.unread_marker)
SeesFrame(s, st) == marker.saw_SOF \/ (IsSOF(s.unread_marker) /\ st = "done")

\* The position is forgotten whenever the SOF2 marker comes up.
Outcome(s, r) ==
    /\ cinfo' = r.c
    /\ marker' = [marker EXCEPT
            !.saw_SOI = @ \/ (s.unread_marker = SOIMarker /\ r.st = "done"),
            !.saw_SOF = SeesFrame(s, r.st),
            !.current_sos_marker_position = IF s.unread_marker = SOF2 THEN -1 ELSE SosPosition(s)]
    /\ src' = IF r.st = "done"
              THEN [s EXCEPT !.pos = @ + r.used, !.unread_marker = 0,
                             !.next_restart_num = IF s.unread_marker = SOS THEN 0 ELSE @]
              ELSE s
    /\ from' = IF r.st = "done" THEN s.pos + r.used ELSE from
    /\ ret' = CASE r.st = "done" -> Returned(s.unread_marker)
                [] r.st = "suspend" -> "SUSPENDED"
                [] r.st = "error" -> "ERROR"
    /\ UNCHANGED << fileState, limits, index, saves >>

NoMarkerYet(s) ==
    /\ ~s.ok
    /\ src' = s /\ ret' = "SUSPENDED"
    /\ UNCHANGED << fileState, cinfo, marker, limits, index, from, saves >>

NoSOI(s) ==
    /\ s.ok /\ s.unread_marker = 0
    /\ ret' = "ERROR"
    /\ UNCHANGED << fileState, src, cinfo, marker, limits, index, from, saves >>

ProcessMarker(s) ==
    /\ s.ok /\ s.unread_marker # 0 /\ ~IsSaved(s)
    /\ \E r \in {Processed(cinfo, s)} : Outcome(s, r)

\* save_marker: begin an item or go on with it.  k bytes of the length word are
\* in front of the data.
SaveFrom(s, k, item) ==
    IF Wanted(s, k, item) = item.data_length - Len(item.data)
    THEN /\ cinfo' = Linked(cinfo, Filled(s, k, item))
         /\ src' = [s EXCEPT !.unread_marker = 0,
                       !.pos = @ + k + Wanted(s, k, item) + item.original_length - item.data_length]
         /\ from' = src'.pos
         /\ marker' = [marker EXCEPT !.cur_marker = NoMarker,
                                     !.current_sos_marker_position = SosPosition(s)]
         /\ ret' = "none"
    ELSE /\ src' = [s EXCEPT !.pos = @ + k + Wanted(s, k, item)]
         /\ marker' = [marker EXCEPT !.cur_marker = Filled(s, k, item),
                                     !.current_sos_marker_position = SosPosition(s)]
         /\ ret' = "SUSPENDED"
         /\ UNCHANGED << cinfo, from >>

save_marker(s) ==
    /\ s.ok /\ s.unread_marker # 0 /\ IsSaved(s)
    /\ IF marker.cur_marker # NoMarker
       THEN SaveFrom(s, 0, marker.cur_marker)
            /\ UNCHANGED << fileState, limits, index, saves >>
       ELSE IF ~Arrived(s, 2) THEN Outcome(s, Suspend(cinfo))
       ELSE IF Begun(s) < 0
            THEN Outcome(s, Done(Examined(cinfo, s.unread_marker, << >>), 2))
       ELSE SaveFrom(s, 2, NewItem(s))
            /\ UNCHANGED << fileState, limits, index, saves >>

\* read_markers, one turn of its loop.
read_markers ==
    /\ Reading
    /\ \E s \in {Found(src)} : NoMarkerYet(s) \/ NoSOI(s) \/ ProcessMarker(s) \/ save_marker(s)

----------------------------------------------------------------------------
(* Around the marker reader: the source, the application, and the entropy  *)
(* decoder, which takes the data of a scan and may meet the marker behind  *)
(* it before read_markers does.                                            *)

\* A byte arrives; a larger piece is several of them before the next call.
fill_input_buffer ==
    /\ src.avail < Len(data) /\ src.avail - src.pos < BufferSize
    /\ src' = [src EXCEPT !.avail = @ + 1]
    /\ ret # "ERROR"
    /\ UNCHANGED << fileState, cinfo, marker, limits, ret, index, from, saves >>

\* Segments that end at pos or before (history).
Count(pos) == Cardinality({i \in 1..Len(segs) : ends[i] <= pos})

\* An application chooses before it reads, or at the end of the header.
Choosing ==
    src.unread_marker = 0 /\ (ret = "SOS" \/ (src.pos = 0 /\ src.avail = 0 /\ ret = "none"))

\* "If saving APP0/APP14, save at least enough for our internal use."
SavedLimit(m, length_limit) ==
    IF length_limit = 0 THEN -1
    ELSE IF m = APP(0) THEN AtLeast(length_limit, APP0_DATA_LEN)
    ELSE IF m = APP(14) THEN AtLeast(length_limit, APP14_DATA_LEN)
    ELSE length_limit

jpeg_save_markers(m, length_limit) ==
    /\ Choosing /\ saves < MaxSaves
    /\ limits' = [limits EXCEPT ![m] = SavedLimit(m, length_limit)]
    /\ limits' # limits
    /\ saves' = saves + 1
    /\ start' = [n |-> Count(src.pos), c |-> cinfo]
    /\ UNCHANGED << files, segs, data, ends, src, cinfo, marker, ret, index, from >>

\* The data of the scan from here on: the RAW segment behind the header, if any.
Segment(pos) == Min({i \in 1..Len(segs) : ends[i] > pos})
InData == src.pos < Len(data) /\ segs[Segment(src.pos)].t = "RAW"
Unit == IF Byte(src, 1) = FillByte THEN 2 ELSE 1

DecodeBytes ==
    /\ ret = "SOS" /\ index = NoIndex /\ src.unread_marker = 0
    /\ InData /\ Arrived(src, Unit)
    /\ src' = [src EXCEPT !.pos = @ + Unit] /\ from' = src.pos + Unit
    /\ UNCHANGED << fileState, cinfo, marker, limits, ret, index, saves >>

MeetMarker ==
    /\ ret = "SOS" /\ index = NoIndex /\ src.unread_marker = 0
    /\ ~InData /\ Arrived(src, 2)
    /\ src' = [src EXCEPT !.pos = @ + 2, !.unread_marker = Byte(src, 2)]
    /\ UNCHANGED << fileState, cinfo, marker, limits, ret, index, from, saves >>

\* finish_input_pass: on to the markers, whatever data is left.
finish_input_pass ==
    /\ ret = "SOS" /\ index = NoIndex
    /\ ret' = "none"
    /\ UNCHANGED << fileState, src, cinfo, marker, limits, index, from, saves >>

\* get_sos_marker_position: the position of each scan, found by skipping its data
\* "to the next non-RST JPEG marker".  read_markers then goes on from there.
\* Mutant of SkipScan: RST markers end the scan.
ToNextMarker(s) == next_marker(data, s)
\* The RST markers before any other.
Restarts(s) ==
    {i \in MarkerCodes(data, s) : \A j \in MarkerCodes(data, s) : j <= i => IsRST(data[j])}
SkipScan(s) ==
    next_marker(data, IF Restarts(s) = {} THEN s ELSE Met(data, s, Max(Restarts(s))))

get_sos_marker_position ==
    /\ ret = "SOS" /\ src.avail = Len(data) /\ src.pos < src.avail
    /\ cinfo.progressive /\ src.unread_marker = 0
    /\ index = NoIndex => /\ cinfo.input_scan_number = 1
                         /\ \E i \in 1..Len(segs) : segs[i].t = "SOS" /\ ends[i] = src.pos
    /\ index' = Append(IF index = NoIndex THEN << >> ELSE index,
                       marker.current_sos_marker_position)
    /\ src' = SkipScan(src)
    /\ marker' = [marker EXCEPT !.current_sos_marker_position = SkipScan(src).pos - 2]
    /\ ret' = "none" /\ from' = SkipScan(src).pos
    /\ UNCHANGED << fileState, cinfo, limits, saves >>

\* jpeg_abort and the next datastream.  The tables, the limits and the position of
\* the scan header stay as they are; marker_list goes with the image pool.
ResetCinfo(c) == [c EXCEPT !.comps = << >>, !.input_scan_number = 0, !.marker_list = << >>]

\* Mutant of ResetDiscards: the count is not reset.
DiscardsKept(s) == s.discarded_bytes
ResetDiscards(s) == 0

reset_marker_reader ==
    /\ files # << >>
    /\ files' = Tail(files) /\ segs' = Head(files).segs
    /\ data' = StreamBytes(segs')
    /\ ends' = [i \in 1..Len(segs') |-> End(segs', i)]
    /\ src' = [src EXCEPT !.pos = 0, !.avail = IF Head(files).whole THEN Len(data') ELSE 0,
                          !.unread_marker = 0, !.discarded_bytes = ResetDiscards(src)]
    /\ cinfo' = ResetCinfo(cinfo) /\ start' = [n |-> 0, c |-> ResetCinfo(cinfo)]
    /\ marker' = [marker EXCEPT !.saw_SOI = FALSE, !.saw_SOF = FALSE, !.cur_marker = NoMarker]
    /\ ret' = "none" /\ index' = NoIndex /\ from' = 0
    /\ UNCHANGED << limits, saves >>

Next ==
    \/ fill_input_buffer
    \/ read_markers
    \/ \E m \in MiscMarkers, n \in Limits : jpeg_save_markers(m, n)
    \/ DecodeBytes \/ MeetMarker \/ finish_input_pass
    \/ get_sos_marker_position
    \/ reset_marker_reader

Spec == Init /\ [][Next]_vars

----------------------------------------------------------------------------
(* Properties.                                                             *)

TypeOK ==
    /\ src.unread_marker \in 0..255 /\ src.discarded_bytes \in 0..Len(data)
    /\ src.avail \in 0..Len(data) /\ src.pos \in 0..Len(data)
    /\ ret \in {"none", "SUSPENDED", "SOS", "EOI", "ERROR"}
    /\ limits \in [MiscMarkers -> {-1} \cup Limits \cup {APP0_DATA_LEN, APP14_DATA_LEN}]
    /\ \A i \in 1..Len(cinfo.marker_list) :
        Len(cinfo.marker_list[i].data) <= cinfo.marker_list[i].original_length
    /\ marker.cur_marker # NoMarker =>
        /\ src.unread_marker = marker.cur_marker.marker
        /\ Len(marker.cur_marker.data) < marker.cur_marker.data_length
        /\ marker.cur_marker.data_length <= marker.cur_marker.original_length

\* However the datastream was cut into pieces and whatever the routines had
\* changed when they suspended: between two markers the object holds what the
\* segments read so far mean, each applied once and none that must be refused.
Between == src.unread_marker = 0 /\ ret # "ERROR"

SegmentsApplied ==
    Between => /\ cinfo = Ideal(segs, start.n + 1, Count(src.pos), start.c, limits)
               /\ Count(src.pos) > start.n =>
                     ~RefusedAt(segs, start.n + 1, Count(src.pos), start.c, limits)

\* An error is raised only at a segment that must be refused, never because part
\* of a good one was read twice.
ErrorIsDue ==
    ret = "ERROR" => RefusedAt(segs, start.n + 1, Count(src.pos - 1) + 1, start.c, limits)

\* The bytes passed over in the search for a marker are counted once each, however
\* often the search is suspended, and nothing of an earlier search or file.
DiscardsCounted == Between => src.discarded_bytes = src.pos - from

\* Reading a datastream in pieces, with every routine begun again as often as the
\* source runs dry, comes to the same as reading it in one go: the same tables,
\* frame, scans and saved markers, the same errors, the same count of garbage.
ReadIsIdeal == TypeOK /\ SegmentsApplied /\ ErrorIsDue /\ DiscardsCounted

\* The positions the Huffman index gets for the scans of a progressive file, and
\* the one it would get next, are those of the first marker after the frame
\* header and after the data of each scan.
ScanHeaders == {i \in 1..Len(segs) : segs[i].t = "SOS"}
AfterScan(k) ==
    IF k = 1 THEN Min({i \in 1..Len(segs) : segs[i].t = "SOF"})
    ELSE CHOOSE i \in ScanHeaders : Cardinality({j \in ScanHeaders : j < i}) = k - 2
HeaderOf(k) ==
    ends[Min({i \in AfterScan(k) + 1..Len(segs) : segs[i].t # "RAW"}) - 1]

Known == (IF index = NoIndex THEN << >> ELSE index)
         \o (IF ret = "SOS" THEN << marker.current_sos_marker_position >> ELSE << >>)
ScanPositionsRight ==
    /\ cinfo.progressive
    /\ \/ ret = "SOS" /\ cinfo.input_scan_number = 1
       \/ ret \in {"SOS", "EOI"} /\ index # NoIndex
    => Known = [k \in 1..cinfo.input_scan_number |-> HeaderOf(k)]
=============================================================================
