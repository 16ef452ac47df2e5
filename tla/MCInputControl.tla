--------------------------- MODULE MCInputControl ---------------------------
(***************************************************************************)
(* Instances of InputControl for TLC.  Huffman tables have two code        *)
(* lengths and quantization tables two values; the source holds 14 bytes,  *)
(* just enough for a frame header of two components.                       *)
(***************************************************************************)
EXTENDS InputControl

SOI == [t |-> "BARE", m |-> SOIMarker]
EOI == [t |-> "BARE", m |-> EOIMarker]
TEM == [t |-> "BARE", m |-> 1]
Raw(bytes) == [t |-> "RAW", bytes |-> bytes]
Misc(m, bytes) == [t |-> "MISC", m |-> m, data |-> bytes]
Bogus(m, length) == [t |-> "BOGUS", m |-> m, length |-> length]
Bad(m, bytes) == [t |-> "BAD", m |-> m, data |-> bytes]
Dri(n) == [t |-> "DRI", m |-> DRI, interval |-> n]

Huff(n, ac, bits, vals) == [n |-> n, ac |-> ac, bits |-> bits, vals |-> vals]
Dht(tbls) == [t |-> "DHT", m |-> DHT, tbls |-> tbls]
Quant(n, wide, vals) == [n |-> n, wide |-> wide, vals |-> vals]
Dqt(tbls) == [t |-> "DQT", m |-> DQT, tbls |-> tbls]

\* The sampling factors and the table of a component go by its id.
Comp(id) ==
    CASE id = 1 -> [id |-> 1, h |-> 1, v |-> 2, q |-> 1]
      [] id = 2 -> [id |-> 2, h |-> 2, v |-> 1, q |-> 1]
      [] id = 3 -> [id |-> 3, h |-> 4, v |-> 3, q |-> 0]
      [] id = 4 -> [id |-> 4, h |-> 5, v |-> 1, q |-> 0]
      [] id = 5 -> [id |-> 5, h |-> 1, v |-> 1, q |-> 3]
      [] id = 6 -> [id |-> 6, h |-> 3, v |-> 2, q |-> 0]
      [] id = 7 -> [id |-> 7, h |-> 2, v |-> 2, q |-> 0]
      [] id \in 8..10 -> [id |-> id, h |-> 1, v |-> 1, q |-> 1]
      [] id = 11 -> [id |-> 11, h |-> 4, v |-> 2, q |-> 0]
Frame(m, precision, height, width, ids) ==
    [t |-> "SOF", m |-> m, precision |-> precision, height |-> height, width |-> width,
     comps |-> [i \in 1..Len(ids) |-> Comp(ids[i])]]
Sof(m, ids) == Frame(m, 8, 5, 258, ids)
Sos(ids) == [t |-> "SOS", m |-> SOS, Ss |-> 0, Se |-> 1, Ah |-> 0, Al |-> 1,
             comps |-> [i \in 1..Len(ids) |-> [id |-> ids[i], dc |-> i % 2, ac |-> 1]]]

Jfif == Misc(APP(0), << JFIF_ID, 1, 2, 9, 9 >>)
Adobe == Misc(APP(14), << Adobe_ID, 2 >>)
LongComment == Misc(COM, [i \in 1..17 |-> i])
Tables == Dqt(<< Quant(0, FALSE, << 3, 4 >>), Quant(1, TRUE, << 5, 260 >>) >>)
Codes == Dht(<< Huff(0, FALSE, << 1, 1 >>, << 6, 7 >>), Huff(1, TRUE, << 0, 1 >>, << 8 >>) >>)
Entropy == Raw(<< 7, 255, 0, 255, 208, 3 >>)

Baseline ==
    << SOI, Jfif, Adobe, Tables, Sof(SOF0, << 1, 2 >>), Codes, Dri(2), LongComment,
       Sos(<< 1, 2 >>), Entropy, EOI >>
Scans ==
    << SOI, Sof(SOF2, << 1 >>), Raw(<< 9, 255 >>), Tables, Codes, Sos(<< 1 >>), Entropy, Dri(258),
       Misc(COM, << 1, 2 >>), Sos(<< 1 >>), Entropy, EOI >>
\* Redefined tables, garbage, pad bytes, and markers without meaning.
TablesOnly ==
    << SOI, Raw(<< 1, 255, 0, 255 >>), Tables, Raw(<< 2 >>), Bogus(COM, 1), Bogus(DNL, 0), TEM,
       Misc(APP(0), << JFIF_ID, 1 >>), Misc(APP(14), << 1, 2, 3 >>), Misc(APP(1), << >>),
       Dqt(<< Quant(1, FALSE, << 1, 1 >>), Quant(1, FALSE, << 2, 2 >>) >>), EOI >>
\* A scan per component, with the table of the first redefined for the second.
Redefined ==
    << SOI, Sof(SOF1, << 1, 2 >>), Tables, Sos(<< 1 >>), Raw(<< 1 >>),
       Dqt(<< Quant(1, FALSE, << 9, 9 >>) >>), Sos(<< 2 >>), Raw(<< 2 >>), Sos(<< 1, 2 >>), EOI >>
\* A second frame header between the scans, of another size and number of components.
SecondFrame ==
    << SOI, Tables, Sof(SOF1, << 1, 2 >>), Sos(<< 1 >>), Raw(<< 1 >>),
       Frame(SOF0, 8, 300, 600, << 1, 2, 3 >>), Sos(<< 2 >>), EOI >>
Tiny == << SOI, Tables, Frame(SOF1, 8, 17, 24, << 3 >>), Sos(<< 3 >>), Raw(<< 1 >>), EOI >>

\* Refused by the input controller.
NoTableYet == << SOI, Sof(SOF0, << 1 >>), Sos(<< 1 >>), Raw(<< 1 >>), EOI >>
SetUps ==
    { << SOI, Tables, Sof(SOF0, << 1, 3 >>), Sos(<< 1, 3 >>), EOI >>,
      << SOI, Tables, Sof(SOF0, << 4 >>), Sos(<< 4 >>), EOI >>,
      << SOI, Tables, Sof(SOF0, << 5 >>), Sos(<< 5 >>), EOI >>,
      << SOI, Tables, Frame(SOF0, 12, 5, 5, << 1 >>), Sos(<< 1 >>), EOI >>,
      << SOI, Tables, Frame(SOF0, 8, 5, 65501, << 1 >>), Sos(<< 1 >>), EOI >>,
      << SOI, Sof(SOF0, << 1 >>), EOI >>,
      << SOI, Tables, Sof(SOF0, << 1, 2 >>), Sos(<< 1, 2 >>), Sos(<< 1, 2 >>), EOI >>,
      << SOI, Tables, Sof(SOF0, << 1, 2, 3, 5, 6 >>), Sos(<< 1 >>), EOI >>,
      NoTableYet }

\* Images of two and three components, of every size of the last MCU, and of one
\* and four, with and without the markers that tell the color space.
Shapes ==
    { << SOI, Tables, Frame(SOF0, 8, size[1], size[2], ids), Sos(ids), EOI >> :
        size \in {<< 16, 8 >>, << 17, 17 >>, << 41, 48 >>, << 9, 5 >>, << 16, 70 >>},
        ids \in {<< 1, 2 >>, << 6, 2 >>, << 7, 8, 9 >>, << 2, 8, 9 >>, << 11, 8, 9 >>} }
Transform(n) == Misc(APP(14), << Adobe_ID, n >>)
Colors ==
    { << SOI, Tables, m, Frame(SOF0, 8, 9, 9, ids), Sos(ids), EOI >> :
        m \in {TEM, Jfif, Transform(0), Transform(2)},
        ids \in {<< 2 >>, << 7, 8, 9 >>, << 1, 8, 9, 10 >>} }
\* A component of a third of the width, which at 1/2 cannot be upsampled.
Thirds == << SOI, Tables, Frame(SOF0, 8, 48, 48, << 6, 8, 9 >>), Sos(<< 6, 8, 9 >>), EOI >>

Request(scale, space, fancy) ==
    [scale_num |-> 1, scale_denom |-> scale, out_color_space |-> space,
     do_fancy_upsampling |-> fancy]
MCRequests ==
    {Request(scale, "guess", fancy) : scale \in {1, 2, 4, 8}, fancy \in BOOLEAN}
    \cup {Request(scale, "GRAYSCALE", TRUE) : scale \in {1, 4}}
Refusals ==
    { << Raw(<< 255 >>), SOI, EOI >>, << SOI, SOI, EOI >>, << SOI, Sos(<< 1 >>), EOI >>,
      << SOI, Sof(SOF0, << 1, 2 >>), Sos(<< 1, 3 >>), EOI >>,
      << SOI, Sof(SOF0, << 1, 2 >>), Sos(<< 2, 2 >>), EOI >>,
      << SOI, Sof(SOF0, << 1, 2 >>), Frame(SOF2, 12, 300, 5, << 3 >>), EOI >>,
      << SOI, Sof(SOF0, << >>), EOI >>,
      << SOI, Bad(SOF0, << 8, 0, 1, 0, 1, 2, 1, 17, 0 >>), EOI >>,
      << SOI, Sof(SOF0, << 1 >>), Bad(SOS, << 1, 1, 0, 0, 1, 0, 0 >>), EOI >>,
      << SOI, Tables, Bad(DHT, << 0, 1, 3, 0, 0 >>), EOI >>,
      << SOI, Bad(DHT, << 2, 1, 0, 0 >>), EOI >>,
      << SOI, Bad(DHT, << 0, 1, 0, 9, 9 >>), EOI >>,
      << SOI, Tables, Bad(DQT, << 1, 7, 7, 2, 7, 7 >>), EOI >>,
      << SOI, Bad(DQT, << 0, 7, 7, 1 >>), EOI >>,
      << SOI, Bad(DRI, << 0, 0, 1 >>), EOI >>,
      << SOI, Bad(200, << >>), EOI >>, << SOI, Bad(DRI, << >>), EOI >>,
      << SOI, Bad(DHT, << 1 >>), EOI >> }

Pieces(file) == [segs |-> file, whole |-> FALSE]
Whole(file) == [segs |-> file, whole |-> TRUE]

MCFiles ==
    { << Pieces(Baseline) >>, << Pieces(TablesOnly), Pieces(Tiny) >>,
      << Pieces(Scans), Whole(Scans) >>, << Pieces(Redefined), Whole(Redefined) >>,
      << Pieces(NoTableYet), Pieces(TablesOnly), Pieces(NoTableYet) >>, << Pieces(Tiny), Pieces(Tiny) >>,
      << Pieces(SecondFrame), Pieces(TablesOnly) >>,
      << Whole(Scans), Whole(Tiny) >> }
    \cup { << Pieces(f), Pieces(Tiny) >> : f \in Refusals }
    \cup { << Whole(f), Whole(Tiny) >> : f \in SetUps } \cup { << Whole(f) >> : f \in Shapes \cup Colors \cup {Thirds} }
MCMiscMarkers == {APP(0), APP(1), APP(14), COM}
=============================================================================
