--------------------------- MODULE MCEntropyCodec ---------------------------
(* Small images of sparse blocks: interleaved and single components, fixed *)
(* and optimized tables, with and without restart markers, in one scan or  *)
(* in the four scans of a progressive file with one bit of refinement.     *)
EXTENDS EntropyCodec

Block(dc, ac) == [k \in 0 .. DCTSIZE2 - 1 |->
    IF k = 0 THEN dc ELSE IF k \in DOMAIN ac THEN ac[k] ELSE 0]
Dense(v) == [k \in 0 .. DCTSIZE2 - 1 |-> v]

AcSymbols == {0, 240} \cup {16 * r + s : r \in 0 .. 15, s \in 1 .. 3}
Flat(S, l) == [bits |-> [i \in 1 .. 16 |-> IF i = l THEN Cardinality(S) ELSE 0],
               huffval |-> InOrder([s \in S |-> s])]
FixedTables == [dc |-> Flat(0 .. 11, 5), ac |-> Flat(AcSymbols, 6)]

Sequential == <<[Ss |-> 0, Se |-> DCTSIZE2 - 1, Ah |-> 0, Al |-> 0]>>
TwoBits == <<[Ss |-> 0, Se |-> 0, Ah |-> 0, Al |-> 1],
             [Ss |-> 1, Se |-> DCTSIZE2 - 1, Ah |-> 0, Al |-> 1],
             [Ss |-> 0, Se |-> 0, Ah |-> 1, Al |-> 0],
             [Ss |-> 1, Se |-> DCTSIZE2 - 1, Ah |-> 1, Al |-> 0]>>

NoLoss == [kind |-> "none", first |-> 1, last |-> 0]
Loss(kind, a, b) == [kind |-> kind, first |-> a, last |-> b]

Base == [progressive |-> FALSE, optimize |-> FALSE, suspending |-> FALSE, tile |-> FALSE,
         restart_interval |-> 0, MCU_membership |-> <<1>>, mcus |-> <<>>,
         scans |-> Sequential, tables |-> FixedTables, loss |-> NoLoss]

b1 == Block(5, <<1, 0, -2>>)
b2 == Block(-3, [k \in {2, 19} |-> 1])           \* a run of 16 zeros
b3 == Block(-3, <<>>)
b4 == Block(31, [k \in {1, 5} |-> -3])           \* bytes FF
b5 == Block(2, [k \in 1 .. 19 |-> IF k = 7 THEN -1 ELSE 1])   \* no EOB
b6 == Block(0, [k \in {19} |-> -1])              \* two runs of 16, folded
b7 == Block(0, [k \in {1, 18} |-> 2 - k])

Interleaved == <<<<b1, b2, b3>>, <<b4, b3, b3>>, <<b2, b5, b1>>>>
Single      == <<<<b1>>, <<b3>>, <<b2>>, <<b4>>, <<b3>>, <<b5>>, <<b1>>, <<b6>>>>
Ones        == [m \in 1 .. 20 |-> <<Block(m % 3, <<1>>)>>]
TooLarge    == <<<<b1>>, <<Block(1, <<1024>>)>>>>

seq  == [Base EXCEPT !.mcus = Interleaved, !.MCU_membership = <<1, 1, 2>>]
rst  == [Base EXCEPT !.mcus = Single, !.restart_interval = 2]
many == [Base EXCEPT !.mcus = Ones, !.restart_interval = 1]

SequentialImages ==
    {[seq EXCEPT !.optimize = TRUE], [seq EXCEPT !.suspending = TRUE],
     [rst EXCEPT !.optimize = TRUE], [rst EXCEPT !.suspending = TRUE],
     [many EXCEPT !.optimize = TRUE],
     [Base EXCEPT !.mcus = TooLarge], [Base EXCEPT !.mcus = TooLarge, !.optimize = TRUE]}

DamagedImages ==
    {[rst EXCEPT !.loss = Loss(k, a, a)] : k \in {"drop", "repeat", "cut", "garble"},
                                           a \in {1, 2, 4}}
      \cup {[rst EXCEPT !.loss = Loss("drop", 2, 3)],
            [many EXCEPT !.loss = Loss("drop", 8, 9)],
            [many EXCEPT !.loss = Loss("repeat", 9, 9)]}

(* Refinement bits that fill the buffer to its last place, and runs of EOB *)
(* that reach their limit.                                                 *)
Refined(n) == <<Block(1, [k \in 1 .. n |-> 3])>>
Bits5  == <<<<b3>>, Refined(5), <<b5>>, Refined(6), Refined(19), Refined(19), <<b3>>>>
Runs   == <<<<b1>>, <<b3>>, <<b3>>, <<b3>>, <<b3>>, <<b2>>, <<b7>>, <<b4>>, <<b6>>, <<b3>>>>

prog == [Base EXCEPT !.progressive = TRUE, !.optimize = TRUE, !.scans = TwoBits]
ProgressiveImages ==
    {[prog EXCEPT !.mcus = Bits5], [prog EXCEPT !.mcus = Runs],
     [prog EXCEPT !.mcus = Runs, !.restart_interval = 4],
     [prog EXCEPT !.mcus = Runs, !.restart_interval = 3, !.loss = Loss("drop", 2, 2)]}

TileImages == {[seq EXCEPT !.tile = TRUE],
               [rst EXCEPT !.restart_interval = 0, !.tile = TRUE]}

(* The offset of the third MCU is behind the restart marker, which was met *)
(* while the last bits of the segment were loaded.                         *)
TileWithRestarts == {[rst EXCEPT !.tile = TRUE],
                     [rst EXCEPT !.tile = TRUE, !.restart_interval = 3,
                                 !.mcus = <<<<b1>>, <<b2>>, <<b3>>, <<b4>>, <<b5>>>>]}

CodecImages == SequentialImages \cup DamagedImages \cup ProgressiveImages \cup TileImages
=============================================================================
