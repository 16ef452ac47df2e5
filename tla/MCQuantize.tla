----------------------------- MODULE MCQuantize -----------------------------
(***************************************************************************)
(* Samples of 4 bits, 8 x 16 x 8 samples a cell's axes cut into 4, 8 and 4 *)
(* indexes, pictures of two or three rows of three pixels.                 *)
(***************************************************************************)
EXTENDS Quantize

Bayer == (0 :> (0 :> 0 @@ 1 :> 2)) @@ (1 :> (0 :> 3 @@ 1 :> 1))
HistBits == <<2, 3, 2>>
BoxLog == <<1, 1, 1>>

Grays == {<< <<<<0>>, <<7>>, <<8>>>>, <<<<15>>, <<4>>, <<11>>>>, <<<<9>>, <<9>>, <<9>>>> >>}

Few  == << <<<<0, 0, 0>>, <<15, 15, 15>>, <<0, 0, 0>>>>,
           <<<<9, 9, 9>>, <<8, 3, 12>>, <<9, 9, 9>>>> >>
White == [row \in 1..3 |-> [column \in 1..3 |-> <<15, 15, 15>>]]
Many == << <<<<0, 2, 13>>, <<15, 14, 1>>, <<7, 5, 8>>>>,
           <<<<8, 4, 8>>, <<3, 12, 6>>, <<12, 9, 15>>>> >>

MCPictures(nc) == IF nc = 3 THEN {Few, White, Many} ELSE Grays

Map(s) == [i \in 0..Len(s) - 1 |-> s[i + 1]]
Black == Map(<< <<0, 0, 0>> >>)
Three == Map(<< <<15, 15, 15>>, <<2, 9, 4>>, <<13, 6, 0>> >>)
Close == Map(<< <<5, 6, 7>>, <<6, 5, 7>>, <<15, 0, 15>>, <<5, 7, 6>> >>)
TooMany == [i \in 0..MAXNUMCOLORS |-> <<i % 16, 3, i % 5>>]
MCColormaps == {Black, Three, Close, TooMany}

Request(nc, desired, dither, two_pass, colormap) ==
    [nc |-> nc, is_rgb |-> nc = 3, desired |-> desired, buffered |-> FALSE, dither_mode |-> dither,
     two_pass |-> two_pass, colormap |-> colormap, enable_1pass |-> FALSE,
     enable_external |-> FALSE, enable_2pass |-> FALSE, output_width |-> 3]

Dithers == {"NONE", "ORDERED", "FS"}

AtOnce == {Request(1, n, d, FALSE, <<>>) : n \in {1, 2, 5, 16, 17}, d \in Dithers}
    \cup {Request(3, n, d, two, <<>>) : n \in {7, 8, 12, 16}, d \in Dithers, two \in BOOLEAN}
    \cup {Request(3, 4, d, TRUE, <<>>) : d \in Dithers}
    \cup {Request(3, 8, d, FALSE, m) : d \in Dithers, m \in MCColormaps}
    \cup {[Request(3, n, "NONE", FALSE, <<>>) EXCEPT !.is_rgb = FALSE] : n \in {8, 12}}
    \cup {Request(5, 16, "NONE", FALSE, <<>>)}

Buffered(desired, dither, two_pass, one, external, two) ==
    [Request(3, desired, dither, two_pass, <<>>) EXCEPT
        !.buffered = TRUE, !.enable_1pass = one, !.enable_external = external,
        !.enable_2pass = two]

InPasses == {Buffered(8, "NONE", FALSE, TRUE, TRUE, TRUE),
             Buffered(8, "FS", TRUE, FALSE, FALSE, TRUE)}
    \cup {[Request(1, 5, "NONE", FALSE, <<>>) EXCEPT !.buffered = TRUE]}

MCRequests == AtOnce \cup InPasses
=============================================================================
