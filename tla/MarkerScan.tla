----------------------------- MODULE MarkerScan -----------------------------
(***************************************************************************)
(* Finding markers in a datastream that arrives piece by piece             *)
(* (jdmarker.c).  A source s is the bytes data, the number pos of them     *)
(* consumed for good and the number avail that have arrived;               *)
(* fill_input_buffer returns FALSE when more are wanted.                   *)
(***************************************************************************)
EXTENDS Integers, Sequences, FiniteSets, FiniteSetsExt, SequencesExt

FillByte == 255
SOF0 == 192
RSTn(n) == 208 + n
EOIMarker == 217
IsRST(m) == m \in RSTn(0) .. RSTn(7)

(* next_marker.  A marker is found at its code, the byte behind an FF that *)
(* is neither a pad byte FF nor the zero stuffed behind an FF of data.     *)
MarkerCodes(data, s) ==
    {i \in s.pos + 2 .. s.avail : data[i - 1] = FillByte /\ data[i] \notin {0, FillByte}}
Met(data, s, i) == [s EXCEPT !.pos = i, !.unread_marker = data[i], !.discarded_bytes = 0]

(* Every discarded byte is synced out, so that the restart point moves; pad*)
(* bytes before a code that has not arrived are not, and none are counted. *)
LastDiscarded(data, s) == Max({s.pos} \cup {i \in s.pos + 1 .. s.avail : data[i] # FillByte})
Discarded(data, s) ==
    {i \in s.pos + 1 .. LastDiscarded(data, s) : data[i] # FillByte \/ data[i + 1] # FillByte}

next_marker(data, s) ==
    IF MarkerCodes(data, s) # {} THEN Met(data, s, Min(MarkerCodes(data, s)))
    ELSE [s EXCEPT !.ok = FALSE, !.pos = LastDiscarded(data, s),
                   !.discarded_bytes = @ + Cardinality(Discarded(data, s))]
=============================================================================
