----------------------------- MODULE RowDelivery -----------------------------
(***************************************************************************)
(* What the output side of the decompressor promises to the application    *)
(* and to the colour quantizer: in every output pass each row of the image *)
(* is delivered once, from the top, whatever the number of rows asked for  *)
(* in a call, and is made from the samples it should be made from.         *)
(***************************************************************************)
EXTENDS Naturals

CONSTANTS
    output_height(_),   \* rows of the output of an image
    Line(_, _)          \* what row r of the image shows

VARIABLES
    image,          \* the image being decompressed
    output_scanline,\* rows delivered in this pass
    got             \* the rows delivered by the last call

vars == <<image, output_scanline, got>>

Rows(n, m) == {r \in 0 .. output_height(image) - 1 : n <= r /\ r < m}

Init == output_scanline = 0 /\ got = [r \in {} |-> 0]

StartPass ==
    /\ output_scanline' = 0 /\ got' = [r \in {} |-> 0]
    /\ UNCHANGED image

Call == got' = [r \in {} |-> 0] /\ UNCHANGED <<image, output_scanline>>

Deliver(n) ==
    /\ output_scanline + n <= output_height(image)
    /\ output_scanline' = output_scanline + n
    /\ got' = [r \in DOMAIN got
                     \cup Rows(output_scanline, output_scanline + n) |->
                 IF r \in DOMAIN got THEN got[r] ELSE Line(image, r)]
    /\ UNCHANGED image

Next ==
    \/ StartPass
    \/ Call
    \/ \E n \in 1 .. output_height(image) : Deliver(n)

Spec == Init /\ [][Next]_vars
=============================================================================
