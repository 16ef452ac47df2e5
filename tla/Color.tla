-------------------------------- MODULE Color --------------------------------
(***************************************************************************)
(* Two applications: one reads an image that is decompressed, as in        *)
(* ColorOutput, the other writes a picture to be compressed, as in         *)
(* ColorInput.  Their objects share nothing, so the steps of one leave the *)
(* other alone.                                                            *)
(***************************************************************************)
EXTENDS ColorOutput, ColorInput

BothInit == Init /\ InputInit

BothNext == \/ Next /\ UNCHANGED input_vars
            \/ InputNext /\ UNCHANGED vars

BothSpec == BothInit /\ [][BothNext]_<<vars, input_vars>>
=============================================================================
