--------------------------- MODULE CompressSetup ---------------------------
(***************************************************************************)
(* What the compressor computes from its parameters before it touches any  *)
(* data: the sizes of the image and of its components (initial_setup), the *)
(* verdict on a scan script (validate_script), the scan to do next         *)
(* (select_scan_parameters) and the make-up of its MCUs (per_scan_setup),  *)
(* all of jcmaster.c; and the parameters jcparam.c chooses by itself: the  *)
(* components of a color space and the recommended progressive scripts.    *)
(*                                                                         *)
(* The parameters are the record "cinfo" an application fills in, with     *)
(* components and scans as sequences; a component is named by its index    *)
(* in cinfo.comps, so that component 1 here is component 0 of the code.    *)
(* scan_info = << >> stands for a null pointer.                            *)
(***************************************************************************)
EXTENDS Integers, Sequences, FiniteSets, SequencesExt

CONSTANTS DCTSIZE,             \* 8 in the code
          LastCoef,            \* DCTSIZE2 - 1, the last coefficient in zigzag order
          MAX_COMPS_IN_SCAN,   \* 4 in the code
          C_MAX_BLOCKS_IN_MCU, \* 10 in the code
          MAX_AH_AL            \* 10 for 8-bit samples

ASSUME SetupAssumption ==
    /\ DCTSIZE \in Nat \ {0}
    /\ LastCoef \in Nat
    /\ MAX_COMPS_IN_SCAN \in Nat \ {0}
    /\ C_MAX_BLOCKS_IN_MCU \in Nat \ {0}
    /\ MAX_AH_AL \in Nat

MAX_SAMP_FACTOR == 4

jdiv_round_up(a, b) == (a + b - 1) \div b
jround_up(a, b) == jdiv_round_up(a, b) * b

Largest(S) == CHOOSE x \in S : \A y \in S : y <= x
Least(a, b) == IF a < b THEN a ELSE b

----------------------------------------------------------------------------
(* initial_setup: the dimensions.                                          *)

MaxH(cinfo) == Largest({cinfo.comps[c].h : c \in 1..Len(cinfo.comps)} \cup {1})
MaxV(cinfo) == Largest({cinfo.comps[c].v : c \in 1..Len(cinfo.comps)} \cup {1})

BadSampling(cinfo) ==
    \E c \in 1..Len(cinfo.comps) :
        \/ cinfo.comps[c].h \notin 1..MAX_SAMP_FACTOR
        \/ cinfo.comps[c].v \notin 1..MAX_SAMP_FACTOR

EmptyImage(cinfo) ==
    cinfo.image_height <= 0 \/ cinfo.image_width <= 0 \/ cinfo.comps = << >>

width_in_blocks(cinfo, c) ==
    jdiv_round_up(cinfo.image_width * cinfo.comps[c].h, MaxH(cinfo) * DCTSIZE)
height_in_blocks(cinfo, c) ==
    jdiv_round_up(cinfo.image_height * cinfo.comps[c].v, MaxV(cinfo) * DCTSIZE)
total_iMCU_rows(cinfo) == jdiv_round_up(cinfo.image_height, MaxV(cinfo) * DCTSIZE)

\* Non-dummy block rows of component c in the last iMCU row: what is left of
\* the height, or a full row group.
LastBlocks(blocks, samp) == IF blocks % samp = 0 THEN samp ELSE blocks % samp

----------------------------------------------------------------------------
(* validate_script: is a script one that a decoder can follow?  The state  *)
(* of the walk through the scans is, for every coefficient of every        *)
(* component, the last Al it was sent with, or -1 (for a sequential script *)
(* -1 until the component has been sent).                                  *)

Scan(comps, Ss, Se, Ah, Al) == [comps |-> comps, Ss |-> Ss, Se |-> Se, Ah |-> Ah, Al |-> Al]

Progressive(script) ==
    script # << >> /\ (script[1].Ss # 0 \/ script[1].Se # LastCoef)

NothingSent(ncomps) == [c \in 1..ncomps |-> [k \in 0..LastCoef |-> -1]]

GoodComponents(scan, ncomps) ==
    /\ Len(scan.comps) \in 1..MAX_COMPS_IN_SCAN
    /\ \A i \in 1..Len(scan.comps) :
        /\ scan.comps[i] \in 1..ncomps
        /\ i > 1 => scan.comps[i] > scan.comps[i - 1]   \* in SOF order

GoodBand(scan) ==
    /\ 0 <= scan.Ss /\ scan.Ss <= scan.Se /\ scan.Se <= LastCoef
    /\ scan.Ah \in 0..MAX_AH_AL /\ scan.Al \in 0..MAX_AH_AL
    /\ IF scan.Ss = 0 THEN scan.Se = 0            \* DC and AC together not OK
                      ELSE Len(scan.comps) = 1    \* AC for only one component

\* The successive approximation of each coefficient of the scan: a first scan
\* has Ah = 0, and a later one refines by one bit what came before it.
GoodRefinement(scan, last) ==
    \A c \in ToSet(scan.comps) :
        /\ scan.Ss # 0 => last[c][0] >= 0         \* no AC without prior DC
        /\ \A k \in scan.Ss..scan.Se :
            IF last[c][k] < 0 THEN scan.Ah = 0
                              ELSE scan.Ah = last[c][k] /\ scan.Al = scan.Ah - 1

GoodScan(scan, last, ncomps, progressive) ==
    /\ GoodComponents(scan, ncomps)
    /\ IF progressive
       THEN GoodBand(scan) /\ GoodRefinement(scan, last)
       ELSE /\ scan.Ss = 0 /\ scan.Se = LastCoef /\ scan.Ah = 0 /\ scan.Al = 0
            /\ \A c \in ToSet(scan.comps) : last[c][0] < 0    \* not sent twice

Sent(scan, last) ==
    [c \in DOMAIN last |->
        [k \in 0..LastCoef |->
            IF c \in ToSet(scan.comps) /\ k \in scan.Ss..scan.Se
            THEN scan.Al ELSE last[c][k]]]

\* The walk, scan by scan; it stays at Refused as soon as one scan is refused.
Refused == << >>

Follow(last, scan, ncomps, progressive) ==
    IF last # Refused /\ GoodScan(scan, last, ncomps, progressive)
    THEN Sent(scan, last) ELSE Refused

Walked(script, ncomps) ==
    LET walked[k \in 0..Len(script)] ==
            IF k = 0 THEN NothingSent(ncomps)
            ELSE Follow(walked[k - 1], script[k], ncomps, Progressive(script))
    IN  walked

Walk(script, ncomps) == Walked(script, ncomps)[Len(script)]

\* Everything got sent; a progressive script need only send some DC data.
Complete(last) == \A c \in DOMAIN last : last[c][0] >= 0

WalkEndsWell(last) == last # Refused /\ Complete(last)

validate_script(script, ncomps) == WalkEndsWell(Walk(script, ncomps))

----------------------------------------------------------------------------
(* select_scan_parameters and per_scan_setup.                              *)

num_scans(cinfo) == IF cinfo.scan_info = << >> THEN 1 ELSE Len(cinfo.scan_info)

select_scan_parameters(cinfo, scan_number) ==
    IF cinfo.scan_info # << >> THEN cinfo.scan_info[scan_number + 1]
    ELSE Scan([c \in 1..Len(cinfo.comps) |-> c], 0, LastCoef, 0, 0)

\* One component of the current scan: index, size in an MCU, and how much of
\* the last MCU column and row is real.
ScanComponent(cinfo, c, alone) ==
    IF alone
    THEN [index |-> c, MCU_width |-> 1, MCU_height |-> 1, last_col_width |-> 1,
          last_row_height |-> LastBlocks(height_in_blocks(cinfo, c), cinfo.comps[c].v)]
    ELSE [index |-> c, MCU_width |-> cinfo.comps[c].h, MCU_height |-> cinfo.comps[c].v,
          last_col_width |-> LastBlocks(width_in_blocks(cinfo, c), cinfo.comps[c].h),
          last_row_height |-> LastBlocks(height_in_blocks(cinfo, c), cinfo.comps[c].v)]

blocks_in_MCU(cinfo, scan) ==
    IF Len(scan.comps) = 1 THEN 1
    ELSE FoldLeft(LAMBDA n, c : n + cinfo.comps[c].h * cinfo.comps[c].v, 0, scan.comps)

per_scan_setup(cinfo, scan) ==
    [Ss |-> scan.Ss, Se |-> scan.Se, Ah |-> scan.Ah, Al |-> scan.Al,
     cur |-> [i \in 1..Len(scan.comps) |->
                 ScanComponent(cinfo, scan.comps[i], Len(scan.comps) = 1)],
     MCUs_per_row |->
        IF Len(scan.comps) = 1 THEN width_in_blocks(cinfo, scan.comps[1])
        ELSE jdiv_round_up(cinfo.image_width, MaxH(cinfo) * DCTSIZE),
     MCU_rows_in_scan |->
        IF Len(scan.comps) = 1 THEN height_in_blocks(cinfo, scan.comps[1])
        ELSE total_iMCU_rows(cinfo)]

\* The count must fit in the 16 bits of a DRI marker.
RestartInterval(cinfo, scan) ==
    IF cinfo.restart_in_rows > 0
    THEN Least(cinfo.restart_in_rows * scan.MCUs_per_row, 65535)
    ELSE cinfo.restart_interval

\* The parameters jinit_c_master_control refuses, before any data is written.
BadParameters(cinfo) ==
    \/ EmptyImage(cinfo)
    \/ BadSampling(cinfo)
    \/ cinfo.scan_info # << >> /\ ~validate_script(cinfo.scan_info, Len(cinfo.comps))
    \/ cinfo.scan_info = << >> /\ Len(cinfo.comps) > MAX_COMPS_IN_SCAN

\* ... and those per_scan_setup refuses when it comes to the scan.
BadMCU(cinfo, scan) == blocks_in_MCU(cinfo, scan) > C_MAX_BLOCKS_IN_MCU
=============================================================================
