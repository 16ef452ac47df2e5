---------------------------- MODULE MCTransform ----------------------------
(***************************************************************************)
(* Instances of Transform for TLC.  Blocks are 2 by 2 samples, so that a   *)
(* complete iMCU of a 4:2:0 file has 4 by 4, and the images have up to     *)
(* three iMCUs each way, complete and partial, with components whose last  *)
(* block column or row is and is not padding.                              *)
(***************************************************************************)
EXTENDS Transform

C(id, h, v, q) == Component(id, h, v, q)
Gray(h, v) == << C(1, h, v, 0) >>
YCC(h, v) == << C(1, h, v, 0), C(2, 1, 1, 1), C(3, 1, 1, 1) >>
RGB == << C(82, 1, 1, 0), C(71, 1, 1, 0), C(66, 1, 1, 0) >>
Four == << C(1, 2, 1, 0), C(2, 1, 1, 1), C(3, 1, 1, 1), C(4, 2, 1, 0) >>
Two == << C(1, 1, 1, 0), C(2, 1, 2, 1) >>

Comment == Marker("COM", "", FALSE, 0)
ShortJFIF == Marker("APP0", "JFIF", TRUE, 0)

(* A file is what a decoder makes of it.                                   *)
File(width, height, comps, markers) ==
    [image_width |-> width, image_height |-> height, comps |-> comps, markers |-> markers,
     colors |-> default_decompress_parms(markers, comps)]

Job(file, transform, trim, gray, copy) ==
    [source |-> file, transform |-> transform, trim |-> trim, force_grayscale |-> gray,
     copyoption |-> copy]

Transforms == {"NONE", "FLIP_H", "FLIP_V", "TRANSPOSE", "TRANSVERSE", "ROT_90", "ROT_180",
               "ROT_270"}

Edges == {1, 4, 5, 7, 10, 12}

Pictures ==
    {Job(File(w, h, comps, << JFIF >>), t, trim, gray, "COMMENTS") :
        w \in Edges, h \in Edges, comps \in {YCC(2, 2), YCC(2, 1)},
        t \in Transforms, trim \in BOOLEAN, gray \in BOOLEAN}
    \cup {Job(File(w, h, comps, << >>), t, trim, gray, "NONE") :
             w \in {3, 8, 9}, h \in {1, 4, 10}, comps \in {Gray(2, 2), Two, Four},
             t \in Transforms, trim \in BOOLEAN, gray \in BOOLEAN}

(* Every set of markers that tells the color space of a file, or misleads  *)
(* about it.                                                               *)
Headers == {<< >>, << JFIF, Comment >>, << Adobe(0) >>, << Adobe(1) >>, << Adobe(2) >>,
            << JFIF, Adobe(0) >>, << ShortJFIF, Adobe(0) >>, << Adobe(1), Comment, Adobe(0) >>,
            << Adobe(0), Comment, Adobe(2) >>, << JFIF, JFIF, Adobe(1) >>}

Labelled ==
    {Job(File(3, 2, comps, m), t, FALSE, gray, copy) :
        comps \in {Gray(1, 1), YCC(1, 1), RGB, Four, Two}, m \in Headers,
        t \in {"NONE", "ROT_90"}, gray \in BOOLEAN,
        copy \in {"NONE", "COMMENTS", "ALL"}}

MCJobs == Pictures \cup Labelled
=============================================================================
