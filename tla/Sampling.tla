------------------------------ MODULE Sampling ------------------------------
(***************************************************************************)
(* The samples of one component at another resolution: the routines of     *)
(* jdsample.c that give an output row more samples than the component has, *)
(* and those of jcsample.c that average the samples of the input.          *)
(*                                                                         *)
(* A plane is a function from rows to rows, a row one from columns to      *)
(* samples; both count from 0.  Each operator gives one sample, at row r   *)
(* and column c of what the routine writes; the routines compute them row  *)
(* by row with pointers that only move forward.                            *)
(***************************************************************************)
EXTENDS Integers, FiniteSetsExt

LastOf(f) == Max(DOMAIN f)
Biggest(s) == Max({s[i] : i \in DOMAIN s})
Magnitude(v) == IF v < 0 THEN -v ELSE v

\* The main and the preprocessing controller repeat the first and the last row
\* of the image where a filter looks for a row beside it.
RowAt(plane, r) == plane[Max({0, Min({r, LastOf(plane)})})]
SampleAt(plane, r, c) == RowAt(plane, r)[Max({0, Min({c, LastOf(plane[0])})})]

----------------------------------------------------------------------------
(* Upsampling.                                                             *)

int_upsample(plane, r, c, h_expand, v_expand) == plane[r \div v_expand][c \div h_expand]
h2v1_upsample(plane, r, c) == plane[r][c \div 2]
h2v2_upsample(plane, r, c) == plane[r \div 2][c \div 2]

\* 3/4 of the nearer sample and 1/4 of the further one, with a bias of 1 and 2
\* in turn; the first and the last column have nothing beside them.
h2v1_fancy_upsample(plane, r, c) ==
    LET row == plane[r]
        k   == c \div 2
    IN  CASE c = 0                   -> row[0]
          [] c = 2 * LastOf(row) + 1 -> row[LastOf(row)]
          [] c > 0 /\ c % 2 = 0      -> (3 * row[k] + row[k - 1] + 1) \div 4
          [] OTHER                   -> (3 * row[k] + row[k + 1] + 2) \div 4

\* Bug: the row below is taken for both output rows.
h2v2_fancy_upsample_below(plane, r, c) ==
    LET near   == RowAt(plane, r \div 2)
        far    == RowAt(plane, r \div 2 + 1)
        sum(i) == 3 * near[i] + far[i]
        k      == c \div 2
    IN  CASE c = 0                    -> (4 * sum(0) + 8) \div 16
          [] c = 2 * LastOf(near) + 1 -> (4 * sum(k) + 7) \div 16
          [] c > 0 /\ c % 2 = 0       -> (3 * sum(k) + sum(k - 1) + 8) \div 16
          [] OTHER                    -> (3 * sum(k) + sum(k + 1) + 7) \div 16

h2v2_fancy_upsample(plane, r, c) ==
    LET near   == RowAt(plane, r \div 2)
        far    == RowAt(plane, IF r % 2 = 0 THEN r \div 2 - 1 ELSE r \div 2 + 1)
        sum(i) == 3 * near[i] + far[i]
        k      == c \div 2
    IN  CASE c = 0                    -> (4 * sum(0) + 8) \div 16
          [] c = 2 * LastOf(near) + 1 -> (4 * sum(k) + 7) \div 16
          [] c > 0 /\ c % 2 = 0       -> (3 * sum(k) + sum(k - 1) + 8) \div 16
          [] OTHER                    -> (3 * sum(k) + sum(k + 1) + 7) \div 16

----------------------------------------------------------------------------
(* Downsampling.  expand_right_edge lets every output column have all of   *)
(* its input columns.                                                      *)

expand_right_edge(row, c) == row[Min({c, LastOf(row)})]
Pixel(plane, r, c) == expand_right_edge(RowAt(plane, r), c)

int_downsample(plane, r, c, h_expand, v_expand) ==
    LET numpix == h_expand * v_expand
    IN  (MapThenSumSet(
            LAMBDA p : Pixel(plane, r * v_expand + p[1], c * h_expand + p[2]),
            (0..v_expand - 1) \X (0..h_expand - 1)) + numpix \div 2) \div numpix

fullsize_downsample(plane, r, c) == Pixel(plane, r, c)

h2v1_downsample(plane, r, c) ==
    (Pixel(plane, r, 2 * c) + Pixel(plane, r, 2 * c + 1) + (c % 2)) \div 2

\* The four pixels of an output sample.
Members(plane, r, c) ==
    Pixel(plane, 2 * r, 2 * c) + Pixel(plane, 2 * r, 2 * c + 1)
    + Pixel(plane, 2 * r + 1, 2 * c) + Pixel(plane, 2 * r + 1, 2 * c + 1)

h2v2_downsample(plane, r, c) == (Members(plane, r, c) + 1 + (c % 2)) \div 4

\* left and right are the columns beside the four: those of the edge itself in
\* the first and the last column.
Edges(plane, r, c, left, right) ==
    Pixel(plane, 2 * r - 1, 2 * c) + Pixel(plane, 2 * r - 1, 2 * c + 1)
    + Pixel(plane, 2 * r + 2, 2 * c) + Pixel(plane, 2 * r + 2, 2 * c + 1)
    + Pixel(plane, 2 * r, left) + Pixel(plane, 2 * r, right)
    + Pixel(plane, 2 * r + 1, left) + Pixel(plane, 2 * r + 1, right)
Corners(plane, r, left, right) ==
    Pixel(plane, 2 * r - 1, left) + Pixel(plane, 2 * r - 1, right)
    + Pixel(plane, 2 * r + 2, left) + Pixel(plane, 2 * r + 2, right)

Weighted(member, memberscale, neighbor, neighscale) ==
    (member * memberscale + neighbor * neighscale + 32768) \div 65536

\* Bug: the neighbors at the edges count once, as those at the corners do.
h2v2_smooth_downsample_flat(plane, r, c, output_cols, smoothing_factor) ==
    LET left  == IF c = 0 THEN 0 ELSE 2 * c - 1
        right == IF c = output_cols - 1 THEN 2 * c + 1 ELSE 2 * c + 2
    IN  Weighted(Members(plane, r, c), 16384 - smoothing_factor * 80,
                 Edges(plane, r, c, left, right) + Corners(plane, r, left, right),
                 smoothing_factor * 16)

h2v2_smooth_downsample(plane, r, c, output_cols, smoothing_factor) ==
    LET left  == IF c = 0 THEN 0 ELSE 2 * c - 1
        right == IF c = output_cols - 1 THEN 2 * c + 1 ELSE 2 * c + 2
    IN  Weighted(Members(plane, r, c), 16384 - smoothing_factor * 80,
                 2 * Edges(plane, r, c, left, right) + Corners(plane, r, left, right),
                 smoothing_factor * 16)

\* The sum of three pixels of a column; the neighbors are those of this column
\* and of the two beside it, the pixel itself left out.
ColumnSum(plane, r, c) ==
    Pixel(plane, r - 1, c) + Pixel(plane, r, c) + Pixel(plane, r + 1, c)

fullsize_smooth_downsample(plane, r, c, output_cols, smoothing_factor) ==
    LET last == IF c = 0 THEN c ELSE c - 1
        next == IF c = output_cols - 1 THEN c ELSE c + 1
    IN  Weighted(Pixel(plane, r, c), 65536 - smoothing_factor * 512,
                 ColumnSum(plane, r, last) + (ColumnSum(plane, r, c) - Pixel(plane, r, c))
                    + ColumnSum(plane, r, next),
                 smoothing_factor * 64)
=============================================================================
