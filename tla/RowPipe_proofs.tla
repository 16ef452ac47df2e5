--------------------------- MODULE RowPipe_proofs ---------------------------
(***************************************************************************)
(* Theorems about RowPipe, checked by TLAPS.                               *)
(***************************************************************************)
EXTENDS RowPipe, TLAPS

-----------------------------------------------------------------------------
(* Quotients and remainders.                                               *)

(* What div and mod are, for natural numbers.                              *)
LEMMA DivMod ==
  ASSUME NEW x \in Nat, NEW n \in Nat \ {0}
  PROVE  /\ x \div n \in Nat /\ x % n \in 0 .. n - 1
         /\ x = n * (x \div n) + (x % n)
OBVIOUS

(* And that nothing else is.                                               *)
LEMMA DivUnique ==
  \A n \in Nat \ {0} : \A y \in Nat : \A z \in 0 .. n - 1 : \A x :
    x = n * y + z => x \div n = y /\ x % n = z
OBVIOUS

-----------------------------------------------------------------------------
(* The row groups left in the last iMCU row.  With h * m = K * q + r + 1,  *)
(* where q is a number of iMCU rows' worth of output row groups, a         *)
(* component with row groups of g rows has g * q + s + 1 rows for some     *)
(* s < g, whatever g is.                                                   *)

LastRowGroups(f) ==
    CeilDiv(f.image_height * f.M, f.max_v_samp_factor * 8) - 1

(* Rounding up is one more than rounding down what is one less.            *)
LEMMA CeilIsFloor ==
  ASSUME NEW x \in Nat \ {0}, NEW K \in Nat \ {0}
  PROVE  CeilDiv(x, K) = ((x - 1) \div K) + 1
<1> DEFINE y == (x - 1) \div K
           z == (x - 1) % K
<1>1. x - 1 \in Nat
  OBVIOUS
<1>2. y \in Nat /\ z \in 0 .. K - 1 /\ x - 1 = K * y + z
  BY <1>1, DivMod
<1> HIDE DEF y, z
<1> DEFINE w == x + K - 1
           y1 == y + 1
<1>3. w = K * y1 + z /\ y1 \in Nat
  BY <1>2
<1> HIDE DEF w, y1
<1>4. w \div K = y1
  BY <1>2, <1>3, DivUnique
<1> QED
  BY <1>4 DEF CeilDiv, w, y, y1

(* The rows of a component, from the row groups of the picture.            *)
LEMMA RowsFromGroups ==
  ASSUME NEW x \in Nat \ {0}, NEW g \in Nat \ {0}, NEW K \in Nat \ {0}
  PROVE  \E s \in 0 .. g - 1 :
            CeilDiv(x * g, K) = g * (CeilDiv(x, K) - 1) + s + 1
<1> DEFINE q == (x - 1) \div K
           r == (x - 1) % K
           u == g * r + (g - 1)
           s == u \div K
<1>1. x - 1 \in Nat
  OBVIOUS
<1>2. q \in Nat /\ r \in 0 .. K - 1 /\ x - 1 = K * q + r
  BY <1>1, DivMod
<1> HIDE DEF q, r
<1>3. u \in Nat /\ u < g * K
  BY <1>2
<1>4. s \in Nat /\ u % K \in 0 .. K - 1 /\ u = K * s + (u % K)
  BY <1>3, DivMod
<1> HIDE DEF s
<1>5. s \in 0 .. g - 1
  BY <1>4, <1>3
<1>6. x * g \in Nat \ {0} /\ x * g - 1 = K * (g * q + s) + (u % K)
  BY <1>2, <1>4
<1>7. (x * g - 1) \div K = g * q + s
  <2> DEFINE w == x * g - 1
             y == g * q + s
             z == u % K
  <2>1. w = K * y + z /\ y \in Nat /\ z \in 0 .. K - 1
    BY <1>2, <1>4, <1>6
  <2> HIDE DEF w, y, z
  <2>2. w \div K = y
    BY <2>1, DivUnique
  <2> QED
    BY <2>2 DEF w, y
<1>8. CeilDiv(x * g, K) = g * q + s + 1 /\ CeilDiv(x, K) - 1 = q
  BY <1>2, <1>6, <1>7, CeilIsFloor DEF q
<1> QED
  BY <1>5, <1>8

(* The row groups left of a component with row groups of g rows.           *)
LEMMA GroupsLeft ==
  ASSUME NEW q \in Nat, NEW g \in Nat \ {0}, NEW m \in Nat \ {0},
         NEW s \in 0 .. g - 1
  PROVE  LET rest == (g * q + s + 1) % (g * m)
             left == IF rest = 0 THEN g * m ELSE rest
         IN  ((left - 1) \div g) + 1 = (q % m) + 1
<1> DEFINE a == q \div m
           b == q % m
           t == g * b + s
           rest == (g * q + s + 1) % (g * m)
           left == IF rest = 0 THEN g * m ELSE rest
<1>1. a \in Nat /\ b \in 0 .. m - 1 /\ q = m * a + b
  BY DivMod
<1> HIDE DEF a, b
<1>2. t \in Nat /\ t < g * m /\ g * m \in Nat \ {0}
  BY <1>1
<1>3. left = t + 1
  <2> DEFINE n == g * m
             w == g * q + s + 1
             t1 == t + 1
             a1 == a + 1
  <2>1. /\ w = n * a + t1 /\ a \in Nat /\ a1 \in Nat
        /\ n \in Nat \ {0} /\ t1 \in 1 .. n
    BY <1>1, <1>2
  <2>2. CASE t1 # n
    <3> HIDE DEF n, w, t1
    <3>1. w % n = t1
      BY <2>1, <2>2, DivUnique
    <3> QED
      BY <2>1, <3>1 DEF n, w, t1
  <2>3. CASE t1 = n
    <3> HIDE DEF t1, n, w
    <3>1. w = n * a1 + 0
      BY <2>1, <2>3
    <3>2. 0 \in 0 .. n - 1
      BY <2>1
    <3> HIDE DEF a1
    <3>3. w % n = 0
      BY <2>1, <3>1, <3>2, DivUnique, ZenonT(60)
    <3> QED
      BY <2>3, <3>3 DEF n, w, t1
  <2> QED
    BY <2>2, <2>3
<1>4. t \div g = b
  BY <1>1, DivUnique
<1> QED
  BY <1>2, <1>3, <1>4 DEF b

-----------------------------------------------------------------------------
(* An iMCU row holds M row groups of every component.                      *)
LEMMA HeightInRowGroups ==
  ASSUME NEW f, ImageOK(f), NEW c \in Component(f)
  PROVE  /\ RowGroup(f, c) \in Nat \ {0} /\ f.M \in Nat \ {0}
         /\ iMCUheight(f, c) = RowGroup(f, c) * f.M
         /\ f.max_v_samp_factor \in Nat \ {0}
         /\ f.image_height \in Nat \ {0}
<1> DEFINE v == f.v_samp_factor[c]
           d == f.DCT_scaled_size[c]
<1>1. /\ f.M \in {1, 2, 4, 8} /\ d \in {1, 2, 4, 8} /\ d >= f.M
      /\ f.max_v_samp_factor \in 1 .. 4
      /\ v \in 1 .. f.max_v_samp_factor /\ f.image_height \in Nat \ {0}
  BY DEF ImageOK
<1> HIDE DEF v, d
<1>2. PICK k \in {1, 2, 4, 8} : d = k * f.M
  BY <1>1
<1>3. v \in Nat \ {0} /\ k \in Nat \ {0} /\ f.M \in Nat \ {0}
  BY <1>1
<1>4. v * d = f.M * (v * k) + 0 /\ v * k \in Nat \ {0}
  BY <1>2, <1>3
<1>5. (v * d) \div f.M = v * k
  <2> DEFINE w == v * d
             n == f.M
             y == v * k
  <2>1. w = n * y + 0 /\ n \in Nat \ {0} /\ y \in Nat /\ 0 \in 0 .. n - 1
    BY <1>3, <1>4
  <2> HIDE DEF w, n, y
  <2> QED
    BY <2>1, DivUnique DEF w, n, y
<1> QED
  BY <1>1, <1>3, <1>4, <1>5 DEF RowGroup, iMCUheight, v, d

(* The row groups left do not depend on the component.                     *)
LEMMA RowGroupsLeftOf ==
  ASSUME ImageOK(image), NEW c \in Component(image)
  PROVE  RowGroupsLeft(c) = (LastRowGroups(image) % M) + 1
<1> DEFINE x == image.image_height * image.M
           K == image.max_v_samp_factor * 8
           g == RowGroup(image, c)
           q == CeilDiv(x, K) - 1
<1>1. /\ g \in Nat \ {0} /\ image.M \in Nat \ {0}
      /\ iMCUheight(image, c) = g * image.M
      /\ image.max_v_samp_factor \in Nat \ {0}
      /\ image.image_height \in Nat \ {0}
  BY HeightInRowGroups
<1>2. x \in Nat \ {0} /\ K \in Nat \ {0}
  BY <1>1
<1> HIDE DEF g
<1> HIDE DEF x, K
<1>3. PICK s \in 0 .. g - 1 : CeilDiv(x * g, K) = g * q + s + 1
  BY <1>1, <1>2, RowsFromGroups
<1>4. q \in Nat
  <2>1. x - 1 \in Nat
    BY <1>2
  <2>2. (x - 1) \div K \in Nat
    BY <1>2, <2>1, DivMod
  <2>3. CeilDiv(x, K) = ((x - 1) \div K) + 1
    BY <1>2, CeilIsFloor
  <2> QED
    BY <2>2, <2>3
<1> HIDE DEF q
<1> DEFINE n == g * image.M
           rest == (g * q + s + 1) % n
           left == IF rest = 0 THEN n ELSE rest
<1>5. ((left - 1) \div g) + 1 = (q % image.M) + 1
  BY <1>1, <1>4, GroupsLeft
<1>6. rows_left(c) = left
  BY <1>1, <1>3 DEF rows_left, downsampled_height, K, x
<1>7. RowGroupsLeft(c) = ((left - 1) \div g) + 1
  BY <1>6 DEF RowGroupsLeft, rgroup, g
<1> QED
  BY <1>5, <1>7 DEF LastRowGroups, M, q, x, K

-----------------------------------------------------------------------------
(* No call changes the parameters of the image.                            *)
LEMMA ImageKept == Spec => [](image \in Images)
<1>1. Init => image \in Images
  BY DEF Init
<1>2. image \in Images /\ [Next]_vars => (image \in Images)'
  BY DEF Next, vars, StartPass, ProcessData, Fill, Suspend, Return, Feed,
         FeedSimple, FeedPostponed, PrepareForIMCU, ProcessIMCU, CrankPost
<1> QED
  BY <1>1, <1>2, PTL DEF Spec

(* set_bottom_pointers (jdmainct.c:261) takes the number of row groups     *)
(* left in the last iMCU row from the first component alone: "Should get   *)
(* same answer for each component".  It does, for every height of image,   *)
(* sampling factors and scaling.                                           *)
LEMMA RowGroupsAgree == image \in Images => SameRowGroupsLeft
<1> SUFFICES ASSUME image \in Images,
                    NEW c \in Component(image), NEW d \in Component(image)
             PROVE  RowGroupsLeft(c) = RowGroupsLeft(d)
  BY DEF SameRowGroupsLeft
<1> QED
  BY PipeAssumption, RowGroupsLeftOf

THEOREM SameRowGroupsLeftHolds == Spec => []SameRowGroupsLeft
BY RowGroupsAgree, ImageKept, PTL

-----------------------------------------------------------------------------
(* Counting rows, row groups and iMCU rows.                                *)
V == max_v_samp_factor
OH == output_height(image)
TR == total_iMCU_rows(image)
RowGroupsInAll == LastRowGroups(image) + 1

(* What is less than a quotient rounded up.                                *)
LEMMA CeilLess ==
  ASSUME NEW x \in Nat \ {0}, NEW K \in Nat \ {0}, NEW n \in Nat
  PROVE  n < CeilDiv(x, K) <=> K * n < x
<1> DEFINE y == (x - 1) \div K
           z == (x - 1) % K
<1>1. x - 1 \in Nat
  OBVIOUS
<1>2. y \in Nat /\ z \in 0 .. K - 1 /\ x - 1 = K * y + z
  BY <1>1, DivMod
<1>3. CeilDiv(x, K) = y + 1
  BY CeilIsFloor
<1> HIDE DEF y, z
<1>4. CASE n <= y
  BY <1>2, <1>4, <1>3
<1>5. CASE n >= y + 1
  BY <1>2, <1>5, <1>3
<1> QED
  BY <1>2, <1>4, <1>5

LEMMA CeilPositive ==
  ASSUME NEW x \in Nat \ {0}, NEW K \in Nat \ {0}
  PROVE  CeilDiv(x, K) \in Nat \ {0}
BY CeilIsFloor, DivMod

(* The parameters are numbers.                                             *)
LEMMA Parameters ==
  ASSUME image \in Images
  PROVE  /\ ImageOK(image)
         /\ V \in 1 .. 4 /\ M \in {1, 2, 4, 8}
         /\ OH \in Nat \ {0} /\ TR \in Nat \ {0}
         /\ RowGroupsInAll \in Nat \ {0}
<1>1. ImageOK(image)
  BY PipeAssumption
<1>2. /\ V \in 1 .. 4 /\ M \in {1, 2, 4, 8}
      /\ image.image_height \in Nat \ {0}
  BY <1>1 DEF ImageOK, V, max_v_samp_factor, M
<1>3. image.image_height * image.M \in Nat \ {0} /\ V * 8 \in Nat \ {0}
  BY <1>2 DEF M
<1>4. TR \in Nat \ {0}
  BY <1>2, <1>3, CeilPositive DEF TR, total_iMCU_rows, V, max_v_samp_factor
<1> QED
  BY <1>1, <1>2, <1>3, CeilPositive, <1>4 DEF RowGroupsInAll, LastRowGroups, V,
     max_v_samp_factor, OH, output_height

(* A row group begins inside the picture exactly if it is one of its row   *)
(* groups, and an iMCU row exactly if it is one of its iMCU rows.          *)
LEMMA BeginsInside ==
  ASSUME image \in Images, NEW n \in Nat
  PROVE  /\ V * n < OH <=> n < RowGroupsInAll
         /\ M * n < RowGroupsInAll <=> n < TR
<1> DEFINE H == image.image_height
           x == H * M
           K == V * 8
<1>1. /\ V \in Nat \ {0} /\ M \in Nat \ {0} /\ H \in Nat \ {0}
      /\ x \in Nat \ {0} /\ K \in Nat \ {0}
  BY Parameters DEF ImageOK
<1>2. /\ OH = CeilDiv(x, 8) /\ TR = CeilDiv(H, K)
      /\ RowGroupsInAll = CeilDiv(x, K)
  BY <1>1, CeilPositive DEF OH, output_height, TR, total_iMCU_rows, RowGroupsInAll,
     LastRowGroups, V, max_v_samp_factor, M
<1>3. V * n \in Nat /\ M * n \in Nat /\ 8 * (V * n) = K * n
  BY <1>1
<1>4. V * n < OH <=> n < RowGroupsInAll
  <2> HIDE DEF x, K
  <2> QED
    BY <1>3, <1>1, <1>2, CeilLess
<1>5. M * n < RowGroupsInAll <=> n < TR
  <2>1. M * n < RowGroupsInAll <=> K * (M * n) < x
    <3> HIDE DEF x, K
    <3> QED
      BY <1>1, <1>2, <1>3, CeilLess
  <2>2. n < TR <=> K * n < H
    <3> HIDE DEF x, K
    <3> QED
      BY <1>1, <1>2, CeilLess
  <2>3. K * (M * n) = M * (K * n) /\ x = M * H /\ K * n \in Nat
    <3> HIDE DEF K
    <3> QED
      BY <1>1
  <2> QED
    BY <1>1, <2>1, <2>2, <2>3
<1> QED
  BY <1>4, <1>5

(* The last iMCU row has the row groups the others leave.                  *)
LEMMA LastRow ==
  ASSUME image \in Images, NEW c \in Component(image)
  PROVE  /\ RowGroupsLeft(c) \in 1 .. M
         /\ RowGroupsInAll = M * (TR - 1) + RowGroupsLeft(c)
<1> DEFINE q == LastRowGroups(image)
           d == q \div M
           e == q % M
<1>1. /\ M \in Nat \ {0} /\ TR \in Nat \ {0} /\ RowGroupsInAll \in Nat \ {0}
      /\ ImageOK(image)
  BY Parameters
<1>2. q \in Nat /\ RowGroupsInAll = q + 1
  <2>1. q \in Int
    <3>1. /\ image.image_height * image.M \in Nat \ {0}
          /\ image.max_v_samp_factor * 8 \in Nat \ {0}
      BY <1>1 DEF ImageOK
    <3> QED
      BY <3>1, CeilPositive DEF LastRowGroups
  <2> QED
    BY <1>1, <2>1 DEF RowGroupsInAll
<1>3. RowGroupsLeft(c) = e + 1
  BY <1>1, RowGroupsLeftOf
<1> HIDE DEF q
<1>4. d \in Nat /\ e \in 0 .. M - 1 /\ q = M * d + e
  BY <1>1, <1>2, DivMod
<1> HIDE DEF d, e
<1>5. d < TR /\ ~ (d + 1 < TR)
  BY <1>1, <1>2, <1>4, BeginsInside
<1> QED
  BY <1>1, <1>2, <1>3, <1>4, <1>5

-----------------------------------------------------------------------------
(* The inductive invariant.                                                *)
Running == pass \in {"PASS_THRU", "SAVE_AND_PASS"}

(* The rows emitted of the row group the upsampler is at.                  *)
InGroup(n, full) ==
    IF upsampler = "sep" THEN (IF n < V THEN n ELSE 0)
    ELSE IF upsampler = "merged_2v" /\ full THEN 1 ELSE 0
Pending == InGroup(next_row_out, spare_full)

(* The row groups used up in this pass, from the main controller's         *)
(* counters: each iMCU row holds M of them, and in the context case the    *)
(* last one is postponed until the next iMCU row has come.                 *)
Earlier == IF buffer_full THEN output_iMCU_row - 1 ELSE output_iMCU_row
GroupsGone ==
    IF need_context_rows /\ context_state = "POSTPONED_ROW"
    THEN M * Earlier - 1
    ELSE IF need_context_rows /\ context_state = "PREPARE_FOR_IMCU"
         THEN M * Earlier
         ELSE M * Earlier + rowgroup_ctr

LastComponent == CHOOSE c \in Component(image) : TRUE

(* After the last iMCU row the main controller is as after any other, but  *)
(* nothing is left.                                                        *)
AllDone ==
    /\ need_context_rows /\ context_state = "POSTPONED_ROW"
    /\ ~ buffer_full /\ output_iMCU_row = TR

MainOK ==
    Running =>
        /\ output_iMCU_row \in 0 .. TR
        /\ buffer_full => output_iMCU_row > 0
        /\ ~ need_context_rows =>
              IF buffer_full THEN rowgroup_ctr < M ELSE rowgroup_ctr = 0
        /\ need_context_rows =>
              /\ iMCU_row_ctr = output_iMCU_row
              /\ context_state = "PREPARE_FOR_IMCU" /\ ~ buffer_full
                    => output_iMCU_row = 0
              /\ context_state = "PROCESS_IMCU" =>
                    /\ buffer_full /\ rowgroup_ctr < rowgroups_avail
                    /\ rowgroups_avail = IF output_iMCU_row = TR
                                         THEN RowGroupsLeft(LastComponent)
                                         ELSE M - 1
              /\ context_state = "POSTPONED_ROW" =>
                    /\ rowgroup_ctr = M + 1 /\ rowgroups_avail = M + 2
                    /\ Earlier > 0

(* The rows delivered, in the counters of both sides.                      *)
RowsOK ==
    Running =>
        /\ upsampler # "merged_1v" => rows_to_go = OH - output_scanline
        /\ IF AllDone THEN Complete
           ELSE output_scanline = V * GroupsGone + Pending

PostOK ==
    /\ starting_row \in Nat
    /\ \E s \in Nat : starting_row = V * s
    /\ pass = "PASS_THRU" => next_row = 0
    /\ pass \in {"SAVE_AND_PASS", "CRANK_DEST"} =>
          /\ output_scanline = starting_row + next_row
          /\ quantize = "2pass"
    /\ strip = NoStrip \/ (\E s \in Nat : strip = V * s /\ strip < OH)

CallOK ==
    /\ out_row_ctr \in Nat /\ out_rows_avail \in Nat
    /\ at = "fill" => Running /\ ~ buffer_full /\ output_scanline < OH
    /\ at = "feed" => Running /\ buffer_full /\ output_scanline < OH
    /\ at = "crank" => pass = "CRANK_DEST" /\ output_scanline < OH
    /\ at # "idle" /\ pass # "SAVE_AND_PASS" => out_row_ctr < out_rows_avail

IndInv ==
    /\ TypeOK /\ MainOK /\ RowsOK /\ PostOK /\ CallOK
    /\ output_scanline \in 0 .. OH /\ DOMAIN xbuffer = {0, 1}

-----------------------------------------------------------------------------
(* One call of the upsampler.                                              *)
LEMMA MinOfTwo ==
  ASSUME NEW a \in Int, NEW b \in Int
  PROVE  Min({a, b}) \in {a, b} /\ Min({a, b}) <= a /\ Min({a, b}) <= b
BY DEF Min

LEMMA MinOfThree ==
  ASSUME NEW a \in Int, NEW b \in Int, NEW c \in Int
  PROVE  /\ Min({a, b, c}) \in {a, b, c}
         /\ Min({a, b, c}) <= a /\ Min({a, b, c}) <= b /\ Min({a, b, c}) <= c
BY DEF Min

(* There is room for a row whenever the upsampler is called.               *)
LEMMA RoomForOne ==
  ASSUME IndInv, at = "feed"
  PROVE  /\ Room \in Nat \ {0}
         /\ pass = "SAVE_AND_PASS" => Room <= V - next_row
         /\ pass # "SAVE_AND_PASS" => Room <= out_rows_avail - out_row_ctr
<1>1. /\ image \in Images /\ next_row \in 0 .. V - 1
      /\ out_row_ctr \in Nat /\ out_rows_avail \in Nat
      /\ pass # "SAVE_AND_PASS" => out_row_ctr < out_rows_avail
  BY DEF IndInv, TypeOK, CallOK, V, strip_height, max_v_samp_factor
<1>2. V \in 1 .. 4 /\ strip_height = V
  BY <1>1, Parameters DEF V, strip_height, max_v_samp_factor
<1>3. CASE pass = "SAVE_AND_PASS"
  BY <1>1, <1>2, <1>3 DEF Room
<1>4. CASE pass # "SAVE_AND_PASS" /\ quantize = "none"
  BY <1>1, <1>2, <1>4 DEF Room
<1>5. CASE pass # "SAVE_AND_PASS" /\ quantize # "none"
  <2> QED
    BY <1>1, <1>2, <1>5, MinOfTwo DEF Room
<1> QED
  BY <1>3, <1>4, <1>5

(* A call of the upsampler returns at least one row, no more than there is *)
(* room for and no more than are left of the picture; and when it reports  *)
(* the row group used up, it has returned all of its rows since it began.  *)
Counted(u) ==
    /\ u.num_rows \in Nat \ {0} /\ u.num_rows <= Room
    /\ u.num_rows <= OH - output_scanline
    /\ DOMAIN u.lines = 0 .. u.num_rows - 1
    /\ u.consumed \in BOOLEAN /\ u.spare_full \in BOOLEAN
    /\ u.next_row_out \in 0 .. V
    /\ u.consumed => /\ Pending + u.num_rows = V
                     /\ InGroup(u.next_row_out, u.spare_full) = 0
    /\ ~ u.consumed => Pending + u.num_rows
                         = InGroup(u.next_row_out, u.spare_full)

LEMMA UpsamplerCounts ==
  ASSUME IndInv, at = "feed"
  PROVE  Counted(Upsampled(Room))
<1> DEFINE u == Upsampled(Room)
           left == OH - output_scanline
<1>1. /\ image \in Images /\ next_row_out \in 0 .. V
      /\ spare_full \in BOOLEAN /\ left \in Nat \ {0}
      /\ upsampler # "merged_1v" => rows_to_go = left
  BY Parameters DEF IndInv, TypeOK, CallOK, RowsOK, V
<1>2. Room \in Nat \ {0} /\ V \in 1 .. 4 /\ max_v_samp_factor = V
  BY <1>1, RoomForOne, Parameters DEF V
<1> HIDE DEF left
<1>3. CASE upsampler = "sep"
  <2> DEFINE first == IF ConvBufEmpty THEN 0 ELSE next_row_out
             n == RowsOut(first, Room)
  <2>1. /\ u.num_rows = n /\ DOMAIN u.lines = 0 .. n - 1
        /\ u.consumed = (first + n >= V) /\ u.next_row_out = first + n
        /\ u.spare_full = spare_full
    BY <1>2, <1>3 DEF sep_upsample, Upsampled
  <2>2. first \in 0 .. V - 1 /\ Pending = first
    BY <1>1, <1>2, <1>3 DEF ConvBufEmpty, Pending, InGroup
  <2>3. n = Min({V - first, left, Room})
    BY <1>1, <1>2, <1>3 DEF RowsOut
  <2> HIDE DEF n, first
  <2>4. n \in Nat \ {0} /\ n <= V - first /\ n <= left /\ n <= Room
    <3> DEFINE m == Min({V - first, left, Room})
    <3>1. V - first \in Int /\ left \in Int /\ Room \in Int
      BY <1>1, <1>2, <2>2
    <3>2. /\ m \in {V - first, left, Room}
          /\ m <= V - first /\ m <= left /\ m <= Room
      BY <3>1, MinOfThree, Zenon
    <3> HIDE DEF m
    <3> QED
      BY <1>1, <1>2, <2>2, <2>3, <3>1, <3>2 DEF m
  <2> HIDE DEF u
  <2>5. /\ u.consumed <=> first + n >= V
        /\ u.consumed \in BOOLEAN /\ u.spare_full \in BOOLEAN
    <3>1. (first + n >= V) \in BOOLEAN
      OBVIOUS
    <3> QED
      BY <1>1, <2>1, <3>1, Zenon
  <2>6. Counted(u)
    BY <2>5, <1>2, <2>1, <2>2, <2>4, <1>3 DEF Counted, left, InGroup
  <2> QED
    BY <2>6 DEF u
<1>4. CASE upsampler = "merged_2v"
  <2> DEFINE n == IF spare_full THEN 1 ELSE Min({2, rows_to_go, Room})
             full == ~ spare_full /\ n <= 1
  <2>1. /\ u.num_rows = n /\ DOMAIN u.lines = 0 .. n - 1
        /\ u.consumed = ~ full /\ u.next_row_out = next_row_out
        /\ u.spare_full = full
    BY <1>4 DEF merged_2v_upsample, Upsampled
  <2>2. n \in {1, 2} /\ n <= left /\ n <= Room /\ (spare_full => n = 1)
    <3> DEFINE m == Min({2, left, Room})
    <3>1. 2 \in Int /\ left \in Int /\ Room \in Int
      BY <1>1, <1>2
    <3>2. m \in {2, left, Room} /\ m <= 2 /\ m <= left /\ m <= Room
      BY <3>1, MinOfThree, Zenon
    <3>3. n = IF spare_full THEN 1 ELSE m
      BY <1>1, <1>4
    <3> HIDE DEF m, n
    <3> QED
      BY <1>1, <1>2, <3>2, <3>3
  <2>3. Pending = IF spare_full THEN 1 ELSE 0
    BY <1>4 DEF Pending, InGroup
  <2>4. InGroup(u.next_row_out, u.spare_full) = IF full THEN 1 ELSE 0
    BY <1>4, <2>1 DEF InGroup
  <2> HIDE DEF u, n
  <2>5. Counted(u)
    <3>1. u.consumed \in BOOLEAN /\ u.spare_full \in BOOLEAN
      BY <2>1
    <3>2. u.consumed <=> ~ full
      BY <2>1, Zenon
    <3> HIDE DEF full, n
    <3>3. ~ full => (n = 2 /\ ~ spare_full) \/ (n = 1 /\ spare_full)
      BY <2>2 DEF full
    <3>4. u.consumed => /\ Pending + u.num_rows = V
                        /\ InGroup(u.next_row_out, u.spare_full) = 0
      BY <2>1, <1>1, <1>4, Parameters, <2>3, <2>4, <3>2, <3>3 DEF ImageOK, V,
         max_v_samp_factor, upsampler
    <3>5. ~ u.consumed => Pending + u.num_rows
                            = InGroup(u.next_row_out, u.spare_full)
      BY <2>1, <2>3, <2>4, <3>2, <1>1, <2>2 DEF full
    <3> QED
      BY <2>1, <3>1, <3>4, <3>5, <1>1, <2>2 DEF Counted, left
  <2> QED
    BY <2>5 DEF u
<1>5. CASE upsampler = "merged_1v"
  <2>1. /\ u.num_rows = 1 /\ DOMAIN u.lines = 0 .. 0
        /\ u.consumed = TRUE /\ u.next_row_out = next_row_out
        /\ u.spare_full = spare_full
    BY <1>5 DEF merged_1v_upsample, Upsampled
  <2> HIDE DEF u
  <2>2. /\ Pending + u.num_rows = V
        /\ InGroup(u.next_row_out, u.spare_full) = 0
    BY <2>1, <1>1, <1>5, Parameters DEF Pending, ImageOK, V, max_v_samp_factor, upsampler,
       InGroup
  <2>3. u.consumed
    BY <2>1, Zenon
  <2>4. Counted(u)
    BY <2>2, <1>1, <1>2, <2>1, <2>3 DEF Counted, left
  <2> QED
    BY <2>4 DEF u
<1> QED
  BY <1>3, <1>4, <1>5, <1>1, Parameters DEF ImageOK, upsampler

-----------------------------------------------------------------------------
(* What a step that keeps the image does not change.                       *)
LEMMA SameImage ==
  ASSUME image' = image
  PROVE  /\ V' = V /\ OH' = OH /\ TR' = TR /\ M' = M
         /\ need_context_rows' = need_context_rows
         /\ upsampler' = upsampler /\ quantize' = quantize
         /\ LastComponent' = LastComponent
         /\ \A c : /\ RowGroupsLeft(c)' = RowGroupsLeft(c)
                   /\ ListRows(c)' = ListRows(c)
                   /\ WorkRows(c)' = WorkRows(c)
         /\ \A n, b : InGroup(n, b)' = InGroup(n, b)
BY DEF V, OH, TR, M, max_v_samp_factor, need_context_rows, upsampler,
       quantize, LastComponent, RowGroupsLeft, rows_left, rgroup, ListRows,
       WorkRows, InGroup

(* The effect of a call of the post controller on everything but the main  *)
(* controller: rows are delivered, and the counters of upsampler and post  *)
(* controller agree with output_scanline.                                  *)
LEMMA PostProcessCounts ==
  ASSUME IndInv, at = "feed", image' = image, pass' = pass,
         PostProcess(Upsampled(Room))
  PROVE  LET u == Upsampled(Room) IN
         /\ PostOK' /\ output_scanline' \in 0 .. OH
         /\ output_scanline' > output_scanline
         /\ got' # NoLines
         /\ u.consumed \in BOOLEAN
         /\ u.consumed => /\ output_scanline' + Pending = output_scanline + V
                          /\ Pending' = 0
         /\ ~ u.consumed => output_scanline' + Pending
                              = output_scanline + Pending'
         /\ upsampler # "merged_1v" => rows_to_go' = OH' - output_scanline'
         /\ rows_to_go' \in 0 .. OH /\ next_row_out' \in 0 .. V
         /\ spare_full' \in BOOLEAN /\ next_row' \in 0 .. V - 1
         /\ out_row_ctr' \in Nat
<1> DEFINE u == Upsampled(Room)
           n == u.num_rows
<1>1. /\ Counted(u) /\ Room \in Nat \ {0}
      /\ pass = "SAVE_AND_PASS" => Room <= V - next_row
  BY UpsamplerCounts, RoomForOne
<1>2. PostProcess(u)
  OBVIOUS
<1> HIDE DEF u
<1>3. n \in Nat \ {0} /\ n <= OH - output_scanline /\ n <= Room
  BY <1>1 DEF Counted
<1>4. /\ image \in Images /\ rows_to_go \in 0 .. OH
      /\ next_row \in 0 .. V - 1 /\ output_scanline \in 0 .. OH
      /\ out_row_ctr \in Nat /\ Running
      /\ upsampler # "merged_1v" => rows_to_go = OH - output_scanline
  BY DEF IndInv, TypeOK, CallOK, RowsOK, V, OH, strip_height,
         max_v_samp_factor
<1>5. V \in 1 .. 4 /\ OH \in Nat /\ strip_height = V
  BY <1>4, Parameters DEF V, strip_height, max_v_samp_factor
<1>6. /\ V' = V /\ OH' = OH /\ quantize' = quantize
      /\ \A i, b : InGroup(i, b)' = InGroup(i, b)
  BY SameImage
<1>7. /\ out_row_ctr' = out_row_ctr + n
      /\ output_scanline' = output_scanline + n
      /\ output_scanline + 0 \in DOMAIN got'
  <2>1. 0 \in DOMAIN u.lines
    BY <1>1, <1>3 DEF Counted
  <2> QED
    BY <1>2, <2>1 DEF PostProcess, Emit
<1>8. /\ output_scanline' \in 0 .. OH /\ output_scanline' > output_scanline
      /\ out_row_ctr' \in Nat
  BY <1>3, <1>4, <1>5, <1>7
<1>9. /\ next_row_out' = u.next_row_out /\ spare_full' = u.spare_full
      /\ next_row_out' \in 0 .. V /\ spare_full' \in BOOLEAN
      /\ u.consumed \in BOOLEAN
  BY <1>1, <1>2 DEF PostProcess, Counted
<1>10. Pending' = InGroup(u.next_row_out, u.spare_full)
  BY <1>6, <1>9 DEF Pending
<1>11. /\ u.consumed => /\ output_scanline' + Pending = output_scanline + V
                        /\ Pending' = 0
       /\ ~ u.consumed => output_scanline' + Pending
                            = output_scanline + Pending'
  <2>1. Pending \in Int /\ Pending' \in Int
    BY <1>5, <1>9, <1>10 DEF InGroup, IndInv, TypeOK, V, Pending
  <2> HIDE DEF Pending
  <2>2. u.consumed => Pending + n = V /\ Pending' = 0
    BY <1>1, <1>10 DEF Counted
  <2>3. ~ u.consumed => Pending + n = Pending'
    BY <1>1, <1>10 DEF Counted
  <2> QED
    BY <1>3, <1>4, <1>5, <1>7, <2>1, <2>2, <2>3
<1>12. /\ upsampler # "merged_1v" => rows_to_go' = OH' - output_scanline'
       /\ rows_to_go' \in 0 .. OH
  BY <1>3, <1>4, <1>5, <1>6, <1>7, <1>2 DEF PostProcess
<1>13. PostOK' /\ next_row' \in 0 .. V - 1
  <2>1. PostOK
    BY DEF IndInv
  <2>2. CASE pass = "SAVE_AND_PASS"
    <3>1. /\ strip' = IF next_row = 0 THEN starting_row ELSE strip
          /\ IF next_row + n >= V
             THEN starting_row' = starting_row + V /\ next_row' = 0
             ELSE next_row' = next_row + n /\ starting_row' = starting_row
      BY <1>2, <1>5, <2>2 DEF PostProcess, AdvanceStrip
    <3>2. PICK s \in Nat : starting_row = V * s
      BY <2>1 DEF PostOK
    <3>3. /\ starting_row \in Nat /\ quantize = "2pass"
          /\ output_scanline = starting_row + next_row
          /\ strip = NoStrip \/ (\E t \in Nat : strip = V * t /\ strip < OH)
      BY <2>1, <2>2 DEF PostOK
    <3>4. strip' = NoStrip \/ (\E t \in Nat : strip' = V * t /\ strip' < OH)
      BY <1>4, <3>1, <3>2, <3>3 DEF IndInv, CallOK
    <3>5. \E t \in Nat : starting_row' = V * t
      <4>1. starting_row' = V * (s + 1) \/ starting_row' = V * s
        BY <3>1, <3>2, <1>5
      <4> QED
        BY <4>1
    <3>6. /\ starting_row' \in Nat /\ next_row' \in 0 .. V - 1
          /\ output_scanline' = starting_row' + next_row'
      BY <1>3, <1>4, <1>5, <1>7, <3>1, <1>1, <2>2, <3>3
    <3> QED
      BY <1>6, <2>2, <3>3, <3>4, <3>5, <3>6 DEF PostOK
  <2>3. CASE pass # "SAVE_AND_PASS"
    BY <1>2, <2>3, <1>4, <1>6, <2>1 DEF PostProcess, Running, PostOK
  <2> QED
    BY <2>2, <2>3
<1> QED
  BY <1>7, <1>8, <1>9, <1>11, <1>12, <1>13 DEF u, NoLines

-----------------------------------------------------------------------------
(* The main controller counts the row groups.                              *)

(* What IndInv says inside a call that feeds the upsampler.                *)
LEMMA Feeding ==
  ASSUME IndInv, at = "feed"
  PROVE  /\ image \in Images /\ Running /\ buffer_full
         /\ output_iMCU_row \in 1 .. TR /\ Earlier = output_iMCU_row - 1
         /\ Earlier \in 0 .. TR - 1
         /\ output_scanline \in 0 .. OH /\ output_scanline < OH
         /\ output_scanline = V * GroupsGone + Pending
         /\ Pending \in Nat
         /\ V \in 1 .. 4 /\ M \in {1, 2, 4, 8} /\ OH \in Nat /\ TR \in Nat
         /\ rowgroup_ctr \in 0 .. M + 2 /\ GroupsGone \in Int
<1>1. /\ image \in Images /\ Running /\ buffer_full
      /\ rowgroup_ctr \in 0 .. M + 2 /\ output_scanline < OH
      /\ output_scanline \in 0 .. OH /\ next_row_out \in 0 .. V
  BY DEF IndInv, TypeOK, CallOK, V
<1>2. V \in 1 .. 4 /\ M \in {1, 2, 4, 8} /\ OH \in Nat /\ TR \in Nat
  BY <1>1, Parameters
<1>3. output_iMCU_row \in 1 .. TR
  BY <1>1, <1>2 DEF IndInv, MainOK
<1>4. Earlier = output_iMCU_row - 1
  BY <1>1 DEF Earlier
<1>5. GroupsGone \in Int
  BY <1>1, <1>2, <1>3, <1>4 DEF GroupsGone
<1> QED
  BY <1>1, <1>2, <1>3, <1>4, <1>5 DEF IndInv, RowsOK, AllDone, Pending, InGroup

(* The row groups used up, once the upsampler has been called.             *)
LEMMA RowsAgree ==
  ASSUME IndInv, at = "feed", image' = image, pass' = pass,
         PostProcess(Upsampled(Room)),
         GroupsGone' = GroupsGone
                         + (IF Upsampled(Room).consumed THEN 1 ELSE 0)
  PROVE  output_scanline' = V' * GroupsGone' + Pending'
<1> DEFINE u == Upsampled(Room)
<1>1. /\ u.consumed \in BOOLEAN
      /\ u.consumed => /\ output_scanline' + Pending = output_scanline + V
                       /\ Pending' = 0
      /\ ~ u.consumed => output_scanline' + Pending
                           = output_scanline + Pending'
      /\ output_scanline' \in 0 .. OH /\ next_row_out' \in 0 .. V
      /\ V' = V /\ \A n, b : InGroup(n, b)' = InGroup(n, b)
  BY PostProcessCounts, SameImage
<1>2. /\ output_scanline = V * GroupsGone + Pending
      /\ V \in 1 .. 4 /\ GroupsGone \in Int /\ Pending \in Nat
      /\ OH \in Nat /\ output_scanline \in 0 .. OH
  BY Feeding
<1>3. Pending' \in Int
  BY <1>1, <1>2 DEF Pending, InGroup
<1>4. GroupsGone' = GroupsGone + (IF u.consumed THEN 1 ELSE 0)
  OBVIOUS
<1> HIDE DEF u, Pending, GroupsGone
<1>5. CASE u.consumed
  <2>1. V' * GroupsGone' = V * GroupsGone + V
    BY <1>1, <1>2, <1>4, <1>5
  <2>2. output_scanline' + Pending = output_scanline + V /\ Pending' = 0
    BY <1>1, <1>5, Zenon
  <2>3. output_scanline' \in Int
    BY <1>1, <1>2
  <2>4. /\ V * GroupsGone \in Int /\ V \in Int /\ Pending \in Int
        /\ output_scanline' + Pending = V * GroupsGone + Pending + V
    BY <1>2, <2>2
  <2> DEFINE o == output_scanline'
             x == V * GroupsGone
             p == Pending
             v == V
  <2>5. /\ o \in Int /\ x \in Int /\ p \in Int /\ v \in Int
        /\ o + p = x + p + v
    BY <2>3, <2>4
  <2> HIDE DEF o, x, p, v
  <2> QED
    BY <2>1, <2>2, <2>5 DEF o, x, v
<1>6. CASE ~ u.consumed
  <2>1. V' * GroupsGone' = V * GroupsGone
    BY <1>1, <1>2, <1>4, <1>6
  <2>2. output_scanline' + Pending = output_scanline + Pending'
    BY <1>1, <1>6, Zenon
  <2>3. output_scanline' \in Int
    BY <1>1, <1>2
  <2> QED
    BY <1>2, <1>3, <2>1, <2>2, <2>3
<1> QED
  BY <1>5, <1>6

(* A set of lists whose pointers are in the workspace, or not set.         *)
ListsOK(lists) ==
    /\ DOMAIN lists = {0, 1}
    /\ \A w \in {0, 1} : \A c \in Component(image) : \A i \in ListRows(c) :
          lists[w][c][i] \in WorkRows(c) \cup {Garbage}

LEMMA ListsNow == ASSUME IndInv PROVE ListsOK(xbuffer)
BY DEF IndInv, TypeOK, ListsOK

(* The types that a call of the post controller and the counters of the    *)
(* main controller leave to be shown.                                      *)
LEMMA FeedTypes ==
  ASSUME IndInv, at = "feed", image' = image, pass' = pass,
         PostProcess(Upsampled(Room)), ListsOK(xbuffer'),
         buffer_full' \in BOOLEAN, whichptr' \in {0, 1},
         context_state' \in {"POSTPONED_ROW", "PREPARE_FOR_IMCU",
                             "PROCESS_IMCU"},
         rowgroup_ctr' \in 0 .. M + 2, rowgroups_avail' \in 0 .. M + 2,
         at' \in {"idle", "feed"}
  PROVE  TypeOK' /\ DOMAIN xbuffer' = {0, 1}
BY PostProcessCounts, SameImage DEF IndInv, ListsOK, TypeOK, V, OH, max_v_samp_factor,
   strip_height

LEMMA FeedSimpleKeeps == ASSUME IndInv, FeedSimple PROVE IndInv'
<1> DEFINE u == Upsampled(Room)
<1>1. /\ at = "feed" /\ ~ need_context_rows /\ PostProcess(u)
      /\ at' = "idle"
      /\ IF GroupsDone(u) >= M
         THEN buffer_full' = FALSE /\ rowgroup_ctr' = 0
         ELSE rowgroup_ctr' = GroupsDone(u) /\ buffer_full' = buffer_full
      /\ UNCHANGED <<image, pass, output_iMCU_row, buffer, whichptr,
                     context_state, rowgroups_avail, iMCU_row_ctr, xbuffer,
                     out_rows_avail>>
  BY DEF FeedSimple, Return
<1>2. /\ PostOK' /\ output_scanline' \in 0 .. OH
      /\ u.consumed \in BOOLEAN
      /\ u.consumed => /\ output_scanline' + Pending = output_scanline + V
                       /\ Pending' = 0
      /\ ~ u.consumed => output_scanline' + Pending
                           = output_scanline + Pending'
      /\ upsampler # "merged_1v" => rows_to_go' = OH' - output_scanline'
      /\ out_row_ctr' \in Nat /\ next_row_out' \in 0 .. V
  BY <1>1, PostProcessCounts
<1>3. /\ V' = V /\ OH' = OH /\ TR' = TR /\ M' = M
      /\ need_context_rows' = need_context_rows /\ upsampler' = upsampler
  BY <1>1, SameImage
<1>4. /\ Running /\ buffer_full /\ Earlier = output_iMCU_row - 1
      /\ output_iMCU_row \in 1 .. TR
      /\ output_scanline = V * GroupsGone + Pending
      /\ V \in 1 .. 4 /\ M \in {1, 2, 4, 8} /\ OH \in Nat
      /\ output_scanline \in 0 .. OH
      /\ GroupsGone \in Int /\ Pending \in Nat
      /\ GroupsGone = M * Earlier + rowgroup_ctr
      /\ rowgroup_ctr \in 0 .. M - 1
  BY <1>1, Feeding DEF IndInv, MainOK, GroupsGone
<1>5. GroupsDone(u) = rowgroup_ctr + (IF u.consumed THEN 1 ELSE 0)
  BY DEF GroupsDone
<1> HIDE DEF u
<1>6. /\ buffer_full' \in BOOLEAN /\ rowgroup_ctr' \in 0 .. M - 1
      /\ ~ buffer_full' => rowgroup_ctr' = 0
  <2>1. GroupsDone(u) >= M => rowgroup_ctr' = 0
    BY <1>1
  <2>2. ~ (GroupsDone(u) >= M) => rowgroup_ctr' = GroupsDone(u) /\ buffer_full'
    BY <1>1, <1>4
  <2>3. rowgroup_ctr' \in 0 .. M - 1
    BY <1>4, <1>2, <1>5, <2>1, <2>2
  <2>4. ~ buffer_full' => rowgroup_ctr' = 0
    BY <2>1, <2>2, Zenon
  <2> QED
    BY <1>1, <1>4, <2>3, <2>4, Zenon
<1>7. M * Earlier' + rowgroup_ctr' = GroupsGone + (IF u.consumed THEN 1 ELSE 0)
  <2>1. CASE GroupsDone(u) >= M
    <3>1. Earlier' = Earlier + 1 /\ rowgroup_ctr' = 0
      BY <1>1, <1>4, <2>1 DEF Earlier
    <3>2. M * (Earlier + 1) = M * Earlier + M
      BY <1>4
    <3> QED
      BY <1>4, <1>5, <1>2, <2>1, <3>1, <3>2
  <2>2. CASE ~ (GroupsDone(u) >= M)
    <3>1. Earlier' = Earlier /\ rowgroup_ctr' = GroupsDone(u)
      BY <1>1, <2>2 DEF Earlier
    <3> QED
      BY <1>4, <1>5, <3>1
  <2> QED
    BY <2>1, <2>2
<1>8. output_scanline' = V' * GroupsGone' + Pending'
  BY <1>1, <1>3, <1>7, RowsAgree DEF u, GroupsGone
<1>9. MainOK'
  BY <1>1, <1>3, <1>4, <1>6 DEF MainOK
<1>10. TypeOK' /\ DOMAIN xbuffer' = {0, 1}
  BY <1>4, <1>6, <1>1, FeedTypes, ListsNow DEF IndInv, TypeOK, u
<1> QED
  BY <1>2, <1>3, <1>1, <1>8, <1>9, <1>10 DEF IndInv, RowsOK, AllDone, CallOK

(* The parts of IndInv that a call which feeds the upsampler leaves to be  *)
(* shown: those of the main controller.                                    *)
LEMMA FeedKeeps ==
  ASSUME IndInv, at = "feed", image' = image, pass' = pass,
         PostProcess(Upsampled(Room)), need_context_rows,
         MainOK', TypeOK', DOMAIN xbuffer' = {0, 1}, ~ AllDone',
         GroupsGone' = GroupsGone
                         + (IF Upsampled(Room).consumed THEN 1 ELSE 0),
         at' = "idle", out_rows_avail' = out_rows_avail
  PROVE  IndInv'
BY PostProcessCounts, SameImage, RowsAgree DEF RowsOK, IndInv, CallOK

(* The first component, from which the row groups left are taken.          *)
LEMMA ContextImage ==
  ASSUME image \in Images, need_context_rows
  PROVE  LastComponent \in Component(image) /\ M \in {2, 4, 8}
BY Parameters DEF ImageOK, need_context_rows, NeedContextRows, LastComponent, M

LEMMA FeedPostponedKeeps == ASSUME IndInv, FeedPostponed PROVE IndInv'
<1> DEFINE u == Upsampled(Room)
<1>1. /\ at = "feed" /\ need_context_rows
      /\ context_state = "POSTPONED_ROW" /\ PostProcess(u)
      /\ rowgroup_ctr' = GroupsDone(u)
      /\ IF GroupsDone(u) < rowgroups_avail
         THEN at' = "idle" /\ context_state' = context_state
         ELSE /\ context_state' = "PREPARE_FOR_IMCU"
              /\ IF out_row_ctr' >= out_rows_avail THEN at' = "idle"
                                                   ELSE at' = at
      /\ UNCHANGED <<image, pass, output_iMCU_row, buffer, whichptr,
                     buffer_full, rowgroups_avail, iMCU_row_ctr, xbuffer,
                     out_rows_avail>>
  BY DEF FeedPostponed, Return
<1>2. /\ PostOK' /\ output_scanline' \in 0 .. OH
      /\ u.consumed \in BOOLEAN
      /\ u.consumed => Pending' = 0
      /\ upsampler # "merged_1v" => rows_to_go' = OH' - output_scanline'
      /\ out_row_ctr' \in Nat
  BY <1>1, PostProcessCounts
<1>3. /\ V' = V /\ OH' = OH /\ TR' = TR /\ M' = M
      /\ need_context_rows' = need_context_rows /\ upsampler' = upsampler
      /\ LastComponent' = LastComponent
      /\ \A c : RowGroupsLeft(c)' = RowGroupsLeft(c)
  BY <1>1, SameImage
<1>4. /\ Running /\ buffer_full /\ Earlier = output_iMCU_row - 1
      /\ Earlier \in 0 .. TR - 1 /\ output_iMCU_row \in 1 .. TR
      /\ V \in 1 .. 4 /\ M \in {1, 2, 4, 8} /\ OH \in Nat /\ TR \in Nat
      /\ image \in Images
  BY <1>1, Feeding
<1>5. /\ rowgroup_ctr = M + 1 /\ rowgroups_avail = M + 2
      /\ Earlier > 0 /\ iMCU_row_ctr = output_iMCU_row
      /\ GroupsGone = M * Earlier - 1
  BY <1>1, <1>4 DEF IndInv, MainOK, GroupsGone
<1>6. GroupsDone(u) = rowgroup_ctr + (IF u.consumed THEN 1 ELSE 0)
  BY DEF GroupsDone
<1> HIDE DEF u
<1>7. Earlier' = Earlier /\ Running' /\ buffer_full' = buffer_full
  BY <1>1, <1>4 DEF Earlier, Running
<1>8. TypeOK' /\ DOMAIN xbuffer' = {0, 1}
  BY <1>1, <1>2, <1>4, <1>5, <1>6, FeedTypes, ListsNow DEF IndInv, TypeOK, u
<1>9. CASE ~ u.consumed
  <2>1. GroupsDone(u) < rowgroups_avail /\ rowgroup_ctr' = M + 1
    BY <1>1, <1>4, <1>5, <1>6, <1>9
  <2>2. at' = "idle" /\ context_state' = "POSTPONED_ROW"
    BY <1>1, <2>1
  <2>3. MainOK'
    BY <1>1, <1>3, <1>4, <1>5, <1>7, <2>1, <2>2 DEF MainOK
  <2>4. GroupsGone' = GroupsGone + (IF u.consumed THEN 1 ELSE 0)
    BY <1>1, <1>3, <1>7, <2>2, <1>4, <1>5, <1>9 DEF GroupsGone
  <2> QED
    BY <1>1, <1>8, <2>2, <2>3, <2>4, <1>4, <1>7, FeedKeeps DEF u, AllDone
<1>10. CASE u.consumed
  <2>1. /\ context_state' = "PREPARE_FOR_IMCU"
        /\ IF out_row_ctr' >= out_rows_avail THEN at' = "idle"
                                             ELSE at' = "feed"
    BY <1>1, <1>4, <1>5, <1>6, <1>10
  <2>2. MainOK'
    BY <1>1, <1>3, <1>4, <1>5, <1>7, <2>1 DEF MainOK
  <2>3. GroupsGone' = GroupsGone + (IF u.consumed THEN 1 ELSE 0)
    BY <1>1, <1>3, <1>7, <2>1, <1>4, <1>5, <1>10 DEF GroupsGone
  <2>4. output_scanline' = V' * GroupsGone' + Pending'
    BY <1>1, <2>3, RowsAgree DEF u
  <2>5. RowsOK'
    BY <1>2, <1>3, <1>4, <1>7, <2>4 DEF RowsOK, AllDone
  <2>6. output_scanline' < OH
    <3>1. M * Earlier \in Nat /\ Earlier \in Nat /\ Earlier < TR
      BY <1>4
    <3>2. output_scanline' = V * (M * Earlier) + 0
      BY <1>3, <2>4, <1>1, <1>2, <1>7, <1>10, <2>1 DEF GroupsGone
    <3> QED
      BY <1>4, <3>1, BeginsInside, <3>2
  <2>7. CallOK'
    BY <1>1, <2>1, <1>2, <1>3, <1>4, <1>7, <2>6 DEF IndInv, CallOK
  <2> QED
    BY <1>2, <1>3, <1>8, <2>2, <2>5, <2>7 DEF IndInv
<1> QED
  BY <1>2, <1>9, <1>10

-----------------------------------------------------------------------------
(* The pointer lists.                                                      *)

(* Sizes of the lists, for a component in the context case.                *)
LEMMA ListSizes ==
  ASSUME image \in Images, need_context_rows, NEW c \in Component(image)
  PROVE  /\ rgroup(c) \in Nat \ {0} /\ M \in {2, 4, 8}
         /\ ListRows(c) = -rgroup(c) .. rgroup(c) * (M + 3) - 1
         /\ WorkRows(c) = 0 .. rgroup(c) * (M + 2) - 1
         /\ rows_left(c) \in 1 .. rgroup(c) * M
<1>1. ImageOK(image) /\ M \in {2, 4, 8}
  BY Parameters, ContextImage
<1>2. /\ rgroup(c) \in Nat \ {0} /\ iMCUheight(image, c) = rgroup(c) * M
      /\ image.max_v_samp_factor \in Nat \ {0}
      /\ image.image_height \in Nat \ {0}
  BY <1>1, HeightInRowGroups DEF rgroup, M
<1>3. rgroup(c) * M \in Nat \ {0}
  BY <1>1, <1>2
<1>4. downsampled_height(image, c) \in Nat
  <2> DEFINE h == iMCUheight(image, c)
  <2>1. image.image_height * h \in Nat \ {0}
    BY <1>2, <1>3
  <2> QED
    BY <2>1, <1>2, CeilPositive DEF downsampled_height
<1>5. rows_left(c) \in 1 .. rgroup(c) * M
  <2> DEFINE n == rgroup(c) * M
             rest == downsampled_height(image, c) % n
  <2>1. rest \in 0 .. n - 1
    BY <1>3, <1>4, DivMod
  <2>2. rows_left(c) = IF rest = 0 THEN n ELSE rest
    BY <1>2 DEF rows_left
  <2> HIDE DEF n, rest
  <2>3. n \in Nat \ {0}
    BY <1>3 DEF n
  <2>4. rows_left(c) \in 1 .. n
    BY <2>1, <2>2, <2>3
  <2> QED
    BY <2>4 DEF n
<1> QED
  BY <1>1, <1>2, <1>5 DEF ListRows, WorkRows

(* An index of a list, in multiples of the row group.                      *)
LEMMA Products ==
  ASSUME NEW g \in Nat \ {0}, NEW m \in {2, 4, 8}
  PROVE  /\ g * (m + 3) = g * m + 3 * g /\ g * (m + 2) = g * m + 2 * g
         /\ g * (m - 2) = g * m - 2 * g /\ g * m >= 2 * g /\ g * m \in Nat
OBVIOUS

LEMMA FunnyPointers ==
  ASSUME image \in Images, need_context_rows, ListsOK(xbuffer)
  PROVE  ListsOK(make_funny_pointers)
<1> SUFFICES ASSUME NEW w \in {0, 1}, NEW c \in Component(image),
                    NEW i \in ListRows(c)
             PROVE  make_funny_pointers[w][c][i] \in WorkRows(c) \cup {Garbage}
  BY DEF ListsOK, make_funny_pointers
<1> DEFINE g == rgroup(c)
           x == xbuffer[w][c][i]
<1>1. /\ g \in Nat \ {0} /\ M \in {2, 4, 8} /\ i \in Int
      /\ WorkRows(c) = 0 .. g * (M + 2) - 1
  BY ListSizes, SMTT(20)
<1>2. x \in WorkRows(c) \cup {Garbage}
  BY DEF ListsOK
<1>3. make_funny_pointers[w][c][i] =
        IF i \in 0 .. g * (M + 2) - 1
        THEN IF w = 0 \/ i < g * (M - 2) THEN i
             ELSE IF i < g * M THEN i + 2 * g ELSE i - 2 * g
        ELSE IF w = 0 /\ i < 0 THEN 0 ELSE x
  BY DEF make_funny_pointers
<1> HIDE DEF g, x
<1>4. /\ g * (M + 2) = g * M + 2 * g /\ g * (M - 2) = g * M - 2 * g
      /\ g * M >= 2 * g /\ g * M \in Nat
  BY <1>1, Products
<1>5. CASE i \in 0 .. g * (M + 2) - 1
  BY <1>1, <1>3, <1>4, <1>5
<1>6. CASE ~ (i \in 0 .. g * (M + 2) - 1)
  BY <1>3, <1>6, <1>1, <1>4, <1>2
<1> QED
  BY <1>5, <1>6

LEMMA WraparoundPointers ==
  ASSUME image \in Images, need_context_rows, ListsOK(xbuffer)
  PROVE  ListsOK(set_wraparound_pointers)
<1> SUFFICES ASSUME NEW w \in {0, 1}, NEW c \in Component(image),
                    NEW i \in ListRows(c)
             PROVE  set_wraparound_pointers[w][c][i]
                      \in WorkRows(c) \cup {Garbage}
  BY DEF ListsOK, set_wraparound_pointers
<1> DEFINE g == rgroup(c)
           j == IF i < 0 THEN g * (M + 2) + i
                ELSE IF i >= g * (M + 2) THEN i - g * (M + 2) ELSE i
<1>1. /\ g \in Nat \ {0} /\ M \in {2, 4, 8}
      /\ ListRows(c) = -g .. g * (M + 3) - 1
  BY ListSizes
<1>2. j \in ListRows(c)
  <2> HIDE DEF g
  <2> QED
    BY <1>1, Products
<1> QED
  BY <1>2 DEF ListsOK, set_wraparound_pointers

LEMMA BottomPointers ==
  ASSUME image \in Images, need_context_rows, ListsOK(xbuffer),
         whichptr \in {0, 1}
  PROVE  ListsOK(set_bottom_pointers)
<1> SUFFICES ASSUME NEW w \in {0, 1}, NEW c \in Component(image),
                    NEW i \in ListRows(c)
             PROVE  set_bottom_pointers[w][c][i] \in WorkRows(c) \cup {Garbage}
  BY DEF ListsOK, set_bottom_pointers
<1> DEFINE j == rows_left(c) - 1
<1>1. j \in ListRows(c)
  <2> DEFINE g == rgroup(c)
  <2>1. /\ g \in Nat \ {0} /\ M \in {2, 4, 8}
        /\ ListRows(c) = -g .. g * (M + 3) - 1
        /\ rows_left(c) \in 1 .. g * M
    BY ListSizes
  <2> HIDE DEF g
  <2> QED
    BY <2>1, Products
<1> QED
  BY <1>1 DEF ListsOK, set_bottom_pointers

-----------------------------------------------------------------------------
(* The third case of process_data_context_main, after which the pointer    *)
(* lists may be rearranged.                                                *)
LEMMA ProcessIMCUKeeps == ASSUME IndInv, ProcessIMCU PROVE IndInv'
<1> DEFINE u == Upsampled(Room)
           wrapped == IF iMCU_row_ctr = 1 THEN set_wraparound_pointers
                                          ELSE xbuffer
<1>1. /\ at = "feed" /\ need_context_rows
      /\ context_state = "PROCESS_IMCU" /\ PostProcess(u)
      /\ IF GroupsDone(u) < rowgroups_avail
         THEN /\ rowgroup_ctr' = GroupsDone(u)
              /\ UNCHANGED <<whichptr, buffer_full, rowgroups_avail,
                             context_state, xbuffer>>
         ELSE /\ xbuffer' = wrapped
              /\ whichptr' = 1 - whichptr /\ buffer_full' = FALSE
              /\ rowgroup_ctr' = M + 1 /\ rowgroups_avail' = M + 2
              /\ context_state' = "POSTPONED_ROW"
      /\ at' = "idle"
      /\ UNCHANGED <<image, pass, output_iMCU_row, buffer, iMCU_row_ctr,
                     out_rows_avail>>
  BY DEF ProcessIMCU, Return
<1>2. /\ PostOK' /\ output_scanline' \in 0 .. OH
      /\ u.consumed \in BOOLEAN
      /\ u.consumed => /\ output_scanline' + Pending = output_scanline + V
                       /\ Pending' = 0
      /\ upsampler # "merged_1v" => rows_to_go' = OH' - output_scanline'
      /\ out_row_ctr' \in Nat
  BY <1>1, PostProcessCounts
<1>3. /\ V' = V /\ OH' = OH /\ TR' = TR /\ M' = M
      /\ need_context_rows' = need_context_rows /\ upsampler' = upsampler
      /\ LastComponent' = LastComponent
      /\ \A c : RowGroupsLeft(c)' = RowGroupsLeft(c)
  BY <1>1, SameImage
<1>4. /\ Running /\ buffer_full /\ Earlier = output_iMCU_row - 1
      /\ Earlier \in 0 .. TR - 1 /\ output_iMCU_row \in 1 .. TR
      /\ V \in 1 .. 4 /\ OH \in Nat /\ TR \in Nat /\ image \in Images
      /\ output_scanline \in 0 .. OH
      /\ output_scanline = V * GroupsGone + Pending
  BY <1>1, Feeding
<1>5. /\ LastComponent \in Component(image) /\ M \in {2, 4, 8}
      /\ RowGroupsLeft(LastComponent) \in 1 .. M
      /\ RowGroupsInAll = M * (TR - 1) + RowGroupsLeft(LastComponent)
  BY <1>1, <1>4, ContextImage, LastRow
<1>6. /\ rowgroups_avail = IF output_iMCU_row = TR
                           THEN RowGroupsLeft(LastComponent) ELSE M - 1
      /\ rowgroup_ctr < rowgroups_avail /\ rowgroup_ctr \in 0 .. M + 2
      /\ iMCU_row_ctr = output_iMCU_row
      /\ GroupsGone = M * Earlier + rowgroup_ctr
  BY <1>1, <1>4 DEF IndInv, MainOK, GroupsGone, TypeOK
<1>7. GroupsDone(u) = rowgroup_ctr + (IF u.consumed THEN 1 ELSE 0)
  BY DEF GroupsDone
<1>8. TypeOK /\ DOMAIN xbuffer = {0, 1}
  BY DEF IndInv
<1> HIDE DEF u
<1>9. CASE GroupsDone(u) < rowgroups_avail
  <2>1. /\ rowgroup_ctr' = GroupsDone(u)
        /\ UNCHANGED <<whichptr, buffer_full, rowgroups_avail,
                       context_state, xbuffer>>
    BY <1>1, <1>9
  <2>2. Earlier' = Earlier /\ Running'
    BY <1>1, <1>4, <2>1 DEF Earlier, Running
  <2>3. rowgroup_ctr' \in 0 .. M + 2
    BY <1>2, <1>5, <1>6, <1>7, <1>9, <2>1
  <2>4. TypeOK' /\ DOMAIN xbuffer' = {0, 1}
    BY <1>1, <1>8, <2>1, <2>3, FeedTypes, ListsNow DEF TypeOK, u
  <2>5. MainOK'
    BY <1>1, <1>3, <1>4, <1>6, <1>9, <2>1, <2>2 DEF MainOK
  <2>6. GroupsGone' = GroupsGone + (IF u.consumed THEN 1 ELSE 0)
    BY <1>1, <1>3, <2>1, <2>2, <1>4, <1>5, <1>6, <1>7 DEF GroupsGone
  <2> QED
    BY <1>1, <2>4, <2>5, <2>6, <1>4, <2>1, FeedKeeps DEF u, AllDone
<1>10. CASE ~ (GroupsDone(u) < rowgroups_avail)
  <2>1. /\ xbuffer' = wrapped
        /\ whichptr' = 1 - whichptr /\ buffer_full' = FALSE
        /\ rowgroup_ctr' = M + 1 /\ rowgroups_avail' = M + 2
        /\ context_state' = "POSTPONED_ROW"
    BY <1>1, <1>10
  <2>2. u.consumed /\ rowgroup_ctr + 1 = rowgroups_avail
    BY <1>6, <1>7, <1>10, <1>5
  <2>3. Earlier' = Earlier + 1 /\ Running' /\ Earlier' = output_iMCU_row
    BY <1>1, <1>4, <2>1 DEF Earlier, Running
  <2>4. MainOK'
    BY <1>1, <1>3, <1>4, <1>6, <2>1, <2>3 DEF MainOK
  <2>5. TypeOK' /\ DOMAIN xbuffer' = {0, 1}
    <3>1. /\ whichptr' \in {0, 1} /\ buffer_full' \in BOOLEAN
          /\ rowgroup_ctr' \in 0 .. M + 2 /\ rowgroups_avail' \in 0 .. M + 2
      <4>1. whichptr' \in {0, 1}
        BY <2>1, <1>8 DEF TypeOK
      <4>2. buffer_full' \in BOOLEAN
        BY <2>1
      <4> QED
        BY <4>1, <1>5, <2>1, <4>2
    <3> QED
      BY <1>1, <2>1, <1>4, ListsNow, WraparoundPointers, <3>1, FeedTypes DEF u
  <2>6. M * (Earlier + 1) = M * Earlier + M /\ M * Earlier \in Int
    BY <1>4, <1>5
  <2>7. CASE output_iMCU_row # TR
    <3>1. GroupsGone' = GroupsGone + (IF u.consumed THEN 1 ELSE 0)
      BY <1>1, <1>3, <2>1, <2>3, <1>6, <2>2, <2>7, <1>5, <2>6 DEF GroupsGone
    <3> QED
      BY <1>1, <2>4, <2>5, <3>1, <1>3, <2>7, FeedKeeps DEF u, AllDone
  <2>8. CASE output_iMCU_row = TR
    <3>1. GroupsGone + 1 = RowGroupsInAll
      BY <1>6, <2>2, <2>8, <1>4, <1>5, <2>6
    <3>2. output_scanline' = V * (GroupsGone + 1)
      <4>1. output_scanline' = V' * (GroupsGone + 1) + 0
        <5> DEFINE g == GroupsGone
                   x == V * g
                   o == output_scanline'
                   p == Pending
                   v == V
        <5>1. /\ x \in Int /\ v \in Int /\ p \in Int /\ o \in Int
              /\ o + p = x + p + v
          <6>1. Pending \in Nat /\ GroupsGone \in Int
            BY <1>1, Feeding
          <6> HIDE DEF Pending, GroupsGone
          <6>2. V * GroupsGone \in Int
            BY <1>4, <6>1
          <6>3. output_scanline' + Pending = V * GroupsGone + Pending + V
            BY <1>4, <1>2, <2>2
          <6>4. V \in Int /\ Pending \in Int
            BY <1>4, <6>1
          <6> QED
            BY <6>2, <1>2, <1>4, <6>3, <6>4
        <5> HIDE DEF x, o, p, v
        <5>2. V * (g + 1) = V * g + V
          <6>1. g \in Int
            BY <1>1, Feeding
          <6> HIDE DEF g
          <6> QED
            BY <1>4, <6>1
        <5>3. V * (g + 1) \in Int
          <6>1. g \in Int
            BY <1>1, Feeding
          <6> HIDE DEF g
          <6> QED
            BY <1>4, <6>1
        <5> HIDE DEF g
        <5> QED
          BY <1>3, <5>3, <5>1, <5>2 DEF g, o, x, v
      <4>2. V * (GroupsGone + 1) \in Int
        <5> HIDE DEF GroupsGone
        <5> QED
          BY <1>4, <1>1, Feeding
      <4> HIDE DEF GroupsGone
      <4> QED
        BY <1>3, <4>1, <4>2
    <3>3. Complete'
      BY <3>1, <3>2, <1>4, Parameters, BeginsInside, <1>2, <1>3 DEF Complete, OH
    <3>4. RowsOK'
      BY <1>2, <1>3, <1>1, <2>1, <2>8, <3>3 DEF RowsOK, AllDone
    <3> QED
      BY <1>2, <1>3, <2>4, <2>5, <3>4, <1>1 DEF IndInv, CallOK
  <2> QED
    BY <2>7, <2>8
<1> QED
  BY <1>9, <1>10

LEMMA PrepareForIMCUKeeps == ASSUME IndInv, PrepareForIMCU PROVE IndInv'
<1>1. /\ at = "feed" /\ need_context_rows
      /\ context_state = "PREPARE_FOR_IMCU" /\ rowgroup_ctr' = 0
      /\ IF AtBottom
         THEN /\ xbuffer' = set_bottom_pointers
              /\ rowgroups_avail' = RowGroupsLeft(LastComponent)
         ELSE rowgroups_avail' = M - 1 /\ xbuffer' = xbuffer
      /\ context_state' = "PROCESS_IMCU"
      /\ UNCHANGED <<image, pass, output_scanline, got, output_iMCU_row,
                     buffer, buffer_full, whichptr, iMCU_row_ctr, next_row_out,
                     rows_to_go, color_buf, spare_full, spare_row, whole_image,
                     strip, starting_row, next_row, at, out_row_ctr,
                     out_rows_avail>>
  BY DEF PrepareForIMCU, upsample, post, args, LastComponent
<1>2. /\ V' = V /\ OH' = OH /\ TR' = TR /\ M' = M
      /\ need_context_rows' = need_context_rows /\ upsampler' = upsampler
      /\ quantize' = quantize /\ LastComponent' = LastComponent
      /\ \A c : /\ RowGroupsLeft(c)' = RowGroupsLeft(c)
                /\ ListRows(c)' = ListRows(c) /\ WorkRows(c)' = WorkRows(c)
      /\ \A n, b : InGroup(n, b)' = InGroup(n, b)
  BY <1>1, SameImage
<1>3. /\ Running /\ buffer_full /\ Earlier = output_iMCU_row - 1
      /\ Earlier \in 0 .. TR - 1 /\ output_iMCU_row \in 1 .. TR
      /\ V \in 1 .. 4 /\ OH \in Nat /\ TR \in Nat /\ image \in Images
      /\ output_scanline = V * GroupsGone + Pending
  BY <1>1, Feeding
<1>4. /\ M \in {2, 4, 8} /\ RowGroupsLeft(LastComponent) \in 1 .. M
  BY <1>1, <1>3, ContextImage, LastRow
<1>5. iMCU_row_ctr = output_iMCU_row
  BY <1>1, <1>3 DEF IndInv, MainOK
<1>6. rowgroups_avail' = IF output_iMCU_row = TR
                         THEN RowGroupsLeft(LastComponent) ELSE M - 1
  BY <1>1, <1>5 DEF AtBottom, TR
<1>7. rowgroups_avail' \in 1 .. M
  BY <1>4, <1>6
<1>8. Earlier' = Earlier /\ Running' /\ Pending' = Pending
  BY <1>1, <1>2, <1>3 DEF Earlier, Running, Pending
<1>9. RowsOK'
  <2>1. GroupsGone' = GroupsGone
    BY <1>1, <1>2, <1>8, <1>3, <1>4 DEF GroupsGone
  <2>2. output_scanline' = V' * GroupsGone' + Pending'
    <3> HIDE DEF GroupsGone, Pending
    <3> QED
      BY <1>1, <1>2, <1>3, <1>8, <2>1, Zenon
  <2> QED
    BY <1>2, <2>2, <1>1, <1>3 DEF RowsOK, AllDone, IndInv
<1>10. PostOK' /\ CallOK' /\ output_scanline' \in 0 .. OH'
  BY <1>1, <1>2, <1>8 DEF IndInv, PostOK, CallOK
<1>11. TypeOK' /\ DOMAIN xbuffer' = {0, 1}
  <2>1. TypeOK
    BY DEF IndInv
  <2>2. ListsOK(xbuffer')
    BY <2>1, <1>1, <1>3, ListsNow, BottomPointers DEF TypeOK
  <2>3. /\ rows_to_go' \in 0 .. output_height(image)'
        /\ next_row_out' \in 0 .. max_v_samp_factor'
        /\ next_row' \in 0 .. strip_height' - 1
    BY <1>1, <2>1 DEF TypeOK, max_v_samp_factor, strip_height, output_height
  <2> QED
    BY <1>1, <2>1, <1>2, <2>2, <1>4, <1>7, <2>3 DEF TypeOK, ListsOK
<1> QED
  BY <1>2, <1>1, <1>3, <1>5, <1>6, <1>7, <1>9, <1>10, <1>11 DEF IndInv, MainOK

-----------------------------------------------------------------------------
(* The coefficient controller.                                             *)

(* What TypeOK says of variables a step may leave alone, when the image    *)
(* stays.                                                                  *)
LEMMA UnchangedTypes ==
  ASSUME IndInv, image' = image
  PROVE  /\ rows_to_go' = rows_to_go => rows_to_go' \in 0 .. OH'
         /\ next_row_out' = next_row_out => next_row_out' \in 0 .. V'
         /\ next_row' = next_row => next_row' \in 0 .. V' - 1
         /\ rowgroup_ctr' = rowgroup_ctr => rowgroup_ctr' \in 0 .. M' + 2
         /\ rowgroups_avail' = rowgroups_avail
              => rowgroups_avail' \in 0 .. M' + 2
         /\ xbuffer' = xbuffer =>
              /\ DOMAIN xbuffer' = {0, 1}
              /\ \A w \in {0, 1} : \A c \in Component(image)' :
                    \A i \in ListRows(c)' :
                       xbuffer'[w][c][i] \in WorkRows(c)' \cup {Garbage}
BY SameImage DEF IndInv, TypeOK, V, OH, strip_height, max_v_samp_factor

(* An iMCU row is asked for only when there is one left.                   *)
LEMMA RowLeft ==
  ASSUME IndInv, at = "fill"
  PROVE  output_iMCU_row < TR
<1>1. /\ image \in Images /\ Running /\ ~ buffer_full
      /\ output_scanline < OH /\ output_scanline \in 0 .. OH
      /\ next_row_out \in 0 .. V
      /\ context_state \in {"POSTPONED_ROW", "PREPARE_FOR_IMCU",
                            "PROCESS_IMCU"}
  BY DEF IndInv, TypeOK, CallOK, V
<1>2. /\ V \in 1 .. 4 /\ M \in {1, 2, 4, 8} /\ OH \in Nat
      /\ TR \in Nat \ {0}
  BY <1>1, Parameters
<1>3. output_iMCU_row \in 0 .. TR /\ Earlier = output_iMCU_row
  BY <1>1 DEF IndInv, MainOK, Earlier
<1>4. CASE need_context_rows
  BY <1>1, <1>2, <1>4, <1>3 DEF IndInv, MainOK, Complete, OH, RowsOK, AllDone
<1>5. CASE ~ need_context_rows
  <2> DEFINE n == M * output_iMCU_row
  <2>1. n \in Nat
    BY <1>2, <1>3
  <2>2. GroupsGone = n
    BY <1>1, <1>5, <1>3, <2>1 DEF IndInv, MainOK, GroupsGone
  <2>3. Pending \in Nat
    BY <1>1, <1>2 DEF Pending, InGroup
  <2> HIDE DEF n
  <2>4. V * n < OH
    <3>1. V * n \in Nat
      BY <1>2, <2>1
    <3> HIDE DEF Pending
    <3> QED
      BY <1>1, <1>2, <1>5, <2>2, <2>3, <3>1 DEF IndInv, RowsOK, AllDone
  <2> QED
    BY <1>1, <1>2, <1>3, <2>1, <2>4, BeginsInside DEF n
<1> QED
  BY <1>4, <1>5

LEMMA FillKeeps == ASSUME IndInv, Fill PROVE IndInv'
<1>1. /\ at = "fill" /\ output_iMCU_row' = output_iMCU_row + 1
      /\ buffer_full' = TRUE /\ at' = "feed"
      /\ iMCU_row_ctr' = IF need_context_rows THEN iMCU_row_ctr + 1
                                              ELSE iMCU_row_ctr
      /\ UNCHANGED <<image, pass, output_scanline, got, rowgroup_ctr, whichptr,
                     context_state, rowgroups_avail, xbuffer, next_row_out,
                     rows_to_go, color_buf, spare_full, spare_row, whole_image,
                     strip, starting_row, next_row, out_row_ctr,
                     out_rows_avail>>
  BY DEF Fill, DecompressData, upsample, post
<1>2. /\ V' = V /\ OH' = OH /\ TR' = TR /\ M' = M
      /\ need_context_rows' = need_context_rows /\ upsampler' = upsampler
      /\ quantize' = quantize /\ LastComponent' = LastComponent
      /\ \A c : RowGroupsLeft(c)' = RowGroupsLeft(c)
      /\ \A n, b : InGroup(n, b)' = InGroup(n, b)
  BY <1>1, SameImage
<1>3. /\ image \in Images /\ Running /\ ~ buffer_full
      /\ output_scanline < OH /\ output_scanline \in 0 .. OH
  BY <1>1 DEF IndInv, TypeOK, CallOK
<1>4. output_iMCU_row < TR /\ output_iMCU_row \in 0 .. TR /\ TR \in Nat
      /\ M \in {1, 2, 4, 8}
  BY <1>1, <1>3, RowLeft, Parameters DEF IndInv, MainOK
<1>5. /\ Earlier' = Earlier /\ Running' /\ Pending' = Pending
      /\ Earlier = output_iMCU_row
  BY <1>1, <1>2, <1>3, <1>4 DEF Earlier, Running, Pending
<1>6. RowsOK'
  <2>1. ~ AllDone' /\ ~ AllDone
    BY <1>1, <1>4 DEF AllDone
  <2>2. output_scanline' = V' * GroupsGone' + Pending'
    <3> HIDE DEF GroupsGone, Pending
    <3> QED
      BY <1>1, <1>2, <1>5, <1>3, <2>1 DEF GroupsGone, IndInv, RowsOK
  <2> QED
    BY <1>2, <2>1, <2>2, <1>1, <1>3 DEF RowsOK, IndInv
<1>7. TypeOK' /\ DOMAIN xbuffer' = {0, 1}
  BY <1>1, UnchangedTypes DEF IndInv, TypeOK, V, OH, strip_height, max_v_samp_factor
<1> QED
  BY <1>1, <1>2, <1>3, <1>4, <1>5, <1>6, <1>7 DEF IndInv, MainOK, PostOK, CallOK

(* A step that moves only the call on the stack.                           *)
LEMMA StillRest ==
  ASSUME IndInv,
         at' \in {"idle", "fill", "feed", "crank"},
         UNCHANGED <<image, pass, output_scanline, output_iMCU_row, xbuffer,
                     buffer_full, rowgroup_ctr, whichptr, context_state,
                     rowgroups_avail, iMCU_row_ctr, next_row_out, rows_to_go,
                     spare_full, strip, starting_row, next_row>>
  PROVE  /\ TypeOK' /\ MainOK' /\ RowsOK' /\ PostOK'
         /\ output_scanline' \in 0 .. OH' /\ DOMAIN xbuffer' = {0, 1}
<1>1. /\ V' = V /\ OH' = OH /\ TR' = TR /\ M' = M
      /\ need_context_rows' = need_context_rows /\ upsampler' = upsampler
      /\ quantize' = quantize /\ LastComponent' = LastComponent
      /\ \A c : RowGroupsLeft(c)' = RowGroupsLeft(c)
      /\ \A n, b : InGroup(n, b)' = InGroup(n, b)
  BY SameImage
<1>2. /\ Earlier' = Earlier /\ (Running' <=> Running) /\ Pending' = Pending
      /\ (Complete' <=> Complete)
  BY <1>1 DEF Earlier, Running, Pending, Complete, OH
<1>3. RowsOK'
  <2> HIDE DEF GroupsGone, Pending
  <2> QED
    BY <1>1, <1>2 DEF IndInv, RowsOK, AllDone, GroupsGone
<1>4. TypeOK' /\ DOMAIN xbuffer' = {0, 1}
  BY UnchangedTypes DEF IndInv, TypeOK, V, OH, strip_height, max_v_samp_factor
<1> QED
  BY <1>1, <1>2, <1>3, <1>4 DEF IndInv, MainOK, PostOK

LEMMA SuspendKeeps == ASSUME IndInv, Suspend PROVE IndInv'
BY StillRest DEF Suspend, Return, main, upsample, post, IndInv, CallOK

-----------------------------------------------------------------------------
(* The calls.                                                              *)
LEMMA ProcessDataKeeps ==
  ASSUME IndInv, NEW n \in 0 .. MaxLines, ProcessData(n)
  PROVE  IndInv'
<1>1. /\ at = "idle" /\ pass # "none" /\ ~ Complete
      /\ pass = "SAVE_AND_PASS" <=> n = 0
      /\ out_row_ctr' = IF pass = "SAVE_AND_PASS" THEN output_scanline ELSE 0
      /\ out_rows_avail' = n
      /\ at' = IF pass = "CRANK_DEST" THEN "crank"
               ELSE IF buffer_full THEN "feed" ELSE "fill"
      /\ UNCHANGED <<image, pass, output_scanline, output_iMCU_row, xbuffer,
                     buffer_full, rowgroup_ctr, whichptr, context_state,
                     rowgroups_avail, iMCU_row_ctr, next_row_out, rows_to_go,
                     spare_full, strip, starting_row, next_row>>
  BY DEF ProcessData, main, upsample, post
<1>2. /\ output_scanline \in 0 .. OH /\ OH \in Nat /\ n \in Nat
      /\ pass \in Mode \cup {"none"} /\ buffer_full \in BOOLEAN
  BY Parameters, PipeAssumption DEF IndInv, TypeOK
<1>3. output_scanline < OH
  BY <1>1, <1>2 DEF Complete, OH
<1>4. CallOK'
  BY <1>1, <1>2, SameImage, <1>3 DEF Running, CallOK, Mode
<1> QED
  BY <1>1, <1>4, StillRest DEF IndInv

LEMMA StartPassKeeps ==
  ASSUME IndInv, NEW m \in Mode, StartPass(m)
  PROVE  IndInv'
<1>1. /\ at = "idle" /\ PassAllowed(m) /\ pass' = m /\ output_scanline' = 0
      /\ starting_row' = 0 /\ next_row' = 0
      /\ UNCHANGED <<image, at, out_row_ctr, out_rows_avail>>
  BY DEF StartPass, args
<1>2. /\ V' = V /\ OH' = OH /\ TR' = TR /\ M' = M
      /\ need_context_rows' = need_context_rows /\ upsampler' = upsampler
      /\ quantize' = quantize
      /\ \A c : ListRows(c)' = ListRows(c) /\ WorkRows(c)' = WorkRows(c)
      /\ \A n, b : InGroup(n, b)' = InGroup(n, b)
  BY <1>1, SameImage
<1>3. /\ image \in Images /\ V \in 1 .. 4 /\ OH \in Nat \ {0} /\ TR \in Nat
      /\ M \in {1, 2, 4, 8} /\ TypeOK /\ PostOK
  BY Parameters DEF IndInv, TypeOK
<1>4. CallOK'
  BY <1>1 DEF IndInv, CallOK
<1>5. output_scanline' \in 0 .. OH' /\ 0 = V * 0
  BY <1>1, <1>2, <1>3
<1>6. CASE m = "CRANK_DEST"
  <2>1. UNCHANGED <<output_iMCU_row, xbuffer, buffer_full, rowgroup_ctr,
                    whichptr, context_state, rowgroups_avail, iMCU_row_ctr,
                    next_row_out, rows_to_go, spare_full, strip>>
    BY <1>6 DEF StartPass, main, upsample
  <2>2. PostOK'
    BY <1>1, <1>3, <1>6, <2>1, <1>2, <1>5 DEF PassAllowed, PostOK
  <2>3. TypeOK' /\ DOMAIN xbuffer' = {0, 1}
    BY <1>1, <1>2, <1>3, <2>1, UnchangedTypes DEF TypeOK, V, OH, strip_height,
       max_v_samp_factor
  <2> QED
    BY <1>4, <1>5, <1>1, <1>6, <2>2, <2>3 DEF IndInv, MainOK, RowsOK, Running
<1>7. CASE m # "CRANK_DEST"
  <2>1. /\ output_iMCU_row' = 0 /\ next_row_out' = V /\ rows_to_go' = OH
        /\ spare_full' = FALSE
        /\ strip' = IF m = "PASS_THRU" /\ quantize = "2pass" /\ strip = NoStrip
                    THEN 0 ELSE strip
        /\ buffer_full' = FALSE /\ rowgroup_ctr' = 0
        /\ rowgroups_avail' = rowgroups_avail
    BY <1>7 DEF StartPass, V, OH, max_v_samp_factor
  <2>2. /\ need_context_rows => /\ xbuffer' = make_funny_pointers
                                /\ whichptr' = 0 /\ iMCU_row_ctr' = 0
                                /\ context_state' = "PREPARE_FOR_IMCU"
        /\ ~ need_context_rows => UNCHANGED <<xbuffer, whichptr, iMCU_row_ctr,
                                              context_state>>
    BY <1>7 DEF StartPass
  <2>3. Earlier' = 0 /\ Pending' = 0 /\ ~ AllDone'
    BY <1>2, <2>1, <1>3, <2>2 DEF Pending, InGroup, Earlier, AllDone
  <2>4. RowsOK'
    BY <1>2, <2>1, <2>2, <2>3, <1>3, <1>1 DEF GroupsGone, RowsOK
  <2>5. PostOK'
    <3>1. m = "SAVE_AND_PASS" => quantize = "2pass"
      BY <1>1 DEF PassAllowed
    <3>2. strip' = NoStrip \/ (\E s \in Nat : strip' = V * s /\ strip' < OH)
      <4>1. \E s \in Nat : 0 = V * s /\ 0 < OH
        BY <1>3, <1>5
      <4>2. strip' = 0 \/ strip' = strip
        BY <2>1
      <4> QED
        BY <1>3, <4>1, <4>2 DEF PostOK
    <3> QED
      BY <1>1, <1>2, <1>5, <1>7, <3>1, <3>2 DEF PostOK
  <2>6. TypeOK' /\ DOMAIN xbuffer' = {0, 1}
    <3>1. /\ DOMAIN xbuffer' = {0, 1}
          /\ \A w \in {0, 1} : \A c \in Component(image)' :
                \A i \in ListRows(c)' :
                   xbuffer'[w][c][i] \in WorkRows(c)' \cup {Garbage}
      BY <1>1, <1>2, <1>3, <2>2, ListsNow, FunnyPointers DEF ListsOK
    <3>2. rowgroups_avail' \in 0 .. M' + 2
      BY <1>1, <2>1, UnchangedTypes
    <3>3. /\ whichptr' \in {0, 1}
          /\ context_state' \in {"POSTPONED_ROW", "PREPARE_FOR_IMCU",
                                 "PROCESS_IMCU"}
      BY <1>3, <2>2 DEF TypeOK
    <3>4. /\ image' \in Images /\ pass' \in Mode \cup {"none"}
          /\ at' \in {"idle", "fill", "feed", "crank"}
          /\ buffer_full' \in BOOLEAN /\ spare_full' \in BOOLEAN
      BY <1>1, <1>3, <2>1
    <3> QED
      BY <3>1, <1>1, <1>2, <1>3, <2>1, <3>2, <3>3, <3>4 DEF TypeOK, V, OH, strip_height,
         max_v_samp_factor
  <2> QED
    BY <1>4, <1>5, <1>2, <1>3, <2>1, <2>2, <2>4, <2>5, <2>6 DEF IndInv, MainOK
<1> QED
  BY <1>6, <1>7

(* The second pass of two-pass quantization ends at the bottom of the      *)
(* image as long as a strip has at most two rows: see the run crank_bottom *)
(* for strips of more.                                                     *)
ShortStrips ==
    \A f \in Images : f.quantize = "2pass" => f.max_v_samp_factor <= 2

LEMMA CrankPostKeeps ==
  ASSUME ShortStrips, IndInv, CrankPost
  PROVE  IndInv' /\ got' # NoLines
<1> DEFINE left == out_rows_avail - out_row_ctr
           n == Min({strip_height - next_row, left,
                     output_height(image) - starting_row})
           first == IF next_row = 0 THEN starting_row ELSE strip
<1>1. /\ at = "crank" /\ strip' = first
      /\ Emit([i \in 0 .. n - 1 |-> whole_image[first + next_row + i]], n)
      /\ AdvanceStrip(next_row + n) /\ at' = "idle"
      /\ UNCHANGED <<image, pass, output_iMCU_row, xbuffer, buffer_full,
                     rowgroup_ctr, whichptr, context_state, rowgroups_avail,
                     iMCU_row_ctr, next_row_out, rows_to_go, spare_full,
                     out_rows_avail>>
  BY DEF CrankPost, Return, main, upsample
<1>2. /\ pass = "CRANK_DEST" /\ output_scanline < OH
      /\ out_row_ctr \in Nat /\ out_rows_avail \in Nat
      /\ out_row_ctr < out_rows_avail
  BY <1>1 DEF IndInv, CallOK
<1>3. /\ image \in Images /\ TypeOK /\ PostOK /\ quantize = "2pass"
      /\ next_row \in 0 .. V - 1 /\ output_scanline = starting_row + next_row
      /\ starting_row \in Nat /\ strip_height = V
      /\ output_scanline \in 0 .. OH
  BY <1>2 DEF IndInv, TypeOK, PostOK, V, strip_height, max_v_samp_factor
<1>4. V \in {1, 2} /\ OH \in Nat
  BY <1>3, Parameters DEF ShortStrips, V, max_v_samp_factor, quantize
<1>5. n \in Nat \ {0} /\ n <= V - next_row /\ n <= OH - starting_row
  <2> DEFINE a == strip_height - next_row
             b == output_height(image) - starting_row
  <2>1. /\ a \in Nat \ {0} /\ b \in Nat \ {0} /\ left \in Nat \ {0}
        /\ a = V - next_row /\ b = OH - starting_row
    BY <1>2, <1>3, <1>4 DEF OH
  <2> HIDE DEF a, b, left
  <2>2. n \in {a, left, b} /\ n <= a /\ n <= b
    BY <2>1, MinOfThree DEF a, b
  <2> HIDE DEF n
  <2> QED
    BY <2>1, <2>2
<1> HIDE DEF n, first, left
<1>6. /\ out_row_ctr' = out_row_ctr + n
      /\ output_scanline' = output_scanline + n
      /\ got' # NoLines
  BY <1>5, <1>1 DEF Emit, NoLines
<1>7. output_scanline' \in 0 .. OH
  BY <1>2, <1>3, <1>4, <1>5, <1>6
<1>8. IF next_row + n >= V
      THEN starting_row' = starting_row + V /\ next_row' = 0
      ELSE next_row' = next_row + n /\ starting_row' = starting_row
  BY <1>1, <1>3 DEF AdvanceStrip
<1>9. V' = V /\ OH' = OH /\ quantize' = quantize
  BY <1>1, SameImage
<1>10. PostOK' /\ next_row' \in 0 .. V - 1
  <2>1. PICK s \in Nat : starting_row = V * s
    BY <1>3 DEF PostOK
  <2>2. strip' = NoStrip \/ (\E t \in Nat : strip' = V * t /\ strip' < OH)
    BY <1>1, <1>2, <1>3, <2>1 DEF first, PostOK
  <2>3. \E t \in Nat : starting_row' = V * t
    <3>1. starting_row' = V * (s + 1) \/ starting_row' = V * s
      BY <1>8, <2>1, <1>4
    <3> QED
      BY <3>1
  <2>4. /\ starting_row' \in Nat /\ next_row' \in 0 .. V - 1
        /\ output_scanline' = starting_row' + next_row'
    BY <1>3, <1>4, <1>5, <1>6, <1>8
  <2> QED
    BY <1>1, <1>2, <1>3, <1>9, <2>2, <2>3, <2>4 DEF PostOK
<1>11. CallOK'
  BY <1>2, <1>5, <1>6, <1>1 DEF CallOK
<1>12. TypeOK' /\ DOMAIN xbuffer' = {0, 1}
  BY <1>1, <1>3, <1>9, <1>10, UnchangedTypes
     DEF TypeOK, V, OH, strip_height, max_v_samp_factor
<1> QED
  BY <1>6, <1>7, <1>9, <1>10, <1>1, <1>2, <1>11, <1>12 DEF IndInv, MainOK, RowsOK, Running

-----------------------------------------------------------------------------
LEMMA InitHolds == Init => IndInv
<1> SUFFICES ASSUME Init PROVE IndInv
  OBVIOUS
<1>1. image \in Images /\ pass = "none" /\ at = "idle"
  BY DEF Init
<1>2. /\ V \in 1 .. 4 /\ M \in {1, 2, 4, 8} /\ OH \in Nat /\ 0 = V * 0
  BY <1>1, Parameters
<1>3. TypeOK /\ DOMAIN xbuffer = {0, 1}
  <2>1. /\ DOMAIN xbuffer = {0, 1}
        /\ \A w \in {0, 1} : \A c \in Component(image) : \A i \in ListRows(c) :
              xbuffer[w][c][i] \in WorkRows(c) \cup {Garbage}
    BY DEF NoPointers, Init
  <2>2. /\ pass \in Mode \cup {"none"}
        /\ at \in {"idle", "fill", "feed", "crank"}
        /\ buffer_full \in BOOLEAN /\ spare_full \in BOOLEAN
        /\ context_state \in {"POSTPONED_ROW", "PREPARE_FOR_IMCU",
                              "PROCESS_IMCU"}
        /\ whichptr \in {0, 1}
    BY DEF Init
  <2> QED
    BY <1>1, <2>1, <1>2, <2>2 DEF TypeOK, V, OH, strip_height, max_v_samp_factor, Init
<1>4. output_scanline \in 0 .. OH
  BY <1>2 DEF Init
<1> QED
  BY <1>3, <1>1, <1>2, <1>4 DEF IndInv, Init, MainOK, RowsOK, CallOK, Running, PostOK

LEMMA StepKeeps == ShortStrips /\ IndInv /\ [Next]_vars => IndInv'
<1> SUFFICES ASSUME ShortStrips, IndInv, [Next]_vars PROVE IndInv'
  OBVIOUS
<1>1. CASE \E m \in Mode : StartPass(m)
  BY <1>1, StartPassKeeps
<1>2. CASE \E n \in 0 .. MaxLines : ProcessData(n)
  BY <1>2, ProcessDataKeeps
<1>3. CASE Fill
  BY <1>3, FillKeeps
<1>4. CASE Suspend
  BY <1>4, SuspendKeeps
<1>5. CASE FeedSimple
  BY <1>5, FeedSimpleKeeps
<1>6. CASE FeedPostponed
  BY <1>6, FeedPostponedKeeps
<1>7. CASE PrepareForIMCU
  BY <1>7, PrepareForIMCUKeeps
<1>8. CASE ProcessIMCU
  BY <1>8, ProcessIMCUKeeps
<1>9. CASE CrankPost
  BY <1>9, CrankPostKeeps
<1>10. CASE UNCHANGED vars
  <2>1. /\ UNCHANGED <<image, pass, output_scanline, output_iMCU_row, xbuffer,
                       buffer_full, rowgroup_ctr, whichptr, context_state,
                       rowgroups_avail, iMCU_row_ctr, next_row_out, rows_to_go,
                       spare_full, strip, starting_row, next_row>>
        /\ UNCHANGED <<at, out_row_ctr, out_rows_avail>>
    BY <1>10 DEF vars, main, upsample, post, args
  <2> QED
    BY <2>1, SameImage, StillRest DEF IndInv, Running, TypeOK, CallOK
<1> QED
  BY <1>1, <1>2, <1>3, <1>4, <1>5, <1>6, <1>7, <1>8, <1>9, <1>10
     DEF Next, Feed

LEMMA IndInvHolds == ASSUME ShortStrips PROVE Spec => []IndInv
BY InitHolds, StepKeeps, PTL DEF Spec

(* The counters of the main controller, the upsampler and the post         *)
(* controller, which are kept apart (row groups, rows to go, rows of a     *)
(* strip), agree with output_scanline at every size of image and at every  *)
(* size of call, whatever an earlier pass left behind; so the upsampler    *)
(* never follows a pointer out of the workspace, no strip lies outside the *)
(* whole-image buffer and decompress_data is never asked for an iMCU row   *)
(* after the last; and the row groups left in the last iMCU row are those  *)
(* of every component.                                                     *)
THEOREM StaysInsideHolds == ASSUME ShortStrips PROVE Spec => []StaysInside
<1>1. IndInv => StaysInside
  <2> SUFFICES ASSUME IndInv PROVE StaysInside
    OBVIOUS
  <2>1. TypeOK /\ PostOK /\ image \in Images
    BY DEF IndInv, TypeOK
  <2>2. StripInside
    <3> SUFFICES ASSUME strip # NoStrip
                 PROVE  strip + strip_height <= rounded_height(image)
      BY DEF StripInside
    <3>1. PICK s \in Nat : strip = V * s /\ strip < OH
      BY <2>1 DEF PostOK
    <3>2. V \in Nat \ {0} /\ OH \in Nat \ {0}
      BY <2>1, Parameters
    <3> DEFINE q == CeilDiv(OH, V)
    <3>3. s < q /\ q \in Nat
      BY <3>1, <3>2, CeilLess, CeilPositive
    <3>4. rounded_height(image) = q * V /\ strip_height = V
      BY DEF rounded_height, OH, V, strip_height, max_v_samp_factor
    <3> HIDE DEF q
    <3>5. V * q = q * V
      BY <3>2, <3>3
    <3> QED
      BY <3>1, <3>4, <3>2, <3>3, <3>5
  <2> QED
    BY <2>1, RowLeft, <2>2, RowGroupsAgree DEF StaysInside, NeverPastLastRow, TR
<1> QED
  BY <1>1, IndInvHolds, PTL

(* A call that is not suspended returns at least one row, at every size of *)
(* call: the loop of output_pass_setup, which takes a call that returned   *)
(* none for a suspension, is never deceived.                               *)
THEOREM NoEmptyReturnHolds == ASSUME ShortStrips PROVE Spec => NoEmptyReturn
<1>1. ShortStrips /\ IndInv /\ [Next]_vars
        => [(at \in {"feed", "crank"} /\ at' = "idle") => got' # NoLines]_vars
  <2> SUFFICES ASSUME ShortStrips, IndInv, Next,
                      at \in {"feed", "crank"}, at' = "idle"
               PROVE  got' # NoLines
    OBVIOUS
  <2>1. CASE FeedSimple
    BY <2>1, PostProcessCounts DEF FeedSimple
  <2>2. CASE FeedPostponed
    BY <2>2, PostProcessCounts DEF FeedPostponed
  <2>3. CASE ProcessIMCU
    BY <2>3, PostProcessCounts DEF ProcessIMCU
  <2>4. CASE CrankPost
    BY <2>4, CrankPostKeeps
  <2>5. CASE PrepareForIMCU
    BY <2>5 DEF PrepareForIMCU, args
  <2>6. CASE \E m \in Mode : StartPass(m)
    BY <2>6 DEF StartPass
  <2>7. CASE \E n \in 0 .. MaxLines : ProcessData(n)
    BY <2>7 DEF ProcessData
  <2>8. CASE Fill \/ Suspend
    BY <2>8 DEF Fill, Suspend
  <2> QED
    BY <2>1, <2>2, <2>3, <2>4, <2>5, <2>6, <2>7, <2>8 DEF Next, Feed
<1> QED
  BY <1>1, IndInvHolds, PTL DEF Spec, NoEmptyReturn

(* No row is delivered below the bottom of the image. Of strips of more    *)
(* than two rows this is not true, which the run crank_bottom shows.       *)
THEOREM NoRowPastBottomHolds ==
  ASSUME ShortStrips PROVE Spec => []NoRowPastBottom
<1>1. IndInv => NoRowPastBottom
  BY Parameters DEF IndInv, TypeOK, NoRowPastBottom, OH
<1> QED
  BY <1>1, IndInvHolds, PTL

-----------------------------------------------------------------------------
(***************************************************************************)
(* RowPipe implements RowDelivery: the proof that the rows delivered are   *)
(* the rows of the image, on top of the counters above.                    *)
(***************************************************************************)

-----------------------------------------------------------------------------
(* Where the rows of a component lie.                                      *)
Height(c) == downsampled_height(image, c)

(* The sample row at place i of iMCU row n.                                *)
SampleRow(c, n, i) == n * (rgroup(c) * M) + i

(* The numbers a component of the image has.                               *)
LEMMA ComponentSizes ==
  ASSUME image \in Images, NEW c \in Component(image)
  PROVE  /\ rgroup(c) \in Nat \ {0} /\ M \in Nat \ {0} /\ V \in Nat \ {0}
         /\ rgroup(c) * M \in Nat \ {0}
         /\ image.image_height \in Nat \ {0}
         /\ iMCUheight(image, c) = rgroup(c) * M
         /\ Height(c) = CeilDiv((image.image_height * M) * rgroup(c), V * 8)
BY Parameters, HeightInRowGroups DEF rgroup, M, V, max_v_samp_factor, Height,
   downsampled_height

(* A component fills the iMCU rows before the last, and has rows_left in   *)
(* that one.                                                               *)
LEMMA Heights ==
  ASSUME image \in Images, NEW c \in Component(image)
  PROVE  /\ Height(c) \in Nat \ {0}
         /\ rows_left(c) \in 1 .. rgroup(c) * M
         /\ Height(c) = SampleRow(c, TR - 1, rows_left(c))
<1> DEFINE g == rgroup(c)
           x == image.image_height * M
           q == RowGroupsInAll - 1
           e == RowGroupsLeft(c) - 1
           P == g * M
<1>1. /\ g \in Nat \ {0} /\ M \in Nat \ {0} /\ P \in Nat \ {0}
      /\ iMCUheight(image, c) = P
      /\ x \in Nat \ {0} /\ V * 8 \in Nat \ {0}
      /\ Height(c) = CeilDiv(x * g, V * 8)
  BY ComponentSizes
<1>2. q = CeilDiv(x, V * 8) - 1
  <2> HIDE DEF x
  <2>1. RowGroupsInAll = (CeilDiv(x, V * 8) - 1) + 1
    BY DEF RowGroupsInAll, LastRowGroups, x, V, max_v_samp_factor, M
  <2> QED
    BY <1>1, CeilPositive, <2>1
<1>3. PICK s \in 0 .. g - 1 : Height(c) = g * q + s + 1
  <2> DEFINE K == V * 8
  <2>1. /\ g \in Nat \ {0} /\ x \in Nat \ {0} /\ K \in Nat \ {0}
        /\ Height(c) = CeilDiv(x * g, K) /\ q = CeilDiv(x, K) - 1
    BY <1>1, <1>2
  <2> HIDE DEF x, g, q, K
  <2>2. \E s \in 0 .. g - 1 : CeilDiv(x * g, K) = g * (CeilDiv(x, K) - 1) + s + 1
    BY <2>1, RowsFromGroups
  <2> QED
    BY <2>1, <2>2
<1>4. e \in 0 .. M - 1 /\ q = M * (TR - 1) + e /\ TR \in Nat \ {0}
  BY <1>1, LastRow, Parameters
<1> DEFINE t == g * e + s + 1
           n == TR - 1
<1>5. t \in 1 .. P
  <2>1. g * e <= g * (M - 1) /\ g * (M - 1) = g * M - g /\ g * e \in Nat
    <3> HIDE DEF e, g
    <3> QED
      BY <1>1, <1>4
  <2> HIDE DEF e, g
  <2> QED
    BY <1>1, <1>3, <2>1
<1>6. Height(c) = n * P + t
  <2> HIDE DEF e, q, g
  <2>1. /\ n \in Nat /\ g \in Nat /\ M \in Nat /\ e \in Nat /\ q = M * n + e
        /\ s \in Nat
    BY <1>1, <1>3, <1>4
  <2> HIDE DEF n
  <2>2. g * q = n * (g * M) + g * e
    BY <2>1
  <2> QED
    BY <1>3, <2>1, <2>2
<1>7. rows_left(c) = t
  <2>1. n \in Nat
    BY <1>4
  <2> DEFINE h == Height(c)
             n1 == n + 1
  <2>2. rows_left(c) = IF h % P = 0 THEN P ELSE h % P
    BY <1>1 DEF rows_left, Height
  <2>3. /\ h = P * n + t /\ P * n1 = P * n + P /\ P * n \in Nat
        /\ P \in Nat \ {0}
    <3> HIDE DEF P, t, n
    <3> QED
      BY <1>1, <1>5, <1>6, <2>1
  <2> HIDE DEF P, t, h, n
  <2>4. CASE t # P
    <3>1. t \in 0 .. P - 1
      BY <1>1, <1>5, <2>4
    <3>2. h % P = t
      BY <2>1, <2>3, <3>1, DivUnique
    <3> QED
      BY <1>5, <2>2, <3>2
  <2>5. CASE t = P
    <3>1. h = P * n1 + 0 /\ 0 \in 0 .. P - 1 /\ n1 \in Nat
      BY <1>1, <2>1, <2>3, <2>5
    <3> HIDE DEF n1
    <3>2. h % P = 0
      BY <2>3, <3>1, DivUnique, ZenonT(60)
    <3> QED
      BY <2>2, <2>5, <3>2
  <2> QED
    BY <2>4, <2>5
<1>8. Height(c) \in Nat \ {0}
  <2>1. n * P \in Nat
    <3>1. n \in Nat
      BY <1>4
    <3> HIDE DEF n, P
    <3> QED
      BY <1>1, <3>1
  <2> HIDE DEF t, n, P
  <2> QED
    BY <1>5, <1>6, <2>1
<1> QED
  BY <1>5, <1>6, <1>7, <1>8 DEF SampleRow

(* So the rows of every iMCU row but the last are rows of the picture, and *)
(* those of the last are where they come before rows_left.                 *)
LEMMA InsidePicture ==
  ASSUME image \in Images, NEW c \in Component(image), NEW n \in Nat,
         NEW i \in 0 .. rgroup(c) * M - 1
  PROVE  /\ n < TR - 1 => SampleRow(c, n, i) < Height(c)
         /\ n = TR - 1 => (SampleRow(c, n, i) < Height(c) <=> i < rows_left(c))
         /\ SampleRow(c, n, i) \in Nat
<1> DEFINE P == rgroup(c) * M
           k == rows_left(c)
           m == TR - 1
<1>1. P \in Nat \ {0} /\ k \in 1 .. P /\ Height(c) = m * P + k
  BY ComponentSizes, Heights DEF SampleRow
<1>2. i \in 0 .. P - 1 /\ SampleRow(c, n, i) = n * P + i
  BY DEF SampleRow
<1>3. m \in Nat
  BY Parameters
<1> HIDE DEF P, k, m
<1>4. n * P \in Nat /\ m * P \in Nat
  BY <1>1, <1>3
<1>5. n < m => n * P + P <= m * P
  <2> SUFFICES ASSUME n < m PROVE n * P + P <= m * P
    OBVIOUS
  <2>1. PICK d \in Nat : m = (n + 1) + d
    BY <1>3
  <2>2. (n + 1) * P \in Nat
    BY <1>1
  <2> QED
    BY <1>1, <1>4, <2>1, <2>2
<1> QED
  BY <1>1, <1>2, <1>3, <1>4, <1>5 DEF m, k

-----------------------------------------------------------------------------
(* The rows an output row is made from.                                    *)
Near(c, q) == q \div (V \div rgroup(c))

(* The row nearest to an output row of the picture is one of the rows of   *)
(* its row group, and of the picture.                                      *)
LEMMA NearInside ==
  ASSUME image \in Images, NEW c \in Component(image), NEW n \in Nat,
         NEW q \in 0 .. V - 1, V * n + q < OH
  PROVE  /\ Near(c, q) \in 0 .. rgroup(c) - 1
         /\ n * rgroup(c) + Near(c, q) < Height(c)
         /\ rgroup(c) = V => Near(c, q) = q
         /\ V = 2 * rgroup(c) => Near(c, q) = q \div 2
<1> DEFINE g == rgroup(c)
           k == V \div g
           near == q \div k
           x == image.image_height * M
<1>1. /\ g \in Nat \ {0} /\ V \in Nat \ {0} /\ x \in Nat \ {0}
      /\ Height(c) = CeilDiv(x * g, V * 8)
  BY ComponentSizes
<1>2. V % g = 0
  BY Parameters DEF ImageOK, V, max_v_samp_factor, rgroup
<1>3. k \in Nat \ {0} /\ V = g * k
  <2>1. k \in Nat /\ V = g * k + (V % g)
    BY <1>1, DivMod
  <2> HIDE DEF k, g
  <2> QED
    BY <1>1, <2>1, <1>2
<1>4. near \in Nat /\ k * near <= q /\ q < k * near + k
  <2> HIDE DEF k
  <2>1. q \in Nat
    BY <1>1
  <2>2. near \in Nat /\ q % k \in 0 .. k - 1 /\ q = k * near + (q % k)
    BY <1>3, <2>1, DivMod
  <2> HIDE DEF near
  <2> QED
    BY <1>3, <2>2
<1>5. g = V => near = q
  <2> SUFFICES ASSUME g = V PROVE near = q
    OBVIOUS
  <2> HIDE DEF near, k, g
  <2>1. k = 1
    BY <1>1, <1>3
  <2> QED
    BY <1>1, <1>4, <2>1
<1>6. V = 2 * g => near = q \div 2
  <2> SUFFICES ASSUME V = 2 * g PROVE k = 2
    OBVIOUS
  <2> HIDE DEF k, g
  <2>1. CASE k >= 3
    BY <1>1, <1>3, <2>1
  <2>2. CASE k = 1
    BY <1>1, <1>3, <2>2
  <2> QED
    BY <1>3, <2>1, <2>2
<1>7. near < g
  <2> HIDE DEF near, k, g
  <2>1. CASE near >= g
    BY <1>1, <1>3, <1>4, <2>1
  <2> QED
    BY <1>1, <1>4, <2>1
<1> HIDE DEF near, k, g, x
<1>8. (V * 8) * (n * g + near) < x * g
  <2> DEFINE a == 8 * (V * n + k * near)
             b == 8 * (V * n + q)
  <2>1. (V * 8) * (n * g + near) = g * a
    BY <1>1, <1>3, <1>4
  <2>2. a \in Nat /\ b \in Nat /\ a <= b
    BY <1>1, <1>3, <1>4
  <2>3. b < x
    BY <1>1, CeilLess DEF OH, output_height, x, M
  <2> HIDE DEF a, b
  <2>4. g * a <= g * b /\ g * b < g * x /\ g * x = x * g
    BY <1>1, <2>2, <2>3
  <2> QED
    BY <2>1, <2>4, <1>1, <2>2
<1>9. n * g + near < Height(c)
  <2> DEFINE y == x * g
             K == V * 8
             m == n * g + near
  <2> HIDE DEF y, K, m
  <2> QED
    BY <1>1, <1>8, <1>4, CeilLess DEF y, K, m
<1> QED
  BY <1>5, <1>6, <1>9, <1>1, <1>4, <1>7 DEF g, Near, near, k

(* The rows of a row group that the output rows inside the picture are     *)
(* made from: with the triangle filter its neighbours too.                 *)
Needed(c, n) ==
    IF c \in image.Fancy THEN -1 .. rgroup(c)
    ELSE {j \in 0 .. rgroup(c) - 1 : n * rgroup(c) + j < Height(c)}

LEMMA UsesNeeded ==
  ASSUME image \in Images, NEW c \in Component(image), NEW n \in Nat,
         NEW q \in 0 .. V - 1, V * n + q < OH
  PROVE  /\ \A k \in 1 .. Len(Uses(image, c, q)) :
               Uses(image, c, q)[k] \in Needed(c, n)
         /\ Fullsize(c) => Uses(image, c, q) = <<q>>
<1>1. /\ Near(c, q) \in 0 .. rgroup(c) - 1
      /\ n * rgroup(c) + Near(c, q) < Height(c)
      /\ rgroup(c) = V => Near(c, q) = q
      /\ rgroup(c) \in Nat \ {0} /\ V \in Nat \ {0}
  BY NearInside, ComponentSizes
<1>2. Uses(image, c, q)
        = IF c \in image.Fancy
          THEN <<Near(c, q), IF q % 2 = 0 THEN Near(c, q) - 1
                                          ELSE Near(c, q) + 1>>
          ELSE <<Near(c, q)>>
  BY DEF Uses, Near, V, max_v_samp_factor, rgroup
<1>3. Fullsize(c) => rgroup(c) = V
  BY DEF Fullsize, V
<1> DEFINE near == Near(c, q)
<1>4. CASE c \in image.Fancy
  BY <1>1, <1>2, <1>4, <1>3, Parameters DEF Needed, ImageOK, V, max_v_samp_factor, rgroup
<1>5. CASE c \notin image.Fancy
  BY <1>2, <1>5, <1>1, <1>3 DEF Needed
<1> QED
  BY <1>4, <1>5

(* The block rows decompress_data gives hold every sample row of the       *)
(* picture that lies in the iMCU row, and no more than an iMCU row.        *)
LEMMA BlockRowsCover ==
  ASSUME image \in Images, NEW c \in Component(image),
         output_iMCU_row \in Nat, output_iMCU_row < TR
  PROVE  LET n == block_rows(c) * image.DCT_scaled_size[c] IN
         /\ n \in Nat /\ n <= rgroup(c) * M
         /\ \A i \in 0 .. rgroup(c) * M - 1 :
               SampleRow(c, output_iMCU_row, i) < Height(c) => i < n
<1> DEFINE v == image.v_samp_factor[c]
           d == image.DCT_scaled_size[c]
           H == image.image_height
           K == V * 8
           hib == CeilDiv(H * v, K)
           rest == hib % v
           t == TR - 1
           n == block_rows(c) * d
<1>1. /\ v \in Nat \ {0} /\ d \in Nat \ {0} /\ H \in Nat \ {0}
      /\ K \in Nat \ {0} /\ rgroup(c) * M = v * d /\ t \in Nat
      /\ Height(c) = CeilDiv(H * (v * d), K)
  BY Parameters, ComponentSizes DEF ImageOK, iMCUheight, Height, downsampled_height, V,
     max_v_samp_factor
<1>2. block_rows(c) = IF output_iMCU_row < t \/ rest = 0 THEN v ELSE rest
  BY DEF block_rows, height_in_blocks, V, max_v_samp_factor, TR
<1>3. TR = CeilDiv(H, K) /\ TR = t + 1
  BY Parameters DEF TR, total_iMCU_rows, V, max_v_samp_factor
<1> HIDE DEF v, d, H, K, t
<1>4. H * v \in Nat \ {0}
  BY <1>1
<1>5. hib \in Nat /\ v * t < hib
  <2>1. K * t < H
    <3>1. t < CeilDiv(H, K)
      BY <1>1, <1>3
    <3> QED
      BY <1>1, <3>1, CeilLess
  <2>2. K * (v * t) < H * v
    <3> DEFINE a == K * t
    <3>1. a \in Nat /\ a < H
      BY <1>1, <2>1
    <3>2. K * (v * t) = v * a
      BY <1>1
    <3> HIDE DEF a
    <3> QED
      BY <3>2, <1>1, <3>1
  <2> DEFINE y == H * v
             m == v * t
  <2>3. y \in Nat \ {0} /\ m \in Nat /\ K * m < y
    BY <1>1, <1>4, <2>2
  <2> HIDE DEF y, m
  <2> QED
    BY <1>1, <2>3, CeilLess, CeilPositive DEF y, m
<1>6. hib <= v * TR
  <2>1. ~ (K * TR < H)
    <3>1. TR \in Nat /\ ~ (TR < CeilDiv(H, K))
      BY <1>1, <1>3
    <3> QED
      BY <1>1, <3>1, CeilLess
  <2>2. ~ (K * (v * TR) < H * v)
    <3> DEFINE a == K * TR
    <3>1. a \in Nat /\ H <= a
      BY <1>1, <1>3, <2>1
    <3>2. K * (v * TR) = v * a
      BY <1>1, <1>3
    <3> HIDE DEF a
    <3> QED
      BY <3>2, <1>1, <3>1
  <2> DEFINE y == H * v
             m == v * TR
  <2>3. y \in Nat \ {0} /\ m \in Nat /\ ~ (K * m < y)
    BY <1>1, <1>3, <1>4, <2>2
  <2> HIDE DEF y, m
  <2>4. CeilDiv(y, K) <= m
    BY <2>3, <1>1, CeilLess, CeilPositive
  <2> QED
    BY <2>4 DEF y, m
<1>7. Height(c) <= d * hib /\ Height(c) \in Nat
  <2>1. ~ (K * hib < H * v)
    <3> DEFINE y == H * v
    <3>1. y \in Nat \ {0} /\ hib = CeilDiv(y, K) /\ ~ (hib < hib)
      BY <1>4, <1>5
    <3> HIDE DEF y, hib
    <3> QED
      BY <1>1, <1>5, <3>1, CeilLess DEF y
  <2> HIDE DEF hib
  <2>2. ~ (K * (d * hib) < H * (v * d))
    <3> DEFINE a == K * hib
               b == H * v
    <3>1. a \in Nat /\ b \in Nat /\ b <= a
      BY <1>1, <1>4, <1>5, <2>1
    <3>2. K * (d * hib) = d * a /\ H * (v * d) = d * b
      BY <1>1, <1>5
    <3> HIDE DEF a, b
    <3> QED
      BY <3>2, <1>1, <3>1
  <2> DEFINE y == H * (v * d)
             m == d * hib
  <2>3. y \in Nat \ {0} /\ m \in Nat /\ ~ (K * m < y)
    BY <1>1, <1>5, <2>2
  <2> HIDE DEF y, m
  <2> QED
    BY <1>1, <2>3, CeilLess, CeilPositive DEF y, m
<1>8. rest \in 0 .. v - 1 /\ (rest # 0 => hib = v * t + rest)
  <2> DEFINE a == hib \div v
  <2> HIDE DEF hib
  <2>1. a \in Nat /\ rest \in 0 .. v - 1 /\ hib = v * a + rest
    BY <1>1, <1>5, DivMod
  <2> HIDE DEF a, rest
  <2>2. v * TR = v * t + v /\ v * a \in Nat /\ v * t \in Nat
    BY <1>1, <1>3, <2>1
  <2>3. CASE a <= t - 1
    BY <1>1, <2>1, <2>3, <1>5, <2>2
  <2>4. CASE a >= t + 1
    BY <1>1, <2>1, <2>4, <1>5, <1>6, <2>2
  <2> QED
    BY <1>1, <2>1, <2>3, <2>4
<1> HIDE DEF hib, rest
<1>9. n \in Nat /\ n <= v * d
  <2> DEFINE b == block_rows(c)
  <2> HIDE DEF b
  <2> QED
    BY <1>1, <1>2, <1>8 DEF b
<1>10. ASSUME NEW i \in 0 .. rgroup(c) * M - 1,
              SampleRow(c, output_iMCU_row, i) < Height(c)
       PROVE  i < n
  BY <1>1, <1>2, <1>3, <1>8, <1>5, <1>7, <1>10 DEF SampleRow
<1> QED
  BY <1>1, <1>9, <1>10 DEF d

-----------------------------------------------------------------------------
(* The list the upsampler reads, from row group n, shows row group m of    *)
(* the image with its neighbours.                                          *)
ShowsGroup(n, m) ==
    \A c \in Component(image) : \A j \in Needed(c, m) :
        Shown(whichptr, c, n * rgroup(c) + j)
            = Clamp(image, c, m * rgroup(c) + j)

(* Then what the upsampler makes of it are rows of the image.              *)
LEMMA ConvRowIsLine ==
  ASSUME image \in Images, NEW m \in Nat, NEW q \in 0 .. V - 1,
         V * m + q < OH, ShowsGroup(rowgroup_ctr, m)
  PROVE  ConvRow(Group, q) = Line(image, V * m + q)
<1>1. V \in Nat \ {0}
  BY Parameters
<1>2. (V * m + q) \div V = m /\ (V * m + q) % V = q
  <2> DEFINE r == V * m + q
  <2>1. r = V * m + q
    OBVIOUS
  <2> HIDE DEF r
  <2>2. r \div V = m /\ r % V = q
    BY <1>1, <2>1, DivUnique
  <2> QED
    BY <2>2 DEF r
<1> DEFINE r == V * m + q
           A(c, k) == Clamp(image, c, m * RowGroup(image, c)
                                        + Uses(image, c, q)[k])
           B(c, k) == IF Fullsize(c)
                      THEN Shown(Group.list, c, Group.group * rgroup(c) + q)
                      ELSE Group.rows[c][Uses(image, c, q)[k]]
<1>3. Line(image, r) = [c \in Component(image) |->
                          [k \in 1 .. Len(Uses(image, c, q)) |-> A(c, k)]]
  BY <1>2 DEF Line, V, max_v_samp_factor
<1>4. ConvRow(Group, q) = [c \in Component(image) |->
                             [k \in 1 .. Len(Uses(image, c, q)) |-> B(c, k)]]
  BY DEF ConvRow
<1>5. ASSUME NEW c \in Component(image),
             NEW k \in 1 .. Len(Uses(image, c, q))
      PROVE  A(c, k) = B(c, k)
  <2> DEFINE j == Uses(image, c, q)[k]
  <2>1. j \in Needed(c, m) /\ (Fullsize(c) => j = q)
    BY <1>5, UsesNeeded
  <2>2. j \in -1 .. rgroup(c)
    <3>1. rgroup(c) \in Nat
      BY ComponentSizes
    <3> QED
      BY <2>1, <3>1 DEF Needed
  <2>3. Fullsize(c) => B(c, k) = Shown(whichptr, c, rowgroup_ctr * rgroup(c) + j)
    BY <2>1 DEF Group
  <2>4. ~ Fullsize(c) => B(c, k) = Group.rows[c][j]
    OBVIOUS
  <2> QED
    BY <2>1, <2>2, <2>3, <2>4 DEF ShowsGroup, rgroup, Group
<1> HIDE DEF A, B
<1> QED
  BY <1>3, <1>4, <1>5

LEMMA MaxOfTwo ==
  ASSUME NEW a \in Int, NEW b \in Int
  PROVE  /\ Max({a, b}) \in {a, b} /\ Max({a, b}) >= a /\ Max({a, b}) >= b
BY DEF Max

(* The rows above the picture repeat the first, those below it the last.   *)
LEMMA Clamped ==
  ASSUME image \in Images, NEW c \in Component(image), NEW s \in Int
  PROVE  /\ s \in 0 .. Height(c) - 1 => Clamp(image, c, s) = s
         /\ s < 0 => Clamp(image, c, s) = 0
         /\ s >= Height(c) => Clamp(image, c, s) = Height(c) - 1
<1> DEFINE h == Height(c) - 1
           low == Min({s, h})
           high == Max({0, low})
<1>1. h \in Nat
  BY Heights
<1>2. low \in {s, h} /\ low <= s /\ low <= h
  <2> HIDE DEF h
  <2> QED
    BY <1>1, MinOfTwo
<1>3. Clamp(image, c, s) = high
  BY DEF Clamp, Height
<1> HIDE DEF h, low
<1>4. low \in Int /\ 0 \in Int
  BY <1>1, <1>2
<1>5. high \in {0, low} /\ high >= 0 /\ high >= low
  BY <1>4, MaxOfTwo, Zenon
<1> HIDE DEF high
<1>6. Height(c) \in Nat /\ h = Height(c) - 1
  BY Heights DEF h
<1> QED
  BY <1>3, <1>1, <1>2, <1>4, <1>5, <1>6

-----------------------------------------------------------------------------
(* The pointer lists of the context case.                                  *)

(* Where make_funny_pointers sends row i of list w.                        *)
Funny(w, c, i) ==
    LET g == rgroup(c)
    IN  IF w = 0 \/ i < g * (M - 2) THEN i
        ELSE IF i < g * M THEN i + 2 * g ELSE i - 2 * g

(* Each list is a permutation of the workspace: the two differ in the last *)
(* two pairs of row groups, which they exchange.                           *)
LEMMA FunnyIsPermutation ==
  ASSUME image \in Images, need_context_rows, NEW c \in Component(image),
         NEW w \in {0, 1}, NEW i \in 0 .. rgroup(c) * (M + 2) - 1
  PROVE  /\ Funny(w, c, i) \in WorkRows(c)
         /\ \A j \in 0 .. rgroup(c) * (M + 2) - 1 :
               Funny(w, c, i) = Funny(w, c, j) => i = j
         /\ i >= rgroup(c) * M =>
               Funny(w, c, i) = Funny(1 - w, c, i - 2 * rgroup(c))
         /\ w = 0 => Funny(w, c, i) = i
<1> DEFINE g == rgroup(c)
<1>1. g \in Nat \ {0} /\ M \in {2, 4, 8}
      /\ WorkRows(c) = 0 .. g * (M + 2) - 1
  BY ListSizes
<1>2. /\ g * (M + 2) = g * M + 2 * g /\ g * (M - 2) = g * M - 2 * g
      /\ g * M >= 2 * g /\ g * M \in Nat
  BY <1>1, Products
<1> DEFINE P == g * M
           F(u, k) == IF u = 0 \/ k < P - 2 * g THEN k
                      ELSE IF k < P THEN k + 2 * g ELSE k - 2 * g
<1>3. \A u, k : Funny(u, c, k) = F(u, k)
  BY <1>2 DEF Funny
<1>4. P \in Nat /\ P >= 2 * g /\ g * (M + 2) = P + 2 * g
  BY <1>2
<1> HIDE DEF P, g
<1>5. i \in 0 .. P + 2 * g - 1
  <2> DEFINE e == g * (M + 2)
  <2> HIDE DEF e
  <2> QED
    BY <1>1, <1>4 DEF g
<1>6. F(w, i) \in 0 .. P + 2 * g - 1
  BY <1>1, <1>4, <1>5
<1>7. ASSUME NEW j \in 0 .. P + 2 * g - 1, F(w, i) = F(w, j) PROVE i = j
  BY <1>7, <1>1, <1>4, <1>5
<1>8. i >= P => F(w, i) = F(1 - w, i - 2 * g)
  BY <1>1, <1>4, <1>5
<1>9. w = 0 => F(w, i) = i
  OBVIOUS
<1> HIDE DEF F
<1> QED
  BY <1>1, <1>3, <1>4, <1>6, <1>7, <1>8, <1>9 DEF g, P

(* set_bottom_pointers has spoilt the list in use.                         *)
BottomSet ==
    /\ output_iMCU_row = TR
    /\ \/ context_state = "PROCESS_IMCU"
       \/ context_state = "POSTPONED_ROW" /\ ~ buffer_full

SimpleBuffer ==
    Running /\ ~ need_context_rows /\ buffer_full =>
        \A c \in Component(image) : \A i \in 0 .. rgroup(c) * M - 1 :
            SampleRow(c, Earlier, i) < Height(c) =>
                buffer[c][i] = SampleRow(c, Earlier, i)

ContextBuffer ==
    Running /\ need_context_rows =>
        \A c \in Component(image) :
            /\ buffer_full =>
                 \A i \in 0 .. rgroup(c) * M - 1 :
                    SampleRow(c, Earlier, i) < Height(c) =>
                        buffer[c][Funny(whichptr, c, i)]
                            = SampleRow(c, Earlier, i)
            /\ Earlier \in 1 .. TR - 1 =>
                 \A i \in 1 .. 2 * rgroup(c) :
                    buffer[c][Funny(whichptr, c, rgroup(c) * (M + 2) - i)]
                        = SampleRow(c, Earlier, -i)

Pointers ==
    Running /\ need_context_rows =>
        \A c \in Component(image) :
            /\ ~ BottomSet =>
                 \A w \in {0, 1} : \A i \in 0 .. rgroup(c) * (M + 2) - 1 :
                    xbuffer[w][c][i] = Funny(w, c, i)
            /\ BottomSet /\ context_state = "PROCESS_IMCU" =>
                 \A i \in 0 .. rows_left(c) + 2 * rgroup(c) - 1 :
                    xbuffer[whichptr][c][i] =
                        Funny(whichptr, c, IF i < rows_left(c) THEN i
                                           ELSE rows_left(c) - 1)
            /\ Earlier = 0 =>
                 /\ whichptr = 0
                 /\ \A i \in 1 .. rgroup(c) : xbuffer[0][c][-i] = 0
            /\ Earlier \in 1 .. TR - 1 =>
                 \A w \in {0, 1} :
                    /\ \A i \in 1 .. rgroup(c) :
                          xbuffer[w][c][-i]
                            = Funny(w, c, rgroup(c) * (M + 2) - i)
                    /\ \A i \in 0 .. rgroup(c) - 1 :
                          xbuffer[w][c][rgroup(c) * (M + 2) + i]
                            = Funny(w, c, i)

NothingHeld ==
    /\ upsampler = "sep" => next_row_out = V
    /\ upsampler = "merged_2v" => ~ spare_full

HeldRows ==
    Running =>
        /\ ~ buffer_full \/ (need_context_rows
                             /\ context_state = "PREPARE_FOR_IMCU")
             => NothingHeld
        /\ upsampler = "sep" /\ next_row_out < V => color_buf = Group
        /\ upsampler = "merged_2v" /\ spare_full => spare_row = ConvRow(Group, 1)

SavedRows ==
    /\ DOMAIN whole_image = 0 .. rounded_height(image) - 1
    /\ pass \in {"SAVE_AND_PASS", "CRANK_DEST"} /\ next_row > 0
         => strip = starting_row
    /\ pass = "SAVE_AND_PASS" =>
         \A r \in 0 .. output_scanline - 1 : whole_image[r] = Line(image, r)
    /\ pass = "CRANK_DEST" =>
         \A r \in 0 .. OH - 1 : whole_image[r] = Line(image, r)

ContentInv ==
    SimpleBuffer /\ ContextBuffer /\ Pointers /\ HeldRows /\ SavedRows

-----------------------------------------------------------------------------
(* What the list in use shows of a component, in the context case.         *)
LEMMA ListShows ==
  ASSUME image \in Images, need_context_rows, Running, buffer_full,
         whichptr \in {0, 1}, Earlier \in 0 .. TR - 1,
         ContextBuffer, Pointers, NEW c \in Component(image)
  PROVE  LET g == rgroup(c)
             end == rgroup(c) * (M + 2)
         IN
         /\ Earlier > 0 =>
              /\ \A i \in 1 .. g :
                    Shown(whichptr, c, -i) = SampleRow(c, Earlier, -i)
              /\ ~ BottomSet => \A i \in 1 .. 2 * g :
                    Shown(whichptr, c, end - i) = SampleRow(c, Earlier, -i)
              /\ Shown(whichptr, c, end) = SampleRow(c, Earlier, 0)
         /\ Earlier = 0 => \A i \in 1 .. g : Shown(whichptr, c, -i) = 0
         /\ ~ BottomSet => \A i \in 0 .. g * M - 1 :
               SampleRow(c, Earlier, i) < Height(c) =>
                  Shown(whichptr, c, i) = SampleRow(c, Earlier, i)
         /\ BottomSet /\ context_state = "PROCESS_IMCU" /\ Earlier = TR - 1 =>
               \A i \in 0 .. rows_left(c) + 2 * g - 1 :
                  Shown(whichptr, c, i) =
                     SampleRow(c, Earlier, IF i < rows_left(c) THEN i
                                           ELSE rows_left(c) - 1)
<1> DEFINE g == rgroup(c)
           end == rgroup(c) * (M + 2)
           w == whichptr
           P == g * M
<1>1. g \in Nat \ {0} /\ M \in {2, 4, 8} /\ rows_left(c) \in 1 .. P
  BY ListSizes
<1>2. end = P + 2 * g /\ P \in Nat /\ P >= 2 * g
  BY <1>1, Products
<1>3. ASSUME NEW i, NEW k \in 0 .. end - 1, xbuffer[w][c][i] = Funny(w, c, k)
      PROVE  Shown(w, c, i) = buffer[c][Funny(w, c, k)]
  BY FunnyIsPermutation, <1>3 DEF Shown
<1>4. /\ \A i \in 0 .. P - 1 : SampleRow(c, Earlier, i) < Height(c) =>
            buffer[c][Funny(w, c, i)] = SampleRow(c, Earlier, i)
      /\ Earlier > 0 => \A i \in 1 .. 2 * g :
            buffer[c][Funny(w, c, end - i)] = SampleRow(c, Earlier, -i)
  BY Parameters DEF ContextBuffer
<1>5. /\ ~ BottomSet => \A i \in 0 .. end - 1 :
            xbuffer[w][c][i] = Funny(w, c, i)
      /\ Earlier > 0 => /\ \A i \in 1 .. g :
                              xbuffer[w][c][-i] = Funny(w, c, end - i)
                        /\ xbuffer[w][c][end] = Funny(w, c, 0)
      /\ Earlier = 0 => w = 0 /\ \A i \in 1 .. g : xbuffer[0][c][-i] = 0
      /\ BottomSet /\ context_state = "PROCESS_IMCU" =>
            \A i \in 0 .. rows_left(c) + 2 * g - 1 :
               xbuffer[w][c][i] = Funny(w, c, IF i < rows_left(c) THEN i
                                              ELSE rows_left(c) - 1)
  BY Parameters, <1>1, <1>2 DEF Pointers
<1>6. Height(c) \in Nat \ {0} /\ SampleRow(c, 0, 0) = 0
      /\ TR \in Nat
  BY <1>1, <1>2, Heights, Parameters DEF SampleRow
<1>7. Earlier > 0 => SampleRow(c, Earlier, 0) < Height(c)
  <2> SUFFICES ASSUME Earlier > 0 PROVE SampleRow(c, Earlier, 0) < Height(c)
    OBVIOUS
  <2>1. 0 < rows_left(c)
    BY <1>1
  <2> QED
    BY <1>1, <1>2, <1>6, <2>1, InsidePicture
<1> HIDE DEF end, w, P
<1>8. ASSUME Earlier > 0, NEW i \in 1 .. g
      PROVE  Shown(w, c, -i) = SampleRow(c, Earlier, -i)
  <2> HIDE DEF g
  <2> QED
    BY <1>3, <1>4, <1>5, <1>8, <1>1, <1>2
<1>9. ASSUME Earlier > 0, ~ BottomSet, NEW i \in 1 .. 2 * g
      PROVE  Shown(w, c, end - i) = SampleRow(c, Earlier, -i)
  <2> HIDE DEF g
  <2> QED
    BY <1>3, <1>4, <1>5, <1>9, <1>1, <1>2
<1>10. ASSUME Earlier > 0
       PROVE  Shown(w, c, end) = SampleRow(c, Earlier, 0)
  <2> HIDE DEF g
  <2> QED
    BY <1>3, <1>4, <1>5, <1>7, <1>10, <1>1, <1>2
<1>11. ASSUME Earlier = 0, NEW i \in 1 .. g
       PROVE  Shown(w, c, -i) = 0
  BY <1>1, <1>2, <1>5, <1>11, FunnyIsPermutation, <1>3, <1>4, <1>6 DEF end
<1>12. ASSUME ~ BottomSet, NEW i \in 0 .. P - 1,
              SampleRow(c, Earlier, i) < Height(c)
       PROVE  Shown(w, c, i) = SampleRow(c, Earlier, i)
  BY <1>1, <1>2, <1>12, <1>3, <1>4, <1>5
<1>13. ASSUME BottomSet, context_state = "PROCESS_IMCU", Earlier = TR - 1,
              NEW i \in 0 .. rows_left(c) + 2 * g - 1
       PROVE  Shown(w, c, i) =
                 SampleRow(c, Earlier, IF i < rows_left(c) THEN i
                                       ELSE rows_left(c) - 1)
  <2> DEFINE k == IF i < rows_left(c) THEN i ELSE rows_left(c) - 1
  <2>1. k \in 0 .. P - 1 /\ k \in 0 .. end - 1 /\ k < rows_left(c)
    BY <1>1, <1>2, <1>13
  <2>2. xbuffer[w][c][i] = Funny(w, c, k)
    BY <1>5, <1>13
  <2> HIDE DEF k
  <2>3. Shown(w, c, i) = buffer[c][Funny(w, c, k)]
    BY <1>3, <2>1, <2>2
  <2> QED
    BY <1>4, <2>1, <1>13, InsidePicture, <2>3 DEF k, P
<1> QED
  BY <1>8, <1>9, <1>10, <1>11, <1>12, <1>13 DEF w, end, P

-----------------------------------------------------------------------------
(* When the upsampler is called, the list it reads shows the row group it  *)
(* is at: in the postponed state the last one of the previous iMCU row,    *)
(* whose rows the workspace still holds.                                   *)
CanFeed == need_context_rows => context_state # "PREPARE_FOR_IMCU"

(* A row of the list that shows a row of the picture shows what is needed. *)
LEMMA ShowsClamped ==
  ASSUME image \in Images, NEW c \in Component(image), NEW i, NEW s \in Nat,
         Shown(whichptr, c, i) = s, s < Height(c)
  PROVE  Shown(whichptr, c, i) = Clamp(image, c, s)
BY Heights, Clamped

LEMMA SimpleShows ==
  ASSUME IndInv, SimpleBuffer, at = "feed", ~ need_context_rows
  PROVE  GroupsGone \in Nat /\ ShowsGroup(rowgroup_ctr, GroupsGone)
<1>1. /\ image \in Images /\ Running /\ buffer_full
      /\ Earlier \in 0 .. TR - 1
      /\ M \in {1, 2, 4, 8} /\ rowgroup_ctr \in 0 .. M + 2
  BY Feeding
<1>2. rowgroup_ctr \in 0 .. M - 1
  BY <1>1 DEF IndInv, MainOK
<1>3. GroupsGone = M * Earlier + rowgroup_ctr /\ GroupsGone \in Nat
  BY <1>1, <1>2 DEF GroupsGone
<1>4. ASSUME NEW c \in Component(image), NEW j \in Needed(c, GroupsGone)
      PROVE  Shown(whichptr, c, rowgroup_ctr * rgroup(c) + j)
               = Clamp(image, c, GroupsGone * rgroup(c) + j)
  <2> DEFINE g == rgroup(c)
             i == rowgroup_ctr * g + j
             s == GroupsGone * g + j
  <2>1. g \in Nat \ {0} /\ M \in Nat \ {0} /\ g * M \in Nat \ {0}
    BY <1>1, ComponentSizes
  <2>2. j \in 0 .. g - 1 /\ s < Height(c)
    BY <1>1 DEF Needed, need_context_rows, NeedContextRows
  <2>3. i \in 0 .. g * M - 1
    <3>1. rowgroup_ctr * g + g <= g * M
      <4>1. (rowgroup_ctr + 1) * g <= M * g
        <5> HIDE DEF g
        <5> QED
          BY <1>1, <1>2, <2>1
      <4>2. (rowgroup_ctr + 1) * g = rowgroup_ctr * g + g /\ M * g = g * M
        <5> HIDE DEF g
        <5> QED
          BY <1>1, <1>2, <2>1
      <4> QED
        BY <4>1, <4>2
    <3>2. rowgroup_ctr * g \in Nat
      <4> HIDE DEF g
      <4> QED
        BY <1>2, <2>1
    <3> HIDE DEF g
    <3> QED
      BY <2>1, <2>2, <3>1, <3>2
  <2>4. s = SampleRow(c, Earlier, i) /\ s \in Nat
    <3>1. (M * Earlier + rowgroup_ctr) * g
             = Earlier * (g * M) + rowgroup_ctr * g
      <4> HIDE DEF g
      <4> QED
        BY <1>1, <1>2, <2>1
    <3>2. Earlier * (g * M) \in Nat /\ rowgroup_ctr * g \in Nat
      <4> HIDE DEF g
      <4> QED
        BY <1>1, <1>2, <2>1
    <3>3. SampleRow(c, Earlier, i) = Earlier * (g * M) + i
      BY DEF SampleRow
    <3> DEFINE A == Earlier * (g * M)
               B == rowgroup_ctr * g
    <3>4. /\ A \in Nat /\ B \in Nat /\ s = (A + B) + j
          /\ SampleRow(c, Earlier, i) = A + (B + j) /\ j \in Nat
      <4> HIDE DEF g
      <4> QED
        BY <2>1, <2>2, <3>1, <3>2, <3>3, <1>3
    <3> HIDE DEF A, B, s, i
    <3> QED
      BY <3>4
  <2> HIDE DEF i, s
  <2>5. Shown(whichptr, c, i) = s
    BY <1>1, <2>2, <2>3, <2>4 DEF Shown, SimpleBuffer, WorkRows
  <2> QED
    BY <1>1, <2>2, <2>4, <2>5, ShowsClamped DEF i, s
<1> QED
  BY <1>3, <1>4 DEF ShowsGroup

(* The places of the rows of a row group in the list, when the last row    *)
(* group of the previous iMCU row is due.                                  *)
LEMMA PostponedShows ==
  ASSUME IndInv, ContextBuffer, Pointers, at = "feed", need_context_rows,
         context_state = "POSTPONED_ROW"
  PROVE  /\ GroupsGone \in Nat
         /\ \A c \in Component(image) : \A j \in -1 .. rgroup(c) :
               Shown(whichptr, c, rowgroup_ctr * rgroup(c) + j)
                 = Clamp(image, c, GroupsGone * rgroup(c) + j)
<1>1. /\ image \in Images /\ Running /\ buffer_full
      /\ Earlier \in 0 .. TR - 1 /\ TR \in Nat
      /\ whichptr \in {0, 1} /\ ~ BottomSet
  BY Feeding DEF IndInv, TypeOK, BottomSet
<1>2. rowgroup_ctr = M + 1 /\ Earlier > 0
  BY <1>1 DEF IndInv, MainOK
<1>3. GroupsGone = M * Earlier - 1
  BY DEF GroupsGone
<1>4. ASSUME NEW c \in Component(image), NEW j \in -1 .. rgroup(c)
      PROVE  Shown(whichptr, c, rowgroup_ctr * rgroup(c) + j)
               = Clamp(image, c, GroupsGone * rgroup(c) + j)
  <2> DEFINE g == rgroup(c)
             E == Earlier
             P == g * M
             end == g * (M + 2)
             i == rowgroup_ctr * g + j
             s == GroupsGone * g + j
  <2>1. g \in Nat \ {0} /\ M \in {2, 4, 8} /\ P \in Nat \ {0}
    BY <1>1, ListSizes, ComponentSizes
  <2>2. end = P + 2 * g /\ i = end - (g - j) /\ s = E * P - (g - j)
    <3>1. (M + 1) * g = P + g /\ end = P + 2 * g
      <4> HIDE DEF g
      <4> QED
        BY <2>1
    <3>2. (M * E - 1) * g = E * P - g
      <4> HIDE DEF g
      <4> QED
        BY <1>1, <2>1
    <3>3. E * P \in Nat
      <4> HIDE DEF g, P, E
      <4> QED
        BY <1>1, <2>1 DEF E
    <3> HIDE DEF g, P, end, E
    <3>4. i = P + g + j /\ s = (E * P - g) + j
      BY <1>2, <1>3, <3>1, <3>2 DEF E
    <3> DEFINE A == E * P
    <3> HIDE DEF i, s, A
    <3> QED
      BY <2>1, <3>1, <3>3, <3>4 DEF A, g
  <2>3. SampleRow(c, E, 0) < Height(c) /\ Height(c) \in Nat
    <3>1. 0 \in 0 .. P - 1
      <4> HIDE DEF P
      <4> QED
        BY <2>1
    <3>2. rows_left(c) > 0
      BY <1>1, <2>1, ListSizes
    <3> QED
      BY <1>1, <3>1, <3>2, InsidePicture, Heights
  <2> DEFINE low == E * P
  <2>4. low \in Nat /\ low >= P
    <3> HIDE DEF P
    <3> QED
      BY <1>1, <2>1, <1>2
  <2>5. P >= 2 * g
    BY <2>1, Products
  <2>6. low < Height(c)
    BY <2>3, <2>4 DEF SampleRow
  <2>7. Shown(whichptr, c, i) = s
    <3>1. CASE j = g
      <4>1. i = end /\ s = low
        <5> HIDE DEF g, P, end, i, s, low
        <5> QED
          BY <2>1, <2>2, <2>4, <3>1 DEF low
      <4> QED
        BY <1>1, <1>2, ListShows, <4>1, <2>4 DEF SampleRow
    <3>2. CASE j # g
      <4> DEFINE k == g - j
      <4>1. k \in 1 .. 2 * g
        BY <2>1, <3>2
      <4>2. SampleRow(c, E, -k) = low - k
        <5>1. SampleRow(c, E, -k) = low + (-k)
          BY DEF SampleRow
        <5> HIDE DEF low
        <5> QED
          BY <2>1, <2>4, <4>1, <5>1
      <4> QED
        BY <2>2, <1>1, <1>2, <4>1, ListShows, <4>2
    <3> QED
      BY <3>1, <3>2
  <2>8. s \in Nat /\ s < Height(c)
    <3> HIDE DEF g, P, s, end, i, low
    <3>1. s = low - (g - j) /\ g - j \in 0 .. g + 1 /\ g >= 1
      BY <2>1, <2>2 DEF low, g
    <3> QED
      BY <2>1, <2>3, <2>4, <2>5, <2>6, <3>1
  <2> QED
    BY <1>1, <2>7, <2>8, ShowsClamped
<1> QED
  BY <1>1, Parameters, <1>2, <1>3, <1>4

(* In the iMCU row itself, down to the last row group but one, or to the   *)
(* bottom of the picture and a row below it.                               *)
LEMMA ProcessShows ==
  ASSUME IndInv, ContextBuffer, Pointers, at = "feed", need_context_rows,
         context_state = "PROCESS_IMCU"
  PROVE  /\ GroupsGone \in Nat
         /\ \A c \in Component(image) : \A j \in -1 .. rgroup(c) :
               Shown(whichptr, c, rowgroup_ctr * rgroup(c) + j)
                 = Clamp(image, c, GroupsGone * rgroup(c) + j)
<1>1. /\ image \in Images /\ Running /\ buffer_full
      /\ Earlier \in 0 .. TR - 1 /\ TR \in Nat
      /\ output_iMCU_row \in 1 .. TR /\ Earlier = output_iMCU_row - 1
      /\ whichptr \in {0, 1} /\ M \in {1, 2, 4, 8} /\ rowgroup_ctr \in Nat
  BY Feeding DEF IndInv, TypeOK
<1>2. /\ rowgroup_ctr < rowgroups_avail
      /\ rowgroups_avail = IF output_iMCU_row = TR
                           THEN RowGroupsLeft(LastComponent) ELSE M - 1
  BY <1>1 DEF IndInv, MainOK
<1>3. GroupsGone = M * Earlier + rowgroup_ctr
  BY DEF GroupsGone
<1>4. BottomSet <=> output_iMCU_row = TR
  BY <1>1 DEF BottomSet
<1>5. ASSUME NEW c \in Component(image), NEW j \in -1 .. rgroup(c)
      PROVE  Shown(whichptr, c, rowgroup_ctr * rgroup(c) + j)
               = Clamp(image, c, GroupsGone * rgroup(c) + j)
  <2> DEFINE g == rgroup(c)
             E == Earlier
             P == g * M
             low == E * P
             i == rowgroup_ctr * g + j
             s == GroupsGone * g + j
  <2>1. g \in Nat \ {0} /\ M \in {2, 4, 8} /\ P \in Nat \ {0}
    BY <1>1, ListSizes, ComponentSizes
  <2>2. low \in Nat /\ rowgroup_ctr * g \in Nat /\ j \in Int
    <3> HIDE DEF g, P
    <3> QED
      BY <1>1, <2>1 DEF g
  <2>3. s = low + i
    <3>1. (M * E + rowgroup_ctr) * g = low + rowgroup_ctr * g
      <4> HIDE DEF g
      <4> QED
        BY <1>1, <2>1
    <3>2. s = (M * E + rowgroup_ctr) * g + j
      BY <1>3
    <3> DEFINE A == rowgroup_ctr * g
    <3> HIDE DEF g, P, low, A, s
    <3> QED
      BY <2>2, <3>1, <3>2 DEF A
  <2>4. SampleRow(c, E, i) = s
    BY <2>3 DEF SampleRow
  <2>5. /\ Height(c) \in Nat \ {0} /\ rows_left(c) \in 1 .. P
        /\ Height(c) = SampleRow(c, TR - 1, rows_left(c))
    BY <1>1, Heights
  <2>6. CASE i < 0
    <3>1. rowgroup_ctr = 0 /\ j = -1 /\ i = -1
      <4>1. CASE rowgroup_ctr >= 1
        <5>1. rowgroup_ctr * g >= 1 * g /\ 1 * g = g
          <6> HIDE DEF g
          <6> QED
            BY <1>1, <2>1, <4>1
        <5> DEFINE A == rowgroup_ctr * g
        <5> HIDE DEF A, g
        <5> QED
          BY <2>1, <2>2, <2>6, <5>1 DEF A, g
      <4>2. CASE rowgroup_ctr = 0
        BY <2>1, <2>2, <4>2, <2>6
      <4> QED
        BY <1>1, <4>1, <4>2
    <3>2. CASE E = 0
      BY <2>1, <1>1, <3>2, ListShows, <2>3, <3>1, Clamped
    <3>3. CASE E > 0
      <4>1. Shown(whichptr, c, -1) = SampleRow(c, E, -1)
        BY <2>1, <1>1, <3>3, ListShows
      <4>2. low >= P
        <5> HIDE DEF P
        <5> QED
          BY <1>1, <2>1, <3>3
      <4>3. SampleRow(c, E, 0) < Height(c)
        <5>1. 0 \in 0 .. P - 1
          <6> HIDE DEF P
          <6> QED
            BY <2>1
        <5> QED
          BY <1>1, <2>5, <5>1, InsidePicture
      <4>4. SampleRow(c, E, 0) = low + 0
        BY DEF SampleRow
      <4>5. s \in Nat /\ s < Height(c)
        <5> HIDE DEF low, i, s, P
        <5> QED
          BY <2>1, <2>2, <2>3, <2>5, <3>1, <4>2, <4>3, <4>4
      <4> QED
        BY <1>1, <2>4, <3>1, <4>1, <4>5, ShowsClamped
    <3> QED
      BY <1>1, <3>2, <3>3
  <2>7. CASE i >= 0 /\ output_iMCU_row # TR
    <3>1. i \in 0 .. P - 1
      <4>1. (rowgroup_ctr + 2) * g <= M * g
        <5> HIDE DEF g
        <5> QED
          BY <1>1, <1>2, <2>1, <2>7
      <4>2. (rowgroup_ctr + 2) * g = rowgroup_ctr * g + 2 * g /\ M * g = P
        <5> HIDE DEF g
        <5> QED
          BY <1>1, <2>1
      <4> DEFINE A == rowgroup_ctr * g
      <4> HIDE DEF A, g, P
      <4>3. P \in Nat /\ M * g = P /\ A + 2 * g <= P /\ i = A + j
        BY <2>1, <4>1, <4>2 DEF A
      <4> HIDE DEF i
      <4> QED
        BY <2>1, <2>2, <2>7, <4>3 DEF A, g
    <3>2. SampleRow(c, E, i) < Height(c) /\ SampleRow(c, E, i) \in Nat
      BY <1>1, <3>1, <2>7, InsidePicture
    <3> QED
      BY <1>1, <2>4, <3>2, <1>4, <2>7, <3>1, ListShows, ShowsClamped
  <2>8. CASE i >= 0 /\ output_iMCU_row = TR
    <3>1. E = TR - 1 /\ BottomSet
      BY <1>1, <1>4, <2>8
    <3>2. rowgroup_ctr + 1 <= RowGroupsLeft(c)
      <4>1. /\ RowGroupsLeft(LastComponent) \in 1 .. M
            /\ RowGroupsInAll = M * (TR - 1) + RowGroupsLeft(LastComponent)
        BY <1>1, ContextImage, LastRow
      <4> DEFINE A == M * (TR - 1)
                 a == RowGroupsLeft(c)
                 b == RowGroupsLeft(LastComponent)
      <4> HIDE DEF A, a, b
      <4>2. a = b
        BY <1>1, <4>1, LastRow DEF A, a, b
      <4> QED
        BY <1>1, <4>2, <1>2, <2>8, <4>1 DEF a, b
    <3>3. i < rows_left(c) + 2 * g
      <4> DEFINE k == rows_left(c) - 1
                 a == k \div g
      <4>1. k \in Nat /\ a \in Nat /\ g * a <= k
        <5>1. k \in Nat
          <6> HIDE DEF P
          <6> QED
            BY <2>1, <2>5
        <5> HIDE DEF k, g
        <5>2. a \in Nat /\ k % g \in 0 .. g - 1 /\ k = g * a + (k % g)
          BY <2>1, <5>1, DivMod
        <5> HIDE DEF a
        <5> QED
          BY <2>1, <5>1, <5>2
      <4>2. rowgroup_ctr <= a
        <5>1. RowGroupsLeft(c) = a + 1
          BY DEF RowGroupsLeft
        <5> HIDE DEF a
        <5> QED
          BY <1>1, <3>2, <4>1, <5>1
      <4>3. rowgroup_ctr * g <= g * a
        <5> HIDE DEF a, g
        <5> QED
          BY <1>1, <2>1, <4>1, <4>2
      <4> DEFINE A == rowgroup_ctr * g
                 B == g * a
      <4>4. B \in Nat
        <5> HIDE DEF a, g
        <5> QED
          BY <2>1, <4>1
      <4>5. j <= g /\ i = A + j
        BY <2>1
      <4>6. rows_left(c) = k + 1
        <5> HIDE DEF P
        <5> QED
          BY <2>1, <2>5
      <4> HIDE DEF A, B, i, g, k, a
      <4> QED
        BY <2>1, <2>2, <4>1, <4>3, <4>4, <4>5, <4>6 DEF A, B
    <3>4. i \in 0 .. rows_left(c) + 2 * g - 1
      <4> HIDE DEF P, g, i
      <4> QED
        BY <2>1, <2>5, <2>8, <3>3, <2>2 DEF i, g
    <3>5. Shown(whichptr, c, i) =
             SampleRow(c, E, IF i < rows_left(c) THEN i ELSE rows_left(c) - 1)
      BY <1>1, <3>1, <3>4, ListShows
    <3> DEFINE left == rows_left(c)
    <3>6. Height(c) = low + left
      BY <2>5, <3>1 DEF SampleRow
    <3>7. CASE i < left
      <4>1. s \in Nat /\ s < Height(c)
        <5> HIDE DEF s, i, low, left, P
        <5> QED
          BY <2>1, <2>2, <2>3, <2>5, <2>8, <3>4, <3>6, <3>7 DEF left
      <4> QED
        BY <1>1, <2>4, <3>5, <3>7, <4>1, ShowsClamped
    <3>8. CASE i >= left
      <4>1. Shown(whichptr, c, i) = low + (left - 1)
        <5>1. ~ (i < left)
          <6> HIDE DEF i, P
          <6> QED
            BY <2>1, <2>5, <3>4, <3>8
        <5> QED
          BY <3>5, <5>1 DEF SampleRow
      <4>2. s \in Int /\ s >= Height(c) /\ low + (left - 1) = Height(c) - 1
        <5> HIDE DEF s, i, low, left, P
        <5> QED
          BY <2>1, <2>2, <2>3, <2>5, <3>4, <3>6, <3>8 DEF left
      <4> QED
        BY <1>1, <4>1, <4>2, Clamped
    <3>9. i < left \/ i >= left
      <4> HIDE DEF i, left, P
      <4> QED
        BY <2>1, <2>5, <3>4 DEF left
    <3> QED
      BY <3>7, <3>8, <3>9
  <2>9. i < 0 \/ i >= 0
    <3> HIDE DEF g
    <3> QED
      BY <2>2
  <2> QED
    BY <2>6, <2>7, <2>8, <2>9
<1> QED
  BY <1>1, <1>3, <1>5

LEMMA ListInUse ==
  ASSUME IndInv, SimpleBuffer, ContextBuffer, Pointers, at = "feed", CanFeed
  PROVE  GroupsGone \in Nat /\ ShowsGroup(rowgroup_ctr, GroupsGone)
<1>1. CASE ~ need_context_rows
  BY <1>1, SimpleShows
<1>2. CASE need_context_rows
  <2>1. \A c \in Component(image) : Needed(c, GroupsGone) \subseteq -1 .. rgroup(c)
    <3> SUFFICES ASSUME NEW c \in Component(image)
                 PROVE  Needed(c, GroupsGone) \subseteq -1 .. rgroup(c)
      OBVIOUS
    <3> QED
      BY Feeding, ComponentSizes DEF Needed
  <2> QED
    BY <1>2, PostponedShows, ProcessShows, <2>1 DEF ShowsGroup, CanFeed, IndInv, TypeOK
<1> QED
  BY <1>1, <1>2

-----------------------------------------------------------------------------
(* One call of the upsampler: the rows it emits are rows of the picture,   *)
(* and what it holds back are rows of the row group it is at.              *)
Held(u) ==
    /\ u.consumed => /\ upsampler = "sep" => u.next_row_out = V
                     /\ upsampler = "merged_2v" => ~ u.spare_full
    /\ ~ u.consumed => /\ upsampler = "sep" => u.color_buf = Group
                       /\ upsampler = "merged_2v" /\ u.spare_full
                            => u.spare_row = ConvRow(Group, 1)

LEMMA EmittedRows ==
  ASSUME IndInv, HeldRows, at = "feed"
  PROVE  /\ \A i \in DOMAIN Upsampled(Room).lines :
               Upsampled(Room).lines[i] = ConvRow(Group, Pending + i)
         /\ Held(Upsampled(Room))
<1> DEFINE u == Upsampled(Room)
<1>1. /\ image \in Images /\ Running /\ V \in 1 .. 4 /\ max_v_samp_factor = V
      /\ next_row_out \in 0 .. V /\ spare_full \in BOOLEAN
  BY Feeding DEF IndInv, TypeOK, V
<1>2. /\ upsampler = "sep" /\ next_row_out < V => color_buf = Group
      /\ upsampler = "merged_2v" /\ spare_full => spare_row = ConvRow(Group, 1)
  BY <1>1 DEF HeldRows
<1>3. CASE upsampler = "sep"
  <2> DEFINE first == IF ConvBufEmpty THEN 0 ELSE next_row_out
             buf == IF ConvBufEmpty THEN Group ELSE color_buf
             n == RowsOut(first, Room)
  <2>1. /\ u.lines = [i \in 0 .. n - 1 |-> ConvRow(buf, first + i)]
        /\ u.consumed = (first + n >= V) /\ u.next_row_out = first + n
        /\ u.color_buf = buf /\ u.num_rows = n
    BY <1>1, <1>3 DEF sep_upsample, Upsampled
  <2>2. buf = Group
    BY <1>1, <1>2, <1>3 DEF ConvBufEmpty
  <2>3. Pending = first /\ first \in 0 .. V - 1
    BY <1>1, <1>3 DEF ConvBufEmpty, Pending, InGroup
  <2> HIDE DEF n, first, buf
  <2>4. u.consumed => u.next_row_out = V
    <3>1. u.next_row_out \in 0 .. V
      BY UpsamplerCounts DEF Counted
    <3> HIDE DEF u
    <3>2. SUFFICES ASSUME u.consumed PROVE u.next_row_out = V
      OBVIOUS
    <3>3. first + n >= V
      BY <2>1, <3>2, Zenon
    <3> QED
      BY <1>1, <2>1, <3>1, <3>3
  <2> HIDE DEF u
  <2> QED
    BY <2>1, <2>2, <2>3, <1>3, <2>4 DEF u, Held
<1>4. CASE upsampler = "merged_2v"
  <2> DEFINE n == IF spare_full THEN 1 ELSE Min({2, rows_to_go, Room})
             full == ~ spare_full /\ n <= 1
  <2>1. /\ u.lines = [i \in 0 .. n - 1 |-> IF spare_full THEN spare_row
                                           ELSE ConvRow(Group, i)]
        /\ u.consumed = ~ full /\ u.spare_full = full
        /\ u.spare_row = IF full THEN ConvRow(Group, 1) ELSE spare_row
    BY <1>4 DEF merged_2v_upsample, Upsampled
  <2>2. Pending = IF spare_full THEN 1 ELSE 0
    BY <1>4 DEF Pending, InGroup
  <2>3. \A i \in DOMAIN u.lines : u.lines[i] = ConvRow(Group, Pending + i)
    <3> SUFFICES ASSUME NEW i \in DOMAIN u.lines
                 PROVE  u.lines[i] = ConvRow(Group, Pending + i)
      OBVIOUS
    <3>1. CASE spare_full
      <4>1. n = 1 /\ Pending = 1
        BY <2>2, <3>1
      <4> HIDE DEF n, full, u
      <4> QED
        BY <1>2, <1>4, <3>1, <4>1, <2>1
    <3>2. CASE ~ spare_full
      <4>1. DOMAIN u.lines = 0 .. n - 1
        BY <2>1
      <4> HIDE DEF n, full, u
      <4>2. i \in Int
        BY <4>1
      <4> QED
        BY <2>2, <3>2, <2>1, <4>1, <4>2
    <3> QED
      BY <3>1, <3>2
  <2> HIDE DEF u, full, n
  <2> QED
    BY <2>3, <1>4, <2>1 DEF u, Held
<1>5. CASE upsampler = "merged_1v"
  <2>1. u.lines = [i \in {0} |-> ConvRow(Group, 0)] /\ u.consumed = TRUE
    BY <1>5 DEF merged_1v_upsample, Upsampled
  <2> HIDE DEF u
  <2> QED
    BY <1>5, <2>1 DEF u, Held, Pending, InGroup
<1> QED
  BY <1>3, <1>4, <1>5, <1>1, Parameters DEF ImageOK, upsampler

LEMMA UpsampledLines ==
  ASSUME IndInv, ContentInv, at = "feed", CanFeed
  PROVE  /\ \A i \in DOMAIN Upsampled(Room).lines :
               Upsampled(Room).lines[i] = Line(image, output_scanline + i)
         /\ Held(Upsampled(Room))
<1> DEFINE u == Upsampled(Room)
           G == GroupsGone
<1>1. /\ image \in Images /\ V \in 1 .. 4 /\ OH \in Nat
      /\ output_scanline \in 0 .. OH
      /\ output_scanline = V * G + Pending /\ Pending \in Nat
  BY Feeding
<1>2. /\ \A i \in DOMAIN u.lines : u.lines[i] = ConvRow(Group, Pending + i)
      /\ Held(u)
  BY EmittedRows DEF ContentInv
<1>3. G \in Nat /\ ShowsGroup(rowgroup_ctr, G)
  BY ListInUse DEF ContentInv
<1>4. Counted(u)
  BY UpsamplerCounts
<1> HIDE DEF u
<1>5. Pending + u.num_rows <= V
  BY <1>4, <1>1 DEF Counted, InGroup
<1>6. ASSUME NEW i \in DOMAIN u.lines
      PROVE  u.lines[i] = Line(image, output_scanline + i)
  <2>1. /\ i \in 0 .. u.num_rows - 1 /\ u.num_rows \in Nat
        /\ u.num_rows <= OH - output_scanline
    BY <1>4, <1>6 DEF Counted
  <2> DEFINE q == Pending + i
             A == V * G
  <2>2. A \in Nat
    BY <1>1, <1>3
  <2>3. q \in 0 .. V - 1 /\ A + q = output_scanline + i /\ A + q < OH
    <3> HIDE DEF A, G
    <3>1. output_scanline = A + Pending
      BY <1>1 DEF A
    <3> QED
      BY <1>1, <1>5, <2>1, <2>2, <3>1
  <2> HIDE DEF q, G
  <2> QED
    BY <1>2, <2>3, <1>1, <1>3, ConvRowIsLine DEF q
<1> QED
  BY <1>2, <1>6 DEF u

-----------------------------------------------------------------------------
(* What a step that keeps the image does not change.                       *)
LEMMA SameRows ==
  ASSUME image' = image
  PROVE  /\ Component(image)' = Component(image)
         /\ rounded_height(image)' = rounded_height(image)
         /\ \A r : Line(image, r)' = Line(image, r)
         /\ \A c : /\ rgroup(c)' = rgroup(c) /\ Height(c)' = Height(c)
                   /\ rows_left(c)' = rows_left(c)
                   /\ \A n, i : /\ SampleRow(c, n, i)' = SampleRow(c, n, i)
                                /\ Funny(n, c, i)' = Funny(n, c, i)
BY DEF rgroup, Height, rows_left, SampleRow, Funny, M

(* The rows a call of the post controller delivers are the next rows of    *)
(* the picture: a step of RowDelivery.                                     *)
LEMMA EmitDelivers ==
  ASSUME image \in Images, image' = image, output_scanline \in 0 .. OH,
         NEW n \in Nat \ {0}, n <= OH - output_scanline, NEW lines,
         DOMAIN lines = 0 .. n - 1,
         \A i \in DOMAIN lines : lines[i] = Line(image, output_scanline + i),
         Emit(lines, n)
  PROVE  \E m \in 1 .. OH : Delivery!Deliver(m)
<1>1. OH \in Nat /\ OH = output_height(image)
  BY Parameters DEF OH
<1>2. n \in 1 .. OH /\ output_scanline + n <= output_height(image)
  BY <1>1
<1> DEFINE fresh == {output_scanline + i : i \in DOMAIN lines}
           rows == Delivery!Rows(output_scanline, output_scanline + n)
<1>3. fresh = rows
  <2>1. rows = {r \in 0 .. OH - 1 :
                   output_scanline <= r /\ r < output_scanline + n}
    BY <1>1 DEF Delivery!Rows
  <2> HIDE DEF rows
  <2>2. ASSUME NEW r \in rows PROVE r \in fresh
    <3>1. r - output_scanline \in 0 .. n - 1
          /\ r = output_scanline + (r - output_scanline)
      BY <1>1, <2>1
    <3> QED
      BY <3>1
  <2> QED
    BY <1>1, <2>1, <2>2
<1>4. \A r \in fresh : lines[r - output_scanline] = Line(image, r)
  <2> SUFFICES ASSUME NEW i \in DOMAIN lines
               PROVE  lines[(output_scanline + i) - output_scanline]
                        = Line(image, output_scanline + i)
    OBVIOUS
  <2> QED
    BY <1>1
<1>5. got' = [r \in DOMAIN got \cup fresh |->
                IF r \in DOMAIN got THEN got[r] ELSE Line(image, r)]
  <2>1. got' = [r \in DOMAIN got \cup fresh |->
                  IF r \in DOMAIN got THEN got[r]
                  ELSE lines[r - output_scanline]]
    BY DEF Emit
  <2> HIDE DEF fresh
  <2> QED
    BY <1>4, <2>1
<1>6. Delivery!Deliver(n)
  BY <1>2, <1>3, <1>5 DEF Delivery!Deliver, Emit
<1> QED
  BY <1>2, <1>6

LEMMA PostProcessDelivers ==
  ASSUME IndInv, ContentInv, at = "feed", CanFeed, image' = image,
         PostProcess(Upsampled(Room))
  PROVE  \E m \in 1 .. OH : Delivery!Deliver(m)
<1> DEFINE u == Upsampled(Room)
           n == u.num_rows
           lines == u.lines
<1>1. n \in Nat \ {0} /\ n <= OH - output_scanline /\ DOMAIN lines = 0 .. n - 1
  BY UpsamplerCounts DEF Counted
<1>2. \A i \in DOMAIN lines : lines[i] = Line(image, output_scanline + i)
  BY UpsampledLines
<1>3. Emit(lines, n)
  BY DEF PostProcess
<1> HIDE DEF lines, n, u
<1> QED
  BY Feeding, <1>1, <1>2, <1>3, EmitDelivers

LEMMA RoundedHeight ==
  ASSUME image \in Images
  PROVE  rounded_height(image) \in Nat /\ OH <= rounded_height(image)
<1> DEFINE b == OH + V - 1
           a == b \div V
<1>1. OH \in Nat \ {0} /\ V \in 1 .. 4 /\ b \in Nat
  BY Parameters
<1>2. b = OH + V - 1
  OBVIOUS
<1> HIDE DEF b
<1>3. a \in Nat /\ b % V \in 0 .. V - 1 /\ b = V * a + (b % V)
  BY <1>1, DivMod
<1> HIDE DEF a
<1>4. a * V = V * a /\ V * a \in Nat
  BY <1>1, <1>3
<1>5. V * a >= OH
  <2> DEFINE y == V * a
             z == b % V
  <2>1. y \in Nat /\ z \in 0 .. V - 1 /\ b = y + z
    BY <1>3, <1>4
  <2> HIDE DEF y, z
  <2>2. y >= OH
    BY <1>1, <1>2, <2>1
  <2> QED
    BY <2>2 DEF y
<1> QED
  BY <1>1, <1>3, <1>4, <1>5 DEF rounded_height, CeilDiv, OH, V, max_v_samp_factor

(* The rows saved for the second pass of two-pass quantization are those   *)
(* of the picture.                                                         *)
LEMMA PostProcessSaves ==
  ASSUME IndInv, ContentInv, at = "feed", CanFeed, image' = image,
         pass' = pass, PostProcess(Upsampled(Room))
  PROVE  SavedRows'
<1> DEFINE u == Upsampled(Room)
<1>1. /\ image \in Images /\ output_scanline \in 0 .. OH /\ OH \in Nat
      /\ Running /\ V \in 1 .. 4
  BY Feeding
<1>2. /\ u.num_rows \in Nat /\ u.num_rows <= OH - output_scanline
      /\ DOMAIN u.lines = 0 .. u.num_rows - 1
  BY UpsamplerCounts DEF Counted
<1>3. \A i \in DOMAIN u.lines : u.lines[i] = Line(image, output_scanline + i)
  BY UpsampledLines
<1>4. PostProcess(u)
  OBVIOUS
<1> HIDE DEF u
<1>5. output_scanline' = output_scanline + u.num_rows
  BY <1>4 DEF PostProcess, Emit
<1>6. /\ OH <= rounded_height(image)
      /\ DOMAIN whole_image = 0 .. rounded_height(image) - 1
      /\ pass \in {"SAVE_AND_PASS", "CRANK_DEST"} /\ next_row > 0
           => strip = starting_row
      /\ pass = "SAVE_AND_PASS" =>
           \A r \in 0 .. output_scanline - 1 : whole_image[r] = Line(image, r)
  BY <1>1, RoundedHeight DEF ContentInv, SavedRows
<1>7. DOMAIN whole_image' = DOMAIN whole_image
  BY <1>4 DEF PostProcess, Store
<1>8. OH' = OH /\ rounded_height(image)' = rounded_height(image)
      /\ \A r : Line(image, r)' = Line(image, r)
  BY SameRows, SameImage
<1>9. pass' # "CRANK_DEST"
  BY <1>1 DEF Running
<1>10. CASE pass # "SAVE_AND_PASS"
  BY <1>9, <1>10, <1>6, <1>7, <1>8 DEF SavedRows
<1>11. CASE pass = "SAVE_AND_PASS"
  <2>1. /\ strip' = IF next_row = 0 THEN starting_row ELSE strip
        /\ Store(strip' + next_row, u.lines)
        /\ AdvanceStrip(next_row + u.num_rows)
    BY <1>4, <1>11 DEF PostProcess
  <2>2. /\ output_scanline = starting_row + next_row
        /\ next_row \in Nat /\ starting_row \in Nat
    BY <1>1, <1>11 DEF IndInv, TypeOK, PostOK, strip_height
  <2>3. strip' = starting_row /\ strip' + next_row = output_scanline
    BY <1>6, <1>11, <2>1, <2>2
  <2>4. ASSUME NEW r \in 0 .. output_scanline' - 1
        PROVE  whole_image'[r] = Line(image, r)
    <3>1. r \in DOMAIN whole_image
      BY <1>1, <1>2, <1>5, RoundedHeight, <1>6
    <3>2. whole_image'[r] = IF r - output_scanline \in DOMAIN u.lines
                            THEN u.lines[r - output_scanline]
                            ELSE whole_image[r]
      BY <2>1, <2>3, <3>1 DEF Store
    <3>3. CASE r < output_scanline
      BY <1>1, <1>2, <3>3, <1>6, <1>11, <3>2
    <3>4. CASE r >= output_scanline
      <4> DEFINE i == r - output_scanline
      <4> QED
        BY <1>3, <3>2, <1>1, <1>2, <1>5, <3>4
    <3> QED
      BY <1>1, <3>3, <3>4
  <2> QED
    BY <1>6, <1>7, <1>8, <1>9, <2>1, <2>3, <2>4 DEF SavedRows, AdvanceStrip
<1> QED
  BY <1>10, <1>11

(* What the upsampler holds back when its row group is not used up.        *)
LEMMA PostProcessHolds ==
  ASSUME IndInv, ContentInv, at = "feed", CanFeed, image' = image,
         PostProcess(Upsampled(Room)), buffer' = buffer,
         \/ Upsampled(Room).consumed
         \/ /\ UNCHANGED <<rowgroup_ctr, whichptr, xbuffer>>
            /\ buffer_full' /\ context_state' # "PREPARE_FOR_IMCU"
         \/ /\ UNCHANGED <<rowgroup_ctr, whichptr, xbuffer>>
            /\ buffer_full' /\ ~ need_context_rows
  PROVE  HeldRows'
<1> DEFINE u == Upsampled(Room)
<1>1. Held(u) /\ PostProcess(u)
  BY UpsampledLines
<1>2. /\ V' = V /\ upsampler' = upsampler
      /\ need_context_rows' = need_context_rows
      /\ \A c : WorkRows(c)' = WorkRows(c) /\ rgroup(c)' = rgroup(c)
  BY SameImage, SameRows
<1>3. ASSUME rowgroup_ctr' = rowgroup_ctr, whichptr' = whichptr,
             xbuffer' = xbuffer
      PROVE  Group' = Group /\ ConvRow(Group, 1)' = ConvRow(Group, 1)
  <2>1. \A w, c, i : Shown(w, c, i)' = Shown(w, c, i)
    BY <1>2, <1>3 DEF Shown
  <2>2. Group' = Group
    BY <1>2, <1>3, <2>1 DEF Group
  <2>3. \A c : Fullsize(c)' = Fullsize(c)
    BY <1>2 DEF Fullsize, max_v_samp_factor
  <2> QED
    BY <1>2, <2>1, <2>2, <2>3 DEF ConvRow
<1> HIDE DEF u
<1>4. /\ color_buf' = u.color_buf /\ next_row_out' = u.next_row_out
      /\ spare_full' = u.spare_full /\ spare_row' = u.spare_row
  BY <1>1 DEF PostProcess
<1>5. CASE u.consumed
  BY <1>1, <1>2, <1>4, <1>5, Feeding DEF Held, NothingHeld, HeldRows
<1>6. CASE ~ u.consumed
  BY <1>2, <1>6, <1>3, <1>1, <1>4 DEF u, Held, HeldRows
<1> QED
  BY <1>5, <1>6

-----------------------------------------------------------------------------
(* Each step keeps ContentInv.  First the steps that move no pointer.      *)
LEMMA ListsKept ==
  ASSUME ContentInv,
         UNCHANGED <<image, pass, buffer, xbuffer, whichptr, output_iMCU_row>>,
         buffer_full' => buffer_full,
         Running /\ need_context_rows =>
            /\ buffer_full' = buffer_full
            /\ BottomSet' <=> BottomSet
            /\ BottomSet' /\ context_state' = "PROCESS_IMCU"
                 => context_state = "PROCESS_IMCU"
  PROVE  SimpleBuffer' /\ ContextBuffer' /\ Pointers'
<1>1. /\ TR' = TR /\ M' = M /\ need_context_rows' = need_context_rows
      /\ Component(image)' = Component(image)
      /\ \A c : /\ rgroup(c)' = rgroup(c) /\ Height(c)' = Height(c)
                /\ rows_left(c)' = rows_left(c)
                /\ \A n, i : /\ SampleRow(c, n, i)' = SampleRow(c, n, i)
                             /\ Funny(n, c, i)' = Funny(n, c, i)
  BY SameImage, SameRows
<1>2. Running' <=> Running
  BY DEF Running
<1>3. Running /\ need_context_rows => Earlier' = Earlier
  BY DEF Earlier
<1>4. Pointers'
  <2> SUFFICES ASSUME Running, need_context_rows PROVE Pointers'
    BY <1>1, <1>2 DEF Pointers
  <2> USE DEF Pointers, ContentInv
  <2> QED
    BY <1>1, <1>2, <1>3
<1> QED
  BY <1>1, <1>2, <1>3, <1>4 DEF ContextBuffer, ContentInv, Earlier, SimpleBuffer

LEMMA FeedSimpleContent ==
  ASSUME IndInv, ContentInv, FeedSimple
  PROVE  ContentInv'
<1> DEFINE u == Upsampled(Room)
<1>1. /\ at = "feed" /\ ~ need_context_rows /\ PostProcess(u)
      /\ IF GroupsDone(u) >= M
         THEN buffer_full' = FALSE /\ rowgroup_ctr' = 0
         ELSE rowgroup_ctr' = GroupsDone(u) /\ buffer_full' = buffer_full
      /\ UNCHANGED <<image, pass, output_iMCU_row, buffer, whichptr, xbuffer>>
  BY DEF FeedSimple
<1>2. /\ Running /\ buffer_full /\ M \in {1, 2, 4, 8}
      /\ rowgroup_ctr \in 0 .. M + 2
  BY <1>1, Feeding
<1>3. CanFeed
  BY <1>1 DEF CanFeed
<1>4. \/ u.consumed
      \/ rowgroup_ctr' = rowgroup_ctr /\ buffer_full'
  <2> SUFFICES ASSUME ~ u.consumed
               PROVE  rowgroup_ctr' = rowgroup_ctr /\ buffer_full'
    OBVIOUS
  <2> HIDE DEF u
  <2>1. GroupsDone(u) = rowgroup_ctr
    BY <1>2 DEF GroupsDone
  <2>2. ~ (GroupsDone(u) >= M)
    BY <1>2, <1>1, <2>1 DEF IndInv, MainOK
  <2> QED
    BY <1>1, <1>2, <2>1, <2>2
<1>5. HeldRows'
  BY <1>1, <1>3, <1>4, PostProcessHolds
<1> QED
  BY <1>2, <1>1, ListsKept, <1>3, PostProcessSaves, <1>5 DEF ContentInv

LEMMA FeedPostponedContent ==
  ASSUME IndInv, ContentInv, FeedPostponed
  PROVE  ContentInv'
<1> DEFINE u == Upsampled(Room)
<1>1. /\ at = "feed" /\ need_context_rows /\ PostProcess(u)
      /\ context_state = "POSTPONED_ROW"
      /\ rowgroup_ctr' = GroupsDone(u)
      /\ IF GroupsDone(u) < rowgroups_avail
         THEN context_state' = context_state
         ELSE context_state' = "PREPARE_FOR_IMCU"
      /\ UNCHANGED <<image, pass, output_iMCU_row, buffer, whichptr,
                     buffer_full, xbuffer>>
  BY DEF FeedPostponed
<1>2. /\ Running /\ buffer_full /\ M \in {1, 2, 4, 8}
      /\ rowgroup_ctr \in 0 .. M + 2
  BY <1>1, Feeding
<1>3. CanFeed
  BY <1>1 DEF CanFeed
<1>4. \/ u.consumed
      \/ /\ rowgroup_ctr' = rowgroup_ctr /\ buffer_full'
         /\ context_state' # "PREPARE_FOR_IMCU"
  <2> SUFFICES ASSUME ~ u.consumed
               PROVE  /\ rowgroup_ctr' = rowgroup_ctr /\ buffer_full'
                      /\ context_state' # "PREPARE_FOR_IMCU"
    OBVIOUS
  <2> HIDE DEF u
  <2>1. GroupsDone(u) = rowgroup_ctr
    BY <1>2 DEF GroupsDone
  <2> QED
    BY <1>1, <1>2, <2>1 DEF IndInv, MainOK
<1>5. HeldRows'
  BY <1>1, <1>3, <1>4, PostProcessHolds
<1> QED
  BY <1>1, <1>2, ListsKept, <1>3, PostProcessSaves, <1>5 DEF ContentInv, BottomSet

LEMMA SavedKept ==
  ASSUME ContentInv, pass' # "none" => pass' = pass,
         UNCHANGED <<image, output_scanline, whole_image, strip,
                     starting_row, next_row>>
  PROVE  SavedRows'
BY SameRows, SameImage DEF ContentInv, SavedRows

LEMMA NothingHeldKept ==
  ASSUME NothingHeld, image \in Images,
         UNCHANGED <<image, next_row_out, spare_full>>
  PROVE  HeldRows'
BY SameImage, Parameters DEF NothingHeld, HeldRows

LEMMA BottomLists ==
  ASSUME image \in Images, need_context_rows, DOMAIN xbuffer = {0, 1},
         whichptr \in {0, 1}, xbuffer' = set_bottom_pointers,
         NEW w \in {0, 1}, NEW c \in Component(image), NEW i \in ListRows(c)
  PROVE  xbuffer'[w][c][i] =
            IF w = whichptr /\ Duplicated(i, rows_left(c), rgroup(c))
            THEN xbuffer[w][c][rows_left(c) - 1] ELSE xbuffer[w][c][i]
BY DEF set_bottom_pointers

LEMMA PrepareForIMCUContent ==
  ASSUME IndInv, ContentInv, PrepareForIMCU
  PROVE  ContentInv'
<1>1. /\ at = "feed" /\ need_context_rows /\ context_state = "PREPARE_FOR_IMCU"
      /\ IF iMCU_row_ctr = TR THEN xbuffer' = set_bottom_pointers
                              ELSE xbuffer' = xbuffer
      /\ context_state' = "PROCESS_IMCU"
      /\ UNCHANGED <<image, pass, output_scanline, output_iMCU_row, buffer,
                     buffer_full, whichptr, next_row_out, spare_full,
                     whole_image, strip, starting_row, next_row>>
  BY DEF PrepareForIMCU, AtBottom, TR, upsample, post
<1>2. /\ Running /\ buffer_full /\ image \in Images
      /\ Earlier \in 0 .. TR - 1 /\ TR \in Nat /\ whichptr \in {0, 1}
      /\ DOMAIN xbuffer = {0, 1} /\ iMCU_row_ctr = output_iMCU_row
  BY <1>1, Feeding DEF IndInv, TypeOK, MainOK
<1>3. SavedRows'
  BY <1>1, SavedKept
<1>4. HeldRows'
  BY <1>1, <1>2, NothingHeldKept DEF ContentInv, HeldRows
<1>5. CASE iMCU_row_ctr # TR
  BY <1>1, <1>2, <1>5, SameImage, ListsKept, <1>3, <1>4 DEF BottomSet, ContentInv
<1>6. CASE iMCU_row_ctr = TR
  <2>1. /\ TR' = TR /\ M' = M /\ need_context_rows' = need_context_rows
        /\ Component(image)' = Component(image)
        /\ \A c : /\ rgroup(c)' = rgroup(c) /\ Height(c)' = Height(c)
                  /\ rows_left(c)' = rows_left(c)
                  /\ \A n, i : /\ SampleRow(c, n, i)' = SampleRow(c, n, i)
                               /\ Funny(n, c, i)' = Funny(n, c, i)
    BY <1>1, SameImage, SameRows
  <2>2. Earlier' = Earlier /\ (Running' <=> Running)
    BY <1>1 DEF Earlier, Running
  <2>3. BottomSet' /\ ~ BottomSet
    BY <1>1, <1>2, <1>6, <2>1 DEF BottomSet
  <2>4. ASSUME NEW c \in Component(image)
        PROVE  /\ \A i \in 0 .. rows_left(c) + 2 * rgroup(c) - 1 :
                     xbuffer'[whichptr][c][i] =
                        Funny(whichptr, c, IF i < rows_left(c) THEN i
                                           ELSE rows_left(c) - 1)
               /\ Earlier = 0 =>
                    /\ whichptr = 0
                    /\ \A i \in 1 .. rgroup(c) : xbuffer'[0][c][-i] = 0
               /\ Earlier \in 1 .. TR - 1 =>
                    \A w \in {0, 1} :
                       /\ \A i \in 1 .. rgroup(c) :
                             xbuffer'[w][c][-i]
                               = Funny(w, c, rgroup(c) * (M + 2) - i)
                       /\ \A i \in 0 .. rgroup(c) - 1 :
                             xbuffer'[w][c][rgroup(c) * (M + 2) + i]
                               = Funny(w, c, i)
    <3> DEFINE g == rgroup(c)
               left == rows_left(c)
               end == g * (M + 2)
    <3>1. /\ g \in Nat \ {0} /\ M \in {2, 4, 8} /\ left \in 1 .. g * M
          /\ ListRows(c) = -g .. g * (M + 3) - 1
      BY <1>1, <1>2, ListSizes
    <3>2. /\ end = g * M + 2 * g /\ g * M \in Nat
          /\ g * (M + 3) = end + g
      <4> HIDE DEF g
      <4> QED
        BY <3>1, Products
    <3>3. \A w \in {0, 1} : \A i \in ListRows(c) :
             xbuffer'[w][c][i] = IF w = whichptr /\ Duplicated(i, left, g)
                                 THEN xbuffer[w][c][left - 1]
                                 ELSE xbuffer[w][c][i]
      BY <1>1, <1>2, <1>6, BottomLists
    <3>4. /\ \A w \in {0, 1} : \A i \in 0 .. end - 1 :
                xbuffer[w][c][i] = Funny(w, c, i)
          /\ Earlier = 0 =>
               /\ whichptr = 0
               /\ \A i \in 1 .. g : xbuffer[0][c][-i] = 0
          /\ Earlier \in 1 .. TR - 1 =>
               \A w \in {0, 1} :
                  /\ \A i \in 1 .. g :
                        xbuffer[w][c][-i] = Funny(w, c, end - i)
                  /\ \A i \in 0 .. g - 1 :
                        xbuffer[w][c][end + i] = Funny(w, c, i)
      BY <1>1, <1>2, <2>3 DEF ContentInv, Pointers
    <3> HIDE DEF g, left, end
    <3>5. ASSUME NEW i \in 0 .. left + 2 * g - 1
          PROVE  xbuffer'[whichptr][c][i] =
                    Funny(whichptr, c, IF i < left THEN i ELSE left - 1)
      <4>1. i \in ListRows(c) /\ (Duplicated(i, left, g) <=> ~ (i < left))
        BY <3>1, <3>2 DEF Duplicated
      <4>2. left - 1 \in 0 .. end - 1 /\ (i < left => i \in 0 .. end - 1)
        BY <3>1, <3>2
      <4> QED
        BY <1>2, <3>3, <3>4, <4>1, <4>2
    <3>6. \A i \in 1 .. g : -i \in ListRows(c) /\ ~ Duplicated(-i, left, g)
      BY <3>1, <3>2 DEF Duplicated
    <3>7. \A i \in 0 .. g - 1 :
             end + i \in ListRows(c) /\ ~ Duplicated(end + i, left, g)
      BY <3>1, <3>2 DEF Duplicated
    <3> QED
      BY <3>5, <3>3, <3>4, <3>6, <3>7 DEF g, left, end
  <2>5. Pointers'
    BY <1>1, <2>1, <2>2, <2>3, <2>4 DEF Pointers
  <2> QED
    BY <1>3, <1>4, <1>1, <2>1, <2>2, <2>5 DEF ContentInv, SimpleBuffer, ContextBuffer
<1> QED
  BY <1>5, <1>6

LEMMA NextEarlier ==
  ASSUME image \in Images, NEW c \in Component(image), NEW n \in Nat,
         NEW i \in Int
  PROVE  SampleRow(c, n, rgroup(c) * M - i) = SampleRow(c, n + 1, -i)
<1> DEFINE P == rgroup(c) * M
<1>1. P \in Nat \ {0}
  BY ComponentSizes
<1>2. SampleRow(c, n, P - i) = n * P + (P - i)
  BY DEF SampleRow
<1>3. SampleRow(c, n + 1, -i) = (n + 1) * P + (-i)
  BY DEF SampleRow
<1> HIDE DEF P
<1>4. (n + 1) * P = n * P + P /\ n * P \in Nat
  BY <1>1
<1>5. SampleRow(c, n, P - i) = SampleRow(c, n + 1, -i)
  BY <1>1, <1>2, <1>3, <1>4
<1> QED
  BY <1>5 DEF P

(* After the last row group but one of an iMCU row, the other list shows   *)
(* the rows just read above the next iMCU row.                             *)
LEMMA SwitchLists ==
  ASSUME image \in Images, need_context_rows, Running,
         ContextBuffer, Pointers, DOMAIN xbuffer = {0, 1},
         whichptr \in {0, 1}, buffer_full,
         output_iMCU_row \in 1 .. TR - 1, iMCU_row_ctr = output_iMCU_row,
         NEW c \in Component(image),
         xbuffer' = IF iMCU_row_ctr = 1 THEN set_wraparound_pointers
                                        ELSE xbuffer
  PROVE  /\ \A i \in 1 .. 2 * rgroup(c) :
               buffer[c][Funny(1 - whichptr, c, rgroup(c) * (M + 2) - i)]
                 = SampleRow(c, output_iMCU_row, -i)
         /\ \A w \in {0, 1} :
               /\ \A i \in 0 .. rgroup(c) * (M + 2) - 1 :
                     xbuffer'[w][c][i] = Funny(w, c, i)
               /\ \A i \in 1 .. rgroup(c) :
                     xbuffer'[w][c][-i]
                       = Funny(w, c, rgroup(c) * (M + 2) - i)
               /\ \A i \in 0 .. rgroup(c) - 1 :
                     xbuffer'[w][c][rgroup(c) * (M + 2) + i]
                       = Funny(w, c, i)
<1> DEFINE g == rgroup(c)
           P == g * M
           end == g * (M + 2)
           E == output_iMCU_row - 1
<1>1. /\ g \in Nat \ {0} /\ M \in {2, 4, 8}
      /\ ListRows(c) = -g .. g * (M + 3) - 1
  BY ListSizes
<1>2. end = P + 2 * g /\ P \in Nat /\ P >= 2 * g /\ g * (M + 3) = end + g
  <2> HIDE DEF g
  <2> QED
    BY <1>1, Products
<1>3. /\ ~ BottomSet /\ E \in Nat /\ E < TR - 1 /\ Earlier = E
      /\ output_iMCU_row = E + 1 /\ TR \in Nat
  BY Parameters DEF BottomSet, Earlier
<1>4. ASSUME NEW i \in 1 .. 2 * g
      PROVE  buffer[c][Funny(1 - whichptr, c, end - i)]
               = SampleRow(c, output_iMCU_row, -i)
  <2> DEFINE v == 1 - whichptr
             k == end - i
  <2>1. v \in {0, 1} /\ 1 - v = whichptr
    OBVIOUS
  <2>2. k \in 0 .. end - 1 /\ k >= P /\ k - 2 * g = P - i
        /\ P - i \in 0 .. P - 1
    <3> HIDE DEF P, end, g
    <3> QED
      BY <1>1, <1>2
  <2>3. Funny(v, c, k) = Funny(1 - v, c, k - 2 * g)
    <3> HIDE DEF v, k
    <3> QED
      BY <2>1, <2>2, FunnyIsPermutation
  <2>4. SampleRow(c, E, P - i) < Height(c)
    <3> HIDE DEF E
    <3> QED
      BY <1>3, <2>2, InsidePicture
  <2>5. SampleRow(c, E, P - i) = SampleRow(c, E + 1, -i)
    <3> HIDE DEF E
    <3> QED
      BY <1>3, NextEarlier
  <2> QED
    BY <1>3, <2>1, <2>2, <2>3, <2>4, <2>5 DEF ContextBuffer
<1>5. /\ \A w \in {0, 1} : \A i \in 0 .. end - 1 :
            xbuffer[w][c][i] = Funny(w, c, i)
      /\ E \in 1 .. TR - 1 =>
           \A w \in {0, 1} :
              /\ \A i \in 1 .. g : xbuffer[w][c][-i] = Funny(w, c, end - i)
              /\ \A i \in 0 .. g - 1 : xbuffer[w][c][end + i] = Funny(w, c, i)
  BY <1>3 DEF Pointers
<1>6. CASE iMCU_row_ctr = 1
  <2>1. \A w \in {0, 1} : \A i \in ListRows(c) :
           xbuffer'[w][c][i] = IF i < 0 THEN xbuffer[w][c][end + i]
                               ELSE IF i >= end THEN xbuffer[w][c][i - end]
                               ELSE xbuffer[w][c][i]
    BY <1>6 DEF set_wraparound_pointers
  <2> HIDE DEF g, P, end
  <2>2. ListRows(c) = -g .. (end + g) - 1
    BY <1>1, <1>2
  <2>3. \A i \in 0 .. end - 1 : i \in ListRows(c) /\ ~ (i < 0) /\ ~ (i >= end)
    BY <1>1, <1>2, <2>2
  <2>4. \A i \in 1 .. g : /\ -i \in ListRows(c) /\ -i < 0
                          /\ end + (-i) = end - i /\ end - i \in 0 .. end - 1
    BY <1>1, <1>2, <2>2
  <2>5. \A i \in 0 .. g - 1 : /\ end + i \in ListRows(c) /\ ~ (end + i < 0)
                              /\ end + i >= end /\ (end + i) - end = i
                              /\ i \in 0 .. end - 1
    BY <1>1, <1>2, <2>2
  <2>6. ASSUME NEW w \in {0, 1}
        PROVE  /\ \A i \in 0 .. end - 1 : xbuffer'[w][c][i] = Funny(w, c, i)
               /\ \A i \in 1 .. g :
                     xbuffer'[w][c][-i] = Funny(w, c, end - i)
               /\ \A i \in 0 .. g - 1 :
                     xbuffer'[w][c][end + i] = Funny(w, c, i)
    BY <1>5, <2>1, <2>3, <2>4, <2>5
  <2> QED
    BY <1>4, <2>6 DEF g, end
<1>7. CASE iMCU_row_ctr # 1
  BY <1>3, <1>7, <1>5, <1>4
<1> QED
  BY <1>6, <1>7

LEMMA ProcessIMCUContent ==
  ASSUME IndInv, ContentInv, ProcessIMCU
  PROVE  ContentInv'
<1> DEFINE u == Upsampled(Room)
<1>1. /\ at = "feed" /\ need_context_rows /\ context_state = "PROCESS_IMCU"
      /\ PostProcess(u)
      /\ UNCHANGED <<image, pass, output_iMCU_row, buffer, iMCU_row_ctr>>
      /\ IF GroupsDone(u) < rowgroups_avail
         THEN /\ rowgroup_ctr' = GroupsDone(u)
              /\ UNCHANGED <<whichptr, buffer_full, context_state, xbuffer>>
         ELSE /\ xbuffer' = IF iMCU_row_ctr = 1
                            THEN set_wraparound_pointers ELSE xbuffer
              /\ whichptr' = 1 - whichptr
              /\ buffer_full' = FALSE
              /\ context_state' = "POSTPONED_ROW"
  BY DEF ProcessIMCU
<1>2. /\ Running /\ buffer_full /\ image \in Images
      /\ M \in {1, 2, 4, 8} /\ rowgroup_ctr \in 0 .. M + 2
      /\ output_iMCU_row \in 1 .. TR /\ TR \in Nat
      /\ whichptr \in {0, 1} /\ rowgroups_avail \in 0 .. M + 2
      /\ DOMAIN xbuffer = {0, 1} /\ iMCU_row_ctr = output_iMCU_row
      /\ rowgroup_ctr < rowgroups_avail
  BY <1>1, Feeding DEF IndInv, TypeOK, MainOK
<1>3. CanFeed
  BY <1>1 DEF CanFeed
<1>4. SavedRows'
  BY <1>1, <1>3, PostProcessSaves
<1>5. ~ u.consumed => GroupsDone(u) = rowgroup_ctr
  <2> HIDE DEF u
  <2> QED
    BY <1>2 DEF GroupsDone
<1>6. CASE GroupsDone(u) < rowgroups_avail
  BY <1>1, <1>6, SameImage, ListsKept, <1>2, <1>5, <1>3, PostProcessHolds, <1>4 DEF
     BottomSet, ContentInv
<1>7. CASE ~ (GroupsDone(u) < rowgroups_avail)
  <2>1. /\ xbuffer' = IF iMCU_row_ctr = 1
                      THEN set_wraparound_pointers ELSE xbuffer
        /\ whichptr' = 1 - whichptr
        /\ buffer_full' = FALSE
        /\ context_state' = "POSTPONED_ROW"
    BY <1>1, <1>7
  <2>2. HeldRows'
    BY <1>1, <1>3, <1>2, <1>5, <1>7, PostProcessHolds
  <2>3. /\ TR' = TR /\ M' = M /\ need_context_rows' = need_context_rows
        /\ Component(image)' = Component(image)
        /\ \A c : /\ rgroup(c)' = rgroup(c)
                  /\ \A n, i : /\ SampleRow(c, n, i)' = SampleRow(c, n, i)
                               /\ Funny(n, c, i)' = Funny(n, c, i)
    BY <1>1, SameImage, SameRows
  <2>4. Earlier' = output_iMCU_row /\ Earlier' > 0
    BY <1>1, <1>2, <2>1 DEF Earlier
  <2>5. BottomSet' <=> output_iMCU_row = TR
    BY <1>1, <2>1, <2>3 DEF BottomSet
  <2>6. SimpleBuffer'
    BY <1>1, <2>3 DEF SimpleBuffer
  <2>7. CASE output_iMCU_row = TR
    BY <1>2, <2>4, <2>7, <2>1, <2>3, <2>5, <1>4, <2>2, <2>6 DEF ContextBuffer, Pointers,
       ContentInv
  <2>8. CASE output_iMCU_row # TR
    <3>1. ASSUME NEW c \in Component(image)
          PROVE  /\ \A i \in 1 .. 2 * rgroup(c) :
                       buffer[c][Funny(whichptr', c, rgroup(c) * (M + 2) - i)]
                         = SampleRow(c, output_iMCU_row, -i)
                 /\ \A w \in {0, 1} :
                       /\ \A i \in 0 .. rgroup(c) * (M + 2) - 1 :
                             xbuffer'[w][c][i] = Funny(w, c, i)
                       /\ \A i \in 1 .. rgroup(c) :
                             xbuffer'[w][c][-i]
                               = Funny(w, c, rgroup(c) * (M + 2) - i)
                       /\ \A i \in 0 .. rgroup(c) - 1 :
                             xbuffer'[w][c][rgroup(c) * (M + 2) + i]
                               = Funny(w, c, i)
      BY <1>1, <1>2, <2>1, <2>8, SwitchLists DEF ContentInv
    <3>2. Pointers'
      BY <2>3, <3>1, <2>4, <2>5, <2>8 DEF Pointers
    <3> QED
      BY <1>4, <2>2, <2>6, <1>1, <2>1, <2>3, <2>4, <3>1, <3>2 DEF ContentInv,
         ContextBuffer
  <2> QED
    BY <2>7, <2>8
<1> QED
  BY <1>6, <1>7

-----------------------------------------------------------------------------
(* decompress_data puts each sample row of the iMCU row that lies in the   *)
(* picture where its pointer says, and no row anywhere else.               *)
LEMMA DecompressRows ==
  ASSUME image \in Images, DecompressData, NEW c \in Component(image),
         output_iMCU_row \in Nat, output_iMCU_row < TR,
         NEW place, NEW N \in Nat, N >= rgroup(c) * M,
         \A j \in 0 .. N - 1 :
            /\ place[j] \in WorkRows(c)
            /\ \A k \in 0 .. N - 1 : place[j] = place[k] => j = k,
         \A j \in 0 .. rgroup(c) * M - 1 :
            place[j] = IF need_context_rows THEN xbuffer[whichptr][c][j] ELSE j
  PROVE  /\ \A i \in 0 .. rgroup(c) * M - 1 :
               SampleRow(c, output_iMCU_row, i) < Height(c) =>
                  buffer'[c][place[i]] = SampleRow(c, output_iMCU_row, i)
         /\ \A i \in rgroup(c) * M .. N - 1 :
               buffer'[c][place[i]] = buffer[c][place[i]]
<1> DEFINE P == rgroup(c) * M
           n == block_rows(c) * image.DCT_scaled_size[c]
           row(p) == {j \in 0 .. n - 1 :
                         p = IF need_context_rows
                             THEN xbuffer[whichptr][c][j] ELSE j}
<1>1. /\ n \in Nat /\ n <= P /\ P \in Nat
      /\ \A i \in 0 .. P - 1 :
            SampleRow(c, output_iMCU_row, i) < Height(c) => i < n
  BY BlockRowsCover, ComponentSizes
<1>2. \A p \in WorkRows(c) :
         buffer'[c][p] = IF row(p) = {} THEN buffer[c][p]
                         ELSE output_iMCU_row * iMCUheight(image, c)
                                + Max(row(p))
  BY DEF DecompressData
<1>3. iMCUheight(image, c) = P
  BY ComponentSizes
<1>4. \A p : row(p) = {j \in 0 .. n - 1 : p = place[j]}
  <2> SUFFICES ASSUME NEW p
               PROVE  row(p) = {j \in 0 .. n - 1 : p = place[j]}
    OBVIOUS
  <2>1. \A j \in 0 .. n - 1 : j \in 0 .. P - 1
    <3> HIDE DEF n, P
    <3> QED
      BY <1>1
  <2> QED
    BY <2>1
<1> HIDE DEF row, n, P
<1>5. ASSUME NEW i \in 0 .. P - 1, i < n
      PROVE  buffer'[c][place[i]] = SampleRow(c, output_iMCU_row, i)
  <2>1. i \in 0 .. N - 1 /\ i \in 0 .. n - 1
    BY <1>1, <1>5 DEF P
  <2>2. row(place[i]) = {i}
    BY <1>4, <2>1, <1>1 DEF P
  <2>3. Max({i}) = i
    BY <1>1 DEF Max
  <2>4. place[i] \in WorkRows(c)
    BY <2>1
  <2>5. buffer'[c][place[i]] = output_iMCU_row * P + i
    BY <1>2, <1>3, <2>2, <2>3, <2>4
  <2> QED
    BY <2>5 DEF SampleRow, P
<1>6. ASSUME NEW i \in P .. N - 1
      PROVE  buffer'[c][place[i]] = buffer[c][place[i]]
  BY <1>1, <1>4, <1>2 DEF P
<1> QED
  BY <1>1, <1>5, <1>6 DEF P

LEMMA FillContent ==
  ASSUME IndInv, ContentInv, Fill
  PROVE  ContentInv'
<1> DEFINE n == output_iMCU_row
<1>1. /\ at = "fill" /\ DecompressData /\ buffer_full' = TRUE
      /\ n' = n + 1
      /\ UNCHANGED <<image, pass, output_scanline, whichptr, context_state,
                     xbuffer, next_row_out, spare_full, whole_image, strip,
                     starting_row, next_row>>
  BY DEF Fill, DecompressData, upsample, post
<1>2. /\ image \in Images /\ Running /\ ~ buffer_full
      /\ whichptr \in {0, 1} /\ n \in Nat /\ n < TR /\ TR \in Nat
  BY <1>1, Parameters, RowLeft DEF IndInv, TypeOK, CallOK, MainOK
<1>3. /\ TR' = TR /\ M' = M /\ need_context_rows' = need_context_rows
      /\ Component(image)' = Component(image)
      /\ \A c : /\ rgroup(c)' = rgroup(c) /\ Height(c)' = Height(c)
                /\ rows_left(c)' = rows_left(c)
                /\ \A m, i : /\ SampleRow(c, m, i)' = SampleRow(c, m, i)
                             /\ Funny(m, c, i)' = Funny(m, c, i)
  BY <1>1, SameImage, SameRows
<1>4. Earlier = n /\ Earlier' = n /\ (Running' <=> Running)
  BY <1>1, <1>2 DEF Earlier, Running
<1>5. ~ BottomSet /\ (need_context_rows => ~ BottomSet')
  BY <1>1, <1>2 DEF BottomSet, IndInv, MainOK
<1>6. SavedRows'
  BY <1>1, SavedKept
<1>7. HeldRows'
  BY <1>2, <1>1, NothingHeldKept DEF ContentInv, HeldRows
<1>8. CASE ~ need_context_rows
  <2>1. ASSUME NEW c \in Component(image)
        PROVE  \A i \in 0 .. rgroup(c) * M - 1 :
                  SampleRow(c, n, i) < Height(c) =>
                     buffer'[c][i] = SampleRow(c, n, i)
    <3> DEFINE P == rgroup(c) * M
               place == [j \in 0 .. P - 1 |-> j]
    <3>1. \A j \in 0 .. P - 1 :
             place[j] = IF need_context_rows
                        THEN xbuffer[whichptr][c][j] ELSE j
      BY <1>8
    <3>2. \A i \in 0 .. P - 1 :
             SampleRow(c, n, i) < Height(c) =>
                buffer'[c][place[i]] = SampleRow(c, n, i)
      <4> HIDE DEF place
      <4> QED
        BY <1>1, <1>2, ComponentSizes, <1>8, <3>1, DecompressRows DEF WorkRows
    <3> QED
      BY <3>2
  <2> QED
    BY <1>6, <1>7, <1>3, <1>4, <2>1, <1>8 DEF ContentInv, SimpleBuffer, ContextBuffer,
       Pointers
<1>9. CASE need_context_rows
  <2>1. ASSUME NEW c \in Component(image)
        PROVE  /\ \A i \in 0 .. rgroup(c) * M - 1 :
                     SampleRow(c, n, i) < Height(c) =>
                        buffer'[c][Funny(whichptr, c, i)] = SampleRow(c, n, i)
               /\ n \in 1 .. TR - 1 =>
                    \A i \in 1 .. 2 * rgroup(c) :
                       buffer'[c][Funny(whichptr, c, rgroup(c) * (M + 2) - i)]
                           = SampleRow(c, n, -i)
    <3> DEFINE P == rgroup(c) * M
               N == rgroup(c) * (M + 2)
               place == [j \in 0 .. N - 1 |-> Funny(whichptr, c, j)]
    <3>1. /\ rgroup(c) \in Nat \ {0} /\ P \in Nat /\ N = P + 2 * rgroup(c)
      BY <1>2, <1>9, ListSizes, Products
    <3>2. N \in Nat /\ N >= P
      <4> HIDE DEF P, N
      <4> QED
        BY <3>1
    <3>3. \A j \in 0 .. N - 1 :
             /\ place[j] \in WorkRows(c)
             /\ \A k \in 0 .. N - 1 : place[j] = place[k] => j = k
      BY <1>2, <1>9, FunnyIsPermutation
    <3>4. \A j \in 0 .. P - 1 :
             place[j] = IF need_context_rows
                        THEN xbuffer[whichptr][c][j] ELSE j
      <4>1. \A j \in 0 .. P - 1 : j \in 0 .. N - 1
        <5> HIDE DEF P, N
        <5> QED
          BY <3>1, <3>2
      <4> QED
        BY <1>9, <1>2, <1>5, <4>1 DEF ContentInv, Pointers
    <3>5. /\ \A i \in 0 .. P - 1 :
                SampleRow(c, n, i) < Height(c) =>
                   buffer'[c][place[i]] = SampleRow(c, n, i)
          /\ \A i \in P .. N - 1 : buffer'[c][place[i]] = buffer[c][place[i]]
      <4> HIDE DEF place, N
      <4> QED
        BY <1>1, <1>2, <3>2, <3>3, <3>4, DecompressRows
    <3>6. n \in 1 .. TR - 1 =>
            \A i \in 1 .. 2 * rgroup(c) :
               buffer[c][Funny(whichptr, c, N - i)] = SampleRow(c, n, -i)
      BY <1>2, <1>4, <1>9 DEF ContentInv, ContextBuffer
    <3>7. \A i \in 1 .. 2 * rgroup(c) : N - i \in P .. N - 1
      <4> HIDE DEF P, N
      <4> QED
        BY <3>1
    <3>8. \A i \in 1 .. 2 * rgroup(c) : N - i \in 0 .. N - 1
      <4> HIDE DEF P, N
      <4> QED
        BY <3>1, <3>2
    <3>9. \A i \in 0 .. P - 1 : i \in 0 .. N - 1
      <4> HIDE DEF P, N
      <4> QED
        BY <3>1, <3>2
    <3>10. \A j \in 0 .. N - 1 : place[j] = Funny(whichptr, c, j)
      OBVIOUS
    <3> HIDE DEF place, P, N
    <3> QED
      BY <3>5, <3>9, <3>10, <3>6, <3>7, <3>8 DEF P, N
  <2>2. ContextBuffer'
    BY <1>1, <1>3, <1>4, <2>1 DEF ContextBuffer
  <2>3. Pointers'
    BY <1>1, <1>2, <1>3, <1>4, <1>5, <1>9 DEF Pointers, ContentInv
  <2> QED
    BY <1>6, <1>7, <1>3, <1>9, <2>2, <2>3 DEF ContentInv, SimpleBuffer
<1> QED
  BY <1>8, <1>9

-----------------------------------------------------------------------------
(* The second pass of two-pass quantization delivers the rows saved.       *)
LEMMA CrankPostContent ==
  ASSUME ShortStrips, IndInv, ContentInv, CrankPost
  PROVE  ContentInv' /\ \E m \in 1 .. OH : Delivery!Deliver(m)
<1> DEFINE left == out_rows_avail - out_row_ctr
           n == Min({strip_height - next_row, left,
                     output_height(image) - starting_row})
           first == IF next_row = 0 THEN starting_row ELSE strip
           lines == [i \in 0 .. n - 1 |-> whole_image[first + next_row + i]]
<1>1. /\ at = "crank" /\ strip' = first /\ Emit(lines, n)
      /\ AdvanceStrip(next_row + n)
      /\ UNCHANGED <<image, pass, whole_image>>
  BY DEF CrankPost
<1>2. /\ pass = "CRANK_DEST" /\ output_scanline < OH
      /\ image \in Images /\ OH \in Nat /\ V \in 1 .. 4 /\ strip_height = V
      /\ left \in Nat \ {0} /\ starting_row \in Nat /\ next_row \in 0 .. V - 1
      /\ output_scanline = starting_row + next_row
      /\ output_scanline \in 0 .. OH
  BY <1>1, Parameters DEF IndInv, CallOK, TypeOK, V, strip_height, max_v_samp_factor,
     PostOK
<1>3. n \in Nat \ {0}
  <2> DEFINE a == strip_height - next_row
             b == output_height(image) - starting_row
  <2>1. /\ a \in Nat \ {0} /\ b \in Nat \ {0}
    BY <1>2 DEF OH
  <2> HIDE DEF a, b, left
  <2>2. a \in Int /\ b \in Int /\ left \in Int
    BY <1>2, <2>1
  <2>3. n \in {a, left, b}
    BY <2>2, MinOfThree, Zenon DEF a, b
  <2> HIDE DEF n
  <2> QED
    BY <1>2, <2>1, <2>3
<1>4. n <= OH - output_scanline
  <2>1. output_scanline' = output_scanline + n
    BY <1>1 DEF Emit
  <2>2. output_scanline' \in 0 .. OH
    BY <1>1, CrankPostKeeps, SameImage DEF IndInv
  <2> HIDE DEF n
  <2> QED
    BY <1>2, <1>3, <2>1, <2>2
<1>5. /\ next_row > 0 => strip = starting_row
      /\ DOMAIN whole_image = 0 .. rounded_height(image) - 1
      /\ \A r \in 0 .. OH - 1 : whole_image[r] = Line(image, r)
  BY <1>2 DEF ContentInv, SavedRows
<1>6. first = starting_row
  BY <1>2, <1>5
<1> HIDE DEF n, first, left
<1>7. ASSUME NEW i \in DOMAIN lines
      PROVE  lines[i] = Line(image, output_scanline + i)
  BY <1>2, <1>3, <1>4, <1>6, <1>5
<1>8. DOMAIN lines = 0 .. n - 1
  OBVIOUS
<1> HIDE DEF lines
<1>9. \E m \in 1 .. OH : Delivery!Deliver(m)
  BY <1>1, <1>2, <1>3, <1>4, <1>7, <1>8, EmitDelivers
<1>10. SavedRows'
  BY <1>1, <1>2, <1>5, <1>6, SameRows, SameImage DEF SavedRows, AdvanceStrip
<1> QED
  BY <1>9, <1>1, <1>2, <1>10 DEF ContentInv, SimpleBuffer, ContextBuffer, Pointers,
     HeldRows, Running

LEMMA FunnyLists ==
  ASSUME image \in Images, need_context_rows, NEW c \in Component(image)
  PROVE  /\ \A w \in {0, 1} : \A i \in 0 .. rgroup(c) * (M + 2) - 1 :
               make_funny_pointers[w][c][i] = Funny(w, c, i)
         /\ \A i \in 1 .. rgroup(c) : make_funny_pointers[0][c][-i] = 0
<1> DEFINE g == rgroup(c)
           end == g * (M + 2)
<1>1. /\ g \in Nat \ {0} /\ M \in {2, 4, 8}
      /\ ListRows(c) = -g .. g * (M + 3) - 1
  BY ListSizes
<1>2. end \in Nat /\ g * (M + 3) = end + g
  <2> HIDE DEF g
  <2> QED
    BY <1>1, Products
<1> HIDE DEF end, g
<1>3. \A i \in 0 .. end - 1 : i \in ListRows(c)
  BY <1>1, <1>2
<1>4. \A i \in 1 .. g : -i \in ListRows(c) /\ -i < 0 /\ ~ (-i \in 0 .. end - 1)
  BY <1>1, <1>2
<1> QED
  BY <1>3, <1>4 DEF end, g, make_funny_pointers, Funny

(* A pass begins with nothing held and the lists as they were at first,    *)
(* whatever the pass before it left behind.                                *)
LEMMA StartPassContent ==
  ASSUME IndInv, ContentInv, NEW m \in Mode, StartPass(m)
  PROVE  ContentInv'
<1>1. /\ PassAllowed(m) /\ pass' = m /\ output_scanline' = 0
      /\ next_row' = 0 /\ UNCHANGED <<image, whole_image, buffer>>
  BY DEF StartPass
<1>2. image \in Images
  BY DEF IndInv, TypeOK
<1>3. /\ TR' = TR /\ M' = M /\ V' = V /\ OH' = OH
      /\ need_context_rows' = need_context_rows
      /\ Component(image)' = Component(image)
      /\ rounded_height(image)' = rounded_height(image)
      /\ \A r : Line(image, r)' = Line(image, r)
      /\ \A c : /\ rgroup(c)' = rgroup(c)
                /\ \A k, i : Funny(k, c, i)' = Funny(k, c, i)
  BY <1>1, SameImage, SameRows
<1>4. TR \in Nat \ {0} /\ OH \in Nat /\ V \in 1 .. 4
  BY <1>2, Parameters
<1>5. CASE m = "CRANK_DEST"
  <2>1. SavedRows'
    BY <1>1, <1>3, <1>5 DEF ContentInv, SavedRows, PassAllowed, Complete, OH
  <2> QED
    BY <1>1, <1>5, <2>1 DEF ContentInv, SimpleBuffer, ContextBuffer, Pointers, HeldRows,
       Running
<1>6. CASE m # "CRANK_DEST"
  <2>1. /\ output_iMCU_row' = 0 /\ buffer_full' = FALSE
        /\ next_row_out' = V /\ spare_full' = FALSE
        /\ need_context_rows =>
             /\ xbuffer' = make_funny_pointers /\ whichptr' = 0
             /\ context_state' = "PREPARE_FOR_IMCU"
    BY <1>6 DEF StartPass, V
  <2>2. Earlier' = 0 /\ (need_context_rows => ~ BottomSet')
    BY <1>3, <1>4, <2>1 DEF Earlier, BottomSet
  <2>3. Pointers'
    <3>1. CASE ~ need_context_rows
      BY <1>3, <3>1 DEF Pointers
    <3>2. CASE need_context_rows
      <4>1. ASSUME NEW c \in Component(image)
            PROVE  /\ \A w \in {0, 1} :
                         \A i \in 0 .. rgroup(c) * (M + 2) - 1 :
                            xbuffer'[w][c][i] = Funny(w, c, i)
                   /\ \A i \in 1 .. rgroup(c) : xbuffer'[0][c][-i] = 0
        BY <1>2, <2>1, <3>2, FunnyLists
      <4> QED
        BY <1>3, <2>1, <2>2, <3>2, <4>1 DEF Pointers
    <3> QED
      BY <3>1, <3>2
  <2>4. HeldRows'
    BY <1>3, <1>4, <2>1 DEF NothingHeld, HeldRows
  <2>5. SavedRows'
    BY <1>1, <1>3, <1>6 DEF ContentInv, SavedRows
  <2> QED
    BY <2>1, <1>3, <2>2, <2>3, <2>4, <2>5 DEF ContentInv, SimpleBuffer, ContextBuffer
<1> QED
  BY <1>5, <1>6

(* A step that moves no rows.                                              *)
LEMMA RestContent ==
  ASSUME IndInv, ContentInv,
         UNCHANGED <<image, pass, output_scanline, output_iMCU_row, buffer,
                     main, upsample, post>>
  PROVE  ContentInv'
<1>1. UNCHANGED <<image, pass, buffer, xbuffer, whichptr, output_iMCU_row,
                  buffer_full, context_state, rowgroup_ctr, next_row_out,
                  spare_full, color_buf, spare_row, output_scanline,
                  whole_image, strip, starting_row, next_row>>
  BY DEF main, upsample, post
<1>2. HeldRows'
  <2>1. /\ V' = V /\ upsampler' = upsampler
        /\ need_context_rows' = need_context_rows
        /\ \A c : WorkRows(c)' = WorkRows(c) /\ rgroup(c)' = rgroup(c)
    BY <1>1, SameImage, SameRows
  <2>2. \A w, c, i : Shown(w, c, i)' = Shown(w, c, i)
    BY <1>1, <2>1 DEF Shown
  <2>3. Group' = Group
    BY <1>1, <2>1, <2>2 DEF Group
  <2> QED
    BY <1>1, <2>1, <2>3, <2>2 DEF ContentInv, HeldRows, NothingHeld, Running, ConvRow,
       Fullsize, max_v_samp_factor
<1> QED
  BY <1>1, SameImage, ListsKept, SavedKept, <1>2 DEF ContentInv, BottomSet

-----------------------------------------------------------------------------
LEMMA InitContent == Init => ContentInv
<1> SUFFICES ASSUME Init PROVE ContentInv
  OBVIOUS
<1>1. ~ Running /\ pass = "none"
  BY DEF Init, Running
<1> QED
  BY <1>1 DEF ContentInv, SimpleBuffer, ContextBuffer, Pointers, HeldRows, Init, SavedRows

LEMMA StepContent ==
  ShortStrips /\ IndInv /\ ContentInv /\ [Next]_vars => ContentInv'
<1> SUFFICES ASSUME ShortStrips, IndInv, ContentInv, [Next]_vars
             PROVE  ContentInv'
  OBVIOUS
<1>1. CASE \E m \in Mode : StartPass(m)
  BY <1>1, StartPassContent
<1>2. CASE \E n \in 0 .. MaxLines : ProcessData(n)
  BY <1>2, RestContent DEF ProcessData
<1>3. CASE Fill
  BY <1>3, FillContent
<1>4. CASE Suspend
  BY <1>4, RestContent DEF Suspend
<1>5. CASE FeedSimple
  BY <1>5, FeedSimpleContent
<1>6. CASE FeedPostponed
  BY <1>6, FeedPostponedContent
<1>7. CASE PrepareForIMCU
  BY <1>7, PrepareForIMCUContent
<1>8. CASE ProcessIMCU
  BY <1>8, ProcessIMCUContent
<1>9. CASE CrankPost
  BY <1>9, CrankPostContent
<1>10. CASE UNCHANGED vars
  BY <1>10, RestContent DEF vars
<1> QED
  BY <1>1, <1>2, <1>3, <1>4, <1>5, <1>6, <1>7, <1>8, <1>9, <1>10
     DEF Next, Feed

LEMMA ContentHolds == ASSUME ShortStrips PROVE Spec => [](IndInv /\ ContentInv)
<1>1. ShortStrips /\ IndInv /\ ContentInv /\ [Next]_vars
        => IndInv' /\ ContentInv'
  BY StepKeeps, StepContent
<1>2. Init => IndInv /\ ContentInv
  BY InitHolds, InitContent
<1> QED
  BY <1>1, <1>2, PTL DEF Spec

(* Each step of the pipeline is a step of RowDelivery: a pass begins, a    *)
(* call begins, the next rows are delivered, or nothing the application    *)
(* sees changes.                                                           *)
LEMMA StepRefines ==
  ShortStrips /\ IndInv /\ ContentInv /\ [Next]_vars
    => [Delivery!Next]_(Delivery!vars)
<1> SUFFICES ASSUME ShortStrips, IndInv, ContentInv, [Next]_vars
             PROVE  Delivery!Next \/ UNCHANGED Delivery!vars
  OBVIOUS
<1> DEFINE Stutter == UNCHANGED <<image, output_scanline, got>>
           Delivers == \E m \in 1 .. OH : Delivery!Deliver(m)
<1>1. CASE \E m \in Mode : StartPass(m)
  BY <1>1 DEF StartPass, NoLines, Delivery!StartPass, Delivery!Next
<1>2. CASE \E n \in 0 .. MaxLines : ProcessData(n)
  BY <1>2 DEF ProcessData, NoLines, Delivery!Call, Delivery!Next
<1>3. CASE Fill \/ Suspend \/ PrepareForIMCU
  BY <1>3 DEF Fill, Suspend, PrepareForIMCU, Delivery!vars
<1>4. CASE FeedSimple
  BY <1>4, PostProcessDelivers DEF FeedSimple, CanFeed, Delivery!Next, OH
<1>5. CASE FeedPostponed
  BY <1>5, PostProcessDelivers DEF FeedPostponed, CanFeed, Delivery!Next, OH
<1>6. CASE ProcessIMCU
  BY <1>6, PostProcessDelivers DEF ProcessIMCU, CanFeed, Delivery!Next, OH
<1>7. CASE CrankPost
  BY <1>7, CrankPostContent DEF Delivery!Next, OH
<1>8. CASE UNCHANGED vars
  BY <1>8 DEF vars, Delivery!vars
<1> QED
  BY <1>1, <1>2, <1>3, <1>4, <1>5, <1>6, <1>7, <1>8 DEF Next, Feed

(* The output side of the decompressor implements RowDelivery: however few *)
(* rows the application takes in a call, wherever the source suspends and  *)
(* whatever pass was given up before, every row of every pass is delivered *)
(* once and in order, and is made from the sample rows it should be made   *)
(* from; the pointer lists of jdmainct.c show the triangle filter the      *)
(* neighbours of each row group, across iMCU rows and repeated at the top  *)
(* and at the bottom, for every image size and every sampling.             *)
THEOREM DeliveryHolds == ASSUME ShortStrips PROVE Spec => DeliverySpec
<1>1. Init => Delivery!Init
  BY DEF Init, NoLines, Delivery!Init
<1>2. ShortStrips /\ IndInv /\ ContentInv /\ [Next]_vars
        => [Delivery!Next]_(Delivery!vars)
  BY StepRefines
<1> QED
  BY <1>1, <1>2, ContentHolds, PTL DEF Spec, DeliverySpec, Delivery!Spec
=============================================================================
