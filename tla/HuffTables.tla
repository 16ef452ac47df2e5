----------------------------- MODULE HuffTables -----------------------------
(***************************************************************************)
(* Huffman tables of jchuff.c and jdhuff.c.  A table is what a DHT marker  *)
(* transmits: bits[l], the number of symbols with a code of l bits, and    *)
(* huffval, the symbols in order of code length.  A code is a pair of its  *)
(* value and its length; length 0 marks a symbol that has no code.         *)
(***************************************************************************)
EXTENDS Integers, Sequences, FiniteSets, FiniteSetsExt, SequencesExt

CONSTANT HUFF_LOOKAHEAD     \* bits looked up at once: 8 in the code

MaxLength  == 16            \* longest code a DHT marker can describe
MAX_CLEN   == 32            \* longest code the tree construction allows
PseudoSymbol == 256         \* reserves the code of all ones
NoCode     == <<0, 0>>

(* The domain of key, in order of its (distinct) values.                   *)
InOrder(key) ==
    [i \in 1 .. Cardinality(DOMAIN key) |->
        CHOOSE c \in DOMAIN key :
            Cardinality({d \in DOMAIN key : key[d] < key[c]}) = i - 1]

(* huffsize[]: the length of the p-th code.                                *)
HuffSizes(tbl) ==
    FlattenSeq([l \in 1 .. MaxLength |-> [i \in 1 .. tbl.bits[l] |-> l]])

(* huffcode[]: codes of one length are consecutive, and the first code of  *)
(* the next length continues them.                                         *)
HuffCodes(size) ==
    LET code[p \in DOMAIN size] ==
            IF p = 1 THEN 0
            ELSE (code[p - 1] + 1) * 2 ^ (size[p] - size[p - 1])
    IN  code

(* The counts do not describe a code tree that leaves all ones unused.     *)
BadCounts(size) ==
    \/ Len(size) > 256
    \/ \E p \in DOMAIN size : HuffCodes(size)[p] + 1 >= 2 ^ size[p]

MaxSymbol(isDC) == IF isDC THEN 15 ELSE 255

(* JERR_BAD_HUFF_TABLE in the encoder, which has a place for one code only *)
(* of each symbol, and in the decoder, which accepts any AC symbol.        *)
BadForEncoder(tbl, isDC) ==
    LET size == HuffSizes(tbl) IN
    \/ BadCounts(size)
    \/ \E p \in DOMAIN size : tbl.huffval[p] \notin 0 .. MaxSymbol(isDC)
    \/ \E p, q \in DOMAIN size : p # q /\ tbl.huffval[p] = tbl.huffval[q]

BadForDecoder(tbl, isDC) ==
    LET size == HuffSizes(tbl) IN
    \/ BadCounts(size)
    \/ isDC /\ \E p \in DOMAIN size : tbl.huffval[p] \notin 0 .. 15

(* ehufco[] and ehufsi[].                                                  *)
jpeg_make_c_derived_tbl(tbl) ==
    LET size == HuffSizes(tbl)
        code == HuffCodes(size)
    IN  [s \in {tbl.huffval[p] : p \in DOMAIN size} |->
            LET p == CHOOSE p \in DOMAIN size : tbl.huffval[p] = s
            IN  <<code[p], size[p]>>]

CodeOf(ctbl, s) == IF s \in DOMAIN ctbl THEN ctbl[s] ELSE NoCode

(* maxcode[], valoffset[], and for every HUFF_LOOKAHEAD bits the length    *)
(* and the symbol of the code they begin with, if it is that short.        *)
jpeg_make_d_derived_tbl(tbl) ==
    LET size    == HuffSizes(tbl)
        code    == HuffCodes(size)
        Of(l)   == {p \in DOMAIN size : size[p] = l}
        Begins(look, p) == /\ size[p] <= HUFF_LOOKAHEAD
                           /\ look \div 2 ^ (HUFF_LOOKAHEAD - size[p]) = code[p]
    IN  [maxcode   |-> [l \in 1 .. MaxLength + 1 |->
                          IF l > MaxLength THEN 2 ^ 20 - 1
                          ELSE IF Of(l) = {} THEN -1 ELSE code[Max(Of(l))]],
         valoffset |-> [l \in 1 .. MaxLength |->
                          IF Of(l) = {} THEN 0 ELSE Min(Of(l)) - code[Min(Of(l))]],
         huffval   |-> tbl.huffval,
         look      |-> [look \in 0 .. 2 ^ HUFF_LOOKAHEAD - 1 |->
                          LET P == {p \in DOMAIN size : Begins(look, p)}
                          IN  IF P = {} THEN NoCode
                              ELSE <<size[Max(P)], tbl.huffval[Max(P)]>>]]

-----------------------------------------------------------------------------
(* jpeg_gen_optimal_table: Huffman's procedure on the symbols counted.     *)

(* The least frequent symbol; of two, the larger one.                      *)
Rarest(freq) ==
    CHOOSE c \in DOMAIN freq : \A d \in DOMAIN freq :
        freq[c] < freq[d] \/ (freq[c] = freq[d] /\ c >= d)

Without(f, c) == [d \in DOMAIN f \ {c} |-> f[d]]

(* Merge the two rarest trees until one is left.  branch[c] holds the      *)
(* symbols chained onto c by others[]; each gets one bit longer.           *)
RECURSIVE CodeSizes(_, _, _)
CodeSizes(freq, branch, codesize) ==
    IF Cardinality(DOMAIN freq) = 1 THEN codesize
    ELSE LET c1 == Rarest(freq)
             c2 == Rarest(Without(freq, c1))
             merged == branch[c1] \cup branch[c2]
         IN  CodeSizes([Without(freq, c2) EXCEPT ![c1] = @ + freq[c2]],
                       [branch EXCEPT ![c1] = merged],
                       [s \in DOMAIN codesize |->
                           codesize[s] + IF s \in merged THEN 1 ELSE 0])

(* Mutant of Shorten: too long codes are cut off and not replaced.         *)
CutOff(bits, i) == bits

(* Shorten codes of more than MaxLength bits, two symbols at a time: one   *)
(* takes the prefix of the pair, and the longest code shorter than that    *)
(* prefix becomes the prefix of two.                                       *)
RECURSIVE Shorten(_, _)
Shorten(bits, i) ==
    IF i = MaxLength THEN bits
    ELSE IF bits[i] = 0 THEN Shorten(bits, i - 1)
    ELSE LET j == Max({l \in 1 .. i - 2 : bits[l] > 0})
         IN  Shorten([bits EXCEPT ![i] = @ - 2, ![i - 1] = @ + 1,
                                  ![j + 1] = @ + 2, ![j] = @ - 1], i)

(* Mutant of DropPseudo: the place is not given back.                      *)
PseudoKept(bits) == [l \in 1 .. MaxLength |-> bits[l]]

(* The place reserved by the pseudo-symbol is the last of the longest.     *)
DropPseudo(bits) ==
    LET i == Max({l \in 1 .. MaxLength : bits[l] > 0})
    IN  [l \in 1 .. MaxLength |-> IF l = i THEN bits[l] - 1 ELSE bits[l]]

CodeSizesOf(freq) ==
    CodeSizes(freq, [c \in DOMAIN freq |-> {c}], [c \in DOMAIN freq |-> 0])

LengthCounts(size) ==
    [l \in 1 .. MAX_CLEN |-> Cardinality({c \in DOMAIN size : size[c] = l})]

(* The symbols in order of their code length and, within one length, of    *)
(* their value.                                                            *)
SymbolsByLength(size) ==
    FlattenSeq([l \in 1 .. MAX_CLEN |->
        InOrder([c \in {d \in DOMAIN size \ {PseudoSymbol} : size[d] = l} |-> c])])

(* The table for codes of the lengths size.                                *)
TableOf(size) ==
    [bits    |-> DropPseudo(Shorten(LengthCounts(size), MAX_CLEN)),
     huffval |-> SymbolsByLength(size)]

jpeg_gen_optimal_table(counts) ==
    TableOf(CodeSizesOf([c \in DOMAIN counts \cup {PseudoSymbol} |->
                            IF c = PseudoSymbol THEN 1 ELSE counts[c]]))
=============================================================================
