--------------------------- MODULE HuffmanTables ---------------------------
(***************************************************************************)
(* Huffman tables as jchuff.c and jdhuff.c derive them: the code of each   *)
(* symbol for the coder, and for the decoder the last code of each length  *)
(* with a table of what eight bits ahead begin with.                       *)
(*                                                                         *)
(* A table is as a DHT marker has it: how many codes have each length      *)
(* (bits), and their symbols in order (huffval).  A bit is 0 or 1, a code  *)
(* a sequence of bits.                                                     *)
(***************************************************************************)
EXTENDS Integers, Sequences, SequencesExt

HUFF_LOOKAHEAD == 8

\* The symbols of the standard tables for luminance (jcparam.c).
std_huff_tables ==
  [dc |-> [bits |-> <<0, 1, 5, 1, 1, 1, 1, 1, 1, 0, 0, 0, 0, 0, 0, 0>>,
           huffval |-> <<0, 1, 2, 3, 4, 5, 6, 7, 8, 9, 10, 11>>],
   ac |-> [bits |-> <<0, 2, 1, 3, 3, 2, 4, 3, 5, 5, 4, 4, 0, 0, 1, 125>>,
           huffval |->
      <<1, 2, 3, 0, 4, 17, 5, 18, 33, 49, 65, 6, 19, 81, 97, 7, 34, 113, 20, 50, 129, 145, 161, 8,
        35, 66, 177, 193, 21, 82, 209, 240, 36, 51, 98, 114, 130, 9, 10, 22, 23, 24, 25, 26, 37, 38,
        39, 40, 41, 42, 52, 53, 54, 55, 56, 57, 58, 67, 68, 69, 70, 71, 72, 73, 74, 83, 84, 85, 86,
        87, 88, 89, 90, 99, 100, 101, 102, 103, 104, 105, 106, 115, 116, 117, 118, 119, 120, 121,
        122, 131, 132, 133, 134, 135, 136, 137, 138, 146, 147, 148, 149, 150, 151, 152, 153, 154,
        162, 163, 164, 165, 166, 167, 168, 169, 170, 178, 179, 180, 181, 182, 183, 184, 185, 186,
        194, 195, 196, 197, 198, 199, 200, 201, 202, 210, 211, 212, 213, 214, 215, 216, 217, 218,
        225, 226, 227, 228, 229, 230, 231, 232, 233, 234, 241, 242, 243, 244, 245, 246, 247, 248,
        249, 250>>]]

\* The low n bits of x, as they are in two's complement, the highest first.
LowBits(x, n) == [i \in 1..n |-> (x \div 2^(n - i)) % 2]

\* The number that bits are, read one after the other.
Value(bits) ==
  LET read[n \in 0..Len(bits)] == IF n = 0 THEN 0 ELSE 2 * read[n - 1] + bits[n]
  IN read[Len(bits)]

\* What both derived tables are made from: the first code of each length, how
\* many codes are shorter, and how many have that length.
CodesByLength(htbl) ==
  LET codes[l \in 1..16] ==
        IF l = 1 THEN [first |-> 0, before |-> 0, number |-> htbl.bits[1]]
        ELSE LET shorter == codes[l - 1]
             IN [first |-> 2 * (shorter.first + shorter.number),
                 before |-> shorter.before + shorter.number,
                 number |-> htbl.bits[l]]
  IN codes

\* No length may use its last code, which is all ones.
CodesFit(htbl) ==
  LET codes == CodesByLength(htbl)
  IN /\ codes[16].before + codes[16].number <= 256
     /\ \A l \in 1..16 : codes[l].number > 0 => codes[l].first + codes[l].number < 2^l

\* Any other table is an error (JERR_BAD_HUFF_TABLE): symbols are bytes, as many
\* as there are codes, and none has two.
LegalTable(htbl) ==
  /\ htbl \in [bits : [1..16 -> 0..255], huffval : Seq(0..255)]
  /\ LET codes == CodesByLength(htbl)
     IN Len(htbl.huffval) = codes[16].before + codes[16].number
  /\ IsInjective(htbl.huffval)
  /\ CodesFit(htbl)

\* For the coder: the code of each symbol.
jpeg_make_c_derived_tbl(htbl) ==
  LET codes == CodesByLength(htbl)
      code(p, l) == LowBits(codes[l].first + p - codes[l].before - 1, l)
      of(p) == code(p, CHOOSE l \in 1..16 : p - codes[l].before \in 1..codes[l].number)
      place(symbol) == CHOOSE p \in DOMAIN htbl.huffval : htbl.huffval[p] = symbol
  IN [symbol \in ToSet(htbl.huffval) |-> of(place(symbol))]

\* For the decoder: the last code of each length, and what a code of that
\* length is off its symbol's index.  look_nbits has for all that eight bits
\* can be the length of the code they begin with, 0 if it is longer.
jpeg_make_d_derived_tbl(htbl) ==
  LET codes == CodesByLength(htbl)
      begins(look, l) == look \div 2^(HUFF_LOOKAHEAD - l) - codes[l].first
      short(look) == {l \in 1..HUFF_LOOKAHEAD : begins(look, l) \in 0..(codes[l].number - 1)}
      nbits(look) == IF short(look) = {} THEN 0 ELSE CHOOSE l \in short(look) : TRUE
      sym(look, l) == IF l = 0 THEN 0 ELSE htbl.huffval[codes[l].before + 1 + begins(look, l)]
  IN [maxcode |-> [l \in 1..16 |->
                     IF codes[l].number = 0 THEN -1 ELSE codes[l].first + codes[l].number - 1],
      valoffset |-> [l \in 1..16 |-> codes[l].before + 1 - codes[l].first],
      huffval |-> htbl.huffval,
      look_nbits |-> [look \in 0..255 |-> nbits(look)],
      look_sym |-> [look \in 0..255 |-> sym(look, nbits(look))]]

\* jpeg_huff_decode: are these l bits a whole code, and of which symbol?
IsCode(tbl, code, l) == code <= tbl.maxcode[l]
SymbolOf(tbl, code, l) == tbl.huffval[code + tbl.valoffset[l]]

=============================================================================
