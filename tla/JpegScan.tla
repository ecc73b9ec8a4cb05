------------------------------ MODULE JpegScan ------------------------------
(***************************************************************************)
(* What the two entropy coders of libjpeg share: the order of the          *)
(* coefficients of a block, the bits of a number, the scan parameters and  *)
(* the decoder's search for markers (jutils.c, jdmarker.c).                *)
(*                                                                         *)
(* A block is a function of natural (row by row) positions 0..63.  A scan  *)
(* is a record: the components whose blocks it holds, the band Ss..Se of   *)
(* zigzag positions, and the bit positions Ah and Al of the point          *)
(* transform (jpeglib.h).  A decoder is a record that has the bytes the    *)
(* source has handed over (data), how many of them were read (pos) and the *)
(* marker that was read and not acted upon (unread_marker, 0 for none).    *)
(***************************************************************************)
EXTENDS Integers, Sequences, FiniteSets, FiniteSetsExt, SequencesExt

DCTSIZE2 == 64
EOI == 217                     \* 0xD9
RST0 == 208                    \* 0xD0
SOF0 == 192                    \* 0xC0
IsRestart(marker) == marker \in RST0..(RST0 + 7)

\* jpeg_natural_order and its smaller kin: the natural position of the k-th
\* coefficient in zigzag order, for blocks of n by n coefficients.
jpeg_natural_order2 == <<0, 1, 8, 9>>
jpeg_natural_order3 == <<0, 1, 8, 16, 9, 2, 10, 17, 18>>
jpeg_natural_order4 == <<0, 1, 8, 16, 9, 2, 3, 10, 17, 24, 25, 18, 11, 19, 26, 27>>
jpeg_natural_order5 ==
  <<0, 1, 8, 16, 9, 2, 3, 10, 17, 24, 32, 25, 18, 11, 4, 12, 19, 26, 33, 34, 27, 20, 28, 35, 36>>
jpeg_natural_order6 ==
  <<0, 1, 8, 16, 9, 2, 3, 10, 17, 24, 32, 25, 18, 11, 4, 5, 12, 19, 26, 33, 40, 41, 34, 27, 20,
    13, 21, 28, 35, 42, 43, 36, 29, 37, 44, 45>>
jpeg_natural_order7 ==
  <<0, 1, 8, 16, 9, 2, 3, 10, 17, 24, 32, 25, 18, 11, 4, 5, 12, 19, 26, 33, 40, 48, 41, 34, 27,
    20, 13, 6, 14, 21, 28, 35, 42, 49, 50, 43, 36, 29, 22, 30, 37, 44, 51, 52, 45, 38, 46, 53, 54>>
jpeg_natural_order ==
  <<0, 1, 8, 16, 9, 2, 3, 10, 17, 24, 32, 25, 18, 11, 4, 5, 12, 19, 26, 33, 40, 48, 41, 34, 27,
    20, 13, 6, 7, 14, 21, 28, 35, 42, 49, 56, 57, 50, 43, 36, 29, 22, 15, 23, 30, 37, 44, 51, 58,
    59, 52, 45, 38, 31, 39, 46, 53, 60, 61, 54, 47, 55, 62, 63>>

NaturalOrders ==
  <<<<0>>, jpeg_natural_order2, jpeg_natural_order3, jpeg_natural_order4,
    jpeg_natural_order5, jpeg_natural_order6, jpeg_natural_order7, jpeg_natural_order>>

\* Past the end of the block stand entries of 63, for the decoders' runs.
At(n, k) == IF k < n * n THEN NaturalOrders[n][k + 1] ELSE 63

lim_Se(n) == n * n - 1

Magnitude(x) == IF x < 0 THEN -x ELSE x

\* The point transform of an AC coefficient divides, that of DC shifts.
Divided(x, Al) == IF x < 0 THEN -((-x) \div 2^Al) ELSE x \div 2^Al

\* The positions Ss..Se that hold something after the point transform, in order
InUse(block, n, Ss, Se, Al) ==
  SelectSeq([i \in 1..(Se - Ss + 1) |-> Ss + i - 1], LAMBDA k : Divided(block[At(n, k)], Al) # 0)

\* How many bits a magnitude has.
BitLength(x) == CHOOSE n \in 0..16 : x < 2^n /\ (n > 0 => x >= 2^(n - 1))

\* Bytes that go out: a zero is stuffed after an FF.
Stuffed(byte) == IF byte = 255 THEN <<255, 0>> ELSE <<byte>>

(***************************************************************************)
(* Reading markers.  A read that finds too few bytes suspends: the result  *)
(* has stop set, and nothing else of it is used.                           *)
(***************************************************************************)

Stopped(d) == [d EXCEPT !.stop = TRUE]

\* A read returns the decoder and a value, of no meaning when it stopped.
Read(d, value) == [d |-> d, value |-> value]

\* What decoding a block gives: the decoder and the block as far as written.
Decoded(d, block) == [d |-> d, block |-> block]

\* An MCU once its i-th block is decoded
Placed(m, i, b) == [m EXCEPT !.d = b.d, !.blocks[i] = b.block]

\* The next FF that is not stuffed; anything before it is skipped.
next_marker(d) ==
  LET codes == {p \in (d.pos + 2)..Len(d.data) : d.data[p - 1] = 255 /\ d.data[p] \notin {0, 255}}
  IN IF codes = {} THEN Stopped(d)
     ELSE [d EXCEPT !.pos = Min(codes), !.unread_marker = d.data[Min(codes)]]

\* Mutant: a restart marker that is ahead is discarded.
RECURSIVE jpeg_resync_to_restart_discards(_, _)
jpeg_resync_to_restart_discards(d, desired) ==
  LET ahead == (d.unread_marker - RST0 - desired) % 8
      skips == d.unread_marker < SOF0 \/ (IsRestart(d.unread_marker) /\ ahead \in {6, 7})
  IN IF d.stop THEN d
     ELSE IF skips THEN jpeg_resync_to_restart_discards(next_marker(d), desired)
     ELSE IF ~IsRestart(d.unread_marker) THEN d
     ELSE [d EXCEPT !.unread_marker = 0]

\* An unexpected marker: a restart up to two ahead, or a marker that is not a
\* restart, stays unread; up to two behind is skipped; others are discarded.
RECURSIVE jpeg_resync_to_restart(_, _)
jpeg_resync_to_restart(d, desired) ==
  LET ahead == (d.unread_marker - RST0 - desired) % 8
      skips == d.unread_marker < SOF0 \/ (IsRestart(d.unread_marker) /\ ahead \in {6, 7})
      stays == ~IsRestart(d.unread_marker) \/ ahead \in {1, 2}
  IN IF d.stop THEN d
     ELSE IF skips THEN jpeg_resync_to_restart(next_marker(d), desired)
     ELSE IF stays THEN d
     ELSE [d EXCEPT !.unread_marker = 0]

read_restart_marker(d) ==
  LET found == IF d.unread_marker = 0 THEN next_marker(d) ELSE d
      taken == IF found.stop THEN found
               ELSE IF found.unread_marker = RST0 + d.next_restart_num
                    THEN [found EXCEPT !.unread_marker = 0]
               ELSE jpeg_resync_to_restart(found, d.next_restart_num)
  IN IF taken.stop THEN taken ELSE [taken EXCEPT !.next_restart_num = (@ + 1) % 8]

=============================================================================
