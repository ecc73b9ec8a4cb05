------------------------------ MODULE JpegDct ------------------------------
(***************************************************************************)
(* A block of a picture through libjpeg's transforms: the coefficients are *)
(* turned into samples (jidctint.c, jidctfst.c), the samples into          *)
(* coefficients again (jfdctint.c, jfdctfst.c), and those are quantized    *)
(* (jcdctmgr.c).  Each step is one pass over the block.                    *)
(*                                                                         *)
(* The decoder picks the size a block is drawn at (1 to 16 samples a side, *)
(* twice as wide as high or twice as high as wide) by the sampling factors *)
(* of its component; the coder picks the same sizes.  A block is a         *)
(* sequence of rows, its first row and column being frequency 0.           *)
(***************************************************************************)
EXTENDS Integers, Sequences, JpegDctKernels

CONSTANTS
  Sizes,        \* bound: sizes a block is drawn at, <<width, height>>
  Frequencies,  \* bound: pairs <<v, u>> of frequencies that are not zero
  Levels        \* bound: their quantized values

FAST == "JDCT_IFAST"
SLOW == "JDCT_ISLOW"

ASSUME DctAssumption ==
  /\ Sizes \subseteq (1..16) \X (1..16)
  /\ Frequencies \subseteq (0..7) \X (0..7)
  /\ Levels \subseteq Int

VARIABLES
  dctSize,     \* DCT_h_scaled_size and DCT_v_scaled_size
  dctMethod,   \* cinfo->dct_method, for 8x8
  given,       \* the quantized coefficients the block was read with
  dctStage,    \* the last pass that ran
  block        \* its result

dctVars == <<dctSize, dctMethod, given, dctStage, block>>

DCTSIZE == 8
CONST_BITS == 13
PASS1_BITS == 2
CENTERJSAMPLE == 128
MAXJSAMPLE == 255
QUANTVAL == 16     \* bound: every entry of the quantization table

Lesser(a, b) == IF a < b THEN a ELSE b

\* \div rounds down, as >> does on two's complement.
RIGHT_SHIFT(x, n) == x \div 2^n
DESCALE(x, n) == IF n = 0 THEN x ELSE RIGHT_SHIFT(x + 2^(n-1), n)

Dot(weights, x) ==
  LET sum[i \in 0..Len(weights)] == IF i = 0 THEN 0 ELSE sum[i-1] + weights[i] * x[i]
  IN sum[Len(weights)]

\* Mutant: the sample is not limited.
range_limit_unlimited(x) == x + CENTERJSAMPLE

\* The limit table, indexed by the low ten bits (RANGE_MASK): the middle is
\* clamped, wilder values wrap.
range_limit(x) ==
  LET masked == x % (4 * (MAXJSAMPLE + 1))
  IN IF masked < CENTERJSAMPLE THEN masked + CENTERJSAMPLE
     ELSE IF masked < 2 * (MAXJSAMPLE + 1) THEN MAXJSAMPLE
     ELSE IF masked < 4 * (MAXJSAMPLE + 1) - CENTERJSAMPLE THEN 0
     ELSE masked - (4 * (MAXJSAMPLE + 1) - CENTERJSAMPLE)

(***************************************************************************)
(* The inverse functions.                                                  *)
(***************************************************************************)

Idct(w, h, rows, columns) == [w |-> w, h |-> h, rows |-> rows, columns |-> columns]

jpeg_idct_1x1 == Idct(1, 1, Inverse1, Inverse1)
jpeg_idct_2x2 == Idct(2, 2, Inverse2, Inverse2)
jpeg_idct_3x3 == Idct(3, 3, Inverse3, Inverse3)
jpeg_idct_4x4 == Idct(4, 4, Inverse4, Inverse4)
jpeg_idct_5x5 == Idct(5, 5, Inverse5, Inverse5)
jpeg_idct_6x6 == Idct(6, 6, Inverse6, Inverse6)
jpeg_idct_7x7 == Idct(7, 7, Inverse7, Inverse7)
jpeg_idct_islow == Idct(8, 8, Inverse8, Inverse8)
jpeg_idct_9x9 == Idct(9, 9, Inverse9, Inverse9)
jpeg_idct_10x10 == Idct(10, 10, Inverse10, Inverse10)
jpeg_idct_11x11 == Idct(11, 11, Inverse11, Inverse11)
jpeg_idct_12x12 == Idct(12, 12, Inverse12, Inverse12)
jpeg_idct_13x13 == Idct(13, 13, Inverse13, Inverse13)
jpeg_idct_14x14 == Idct(14, 14, Inverse14, Inverse14)
jpeg_idct_15x15 == Idct(15, 15, Inverse15, Inverse15)
jpeg_idct_16x16 == Idct(16, 16, Inverse16, Inverse16)
jpeg_idct_16x8 == Idct(16, 8, Inverse16, Inverse8)
jpeg_idct_14x7 == Idct(14, 7, Inverse14, Inverse7)
jpeg_idct_12x6 == Idct(12, 6, Inverse12, Inverse6)
jpeg_idct_10x5 == Idct(10, 5, Inverse10, Inverse5)
jpeg_idct_8x4 == Idct(8, 4, Inverse8, Inverse4)
jpeg_idct_6x3 == Idct(6, 3, Inverse6, Inverse3)
jpeg_idct_4x2 == Idct(4, 2, Inverse4, Inverse2)
jpeg_idct_2x1 == Idct(2, 1, Inverse2, Inverse1)
jpeg_idct_8x16 == Idct(8, 16, Inverse8, Inverse16)
jpeg_idct_7x14 == Idct(7, 14, Inverse7, Inverse14)
jpeg_idct_6x12 == Idct(6, 12, Inverse6, Inverse12)
jpeg_idct_5x10 == Idct(5, 10, Inverse5, Inverse10)
jpeg_idct_4x8 == Idct(4, 8, Inverse4, Inverse8)
jpeg_idct_3x6 == Idct(3, 6, Inverse3, Inverse6)
jpeg_idct_2x4 == Idct(2, 4, Inverse2, Inverse4)
jpeg_idct_1x2 == Idct(1, 2, Inverse1, Inverse2)

\* start_pass: the function for a size, for want of which it is an error
Inverse_DCT(size) ==
  CASE size = <<1, 1>> -> jpeg_idct_1x1
    [] size = <<2, 2>> -> jpeg_idct_2x2
    [] size = <<3, 3>> -> jpeg_idct_3x3
    [] size = <<4, 4>> -> jpeg_idct_4x4
    [] size = <<5, 5>> -> jpeg_idct_5x5
    [] size = <<6, 6>> -> jpeg_idct_6x6
    [] size = <<7, 7>> -> jpeg_idct_7x7
    [] size = <<9, 9>> -> jpeg_idct_9x9
    [] size = <<10, 10>> -> jpeg_idct_10x10
    [] size = <<11, 11>> -> jpeg_idct_11x11
    [] size = <<12, 12>> -> jpeg_idct_12x12
    [] size = <<13, 13>> -> jpeg_idct_13x13
    [] size = <<14, 14>> -> jpeg_idct_14x14
    [] size = <<15, 15>> -> jpeg_idct_15x15
    [] size = <<16, 16>> -> jpeg_idct_16x16
    [] size = <<16, 8>> -> jpeg_idct_16x8
    [] size = <<14, 7>> -> jpeg_idct_14x7
    [] size = <<12, 6>> -> jpeg_idct_12x6
    [] size = <<10, 5>> -> jpeg_idct_10x5
    [] size = <<8, 4>> -> jpeg_idct_8x4
    [] size = <<6, 3>> -> jpeg_idct_6x3
    [] size = <<4, 2>> -> jpeg_idct_4x2
    [] size = <<2, 1>> -> jpeg_idct_2x1
    [] size = <<8, 16>> -> jpeg_idct_8x16
    [] size = <<7, 14>> -> jpeg_idct_7x14
    [] size = <<6, 12>> -> jpeg_idct_6x12
    [] size = <<5, 10>> -> jpeg_idct_5x10
    [] size = <<4, 8>> -> jpeg_idct_4x8
    [] size = <<3, 6>> -> jpeg_idct_3x6
    [] size = <<2, 4>> -> jpeg_idct_2x4
    [] size = <<1, 2>> -> jpeg_idct_1x2
    [] size = <<DCTSIZE, DCTSIZE>> -> jpeg_idct_islow

\* Kernels of one and two points are in units of 1, the others of 2^-13.
KernelBits(n) == IF n <= 2 THEN 0 ELSE CONST_BITS

\* What pass 1 leaves in the workspace beyond units of 1.
WorkspaceBits(m) == IF m.h <= 2 THEN 0 ELSE IF m.w <= 2 THEN CONST_BITS ELSE PASS1_BITS

Alternate(x) == [i \in DOMAIN x |-> IF i % 2 = 1 THEN x[i] ELSE -x[i]]

\* One pass over n points.  The first half is even part plus odd part, the
\* second half mirrors it with even part minus odd part.
InversePass(kernel, n, x, shift) ==
  LET mirrored == Alternate(x)
  IN [k \in 1..n |-> IF k <= Len(kernel) THEN DESCALE(Dot(kernel[k], x), shift)
                     ELSE DESCALE(Dot(kernel[n + 1 - k], mirrored), shift)]

\* jpeg_idct_4x4 and jpeg_idct_8x4 round the odd part by itself in pass 1 and
\* subtract what they rounded: in the second half ties go down.
InverseOddRounded(x, shift) ==
  LET mirrored == Alternate(x)
  IN [k \in 1..4 |-> IF k <= 2 THEN DESCALE(Dot(Inverse4[k], x), shift)
                     ELSE -DESCALE(-Dot(Inverse4[5 - k], mirrored), shift)]

ColumnPass(m, x) ==
  LET shift == KernelBits(m.h) - WorkspaceBits(m)
  IN IF m.h = 4 /\ m.w \in {4, 8} THEN InverseOddRounded(x, shift)
     ELSE InversePass(m.columns, m.h, x, shift)

RowPass(m, x) ==
  LET limited == InversePass(m.rows, m.w, x, KernelBits(m.w) + WorkspaceBits(m) + 3)
  IN [k \in 1..m.w |-> range_limit(limited[k])]

(***************************************************************************)
(* The forward functions: rows first, then columns.                        *)
(***************************************************************************)

Fdct(w, h, rows, rowShift, columns, columnShift) ==
  [w |-> w, h |-> h, rows |-> rows, rowShift |-> rowShift,
   columns |-> columns, columnShift |-> columnShift]

jpeg_fdct_1x1 == Fdct(1, 1, Forward1, 7, Columns1, 13)
jpeg_fdct_2x2 == Fdct(2, 2, Forward2, 9, Columns2, 13)
jpeg_fdct_3x3 == Fdct(3, 3, Forward3, 9, Columns3, 15)
jpeg_fdct_4x4 == Fdct(4, 4, Forward4, 9, Columns4, 15)
jpeg_fdct_5x5 == Fdct(5, 5, Forward5, 10, Columns5, 15)
jpeg_fdct_6x6 == Fdct(6, 6, Forward6, 11, Columns6, 15)
jpeg_fdct_7x7 == Fdct(7, 7, Forward7, 11, Columns7, 15)
jpeg_fdct_islow == Fdct(8, 8, Forward8, 11, Columns8, 15)
jpeg_fdct_9x9 == Fdct(9, 9, Forward9, 12, Columns9, 15)
jpeg_fdct_10x10 == Fdct(10, 10, Forward10, 12, Columns10, 15)
jpeg_fdct_11x11 == Fdct(11, 11, Forward11, 12, Columns11, 15)
jpeg_fdct_12x12 == Fdct(12, 12, Forward12, 13, Columns12, 14)
jpeg_fdct_13x13 == Fdct(13, 13, Forward13, 13, Columns13, 14)
jpeg_fdct_14x14 == Fdct(14, 14, Forward14, 13, Columns14, 14)
jpeg_fdct_15x15 == Fdct(15, 15, Forward15, 13, Columns15, 15)
jpeg_fdct_16x16 == Fdct(16, 16, Forward16, 11, Columns16, 17)
jpeg_fdct_16x8 == Fdct(16, 8, Forward16, 11, Columns8, 16)
jpeg_fdct_14x7 == Fdct(14, 7, Forward14, 11, Columns7, 16)
jpeg_fdct_12x6 == Fdct(12, 6, Forward12, 11, Columns6, 16)
jpeg_fdct_10x5 == Fdct(10, 5, Forward10, 11, Columns5, 15)
jpeg_fdct_8x4 == Fdct(8, 4, Forward8, 10, Columns4, 15)
jpeg_fdct_6x3 == Fdct(6, 3, Forward6, 10, Columns3, 15)
jpeg_fdct_4x2 == Fdct(4, 2, Forward4, 8, Columns2, 15)
jpeg_fdct_2x1 == Fdct(2, 1, Forward2, 8, Columns1, 13)
jpeg_fdct_8x16 == Fdct(8, 16, Forward8, 11, Columns16, 16)
jpeg_fdct_7x14 == Fdct(7, 14, Forward7, 11, Columns14, 15)
jpeg_fdct_6x12 == Fdct(6, 12, Forward6, 11, Columns12, 15)
jpeg_fdct_5x10 == Fdct(5, 10, Forward5, 11, Columns10, 15)
jpeg_fdct_4x8 == Fdct(4, 8, Forward4, 10, Columns8, 15)
jpeg_fdct_3x6 == Fdct(3, 6, Forward3, 10, Columns6, 15)
jpeg_fdct_2x4 == Fdct(2, 4, Forward2, 10, Columns4, 13)
jpeg_fdct_1x2 == Fdct(1, 2, Forward1, 8, Columns2, 13)

Do_DCT(size) ==
  CASE size = <<1, 1>> -> jpeg_fdct_1x1
    [] size = <<2, 2>> -> jpeg_fdct_2x2
    [] size = <<3, 3>> -> jpeg_fdct_3x3
    [] size = <<4, 4>> -> jpeg_fdct_4x4
    [] size = <<5, 5>> -> jpeg_fdct_5x5
    [] size = <<6, 6>> -> jpeg_fdct_6x6
    [] size = <<7, 7>> -> jpeg_fdct_7x7
    [] size = <<9, 9>> -> jpeg_fdct_9x9
    [] size = <<10, 10>> -> jpeg_fdct_10x10
    [] size = <<11, 11>> -> jpeg_fdct_11x11
    [] size = <<12, 12>> -> jpeg_fdct_12x12
    [] size = <<13, 13>> -> jpeg_fdct_13x13
    [] size = <<14, 14>> -> jpeg_fdct_14x14
    [] size = <<15, 15>> -> jpeg_fdct_15x15
    [] size = <<16, 16>> -> jpeg_fdct_16x16
    [] size = <<16, 8>> -> jpeg_fdct_16x8
    [] size = <<14, 7>> -> jpeg_fdct_14x7
    [] size = <<12, 6>> -> jpeg_fdct_12x6
    [] size = <<10, 5>> -> jpeg_fdct_10x5
    [] size = <<8, 4>> -> jpeg_fdct_8x4
    [] size = <<6, 3>> -> jpeg_fdct_6x3
    [] size = <<4, 2>> -> jpeg_fdct_4x2
    [] size = <<2, 1>> -> jpeg_fdct_2x1
    [] size = <<8, 16>> -> jpeg_fdct_8x16
    [] size = <<7, 14>> -> jpeg_fdct_7x14
    [] size = <<6, 12>> -> jpeg_fdct_6x12
    [] size = <<5, 10>> -> jpeg_fdct_5x10
    [] size = <<4, 8>> -> jpeg_fdct_4x8
    [] size = <<3, 6>> -> jpeg_fdct_3x6
    [] size = <<2, 4>> -> jpeg_fdct_2x4
    [] size = <<1, 2>> -> jpeg_fdct_1x2
    [] size = <<DCTSIZE, DCTSIZE>> -> jpeg_fdct_islow

\* A sample and its mirror, added for an even coefficient and subtracted for
\* an odd one.  The fifteen-point kernel has a ninth row.
Folded(x, sign) ==
  LET n == Len(x)
      pairs == [k \in 1..(n \div 2) |-> x[k] + sign * x[n + 1 - k]]
      middle == IF n % 2 = 1 THEN <<x[n \div 2 + 1]>> ELSE <<>>
      half == IF n = 15 THEN <<(pairs[2] + pairs[5]) \div 2>> ELSE <<>>
  IN pairs \o middle \o half

\* The result has DCTSIZE coefficients: those a short pass lacks are zero.
ForwardPass(kernel, x, shift, level) ==
  LET even == Folded(x, 1)
      odd == Folded(x, -1)
      weight(u) == [k \in DOMAIN kernel |-> kernel[k][u]]
      sum(u) == IF u % 2 = 1 THEN Dot(weight(u), even) ELSE Dot(weight(u), odd)
  IN [u \in 1..DCTSIZE |->
        IF u > Lesser(Len(x), DCTSIZE) THEN 0
        ELSE DESCALE(sum(u) - (IF u = 1 THEN level * Len(x) * 2^CONST_BITS ELSE 0), shift)]


(***************************************************************************)
(* The fast functions (Arai, Agui, Nakajima), for 8x8.  Every product is   *)
(* cut to whole units, and the scale factors are in the tables.            *)
(***************************************************************************)

FastProduct(x, c) == RIGHT_SHIFT(x * c, 8)

\* jpeg_idct_ifast, either pass before its shift
FastInverse(x) ==
  LET even == x[1] + x[5]
      odd == x[1] - x[5]
      t13 == x[3] + x[7]
      t12 == FastProduct(x[3] - x[7], 362) - t13
      z13 == x[6] + x[4]
      z10 == x[6] - x[4]
      z11 == x[2] + x[8]
      z12 == x[2] - x[8]
      z5 == FastProduct(z10 + z12, 473)
      t7 == z11 + z13
      t6 == FastProduct(z10, -669) + z5 - t7
      t5 == FastProduct(z11 - z13, 362) - t6
      t4 == FastProduct(z12, 277) - z5 + t5
      up == <<even + t13, odd + t12, odd - t12, even - t13>>
      out == <<t7, t6, t5, -t4>>
  IN [k \in 1..8 |-> IF k <= 4 THEN up[k] + out[k] ELSE up[9 - k] - out[9 - k]]

\* jpeg_fdct_ifast, either pass
FastForward(x) ==
  LET s == [k \in 1..4 |-> x[k] + x[9 - k]]
      d == [k \in 1..4 |-> x[k] - x[9 - k]]
      t10 == s[1] + s[4]
      t13 == s[1] - s[4]
      t11 == s[2] + s[3]
      t12 == s[2] - s[3]
      z1 == FastProduct(t12 + t13, 181)
      o10 == d[4] + d[3]
      o12 == d[2] + d[1]
      z5 == FastProduct(o10 - o12, 98)
      z2 == FastProduct(o10, 139) + z5
      z4 == FastProduct(o12, 334) + z5
      z3 == FastProduct(d[3] + d[2], 181)
      z11 == d[1] + z3
      z13 == d[1] - z3
  IN <<t10 + t11, z11 + z4, t13 + z1, z13 - z2, t10 - t11, z13 + z2, t13 - z1, z11 - z4>>

\* aanscales: the product of two of these, 14 fraction bits
aanscales ==
  <<<<16384, 22725, 21407, 19266, 16384, 12873,  8867, 4520>>,
    <<22725, 31521, 29692, 26722, 22725, 17855, 12299, 6270>>,
    <<21407, 29692, 27969, 25172, 21407, 16819, 11585, 5906>>,
    <<19266, 26722, 25172, 22654, 19266, 15137, 10426, 5315>>,
    <<16384, 22725, 21407, 19266, 16384, 12873,  8867, 4520>>,
    <<12873, 17855, 16819, 15137, 12873, 10114,  6967, 3552>>,
    << 8867, 12299, 11585, 10426,  8867,  6967,  4799, 2446>>,
    << 4520,  6270,  5906,  5315,  4520,  3552,  2446, 1247>>>>

(***************************************************************************)
(* The tables of the two managers, and the quantizer.                      *)
(***************************************************************************)

Fast == dctMethod = FAST /\ dctSize = <<DCTSIZE, DCTSIZE>>

\* Mutant: the scale factors keep one fraction bit too many.
Multiplier_doubled(v, u) == IF Fast THEN DESCALE(QUANTVAL * aanscales[v][u], 11) ELSE QUANTVAL

\* dct_table: what a coefficient is multiplied by
Multiplier(v, u) == IF Fast THEN DESCALE(QUANTVAL * aanscales[v][u], 12) ELSE QUANTVAL

\* divisors: what a transformed coefficient is divided by
Divisor(v, u) == IF Fast THEN DESCALE(QUANTVAL * aanscales[v][u], 11) ELSE QUANTVAL * 2^3

\* Mutant: the division truncates.
Quantized_truncated(x, divisor) == IF x < 0 THEN -(-x \div divisor) ELSE x \div divisor

\* forward_DCT: rounds to the nearest, halves away from zero
Quantized(x, divisor) ==
  IF x < 0 THEN -((-x + divisor \div 2) \div divisor) ELSE (x + divisor \div 2) \div divisor

(***************************************************************************)
(* A block, pass by pass.                                                  *)
(***************************************************************************)

Zeros == [v \in 1..DCTSIZE |-> [u \in 1..DCTSIZE |-> 0]]

DctInit ==
  /\ dctSize = <<DCTSIZE, DCTSIZE>>
  /\ dctMethod = SLOW
  /\ given = Zeros
  /\ dctStage = "idle"
  /\ block = <<>>

\* A component's start_pass and a block of it: up to two frequencies.
ReadBlock ==
  /\ dctStage = "idle"
  /\ \E size \in Sizes : dctSize' = size
  /\ dctMethod' \in {SLOW, FAST}
  /\ dctMethod' = FAST => dctSize' = <<DCTSIZE, DCTSIZE>>
  /\ \E p, q \in Frequencies, a, b \in Levels :
       given' = [v \in 1..DCTSIZE |-> [u \in 1..DCTSIZE |->
                  IF <<v - 1, u - 1>> = p THEN a ELSE IF <<v - 1, u - 1>> = q THEN b ELSE 0]]
  /\ dctStage' = "read"
  /\ block' = <<>>

\* Pass 1 of an inverse function: block becomes its columns.
InverseColumns ==
  /\ dctStage = "read"
  /\ LET m == Inverse_DCT(dctSize)
         column(u) == [v \in 1..Lesser(dctSize[2], DCTSIZE) |-> given[v][u] * Multiplier(v, u)]
     IN block' = [u \in 1..Lesser(dctSize[1], DCTSIZE) |->
                    IF Fast THEN FastInverse(column(u)) ELSE ColumnPass(m, column(u))]
  /\ dctStage' = "columns"
  /\ UNCHANGED <<dctSize, dctMethod, given>>

\* Pass 2: block becomes the rows of samples.
InverseRows ==
  /\ dctStage = "columns"
  /\ LET m == Inverse_DCT(dctSize)
         row(y) == [u \in DOMAIN block |-> block[u][y]]
         fast(y) == LET r == FastInverse(row(y))
                    IN [x \in 1..DCTSIZE |-> range_limit(RIGHT_SHIFT(r[x], PASS1_BITS + 3))]
     IN block' = [y \in 1..dctSize[2] |-> IF Fast THEN fast(y) ELSE RowPass(m, row(y))]
  /\ dctStage' = "samples"
  /\ UNCHANGED <<dctSize, dctMethod, given>>

\* Pass 1 of a forward function: block becomes the coefficients of each row.
ForwardRows ==
  /\ dctStage = "samples"
  /\ LET m == Do_DCT(dctSize)
         fast(row) == LET r == FastForward(row)
                      IN [r EXCEPT ![1] = @ - 8 * CENTERJSAMPLE]
     IN block' = [y \in 1..dctSize[2] |->
                    IF Fast THEN fast(block[y]) ELSE ForwardPass(m.rows, block[y], m.rowShift, CENTERJSAMPLE)]
  /\ dctStage' = "rows"
  /\ UNCHANGED <<dctSize, dctMethod, given>>

\* Pass 2: block becomes its columns of coefficients, scaled up by 8.
ForwardColumns ==
  /\ dctStage = "rows"
  /\ LET m == Do_DCT(dctSize)
         column(u) == [y \in 1..dctSize[2] |-> block[y][u]]
     IN block' = [u \in 1..DCTSIZE |->
                    IF Fast THEN FastForward(column(u)) ELSE ForwardPass(m.columns, column(u), m.columnShift, 0)]
  /\ dctStage' = "coefficients"
  /\ UNCHANGED <<dctSize, dctMethod, given>>

\* forward_DCT after do_dct: the quantized coefficients, row by row.
Quantize ==
  /\ dctStage = "coefficients"
  /\ block' = [v \in 1..DCTSIZE |-> [u \in 1..DCTSIZE |-> Quantized(block[u][v], Divisor(v, u))]]
  /\ dctStage' = "quantized"
  /\ UNCHANGED <<dctSize, dctMethod, given>>

\* The next block is another one.
NextBlock ==
  /\ dctStage = "quantized"
  /\ dctStage' = "idle"
  /\ dctSize' = <<DCTSIZE, DCTSIZE>>
  /\ dctMethod' = SLOW
  /\ given' = Zeros
  /\ block' = <<>>

DctNext ==
  \/ ReadBlock
  \/ InverseColumns
  \/ InverseRows
  \/ ForwardRows
  \/ ForwardColumns
  \/ Quantize
  \/ NextBlock

DctSpec == DctInit /\ [][DctNext]_dctVars

(***************************************************************************)
(* Properties.                                                             *)
(***************************************************************************)

Quantities(rows, columns, values) ==
  /\ DOMAIN block = 1..rows
  /\ \A i \in DOMAIN block : DOMAIN block[i] = 1..columns /\ \A j \in 1..columns : block[i][j] \in values

\* The block has the shape its pass leaves it in, samples are bytes and
\* coefficients fit the 16 bits of a JCOEF.
DctTypeOK ==
  /\ dctSize \in Sizes \cup {<<DCTSIZE, DCTSIZE>>}
  /\ dctMethod \in {SLOW, FAST}
  /\ dctStage = "samples" => Quantities(dctSize[2], dctSize[1], 0..MAXJSAMPLE)
  /\ dctStage = "quantized" => Quantities(DCTSIZE, DCTSIZE, -(2^15)..(2^15 - 1))

\* What the size of the block keeps of the coefficients.
Kept(v, u) == IF v <= dctSize[2] /\ u <= dctSize[1] THEN given[v][u] ELSE 0

\* No sample of the block reaches a limit.
Mild ==
  LET magnitude(x) == IF x < 0 THEN -x ELSE x
  IN \A v, u \in 1..DCTSIZE : magnitude(given[v][u]) <= 2

\* In the row passes of twelve and fourteen points one coefficient lacks the
\* fraction bits of one of its terms (jfdctint.c:1467 and 1873), which the
\* rounding then drops.
Impaired(u) == <<dctSize[1], u>> \in {<<12, 3>>, <<14, 2>>}

\* Whatever size a mild block is drawn at, and by either method, its coefficients
\* come back when the samples are transformed and quantized again: the
\* forward functions undo the inverse ones (jidctint.c, jfdctint.c and the
\* tables of the managers), but for the impaired coefficients.
Reproduced ==
  dctStage = "quantized" /\ Mild =>
    \A v, u \in 1..DCTSIZE : Impaired(u) \/ block[v][u] = Kept(v, u)

\* A mild block is equally bright at every size: the mean of its samples is the
\* level of coefficient 0, an eighth of its value over the center.
EquallyBright ==
  dctStage = "samples" /\ Mild =>
    LET n == dctSize[1] * dctSize[2]
        rowSum(y) == Dot(block[y], [x \in 1..dctSize[1] |-> 1])
        sum == Dot([y \in 1..dctSize[2] |-> rowSum(y)], [y \in 1..dctSize[2] |-> 1])
        excess == 8 * (sum - n * CENTERJSAMPLE) - n * QUANTVAL * given[1][1]
    IN excess \in -(8 * n)..(8 * n)

=============================================================================
