------------------------ MODULE JpegDecompressProofs ------------------------
(***************************************************************************)
(* The decompressor, of every picture and in every mode: its counters are  *)
(* within the picture, input goes on where it was, and the lines are those *)
(* of the picture, with all that the scans asked for say of them.  Input   *)
(* is dealt with in JpegInputProofs.                                       *)
(***************************************************************************)
EXTENDS JpegInputProofs

-----------------------------------------------------------------------------
(***************************************************************************)
(* What is true of output.                                                 *)
(***************************************************************************)

\* A line of a component that is right if it is the picture's line y.
Shows(d, c, line, y) ==
  y < d.picture.height =>
    /\ line.line = LineOf(d.picture, d.mode, c, y)
    /\ \A x \in 1..width_in_blocks(d.picture, c) :
         Right(d, c, line.blocks[x], BlockRow(d.picture, c, y), x - 1)
LineShows(d, line, y) == \A c \in Comps(d.picture) : Shows(d, c, line[c], y)

\* the first line of the row group at hand
GroupLine(d) ==
  (d.output_iMCU_row - 1) * iMCU_height(d.picture) + d.rowgroup_ctr * max_v_samp_factor(d.picture)

\* The color buffer, while lines of its row group are to be given out.
ColorsShow(d) ==
  \A c \in Comps(d.picture) :
    LET high == rowgroup_height(d.picture, d.mode, c)
        most == max_v_samp_factor(d.picture)
        buf == d.color_buf[c]
    IN IF high = most THEN buf.first = d.rowgroup_ctr * high /\ buf.rows = <<>>
       ELSE /\ Len(buf.rows) = most
            /\ \A o \in 1..most : Shows(d, c, buf.rows[o], GroupLine(d) + o - 1)

\* The main buffer and the upsampler when lines up to y have been given out; the
\* last row group's end has yet to be seen where the buffer is still full.
Filled(d, y) ==
  LET most == max_v_samp_factor(d.picture)
  IN /\ d.output_iMCU_row >= 1
     /\ BufferShows(d, d.output_iMCU_row - 1)
     /\ y = GroupLine(d) + (IF d.next_row_out = most THEN 0 ELSE d.next_row_out)
     /\ d.next_row_out < most => ColorsShow(d)
Counters(d, y) ==
  /\ d.next_row_out \in 0..max_v_samp_factor(d.picture)
  /\ y \in 0..d.picture.height /\ d.rows_to_go = d.picture.height - y
  /\ d.output_iMCU_row \in 0..total_iMCU_rows(d.picture)
MainAt(d, y) ==
  /\ Counters(d, y)
  /\ d.buffer_full \in BOOLEAN /\ d.rowgroup_ctr \in 0..(DCTSIZE - 1)
  /\ ~d.buffer_full => /\ d.rowgroup_ctr = 0 /\ d.next_row_out = max_v_samp_factor(d.picture)
                       /\ y = d.output_iMCU_row * iMCU_height(d.picture)
  /\ d.buffer_full => Filled(d, y)
MainInv(d) == MainAt(d, d.output_scanline)

\* The strips for the second pass of quantization: lines shown up to one.
StripsShow(d, last) ==
  \A y \in 0..(last - 1) : y < d.picture.height => LineShows(d, d.strips[y], y)
StripAt(d, y) ==
  /\ d.starting_row \in Nat /\ d.next_row \in 0..(max_v_samp_factor(d.picture) - 1)
  /\ d.starting_row % max_v_samp_factor(d.picture) = 0
  /\ y = d.starting_row + d.next_row
StripInv(d) == StripAt(d, d.output_scanline)

\* Output, while a pass is under way.
OutputInv(d) ==
  /\ InStep(d)
  /\ IF d.mode.raw_data_out
     THEN /\ ~d.is_dummy_pass
          /\ d.output_iMCU_row \in 0..total_iMCU_rows(d.picture)
          /\ d.output_scanline = d.output_iMCU_row * iMCU_height(d.picture)
     ELSE \/ /\ d.post_process \in {"upsample", "1pass"} /\ ~d.is_dummy_pass
             /\ MainInv(d)
          \/ /\ d.post_process = "prepass" /\ d.is_dummy_pass /\ d.mode.quantize = "two"
             /\ MainInv(d) /\ StripInv(d) /\ StripsShow(d, d.output_scanline)
          \/ /\ d.post_process = "2pass" /\ ~d.is_dummy_pass /\ d.mode.quantize = "two"
             /\ d.output_iMCU_row \in 0..total_iMCU_rows(d.picture)
             /\ d.rowgroup_ctr \in 0..(DCTSIZE - 1)
             /\ d.output_scanline <= strip_rows(d.picture)
             /\ StripInv(d) /\ StripsShow(d, d.picture.height)

-----------------------------------------------------------------------------
(***************************************************************************)
(* The lines of the picture and the rows of samples they show.             *)
(***************************************************************************)

\* What is left of a number when multiples of the divisor are added.
LEMMA ShiftedRest ==
  \A q, s, i : q \in Nat /\ s \in Nat /\ s > 0 /\ i \in Nat => (q * s + i) % s = i % s
<1> SUFFICES ASSUME NEW q \in Nat, NEW s \in Nat, s > 0, NEW i \in Nat
             PROVE  (q * s + i) % s = i % s
  OBVIOUS
<1> QED BY ShiftedQuotient

\* Line j of an iMCU row of mx * size lines, o of them before it, shows of a
\* component of v rows of blocks, each enlarged k times, row (j v k) / mx of its
\* rows of samples.
LEMMA LineArithmetic ==
  ASSUME NEW v \in Nat, v > 0, NEW mx \in Nat, mx > 0, NEW size \in Nat, size > 0,
         NEW k \in Nat, k > 0, NEW o \in Nat, NEW j \in Nat, j < mx * size
  PROVE  LET i == (j * (v * k)) \div mx
             y == o * (mx * size) + j
         IN /\ i \in Nat
            /\ ((y * v * (size * k)) \div (mx * size)) % (size * k) = i % (size * k)
            /\ (y * v) \div (mx * size) = o * v + i \div (size * k)
            /\ i \div (size * k) \in 0..(v - 1)
<1> DEFINE h == mx * size
           S == size * k
           a == j * (v * k)
           i == a \div mx
           b == j * v
           y == o * h + j
           ov == o * v
           q == ov * S
<1>1. /\ h \in Nat /\ h > 0 /\ S \in Nat /\ S > 0 /\ v * k \in Nat /\ b \in Nat /\ ov \in Nat
  BY Products
<1>2. a \in Nat /\ q \in Nat
  BY <1>1, Products
<1>3. i \in Nat
  BY <1>2, Division
<1>4. y * v = ov * h + b
  <2>1. (o * h) * v = ov * h
    BY <1>1
  <2>2. (o * h + j) * v = (o * h) * v + j * v
    BY <1>1
  <2> QED BY <2>1, <2>2
<1>5. a = b * k /\ a * size = b * S /\ mx * S = h * k
  OBVIOUS
<1> HIDE DEF h, S, a, b, i, ov
<1>6. (y * v) * S = q * h + a * size
  <2>1. (ov * h + b) * S = (ov * h) * S + b * S
    BY <1>1
  <2>2. (ov * h) * S = (ov * S) * h
    BY <1>1
  <2> QED BY <1>4, <1>5, <2>1, <2>2
<1>7. ((y * v) * S) \div h = q + i
  <2>1. a * size \in Nat
    BY <1>2, Products
  <2>2. (q * h + a * size) \div h = q + (a * size) \div h
    BY <1>1, <1>2, <2>1, ShiftedQuotient
  <2>3. (a * size) \div (mx * size) = a \div mx
    BY <1>2, CommonFactor
  <2> QED BY <1>6, <2>2, <2>3 DEF h, i
<1>8. (q + i) % S = i % S
  <2>1. ov \in Nat /\ S \in Nat /\ S > 0 /\ i \in Nat
    BY <1>1, <1>3
  <2>2. (ov * S + i) % S = i % S
    BY <2>1, ShiftedRest, Zenon
  <2> QED BY <2>2 DEF q
<1>9. (y * v) \div h = ov + b \div h
  BY <1>1, <1>4, ShiftedQuotient
<1>10. i \div S = b \div h
  <2>1. i \div S = a \div (mx * S)
    BY <1>1, <1>2, DividedTwice DEF i
  <2>2. (b * k) \div (h * k) = b \div h
    BY <1>1, CommonFactor
  <2> QED BY <1>5, <2>1, <2>2
<1>11. b \div h \in 0..(v - 1)
  <2> DEFINE t == b \div h
             r == b % h
  <2>1. t \in Nat /\ r \in 0..(h - 1) /\ b = t * h + r
    BY <1>1, Division
  <2>2. b < v * h
    <3>1. (j + 1) * v <= h * v
      BY <1>1, ProductsOrdered DEF h
    <3>2. (j + 1) * v = b + v /\ h * v = v * h
      BY <1>1 DEF b
    <3> DEFINE z == h * v
    <3>3. z \in Nat /\ b + v <= z
      BY <1>1, <3>1, <3>2, Products
    <3>4. b < z
      <4> HIDE DEF z
      <4> QED BY <1>1, <3>3
    <3> QED BY <3>2, <3>4
  <2>3. t * h < v * h
    <3> DEFINE x == t * h
               z == v * h
    <3>1. x \in Nat /\ z \in Nat /\ b = x + r /\ b < z
      BY <1>1, <2>1, <2>2, Products
    <3> HIDE DEF x, z, t, r
    <3>2. x < z
      BY <1>1, <2>1, <3>1
    <3> QED BY <3>2 DEF x, z
  <2> HIDE DEF t, r
  <2>4. t < v
    BY <1>1, <2>1, <2>3, FactorsOrdered
  <2> QED BY <2>1, <2>4 DEF t
<1> QED BY <1>3, <1>7, <1>8, <1>9, <1>10, <1>11 DEF h, S, a, b, i, ov

\* The factors of a component.
LEMMA Factors ==
  ASSUME NEW p \in Pictures, NEW c \in Comps(p)
  PROVE  /\ p.comps[c].v \in Nat /\ p.comps[c].v > 0
         /\ p.comps[c].h \in Nat /\ p.comps[c].h > 0
         /\ max_v_samp_factor(p) \in Nat /\ max_v_samp_factor(p) > 0
         /\ DCTSIZE \in Nat /\ DCTSIZE > 0
<1>1. p.comps[c].v \in 1..4 /\ p.comps[c].h \in 1..4 /\ max_v_samp_factor(p) \in 1..4
  BY Sizes
<1> DEFINE v == p.comps[c].v
           h == p.comps[c].h
           mx == max_v_samp_factor(p)
<1>2. v \in 1..4 /\ h \in 1..4 /\ mx \in 1..4
  BY <1>1
<1> HIDE DEF v, h, mx
<1>3. v \in Nat /\ v > 0 /\ h \in Nat /\ h > 0 /\ mx \in Nat /\ mx > 0
  BY <1>2
<1> QED BY <1>3, DctSizeAssumption DEF v, h, mx

\* A factor by which a transform may enlarge.
LEMMA EnlargedBy ==
  ASSUME NEW mode, NEW most, NEW samp
  PROVE  Enlarged(mode, most, samp) \in {1, 2, 4, 8, 16}
<1> DEFINE T == {s \in {1, 2, 4, 8, 16} :
                   s = 1 \/ /\ DCTSIZE * (s \div 2) <= (IF mode.do_fancy_upsampling THEN DCTSIZE
                                                        ELSE DCTSIZE \div 2)
                            /\ most % (samp * s) = 0}
<1>1. Enlarged(mode, most, samp) = Max(T)
  BY DEF Enlarged
<1>2. T \subseteq {1, 2, 4, 8, 16} /\ 1 \in T
  OBVIOUS
<1> HIDE DEF T
<1>3. \E x \in T : \A y \in T : x >= y
  BY <1>2
<1>4. Max(T) \in T
  BY <1>3 DEF Max
<1> QED BY <1>1, <1>2, <1>4

\* The rows of samples of a row of blocks, and of a row group.
LEMMA ScaledSizes ==
  ASSUME NEW p \in Pictures, NEW mode, NEW c \in Comps(p)
  PROVE  \E k \in Nat : /\ k > 0 /\ DCT_v_scaled_size(p, mode, c) = DCTSIZE * k
                        /\ rowgroup_height(p, mode, c) = p.comps[c].v * k
<1> DEFINE h == Enlarged(mode, max_h_samp_factor(p), p.comps[c].h)
           w == Enlarged(mode, max_v_samp_factor(p), p.comps[c].v)
           k == IF w > 2 * h THEN 2 * h ELSE w
           v == p.comps[c].v
<1>1. h \in {1, 2, 4, 8, 16} /\ w \in {1, 2, 4, 8, 16}
  BY EnlargedBy
<1>2. k \in Nat /\ k > 0
  <2> HIDE DEF h, w
  <2> QED BY <1>1
<1>3. DCT_v_scaled_size(p, mode, c) = DCTSIZE * k
  BY DEF DCT_v_scaled_size
<1> HIDE DEF k
<1>4. v \in Nat /\ v > 0 /\ DCTSIZE \in Nat /\ DCTSIZE > 0
  BY Factors
<1>5. rowgroup_height(p, mode, c) = v * k
  <2>1. rowgroup_height(p, mode, c) = (v * (DCTSIZE * k)) \div DCTSIZE
    BY <1>3 DEF rowgroup_height
  <2> HIDE DEF v
  <2>2. v * (DCTSIZE * k) = (v * k) * DCTSIZE + 0 /\ v * k \in Nat /\ 0 \in 0..(DCTSIZE - 1)
        /\ v * (DCTSIZE * k) \in Nat
    BY <1>2, <1>4
  <2>3. (v * (DCTSIZE * k)) \div DCTSIZE = v * k
    BY <1>4, <2>2, QuotientIs
  <2> QED BY <2>1, <2>3
<1> QED BY <1>2, <1>3, <1>5

\* What line j of an iMCU row shows of a component.
LEMMA LineRow ==
  ASSUME NEW p \in Pictures, NEW mode, NEW c \in Comps(p), NEW o \in Nat,
         NEW j \in 0..(iMCU_height(p) - 1)
  PROVE  LET i == (j * rowgroup_height(p, mode, c)) \div max_v_samp_factor(p)
             S == DCT_v_scaled_size(p, mode, c)
             y == o * iMCU_height(p) + j
         IN /\ i \in Nat /\ LineOf(p, mode, c, y) = i % S
            /\ BlockRow(p, c, y) = o * p.comps[c].v + i \div S
            /\ i \div S \in 0..(p.comps[c].v - 1)
<1> DEFINE v == p.comps[c].v
           mx == max_v_samp_factor(p)
<1>1. v \in Nat /\ v > 0 /\ mx \in Nat /\ mx > 0 /\ DCTSIZE \in Nat /\ DCTSIZE > 0
      /\ iMCU_height(p) = mx * DCTSIZE
  BY Factors DEF iMCU_height
<1>2. PICK k \in Nat : /\ k > 0 /\ DCT_v_scaled_size(p, mode, c) = DCTSIZE * k
                       /\ rowgroup_height(p, mode, c) = v * k
  BY ScaledSizes
<1>3. j \in Nat /\ j < mx * DCTSIZE
  BY <1>1
<1> HIDE DEF v, mx
<1>4. LET i == (j * (v * k)) \div mx
          y == o * (mx * DCTSIZE) + j
      IN /\ i \in Nat
         /\ ((y * v * (DCTSIZE * k)) \div (mx * DCTSIZE)) % (DCTSIZE * k) = i % (DCTSIZE * k)
         /\ (y * v) \div (mx * DCTSIZE) = o * v + i \div (DCTSIZE * k)
         /\ i \div (DCTSIZE * k) \in 0..(v - 1)
  <2>1. /\ v \in Nat /\ v > 0 /\ mx \in Nat /\ mx > 0 /\ DCTSIZE \in Nat /\ DCTSIZE > 0
        /\ k \in Nat /\ k > 0 /\ o \in Nat /\ j \in Nat /\ j < mx * DCTSIZE
    BY <1>1, <1>2, <1>3
  <2> QED BY <2>1, LineArithmetic, Zenon
<1> QED BY <1>1, <1>2, <1>4 DEF LineOf, BlockRow, v, mx

\* A line of the picture is in a row of blocks that the picture has.
LEMMA LineWithin ==
  ASSUME NEW p \in Pictures, NEW c \in Comps(p), NEW y \in Nat, y < p.height
  PROVE  BlockRow(p, c, y) < height_in_blocks(p, c) /\ BlockRow(p, c, y) \in Nat
<1> DEFINE v == p.comps[c].v
           h == iMCU_height(p)
           a == y * v
           t == a \div h
           r == a % h
           most == height_in_blocks(p, c)
<1>1. v \in Nat /\ v > 0 /\ h \in Nat /\ h > 0 /\ most \in Nat /\ p.height \in Nat /\ p.height > 0
  BY Factors, Sizes
<1>2. BlockRow(p, c, y) = t
  BY DEF BlockRow, iMCU_height
<1>3. a \in Nat /\ p.height * v \in Nat /\ p.height * v > 0
  BY <1>1, Products
<1>4. t \in Nat /\ r \in 0..(h - 1) /\ a = t * h + r
  BY <1>1, <1>3, Division
<1>5. p.height * v <= most * h
  <2>1. most = jdiv_round_up(p.height * v, h)
    BY DEF height_in_blocks, iMCU_height
  <2> QED BY <1>1, <1>3, <2>1, RoundedUp
<1>6. a < p.height * v
  <2>1. (y + 1) * v <= p.height * v
    BY <1>1, ProductsOrdered
  <2>2. (y + 1) * v = a + v
    BY <1>1
  <2> DEFINE z == p.height * v
  <2> HIDE DEF a, z
  <2> QED BY <1>1, <1>3, <2>1, <2>2 DEF z
<1>7. t * h < most * h
  <2> DEFINE x == t * h
             z == p.height * v
             u == most * h
  <2>1. x \in Nat /\ u \in Nat
    BY <1>1, <1>4, Products
  <2>2. x <= a
    <3> HIDE DEF x, a, r, h
    <3> QED BY <1>1, <1>3, <1>4, <2>1 DEF x
  <2> HIDE DEF x, z, u, a
  <2>3. x < u
    BY <1>3, <1>5, <1>6, <2>1, <2>2 DEF z, u
  <2> QED BY <2>3 DEF x, u
<1> HIDE DEF t, h, most
<1>8. t < most
  BY <1>1, <1>4, <1>7, FactorsOrdered
<1> QED BY <1>2, <1>4, <1>8 DEF most

\* A row of the main buffer shows a line of the iMCU row that the buffer shows.
LEMMA RowShows ==
  ASSUME NEW d, d.picture \in Pictures, NEW o \in Nat, BufferShows(d, o), NEW c \in Comps(d.picture),
         NEW j \in 0..(iMCU_height(d.picture) - 1)
  PROVE  LET p == d.picture
         IN Shows(d, c, Row(d, c, (j * rowgroup_height(p, d.mode, c)) \div max_v_samp_factor(p)),
                  o * iMCU_height(p) + j)
<1> DEFINE p == d.picture
           i == (j * rowgroup_height(p, d.mode, c)) \div max_v_samp_factor(p)
           S == DCT_v_scaled_size(p, d.mode, c)
           y == o * iMCU_height(p) + j
           row == Row(d, c, i)
           k == i \div S
<1>1. /\ LineOf(p, d.mode, c, y) = i % S
      /\ BlockRow(p, c, y) = o * p.comps[c].v + k /\ k \in 0..(p.comps[c].v - 1)
  BY LineRow
<1>2. y \in Nat
  <2>1. iMCU_height(p) \in Nat
    BY Sizes
  <2>2. o * iMCU_height(p) \in Nat /\ j \in Nat
    BY <2>1, Products
  <2> QED BY <2>2
<1>3. /\ row.line = i % S
      /\ \A x \in 1..width_in_blocks(p, c) : row.blocks[x] = d.buffer[<<c, k, x - 1>>]
  BY DEF Row
<1> HIDE DEF i, S, k, row, y
<1> SUFFICES ASSUME y < p.height, NEW x \in 1..width_in_blocks(p, c)
             PROVE  Right(d, c, row.blocks[x], BlockRow(p, c, y), x - 1)
  BY <1>1, <1>3 DEF Shows, i, S, row, y
<1>4. BlockRow(p, c, y) < height_in_blocks(p, c)
  BY <1>2, LineWithin
<1>5. width_in_blocks(p, c) \in Nat
  BY Sizes
<1>6. <<c, k, x - 1>> \in Blocks(p)
  BY <1>1, <1>5 DEF Blocks
<1>7. BlockShows(d, <<c, k, x - 1>>, o)
  BY <1>6 DEF BufferShows
<1>8. Right(d, c, d.buffer[<<c, k, x - 1>>], BlockRow(p, c, y), x - 1)
  BY <1>1, <1>4, <1>7 DEF BlockShows
<1> QED BY <1>3, <1>8

-----------------------------------------------------------------------------
(***************************************************************************)
(* A row of iMCUs comes to the main buffer.                                *)
(***************************************************************************)

\* Decompression is under way: what input, memory and output agree on.
Working(d) ==
  /\ InputThere(d) /\ Reading(d) /\ Memory(d) /\ Prepared(d) /\ InStep(d)
  /\ d.has_multiple_scans = has_multiple_scans(d.picture)

\* What is beneath the lines is the same.
SameWork(d, e) ==
  /\ IsObject(e) /\ SameInput(d, e) /\ SameData(d, e)
  /\ e.mode = d.mode /\ e.decompress_data = d.decompress_data
  /\ e.output_iMCU_row = d.output_iMCU_row /\ DOMAIN e.strips = DOMAIN d.strips
  /\ e.dct_table = d.dct_table

\* The picture, the mode and the scans asked for are the same.
SameAsked(d, e) ==
  /\ e.picture = d.picture /\ e.mode = d.mode
  /\ \A s \in 1..Len(d.picture.scans) : s <= e.output_scan_number <=> s <= d.output_scan_number

LEMMA WorkAsked ==
  ASSUME NEW d, NEW e, SameWork(d, e)
  PROVE  SameAsked(d, e)
BY DEF SameWork, SameAsked, SameInput, SameScan

\* Nothing but those fields matters.
LEMMA WorkingKept ==
  ASSUME NEW d, NEW e, Working(d), SameWork(d, e)
  PROVE  Working(e)
<1>1. Object(d)
  BY DEF Working, InputThere
<1>2. InputThere(e) /\ Reading(e)
  BY <1>1, InputKept DEF Working, SameWork, InputThere, SameInput, SameScan, SameData
<1>3. Memory(e)
  BY DEF Working, SameWork, Memory, SameInput, SameScan, SameData
<1>4. InStep(d) => InStep(e)
  <2>1. McusShown(d) => McusShown(e)
    <3>1. \A i \in Blocks(d.picture) : Decoded(e, i) => Decoded(d, i)
      BY DEF Decoded, SameWork, SameInput, SameScan
    <3>2. \A i, row : BlockShows(d, i, row) => BlockShows(e, i, row)
      BY BlockShownKept DEF SameWork, SameInput, SameScan, SameData
    <3> QED BY <3>1, <3>2 DEF McusShown, SameWork, SameInput, SameScan
  <2> QED BY <2>1 DEF InStep, SameWork, SameInput, SameScan
<1>5. Prepared(e)
  BY PreparedKept DEF Working, SameWork, SameInput, SameScan
<1> QED BY <1>2, <1>3, <1>4, <1>5 DEF Working, SameWork, SameInput, SameScan

\* The memory of an object that has gone on.
LEMMA MemoryKept ==
  ASSUME NEW d, NEW e, Memory(d), SameLines(d, e), SameInMemory(d, e), ImageRight(e)
  PROVE  Memory(e)
BY DEF Memory, SameLines, SameInMemory, ImageRight

\* A row of blocks that is in the picture.
LEMMA RowWithin ==
  ASSUME NEW p \in Pictures, NEW c \in Comps(p), NEW row \in 0..(total_iMCU_rows(p) - 1),
         NEW k \in 0..(p.comps[c].v - 1)
  PROVE  LET y == row * p.comps[c].v + k
             rows == IF row = total_iMCU_rows(p) - 1 THEN last_row_height(p, c) ELSE p.comps[c].v
         IN y \in Nat /\ (k < rows <=> y < height_in_blocks(p, c))
<1> DEFINE t == total_iMCU_rows(p)
           v == p.comps[c].v
           last == last_row_height(p, c)
           high == height_in_blocks(p, c)
           x == row * v
           z == (t - 1) * v
<1>1. v \in Nat /\ v > 0 /\ t \in Nat /\ t >= 1
  BY Factors, Sizes
<1>2. last \in 1..v /\ high = z + last
  BY BlockRows
<1>3. row \in Nat /\ row <= t - 1 /\ k \in Nat /\ k < v
  BY <1>1
<1>4. x \in Nat /\ z \in Nat
  BY <1>1, <1>3
<1>5. row # t - 1 => x + v <= z
  <2> SUFFICES ASSUME row # t - 1 PROVE x + v <= z
    OBVIOUS
  <2>1. row + 1 <= t - 1 /\ row + 1 \in Nat /\ t - 1 \in Nat
    BY <1>1, <1>3
  <2>2. (row + 1) * v <= (t - 1) * v
    BY <1>1, <2>1, ProductsOrdered
  <2>3. (row + 1) * v = row * v + v
    BY <1>1, <1>3
  <2> QED BY <2>2, <2>3
<1>6. row = t - 1 => x = z
  OBVIOUS
<1> DEFINE rows == IF row = t - 1 THEN last ELSE v
<1> HIDE DEF t, v, last, high, x, z
<1>7. x + k \in Nat /\ (k < rows <=> x + k < high)
  <2>1. CASE row = t - 1
    BY <1>1, <1>2, <1>3, <1>4, <1>6, <2>1
  <2>2. CASE row # t - 1
    BY <1>1, <1>2, <1>3, <1>4, <1>5, <2>2
  <2> QED BY <2>1, <2>2
<1> QED BY <1>7 DEF t, v, last, high, x

\* What Rendered leaves as it is.
LEMMA RenderedFields ==
  ASSUME NEW d, IsObject(d), NEW smoothed
  PROVE  LET e == Rendered(d, smoothed)
         IN /\ IsObject(e) /\ SameLines(d, e) /\ SameInput(d, e)
            /\ e.whole_image = d.whole_image /\ DOMAIN e.buffer = DOMAIN d.buffer
            /\ e.output_iMCU_row = d.output_iMCU_row + 1 /\ e.ret # "SUSPENDED"
BY DEF Rendered, IsObject, Fields, SameLines, SameInput, SameScan

\* The rows of blocks around a row, within the picture.
LEMMA RowsAround ==
  ASSUME NEW y \in Nat, NEW most \in Nat, y < most
  PROVE  /\ Max({0, y - 1}) \in 0..y /\ Max({y - 1, 0}) = Max({0, y - 1})
         /\ Min({most - 1, y + 1}) \in 0..(most - 1) /\ Min({most - 1, y + 1}) <= y + 1
         /\ Min({y + 1, most - 1}) = Min({most - 1, y + 1})
<1> DEFINE S == {0, y - 1}
           T == {most - 1, y + 1}
<1>1. {y - 1, 0} = S /\ {y + 1, most - 1} = T
  OBVIOUS
<1>2. (\E x \in S : \A z \in S : x >= z) /\ 0 \in S /\ \A x \in S : x = 0 \/ x = y - 1
  <2>1. 0 \in S /\ y - 1 \in S /\ \A x \in S : x = 0 \/ x = y - 1
    OBVIOUS
  <2> HIDE DEF S
  <2>2. 0 >= y - 1 \/ y - 1 >= 0
    OBVIOUS
  <2>3. 0 >= 0 /\ y - 1 >= y - 1
    OBVIOUS
  <2> QED BY <2>1, <2>2, <2>3
<1>3. /\ (\E x \in T : \A z \in T : x <= z) /\ most - 1 \in T /\ y + 1 \in T
      /\ \A x \in T : x = most - 1 \/ x = y + 1
  <2>1. most - 1 \in T /\ y + 1 \in T /\ \A x \in T : x = most - 1 \/ x = y + 1
    OBVIOUS
  <2> HIDE DEF T
  <2>2. most - 1 <= y + 1 \/ y + 1 <= most - 1
    OBVIOUS
  <2>3. most - 1 <= most - 1 /\ y + 1 <= y + 1
    OBVIOUS
  <2> QED BY <2>1, <2>2, <2>3
<1> HIDE DEF S, T
<1>4. Max(S) \in S /\ \A z \in S : Max(S) >= z
  BY <1>2 DEF Max
<1>5. Min(T) \in T /\ \A z \in T : Min(T) <= z
  BY <1>3 DEF Min
<1> DEFINE a == Max(S)
           b == Min(T)
<1> HIDE DEF a, b
<1>6. a \in 0..y
  BY <1>2, <1>4 DEF a
<1>7. b \in 0..(most - 1) /\ b <= y + 1
  BY <1>3, <1>5 DEF b
<1> QED BY <1>1, <1>6, <1>7 DEF a, b, S, T

\* The blocks of the output row show it, when input has caught up with what is
\* looked at.
LEMMA RowRendered ==
  ASSUME NEW d, IsObject(d), d.picture \in Pictures, ImageRight(d),
         InputThere(d), Reading(d), Prepared(d), d.decompress_data # "onepass",
         DOMAIN d.buffer = Blocks(d.picture), DOMAIN d.whole_image = ImageBlocks(d.picture),
         d.output_iMCU_row \in 0..(total_iMCU_rows(d.picture) - 1),
         NEW why \in {"row", "smooth"}, AtEnd(d) \/ Enough(d, why),
         NEW smoothed, smoothed => why = "smooth"
  PROVE  BufferShows(Rendered(d, smoothed), d.output_iMCU_row)
<1> DEFINE p == d.picture
           e == Rendered(d, smoothed)
           row == d.output_iMCU_row
<1>0. e.picture = p /\ e.output_scan_number = d.output_scan_number
  BY DEF Rendered, IsObject, Fields
<1> SUFFICES ASSUME NEW i \in Blocks(p),
                    row * p.comps[i[1]].v + i[2] < height_in_blocks(p, i[1])
             PROVE  Right(d, i[1], e.buffer[i], row * p.comps[i[1]].v + i[2], i[3])
  <2>1. \A c, samples, y, col : Right(d, c, samples, y, col) => Right(e, c, samples, y, col)
    BY <1>0, RightKept
  <2> QED BY <1>0, <2>1 DEF BufferShows, BlockShows
<1> DEFINE c == i[1]
           y == row * p.comps[c].v + i[2]
           rows == IF row = total_iMCU_rows(p) - 1 THEN last_row_height(p, c) ELSE p.comps[c].v
           near == IF smoothed THEN Around(d, c, y, i[3]) ELSE <<>>
<1>1. /\ c \in Comps(p) /\ i = <<c, i[2], i[3]>>
      /\ i[2] \in 0..(p.comps[c].v - 1) /\ i[3] \in 0..(width_in_blocks(p, c) - 1)
  BY RowBlock
<1>2. y \in Nat /\ i[2] < rows
  BY <1>1, RowWithin
<1>3. e.buffer[i] = IF i[2] < rows
                    THEN Samples(d.whole_image[<<c, y, i[3]>>], d.dct_table[c], near)
                    ELSE d.buffer[i]
  BY DEF Rendered, IsObject, Fields
<1>4. /\ e.buffer[i].coefs = d.whole_image[<<c, y, i[3]>>]
      /\ e.buffer[i].table = d.dct_table[c] /\ e.buffer[i].near = near
  BY <1>2, <1>3 DEF Samples
<1>5. height_in_blocks(p, c) \in Nat
  BY <1>1, Sizes
<1>6. y \in 0..(height_in_blocks(p, c) - 1)
  <2> DEFINE most == height_in_blocks(p, c)
  <2>1. y < most /\ most \in Nat
    BY <1>5
  <2> HIDE DEF y, most
  <2>2. y \in 0..(most - 1)
    BY <1>2, <2>1
  <2> QED BY <2>2 DEF most
<1> DEFINE most == height_in_blocks(p, c)
           v == p.comps[c].v
           col == i[3]
           above == Max({0, y - 1})
           below == Min({most - 1, y + 1})
           x == row * v
<1>9. v \in Nat /\ v > 0 /\ row \in Nat /\ x \in Nat /\ total_iMCU_rows(p) \in Nat
  <2>1. v \in Nat /\ v > 0 /\ total_iMCU_rows(p) \in Nat
    BY <1>1, Factors, Sizes
  <2>2. row \in Nat
    BY <2>1
  <2> QED BY <2>1, <2>2, Products
<1>10. y < (row + 1) * v /\ y + 1 < (row + 2) * v
  <2>2. y = x + i[2] /\ i[2] \in Nat /\ i[2] < v
    BY <1>1, <1>9
  <2>1. (row + 1) * v = x + v /\ (row + 2) * v = x + 2 * v
    <3> HIDE DEF v, row
    <3> QED BY <1>9
  <2> HIDE DEF x, y, v
  <2> QED BY <1>9, <2>1, <2>2
<1> HIDE DEF y, v, x
<1>11. y < most /\ most \in Nat
  BY <1>5, <1>6
<1>12. /\ above \in 0..y /\ Max({y - 1, 0}) = above
       /\ below \in 0..(most - 1) /\ below <= y + 1 /\ Min({y + 1, most - 1}) = below
  BY <1>2, <1>11, RowsAround
<1> HIDE DEF above, below
<1>13. smoothed => near = <<d.whole_image[<<c, above, col>>], d.whole_image[<<c, below, col>>]>>
  BY <1>12 DEF Around
<1>14. /\ above \in 0..(most - 1) /\ above < (row + 1) * v /\ below < (row + 2) * v
       /\ above < (row + 2) * v
  <2> DEFINE a == (row + 1) * v
             b == (row + 2) * v
  <2>1. a \in Nat /\ b \in Nat
    <3>1. row + 1 \in Nat /\ row + 2 \in Nat
      BY <1>9
    <3> QED BY <1>9, <3>1, Products
  <2>2. y < a /\ y + 1 < b
    BY <1>10
  <2> HIDE DEF a, b, most
  <2>3. above < a /\ below < b /\ above < b /\ above \in 0..(most - 1)
    BY <1>2, <1>11, <1>12, <2>1, <2>2
  <2> QED BY <2>3 DEF a, b
<1>15. ASSUME NEW z \in 0..(most - 1)
       PROVE  <<c, z, col>> \in ImageBlocks(p) /\ Inside(p, <<c, z, col>>)
  <2>1. <<c, z, col>> \in ImageBlocks(p)
    BY <1>1, WithinImage
  <2>2. z < most
    BY <1>5
  <2>3. col < width_in_blocks(p, c)
    <3> DEFINE w == width_in_blocks(p, c)
    <3>1. w \in Nat /\ col \in 0..(w - 1)
      BY <1>1, Sizes
    <3> HIDE DEF w, col
    <3> QED BY <3>1 DEF w
  <2> QED BY <2>1, <2>2, <2>3 DEF Inside
<1>16. InPlace(d.whole_image[<<c, y, col>>], y, col)
  BY <1>6, <1>15 DEF ImageRight
<1>17. ASSUME NEW s \in ScansOf(p, c), s <= d.output_scan_number
       PROVE  /\ <<s, y, col>> \in d.whole_image[<<c, y, col>>]
              /\ smoothed /\ p.scans[s].Ss = 0 =>
                   /\ <<s, above, col>> \in d.whole_image[<<c, above, col>>]
                   /\ <<s, below, col>> \in d.whole_image[<<c, below, col>>]
  <2>1. ASSUME NEW z \in 0..(most - 1)
        PROVE  /\ z < (row + 1) * v => <<s, z, col>> \in d.whole_image[<<c, z, col>>]
               /\ smoothed /\ p.scans[s].Ss = 0 /\ z < (row + 2) * v =>
                    <<s, z, col>> \in d.whole_image[<<c, z, col>>]
    <3> DEFINE b == <<c, z, col>>
    <3>1. /\ b \in ImageBlocks(p) /\ Inside(p, b) /\ b[1] = c /\ b[2] = z /\ b[3] = col
      BY <1>15
    <3> HIDE DEF b
    <3>2. /\ b[2] < (row + 1) * p.comps[b[1]].v => Held(d, b, s)
          /\ why = "smooth" /\ p.scans[s].Ss = 0 /\ b[2] < (row + 2) * p.comps[b[1]].v => Held(d, b, s)
      BY <1>9, <1>17, <3>1, RowThere
    <3> QED BY <3>1, <3>2 DEF Held, v, b
  <2> QED BY <1>6, <1>10, <1>12, <1>14, <2>1
<1>18. ASSUME NeverAhead, NEW s \in ScansOf(p, c), s <= d.output_scan_number
       PROVE  d.dct_table[c] = FirstTable(p, c)
  BY <1>1, <1>18 DEF Prepared
<1>19. near # <<>> => smoothed
  OBVIOUS
<1> DEFINE b == e.buffer[i]
<1>20. /\ b.coefs = d.whole_image[<<c, y, col>>] /\ b.table = d.dct_table[c]
       /\ b.near # <<>> => smoothed
       /\ smoothed => /\ b.near[1] = d.whole_image[<<c, above, col>>]
                       /\ b.near[2] = d.whole_image[<<c, below, col>>]
  BY <1>4, <1>13, <1>19
<1> HIDE DEF b, near, e
<1>21. Right(d, c, b, y, col)
  BY <1>16, <1>17, <1>18, <1>20 DEF Right, above, below, most
<1> QED BY <1>21 DEF b, y, v

\* A row is decompressed, whichever way.
LEMMA RowOut ==
  ASSUME NEW d, Working(d), d.output_iMCU_row \in 0..(total_iMCU_rows(d.picture) - 1)
  PROVE  Working(Decompress(d)) /\ RowCame(d, Decompress(d))
<1> DEFINE e == Decompress(d)
<1>1. /\ InputThere(d) /\ Reading(d) /\ Memory(d) /\ InStep(d) /\ ImageRight(d)
      /\ d.has_multiple_scans = has_multiple_scans(d.picture)
      /\ IsObject(d) /\ d.picture \in Pictures
  BY DEF Working, Memory, ImageRight, InputThere, Object, IsObject
<1>2. CASE d.decompress_data = "onepass"
  <2>1. e = decompress_onepass(d)
    BY <1>2 DEF Decompress
  <2>2. total_iMCU_rows(d.picture) \in Nat
    BY <1>1, Sizes
  <2>3. d.output_iMCU_row < total_iMCU_rows(d.picture)
    BY <2>2
  <2>4. InScan(d)
    BY <1>1, <1>2, <2>3 DEF InStep, Reading, AmongMarkers, AtEnd
  <2>5. OnePass(d)
    BY <1>1, <1>2, <2>3 DEF OnePass, InStep, Memory, Working
  <2>6. RowCame(d, e) /\ Reading(e) /\ InStep(e)
    BY <1>1, <2>1, <2>4, <2>5, OnePassOut
  <2> HIDE DEF e
  <2>7. Memory(e)
    BY <1>1, <2>6, MemoryKept DEF RowCame
  <2>8. Prepared(e)
    BY <2>6, PreparedKept DEF Working, RowCame, SameLines
  <2>9. Working(e)
    BY <1>1, <2>6, <2>7, <2>8 DEF Working, RowCame, SameLines
  <2> QED BY <2>6, <2>9 DEF e
<1>3. CASE d.decompress_data # "onepass"
  <2>1. PICK why \in {"row", "smooth"}, smoothed \in BOOLEAN :
          /\ e = UnlessSuspended(Consume(d, why), smoothed)
          /\ smoothed => why = "smooth"
    <3>1. CASE d.decompress_data = "data"
      BY <3>1 DEF Decompress, decompress_data
    <3>2. CASE d.decompress_data = "smooth"
      BY <3>2 DEF Decompress, decompress_smooth_data
    <3> QED BY <1>1, <1>3, <3>1, <3>2 DEF Memory
  <2> DEFINE f == Consume(d, why)
  <2>2. Went(d, f) /\ Reading(f) /\ (f.ret = "SUSPENDED" \/ AtEnd(f) \/ Enough(f, why))
    BY <1>1, LoopConsumed
  <2> HIDE DEF f
  <2>3. /\ IsObject(f) /\ SameLines(d, f) /\ SameInMemory(d, f) /\ InputThere(f) /\ ImageRight(f)
        /\ f.output_iMCU_row = d.output_iMCU_row
        /\ f.inheaders = d.inheaders /\ f.has_multiple_scans = d.has_multiple_scans
    BY <2>2 DEF Went, SameOutput, SameLines, SameMemory, SameInMemory, InputThere, Object, IsObject
  <2>4. Memory(f) /\ Prepared(f)
    BY <1>1, <2>3, MemoryKept, PreparedKept DEF Working, SameLines
  <2>5. CASE f.ret = "SUSPENDED"
    <3>1. e = f
      BY <2>1, <2>5 DEF UnlessSuspended, f
    <3>2. RowCame(d, f)
      BY <2>3, <2>5 DEF RowCame
    <3>3. InStep(f)
      BY <1>3, <2>3 DEF InStep, SameLines
    <3> QED BY <1>1, <2>2, <2>3, <2>4, <3>1, <3>2, <3>3 DEF Working, SameLines
  <2>6. CASE f.ret # "SUSPENDED"
    <3>1. e = Rendered(f, smoothed)
      BY <2>1, <2>6 DEF UnlessSuspended, f
    <3>2. /\ IsObject(e) /\ SameLines(f, e) /\ SameInput(f, e)
          /\ e.whole_image = f.whole_image /\ DOMAIN e.buffer = DOMAIN f.buffer
          /\ e.output_iMCU_row = f.output_iMCU_row + 1 /\ e.ret # "SUSPENDED"
      BY <2>3, <3>1, RenderedFields
    <3>3. DOMAIN f.buffer = Blocks(f.picture) /\ DOMAIN f.whole_image = ImageBlocks(f.picture)
      BY <1>3, <2>3, <2>4 DEF Memory, SameLines
    <3>4. f.picture = d.picture
      BY <2>3 DEF SameLines
    <3>5. BufferShows(e, f.output_iMCU_row)
      <4>1. f.decompress_data # "onepass" /\ (AtEnd(f) \/ Enough(f, why))
        BY <1>3, <2>2, <2>3, <2>6 DEF SameLines
      <4> QED BY <1>1, <2>1, <2>2, <2>3, <2>4, <3>1, <3>3, <3>4, <4>1, RowRendered
    <3> HIDE DEF e
    <3>6. Reading(e) /\ InputThere(e)
      BY <2>2, <2>3, <3>2, InputKept DEF InputThere, SameInput, SameScan, SameLines
    <3>7. SameLines(d, e) /\ SameInMemory(d, e) /\ ImageRight(e)
      BY <2>3, <3>2 DEF SameLines, SameInMemory, ImageRight
    <3>8. Memory(e)
      BY <1>1, <3>7, MemoryKept
    <3>9. InStep(e)
      BY <1>3, <3>7 DEF InStep, SameLines
    <3>10. e.inheaders = d.inheaders /\ e.has_multiple_scans = d.has_multiple_scans
      BY <2>3, <3>2 DEF SameInput, SameScan
    <3>11. RowCame(d, e)
      BY <2>3, <3>2, <3>5, <3>6, <3>7, <3>10 DEF RowCame
    <3>12. Prepared(e)
      BY <3>7, PreparedKept DEF Working, SameLines
    <3>13. Working(e)
      BY <1>1, <3>4, <3>6, <3>7, <3>8, <3>9, <3>10, <3>12 DEF Working, SameLines
    <3> QED BY <3>11, <3>13 DEF e
  <2> QED BY <2>5, <2>6
<1> QED BY <1>2, <1>3

-----------------------------------------------------------------------------
(***************************************************************************)
(* Lines are made of the rows of the main buffer.                          *)
(***************************************************************************)

\* The least of three numbers.
LEMMA LeastOfThree ==
  ASSUME NEW a \in Nat, NEW b \in Nat, NEW c \in Nat
  PROVE  LET n == Min({a, b, c})
         IN n \in Nat /\ n <= a /\ n <= b /\ n <= c /\ (n = a \/ n = b \/ n = c)
<1> DEFINE T == {a, b, c}
<1>1. \E x \in T : \A y \in T : x <= y
  OBVIOUS
<1>2. a \in T /\ b \in T /\ c \in T /\ \A x \in T : x = a \/ x = b \/ x = c
  OBVIOUS
<1> HIDE DEF T
<1>3. Min(T) \in T /\ \A y \in T : Min(T) <= y
  BY <1>1 DEF Min
<1> QED BY <1>2, <1>3 DEF T

\* Line m of row group g, which has mx lines made of high rows.
LEMMA GroupArithmetic ==
  ASSUME NEW mx \in Nat, mx > 0, NEW high \in Nat, high > 0, mx % high = 0, NEW g \in Nat, NEW m \in Nat
  PROVE  ((g * mx + m) * high) \div mx = g * high + m \div (mx \div high)
<1> DEFINE e == mx \div high
<1>1. e \in Nat /\ mx = e * high + (mx % high)
  BY Division
<1>2. mx = e * high
  BY <1>1
<1> HIDE DEF e
<1>3. e > 0
  BY <1>1, <1>2
<1> DEFINE q == g * high
           a == m * high
<1>4. q \in Nat /\ a \in Nat
  BY Products
<1>5. (g * mx + m) * high = q * mx + a
  <2>1. (g * mx) * high = (g * high) * mx
    OBVIOUS
  <2>2. (g * mx + m) * high = (g * mx) * high + m * high
    OBVIOUS
  <2> QED BY <2>1, <2>2
<1> HIDE DEF q
<1>6. (q * mx + a) \div mx = q + a \div mx
  BY <1>4, ShiftedQuotient
<1>7. a \div mx = m \div e
  <2>1. (m * high) \div (e * high) = m \div e
    BY <1>1, <1>3, CommonFactor
  <2> QED BY <1>2, <2>1
<1> QED BY <1>5, <1>6, <1>7 DEF q, e

\* Such a line is one of an iMCU row.
LEMMA GroupWithin ==
  ASSUME NEW mx \in Nat, mx > 0, NEW size \in Nat, size > 0, NEW g \in 0..(size - 1), NEW m \in 0..(mx - 1)
  PROVE  g * mx \in Nat /\ g * mx + m \in 0..(mx * size - 1)
<1> DEFINE x == g * mx
           z == mx * size
<1>1. (g + 1) * mx <= size * mx
  BY ProductsOrdered
<1>2. (g + 1) * mx = x + mx /\ size * mx = z /\ x \in Nat /\ z \in Nat
  OBVIOUS
<1> HIDE DEF x, z
<1>3. x + mx <= z
  BY <1>1, <1>2
<1>4. x + m \in 0..(z - 1)
  BY <1>2, <1>3
<1> QED BY <1>2, <1>4 DEF x, z

\* What the upsampler needs: the buffer shows an iMCU row and lines up to y have
\* been given out.
Upsampling(d, y) ==
  /\ IsObject(d) /\ d.picture \in Pictures /\ d.mode \in Modes[d.picture] /\ ~d.mode.raw_data_out
  /\ Counters(d, y) /\ Filled(d, y) /\ d.rowgroup_ctr \in 0..(DCTSIZE - 1)

\* The lines of the row group at hand.
LEMMA GroupRows ==
  ASSUME NEW d, d.picture \in Pictures, d.mode \in Modes[d.picture], ~d.mode.raw_data_out,
         d.output_iMCU_row \in Nat, d.output_iMCU_row >= 1, BufferShows(d, d.output_iMCU_row - 1),
         d.rowgroup_ctr \in 0..(DCTSIZE - 1),
         NEW c \in Comps(d.picture), NEW m \in 0..(max_v_samp_factor(d.picture) - 1)
  PROVE  LET p == d.picture
             high == rowgroup_height(p, d.mode, c)
             most == max_v_samp_factor(p)
         IN /\ Shows(d, c, Row(d, c, d.rowgroup_ctr * high + m \div (most \div high)), GroupLine(d) + m)
            /\ high = most => Shows(d, c, Row(d, c, d.rowgroup_ctr * high + m), GroupLine(d) + m)
            /\ GroupLine(d) \in Nat
<1> DEFINE p == d.picture
           high == rowgroup_height(p, d.mode, c)
           most == max_v_samp_factor(p)
           g == d.rowgroup_ctr
           o == d.output_iMCU_row - 1
           j == g * most + m
           i == (j * high) \div most
           size == iMCU_height(p)
<1>1. most \in Nat /\ most > 0 /\ DCTSIZE \in Nat /\ DCTSIZE > 0 /\ size = most * DCTSIZE
  BY Factors DEF iMCU_height
<1>2. high \in Nat /\ high > 0
  <2>1. PICK k \in Nat : k > 0 /\ high = p.comps[c].v * k
    BY ScaledSizes
  <2> DEFINE v == p.comps[c].v
  <2>2. v \in Nat /\ v > 0
    BY Factors
  <2> HIDE DEF v, high
  <2> QED BY <2>1, <2>2, Products DEF v
<1>3. most % high = 0
  BY ModesAssumption
<1>4. g * most \in Nat /\ j \in 0..(size - 1) /\ g \in Nat /\ m \in Nat /\ o \in Nat
  BY <1>1, GroupWithin
<1>5. Shows(d, c, Row(d, c, i), o * size + j)
  BY <1>4, RowShows
<1>6. i = g * high + m \div (most \div high)
  <2> HIDE DEF high, most, g
  <2>1. /\ most \in Nat /\ most > 0 /\ high \in Nat /\ high > 0 /\ most % high = 0
        /\ g \in Nat /\ m \in Nat
    BY <1>1, <1>2, <1>3, <1>4
  <2>2. ((g * most + m) * high) \div most = g * high + m \div (most \div high)
    BY <2>1, GroupArithmetic
  <2> QED BY <2>2
<1>7. high = most => i = g * high + m
  <2> SUFFICES ASSUME high = most PROVE i = g * high + m
    OBVIOUS
  <2>1. j \in Nat
    BY <1>4
  <2> HIDE DEF j, most, high
  <2>2. j * most = j * most + 0 /\ j * most \in Nat /\ 0 \in 0..(most - 1)
    BY <1>1, <2>1
  <2>3. (j * most) \div most = j
    BY <1>1, <2>1, <2>2, QuotientIs
  <2> QED BY <2>3 DEF j, most, high
<1>8. GroupLine(d) + m = o * size + j /\ GroupLine(d) \in Nat
  <2>1. o * size \in Nat
    BY <1>1, <1>4, Products
  <2>2. GroupLine(d) = o * size + g * most
    BY DEF GroupLine
  <2> HIDE DEF o, size, g, most
  <2> QED BY <1>4, <2>1, <2>2
<1> HIDE DEF i, j, o, size
<1> QED BY <1>5, <1>6, <1>7, <1>8

\* What Shows says does not depend on where it is said.
LEMMA ShowsKept ==
  ASSUME NEW d, NEW e, SameAsked(d, e)
  PROVE  \A c, line, y : Shows(d, c, line, y) => Shows(e, c, line, y)
BY RightKept DEF Shows, SameAsked

LEMMA BufferKept ==
  ASSUME NEW d, NEW e, SameAsked(d, e), e.buffer = d.buffer
  PROVE  \A row : BufferShows(d, row) => BufferShows(e, row)
BY BufferShownKept DEF SameAsked

LEMMA AskedOn ==
  ASSUME NEW d, NEW e, NEW f, SameAsked(d, e), SameAsked(e, f)
  PROVE  SameAsked(d, f)
BY DEF SameAsked

\* The rows of a row group are upsampled together.
LEMMA GroupUpsampled ==
  ASSUME NEW d, NEW y, Upsampling(d, y), d.next_row_out = max_v_samp_factor(d.picture)
  PROVE  Upsampling([d EXCEPT !.color_buf = Upsampled(d), !.next_row_out = 0], y)
<1> DEFINE p == d.picture
           most == max_v_samp_factor(p)
           e == [d EXCEPT !.color_buf = Upsampled(d), !.next_row_out = 0]
<1>1. p \in Pictures /\ d.mode \in Modes[p] /\ ~d.mode.raw_data_out /\ IsObject(d)
  BY DEF Upsampling
<1>2. /\ IsObject(e) /\ e.color_buf = Upsampled(d) /\ e.next_row_out = 0
      /\ e.picture = p /\ e.mode = d.mode /\ e.output_iMCU_row = d.output_iMCU_row
      /\ e.rowgroup_ctr = d.rowgroup_ctr /\ e.rows_to_go = d.rows_to_go /\ e.buffer = d.buffer
      /\ SameAsked(d, e)
  BY <1>1 DEF IsObject, Fields, SameAsked
<1> HIDE DEF e
<1>3. most \in Nat /\ most > 0 /\ total_iMCU_rows(p) \in Nat
  BY <1>1, Factors, Sizes
<1>4. /\ d.output_iMCU_row \in Nat /\ d.output_iMCU_row >= 1 /\ BufferShows(d, d.output_iMCU_row - 1)
      /\ d.rowgroup_ctr \in 0..(DCTSIZE - 1)
  BY <1>3 DEF Upsampling, Counters, Filled
<1>5. GroupLine(e) = GroupLine(d) /\ GroupLine(d) \in Nat
  <2>1. GroupLine(e) = GroupLine(d)
    BY <1>2 DEF GroupLine
  <2>2. 1 \in Comps(p) /\ 0 \in 0..(most - 1)
    BY <1>1, <1>3, Sizes
  <2> QED BY <1>1, <1>4, <2>1, <2>2, GroupRows
<1>6. ColorsShow(e)
  <2> SUFFICES ASSUME NEW c \in Comps(p)
               PROVE  LET high == rowgroup_height(p, d.mode, c)
                          buf == Upsampled(d)[c]
                      IN IF high = most THEN buf.first = d.rowgroup_ctr * high /\ buf.rows = <<>>
                         ELSE /\ Len(buf.rows) = most
                              /\ \A o \in 1..most : Shows(e, c, buf.rows[o], GroupLine(d) + o - 1)
    BY <1>2, <1>5 DEF ColorsShow
  <2> DEFINE high == rowgroup_height(p, d.mode, c)
             buf == Upsampled(d)[c]
             rows == [o \in 1..most |-> Row(d, c, d.rowgroup_ctr * high + ((o - 1) \div (most \div high)))]
  <2>1. CASE high = most
    <3>1. buf = [first |-> d.rowgroup_ctr * high, rows |-> <<>>]
      BY <2>1 DEF Upsampled
    <3> HIDE DEF buf
    <3> QED BY <2>1, <3>1 DEF buf
  <2>2. CASE high # most
    <3>1. buf = [first |-> d.rowgroup_ctr * high, rows |-> rows]
      BY <2>2 DEF Upsampled
    <3>2. Len(rows) = most
      BY <1>3
    <3>3. ASSUME NEW o \in 1..most PROVE Shows(e, c, rows[o], GroupLine(d) + o - 1)
      <4>1. o - 1 \in 0..(most - 1) /\ GroupLine(d) + o - 1 = GroupLine(d) + (o - 1)
        BY <1>3, <1>5
      <4>2. Shows(d, c, Row(d, c, d.rowgroup_ctr * high + (o - 1) \div (most \div high)),
                  GroupLine(d) + (o - 1))
        BY <1>1, <1>4, <4>1, GroupRows
      <4>3. rows[o] = Row(d, c, d.rowgroup_ctr * high + (o - 1) \div (most \div high))
        OBVIOUS
      <4> HIDE DEF rows
      <4>4. Shows(d, c, rows[o], GroupLine(d) + o - 1)
        BY <4>1, <4>2, <4>3
      <4> QED BY <1>2, <4>4, ShowsKept
    <3>4. buf.rows = rows
      BY <3>1
    <3> HIDE DEF buf, rows
    <3> QED BY <2>2, <3>2, <3>3, <3>4 DEF buf
  <2> QED BY <2>1, <2>2
<1>7. Counters(e, y)
  BY <1>2, <1>3 DEF Upsampling, Counters
<1>8. Filled(e, y)
  <2>1. BufferShows(e, e.output_iMCU_row - 1)
    BY <1>2, <1>4, BufferKept
  <2>2. y = GroupLine(e) + 0
    BY <1>5 DEF Upsampling, Filled
  <2> QED BY <1>2, <1>3, <1>4, <1>6, <2>1, <2>2 DEF Filled
<1> QED BY <1>1, <1>2, <1>4, <1>7, <1>8 DEF Upsampling, e

\* The lines of the color buffer.
LEMMA LinesConverted ==
  ASSUME NEW d, NEW y, Upsampling(d, y), NEW i \in 0..(max_v_samp_factor(d.picture) - 1), ColorsShow(d)
  PROVE  LineShows(d, Converted(d, i), GroupLine(d) + i)
<1> SUFFICES ASSUME NEW c \in Comps(d.picture)
             PROVE  Shows(d, c, Converted(d, i)[c], GroupLine(d) + i)
  BY DEF LineShows
<1> DEFINE p == d.picture
           most == max_v_samp_factor(p)
           high == rowgroup_height(p, d.mode, c)
           buf == d.color_buf[c]
           line == Converted(d, i)[c]
<1>1. p \in Pictures /\ d.mode \in Modes[p] /\ ~d.mode.raw_data_out
  BY DEF Upsampling
<1>2. most \in Nat /\ most > 0 /\ total_iMCU_rows(p) \in Nat
  BY <1>1, Factors, Sizes
<1>3. /\ d.output_iMCU_row \in Nat /\ d.output_iMCU_row >= 1 /\ BufferShows(d, d.output_iMCU_row - 1)
      /\ d.rowgroup_ctr \in 0..(DCTSIZE - 1)
  BY <1>2 DEF Upsampling, Counters, Filled
<1>4. line = IF buf.rows = <<>> THEN Row(d, c, buf.first + i) ELSE buf.rows[i + 1]
  BY DEF Converted
<1> HIDE DEF line
<1>5. IF high = most THEN buf.first = d.rowgroup_ctr * high /\ buf.rows = <<>>
      ELSE Len(buf.rows) = most /\ \A o \in 1..most : Shows(d, c, buf.rows[o], GroupLine(d) + o - 1)
  BY DEF ColorsShow
<1>6. /\ high = most => Shows(d, c, Row(d, c, d.rowgroup_ctr * high + i), GroupLine(d) + i)
      /\ GroupLine(d) \in Nat
  BY <1>1, <1>3, GroupRows
<1>7. CASE high = most
  BY <1>4, <1>5, <1>6, <1>7 DEF line
<1>8. CASE high # most
  <2>1. buf.rows # <<>>
    BY <1>2, <1>5, <1>8
  <2>2. i + 1 \in 1..most /\ GroupLine(d) + (i + 1) - 1 = GroupLine(d) + i
    BY <1>2, <1>6
  <2>3. Shows(d, c, buf.rows[i + 1], GroupLine(d) + (i + 1) - 1)
    BY <1>5, <1>8, <2>2
  <2>4. line = buf.rows[i + 1]
    BY <1>4, <2>1
  <2>5. Shows(d, c, line, GroupLine(d) + i)
    BY <2>2, <2>3, <2>4
  <2> QED BY <2>5 DEF line
<1> QED BY <1>7, <1>8

-----------------------------------------------------------------------------
(***************************************************************************)
(* Lines are given out.                                                    *)
(***************************************************************************)

\* What giving out lines leaves as it is: all that decompression rests on, and
\* where output is.
SameCourse(d, e) ==
  /\ SameWork(d, e)
  /\ e.global_state = d.global_state /\ e.output_scanline = d.output_scanline
  /\ e.buffer_full = d.buffer_full /\ e.post_process = d.post_process
  /\ e.is_dummy_pass = d.is_dummy_pass /\ e.ret = d.ret
SameStrips(d, e) ==
  e.strips = d.strips /\ e.starting_row = d.starting_row /\ e.next_row = d.next_row

\* Lines from line y on.
LinesShow(d, lines, y) == \A i \in 1..Len(lines) : LineShows(d, lines[i], y + i - 1)

\* Lines up to y have been given out, of the last row group perhaps.
GivenTo(d, y) ==
  /\ Counters(d, y) /\ Filled(d, y) /\ d.rowgroup_ctr \in 0..DCTSIZE
  /\ d.rowgroup_ctr = DCTSIZE => d.next_row_out = max_v_samp_factor(d.picture)

\* The first line of the row group at hand is a number.
LEMMA GroupLineNumber ==
  ASSUME NEW d, NEW y, Upsampling(d, y)
  PROVE  /\ GroupLine(d) \in Nat /\ d.picture.height \in Nat
         /\ max_v_samp_factor(d.picture) \in Nat /\ max_v_samp_factor(d.picture) > 0
         /\ total_iMCU_rows(d.picture) \in Nat
         /\ d.output_iMCU_row \in Nat /\ d.rowgroup_ctr \in Nat /\ d.next_row_out \in Nat
         /\ DCTSIZE \in Nat /\ DCTSIZE > 0
<1> DEFINE p == d.picture
           most == max_v_samp_factor(p)
<1>1. p \in Pictures /\ d.mode \in Modes[p] /\ ~d.mode.raw_data_out
  BY DEF Upsampling
<1>2. most \in Nat /\ most > 0 /\ total_iMCU_rows(p) \in Nat /\ DCTSIZE \in Nat /\ DCTSIZE > 0
  BY <1>1, Factors, Sizes
<1>3. p.height \in Nat
  BY <1>1, PicturesAssumption
<1>4. /\ d.output_iMCU_row \in Nat /\ d.output_iMCU_row >= 1 /\ BufferShows(d, d.output_iMCU_row - 1)
      /\ d.rowgroup_ctr \in 0..(DCTSIZE - 1) /\ d.next_row_out \in 0..most
  BY <1>2 DEF Upsampling, Counters, Filled
<1>5. GroupLine(d) \in Nat
  <2>1. 1 \in Comps(p) /\ 0 \in 0..(most - 1)
    BY <1>1, <1>2, Sizes
  <2> QED BY <1>1, <1>4, <2>1, GroupRows
<1> QED BY <1>2, <1>3, <1>4, <1>5

\* The lines of a row group whose rows are upsampled.
LEMMA GroupGivenOut ==
  ASSUME NEW d, NEW y, Upsampling(d, y), d.next_row_out < max_v_samp_factor(d.picture),
         NEW n \in Nat, n <= max_v_samp_factor(d.picture) - d.next_row_out, n <= d.rows_to_go
  PROVE  LET r == GivenOut(d, n)
         IN /\ Len(r.lines) = n /\ LinesShow(d, r.lines, y)
            /\ SameCourse(d, r.d) /\ SameStrips(d, r.d) /\ GivenTo(r.d, y + n)
<1> DEFINE p == d.picture
           most == max_v_samp_factor(p)
           r == GivenOut(d, n)
           e == r.d
           o == d.next_row_out
           g == d.rowgroup_ctr
<1>1. IsObject(d) /\ d.picture \in Pictures
  BY DEF Upsampling
<1>2. /\ GroupLine(d) \in Nat /\ p.height \in Nat /\ most \in Nat /\ most > 0
      /\ total_iMCU_rows(p) \in Nat /\ d.output_iMCU_row \in Nat /\ g \in Nat /\ o \in Nat
      /\ DCTSIZE \in Nat /\ DCTSIZE > 0
  BY GroupLineNumber
<1>3. /\ Counters(d, y) /\ Filled(d, y) /\ g \in 0..(DCTSIZE - 1) /\ ColorsShow(d)
      /\ y = GroupLine(d) + o /\ y \in 0..p.height /\ d.rows_to_go = p.height - y
      /\ d.output_iMCU_row >= 1 /\ BufferShows(d, d.output_iMCU_row - 1)
      /\ d.output_iMCU_row \in 0..total_iMCU_rows(p)
  BY <1>2 DEF Upsampling, Counters, Filled
<1>4. /\ e.rows_to_go = d.rows_to_go - n /\ e.next_row_out = o + n
      /\ e.rowgroup_ctr = IF o + n >= most THEN g + 1 ELSE g
      /\ e.color_buf = d.color_buf /\ e.output_iMCU_row = d.output_iMCU_row
      /\ SameCourse(d, e) /\ SameStrips(d, e) /\ e.picture = p /\ e.buffer = d.buffer /\ e.mode = d.mode
  BY <1>1 DEF GivenOut, IsObject, Fields, SameCourse, SameStrips, SameWork, SameInput, SameScan, SameData
<1>5. r.lines = [i \in 1..n |-> Converted(d, o + i - 1)]
  BY DEF GivenOut
<1>6. Len(r.lines) = n
  BY <1>5
<1>7. ASSUME NEW i \in 1..n PROVE LineShows(d, r.lines[i], y + i - 1)
  <2>1. o + i - 1 \in 0..(most - 1) /\ GroupLine(d) + (o + i - 1) = y + i - 1
    BY <1>2, <1>3
  <2>2. LineShows(d, Converted(d, o + i - 1), GroupLine(d) + (o + i - 1))
    BY <1>3, <2>1, LinesConverted
  <2>3. r.lines[i] = Converted(d, o + i - 1)
    BY <1>5
  <2> HIDE DEF r
  <2> QED BY <2>1, <2>2, <2>3
<1> HIDE DEF r, e
<1>12. SameAsked(d, e)
  BY <1>4, WorkAsked DEF SameCourse
<1>8. Counters(e, y + n)
  BY <1>2, <1>3, <1>4 DEF Counters
<1>9. BufferShows(e, e.output_iMCU_row - 1)
  BY <1>3, <1>4, <1>12, BufferKept
<1>10. CASE o + n < most
  <2>1. e.rowgroup_ctr = g /\ e.next_row_out < most /\ e.next_row_out # most
    BY <1>2, <1>4, <1>10
  <2>2. GroupLine(e) = GroupLine(d)
    BY <1>4, <2>1 DEF GroupLine
  <2>3. ColorsShow(e)
    BY <1>3, <1>4, <1>12, <2>1, <2>2, ShowsKept DEF ColorsShow
  <2>4. Filled(e, y + n)
    BY <1>2, <1>3, <1>4, <1>9, <2>1, <2>2, <2>3 DEF Filled
  <2>5. e.rowgroup_ctr \in 0..DCTSIZE /\ e.rowgroup_ctr # DCTSIZE
    BY <1>2, <1>3, <2>1
  <2>6. GivenTo(e, y + n)
    BY <1>8, <2>4, <2>5 DEF GivenTo
  <2> QED BY <1>4, <1>6, <1>7, <2>6 DEF LinesShow, r, e
<1>11. CASE o + n = most
  <2>1. e.rowgroup_ctr = g + 1 /\ e.next_row_out = most
    BY <1>2, <1>4, <1>11
  <2>2. GroupLine(e) = GroupLine(d) + most
    <3> DEFINE x == (d.output_iMCU_row - 1) * iMCU_height(p)
    <3>1. (g + 1) * most = g * most + most /\ g * most \in Nat
      BY <1>2
    <3>2. x \in Int
      BY <1>2 DEF iMCU_height
    <3>3. GroupLine(d) = x + g * most
      BY DEF GroupLine
    <3>4. GroupLine(e) = x + (g + 1) * most
      BY <1>4, <2>1 DEF GroupLine
    <3> HIDE DEF x
    <3> QED BY <1>2, <3>1, <3>2, <3>3, <3>4
  <2>3. Filled(e, y + n)
    BY <1>2, <1>3, <1>4, <1>9, <1>11, <2>1, <2>2 DEF Filled
  <2>4. e.rowgroup_ctr \in 0..DCTSIZE
    BY <1>2, <1>3, <2>1
  <2>5. GivenTo(e, y + n)
    BY <1>4, <1>8, <2>1, <2>3, <2>4 DEF GivenTo
  <2> QED BY <1>4, <1>6, <1>7, <2>5 DEF LinesShow, r, e
<1> QED BY <1>2, <1>10, <1>11

\* sep_upsample.
LEMMA LinesUpsampled ==
  ASSUME NEW d, NEW y, Upsampling(d, y), y < d.picture.height, NEW avail \in Nat
  PROVE  LET r == sep_upsample(d, avail)
             n == Len(r.lines)
         IN /\ n \in Nat /\ n <= avail /\ y + n <= d.picture.height /\ (avail > 0 => n > 0)
            /\ LinesShow(d, r.lines, y)
            /\ SameCourse(d, r.d) /\ SameStrips(d, r.d) /\ GivenTo(r.d, y + n)
<1> DEFINE p == d.picture
           most == max_v_samp_factor(p)
           f == [d EXCEPT !.color_buf = Upsampled(d), !.next_row_out = 0]
           e == IF d.next_row_out < most THEN d ELSE f
           n == Min({most - e.next_row_out, e.rows_to_go, avail})
           r == GivenOut(e, n)
<1>1. sep_upsample(d, avail) = GivenOut(e, Min({max_v_samp_factor(e.picture) - e.next_row_out, e.rows_to_go, avail}))
  BY DEF sep_upsample, FromBuffer
<1>2. /\ most \in Nat /\ most > 0 /\ p.height \in Nat /\ d.next_row_out \in Nat
      /\ y \in 0..p.height /\ d.next_row_out \in 0..most /\ d.rows_to_go = p.height - y
      /\ IsObject(d)
  BY GroupLineNumber DEF Upsampling, Counters
<1>3. /\ Upsampling(e, y) /\ SameCourse(d, e) /\ SameStrips(d, e) /\ e.picture = p /\ e.mode = d.mode
      /\ e.next_row_out \in 0..(most - 1) /\ e.rows_to_go = p.height - y
  <2>1. CASE d.next_row_out < most
    <3>1. e = d
      BY <2>1
    <3> HIDE DEF e
    <3> QED BY <1>2, <2>1, <3>1 DEF SameCourse, SameStrips, SameWork, SameInput, SameScan, SameData
  <2>2. CASE ~(d.next_row_out < most)
    <3>1. e = f /\ d.next_row_out = most
      BY <1>2, <2>2
    <3>2. Upsampling(f, y)
      BY <3>1, GroupUpsampled
    <3>3. /\ SameCourse(d, f) /\ SameStrips(d, f) /\ f.picture = p /\ f.mode = d.mode
          /\ f.next_row_out = 0 /\ f.rows_to_go = d.rows_to_go
      BY <1>2 DEF IsObject, Fields, SameCourse, SameStrips, SameWork, SameInput, SameScan, SameData
    <3> HIDE DEF f, e
    <3> QED BY <1>2, <3>1, <3>2, <3>3
  <2> QED BY <2>1, <2>2
<1> HIDE DEF e
<1>4. /\ n \in Nat /\ n <= most - e.next_row_out /\ n <= e.rows_to_go /\ n <= avail
      /\ (n = most - e.next_row_out \/ n = e.rows_to_go \/ n = avail)
  <2>1. most - e.next_row_out \in Nat /\ e.rows_to_go \in Nat
    BY <1>2, <1>3
  <2> QED BY <2>1, LeastOfThree
<1> HIDE DEF n
<1>5. sep_upsample(d, avail) = r
  BY <1>1, <1>3 DEF n
<1>6. /\ Len(r.lines) = n /\ LinesShow(e, r.lines, y)
      /\ SameCourse(e, r.d) /\ SameStrips(e, r.d) /\ GivenTo(r.d, y + n)
  <2>1. e.next_row_out < max_v_samp_factor(e.picture)
    BY <1>2, <1>3
  <2> QED BY <1>3, <1>4, <2>1, GroupGivenOut
<1> HIDE DEF r
<1>7. LinesShow(d, r.lines, y)
  <2>1. /\ SameAsked(e, d) /\ d.picture = e.picture
    BY <1>3 DEF SameAsked, SameCourse, SameWork, SameInput, SameScan
  <2> QED BY <1>3, <1>6, <2>1, ShowsKept DEF LinesShow, LineShows
<1>8. y + n <= p.height /\ (avail > 0 => n > 0)
  BY <1>2, <1>3, <1>4
<1>9. SameCourse(d, r.d) /\ SameStrips(d, r.d)
  BY <1>3, <1>6 DEF SameCourse, SameStrips, SameWork, SameInput, SameScan, SameData
<1> QED BY <1>4, <1>5, <1>6, <1>7, <1>8, <1>9

-----------------------------------------------------------------------------
(***************************************************************************)
(* The strips that a second pass of quantization gives out.                *)
(***************************************************************************)

\* The strips are whole, and there are enough of them.
LEMMA StripArithmetic ==
  ASSUME NEW p \in Pictures, NEW s \in Nat, s % max_v_samp_factor(p) = 0
  PROVE  LET most == max_v_samp_factor(p)
         IN /\ most \in Nat /\ most > 0 /\ strip_rows(p) \in Nat /\ p.height <= strip_rows(p)
            /\ (s + most) % most = 0
            /\ s < p.height => s + most <= strip_rows(p)
<1> DEFINE most == max_v_samp_factor(p)
           t == jdiv_round_up(p.height, most)
           q == s \div most
           z == t * most
           x == q * most
<1>1. most \in Nat /\ most > 0 /\ p.height \in Nat /\ p.height > 0
  <2>1. 1 \in Comps(p)
    BY Sizes
  <2> QED BY <2>1, Factors, Sizes
<1>2. t \in Nat /\ p.height <= z
  BY <1>1, RoundedUp
<1>3. strip_rows(p) = z
  <2>1. most * t = t * most
    BY <1>1, <1>2
  <2> QED BY <2>1 DEF strip_rows
<1>4. q \in Nat /\ s = x
  <2>1. q \in Nat /\ s = q * most + (s % most)
    BY <1>1, Division
  <2> QED BY <1>1, <2>1
<1>5. (s + most) % most = 0
  <2>1. s + most = (q + 1) * most + 0 /\ s + most \in Nat /\ 0 \in 0..(most - 1)
    BY <1>1, <1>4
  <2> HIDE DEF most, q, x
  <2> QED BY <1>1, <1>4, <2>1, QuotientIs
<1>6. z \in Nat /\ x \in Nat
  BY <1>1, <1>2, <1>4
<1>7. s < p.height => s + most <= z
  <2> SUFFICES ASSUME s < p.height PROVE s + most <= z
    OBVIOUS
  <2> HIDE DEF t, q
  <2>1. x < z
    <3> HIDE DEF x, z
    <3> QED BY <1>1, <1>2, <1>4, <1>6
  <2> HIDE DEF most
  <2>2. q < t
    BY <1>1, <1>2, <1>4, <2>1, FactorsOrdered
  <2>3. q + 1 <= t
    BY <1>2, <1>4, <2>2
  <2>4. (q + 1) * most <= t * most
    BY <1>1, <1>2, <1>4, <2>3, ProductsOrdered
  <2>5. (q + 1) * most = q * most + most
    BY <1>1, <1>4
  <2> QED BY <1>4, <2>4, <2>5
<1> QED BY <1>1, <1>2, <1>3, <1>5, <1>6, <1>7

\* The place in the strips after lines have been put there or taken.
LEMMA StripMoves ==
  ASSUME NEW d, IsObject(d), d.picture \in Pictures, NEW y, StripAt(d, y),
         NEW n \in Nat, n <= max_v_samp_factor(d.picture) - d.next_row
  PROVE  LET e == NextStrip(d, n)
         IN /\ SameCourse(d, e) /\ StripAt(e, y + n) /\ e.strips = d.strips
            /\ e.next_row_out = d.next_row_out /\ e.rowgroup_ctr = d.rowgroup_ctr
            /\ e.rows_to_go = d.rows_to_go /\ e.color_buf = d.color_buf
<1> DEFINE p == d.picture
           most == max_v_samp_factor(p)
           e == NextStrip(d, n)
<1>1. most \in Nat /\ most > 0 /\ (d.starting_row + most) % most = 0
  BY StripArithmetic DEF StripAt
<1>2. d.starting_row \in Nat /\ d.next_row \in 0..(most - 1) /\ d.starting_row % most = 0
      /\ y = d.starting_row + d.next_row
  BY DEF StripAt
<1>3. CASE d.next_row + n >= most
  <2>1. e = [d EXCEPT !.starting_row = d.starting_row + most, !.next_row = 0]
    BY <1>3 DEF NextStrip, strip_height
  <2>2. /\ SameCourse(d, e) /\ e.strips = d.strips /\ e.picture = p
        /\ e.starting_row = d.starting_row + most /\ e.next_row = 0
        /\ e.next_row_out = d.next_row_out /\ e.rowgroup_ctr = d.rowgroup_ctr
        /\ e.rows_to_go = d.rows_to_go /\ e.color_buf = d.color_buf
    BY <2>1 DEF IsObject, Fields, SameCourse, SameWork, SameInput, SameScan, SameData
  <2> HIDE DEF e
  <2>3. y + n = e.starting_row + e.next_row /\ e.starting_row \in Nat /\ 0 \in 0..(most - 1)
    <3>1. /\ most \in Nat /\ most > 0 /\ d.starting_row \in Nat /\ d.next_row \in Nat
          /\ y = d.starting_row + d.next_row /\ d.next_row + n = most
      <4>1. most \in Nat /\ most > 0
        BY <1>1
      <4>2. d.starting_row \in Nat /\ d.next_row \in 0..(most - 1) /\ y = d.starting_row + d.next_row
        BY <1>2
      <4> HIDE DEF most
      <4> QED BY <1>3, <4>1, <4>2 DEF most
    <3> HIDE DEF most
    <3> QED BY <2>2, <3>1 DEF most
  <2>4. e.starting_row % most = 0
    BY <1>1, <2>2
  <2>5. StripAt(e, y + n)
    BY <2>2, <2>3, <2>4 DEF StripAt
  <2> QED BY <2>2, <2>5 DEF e
<1>4. CASE ~(d.next_row + n >= most)
  <2>1. e = [d EXCEPT !.next_row = @ + n]
    BY <1>4 DEF NextStrip, strip_height
  <2>2. /\ SameCourse(d, e) /\ e.strips = d.strips /\ e.picture = p
        /\ e.starting_row = d.starting_row /\ e.next_row = d.next_row + n
        /\ e.next_row_out = d.next_row_out /\ e.rowgroup_ctr = d.rowgroup_ctr
        /\ e.rows_to_go = d.rows_to_go /\ e.color_buf = d.color_buf
    BY <2>1 DEF IsObject, Fields, SameCourse, SameWork, SameInput, SameScan, SameData
  <2> HIDE DEF e
  <2>3. StripAt(e, y + n)
    BY <1>1, <1>2, <1>4, <2>2 DEF StripAt
  <2> QED BY <2>2, <2>3 DEF e
<1> QED BY <1>3, <1>4

\* Fields that lines given out rest on.
SameUpsampler(d, e) ==
  /\ e.next_row_out = d.next_row_out /\ e.rowgroup_ctr = d.rowgroup_ctr
  /\ e.rows_to_go = d.rows_to_go /\ e.color_buf = d.color_buf

\* Nothing else matters to them.
LEMMA GivenKept ==
  ASSUME NEW d, NEW e, NEW y, SameCourse(d, e), SameUpsampler(d, e), GivenTo(d, y)
  PROVE  GivenTo(e, y)
<1>1. /\ e.picture = d.picture /\ e.mode = d.mode /\ e.buffer = d.buffer
      /\ e.output_iMCU_row = d.output_iMCU_row /\ SameAsked(d, e)
  BY WorkAsked DEF SameCourse, SameWork, SameInput, SameScan, SameData
<1>2. BufferShows(d, d.output_iMCU_row - 1) => BufferShows(e, e.output_iMCU_row - 1)
  BY <1>1, BufferKept
<1>3. GroupLine(e) = GroupLine(d)
  BY <1>1 DEF GroupLine, SameUpsampler
<1>4. ColorsShow(d) => ColorsShow(e)
  BY <1>1, <1>3, ShowsKept DEF ColorsShow, SameUpsampler
<1>5. Filled(e, y)
  BY <1>1, <1>2, <1>3, <1>4 DEF GivenTo, Filled, SameUpsampler
<1>6. Counters(e, y)
  BY <1>1 DEF GivenTo, Counters, SameUpsampler
<1> QED BY <1>1, <1>5, <1>6 DEF GivenTo, SameUpsampler

\* post_process_prepass.
LEMMA StripFilled ==
  ASSUME NEW d, NEW y, Upsampling(d, y), y < d.picture.height,
         DOMAIN d.strips = 0..(strip_rows(d.picture) - 1), StripAt(d, y), StripsShow(d, y)
  PROVE  LET r == post_process_prepass(d)
             n == Len(r.lines)
         IN /\ n \in Nat /\ n > 0 /\ y + n <= d.picture.height
            /\ LinesShow(d, r.lines, y) /\ SameCourse(d, r.d) /\ GivenTo(r.d, y + n)
            /\ StripAt(r.d, y + n) /\ StripsShow(r.d, y + n)
<1> DEFINE p == d.picture
           most == max_v_samp_factor(p)
           avail == strip_height(d) - d.next_row
           s == sep_upsample(d, avail)
           first == d.starting_row + d.next_row
           strips == [i \in DOMAIN s.d.strips |->
                        IF i - first \in 0..(Len(s.lines) - 1) THEN s.lines[i - first + 1]
                        ELSE s.d.strips[i]]
           f == [s.d EXCEPT !.strips = strips]
           n == Len(s.lines)
           r == post_process_prepass(d)
<1>1. p \in Pictures /\ IsObject(d) /\ most \in Nat /\ most > 0
      /\ p.height \in Nat /\ p.height <= strip_rows(p) /\ strip_rows(p) \in Nat
      /\ d.next_row \in 0..(most - 1) /\ first = y /\ y \in Nat /\ d.starting_row \in Nat
  <2>1. p \in Pictures /\ IsObject(d)
    BY DEF Upsampling
  <2>2. d.starting_row \in Nat /\ d.starting_row % most = 0
    BY DEF StripAt
  <2>3. most \in Nat /\ most > 0 /\ p.height <= strip_rows(p) /\ strip_rows(p) \in Nat
    BY <2>1, <2>2, StripArithmetic
  <2>4. p.height \in Nat
    BY <2>1, Sizes
  <2>5. d.next_row \in 0..(most - 1) /\ first = y
    BY DEF StripAt
  <2> QED BY <2>1, <2>2, <2>3, <2>4, <2>5
<1>2. avail = most - d.next_row /\ avail \in Nat /\ avail > 0
  BY <1>1 DEF strip_height
<1>3. /\ n \in Nat /\ n <= avail /\ y + n <= p.height /\ n > 0
      /\ LinesShow(d, s.lines, y)
      /\ SameCourse(d, s.d) /\ SameStrips(d, s.d) /\ GivenTo(s.d, y + n)
  BY <1>2, LinesUpsampled
<1>4. r = [d |-> NextStrip(f, n), lines |-> s.lines]
  BY DEF post_process_prepass, InStrip
<1> HIDE DEF avail, s, r
<1>5. IsObject(s.d) /\ DOMAIN s.d.strips = 0..(strip_rows(p) - 1) /\ s.d.strips = d.strips
  BY <1>3 DEF SameCourse, SameWork, SameStrips
<1> HIDE DEF n, strips, first
<1>6. /\ IsObject(f) /\ SameUpsampler(s.d, f) /\ f.strips = strips
      /\ f.starting_row = d.starting_row /\ f.next_row = d.next_row /\ f.picture = p
      /\ SameInput(s.d, f) /\ SameData(s.d, f)
      /\ f.mode = s.d.mode /\ f.decompress_data = s.d.decompress_data
      /\ f.dct_table = s.d.dct_table
      /\ f.output_iMCU_row = s.d.output_iMCU_row
      /\ f.global_state = s.d.global_state /\ f.output_scanline = s.d.output_scanline
      /\ f.buffer_full = s.d.buffer_full /\ f.post_process = s.d.post_process
      /\ f.is_dummy_pass = s.d.is_dummy_pass /\ f.ret = s.d.ret
  BY <1>3, <1>5 DEF IsObject, Fields, SameCourse, SameWork, SameUpsampler, SameStrips, SameInput, SameScan,
                    SameData
<1>7. DOMAIN strips = DOMAIN s.d.strips
  BY DEF strips
<1> HIDE DEF f
<1>8. SameCourse(s.d, f)
  BY <1>6, <1>7 DEF SameCourse, SameWork
<1>9. SameCourse(d, f) /\ GivenTo(f, y + n)
  BY <1>3, <1>6, <1>8, GivenKept DEF SameCourse, SameWork, SameInput, SameScan, SameData
<1>10. StripAt(f, y)
  BY <1>6 DEF StripAt
<1> DEFINE e == NextStrip(f, n)
<1>11. /\ SameCourse(f, e) /\ StripAt(e, y + n) /\ e.strips = strips /\ SameUpsampler(f, e)
  <2>1. n <= max_v_samp_factor(f.picture) - f.next_row
    BY <1>2, <1>3, <1>6
  <2> QED BY <1>1, <1>3, <1>6, <1>10, <2>1, StripMoves DEF SameUpsampler
<1> HIDE DEF e
<1>12. e.picture = p /\ SameAsked(d, e)
  BY <1>9, <1>11, WorkAsked, AskedOn DEF SameCourse, SameAsked
<1>13. StripsShow(e, y + n)
  <2> SUFFICES ASSUME NEW i \in 0..((y + n) - 1), i < p.height
               PROVE  LineShows(e, strips[i], i)
    <3>1. e.strips = strips /\ e.picture.height = p.height
      BY <1>11, <1>12
    <3> QED BY <3>1 DEF StripsShow
  <2>1. LineShows(d, strips[i], i)
    <3>0. i \in DOMAIN s.d.strips /\ i \in Nat
      BY <1>1, <1>3, <1>5
    <3>1. CASE i < y
      <4>1. strips[i] = d.strips[i]
        <5>1. ~(i - first \in 0..(Len(s.lines) - 1))
          BY <1>1, <1>3, <3>0, <3>1 DEF n
        <5> QED BY <1>5, <3>0, <5>1 DEF strips
      <4>2. i \in 0..(y - 1)
        BY <1>1, <3>0, <3>1
      <4> QED BY <4>1, <4>2 DEF StripsShow
    <3>2. CASE i >= y
      <4>1. i - y \in 0..(n - 1) /\ i - y + 1 \in 1..n /\ y + (i - y + 1) - 1 = i
        <5>1. y \in Nat /\ n \in Nat /\ i \in Nat /\ i <= y + n - 1
          BY <1>1, <1>3, <3>0
        <5> QED BY <3>2, <5>1
      <4>2. strips[i] = s.lines[i - y + 1]
        BY <1>1, <3>0, <4>1 DEF strips, n
      <4>3. LineShows(d, s.lines[i - y + 1], y + (i - y + 1) - 1)
        BY <1>3, <4>1 DEF LinesShow, n
      <4> QED BY <4>1, <4>2, <4>3
    <3> QED BY <1>1, <3>0, <3>1, <3>2
  <2> QED BY <1>12, <2>1, ShowsKept DEF LineShows
<1>14. SameCourse(d, e) /\ GivenTo(e, y + n)
  BY <1>9, <1>11, GivenKept DEF SameCourse, SameWork, SameInput, SameScan, SameData
<1>15. r.d = e /\ r.lines = s.lines
  BY <1>4 DEF e
<1> QED BY <1>3, <1>11, <1>13, <1>14, <1>15 DEF n, r

\* post_process_2pass.
LEMMA StripGivenOut ==
  ASSUME NEW d, IsObject(d), d.picture \in Pictures, NEW y, y < d.picture.height,
         StripAt(d, y), StripsShow(d, d.picture.height), NEW avail \in Nat
  PROVE  LET r == post_process_2pass(d, avail)
             n == Len(r.lines)
         IN /\ n \in Nat /\ y + n <= strip_rows(d.picture)
            /\ LinesShow(d, r.lines, y) /\ SameCourse(d, r.d) /\ SameUpsampler(d, r.d)
            /\ StripAt(r.d, y + n) /\ StripsShow(r.d, d.picture.height)
<1> DEFINE p == d.picture
           most == max_v_samp_factor(p)
           n == Min({strip_height(d) - d.next_row, avail, d.picture.height - d.starting_row})
           r == post_process_2pass(d, avail)
           e == NextStrip(d, n)
<1>1. /\ d.starting_row \in Nat /\ d.starting_row % most = 0 /\ p.height \in Nat
      /\ d.next_row \in 0..(most - 1) /\ y = d.starting_row + d.next_row
  BY Sizes DEF StripAt
<1>2. most \in Nat /\ most > 0 /\ strip_rows(p) \in Nat
      /\ (d.starting_row < p.height => d.starting_row + most <= strip_rows(p))
  BY <1>1, StripArithmetic
<1>3. most - d.next_row \in Nat /\ p.height - d.starting_row \in Nat /\ d.starting_row < p.height
  BY <1>1, <1>2
<1>4. n \in Nat /\ n <= most - d.next_row
  <2>1. n = Min({most - d.next_row, avail, p.height - d.starting_row})
    BY DEF strip_height
  <2> QED BY <1>3, <2>1, LeastOfThree
<1>5. /\ r.d = e /\ r.lines = [i \in 1..n |-> d.strips[d.starting_row + d.next_row + i - 1]]
  BY DEF post_process_2pass
<1> HIDE DEF n, r
<1>6. Len(r.lines) = n
  BY <1>4, <1>5
<1>7. /\ SameCourse(d, e) /\ StripAt(e, y + n) /\ e.strips = d.strips /\ SameUpsampler(d, e)
  BY <1>4, StripMoves DEF SameUpsampler
<1> HIDE DEF e
<1>8. y + n <= strip_rows(p)
  BY <1>1, <1>2, <1>3, <1>4
<1>9. ASSUME NEW i \in 1..n PROVE LineShows(d, r.lines[i], y + i - 1)
  <2>1. r.lines[i] = d.strips[y + i - 1] /\ y + i - 1 \in Nat
    BY <1>1, <1>4, <1>5
  <2>2. CASE y + i - 1 < p.height
    <3>1. y + i - 1 \in 0..(p.height - 1)
      BY <1>1, <2>1, <2>2
    <3> QED BY <2>1, <2>2, <3>1 DEF StripsShow
  <2>3. CASE ~(y + i - 1 < p.height)
    BY <2>3 DEF LineShows, Shows
  <2> QED BY <2>2, <2>3
<1>10. e.picture = p /\ SameAsked(d, e)
  BY <1>7, WorkAsked DEF SameCourse, SameAsked
<1>11. StripsShow(e, p.height)
  BY <1>7, <1>10, ShowsKept DEF StripsShow, LineShows
<1>12. LinesShow(d, r.lines, y)
  BY <1>6, <1>9 DEF LinesShow
<1> QED BY <1>4, <1>5, <1>6, <1>7, <1>8, <1>11, <1>12 DEF r

-----------------------------------------------------------------------------
(***************************************************************************)
(* process_data_simple_main.                                               *)
(***************************************************************************)

\* A pass through the main buffer is under way, lines up to y have been given
\* out; a dummy pass keeps them in the strips.
PassAt(d, y) ==
  /\ ~d.mode.raw_data_out /\ MainAt(d, y)
  /\ \/ d.post_process \in {"upsample", "1pass"} /\ ~d.is_dummy_pass
     \/ /\ d.post_process = "prepass" /\ d.is_dummy_pass /\ d.mode.quantize = "two"
        /\ StripAt(d, y) /\ StripsShow(d, y)

\* What the main buffer leaves as it is.
SamePass(d, e) ==
  /\ SameAsked(d, e) /\ e.picture = d.picture /\ e.mode = d.mode /\ e.global_state = d.global_state
  /\ e.output_scanline = d.output_scanline /\ e.post_process = d.post_process
  /\ e.is_dummy_pass = d.is_dummy_pass

\* A line in the picture is in one of its iMCU rows.
LEMMA RowOfLine ==
  ASSUME NEW p \in Pictures, NEW row \in Nat, row * iMCU_height(p) < p.height
  PROVE  row \in 0..(total_iMCU_rows(p) - 1)
<1> DEFINE h == iMCU_height(p)
           t == total_iMCU_rows(p)
           x == row * h
           z == t * h
<1>1. h \in Nat /\ h > 0 /\ t \in Nat /\ p.height \in Nat /\ p.height > 0
  BY Sizes
<1>2. p.height <= z
  <2>1. t = jdiv_round_up(p.height, h)
    BY DEF total_iMCU_rows, iMCU_height
  <2> QED BY <1>1, <2>1, RoundedUp
<1>3. x \in Nat /\ z \in Nat
  BY <1>1
<1>4. x < z
  <2> HIDE DEF z
  <2>1. x < p.height
    OBVIOUS
  <2> HIDE DEF x
  <2> QED BY <1>1, <1>2, <1>3, <2>1
<1> HIDE DEF h, t
<1>5. row < t
  BY <1>1, <1>4, FactorsOrdered
<1>6. row \in 0..(t - 1)
  BY <1>1, <1>5
<1> QED BY <1>6 DEF t

\* An iMCU row is there for lines to be made of, or the call is suspended.
LEMMA RowReady ==
  ASSUME NEW d, NEW y, Working(d), PassAt(d, y), y < d.picture.height
  PROVE  LET e == IF d.buffer_full THEN [d EXCEPT !.ret = "ENOUGH"] ELSE Decompress(d)
             f == [e EXCEPT !.buffer_full = TRUE]
         IN /\ Working(e) /\ SamePass(d, e) /\ SameStrips(d, e)
            /\ e.ret = "SUSPENDED" => MainAt(e, y)
            /\ e.ret # "SUSPENDED" =>
                 Upsampling(f, y) /\ Working(f) /\ SamePass(d, f) /\ SameStrips(d, f) /\ f.buffer_full
<1> DEFINE p == d.picture
           e == IF d.buffer_full THEN [d EXCEPT !.ret = "ENOUGH"] ELSE Decompress(d)
           f == [e EXCEPT !.buffer_full = TRUE]
           most == max_v_samp_factor(p)
           h == iMCU_height(p)
           out == d.output_iMCU_row
<1>1. p \in Pictures /\ IsObject(d) /\ d.mode \in Modes[p] /\ ~d.mode.raw_data_out
  BY DEF Working, PassAt, Memory, InputThere, Object, IsObject
<1>2. /\ most \in Nat /\ most > 0 /\ h \in Nat /\ h > 0 /\ total_iMCU_rows(p) \in Nat /\ p.height \in Nat
      /\ DCTSIZE \in Nat /\ DCTSIZE > 0
  <2>1. 1 \in Comps(p)
    BY <1>1, Sizes
  <2> QED BY <1>1, <2>1, Factors, Sizes
<1>3. /\ Counters(d, y) /\ out \in 0..total_iMCU_rows(p) /\ y \in 0..p.height
      /\ d.buffer_full \in BOOLEAN /\ d.rowgroup_ctr \in 0..(DCTSIZE - 1)
      /\ ~d.buffer_full => d.rowgroup_ctr = 0 /\ d.next_row_out = most /\ y = out * h
      /\ d.buffer_full => Filled(d, y)
  BY DEF PassAt, MainAt, Counters
<1>4. ASSUME NEW x, IsObject(x)
      PROVE  LET z == [x EXCEPT !.buffer_full = TRUE]
             IN /\ SameWork(x, z) /\ SamePass(x, z) /\ SameStrips(x, z) /\ SameUpsampler(x, z)
                /\ z.buffer_full
  BY <1>4 DEF IsObject, Fields, SameWork, SamePass, SameAsked, SameStrips, SameUpsampler, SameInput, SameScan, SameData
<1>5. CASE d.buffer_full
  <2>1. e = [d EXCEPT !.ret = "ENOUGH"]
    BY <1>5
  <2>2. /\ IsObject(e) /\ SameWork(d, e) /\ SamePass(d, e) /\ SameStrips(d, e) /\ SameUpsampler(d, e)
        /\ e.ret = "ENOUGH"
    BY <1>1, <2>1
       DEF IsObject, Fields, SameWork, SamePass, SameAsked, SameStrips, SameUpsampler, SameInput, SameScan,
           SameData
  <2> HIDE DEF e
  <2>3. /\ SameWork(e, f) /\ SamePass(e, f) /\ SameStrips(e, f) /\ SameUpsampler(e, f) /\ f.buffer_full
    BY <1>4, <2>2
  <2> HIDE DEF f
  <2>4. SameWork(d, f) /\ SamePass(d, f) /\ SameStrips(d, f) /\ SameUpsampler(d, f)
    BY <2>2, <2>3
       DEF SameWork, SamePass, SameAsked, SameStrips, SameUpsampler, SameInput, SameScan, SameData
  <2>5. Working(e) /\ Working(f)
    BY <2>2, <2>4, WorkingKept
  <2>6. /\ f.picture = p /\ f.mode = d.mode /\ f.buffer = d.buffer /\ f.output_iMCU_row = out
        /\ IsObject(f)
    BY <2>4 DEF SameWork, SamePass, SameInput, SameScan, SameData
  <2>7. Counters(f, y)
    BY <1>3, <2>4, <2>6 DEF Counters, SameUpsampler
  <2>8. Filled(f, y)
    <3>1. BufferShows(d, out - 1) => BufferShows(f, f.output_iMCU_row - 1)
      BY <2>4, <2>6, BufferKept DEF SamePass
    <3>2. GroupLine(f) = GroupLine(d)
      BY <2>4, <2>6 DEF GroupLine, SameUpsampler
    <3>3. ColorsShow(d) => ColorsShow(f)
      BY <2>4, <2>6, <3>2, ShowsKept DEF ColorsShow, SameUpsampler, SamePass
    <3> QED BY <1>3, <1>5, <2>4, <2>6, <3>1, <3>2, <3>3 DEF Filled, SameUpsampler
  <2>9. Upsampling(f, y)
    BY <1>1, <1>3, <2>4, <2>6, <2>7, <2>8 DEF Upsampling, SameUpsampler
  <2> QED BY <2>2, <2>3, <2>4, <2>5, <2>9 DEF e, f
<1>6. CASE ~d.buffer_full
  <2>1. e = Decompress(d)
    BY <1>6
  <2>2. out \in 0..(total_iMCU_rows(p) - 1)
    <3>1. out \in Nat /\ out * h < p.height
      BY <1>2, <1>3, <1>6
    <3> QED BY <1>1, <3>1, RowOfLine
  <2>3. Working(e) /\ RowCame(d, e)
    BY <2>1, <2>2, RowOut
  <2> HIDE DEF e
  <2>4. /\ IsObject(e) /\ SameLines(d, e) /\ SamePass(d, e) /\ SameStrips(d, e) /\ SameUpsampler(d, e)
    BY <2>3
       DEF RowCame, SameLines, SamePass, SameAsked, SameStrips, SameUpsampler, InputThere, Object, IsObject
  <2>5. CASE e.ret = "SUSPENDED"
    <3>1. e.output_iMCU_row = out
      BY <2>3, <2>5 DEF RowCame
    <3>2. MainAt(e, y)
      BY <1>3, <1>6, <2>4, <3>1 DEF MainAt, Counters, SameLines, SamePass, SameUpsampler
    <3> QED BY <2>3, <2>4, <2>5, <3>2 DEF e
  <2>6. CASE e.ret # "SUSPENDED"
    <3>1. e.output_iMCU_row = out + 1 /\ BufferShows(e, out)
      BY <2>3, <2>6 DEF RowCame
    <3>2. /\ SameWork(e, f) /\ SamePass(e, f) /\ SameStrips(e, f) /\ SameUpsampler(e, f) /\ f.buffer_full
      BY <1>4, <2>4
    <3> HIDE DEF f
    <3>3. /\ SamePass(d, f) /\ SameStrips(d, f) /\ SameUpsampler(d, f) /\ IsObject(f)
          /\ f.picture = p /\ f.mode = d.mode /\ f.buffer = e.buffer /\ f.output_iMCU_row = out + 1
          /\ e.picture = p
      BY <2>4, <3>1, <3>2
         DEF SameWork, SamePass, SameAsked, SameStrips, SameUpsampler, SameInput, SameScan, SameData
    <3>4. Working(f)
      BY <2>3, <3>2, WorkingKept
    <3>5. BufferShows(f, out)
      BY <3>1, <3>2, <3>3, BufferKept DEF SamePass
    <3>6. f.output_iMCU_row \in 0..total_iMCU_rows(p) /\ f.output_iMCU_row - 1 = out
          /\ f.output_iMCU_row >= 1
      BY <1>2, <2>2, <3>3
    <3>7. f.next_row_out = most /\ f.rowgroup_ctr = 0 /\ f.rows_to_go = d.rows_to_go
      BY <1>3, <1>6, <3>3 DEF SameUpsampler
    <3>8. GroupLine(f) + 0 = y
      <4>1. GroupLine(f) = out * h + 0 * most
        BY <3>3, <3>6, <3>7 DEF GroupLine
      <4>2. 0 * most = 0 /\ out * h = y /\ y \in Nat
        BY <1>2, <1>3, <1>6
      <4> QED BY <4>1, <4>2
    <3>9. Filled(f, y)
      BY <1>2, <3>3, <3>5, <3>6, <3>7, <3>8 DEF Filled
    <3>10. Counters(f, y)
      <4>1. /\ d.rows_to_go = p.height - y /\ d.next_row_out \in 0..most /\ y \in 0..p.height
        BY <1>3 DEF Counters
      <4>2. f.next_row_out = d.next_row_out
        BY <3>3 DEF SameUpsampler
      <4> QED BY <3>3, <3>6, <3>7, <4>1, <4>2 DEF Counters
    <3>11. Upsampling(f, y)
      BY <1>1, <1>2, <3>3, <3>7, <3>9, <3>10 DEF Upsampling
    <3> QED BY <2>3, <2>4, <2>6, <3>2, <3>3, <3>4, <3>11 DEF e, f
  <2> QED BY <2>5, <2>6
<1> QED BY <1>3, <1>5, <1>6

\* The buffer is empty when its last row group has been given out.
LEMMA BufferLeft ==
  ASSUME NEW d, IsObject(d), d.picture \in Pictures, NEW y, GivenTo(d, y), d.buffer_full, NEW lines
  PROVE  LET r == Emptied([d |-> d, lines |-> lines])
         IN /\ r.lines = lines /\ MainAt(r.d, y)
            /\ SameWork(d, r.d) /\ SamePass(d, r.d) /\ SameStrips(d, r.d) /\ r.d.ret = d.ret
<1> DEFINE p == d.picture
           r == Emptied([d |-> d, lines |-> lines])
           e == r.d
           most == max_v_samp_factor(p)
<1>1. /\ most \in Nat /\ most > 0 /\ total_iMCU_rows(p) \in Nat /\ DCTSIZE \in Nat /\ DCTSIZE > 0
  <2>1. 1 \in Comps(p)
    BY Sizes
  <2> QED BY <2>1, Factors, Sizes
<1>2. /\ Counters(d, y) /\ Filled(d, y) /\ d.rowgroup_ctr \in 0..DCTSIZE
      /\ d.rowgroup_ctr = DCTSIZE => d.next_row_out = most
  BY DEF GivenTo
<1>3. CASE d.rowgroup_ctr < DCTSIZE
  <2>1. r = [d |-> d, lines |-> lines]
    BY <1>3 DEF Emptied
  <2>2. d.rowgroup_ctr \in 0..(DCTSIZE - 1)
    BY <1>1, <1>2, <1>3
  <2>3. MainAt(d, y)
    BY <1>2, <2>2 DEF MainAt
  <2>4. r.d = d /\ r.lines = lines
    BY <2>1
  <2> HIDE DEF r
  <2> QED BY <2>3, <2>4 DEF SameWork, SamePass, SameAsked, SameStrips, SameInput, SameScan, SameData, r
<1>4. CASE ~(d.rowgroup_ctr < DCTSIZE)
  <2>1. r = [d |-> [d EXCEPT !.buffer_full = FALSE, !.rowgroup_ctr = 0], lines |-> lines]
    BY <1>4 DEF Emptied
  <2>2. d.rowgroup_ctr = DCTSIZE /\ d.next_row_out = most
    BY <1>1, <1>2, <1>4
  <2> HIDE DEF r
  <2>8. r.lines = lines /\ e = [d EXCEPT !.buffer_full = FALSE, !.rowgroup_ctr = 0]
    BY <2>1
  <2> HIDE DEF e
  <2>3. /\ SameWork(d, e) /\ SamePass(d, e) /\ SameStrips(d, e) /\ e.ret = d.ret
        /\ ~e.buffer_full /\ e.buffer_full \in BOOLEAN /\ e.rowgroup_ctr = 0
        /\ e.next_row_out = d.next_row_out
        /\ e.rows_to_go = d.rows_to_go /\ e.picture = p /\ e.output_iMCU_row = d.output_iMCU_row
    BY <2>8 DEF IsObject, Fields, SameWork, SamePass, SameAsked, SameStrips, SameInput, SameScan, SameData
  <2>4. y = d.output_iMCU_row * iMCU_height(p)
    <3> DEFINE h == most * DCTSIZE
               x == (d.output_iMCU_row - 1) * h
    <3>1. d.output_iMCU_row \in Nat
      BY <1>1, <1>2 DEF Counters
    <3>2. h = DCTSIZE * most /\ h \in Nat /\ x \in Int /\ d.output_iMCU_row * h = x + h
      BY <1>1, <3>1
    <3>3. y = GroupLine(d) + 0
      BY <1>2, <2>2 DEF Filled
    <3>4. GroupLine(d) = x + DCTSIZE * most
      BY <2>2 DEF GroupLine, iMCU_height
    <3>5. y = d.output_iMCU_row * h
      <4> HIDE DEF x, h
      <4> QED BY <3>2, <3>3, <3>4
    <3> QED BY <3>5 DEF iMCU_height
  <2>5. Counters(e, y)
    BY <1>2, <2>3 DEF Counters
  <2>6. 0 \in 0..(DCTSIZE - 1)
    BY <1>1
  <2>7. MainAt(e, y)
    BY <2>2, <2>3, <2>4, <2>5, <2>6 DEF MainAt
  <2> QED BY <2>3, <2>7, <2>8 DEF r, e
<1> QED BY <1>3, <1>4

\* All that the lines to be given out rest on.
SameShown(d, e) ==
  /\ SameAsked(d, e) /\ e.picture = d.picture /\ e.mode = d.mode /\ e.buffer = d.buffer
  /\ e.output_iMCU_row = d.output_iMCU_row /\ e.buffer_full = d.buffer_full
  /\ e.post_process = d.post_process /\ e.is_dummy_pass = d.is_dummy_pass
  /\ SameUpsampler(d, e) /\ SameStrips(d, e)

\* Nothing else matters to a pass.
LEMMA PassKept ==
  ASSUME NEW d, NEW e, NEW y, PassAt(d, y), SameShown(d, e)
  PROVE  PassAt(e, y)
<1>1. /\ e.picture = d.picture /\ e.mode = d.mode /\ e.buffer = d.buffer
      /\ e.output_iMCU_row = d.output_iMCU_row /\ e.buffer_full = d.buffer_full
      /\ e.post_process = d.post_process /\ e.is_dummy_pass = d.is_dummy_pass
      /\ SameUpsampler(d, e) /\ SameStrips(d, e) /\ SameAsked(d, e)
  BY DEF SameShown
<1>2. BufferShows(d, d.output_iMCU_row - 1) => BufferShows(e, e.output_iMCU_row - 1)
  BY <1>1, BufferKept
<1>3. GroupLine(e) = GroupLine(d)
  BY <1>1 DEF GroupLine, SameUpsampler
<1>4. ColorsShow(d) => ColorsShow(e)
  BY <1>1, <1>3, ShowsKept DEF ColorsShow, SameUpsampler
<1>5. Filled(d, y) => Filled(e, y)
  BY <1>1, <1>2, <1>3, <1>4 DEF Filled, SameUpsampler
<1>6. MainAt(e, y)
  BY <1>1, <1>5 DEF PassAt, MainAt, Counters, SameUpsampler
<1>7. StripAt(d, y) => StripAt(e, y)
  BY <1>1 DEF SameStrips, StripAt
<1>8. StripsShow(d, y) => StripsShow(e, y)
  BY <1>1, ShowsKept DEF SameStrips, StripsShow, LineShows
<1> QED BY <1>1, <1>6, <1>7, <1>8 DEF PassAt

\* The lines that a call of process_data gives through the main buffer.
LEMMA LinesProcessed ==
  ASSUME NEW d, NEW y, Working(d), PassAt(d, y), y < d.picture.height, NEW avail \in Nat
  PROVE  LET r == process_data_simple_main(d, avail)
             n == Len(r.lines)
         IN /\ n \in Nat /\ y + n <= d.picture.height
            /\ LinesShow(d, r.lines, y)
            /\ Working(r.d) /\ SamePass(d, r.d) /\ PassAt(r.d, y + n)
            /\ d.post_process = "prepass" => r.lines = <<>> \/ n > 0
<1> DEFINE p == d.picture
           e == IF d.buffer_full THEN [d EXCEPT !.ret = "ENOUGH"] ELSE Decompress(d)
           f == [e EXCEPT !.buffer_full = TRUE]
           s == post_process_data(f, avail)
           r == process_data_simple_main(d, avail)
           n == Len(r.lines)
           m == Len(s.lines)
<1>1. /\ Working(e) /\ SamePass(d, e) /\ SameStrips(d, e)
      /\ e.ret = "SUSPENDED" => MainAt(e, y)
      /\ e.ret # "SUSPENDED" =>
           Upsampling(f, y) /\ Working(f) /\ SamePass(d, f) /\ SameStrips(d, f) /\ f.buffer_full
  BY RowReady
<1>2. r = IF e.ret = "SUSPENDED" THEN [d |-> e, lines |-> <<>>] ELSE Emptied(s)
  BY DEF process_data_simple_main, WithBuffer
<1>3. p.height \in Nat /\ y \in Nat /\ y <= p.height /\ p \in Pictures /\ strip_rows(p) \in Nat
      /\ max_v_samp_factor(p) \in Nat
  <2>1. p \in Pictures
    BY DEF Working, InputThere, Object
  <2>2. p.height \in Nat /\ 1 \in Comps(p)
    BY <2>1, Sizes
  <2>3. y \in 0..p.height
    BY DEF PassAt, MainAt, Counters
  <2>4. max_v_samp_factor(p) \in Nat /\ max_v_samp_factor(p) > 0
    BY <2>1, <2>2, Factors
  <2>5. strip_rows(p) \in Nat
    <3>1. 0 % max_v_samp_factor(p) = 0
      BY <2>4
    <3> QED BY <2>1, <3>1, StripArithmetic
  <2> QED BY <2>1, <2>2, <2>3, <2>4, <2>5
<1> HIDE DEF e
<1>4. CASE e.ret = "SUSPENDED"
  <2>1. r.d = e /\ r.lines = <<>>
    BY <1>2, <1>4
  <2> HIDE DEF r
  <2>2. n = 0 /\ y + n = y
    BY <1>3, <2>1
  <2>3. PassAt(e, y)
    <3>1. StripAt(d, y) => StripAt(e, y)
      BY <1>1 DEF SamePass, SameStrips, StripAt
    <3>2. StripsShow(d, y) => StripsShow(e, y)
      BY <1>1, ShowsKept DEF SamePass, SameStrips, StripsShow, LineShows
    <3> QED BY <1>1, <1>4, <3>1, <3>2 DEF PassAt, SamePass
  <2>4. LinesShow(d, r.lines, y)
    BY <2>1 DEF LinesShow
  <2> QED BY <1>1, <1>3, <2>1, <2>2, <2>3, <2>4 DEF r
<1>5. CASE e.ret # "SUSPENDED"
  <2>1. /\ Upsampling(f, y) /\ Working(f) /\ SamePass(d, f) /\ SameStrips(d, f) /\ f.buffer_full
        /\ r = Emptied(s)
    BY <1>1, <1>2, <1>5
  <2> HIDE DEF f, r
  <2>2. f.picture = p /\ f.mode = d.mode /\ f.post_process = d.post_process
        /\ f.is_dummy_pass = d.is_dummy_pass /\ SameAsked(d, f) /\ SameAsked(f, d)
    BY <2>1 DEF SamePass, SameAsked
  <2>3. ASSUME StripAt(d, y) PROVE StripAt(f, y)
    BY <2>1, <2>3 DEF SamePass, SameStrips, StripAt
  <2>4. ASSUME StripsShow(d, y) PROVE StripsShow(f, y)
    BY <2>1, <2>2, <2>4, ShowsKept DEF SameStrips, StripsShow, LineShows
  <2>5. /\ m \in Nat /\ y + m <= p.height /\ LinesShow(f, s.lines, y)
        /\ SameCourse(f, s.d) /\ GivenTo(s.d, y + m)
        /\ d.post_process = "prepass" => StripAt(s.d, y + m) /\ StripsShow(s.d, y + m) /\ m > 0
        /\ s = [d |-> s.d, lines |-> s.lines]
    <3>1. CASE f.post_process = "upsample"
      <4>1. s = sep_upsample(f, avail)
        BY <3>1 DEF post_process_data
      <4>2. s = [d |-> s.d, lines |-> s.lines]
        BY <4>1 DEF sep_upsample, FromBuffer, GivenOut
      <4> HIDE DEF s
      <4> QED BY <1>3, <2>1, <2>2, <3>1, <4>1, <4>2, LinesUpsampled
    <3>2. CASE f.post_process = "1pass"
      <4> DEFINE some == Min({avail, strip_height(f)})
      <4>1. some \in Nat
        <5>1. strip_height(f) \in Nat
          BY <1>3, <2>2 DEF strip_height
        <5> QED BY <5>1, LeastOfTwo
      <4>2. s = sep_upsample(f, some)
        BY <3>2 DEF post_process_data
      <4> HIDE DEF some
      <4>3. s = [d |-> s.d, lines |-> s.lines]
        BY <4>2 DEF sep_upsample, FromBuffer, GivenOut
      <4> HIDE DEF s
      <4> QED BY <1>3, <2>1, <2>2, <3>2, <4>1, <4>2, <4>3, LinesUpsampled
    <3>3. CASE f.post_process = "prepass"
      <4>1. s = post_process_prepass(f)
        BY <3>3 DEF post_process_data
      <4>2. s = [d |-> s.d, lines |-> s.lines]
        BY <4>1 DEF post_process_prepass, InStrip
      <4> HIDE DEF s
      <4>3. StripAt(f, y) /\ StripsShow(f, y) /\ f.mode.quantize = "two"
        BY <2>2, <2>3, <2>4, <3>3 DEF PassAt
      <4>4. DOMAIN f.strips = 0..(strip_rows(p) - 1)
        BY <2>1, <2>2, <4>3 DEF Working, Memory
      <4> QED BY <1>3, <2>1, <2>2, <4>1, <4>2, <4>3, <4>4, StripFilled
    <3> QED BY <2>2, <3>1, <3>2, <3>3 DEF PassAt
  <2> HIDE DEF s, m
  <2>6. IsObject(s.d) /\ s.d.picture = p /\ s.d.buffer_full /\ SamePass(f, s.d) /\ SameWork(f, s.d)
    BY <2>1, <2>2, <2>5, WorkAsked DEF SameCourse, SameWork, SamePass, SameInput, SameScan
  <2>7. /\ r.lines = s.lines /\ MainAt(r.d, y + m)
        /\ SameWork(s.d, r.d) /\ SamePass(s.d, r.d) /\ SameStrips(s.d, r.d)
    <3>1. LET x == Emptied([d |-> s.d, lines |-> s.lines])
          IN /\ x.lines = s.lines /\ MainAt(x.d, y + m)
             /\ SameWork(s.d, x.d) /\ SamePass(s.d, x.d) /\ SameStrips(s.d, x.d)
      BY <1>3, <2>5, <2>6, BufferLeft
    <3> QED BY <2>1, <2>5, <3>1
  <2>8. n = m
    BY <2>7 DEF n, m
  <2> HIDE DEF n
  <2>9. SamePass(d, r.d)
    BY <2>1, <2>6, <2>7 DEF SamePass, SameAsked
  <2>10. Working(r.d)
    BY <2>1, <2>6, <2>7, WorkingKept
  <2>11. LinesShow(d, r.lines, y)
    BY <2>2, <2>5, <2>7, ShowsKept DEF LinesShow, LineShows
  <2>12. PassAt(r.d, y + n)
    <3>1. d.post_process = "prepass" => StripAt(r.d, y + m) /\ StripsShow(r.d, y + m)
      <4> SUFFICES ASSUME d.post_process = "prepass" PROVE StripAt(r.d, y + m) /\ StripsShow(r.d, y + m)
        OBVIOUS
      <4>1. StripAt(s.d, y + m) /\ StripsShow(s.d, y + m)
        BY <2>5
      <4>2. StripAt(r.d, y + m)
        BY <2>7, <4>1 DEF SamePass, SameStrips, StripAt
      <4>3. StripsShow(r.d, y + m)
        BY <2>7, <4>1, ShowsKept DEF SamePass, SameStrips, StripsShow, LineShows
      <4> QED BY <4>2, <4>3
    <3> QED BY <2>7, <2>8, <2>9, <3>1 DEF PassAt, SamePass
  <2> QED BY <2>5, <2>8, <2>9, <2>10, <2>11, <2>12 DEF n, r
<1> QED BY <1>4, <1>5

-----------------------------------------------------------------------------
(***************************************************************************)
(* Passes are prepared.                                                    *)
(***************************************************************************)

\* The first scan's start has been read and the modules have their memory.
Loaded(d) ==
  /\ InputThere(d) /\ Reading(d) /\ Memory(d)
  /\ d.has_multiple_scans = has_multiple_scans(d.picture)

\* In one pass, no MCU has been read.
FromTop(d) ==
  d.decompress_data = "onepass" =>
    /\ d.consume_input = "data" /\ d.input_scan_number = 1 /\ d.input_iMCU_row = 0
    /\ d.MCU_ctr = 0 /\ d.MCU_vert_offset = 0

\* What preparing a pass leaves as it is.
SameBase(d, e) ==
  /\ IsObject(e) /\ SameInput(d, e) /\ SameData(d, e) /\ e.mode = d.mode
  /\ e.global_state = d.global_state /\ e.output_scanline = d.output_scanline
  /\ DOMAIN e.strips = DOMAIN d.strips

\* The pass is to show scans whose start has been read, unless the application may
\* ask for others.
Asked(d) ==
  NeverAhead \/ d.decompress_data = "onepass" => d.output_scan_number <= d.input_scan_number

\* The transforms' tables that a pass starts with: those they have, or else those
\* in force.
TablesFor(d) ==
  [c \in DOMAIN d.dct_table |-> IF d.dct_table[c] # 0 THEN d.dct_table[c] ELSE d.quant_table[c]]

\* The transforms' and the coefficients' part of it.
LEMMA OutputStarts ==
  ASSUME NEW d, IsObject(d), NEW dummy,
         d.decompress_data \in {"onepass", "data", "smooth"}
  PROVE  LET e == start_output_pass(start_pass_idct([d EXCEPT !.is_dummy_pass = dummy]))
         IN /\ SameBase(d, e) /\ e.output_iMCU_row = 0 /\ e.is_dummy_pass = dummy
            /\ e.decompress_data \in {"onepass", "data", "smooth"}
            /\ e.decompress_data = "onepass" <=> d.decompress_data = "onepass"
            /\ e.rowgroup_ctr = d.rowgroup_ctr /\ e.dct_table = TablesFor(d)
<1> DEFINE a == [d EXCEPT !.is_dummy_pass = dummy]
           b == start_pass_idct(a)
           e == start_output_pass(b)
<1>1. /\ SameBase(d, a) /\ a.is_dummy_pass = dummy /\ a.decompress_data = d.decompress_data
      /\ a.rowgroup_ctr = d.rowgroup_ctr /\ a.dct_table = d.dct_table
  BY DEF SameBase, IsObject, Fields, SameInput, SameScan, SameData
<1> HIDE DEF a
<1>2. /\ SameBase(a, b) /\ b.is_dummy_pass = a.is_dummy_pass /\ b.decompress_data = a.decompress_data
      /\ b.rowgroup_ctr = a.rowgroup_ctr /\ b.dct_table = TablesFor(a)
  BY <1>1 DEF start_pass_idct, TablesFor, SameBase, IsObject, Fields, SameInput, SameScan, SameData
<1> HIDE DEF b
<1>3. /\ SameBase(b, e) /\ e.is_dummy_pass = b.is_dummy_pass /\ e.output_iMCU_row = 0
      /\ e.rowgroup_ctr = b.rowgroup_ctr /\ e.dct_table = b.dct_table
      /\ e.decompress_data = IF b.decompress_data = "onepass" THEN b.decompress_data
                             ELSE IF b.mode.do_block_smoothing /\ smoothing_ok(b)
                                  THEN "smooth" ELSE "data"
  BY <1>1, <1>2 DEF start_output_pass, SameBase, IsObject, Fields, SameInput, SameScan, SameData
<1> HIDE DEF e
<1>4. SameBase(d, e)
  BY <1>1, <1>2, <1>3 DEF SameBase, SameInput, SameScan, SameData
<1>5. TablesFor(a) = TablesFor(d)
  BY <1>1 DEF TablesFor, SameBase, SameInput
<1> QED BY <1>1, <1>2, <1>3, <1>4, <1>5 DEF e, b, a

\* The upsampling's, the strips' and the main buffer's.
LEMMA LinesStart ==
  ASSUME NEW d, IsObject(d), NEW method \in {"prepass", "upsample", "1pass"}
  PROVE  LET e == start_pass_main(start_pass_dpost(start_pass_upsample(d), method))
         IN /\ SameBase(d, e) /\ e.decompress_data = d.decompress_data /\ e.dct_table = d.dct_table
            /\ e.output_iMCU_row = d.output_iMCU_row /\ e.is_dummy_pass = d.is_dummy_pass
            /\ e.next_row_out = max_v_samp_factor(d.picture) /\ e.rows_to_go = d.picture.height
            /\ e.post_process = method /\ e.starting_row = 0 /\ e.next_row = 0
            /\ ~e.buffer_full /\ e.buffer_full \in BOOLEAN /\ e.rowgroup_ctr = 0
<1> DEFINE b == start_pass_upsample(d)
           e == start_pass_main(start_pass_dpost(b, method))
<1>1. /\ SameBase(d, b) /\ b.decompress_data = d.decompress_data /\ b.dct_table = d.dct_table
      /\ b.output_iMCU_row = d.output_iMCU_row /\ b.is_dummy_pass = d.is_dummy_pass
      /\ b.next_row_out = max_v_samp_factor(d.picture) /\ b.rows_to_go = d.picture.height
  BY DEF start_pass_upsample, SameBase, IsObject, Fields, SameInput, SameScan, SameData
<1> HIDE DEF b
<1>2. /\ SameBase(b, e) /\ e.decompress_data = b.decompress_data /\ e.dct_table = b.dct_table
      /\ e.output_iMCU_row = b.output_iMCU_row /\ e.is_dummy_pass = b.is_dummy_pass
      /\ e.next_row_out = b.next_row_out /\ e.rows_to_go = b.rows_to_go
      /\ e.post_process = method /\ e.starting_row = 0 /\ e.next_row = 0
      /\ ~e.buffer_full /\ e.buffer_full \in BOOLEAN /\ e.rowgroup_ctr = 0
  BY <1>1 DEF start_pass_main, start_pass_dpost, SameBase, IsObject, Fields, SameInput, SameScan, SameData
<1> HIDE DEF e
<1>3. SameBase(d, e)
  BY <1>1, <1>2 DEF SameBase, SameInput, SameScan, SameData
<1> QED BY <1>1, <1>2, <1>3 DEF e, b

\* A pass that starts with a first iMCU row to come is in step.
LEMMA StartsInStep ==
  ASSUME NEW d, NEW e, Loaded(d), FromTop(d), Asked(d), SameBase(d, e), e.output_iMCU_row = 0,
         e.dct_table = TablesFor(d),
         e.decompress_data \in {"onepass", "data", "smooth"},
         e.decompress_data = "onepass" <=> d.decompress_data = "onepass"
  PROVE  Working(e)
<1>1. InputThere(e) /\ Reading(e)
  BY InputKept DEF Loaded, SameBase, InputThere, SameInput, SameScan, SameData
<1>4. /\ DOMAIN e.dct_table = Comps(e.picture) /\ DOMAIN d.dct_table = Comps(d.picture)
      /\ e.picture = d.picture /\ e.output_scan_number = d.output_scan_number
  BY DEF TablesFor, Loaded, Memory, SameBase, SameInput, SameScan
<1>5. ASSUME NEW c \in Comps(d.picture)
      PROVE  /\ e.dct_table[c] \in {0, FirstTable(d.picture, c)}
             /\ (\E s \in ScansOf(d.picture, c) : s <= d.input_scan_number) =>
                  e.dct_table[c] = FirstTable(d.picture, c)
  <2>1. /\ d.dct_table[c] \in {0, FirstTable(d.picture, c)}
        /\ d.quant_table[c] = IF \E s \in ScansOf(d.picture, c) : s <= d.input_scan_number
                              THEN FirstTable(d.picture, c) ELSE 0
    BY DEF Loaded, Memory, Reading, Latched
  <2>2. e.dct_table[c] = IF d.dct_table[c] # 0 THEN d.dct_table[c] ELSE d.quant_table[c]
    BY <1>4 DEF TablesFor
  <2> QED BY <2>1, <2>2
<1>2. Memory(e)
  BY <1>4, <1>5 DEF Loaded, Memory, SameBase, SameInput, SameScan, SameData
<1>6. Prepared(e)
  <2>1. d.output_scan_number \in Nat /\ d.input_scan_number \in Nat
    <3>1. Len(d.picture.scans) \in Nat
      BY Scans DEF Loaded, InputThere, Object
    <3>2. d.output_scan_number \in Nat /\ (AmongMarkers(d) \/ InScan(d) \/ AtEnd(d))
      BY DEF Loaded, Reading
    <3> QED BY <3>1, <3>2 DEF AmongMarkers, InScan, InRow, ScanAtHand, AtEnd
  <2>2. ASSUME NeverAhead, NEW c \in Comps(d.picture), NEW s \in ScansOf(d.picture, c),
               s <= d.output_scan_number
        PROVE  e.dct_table[c] = FirstTable(d.picture, c)
    <3>1. s \in 1..Len(d.picture.scans)
      BY DEF ScansOf
    <3>2. s <= d.input_scan_number
      BY <2>1, <2>2, <3>1 DEF Asked
    <3> QED BY <1>5, <3>2
  <2>3. ASSUME d.decompress_data = "onepass", NEW s \in 1..Len(d.picture.scans),
               s <= d.output_scan_number
        PROVE  s = 1
    <3>1. d.input_scan_number = 1 /\ d.output_scan_number <= d.input_scan_number
      BY <2>3 DEF FromTop, Asked
    <3> QED BY <2>1, <2>3, <3>1
  <2> QED BY <1>4, <2>2, <2>3 DEF Prepared
<1>3. InStep(e)
  <2>1. e.MCU_ctr = 0 /\ e.MCU_vert_offset = 0 => McusShown(e)
    BY <1>1, NothingShown DEF InputThere, Object
  <2> QED BY <2>1 DEF InStep, FromTop, SameBase, SameInput, SameScan
<1> QED BY <1>1, <1>2, <1>3, <1>6 DEF Working, Loaded, SameBase, SameInput, SameScan

\* prepare_for_output_pass, but for the second of two passes of quantization.
LEMMA PassPrepared ==
  ASSUME NEW d, Loaded(d), FromTop(d), Asked(d), ~d.is_dummy_pass, d.rowgroup_ctr \in 0..(DCTSIZE - 1)
  PROVE  LET e == prepare_for_output_pass(d)
         IN /\ Working(e) /\ SameBase(d, e) /\ e.output_iMCU_row = 0
            /\ e.rowgroup_ctr \in 0..(DCTSIZE - 1) /\ e.is_dummy_pass \in BOOLEAN
            /\ d.mode.raw_data_out => ~e.is_dummy_pass
            /\ ~d.mode.raw_data_out => PassAt(e, 0)
<1> DEFINE p == d.picture
           dummy == d.mode.quantize = "two" /\ ~d.colormap
           f == start_output_pass(start_pass_idct([d EXCEPT !.is_dummy_pass = dummy]))
           method == IF dummy THEN "prepass"
                     ELSE IF d.mode.quantize = "no" THEN "upsample" ELSE "1pass"
           map == f.colormap \/ d.mode.quantize = "one"
           a == [f EXCEPT !.colormap = map]
           g == start_pass_main(start_pass_dpost(start_pass_upsample(a), method))
           e == prepare_for_output_pass(d)
<1>1. e = IF d.mode.raw_data_out THEN f ELSE g
  BY DEF prepare_for_output_pass
<1>2. /\ IsObject(d) /\ p \in Pictures /\ d.mode \in Modes[p]
      /\ d.decompress_data \in {"onepass", "data", "smooth"}
  BY DEF Loaded, Memory, InputThere, Object, IsObject
<1> HIDE DEF e, dummy, method, map
<1>3. /\ SameBase(d, f) /\ f.output_iMCU_row = 0 /\ f.is_dummy_pass = dummy
      /\ f.decompress_data \in {"onepass", "data", "smooth"}
      /\ f.decompress_data = "onepass" <=> d.decompress_data = "onepass"
      /\ f.rowgroup_ctr = d.rowgroup_ctr /\ f.dct_table = TablesFor(d)
  BY <1>2, OutputStarts
<1> HIDE DEF f
<1>4. IsObject(f) /\ f.picture = p /\ f.mode = d.mode
  BY <1>3 DEF SameBase, SameInput, SameScan
<1>5. dummy \in BOOLEAN
  BY DEF dummy
<1>6. CASE d.mode.raw_data_out
  <2>1. d.mode.quantize = "no"
    BY <1>2, <1>6, ModesAssumption
  <2>2. ~dummy
    BY <2>1 DEF dummy
  <2>3. e = f
    BY <1>1, <1>6
  <2> QED BY <1>3, <1>5, <1>6, <2>2, <2>3, StartsInStep DEF e
<1>7. CASE ~d.mode.raw_data_out
  <2>1. e = g
    BY <1>1, <1>7
  <2>2. /\ SameBase(f, g) /\ g.decompress_data = f.decompress_data /\ g.dct_table = f.dct_table
        /\ g.output_iMCU_row = f.output_iMCU_row /\ g.is_dummy_pass = f.is_dummy_pass
        /\ g.next_row_out = max_v_samp_factor(p) /\ g.rows_to_go = p.height
        /\ g.post_process = method /\ g.starting_row = 0 /\ g.next_row = 0
        /\ ~g.buffer_full /\ g.buffer_full \in BOOLEAN /\ g.rowgroup_ctr = 0
    <3>1. /\ SameBase(f, a) /\ a.decompress_data = f.decompress_data /\ a.picture = p
          /\ a.dct_table = f.dct_table
          /\ a.output_iMCU_row = f.output_iMCU_row /\ a.is_dummy_pass = f.is_dummy_pass
      BY <1>4 DEF SameBase, IsObject, Fields, SameInput, SameScan, SameData
    <3> HIDE DEF a
    <3>2. method \in {"prepass", "upsample", "1pass"}
      BY DEF method
    <3>3. /\ SameBase(a, g) /\ g.decompress_data = a.decompress_data /\ g.dct_table = a.dct_table
          /\ g.output_iMCU_row = a.output_iMCU_row /\ g.is_dummy_pass = a.is_dummy_pass
          /\ g.next_row_out = max_v_samp_factor(a.picture) /\ g.rows_to_go = a.picture.height
          /\ g.post_process = method /\ g.starting_row = 0 /\ g.next_row = 0
          /\ ~g.buffer_full /\ g.buffer_full \in BOOLEAN /\ g.rowgroup_ctr = 0
      BY <3>1, <3>2, LinesStart DEF SameBase
    <3> HIDE DEF g
    <3> QED BY <3>1, <3>3 DEF SameBase, SameInput, SameScan, SameData
  <2> HIDE DEF g
  <2>3. SameBase(d, g)
    BY <1>3, <2>2 DEF SameBase, SameInput, SameScan, SameData
  <2>4. Working(g)
    BY <1>3, <2>2, <2>3, StartsInStep
  <2>5. g.picture = p /\ g.mode = d.mode
    BY <2>3 DEF SameBase, SameInput, SameScan
  <2> DEFINE most == max_v_samp_factor(p)
  <2>6. /\ most \in Nat /\ most > 0 /\ p.height \in Nat /\ total_iMCU_rows(p) \in Nat
        /\ iMCU_height(p) \in Nat /\ DCTSIZE \in Nat /\ DCTSIZE > 0
    <3>1. 1 \in Comps(p)
      BY <1>2, Sizes
    <3> QED BY <1>2, <3>1, Factors, Sizes
  <2> HIDE DEF most
  <2>7. MainAt(g, 0)
    <3>1. 0 * iMCU_height(p) = 0 /\ p.height - 0 = p.height
      BY <2>6
    <3>2. Counters(g, 0)
      BY <1>3, <2>2, <2>5, <2>6, <3>1 DEF Counters, most
    <3>3. g.buffer_full \in BOOLEAN /\ ~g.buffer_full /\ g.rowgroup_ctr \in 0..(DCTSIZE - 1)
      BY <2>2, <2>6
    <3>4. /\ g.next_row_out = max_v_samp_factor(g.picture) /\ g.rowgroup_ctr = 0
          /\ 0 = g.output_iMCU_row * iMCU_height(g.picture)
      BY <1>3, <2>2, <2>5, <3>1
    <3> QED BY <3>2, <3>3, <3>4, Zenon DEF MainAt
  <2>8. StripAt(g, 0)
    <3>1. 0 % most = 0 /\ 0 \in 0..(most - 1)
      BY <2>6
    <3> QED BY <2>2, <2>5, <3>1 DEF StripAt, most
  <2>9. StripsShow(g, 0)
    BY DEF StripsShow
  <2>10. CASE dummy
    <3>1. method = "prepass" /\ d.mode.quantize = "two"
      BY <2>10 DEF method, dummy
    <3>2. PassAt(g, 0)
      BY <1>3, <1>7, <2>2, <2>5, <2>7, <2>8, <2>9, <2>10, <3>1 DEF PassAt
    <3> QED BY <1>3, <1>5, <1>7, <2>1, <2>2, <2>3, <2>4, <2>6, <3>2 DEF e
  <2>11. CASE ~dummy
    <3>1. method \in {"upsample", "1pass"}
      BY <2>11 DEF method
    <3>2. PassAt(g, 0)
      BY <1>3, <1>7, <2>2, <2>5, <2>7, <2>11, <3>1 DEF PassAt
    <3> QED BY <1>3, <1>5, <1>7, <2>1, <2>2, <2>3, <2>4, <2>6, <3>2 DEF e
  <2> QED BY <2>10, <2>11
<1> QED BY <1>6, <1>7

\* The second of two passes of quantization.
LEMMA PassTurned ==
  ASSUME NEW d, Working(d), d.is_dummy_pass, d.rowgroup_ctr \in 0..(DCTSIZE - 1),
         StripsShow(d, d.picture.height)
  PROVE  LET e == [prepare_for_output_pass(finish_output_pass(d)) EXCEPT !.output_scanline = 0]
         IN /\ Working(e) /\ e.mode = d.mode /\ e.global_state = d.global_state
            /\ e.picture = d.picture /\ ~e.is_dummy_pass /\ e.post_process = "2pass"
            /\ e.output_iMCU_row = d.output_iMCU_row /\ e.rowgroup_ctr = d.rowgroup_ctr
            /\ e.output_scanline = 0 /\ e.ret = d.ret
            /\ StripAt(e, 0) /\ StripsShow(e, d.picture.height)
<1> DEFINE p == d.picture
           f == finish_output_pass(d)
           g == prepare_for_output_pass(f)
           e == [g EXCEPT !.output_scanline = 0]
<1>1. IsObject(d) /\ p \in Pictures
  BY DEF Working, InputThere, Object, IsObject
<1>2. f = [d EXCEPT !.colormap = d.colormap \/ d.is_dummy_pass] /\ f.is_dummy_pass
  BY <1>1 DEF finish_output_pass, IsObject, Fields
<1>3. g = start_pass_dpost([f EXCEPT !.is_dummy_pass = FALSE], "2pass")
  BY <1>2 DEF prepare_for_output_pass
<1>4. /\ IsObject(e) /\ SameWork(d, e) /\ e.mode = d.mode /\ e.global_state = d.global_state
      /\ e.picture = d.picture /\ ~e.is_dummy_pass /\ e.post_process = "2pass"
      /\ e.output_iMCU_row = d.output_iMCU_row /\ e.rowgroup_ctr = d.rowgroup_ctr
      /\ e.output_scanline = 0 /\ e.ret = d.ret
      /\ e.starting_row = 0 /\ e.next_row = 0 /\ e.strips = d.strips
  <2> HIDE DEF f
  <2>1. /\ IsObject(f) /\ SameWork(d, f) /\ f.mode = d.mode /\ f.global_state = d.global_state
        /\ f.picture = d.picture /\ f.output_iMCU_row = d.output_iMCU_row
        /\ f.rowgroup_ctr = d.rowgroup_ctr /\ f.ret = d.ret /\ f.strips = d.strips
    BY <1>1, <1>2 DEF IsObject, Fields, SameWork, SameInput, SameScan, SameData
  <2> HIDE DEF g
  <2>2. /\ IsObject(g) /\ SameWork(f, g) /\ g.mode = f.mode /\ g.global_state = f.global_state
        /\ g.picture = f.picture /\ ~g.is_dummy_pass /\ g.post_process = "2pass"
        /\ g.output_iMCU_row = f.output_iMCU_row /\ g.rowgroup_ctr = f.rowgroup_ctr
        /\ g.ret = f.ret /\ g.starting_row = 0 /\ g.next_row = 0 /\ g.strips = f.strips
    BY <1>3, <2>1 DEF start_pass_dpost, IsObject, Fields, SameWork, SameInput, SameScan, SameData
  <2>3. /\ IsObject(e) /\ SameWork(g, e) /\ e.mode = g.mode /\ e.global_state = g.global_state
        /\ e.picture = g.picture /\ ~e.is_dummy_pass /\ e.post_process = "2pass"
        /\ e.output_iMCU_row = g.output_iMCU_row /\ e.rowgroup_ctr = g.rowgroup_ctr
        /\ e.output_scanline = 0 /\ e.ret = g.ret
        /\ e.starting_row = 0 /\ e.next_row = 0 /\ e.strips = g.strips
    BY <2>2 DEF IsObject, Fields, SameWork, SameInput, SameScan, SameData
  <2> HIDE DEF e
  <2> QED BY <2>1, <2>2, <2>3 DEF SameWork, SameInput, SameScan, SameData
<1> HIDE DEF e
<1>5. Working(e)
  BY <1>4, WorkingKept
<1>6. StripsShow(e, p.height)
  BY <1>4, WorkAsked, ShowsKept DEF StripsShow, LineShows
<1>7. StripAt(e, 0)
  <2> DEFINE most == max_v_samp_factor(p)
  <2>1. most \in Nat /\ most > 0
    <3>1. 1 \in Comps(p)
      BY <1>1, Sizes
    <3> QED BY <1>1, <3>1, Factors
  <2> HIDE DEF most
  <2>2. 0 % most = 0 /\ 0 \in 0..(most - 1)
    BY <2>1
  <2> QED BY <1>4, <2>2 DEF StripAt, most
<1> QED BY <1>4, <1>5, <1>6, <1>7 DEF e

-----------------------------------------------------------------------------
(***************************************************************************)
(* The dummy pass of two-pass quantization, and output_pass_setup.         *)
(***************************************************************************)

\* A dummy pass is under way.
Dummy(d) == Working(d) /\ PassAt(d, d.output_scanline) /\ d.is_dummy_pass

\* What it leaves as it is.
SameCall(d, e) ==
  e.picture = d.picture /\ e.mode = d.mode /\ e.global_state = d.global_state

\* A turn of its inner loop is suspended or adds lines to the strips.
LEMMA DummyTurned ==
  ASSUME NEW d, Dummy(d)
  PROVE  LET e == DummyTurn(d)
         IN /\ Dummy(e) /\ SameCall(d, e)
            /\ \/ e.ret = "SUSPENDED"
               \/ e.output_scanline >= d.picture.height
               \/ e.output_scanline >= d.output_scanline + 1
<1> DEFINE p == d.picture
           y == d.output_scanline
           r == process_data_simple_main(d, 0)
           n == Len(r.lines)
           e == DummyTurn(d)
<1>1. /\ Working(d) /\ PassAt(d, y) /\ d.is_dummy_pass /\ d.post_process = "prepass"
  BY DEF Dummy, PassAt
<1>2. p \in Pictures /\ p.height \in Nat /\ y \in 0..p.height
  <2>1. p \in Pictures
    BY <1>1 DEF Working, InputThere, Object
  <2> QED BY <1>1, <2>1, Sizes DEF PassAt, MainAt, Counters
<1>3. CASE y >= p.height \/ d.ret = "SUSPENDED"
  <2>1. e = d
    BY <1>3 DEF DummyTurn
  <2> HIDE DEF e
  <2> QED BY <1>3, <2>1 DEF SameCall, e
<1>4. CASE ~(y >= p.height \/ d.ret = "SUSPENDED")
  <2>1. process_data(d, 0) = r
    BY <1>1 DEF process_data
  <2>2. e = DummyLines(r)
    BY <1>4, <2>1 DEF DummyTurn
  <2>3. y < p.height /\ 0 \in Nat
    BY <1>2, <1>4
  <2>4. /\ n \in Nat /\ Working(r.d) /\ SamePass(d, r.d) /\ PassAt(r.d, y + n)
        /\ r.lines = <<>> \/ n > 0
    BY <1>1, <2>3, LinesProcessed
  <2> HIDE DEF r, e
  <2>5. IsObject(r.d) /\ r.d.output_scanline = y /\ r.d.is_dummy_pass /\ SameCall(d, r.d)
    BY <1>1, <2>4 DEF Working, InputThere, Object, IsObject, SamePass, SameCall
  <2>6. CASE r.lines = <<>>
    <3>1. e = Suspended(r.d)
      BY <2>2, <2>6 DEF DummyLines
    <3>2. n = 0 /\ y + n = y
      BY <1>2, <2>6
    <3>3. /\ SameWork(r.d, e) /\ SamePass(r.d, e) /\ SameStrips(r.d, e) /\ SameUpsampler(r.d, e)
          /\ e.buffer_full = r.d.buffer_full /\ e.ret = "SUSPENDED"
      BY <2>5, <3>1
         DEF Suspended, IsObject, Fields, SameWork, SamePass, SameAsked, SameStrips, SameUpsampler, SameInput,
             SameScan, SameData
    <3>4. Working(e) /\ PassAt(e, y) /\ SamePass(d, e)
      <4>1. PassAt(r.d, y)
        BY <2>4, <3>2
      <4>2. PassAt(e, y)
        BY <3>3, <4>1, PassKept DEF SameShown, SamePass, SameWork, SameInput, SameScan, SameData
      <4> QED BY <2>4, <3>3, <4>2, WorkingKept DEF SamePass, SameAsked
    <3> QED BY <1>1, <2>5, <3>3, <3>4 DEF Dummy, SamePass, SameCall, e
  <2>7. CASE r.lines # <<>>
    <3>1. e = [r.d EXCEPT !.output_scanline = @ + Len(r.lines), !.ret = "ENOUGH"]
      BY <2>2, <2>7 DEF DummyLines
    <3>2. n >= 1
      BY <2>4, <2>7
    <3>3. /\ SameWork(r.d, e) /\ SameStrips(r.d, e) /\ SameUpsampler(r.d, e)
          /\ e.buffer_full = r.d.buffer_full /\ e.ret = "ENOUGH"
          /\ e.output_scanline = y + n /\ SameCall(r.d, e) /\ SameAsked(r.d, e)
          /\ e.post_process = r.d.post_process /\ e.is_dummy_pass = r.d.is_dummy_pass
      BY <2>5, <3>1
         DEF IsObject, Fields, SameWork, SameAsked, SameStrips, SameUpsampler, SameInput,
             SameScan, SameData, SameCall
    <3>4. PassAt(e, y + n)
      BY <2>4, <3>3, PassKept DEF SameShown, SameWork, SameInput, SameScan, SameData
    <3>5. Working(e)
      BY <2>4, <3>3, WorkingKept
    <3>6. e.output_scanline >= y + 1
      BY <1>2, <2>4, <3>2, <3>3
    <3> QED BY <2>5, <3>3, <3>4, <3>5, <3>6 DEF Dummy, SameCall, e
  <2> QED BY <2>6, <2>7
<1> QED BY <1>3, <1>4

\* The turns of that loop, of which there are n.
AreDummyTurns(turn, d, n) ==
  turn = [i \in 0..n |-> IF i = 0 THEN d ELSE DummyTurn(turn[i - 1])]

\* There is such a function.
LEMMA DummyTurnsExist == \A d : \A n \in Nat : \E turn : AreDummyTurns(turn, d, n)
<1> SUFFICES ASSUME NEW d PROVE \A n \in Nat : \E turn : AreDummyTurns(turn, d, n)
  OBVIOUS
<1> DEFINE T == {n \in Nat : \E turn : AreDummyTurns(turn, d, n)}
<1>1. 0 \in T
  <2>1. AreDummyTurns([i \in 0..0 |-> d], d, 0)
    BY DEF AreDummyTurns
  <2> QED BY <2>1
<1>2. ASSUME NEW n \in T, n \in Nat PROVE n + 1 \in T
  <2>1. PICK turn : AreDummyTurns(turn, d, n)
    BY <1>2
  <2> DEFINE next == [i \in 0..(n + 1) |-> IF i = n + 1 THEN DummyTurn(turn[n]) ELSE turn[i]]
  <2>2. n + 1 \in Nat /\ n + 1 # 0
    BY <1>2
  <2>3. ASSUME NEW i \in 0..(n + 1)
        PROVE  next[i] = IF i = 0 THEN d ELSE DummyTurn(next[i - 1])
    <3>1. CASE i = n + 1
      <4>1. n \in 0..(n + 1) /\ n # n + 1 /\ i - 1 = n
        BY <1>2, <3>1
      <4>2. next[i] = DummyTurn(turn[n]) /\ next[i - 1] = turn[n]
        BY <3>1, <4>1
      <4> QED BY <2>2, <3>1, <4>2
    <3>2. CASE i # n + 1
      <4>1. i \in 0..n /\ (i # 0 => i - 1 \in 0..(n + 1) /\ i - 1 # n + 1)
        BY <1>2, <3>2
      <4>2. turn[i] = IF i = 0 THEN d ELSE DummyTurn(turn[i - 1])
        BY <2>1, <4>1, Zenon DEF AreDummyTurns
      <4>3. next[i] = turn[i] /\ (i # 0 => next[i - 1] = turn[i - 1])
        BY <3>2, <4>1
      <4> QED BY <4>2, <4>3
    <3> QED BY <3>1, <3>2
  <2>4. AreDummyTurns(next, d, n + 1)
    BY <2>3, Zenon DEF AreDummyTurns
  <2> QED BY <2>2, <2>4
<1> HIDE DEF T
<1>3. Nat \subseteq T
  BY <1>1, <1>2, NatInduct
<1> QED BY <1>3 DEF T

\* The second pass is to come, all strips have been filled.
SecondPass(d) ==
  /\ Working(d) /\ ~d.mode.raw_data_out /\ d.mode.quantize = "two" /\ d.output_scanline = 0
  /\ ~d.is_dummy_pass /\ d.post_process = "2pass"
  /\ d.output_iMCU_row \in 0..total_iMCU_rows(d.picture) /\ d.rowgroup_ctr \in 0..(DCTSIZE - 1)
  /\ StripAt(d, 0) /\ StripsShow(d, d.picture.height)

\* DummyPass.
LEMMA DummyPassed ==
  ASSUME NEW d, Dummy(d)
  PROVE  LET e == DummyPass(d)
         IN /\ SameCall(d, e)
            /\ IF e.ret = "SUSPENDED" THEN Dummy(e) ELSE SecondPass(e)
<1> DEFINE p == d.picture
           number == p.height
           turn == CHOOSE t : AreDummyTurns(t, d, number)
           Good(x, n) == /\ Dummy(x) /\ SameCall(d, x)
                         /\ x.ret = "SUSPENDED" \/ x.output_scanline >= n
           T == {n \in Nat : n <= number => Good(turn[n], n)}
           last == turn[number]
           e == DummyPass(d)
<1>1. p \in Pictures /\ number \in Nat /\ d.output_scanline \in 0..number
  <2>1. p \in Pictures
    BY DEF Dummy, Working, InputThere, Object
  <2> QED BY <2>1, Sizes DEF Dummy, PassAt, MainAt, Counters
<1>2. e = DummyDone(turn[d.picture.height])
  BY Zenon DEF DummyPass, AreDummyTurns, Dummy
<1> HIDE DEF number
<1>3. AreDummyTurns(turn, d, number)
  BY <1>1, DummyTurnsExist
<1> HIDE DEF turn
<1>4. turn[0] = d
  BY <1>1, <1>3 DEF AreDummyTurns
<1>5. ASSUME NEW n \in Nat, n + 1 <= number PROVE turn[n + 1] = DummyTurn(turn[n])
  <2>1. n + 1 \in 0..number /\ n + 1 # 0 /\ (n + 1) - 1 = n
    BY <1>1, <1>5
  <2> QED BY <1>3, <2>1 DEF AreDummyTurns
<1>6. 0 \in T
  <2>1. d.output_scanline >= 0
    BY <1>1
  <2> QED BY <1>4, <2>1 DEF SameCall
<1>7. ASSUME NEW n \in T, n \in Nat PROVE n + 1 \in T
  <2>1. CASE n + 1 <= number
    <3> DEFINE x == turn[n]
               y == DummyTurn(x)
    <3>1. Good(x, n) /\ turn[n + 1] = y
      BY <1>1, <1>5, <1>7, <2>1
    <3> HIDE DEF x
    <3>2. /\ Dummy(y) /\ SameCall(x, y)
          /\ \/ y.ret = "SUSPENDED"
             \/ y.output_scanline >= x.picture.height
             \/ y.output_scanline >= x.output_scanline + 1
      BY <3>1, DummyTurned
    <3>3. x.ret = "SUSPENDED" => y = x
      BY DEF DummyTurn
    <3> HIDE DEF y
    <3>4. SameCall(d, y) /\ x.picture.height = number
      BY <3>1, <3>2 DEF SameCall, number
    <3>5. x.output_scanline \in Nat /\ y.output_scanline \in Nat
      <4>1. x.output_scanline \in 0..number
        BY <3>1, <3>4 DEF Dummy, PassAt, MainAt, Counters
      <4>2. y.output_scanline \in 0..number
        BY <3>2, <3>4 DEF Dummy, PassAt, MainAt, Counters, SameCall, number
      <4> QED BY <1>1, <4>1, <4>2
    <3>6. y.ret = "SUSPENDED" \/ y.output_scanline >= n + 1
      BY <1>1, <1>7, <2>1, <3>1, <3>2, <3>3, <3>4, <3>5
    <3> QED BY <1>7, <3>1, <3>2, <3>4, <3>6
  <2> QED BY <1>7, <2>1
<1>8. number \in T
  <2> HIDE DEF T
  <2> QED BY <1>1, <1>6, <1>7, NatInduct
<1>9. Good(last, number) /\ e = DummyDone(last)
  BY <1>1, <1>2, <1>8 DEF number
<1> HIDE DEF last, e
<1>10. CASE last.ret = "SUSPENDED"
  <2>1. e = last
    BY <1>9, <1>10 DEF DummyDone
  <2> QED BY <1>9, <1>10, <2>1 DEF e
<1>11. CASE last.ret # "SUSPENDED"
  <2>1. e = [prepare_for_output_pass(finish_output_pass(last)) EXCEPT !.output_scanline = 0]
    BY <1>9, <1>11 DEF DummyDone
  <2>2. /\ Working(last) /\ last.is_dummy_pass /\ SameCall(d, last) /\ last.picture = p
        /\ PassAt(last, last.output_scanline) /\ last.output_scanline >= number
    BY <1>9, <1>11 DEF Dummy, SameCall
  <2>3. last.output_scanline \in 0..number
    BY <2>2 DEF PassAt, MainAt, Counters, number
  <2>4. last.output_scanline = number
    BY <1>1, <2>2, <2>3
  <2>5. /\ StripsShow(last, last.picture.height) /\ last.rowgroup_ctr \in 0..(DCTSIZE - 1)
        /\ ~last.mode.raw_data_out /\ last.mode.quantize = "two"
        /\ last.output_iMCU_row \in 0..total_iMCU_rows(p)
    BY <2>2, <2>4 DEF PassAt, MainAt, Counters, number
  <2>6. /\ Working(e) /\ e.mode = last.mode /\ e.global_state = last.global_state
        /\ e.picture = last.picture /\ ~e.is_dummy_pass /\ e.post_process = "2pass"
        /\ e.output_iMCU_row = last.output_iMCU_row /\ e.rowgroup_ctr = last.rowgroup_ctr
        /\ e.output_scanline = 0 /\ e.ret = last.ret
        /\ StripAt(e, 0) /\ StripsShow(e, last.picture.height)
    BY <2>1, <2>2, <2>5, PassTurned
  <2>7. SameCall(d, e) /\ e.ret # "SUSPENDED"
    BY <1>11, <2>2, <2>6 DEF SameCall
  <2>8. SecondPass(e)
    BY <2>2, <2>5, <2>6 DEF SecondPass
  <2> QED BY <2>7, <2>8 DEF e
<1> QED BY <1>10, <1>11

-----------------------------------------------------------------------------
(***************************************************************************)
(* output_pass_setup, and the start of decompression.                      *)
(***************************************************************************)

\* Nothing else matters to output.
LEMMA OutputKept ==
  ASSUME NEW d, NEW e, OutputInv(d), SameShown(d, e), e.output_scanline = d.output_scanline, InStep(e)
  PROVE  OutputInv(e)
<1> DEFINE y == d.output_scanline
<1>1. /\ e.picture = d.picture /\ e.mode = d.mode /\ e.output_iMCU_row = d.output_iMCU_row
      /\ e.post_process = d.post_process /\ e.is_dummy_pass = d.is_dummy_pass
      /\ e.output_scanline = y /\ e.rowgroup_ctr = d.rowgroup_ctr
  BY DEF SameShown, SameUpsampler
<1>2. PassAt(d, y) => PassAt(e, y)
  BY PassKept
<1>3. StripAt(d, y) => StripAt(e, y)
  BY DEF SameShown, SameStrips, StripAt
<1>4. StripsShow(d, d.picture.height) => StripsShow(e, e.picture.height)
  BY ShowsKept DEF SameShown, SameStrips, StripsShow, LineShows
<1>5. CASE d.mode.raw_data_out
  BY <1>1, <1>5 DEF OutputInv
<1>6. CASE ~d.mode.raw_data_out /\ PassAt(d, y)
  BY <1>1, <1>2, <1>6 DEF OutputInv, PassAt, MainInv, StripInv
<1>7. CASE ~d.mode.raw_data_out /\ ~PassAt(d, y)
  <2>1. /\ d.post_process = "2pass" /\ ~d.is_dummy_pass /\ d.mode.quantize = "two"
        /\ d.output_iMCU_row \in 0..total_iMCU_rows(d.picture)
        /\ d.rowgroup_ctr \in 0..(DCTSIZE - 1)
        /\ y <= strip_rows(d.picture)
        /\ StripAt(d, y) /\ StripsShow(d, d.picture.height)
    BY <1>7 DEF OutputInv, PassAt, MainInv, StripInv
  <2> QED BY <1>1, <1>3, <1>4, <1>7, <2>1 DEF OutputInv, StripInv
<1> QED BY <1>5, <1>6, <1>7

\* A pass is under way, between two calls.
Outputting(d) ==
  /\ Working(d) /\ OutputInv(d) /\ d.rowgroup_ctr \in 0..(DCTSIZE - 1)
  /\ d.global_state \in {"PRESCAN", "SCANNING", "RAW_OK"}
  /\ d.is_dummy_pass <=> d.global_state = "PRESCAN"
  /\ d.global_state = "SCANNING" => ~d.mode.raw_data_out
  /\ d.global_state = "RAW_OK" => d.mode.raw_data_out

\* A pass has been prepared.
AtStart(d) ==
  /\ Working(d) /\ ~d.is_dummy_pass /\ d.output_scanline = 0 /\ d.output_iMCU_row = 0
  /\ d.rowgroup_ctr \in 0..(DCTSIZE - 1)
  /\ ~d.mode.raw_data_out => PassAt(d, 0)

\* The end of output_pass_setup.
LEMMA PassSetUp ==
  ASSUME NEW d, d.global_state = "PRESCAN", Dummy(d) \/ AtStart(d), d.ret = "ENOUGH"
  PROVE  Outputting(SetUp(DummyPass(d))) /\ SetUp(DummyPass(d)).picture = d.picture
<1> DEFINE f == DummyPass(d)
           e == SetUp(f)
<1>1. /\ SameCall(d, f) /\ f.global_state = "PRESCAN"
      /\ IF f.ret = "SUSPENDED" THEN Dummy(f) ELSE AtStart(f) \/ SecondPass(f)
  <2>1. CASE Dummy(d)
    BY <2>1, DummyPassed DEF SameCall
  <2>2. CASE AtStart(d)
    <3>1. f = d
      BY <2>2 DEF DummyPass, AtStart
    <3> HIDE DEF f
    <3> QED BY <2>2, <3>1 DEF SameCall
  <2> QED BY <2>1, <2>2
<1> HIDE DEF f
<1>2. CASE f.ret = "SUSPENDED"
  <2>1. e = f /\ Dummy(f)
    BY <1>1, <1>2 DEF SetUp
  <2> HIDE DEF e
  <2>2. /\ Working(f) /\ PassAt(f, f.output_scanline) /\ f.is_dummy_pass
    BY <2>1 DEF Dummy
  <2>3. OutputInv(f) /\ f.rowgroup_ctr \in 0..(DCTSIZE - 1)
    BY <2>2 DEF OutputInv, PassAt, MainInv, StripInv, Working, MainAt
  <2> QED BY <1>1, <2>1, <2>2, <2>3 DEF Outputting, SameCall, e, f
<1>3. CASE f.ret # "SUSPENDED"
  <2>1. e = [f EXCEPT !.global_state = IF f.mode.raw_data_out THEN "RAW_OK" ELSE "SCANNING"]
    BY <1>3 DEF SetUp
  <2>2. /\ Working(f) /\ ~f.is_dummy_pass /\ f.output_scanline = 0 /\ f.rowgroup_ctr \in 0..(DCTSIZE - 1)
        /\ InStep(f)
    BY <1>1, <1>3 DEF AtStart, SecondPass, Working
  <2>3. OutputInv(f)
    <3> DEFINE p == f.picture
    <3>1. p \in Pictures
      BY <2>2 DEF Working, InputThere, Object
    <3>2. /\ total_iMCU_rows(p) \in Nat /\ iMCU_height(p) \in Nat /\ strip_rows(p) \in Nat
          /\ 0 * iMCU_height(p) = 0
      <4>1. /\ total_iMCU_rows(p) \in Nat /\ iMCU_height(p) \in Nat /\ 1 \in Comps(p)
        BY <3>1, Sizes
      <4>2. 0 % max_v_samp_factor(p) = 0
        BY <3>1, <4>1, Factors
      <4> QED BY <3>1, <4>1, <4>2, StripArithmetic
    <3>3. CASE AtStart(f) /\ f.mode.raw_data_out
      BY <2>2, <3>2, <3>3 DEF AtStart, OutputInv
    <3>4. CASE AtStart(f) /\ ~f.mode.raw_data_out
      <4>1. PassAt(f, f.output_scanline)
        BY <2>2, <3>4 DEF AtStart
      <4> QED BY <2>2, <3>4, <4>1 DEF OutputInv, PassAt, MainInv
    <3>5. CASE SecondPass(f)
      <4>1. StripInv(f) /\ f.output_scanline <= strip_rows(p)
        BY <2>2, <3>2, <3>5 DEF SecondPass, StripInv
      <4> QED BY <2>2, <3>5, <4>1 DEF SecondPass, OutputInv
    <3> QED BY <1>1, <1>3, <3>3, <3>4, <3>5
  <2>4. IsObject(f)
    BY <2>2 DEF Working, InputThere, Object, IsObject
  <2>5. /\ SameWork(f, e) /\ SameShown(f, e) /\ e.output_scanline = f.output_scanline
        /\ e.global_state = (IF f.mode.raw_data_out THEN "RAW_OK" ELSE "SCANNING")
    BY <2>1, <2>4
       DEF IsObject, Fields, SameWork, SameShown, SameAsked, SameUpsampler, SameStrips, SameInput, SameScan, SameData
  <2> HIDE DEF e
  <2>6. Working(e)
    BY <2>2, <2>5, WorkingKept
  <2>7. OutputInv(e)
    BY <2>3, <2>5, <2>6, OutputKept DEF Working
  <2>8. /\ e.picture = d.picture /\ e.mode = f.mode /\ ~e.is_dummy_pass
        /\ e.rowgroup_ctr = f.rowgroup_ctr
    BY <1>1, <2>2, <2>5 DEF SameShown, SameUpsampler, SameCall
  <2> QED BY <2>2, <2>5, <2>6, <2>7, <2>8 DEF Outputting, e, f
<1> QED BY <1>2, <1>3

\* A pass that was suspended goes on.
LEMMA PassGoesOn ==
  ASSUME NEW d, Outputting(d), d.global_state = "PRESCAN"
  PROVE  Outputting(output_pass_setup(d)) /\ output_pass_setup(d).picture = d.picture
<1> DEFINE f == [d EXCEPT !.ret = "ENOUGH"]
<1>1. output_pass_setup(d) = SetUp(DummyPass(f))
  BY DEF output_pass_setup
<1>2. IsObject(d) /\ Working(d) /\ OutputInv(d) /\ d.is_dummy_pass
  BY DEF Outputting, Working, InputThere, Object, IsObject
<1>3. PassAt(d, d.output_scanline)
  BY <1>2 DEF OutputInv, PassAt, MainInv, StripInv
<1>4. /\ SameWork(d, f) /\ SameShown(d, f) /\ f.output_scanline = d.output_scanline
      /\ f.global_state = "PRESCAN" /\ f.ret = "ENOUGH"
  BY <1>2
     DEF IsObject, Fields, SameWork, SameShown, SameAsked, SameUpsampler, SameStrips, SameInput, SameScan, SameData
<1> HIDE DEF f
<1>5. Dummy(f)
  BY <1>2, <1>3, <1>4, PassKept, WorkingKept DEF Dummy, SameShown
<1> QED BY <1>1, <1>4, <1>5, PassSetUp DEF SameShown

\* A pass begins.
LEMMA PassBegins ==
  ASSUME NEW d, Loaded(d), FromTop(d), Asked(d), ~d.is_dummy_pass,
         d.rowgroup_ctr \in 0..(DCTSIZE - 1), d.global_state # "PRESCAN"
  PROVE  Outputting(output_pass_setup(d)) /\ output_pass_setup(d).picture = d.picture
<1> DEFINE g == prepare_for_output_pass(d)
           f == [g EXCEPT !.output_scanline = 0, !.ret = "ENOUGH", !.global_state = "PRESCAN"]
<1>1. output_pass_setup(d) = SetUp(DummyPass(f))
  BY DEF output_pass_setup
<1>2. /\ Working(g) /\ SameBase(d, g) /\ g.output_iMCU_row = 0
      /\ g.rowgroup_ctr \in 0..(DCTSIZE - 1) /\ g.is_dummy_pass \in BOOLEAN
      /\ d.mode.raw_data_out => ~g.is_dummy_pass
      /\ ~d.mode.raw_data_out => PassAt(g, 0)
  BY PassPrepared
<1> HIDE DEF g
<1>3. IsObject(g) /\ g.mode = d.mode /\ g.picture = d.picture
  BY <1>2 DEF SameBase, SameInput, SameScan
<1>4. /\ SameWork(g, f) /\ SameShown(g, f) /\ f.output_scanline = 0
      /\ f.global_state = "PRESCAN" /\ f.ret = "ENOUGH"
  BY <1>3
     DEF IsObject, Fields, SameWork, SameShown, SameAsked, SameUpsampler, SameStrips, SameInput, SameScan, SameData
<1> HIDE DEF f
<1>5. Working(f) /\ (~d.mode.raw_data_out => PassAt(f, 0))
  BY <1>2, <1>4, PassKept, WorkingKept
<1>6. /\ f.is_dummy_pass = g.is_dummy_pass /\ f.picture = d.picture /\ f.mode = d.mode
      /\ f.output_iMCU_row = 0 /\ f.rowgroup_ctr = g.rowgroup_ctr
  BY <1>2, <1>3, <1>4 DEF SameShown, SameUpsampler
<1>7. Dummy(f) \/ AtStart(f)
  BY <1>2, <1>4, <1>5, <1>6 DEF Dummy, AtStart
<1> QED BY <1>1, <1>4, <1>6, <1>7, PassSetUp

-----------------------------------------------------------------------------
(***************************************************************************)
(* The invariant, and the start of decompression.                          *)
(***************************************************************************)

\* Up to the first scan's start.
InHeaders(d) ==
  /\ InputThere(d) /\ d.output_scan_number \in Nat
  /\ \/ d.global_state = "START" /\ d.position = 0 /\ d.consume_input = "markers"
     \/ /\ d.global_state = "INHEADER" /\ AmongMarkers(d)
        /\ d.input_scan_number = 0 /\ d.inheaders
     \/ /\ d.global_state = "READY" /\ ScanBegins(d)
        /\ d.input_scan_number = 1 /\ ~d.inheaders /\ Latched(d, 0)
        /\ d.has_multiple_scans = has_multiple_scans(d.picture)

\* Between two passes, or before the first.
Waiting(d) ==
  /\ Loaded(d) /\ d.global_state \in {"PRELOAD", "BUFIMAGE", "BUFPOST", "STOPPING"}
  /\ ~d.is_dummy_pass
  /\ d.global_state = "PRELOAD" => d.decompress_data # "onepass"

\* The object between two calls of the application.
ObjectInv(d) ==
  /\ d.rowgroup_ctr \in 0..(DCTSIZE - 1)
  /\ InHeaders(d) \/ Waiting(d) \/ Outputting(d)
\* What the lines show is right: it is complete unless the application asks for
\* scans whose start has not been read.
LinesRight == LinesInPlace /\ (NeverAhead => LinesComplete) /\ NeighboursThere
JpegInv == ObjectInv(cinfo) /\ LinesRight

\* Nothing but what is named matters to what has been loaded.
LEMMA LoadedKept ==
  ASSUME NEW d, NEW e, Loaded(d), SameWork(d, e)
  PROVE  Loaded(e) /\ (FromTop(d) => FromTop(e))
<1>1. InputThere(e) /\ Reading(e)
  BY InputKept DEF Loaded, SameWork, InputThere, SameInput, SameScan, SameData
<1>2. Memory(e)
  BY DEF Loaded, Memory, SameWork, SameInput, SameScan, SameData
<1>3. FromTop(d) => FromTop(e)
  BY DEF FromTop, SameWork, SameInput, SameScan
<1> QED BY <1>1, <1>2, <1>3 DEF Loaded, SameWork, SameInput, SameScan

\* Nor does the scan that is asked for.
LEMMA LoadedAsks ==
  ASSUME NEW d, NEW e, Loaded(d), IsObject(e), e.output_scan_number \in Nat,
         \A x \in Fields \ {"output_scan_number", "colormap"} : e[x] = d[x]
  PROVE  Loaded(e) /\ (FromTop(d) => FromTop(e))
<1>1. /\ e.picture = d.picture /\ e.position = d.position /\ e.unread_marker = d.unread_marker
      /\ e.inheaders = d.inheaders /\ e.eoi_reached = d.eoi_reached
      /\ e.has_multiple_scans = d.has_multiple_scans /\ e.comps_in_scan = d.comps_in_scan
      /\ e.input_scan_number = d.input_scan_number /\ e.quant_tbl = d.quant_tbl /\ e.Ss = d.Ss
      /\ e.consume_input = d.consume_input /\ e.quant_table = d.quant_table
      /\ e.input_iMCU_row = d.input_iMCU_row
      /\ e.MCU_ctr = d.MCU_ctr /\ e.MCU_vert_offset = d.MCU_vert_offset
      /\ e.MCU_rows_per_iMCU_row = d.MCU_rows_per_iMCU_row
      /\ e.mode = d.mode /\ e.decompress_data = d.decompress_data /\ e.buffer = d.buffer
      /\ e.whole_image = d.whole_image /\ e.dct_table = d.dct_table /\ e.strips = d.strips
  BY DEF Fields
<1>2. InputThere(d) /\ Reading(d) /\ Memory(d) /\ Object(e)
  BY <1>1 DEF Loaded, InputThere, Object, IsObject
<1>3. Stream(e) = Stream(d) /\ Ahead(e) = Ahead(d) /\ Behind(e) = Behind(d)
  BY <1>1 DEF Stream, Ahead, Behind
<1>4. InputThere(e)
  BY <1>1, <1>2, <1>3 DEF InputThere
<1>5. McuHere(e) = McuHere(d) /\ McuBefore(e) = McuBefore(d) /\ RowDone(d) = RowDone(e)
  BY <1>1 DEF McuHere, McuBefore, McuRow, RowDone
<1>6. ScanAtHand(d) => ScanAtHand(e)
  BY <1>1 DEF ScanAtHand
<1>7. InScan(d) => InScan(e)
  BY <1>1, <1>3, <1>5, <1>6 DEF InScan, InRow
<1>8. AmongMarkers(d) => AmongMarkers(e)
  BY <1>1, <1>3 DEF AmongMarkers, TableFor
<1>9. AtEnd(d) => AtEnd(e)
  BY <1>1, <1>3 DEF AtEnd
<1>10. Latched(d, d.input_scan_number) => Latched(e, e.input_scan_number)
  BY <1>1 DEF Latched
<1>11. ImageHolds(d) => ImageHolds(e)
  BY <1>1 DEF ImageHolds, ScansHeld, RowsHeld, McusHeld, Held, InRowAtHand, Decoded
<1>12. Reading(e)
  BY <1>1, <1>2, <1>7, <1>8, <1>9, <1>10, <1>11 DEF Reading
<1>13. Memory(e)
  BY <1>1, <1>2 DEF Memory
<1> QED BY <1>1, <1>4, <1>12, <1>13 DEF Loaded, FromTop

\* The scans that have been begun are counted.
LEMMA ScanCounted ==
  ASSUME NEW d, Loaded(d)
  PROVE  d.input_scan_number \in Nat
<1>1. Len(d.picture.scans) \in Nat
  BY Scans DEF Loaded, InputThere, Object
<1>2. AmongMarkers(d) \/ InScan(d) \/ AtEnd(d)
  BY DEF Loaded, Reading
<1> QED BY <1>1, <1>2 DEF AmongMarkers, InScan, InRow, ScanAtHand, AtEnd

\* A loop that consumes input leaves it loaded.
LEMMA LoadedGoesOn ==
  ASSUME NEW d, Loaded(d), NEW why
  PROVE  Loaded(Consume(d, why)) /\ SameOutput(d, Consume(d, why))
<1> DEFINE e == Consume(d, why)
<1>1. Went(d, e) /\ Reading(e)
  BY LoopConsumed DEF Loaded, Memory, ImageRight
<1> HIDE DEF e
<1>2. Memory(e)
  BY <1>1, MemoryKept DEF Loaded, Went, SameOutput, SameLines, SameMemory, SameInMemory
<1> QED BY <1>1, <1>2 DEF Loaded, Went, SameOutput, e

\* The value that the last operation returned does not matter.
LEMMA ObjectKept ==
  ASSUME NEW d, ObjectInv(d), NEW r
  PROVE  ObjectInv([d EXCEPT !.ret = r])
<1> DEFINE e == [d EXCEPT !.ret = r]
<1>1. IsObject(d) /\ Object(d)
  BY DEF ObjectInv, InHeaders, Waiting, Outputting, Loaded, Working, InputThere, Object, IsObject
<1>2. IsObject(e) /\ SameOutput(d, e) /\ SameData(d, e) /\ SameInput(d, e)
  BY <1>1, ReturnedFields
<1> HIDE DEF e
<1>3. SameWork(d, e) /\ SameShown(d, e)
  BY <1>2 DEF SameWork, SameShown, SameAsked, SameUpsampler, SameStrips, SameOutput, SameData
<1>4. e.rowgroup_ctr = d.rowgroup_ctr /\ e.global_state = d.global_state
  BY <1>2 DEF SameOutput
<1>5. InHeaders(d) => InHeaders(e)
  BY <1>1, <1>2, <1>4, InputKept DEF InHeaders, Latched, SameInput, SameScan
<1>6. Waiting(d) => Waiting(e)
  BY <1>2, <1>3, LoadedKept DEF Waiting, SameOutput
<1>7. Outputting(d) => Outputting(e)
  BY <1>2, <1>3, WorkingKept, OutputKept DEF Outputting, Working, SameOutput
<1> QED BY <1>4, <1>5, <1>6, <1>7 DEF ObjectInv, e

\* jinit_master_decompress.
LEMMA MemoryTaken ==
  ASSUME NEW d, InHeaders(d), d.global_state = "READY", NEW mode \in Modes[d.picture]
  PROVE  LET e == jinit_master_decompress(d, mode)
         IN /\ Loaded(e) /\ FromTop(e) /\ ~e.is_dummy_pass /\ e.rowgroup_ctr = d.rowgroup_ctr
            /\ IsObject(e)
<1> DEFINE p == d.picture
           many == d.has_multiple_scans \/ mode.buffered_image
           how == IF many THEN "data" ELSE "onepass"
           wide(c) == p.comps[c].h * jdiv_round_up(p.width, max_h_samp_factor(p) * DCTSIZE)
           image == IF many
                    THEN [b \in UNION {{c} \X (0..(p.comps[c].v * total_iMCU_rows(p) - 1))
                                          \X (0..(wide(c) - 1)) : c \in Comps(p)} |-> {}]
                    ELSE <<>>
           bits == [c \in Comps(p) |-> [k \in 0..1 |-> -1]]
           tables == [c \in Comps(p) |-> 0]
           main == [b \in Blocks(p) |-> Garbage]
           line == [c \in Comps(p) |-> [line |-> 0, blocks |-> <<Garbage>>]]
           strips == IF mode.quantize # "two" THEN <<>>
                     ELSE [y \in 0..(strip_rows(p) - 1) |-> line]
           a == [d EXCEPT !.mode = mode, !.is_dummy_pass = FALSE, !.colormap = FALSE,
                          !.decompress_data = how, !.whole_image = image, !.coef_bits = bits,
                          !.dct_table = tables, !.buffer = main, !.strips = strips]
           e == jinit_master_decompress(d, mode)
<1>1. e = start_input_pass(a)
  BY DEF jinit_master_decompress
<1>2. /\ InputThere(d) /\ IsObject(d) /\ Object(d) /\ p \in Pictures /\ ScanBegins(d)
      /\ d.input_scan_number = 1 /\ ~d.inheaders /\ d.has_multiple_scans = has_multiple_scans(p)
      /\ d.output_scan_number \in Nat /\ Latched(d, 0)
  BY DEF InHeaders, InputThere, Object, IsObject
<1>3. image = IF many THEN [b \in ImageBlocks(p) |-> {}] ELSE <<>>
  BY DEF ImageBlocks
<1> HIDE DEF image, bits, tables, line, e
<1>4. /\ IsObject(a) /\ SameInput(d, a) /\ a.mode = mode /\ ~a.is_dummy_pass
      /\ a.decompress_data = how /\ a.whole_image = image /\ a.buffer = main /\ a.strips = strips
      /\ a.rowgroup_ctr = d.rowgroup_ctr /\ a.dct_table = tables
  BY <1>2 DEF IsObject, Fields, SameInput, SameScan
<1> HIDE DEF a
<1>5. InputThere(a) /\ ScanBegins(a)
  BY <1>2, <1>4, InputKept
<1>6. /\ InputThere(e) /\ InScan(e) /\ SameOutput(a, e) /\ SameData(a, e) /\ SameScan(a, e)
      /\ e.MCU_ctr = 0 /\ e.MCU_vert_offset = 0 /\ e.input_iMCU_row = 0
      /\ Latched(a, a.input_scan_number - 1) => Latched(e, e.input_scan_number)
      /\ (a.decompress_data # "onepass" =>
            DOMAIN a.whole_image = ImageBlocks(a.picture) /\ ScansHeld(a, a.input_scan_number))
           => ImageHolds(e)
  BY <1>1, <1>5, ScanStarts
<1>7. /\ e.picture = p /\ e.mode = mode /\ e.decompress_data = how /\ e.whole_image = image
      /\ e.buffer = main /\ e.strips = strips /\ ~e.is_dummy_pass
      /\ e.rowgroup_ctr = d.rowgroup_ctr /\ e.input_scan_number = 1 /\ ~e.inheaders
      /\ e.has_multiple_scans = has_multiple_scans(p) /\ e.dct_table = tables
      /\ e.output_scan_number \in Nat
  BY <1>2, <1>4, <1>6 DEF SameOutput, SameData, SameInput, SameScan
<1>8. Memory(e)
  <2>1. \A i \in DOMAIN image : InPlace(image[i], i[2], i[3])
    <3>1. CASE many
      BY <1>3, <3>1 DEF InPlace
    <3>2. CASE ~many
      <4>1. DOMAIN image = {}
        BY <1>3, <3>2
      <4> QED BY <4>1
    <3> QED BY <3>1, <3>2
  <2>2. how # "onepass" => DOMAIN image = ImageBlocks(p)
    BY <1>3
  <2>3. DOMAIN main = Blocks(p)
    OBVIOUS
  <2>4. mode.quantize = "two" => DOMAIN strips = 0..(strip_rows(p) - 1)
    OBVIOUS
  <2>5. how = "onepass" <=> ~has_multiple_scans(p) /\ ~mode.buffered_image
    BY <1>2
  <2>6. how \in {"onepass", "data", "smooth"}
    OBVIOUS
  <2>7. DOMAIN tables = Comps(p) /\ \A c \in Comps(p) : tables[c] \in {0, FirstTable(p, c)}
    BY DEF tables
  <2> HIDE DEF main, strips, how
  <2> QED BY <1>7, <2>1, <2>2, <2>3, <2>4, <2>5, <2>6, <2>7 DEF Memory
<1>9. Reading(e)
  <2>1. e.position <= arrived
    BY <1>6, StreamAt DEF InputThere
  <2>2. Latched(e, 1)
    <3>1. Latched(a, 0) /\ a.input_scan_number - 1 = 0
      BY <1>2, <1>4 DEF Latched, SameInput, SameScan
    <3> QED BY <1>6, <1>7, <3>1
  <2>3. ImageHolds(e)
    <3>1. a.input_scan_number = 1 /\ a.picture = p
      BY <1>2, <1>4 DEF SameInput, SameScan
    <3>2. how # "onepass" => DOMAIN image = ImageBlocks(p)
      BY <1>3
    <3>3. \A c : \A s \in ScansOf(p, c) : ~(s < 1)
      BY DEF ScansOf
    <3>4. ScansHeld(a, 1)
      BY <3>1, <3>3 DEF ScansHeld
    <3> HIDE DEF how
    <3> QED BY <1>4, <1>6, <3>1, <3>2, <3>4
  <2> QED BY <1>6, <1>7, <2>1, <2>2, <2>3 DEF Reading
<1>10. FromTop(e)
  BY <1>6, <1>7 DEF FromTop, InScan, InRow
<1> QED BY <1>6, <1>7, <1>8, <1>9, <1>10 DEF Loaded, InputThere, Object, IsObject, e

\* What is left to do once all scans are there.
LEMMA ScansThere ==
  ASSUME NEW d, Loaded(d), d.global_state = "PRELOAD", ~d.is_dummy_pass,
         d.rowgroup_ctr \in 0..(DCTSIZE - 1),
         IF d.ret = "SUSPENDED" THEN d.decompress_data # "onepass" ELSE FromTop(d)
  PROVE  ObjectInv(Preloaded(d))
<1> DEFINE f == [d EXCEPT !.output_scan_number = d.input_scan_number]
<1>1. CASE d.ret = "SUSPENDED"
  BY <1>1 DEF Preloaded, ObjectInv, Waiting
<1>2. CASE d.ret # "SUSPENDED"
  <2>1. Preloaded(d) = output_pass_setup(f)
    BY <1>2 DEF Preloaded
  <2>2. IsObject(d)
    BY DEF Loaded, InputThere, Object, IsObject
  <2>3. /\ IsObject(f) /\ \A x \in Fields \ {"output_scan_number", "colormap"} : f[x] = d[x]
        /\ f.global_state = "PRELOAD" /\ f.is_dummy_pass = d.is_dummy_pass
        /\ f.rowgroup_ctr = d.rowgroup_ctr
        /\ f.output_scan_number = d.input_scan_number /\ f.input_scan_number = d.input_scan_number
    BY <2>2 DEF IsObject, Fields
  <2> HIDE DEF f
  <2>6. d.input_scan_number \in Nat
    BY ScanCounted
  <2>4. Loaded(f) /\ FromTop(f) /\ Asked(f)
    BY <1>2, <2>3, <2>6, LoadedAsks DEF Asked
  <2>5. Outputting(output_pass_setup(f))
    BY <2>3, <2>4, PassBegins
  <2> QED BY <2>1, <2>5 DEF ObjectInv, Outputting
<1> QED BY <1>1, <1>2

\* The loop before it, which has come to all scans' end unless it is suspended.
LEMMA ScansTaken ==
  ASSUME NEW d, Loaded(d), d.global_state = "PRELOAD", ~d.is_dummy_pass,
         d.rowgroup_ctr \in 0..(DCTSIZE - 1), d.decompress_data # "onepass"
  PROVE  ObjectInv(Preloaded(Consume(d, "eoi")))
<1> DEFINE e == Consume(d, "eoi")
<1>1. Loaded(e) /\ SameOutput(d, e)
  BY LoadedGoesOn
<1> HIDE DEF e
<1>2. /\ e.global_state = "PRELOAD" /\ ~e.is_dummy_pass /\ e.rowgroup_ctr \in 0..(DCTSIZE - 1)
      /\ e.decompress_data # "onepass" /\ FromTop(e)
  BY <1>1 DEF SameOutput, FromTop
<1> QED BY <1>1, <1>2, ScansThere DEF e

\* The end of jpeg_start_decompress.
LEMMA DecompressionStarts ==
  ASSUME NEW d, Loaded(d), FromTop(d), ~d.is_dummy_pass, d.rowgroup_ctr \in 0..(DCTSIZE - 1)
  PROVE  ObjectInv(Started(d))
<1>1. IsObject(d)
  BY DEF Loaded, InputThere, Object, IsObject
<1>2. CASE d.mode.buffered_image
  <2> DEFINE e == [d EXCEPT !.global_state = "BUFIMAGE"]
  <2>1. /\ SameWork(d, e) /\ e.global_state = "BUFIMAGE" /\ e.is_dummy_pass = d.is_dummy_pass
        /\ e.rowgroup_ctr = d.rowgroup_ctr
    BY <1>1 DEF IsObject, Fields, SameWork, SameInput, SameScan, SameData
  <2>2. Started(d) = e
    BY <1>2 DEF Started
  <2> HIDE DEF e
  <2>3. Loaded(e)
    BY <2>1, LoadedKept
  <2> QED BY <2>1, <2>2, <2>3 DEF ObjectInv, Waiting
<1>3. CASE ~d.mode.buffered_image
  <2> DEFINE e == [d EXCEPT !.global_state = "PRELOAD"]
             f == [e EXCEPT !.ret = "ENOUGH"]
  <2>1. Started(d) = Preloaded(IF d.has_multiple_scans THEN Consume(e, "eoi") ELSE f)
    BY <1>1, <1>3 DEF Started, IsObject, Fields
  <2>2. /\ SameWork(d, e) /\ e.global_state = "PRELOAD" /\ e.is_dummy_pass = d.is_dummy_pass
        /\ e.rowgroup_ctr = d.rowgroup_ctr /\ e.decompress_data = d.decompress_data
    BY <1>1 DEF IsObject, Fields, SameWork, SameInput, SameScan, SameData
  <2>3. /\ SameWork(d, f) /\ f.global_state = "PRELOAD" /\ f.is_dummy_pass = d.is_dummy_pass
        /\ f.rowgroup_ctr = d.rowgroup_ctr /\ f.ret = "ENOUGH"
    BY <1>1 DEF IsObject, Fields, SameWork, SameInput, SameScan, SameData
  <2> HIDE DEF e, f
  <2>4. Loaded(e) /\ Loaded(f) /\ FromTop(f)
    BY <2>2, <2>3, LoadedKept
  <2>5. CASE d.has_multiple_scans
    <3>1. d.decompress_data # "onepass"
      BY <2>5 DEF Loaded, Memory
    <3>2. ObjectInv(Preloaded(Consume(e, "eoi")))
      BY <2>2, <2>4, <3>1, ScansTaken
    <3> QED BY <2>1, <2>5, <3>2
  <2>6. CASE ~d.has_multiple_scans
    <3>1. ObjectInv(Preloaded(f))
      BY <2>3, <2>4, ScansThere
    <3> QED BY <2>1, <2>6, <3>1
  <2> QED BY <2>5, <2>6
<1> QED BY <1>2, <1>3

-----------------------------------------------------------------------------
(***************************************************************************)
(* Each call of the application keeps the invariant.                       *)
(***************************************************************************)

\* A call that gives lines back, or none.
LEMMA Returns ==
  ASSUME NEW d, ObjectInv(d), NEW call, NEW lines, Return(call, d, lines),
         LinesShow(d, lines, cinfo.output_scanline)
  PROVE  JpegInv'
<1> DEFINE e == [d EXCEPT !.ret = "ENOUGH"]
<1>1. cinfo' = e /\ arrived' = arrived /\ returned'.lines = lines
      /\ returned'.first = cinfo.output_scanline
  BY DEF Return
<1>2. ObjectInv(e)
  BY ObjectKept
<1>3. e.picture = d.picture /\ e.mode = d.mode /\ e.output_scan_number = d.output_scan_number
  <2>1. IsObject(d)
    BY DEF ObjectInv, InHeaders, Waiting, Outputting, Loaded, Working, InputThere, Object, IsObject
  <2> QED BY <2>1 DEF IsObject, Fields
<1> HIDE DEF e
<1>4. ObjectInv(cinfo)'
  BY <1>1, <1>2 DEF ObjectInv, InHeaders, Waiting, Outputting, Loaded, Working, InputThere, Reading
<1> DEFINE p == d.picture
           y(i) == cinfo.output_scanline + i - 1
<1>5. ASSUME NEW i \in 1..Len(lines), y(i) < p.height, NEW c \in Comps(p)
      PROVE  /\ lines[i][c].line = LineOf(p, d.mode, c, y(i))
             /\ \A x \in 1..width_in_blocks(p, c) :
                  Right(d, c, lines[i][c].blocks[x], BlockRow(p, c, y(i)), x - 1)
  BY <1>5 DEF LinesShow, LineShows, Shows
<1>6. LinesInPlace'
  <2>1. ASSUME NEW i \in 1..Len(lines), y(i) < p.height, NEW c \in Comps(p)
        PROVE  /\ lines[i][c].line = LineOf(p, d.mode, c, y(i))
               /\ \A x \in 1..width_in_blocks(p, c) :
                    InPlace(lines[i][c].blocks[x].coefs, BlockRow(p, c, y(i)), x - 1)
    BY <1>5, <2>1 DEF Right
  <2> QED BY <1>1, <1>3, <2>1 DEF LinesInPlace, Lines, ShownAt, InPlace
<1>7. (NeverAhead => LinesComplete)'
  <2> SUFFICES ASSUME NeverAhead PROVE LinesComplete'
    OBVIOUS
  <2> DEFINE asked(c) == {s \in ScansOf(p, c) : s <= d.output_scan_number}
  <2>1. ASSUME NEW i \in 1..Len(lines), y(i) < p.height, NEW c \in Comps(p),
               NEW x \in 1..width_in_blocks(p, c)
        PROVE  /\ \A s \in asked(c) :
                    <<s, BlockRow(p, c, y(i)), x - 1>> \in lines[i][c].blocks[x].coefs
               /\ asked(c) # {} => lines[i][c].blocks[x].table = TableAt(p, Min(ScansOf(p, c)))
    <3>1. Right(d, c, lines[i][c].blocks[x], BlockRow(p, c, y(i)), x - 1)
      BY <1>5, <2>1
    <3>2. asked(c) # {} => \E s \in ScansOf(p, c) : s <= d.output_scan_number
      OBVIOUS
    <3> QED BY <3>1, <3>2 DEF Right, FirstTable
  <2>2. cinfo'.picture = p /\ cinfo'.output_scan_number = d.output_scan_number
    BY <1>1, <1>3
  <2>3. \A c : {s \in ScansOf(cinfo'.picture, c) : s <= cinfo'.output_scan_number} = asked(c)
    BY <2>2
  <2> HIDE DEF asked, y
  <2> QED BY <1>1, <2>1, <2>2, <2>3 DEF LinesComplete, Lines, ShownAt, y
<1>8. NeighboursThere'
  <2> DEFINE dc(c) == {s \in ScansOf(p, c) : s <= d.output_scan_number /\ p.scans[s].Ss = 0}
             above(c, i) == Max({0, BlockRow(p, c, y(i)) - 1})
             below(c, i) == Min({height_in_blocks(p, c) - 1, BlockRow(p, c, y(i)) + 1})
  <2>1. ASSUME NEW i \in 1..Len(lines), y(i) < p.height, NEW c \in Comps(p),
               NEW x \in 1..width_in_blocks(p, c), lines[i][c].blocks[x].near # <<>>,
               NEW s \in dc(c)
        PROVE  /\ <<s, above(c, i), x - 1>> \in lines[i][c].blocks[x].near[1]
               /\ <<s, below(c, i), x - 1>> \in lines[i][c].blocks[x].near[2]
    <3>1. Right(d, c, lines[i][c].blocks[x], BlockRow(p, c, y(i)), x - 1)
      BY <1>5, <2>1
    <3> QED BY <2>1, <3>1 DEF Right
  <2>2. cinfo'.picture = p /\ cinfo'.output_scan_number = d.output_scan_number
    BY <1>1, <1>3
  <2>3. \A c : {s \in ScansOf(cinfo'.picture, c) :
                 s <= cinfo'.output_scan_number /\ cinfo'.picture.scans[s].Ss = 0} = dc(c)
    BY <2>2
  <2> HIDE DEF dc, y
  <2> QED BY <1>1, <2>1, <2>2, <2>3 DEF NeighboursThere, Lines, ShownAt, y
<1> QED BY <1>4, <1>6, <1>7, <1>8 DEF JpegInv, LinesRight

\* A call that gives none.
LEMMA ReturnsNothing ==
  ASSUME NEW d, ObjectInv(d), NEW call, Return(call, d, <<>>)
  PROVE  JpegInv'
<1>1. LinesShow(d, <<>>, cinfo.output_scanline)
  BY DEF LinesShow
<1> QED BY <1>1, Returns

\* Where there are no lines they are right.
LEMMA NoLinesRight == returned' = Nothing => LinesRight'
BY DEF LinesRight, LinesInPlace, LinesComplete, NeighboursThere, Lines, Nothing

\* Whenever the source's next unit comes.
LEMMA ArriveKeeps == JpegInv /\ Arrive => JpegInv'
<1> SUFFICES ASSUME JpegInv, Arrive PROVE JpegInv'
  OBVIOUS
<1>1. /\ ObjectInv(cinfo) /\ cinfo' = cinfo /\ arrived' = arrived + 1
      /\ arrived < Len(Stream(cinfo)) /\ returned' = Nothing
  BY DEF JpegInv, Arrive
<1>2. InputThere(cinfo) /\ Len(Stream(cinfo)) \in Nat
  BY <1>1, StreamAt DEF ObjectInv, InHeaders, Waiting, Outputting, Loaded, Working, InputThere
<1>3. /\ arrived \in Nat /\ arrived + 1 \in 0..Len(Stream(cinfo))
      /\ cinfo.position \in 0..arrived /\ cinfo.position \in 0..(arrived + 1)
      /\ cinfo.position <= arrived + 1
  BY <1>1, <1>2 DEF InputThere
<1>4. InputThere(cinfo)' /\ (Reading(cinfo) => Reading(cinfo)')
  BY <1>1, <1>2, <1>3 DEF InputThere, Reading
<1>5. ObjectInv(cinfo)'
  BY <1>1, <1>4 DEF ObjectInv, InHeaders, Waiting, Outputting, Loaded, Working
<1>6. LinesRight'
  BY <1>1, NoLinesRight
<1> QED BY <1>5, <1>6 DEF JpegInv

\* Before the first marker.
LEMMA InputReset ==
  ASSUME NEW d, InHeaders(d), d.global_state = "START"
  PROVE  LET e == reset_input_controller(d)
         IN /\ InputThere(e) /\ AmongMarkers(e) /\ e.input_scan_number = 0 /\ e.inheaders
            /\ e.output_scan_number \in Nat
            /\ e.rowgroup_ctr = d.rowgroup_ctr /\ e.picture = d.picture
<1> DEFINE e == reset_input_controller(d)
<1>1. InputThere(d) /\ IsObject(d) /\ Object(d) /\ d.position = 0
  BY DEF InHeaders, InputThere, Object, IsObject, AmongMarkers, ScanBegins
<1>8. d.output_scan_number \in Nat
  BY DEF InHeaders
<1>2. /\ IsObject(e) /\ e.output_scan_number = d.output_scan_number /\ e.picture = d.picture /\ e.position = d.position
      /\ e.consume_input = "markers" /\ ~e.eoi_reached /\ e.inheaders
      /\ e.input_scan_number = 0 /\ e.unread_marker = "none" /\ e.rowgroup_ctr = d.rowgroup_ctr
  BY <1>1 DEF reset_input_controller, IsObject, Fields
<1> HIDE DEF e
<1>3. InputThere(e) /\ Object(e)
  BY <1>1, <1>2 DEF InputThere, Object, IsObject, Stream
<1>4. Len(Stream(e)) \in Nat /\ Len(Stream(e)) >= 1 /\ Ahead(e) = Unit("SOI", 0, 0)
  <2>1. e.position + 1 = 1
    BY <1>1, <1>2
  <2> QED BY <1>3, <2>1, StreamAt DEF Ahead
<1>5. MarkerFor(e.picture, 0, Ahead(e))
  BY <1>4 DEF MarkerFor, Unit
<1>6. Len(e.picture.scans) \in Nat
  BY <1>3, Scans DEF Object
<1>7. AmongMarkers(e)
  BY <1>1, <1>2, <1>4, <1>5, <1>6 DEF AmongMarkers, TableFor, Unit
<1> QED BY <1>2, <1>3, <1>7, <1>8 DEF e

\* jpeg_read_header.
LEMMA ReadHeaderKeeps == JpegInv /\ jpeg_read_header => JpegInv'
<1> SUFFICES ASSUME JpegInv, jpeg_read_header PROVE JpegInv'
  OBVIOUS
<1> DEFINE d == IF In({"START"}) THEN reset_input_controller(cinfo) ELSE cinfo
           e == consume_markers(d)
           f == [e EXCEPT !.global_state = IF e.ret = "REACHED_SOS" THEN "READY" ELSE "INHEADER"]
<1>1. Return("read_header", f, <<>>) /\ cinfo.global_state \in {"START", "INHEADER"}
  BY DEF jpeg_read_header, In
<1>2. InHeaders(cinfo) /\ cinfo.rowgroup_ctr \in 0..(DCTSIZE - 1)
  BY <1>1 DEF JpegInv, ObjectInv, Waiting, Outputting
<1>3. /\ InputThere(d) /\ AmongMarkers(d) /\ d.input_scan_number = 0 /\ d.inheaders
      /\ d.rowgroup_ctr = cinfo.rowgroup_ctr /\ d.output_scan_number \in Nat
  <2>1. CASE cinfo.global_state = "START"
    <3>1. d = reset_input_controller(cinfo)
      BY <2>1 DEF In
    <3> HIDE DEF d
    <3> QED BY <1>2, <2>1, <3>1, InputReset
  <2>2. CASE cinfo.global_state = "INHEADER"
    <3>1. d = cinfo
      BY <2>2 DEF In
    <3> QED BY <1>2, <2>2, <3>1 DEF InHeaders
  <2> QED BY <1>1, <2>1, <2>2
<1> HIDE DEF d
<1>4. /\ InputThere(e) /\ SameOutput(d, e) /\ e.output_scan_number \in Nat
      /\ e.ret = "SUSPENDED" =>
           AmongMarkers(e) /\ e.input_scan_number = 0 /\ e.inheaders
      /\ e.ret = "REACHED_SOS" =>
           /\ e.input_scan_number = 0 + 1 /\ ~e.inheaders
           /\ ScanBegins(e) /\ e.has_multiple_scans = has_multiple_scans(e.picture)
           /\ Latched(e, 0)
      /\ e.ret = "REACHED_EOI" => AtEnd(e) /\ e.input_scan_number = 0
      /\ e.ret \in {"SUSPENDED", "REACHED_SOS", "REACHED_EOI"}
  BY <1>3, MarkersTaken
<1> HIDE DEF e
<1>5. e.ret # "REACHED_EOI"
  <2>1. Len(e.picture.scans) >= 1
    BY <1>4, Scans DEF InputThere, Object
  <2> QED BY <1>4, <2>1 DEF AtEnd
<1>6. IsObject(e) /\ Object(e)
  BY <1>4 DEF InputThere, Object, IsObject
<1>7. /\ IsObject(f) /\ SameInput(e, f) /\ f.rowgroup_ctr = e.rowgroup_ctr
      /\ f.global_state = (IF e.ret = "REACHED_SOS" THEN "READY" ELSE "INHEADER")
  BY <1>6 DEF IsObject, Fields, SameInput, SameScan
<1> HIDE DEF f
<1>8. /\ InputThere(f) /\ (AmongMarkers(e) => AmongMarkers(f)) /\ (ScanBegins(e) => ScanBegins(f))
  BY <1>4, <1>6, <1>7, InputKept
<1>9. InHeaders(f)
  BY <1>4, <1>5, <1>7, <1>8 DEF InHeaders, Latched, SameInput, SameScan
<1>10. ObjectInv(f)
  BY <1>2, <1>3, <1>4, <1>7, <1>9 DEF ObjectInv, SameOutput
<1> QED BY <1>1, <1>10, ReturnsNothing

\* jpeg_start_decompress.
LEMMA StartDecompressKeeps == JpegInv /\ jpeg_start_decompress => JpegInv'
<1> SUFFICES ASSUME JpegInv, jpeg_start_decompress PROVE JpegInv'
  OBVIOUS
<1>1. ObjectInv(cinfo)
  BY DEF JpegInv
<1>2. CASE In({"READY"})
  <2>1. InHeaders(cinfo) /\ cinfo.global_state = "READY" /\ cinfo.rowgroup_ctr \in 0..(DCTSIZE - 1)
    BY <1>1, <1>2 DEF In, ObjectInv, Waiting, Outputting
  <2>2. PICK mode \in Modes[cinfo.picture] :
          Return("start_decompress", Started(jinit_master_decompress(cinfo, mode)), <<>>)
    BY <1>2 DEF jpeg_start_decompress, In
  <2> DEFINE d == jinit_master_decompress(cinfo, mode)
  <2>3. Loaded(d) /\ FromTop(d) /\ ~d.is_dummy_pass /\ d.rowgroup_ctr = cinfo.rowgroup_ctr
    BY <2>1, MemoryTaken
  <2> HIDE DEF d
  <2>4. ObjectInv(Started(d))
    BY <2>1, <2>3, DecompressionStarts
  <2> QED BY <2>2, <2>4, ReturnsNothing DEF d
<1>3. CASE In({"PRELOAD"})
  <2>1. Waiting(cinfo) /\ cinfo.global_state = "PRELOAD" /\ cinfo.rowgroup_ctr \in 0..(DCTSIZE - 1)
    BY <1>1, <1>3 DEF In, ObjectInv, InHeaders, Outputting
  <2>2. Return("start_decompress", Preloaded(Consume(cinfo, "eoi")), <<>>)
    BY <1>3 DEF jpeg_start_decompress, In
  <2>3. ObjectInv(Preloaded(Consume(cinfo, "eoi")))
    BY <2>1, ScansTaken DEF Waiting
  <2> QED BY <2>2, <2>3, ReturnsNothing
<1>4. CASE In({"PRESCAN"})
  <2>1. Outputting(cinfo) /\ cinfo.global_state = "PRESCAN"
    BY <1>1, <1>4 DEF In, ObjectInv, InHeaders, Waiting
  <2>2. Return("start_decompress", output_pass_setup(cinfo), <<>>)
    BY <1>4 DEF jpeg_start_decompress, In
  <2>3. Outputting(output_pass_setup(cinfo))
    BY <2>1, PassGoesOn
  <2> QED BY <2>2, <2>3, ReturnsNothing DEF ObjectInv, Outputting
<1> QED BY <1>2, <1>3, <1>4 DEF jpeg_start_decompress

-----------------------------------------------------------------------------
(* The calls that give lines back.                                          *)

\* What is said of lines holds wherever the same is asked for.
LEMMA LinesKept ==
  ASSUME NEW d, NEW e, SameAsked(d, e), NEW lines, NEW y, LinesShow(d, lines, y)
  PROVE  LinesShow(e, lines, y)
BY ShowsKept DEF LinesShow, LineShows, SameAsked

\* A pass that gives lines to the application.
LEMMA PassOutputs ==
  ASSUME NEW d, Working(d), PassAt(d, d.output_scanline), d.global_state = "SCANNING",
         ~d.is_dummy_pass
  PROVE  Outputting(d)
<1>1. OutputInv(d)
  BY DEF OutputInv, PassAt, MainInv, Working
<1>2. d.rowgroup_ctr \in 0..(DCTSIZE - 1)
  BY DEF PassAt, MainAt
<1> QED BY <1>1, <1>2 DEF Outputting, PassAt

\* jpeg_read_scanlines.
LEMMA ReadScanlinesKeeps ==
  ASSUME JpegInv, NEW max_lines \in cinfo.mode.max_lines, jpeg_read_scanlines(max_lines)
  PROVE  JpegInv'
<1> DEFINE d == cinfo
           p == d.picture
           y == d.output_scanline
           r == process_data(d, max_lines)
           n == Len(r.lines)
           e == [r.d EXCEPT !.output_scanline = @ + n]
<1>1. Return("read_scanlines", e, r.lines) /\ d.global_state = "SCANNING" /\ y < p.height
  BY DEF jpeg_read_scanlines, In
<1>2. Outputting(d)
  BY <1>1 DEF JpegInv, ObjectInv, InHeaders, Waiting
<1>3. /\ Working(d) /\ OutputInv(d) /\ ~d.is_dummy_pass /\ ~d.mode.raw_data_out
      /\ IsObject(d) /\ p \in Pictures /\ d.mode \in Modes[p]
  BY <1>1, <1>2 DEF Outputting, Working, Memory, InputThere, Object, IsObject
<1>4. max_lines \in Nat
  BY <1>3, ModesAssumption
<1>5. CASE d.post_process = "2pass"
  <2>1. r = post_process_2pass(d, max_lines)
    BY <1>5 DEF process_data
  <2>2. /\ d.mode.quantize = "two" /\ d.output_iMCU_row \in 0..total_iMCU_rows(p)
        /\ d.rowgroup_ctr \in 0..(DCTSIZE - 1)
        /\ StripAt(d, y) /\ StripsShow(d, p.height)
    BY <1>3, <1>5 DEF OutputInv, StripInv
  <2> DEFINE f == r.d
  <2>3. /\ n \in Nat /\ y + n <= strip_rows(p)
        /\ LinesShow(d, r.lines, y) /\ SameCourse(d, f) /\ SameUpsampler(d, f)
        /\ StripAt(f, y + n) /\ StripsShow(f, p.height)
    BY <1>1, <1>3, <1>4, <2>1, <2>2, StripGivenOut
  <2>4. /\ IsObject(f) /\ f.picture = p /\ f.mode = d.mode /\ f.output_scanline = y
        /\ f.global_state = "SCANNING" /\ ~f.is_dummy_pass /\ f.post_process = "2pass"
        /\ f.output_iMCU_row = d.output_iMCU_row /\ f.rowgroup_ctr = d.rowgroup_ctr
        /\ SameWork(d, f)
    BY <1>1, <1>3, <1>5, <2>3
       DEF SameCourse, SameWork, SameInput, SameScan, SameUpsampler
  <2> HIDE DEF r, n
  <2>5. /\ SameWork(f, e) /\ SameStrips(f, e) /\ e.picture = p /\ e.mode = d.mode
        /\ e.output_scanline = y + n /\ e.global_state = "SCANNING" /\ ~e.is_dummy_pass
        /\ e.post_process = "2pass" /\ e.output_iMCU_row = d.output_iMCU_row
        /\ e.rowgroup_ctr = d.rowgroup_ctr
    BY <2>4 DEF IsObject, Fields, SameWork, SameStrips, SameInput, SameScan, SameData
  <2> HIDE DEF e
  <2>13. SameAsked(f, e) /\ SameAsked(d, e)
    BY <2>4, <2>5, WorkAsked, AskedOn
  <2>6. Working(e)
    BY <1>3, <2>4, <2>5, WorkingKept
  <2>7. StripAt(e, y + n)
    BY <2>3, <2>4, <2>5 DEF StripAt, SameStrips
  <2>8. StripsShow(e, p.height)
    BY <2>3, <2>4, <2>5, <2>13, ShowsKept DEF StripsShow, LineShows, SameStrips
  <2>9. OutputInv(e)
    BY <1>3, <2>2, <2>3, <2>5, <2>6, <2>7, <2>8 DEF OutputInv, StripInv, Working
  <2>10. Outputting(e)
    BY <1>3, <2>2, <2>5, <2>6, <2>9 DEF Outputting
  <2>11. ObjectInv(e)
    BY <2>2, <2>5, <2>10 DEF ObjectInv
  <2>12. LinesShow(e, r.lines, y)
    BY <2>3, <2>13, LinesKept
  <2> QED BY <1>1, <2>11, <2>12, Returns
<1>6. CASE d.post_process # "2pass"
  <2>1. r = process_data_simple_main(d, max_lines)
    BY <1>6 DEF process_data
  <2>2. PassAt(d, y)
    BY <1>3, <1>6 DEF OutputInv, PassAt, MainInv, StripInv
  <2> DEFINE f == r.d
  <2>3. /\ n \in Nat /\ LinesShow(d, r.lines, y)
        /\ Working(f) /\ SamePass(d, f) /\ PassAt(f, y + n)
    BY <1>1, <1>3, <1>4, <2>1, <2>2, LinesProcessed
  <2>4. /\ f.picture = p /\ f.mode = d.mode /\ f.global_state = "SCANNING"
        /\ f.output_scanline = y /\ ~f.is_dummy_pass /\ IsObject(f)
    BY <1>1, <1>3, <2>3 DEF SamePass, Working, InputThere, Object, IsObject
  <2> HIDE DEF r, n
  <2>5. /\ SameWork(f, e) /\ SameShown(f, e) /\ e.output_scanline = y + n
        /\ e.global_state = "SCANNING" /\ ~e.is_dummy_pass
        /\ e.picture = p /\ e.mode = d.mode
    BY <2>4
       DEF IsObject, Fields, SameWork, SameShown, SameAsked, SameUpsampler, SameStrips, SameInput,
           SameScan, SameData
  <2> HIDE DEF e
  <2>6. Working(e) /\ PassAt(e, e.output_scanline)
    BY <2>3, <2>5, WorkingKept, PassKept
  <2>7. Outputting(e)
    BY <2>5, <2>6, PassOutputs
  <2>8. ObjectInv(e)
    BY <2>7 DEF ObjectInv, Outputting
  <2>9. LinesShow(e, r.lines, y)
    BY <2>3, <2>5, AskedOn, LinesKept DEF SamePass, SameShown
  <2> QED BY <1>1, <2>8, <2>9, Returns
<1> QED BY <1>5, <1>6

\* jpeg_read_raw_data.
LEMMA ReadRawDataKeeps == JpegInv /\ jpeg_read_raw_data => JpegInv'
<1> SUFFICES ASSUME JpegInv, jpeg_read_raw_data PROVE JpegInv'
  OBVIOUS
<1> DEFINE d == cinfo
           p == d.picture
           y == d.output_scanline
           row == d.output_iMCU_row
           high == iMCU_height(p)
           f == Decompress(d)
           line(o) == [c \in Comps(p) |->
                         Row(f, c, (o * rowgroup_height(p, f.mode, c)) \div max_v_samp_factor(p))]
           lines == [o \in 1..high |-> line(o - 1)]
           e == [f EXCEPT !.output_scanline = @ + high]
<1>1. /\ d.global_state = "RAW_OK" /\ y < p.height
      /\ IF f.ret = "SUSPENDED" THEN Return("read_raw_data", f, <<>>)
         ELSE Return("read_raw_data", e, lines)
  BY DEF jpeg_read_raw_data, In, iMCU_height
<1>2. Outputting(d)
  BY <1>1 DEF JpegInv, ObjectInv, InHeaders, Waiting
<1>3. /\ Working(d) /\ ~d.is_dummy_pass /\ d.mode.raw_data_out /\ p \in Pictures
      /\ row \in 0..total_iMCU_rows(p) /\ y = row * high /\ d.rowgroup_ctr \in 0..(DCTSIZE - 1)
  BY <1>1, <1>2 DEF Outputting, OutputInv, Working, InputThere, Object
<1>4. /\ total_iMCU_rows(p) \in Nat /\ high \in Nat /\ row \in Nat
      /\ row \in 0..(total_iMCU_rows(p) - 1)
  <2>1. total_iMCU_rows(p) \in Nat /\ high \in Nat
    BY <1>3, Sizes
  <2>2. row \in Nat
    BY <1>3, <2>1
  <2> HIDE DEF row
  <2> QED BY <1>1, <1>3, <2>1, <2>2, RowOfLine DEF row
<1>5. Working(f) /\ RowCame(d, f)
  BY <1>3, <1>4, RowOut
<1> HIDE DEF f
<1>6. /\ f.picture = p /\ f.mode = d.mode /\ f.global_state = "RAW_OK" /\ f.output_scanline = y
      /\ ~f.is_dummy_pass /\ f.rowgroup_ctr = d.rowgroup_ctr /\ IsObject(f)
  BY <1>1, <1>3, <1>5 DEF RowCame, SameLines, InputThere, Object, IsObject
<1>7. CASE f.ret = "SUSPENDED"
  <2>1. f.output_iMCU_row = row
    BY <1>5, <1>7 DEF RowCame
  <2>2. Outputting(f)
    BY <1>3, <1>5, <1>6, <2>1 DEF Outputting, OutputInv, Working
  <2>3. ObjectInv(f)
    BY <2>2 DEF ObjectInv, Outputting
  <2> QED BY <1>1, <1>7, <2>3, ReturnsNothing
<1>8. CASE f.ret # "SUSPENDED"
  <2>1. f.output_iMCU_row = row + 1 /\ BufferShows(f, row)
    BY <1>5, <1>8 DEF RowCame
  <2>2. /\ SameWork(f, e) /\ e.output_scanline = y + high /\ e.picture = p /\ e.mode = d.mode
        /\ e.global_state = "RAW_OK" /\ ~e.is_dummy_pass /\ e.rowgroup_ctr = d.rowgroup_ctr
        /\ e.output_iMCU_row = row + 1
    BY <1>6, <2>1 DEF IsObject, Fields, SameWork, SameInput, SameScan, SameData
  <2> HIDE DEF e
  <2>3. Working(e)
    BY <1>5, <2>2, WorkingKept
  <2>4. y + high = (row + 1) * high /\ row + 1 \in 0..total_iMCU_rows(p)
    <3> HIDE DEF row, high
    <3> QED BY <1>3, <1>4
  <2>5. Outputting(e)
    BY <1>3, <2>2, <2>3, <2>4 DEF Outputting, OutputInv, Working
  <2>6. ObjectInv(e)
    BY <2>5 DEF ObjectInv, Outputting
  <2>7. LinesShow(e, lines, y)
    <3> SUFFICES ASSUME NEW o \in 1..high, NEW c \in Comps(p)
                 PROVE  Shows(e, c, lines[o][c], y + o - 1)
      BY <1>4, <2>2 DEF LinesShow, LineShows
    <3> DEFINE j == o - 1
    <3>1. j \in 0..(high - 1)
      BY <1>4
    <3>2. lines[o][c] =
            Row(f, c, (j * rowgroup_height(p, f.mode, c)) \div max_v_samp_factor(p))
      OBVIOUS
    <3>3. Shows(f, c, lines[o][c], row * high + j)
      <4> HIDE DEF j, lines
      <4> QED BY <1>3, <1>4, <1>6, <2>1, <3>1, <3>2, RowShows
    <3>4. y + o - 1 = row * high + j
      BY <1>3
    <3> QED BY <2>2, <3>3, <3>4, WorkAsked, ShowsKept
  <2> QED BY <1>1, <1>8, <2>6, <2>7, Returns
<1> QED BY <1>7, <1>8

-----------------------------------------------------------------------------
(* The calls that give none.                                                *)

\* What input leaves alone is enough for output.
LEMMA InputLeaves ==
  ASSUME NEW d, NEW e, SameOutput(d, e), e.buffer = d.buffer
  PROVE  SameShown(d, e)
BY DEF SameOutput, SameShown, SameAsked, SameUpsampler, SameStrips

\* jpeg_consume_input.
LEMMA ConsumeInputKeeps == JpegInv /\ jpeg_consume_input => JpegInv'
<1> SUFFICES ASSUME JpegInv, jpeg_consume_input PROVE JpegInv'
  OBVIOUS
<1> DEFINE d == cinfo
           e == consume_input(d)
<1>1. /\ Return("consume_input", e, <<>>)
      /\ d.global_state \in {"PRELOAD", "PRESCAN", "SCANNING", "RAW_OK", "BUFIMAGE", "BUFPOST",
                             "STOPPING"}
  BY DEF jpeg_consume_input, In
<1>2. /\ Waiting(d) \/ Outputting(d)
      /\ d.rowgroup_ctr \in 0..(DCTSIZE - 1)
  BY <1>1 DEF JpegInv, ObjectInv, InHeaders
<1>3. Loaded(d)
  BY <1>2 DEF Waiting, Outputting, Working, Loaded
<1>4. Went(d, e) /\ Reading(e) /\ (InStep(d) => InStep(e)) /\ e.buffer = d.buffer
  BY <1>3, InputConsumed DEF Loaded, Memory, ImageRight
<1> HIDE DEF e
<1>5. Memory(e)
  BY <1>3, <1>4, MemoryKept DEF Loaded, Went, SameOutput, SameLines, SameMemory, SameInMemory
<1>6. Loaded(e) /\ SameOutput(d, e)
  BY <1>3, <1>4, <1>5 DEF Loaded, Went, SameOutput
<1>7. Waiting(d) => Waiting(e)
  BY <1>6 DEF Waiting, SameOutput
<1>8. Outputting(d) => Outputting(e)
  <2> SUFFICES ASSUME Outputting(d) PROVE Outputting(e)
    OBVIOUS
  <2>3. Prepared(e)
    BY <1>6, PreparedKept DEF Outputting, Working, SameOutput
  <2>1. Working(e)
    BY <1>4, <1>6, <2>3 DEF Outputting, Working, Loaded
  <2>2. OutputInv(e)
    BY <1>4, <1>6, <2>1, InputLeaves, OutputKept DEF Outputting, Working, SameOutput
  <2> QED BY <1>6, <2>1, <2>2 DEF Outputting, SameOutput
<1>9. ObjectInv(e)
  BY <1>2, <1>6, <1>7, <1>8 DEF ObjectInv, SameOutput
<1> QED BY <1>1, <1>9, ReturnsNothing

\* jpeg_start_output.
LEMMA StartOutputKeeps == JpegInv /\ jpeg_start_output => JpegInv'
<1> SUFFICES ASSUME JpegInv, jpeg_start_output PROVE JpegInv'
  OBVIOUS
<1> DEFINE d == cinfo
<1>1. CASE In({"BUFIMAGE"})
  <2>1. /\ Waiting(d) /\ d.global_state = "BUFIMAGE" /\ d.rowgroup_ctr \in 0..(DCTSIZE - 1)
        /\ d.mode.buffered_image
    BY <1>1 DEF JpegInv, ObjectInv, InHeaders, Outputting, In, jpeg_start_output, Buffered
  <2>2. PICK scan \in 1..(Len(d.picture.scans) + 1), again \in BOOLEAN :
          /\ scan <= d.input_scan_number \/ d.mode.ahead
          /\ LET target == IF d.eoi_reached THEN Min({scan, d.input_scan_number}) ELSE scan
             IN Return("start_output",
                       output_pass_setup([d EXCEPT !.output_scan_number = target,
                                                   !.colormap = @ /\ ~again]), <<>>)
    BY <2>1, Zenon DEF jpeg_start_output, In
  <2> DEFINE target == IF d.eoi_reached THEN Min({scan, d.input_scan_number}) ELSE scan
             map == d.colormap /\ ~again
             f == [d EXCEPT !.output_scan_number = target, !.colormap = map]
  <2>3. /\ IsObject(d) /\ Loaded(d) /\ ~d.is_dummy_pass /\ d.decompress_data # "onepass"
        /\ d.picture \in Pictures /\ d.mode \in Modes[d.picture]
    BY <2>1 DEF Waiting, Loaded, Memory, InputThere, Object, IsObject
  <2>4. Return("start_output", output_pass_setup(f), <<>>)
    BY <2>2, <2>3 DEF IsObject, Fields
  <2>9. /\ target \in Nat
        /\ NeverAhead => target <= d.input_scan_number
    <3>1. d.input_scan_number \in Nat /\ scan \in Nat
      <4>1. Len(d.picture.scans) \in Nat
        BY <2>3, Scans
      <4> QED BY <2>3, <4>1, ScanCounted
    <3>2. NeverAhead => scan <= d.input_scan_number
      BY <2>2, <2>3 DEF NeverAhead
    <3>3. /\ Min({scan, d.input_scan_number}) \in {scan, d.input_scan_number}
          /\ Min({scan, d.input_scan_number}) <= d.input_scan_number
      BY <3>1, LeastOfTwo
    <3> QED BY <3>1, <3>2, <3>3
  <2> HIDE DEF map, target
  <2>5. /\ IsObject(f) /\ \A x \in Fields \ {"output_scan_number", "colormap"} : f[x] = d[x]
        /\ f.global_state = "BUFIMAGE" /\ f.is_dummy_pass = d.is_dummy_pass
        /\ f.rowgroup_ctr = d.rowgroup_ctr /\ f.decompress_data = d.decompress_data
        /\ f.output_scan_number = target /\ f.input_scan_number = d.input_scan_number
    BY <2>1, <2>3 DEF IsObject, Fields
  <2> HIDE DEF f
  <2>6. Loaded(f) /\ FromTop(f) /\ Asked(f)
    BY <2>3, <2>5, <2>9, LoadedAsks DEF FromTop, Asked
  <2>7. Outputting(output_pass_setup(f))
    BY <2>1, <2>3, <2>5, <2>6, PassBegins
  <2>8. ObjectInv(output_pass_setup(f))
    BY <2>7 DEF ObjectInv, Outputting
  <2> QED BY <2>4, <2>8, ReturnsNothing
<1>2. CASE In({"PRESCAN"})
  <2>1. Outputting(d) /\ d.global_state = "PRESCAN"
    BY <1>2 DEF JpegInv, ObjectInv, InHeaders, Waiting, In
  <2>2. Return("start_output", output_pass_setup(d), <<>>)
    BY <1>2 DEF jpeg_start_output, In
  <2>3. Outputting(output_pass_setup(d))
    BY <2>1, PassGoesOn
  <2> QED BY <2>2, <2>3, ReturnsNothing DEF ObjectInv, Outputting
<1> QED BY <1>1, <1>2 DEF jpeg_start_output

\* The loop at the end of a pass, or of decompression.
LEMMA LoadedWaits ==
  ASSUME NEW d, Waiting(d), d.rowgroup_ctr \in 0..(DCTSIZE - 1), NEW why
  PROVE  LET e == Consume(d, why)
         IN Waiting(e) /\ SameOutput(d, e) /\ e.rowgroup_ctr \in 0..(DCTSIZE - 1)
<1> DEFINE e == Consume(d, why)
<1>1. Loaded(e) /\ SameOutput(d, e)
  BY LoadedGoesOn DEF Waiting
<1> HIDE DEF e
<1> QED BY <1>1 DEF Waiting, SameOutput, e

\* finish_output_pass, and the state that comes then.
LEMMA PassFinished ==
  ASSUME NEW d, Outputting(d), d.global_state \in {"SCANNING", "RAW_OK"},
         NEW state \in {"BUFPOST", "STOPPING"}
  PROVE  LET e == [finish_output_pass(d) EXCEPT !.global_state = state]
         IN Waiting(e) /\ e.global_state = state /\ e.rowgroup_ctr \in 0..(DCTSIZE - 1)
<1> DEFINE f == finish_output_pass(d)
           e == [f EXCEPT !.global_state = state]
<1>1. IsObject(d) /\ Loaded(d) /\ ~d.is_dummy_pass /\ d.rowgroup_ctr \in 0..(DCTSIZE - 1)
  BY DEF Outputting, Working, Loaded, InputThere, Object, IsObject
<1>2. /\ SameWork(d, f) /\ f.is_dummy_pass = d.is_dummy_pass /\ f.rowgroup_ctr = d.rowgroup_ctr
      /\ IsObject(f)
  BY <1>1 DEF finish_output_pass, IsObject, Fields, SameWork, SameInput, SameScan, SameData
<1> HIDE DEF f
<1>3. /\ SameWork(f, e) /\ e.is_dummy_pass = f.is_dummy_pass /\ e.rowgroup_ctr = f.rowgroup_ctr
      /\ e.global_state = state
  BY <1>2 DEF IsObject, Fields, SameWork, SameInput, SameScan, SameData
<1> HIDE DEF e
<1>4. Loaded(e)
  BY <1>1, <1>2, <1>3, LoadedKept
<1> QED BY <1>1, <1>2, <1>3, <1>4 DEF Waiting, e, f

\* jpeg_finish_output.
LEMMA FinishOutputKeeps == JpegInv /\ jpeg_finish_output => JpegInv'
<1> SUFFICES ASSUME JpegInv, jpeg_finish_output PROVE JpegInv'
  OBVIOUS
<1> DEFINE d == IF In({"BUFPOST"}) THEN cinfo
                ELSE [finish_output_pass(cinfo) EXCEPT !.global_state = "BUFPOST"]
           e == Consume(d, "scan")
           state == IF e.ret = "SUSPENDED" THEN e.global_state ELSE "BUFIMAGE"
           f == [e EXCEPT !.global_state = state]
<1>1. cinfo.global_state \in {"SCANNING", "RAW_OK", "BUFPOST"}
  BY DEF jpeg_finish_output, In
<1>2. Return("finish_output",
             [e EXCEPT !.global_state = IF e.ret = "SUSPENDED" THEN @ ELSE "BUFIMAGE"], <<>>)
  BY DEF jpeg_finish_output
<1>3. Waiting(d) /\ d.global_state = "BUFPOST" /\ d.rowgroup_ctr \in 0..(DCTSIZE - 1)
  <2>1. CASE cinfo.global_state = "BUFPOST"
    BY <2>1 DEF JpegInv, ObjectInv, InHeaders, Outputting, In
  <2>2. CASE cinfo.global_state \in {"SCANNING", "RAW_OK"}
    <3>1. Outputting(cinfo)
      BY <2>2 DEF JpegInv, ObjectInv, InHeaders, Waiting
    <3>2. d = [finish_output_pass(cinfo) EXCEPT !.global_state = "BUFPOST"]
      BY <2>2 DEF In
    <3> HIDE DEF d
    <3> QED BY <2>2, <3>1, <3>2, PassFinished
  <2> QED BY <1>1, <2>1, <2>2
<1> HIDE DEF d
<1>4. Waiting(e) /\ e.global_state = "BUFPOST" /\ e.rowgroup_ctr \in 0..(DCTSIZE - 1)
  BY <1>3, LoadedWaits DEF SameOutput
<1> HIDE DEF e
<1>5. IsObject(e) /\ Loaded(e) /\ ~e.is_dummy_pass
  BY <1>4 DEF Waiting, Loaded, InputThere, Object, IsObject
<1>6. Return("finish_output", f, <<>>)
  BY <1>2
<1>7. state \in {"BUFPOST", "BUFIMAGE"}
  BY <1>4
<1> HIDE DEF state
<1>8. /\ SameWork(e, f) /\ f.is_dummy_pass = e.is_dummy_pass /\ f.rowgroup_ctr = e.rowgroup_ctr
      /\ f.global_state = state
  BY <1>5 DEF IsObject, Fields, SameWork, SameInput, SameScan, SameData
<1> HIDE DEF f
<1>9. Loaded(f)
  BY <1>5, <1>8, LoadedKept
<1>10. ObjectInv(f)
  BY <1>4, <1>5, <1>7, <1>8, <1>9 DEF ObjectInv, Waiting
<1> QED BY <1>6, <1>10, ReturnsNothing

\* The object that jpeg_abort leaves may serve for another picture.
LEMMA ObjectFreed ==
  ASSUME NEW e, Waiting(e), e.eoi_reached, e.rowgroup_ctr \in 0..(DCTSIZE - 1), NEW p \in Pictures,
         cinfo' = [jpeg_abort(e) EXCEPT !.picture = p, !.position = 0, !.ret = "ENOUGH"],
         arrived' = 0
  PROVE  ObjectInv(cinfo)'
<1> DEFINE f == [jpeg_abort(e) EXCEPT !.picture = p, !.position = 0, !.ret = "ENOUGH"]
<1>1. IsObject(e) /\ e.consume_input = "markers" /\ e.output_scan_number \in Nat
  <2>1. AtEnd(e) /\ e.output_scan_number \in Nat
    BY DEF Waiting, Loaded, Reading, AmongMarkers, InScan, InRow, ScanAtHand
  <2> QED BY <2>1 DEF Waiting, Loaded, InputThere, Object, IsObject, AtEnd
<1>2. /\ IsObject(f) /\ f.picture = p /\ f.position = 0 /\ f.global_state = "START"
      /\ f.consume_input = "markers" /\ f.rowgroup_ctr = e.rowgroup_ctr
      /\ f.output_scan_number \in Nat
  BY <1>1 DEF jpeg_abort, IsObject, Fields
<1> HIDE DEF f
<1>3. Object(f)
  BY <1>2 DEF Object, IsObject
<1>4. Len(Stream(f)) \in Nat
  BY <1>3, StreamAt
<1>5. cinfo' = f
  BY DEF f
<1>6. InputThere(cinfo)'
  BY <1>2, <1>3, <1>4, <1>5 DEF InputThere
<1> QED BY <1>2, <1>5, <1>6 DEF ObjectInv, InHeaders

\* jpeg_finish_decompress.
LEMMA FinishDecompressKeeps == JpegInv /\ jpeg_finish_decompress => JpegInv'
<1> SUFFICES ASSUME JpegInv, jpeg_finish_decompress PROVE JpegInv'
  OBVIOUS
<1> DEFINE c == IF In({"SCANNING", "RAW_OK"}) THEN finish_output_pass(cinfo) ELSE cinfo
           d == [c EXCEPT !.global_state = "STOPPING"]
           e == Consume(d, "eoi")
<1>1. cinfo.global_state \in {"SCANNING", "RAW_OK", "BUFIMAGE", "STOPPING"}
  BY DEF jpeg_finish_decompress, In
<1>2. \/ Return("finish_decompress", e, <<>>)
      \/ /\ e.eoi_reached
         /\ \E p \in Pictures :
              cinfo' = [jpeg_abort(e) EXCEPT !.picture = p, !.position = 0, !.ret = "ENOUGH"]
         /\ arrived' = 0 /\ returned' = Nothing
  BY DEF jpeg_finish_decompress
<1>3. Waiting(d) /\ d.rowgroup_ctr \in 0..(DCTSIZE - 1)
  <2>1. CASE cinfo.global_state \in {"SCANNING", "RAW_OK"}
    <3>1. Outputting(cinfo)
      BY <2>1 DEF JpegInv, ObjectInv, InHeaders, Waiting
    <3>2. d = [finish_output_pass(cinfo) EXCEPT !.global_state = "STOPPING"]
      BY <2>1 DEF In
    <3> HIDE DEF d
    <3> QED BY <2>1, <3>1, <3>2, PassFinished
  <2>2. CASE cinfo.global_state \in {"BUFIMAGE", "STOPPING"}
    <3>1. /\ Waiting(cinfo) /\ cinfo.rowgroup_ctr \in 0..(DCTSIZE - 1)
          /\ d = [cinfo EXCEPT !.global_state = "STOPPING"]
      BY <2>2 DEF JpegInv, ObjectInv, InHeaders, Outputting, In
    <3> HIDE DEF d
    <3>2. IsObject(cinfo) /\ Loaded(cinfo) /\ ~cinfo.is_dummy_pass
      BY <3>1 DEF Waiting, Loaded, InputThere, Object, IsObject
    <3>3. /\ SameWork(cinfo, d) /\ d.is_dummy_pass = cinfo.is_dummy_pass
          /\ d.rowgroup_ctr = cinfo.rowgroup_ctr /\ d.global_state = "STOPPING"
      BY <3>1, <3>2 DEF IsObject, Fields, SameWork, SameInput, SameScan, SameData
    <3>4. Loaded(d)
      BY <3>2, <3>3, LoadedKept
    <3> QED BY <3>1, <3>2, <3>3, <3>4 DEF Waiting
  <2> QED BY <1>1, <2>1, <2>2
<1> HIDE DEF d
<1>4. Waiting(e) /\ e.rowgroup_ctr \in 0..(DCTSIZE - 1)
  BY <1>3, LoadedWaits
<1> HIDE DEF e
<1>5. CASE Return("finish_decompress", e, <<>>)
  <2>1. ObjectInv(e)
    BY <1>4 DEF ObjectInv
  <2> QED BY <1>5, <2>1, ReturnsNothing
<1>6. CASE ~Return("finish_decompress", e, <<>>)
  <2>1. PICK p \in Pictures :
          cinfo' = [jpeg_abort(e) EXCEPT !.picture = p, !.position = 0, !.ret = "ENOUGH"]
    BY <1>2, <1>6
  <2>2. e.eoi_reached /\ arrived' = 0 /\ returned' = Nothing
    BY <1>2, <1>6
  <2>3. ObjectInv(cinfo)'
    BY <1>4, <2>1, <2>2, ObjectFreed
  <2>4. LinesRight'
    BY <2>2, NoLinesRight
  <2> QED BY <2>3, <2>4 DEF JpegInv
<1> QED BY <1>5, <1>6

-----------------------------------------------------------------------------
(***************************************************************************)
(* The theorems.                                                           *)
(***************************************************************************)

\* A new object.
LEMMA JpegInitiates == Init => JpegInv
<1> SUFFICES ASSUME Init PROVE JpegInv
  OBVIOUS
<1>1. /\ Object(cinfo) /\ cinfo.global_state = "START" /\ cinfo.position = 0
      /\ cinfo.consume_input = "markers" /\ cinfo.rowgroup_ctr = 0
      /\ cinfo.output_scan_number = 0 /\ arrived = 0 /\ returned = Nothing
  BY DEF Init, Object, Fields
<1>2. Len(Stream(cinfo)) \in Nat
  BY <1>1, StreamAt
<1>3. InputThere(cinfo)
  BY <1>1, <1>2 DEF InputThere
<1>4. ObjectInv(cinfo)
  BY <1>1, <1>3, DctSizeAssumption DEF ObjectInv, InHeaders
<1>5. LinesRight
  BY <1>1 DEF LinesRight, LinesInPlace, LinesComplete, NeighboursThere, Lines, Nothing
<1> QED BY <1>4, <1>5 DEF JpegInv

\* No call breaks the invariant.
LEMMA JpegSteps == JpegInv /\ [Next]_vars => JpegInv'
<1> SUFFICES ASSUME JpegInv, [Next]_vars PROVE JpegInv'
  OBVIOUS
<1>1. CASE Arrive
  BY <1>1, ArriveKeeps
<1>2. CASE jpeg_read_header
  BY <1>2, ReadHeaderKeeps
<1>3. CASE jpeg_start_decompress
  BY <1>3, StartDecompressKeeps
<1>4. CASE \E max_lines \in cinfo.mode.max_lines : jpeg_read_scanlines(max_lines)
  BY <1>4, ReadScanlinesKeeps
<1>5. CASE jpeg_read_raw_data
  BY <1>5, ReadRawDataKeeps
<1>6. CASE jpeg_consume_input
  BY <1>6, ConsumeInputKeeps
<1>7. CASE jpeg_start_output
  BY <1>7, StartOutputKeeps
<1>8. CASE jpeg_finish_output
  BY <1>8, FinishOutputKeeps
<1>9. CASE jpeg_finish_decompress
  BY <1>9, FinishDecompressKeeps
<1>10. CASE UNCHANGED vars
  <2>1. cinfo' = cinfo /\ arrived' = arrived /\ returned' = returned
    BY <1>10 DEF vars
  <2>2. ObjectInv(cinfo)'
    BY <2>1 DEF JpegInv, ObjectInv, InHeaders, Waiting, Loaded, Outputting, Working, InputThere, Reading
  <2>3. LinesInPlace'
    BY <2>1 DEF JpegInv, LinesRight, LinesInPlace, Lines, ShownAt
  <2>4. (NeverAhead => LinesComplete)'
    <3>1. \A c : {s \in ScansOf(cinfo'.picture, c) : s <= cinfo'.output_scan_number}
                 = {s \in ScansOf(cinfo.picture, c) : s <= cinfo.output_scan_number}
      BY <2>1
    <3> QED BY <2>1, <3>1 DEF JpegInv, LinesRight, LinesComplete, Lines, ShownAt
  <2>5. NeighboursThere'
    <3> DEFINE p == cinfo.picture
               lines == returned.lines
               y(i) == returned.first + i - 1
               dc(c) == {s \in ScansOf(p, c) : s <= cinfo.output_scan_number /\ p.scans[s].Ss = 0}
               above(c, i) == Max({0, BlockRow(p, c, y(i)) - 1})
               below(c, i) == Min({height_in_blocks(p, c) - 1, BlockRow(p, c, y(i)) + 1})
    <3>1. ASSUME NEW i \in 1..Len(lines), y(i) < p.height, NEW c \in Comps(p),
                 NEW x \in 1..width_in_blocks(p, c), lines[i][c].blocks[x].near # <<>>,
                 NEW s \in dc(c)
          PROVE  /\ <<s, above(c, i), x - 1>> \in lines[i][c].blocks[x].near[1]
                 /\ <<s, below(c, i), x - 1>> \in lines[i][c].blocks[x].near[2]
      <4>1. NeighboursThere /\ i \in Lines
        BY <3>1 DEF JpegInv, LinesRight, Lines
      <4> HIDE DEF dc
      <4> QED BY <3>1, <4>1 DEF NeighboursThere, ShownAt, dc
    <3>2. cinfo'.picture = p /\ returned' = returned
      BY <2>1
    <3>3. \A c : {s \in ScansOf(cinfo'.picture, c) :
                   s <= cinfo'.output_scan_number /\ cinfo'.picture.scans[s].Ss = 0} = dc(c)
      BY <2>1
    <3> HIDE DEF dc, y
    <3> QED BY <3>1, <3>2, <3>3 DEF NeighboursThere, Lines, ShownAt, y
  <2> QED BY <2>2, <2>3, <2>4, <2>5 DEF JpegInv, LinesRight
<1> QED BY <1>1, <1>2, <1>3, <1>4, <1>5, <1>6, <1>7, <1>8, <1>9, <1>10 DEF Next

\* The inductive invariant holds.
LEMMA JpegInvariant == Spec => []JpegInv
BY JpegInitiates, JpegSteps, PTL DEF Spec

\* What the invariant says of the counters.
LEMMA CountersRight == JpegInv => JpegTypeOK
<1> SUFFICES ASSUME JpegInv PROVE JpegTypeOK
  OBVIOUS
<1> DEFINE d == cinfo
           p == d.picture
<1>1. /\ ObjectInv(d) /\ InputThere(d) /\ p \in Pictures
      /\ d.rowgroup_ctr \in 0..(DCTSIZE - 1)
  BY DEF JpegInv, ObjectInv, InHeaders, Waiting, Outputting, Loaded, Working, InputThere, Object
<1>2. Len(p.scans) \in Nat /\ p.height \in Nat /\ total_iMCU_rows(p) \in Nat
  BY <1>1, Scans, Sizes
<1>3. \/ d.global_state = "START" /\ d.consume_input = "markers"
      \/ d.global_state \in {"INHEADER", "READY"} /\ (AmongMarkers(d) \/ ScanBegins(d))
      \/ d.global_state \notin {"START", "INHEADER", "READY"} /\ Reading(d)
  BY <1>1 DEF ObjectInv, InHeaders, Waiting, Outputting, Loaded, Working
<1>4. ~In({"START"}) => d.input_scan_number \in 0..Len(p.scans)
  BY <1>2, <1>3 DEF In, Reading, AmongMarkers, ScanBegins, InScan, InRow, ScanAtHand, AtEnd
<1>5. d.consume_input = "data" =>
        /\ d.input_iMCU_row \in 0..(total_iMCU_rows(p) - 1)
        /\ d.MCU_ctr \in 0..(MCUs_per_row(p, d.comps_in_scan) - 1)
        /\ d.MCU_vert_offset \in 0..(d.MCU_rows_per_iMCU_row - 1)
  <2> SUFFICES ASSUME d.consume_input = "data"
               PROVE  /\ d.input_iMCU_row \in 0..(total_iMCU_rows(p) - 1)
                      /\ d.MCU_ctr \in 0..(MCUs_per_row(p, d.comps_in_scan) - 1)
                      /\ d.MCU_vert_offset \in 0..(d.MCU_rows_per_iMCU_row - 1)
    OBVIOUS
  <2>1. InScan(d)
    BY <1>3 DEF Reading, AmongMarkers, ScanBegins, AtEnd
  <2>2. /\ ScanAtHand(d) /\ d.input_iMCU_row \in 0..(total_iMCU_rows(p) - 1)
        /\ d.MCU_ctr \in 0..(MCUs_per_row(p, d.comps_in_scan) - 1)
        /\ d.MCU_rows_per_iMCU_row = RowsOfMcus(p, d.comps_in_scan, d.input_iMCU_row)
        /\ d.MCU_vert_offset \in 0..d.MCU_rows_per_iMCU_row
        /\ d.MCU_vert_offset # d.MCU_rows_per_iMCU_row
    BY <2>1 DEF InScan, InRow, RowDone
  <2>3. /\ d.comps_in_scan \in Seq(Comps(p)) /\ d.comps_in_scan # <<>>
    BY <1>1, <2>2, AtHand
  <2>4. /\ WholeRows(p, d.comps_in_scan) \in 1..4
        /\ d.MCU_rows_per_iMCU_row \in 1..WholeRows(p, d.comps_in_scan)
    BY <1>1, <2>2, <2>3, RowsDivided
  <2>5. d.MCU_rows_per_iMCU_row \in Nat
    BY <2>4
  <2> QED BY <2>2, <2>5
<1>6. In({"SCANNING"}) =>
        /\ d.output_iMCU_row \in 0..total_iMCU_rows(p)
        /\ d.output_scanline \in 0..(IF d.post_process = "2pass" THEN strip_rows(p) ELSE p.height)
        /\ d.post_process # "2pass" => d.rows_to_go = p.height - d.output_scanline
  <2> SUFFICES ASSUME In({"SCANNING"})
               PROVE  /\ d.output_iMCU_row \in 0..total_iMCU_rows(p)
                      /\ d.output_scanline \in
                           0..(IF d.post_process = "2pass" THEN strip_rows(p) ELSE p.height)
                      /\ d.post_process # "2pass" => d.rows_to_go = p.height - d.output_scanline
    OBVIOUS
  <2>1. OutputInv(d) /\ ~d.mode.raw_data_out
    BY <1>1 DEF In, ObjectInv, InHeaders, Waiting, Outputting
  <2>2. CASE d.post_process = "2pass"
    <3>1. /\ d.output_iMCU_row \in 0..total_iMCU_rows(p) /\ d.output_scanline <= strip_rows(p)
          /\ StripAt(d, d.output_scanline)
      BY <2>1, <2>2 DEF OutputInv, StripInv
    <3>2. 1 \in Comps(p) /\ strip_rows(p) \in Nat /\ max_v_samp_factor(p) \in Nat
      BY <1>1, Sizes, Factors, StripArithmetic
    <3>3. d.output_scanline \in Nat
      BY <3>1, <3>2 DEF StripAt
    <3> QED BY <2>2, <3>1, <3>2, <3>3
  <2>3. CASE d.post_process # "2pass"
    <3>1. Counters(d, d.output_scanline)
      BY <2>1, <2>3 DEF OutputInv, MainInv, MainAt
    <3> QED BY <2>3, <3>1 DEF Counters
  <2> QED BY <2>2, <2>3
<1>7. arrived \in 0..Len(Stream(d)) /\ d.position \in 0..arrived
  BY <1>1 DEF InputThere
<1> QED BY <1>1, <1>4, <1>5, <1>6, <1>7 DEF JpegTypeOK

\* The counters stay within the picture, and the upsampler has as many rows to
\* go as the application has not got, for every picture and every mode.
THEOREM JpegTypeCorrect == Spec => []JpegTypeOK
BY JpegInvariant, CountersRight, PTL

\* What the invariant says of the place of input.
LEMMA PlaceRight == JpegInv => NothingSkipped
<1> SUFFICES ASSUME JpegInv, cinfo.consume_input = "data"
             PROVE  Ahead(cinfo) = McuHere(cinfo)
  BY DEF NothingSkipped, Ahead, McuHere, McuRow
<1>1. InScan(cinfo)
  BY DEF JpegInv, ObjectInv, InHeaders, Waiting, Outputting, Loaded, Working, Reading,
         AmongMarkers, ScanBegins, AtEnd
<1> QED BY <1>1 DEF InScan, InRow

\* Input goes on with the MCU that its counters say, wherever and however often
\* a call was suspended (MCU_ctr, MCU_vert_offset and MCU_rows_per_iMCU_row).
THEOREM NothingIsSkipped == Spec => []NothingSkipped
BY JpegInvariant, PlaceRight, PTL

\* Every line the application gets is the next one of the picture and shows
\* what the coder took from there, in every mode and for every picture.
THEOREM LinesAreInPlace == Spec => []LinesInPlace
<1>1. JpegInv => LinesInPlace
  BY DEF JpegInv, LinesRight
<1> QED BY <1>1, JpegInvariant, PTL

\* An application that only asks for scans whose start has been read gets lines
\* that show all that the scans up to the one asked for say of them, each
\* component with the quantization table of its own first scan (decompress_data,
\* decompress_smooth_data, latch_quant_tables, start_pass of jddctmgr.c).
THEOREM LinesAreComplete ==
  ASSUME NeverAhead
  PROVE  Spec => []LinesComplete
<1>1. JpegInv => LinesComplete
  BY DEF JpegInv, LinesRight
<1> QED BY <1>1, JpegInvariant, PTL

\* Smoothing finds what those scans say of the rows above and below the line it
\* shows (decompress_smooth_data, which reads a row ahead in a DC scan), also if
\* the application asks for a scan whose start has not been read.
THEOREM NeighboursAreThere == Spec => []NeighboursThere
<1>1. JpegInv => NeighboursThere
  BY DEF JpegInv, LinesRight
<1> QED BY <1>1, JpegInvariant, PTL

=============================================================================
