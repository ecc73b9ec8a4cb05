-------------------------- MODULE JpegInputProofs --------------------------
(***************************************************************************)
(* The input side of the decompressor, of every picture: what its data     *)
(* are, where input is in them between any two steps, and where the        *)
(* coefficients that it reads go.  JpegDecompressProofs rests on this.     *)
(***************************************************************************)
EXTENDS JpegDecompress, FiniteSetTheorems, TLAPS

-----------------------------------------------------------------------------
(***************************************************************************)
(* Numbers: induction, and the laws of a division that rounds down.        *)
(***************************************************************************)

\* Numbers in their order: a set of numbers that is not empty has a least one,
\* and one that holds 0 and the successors of its members holds all.
Less == {ss \in Nat \X Nat : ss[1] < ss[2]}

\* There is no infinite descent in the numbers.
LEMMA LessWellFounded == IsWellFoundedOn(Less, Nat)
BY NatLessThanWellFounded, Zenon DEF OpToRel, Less

\* The least-number principle.
LEMMA LeastNat ==
  ASSUME NEW T, T \subseteq Nat, T # {}
  PROVE  \E n \in T : \A m \in T : n <= m
<1>1. PICK n \in T : \A m \in T : ~(<<m, n>> \in Less)
  BY LessWellFounded, WFMin
<1>2. \A m \in T : ~(m < n)
  BY <1>1 DEF Less
<1> QED
  BY <1>2

\* The least of two numbers.
LEMMA LeastOfTwo ==
  ASSUME NEW a \in Nat, NEW b \in Nat
  PROVE  Min({a, b}) \in Nat /\ Min({a, b}) <= a /\ Min({a, b}) <= b
         /\ (Min({a, b}) = a \/ Min({a, b}) = b)
<1> DEFINE T == {a, b}
<1>1. \E x \in T : \A y \in T : x <= y
  OBVIOUS
<1>2. a \in T /\ b \in T /\ \A x \in T : x = a \/ x = b
  OBVIOUS
<1> HIDE DEF T
<1>3. Min(T) \in T /\ \A y \in T : Min(T) <= y
  BY <1>1 DEF Min
<1> QED BY <1>2, <1>3 DEF T

\* Induction.
LEMMA NatInduct ==
  ASSUME NEW T, 0 \in T, \A n \in T : n \in Nat => n + 1 \in T
  PROVE  Nat \subseteq T
<1> SUFFICES ASSUME Nat \ T # {} PROVE FALSE
  OBVIOUS
<1>1. PICK n \in Nat \ T : \A m \in Nat \ T : n <= m
  BY LeastNat
<1>2. n # 0 /\ n - 1 \in Nat /\ (n - 1) + 1 = n
  BY <1>1
<1>3. n - 1 \in T
  BY <1>1, <1>2
<1> QED
  BY <1>1, <1>2, <1>3

-----------------------------------------------------------------------------
\* A product of numbers is one, and grows with its factors.
LEMMA Products ==
  ASSUME NEW a \in Nat, NEW b \in Nat
  PROVE  a * b \in Nat /\ (a > 0 /\ b > 0 => a * b > 0)
OBVIOUS

\* Multiplying keeps the order.
LEMMA ProductsOrdered ==
  ASSUME NEW a \in Nat, NEW b \in Nat, NEW c \in Nat, a <= b
  PROVE  a * c <= b * c
OBVIOUS

\* ... and a difference can be divided out.
LEMMA FactorsOrdered ==
  ASSUME NEW a \in Int, NEW b \in Int, NEW c \in Nat, a * c < b * c
  PROVE  a < b
<1> SUFFICES ASSUME a >= b PROVE FALSE
  OBVIOUS
<1>1. (a - b) * c >= 0
  OBVIOUS
<1> QED BY <1>1

\* What quotient and rest are.
LEMMA Division ==
  ASSUME NEW a \in Nat, NEW b \in Nat, b > 0
  PROVE  a \div b \in Nat /\ a % b \in 0..(b - 1) /\ a = (a \div b) * b + (a % b)
OBVIOUS

\* They are the only ones.
LEMMA QuotientIs ==
  ASSUME NEW a \in Nat, NEW b \in Nat, b > 0, NEW q \in Int, NEW r \in 0..(b - 1), a = q * b + r
  PROVE  a \div b = q /\ a % b = r
<1> DEFINE t == a \div b
           s == a % b
<1>1. t \in Nat /\ s \in 0..(b - 1) /\ a = t * b + s
  BY Division
<1> HIDE DEF t, s
<1>2. (t - q) * b = r - s
  BY <1>1
<1>3. t * b < (q + 1) * b /\ q * b < (t + 1) * b
  BY <1>1
<1>4. t < q + 1 /\ q < t + 1
  BY <1>1, <1>3, FactorsOrdered
<1>5. t = q
  BY <1>1, <1>4
<1> QED BY <1>1, <1>5 DEF t, s

\* Whole multiples of the divisor stay whole.
LEMMA ShiftedQuotient ==
  ASSUME NEW a \in Nat, NEW q \in Nat, NEW b \in Nat, b > 0
  PROVE  (q * b + a) \div b = q + a \div b /\ (q * b + a) % b = a % b
<1> DEFINE t == a \div b
           s == a % b
<1>1. t \in Nat /\ s \in 0..(b - 1) /\ a = t * b + s
  BY Division
<1> HIDE DEF t, s
<1>2. q * b + a = (q + t) * b + s /\ q * b + a \in Nat
  BY <1>1
<1>3. (q * b + a) \div b = q + t /\ (q * b + a) % b = s
  BY <1>1, <1>2, QuotientIs
<1> QED BY <1>3 DEF t, s

\* A common factor can be left out.
LEMMA CommonFactor ==
  ASSUME NEW a \in Nat, NEW b \in Nat, b > 0, NEW k \in Nat, k > 0
  PROVE  (a * k) \div (b * k) = a \div b
<1> DEFINE t == a \div b
           s == a % b
<1>1. t \in Nat /\ s \in 0..(b - 1) /\ a = t * b + s
  BY Division
<1> HIDE DEF t, s
<1>2. b * k \in Nat /\ b * k > 0 /\ a * k \in Nat
  BY Products
<1>3. a * k = t * (b * k) + s * k
  BY <1>1
<1>4. s * k \in 0..(b * k - 1)
  <2>1. s * k <= (b - 1) * k
    BY <1>1, ProductsOrdered
  <2>2. (b - 1) * k = b * k - k
    OBVIOUS
  <2>3. s * k \in Nat
    BY <1>1, Products
  <2> QED BY <1>2, <2>1, <2>2, <2>3
<1>5. (a * k) \div (b * k) = t
  <2> DEFINE A == a * k
             B == b * k
             R == s * k
  <2>1. A \in Nat /\ B \in Nat /\ B > 0 /\ R \in 0..(B - 1) /\ A = t * B + R
    BY <1>2, <1>3, <1>4
  <2> HIDE DEF A, B, R
  <2>2. A \div B = t
    BY <2>1, <1>1, QuotientIs
  <2> QED BY <2>2 DEF A, B
<1> QED BY <1>5 DEF t

\* Dividing twice is dividing by the product.
LEMMA DividedTwice ==
  ASSUME NEW a \in Nat, NEW b \in Nat, b > 0, NEW c \in Nat, c > 0
  PROVE  (a \div b) \div c = a \div (b * c)
<1> DEFINE t == a \div b
           s == a % b
           u == t \div c
           v == t % c
<1>1. t \in Nat /\ s \in 0..(b - 1) /\ a = t * b + s
  BY Division
<1> HIDE DEF t, s
<1>2. u \in Nat /\ v \in 0..(c - 1) /\ t = u * c + v
  BY <1>1, Division
<1> HIDE DEF u, v
<1>3. b * c \in Nat /\ b * c > 0
  BY Products
<1>4. a = u * (b * c) + (v * b + s)
  <2>1. t * b = (u * c) * b + v * b
    BY <1>2
  <2>2. (u * c) * b = u * (b * c)
    BY <1>2
  <2> DEFINE x == u * (b * c)
             y == v * b
  <2>3. t * b = x + y
    BY <2>1, <2>2
  <2>4. x \in Int /\ y \in Int
    BY <1>2, <1>3
  <2> HIDE DEF x, y
  <2>5. a = x + (y + s)
    BY <1>1, <2>3, <2>4
  <2> QED BY <2>5 DEF x, y
<1>5. v * b + s \in 0..(b * c - 1)
  <2>1. v * b <= (c - 1) * b
    BY <1>2, ProductsOrdered
  <2>2. (c - 1) * b = b * c - b
    OBVIOUS
  <2>3. v * b \in Nat
    BY <1>2, Products
  <2> QED BY <1>1, <1>3, <2>1, <2>2, <2>3
<1>6. a \div (b * c) = u
  <2> DEFINE B == b * c
             R == v * b + s
  <2>1. B \in Nat /\ B > 0 /\ R \in 0..(B - 1) /\ a = u * B + R
    BY <1>3, <1>4, <1>5
  <2> HIDE DEF B, R
  <2>2. a \div B = u
    BY <2>1, <1>2, QuotientIs
  <2> QED BY <2>2 DEF B
<1> QED BY <1>6 DEF t, u

-----------------------------------------------------------------------------
(***************************************************************************)
(* What is true of input, and of the coefficients it leaves.  d is the     *)
(* decompression object.                                                   *)
(***************************************************************************)

Fields ==
  {"picture", "global_state", "position", "ret", "unread_marker", "saw_SOI", "saw_SOF",
   "consume_input", "inheaders", "eoi_reached", "has_multiple_scans", "quant_tbl", "quant_table",
   "comps_in_scan", "Ss", "coef_bits", "input_scan_number", "input_iMCU_row", "MCU_ctr",
   "MCU_vert_offset", "MCU_rows_per_iMCU_row", "whole_image", "mode", "decompress_data",
   "output_scan_number", "output_iMCU_row", "output_scanline", "dct_table", "buffer",
   "buffer_full", "rowgroup_ctr", "next_row_out", "rows_to_go", "color_buf", "post_process",
   "strips", "starting_row", "next_row", "is_dummy_pass", "colormap"}
Object(d) == DOMAIN d = Fields /\ d.picture \in Pictures

\* The input, as the units of the data before and after the place where it is.
Ahead(d) == Stream(d)[d.position + 1]
Behind(d) == Stream(d)[d.position]

\* a marker that may come when s scans have been read
MarkerFor(p, s, u) ==
  \/ s = 0 /\ u.scan = 0 /\ u.kind \in {"SOI", "DQT", "SOF"}
  \/ s < Len(p.scans) /\ u.scan = s + 1 /\ u.kind \in {"DQT", "SOS"}
  \/ s = Len(p.scans) /\ u.kind = "EOI"

\* the quantization table in force is the one the coder had at such a marker
TableFor(d, u) == u.kind \in {"SOF", "SOS"} => d.quant_tbl = TableAt(d.picture, u.scan)

\* Between two scans, or before the first.
AmongMarkers(d) ==
  /\ d.consume_input = "markers" /\ ~d.eoi_reached
  /\ d.input_scan_number \in 0..Len(d.picture.scans)
  /\ \/ /\ d.unread_marker = "none" /\ d.position \in 0..(Len(Stream(d)) - 1)
        /\ MarkerFor(d.picture, d.input_scan_number, Ahead(d)) /\ TableFor(d, Ahead(d))
     \/ /\ d.position \in 1..Len(Stream(d))
        /\ MarkerFor(d.picture, d.input_scan_number, Behind(d)) /\ TableFor(d, Behind(d))
        /\ d.unread_marker = Behind(d).kind

\* the MCU at hand, counted from the scan's first
McuRow(d) ==
  LET p == d.picture
      c == d.comps_in_scan[1]
  IN d.input_iMCU_row * (IF Alone(d.comps_in_scan) THEN p.comps[c].v ELSE 1) + d.MCU_vert_offset
McuHere(d) ==
  Unit("MCU", d.input_scan_number, McuRow(d) * MCUs_per_row(d.picture, d.comps_in_scan) + d.MCU_ctr)
McuBefore(d) ==
  Unit("MCU", d.input_scan_number,
       McuRow(d) * MCUs_per_row(d.picture, d.comps_in_scan) + d.MCU_ctr - 1)

RowsOfMcus(p, comps, row) ==
  IF ~Alone(comps) THEN 1
  ELSE IF row < total_iMCU_rows(p) - 1 THEN p.comps[comps[1]].v
  ELSE last_row_height(p, comps[1])

\* Where a scan is read the parameters of its start are in force.
ScanAtHand(d) ==
  /\ d.unread_marker = "none" /\ ~d.eoi_reached
  /\ d.input_scan_number \in 1..Len(d.picture.scans)
  /\ d.comps_in_scan = d.picture.scans[d.input_scan_number].comps
  /\ d.Ss = d.picture.scans[d.input_scan_number].Ss
  /\ d.quant_tbl = TableAt(d.picture, d.input_scan_number)

\* In the data of a scan.  Within the loop over the MCUs of an iMCU row the
\* last of them may have been read.
InRow(d) ==
  /\ d.consume_input = "data" /\ ScanAtHand(d)
  /\ d.input_iMCU_row \in 0..(total_iMCU_rows(d.picture) - 1)
  /\ d.MCU_rows_per_iMCU_row = RowsOfMcus(d.picture, d.comps_in_scan, d.input_iMCU_row)
  /\ d.MCU_ctr \in 0..(MCUs_per_row(d.picture, d.comps_in_scan) - 1)
  /\ d.MCU_vert_offset \in 0..d.MCU_rows_per_iMCU_row
  /\ IF RowDone(d)
     THEN d.MCU_ctr = 0 /\ d.position \in 1..Len(Stream(d)) /\ Behind(d) = McuBefore(d)
     ELSE d.position \in 0..(Len(Stream(d)) - 1) /\ Ahead(d) = McuHere(d)
InScan(d) == InRow(d) /\ ~RowDone(d)

\* Before the first MCU of a scan whose start has just been read.
ScanBegins(d) ==
  /\ d.consume_input = "markers" /\ ScanAtHand(d)
  /\ d.position \in 0..(Len(Stream(d)) - 1) /\ Ahead(d) = Unit("MCU", d.input_scan_number, 0)

AtEnd(d) ==
  /\ d.consume_input = "markers" /\ d.eoi_reached
  /\ d.input_scan_number = Len(d.picture.scans) /\ d.position = Len(Stream(d))

ImageBlocks(p) ==
  LET padded(c) == p.comps[c].v * total_iMCU_rows(p)
      wide(c) == p.comps[c].h * jdiv_round_up(p.width, max_h_samp_factor(p) * DCTSIZE)
  IN UNION {{c} \X (0..(padded(c) - 1)) \X (0..(wide(c) - 1)) : c \in Comps(p)}

\* blocks of the image that are in the picture, and not padding
Inside(p, i) == i[2] < height_in_blocks(p, i[1]) /\ i[3] < width_in_blocks(p, i[1])
\* the image has what a scan says of a block
Held(d, i, s) == <<s, i[2], i[3]>> \in d.whole_image[i]

\* The blocks of an iMCU row whose MCUs have been read.
Decoded(d, i) ==
  LET w == MCU_width(d.picture, d.comps_in_scan, i[1])
      h == MCU_height(d.picture, d.comps_in_scan, i[1])
  IN \/ i[2] < d.MCU_vert_offset * h
     \/ i[2] < (d.MCU_vert_offset + 1) * h /\ i[3] < d.MCU_ctr * w

\* What the image has: all that the scans before the scan n say, ...
ScansHeld(d, n) ==
  \A i \in ImageBlocks(d.picture) : Inside(d.picture, i) =>
    \A s \in ScansOf(d.picture, i[1]) : s < n => Held(d, i, s)
\* ... what the scan at hand says of the iMCU rows before the row at hand, ...
RowsHeld(d) ==
  \A i \in ImageBlocks(d.picture) :
    Inside(d.picture, i) /\ i[1] \in Range(d.comps_in_scan)
    /\ i[2] < d.input_iMCU_row * d.picture.comps[i[1]].v => Held(d, i, d.input_scan_number)
\* ... and what its MCUs say of that row.
InRowAtHand(d, b) == <<b[1], d.input_iMCU_row * d.picture.comps[b[1]].v + b[2], b[3]>>
McusHeld(d) ==
  \A b \in Blocks(d.picture) :
    Inside(d.picture, InRowAtHand(d, b)) /\ b[1] \in Range(d.comps_in_scan) /\ Decoded(d, b) =>
      Held(d, InRowAtHand(d, b), d.input_scan_number)
ImageHolds(d) ==
  d.decompress_data # "onepass" =>
    /\ DOMAIN d.whole_image = ImageBlocks(d.picture)
    /\ IF d.consume_input = "data"
       THEN ScansHeld(d, d.input_scan_number) /\ RowsHeld(d) /\ McusHeld(d)
       ELSE ScansHeld(d, d.input_scan_number + 1)

\* A component's quantization table is the one in force at its first scan, once
\* that is one of the first n.
FirstTable(p, c) == TableAt(p, Min(ScansOf(p, c)))
Latched(d, n) ==
  /\ DOMAIN d.quant_table = Comps(d.picture)
  /\ \A c \in Comps(d.picture) :
       d.quant_table[c] = IF \E s \in ScansOf(d.picture, c) : s <= n
                          THEN FirstTable(d.picture, c) ELSE 0

\* The input once the first scan's start has been read.
Reading(d) ==
  /\ d.position <= arrived
  /\ ~d.inheaders /\ d.input_scan_number >= 1 /\ d.output_scan_number \in Nat
  /\ Latched(d, d.input_scan_number) /\ ImageHolds(d)
  /\ AmongMarkers(d) \/ InScan(d) \/ AtEnd(d)

\* The application asks for no scan whose start has not been read.
NeverAhead == \A p \in Pictures : \A mode \in Modes[p] : ~mode.ahead

\* Coefficients taken from the place a block of this row and column has.
InPlace(coefs, row, col) == \A from \in coefs : from[2] = row /\ from[3] = col

\* The samples of a component's block of this row and column: they show all the
\* scans up to the one asked for say of it, with the right table, and what is
\* around it in the same way.
Right(d, c, samples, row, col) ==
  /\ InPlace(samples.coefs, row, col)
  /\ \A s \in ScansOf(d.picture, c) : s <= d.output_scan_number =>
       /\ <<s, row, col>> \in samples.coefs
       /\ NeverAhead => samples.table = FirstTable(d.picture, c)
       /\ samples.near # <<>> /\ d.picture.scans[s].Ss = 0 =>
            /\ <<s, Max({0, row - 1}), col>> \in samples.near[1]
            /\ <<s, Min({height_in_blocks(d.picture, c) - 1, row + 1}), col>> \in samples.near[2]

\* What the start of a pass has made so: the transforms have their tables, and
\* in one pass only the first scan is asked for.
Prepared(d) ==
  /\ NeverAhead =>
       \A c \in Comps(d.picture) : \A s \in ScansOf(d.picture, c) :
         s <= d.output_scan_number => d.dct_table[c] = FirstTable(d.picture, c)
  /\ d.decompress_data = "onepass" =>
       \A s \in 1..Len(d.picture.scans) : s <= d.output_scan_number => s = 1

\* The modules' memory, from the start of decompression.
Memory(d) ==
  /\ d.mode \in Modes[d.picture]
  /\ d.decompress_data \in {"onepass", "data", "smooth"}
  /\ d.decompress_data = "onepass" <=>
       ~has_multiple_scans(d.picture) /\ ~d.mode.buffered_image
  /\ DOMAIN d.buffer = Blocks(d.picture)
  /\ d.decompress_data # "onepass" => DOMAIN d.whole_image = ImageBlocks(d.picture)
  /\ \A i \in DOMAIN d.whole_image : InPlace(d.whole_image[i], i[2], i[3])
  /\ DOMAIN d.dct_table = Comps(d.picture)
  /\ \A c \in Comps(d.picture) : d.dct_table[c] \in {0, FirstTable(d.picture, c)}
  /\ d.mode.quantize = "two" => DOMAIN d.strips = 0..(strip_rows(d.picture) - 1)

\* A block of the main buffer that shows an iMCU row.
BlockShows(d, i, row) ==
  LET y == row * d.picture.comps[i[1]].v + i[2]
  IN y < height_in_blocks(d.picture, i[1]) => Right(d, i[1], d.buffer[i], y, i[3])
BufferShows(d, row) == \A i \in Blocks(d.picture) : BlockShows(d, i, row)

\* lines of an iMCU row
iMCU_height(p) == max_v_samp_factor(p) * DCTSIZE

\* In one pass: the blocks of the MCUs that have been read are shown, and output
\* is where input is.
McusShown(d) ==
  \A i \in Blocks(d.picture) : Decoded(d, i) => BlockShows(d, i, d.output_iMCU_row)
InStep(d) ==
  d.decompress_data = "onepass" /\ d.output_iMCU_row < total_iMCU_rows(d.picture) =>
    /\ d.consume_input = "data" /\ d.input_scan_number = 1
    /\ d.input_iMCU_row = d.output_iMCU_row
    /\ McusShown(d)

-----------------------------------------------------------------------------
(***************************************************************************)
(* Sizes: how the parts of a picture divide it.                            *)
(***************************************************************************)

\* Rounding up: the last part is not empty and ends what is divided.
LEMMA RoundedUp ==
  ASSUME NEW a \in Nat, a > 0, NEW b \in Nat, b > 0
  PROVE  LET t == jdiv_round_up(a, b)
         IN /\ t \in Nat /\ t >= 1
            /\ a <= t * b
            /\ \E r \in 1..b : a = (t - 1) * b + r
<1> DEFINE n == a + b - 1
           t == n \div b
           s == n % b
<1>1. n \in Nat /\ n >= b
  OBVIOUS
<1>2. t \in Nat /\ s \in 0..(b - 1) /\ n = t * b + s
  <2> HIDE DEF n
  <2> QED BY <1>1, Division
<1>3. jdiv_round_up(a, b) = t
  BY DEF jdiv_round_up
<1>4. n = a + b - 1
  OBVIOUS
<1> HIDE DEF n, t, s
<1>5. t >= 1
  <2> SUFFICES ASSUME t = 0 PROVE FALSE
    BY <1>2
  <2>1. t * b = 0
    OBVIOUS
  <2> QED BY <1>1, <1>2, <2>1
<1>6. t * b = (t - 1) * b + b /\ t * b \in Nat
  BY <1>2
<1>7. a = (t - 1) * b + (s + 1) /\ s + 1 \in 1..b
  <2> DEFINE x == (t - 1) * b
             y == t * b
  <2>1. x \in Int /\ y = x + b
    BY <1>2, <1>6
  <2> HIDE DEF x, y
  <2>2. a = x + (s + 1)
    BY <1>2, <1>4, <2>1 DEF y
  <2> QED BY <1>2, <2>2 DEF x
<1>8. a <= t * b
  BY <1>2, <1>4, <1>6
<1> QED BY <1>2, <1>3, <1>5, <1>7, <1>8

\* Rounding up gives the only number of parts.
LEMMA RoundedUpIs ==
  ASSUME NEW a \in Nat, NEW b \in Nat, b > 0, NEW t \in Nat, NEW r \in 1..b,
         a = (t - 1) * b + r
  PROVE  jdiv_round_up(a, b) = t
<1> DEFINE n == a + b - 1
           x == (t - 1) * b
           y == t * b
<1>1. y = x + b /\ x \in Int
  OBVIOUS
<1>2. n = y + (r - 1) /\ n \in Nat /\ r - 1 \in 0..(b - 1)
  <2> HIDE DEF x, y
  <2>1. a = x + r
    BY DEF x
  <2> QED BY <1>1, <2>1
<1>3. n \div b = t
  <2>1. n = t * b + (r - 1)
    BY <1>2
  <2> HIDE DEF n, x, y
  <2> QED BY <1>2, <2>1, QuotientIs
<1> QED BY <1>3 DEF jdiv_round_up

\* Part of a part: v samples for each m of n, the last of them not missing.
LEMMA PartsOfParts ==
  ASSUME NEW n \in Nat, n > 0, NEW v \in Nat, v > 0, NEW m \in Nat, m > 0
  PROVE  LET t == jdiv_round_up(n, m)
         IN \E r \in 1..v : jdiv_round_up(n * v, m) = (t - 1) * v + r
<1> DEFINE t == jdiv_round_up(n, m)
<1>1. PICK r \in 1..m : n = (t - 1) * m + r
  BY RoundedUp
<1>2. t \in Nat /\ t >= 1
  BY RoundedUp
<1> HIDE DEF t
<1> DEFINE q == jdiv_round_up(r * v, m)
<1>3. r * v \in Nat /\ r * v > 0
  BY Products
<1>4. q \in Nat /\ q >= 1
  BY <1>3, RoundedUp
<1>5. PICK u \in 1..m : r * v = (q - 1) * m + u
  BY <1>3, RoundedUp
<1> HIDE DEF q
<1>6. q <= v
  <2>1. r * v <= m * v
    BY ProductsOrdered
  <2>2. (q - 1) * m < v * m
    <3> DEFINE x == (q - 1) * m
    <3>1. x \in Int
      BY <1>4
    <3> HIDE DEF x
    <3>2. x < r * v
      BY <1>3, <1>5, <3>1 DEF x
    <3>3. m * v = v * m /\ v * m \in Nat
      OBVIOUS
    <3> QED BY <1>3, <2>1, <3>1, <3>2, <3>3 DEF x
  <2>3. q - 1 < v
    BY <1>4, <2>2, FactorsOrdered
  <2> QED BY <1>4, <2>3
<1>7. n * v = ((t - 1) * v + q - 1) * m + u
  <2> DEFINE x == (t - 1) * v
  <2>1. n * v = ((t - 1) * m) * v + r * v
    BY <1>1, <1>2
  <2>2. ((t - 1) * m) * v = x * m /\ x \in Nat
    BY <1>2
  <2> HIDE DEF x
  <2>3. (x + q - 1) * m = x * m + (q - 1) * m /\ x * m \in Int /\ (q - 1) * m \in Int
    BY <1>4, <2>2
  <2>4. n * v = x * m + r * v
    BY <2>1, <2>2
  <2>5. n * v = (x + q - 1) * m + u
    <3> DEFINE y == x * m
               z == (q - 1) * m
               w == (x + q - 1) * m
    <3>1. y \in Int /\ z \in Int /\ w = y + z /\ n * v = y + r * v /\ r * v = z + u
      BY <1>5, <2>3, <2>4
    <3> HIDE DEF y, z, w
    <3> QED BY <3>1 DEF w
  <2> QED BY <2>5 DEF x
<1>8. jdiv_round_up(n * v, m) = (t - 1) * v + q
  <2> DEFINE x == (t - 1) * v + q
  <2>1. x \in Nat /\ (t - 1) * v + q - 1 = x - 1
    BY <1>2, <1>4
  <2>2. n * v = (x - 1) * m + u
    BY <1>7, <2>1
  <2> HIDE DEF x
  <2>3. n * v \in Nat
    BY Products
  <2>4. jdiv_round_up(n * v, m) = x
    BY <2>1, <2>2, <2>3, RoundedUpIs
  <2> QED BY <2>4 DEF x
<1> QED BY <1>4, <1>6, <1>8 DEF t

\* What is left for the last part.
LEMMA RestIs ==
  ASSUME NEW q \in Nat, NEW v \in Nat, v > 0, NEW r \in 1..v
  PROVE  Rest(q * v + r, v) = r
<1> DEFINE whole == q * v + r
<1>1. whole \in Nat /\ whole = q * v + r
  OBVIOUS
<1> HIDE DEF whole
<1>2. CASE r = v
  <2>1. whole = (q + 1) * v + 0 /\ 0 \in 0..(v - 1) /\ q + 1 \in Int
    BY <1>1, <1>2
  <2>2. whole % v = 0
    BY <1>1, <2>1, QuotientIs
  <2>3. Rest(whole, v) = r
    BY <1>2, <2>2 DEF Rest
  <2> QED BY <2>3 DEF whole
<1>3. CASE r # v
  <2>1. r \in 0..(v - 1) /\ q \in Int
    BY <1>3
  <2>2. whole % v = r
    BY <1>1, <2>1, QuotientIs
  <2>3. Rest(whole, v) = r
    BY <2>1, <2>2 DEF Rest
  <2> QED BY <2>3 DEF whole
<1> QED BY <1>2, <1>3

\* A set of sampling factors has a greatest one.
LEMMA GreatestFactor ==
  ASSUME NEW T, T \subseteq 1..4, T # {}
  PROVE  Max(T) \in 1..4 /\ \A x \in T : x <= Max(T)
<1>1. \E x \in T : \A y \in T : x >= y
  <2>1. CASE 4 \in T
    BY <2>1
  <2>2. CASE 4 \notin T /\ 3 \in T
    BY <2>2
  <2>3. CASE 4 \notin T /\ 3 \notin T /\ 2 \in T
    BY <2>3
  <2>4. CASE 4 \notin T /\ 3 \notin T /\ 2 \notin T
    <3>1. \A x \in T : x = 1
      BY <2>4
    <3>2. PICK x \in T : TRUE
      OBVIOUS
    <3>3. \A y \in T : x >= y
      BY <3>1
    <3> QED BY <3>3
  <2> QED BY <2>1, <2>2, <2>3, <2>4
<1> QED BY <1>1 DEF Max

\* The sizes of a picture are numbers, none of them zero.
LEMMA Sizes ==
  ASSUME NEW p \in Pictures
  PROVE  /\ p.height \in Nat /\ p.height > 0 /\ p.width \in Nat /\ p.width > 0
         /\ DCTSIZE \in Nat /\ DCTSIZE > 0
         /\ Len(p.comps) \in Nat /\ Len(p.comps) >= 1 /\ 1 \in Comps(p)
         /\ max_v_samp_factor(p) \in 1..4 /\ max_h_samp_factor(p) \in 1..4
         /\ iMCU_height(p) \in Nat /\ iMCU_height(p) > 0
         /\ max_h_samp_factor(p) * DCTSIZE \in Nat /\ max_h_samp_factor(p) * DCTSIZE > 0
         /\ total_iMCU_rows(p) \in Nat /\ total_iMCU_rows(p) >= 1
         /\ \A c \in Comps(p) :
              /\ p.comps[c].v \in 1..4 /\ p.comps[c].v <= max_v_samp_factor(p)
              /\ p.comps[c].h \in 1..4 /\ p.comps[c].h <= max_h_samp_factor(p)
              /\ height_in_blocks(p, c) \in Nat /\ height_in_blocks(p, c) >= 1
              /\ width_in_blocks(p, c) \in Nat /\ width_in_blocks(p, c) >= 1
<1>1. /\ p.height \in Nat /\ p.height > 0 /\ p.width \in Nat /\ p.width > 0
      /\ p.comps \in Seq([h : 1..4, v : 1..4]) /\ p.comps # <<>>
  <2>1. p.height \in Nat \ {0} /\ p.width \in Nat \ {0}
    BY PicturesAssumption, Zenon
  <2>2. p.comps \in Seq([h : 1..4, v : 1..4]) /\ p.comps # <<>>
    BY PicturesAssumption, Zenon
  <2> QED BY <2>1, <2>2
<1>2. DCTSIZE \in Nat /\ DCTSIZE > 0
  BY DctSizeAssumption
<1>3. Len(p.comps) \in Nat /\ Len(p.comps) >= 1 /\ 1 \in Comps(p)
  BY <1>1 DEF Comps
<1>4. \A c \in Comps(p) : p.comps[c].v \in 1..4 /\ p.comps[c].h \in 1..4
  <2> DEFINE comps == p.comps
             R == [h : 1..4, v : 1..4]
  <2>1. comps \in Seq(R)
    BY <1>1
  <2> HIDE DEF comps, R
  <2>2. \A c \in 1..Len(comps) : comps[c] \in R
    BY <2>1
  <2> QED BY <2>2 DEF Comps, comps, R
<1>5. /\ max_v_samp_factor(p) \in 1..4
      /\ \A c \in Comps(p) : p.comps[c].v <= max_v_samp_factor(p)
  <2> DEFINE T == {p.comps[c].v : c \in Comps(p)}
  <2>1. T \subseteq 1..4 /\ T # {}
    BY <1>3, <1>4
  <2> HIDE DEF T
  <2>2. Max(T) \in 1..4 /\ \A x \in T : x <= Max(T)
    BY <2>1, GreatestFactor
  <2> QED BY <2>2 DEF T, max_v_samp_factor
<1>6. /\ max_h_samp_factor(p) \in 1..4
      /\ \A c \in Comps(p) : p.comps[c].h <= max_h_samp_factor(p)
  <2> DEFINE T == {p.comps[c].h : c \in Comps(p)}
  <2>1. T \subseteq 1..4 /\ T # {}
    BY <1>3, <1>4
  <2> HIDE DEF T
  <2>2. Max(T) \in 1..4 /\ \A x \in T : x <= Max(T)
    BY <2>1, GreatestFactor
  <2> QED BY <2>2 DEF T, max_h_samp_factor
<1>7. /\ iMCU_height(p) \in Nat /\ iMCU_height(p) > 0
      /\ max_h_samp_factor(p) * DCTSIZE \in Nat /\ max_h_samp_factor(p) * DCTSIZE > 0
  BY <1>2, <1>5, <1>6, Products DEF iMCU_height
<1>8. total_iMCU_rows(p) \in Nat /\ total_iMCU_rows(p) >= 1
  BY <1>1, <1>7, RoundedUp DEF total_iMCU_rows, iMCU_height
<1>9. ASSUME NEW c \in Comps(p)
      PROVE  /\ height_in_blocks(p, c) \in Nat /\ height_in_blocks(p, c) >= 1
             /\ width_in_blocks(p, c) \in Nat /\ width_in_blocks(p, c) >= 1
  <2>1. /\ p.height * p.comps[c].v \in Nat /\ p.height * p.comps[c].v > 0
        /\ p.width * p.comps[c].h \in Nat /\ p.width * p.comps[c].h > 0
    <3> DEFINE a == p.height
               b == p.width
               v == p.comps[c].v
               h == p.comps[c].h
    <3>1. a \in Nat /\ b \in Nat /\ v \in Nat /\ h \in Nat /\ a > 0 /\ b > 0 /\ v > 0 /\ h > 0
      BY <1>1, <1>4
    <3> HIDE DEF a, b, v, h
    <3>2. a * v \in Nat /\ a * v > 0 /\ b * h \in Nat /\ b * h > 0
      BY <3>1, Products
    <3> QED BY <3>2 DEF a, b, v, h
  <2> QED BY <1>7, <2>1, RoundedUp DEF height_in_blocks, width_in_blocks, iMCU_height
<1> QED BY <1>1, <1>2, <1>3, <1>4, <1>5, <1>6, <1>7, <1>8, <1>9

\* The rows of blocks of a component: all iMCU rows but the last are whole.
LEMMA BlockRows ==
  ASSUME NEW p \in Pictures, NEW c \in Comps(p)
  PROVE  LET v == p.comps[c].v
             last == last_row_height(p, c)
         IN last \in 1..v /\ height_in_blocks(p, c) = (total_iMCU_rows(p) - 1) * v + last
<1> DEFINE v == p.comps[c].v
           t == total_iMCU_rows(p)
           n == p.height
           m == iMCU_height(p)
<1>1. /\ v \in 1..4 /\ t \in Nat /\ t >= 1 /\ n \in Nat /\ n > 0 /\ m \in Nat /\ m > 0
  BY Sizes
<1>2. height_in_blocks(p, c) = jdiv_round_up(n * v, m) /\ t = jdiv_round_up(n, m)
  BY DEF height_in_blocks, total_iMCU_rows, iMCU_height
<1> HIDE DEF v, t, n, m
<1>3. PICK r \in 1..v : height_in_blocks(p, c) = (t - 1) * v + r
  <2>1. v \in Nat /\ v > 0
    BY <1>1
  <2>2. \E r \in 1..v : jdiv_round_up(n * v, m) = (jdiv_round_up(n, m) - 1) * v + r
    BY <1>1, <2>1, PartsOfParts
  <2> QED BY <1>2, <2>2
<1>4. Rest(height_in_blocks(p, c), v) = r
  <2> DEFINE whole == height_in_blocks(p, c)
             q == t - 1
  <2>1. /\ whole \in Nat /\ v \in Nat /\ v > 0 /\ whole = q * v + r
        /\ q \in Nat
    BY <1>1, <1>3, Sizes
  <2> HIDE DEF whole, q
  <2>2. Rest(whole, v) = r
    BY <1>3, <2>1, RestIs, Zenon
  <2> QED BY <2>2 DEF whole
<1> QED BY <1>3, <1>4 DEF last_row_height, v, t

\* Across the picture it is the same.
LEMMA WideParts ==
  ASSUME NEW p \in Pictures, NEW c \in Comps(p)
  PROVE  LET t == jdiv_round_up(p.width, max_h_samp_factor(p) * DCTSIZE)
         IN \E r \in 1..p.comps[c].h : width_in_blocks(p, c) = (t - 1) * p.comps[c].h + r
<1> DEFINE h == p.comps[c].h
           n == p.width
           m == max_h_samp_factor(p) * DCTSIZE
<1>1. h \in 1..4 /\ n \in Nat /\ n > 0 /\ m \in Nat /\ m > 0
  BY Sizes
<1>2. width_in_blocks(p, c) = jdiv_round_up(n * h, m)
  BY DEF width_in_blocks
<1> HIDE DEF h, n, m
<1>3. \E r \in 1..h : jdiv_round_up(n * h, m) = (jdiv_round_up(n, m) - 1) * h + r
  BY <1>1, PartsOfParts
<1> QED BY <1>2, <1>3 DEF h, n, m

\* The columns of blocks of a component: all MCUs of a row but the last are whole.
LEMMA BlockColumns ==
  ASSUME NEW p \in Pictures, NEW comps \in Seq(Comps(p)), NEW c \in Range(comps)
  PROVE  LET w == MCU_width(p, comps, c)
             across == MCUs_per_row(p, comps)
             last == last_col_width(p, comps, c)
         IN /\ w \in 1..4 /\ across \in Nat /\ across >= 1 /\ last \in 1..w
            /\ width_in_blocks(p, c) = (across - 1) * w + last
<1>1. c \in Comps(p)
  BY DEF Range
<1>2. CASE Alone(comps)
  <2>1. comps[1] = c
    BY <1>2 DEF Alone, Range
  <2>2. /\ MCU_width(p, comps, c) = 1 /\ MCUs_per_row(p, comps) = width_in_blocks(p, c)
        /\ last_col_width(p, comps, c) = Rest(width_in_blocks(p, c), 1)
    BY <1>2, <2>1 DEF MCU_width, MCUs_per_row, last_col_width
  <2> DEFINE b == width_in_blocks(p, c)
  <2>3. b \in Nat /\ b >= 1
    BY <1>1, Sizes
  <2> HIDE DEF b
  <2>4. b = (b - 1) * 1 + 1 /\ 1 \in 1..1
    BY <2>3
  <2>5. Rest(b, 1) = 1
    <3> DEFINE one == 1
               q == b - 1
    <3>1. /\ one \in Nat /\ one > 0 /\ one \in 1..one /\ b = q * one + one
          /\ q \in Nat
      BY <2>3, <2>4
    <3> HIDE DEF one, q
    <3>2. Rest(b, one) = one
      BY <2>3, <3>1, RestIs, Zenon
    <3> QED BY <3>2 DEF one
  <2> QED BY <2>2, <2>3, <2>4, <2>5 DEF b
<1>3. CASE ~Alone(comps)
  <2> DEFINE h == p.comps[c].h
             t == jdiv_round_up(p.width, max_h_samp_factor(p) * DCTSIZE)
  <2>1. h \in 1..4
    BY <1>1, Sizes
  <2>2. t \in Nat /\ t >= 1
    BY Sizes, RoundedUp
  <2>3. PICK r \in 1..h : width_in_blocks(p, c) = (t - 1) * h + r
    BY <1>1, WideParts
  <2>4. /\ MCU_width(p, comps, c) = h /\ MCUs_per_row(p, comps) = t
        /\ last_col_width(p, comps, c) = Rest(width_in_blocks(p, c), h)
    BY <1>3 DEF MCU_width, MCUs_per_row, last_col_width
  <2> HIDE DEF h, t
  <2>5. Rest(width_in_blocks(p, c), h) = r
    <3> DEFINE whole == width_in_blocks(p, c)
               q == t - 1
    <3>1. /\ whole \in Nat /\ h \in Nat /\ h > 0 /\ whole = q * h + r
          /\ q \in Nat
      BY <1>1, <2>1, <2>2, <2>3, Sizes
    <3> HIDE DEF whole, q
    <3>2. Rest(whole, h) = r
      BY <2>3, <3>1, RestIs, Zenon
    <3> QED BY <3>2 DEF whole
  <2> QED BY <2>1, <2>2, <2>3, <2>4, <2>5
<1> QED BY <1>2, <1>3

\* A component's blocks have a place in the image's memory.
LEMMA WithinImage ==
  ASSUME NEW p \in Pictures, NEW c \in Comps(p), NEW y \in 0..(height_in_blocks(p, c) - 1),
         NEW x \in 0..(width_in_blocks(p, c) - 1)
  PROVE  <<c, y, x>> \in ImageBlocks(p)
<1> DEFINE h == p.comps[c].h
           v == p.comps[c].v
           t == jdiv_round_up(p.width, max_h_samp_factor(p) * DCTSIZE)
           n == total_iMCU_rows(p)
<1>1. h \in 1..4 /\ v \in 1..4 /\ n \in Nat /\ n >= 1
  BY Sizes
<1>2. t \in Nat /\ t >= 1
  BY Sizes, RoundedUp
<1>3. PICK r \in 1..h : width_in_blocks(p, c) = (t - 1) * h + r
  BY WideParts
<1>4. PICK s \in 1..v : height_in_blocks(p, c) = (n - 1) * v + s
  BY BlockRows
<1>5. x \in 0..(h * t - 1)
  <2> HIDE DEF h, t
  <2>1. (t - 1) * h + h = h * t
    BY <1>1, <1>2
  <2>2. (t - 1) * h \in Nat
    BY <1>1, <1>2
  <2> QED BY <1>1, <1>3, <2>1, <2>2
<1>6. y \in 0..(v * n - 1)
  <2> HIDE DEF v, n
  <2>1. (n - 1) * v + v = v * n
    BY <1>1
  <2>2. (n - 1) * v \in Nat
    BY <1>1
  <2> QED BY <1>1, <1>4, <2>1, <2>2
<1> QED BY <1>5, <1>6 DEF ImageBlocks

\* What a block of the image is.
LEMMA ImageBlock ==
  ASSUME NEW p \in Pictures, NEW i \in ImageBlocks(p)
  PROVE  /\ i[1] \in Comps(p) /\ i = <<i[1], i[2], i[3]>>
         /\ i[2] \in Nat /\ i[3] \in Nat
         /\ i[2] < total_iMCU_rows(p) * p.comps[i[1]].v
<1> DEFINE v == p.comps[i[1]].v
           t == total_iMCU_rows(p)
           y == i[2]
<1>1. /\ i[1] \in Comps(p) /\ i = <<i[1], i[2], i[3]>> /\ y \in 0..(v * t - 1) /\ i[3] \in Nat
  BY DEF ImageBlocks
<1>2. v \in 1..4 /\ t \in Nat
  BY <1>1, Sizes
<1> HIDE DEF v, t, y
<1>3. v * t = t * v /\ v * t \in Nat
  BY <1>2
<1>4. y \in Nat /\ y < t * v
  BY <1>1, <1>3
<1> QED BY <1>1, <1>4 DEF v, t, y

-----------------------------------------------------------------------------
(***************************************************************************)
(* The data of a picture: what follows what.                               *)
(***************************************************************************)

\* the first unit of a scan's data
Opens(p, s, w) == w.scan = s /\ w.kind = IF p.scans[s].dqt THEN "DQT" ELSE "SOS"
\* the unit w comes after the unit u
Follows(p, u, w) ==
  \/ u.kind = "SOI" /\ w = Unit("DQT", 0, 0)
  \/ u.kind = "DQT" /\ w = Unit("table", u.scan, TableAt(p, u.scan))
  \/ u.kind = "table" /\ u.scan = 0 /\ w = Unit("SOF", 0, 0)
  \/ u.kind = "table" /\ u.scan # 0 /\ w = Unit("SOS", u.scan, 0)
  \/ u.kind = "SOF" /\ w = Unit("frame", 0, 0)
  \/ u.kind = "frame" /\ Opens(p, 1, w)
  \/ u.kind = "SOS" /\ w = Unit("params", u.scan, 0)
  \/ u.kind = "params" /\ u.n = 0 /\ w = Unit("params", u.scan, 1)
  \/ u.kind = "params" /\ u.n = 1 /\ w = Unit("MCU", u.scan, 0)
  \/ /\ u.kind = "MCU" /\ u.n + 1 < McuNumber(p, p.scans[u.scan].comps)
     /\ w = Unit("MCU", u.scan, u.n + 1)
  \/ /\ u.kind = "MCU" /\ u.n + 1 = McuNumber(p, p.scans[u.scan].comps)
     /\ IF u.scan < Len(p.scans) THEN Opens(p, u.scan + 1, w) ELSE w = Unit("EOI", 0, 0)
Units ==
  [kind : {"SOI", "DQT", "table", "SOF", "frame", "SOS", "params", "MCU", "EOI"},
   scan : Nat, n : Nat]
Chained(p, s) ==
  /\ s \in Seq(Units) /\ s # <<>>
  /\ \A i \in 1..(Len(s) - 1) : Follows(p, s[i], s[i + 1]) /\ s[i].kind # "EOI"

\* Two sequences put together.
Joined(r, s, t) ==
  /\ Len(r) = Len(s) + Len(t)
  /\ \A i \in 1..Len(s) : r[i] = s[i]
  /\ \A i \in 1..Len(t) : r[Len(s) + i] = t[i]

\* That is what their concatenation is.
LEMMA JoinedIs ==
  ASSUME NEW s \in Seq(Units), NEW t \in Seq(Units)
  PROVE  s \o t \in Seq(Units) /\ Joined(s \o t, s, t)
BY DEF Joined

\* Two chains of which the second follows the first are one.
LEMMA ChainsJoined ==
  ASSUME NEW p \in Pictures, NEW s \in Seq(Units), NEW t \in Seq(Units), NEW r \in Seq(Units),
         Joined(r, s, t), Chained(p, s), Chained(p, t),
         Follows(p, s[Len(s)], t[1]), s[Len(s)].kind # "EOI"
  PROVE  Chained(p, r) /\ r[1] = s[1] /\ r[Len(r)] = t[Len(t)]
<1>1. Len(s) \in Nat /\ Len(s) >= 1 /\ Len(t) \in Nat /\ Len(t) >= 1
  BY DEF Chained
<1>2. /\ Len(r) = Len(s) + Len(t) /\ r # <<>>
      /\ \A i \in 1..Len(s) : r[i] = s[i]
      /\ \A i \in 1..Len(t) : r[Len(s) + i] = t[i]
  BY <1>1 DEF Joined
<1>3. ASSUME NEW i \in 1..(Len(r) - 1) PROVE Follows(p, r[i], r[i + 1]) /\ r[i].kind # "EOI"
  <2>1. CASE i < Len(s)
    <3>1. i \in 1..(Len(s) - 1) /\ i \in 1..Len(s) /\ i + 1 \in 1..Len(s)
      BY <1>1, <2>1
    <3>2. r[i] = s[i] /\ r[i + 1] = s[i + 1]
      BY <1>2, <3>1
    <3> QED BY <3>1, <3>2 DEF Chained
  <2>2. CASE i = Len(s)
    <3>1. i \in 1..Len(s) /\ 1 \in 1..Len(t)
      BY <1>1, <2>2
    <3>2. r[i] = s[i] /\ r[i + 1] = t[1]
      BY <1>2, <2>2, <3>1
    <3> QED BY <2>2, <3>2
  <2>3. CASE i > Len(s)
    <3> DEFINE j == i - Len(s)
    <3>3. Len(r) = Len(s) + Len(t)
      BY <1>2
    <3>1. /\ j \in 1..(Len(t) - 1) /\ j \in 1..Len(t) /\ j + 1 \in 1..Len(t)
          /\ i = Len(s) + j /\ i + 1 = Len(s) + (j + 1)
      BY <1>1, <2>3, <3>3
    <3> HIDE DEF j
    <3>2. r[i] = t[j] /\ r[i + 1] = t[j + 1]
      BY <1>2, <3>1
    <3> QED BY <3>1, <3>2 DEF Chained
  <2> QED BY <1>1, <2>1, <2>2, <2>3
<1>4. Chained(p, r)
  BY <1>2, <1>3 DEF Chained
<1>5. r[1] = s[1] /\ r[Len(r)] = t[Len(t)]
  BY <1>1, <1>2
<1> QED BY <1>4, <1>5

\* What is known of the scans of a picture.
LEMMA Scans ==
  ASSUME NEW p \in Pictures
  PROVE  /\ Len(p.scans) \in Nat /\ Len(p.scans) >= 1
         /\ \A s \in 1..Len(p.scans) :
              /\ p.scans[s].comps \in Seq(Comps(p)) /\ p.scans[s].comps # <<>>
              /\ IsInjective(p.scans[s].comps)
              /\ p.scans[s].Ss \in {0, 1} /\ p.scans[s].dqt \in BOOLEAN
              /\ Len(p.scans[s].comps) >= 1 /\ p.scans[s].comps[1] \in Range(p.scans[s].comps)
<1> DEFINE scans == p.scans
           R == [comps : Seq(1..Len(p.comps)), Ss : {0, 1}, dqt : BOOLEAN]
<1>1. scans # <<>> /\ scans \in Seq(R)
  BY PicturesAssumption, Zenon
<1>2. \A s \in 1..Len(scans) : scans[s].comps # <<>> /\ IsInjective(scans[s].comps)
  BY PicturesAssumption, Zenon
<1> HIDE DEF scans
<1>3. Len(scans) \in Nat /\ Len(scans) >= 1 /\ \A s \in 1..Len(scans) : scans[s] \in R
  <2> HIDE DEF R
  <2> QED BY <1>1
<1>4. ASSUME NEW s \in 1..Len(scans)
      PROVE  /\ scans[s].comps \in Seq(Comps(p)) /\ scans[s].comps # <<>>
             /\ IsInjective(scans[s].comps)
             /\ scans[s].Ss \in {0, 1} /\ scans[s].dqt \in BOOLEAN
             /\ Len(scans[s].comps) >= 1 /\ scans[s].comps[1] \in Range(scans[s].comps)
  <2>1. scans[s] \in R
    BY <1>3
  <2>2. scans[s].comps \in Seq(Comps(p)) /\ scans[s].Ss \in {0, 1} /\ scans[s].dqt \in BOOLEAN
    BY <2>1 DEF Comps
  <2>3. scans[s].comps # <<>> /\ IsInjective(scans[s].comps)
    BY <1>2
  <2> DEFINE comps == scans[s].comps
  <2>4. Len(comps) >= 1 /\ 1 \in DOMAIN comps
    BY <2>2, <2>3
  <2> QED BY <2>2, <2>3, <2>4 DEF Range
<1> QED BY <1>3, <1>4 DEF scans

\* A scan has rows and columns of MCUs.
LEMMA McuSizes ==
  ASSUME NEW p \in Pictures, NEW comps \in Seq(Comps(p)), comps # <<>>
  PROVE  /\ MCUs_per_row(p, comps) \in Nat /\ MCUs_per_row(p, comps) >= 1
         /\ McuRows(p, comps) \in Nat /\ McuRows(p, comps) >= 1
         /\ McuNumber(p, comps) \in Nat /\ McuNumber(p, comps) >= 1
<1>1. comps[1] \in Comps(p) /\ comps[1] \in Range(comps)
  BY DEF Range
<1>2. MCUs_per_row(p, comps) \in Nat /\ MCUs_per_row(p, comps) >= 1
  BY <1>1, BlockColumns
<1>3. McuRows(p, comps) \in Nat /\ McuRows(p, comps) >= 1
  BY <1>1, Sizes DEF McuRows
<1>4. McuNumber(p, comps) \in Nat /\ McuNumber(p, comps) >= 1
  BY <1>2, <1>3, Products DEF McuNumber
<1> QED BY <1>2, <1>3, <1>4

\* Tables are numbered from 1, and only a redefinition brings another.
LEMMA Tables ==
  ASSUME NEW p \in Pictures
  PROVE  /\ TableAt(p, 0) = 1
         /\ \A s \in 0..Len(p.scans) : TableAt(p, s) \in Nat /\ TableAt(p, s) >= 1
         /\ \A s \in 1..Len(p.scans) : ~p.scans[s].dqt => TableAt(p, s) = TableAt(p, s - 1)
<1> DEFINE T(s) == {t \in 1..s : p.scans[t].dqt}
<1>1. \A s \in 0..Len(p.scans) : TableAt(p, s) = 1 + Cardinality(T(s)) /\ Cardinality(T(s)) \in Nat
  <2> SUFFICES ASSUME NEW s \in 0..Len(p.scans)
               PROVE  TableAt(p, s) = 1 + Cardinality(T(s)) /\ Cardinality(T(s)) \in Nat
    OBVIOUS
  <2>1. IsFiniteSet(1..s) /\ T(s) \subseteq 1..s
    BY FS_Interval
  <2>2. Cardinality(T(s)) \in Nat
    BY <2>1, FS_Subset, FS_CardinalityType
  <2> QED BY <2>2 DEF TableAt
<1>2. T(0) = {} /\ Cardinality({}) = 0 /\ 0 \in 0..Len(p.scans)
  BY FS_EmptySet, Scans
<1>3. ASSUME NEW s \in 1..Len(p.scans), ~p.scans[s].dqt PROVE T(s) = T(s - 1)
  BY <1>3, Scans
<1>4. \A s \in 1..Len(p.scans) : s \in 0..Len(p.scans) /\ s - 1 \in 0..Len(p.scans)
  BY Scans
<1>5. TableAt(p, 0) = 1
  BY <1>1, <1>2
<1>6. ASSUME NEW s \in 1..Len(p.scans), ~p.scans[s].dqt PROVE TableAt(p, s) = TableAt(p, s - 1)
  <2>1. T(s) = T(s - 1)
    BY <1>3, <1>6
  <2> HIDE DEF T
  <2> QED BY <1>1, <1>4, <2>1
<1>7. \A s \in 0..Len(p.scans) : TableAt(p, s) \in Nat /\ TableAt(p, s) >= 1
  <2> HIDE DEF T
  <2> QED BY <1>1
<1> HIDE DEF T
<1> QED BY <1>5, <1>6, <1>7

\* The units of a scan: from its marker, or the redefined table's, to its last MCU.
LEMMA ScanChained ==
  ASSUME NEW p \in Pictures, NEW s \in 1..Len(p.scans)
  PROVE  LET units == ScanUnits(p, s)
         IN /\ Chained(p, units) /\ Opens(p, s, units[1])
            /\ units[Len(units)] = Unit("MCU", s, McuNumber(p, p.scans[s].comps) - 1)
<1> DEFINE number == McuNumber(p, p.scans[s].comps)
           start == <<Unit("SOS", s, 0), Unit("params", s, 0), Unit("params", s, 1)>>
           mcus == [n \in 1..number |-> Unit("MCU", s, n - 1)]
           table == <<Unit("DQT", s, 0), Unit("table", s, TableAt(p, s))>>
<1>1. number \in Nat /\ number >= 1
  BY Scans, McuSizes
<1>2. s \in Nat /\ s # 0 /\ s >= 1
  BY Scans
<1>3. Chained(p, start) /\ Len(start) = 3
  <2>1. start \in Seq(Units) /\ Len(start) = 3
    BY <1>2 DEF Unit, Units
  <2>2. ASSUME NEW i \in 1..(Len(start) - 1)
        PROVE  Follows(p, start[i], start[i + 1]) /\ start[i].kind # "EOI"
    <3>1. i = 1 \/ i = 2
      BY <2>1
    <3> QED BY <3>1 DEF Follows, Unit
  <2> QED BY <2>1, <2>2 DEF Chained
<1>4. Chained(p, mcus) /\ Len(mcus) = number
  <2>1. mcus \in Seq(Units) /\ Len(mcus) = number
    <3> HIDE DEF number
    <3> QED BY <1>1, <1>2 DEF Unit, Units
  <2>2. ASSUME NEW i \in 1..(Len(mcus) - 1)
        PROVE  Follows(p, mcus[i], mcus[i + 1]) /\ mcus[i].kind # "EOI"
    <3>1. i \in 1..number /\ i + 1 \in 1..number /\ (i + 1) - 1 = i /\ (i - 1) + 1 = i /\ i < number
      <4> HIDE DEF number
      <4> QED BY <1>1, <2>1
    <3>2. mcus[i] = Unit("MCU", s, i - 1) /\ mcus[i + 1] = Unit("MCU", s, i)
      <4> HIDE DEF number
      <4> QED BY <3>1
    <3>3. mcus[i].kind = "MCU" /\ mcus[i].scan = s /\ mcus[i].n = i - 1
      BY <3>2 DEF Unit
    <3> QED BY <3>1, <3>2, <3>3 DEF Follows
  <2> HIDE DEF mcus
  <2>3. mcus # <<>>
    BY <1>1, <2>1
  <2> QED BY <2>1, <2>2, <2>3, Zenon DEF Chained
<1>5. mcus[1] = Unit("MCU", s, 0) /\ mcus[Len(mcus)] = Unit("MCU", s, number - 1)
  <2> HIDE DEF number
  <2> QED BY <1>1, <1>4
<1> HIDE DEF number, mcus
<1>10. start \in Seq(Units) /\ mcus \in Seq(Units) /\ Chained(p, start) /\ Chained(p, mcus)
  BY <1>3, <1>4, Zenon DEF Chained
<1>6. LET units == start \o mcus
      IN /\ Chained(p, units) /\ units[1] = start[1]
         /\ units[Len(units)] = Unit("MCU", s, number - 1)
  <2>1. Follows(p, start[Len(start)], mcus[1]) /\ start[Len(start)].kind # "EOI"
    BY <1>3, <1>5 DEF Follows, Unit
  <2> HIDE DEF start
  <2> DEFINE units == start \o mcus
  <2>2. units \in Seq(Units) /\ Joined(units, start, mcus)
    BY <1>10, JoinedIs, Zenon
  <2> HIDE DEF units
  <2>3. Chained(p, units) /\ units[1] = start[1] /\ units[Len(units)] = mcus[Len(mcus)]
    BY <1>10, <2>1, <2>2, ChainsJoined, SMT
  <2> QED BY <1>5, <2>3 DEF units
<1>7. CASE ~p.scans[s].dqt
  <2>1. ScanUnits(p, s) = <<>> \o start \o mcus
    BY <1>7 DEF ScanUnits, mcus, number
  <2>2. <<>> \o start = start
    BY <1>3 DEF Chained
  <2>3. Opens(p, s, start[1])
    BY <1>7 DEF Opens, Unit
  <2> HIDE DEF start
  <2> QED BY <1>6, <2>1, <2>2, <2>3 DEF number
<1>8. CASE p.scans[s].dqt
  <2>1. TableAt(p, s) \in Nat
    BY Tables, Scans
  <2>2. Chained(p, table) /\ Len(table) = 2
    <3>1. table \in Seq(Units) /\ Len(table) = 2
      BY <1>2, <2>1 DEF Unit, Units
    <3>2. ASSUME NEW i \in 1..(Len(table) - 1)
          PROVE  Follows(p, table[i], table[i + 1]) /\ table[i].kind # "EOI"
      <4>1. i = 1
        BY <3>1
      <4> QED BY <4>1 DEF Follows, Unit
    <3> QED BY <3>1, <3>2 DEF Chained
  <2>3. Follows(p, table[Len(table)], start[1]) /\ table[Len(table)].kind # "EOI"
    BY <1>2, <2>2 DEF Follows, Unit
  <2>4. Opens(p, s, table[1])
    BY <1>8 DEF Opens, Unit
  <2>5. ScanUnits(p, s) = table \o start \o mcus
    BY <1>8 DEF ScanUnits, mcus, number
  <2>6. start[Len(start)] = Unit("params", s, 1)
    BY <1>3
  <2> HIDE DEF start, table
  <2>13. table \in Seq(Units) /\ Chained(p, table)
    BY <2>2, Zenon DEF Chained
  <2> DEFINE opening == table \o start
  <2>11. opening \in Seq(Units) /\ Joined(opening, table, start)
    BY <1>10, <2>13, JoinedIs, Zenon
  <2> HIDE DEF opening
  <2>7. Chained(p, opening) /\ opening[1] = table[1] /\ opening[Len(opening)] = start[Len(start)]
    BY <1>10, <2>3, <2>11, <2>13, ChainsJoined, SMT
  <2>8. Follows(p, opening[Len(opening)], mcus[1]) /\ opening[Len(opening)].kind # "EOI"
    BY <1>5, <2>6, <2>7 DEF Follows, Unit
  <2> DEFINE units == opening \o mcus
  <2>12. units \in Seq(Units) /\ Joined(units, opening, mcus)
    BY <1>10, <2>11, JoinedIs, Zenon
  <2>10. ScanUnits(p, s) = units
    BY <2>5 DEF opening
  <2> HIDE DEF units
  <2>9. Chained(p, units) /\ units[1] = opening[1] /\ units[Len(units)] = mcus[Len(mcus)]
    BY <1>10, <2>7, <2>8, <2>11, <2>12, ChainsJoined, SMT
  <2> QED BY <1>5, <2>4, <2>7, <2>9, <2>10 DEF number
<1>9. p.scans[s].dqt \in BOOLEAN
  BY Scans
<1> QED BY <1>7, <1>8, <1>9

\* The flattening of a sequence of sequences, as it is built.
IsFlattening(flat, seqs, n) ==
  flat = [i \in 1..n |-> IF i = 1 THEN seqs[i] ELSE flat[i - 1] \o seqs[i]]

\* It exists, however many there are.
LEMMA FlatteningExists == \A seqs : \A n \in Nat : \E flat : IsFlattening(flat, seqs, n)
<1> SUFFICES ASSUME NEW seqs PROVE \A n \in Nat : \E flat : IsFlattening(flat, seqs, n)
  OBVIOUS
<1> DEFINE T == {n \in Nat : \E flat : IsFlattening(flat, seqs, n)}
<1>1. 0 \in T
  <2>1. IsFlattening([i \in 1..0 |-> 0], seqs, 0)
    BY DEF IsFlattening
  <2> QED BY <2>1
<1>2. ASSUME NEW n \in T, n \in Nat PROVE n + 1 \in T
  <2>1. PICK flat : IsFlattening(flat, seqs, n)
    BY <1>2
  <2> DEFINE next == [i \in 1..(n + 1) |->
                        IF i = n + 1 THEN (IF i = 1 THEN seqs[i] ELSE flat[n] \o seqs[i]) ELSE flat[i]]
  <2>3. ASSUME NEW i \in 1..(n + 1)
        PROVE  next[i] = IF i = 1 THEN seqs[i] ELSE next[i - 1] \o seqs[i]
    <3>1. CASE i = n + 1
      <4>1. next[i] = IF i = 1 THEN seqs[i] ELSE flat[n] \o seqs[i]
        BY <3>1
      <4>2. i # 1 => n \in 1..(n + 1) /\ n # n + 1 /\ i - 1 = n
        BY <1>2, <3>1
      <4>3. i # 1 => next[i - 1] = flat[n]
        BY <4>2
      <4> QED BY <4>1, <4>3
    <3>2. CASE i # n + 1
      <4>1. i \in 1..n /\ (i # 1 => i - 1 \in 1..(n + 1) /\ i - 1 # n + 1)
        BY <1>2, <3>2
      <4>2. flat[i] = IF i = 1 THEN seqs[i] ELSE flat[i - 1] \o seqs[i]
        BY <2>1, <4>1, Zenon DEF IsFlattening
      <4>3. next[i] = flat[i] /\ (i # 1 => next[i - 1] = flat[i - 1])
        BY <3>2, <4>1
      <4> QED BY <4>2, <4>3
    <3> QED BY <3>1, <3>2
  <2>4. IsFlattening(next, seqs, n + 1)
    BY <2>3, Zenon DEF IsFlattening
  <2>5. n + 1 \in Nat
    BY <1>2
  <2> QED BY <2>4, <2>5
<1> HIDE DEF T
<1>3. Nat \subseteq T
  BY <1>1, <1>2, NatInduct
<1> QED BY <1>3 DEF T

\* The last MCU of a scan.
LastMcu(p, s) == Unit("MCU", s, McuNumber(p, p.scans[s].comps) - 1)
\* A chain that begins with the first scan and ends with the scan s.
UpToScan(p, s, units) ==
  units \in Seq(Units) /\ Chained(p, units) /\ Opens(p, 1, units[1])
  /\ units[Len(units)] = LastMcu(p, s)

\* After a scan's last MCU comes the next scan.
LEMMA ScanAfterScan ==
  ASSUME NEW p \in Pictures, NEW s \in 1..Len(p.scans), s < Len(p.scans), NEW w, Opens(p, s + 1, w)
  PROVE  Follows(p, LastMcu(p, s), w) /\ LastMcu(p, s).kind # "EOI"
<1> DEFINE number == McuNumber(p, p.scans[s].comps)
<1>1. number \in Nat /\ number >= 1
  BY Scans, McuSizes
<1>2. /\ LastMcu(p, s).kind = "MCU" /\ LastMcu(p, s).scan = s
      /\ LastMcu(p, s).n = number - 1
  BY DEF LastMcu, Unit
<1> HIDE DEF number
<1>3. (number - 1) + 1 = number
  BY <1>1
<1> QED BY <1>2, <1>3 DEF Follows, number

\* The scans follow one another.
LEMMA ScansChained ==
  ASSUME NEW p \in Pictures
  PROVE  UpToScan(p, Len(p.scans), FlattenSeq([s \in 1..Len(p.scans) |-> ScanUnits(p, s)]))
<1> DEFINE number == Len(p.scans)
           seqs == [s \in 1..number |-> ScanUnits(p, s)]
           flat == CHOOSE f : IsFlattening(f, seqs, number)
<1>1. number \in Nat /\ number >= 1
  BY Scans
<1>2. Len(seqs) = number
  <2> HIDE DEF number
  <2> QED BY <1>1
<1>3. \A s \in 1..number : seqs[s] = ScanUnits(p, s)
  <2> HIDE DEF number
  <2> QED OBVIOUS
<1> HIDE DEF seqs
<1>4. FlattenSeq(seqs) = flat[number]
  <2>1. Len(seqs) # 0
    BY <1>1, <1>2
  <2> QED BY <1>2, <2>1, Zenon DEF FlattenSeq, IsFlattening
<1>5. IsFlattening(flat, seqs, number)
  BY <1>1, FlatteningExists
<1> HIDE DEF flat
<1>6. ASSUME NEW s \in 1..number
      PROVE  flat[s] = IF s = 1 THEN ScanUnits(p, s) ELSE flat[s - 1] \o ScanUnits(p, s)
  BY <1>3, <1>5, Zenon DEF IsFlattening
<1>7. ASSUME NEW s \in 1..number
      PROVE  /\ ScanUnits(p, s) \in Seq(Units) /\ Chained(p, ScanUnits(p, s))
             /\ Opens(p, s, ScanUnits(p, s)[1])
             /\ ScanUnits(p, s)[Len(ScanUnits(p, s))] = LastMcu(p, s)
  BY ScanChained, Zenon DEF Chained, LastMcu
<1> DEFINE T == {n \in Nat : n + 1 <= number => UpToScan(p, n + 1, flat[n + 1])}
<1>8. 0 \in T
  <2>1. 1 \in 1..number /\ 0 + 1 = 1
    BY <1>1
  <2>2. UpToScan(p, 1, flat[1])
    BY <1>6, <1>7, <2>1, Zenon DEF UpToScan
  <2> QED BY <2>1, <2>2
<1>9. ASSUME NEW n \in T, n \in Nat PROVE n + 1 \in T
  <2>1. CASE (n + 1) + 1 <= number
    <3> DEFINE s == n + 1
               units == flat[s] \o ScanUnits(p, s + 1)
               more == ScanUnits(p, s + 1)
               before == flat[s]
    <3>1. /\ s \in 1..number /\ s + 1 \in 1..number /\ s < number /\ s + 1 # 1 /\ (s + 1) - 1 = s
      BY <1>1, <1>9, <2>1
    <3>2. UpToScan(p, s, before)
      BY <1>1, <1>9, <2>1
    <3>3. flat[s + 1] = units
      BY <1>6, <3>1, Zenon
    <3> HIDE DEF s
    <3>4. /\ more \in Seq(Units) /\ Chained(p, more) /\ Opens(p, s + 1, more[1])
          /\ more[Len(more)] = LastMcu(p, s + 1)
      BY <1>7, <3>1
    <3>5. units \in Seq(Units) /\ Joined(units, before, more)
      BY <3>2, <3>4, JoinedIs, Zenon DEF UpToScan
    <3> HIDE DEF units, more, before
    <3>6. /\ Chained(p, before) /\ before \in Seq(Units) /\ Opens(p, 1, before[1])
          /\ before[Len(before)] = LastMcu(p, s)
      BY <3>2 DEF UpToScan
    <3>7. Follows(p, before[Len(before)], more[1]) /\ before[Len(before)].kind # "EOI"
      BY <3>1, <3>4, <3>6, ScanAfterScan
    <3>8. Chained(p, units) /\ units[1] = before[1] /\ units[Len(units)] = more[Len(more)]
      BY <3>4, <3>5, <3>6, <3>7, ChainsJoined, SMT
    <3>9. UpToScan(p, s + 1, units)
      BY <3>4, <3>5, <3>6, <3>8, Zenon DEF UpToScan
    <3> QED BY <1>9, <3>3, <3>9 DEF s
  <2> QED BY <1>9, <2>1
<1> HIDE DEF T
<1>10. number - 1 \in T
  BY <1>1, <1>8, <1>9, NatInduct
<1>11. UpToScan(p, number, flat[number])
  BY <1>1, <1>10 DEF T
<1> QED BY <1>4, <1>11 DEF seqs

\* The data of a picture begin with SOI and end with the only EOI, and each unit
\* has its place behind the one before.
LEMMA StreamOrder ==
  ASSUME NEW p \in Pictures
  PROVE  LET units == StreamOf(p)
         IN /\ Chained(p, units) /\ units \in Seq(Units)
            /\ Len(units) \in Nat /\ Len(units) >= 1
            /\ units[1] = Unit("SOI", 0, 0) /\ units[Len(units)] = Unit("EOI", 0, 0)
<1> DEFINE scans == FlattenSeq([s \in 1..Len(p.scans) |-> ScanUnits(p, s)])
           end == <<Unit("EOI", 0, 0)>>
           number == Len(p.scans)
           early == HeaderUnits \o scans
           units == early \o end
<1>1. number \in Nat /\ number >= 1
  BY Scans
<1>2. UpToScan(p, number, scans)
  BY ScansChained
<1>3. StreamOf(p) = units
  BY DEF StreamOf
<1> HIDE DEF scans
<1>4. /\ HeaderUnits \in Seq(Units) /\ Chained(p, HeaderUnits)
      /\ HeaderUnits[1] = Unit("SOI", 0, 0)
      /\ HeaderUnits[Len(HeaderUnits)] = Unit("frame", 0, 0)
  <2>1. HeaderUnits \in Seq(Units) /\ Len(HeaderUnits) = 5
    BY DEF HeaderUnits, Unit, Units
  <2>2. ASSUME NEW i \in 1..(Len(HeaderUnits) - 1)
        PROVE  Follows(p, HeaderUnits[i], HeaderUnits[i + 1]) /\ HeaderUnits[i].kind # "EOI"
    <3>1. i = 1 \/ i = 2 \/ i = 3 \/ i = 4
      BY <2>1
    <3>2. TableAt(p, 0) = 1
      BY Tables
    <3> QED BY <3>1, <3>2 DEF Follows, Unit, HeaderUnits
  <2>3. HeaderUnits[1] = Unit("SOI", 0, 0) /\ HeaderUnits[5] = Unit("frame", 0, 0)
    BY DEF HeaderUnits
  <2>4. HeaderUnits # <<>>
    BY <2>1
  <2> QED BY <2>1, <2>2, <2>3, <2>4 DEF Chained
<1>5. end \in Seq(Units) /\ Chained(p, end) /\ end[1] = Unit("EOI", 0, 0) /\ end[Len(end)] = end[1]
  BY DEF Chained, Unit, Units
<1>6. /\ scans \in Seq(Units) /\ Chained(p, scans) /\ Opens(p, 1, scans[1])
      /\ scans[Len(scans)] = LastMcu(p, number)
  BY <1>2 DEF UpToScan
<1>7. early \in Seq(Units) /\ Joined(early, HeaderUnits, scans)
  BY <1>4, <1>6, JoinedIs, Zenon
<1>8. units \in Seq(Units) /\ Joined(units, early, end)
  BY <1>5, <1>7, JoinedIs, Zenon
<1> HIDE DEF early, units
<1>9. /\ Follows(p, HeaderUnits[Len(HeaderUnits)], scans[1])
      /\ HeaderUnits[Len(HeaderUnits)].kind # "EOI"
  BY <1>4, <1>6 DEF Follows, Unit
<1>10. Chained(p, early) /\ early[1] = HeaderUnits[1] /\ early[Len(early)] = scans[Len(scans)]
  BY <1>4, <1>6, <1>7, <1>9, ChainsJoined, SMT
<1>11. Follows(p, early[Len(early)], end[1]) /\ early[Len(early)].kind # "EOI"
  <2> DEFINE last == McuNumber(p, p.scans[number].comps)
  <2>1. last \in Nat /\ last >= 1
    <3>1. p.scans[number].comps \in Seq(Comps(p)) /\ p.scans[number].comps # <<>>
      BY <1>1, Scans
    <3> QED BY <3>1, McuSizes
  <2>2. LastMcu(p, number) = Unit("MCU", number, last - 1)
    BY DEF LastMcu
  <2> HIDE DEF last
  <2>3. (last - 1) + 1 = last
    BY <2>1
  <2> QED BY <1>1, <1>5, <1>6, <1>10, <2>2, <2>3 DEF Follows, Unit, last
<1> HIDE DEF end
<1>12. Chained(p, units) /\ units[1] = early[1] /\ units[Len(units)] = end[Len(end)]
  BY <1>5, <1>7, <1>8, <1>10, <1>11, ChainsJoined, SMT
<1>13. Len(units) \in Nat /\ Len(units) >= 1
  BY <1>12 DEF Chained
<1> QED BY <1>3, <1>4, <1>5, <1>8, <1>10, <1>12, <1>13

-----------------------------------------------------------------------------
(***************************************************************************)
(* What each operation on the object leaves as it is.                      *)
(***************************************************************************)

\* Output is as it was, the main buffer and the coefficients are, and the place
\* in a scan and in the data is.
SameOutput(d, e) ==
  /\ e.picture = d.picture /\ e.global_state = d.global_state /\ e.mode = d.mode
  /\ e.decompress_data = d.decompress_data /\ e.output_iMCU_row = d.output_iMCU_row
  /\ e.output_scanline = d.output_scanline /\ e.buffer_full = d.buffer_full
  /\ e.rowgroup_ctr = d.rowgroup_ctr /\ e.next_row_out = d.next_row_out
  /\ e.rows_to_go = d.rows_to_go /\ e.color_buf = d.color_buf
  /\ e.post_process = d.post_process /\ e.strips = d.strips
  /\ e.starting_row = d.starting_row /\ e.next_row = d.next_row
  /\ e.is_dummy_pass = d.is_dummy_pass /\ e.dct_table = d.dct_table
  /\ \A s \in 1..Len(d.picture.scans) : s <= e.output_scan_number <=> s <= d.output_scan_number
SameData(d, e) == e.buffer = d.buffer /\ e.whole_image = d.whole_image
SameScan(d, e) ==
  /\ e.picture = d.picture /\ e.position = d.position /\ e.unread_marker = d.unread_marker
  /\ e.inheaders = d.inheaders /\ e.eoi_reached = d.eoi_reached
  /\ e.has_multiple_scans = d.has_multiple_scans /\ e.comps_in_scan = d.comps_in_scan
  /\ e.input_scan_number = d.input_scan_number /\ e.output_scan_number = d.output_scan_number
  /\ e.quant_tbl = d.quant_tbl /\ e.Ss = d.Ss
SameInput(d, e) ==
  /\ SameScan(d, e) /\ e.consume_input = d.consume_input /\ e.quant_table = d.quant_table
  /\ e.input_iMCU_row = d.input_iMCU_row
  /\ e.MCU_ctr = d.MCU_ctr /\ e.MCU_vert_offset = d.MCU_vert_offset
  /\ e.MCU_rows_per_iMCU_row = d.MCU_rows_per_iMCU_row

\* A record of the object's fields.
IsObject(d) == DOMAIN d = Fields

\* A suspension only shows in what is returned.
LEMMA SuspendedFields ==
  ASSUME NEW d, IsObject(d)
  PROVE  LET e == Suspended(d)
         IN IsObject(e) /\ SameOutput(d, e) /\ SameData(d, e) /\ SameInput(d, e)
            /\ e.ret = "SUSPENDED"
BY DEF Suspended, IsObject, Fields, SameOutput, SameData, SameInput, SameScan

\* What is returned is a field of its own.
LEMMA ReturnedFields ==
  ASSUME NEW d, IsObject(d), NEW r
  PROVE  LET e == [d EXCEPT !.ret = r]
         IN IsObject(e) /\ SameOutput(d, e) /\ SameData(d, e) /\ SameInput(d, e) /\ e.ret = r
BY DEF IsObject, Fields, SameOutput, SameData, SameInput, SameScan

\* start_iMCU_row sets the counters of an iMCU row.
LEMMA StartRowFields ==
  ASSUME NEW d, IsObject(d)
  PROVE  LET e == start_iMCU_row(d)
         IN /\ IsObject(e) /\ SameOutput(d, e) /\ SameData(d, e) /\ SameScan(d, e)
            /\ e.consume_input = d.consume_input /\ e.input_iMCU_row = d.input_iMCU_row
            /\ e.MCU_ctr = 0 /\ e.MCU_vert_offset = 0
            /\ e.MCU_rows_per_iMCU_row = RowsOfMcus(d.picture, d.comps_in_scan, d.input_iMCU_row)
            /\ e.quant_table = d.quant_table /\ e.ret = d.ret
BY DEF start_iMCU_row, IsObject, Fields, SameOutput, SameData, SameScan, RowsOfMcus

\* start_input_pass sets them for the first one, and reads data from then on.
LEMMA StartInputFields ==
  ASSUME NEW d, IsObject(d)
  PROVE  LET e == start_input_pass(d)
         IN /\ IsObject(e) /\ SameOutput(d, e) /\ SameData(d, e) /\ SameScan(d, e)
            /\ e.consume_input = "data" /\ e.input_iMCU_row = 0
            /\ e.MCU_ctr = 0 /\ e.MCU_vert_offset = 0
            /\ e.MCU_rows_per_iMCU_row = RowsOfMcus(d.picture, d.comps_in_scan, 0)
            /\ e.ret = d.ret
            /\ e.quant_table = [c \in DOMAIN d.quant_table |->
                 IF c \in Range(d.comps_in_scan) /\ d.quant_table[c] = 0
                 THEN d.quant_tbl ELSE d.quant_table[c]]
<1> DEFINE a == latch_quant_tables(d)
           b == UpdateCoefBits(a)
           table == [c \in DOMAIN d.quant_table |->
                       IF c \in Range(d.comps_in_scan) /\ d.quant_table[c] = 0
                       THEN d.quant_tbl ELSE d.quant_table[c]]
           c == [b EXCEPT !.input_iMCU_row = 0, !.consume_input = "data"]
<1>0. a = [d EXCEPT !.quant_table = table]
  BY DEF IsObject, Fields, latch_quant_tables
<1> HIDE DEF table
<1>1. /\ IsObject(a) /\ SameOutput(d, a) /\ SameData(d, a) /\ SameScan(d, a)
      /\ a.quant_table = table /\ a.ret = d.ret
  BY <1>0 DEF IsObject, Fields, SameOutput, SameData, SameScan
<1> HIDE DEF a
<1>2. /\ IsObject(b) /\ SameOutput(a, b) /\ SameData(a, b) /\ SameScan(a, b)
      /\ b.quant_table = a.quant_table /\ b.ret = a.ret
  BY <1>1 DEF UpdateCoefBits, IsObject, Fields, SameOutput, SameData, SameScan
<1> HIDE DEF b
<1>3. /\ IsObject(c) /\ SameOutput(b, c) /\ SameData(b, c) /\ SameScan(b, c)
      /\ c.input_iMCU_row = 0 /\ c.consume_input = "data"
      /\ c.quant_table = b.quant_table /\ c.ret = b.ret
  BY <1>2 DEF IsObject, Fields, SameOutput, SameData, SameScan
<1>4. start_input_pass(d) = start_iMCU_row(c)
  BY DEF start_input_pass, a, b, c
<1> HIDE DEF c
<1> DEFINE e == start_iMCU_row(c)
<1>5. /\ IsObject(e) /\ SameOutput(c, e) /\ SameData(c, e) /\ SameScan(c, e)
      /\ e.consume_input = c.consume_input /\ e.input_iMCU_row = c.input_iMCU_row
      /\ e.MCU_ctr = 0 /\ e.MCU_vert_offset = 0
      /\ e.MCU_rows_per_iMCU_row = RowsOfMcus(c.picture, c.comps_in_scan, c.input_iMCU_row)
      /\ e.quant_table = c.quant_table /\ e.ret = c.ret
  BY <1>3, StartRowFields
<1> HIDE DEF e
<1>6. /\ IsObject(e) /\ SameOutput(d, e) /\ SameData(d, e) /\ SameScan(d, e)
      /\ e.consume_input = "data" /\ e.input_iMCU_row = 0
      /\ e.MCU_ctr = 0 /\ e.MCU_vert_offset = 0
      /\ e.MCU_rows_per_iMCU_row = RowsOfMcus(d.picture, d.comps_in_scan, 0)
      /\ e.ret = d.ret /\ e.quant_table = table
  BY <1>1, <1>2, <1>3, <1>5 DEF SameOutput, SameData, SameScan
<1> QED BY <1>4, <1>6 DEF e, table

\* The next MCU is one unit and one column on, or at the start of the next row.
LEMMA NextMcuFields ==
  ASSUME NEW d, IsObject(d)
  PROVE  LET e == NextMcu(d)
             last == d.MCU_ctr + 1 = MCUs_per_row(d.picture, d.comps_in_scan)
         IN /\ IsObject(e) /\ SameOutput(d, e) /\ SameData(d, e)
            /\ e.position = d.position + 1 /\ e.unread_marker = d.unread_marker
            /\ e.inheaders = d.inheaders /\ e.eoi_reached = d.eoi_reached
            /\ e.has_multiple_scans = d.has_multiple_scans
            /\ e.comps_in_scan = d.comps_in_scan
            /\ e.input_scan_number = d.input_scan_number
            /\ e.consume_input = d.consume_input /\ e.input_iMCU_row = d.input_iMCU_row
            /\ e.MCU_rows_per_iMCU_row = d.MCU_rows_per_iMCU_row
            /\ e.quant_tbl = d.quant_tbl /\ e.quant_table = d.quant_table /\ e.Ss = d.Ss
            /\ e.output_scan_number = d.output_scan_number /\ e.ret = d.ret
            /\ last => e.MCU_ctr = 0 /\ e.MCU_vert_offset = d.MCU_vert_offset + 1
            /\ ~last => e.MCU_ctr = d.MCU_ctr + 1 /\ e.MCU_vert_offset = d.MCU_vert_offset
BY DEF NextMcu, IsObject, Fields, SameOutput, SameData

\* The next iMCU row, or the markers after the last.
LEMMA RowConsumedFields ==
  ASSUME NEW d, IsObject(d)
  PROVE  LET e == RowConsumed(d)
             more == d.input_iMCU_row + 1 < total_iMCU_rows(d.picture)
         IN /\ IsObject(e) /\ SameOutput(d, e) /\ SameData(d, e) /\ SameScan(d, e)
            /\ e.input_iMCU_row = d.input_iMCU_row + 1 /\ e.ret # "SUSPENDED"
            /\ e.quant_table = d.quant_table
            /\ more =>
                 /\ e.consume_input = d.consume_input
                 /\ e.MCU_ctr = 0 /\ e.MCU_vert_offset = 0
                 /\ e.MCU_rows_per_iMCU_row =
                      RowsOfMcus(d.picture, d.comps_in_scan, d.input_iMCU_row + 1)
            /\ ~more => e.consume_input = "markers"
<1> DEFINE more == d.input_iMCU_row + 1 < total_iMCU_rows(d.picture)
           a == [d EXCEPT !.input_iMCU_row = @ + 1]
           b == start_iMCU_row(a)
           c == [b EXCEPT !.ret = "ROW_COMPLETED"]
           e == RowConsumed(d)
<1>1. CASE more
  <2>1. /\ IsObject(a) /\ SameOutput(d, a) /\ SameData(d, a) /\ SameScan(d, a)
        /\ a.input_iMCU_row = d.input_iMCU_row + 1 /\ a.consume_input = d.consume_input
        /\ a.quant_table = d.quant_table
    BY DEF IsObject, Fields, SameOutput, SameData, SameScan
  <2>2. e = c
    BY <1>1 DEF RowConsumed
  <2> HIDE DEF a
  <2>3. /\ IsObject(b) /\ SameOutput(a, b) /\ SameData(a, b) /\ SameScan(a, b)
        /\ b.consume_input = a.consume_input /\ b.input_iMCU_row = a.input_iMCU_row
        /\ b.quant_table = a.quant_table
        /\ b.MCU_ctr = 0 /\ b.MCU_vert_offset = 0
        /\ b.MCU_rows_per_iMCU_row = RowsOfMcus(a.picture, a.comps_in_scan, a.input_iMCU_row)
    BY <2>1, StartRowFields
  <2> HIDE DEF b
  <2>4. IsObject(c) /\ SameOutput(b, c) /\ SameData(b, c) /\ SameInput(b, c) /\ c.ret = "ROW_COMPLETED"
    BY <2>3, ReturnedFields
  <2> HIDE DEF c, e
  <2> QED BY <1>1, <2>1, <2>2, <2>3, <2>4 DEF SameOutput, SameData, SameScan, SameInput, e
<1>2. CASE ~more
  BY <1>2 DEF RowConsumed, IsObject, Fields, SameOutput, SameData, SameScan
<1> QED BY <1>1, <1>2

-----------------------------------------------------------------------------
(***************************************************************************)
(* The markers between the scans.                                          *)
(***************************************************************************)

\* The data of the object's picture.
LEMMA StreamAt ==
  ASSUME NEW d, Object(d)
  PROVE  /\ Len(Stream(d)) \in Nat /\ Len(Stream(d)) >= 1
         /\ Stream(d)[1] = Unit("SOI", 0, 0)
         /\ Stream(d)[Len(Stream(d))] = Unit("EOI", 0, 0)
         /\ \A i \in 1..Len(Stream(d)) : Stream(d)[i] \in Units
         /\ \A i \in 1..(Len(Stream(d)) - 1) :
              Follows(d.picture, Stream(d)[i], Stream(d)[i + 1]) /\ Stream(d)[i].kind # "EOI"
<1> DEFINE p == d.picture
           units == StreamOf(p)
<1>1. p \in Pictures
  BY DEF Object
<1>2. Stream(d) = units
  BY <1>1 DEF Stream, Streams
<1>3. /\ Chained(p, units) /\ units \in Seq(Units) /\ Len(units) \in Nat /\ Len(units) >= 1
      /\ units[1] = Unit("SOI", 0, 0) /\ units[Len(units)] = Unit("EOI", 0, 0)
  BY <1>1, StreamOrder
<1> HIDE DEF units
<1>4. \A i \in 1..Len(units) : units[i] \in Units
  BY <1>3
<1>5. \A i \in 1..(Len(units) - 1) : Follows(p, units[i], units[i + 1]) /\ units[i].kind # "EOI"
  BY <1>3 DEF Chained
<1> QED BY <1>2, <1>3, <1>4, <1>5

\* A unit that is not EOI is followed by one.
LEMMA UnitAfter ==
  ASSUME NEW d, Object(d), NEW i \in 1..Len(Stream(d)), Stream(d)[i].kind # "EOI"
  PROVE  /\ i + 1 \in 1..Len(Stream(d)) /\ i \in 1..(Len(Stream(d)) - 1)
         /\ Follows(d.picture, Stream(d)[i], Stream(d)[i + 1])
         /\ Stream(d)[i] \in Units /\ Stream(d)[i + 1] \in Units
<1>1. /\ Len(Stream(d)) \in Nat /\ Stream(d)[Len(Stream(d))].kind = "EOI"
      /\ \A j \in 1..Len(Stream(d)) : Stream(d)[j] \in Units
  BY StreamAt DEF Unit
<1>2. i \in 1..(Len(Stream(d)) - 1) /\ i + 1 \in 1..Len(Stream(d))
  BY <1>1
<1> QED BY <1>1, <1>2, StreamAt

\* The input is within what has arrived.
InputThere(d) == Object(d) /\ arrived \in 0..Len(Stream(d)) /\ d.position \in 0..arrived

\* EOI has been read.
DataEnd(d) ==
  /\ d.consume_input = "markers" /\ ~d.eoi_reached
  /\ d.input_scan_number = Len(d.picture.scans) /\ d.position = Len(Stream(d))
\* where a turn of the loop may come to, and what it leaves as it is
MarkersRead(d) ==
  /\ InputThere(d)
  /\ \/ d.ret \in {"NONE", "SUSPENDED"} /\ AmongMarkers(d)
     \/ d.ret = "REACHED_SOS" /\ ScanBegins(d)
     \/ d.ret = "REACHED_EOI" /\ DataEnd(d)
SameHeader(d, e) ==
  /\ SameOutput(d, e) /\ SameData(d, e)
  /\ e.inheaders = d.inheaders /\ e.has_multiple_scans = d.has_multiple_scans
  /\ e.output_scan_number = d.output_scan_number /\ e.quant_table = d.quant_table
\* a scan is counted when its start has been read
Counted(d, e) ==
  e.input_scan_number =
    IF e.ret = "REACHED_SOS" THEN d.input_scan_number + 1 ELSE d.input_scan_number

\* how many turns the loop may still take from a marker that has not been found
TurnsFrom(u) ==
  CASE u.kind = "SOI" -> 10
    [] u.kind = "DQT" /\ u.scan = 0 -> 8
    [] u.kind = "SOF" -> 6
    [] u.kind = "DQT" /\ u.scan # 0 -> 4
    [] OTHER -> 2
TurnsLeft(d) ==
  IF d.unread_marker = "none" THEN TurnsFrom(Ahead(d)) ELSE TurnsFrom(Behind(d)) - 1
Nearer(d, e) == e.ret = "NONE" => TurnsLeft(e) < TurnsLeft(d)

\* next_marker finds one of those that may come, if it has come.
LEMMA MarkerFound ==
  ASSUME NEW d, InputThere(d), AmongMarkers(d), d.ret = "NONE", d.unread_marker = "none"
  PROVE  MarkersRead(MarkerRead(d)) /\ SameHeader(d, MarkerRead(d)) /\ Counted(d, MarkerRead(d))
         /\ Nearer(d, MarkerRead(d))
<1> DEFINE e == MarkerRead(d)
<1>1. /\ d.position \in 0..(Len(Stream(d)) - 1) /\ MarkerFor(d.picture, d.input_scan_number, Ahead(d))
      /\ TableFor(d, Ahead(d))
      /\ Len(Stream(d)) \in Nat /\ arrived \in Nat /\ d.position \in Nat /\ IsObject(d)
  <2>1. Len(Stream(d)) \in Nat
    BY StreamAt DEF InputThere
  <2>2. ~(d.position \in 1..Len(Stream(d)) /\ MarkerFor(d.picture, d.input_scan_number, Behind(d))
          /\ d.unread_marker = Behind(d).kind)
    BY DEF MarkerFor
  <2> QED BY <2>1, <2>2 DEF AmongMarkers, InputThere, Object, IsObject
<1>2. CASE ~Has(d, 1)
  <2>1. e = Suspended(d)
    BY <1>2 DEF MarkerRead
  <2>2. IsObject(e) /\ SameOutput(d, e) /\ SameData(d, e) /\ SameInput(d, e) /\ e.ret = "SUSPENDED"
    BY <1>1, <2>1, SuspendedFields
  <2>3. e.output_scan_number = d.output_scan_number
    BY <1>1, <2>1 DEF Suspended, IsObject, Fields
  <2> HIDE DEF e
  <2>4. Stream(e) = Stream(d) /\ Ahead(e) = Ahead(d)
    BY <2>2 DEF SameInput, SameScan, Stream, Ahead
  <2> QED BY <1>1, <2>2, <2>3, <2>4
       DEF MarkersRead, Counted, Nearer, SameHeader, InputThere, Object, IsObject, AmongMarkers, TableFor,
           SameInput, SameScan, e
<1>3. CASE Has(d, 1)
  <2>1. e = next_marker(d)
    BY <1>3 DEF MarkerRead
  <2>2. /\ IsObject(e) /\ SameHeader(d, e) /\ e.picture = d.picture /\ e.ret = d.ret
        /\ e.position = d.position + 1 /\ e.unread_marker = Ahead(d).kind
        /\ e.consume_input = d.consume_input /\ e.eoi_reached = d.eoi_reached
        /\ e.input_scan_number = d.input_scan_number /\ e.quant_tbl = d.quant_tbl
    BY <1>1, <2>1 DEF next_marker, IsObject, Fields, SameHeader, SameOutput, SameData, Ahead
  <2> HIDE DEF e
  <2>3. Stream(e) = Stream(d) /\ Behind(e) = Ahead(d)
    BY <2>2 DEF Stream, Ahead, Behind
  <2>4. e.position \in 1..Len(Stream(d)) /\ e.position \in 0..arrived
    BY <1>1, <1>3, <2>2 DEF Has
  <2>5. AmongMarkers(e)
    BY <1>1, <2>2, <2>3, <2>4 DEF AmongMarkers, TableFor
  <2>6. InputThere(e)
    BY <2>2, <2>3, <2>4 DEF InputThere, Object, IsObject
  <2>7. Nearer(d, e)
    <3>1. e.unread_marker # "none" /\ TurnsFrom(Ahead(d)) \in Nat
      BY <1>1, <2>2 DEF MarkerFor, TurnsFrom
    <3> QED BY <2>3, <3>1 DEF Nearer, TurnsLeft
  <2> QED BY <2>2, <2>5, <2>6, <2>7 DEF MarkersRead, Counted, e
<1> QED BY <1>2, <1>3

\* What the parameters of a marker that has been found lead to.
LEMMA SosTaken ==
  ASSUME NEW d, InputThere(d), AmongMarkers(d), d.ret = "NONE", d.unread_marker = "SOS"
  PROVE  MarkersRead(MarkerRead(d)) /\ SameHeader(d, MarkerRead(d)) /\ Counted(d, MarkerRead(d))
         /\ Nearer(d, MarkerRead(d))
<1> DEFINE e == MarkerRead(d)
           p == d.picture
           S == Stream(d)
           i == d.position
           s == d.input_scan_number + 1
           here == S[i + 1]
           f == WithScan(d, p.scans[here.scan])
<1>1. /\ i \in 1..Len(S) /\ MarkerFor(p, d.input_scan_number, Behind(d))
      /\ Behind(d).kind = "SOS" /\ Behind(d) = S[i] /\ TableFor(d, Behind(d))
      /\ Len(S) \in Nat /\ arrived \in 0..Len(S) /\ i \in 0..arrived /\ IsObject(d) /\ p \in Pictures
      /\ d.consume_input = "markers" /\ ~d.eoi_reached /\ d.input_scan_number \in 0..Len(p.scans)
  <2>1. Len(S) \in Nat
    BY StreamAt DEF InputThere
  <2> QED BY <2>1 DEF AmongMarkers, InputThere, Object, IsObject, Behind
<1>2. S[i].kind = "SOS" /\ S[i].scan = s /\ s \in 1..Len(p.scans)
  BY <1>1, Scans DEF MarkerFor
<1>3. i + 1 \in 1..Len(S) /\ S[i + 1] = Unit("params", s, 0)
  BY <1>1, <1>2, UnitAfter DEF Follows, InputThere
<1>4. (i + 1) + 1 \in 1..Len(S) /\ S[(i + 1) + 1] = Unit("params", s, 1)
  <2>1. S[i + 1].kind = "params" /\ S[i + 1].n = 0 /\ S[i + 1].scan = s
    BY <1>3 DEF Unit
  <2> QED BY <1>3, <2>1, UnitAfter DEF Follows, InputThere
<1>5. ((i + 1) + 1) + 1 \in 1..Len(S) /\ S[((i + 1) + 1) + 1] = Unit("MCU", s, 0)
  <2> DEFINE j == (i + 1) + 1
  <2>1. /\ j \in 1..Len(S) /\ S[j].kind = "params" /\ S[j].n = 1 /\ S[j].scan = s
        /\ S[j].kind # "EOI"
    BY <1>4 DEF Unit
  <2> HIDE DEF j
  <2>2. j + 1 \in 1..Len(S) /\ Follows(p, S[j], S[j + 1])
    BY <2>1, UnitAfter DEF InputThere
  <2>3. S[j + 1] = Unit("MCU", s, 0)
    BY <2>1, <2>2 DEF Follows
  <2> QED BY <2>2, <2>3 DEF j
<1>6. (i + 2) + 1 \in 1..Len(S) /\ S[(i + 2) + 1] = Unit("MCU", s, 0)
  <2>1. ((i + 1) + 1) + 1 = (i + 2) + 1
    BY <1>1
  <2> QED BY <1>5, <2>1
<1>7. here.scan = s
  BY <1>3 DEF Unit
<1>8. e = get_sos(d)
  BY DEF MarkerRead
<1> HIDE DEF s, here
<1>9. CASE ~Has(d, 1)
  <2>1. e = Suspended(d)
    BY <1>8, <1>9 DEF get_sos
  <2>2. IsObject(e) /\ SameOutput(d, e) /\ SameData(d, e) /\ SameInput(d, e) /\ e.ret = "SUSPENDED"
    BY <1>1, <2>1, SuspendedFields
  <2>3. e.output_scan_number = d.output_scan_number
    BY <1>1, <2>1 DEF Suspended, IsObject, Fields
  <2> HIDE DEF e
  <2>4. Stream(e) = Stream(d) /\ Behind(e) = Behind(d)
    BY <2>2 DEF SameInput, SameScan, Stream, Behind
  <2> QED BY <1>1, <2>2, <2>3, <2>4
       DEF MarkersRead, Counted, Nearer, SameHeader, InputThere, Object, IsObject, AmongMarkers, TableFor,
           SameInput, SameScan, e
<1>10. CASE Has(d, 1)
  <2>1. /\ IsObject(f) /\ SameHeader(d, f) /\ f.picture = d.picture /\ f.ret = d.ret
        /\ f.position = d.position /\ f.unread_marker = d.unread_marker
        /\ f.consume_input = d.consume_input /\ f.eoi_reached = d.eoi_reached
        /\ f.input_scan_number = d.input_scan_number
        /\ f.comps_in_scan = p.scans[here.scan].comps /\ f.Ss = p.scans[here.scan].Ss
        /\ f.quant_tbl = d.quant_tbl
    BY <1>1 DEF WithScan, IsObject, Fields, SameHeader, SameOutput, SameData
  <2>2. e = ScanRead(f)
    BY <1>8, <1>10 DEF get_sos, here
  <2> HIDE DEF f
  <2>3. Stream(f) = Stream(d) /\ Behind(f) = Behind(d)
    BY <2>1 DEF Stream, Behind
  <2>4. CASE ~Has(f, 2)
    <3>1. e = Suspended(f)
      BY <2>2, <2>4 DEF ScanRead
    <3>2. IsObject(e) /\ SameOutput(f, e) /\ SameData(f, e) /\ SameInput(f, e) /\ e.ret = "SUSPENDED"
      BY <2>1, <3>1, SuspendedFields
    <3>3. e.output_scan_number = f.output_scan_number
      BY <2>1, <3>1 DEF Suspended, IsObject, Fields
    <3> HIDE DEF e
    <3>4. Stream(e) = Stream(d) /\ Behind(e) = Behind(d)
      BY <2>1, <2>3, <3>2 DEF SameInput, SameScan, Stream, Behind
    <3>5. AmongMarkers(e)
      BY <1>1, <2>1, <3>2, <3>4 DEF AmongMarkers, TableFor, SameInput, SameScan
    <3>6. InputThere(e)
      BY <1>1, <2>1, <3>2, <3>4 DEF InputThere, Object, IsObject, SameInput, SameScan
    <3>7. SameHeader(d, e)
      BY <2>1, <3>2, <3>3 DEF SameHeader, SameOutput, SameData, SameInput, SameScan
    <3>8. Counted(d, e)
      BY <2>1, <3>2 DEF Counted, SameInput, SameScan
    <3> QED BY <3>2, <3>5, <3>6, <3>7, <3>8 DEF MarkersRead, Nearer, e
  <2>5. CASE Has(f, 2)
    <3>1. /\ IsObject(e) /\ SameHeader(f, e) /\ e.picture = f.picture /\ e.ret = "REACHED_SOS"
          /\ e.position = f.position + 2 /\ e.unread_marker = "none"
          /\ e.consume_input = f.consume_input /\ e.eoi_reached = f.eoi_reached
          /\ e.input_scan_number = f.input_scan_number + 1
          /\ e.comps_in_scan = f.comps_in_scan /\ e.Ss = f.Ss /\ e.quant_tbl = f.quant_tbl
      BY <2>1, <2>2, <2>5 DEF ScanRead, IsObject, Fields, SameHeader, SameOutput, SameData
    <3> HIDE DEF e
    <3>2. Stream(e) = S /\ Ahead(e) = S[(i + 2) + 1]
      BY <2>1, <2>3, <3>1 DEF Stream, Ahead
    <3>3. e.position \in 0..arrived /\ e.position \in 0..(Len(S) - 1)
      BY <1>1, <1>6, <2>1, <2>5, <3>1 DEF Has
    <3>4. e.input_scan_number = s
      BY <2>1, <3>1 DEF s
    <3>8. d.quant_tbl = TableAt(p, s)
      BY <1>1, <1>2 DEF TableFor
    <3>5. ScanBegins(e)
      BY <3>8, <1>1, <1>2, <1>6, <1>7, <2>1, <3>1, <3>2, <3>3, <3>4 DEF ScanBegins, ScanAtHand
    <3>6. InputThere(e)
      BY <1>1, <2>1, <3>1, <3>2, <3>3 DEF InputThere, Object, IsObject
    <3>7. SameHeader(d, e)
      BY <2>1, <3>1 DEF SameHeader, SameOutput, SameData
    <3> QED BY <2>1, <3>1, <3>5, <3>6, <3>7 DEF MarkersRead, Counted, Nearer, e
  <2> QED BY <2>4, <2>5
<1> QED BY <1>9, <1>10

\* The markers but SOS, with their parameters.
LEMMA OtherTaken ==
  ASSUME NEW d, InputThere(d), AmongMarkers(d), d.ret = "NONE",
         d.unread_marker \in {"SOI", "DQT", "SOF", "EOI"}
  PROVE  MarkersRead(MarkerRead(d)) /\ SameHeader(d, MarkerRead(d)) /\ Counted(d, MarkerRead(d))
         /\ Nearer(d, MarkerRead(d))
<1> DEFINE e == MarkerRead(d)
           p == d.picture
           S == Stream(d)
           i == d.position
           n == d.input_scan_number
<1>1. /\ i \in 1..Len(S) /\ MarkerFor(p, n, S[i]) /\ S[i].kind = d.unread_marker /\ Behind(d) = S[i]
      /\ Len(S) \in Nat /\ arrived \in 0..Len(S) /\ i \in 0..arrived /\ IsObject(d) /\ p \in Pictures
      /\ d.consume_input = "markers" /\ ~d.eoi_reached /\ n \in 0..Len(p.scans)
      /\ S[i] \in Units /\ TableFor(d, S[i])
  <2>1. Len(S) \in Nat /\ \A j \in 1..Len(S) : S[j] \in Units
    BY StreamAt DEF InputThere
  <2> QED BY <2>1 DEF AmongMarkers, InputThere, Object, IsObject, Behind
<1>0. Len(p.scans) \in Nat /\ Len(p.scans) >= 1
  BY <1>1, Scans
<1>2. CASE d.unread_marker = "EOI"
  <2>1. n = Len(p.scans) /\ i = Len(S)
    <3>1. \A j \in 1..(Len(S) - 1) : S[j].kind # "EOI"
      BY StreamAt DEF InputThere
    <3>2. i = Len(S)
      BY <1>1, <1>2, <3>1
    <3> QED BY <1>1, <1>2, <3>2 DEF MarkerFor
  <2>2. /\ IsObject(e) /\ SameHeader(d, e) /\ e.picture = d.picture /\ e.ret = "REACHED_EOI"
        /\ e.position = d.position
        /\ e.consume_input = d.consume_input /\ e.eoi_reached = d.eoi_reached
        /\ e.input_scan_number = d.input_scan_number
    BY <1>1, <1>2 DEF MarkerRead, IsObject, Fields, SameHeader, SameOutput, SameData
  <2> HIDE DEF e
  <2>3. Stream(e) = S
    BY <2>2 DEF Stream
  <2>4. DataEnd(e) /\ InputThere(e)
    BY <1>1, <2>1, <2>2, <2>3 DEF DataEnd, InputThere, Object, IsObject
  <2> QED BY <2>2, <2>4 DEF MarkersRead, Counted, Nearer, e
<1>3. CASE d.unread_marker # "EOI"
  <2>1. i + 1 \in 1..Len(S) /\ Follows(p, S[i], S[i + 1]) /\ S[i + 1] \in Units
    BY <1>1, <1>3, UnitAfter DEF InputThere
  <2>2. CASE d.unread_marker = "SOI"
    <3>1. /\ MarkerFor(p, n, S[i + 1]) /\ TableFor(e, S[i + 1])
          /\ TurnsFrom(S[i + 1]) = 8 /\ TurnsFrom(S[i]) = 10
      BY <1>1, <2>1, <2>2 DEF Follows, MarkerFor, Unit, TableFor, TurnsFrom
    <3>2. /\ IsObject(e) /\ SameHeader(d, e) /\ e.picture = d.picture /\ e.ret = d.ret
          /\ e.position = d.position /\ e.unread_marker = "none"
          /\ e.consume_input = d.consume_input /\ e.eoi_reached = d.eoi_reached
          /\ e.input_scan_number = d.input_scan_number
      BY <1>1, <2>2 DEF MarkerRead, get_soi, IsObject, Fields, SameHeader, SameOutput, SameData
    <3> HIDE DEF e
    <3>3. Stream(e) = S /\ Ahead(e) = S[i + 1]
      BY <3>2 DEF Stream, Ahead
    <3>4. e.position \in 0..(Len(S) - 1)
      BY <1>1, <2>1, <3>2
    <3>5. AmongMarkers(e) /\ InputThere(e)
      BY <1>1, <3>1, <3>2, <3>3, <3>4 DEF AmongMarkers, InputThere, Object, IsObject
    <3>6. Nearer(d, e)
      BY <1>1, <2>2, <3>1, <3>2, <3>3 DEF Nearer, TurnsLeft
    <3> QED BY <3>2, <3>5, <3>6 DEF MarkersRead, Counted, e
  <2>3. CASE d.unread_marker \in {"DQT", "SOF"}
    <3>1. (i + 1) + 1 \in 1..Len(S) /\ Follows(p, S[i + 1], S[(i + 1) + 1])
      <4>1. S[i + 1].kind # "EOI"
        BY <1>1, <2>1, <2>3 DEF Follows, Unit
      <4> QED BY <2>1, <4>1, UnitAfter DEF InputThere
    <3>2. /\ MarkerFor(p, n, S[(i + 1) + 1]) /\ TurnsFrom(S[(i + 1) + 1]) < TurnsFrom(S[i]) - 1
          /\ S[(i + 1) + 1].kind \in {"SOF", "SOS"} =>
               TableAt(p, S[(i + 1) + 1].scan) =
                 IF d.unread_marker = "SOF" THEN TableAt(p, 0) ELSE S[i + 1].n
      <4> DEFINE a == S[i]
                 b == S[i + 1]
                 c == S[(i + 1) + 1]
      <4>1. /\ MarkerFor(p, n, a) /\ Follows(p, a, b) /\ Follows(p, b, c)
            /\ a.kind \in {"DQT", "SOF"} /\ a.kind = d.unread_marker
        BY <1>1, <2>1, <2>3, <3>1
      <4> HIDE DEF a, b, c
      <4>2. MarkerFor(p, n, c)
        BY <1>0, <1>1, <4>1 DEF MarkerFor, Follows, Unit, Opens
      <4>3. TurnsFrom(c) < TurnsFrom(a) - 1
        BY <1>0, <1>1, <4>1 DEF MarkerFor, Follows, Unit, Opens, TurnsFrom
      <4>4. c.kind \in {"SOF", "SOS"} =>
              TableAt(p, c.scan) = IF d.unread_marker = "SOF" THEN TableAt(p, 0) ELSE b.n
        <5>1. 1 \in 1..Len(p.scans) /\ 1 - 1 = 0
          BY <1>0
        <5>2. ~p.scans[1].dqt => TableAt(p, 1) = TableAt(p, 0)
          BY <1>1, <5>1, Tables
        <5> QED BY <1>0, <1>1, <4>1, <5>2 DEF MarkerFor, Follows, Unit, Opens
      <4> QED BY <4>2, <4>3, <4>4 DEF a, b, c
    <3>3. CASE ~Has(d, 1)
      <4>1. e = Suspended(d)
        BY <2>3, <3>3 DEF MarkerRead
      <4>2. IsObject(e) /\ SameOutput(d, e) /\ SameData(d, e) /\ SameInput(d, e) /\ e.ret = "SUSPENDED"
        BY <1>1, <4>1, SuspendedFields
      <4>3. e.output_scan_number = d.output_scan_number
        BY <1>1, <4>1 DEF Suspended, IsObject, Fields
      <4> HIDE DEF e
      <4>4. Stream(e) = Stream(d) /\ Behind(e) = Behind(d)
        BY <4>2 DEF SameInput, SameScan, Stream, Behind
      <4> QED BY <1>1, <4>2, <4>3, <4>4
           DEF MarkersRead, Counted, Nearer, SameHeader, InputThere, Object, IsObject, AmongMarkers,
               TableFor, SameInput, SameScan, e
    <3>4. CASE Has(d, 1)
      <4>1. e = IF d.unread_marker = "SOF" THEN get_sof(d) ELSE get_dqt(d)
        BY <2>3, <3>4 DEF MarkerRead
      <4>2. /\ IsObject(e) /\ SameHeader(d, e) /\ e.picture = d.picture /\ e.ret = d.ret
            /\ e.position = d.position + 1 /\ e.unread_marker = "none"
            /\ e.consume_input = d.consume_input /\ e.eoi_reached = d.eoi_reached
            /\ e.input_scan_number = d.input_scan_number
            /\ e.quant_tbl = IF d.unread_marker = "SOF" THEN d.quant_tbl ELSE S[i + 1].n
        BY <1>1, <2>3, <4>1 DEF get_sof, get_dqt, IsObject, Fields, SameHeader, SameOutput, SameData
      <4> HIDE DEF e
      <4>3. Stream(e) = S /\ Ahead(e) = S[(i + 1) + 1]
        BY <4>2 DEF Stream, Ahead
      <4>4. e.position \in 0..(Len(S) - 1) /\ e.position \in 0..arrived
        BY <1>1, <3>1, <3>4, <4>2 DEF Has
      <4>5. TableFor(e, S[(i + 1) + 1])
        <5>1. d.unread_marker = "SOF" => d.quant_tbl = TableAt(p, 0)
          BY <1>1 DEF TableFor, MarkerFor
        <5> QED BY <3>2, <4>2, <5>1 DEF TableFor
      <4>6. AmongMarkers(e) /\ InputThere(e)
        BY <1>1, <3>2, <4>2, <4>3, <4>4, <4>5 DEF AmongMarkers, InputThere, Object, IsObject
      <4>7. Nearer(d, e)
        BY <1>1, <2>3, <3>2, <4>2, <4>3 DEF Nearer, TurnsLeft
      <4> QED BY <1>1, <4>2, <4>6, <4>7 DEF MarkersRead, Counted, e
    <3> QED BY <3>3, <3>4
  <2> QED BY <1>3, <2>2, <2>3
<1> QED BY <1>2, <1>3

\* A turn of read_markers' loop.
LEMMA MarkerTurn ==
  ASSUME NEW d, MarkersRead(d)
  PROVE  /\ MarkersRead(MarkerRead(d)) /\ SameHeader(d, MarkerRead(d))
         /\ IF d.ret = "NONE" THEN Counted(d, MarkerRead(d)) /\ Nearer(d, MarkerRead(d))
            ELSE MarkerRead(d) = d
<1>1. CASE d.ret # "NONE"
  <2>1. MarkerRead(d) = d
    BY <1>1 DEF MarkerRead
  <2> QED BY <1>1, <2>1 DEF SameHeader, SameOutput, SameData
<1>2. CASE d.ret = "NONE"
  <2>1. InputThere(d) /\ AmongMarkers(d)
    BY <1>2 DEF MarkersRead
  <2>2. d.unread_marker \in {"none", "SOS", "SOI", "DQT", "SOF", "EOI"}
    BY <2>1 DEF AmongMarkers, MarkerFor
  <2> QED BY <1>2, <2>1, <2>2, MarkerFound, SosTaken, OtherTaken
<1> QED BY <1>1, <1>2

\* The loop's turns, of which there are n.
AreMarkersRead(turn, d, n) ==
  turn = [i \in 0..n |-> IF i = 0 THEN [d EXCEPT !.ret = "NONE"] ELSE MarkerRead(turn[i - 1])]

\* There is such a function.
LEMMA MarkerTurnsExist == \A d : \A n \in Nat : \E turn : AreMarkersRead(turn, d, n)
<1> SUFFICES ASSUME NEW d PROVE \A n \in Nat : \E turn : AreMarkersRead(turn, d, n)
  OBVIOUS
<1> DEFINE T == {n \in Nat : \E turn : AreMarkersRead(turn, d, n)}
           first == [d EXCEPT !.ret = "NONE"]
<1>1. 0 \in T
  <2>1. AreMarkersRead([i \in 0..0 |-> first], d, 0)
    BY DEF AreMarkersRead
  <2> QED BY <2>1
<1> HIDE DEF first
<1>2. ASSUME NEW n \in T, n \in Nat PROVE n + 1 \in T
  <2>1. PICK turn : AreMarkersRead(turn, d, n)
    BY <1>2
  <2> DEFINE next == [i \in 0..(n + 1) |-> IF i = n + 1 THEN MarkerRead(turn[n]) ELSE turn[i]]
  <2>2. n + 1 \in Nat /\ n + 1 # 0
    BY <1>2
  <2>3. ASSUME NEW i \in 0..(n + 1)
        PROVE  next[i] = IF i = 0 THEN first ELSE MarkerRead(next[i - 1])
    <3>1. CASE i = n + 1
      <4>1. n \in 0..(n + 1) /\ n # n + 1 /\ i - 1 = n
        BY <1>2, <3>1
      <4>2. next[i] = MarkerRead(turn[n]) /\ next[i - 1] = turn[n]
        BY <3>1, <4>1
      <4> QED BY <2>2, <3>1, <4>2
    <3>2. CASE i # n + 1
      <4>1. i \in 0..n /\ (i # 0 => i - 1 \in 0..(n + 1) /\ i - 1 # n + 1)
        BY <1>2, <3>2
      <4>2. turn[i] = IF i = 0 THEN first ELSE MarkerRead(turn[i - 1])
        BY <2>1, <4>1, Zenon DEF AreMarkersRead, first
      <4>3. next[i] = turn[i] /\ (i # 0 => next[i - 1] = turn[i - 1])
        BY <3>2, <4>1
      <4> QED BY <4>2, <4>3
    <3> QED BY <3>1, <3>2
  <2>4. AreMarkersRead(next, d, n + 1)
    BY <2>3, Zenon DEF AreMarkersRead, first
  <2> QED BY <2>2, <2>4
<1> HIDE DEF T
<1>3. Nat \subseteq T
  BY <1>1, <1>2, NatInduct
<1> QED BY <1>3 DEF T

\* read_markers ends among the markers, at a scan's start or at the end.
LEMMA MarkersAreRead ==
  ASSUME NEW d, InputThere(d), AmongMarkers(d)
  PROVE  LET e == read_markers(d)
         IN MarkersRead(e) /\ SameHeader(d, e) /\ Counted(d, e) /\ e.ret # "NONE"
<1> DEFINE turn == CHOOSE t : AreMarkersRead(t, d, 10)
           first == [d EXCEPT !.ret = "NONE"]
           Good(x) == MarkersRead(x) /\ SameHeader(d, x) /\ Counted(d, x)
           Near(x, n) == x.ret = "NONE" => TurnsLeft(x) <= 10 - n
           T == {n \in Nat : n <= 10 => Good(turn[n]) /\ Near(turn[n], n)}
<1>1. read_markers(d) = turn[10]
  BY Zenon DEF read_markers, AreMarkersRead
<1>2. AreMarkersRead(turn, d, 10)
  BY MarkerTurnsExist
<1> HIDE DEF turn
<1>3. turn[0] = first
  BY <1>2 DEF AreMarkersRead
<1>4. ASSUME NEW n \in Nat, n + 1 <= 10 PROVE turn[n + 1] = MarkerRead(turn[n])
  <2>1. n + 1 \in 0..10 /\ n + 1 # 0 /\ (n + 1) - 1 = n
    BY <1>4
  <2> QED BY <1>2, <2>1 DEF AreMarkersRead
<1>5. 0 \in T
  <2>1. IsObject(d)
    BY DEF InputThere, Object, IsObject
  <2>2. /\ IsObject(first) /\ SameOutput(d, first) /\ SameData(d, first) /\ SameInput(d, first)
        /\ first.ret = "NONE"
    BY <2>1, ReturnedFields
  <2>3. first.output_scan_number = d.output_scan_number
    BY <2>1 DEF IsObject, Fields
  <2> HIDE DEF first
  <2>4. Stream(first) = Stream(d) /\ Behind(first) = Behind(d) /\ Ahead(first) = Ahead(d)
    BY <2>2 DEF SameInput, SameScan, Stream, Behind, Ahead
  <2>5. InputThere(first) /\ AmongMarkers(first)
    BY <2>2, <2>4 DEF InputThere, Object, IsObject, AmongMarkers, TableFor, SameInput, SameScan
  <2>6. Good(first)
    BY <2>2, <2>3, <2>5 DEF MarkersRead, SameHeader, Counted, SameInput, SameScan
  <2>7. TurnsLeft(first) <= 10
    BY DEF TurnsLeft, TurnsFrom
  <2> QED BY <1>3, <2>6, <2>7
<1>6. ASSUME NEW n \in T, n \in Nat PROVE n + 1 \in T
  <2>1. CASE n + 1 <= 10
    <3> DEFINE x == turn[n]
               y == MarkerRead(x)
    <3>1. Good(x) /\ Near(x, n) /\ turn[n + 1] = y
      BY <1>4, <1>6, <2>1
    <3> HIDE DEF x, y
    <3>2. /\ MarkersRead(y) /\ SameHeader(x, y)
          /\ IF x.ret = "NONE" THEN Counted(x, y) /\ Nearer(x, y) ELSE y = x
      BY <3>1, MarkerTurn DEF y
    <3>3. Good(y)
      BY <3>1, <3>2 DEF SameHeader, SameOutput, SameData, Counted
    <3>4. Near(y, n + 1)
      <4>1. TurnsLeft(x) \in Int /\ TurnsLeft(y) \in Int
        BY DEF TurnsLeft, TurnsFrom
      <4> QED BY <1>6, <3>1, <3>2, <4>1 DEF Nearer
    <3> QED BY <1>6, <3>1, <3>3, <3>4
  <2> QED BY <1>6, <2>1
<1>7. 10 \in T
  <2> HIDE DEF T
  <2> QED BY <1>5, <1>6, NatInduct
<1>8. Good(turn[10]) /\ Near(turn[10], 10)
  BY <1>7
<1>9. TurnsLeft(turn[10]) >= 1
  BY DEF TurnsLeft, TurnsFrom
<1>10. turn[10].ret # "NONE"
  <2> DEFINE x == TurnsLeft(turn[10])
  <2>1. x \in Int /\ x >= 1
    BY <1>9 DEF TurnsLeft, TurnsFrom
  <2> HIDE DEF x
  <2> QED BY <1>8, <2>1 DEF x
<1> QED BY <1>1, <1>8, <1>10

-----------------------------------------------------------------------------
(***************************************************************************)
(* The data of a scan.                                                     *)
(***************************************************************************)

\* rows of MCUs in an iMCU row that is whole
WholeRows(p, comps) == IF Alone(comps) THEN p.comps[comps[1]].v ELSE 1

\* The iMCU rows divide a scan's rows of MCUs.
LEMMA RowsDivided ==
  ASSUME NEW p \in Pictures, NEW comps \in Seq(Comps(p)), comps # <<>>,
         NEW row \in 0..(total_iMCU_rows(p) - 1)
  PROVE  LET whole == WholeRows(p, comps)
             rows == RowsOfMcus(p, comps, row)
         IN /\ whole \in 1..4 /\ rows \in 1..whole /\ total_iMCU_rows(p) \in Nat
            /\ row + 1 < total_iMCU_rows(p) => rows = whole
            /\ row * whole + rows <= McuRows(p, comps)
            /\ row + 1 = total_iMCU_rows(p) => row * whole + rows = McuRows(p, comps)
<1> DEFINE t == total_iMCU_rows(p)
           c == comps[1]
<1>1. c \in Comps(p) /\ t \in Nat /\ t >= 1
  BY Sizes
<1>2. row \in Nat /\ row + 1 <= t /\ (row = t - 1 <=> row + 1 = t) /\ (row < t - 1 <=> row + 1 < t)
  BY <1>1
<1>3. CASE ~Alone(comps)
  <2>1. WholeRows(p, comps) = 1 /\ RowsOfMcus(p, comps, row) = 1 /\ McuRows(p, comps) = t
    BY <1>3 DEF WholeRows, RowsOfMcus, McuRows
  <2> HIDE DEF t
  <2> QED BY <1>1, <1>2, <2>1 DEF t
<1>4. CASE Alone(comps)
  <2> DEFINE v == p.comps[c].v
             last == last_row_height(p, c)
             high == height_in_blocks(p, c)
  <2>1. v \in 1..4 /\ last \in 1..v /\ high = (t - 1) * v + last
    BY <1>1, Sizes, BlockRows
  <2>2. /\ WholeRows(p, comps) = v /\ McuRows(p, comps) = high
        /\ RowsOfMcus(p, comps, row) = IF row < t - 1 THEN v ELSE last
    BY <1>4 DEF WholeRows, RowsOfMcus, McuRows
  <2> HIDE DEF v, last, high, t, c
  <2>3. CASE row < t - 1
    <3>1. (row + 1) * v <= (t - 1) * v
      BY <1>1, <1>2, <2>1, <2>3, ProductsOrdered
    <3>2. (row + 1) * v = row * v + v /\ row * v \in Nat /\ (t - 1) * v \in Nat
      BY <1>1, <1>2, <2>1
    <3>3. RowsOfMcus(p, comps, row) = v /\ row + 1 < t
      BY <1>1, <1>2, <2>2, <2>3
    <3> DEFINE x == row * v
               y == (t - 1) * v
    <3>4. x \in Nat /\ y \in Nat /\ x + v <= y /\ high = y + last
      BY <2>1, <3>1, <3>2
    <3> HIDE DEF x, y
    <3>5. x + v <= high
      BY <2>1, <3>4
    <3> QED BY <1>1, <1>2, <2>1, <2>2, <3>3, <3>5 DEF t, x
  <2>4. CASE row = t - 1
    <3>1. RowsOfMcus(p, comps, row) = last /\ ~(row + 1 < t)
      BY <1>1, <1>2, <2>2, <2>4
    <3>2. row * v + last = high /\ high \in Nat
      BY <1>1, <2>1, <2>4
    <3> QED BY <1>1, <2>1, <2>2, <3>1, <3>2 DEF t
  <2> QED BY <1>1, <1>2, <2>3, <2>4
<1> QED BY <1>3, <1>4

\* After an MCU comes the next, or what follows the scan.
LEMMA UnitAfterMcu ==
  ASSUME NEW d, Object(d), NEW i \in 1..Len(Stream(d)), NEW s \in 1..Len(d.picture.scans),
         NEW n \in Nat, Stream(d)[i] = Unit("MCU", s, n)
  PROVE  LET number == McuNumber(d.picture, d.picture.scans[s].comps)
         IN /\ i + 1 \in 1..Len(Stream(d)) /\ n + 1 <= number
            /\ n + 1 < number => Stream(d)[i + 1] = Unit("MCU", s, n + 1)
            /\ n + 1 = number =>
                 /\ MarkerFor(d.picture, s, Stream(d)[i + 1])
                 /\ d.quant_tbl = TableAt(d.picture, s) => TableFor(d, Stream(d)[i + 1])
<1> DEFINE p == d.picture
           u == Stream(d)[i]
           w == Stream(d)[i + 1]
           number == McuNumber(p, p.scans[s].comps)
<1>1. u.kind = "MCU" /\ u.scan = s /\ u.n = n /\ u.kind # "EOI"
  BY DEF Unit
<1>2. i + 1 \in 1..Len(Stream(d)) /\ Follows(p, u, w)
  BY <1>1, UnitAfter
<1>3. p \in Pictures /\ Len(p.scans) \in Nat
  BY Scans DEF Object
<1>4. number \in Nat
  BY <1>3, Scans, McuSizes
<1> HIDE DEF u, w, p
<1>5. \/ n + 1 < number /\ w = Unit("MCU", s, n + 1)
      \/ /\ n + 1 = number
         /\ IF s < Len(p.scans) THEN Opens(p, s + 1, w) ELSE w = Unit("EOI", 0, 0)
  BY <1>1, <1>2 DEF Follows
<1> HIDE DEF number
<1>6. n + 1 = number => MarkerFor(p, s, w)
  BY <1>3, <1>4, <1>5 DEF MarkerFor, Opens, Unit, p
<1>7. n + 1 = number /\ d.quant_tbl = TableAt(p, s) => TableFor(d, w)
  <2>1. s < Len(p.scans) => s + 1 \in 1..Len(p.scans) /\ (s + 1) - 1 = s
    BY <1>3 DEF p
  <2>2. s < Len(p.scans) /\ ~p.scans[s + 1].dqt => TableAt(p, s + 1) = TableAt(p, s)
    BY <1>3, <2>1, Tables
  <2> QED BY <1>4, <1>5, <2>2 DEF TableFor, Opens, Unit, p
<1> QED BY <1>2, <1>4, <1>5, <1>6, <1>7 DEF number, w, p

\* Where input is only depends on input's fields.
LEMMA InputKept ==
  ASSUME NEW d, NEW e, Object(d), IsObject(e), SameInput(d, e)
  PROVE  /\ Object(e) /\ Stream(e) = Stream(d)
         /\ InputThere(d) => InputThere(e)
         /\ RowDone(d) = RowDone(e)
         /\ InRow(d) => InRow(e)
         /\ InScan(d) => InScan(e)
         /\ AmongMarkers(d) => AmongMarkers(e)
         /\ ScanBegins(d) => ScanBegins(e)
         /\ AtEnd(d) => AtEnd(e)
         /\ Reading(d) /\ e.whole_image = d.whole_image
            /\ (e.decompress_data = "onepass" <=> d.decompress_data = "onepass") => Reading(e)
<1>1. Object(e) /\ Stream(e) = Stream(d) /\ Ahead(e) = Ahead(d) /\ Behind(e) = Behind(d)
  BY DEF SameInput, SameScan, Object, IsObject, Stream, Ahead, Behind
<1>2. McuHere(e) = McuHere(d) /\ McuBefore(e) = McuBefore(d) /\ RowDone(d) = RowDone(e)
  BY DEF SameInput, SameScan, McuHere, McuBefore, McuRow, RowDone
<1>3. ScanAtHand(d) => ScanAtHand(e)
  BY DEF SameInput, SameScan, ScanAtHand
<1>4. InputThere(d) => InputThere(e)
  BY <1>1 DEF SameInput, SameScan, InputThere
<1>5. InRow(d) => InRow(e)
  BY <1>1, <1>2, <1>3 DEF SameInput, SameScan, InRow
<1>6. InScan(d) => InScan(e)
  BY <1>2, <1>5 DEF InScan
<1>7. AmongMarkers(d) => AmongMarkers(e)
  BY <1>1 DEF SameInput, SameScan, AmongMarkers, TableFor
<1>8. ScanBegins(d) => ScanBegins(e)
  BY <1>1, <1>3 DEF SameInput, SameScan, ScanBegins
<1>9. AtEnd(d) => AtEnd(e)
  BY <1>1 DEF SameInput, SameScan, AtEnd
<1>10. Latched(d, d.input_scan_number) => Latched(e, e.input_scan_number)
  BY DEF SameInput, SameScan, Latched
<1>11. Reading(d) /\ e.whole_image = d.whole_image
       /\ (e.decompress_data = "onepass" <=> d.decompress_data = "onepass") => Reading(e)
  <2> SUFFICES ASSUME Reading(d), e.whole_image = d.whole_image,
                      e.decompress_data = "onepass" <=> d.decompress_data = "onepass"
               PROVE  Reading(e)
    OBVIOUS
  <2>1. ImageHolds(d) => ImageHolds(e)
    BY DEF SameInput, SameScan, ImageHolds, ScansHeld, RowsHeld, McusHeld, Held, InRowAtHand, Decoded
  <2> QED BY <1>6, <1>7, <1>9, <1>10, <2>1 DEF SameInput, SameScan, Reading
<1> QED BY <1>1, <1>2, <1>4, <1>5, <1>6, <1>7, <1>8, <1>9, <1>11

\* What is known of the scan at hand.
LEMMA AtHand ==
  ASSUME NEW d, InputThere(d), ScanAtHand(d)
  PROVE  /\ d.picture \in Pictures /\ IsObject(d)
         /\ d.comps_in_scan \in Seq(Comps(d.picture)) /\ d.comps_in_scan # <<>>
         /\ d.input_scan_number \in Nat /\ d.input_scan_number >= 1
         /\ MCUs_per_row(d.picture, d.comps_in_scan) \in Nat
         /\ MCUs_per_row(d.picture, d.comps_in_scan) >= 1
         /\ McuRows(d.picture, d.comps_in_scan) \in Nat
         /\ McuNumber(d.picture, d.comps_in_scan) \in Nat
         /\ Len(Stream(d)) \in Nat /\ arrived \in Nat /\ d.position \in Nat
<1>1. d.picture \in Pictures /\ IsObject(d)
  BY DEF InputThere, Object, IsObject
<1>2. d.comps_in_scan \in Seq(Comps(d.picture)) /\ d.comps_in_scan # <<>>
  BY <1>1, Scans DEF ScanAtHand
<1>3. d.input_scan_number \in Nat /\ d.input_scan_number >= 1
  BY <1>1, Scans DEF ScanAtHand
<1>4. Len(Stream(d)) \in Nat
  BY StreamAt DEF InputThere
<1>5. arrived \in Nat /\ d.position \in Nat
  BY <1>4 DEF InputThere
<1> QED BY <1>1, <1>2, <1>3, <1>4, <1>5, McuSizes

\* A block of an iMCU row.
LEMMA RowBlock ==
  ASSUME NEW p, NEW i \in Blocks(p)
  PROVE  /\ i[1] \in Comps(p) /\ i = <<i[1], i[2], i[3]>>
         /\ i[2] \in 0..(p.comps[i[1]].v - 1) /\ i[3] \in 0..(width_in_blocks(p, i[1]) - 1)
BY DEF Blocks

\* No block of a row has been read before the row's first MCU has come.
LEMMA NothingDecoded ==
  ASSUME NEW d, d.picture \in Pictures, d.MCU_ctr = 0, d.MCU_vert_offset = 0,
         NEW i \in Blocks(d.picture)
  PROVE  ~Decoded(d, i)
<1> DEFINE w == MCU_width(d.picture, d.comps_in_scan, i[1])
           h == MCU_height(d.picture, d.comps_in_scan, i[1])
<1>1. /\ i[1] \in Comps(d.picture) /\ i[2] \in 0..(d.picture.comps[i[1]].v - 1)
      /\ i[3] \in 0..(width_in_blocks(d.picture, i[1]) - 1)
  BY RowBlock
<1>2. i[2] >= 0 /\ i[3] >= 0 /\ i[2] \in Int /\ i[3] \in Int
  BY <1>1
<1>3. w \in Nat /\ h \in Nat
  <2>1. d.picture.comps[i[1]].v \in Nat /\ d.picture.comps[i[1]].h \in Nat
    <3>1. d.picture.comps[i[1]].v \in 1..4 /\ d.picture.comps[i[1]].h \in 1..4
      BY <1>1, Sizes
    <3> QED BY <3>1
  <2> QED BY <2>1 DEF MCU_width, MCU_height
<1>4. 0 * w = 0 /\ 0 * h = 0
  BY <1>3
<1> QED BY <1>2, <1>4 DEF Decoded

\* The scans of a component are numbers, and one of them is the first.
LEMMA FirstScan ==
  ASSUME NEW p \in Pictures, NEW c \in Comps(p), NEW s \in ScansOf(p, c)
  PROVE  /\ Min(ScansOf(p, c)) \in ScansOf(p, c) /\ Min(ScansOf(p, c)) <= s
         /\ FirstTable(p, c) \in Nat /\ FirstTable(p, c) >= 1
         /\ (\A t \in ScansOf(p, c) : s <= t) => FirstTable(p, c) = TableAt(p, s)
<1> DEFINE T == ScansOf(p, c)
<1>1. T \subseteq 1..Len(p.scans) /\ Len(p.scans) \in Nat
  BY Scans DEF ScansOf
<1>2. T \subseteq Nat /\ T # {} /\ s \in T
  BY <1>1
<1> HIDE DEF T
<1>3. \E m \in T : \A t \in T : m <= t
  BY <1>2, LeastNat
<1>4. Min(T) \in T /\ \A t \in T : Min(T) <= t
  BY <1>3 DEF Min
<1> DEFINE m == Min(T)
<1> HIDE DEF m
<1>5. m \in T /\ \A t \in T : m <= t
  BY <1>4 DEF m
<1>6. m <= s /\ ((\A t \in T : s <= t) => m = s)
  <2>1. m \in Nat /\ s \in Nat /\ m <= s
    BY <1>2, <1>5
  <2>2. (\A t \in T : s <= t) => s <= m
    BY <1>5
  <2> QED BY <2>1, <2>2
<1>7. m \in 0..Len(p.scans)
  <2>1. m \in 1..Len(p.scans)
    BY <1>1, <1>5 DEF T
  <2> QED BY <1>1, <2>1
<1>8. FirstTable(p, c) = TableAt(p, m)
  BY DEF FirstTable, T, m
<1>9. FirstTable(p, c) \in Nat /\ FirstTable(p, c) >= 1
  BY <1>7, <1>8, Tables
<1> QED BY <1>5, <1>6, <1>8, <1>9 DEF T, m

\* The tables are latched at the start of a scan.
LEMMA TablesLatched ==
  ASSUME NEW d, IsObject(d), d.picture \in Pictures, ScanAtHand(d),
         Latched(d, d.input_scan_number - 1), NEW e, e.picture = d.picture,
         e.quant_table = [c \in DOMAIN d.quant_table |->
           IF c \in Range(d.comps_in_scan) /\ d.quant_table[c] = 0
           THEN d.quant_tbl ELSE d.quant_table[c]]
  PROVE  Latched(e, d.input_scan_number)
<1> DEFINE p == d.picture
           n == d.input_scan_number
<1>1. n \in 1..Len(p.scans) /\ Len(p.scans) \in Nat /\ d.quant_tbl = TableAt(p, n)
      /\ d.comps_in_scan = p.scans[n].comps
  BY Scans DEF ScanAtHand
<1>2. DOMAIN e.quant_table = Comps(p) /\ DOMAIN d.quant_table = Comps(p)
  BY DEF Latched
<1> SUFFICES ASSUME NEW c \in Comps(p)
             PROVE  e.quant_table[c] = IF \E s \in ScansOf(p, c) : s <= n
                                       THEN FirstTable(p, c) ELSE 0
  BY <1>2 DEF Latched
<1>3. e.quant_table[c] = IF c \in Range(d.comps_in_scan) /\ d.quant_table[c] = 0
                         THEN d.quant_tbl ELSE d.quant_table[c]
  BY <1>2
<1>4. d.quant_table[c] = IF \E s \in ScansOf(p, c) : s <= n - 1 THEN FirstTable(p, c) ELSE 0
  BY DEF Latched
<1>5. ScansOf(p, c) \subseteq 1..Len(p.scans) /\ (n \in ScansOf(p, c) <=> c \in Range(d.comps_in_scan))
  BY <1>1 DEF ScansOf
<1>6. CASE \E s \in ScansOf(p, c) : s <= n - 1
  <2>1. PICK s \in ScansOf(p, c) : s <= n - 1
    BY <1>6
  <2>2. FirstTable(p, c) \in Nat /\ FirstTable(p, c) >= 1 /\ s <= n
    BY <1>1, <1>5, <2>1, FirstScan
  <2> QED BY <1>3, <1>4, <1>6, <2>2
<1>7. CASE ~(\E s \in ScansOf(p, c) : s <= n - 1)
  <2>1. d.quant_table[c] = 0
    BY <1>4, <1>7
  <2>2. \A s \in ScansOf(p, c) : n <= s
    BY <1>1, <1>5, <1>7
  <2>3. CASE n \in ScansOf(p, c)
    <3>1. FirstTable(p, c) = TableAt(p, n)
      BY <2>2, <2>3, FirstScan
    <3> QED BY <1>1, <1>3, <1>5, <2>1, <2>3, <3>1
  <2>4. CASE n \notin ScansOf(p, c)
    <3>1. ~(\E s \in ScansOf(p, c) : s <= n)
      BY <1>1, <1>5, <2>2, <2>4
    <3> QED BY <1>3, <1>5, <2>1, <2>4, <3>1
  <2> QED BY <2>3, <2>4
<1> QED BY <1>6, <1>7

\* A scan's data begin where its start has ended.
LEMMA ScanStarts ==
  ASSUME NEW d, InputThere(d), ScanBegins(d)
  PROVE  LET e == start_input_pass(d)
         IN /\ InputThere(e) /\ InScan(e) /\ SameOutput(d, e) /\ SameData(d, e) /\ SameScan(d, e)
            /\ e.MCU_ctr = 0 /\ e.MCU_vert_offset = 0 /\ e.input_iMCU_row = 0 /\ e.ret = d.ret
            /\ Latched(d, d.input_scan_number - 1) => Latched(e, e.input_scan_number)
            /\ (d.decompress_data # "onepass" =>
                  DOMAIN d.whole_image = ImageBlocks(d.picture) /\ ScansHeld(d, d.input_scan_number))
                 => ImageHolds(e)
<1> DEFINE e == start_input_pass(d)
           p == d.picture
           comps == d.comps_in_scan
<1>1. /\ p \in Pictures /\ IsObject(d) /\ comps \in Seq(Comps(p)) /\ comps # <<>>
      /\ MCUs_per_row(p, comps) \in Nat /\ MCUs_per_row(p, comps) >= 1
  BY AtHand DEF ScanBegins
<1>2. /\ IsObject(e) /\ SameOutput(d, e) /\ SameData(d, e) /\ SameScan(d, e)
      /\ e.consume_input = "data" /\ e.input_iMCU_row = 0
      /\ e.MCU_ctr = 0 /\ e.MCU_vert_offset = 0
      /\ e.MCU_rows_per_iMCU_row = RowsOfMcus(p, comps, 0) /\ e.ret = d.ret
      /\ e.quant_table = [c \in DOMAIN d.quant_table |->
           IF c \in Range(d.comps_in_scan) /\ d.quant_table[c] = 0
           THEN d.quant_tbl ELSE d.quant_table[c]]
  BY <1>1, StartInputFields
<1> HIDE DEF e
<1>3. 0 \in 0..(total_iMCU_rows(p) - 1)
  BY <1>1, Sizes
<1>4. /\ WholeRows(p, comps) \in 1..4 /\ RowsOfMcus(p, comps, 0) \in 1..WholeRows(p, comps)
  BY <1>1, <1>3, RowsDivided
<1>5. RowsOfMcus(p, comps, 0) \in Nat /\ RowsOfMcus(p, comps, 0) >= 1
  BY <1>4
<1>6. Stream(e) = Stream(d) /\ Ahead(e) = Ahead(d) /\ ScanAtHand(e) /\ InputThere(e)
  BY <1>1, <1>2 DEF SameScan, Stream, Ahead, ScanAtHand, ScanBegins, InputThere, Object, IsObject
<1>7. McuHere(e) = Unit("MCU", d.input_scan_number, 0)
  <2>1. McuRow(e) = 0 * (IF Alone(comps) THEN p.comps[comps[1]].v ELSE 1) + 0
    BY <1>2 DEF McuRow, SameScan
  <2>2. McuRow(e) = 0
    BY <1>4, <2>1 DEF WholeRows
  <2>3. 0 * MCUs_per_row(p, comps) + 0 = 0
    BY <1>1
  <2> QED BY <1>2, <2>2, <2>3 DEF McuHere, SameScan
<1>8. Ahead(d) = Unit("MCU", d.input_scan_number, 0) /\ d.position \in 0..(Len(Stream(d)) - 1)
  BY DEF ScanBegins
<1>9. ~RowDone(e)
  BY <1>2, <1>5 DEF RowDone
<1>10. 0 \in 0..(MCUs_per_row(p, comps) - 1) /\ 0 \in 0..RowsOfMcus(p, comps, 0)
  BY <1>1, <1>5
<1>11. InRow(e)
  BY <1>2, <1>3, <1>6, <1>7, <1>8, <1>9, <1>10 DEF InRow, SameScan
<1>12. Latched(d, d.input_scan_number - 1) => Latched(e, e.input_scan_number)
  <2>1. e.picture = d.picture /\ e.input_scan_number = d.input_scan_number /\ ScanAtHand(d)
    BY <1>2 DEF SameScan, ScanBegins
  <2> QED BY <1>1, <1>2, <2>1, TablesLatched
<1>13. ASSUME DOMAIN d.whole_image = ImageBlocks(p), ScansHeld(d, d.input_scan_number)
       PROVE  ImageHolds(e)
  <2>1. /\ e.picture = p /\ e.whole_image = d.whole_image /\ e.input_scan_number = d.input_scan_number
        /\ e.comps_in_scan = comps
    BY <1>2 DEF SameScan, SameData
  <2>2. ScansHeld(e, e.input_scan_number)
    BY <1>13, <2>1 DEF ScansHeld, Held
  <2>3. RowsHeld(e)
    <3> SUFFICES ASSUME NEW i \in ImageBlocks(p) PROVE ~(i[2] < 0 * p.comps[i[1]].v)
      BY <1>2, <2>1 DEF RowsHeld
    <3>1. i[1] \in Comps(p)
      BY DEF ImageBlocks
    <3>2. i[2] \in 0..(p.comps[i[1]].v * total_iMCU_rows(p) - 1)
      BY DEF ImageBlocks
    <3>3. i[2] >= 0 /\ 0 * p.comps[i[1]].v = 0
      <4>1. p.comps[i[1]].v \in 1..4
        BY <1>1, <3>1, Sizes
      <4> DEFINE v == p.comps[i[1]].v
                 y == i[2]
                 m == v * total_iMCU_rows(p) - 1
      <4>2. y \in 0..m /\ v \in 1..4
        BY <3>2, <4>1
      <4> HIDE DEF v, y, m
      <4>3. y >= 0 /\ 0 * v = 0
        BY <4>2
      <4> QED BY <4>3 DEF v, y
    <3>4. i[2] \in Int
      BY <3>2
    <3> QED BY <3>3, <3>4
  <2>4. McusHeld(e)
    BY <1>1, <1>2, <2>1, NothingDecoded DEF McusHeld
  <2> QED BY <1>2, <1>13, <2>1, <2>2, <2>3, <2>4 DEF ImageHolds
<1>14. d.decompress_data = "onepass" => ImageHolds(e)
  BY <1>2 DEF ImageHolds, SameOutput
<1> QED BY <1>2, <1>6, <1>9, <1>11, <1>12, <1>13, <1>14 DEF InScan, e

\* Counting: first is the number of the iMCU row's first row of MCUs, most how
\* many rows the scan has.
LEMMA Counting ==
  ASSUME NEW across \in Nat, across >= 1, NEW rows \in Nat, NEW vert \in Nat, vert < rows,
         NEW ctr \in 0..(across - 1), NEW first \in Nat, NEW most \in Nat, first + rows <= most
  PROVE  LET row == first + vert
             n == row * across + ctr
         IN /\ n \in Nat
            /\ ctr + 1 # across => /\ ctr + 1 \in 0..(across - 1)
                                   /\ row * across + (ctr + 1) = n + 1
                                   /\ n + 1 < most * across
            /\ ctr + 1 = across => /\ (first + (vert + 1)) * across + 0 = n + 1
                                   /\ (first + (vert + 1)) * across + 0 - 1 = n
                                   /\ vert + 1 # rows => n + 1 < most * across
<1> DEFINE row == first + vert
           x == row * across
           n == x + ctr
           y == most * across
           z == (first + (vert + 1)) * across
<1>1. x \in Nat /\ z = x + across /\ y \in Nat
  OBVIOUS
<1>2. z <= y
  BY ProductsOrdered
<1>3. vert + 1 # rows => z < y
  <2> SUFFICES ASSUME vert + 1 # rows PROVE z < y
    OBVIOUS
  <2>1. (first + (vert + 1) + 1) * across <= y
    BY ProductsOrdered
  <2>2. (first + (vert + 1) + 1) * across = z + across
    OBVIOUS
  <2> HIDE DEF x, y, z
  <2> QED BY <1>1, <2>1, <2>2
<1> HIDE DEF x, y, z
<1> QED BY <1>1, <1>2, <1>3 DEF x, y, z

\* Within an iMCU row: the next MCU.
LEMMA McuAfterMcu ==
  ASSUME NEW d, InputThere(d), InRow(d), ~RowDone(d), Has(d, 1)
  PROVE  InputThere(NextMcu(d)) /\ InRow(NextMcu(d))
<1> DEFINE e == NextMcu(d)
           p == d.picture
           comps == d.comps_in_scan
           across == MCUs_per_row(p, comps)
           whole == WholeRows(p, comps)
           rows == RowsOfMcus(p, comps, d.input_iMCU_row)
           s == d.input_scan_number
           S == Stream(d)
           i == d.position + 1
           vert == d.MCU_vert_offset
           ctr == d.MCU_ctr
           first == d.input_iMCU_row * whole
           most == McuRows(p, comps)
           row == first + vert
           n == row * across + ctr
           last == ctr + 1 = across
<1>1. /\ p \in Pictures /\ IsObject(d) /\ comps \in Seq(Comps(p)) /\ comps # <<>>
      /\ across \in Nat /\ across >= 1 /\ most \in Nat
      /\ Len(S) \in Nat /\ arrived \in Nat /\ d.position \in Nat /\ s \in Nat
  BY AtHand DEF InRow
<1>2. /\ d.input_iMCU_row \in 0..(total_iMCU_rows(p) - 1) /\ d.MCU_rows_per_iMCU_row = rows
      /\ ctr \in 0..(across - 1) /\ vert \in 0..rows /\ vert # rows
      /\ d.position \in 0..(Len(S) - 1)
      /\ s \in 1..Len(p.scans) /\ comps = p.scans[s].comps
  BY DEF InRow, RowDone, ScanAtHand
<1>3. /\ whole \in 1..4 /\ rows \in 1..whole /\ total_iMCU_rows(p) \in Nat /\ first + rows <= most
  BY <1>1, <1>2, RowsDivided
<1>4. S[i] = Unit("MCU", s, n)
  BY DEF InRow, Ahead, McuHere, McuRow, WholeRows
<1>5. McuNumber(p, comps) = most * across
  BY DEF McuNumber
<1>6. /\ IsObject(e) /\ SameOutput(d, e) /\ SameData(d, e)
      /\ e.position = i /\ e.unread_marker = d.unread_marker
      /\ e.inheaders = d.inheaders /\ e.eoi_reached = d.eoi_reached
      /\ e.has_multiple_scans = d.has_multiple_scans
      /\ e.comps_in_scan = comps
      /\ e.input_scan_number = s
      /\ e.consume_input = d.consume_input /\ e.input_iMCU_row = d.input_iMCU_row
      /\ e.MCU_rows_per_iMCU_row = rows
      /\ e.quant_tbl = d.quant_tbl /\ e.Ss = d.Ss
      /\ last => e.MCU_ctr = 0 /\ e.MCU_vert_offset = vert + 1
      /\ ~last => e.MCU_ctr = ctr + 1 /\ e.MCU_vert_offset = vert
  BY <1>1, <1>2, NextMcuFields
<1> HIDE DEF e
<1>7. /\ vert \in Nat /\ rows \in Nat /\ vert < rows /\ first \in Nat
      /\ i \in 1..Len(S) /\ i \in Nat
  <2>1. vert \in Nat /\ rows \in Nat /\ vert < rows
    <3> HIDE DEF vert, rows, whole
    <3> QED BY <1>2, <1>3
  <2>2. d.input_iMCU_row \in Nat /\ whole \in Nat
    BY <1>2, <1>3
  <2>3. i \in 1..Len(S) /\ i \in Nat
    BY <1>1, <1>2
  <2> QED BY <2>1, <2>2, <2>3, Products
<1>8. /\ e.picture = p /\ Stream(e) = S /\ Ahead(e) = S[i + 1] /\ Behind(e) = S[i]
      /\ MCUs_per_row(e.picture, e.comps_in_scan) = across
      /\ McuRow(e) = first + e.MCU_vert_offset
      /\ McuHere(e) = Unit("MCU", s, McuRow(e) * across + e.MCU_ctr)
      /\ McuBefore(e) = Unit("MCU", s, McuRow(e) * across + e.MCU_ctr - 1)
      /\ RowsOfMcus(e.picture, e.comps_in_scan, e.input_iMCU_row) = rows
  BY <1>6 DEF SameOutput, Stream, Ahead, Behind, McuHere, McuBefore, McuRow, WholeRows
<1>9. InputThere(e) /\ ScanAtHand(e) /\ e.consume_input = "data"
  <2>1. e.position \in 0..arrived
    <3> HIDE DEF S
    <3> QED BY <1>1, <1>6, <1>7 DEF Has
  <2> QED BY <1>1, <1>6, <1>8, <2>1 DEF InputThere, Object, IsObject, InRow, ScanAtHand
<1>10. Object(d) /\ s \in 1..Len(d.picture.scans)
       /\ McuNumber(d.picture, d.picture.scans[s].comps) = most * across
  BY <1>2, <1>5 DEF InputThere
<1>11. d.input_iMCU_row \in 0..(total_iMCU_rows(e.picture) - 1)
  BY <1>2, <1>8
<1> HIDE DEF comps, across, whole, rows, vert, ctr, first, most, row, S, i, s, p, n
<1>12. n = row * across + ctr /\ row = first + vert
  BY DEF n, row
<1>13. /\ n \in Nat
       /\ ~last => /\ ctr + 1 \in 0..(across - 1)
                   /\ row * across + (ctr + 1) = n + 1 /\ n + 1 < most * across
       /\ last => /\ (first + (vert + 1)) * across + 0 = n + 1
                  /\ (first + (vert + 1)) * across + 0 - 1 = n
                  /\ vert + 1 # rows => n + 1 < most * across
  <2>1. /\ across \in Nat /\ across >= 1 /\ rows \in Nat /\ vert \in Nat /\ vert < rows
        /\ ctr \in 0..(across - 1) /\ first \in Nat /\ most \in Nat /\ first + rows <= most
    BY <1>1, <1>2, <1>3, <1>7
  <2>2. /\ (first + vert) * across + ctr \in Nat
        /\ ctr + 1 # across => /\ ctr + 1 \in 0..(across - 1)
                               /\ (first + vert) * across + (ctr + 1) = ((first + vert) * across + ctr) + 1
                               /\ ((first + vert) * across + ctr) + 1 < most * across
        /\ ctr + 1 = across => /\ (first + (vert + 1)) * across + 0 = ((first + vert) * across + ctr) + 1
                               /\ (first + (vert + 1)) * across + 0 - 1 = (first + vert) * across + ctr
                               /\ vert + 1 # rows =>
                                    ((first + vert) * across + ctr) + 1 < most * across
    BY <2>1, Counting, Zenon
  <2> QED BY <2>2, Zenon DEF n, row
<1>14. /\ i + 1 \in 1..Len(S)
       /\ n + 1 < most * across => S[i + 1] = Unit("MCU", s, n + 1)
  <2>1. n \in Nat
    BY <1>13
  <2> DEFINE number == most * across
  <2>2. McuNumber(d.picture, d.picture.scans[s].comps) = number
    BY <1>10
  <2> HIDE DEF number
  <2>3. i + 1 \in 1..Len(S) /\ (n + 1 < number => S[i + 1] = Unit("MCU", s, n + 1))
    BY <1>4, <1>7, <1>10, <2>1, <2>2, UnitAfterMcu DEF S
  <2> QED BY <2>3 DEF number
<1>15. i \in 0..(Len(S) - 1)
  BY <1>1, <1>7, <1>14
<1>16. 0 \in 0..(across - 1) /\ vert \in 0..rows /\ vert + 1 \in 0..rows
  BY <1>1, <1>7
<1>17. CASE ~last
  <2>1. e.MCU_ctr = ctr + 1 /\ e.MCU_vert_offset = vert
    BY <1>6, <1>17
  <2>2. ~RowDone(e)
    BY <1>2, <1>6, <2>1 DEF RowDone
  <2>3. Ahead(e) = McuHere(e)
    BY <1>8, <1>12, <1>13, <1>14, <1>17, <2>1, Zenon
  <2>4. InRow(e)
    BY <1>6, <1>8, <1>9, <1>11, <1>13, <1>15, <1>16, <1>17, <2>1, <2>2, <2>3, Zenon DEF InRow
  <2> QED BY <1>9, <2>4 DEF e
<1>18. CASE last
  <2>1. e.MCU_ctr = 0 /\ e.MCU_vert_offset = vert + 1
    BY <1>6, <1>18
  <2>2. CASE RowDone(e)
    <3>1. Behind(e) = McuBefore(e)
      BY <1>4, <1>8, <1>13, <1>18, <2>1, Zenon
    <3>2. InRow(e)
      BY <1>6, <1>7, <1>8, <1>9, <1>11, <1>16, <2>1, <2>2, <3>1, Zenon DEF InRow
    <3> QED BY <1>9, <3>2 DEF e
  <2>3. CASE ~RowDone(e)
    <3>1. vert + 1 # rows
      BY <1>6, <2>1, <2>3, Zenon DEF RowDone
    <3>2. Ahead(e) = McuHere(e)
      BY <1>8, <1>13, <1>14, <1>18, <2>1, <3>1, Zenon
    <3>3. InRow(e)
      BY <1>6, <1>8, <1>9, <1>11, <1>15, <1>16, <2>1, <2>3, <3>2, Zenon DEF InRow
    <3> QED BY <1>9, <3>3 DEF e
  <2> QED BY <2>2, <2>3
<1> QED BY <1>17, <1>18

-----------------------------------------------------------------------------
(***************************************************************************)
(* The places that coefficients go to.                                     *)
(***************************************************************************)

\* A picture of one scan has all its components in it.
LEMMA AllComponents ==
  ASSUME NEW p \in Pictures, ~has_multiple_scans(p), NEW c \in Comps(p)
  PROVE  c \in Range(p.scans[1].comps)
<1> DEFINE f == p.scans[1].comps
           n == Len(f)
           m == Len(p.comps)
<1>1. f \in Seq(Comps(p)) /\ IsInjective(f) /\ n \in Nat
  BY Scans
<1>2. m \in Nat /\ m >= 1 /\ ~(n < m)
  BY Sizes DEF has_multiple_scans
<1> HIDE DEF f
<1>3. f \in Injection(1..n, 1..m)
  BY <1>1 DEF Injection, Comps
<1>4. IsFiniteSet(1..m) /\ Cardinality(1..m) = m /\ Cardinality(1..n) = n
  <2>1. 1 \in Int /\ m \in Int /\ n \in Int
    BY <1>1, <1>2
  <2>2. IsFiniteSet(1..m) /\ Cardinality(1..m) = IF 1 > m THEN 0 ELSE m - 1 + 1
    BY <2>1, FS_Interval, Zenon
  <2>3. Cardinality(1..n) = IF 1 > n THEN 0 ELSE n - 1 + 1
    BY <2>1, FS_Interval, Zenon
  <2> QED BY <1>1, <1>2, <2>2, <2>3
<1>5. n <= m /\ (n = m <=> f \in Surjection(1..n, 1..m))
  BY <1>3, <1>4, FS_Injection
<1>6. PICK k \in 1..n : f[k] = c
  BY <1>1, <1>2, <1>5 DEF Surjection, Comps
<1> QED BY <1>1, <1>6 DEF Range, f

\* A block of an MCU is of one of the scan's components.
LEMMA McuBlock ==
  ASSUME NEW p, NEW comps, NEW b \in McuBlocks(p, comps)
  PROVE  /\ b[1] \in Range(comps) /\ b = <<b[1], b[2], b[3]>>
         /\ b[2] \in 0..(MCU_height(p, comps, b[1]) - 1)
         /\ b[3] \in 0..(MCU_width(p, comps, b[1]) - 1)
BY DEF McuBlocks

\* Where input is within an iMCU row.
McuAtHand(d) == InputThere(d) /\ InRow(d) /\ ~RowDone(d)

\* The number of the MCU at hand tells its row and its column.
LEMMA McuDivided ==
  ASSUME NEW d, McuAtHand(d)
  PROVE  LET across == MCUs_per_row(d.picture, d.comps_in_scan)
         IN /\ Ahead(d).scan = d.input_scan_number
            /\ Ahead(d).n \div across = McuRow(d) /\ Ahead(d).n % across = d.MCU_ctr
            /\ McuRow(d) \in Nat
            /\ McuRow(d) = d.input_iMCU_row * WholeRows(d.picture, d.comps_in_scan) + d.MCU_vert_offset
            /\ d.input_iMCU_row \in Nat /\ d.MCU_vert_offset \in Nat
            /\ WholeRows(d.picture, d.comps_in_scan) \in Nat
<1> DEFINE p == d.picture
           comps == d.comps_in_scan
           across == MCUs_per_row(p, comps)
           row == McuRow(d)
           ctr == d.MCU_ctr
           n == row * across + ctr
<1>1. /\ p \in Pictures /\ comps \in Seq(Comps(p)) /\ comps # <<>> /\ across \in Nat /\ across >= 1
  BY AtHand DEF InRow, McuAtHand
<1>2. /\ d.input_iMCU_row \in 0..(total_iMCU_rows(p) - 1) /\ ctr \in 0..(across - 1)
      /\ d.MCU_vert_offset \in 0..RowsOfMcus(p, comps, d.input_iMCU_row)
      /\ Ahead(d) = Unit("MCU", d.input_scan_number, n)
  BY DEF InRow, McuAtHand, McuHere
<1>3. WholeRows(p, comps) \in 1..4 /\ RowsOfMcus(p, comps, d.input_iMCU_row) \in Nat
  <2>1. WholeRows(p, comps) \in 1..4 /\ RowsOfMcus(p, comps, d.input_iMCU_row) \in 1..WholeRows(p, comps)
    BY <1>1, <1>2, RowsDivided
  <2> QED BY <2>1
<1>4. row = d.input_iMCU_row * WholeRows(p, comps) + d.MCU_vert_offset
  BY DEF McuRow, WholeRows
<1>5. d.input_iMCU_row \in Nat /\ d.MCU_vert_offset \in Nat /\ WholeRows(p, comps) \in Nat
  BY <1>2, <1>3
<1>6. row \in Nat
  BY <1>4, <1>5
<1> HIDE DEF across, row, ctr
<1>7. n \in Nat
  BY <1>1, <1>2, <1>6
<1>8. n \div across = row /\ n % across = ctr
  BY <1>1, <1>2, <1>6, <1>7, QuotientIs
<1>9. Ahead(d).scan = d.input_scan_number /\ Ahead(d).n = n
  BY <1>2 DEF Unit
<1> HIDE DEF n
<1> QED BY <1>4, <1>5, <1>6, <1>8, <1>9 DEF across, row, ctr

\* The coefficients of a block at hand come from the place it has.
LEMMA PlacesAgree ==
  ASSUME NEW d, McuAtHand(d), NEW b \in McuBlocks(d.picture, d.comps_in_scan)
  PROVE  Source(d, b) = <<d.input_scan_number,
                          d.input_iMCU_row * d.picture.comps[b[1]].v + Block(d, b)[2],
                          Block(d, b)[3]>>
<1> DEFINE p == d.picture
           comps == d.comps_in_scan
           across == MCUs_per_row(p, comps)
           row == McuRow(d)
           c == b[1]
           high == MCU_height(p, comps, c)
           x == d.input_iMCU_row
           vert == d.MCU_vert_offset
           v == p.comps[c].v
           k == b[2]
           u == Ahead(d)
<1>1. /\ u.scan = d.input_scan_number /\ u.n \div across = row /\ u.n % across = d.MCU_ctr
      /\ row = x * WholeRows(p, comps) + vert /\ x \in Nat /\ vert \in Nat
  BY McuDivided
<1>2. p.scans[u.scan].comps = comps
  BY <1>1 DEF McuAtHand, InRow, ScanAtHand
<1>3. Source(d, b) = <<u.scan, PlaceAt(p, comps, b, row, d.MCU_ctr)[2],
                       PlaceAt(p, comps, b, row, d.MCU_ctr)[3]>>
  BY <1>1, <1>2 DEF Source, Origin, Ahead
<1>4. /\ Source(d, b)[2] = row * high + k /\ Source(d, b)[3] = Block(d, b)[3]
      /\ Block(d, b)[2] = vert * high + k
  BY <1>3 DEF PlaceAt, Block
<1>5. c \in Range(comps) /\ k \in 0..(high - 1)
  BY McuBlock
<1>6. p \in Pictures /\ comps \in Seq(Comps(p))
  BY AtHand DEF McuAtHand, InRow
<1>7. c \in Comps(p)
  BY <1>5, <1>6 DEF Range
<1>8. v \in 1..4
  BY <1>6, <1>7, Sizes
<1>9. row * high + k = x * v + (vert * high + k)
  <2>1. CASE Alone(comps)
    <3>1. c = comps[1]
      BY <1>5, <1>6, <2>1 DEF Alone, Range
    <3>2. high = 1 /\ row = x * v + vert
      BY <1>1, <2>1, <3>1 DEF MCU_height, WholeRows
    <3>3. k \in Nat
      BY <1>5, <3>2
    <3> HIDE DEF v, high, row, x, vert, k
    <3> QED BY <1>1, <1>8, <3>2, <3>3
  <2>2. CASE ~Alone(comps)
    <3>1. high = v /\ row = x * 1 + vert
      BY <1>1, <2>2 DEF MCU_height, WholeRows
    <3>2. k \in Nat
      BY <1>5, <1>8, <3>1
    <3> HIDE DEF v, high, row, x, vert, k
    <3>3. row = x + vert
      BY <1>1, <3>1
    <3>4. (x + vert) * v = x * v + vert * v
      BY <1>1, <1>8
    <3>5. x * v \in Nat /\ vert * v \in Nat
      BY <1>1, <1>8
    <3> QED BY <3>1, <3>2, <3>3, <3>4, <3>5
  <2> QED BY <2>1, <2>2
<1> QED BY <1>1, <1>3, <1>4, <1>9

-----------------------------------------------------------------------------
(***************************************************************************)
(* An MCU is decoded.                                                      *)
(***************************************************************************)

\* The image keeps each block's coefficients in its place.
ImageRight(d) == \A i \in DOMAIN d.whole_image : InPlace(d.whole_image[i], i[2], i[3])

\* Coefficients that are stored go to their place.
LEMMA StoredInPlace ==
  ASSUME NEW d, McuAtHand(d), ImageRight(d)
  PROVE  LET e == Stored(d)
         IN /\ IsObject(e) /\ SameOutput(d, e) /\ SameInput(d, e) /\ e.ret = d.ret
            /\ e.buffer = d.buffer /\ DOMAIN e.whole_image = DOMAIN d.whole_image
            /\ ImageRight(e)
            /\ \A i \in DOMAIN d.whole_image : d.whole_image[i] \subseteq e.whole_image[i]
            /\ \A b \in McuBlocks(d.picture, d.comps_in_scan) :
                 InRowAtHand(d, Block(d, b)) \in DOMAIN d.whole_image =>
                   Source(d, b) \in e.whole_image[InRowAtHand(d, Block(d, b))]
<1> DEFINE p == d.picture
           blocks == McuBlocks(p, d.comps_in_scan)
           at(b) == <<b[1], d.input_iMCU_row * p.comps[b[1]].v + Block(d, b)[2], Block(d, b)[3]>>
           come(i) == {Source(d, b) : b \in {b \in blocks : at(b) = i}}
           image == [i \in DOMAIN d.whole_image |-> d.whole_image[i] \cup come(i)]
           e == Stored(d)
<1>1. IsObject(d)
  BY AtHand DEF McuAtHand, InRow
<1>2. e = [d EXCEPT !.whole_image = image]
  BY DEF Stored
<1>3. ASSUME NEW i \in DOMAIN image, NEW from \in image[i] PROVE from[2] = i[2] /\ from[3] = i[3]
  <2>1. CASE from \in d.whole_image[i]
    BY <2>1 DEF ImageRight, InPlace
  <2>2. CASE from \in come(i)
    <3>1. PICK b \in blocks : at(b) = i /\ from = Source(d, b)
      BY <2>2
    <3>2. /\ Source(d, b)[2] = d.input_iMCU_row * p.comps[b[1]].v + Block(d, b)[2]
          /\ Source(d, b)[3] = Block(d, b)[3]
      BY <3>1, PlacesAgree
    <3>3. i[2] = d.input_iMCU_row * p.comps[b[1]].v + Block(d, b)[2] /\ i[3] = Block(d, b)[3]
      BY <3>1
    <3> QED BY <3>1, <3>2, <3>3
  <2> QED BY <2>1, <2>2
<1>4. DOMAIN image = DOMAIN d.whole_image
  OBVIOUS
<1>6. \A i \in DOMAIN d.whole_image : d.whole_image[i] \subseteq image[i]
  OBVIOUS
<1>7. ASSUME NEW b \in blocks, InRowAtHand(d, Block(d, b)) \in DOMAIN d.whole_image
      PROVE  Source(d, b) \in image[InRowAtHand(d, Block(d, b))]
  <2>1. at(b) = InRowAtHand(d, Block(d, b))
    BY DEF InRowAtHand, Block, PlaceAt
  <2>2. Source(d, b) \in come(at(b))
    OBVIOUS
  <2> QED BY <1>7, <2>1, <2>2
<1> HIDE DEF image
<1>5. /\ IsObject(e) /\ SameOutput(d, e) /\ SameInput(d, e) /\ e.ret = d.ret
      /\ e.buffer = d.buffer /\ e.whole_image = image
  BY <1>1, <1>2 DEF IsObject, Fields, SameOutput, SameInput, SameScan
<1> HIDE DEF e
<1> QED BY <1>3, <1>4, <1>5, <1>6, <1>7 DEF ImageRight, InPlace, e

\* A block is within the picture if it is in a row of blocks that the picture has.
LEMMA RowsInside ==
  ASSUME NEW p \in Pictures, NEW c \in Comps(p), NEW row \in 0..(total_iMCU_rows(p) - 1),
         NEW k \in 0..(p.comps[c].v - 1), row * p.comps[c].v + k < height_in_blocks(p, c)
  PROVE  row < total_iMCU_rows(p) - 1 \/ k < last_row_height(p, c)
<1> DEFINE t == total_iMCU_rows(p)
           v == p.comps[c].v
           last == last_row_height(p, c)
<1>1. v \in 1..4 /\ t \in Nat /\ last \in 1..v /\ height_in_blocks(p, c) = (t - 1) * v + last
  BY Sizes, BlockRows
<1>2. SUFFICES ASSUME row = t - 1 PROVE k < last
  BY <1>1
<1>3. (t - 1) * v + k < (t - 1) * v + last /\ t - 1 \in Nat
  BY <1>1, <1>2
<1>4. (t - 1) * v \in Nat
  BY <1>1, <1>3
<1> DEFINE x == (t - 1) * v
<1> HIDE DEF t, v, last, x
<1> QED BY <1>1, <1>3, <1>4 DEF x

\* Where a block of an iMCU row is in the MCUs that have it.
LEMMA FormerColumns ==
  ASSUME NEW w \in 1..4, NEW ctr \in Nat, NEW col \in Nat, col < (ctr + 1) * w, ~(col < ctr * w)
  PROVE  col - ctr * w \in 0..(w - 1) /\ ctr * w + (col - ctr * w) = col
<1> DEFINE x == ctr * w
<1>1. x \in Nat /\ (ctr + 1) * w = x + w
  OBVIOUS
<1> HIDE DEF x
<1>2. col - x \in 0..(w - 1) /\ x + (col - x) = col
  BY <1>1 DEF x
<1> QED BY <1>2 DEF x

\* The blocks that an MCU adds to those of its row are its own, within the
\* columns that the picture has.
LEMMA McuCovers ==
  ASSUME NEW d, McuAtHand(d), NEW e, IsObject(e), SameInput(d, e),
         NEW i \in Blocks(d.picture), i[1] \in Range(d.comps_in_scan),
         ~Decoded(d, i), Decoded(NextMcu(e), i)
  PROVE  LET p == d.picture
             comps == d.comps_in_scan
             w == MCU_width(p, comps, i[1])
         IN /\ i[3] < d.MCU_ctr * w + (IF d.MCU_ctr < MCUs_per_row(p, comps) - 1 THEN w
                                       ELSE last_col_width(p, comps, i[1]))
            /\ \E b \in McuBlocks(p, comps) : Block(d, b) = i
<1> DEFINE p == d.picture
           comps == d.comps_in_scan
           blocks == McuBlocks(p, comps)
           across == MCUs_per_row(p, comps)
           ctr == d.MCU_ctr
           vert == d.MCU_vert_offset
           c == i[1]
           w == MCU_width(p, comps, c)
           h == MCU_height(p, comps, c)
           wide == IF ctr < across - 1 THEN w ELSE last_col_width(p, comps, c)
           f == NextMcu(e)
<1>0. /\ p \in Pictures /\ comps \in Seq(Comps(p))
      /\ ctr \in 0..(across - 1) /\ vert \in Nat
  BY AtHand, McuDivided DEF McuAtHand, InRow
<1>1. /\ w \in 1..4 /\ across \in Nat /\ across >= 1 /\ last_col_width(p, comps, c) \in 1..w
      /\ width_in_blocks(p, c) = (across - 1) * w + last_col_width(p, comps, c)
  BY <1>0, BlockColumns
<1>2. c \in Comps(p) /\ i[2] \in 0..(p.comps[c].v - 1) /\ i[3] \in 0..(width_in_blocks(p, c) - 1)
      /\ i = <<c, i[2], i[3]>>
  BY RowBlock
<1>3. p.comps[c].v \in 1..4 /\ h \in 1..4
  <2>1. p.comps[c].v \in 1..4
    BY <1>0, <1>2, Sizes
  <2>2. h = 1 \/ h = p.comps[c].v
    BY DEF MCU_height
  <2> HIDE DEF h
  <2> QED BY <2>1, <2>2
<1>4. i[2] \in Nat /\ i[3] \in Nat /\ ctr \in Nat /\ width_in_blocks(p, c) \in Nat
  BY <1>0, <1>1, <1>2, <1>3, Sizes
<1>5. /\ MCU_width(f.picture, f.comps_in_scan, c) = w /\ MCU_height(f.picture, f.comps_in_scan, c) = h
      /\ ctr + 1 = across => f.MCU_ctr = 0 /\ f.MCU_vert_offset = vert + 1
      /\ ctr + 1 # across => f.MCU_ctr = ctr + 1 /\ f.MCU_vert_offset = vert
  <2>1. /\ SameOutput(e, f) /\ f.comps_in_scan = e.comps_in_scan
        /\ e.MCU_ctr + 1 = MCUs_per_row(e.picture, e.comps_in_scan) =>
             f.MCU_ctr = 0 /\ f.MCU_vert_offset = e.MCU_vert_offset + 1
        /\ e.MCU_ctr + 1 # MCUs_per_row(e.picture, e.comps_in_scan) =>
             f.MCU_ctr = e.MCU_ctr + 1 /\ f.MCU_vert_offset = e.MCU_vert_offset
    BY NextMcuFields
  <2> HIDE DEF f
  <2> QED BY <2>1 DEF SameOutput, SameInput, SameScan
<1>6. ~(i[2] < vert * h) /\ ~(i[2] < (vert + 1) * h /\ i[3] < ctr * w)
  BY DEF Decoded
<1>7. Decoded(f, i)
  OBVIOUS
<1> HIDE DEF f
<1>8. \/ i[2] < (vert + 1) * h /\ ctr + 1 = across
      \/ i[2] < (vert + 1) * h /\ i[3] < (ctr + 1) * w /\ ctr + 1 # across
  <2>1. \/ i[2] < f.MCU_vert_offset * h
        \/ i[2] < (f.MCU_vert_offset + 1) * h /\ i[3] < f.MCU_ctr * w
    BY <1>5, <1>7 DEF Decoded
  <2>2. 0 * w = 0
    BY <1>1
  <2> HIDE DEF w, h, vert, ctr, across
  <2>3. CASE ctr + 1 = across
    BY <1>4, <1>5, <2>1, <2>2, <2>3
  <2>4. CASE ctr + 1 # across
    BY <1>4, <1>5, <1>6, <2>1, <2>4
  <2> QED BY <2>3, <2>4
<1>9. i[3] < (ctr + 1) * w /\ i[3] < ctr * w + wide
  <2> DEFINE j == i[3]
             q == width_in_blocks(p, c)
             r == last_col_width(p, comps, c)
  <2>1. j \in Nat /\ q \in Nat /\ j < q /\ q = (across - 1) * w + r /\ r \in 1..w
    BY <1>1, <1>2, <1>4
  <2>2. ctr + 1 = across \/ (j < (ctr + 1) * w /\ ctr + 1 # across)
    BY <1>8
  <2>3. wide = IF ctr < across - 1 THEN w ELSE r
    OBVIOUS
  <2> HIDE DEF w, ctr, across, j, q, r, wide
  <2>4. (ctr + 1) * w = ctr * w + w /\ ctr * w \in Nat
    BY <1>1, <1>4
  <2>5. CASE ctr + 1 = across
    <3>1. across - 1 = ctr /\ ~(ctr < across - 1)
      BY <1>1, <1>4, <2>5
    <3>2. j < ctr * w + r /\ wide = r
      BY <2>1, <2>3, <3>1
    <3> DEFINE x == ctr * w
    <3>3. x \in Nat /\ (ctr + 1) * w = x + w /\ j < x + r
      BY <2>4, <3>2
    <3> HIDE DEF x
    <3>4. j < x + w /\ j < x + wide
      BY <1>1, <2>1, <3>2, <3>3
    <3> QED BY <3>3, <3>4 DEF x, j
  <2>6. CASE ctr + 1 # across
    <3>1. ctr < across - 1
      BY <1>0, <1>1, <1>4, <2>6 DEF ctr, across
    <3> QED BY <2>2, <2>3, <2>4, <2>6, <3>1 DEF j
  <2> QED BY <2>5, <2>6
<1>10. ~(i[3] < ctr * w)
  BY <1>6, <1>8
<1> DEFINE j == i[3] - ctr * w
           k == i[2] - vert * h
           b == <<c, k, j>>
<1>11. j \in 0..(w - 1) /\ ctr * w + j = i[3]
  BY <1>1, <1>4, <1>9, <1>10, FormerColumns
<1>12. k \in 0..(h - 1) /\ vert * h + k = i[2]
  BY <1>0, <1>3, <1>4, <1>6, <1>8, FormerColumns
<1>13. b \in blocks
  BY <1>11, <1>12 DEF McuBlocks
<1>14. Block(d, b) = i
  BY <1>2, <1>11, <1>12 DEF Block, PlaceAt
<1> QED BY <1>9, <1>13, <1>14

\* What is right stays so while the picture and the scans asked for are the same.
LEMMA RightKept ==
  ASSUME NEW d, NEW e, e.picture = d.picture,
         \A s \in 1..Len(d.picture.scans) : s <= e.output_scan_number <=> s <= d.output_scan_number,
         NEW c, NEW samples, NEW row, NEW col, Right(d, c, samples, row, col)
  PROVE  Right(e, c, samples, row, col)
<1>1. ScansOf(d.picture, c) \subseteq 1..Len(d.picture.scans)
  BY DEF ScansOf
<1> QED BY <1>1 DEF Right

LEMMA BlockShownKept ==
  ASSUME NEW d, NEW e, e.picture = d.picture,
         \A s \in 1..Len(d.picture.scans) : s <= e.output_scan_number <=> s <= d.output_scan_number,
         NEW i, e.buffer[i] = d.buffer[i], NEW row, BlockShows(d, i, row)
  PROVE  BlockShows(e, i, row)
BY RightKept DEF BlockShows

LEMMA BufferShownKept ==
  ASSUME NEW d, NEW e, e.picture = d.picture,
         \A s \in 1..Len(d.picture.scans) : s <= e.output_scan_number <=> s <= d.output_scan_number,
         e.buffer = d.buffer, NEW row, BufferShows(d, row)
  PROVE  BufferShows(e, row)
BY BlockShownKept DEF BufferShows

\* Transforms and scans asked for that are the same stay prepared.
LEMMA PreparedKept ==
  ASSUME NEW d, NEW e, Prepared(d), e.picture = d.picture, e.dct_table = d.dct_table,
         (e.decompress_data = "onepass") => (d.decompress_data = "onepass"),
         \A s \in 1..Len(d.picture.scans) : s <= e.output_scan_number <=> s <= d.output_scan_number
  PROVE  Prepared(e)
<1>1. \A c : ScansOf(d.picture, c) \subseteq 1..Len(d.picture.scans)
  BY DEF ScansOf
<1> QED BY <1>1 DEF Prepared

\* One pass: the blocks of the MCU at hand show the output row.
LEMMA McuTransformed ==
  ASSUME NEW d, McuAtHand(d), DOMAIN d.buffer = Blocks(d.picture),
         d.decompress_data = "onepass", d.input_scan_number = 1, Prepared(d),
         NEW i \in Blocks(d.picture), i[1] \in Range(d.comps_in_scan),
         Decoded(d, i) => BlockShows(d, i, d.input_iMCU_row)
  PROVE  LET e == Transformed(d)
         IN Decoded(NextMcu(e), i) => BlockShows(e, i, d.input_iMCU_row)
<1> DEFINE e == Transformed(d)
           p == d.picture
           comps == d.comps_in_scan
           blocks == McuBlocks(p, comps)
           across == MCUs_per_row(p, comps)
           ctr == d.MCU_ctr
           row == d.input_iMCU_row
           c == i[1]
           w == MCU_width(p, comps, c)
           high == last_row_height(p, c)
           wide == IF ctr < across - 1 THEN w ELSE last_col_width(p, comps, c)
           inside == /\ i[3] < ctr * w + wide
                     /\ row < total_iMCU_rows(p) - 1 \/ i[2] < high
           coefs == {Source(d, b) : b \in {b \in blocks : Block(d, b) = i}}
           y == row * p.comps[c].v + i[2]
           f == NextMcu(e)
<1>1. /\ p \in Pictures /\ comps \in Seq(Comps(p)) /\ IsObject(d)
      /\ row \in 0..(total_iMCU_rows(p) - 1)
  BY AtHand DEF McuAtHand, InRow
<1>2. e.buffer[i] = IF coefs # {} /\ inside THEN Samples(coefs, d.dct_table[c], <<>>) ELSE d.buffer[i]
  BY <1>1 DEF Transformed, IsObject, Fields
<1>3. SameOutput(d, e) /\ SameInput(d, e) /\ IsObject(e)
  BY <1>1 DEF Transformed, IsObject, Fields, SameOutput, SameInput, SameScan
<1> HIDE DEF e
<1>4. ASSUME NEW b \in blocks, Block(d, b) = i PROVE Source(d, b) = <<1, y, i[3]>>
  <2>1. b[1] = c
    BY <1>4 DEF Block, PlaceAt
  <2> QED BY <1>4, <2>1, PlacesAgree
<1>5. \A from \in coefs : from = <<1, y, i[3]>>
  BY <1>4
<1>6. CASE coefs # {} /\ inside
  <2>1. e.buffer[i].coefs = coefs /\ e.buffer[i].table = d.dct_table[c] /\ e.buffer[i].near = <<>>
    BY <1>2, <1>6 DEF Samples
  <2>2. <<1, y, i[3]>> \in coefs
    BY <1>5, <1>6
  <2> HIDE DEF coefs, y
  <2>3. InPlace(coefs, y, i[3])
    BY <1>5 DEF InPlace
  <2>4. c \in Comps(p)
    BY RowBlock
  <2>5. ASSUME NEW s \in ScansOf(p, c), s <= d.output_scan_number
        PROVE  s = 1 /\ (NeverAhead => d.dct_table[c] = FirstTable(p, c))
    <3>1. s \in 1..Len(p.scans)
      BY DEF ScansOf
    <3> QED BY <2>4, <2>5, <3>1 DEF Prepared
  <2>6. Right(d, c, e.buffer[i], y, i[3])
    BY <2>1, <2>2, <2>3, <2>5 DEF Right
  <2>7. Right(e, c, e.buffer[i], y, i[3])
    BY <1>1, <1>3, <2>6, RightKept DEF SameOutput
  <2> QED BY <1>3, <2>7 DEF BlockShows, SameOutput, e, y
<1>7. CASE ~(coefs # {} /\ inside)
  <2> SUFFICES ASSUME Decoded(f, i), y < height_in_blocks(p, c)
               PROVE  BlockShows(e, i, row)
    BY <1>3 DEF BlockShows, SameOutput, e
  <2>1. e.buffer[i] = d.buffer[i]
    BY <1>2, <1>7
  <2>2. CASE Decoded(d, i)
    BY <1>1, <1>3, <2>1, <2>2, BlockShownKept DEF SameOutput
  <2>3. CASE ~Decoded(d, i)
    <3>1. i[3] < ctr * w + wide /\ \E b \in blocks : Block(d, b) = i
      BY <1>3, <2>3, McuCovers
    <3>2. coefs # {}
      BY <3>1
    <3>3. c \in Comps(p) /\ i[2] \in 0..(p.comps[c].v - 1)
      BY RowBlock
    <3>4. row < total_iMCU_rows(p) - 1 \/ i[2] < high
      BY <1>1, <3>3, RowsInside
    <3> QED BY <1>7, <3>1, <3>2, <3>4
  <2> QED BY <2>2, <2>3
<1> QED BY <1>6, <1>7

\* Otherwise: what its MCU says of a block is in the image.
LEMMA McuStored ==
  ASSUME NEW d, McuAtHand(d), ImageRight(d), DOMAIN d.whole_image = ImageBlocks(d.picture),
         McusHeld(d)
  PROVE  McusHeld(NextMcu(Stored(d)))
<1> DEFINE e == Stored(d)
           f == NextMcu(e)
           p == d.picture
           comps == d.comps_in_scan
           n == d.input_scan_number
<1>1. /\ IsObject(e) /\ SameOutput(d, e) /\ SameInput(d, e)
      /\ \A i \in DOMAIN d.whole_image : d.whole_image[i] \subseteq e.whole_image[i]
      /\ \A b \in McuBlocks(p, comps) :
           InRowAtHand(d, Block(d, b)) \in DOMAIN d.whole_image =>
             Source(d, b) \in e.whole_image[InRowAtHand(d, Block(d, b))]
  BY StoredInPlace
<1>2. p \in Pictures /\ d.input_iMCU_row \in Nat
  BY McuDivided, AtHand DEF McuAtHand, InRow
<1> HIDE DEF e
<1>3. /\ f.picture = p /\ f.comps_in_scan = comps /\ f.input_scan_number = n
      /\ f.input_iMCU_row = d.input_iMCU_row /\ f.whole_image = e.whole_image
  BY <1>1, NextMcuFields DEF SameOutput, SameInput, SameScan, SameData
<1> SUFFICES ASSUME NEW b \in Blocks(p), Inside(p, InRowAtHand(d, b)), b[1] \in Range(comps),
                    Decoded(f, b)
             PROVE  <<n, InRowAtHand(d, b)[2], InRowAtHand(d, b)[3]>>
                      \in e.whole_image[InRowAtHand(d, b)]
  <2>1. \A b : InRowAtHand(f, b) = InRowAtHand(d, b)
    BY <1>3 DEF InRowAtHand
  <2> HIDE DEF f
  <2> QED BY <1>3, <2>1 DEF McusHeld, Held, e, f
<1> DEFINE i == InRowAtHand(d, b)
<1>4. i \in ImageBlocks(p)
  <2>1. b[1] \in Comps(p) /\ b[2] \in 0..(p.comps[b[1]].v - 1) /\ b[3] \in 0..(width_in_blocks(p, b[1]) - 1)
    BY RowBlock
  <2>2. i = <<b[1], i[2], i[3]>> /\ i[2] = d.input_iMCU_row * p.comps[b[1]].v + b[2] /\ i[3] = b[3]
    BY DEF InRowAtHand
  <2>3. i[2] < height_in_blocks(p, b[1])
    BY <2>2 DEF Inside
  <2>4. p.comps[b[1]].v \in 1..4 /\ height_in_blocks(p, b[1]) \in Nat
    BY <1>2, <2>1, Sizes
  <2>5. d.input_iMCU_row * p.comps[b[1]].v \in Nat
    BY <1>2, <2>4
  <2>6. i[2] \in 0..(height_in_blocks(p, b[1]) - 1)
    <3> DEFINE x == d.input_iMCU_row * p.comps[b[1]].v
               y == i[2]
               z == b[2]
               m == height_in_blocks(p, b[1])
               v == p.comps[b[1]].v
    <3>1. x \in Nat /\ z \in 0..(v - 1) /\ y = x + z /\ y < m /\ m \in Nat /\ v \in 1..4
      BY <2>1, <2>2, <2>3, <2>4, <2>5
    <3> HIDE DEF x, y, z, m, v
    <3>2. y \in 0..(m - 1)
      BY <3>1
    <3> QED BY <3>2 DEF y, m
  <2> HIDE DEF i
  <2>7. <<b[1], i[2], i[3]>> \in ImageBlocks(p)
    BY <1>2, <2>1, <2>2, <2>6, WithinImage
  <2> QED BY <2>2, <2>7
<1>5. CASE Decoded(d, b)
  <2>1. <<n, i[2], i[3]>> \in d.whole_image[i]
    BY <1>5 DEF McusHeld, Held
  <2> QED BY <1>1, <1>4, <2>1
<1>6. CASE ~Decoded(d, b)
  <2>1. PICK m \in McuBlocks(p, comps) : Block(d, m) = b
    BY <1>1, <1>6, McuCovers
  <2>2. m[1] = b[1]
    BY <2>1 DEF Block, PlaceAt
  <2>3. Source(d, m) = <<n, i[2], i[3]>>
    BY <2>1, <2>2, PlacesAgree DEF InRowAtHand
  <2> HIDE DEF i
  <2> QED BY <1>1, <1>4, <2>1, <2>3 DEF i
<1> QED BY <1>5, <1>6

-----------------------------------------------------------------------------
(***************************************************************************)
(* The MCUs of an iMCU row are decoded, as far as they have come.          *)
(***************************************************************************)

\* In one pass the first scan is read, and output is where input is.
OnePass(d) ==
  /\ d.decompress_data = "onepass" /\ DOMAIN d.buffer = Blocks(d.picture)
  /\ ~has_multiple_scans(d.picture) /\ d.input_scan_number = 1
  /\ d.input_iMCU_row = d.output_iMCU_row
  /\ Prepared(d) /\ McusShown(d)

\* The memory is as it was, but for coefficients in their place and, in one
\* pass, what the blocks of the main buffer show.
SameMemory(d, e) ==
  /\ DOMAIN e.buffer = DOMAIN d.buffer /\ DOMAIN e.whole_image = DOMAIN d.whole_image
  /\ \A i \in DOMAIN d.whole_image : d.whole_image[i] \subseteq e.whole_image[i]
  /\ ImageRight(d) => ImageRight(e)
  /\ d.decompress_data # "onepass" => e.buffer = d.buffer

\* The iMCU row is the same.
SameRow(d, e) ==
  /\ SameOutput(d, e) /\ SameMemory(d, e)
  /\ e.inheaders = d.inheaders /\ e.has_multiple_scans = d.has_multiple_scans
  /\ e.comps_in_scan = d.comps_in_scan /\ e.input_scan_number = d.input_scan_number
  /\ e.input_iMCU_row = d.input_iMCU_row /\ e.consume_input = d.consume_input
  /\ e.quant_table = d.quant_table /\ e.output_scan_number = d.output_scan_number
  /\ OnePass(d) => OnePass(e)
  /\ ImageHolds(d) => ImageHolds(e)

\* What Transformed leaves as it is.
LEMMA TransformedFields ==
  ASSUME NEW d, IsObject(d)
  PROVE  LET e == Transformed(d)
         IN /\ IsObject(e) /\ SameOutput(d, e) /\ SameInput(d, e)
            /\ e.whole_image = d.whole_image /\ DOMAIN e.buffer = DOMAIN d.buffer
BY DEF Transformed, IsObject, Fields, SameOutput, SameInput, SameScan

\* What the image has is not lost.
LEMMA HeldKept ==
  ASSUME NEW d, NEW e, e.picture = d.picture, e.comps_in_scan = d.comps_in_scan,
         e.input_scan_number = d.input_scan_number, e.input_iMCU_row = d.input_iMCU_row,
         DOMAIN d.whole_image = ImageBlocks(d.picture), DOMAIN e.whole_image = DOMAIN d.whole_image,
         \A i \in DOMAIN d.whole_image : d.whole_image[i] \subseteq e.whole_image[i]
  PROVE  /\ DOMAIN e.whole_image = ImageBlocks(e.picture)
         /\ \A n : ScansHeld(d, n) => ScansHeld(e, n)
         /\ RowsHeld(d) => RowsHeld(e)
<1>1. \A i \in ImageBlocks(d.picture) : \A s : Held(d, i, s) => Held(e, i, s)
  BY DEF Held
<1> QED BY <1>1 DEF ScansHeld, RowsHeld

\* An MCU is decoded, if there is one to decode.
LEMMA McuTurn ==
  ASSUME NEW d, InputThere(d), InRow(d), ImageRight(d)
  PROVE  LET e == McuDecoded(d)
         IN InputThere(e) /\ InRow(e) /\ ImageRight(e) /\ SameRow(d, e)
<1> DEFINE e == McuDecoded(d)
<1>1. IsObject(d)
  BY AtHand DEF InRow
<1>2. CASE RowDone(d) \/ ~Has(d, 1)
  <2>1. e = d
    BY <1>2 DEF McuDecoded
  <2> QED BY <2>1 DEF SameRow, SameOutput, SameMemory
<1>3. CASE ~RowDone(d) /\ Has(d, 1)
  <2>0. McuAtHand(d)
    BY <1>3 DEF McuAtHand
  <2>1. CASE d.decompress_data = "onepass"
    <3> DEFINE f == Transformed(d)
    <3>1. e = NextMcu(f)
      BY <1>3, <2>1 DEF McuDecoded
    <3>2. /\ IsObject(f) /\ SameOutput(d, f) /\ SameInput(d, f)
          /\ f.whole_image = d.whole_image /\ DOMAIN f.buffer = DOMAIN d.buffer
      BY <1>1, TransformedFields
    <3>3. OnePass(d) => \A i \in Blocks(d.picture) : Decoded(NextMcu(f), i) => BlockShows(f, i, d.input_iMCU_row)
      <4> SUFFICES ASSUME OnePass(d), NEW i \in Blocks(d.picture)
                   PROVE  Decoded(NextMcu(f), i) => BlockShows(f, i, d.input_iMCU_row)
        OBVIOUS
      <4>1. i[1] \in Comps(d.picture) /\ d.picture \in Pictures
        BY RowBlock DEF InputThere, Object
      <4>2. i[1] \in Range(d.comps_in_scan)
        BY <4>1, AllComponents DEF OnePass, InRow, ScanAtHand
      <4>3. Decoded(d, i) => BlockShows(d, i, d.input_iMCU_row)
        BY DEF OnePass, McusShown
      <4>4. DOMAIN d.buffer = Blocks(d.picture) /\ d.input_scan_number = 1 /\ Prepared(d)
        BY DEF OnePass
      <4> QED BY <2>0, <2>1, <4>2, <4>3, <4>4, McuTransformed
    <3> HIDE DEF f
    <3>4. InputThere(f) /\ InRow(f) /\ ~RowDone(f) /\ Has(f, 1)
      BY <1>3, <3>2, InputKept DEF InputThere, Has, SameInput, SameScan
    <3>5. InputThere(e) /\ InRow(e)
      BY <3>1, <3>4, McuAfterMcu
    <3>6. /\ IsObject(e) /\ SameOutput(f, e) /\ SameData(f, e) /\ e.inheaders = f.inheaders
          /\ e.has_multiple_scans = f.has_multiple_scans
          /\ e.comps_in_scan = f.comps_in_scan /\ e.input_scan_number = f.input_scan_number
          /\ e.input_iMCU_row = f.input_iMCU_row /\ e.consume_input = f.consume_input
          /\ e.quant_table = f.quant_table /\ e.output_scan_number = f.output_scan_number
      BY <3>1, <3>2, NextMcuFields
    <3>7. OnePass(d) => McusShown(e)
      <4> SUFFICES ASSUME OnePass(d), NEW i \in Blocks(d.picture), Decoded(e, i)
                   PROVE  BlockShows(e, i, e.output_iMCU_row)
        BY <3>2, <3>6 DEF McusShown, SameOutput
      <4>1. BlockShows(f, i, d.output_iMCU_row)
        BY <3>1, <3>3 DEF OnePass
      <4>2. f.picture \in Pictures /\ e.picture = f.picture /\ e.buffer[i] = f.buffer[i]
        BY <3>4, <3>6 DEF InputThere, Object, SameOutput, SameData
      <4>3. BlockShows(e, i, d.output_iMCU_row)
        BY <3>6, <4>1, <4>2, BlockShownKept DEF SameOutput
      <4> QED BY <3>2, <3>6, <4>3 DEF SameOutput
    <3> HIDE DEF e
    <3>8. SameOutput(d, e) /\ SameMemory(d, e) /\ ImageRight(e)
      BY <2>1, <3>2, <3>6 DEF SameOutput, SameMemory, SameData, ImageRight
    <3>9. OnePass(d) => OnePass(e)
      <4>1. Prepared(d) => Prepared(e)
        BY <3>8, PreparedKept DEF SameOutput
      <4> QED BY <3>2, <3>6, <3>7, <3>8, <4>1 DEF OnePass, SameOutput, SameMemory, SameInput, SameScan
    <3>10. ImageHolds(e)
      BY <2>1, <3>8 DEF ImageHolds, SameOutput
    <3> QED BY <3>2, <3>5, <3>6, <3>8, <3>9, <3>10 DEF SameRow, SameInput, SameScan, e
  <2>2. CASE d.decompress_data # "onepass"
    <3> DEFINE f == Stored(d)
    <3>1. e = NextMcu(f)
      BY <1>3, <2>2 DEF McuDecoded
    <3>2. /\ IsObject(f) /\ SameOutput(d, f) /\ SameInput(d, f)
          /\ f.buffer = d.buffer /\ DOMAIN f.whole_image = DOMAIN d.whole_image /\ ImageRight(f)
          /\ \A i \in DOMAIN d.whole_image : d.whole_image[i] \subseteq f.whole_image[i]
      BY <2>0, StoredInPlace
    <3>3. DOMAIN d.whole_image = ImageBlocks(d.picture) /\ McusHeld(d) => McusHeld(e)
      BY <2>0, <3>1, McuStored
    <3> HIDE DEF f
    <3>4. InputThere(f) /\ InRow(f) /\ ~RowDone(f) /\ Has(f, 1)
      BY <1>3, <3>2, InputKept DEF InputThere, Has, SameInput, SameScan
    <3>5. InputThere(e) /\ InRow(e)
      BY <3>1, <3>4, McuAfterMcu
    <3>6. /\ IsObject(e) /\ SameOutput(f, e) /\ SameData(f, e) /\ e.inheaders = f.inheaders
          /\ e.has_multiple_scans = f.has_multiple_scans
          /\ e.comps_in_scan = f.comps_in_scan /\ e.input_scan_number = f.input_scan_number
          /\ e.input_iMCU_row = f.input_iMCU_row /\ e.consume_input = f.consume_input
          /\ e.quant_table = f.quant_table /\ e.output_scan_number = f.output_scan_number
      BY <3>1, <3>2, NextMcuFields
    <3> HIDE DEF e
    <3>8. SameOutput(d, e) /\ SameMemory(d, e) /\ ImageRight(e)
      BY <3>2, <3>6 DEF SameOutput, SameMemory, SameData, ImageRight
    <3>9. ~OnePass(d)
      BY <2>2 DEF OnePass
    <3>10. ImageHolds(d) => ImageHolds(e)
      <4> SUFFICES ASSUME ImageHolds(d) PROVE ImageHolds(e)
        OBVIOUS
      <4>1. /\ e.picture = d.picture /\ e.comps_in_scan = d.comps_in_scan
            /\ e.input_scan_number = d.input_scan_number /\ e.input_iMCU_row = d.input_iMCU_row
            /\ e.consume_input = "data" /\ d.consume_input = "data"
        BY <3>2, <3>6 DEF SameOutput, SameInput, SameScan, InRow
      <4>2. /\ DOMAIN d.whole_image = ImageBlocks(d.picture)
            /\ ScansHeld(d, d.input_scan_number) /\ RowsHeld(d) /\ McusHeld(d)
        BY <2>2, <4>1 DEF ImageHolds
      <4>3. /\ DOMAIN e.whole_image = ImageBlocks(e.picture)
            /\ ScansHeld(e, e.input_scan_number) /\ RowsHeld(e)
        BY <3>8, <4>1, <4>2, HeldKept DEF SameMemory
      <4> QED BY <3>3, <4>1, <4>2, <4>3 DEF ImageHolds
    <3> QED BY <3>2, <3>5, <3>6, <3>8, <3>9, <3>10 DEF SameRow, SameInput, SameScan, e
  <2> QED BY <2>1, <2>2
<1> QED BY <1>2, <1>3

\* The turns of the loop over the MCUs of an iMCU row, of which there are n.
AreMcusDecoded(turn, d, n) ==
  turn = [i \in 0..n |-> IF i = 0 THEN d ELSE McuDecoded(turn[i - 1])]

\* There is such a function (its values are defined by recursion).
LEMMA McuTurnsExist == \A d : \A n \in Nat : \E turn : AreMcusDecoded(turn, d, n)
<1> SUFFICES ASSUME NEW d PROVE \A n \in Nat : \E turn : AreMcusDecoded(turn, d, n)
  OBVIOUS
<1> DEFINE T == {n \in Nat : \E turn : AreMcusDecoded(turn, d, n)}
<1>1. 0 \in T
  <2>1. AreMcusDecoded([i \in 0..0 |-> d], d, 0)
    BY DEF AreMcusDecoded
  <2> QED BY <2>1
<1>2. ASSUME NEW n \in T, n \in Nat PROVE n + 1 \in T
  <2>1. PICK turn : AreMcusDecoded(turn, d, n)
    BY <1>2
  <2> DEFINE next == [i \in 0..(n + 1) |-> IF i = n + 1 THEN McuDecoded(turn[n]) ELSE turn[i]]
  <2>2. n + 1 \in Nat /\ n + 1 # 0
    BY <1>2
  <2>3. ASSUME NEW i \in 0..(n + 1)
        PROVE  next[i] = IF i = 0 THEN d ELSE McuDecoded(next[i - 1])
    <3>1. CASE i = n + 1
      <4>1. n \in 0..(n + 1) /\ n # n + 1 /\ i - 1 = n
        BY <1>2, <3>1
      <4>2. next[i] = McuDecoded(turn[n]) /\ next[i - 1] = turn[n]
        BY <3>1, <4>1
      <4> QED BY <2>2, <3>1, <4>2
    <3>2. CASE i # n + 1
      <4>1. i \in 0..n /\ (i # 0 => i - 1 \in 0..(n + 1) /\ i - 1 # n + 1)
        BY <1>2, <3>2
      <4>2. turn[i] = IF i = 0 THEN d ELSE McuDecoded(turn[i - 1])
        BY <2>1, <4>1, Zenon DEF AreMcusDecoded
      <4>3. next[i] = turn[i] /\ (i # 0 => next[i - 1] = turn[i - 1])
        BY <3>2, <4>1
      <4> QED BY <4>2, <4>3
    <3> QED BY <3>1, <3>2
  <2>4. AreMcusDecoded(next, d, n + 1)
    BY <2>3, Zenon DEF AreMcusDecoded
  <2> QED BY <2>2, <2>4
<1> HIDE DEF T
<1>3. Nat \subseteq T
  BY <1>1, <1>2, NatInduct
<1> QED BY <1>3 DEF T

\* The loop stays within the iMCU row.
LEMMA RowDecoded ==
  ASSUME NEW d, InputThere(d), InRow(d), ImageRight(d)
  PROVE  LET e == McusDecoded(d)
         IN InputThere(e) /\ InRow(e) /\ ImageRight(e) /\ SameRow(d, e)
<1> DEFINE number == d.MCU_rows_per_iMCU_row * MCUs_per_row(d.picture, d.comps_in_scan)
           turn == CHOOSE t : AreMcusDecoded(t, d, number)
           Good(x) == InputThere(x) /\ InRow(x) /\ ImageRight(x) /\ SameRow(d, x)
           T == {n \in Nat : n <= number => Good(turn[n])}
<1>1. number \in Nat
  <2>1. /\ d.picture \in Pictures /\ d.comps_in_scan \in Seq(Comps(d.picture)) /\ d.comps_in_scan # <<>>
        /\ MCUs_per_row(d.picture, d.comps_in_scan) \in Nat
    BY AtHand DEF InRow
  <2>2. d.MCU_rows_per_iMCU_row \in 1..WholeRows(d.picture, d.comps_in_scan)
        /\ WholeRows(d.picture, d.comps_in_scan) \in 1..4
    BY <2>1, RowsDivided DEF InRow
  <2>3. d.MCU_rows_per_iMCU_row \in Nat
    BY <2>2
  <2> QED BY <2>1, <2>3
<1>2. McusDecoded(d) = turn[number]
  BY Zenon DEF McusDecoded, AreMcusDecoded
<1> HIDE DEF number
<1>3. AreMcusDecoded(turn, d, number)
  BY <1>1, McuTurnsExist
<1> HIDE DEF turn
<1>4. turn[0] = d
  BY <1>1, <1>3 DEF AreMcusDecoded
<1>5. ASSUME NEW n \in Nat, n + 1 <= number PROVE turn[n + 1] = McuDecoded(turn[n])
  <2>1. n + 1 \in 0..number /\ n + 1 # 0 /\ (n + 1) - 1 = n
    BY <1>1, <1>5
  <2> QED BY <1>3, <2>1 DEF AreMcusDecoded
<1>6. 0 \in T
  <2>1. SameRow(d, d)
    BY DEF SameRow, SameOutput, SameMemory
  <2> QED BY <1>4, <2>1
<1>7. ASSUME NEW n \in T, n \in Nat PROVE n + 1 \in T
  <2>1. CASE n + 1 <= number
    <3> DEFINE x == turn[n]
               y == McuDecoded(x)
    <3>1. Good(x) /\ turn[n + 1] = y
      BY <1>1, <1>5, <1>7, <2>1
    <3> HIDE DEF x, y
    <3>2. InputThere(y) /\ InRow(y) /\ ImageRight(y) /\ SameRow(x, y)
      BY <3>1, McuTurn DEF y
    <3>3. Good(y)
      BY <3>1, <3>2 DEF SameRow, SameOutput, SameMemory
    <3> QED BY <1>7, <3>1, <3>3
  <2> QED BY <1>7, <2>1
<1> HIDE DEF T
<1>8. number \in T
  BY <1>1, <1>6, <1>7, NatInduct
<1> QED BY <1>1, <1>2, <1>8 DEF T

-----------------------------------------------------------------------------
(***************************************************************************)
(* The end of an iMCU row.                                                 *)
(***************************************************************************)

\* Counting rows of MCUs: after the last of an iMCU row comes the first of the
\* next, or nothing.
LEMMA RowsCounted ==
  ASSUME NEW across \in Nat, across >= 1, NEW row \in Nat, NEW whole \in Nat, whole >= 1,
         NEW rows \in Nat, rows >= 1, NEW most \in Nat, row * whole + rows <= most
  PROVE  LET n == (row * whole + rows) * across + 0 - 1
         IN /\ n \in Nat
            /\ row * whole + rows = most => n + 1 = most * across
            /\ rows = whole => ((row + 1) * whole + 0) * across + 0 = n + 1
            /\ row * whole + rows < most => n + 1 < most * across
<1> DEFINE x == row * whole + rows
           y == x * across
           z == most * across
<1>1. x \in Nat /\ x >= 1
  <2>1. row * whole \in Nat
    OBVIOUS
  <2> QED BY <2>1
<1>2. y \in Nat /\ y >= 1 /\ z \in Nat
  BY <1>1, Products
<1>3. x < most => y < z
  <2> SUFFICES ASSUME x < most PROVE y < z
    OBVIOUS
  <2>1. (x + 1) * across <= z
    BY <1>1, ProductsOrdered
  <2>2. (x + 1) * across = y + across
    BY <1>1
  <2> HIDE DEF x, y, z
  <2> QED BY <1>2, <2>1, <2>2
<1>4. rows = whole => (row + 1) * whole + 0 = x
  OBVIOUS
<1> HIDE DEF x, z
<1>5. rows = whole => ((row + 1) * whole + 0) * across = y
  BY <1>4
<1> HIDE DEF y
<1>6. x = most => y = z
  BY DEF y, z
<1> QED BY <1>1, <1>2, <1>3, <1>5, <1>6 DEF x, y, z

\* An iMCU row has been read: the next one begins, or the scan is over.
LEMMA RowEnds ==
  ASSUME NEW d, InputThere(d), InRow(d), RowDone(d)
  PROVE  LET e == RowConsumed(d)
         IN /\ InputThere(e) /\ e.ret # "SUSPENDED"
            /\ SameOutput(d, e) /\ SameData(d, e) /\ SameScan(d, e)
            /\ e.quant_table = d.quant_table
            /\ InScan(e) \/ AmongMarkers(e)
            /\ ~(d.input_iMCU_row + 1 < total_iMCU_rows(d.picture)) => AmongMarkers(e)
            /\ d.input_iMCU_row + 1 < total_iMCU_rows(d.picture) =>
                 /\ InScan(e) /\ e.input_iMCU_row = d.input_iMCU_row + 1
                 /\ e.MCU_ctr = 0 /\ e.MCU_vert_offset = 0
<1> DEFINE e == RowConsumed(d)
           p == d.picture
           comps == d.comps_in_scan
           across == MCUs_per_row(p, comps)
           whole == WholeRows(p, comps)
           row == d.input_iMCU_row
           rows == RowsOfMcus(p, comps, row)
           most == McuRows(p, comps)
           s == d.input_scan_number
           S == Stream(d)
           i == d.position
           n == (row * whole + rows) * across + 0 - 1
           more == row + 1 < total_iMCU_rows(p)
           number == most * across
<1>1. /\ p \in Pictures /\ IsObject(d) /\ comps \in Seq(Comps(p)) /\ comps # <<>>
      /\ across \in Nat /\ across >= 1 /\ most \in Nat
      /\ Len(S) \in Nat /\ arrived \in Nat /\ i \in Nat
  BY AtHand DEF InRow
<1>2. /\ row \in 0..(total_iMCU_rows(p) - 1) /\ d.MCU_rows_per_iMCU_row = rows
      /\ d.MCU_ctr = 0 /\ d.MCU_vert_offset = rows
      /\ i \in 1..Len(S) /\ s \in 1..Len(p.scans) /\ comps = p.scans[s].comps
      /\ d.consume_input = "data" /\ ScanAtHand(d)
  BY DEF InRow, RowDone, ScanAtHand
<1>3. /\ whole \in 1..4 /\ rows \in 1..whole /\ total_iMCU_rows(p) \in Nat
      /\ more => rows = whole
      /\ row * whole + rows <= most
      /\ row + 1 = total_iMCU_rows(p) => row * whole + rows = most
  BY <1>1, <1>2, RowsDivided
<1>4. S[i] = Unit("MCU", s, n)
  BY <1>2 DEF InRow, Behind, McuBefore, McuRow, WholeRows
<1>5. row \in Nat /\ whole \in Nat /\ whole >= 1 /\ rows \in Nat /\ rows >= 1
  <2> HIDE DEF whole, rows
  <2> QED BY <1>2, <1>3
<1>6. /\ IsObject(e) /\ SameOutput(d, e) /\ SameData(d, e) /\ SameScan(d, e)
      /\ e.input_iMCU_row = row + 1 /\ e.ret # "SUSPENDED"
      /\ e.quant_table = d.quant_table
      /\ more => /\ e.consume_input = d.consume_input
                 /\ e.MCU_ctr = 0 /\ e.MCU_vert_offset = 0
                 /\ e.MCU_rows_per_iMCU_row = RowsOfMcus(p, comps, row + 1)
      /\ ~more => e.consume_input = "markers"
  BY <1>1, RowConsumedFields
<1> HIDE DEF e
<1>7. /\ e.picture = p /\ Stream(e) = S /\ Ahead(e) = S[i + 1] /\ e.position = i
      /\ e.comps_in_scan = comps /\ e.input_scan_number = s
  BY <1>6 DEF SameScan, Stream, Ahead
<1>8. InputThere(e) /\ ScanAtHand(e)
  BY <1>1, <1>2, <1>6, <1>7 DEF InputThere, Object, IsObject, ScanAtHand, SameScan
<1>9. Object(d) /\ McuNumber(d.picture, d.picture.scans[s].comps) = number
  BY <1>2 DEF InputThere, McuNumber
<1>10. McuHere(e) = Unit("MCU", s, ((row + 1) * whole + e.MCU_vert_offset) * across + e.MCU_ctr)
  BY <1>6, <1>7 DEF McuHere, McuRow, WholeRows
<1>11. more => row + 1 \in 0..(total_iMCU_rows(p) - 1)
  BY <1>3, <1>5
<1>12. more => RowsOfMcus(p, comps, row + 1) \in 1..whole /\ (row + 1) * whole + RowsOfMcus(p, comps, row + 1) <= most
  BY <1>1, <1>11, RowsDivided
<1>13. more => row * whole + rows < most
  <2> SUFFICES ASSUME more PROVE row * whole + rows < most
    OBVIOUS
  <2> DEFINE next == RowsOfMcus(p, comps, row + 1)
             x == row * whole
  <2>1. next \in 1..whole /\ (row + 1) * whole + next <= most
    BY <1>12
  <2>2. (row + 1) * whole = x + whole /\ x \in Nat
    BY <1>5
  <2>3. rows = whole
    BY <1>3
  <2> HIDE DEF whole, rows, row, next, most, x
  <2> QED BY <1>1, <1>5, <2>1, <2>2, <2>3 DEF x
<1>14. ~more => row * whole + rows = most
  <2>1. ~more => row + 1 = total_iMCU_rows(p)
    BY <1>2, <1>3
  <2> QED BY <1>3, <2>1
<1> HIDE DEF comps, across, whole, rows, row, most, i, s, n, S
<1>15. /\ n \in Nat
       /\ ~more => n + 1 = number
       /\ more => n + 1 < number /\ ((row + 1) * whole + 0) * across + 0 = n + 1
  <2>1. /\ across \in Nat /\ across >= 1 /\ row \in Nat /\ whole \in Nat /\ whole >= 1
        /\ rows \in Nat /\ rows >= 1 /\ most \in Nat /\ row * whole + rows <= most
    BY <1>1, <1>3, <1>5
  <2>2. /\ (row * whole + rows) * across + 0 - 1 \in Nat
        /\ row * whole + rows = most => ((row * whole + rows) * across + 0 - 1) + 1 = most * across
        /\ rows = whole => ((row + 1) * whole + 0) * across + 0 = ((row * whole + rows) * across + 0 - 1) + 1
        /\ row * whole + rows < most => ((row * whole + rows) * across + 0 - 1) + 1 < most * across
    BY <2>1, RowsCounted, Zenon
  <2> HIDE DEF more
  <2> QED BY <1>3, <1>13, <1>14, <2>2, Zenon DEF n, number
<1> HIDE DEF number
<1>16. /\ i + 1 \in 1..Len(S)
       /\ n + 1 < number => S[i + 1] = Unit("MCU", s, n + 1)
       /\ n + 1 = number => MarkerFor(p, s, S[i + 1]) /\ TableFor(d, S[i + 1])
  <2>1. d.quant_tbl = TableAt(d.picture, s)
    BY <1>2 DEF ScanAtHand, s
  <2> QED BY <1>2, <1>4, <1>9, <1>15, <2>1, UnitAfterMcu DEF S
<1>17. i \in 0..(Len(S) - 1)
  BY <1>1, <1>16
<1>18. CASE more
  <2>1. Ahead(e) = McuHere(e)
    BY <1>6, <1>7, <1>10, <1>15, <1>16, <1>18, Zenon
  <2>2. ~RowDone(e) /\ 0 \in 0..(across - 1) /\ e.MCU_vert_offset \in 0..e.MCU_rows_per_iMCU_row
    <3>1. e.MCU_rows_per_iMCU_row \in 1..whole
      BY <1>6, <1>12, <1>18 DEF row, comps
    <3> QED BY <1>1, <1>5, <1>6, <1>18, <3>1 DEF RowDone
  <2>3. /\ RowsOfMcus(e.picture, e.comps_in_scan, e.input_iMCU_row) = e.MCU_rows_per_iMCU_row
        /\ MCUs_per_row(e.picture, e.comps_in_scan) = across
        /\ e.input_iMCU_row \in 0..(total_iMCU_rows(e.picture) - 1)
    BY <1>6, <1>7, <1>11, <1>18 DEF row, comps, across
  <2>4. InRow(e)
    BY <1>2, <1>6, <1>7, <1>8, <1>17, <1>18, <2>1, <2>2, <2>3, Zenon DEF InRow
  <2>5. InScan(e)
    BY <2>2, <2>4 DEF InScan
  <2> QED BY <1>6, <1>8, <1>18, <2>5 DEF e, row
<1>19. CASE ~more
  <2>1. e.unread_marker = "none" /\ ~e.eoi_reached
    BY <1>8 DEF ScanAtHand
  <2>2. MarkerFor(p, s, Ahead(e)) /\ TableFor(e, Ahead(e))
    <3>1. MarkerFor(p, s, S[i + 1]) /\ TableFor(d, S[i + 1])
      BY <1>15, <1>16, <1>19, Zenon
    <3> QED BY <1>6, <1>7, <3>1 DEF TableFor, SameScan
  <2>3. s \in 0..Len(p.scans)
    BY <1>1, <1>2, Scans
  <2>4. AmongMarkers(e)
    BY <1>6, <1>7, <1>17, <1>19, <2>1, <2>2, <2>3 DEF AmongMarkers
  <2> QED BY <1>6, <1>8, <1>19, <2>4 DEF e, row
<1> QED BY <1>18, <1>19

\* The MCUs of a row that has been read are all the blocks that the picture has of it.
LEMMA RowCovered ==
  ASSUME NEW d, InputThere(d), InRow(d), RowDone(d),
         NEW i \in Blocks(d.picture), i[1] \in Range(d.comps_in_scan),
         d.input_iMCU_row * d.picture.comps[i[1]].v + i[2] < height_in_blocks(d.picture, i[1])
  PROVE  Decoded(d, i)
<1> DEFINE p == d.picture
           comps == d.comps_in_scan
           row == d.input_iMCU_row
           c == i[1]
           v == p.comps[c].v
           h == MCU_height(p, comps, c)
           vert == d.MCU_vert_offset
<1>1. p \in Pictures /\ c \in Comps(p) /\ i[2] \in 0..(v - 1)
  BY RowBlock DEF InputThere, Object
<1>2. comps \in Seq(Comps(p)) /\ row \in 0..(total_iMCU_rows(p) - 1) /\ vert = RowsOfMcus(p, comps, row)
  BY AtHand DEF InRow, RowDone
<1>3. v \in 1..4
  BY <1>1, Sizes
<1>4. i[2] < vert * h
  <2>1. CASE ~Alone(comps)
    <3>1. h = v /\ vert = 1
      BY <1>2, <2>1 DEF MCU_height, RowsOfMcus
    <3> HIDE DEF v, h, vert
    <3> QED BY <1>1, <1>3, <3>1
  <2>2. CASE Alone(comps)
    <3>1. c = comps[1] /\ h = 1
      BY <1>2, <2>2 DEF MCU_height, Alone, Range
    <3>2. row < total_iMCU_rows(p) - 1 \/ i[2] < last_row_height(p, c)
      BY <1>1, <1>2, RowsInside
    <3>3. vert = IF row < total_iMCU_rows(p) - 1 THEN v ELSE last_row_height(p, c)
      BY <1>2, <2>2, <3>1 DEF RowsOfMcus
    <3>4. last_row_height(p, c) \in 1..v
      BY <1>1, BlockRows
    <3> DEFINE last == last_row_height(p, c)
    <3> HIDE DEF v, h, vert, last
    <3>5. vert \in Nat /\ i[2] < vert
      BY <1>1, <1>3, <3>2, <3>3, <3>4 DEF last
    <3> QED BY <3>1, <3>5
  <2> QED BY <2>1, <2>2
<1> QED BY <1>4 DEF Decoded

\* In one pass, a row that has been read is shown.
LEMMA RowShown ==
  ASSUME NEW d, InputThere(d), InRow(d), RowDone(d), OnePass(d)
  PROVE  BufferShows(d, d.output_iMCU_row)
<1> SUFFICES ASSUME NEW i \in Blocks(d.picture),
                    d.input_iMCU_row * d.picture.comps[i[1]].v + i[2] < height_in_blocks(d.picture, i[1])
             PROVE  BlockShows(d, i, d.output_iMCU_row)
  BY DEF BufferShows, BlockShows, OnePass
<1>1. d.picture \in Pictures /\ i[1] \in Comps(d.picture)
  BY RowBlock DEF InputThere, Object
<1>2. i[1] \in Range(d.comps_in_scan)
  BY <1>1, AllComponents DEF OnePass, InRow, ScanAtHand
<1>3. Decoded(d, i)
  BY <1>2, RowCovered
<1> QED BY <1>3 DEF OnePass, McusShown

\* Otherwise, the image has what the scan says of it.
LEMMA RowHeld ==
  ASSUME NEW d, InputThere(d), InRow(d), RowDone(d), RowsHeld(d), McusHeld(d),
         NEW i \in ImageBlocks(d.picture), Inside(d.picture, i), i[1] \in Range(d.comps_in_scan),
         i[2] < (d.input_iMCU_row + 1) * d.picture.comps[i[1]].v
  PROVE  Held(d, i, d.input_scan_number)
<1> DEFINE p == d.picture
           c == i[1]
           v == p.comps[c].v
           row == d.input_iMCU_row
           b == <<c, i[2] - row * v, i[3]>>
<1>1. p \in Pictures /\ c \in Comps(p) /\ i = <<c, i[2], i[3]>>
  BY ImageBlock DEF InputThere, Object
<1>2. v \in 1..4 /\ row \in Nat /\ width_in_blocks(p, c) \in Nat
  <2>1. row \in Nat
    BY DEF InRow
  <2>2. v \in 1..4 /\ width_in_blocks(p, c) \in Nat
    BY <1>1, Sizes
  <2> QED BY <2>1, <2>2
<1>3. i[2] \in Nat /\ i[3] \in Nat
  BY <1>1, ImageBlock
<1>4. CASE i[2] < row * v
  BY <1>4 DEF RowsHeld
<1>5. CASE ~(i[2] < row * v)
  <2>1. i[2] - row * v \in 0..(v - 1) /\ row * v + (i[2] - row * v) = i[2]
    BY <1>2, <1>3, <1>5, FormerColumns
  <2>2. i[3] \in 0..(width_in_blocks(p, c) - 1)
    BY <1>2, <1>3 DEF Inside
  <2>3. b \in Blocks(p)
    BY <1>1, <2>1, <2>2 DEF Blocks
  <2>4. InRowAtHand(d, b) = i
    BY <1>1, <2>1 DEF InRowAtHand
  <2>5. row * v + b[2] < height_in_blocks(p, c)
    BY <2>1 DEF Inside
  <2>6. b[1] = c
    OBVIOUS
  <2> HIDE DEF b
  <2>7. Decoded(d, b)
    BY <2>3, <2>5, <2>6, RowCovered
  <2> QED BY <2>3, <2>4, <2>6, <2>7 DEF McusHeld
<1> QED BY <1>4, <1>5

\* ... and has it after the row.
LEMMA ImageAfterRow ==
  ASSUME NEW d, InputThere(d), InRow(d), RowDone(d), ImageHolds(d)
  PROVE  ImageHolds(RowConsumed(d))
<1> DEFINE e == RowConsumed(d)
           p == d.picture
           n == d.input_scan_number
           row == d.input_iMCU_row
           more == row + 1 < total_iMCU_rows(p)
<1>1. p \in Pictures /\ IsObject(d) /\ n \in Nat
  BY AtHand DEF InRow
<1>2. /\ SameOutput(d, e) /\ SameData(d, e) /\ SameScan(d, e) /\ e.input_iMCU_row = row + 1
      /\ more => e.consume_input = d.consume_input /\ e.MCU_ctr = 0 /\ e.MCU_vert_offset = 0
      /\ ~more => e.consume_input = "markers"
  BY <1>1, RowConsumedFields
<1> HIDE DEF e
<1>3. /\ e.picture = p /\ e.whole_image = d.whole_image /\ e.input_scan_number = n
      /\ e.comps_in_scan = d.comps_in_scan /\ e.decompress_data = d.decompress_data
      /\ d.consume_input = "data" /\ n \in 1..Len(p.scans) /\ d.comps_in_scan = p.scans[n].comps
      /\ row \in 0..(total_iMCU_rows(p) - 1)
  BY <1>2 DEF SameOutput, SameData, SameScan, InRow, ScanAtHand
<1> SUFFICES ASSUME DOMAIN d.whole_image = ImageBlocks(p), ScansHeld(d, n), RowsHeld(d), McusHeld(d)
             PROVE  IF e.consume_input = "data"
                    THEN ScansHeld(e, n) /\ RowsHeld(e) /\ McusHeld(e)
                    ELSE ScansHeld(e, n + 1)
  BY <1>3 DEF ImageHolds, e
<1>4. \A i, s : Held(e, i, s) <=> Held(d, i, s)
  BY <1>3 DEF Held
<1>5. ASSUME NEW i \in ImageBlocks(p), Inside(p, i), i[1] \in Range(d.comps_in_scan),
             i[2] < (row + 1) * p.comps[i[1]].v
      PROVE  Held(e, i, n)
  BY <1>4, <1>5, RowHeld
<1>6. CASE more
  <2>1. ScansHeld(e, n) /\ RowsHeld(e)
    BY <1>2, <1>3, <1>4, <1>5 DEF ScansHeld, RowsHeld
  <2>2. McusHeld(e)
    BY <1>1, <1>2, <1>3, <1>6, NothingDecoded DEF McusHeld
  <2> QED BY <1>2, <1>3, <1>6, <2>1, <2>2
<1>7. CASE ~more
  <2> SUFFICES ASSUME NEW i \in ImageBlocks(p), Inside(p, i), NEW s \in ScansOf(p, i[1]), s < n + 1
               PROVE  Held(e, i, s)
    BY <1>2, <1>3, <1>7 DEF ScansHeld
  <2>1. s \in 1..Len(p.scans) /\ i[1] \in Range(p.scans[s].comps)
    BY DEF ScansOf
  <2>2. CASE s < n
    BY <1>4, <2>2 DEF ScansHeld
  <2>3. CASE s = n
    <3>1. row + 1 = total_iMCU_rows(p)
      <4>1. total_iMCU_rows(p) \in Nat
        BY <1>1, Sizes
      <4> QED BY <1>3, <1>7, <4>1
    <3>2. i[2] < (row + 1) * p.comps[i[1]].v
      BY <1>1, <3>1, ImageBlock
    <3> QED BY <1>3, <1>5, <2>1, <2>3, <3>2
  <2>4. s < n \/ s = n
    BY <1>1, <2>1
  <2> QED BY <2>2, <2>3, <2>4
<1> QED BY <1>6, <1>7

-----------------------------------------------------------------------------
(***************************************************************************)
(* Input goes on.                                                          *)
(***************************************************************************)

\* What may be expected of a call that reads: output is as it was.
Went(d, e) ==
  /\ InputThere(e) /\ ImageRight(e)
  /\ SameOutput(d, e) /\ SameMemory(d, e)
  /\ e.inheaders = d.inheaders /\ e.has_multiple_scans = d.has_multiple_scans

\* The turns that input still has to take: a marker or an iMCU row each.
Remaining(d) ==
  LET rows == total_iMCU_rows(d.picture)
  IN IF d.eoi_reached THEN 0
     ELSE (Len(d.picture.scans) - d.input_scan_number) * (rows + 1) + 1
          + (IF d.consume_input = "data" THEN rows - d.input_iMCU_row ELSE 0)

\* An iMCU row is read.
LEMMA DataConsumed ==
  ASSUME NEW d, InputThere(d), Reading(d), InScan(d), ImageRight(d)
  PROVE  LET e == consume_data(d)
         IN /\ Went(d, e) /\ Reading(e) /\ (InScan(e) \/ AmongMarkers(e))
            /\ e.ret = "SUSPENDED" \/ Remaining(e) < Remaining(d)
<1> DEFINE f == McusDecoded(d)
           e == consume_data(d)
<1>1. InputThere(f) /\ InRow(f) /\ ImageRight(f) /\ SameRow(d, f)
  BY RowDecoded DEF InScan
<1>2. e = IF RowDone(f) THEN RowConsumed(f) ELSE Suspended(f)
  BY DEF consume_data, IfRowDone
<1>0. /\ ~d.inheaders /\ d.input_scan_number >= 1 /\ d.output_scan_number \in Nat
      /\ Latched(d, d.input_scan_number) /\ ImageHolds(d) /\ arrived \in Nat
  <2>1. arrived \in Nat
    BY AtHand DEF InScan, InRow
  <2> QED BY <2>1 DEF Reading
<1> HIDE DEF f
<1>5. /\ ImageHolds(f) /\ f.picture = d.picture /\ f.input_scan_number = d.input_scan_number
      /\ f.quant_table = d.quant_table /\ f.output_scan_number = d.output_scan_number
      /\ f.inheaders = d.inheaders
  BY <1>0, <1>1 DEF SameRow, SameOutput
<1>3. CASE RowDone(f)
  <2>1. e = RowConsumed(f)
    BY <1>2, <1>3
  <2>2. /\ InputThere(e) /\ SameOutput(f, e) /\ SameData(f, e) /\ SameScan(f, e)
        /\ e.quant_table = f.quant_table
        /\ InScan(e) \/ AmongMarkers(e)
        /\ ~(f.input_iMCU_row + 1 < total_iMCU_rows(f.picture)) => AmongMarkers(e)
        /\ f.input_iMCU_row + 1 < total_iMCU_rows(f.picture) =>
             InScan(e) /\ e.input_iMCU_row = f.input_iMCU_row + 1
    BY <1>1, <1>3, <2>1, RowEnds
  <2>3. ImageHolds(e)
    BY <1>1, <1>3, <1>5, <2>1, ImageAfterRow
  <2> HIDE DEF e
  <2>4. Went(d, e)
    BY <1>1, <2>2 DEF Went, SameRow, SameMemory, SameOutput, SameData, SameScan, ImageRight
  <2>5. Reading(e)
    <3>1. e.position <= arrived
      BY <1>0, <2>2 DEF InputThere
    <3>2. Latched(e, e.input_scan_number)
      BY <1>0, <1>5, <2>2 DEF Latched, SameScan
    <3> QED BY <1>0, <1>5, <2>2, <2>3, <3>1, <3>2 DEF Reading, SameScan
  <2>6. Remaining(e) < Remaining(d)
    <3> DEFINE rows == total_iMCU_rows(d.picture)
               row == d.input_iMCU_row
               left == (Len(d.picture.scans) - d.input_scan_number) * (rows + 1)
    <3>1. /\ ~d.eoi_reached /\ ~e.eoi_reached /\ d.consume_input = "data"
          /\ row \in 0..(rows - 1) /\ f.input_iMCU_row = row
          /\ e.picture = d.picture /\ e.input_scan_number = d.input_scan_number
      BY <1>1, <1>5, <2>2 DEF InScan, InRow, ScanAtHand, AmongMarkers, SameRow, SameScan
    <3>2. rows \in Nat /\ left \in Int
      <4>1. rows \in Nat /\ Len(d.picture.scans) \in Nat
        BY Sizes, Scans DEF InputThere, Object
      <4>2. d.input_scan_number \in Int
        BY <4>1 DEF InScan, InRow, ScanAtHand
      <4> QED BY <4>1, <4>2
    <3>3. Remaining(d) = left + 1 + (rows - row)
      BY <3>1 DEF Remaining
    <3>4. Remaining(e) = left + 1 + (IF e.consume_input = "data" THEN rows - e.input_iMCU_row ELSE 0)
      BY <3>1 DEF Remaining
    <3> HIDE DEF left
    <3>5. CASE row + 1 < rows
      <4>1. e.consume_input = "data" /\ e.input_iMCU_row = row + 1
        BY <1>5, <2>2, <3>1, <3>5 DEF InScan, InRow
      <4> HIDE DEF rows, row
      <4> QED BY <3>1, <3>2, <3>3, <3>4, <4>1
    <3>6. CASE ~(row + 1 < rows)
      <4>1. e.consume_input # "data"
        BY <1>5, <2>2, <3>1, <3>6 DEF AmongMarkers
      <4> HIDE DEF rows, row
      <4> QED BY <3>1, <3>2, <3>3, <3>4, <4>1
    <3> QED BY <3>5, <3>6
  <2> QED BY <2>2, <2>4, <2>5, <2>6 DEF e
<1>4. CASE ~RowDone(f)
  <2>1. e = Suspended(f) /\ IsObject(f)
    BY <1>1, <1>2, <1>4, AtHand DEF InRow
  <2>2. IsObject(e) /\ SameOutput(f, e) /\ SameData(f, e) /\ SameInput(f, e) /\ e.ret = "SUSPENDED"
    BY <2>1, SuspendedFields
  <2> HIDE DEF e
  <2>3. Reading(f)
    <3>1. f.position <= arrived
      BY <1>0, <1>1 DEF InputThere
    <3>2. Latched(f, f.input_scan_number)
      BY <1>0, <1>5 DEF Latched
    <3> QED BY <1>0, <1>1, <1>4, <1>5, <3>1, <3>2 DEF Reading, InScan
  <2>4. InputThere(e) /\ InScan(e)
    BY <1>1, <1>4, <2>2, InputKept DEF InputThere, InScan
  <2>5. Reading(e)
    BY <1>1, <2>2, <2>3, InputKept DEF InputThere, SameData, SameOutput
  <2>6. Went(d, e)
    BY <1>1, <2>2, <2>4
           DEF Went, SameRow, SameMemory, SameOutput, SameData, SameInput, SameScan, ImageRight
  <2> QED BY <2>2, <2>4, <2>5, <2>6 DEF e
<1> QED BY <1>3, <1>4

\* Output is where it was, but for the row.
SameLines(d, e) ==
  /\ e.picture = d.picture /\ e.global_state = d.global_state /\ e.mode = d.mode
  /\ e.decompress_data = d.decompress_data
  /\ e.output_scanline = d.output_scanline /\ e.buffer_full = d.buffer_full
  /\ e.rowgroup_ctr = d.rowgroup_ctr /\ e.next_row_out = d.next_row_out
  /\ e.rows_to_go = d.rows_to_go /\ e.color_buf = d.color_buf
  /\ e.post_process = d.post_process /\ e.strips = d.strips
  /\ e.starting_row = d.starting_row /\ e.next_row = d.next_row
  /\ e.is_dummy_pass = d.is_dummy_pass /\ e.dct_table = d.dct_table
  /\ \A s \in 1..Len(d.picture.scans) : s <= e.output_scan_number <=> s <= d.output_scan_number
SameInMemory(d, e) ==
  DOMAIN e.buffer = DOMAIN d.buffer /\ DOMAIN e.whole_image = DOMAIN d.whole_image

\* What a row that is decompressed leads to: the call is suspended, or the main
\* buffer shows the row that was due.
RowCame(d, e) ==
  /\ InputThere(e) /\ ImageRight(e) /\ SameLines(d, e) /\ SameInMemory(d, e)
  /\ e.inheaders = d.inheaders /\ e.has_multiple_scans = d.has_multiple_scans
  /\ IF e.ret = "SUSPENDED" THEN e.output_iMCU_row = d.output_iMCU_row
     ELSE e.output_iMCU_row = d.output_iMCU_row + 1 /\ BufferShows(e, d.output_iMCU_row)

\* In one pass nothing is shown of a row before its first MCU has come.
LEMMA NothingShown ==
  ASSUME NEW d, d.picture \in Pictures, d.MCU_ctr = 0, d.MCU_vert_offset = 0
  PROVE  McusShown(d)
BY NothingDecoded DEF McusShown

\* In one pass, a row is read and shown.
LEMMA OnePassOut ==
  ASSUME NEW d, InputThere(d), Reading(d), InScan(d), ImageRight(d), OnePass(d)
  PROVE  LET e == decompress_onepass(d)
         IN RowCame(d, e) /\ Reading(e) /\ InStep(e)
<1> DEFINE f == McusDecoded(d)
           g == [f EXCEPT !.output_iMCU_row = @ + 1]
           e == decompress_onepass(d)
<1>1. InputThere(f) /\ InRow(f) /\ ImageRight(f) /\ SameRow(d, f)
  BY RowDecoded DEF InScan
<1>2. e = IF RowDone(f) THEN RowConsumed(g) ELSE Suspended(f)
  BY DEF decompress_onepass, IfRowOut
<1> HIDE DEF f
<1>0. IsObject(f) /\ OnePass(f) /\ f.picture \in Pictures /\ arrived \in Nat
  BY <1>1, AtHand DEF InRow, SameRow
<1>5. ASSUME NEW x, InputThere(x), InScan(x) \/ AmongMarkers(x), x.picture = f.picture,
             x.decompress_data = f.decompress_data, x.inheaders = f.inheaders,
             x.input_scan_number = f.input_scan_number, x.quant_table = f.quant_table,
             x.output_scan_number = f.output_scan_number
      PROVE  Reading(x)
  <2>1. x.position <= arrived
    BY <1>0, <1>5 DEF InputThere
  <2>2. /\ ~x.inheaders /\ x.input_scan_number >= 1 /\ x.output_scan_number \in Nat
        /\ Latched(d, d.input_scan_number)
        /\ x.quant_table = d.quant_table /\ x.input_scan_number = d.input_scan_number
        /\ x.picture = d.picture
    BY <1>1, <1>5 DEF Reading, SameRow, SameOutput
  <2>3. Latched(x, x.input_scan_number)
    BY <2>2 DEF Latched
  <2>4. ImageHolds(x)
    BY <1>0, <1>5 DEF OnePass, ImageHolds
  <2> QED BY <1>5, <2>1, <2>2, <2>3, <2>4 DEF Reading
<1>3. CASE RowDone(f)
  <2>1. e = RowConsumed(g)
    BY <1>2, <1>3
  <2>2. /\ IsObject(g) /\ SameInput(f, g) /\ SameData(f, g) /\ SameLines(f, g)
        /\ g.output_iMCU_row = f.output_iMCU_row + 1
    BY <1>0 DEF IsObject, Fields, SameInput, SameScan, SameData, SameLines
  <2> HIDE DEF g
  <2>3. InputThere(g) /\ InRow(g) /\ RowDone(g)
    BY <1>1, <1>3, <2>2, InputKept DEF InputThere
  <2>4. /\ InputThere(e) /\ SameOutput(g, e) /\ SameData(g, e) /\ SameScan(g, e)
        /\ InScan(e) \/ AmongMarkers(e)
        /\ e.quant_table = g.quant_table
        /\ e.ret # "SUSPENDED"
        /\ g.input_iMCU_row + 1 < total_iMCU_rows(g.picture) =>
             /\ InScan(e) /\ e.input_iMCU_row = g.input_iMCU_row + 1
             /\ e.MCU_ctr = 0 /\ e.MCU_vert_offset = 0
    BY <2>1, <2>3, RowEnds
  <2> HIDE DEF e
  <2>5. BufferShows(e, d.output_iMCU_row)
    <3>1. BufferShows(f, f.output_iMCU_row)
      BY <1>0, <1>1, <1>3, RowShown
    <3>2. /\ e.buffer = f.buffer /\ e.picture = f.picture /\ d.output_iMCU_row = f.output_iMCU_row
          /\ \A s \in 1..Len(f.picture.scans) : s <= e.output_scan_number <=> s <= f.output_scan_number
      BY <1>1, <2>2, <2>4 DEF SameRow, SameData, SameLines, SameOutput
    <3> QED BY <1>0, <3>1, <3>2, BufferShownKept
  <2>6. SameLines(d, e) /\ SameInMemory(d, e) /\ ImageRight(e)
        /\ e.inheaders = d.inheaders /\ e.has_multiple_scans = d.has_multiple_scans
        /\ e.output_iMCU_row = d.output_iMCU_row + 1 /\ e.input_scan_number = d.input_scan_number
        /\ g.input_iMCU_row = d.output_iMCU_row /\ e.picture = g.picture /\ e.picture \in Pictures
    BY <1>0, <1>1, <2>2, <2>4 DEF SameLines, SameInMemory, ImageRight, SameRow, SameMemory, SameOutput,
       SameData, SameScan, SameInput, OnePass, InputThere, Object
  <2>7. InStep(e)
    <3> SUFFICES ASSUME e.output_iMCU_row < total_iMCU_rows(e.picture)
                 PROVE  /\ e.consume_input = "data" /\ e.input_scan_number = 1
                        /\ e.input_iMCU_row = e.output_iMCU_row /\ McusShown(e)
      BY DEF InStep
    <3>1. /\ InScan(e) /\ e.input_iMCU_row = g.input_iMCU_row + 1
          /\ e.MCU_ctr = 0 /\ e.MCU_vert_offset = 0
      BY <2>4, <2>6
    <3>2. McusShown(e)
      BY <2>6, <3>1, NothingShown
    <3>3. d.input_scan_number = 1
      BY DEF OnePass
    <3> QED BY <2>6, <3>1, <3>2, <3>3 DEF InScan, InRow
  <2>8. Reading(e)
    BY <1>5, <2>2, <2>4 DEF SameInput, SameScan, SameLines, SameOutput
  <2> QED BY <2>4, <2>5, <2>6, <2>7, <2>8 DEF RowCame, e
<1>4. CASE ~RowDone(f)
  <2>1. e = Suspended(f)
    BY <1>2, <1>4
  <2>2. /\ IsObject(e) /\ SameOutput(f, e) /\ SameData(f, e) /\ SameInput(f, e)
        /\ e.ret = "SUSPENDED"
    BY <1>0, <2>1, SuspendedFields
  <2> HIDE DEF e
  <2>3. InputThere(e) /\ InScan(e)
    BY <1>1, <1>4, <2>2, InputKept DEF InputThere, InScan
  <2>4. RowCame(d, e)
    BY <1>1, <2>2, <2>3
       DEF RowCame, SameLines, SameInMemory, SameRow, SameMemory, SameOutput, SameData, SameInput,
           SameScan, ImageRight
  <2>5. InStep(e)
    <3>1. McusShown(e)
      <4>1. /\ e.picture = f.picture /\ e.output_iMCU_row = f.output_iMCU_row /\ e.buffer = f.buffer
            /\ \A s \in 1..Len(f.picture.scans) : s <= e.output_scan_number <=> s <= f.output_scan_number
            /\ \A i : Decoded(e, i) <=> Decoded(f, i)
        BY <2>2 DEF SameInput, SameScan, SameData, SameOutput, Decoded
      <4> QED BY <1>0, <4>1, BlockShownKept DEF OnePass, McusShown
    <3> QED BY <1>0, <1>1, <2>2, <2>3, <3>1 DEF InStep, OnePass, InScan, InRow, SameOutput, SameInput, SameScan
  <2>6. Reading(e)
    BY <1>5, <2>2, <2>3 DEF SameInput, SameScan, SameOutput
  <2> QED BY <2>4, <2>5, <2>6 DEF e
<1> QED BY <1>3, <1>4

-----------------------------------------------------------------------------
(***************************************************************************)
(* Markers and data, as they come.                                         *)
(***************************************************************************)

\* What consume_markers makes of the markers that have come.
LEMMA MarkersTaken ==
  ASSUME NEW d, InputThere(d), AmongMarkers(d), d.output_scan_number \in Nat
  PROVE  LET e == consume_markers(d)
         IN /\ InputThere(e) /\ SameOutput(d, e) /\ SameData(d, e)
            /\ e.output_scan_number \in Nat
            /\ e.ret = "SUSPENDED" =>
                 /\ AmongMarkers(e) /\ e.input_scan_number = d.input_scan_number
                 /\ e.inheaders = d.inheaders /\ e.has_multiple_scans = d.has_multiple_scans
            /\ e.ret = "REACHED_SOS" =>
                 /\ e.input_scan_number = d.input_scan_number + 1 /\ ~e.inheaders
                 /\ d.inheaders =>
                      /\ ScanBegins(e) /\ e.has_multiple_scans = has_multiple_scans(e.picture)
                      /\ Latched(e, 0)
                 /\ ~d.inheaders => /\ InScan(e) /\ e.inheaders = d.inheaders
                                    /\ e.has_multiple_scans = d.has_multiple_scans
                                    /\ e.input_iMCU_row = 0
                                    /\ Latched(d, d.input_scan_number) => Latched(e, e.input_scan_number)
                                    /\ ImageHolds(d) => ImageHolds(e)
            /\ e.ret = "REACHED_EOI" =>
                 /\ AtEnd(e) /\ e.input_scan_number = d.input_scan_number
                 /\ e.inheaders = d.inheaders /\ e.has_multiple_scans = d.has_multiple_scans
            /\ e.ret \in {"SUSPENDED", "REACHED_SOS", "REACHED_EOI"}
            /\ e.ret # "REACHED_SOS" =>
                 e.quant_table = d.quant_table /\ (ImageHolds(d) => ImageHolds(e))
<1> DEFINE f == read_markers(d)
           e == consume_markers(d)
<1>1. MarkersRead(f) /\ SameHeader(d, f) /\ Counted(d, f) /\ f.ret # "NONE"
  BY MarkersAreRead
<1>2. e = MarkerConsumed(f)
  BY DEF consume_markers, AmongMarkers
<1> HIDE DEF f
<1>3. IsObject(f) /\ InputThere(f) /\ f.ret \in {"SUSPENDED", "REACHED_SOS", "REACHED_EOI"}
  BY <1>1 DEF MarkersRead, InputThere, Object, IsObject
<1>8. ASSUME NEW x, x.picture = d.picture, x.whole_image = d.whole_image, x.consume_input # "data",
             x.input_scan_number = d.input_scan_number, x.decompress_data = d.decompress_data,
             ImageHolds(d)
      PROVE  ImageHolds(x)
  <2>1. d.consume_input # "data"
    BY DEF AmongMarkers
  <2> QED BY <1>8, <2>1 DEF ImageHolds, ScansHeld, Held
<1>9. /\ f.picture = d.picture /\ f.whole_image = d.whole_image
      /\ f.decompress_data = d.decompress_data
      /\ f.output_scan_number \in Nat /\ f.quant_table = d.quant_table
  BY <1>1 DEF SameHeader, SameOutput, SameData
<1>4. CASE f.ret = "SUSPENDED"
  <2>1. e = f
    BY <1>2, <1>4 DEF MarkerConsumed
  <2>2. AmongMarkers(f) /\ f.input_scan_number = d.input_scan_number
    BY <1>1, <1>4 DEF MarkersRead, Counted
  <2>3. ImageHolds(d) => ImageHolds(f)
    BY <1>8, <1>9, <2>2 DEF AmongMarkers
  <2> QED BY <1>1, <1>3, <1>4, <1>9, <2>1, <2>2, <2>3 DEF SameHeader
<1>5. CASE f.ret = "REACHED_SOS" /\ f.inheaders
  <2>1. e = [f EXCEPT !.inheaders = FALSE, !.has_multiple_scans = has_multiple_scans(f.picture),
                      !.quant_table = [c \in Comps(f.picture) |-> 0]]
    BY <1>2, <1>5 DEF MarkerConsumed
  <2>2. /\ IsObject(e) /\ SameOutput(f, e) /\ SameData(f, e) /\ e.ret = f.ret
        /\ e.picture = f.picture /\ e.position = f.position
        /\ ~e.inheaders /\ e.has_multiple_scans = has_multiple_scans(f.picture)
        /\ e.input_scan_number = f.input_scan_number /\ e.unread_marker = f.unread_marker
        /\ e.consume_input = f.consume_input /\ e.eoi_reached = f.eoi_reached
        /\ e.comps_in_scan = f.comps_in_scan /\ e.Ss = f.Ss /\ e.quant_tbl = f.quant_tbl
        /\ e.output_scan_number = f.output_scan_number
        /\ e.quant_table = [c \in Comps(f.picture) |-> 0]
    BY <1>3, <2>1 DEF IsObject, Fields, SameOutput, SameData
  <2> HIDE DEF e
  <2>3. Stream(e) = Stream(f) /\ Ahead(e) = Ahead(f)
    BY <2>2 DEF Stream, Ahead
  <2>4. InputThere(e)
    BY <1>3, <2>2, <2>3 DEF InputThere, Object, IsObject
  <2>5. ScanBegins(e)
    BY <1>1, <1>5, <2>2, <2>3 DEF MarkersRead, ScanBegins, ScanAtHand
  <2>6. Latched(e, 0)
    <3>1. \A c \in Comps(e.picture) : \A s \in ScansOf(e.picture, c) : ~(s <= 0)
      <4>1. Len(e.picture.scans) \in Nat
        BY <2>4, Scans DEF InputThere, Object
      <4> QED BY <4>1 DEF ScansOf
    <3>2. e.quant_table = [c \in Comps(e.picture) |-> 0]
      BY <2>2
    <3> QED BY <3>1, <3>2 DEF Latched
  <2> QED BY <1>1, <1>5, <1>9, <2>2, <2>4, <2>5, <2>6 DEF SameHeader, SameOutput, SameData, Counted, e
<1>6. CASE f.ret = "REACHED_SOS" /\ ~f.inheaders
  <2>1. e = start_input_pass(f)
    BY <1>2, <1>6 DEF MarkerConsumed
  <2>2. ScanBegins(f)
    BY <1>1, <1>6 DEF MarkersRead
  <2>3. /\ InputThere(e) /\ InScan(e) /\ SameOutput(f, e) /\ SameData(f, e) /\ SameScan(f, e)
        /\ e.ret = f.ret /\ e.input_iMCU_row = 0
        /\ Latched(f, f.input_scan_number - 1) => Latched(e, e.input_scan_number)
        /\ (f.decompress_data # "onepass" =>
              DOMAIN f.whole_image = ImageBlocks(f.picture) /\ ScansHeld(f, f.input_scan_number))
             => ImageHolds(e)
    BY <1>3, <2>1, <2>2, ScanStarts
  <2> HIDE DEF e
  <2>4. d.input_scan_number \in Nat /\ f.input_scan_number = d.input_scan_number + 1
    <3>1. Len(d.picture.scans) \in Nat
      BY Scans DEF InputThere, Object
    <3> QED BY <1>1, <1>6, <3>1 DEF Counted, AmongMarkers
  <2>5. Latched(d, d.input_scan_number) => Latched(e, e.input_scan_number)
    <3>1. f.input_scan_number - 1 = d.input_scan_number
      BY <2>4
    <3> QED BY <1>9, <2>3, <3>1 DEF Latched
  <2>6. ImageHolds(d) => ImageHolds(e)
    <3>1. ImageHolds(d) => (f.decompress_data # "onepass" =>
            DOMAIN f.whole_image = ImageBlocks(f.picture) /\ ScansHeld(f, f.input_scan_number))
      BY <1>9, <2>4 DEF ImageHolds, ScansHeld, Held, AmongMarkers
    <3> QED BY <2>3, <3>1
  <2> QED BY <1>1, <1>6, <1>9, <2>3, <2>5, <2>6 DEF SameHeader, SameOutput, SameData, SameScan, Counted, e
<1>7. CASE f.ret = "REACHED_EOI"
  <2>1. e = [f EXCEPT !.eoi_reached = TRUE,
                      !.output_scan_number = Min({f.output_scan_number, f.input_scan_number})]
    BY <1>2, <1>7 DEF MarkerConsumed
  <2> DEFINE n == Min({f.output_scan_number, f.input_scan_number})
  <2>5. n \in Nat /\ \A s \in 1..Len(f.picture.scans) : s <= n <=> s <= f.output_scan_number
    <3>1. /\ Len(f.picture.scans) \in Nat /\ f.input_scan_number = Len(f.picture.scans)
      BY <1>1, <1>3, <1>7, Scans DEF MarkersRead, DataEnd, InputThere, Object
    <3>2. n = IF f.output_scan_number <= f.input_scan_number THEN f.output_scan_number
              ELSE f.input_scan_number
      BY <1>9, <3>1, LeastOfTwo
    <3> HIDE DEF n
    <3> QED BY <1>9, <3>1, <3>2
  <2>7. e = [f EXCEPT !.eoi_reached = TRUE, !.output_scan_number = n]
    BY <2>1
  <2> HIDE DEF n, e
  <2>2. /\ IsObject(e) /\ SameOutput(f, e) /\ SameData(f, e) /\ e.ret = f.ret
        /\ e.picture = f.picture /\ e.position = f.position /\ e.eoi_reached
        /\ e.inheaders = f.inheaders /\ e.has_multiple_scans = f.has_multiple_scans
        /\ e.input_scan_number = f.input_scan_number /\ e.consume_input = f.consume_input
        /\ e.quant_table = f.quant_table /\ e.output_scan_number = n
    BY <1>3, <2>5, <2>7 DEF IsObject, Fields, SameOutput, SameData
  <2>3. Stream(e) = Stream(f)
    BY <2>2 DEF Stream
  <2>4. InputThere(e) /\ AtEnd(e)
    <3>1. DataEnd(f)
      BY <1>1, <1>7 DEF MarkersRead
    <3>2. AtEnd(e)
      BY <2>2, <2>3, <3>1 DEF AtEnd, DataEnd
    <3> QED BY <1>3, <2>2, <2>3, <3>2 DEF InputThere, Object, IsObject
  <2>6. ImageHolds(d) => ImageHolds(e)
    <3>1. e.input_scan_number = d.input_scan_number /\ e.consume_input # "data"
      BY <1>1, <1>7, <2>2, <2>4 DEF Counted, AtEnd
    <3> QED BY <1>8, <1>9, <2>2, <3>1 DEF SameData, SameOutput
  <2> QED BY <1>1, <1>7, <1>9, <2>2, <2>4, <2>5, <2>6 DEF SameHeader, SameOutput, SameData, Counted, e
<1> QED BY <1>3, <1>4, <1>5, <1>6, <1>7

\* At the end of the data nothing more comes.
LEMMA EndStays ==
  ASSUME NEW d, InputThere(d), AtEnd(d)
  PROVE  LET e == consume_markers(d)
         IN /\ InputThere(e) /\ AtEnd(e) /\ SameOutput(d, e) /\ SameData(d, e) /\ SameInput(d, e)
            /\ e.ret = "REACHED_EOI"
<1> DEFINE e == consume_markers(d)
<1>1. IsObject(d)
  BY DEF InputThere, Object, IsObject
<1>2. e = [d EXCEPT !.ret = "REACHED_EOI"]
  BY DEF consume_markers, AtEnd
<1>3. /\ IsObject(e) /\ SameOutput(d, e) /\ SameData(d, e) /\ SameInput(d, e)
      /\ e.ret = "REACHED_EOI"
  BY <1>1, <1>2, ReturnedFields
<1> HIDE DEF e
<1>4. InputThere(e) /\ AtEnd(e)
  BY <1>3, InputKept DEF InputThere, SameInput, SameScan
<1> QED BY <1>3, <1>4 DEF e

\* In one pass, output is not affected by input that has come to the end of
\* the scan.
LEMMA InStepKept ==
  ASSUME NEW d, NEW e, d.picture \in Pictures, InStep(d),
         SameOutput(d, e), SameInput(d, e), SameData(d, e)
  PROVE  InStep(e)
<1>1. McusShown(d) => McusShown(e)
  <2>1. /\ e.picture = d.picture /\ e.output_iMCU_row = d.output_iMCU_row /\ e.buffer = d.buffer
        /\ \A s \in 1..Len(d.picture.scans) : s <= e.output_scan_number <=> s <= d.output_scan_number
        /\ \A i : Decoded(e, i) <=> Decoded(d, i)
    BY DEF SameInput, SameScan, SameData, SameOutput, Decoded
  <2> QED BY <2>1, BlockShownKept DEF McusShown
<1> QED BY <1>1 DEF InStep, SameInput, SameScan, SameOutput

\* The turns that are left are counted, and when there are none all has been read.
LEMMA RemainingIs ==
  ASSUME NEW d, InputThere(d), Reading(d)
  PROVE  /\ Remaining(d) \in Nat /\ Remaining(d) <= InputTurns(d.picture)
         /\ Remaining(d) = 0 => AtEnd(d)
<1> DEFINE rows == total_iMCU_rows(d.picture)
           scans == Len(d.picture.scans)
           n == d.input_scan_number
           row == d.input_iMCU_row
           left == (scans - n) * (rows + 1)
<1>1. scans \in Nat /\ rows \in Nat
  BY Scans, Sizes DEF InputThere, Object
<1>2. InputTurns(d.picture) = (scans + 1) * (rows + 1)
  BY DEF InputTurns
<1>3. Remaining(d) = IF d.eoi_reached THEN 0
                     ELSE left + 1 + (IF d.consume_input = "data" THEN rows - row ELSE 0)
  BY DEF Remaining
<1>4. d.eoi_reached => AtEnd(d)
  BY DEF Reading, AmongMarkers, InScan, InRow, ScanAtHand
<1>5. n \in 1..scans \/ d.eoi_reached
  <2>1. n \in 0..scans \/ n \in 1..scans \/ d.eoi_reached
    BY DEF Reading, AmongMarkers, InScan, InRow, ScanAtHand, AtEnd
  <2>2. n >= 1
    BY DEF Reading
  <2> HIDE DEF n, scans
  <2> QED BY <1>1, <2>1, <2>2
<1>6. d.consume_input = "data" => row \in 0..(rows - 1)
  BY DEF Reading, AmongMarkers, InScan, InRow, AtEnd
<1> HIDE DEF rows, scans, n, row
<1>7. (scans + 1) * (rows + 1) \in Nat
  BY <1>1, Products
<1>8. CASE n \in 1..scans /\ ~d.eoi_reached
  <2>1. left \in Nat
    <3>1. scans - n \in Nat /\ rows + 1 \in Nat
      BY <1>1, <1>8
    <3> QED BY <3>1, Products
  <2>2. left + (rows + 1) <= (scans + 1) * (rows + 1)
    <3>1. scans - n + 1 \in Nat /\ rows + 1 \in Nat /\ scans - n + 1 <= scans + 1
      BY <1>1, <1>8
    <3>2. (scans - n + 1) * (rows + 1) <= (scans + 1) * (rows + 1)
      BY <1>1, <3>1, ProductsOrdered
    <3>3. (scans - n + 1) * (rows + 1) = left + (rows + 1)
      BY <1>1, <1>8
    <3> QED BY <3>2, <3>3
  <2> HIDE DEF left
  <2> DEFINE most == (scans + 1) * (rows + 1)
  <2>3. most \in Nat /\ left + (rows + 1) <= most
    BY <1>7, <2>2
  <2> HIDE DEF most
  <2> QED BY <1>1, <1>2, <1>3, <1>6, <1>8, <2>1, <2>3 DEF most
<1> QED BY <1>2, <1>3, <1>4, <1>5, <1>7, <1>8

\* The start of a scan is read: its iMCU rows are what is left of it.
LEMMA ScanTaken ==
  ASSUME NEW d, InputThere(d), AmongMarkers(d), NEW e, e.picture = d.picture, InScan(e),
         e.input_iMCU_row = 0, e.input_scan_number = d.input_scan_number + 1
  PROVE  Remaining(e) < Remaining(d)
<1> DEFINE rows == total_iMCU_rows(d.picture)
           scans == Len(d.picture.scans)
           n == d.input_scan_number
<1>1. scans \in Nat /\ rows \in Nat
  BY Scans, Sizes DEF InputThere, Object
<1>2. n \in Nat
  BY <1>1 DEF AmongMarkers
<1>3. Remaining(d) = (scans - n) * (rows + 1) + 1
  <2>1. Remaining(d) = (scans - n) * (rows + 1) + 1 + 0
    BY DEF Remaining, AmongMarkers
  <2> QED BY <1>1, <1>2, <2>1
<1>4. Remaining(e) = (scans - (n + 1)) * (rows + 1) + 1 + (rows - 0)
  BY DEF Remaining, InScan, InRow, ScanAtHand
<1> HIDE DEF rows, scans, n
<1>5. (scans - n) * (rows + 1) = (scans - (n + 1)) * (rows + 1) + (rows + 1)
  BY <1>1, <1>2
<1> DEFINE left == (scans - (n + 1)) * (rows + 1)
<1>6. left \in Int
  BY <1>1, <1>2
<1> HIDE DEF left
<1> QED BY <1>1, <1>3, <1>4, <1>5, <1>6 DEF left

\* consume_input after the first scan's start.
LEMMA InputConsumed ==
  ASSUME NEW d, InputThere(d), Reading(d), ImageRight(d)
  PROVE  LET e == consume_input(d)
         IN /\ Went(d, e) /\ Reading(e) /\ (InStep(d) => InStep(e)) /\ e.buffer = d.buffer
            /\ e.ret = "SUSPENDED" \/ AtEnd(e) \/ Remaining(e) < Remaining(d)
            /\ AtEnd(d) => AtEnd(e)
<1> DEFINE e == consume_input(d)
<1>1. IsObject(d) /\ d.picture \in Pictures
  BY DEF InputThere, Object, IsObject
<1>0. d.position \in Nat /\ arrived \in Nat /\ d.input_scan_number \in Nat
  <2>1. Len(d.picture.scans) \in Nat /\ Len(Stream(d)) \in Nat
    BY Scans, StreamAt DEF InputThere, Object
  <2>2. d.input_scan_number \in Nat
    BY <2>1 DEF Reading, AmongMarkers, InScan, InRow, ScanAtHand, AtEnd
  <2> QED BY <2>1, <2>2 DEF InputThere
<1>2. CASE AmongMarkers(d)
  <2>1. e = consume_markers(d)
    BY <1>2 DEF consume_input, AmongMarkers
  <2>2. /\ InputThere(e) /\ SameOutput(d, e) /\ SameData(d, e)
        /\ AmongMarkers(e) \/ InScan(e) \/ AtEnd(e)
        /\ e.input_scan_number \in {d.input_scan_number, d.input_scan_number + 1}
        /\ e.inheaders = d.inheaders /\ e.has_multiple_scans = d.has_multiple_scans
        /\ e.output_scan_number \in Nat
        /\ e.ret = "SUSPENDED" \/ AtEnd(e) \/
           (InScan(e) /\ e.input_iMCU_row = 0 /\ e.input_scan_number = d.input_scan_number + 1)
        /\ Latched(e, e.input_scan_number) /\ ImageHolds(e)
    <3>1. /\ ~d.inheaders /\ Latched(d, d.input_scan_number) /\ ImageHolds(d)
          /\ d.output_scan_number \in Nat
      BY DEF Reading
    <3>2. e.ret # "REACHED_SOS" => Latched(e, e.input_scan_number)
      BY <1>2, <2>1, <3>1, MarkersTaken DEF Latched, SameOutput
    <3> HIDE DEF e
    <3> QED BY <1>2, <2>1, <3>1, <3>2, MarkersTaken
  <2> HIDE DEF e
  <2>3. InStep(d) => InStep(e)
    BY <1>2, <2>2 DEF InStep, AmongMarkers, SameOutput
  <2>4. e.position <= arrived /\ e.input_scan_number >= 1
    BY <1>0, <2>2 DEF InputThere, Reading
  <2>5. Reading(e)
    BY <2>2, <2>4 DEF Reading
  <2>6. Went(d, e)
    BY <2>2 DEF Went, SameMemory, SameData, ImageRight
  <2>7. e.ret = "SUSPENDED" \/ AtEnd(e) \/ Remaining(e) < Remaining(d)
    BY <1>2, <2>2, ScanTaken DEF SameOutput
  <2>8. ~AtEnd(d)
    BY <1>2 DEF AmongMarkers, AtEnd
  <2> QED BY <2>2, <2>3, <2>5, <2>6, <2>7, <2>8 DEF SameData, e
<1>3. CASE AtEnd(d)
  <2>1. e = consume_markers(d)
    BY <1>3 DEF consume_input, AtEnd
  <2>2. /\ InputThere(e) /\ AtEnd(e) /\ SameOutput(d, e) /\ SameData(d, e) /\ SameInput(d, e)
    BY <1>3, <2>1, EndStays
  <2> HIDE DEF e
  <2>3. InStep(d) => InStep(e)
    BY <1>1, <2>2, InStepKept
  <2>4. Reading(e)
    BY <2>2, InputKept DEF InputThere, Object, IsObject, SameData, SameOutput
  <2> QED BY <2>2, <2>3, <2>4 DEF Went, SameMemory, SameData, ImageRight, SameInput, SameScan, e
<1>4. CASE InScan(d) /\ d.decompress_data = "onepass"
  <2>1. e = Suspended(d)
    BY <1>4 DEF consume_input, InScan, InRow
  <2>2. IsObject(e) /\ SameOutput(d, e) /\ SameData(d, e) /\ SameInput(d, e) /\ e.ret = "SUSPENDED"
    BY <1>1, <2>1, SuspendedFields
  <2> HIDE DEF e
  <2>3. Reading(e) /\ InputThere(e)
    BY <2>2, InputKept DEF InputThere, SameData, SameOutput
  <2>4. InStep(d) => InStep(e)
    BY <1>1, <2>2, InStepKept
  <2>5. ~AtEnd(d)
    BY <1>4 DEF InScan, InRow, AtEnd
  <2> QED BY <2>2, <2>3, <2>4, <2>5 DEF Went, SameMemory, SameData, ImageRight, SameInput, SameScan, e
<1>5. CASE InScan(d) /\ d.decompress_data # "onepass"
  <2>1. e = consume_data(d)
    BY <1>5 DEF consume_input, InScan, InRow
  <2>2. Went(d, e) /\ Reading(e) /\ (e.ret = "SUSPENDED" \/ Remaining(e) < Remaining(d))
    BY <1>5, <2>1, DataConsumed
  <2> HIDE DEF e
  <2>3. InStep(e) /\ e.buffer = d.buffer
    BY <1>5, <2>2 DEF InStep, Went, SameOutput, SameMemory
  <2>4. ~AtEnd(d)
    BY <1>5 DEF InScan, InRow, AtEnd
  <2> QED BY <2>2, <2>3, <2>4 DEF e
<1> QED BY <1>2, <1>3, <1>4, <1>5 DEF Reading

-----------------------------------------------------------------------------
(* The loops that consume input.                                            *)

\* The turns of such a loop, of which there are n.
AreConsumed(turn, d, why, n) ==
  turn = [i \in 0..n |->
            IF i = 0 THEN [d EXCEPT !.ret = "ENOUGH"] ELSE MoreConsumed(turn[i - 1], why)]

\* There is such a function.
LEMMA InputTurnsExist == \A d, why : \A n \in Nat : \E turn : AreConsumed(turn, d, why, n)
<1> SUFFICES ASSUME NEW d, NEW why PROVE \A n \in Nat : \E turn : AreConsumed(turn, d, why, n)
  OBVIOUS
<1> DEFINE T == {n \in Nat : \E turn : AreConsumed(turn, d, why, n)}
           first == [d EXCEPT !.ret = "ENOUGH"]
<1>1. 0 \in T
  <2>1. AreConsumed([i \in 0..0 |-> first], d, why, 0)
    BY DEF AreConsumed
  <2> QED BY <2>1
<1> HIDE DEF first
<1>2. ASSUME NEW n \in T, n \in Nat PROVE n + 1 \in T
  <2>1. PICK turn : AreConsumed(turn, d, why, n)
    BY <1>2
  <2> DEFINE next == [i \in 0..(n + 1) |-> IF i = n + 1 THEN MoreConsumed(turn[n], why) ELSE turn[i]]
  <2>2. n + 1 \in Nat /\ n + 1 # 0
    BY <1>2
  <2>3. ASSUME NEW i \in 0..(n + 1)
        PROVE  next[i] = IF i = 0 THEN first ELSE MoreConsumed(next[i - 1], why)
    <3>1. CASE i = n + 1
      <4>1. n \in 0..(n + 1) /\ n # n + 1 /\ i - 1 = n
        BY <1>2, <3>1
      <4>2. next[i] = MoreConsumed(turn[n], why) /\ next[i - 1] = turn[n]
        BY <3>1, <4>1
      <4> QED BY <2>2, <3>1, <4>2
    <3>2. CASE i # n + 1
      <4>1. i \in 0..n /\ (i # 0 => i - 1 \in 0..(n + 1) /\ i - 1 # n + 1)
        BY <1>2, <3>2
      <4>2. turn[i] = IF i = 0 THEN first ELSE MoreConsumed(turn[i - 1], why)
        BY <2>1, <4>1, Zenon DEF AreConsumed, first
      <4>3. next[i] = turn[i] /\ (i # 0 => next[i - 1] = turn[i - 1])
        BY <3>2, <4>1
      <4> QED BY <4>2, <4>3
    <3> QED BY <3>1, <3>2
  <2>4. AreConsumed(next, d, why, n + 1)
    BY <2>3, Zenon DEF AreConsumed, first
  <2> QED BY <2>2, <2>4
<1> HIDE DEF T
<1>3. Nat \subseteq T
  BY <1>1, <1>2, NatInduct
<1> QED BY <1>3 DEF T

\* However much a loop consumes, output is as it was; unless the data do not
\* come, it ends with what it waits for.
LEMMA LoopConsumed ==
  ASSUME NEW d, InputThere(d), Reading(d), ImageRight(d), NEW why
  PROVE  LET e == Consume(d, why)
         IN /\ Went(d, e) /\ Reading(e) /\ (InStep(d) => InStep(e))
            /\ e.ret = "SUSPENDED" \/ AtEnd(e) \/ Enough(e, why)
<1> DEFINE number == InputTurns(d.picture)
           turn == CHOOSE t : AreConsumed(t, d, why, number)
           first == [d EXCEPT !.ret = "ENOUGH"]
           Good(x) == Went(d, x) /\ Reading(x) /\ (InStep(d) => InStep(x))
           There(x) == AtEnd(x) \/ Enough(x, why)
           Stops(x) == x.ret = "SUSPENDED" \/ There(x)
           T == {n \in Nat : n <= number => /\ Good(turn[n])
                                            /\ Stops(turn[n]) \/ Remaining(turn[n]) + n <= number}
<1>1. number \in Nat
  <2>1. Len(d.picture.scans) \in Nat /\ total_iMCU_rows(d.picture) \in Nat
    BY Scans, Sizes DEF InputThere, Object
  <2> QED BY <2>1, Products DEF InputTurns
<1>2. Consume(d, why) = Consumed(turn[number])
  BY Zenon DEF Consume, AreConsumed
<1>13. \A x : Good(x) => Remaining(x) \in Nat /\ Remaining(x) <= number
                         /\ (Remaining(x) = 0 => AtEnd(x))
  BY RemainingIs DEF Went, SameOutput
<1> HIDE DEF number
<1>3. AreConsumed(turn, d, why, number)
  BY <1>1, InputTurnsExist
<1> HIDE DEF turn
<1>4. turn[0] = first
  BY <1>1, <1>3 DEF AreConsumed
<1>5. ASSUME NEW n \in Nat, n + 1 <= number PROVE turn[n + 1] = MoreConsumed(turn[n], why)
  <2>1. n + 1 \in 0..number /\ n + 1 # 0 /\ (n + 1) - 1 = n
    BY <1>1, <1>5
  <2> QED BY <1>3, <2>1 DEF AreConsumed
<1>6. ASSUME NEW x, Good(x), NEW r
      PROVE  Good([x EXCEPT !.ret = r]) /\ (There(x) => There([x EXCEPT !.ret = r]))
  <2> DEFINE y == [x EXCEPT !.ret = r]
  <2>1. IsObject(x) /\ x.picture \in Pictures
    BY <1>6 DEF Went, InputThere, Object, IsObject
  <2>2. IsObject(y) /\ SameOutput(x, y) /\ SameData(x, y) /\ SameInput(x, y)
    BY <2>1, ReturnedFields
  <2> HIDE DEF y
  <2>3. InputThere(y) /\ Reading(y) /\ (AtEnd(x) => AtEnd(y))
    BY <1>6, <2>2, InputKept DEF Went, InputThere, SameData, SameOutput
  <2>4. InStep(d) => InStep(y)
    BY <1>6, <2>1, <2>2, InStepKept
  <2>5. Went(d, y)
    BY <1>6, <2>2, <2>3 DEF Went, SameOutput, SameMemory, SameData, ImageRight, SameInput, SameScan
  <2>6. Enough(x, why) = Enough(y, why)
    BY <2>2 DEF Enough, RowsAhead, SameOutput, SameInput, SameScan
  <2> QED BY <2>3, <2>4, <2>5, <2>6 DEF y
<1>7. 0 \in T
  <2>1. Good(d)
    BY DEF Went, SameOutput, SameMemory
  <2>2. Good(first)
    BY <1>6, <2>1
  <2> HIDE DEF Good, first
  <2>3. Remaining(first) + 0 <= number
    BY <1>1, <1>13, <2>2
  <2> QED BY <1>4, <2>2, <2>3
<1>8. ASSUME NEW n \in T, n \in Nat PROVE n + 1 \in T
  <2>1. CASE n + 1 <= number
    <3> DEFINE x == turn[n]
               y == MoreConsumed(x, why)
    <3>1. /\ Good(x) /\ turn[n + 1] = y
          /\ Stops(x) \/ Remaining(x) + n <= number
      BY <1>1, <1>5, <1>8, <2>1
    <3> HIDE DEF x
    <3>2. IF Enough(x, why) \/ x.ret = "SUSPENDED" THEN y = x ELSE y = consume_input(x)
      BY DEF MoreConsumed
    <3> HIDE DEF y
    <3>3. CASE y = x /\ Stops(x)
      BY <1>8, <3>1, <3>3
    <3>4. CASE y = consume_input(x) /\ (AtEnd(x) \/ ~Stops(x))
      <4>1. /\ Went(x, y) /\ Reading(y) /\ (InStep(x) => InStep(y))
            /\ y.ret = "SUSPENDED" \/ AtEnd(y) \/ Remaining(y) < Remaining(x)
            /\ AtEnd(x) => AtEnd(y)
        BY <3>1, <3>4, InputConsumed DEF Went
      <4>2. Good(y)
        BY <3>1, <4>1 DEF Went, SameOutput, SameMemory
      <4>3. Remaining(x) \in Nat /\ Remaining(y) \in Nat
        BY <1>13, <3>1, <4>2
      <4>4. Stops(y) \/ Remaining(y) + (n + 1) <= number
        <5> SUFFICES ASSUME ~Stops(y) PROVE Remaining(y) + (n + 1) <= number
          OBVIOUS
        <5>1. Remaining(y) < Remaining(x) /\ ~AtEnd(x)
          BY <4>1
        <5>2. Remaining(x) + n <= number
          BY <3>1, <3>4, <5>1
        <5> QED BY <1>1, <1>8, <4>3, <5>1, <5>2
      <4> HIDE DEF Good, Stops
      <4> QED BY <1>8, <3>1, <4>2, <4>4
    <3> QED BY <3>2, <3>3, <3>4
  <2> QED BY <1>8, <2>1
<1>9. number \in T
  <2> HIDE DEF T
  <2> QED BY <1>1, <1>7, <1>8, NatInduct
<1>10. Good(turn[number]) /\ Stops(turn[number])
  <2>1. Good(turn[number]) /\ (Stops(turn[number]) \/ Remaining(turn[number]) + number <= number)
    BY <1>1, <1>9
  <2> DEFINE x == turn[number]
  <2>2. Remaining(x) \in Nat /\ (Remaining(x) = 0 => AtEnd(x))
    BY <1>13, <2>1
  <2> HIDE DEF x, Good
  <2>3. Stops(x)
    BY <1>1, <2>1, <2>2 DEF x
  <2> QED BY <2>1, <2>3 DEF x
<1> DEFINE x == turn[number]
<1>11. IF x.ret = "SUSPENDED" THEN Consumed(x) = x ELSE Consumed(x) = [x EXCEPT !.ret = "ENOUGH"]
  BY DEF Consumed
<1> HIDE DEF x
<1>12. Good(Consumed(x)) /\ Stops(Consumed(x))
  <2>1. Good(x) /\ Stops(x)
    BY <1>10 DEF x
  <2> HIDE DEF Good, There
  <2> QED BY <1>6, <1>11, <2>1
<1> QED BY <1>2, <1>12 DEF x

\* When such a loop has ended, the image has what is to be shown of the output
\* row, and what is looked at around it.
LEMMA RowThere ==
  ASSUME NEW d, InputThere(d), Reading(d), d.decompress_data # "onepass",
         d.output_iMCU_row \in Nat, NEW why \in {"row", "smooth"}, AtEnd(d) \/ Enough(d, why),
         NEW i \in ImageBlocks(d.picture), Inside(d.picture, i),
         NEW s \in ScansOf(d.picture, i[1]), s <= d.output_scan_number
  PROVE  LET v == d.picture.comps[i[1]].v
         IN /\ i[2] < (d.output_iMCU_row + 1) * v => Held(d, i, s)
            /\ why = "smooth" /\ d.picture.scans[s].Ss = 0 /\ i[2] < (d.output_iMCU_row + 2) * v =>
                 Held(d, i, s)
<1> DEFINE p == d.picture
           n == d.input_scan_number
           row == d.input_iMCU_row
           shown == d.output_iMCU_row
           v == p.comps[i[1]].v
<1>1. p \in Pictures /\ Len(p.scans) \in Nat
  BY Scans DEF InputThere, Object
<1>2. s \in 1..Len(p.scans) /\ i[1] \in Range(p.scans[s].comps)
  BY DEF ScansOf
<1>3. i[1] \in Comps(p) /\ v \in 1..4 /\ i[2] \in Nat
  <2>1. i[1] \in Comps(p) /\ i[2] \in Nat
    BY <1>1, ImageBlock
  <2> QED BY <1>1, <2>1, Sizes
<1>4. n \in Nat /\ d.output_scan_number \in Nat /\ ImageHolds(d)
  <2>1. n \in 0..Len(p.scans) \/ n \in 1..Len(p.scans) \/ n = Len(p.scans)
    BY DEF Reading, AmongMarkers, InScan, InRow, ScanAtHand, AtEnd
  <2>2. n \in Nat
    <3> HIDE DEF p, n
    <3> QED BY <1>1, <2>1
  <2> QED BY <2>2 DEF Reading
<1>5. d.eoi_reached => AtEnd(d)
  BY DEF Reading, AmongMarkers, InScan, InRow, ScanAtHand
<1>6. AtEnd(d) => s <= n /\ d.consume_input # "data"
  BY <1>1, <1>2 DEF AtEnd
<1>7. AtEnd(d) \/ n > d.output_scan_number
      \/ (n = d.output_scan_number /\ (why = "row" => ~(row <= shown))
          /\ (why = "smooth" => row > shown + RowsAhead(d)))
  <2>1. CASE why = "row" /\ ~AtEnd(d)
    <3>1. ~(n < d.output_scan_number \/ (n = d.output_scan_number /\ row <= shown))
      BY <2>1 DEF Enough
    <3> QED BY <1>4, <2>1, <3>1
  <2>2. CASE why = "smooth" /\ ~AtEnd(d)
    <3>1. \/ n > d.output_scan_number \/ d.eoi_reached
          \/ (n = d.output_scan_number /\ row > shown + RowsAhead(d))
      BY <2>2 DEF Enough
    <3> QED BY <1>5, <2>2, <3>1
  <2> QED BY <2>1, <2>2
<1>8. s <= n
  BY <1>2, <1>4, <1>6, <1>7
<1>9. CASE d.consume_input # "data"
  <2>1. ScansHeld(d, n + 1)
    BY <1>4, <1>9 DEF ImageHolds
  <2>2. s < n + 1
    BY <1>2, <1>4, <1>8
  <2> QED BY <2>1, <2>2 DEF ScansHeld
<1>10. CASE d.consume_input = "data" /\ s < n
  <2>1. ScansHeld(d, n)
    BY <1>4, <1>10 DEF ImageHolds
  <2> QED BY <1>10, <2>1 DEF ScansHeld
<1>11. CASE d.consume_input = "data" /\ s = n
  <2>1. RowsHeld(d)
    BY <1>4, <1>11 DEF ImageHolds
  <2>2. InScan(d)
    BY <1>11 DEF Reading, AmongMarkers, AtEnd
  <2>3. d.comps_in_scan = p.scans[s].comps /\ d.Ss = p.scans[s].Ss /\ row \in Nat
    BY <1>11, <2>2 DEF InScan, InRow, ScanAtHand
  <2>4. ~AtEnd(d) /\ n = d.output_scan_number
    BY <1>4, <1>6, <1>7, <1>11
  <2>5. i[2] < row * v => Held(d, i, s)
    BY <1>2, <1>11, <2>1, <2>3 DEF RowsHeld
  <2>6. shown + 1 <= row /\ (why = "smooth" /\ p.scans[s].Ss = 0 => shown + 2 <= row)
    <3>1. RowsAhead(d) = IF p.scans[s].Ss = 0 THEN 1 ELSE 0
      BY <2>3 DEF RowsAhead
    <3>2. (why = "row" => ~(row <= shown)) /\ (why = "smooth" => row > shown + RowsAhead(d))
      BY <1>4, <1>7, <2>4
    <3> HIDE DEF row, shown
    <3> QED BY <2>3, <3>1, <3>2 DEF shown
  <2> HIDE DEF row, shown, v
  <2>7. shown \in Nat
    BY DEF shown
  <2>8. (shown + 1) * v <= row * v /\ (shown + 2 <= row => (shown + 2) * v <= row * v)
    BY <1>3, <2>3, <2>6, <2>7, ProductsOrdered
  <2>9. (shown + 1) * v \in Nat /\ (shown + 2) * v \in Nat /\ row * v \in Nat
    BY <1>3, <2>3, <2>7, Products
  <2>10. i[2] < (shown + 1) * v => i[2] < row * v
    BY <1>3, <2>8, <2>9
  <2>11. shown + 2 <= row /\ i[2] < (shown + 2) * v => i[2] < row * v
    BY <1>3, <2>8, <2>9
  <2> QED BY <2>5, <2>6, <2>10, <2>11 DEF shown, v
<1> QED BY <1>1, <1>2, <1>4, <1>8, <1>9, <1>10, <1>11

=============================================================================
