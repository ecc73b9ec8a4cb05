---------------------------- MODULE JpegDecompress ----------------------------
(***************************************************************************)
(* libjpeg's decompressor as its application drives it: the calls of       *)
(* jdapimin.c and jdapistd.c with the markers (jdmarker.c), the scans      *)
(* (jdinput.c), the coefficients (jdcoefct.c), the main and post-process   *)
(* buffers (jdmainct.c, jdpostct.c), the upsampling (jdsample.c) and the   *)
(* passes (jdmaster.c) they set in motion.                                 *)
(*                                                                         *)
(* The data arrive bit by bit and every call may be suspended for want of  *)
(* more; a picture cut short is one whose data stop arriving.  A block is  *)
(* known by the scans its coefficients came from, each with the place the  *)
(* coder took them from; what a transform makes of it, by the              *)
(* quantization table it used.  An illegal order of calls (JERR_BAD_STATE) *)
(* and damaged data are left out.                                          *)
(***************************************************************************)
EXTENDS Integers, Sequences, SequencesExt

CONSTANTS
  DCTSIZE,    \* rows and columns of a block
  Pictures,   \* what may be decoded
  Modes       \* how an application may decode each

(***************************************************************************)
(* A picture is a record: height and width; progressive; comps, with the   *)
(* sampling factors h and v of each component; scans, each with its comps, *)
(* the first coefficient Ss it sends (0, or 1 for 1 to 5 and the rest) and *)
(* dqt, whether the quantization table is redefined before it.             *)
(*                                                                         *)
(* A mode is a record: buffered_image, raw_data_out, quantize ("no",       *)
(* "one", "two"), do_fancy_upsampling, do_block_smoothing; and the         *)
(* application's ways: max_lines it asks for at once, and ahead, whether   *)
(* it may ask for a scan whose start has not been read.                    *)
(***************************************************************************)
ASSUME DctSizeAssumption == DCTSIZE \in Nat \ {0}
ASSUME PicturesAssumption ==
  \A p \in Pictures :
    /\ p.height \in Nat \ {0} /\ p.width \in Nat \ {0} /\ p.progressive \in BOOLEAN
    /\ p.comps \in Seq([h : 1..4, v : 1..4]) /\ p.comps # <<>>
    /\ p.scans # <<>>
    /\ p.scans \in Seq([comps : Seq(1..Len(p.comps)), Ss : {0, 1}, dqt : BOOLEAN])
    /\ \A s \in 1..Len(p.scans) : p.scans[s].comps # <<>> /\ IsInjective(p.scans[s].comps)

VARIABLES
  cinfo,      \* the decompression object
  arrived,    \* how many units of the picture's data there are to read
  returned    \* what the last call gave back

vars == <<cinfo, arrived, returned>>

-----------------------------------------------------------------------------
(* The sizes of a picture (initial_setup, per_scan_setup).                  *)

jdiv_round_up(a, b) == (a + b - 1) \div b
Comps(p) == 1..Len(p.comps)
max_h_samp_factor(p) == Max({p.comps[c].h : c \in Comps(p)})
max_v_samp_factor(p) == Max({p.comps[c].v : c \in Comps(p)})
width_in_blocks(p, c) ==
  jdiv_round_up(p.width * p.comps[c].h, max_h_samp_factor(p) * DCTSIZE)
height_in_blocks(p, c) ==
  jdiv_round_up(p.height * p.comps[c].v, max_v_samp_factor(p) * DCTSIZE)
total_iMCU_rows(p) == jdiv_round_up(p.height, max_v_samp_factor(p) * DCTSIZE)
has_multiple_scans(p) == Len(p.scans[1].comps) < Len(p.comps) \/ p.progressive

\* the part of the last row or column of MCUs that the picture fills
Rest(whole, part) == IF whole % part = 0 THEN part ELSE whole % part

Alone(comps) == Len(comps) = 1
MCU_width(p, comps, c) == IF Alone(comps) THEN 1 ELSE p.comps[c].h
MCU_height(p, comps, c) == IF Alone(comps) THEN 1 ELSE p.comps[c].v
MCUs_per_row(p, comps) ==
  IF Alone(comps) THEN width_in_blocks(p, comps[1])
  ELSE jdiv_round_up(p.width, max_h_samp_factor(p) * DCTSIZE)
last_col_width(p, comps, c) == Rest(width_in_blocks(p, c), MCU_width(p, comps, c))
\* per_scan_setup, whose value for a scan of one component ends the last row
last_row_height(p, c) == Rest(height_in_blocks(p, c), p.comps[c].v)

\* jpeg_calc_output_dimensions: a component's transform makes up for what it
\* was sampled down by, as far as the transforms go
Enlarged(mode, most, samp) ==
  Max({s \in {1, 2, 4, 8, 16} :
         s = 1 \/ /\ DCTSIZE * (s \div 2) <= (IF mode.do_fancy_upsampling THEN DCTSIZE
                                              ELSE DCTSIZE \div 2)
                  /\ most % (samp * s) = 0})
DCT_v_scaled_size(p, mode, c) ==
  LET h == Enlarged(mode, max_h_samp_factor(p), p.comps[c].h)
      v == Enlarged(mode, max_v_samp_factor(p), p.comps[c].v)
  IN DCTSIZE * (IF v > 2 * h THEN 2 * h ELSE v)
rowgroup_height(p, mode, c) ==
  (p.comps[c].v * DCT_v_scaled_size(p, mode, c)) \div DCTSIZE

\* what jinit_master_decompress and jinit_upsampler do not refuse
ASSUME ModesAssumption ==
  \A p \in Pictures :
    /\ Modes[p] # {}
    /\ \A mode \in Modes[p] :
         /\ mode \in [buffered_image : BOOLEAN, raw_data_out : BOOLEAN,
                      quantize : {"no", "one", "two"}, do_fancy_upsampling : BOOLEAN,
                      do_block_smoothing : BOOLEAN, max_lines : SUBSET Nat, ahead : BOOLEAN]
         /\ mode.raw_data_out => mode.quantize = "no"
         /\ ~mode.raw_data_out =>
              \A c \in Comps(p) : max_v_samp_factor(p) % rowgroup_height(p, mode, c) = 0

\* The blocks of an MCU, as component, row and column, and where each is if the
\* MCU starts at a row and a column of MCUs
McuBlocks(p, comps) ==
  UNION {{c} \X (0..(MCU_height(p, comps, c) - 1)) \X (0..(MCU_width(p, comps, c) - 1)) :
           c \in Range(comps)}
PlaceAt(p, comps, b, row, col) ==
  <<b[1], row * MCU_height(p, comps, b[1]) + b[2], col * MCU_width(p, comps, b[1]) + b[3]>>

-----------------------------------------------------------------------------
(* The data of a picture as its coder wrote them: units that arrive one     *)
(* after the other, a marker and its parameters being two, or three.        *)

McuRows(p, comps) ==
  IF Alone(comps) THEN height_in_blocks(p, comps[1]) ELSE total_iMCU_rows(p)
Unit(kind, scan, n) == [kind |-> kind, scan |-> scan, n |-> n]

\* the quantization table in force at a scan: 1 from the header, one more
\* with each redefinition
TableAt(p, s) == 1 + Cardinality({t \in 1..s : p.scans[t].dqt})

HeaderUnits ==
  <<Unit("SOI", 0, 0), Unit("DQT", 0, 0), Unit("table", 0, 1), Unit("SOF", 0, 0),
    Unit("frame", 0, 0)>>
McuNumber(p, comps) == McuRows(p, comps) * MCUs_per_row(p, comps)
ScanUnits(p, s) ==
  (IF p.scans[s].dqt THEN <<Unit("DQT", s, 0), Unit("table", s, TableAt(p, s))>> ELSE <<>>)
  \o <<Unit("SOS", s, 0), Unit("params", s, 0), Unit("params", s, 1)>>
  \o [n \in 1..McuNumber(p, p.scans[s].comps) |-> Unit("MCU", s, n - 1)]
StreamOf(p) ==
  HeaderUnits \o FlattenSeq([s \in 1..Len(p.scans) |-> ScanUnits(p, s)]) \o <<Unit("EOI", 0, 0)>>
Streams == [p \in Pictures |-> StreamOf(p)]

\* the place that a block of an MCU has in the picture
Origin(p, u, b) ==
  LET comps == p.scans[u.scan].comps
      across == MCUs_per_row(p, comps)
  IN PlaceAt(p, comps, b, u.n \div across, u.n % across)

-----------------------------------------------------------------------------
(* Input.  d is the state of the object; each operator returns the next.    *)

Stream(d) == Streams[d.picture]
Suspended(d) == [d EXCEPT !.ret = "SUSPENDED"]
Has(d, n) == d.position + n <= arrived

reset_input_controller(d) ==
  [d EXCEPT !.consume_input = "markers", !.has_multiple_scans = FALSE, !.eoi_reached = FALSE,
            !.inheaders = TRUE, !.input_scan_number = 0, !.unread_marker = "none",
            !.saw_SOI = FALSE, !.saw_SOF = FALSE]

next_marker(d) ==
  [d EXCEPT !.unread_marker = Stream(d)[d.position + 1].kind, !.position = @ + 1]

\* what a marker's parameters change; get_sos assigns what has come of them
\* even if it has to begin again
WithScan(d, s) == [d EXCEPT !.comps_in_scan = s.comps, !.Ss = s.Ss]
ScanRead(d) ==
  IF ~Has(d, 2) THEN Suspended(d)
  ELSE [d EXCEPT !.input_scan_number = @ + 1, !.position = @ + 2,
                 !.unread_marker = "none", !.ret = "REACHED_SOS"]
get_sos(d) ==
  IF ~Has(d, 1) THEN Suspended(d)
  ELSE ScanRead(WithScan(d, d.picture.scans[Stream(d)[d.position + 1].scan]))

get_dqt(d) == [d EXCEPT !.quant_tbl = Stream(d)[d.position + 1].n, !.position = @ + 1,
                        !.unread_marker = "none"]
get_sof(d) == [d EXCEPT !.saw_SOF = TRUE, !.position = @ + 1, !.unread_marker = "none"]
get_soi(d) == [d EXCEPT !.saw_SOI = TRUE, !.unread_marker = "none"]

\* one turn of read_markers' loop, which a marker that ends it leaves as it is
MarkerRead(d) ==
  IF d.ret # "NONE" THEN d
  ELSE CASE d.unread_marker = "SOI" -> get_soi(d)
         [] d.unread_marker = "EOI" -> [d EXCEPT !.unread_marker = "none", !.ret = "REACHED_EOI"]
         [] d.unread_marker = "SOS" -> get_sos(d)
         [] OTHER ->
              IF ~Has(d, 1) THEN Suspended(d)
              ELSE CASE d.unread_marker = "none" -> next_marker(d)
                     [] d.unread_marker = "SOF"  -> get_sof(d)
                     [] d.unread_marker = "DQT"  -> get_dqt(d)
\* SOI, DQT, SOF, DQT and SOS, each found and read: no loop has more turns
read_markers(d) ==
  LET turn[n \in 0..10] == IF n = 0 THEN [d EXCEPT !.ret = "NONE"] ELSE MarkerRead(turn[n - 1])
  IN turn[10]

\* (mutant: the one in force at its last scan)
latch_quant_tables_again(d) ==
  [d EXCEPT !.quant_table = [c \in DOMAIN @ |->
     IF c \in Range(d.comps_in_scan) THEN d.quant_tbl ELSE @[c]]]
\* a component's quantization table is the one in force at its first scan
latch_quant_tables(d) ==
  [d EXCEPT !.quant_table = [c \in DOMAIN @ |->
     IF c \in Range(d.comps_in_scan) /\ @[c] = 0 THEN d.quant_tbl ELSE @[c]]]

\* start_pass_huff_decoder: what is known of each coefficient
UpdateCoefBits(d) ==
  [d EXCEPT !.coef_bits = [c \in DOMAIN @ |->
     IF d.picture.progressive /\ c \in Range(d.comps_in_scan)
     THEN [@[c] EXCEPT ![d.Ss] = 0] ELSE @[c]]]

\* (mutant: every iMCU row is whole)
start_iMCU_row_whole(d) ==
  [d EXCEPT !.MCU_ctr = 0, !.MCU_vert_offset = 0,
            !.MCU_rows_per_iMCU_row =
               IF ~Alone(d.comps_in_scan) THEN 1 ELSE d.picture.comps[d.comps_in_scan[1]].v]
start_iMCU_row(d) ==
  LET p == d.picture
      c == d.comps_in_scan[1]
  IN [d EXCEPT !.MCU_ctr = 0, !.MCU_vert_offset = 0,
               !.MCU_rows_per_iMCU_row =
                  IF ~Alone(d.comps_in_scan) THEN 1
                  ELSE IF d.input_iMCU_row < total_iMCU_rows(p) - 1 THEN p.comps[c].v
                  ELSE last_row_height(p, c)]

start_input_pass(d) ==
  start_iMCU_row([UpdateCoefBits(latch_quant_tables(d))
                    EXCEPT !.input_iMCU_row = 0, !.consume_input = "data"])

\* what consume_markers makes of the marker that was read
MarkerConsumed(d) ==
  CASE d.ret = "REACHED_SOS" /\ d.inheaders ->
         [d EXCEPT !.inheaders = FALSE,
                   !.has_multiple_scans = has_multiple_scans(d.picture),
                   !.quant_table = [c \in Comps(d.picture) |-> 0]]
    [] d.ret = "REACHED_SOS" /\ ~d.inheaders -> start_input_pass(d)
    [] d.ret = "REACHED_EOI" ->
         [d EXCEPT !.eoi_reached = TRUE, !.output_scan_number = Min({@, d.input_scan_number})]
    [] OTHER -> d
consume_markers(d) ==
  IF d.eoi_reached THEN [d EXCEPT !.ret = "REACHED_EOI"] ELSE MarkerConsumed(read_markers(d))

\* the next MCU's column, or the next row of MCUs within the iMCU row
NextMcu(d) ==
  LET last == d.MCU_ctr + 1 = MCUs_per_row(d.picture, d.comps_in_scan)
  IN [d EXCEPT !.position = @ + 1, !.MCU_ctr = IF last THEN 0 ELSE @ + 1,
               !.MCU_vert_offset = IF last THEN @ + 1 ELSE @]

RowConsumed(d) ==
  IF d.input_iMCU_row + 1 < total_iMCU_rows(d.picture)
  THEN [start_iMCU_row([d EXCEPT !.input_iMCU_row = @ + 1]) EXCEPT !.ret = "ROW_COMPLETED"]
  ELSE [d EXCEPT !.input_iMCU_row = @ + 1, !.consume_input = "markers",
                 !.ret = "SCAN_COMPLETED"]

\* the MCU at hand: a block's place, its rows counted from the iMCU row's first,
\* and the place its coefficients came from
Block(d, b) == PlaceAt(d.picture, d.comps_in_scan, b, d.MCU_vert_offset, d.MCU_ctr)
Source(d, b) ==
  LET u == Stream(d)[d.position + 1]
      origin == Origin(d.picture, u, b)
  IN <<u.scan, origin[2], origin[3]>>

\* samples: the transform of a block with a table; near, the rows above and
\* below it that smoothing looks at
Samples(coefs, table, near) == [coefs |-> coefs, table |-> table, near |-> near]
Garbage == Samples({}, -1, <<>>)

\* an MCU's coefficients, put where the image keeps them
Stored(d) ==
  LET p == d.picture
      blocks == McuBlocks(p, d.comps_in_scan)
      at(b) == <<b[1], d.input_iMCU_row * p.comps[b[1]].v + Block(d, b)[2], Block(d, b)[3]>>
  IN [d EXCEPT !.whole_image = [i \in DOMAIN @ |->
        @[i] \cup {Source(d, b) : b \in {b \in blocks : at(b) = i}}]]

\* an MCU's coefficients, transformed at once if they are inside the picture
Transformed(d) ==
  LET p == d.picture
      comps == d.comps_in_scan
      blocks == McuBlocks(p, comps)
      wide(c) == IF d.MCU_ctr < MCUs_per_row(p, comps) - 1 THEN MCU_width(p, comps, c)
                 ELSE last_col_width(p, comps, c)
      inside(i) == /\ i[3] < d.MCU_ctr * MCU_width(p, comps, i[1]) + wide(i[1])
                   /\ d.input_iMCU_row < total_iMCU_rows(p) - 1 \/ i[2] < last_row_height(p, i[1])
      coefs(i) == {Source(d, b) : b \in {b \in blocks : Block(d, b) = i}}
  IN [d EXCEPT !.buffer = [i \in DOMAIN @ |->
        IF coefs(i) # {} /\ inside(i) THEN Samples(coefs(i), d.dct_table[i[1]], <<>>) ELSE @[i]]]

\* the loop over the MCUs of an iMCU row, as far as their data have come
RowDone(d) == d.MCU_vert_offset = d.MCU_rows_per_iMCU_row
McuDecoded(d) ==
  IF RowDone(d) \/ ~Has(d, 1) THEN d
  ELSE NextMcu(IF d.decompress_data = "onepass" THEN Transformed(d) ELSE Stored(d))
McusDecoded(d) ==
  LET number == d.MCU_rows_per_iMCU_row * MCUs_per_row(d.picture, d.comps_in_scan)
      turn[n \in 0..number] == IF n = 0 THEN d ELSE McuDecoded(turn[n - 1])
  IN turn[number]

IfRowDone(d) == IF RowDone(d) THEN RowConsumed(d) ELSE Suspended(d)
consume_data(d) == IfRowDone(McusDecoded(d))

\* inputctl->consume_input; in one pass, data are read for output only
consume_input(d) ==
  IF d.consume_input = "markers" THEN consume_markers(d)
  ELSE IF d.decompress_data = "onepass" THEN Suspended(d)
  ELSE consume_data(d)

\* the rows that input must be ahead for smoothing: a DC scan's next row is
\* looked at (mutants: none, or always one)
RowsAhead_none(d) == 0
RowsAhead_always(d) == 1
RowsAhead(d) == IF d.Ss = 0 THEN 1 ELSE 0

\* what a loop that consumes input waits for
Enough(d, why) ==
  CASE why = "eoi" -> d.eoi_reached
    [] why = "scan" -> d.input_scan_number > d.output_scan_number \/ d.eoi_reached
    [] why = "row" ->
         ~ \/ d.input_scan_number < d.output_scan_number
           \/ /\ d.input_scan_number = d.output_scan_number
              /\ d.input_iMCU_row <= d.output_iMCU_row
    [] why = "smooth" ->
         \/ d.input_scan_number > d.output_scan_number \/ d.eoi_reached
         \/ /\ d.input_scan_number = d.output_scan_number
            /\ d.input_iMCU_row > d.output_iMCU_row + RowsAhead(d)

\* Each turn takes a marker that ends read_markers, or an iMCU row.
InputTurns(p) == (Len(p.scans) + 1) * (total_iMCU_rows(p) + 1)
MoreConsumed(d, why) == IF Enough(d, why) \/ d.ret = "SUSPENDED" THEN d ELSE consume_input(d)
Consumed(d) == IF d.ret = "SUSPENDED" THEN d ELSE [d EXCEPT !.ret = "ENOUGH"]
Consume(d, why) ==
  LET number == InputTurns(d.picture)
      turn[n \in 0..number] ==
        IF n = 0 THEN [d EXCEPT !.ret = "ENOUGH"] ELSE MoreConsumed(turn[n - 1], why)
  IN Consumed(turn[number])

-----------------------------------------------------------------------------
(* Output.                                                                  *)

\* the blocks of an iMCU row, as component, row and column
Blocks(p) ==
  UNION {{c} \X (0..(p.comps[c].v - 1)) \X (0..(width_in_blocks(p, c) - 1)) : c \in Comps(p)}

IfRowOut(d) ==
  IF RowDone(d) THEN RowConsumed([d EXCEPT !.output_iMCU_row = @ + 1]) ELSE Suspended(d)
decompress_onepass(d) == IfRowOut(McusDecoded(d))

\* the DC values above and below a block, of the row itself at an edge
Around(d, c, row, col) ==
  LET last == height_in_blocks(d.picture, c) - 1
  IN <<d.whole_image[<<c, Max({row - 1, 0}), col>>], d.whole_image[<<c, Min({row + 1, last}), col>>]>>

\* the blocks of the output row, each with what is around it if it is smoothed
Rendered(d, smoothed) ==
  LET p == d.picture
      last == d.output_iMCU_row = total_iMCU_rows(p) - 1
      first_block(c) == d.output_iMCU_row * p.comps[c].v
      block_rows(c) == IF last THEN last_row_height(p, c) ELSE p.comps[c].v
  IN [d EXCEPT
        !.buffer = [b \in DOMAIN @ |->
           LET row == first_block(b[1]) + b[2]
           IN IF b[2] < block_rows(b[1])
              THEN Samples(d.whole_image[<<b[1], row, b[3]>>], d.dct_table[b[1]],
                           IF smoothed THEN Around(d, b[1], row, b[3]) ELSE <<>>)
              ELSE @[b]],
        !.output_iMCU_row = @ + 1,
        !.ret = IF last THEN "SCAN_COMPLETED" ELSE "ROW_COMPLETED"]

UnlessSuspended(d, smoothed) == IF d.ret = "SUSPENDED" THEN d ELSE Rendered(d, smoothed)
decompress_data(d) == UnlessSuspended(Consume(d, "row"), FALSE)
decompress_smooth_data(d) == UnlessSuspended(Consume(d, "smooth"), TRUE)

Decompress(d) ==
  CASE d.decompress_data = "onepass" -> decompress_onepass(d)
    [] d.decompress_data = "data"    -> decompress_data(d)
    [] d.decompress_data = "smooth"  -> decompress_smooth_data(d)

\* a row of a component's samples in the main buffer
Row(d, c, i) ==
  LET S == DCT_v_scaled_size(d.picture, d.mode, c)
  IN [line |-> i % S,
      blocks |-> [x \in 1..width_in_blocks(d.picture, c) |-> d.buffer[<<c, i \div S, x - 1>>]]]

\* sep_upsample: the rows of one row group.  A component of full size is not
\* copied: its rows are read from the main buffer when they are converted.
Upsampled(d) ==
  [c \in Comps(d.picture) |->
     LET high == rowgroup_height(d.picture, d.mode, c)
         first == d.rowgroup_ctr * high
         most == max_v_samp_factor(d.picture)
     IN IF high = most THEN [first |-> first, rows |-> <<>>]
        ELSE [first |-> first,
              rows |-> [o \in 1..most |-> Row(d, c, first + ((o - 1) \div (most \div high)))]]]
Converted(d, i) ==
  [c \in Comps(d.picture) |->
     LET buf == d.color_buf[c]
     IN IF buf.rows = <<>> THEN Row(d, c, buf.first + i) ELSE buf.rows[i + 1]]

\* num_rows rows of the color buffer are given out
GivenOut(d, num_rows) ==
  [d |-> [d EXCEPT !.rows_to_go = @ - num_rows, !.next_row_out = @ + num_rows,
                   !.rowgroup_ctr = IF d.next_row_out + num_rows >= max_v_samp_factor(d.picture)
                                    THEN @ + 1 ELSE @],
   lines |-> [i \in 1..num_rows |-> Converted(d, d.next_row_out + i - 1)]]
FromBuffer(d, avail) ==
  GivenOut(d, Min({max_v_samp_factor(d.picture) - d.next_row_out, d.rows_to_go, avail}))
sep_upsample(d, avail) ==
  FromBuffer(IF d.next_row_out < max_v_samp_factor(d.picture) THEN d
             ELSE [d EXCEPT !.color_buf = Upsampled(d), !.next_row_out = 0], avail)

\* (mutant: the rows of the pass before are still to go)
start_pass_upsample_asWas(d) ==
  [d EXCEPT !.next_row_out = max_v_samp_factor(d.picture)]
start_pass_upsample(d) ==
  [d EXCEPT !.next_row_out = max_v_samp_factor(d.picture), !.rows_to_go = d.picture.height]

\* jdpostct.c: strips of the whole image are kept for a second pass
strip_height(d) == max_v_samp_factor(d.picture)
strip_rows(p) == max_v_samp_factor(p) * jdiv_round_up(p.height, max_v_samp_factor(p))
NextStrip(d, num_rows) ==
  IF d.next_row + num_rows >= strip_height(d)
  THEN [d EXCEPT !.starting_row = @ + strip_height(d), !.next_row = 0]
  ELSE [d EXCEPT !.next_row = @ + num_rows]

InStrip(r, first) ==
  [d |-> NextStrip([r.d EXCEPT !.strips = [y \in DOMAIN @ |->
                      IF y - first \in 0..(Len(r.lines) - 1) THEN r.lines[y - first + 1]
                      ELSE @[y]]], Len(r.lines)),
   lines |-> r.lines]
post_process_prepass(d) ==
  InStrip(sep_upsample(d, strip_height(d) - d.next_row), d.starting_row + d.next_row)

post_process_2pass(d, avail) ==
  LET num_rows == Min({strip_height(d) - d.next_row, avail, d.picture.height - d.starting_row})
      first == d.starting_row + d.next_row
  IN [d |-> NextStrip(d, num_rows), lines |-> [i \in 1..num_rows |-> d.strips[first + i - 1]]]

post_process_data(d, avail) ==
  CASE d.post_process = "upsample" -> sep_upsample(d, avail)
    [] d.post_process = "1pass"    -> sep_upsample(d, Min({avail, strip_height(d)}))
    [] d.post_process = "prepass"  -> post_process_prepass(d)

start_pass_dpost(d, method) ==
  [d EXCEPT !.post_process = method, !.starting_row = 0, !.next_row = 0]

\* jdmainct.c without context rows, which no upsampler of this version asks for
\* (mutant: the buffer of the pass before is taken for this one's)
start_pass_main_asWas(d) == d
start_pass_main(d) == [d EXCEPT !.buffer_full = FALSE, !.rowgroup_ctr = 0]

\* the buffer is empty when its last row group has been given out
Emptied(r) ==
  IF r.d.rowgroup_ctr < DCTSIZE THEN r
  ELSE [r EXCEPT !.d.buffer_full = FALSE, !.d.rowgroup_ctr = 0]
WithBuffer(d, avail) ==
  IF d.ret = "SUSPENDED" THEN [d |-> d, lines |-> <<>>]
  ELSE Emptied(post_process_data([d EXCEPT !.buffer_full = TRUE], avail))
process_data_simple_main(d, avail) ==
  WithBuffer(IF d.buffer_full THEN [d EXCEPT !.ret = "ENOUGH"] ELSE Decompress(d), avail)

process_data(d, avail) ==
  IF d.post_process = "2pass" THEN post_process_2pass(d, avail)
  ELSE process_data_simple_main(d, avail)

-----------------------------------------------------------------------------
(* Passes.                                                                  *)

smoothing_ok(d) ==
  /\ d.picture.progressive
  /\ \A c \in Comps(d.picture) : d.quant_table[c] # 0 /\ d.coef_bits[c][0] >= 0
  /\ \E c \in Comps(d.picture) : d.coef_bits[c][1] # 0

\* jddctmgr.c start_pass: a multiplier table is built once, when the
\* component's quantization table is there
start_pass_idct(d) ==
  [d EXCEPT !.dct_table = [c \in DOMAIN @ |-> IF @[c] # 0 THEN @[c] ELSE d.quant_table[c]]]

start_output_pass(d) ==
  [d EXCEPT !.output_iMCU_row = 0,
            !.decompress_data = IF @ = "onepass" THEN @
                                ELSE IF d.mode.do_block_smoothing /\ smoothing_ok(d)
                                THEN "smooth" ELSE "data"]

prepare_for_output_pass(d) ==
  IF d.is_dummy_pass
  THEN start_pass_dpost([d EXCEPT !.is_dummy_pass = FALSE], "2pass")
  ELSE LET dummy == d.mode.quantize = "two" /\ ~d.colormap
           e == start_output_pass(start_pass_idct([d EXCEPT !.is_dummy_pass = dummy]))
           method == IF dummy THEN "prepass"
                     ELSE IF d.mode.quantize = "no" THEN "upsample" ELSE "1pass"
       IN IF d.mode.raw_data_out THEN e
          ELSE start_pass_main(start_pass_dpost(start_pass_upsample(
                 [e EXCEPT !.colormap = @ \/ d.mode.quantize = "one"]), method))

\* the end of a pass that has chosen the colours leaves a colour map
finish_output_pass(d) == [d EXCEPT !.colormap = @ \/ d.is_dummy_pass]

\* The loops of output_pass_setup: a dummy pass gives the application no lines,
\* each turn of its inner loop has at least one.
DummyLines(r) ==
  IF r.lines = <<>> THEN Suspended(r.d)
  ELSE [r.d EXCEPT !.output_scanline = @ + Len(r.lines), !.ret = "ENOUGH"]
DummyTurn(d) ==
  IF d.output_scanline >= d.picture.height \/ d.ret = "SUSPENDED" THEN d
  ELSE DummyLines(process_data(d, 0))
DummyDone(d) ==
  IF d.ret = "SUSPENDED" THEN d
  ELSE [prepare_for_output_pass(finish_output_pass(d)) EXCEPT !.output_scanline = 0]
DummyPass(d) ==
  LET turn[n \in 0..d.picture.height] == IF n = 0 THEN d ELSE DummyTurn(turn[n - 1])
  IN IF ~d.is_dummy_pass THEN d ELSE DummyDone(turn[d.picture.height])

SetUp(d) ==
  IF d.ret = "SUSPENDED" THEN d
  ELSE [d EXCEPT !.global_state = IF d.mode.raw_data_out THEN "RAW_OK" ELSE "SCANNING"]
output_pass_setup(d) ==
  SetUp(DummyPass(IF d.global_state = "PRESCAN" THEN [d EXCEPT !.ret = "ENOUGH"]
                  ELSE [prepare_for_output_pass(d) EXCEPT !.output_scanline = 0, !.ret = "ENOUGH",
                                                          !.global_state = "PRESCAN"]))

\* jinit_master_decompress: the modules' memory, none of it cleared but the
\* image's coefficients and the transforms' tables
jinit_master_decompress(d, mode) ==
  LET p == d.picture
      v(c) == p.comps[c].v
      padded(c) == v(c) * total_iMCU_rows(p)
      wide(c) == p.comps[c].h * jdiv_round_up(p.width, max_h_samp_factor(p) * DCTSIZE)
      line == [c \in Comps(p) |-> [line |-> 0, blocks |-> <<Garbage>>]]
  IN start_input_pass(
       [d EXCEPT
          !.mode = mode, !.is_dummy_pass = FALSE, !.colormap = FALSE,
          !.decompress_data =
             IF d.has_multiple_scans \/ mode.buffered_image THEN "data" ELSE "onepass",
          !.whole_image =
             IF d.has_multiple_scans \/ mode.buffered_image
             THEN [b \in UNION {{c} \X (0..(padded(c) - 1)) \X (0..(wide(c) - 1)) : c \in Comps(p)}
                     |-> {}]
             ELSE <<>>,
          !.coef_bits = [c \in Comps(p) |-> [k \in 0..1 |-> -1]],
          !.dct_table = [c \in Comps(p) |-> 0],
          !.buffer = [b \in Blocks(p) |-> Garbage],
          !.strips = IF mode.quantize # "two" THEN <<>>
                     ELSE [y \in 0..(strip_rows(p) - 1) |-> line]])

-----------------------------------------------------------------------------
(* The application's calls.                                                 *)

Nothing == [call |-> "none", lines |-> <<>>, first |-> 0, suspended |-> FALSE]
Return(call, d, lines) ==
  /\ cinfo' = [d EXCEPT !.ret = "ENOUGH"]
  /\ returned' = [call |-> call, lines |-> lines, first |-> cinfo.output_scanline,
                  suspended |-> d.ret = "SUSPENDED"]
  /\ UNCHANGED arrived

Buffered == cinfo.mode.buffered_image
In(states) == cinfo.global_state \in states

\* the source's next unit is there
Arrive ==
  /\ arrived < Len(Stream(cinfo))
  /\ arrived' = arrived + 1
  /\ returned' = Nothing
  /\ UNCHANGED cinfo

jpeg_read_header ==
  /\ In({"START", "INHEADER"})
  /\ LET d == IF In({"START"}) THEN reset_input_controller(cinfo) ELSE cinfo
         Header(e) ==
           [e EXCEPT !.global_state = IF e.ret = "REACHED_SOS" THEN "READY" ELSE "INHEADER"]
     IN Return("read_header", Header(consume_markers(d)), <<>>)

\* what is left to do once all scans are there
Preloaded(d) ==
  IF d.ret = "SUSPENDED" THEN d
  ELSE output_pass_setup([d EXCEPT !.output_scan_number = d.input_scan_number])
Started(d) ==
  IF d.mode.buffered_image THEN [d EXCEPT !.global_state = "BUFIMAGE"]
  ELSE LET e == [d EXCEPT !.global_state = "PRELOAD"]
       IN Preloaded(IF d.has_multiple_scans THEN Consume(e, "eoi") ELSE [e EXCEPT !.ret = "ENOUGH"])

jpeg_start_decompress ==
  \/ /\ In({"READY"})
     /\ \E mode \in Modes[cinfo.picture] :
          Return("start_decompress", Started(jinit_master_decompress(cinfo, mode)), <<>>)
  \/ /\ In({"PRELOAD"})
     /\ Return("start_decompress", Preloaded(Consume(cinfo, "eoi")), <<>>)
  \/ /\ In({"PRESCAN"}) /\ ~Buffered
     /\ Return("start_decompress", output_pass_setup(cinfo), <<>>)

jpeg_read_scanlines(max_lines) ==
  /\ In({"SCANNING"})
  /\ cinfo.output_scanline < cinfo.picture.height
  /\ LET Scanlines(r) ==
           Return("read_scanlines", [r.d EXCEPT !.output_scanline = @ + Len(r.lines)], r.lines)
     IN Scanlines(process_data(cinfo, max_lines))

\* the application hands in the same array again after a suspension
jpeg_read_raw_data ==
  /\ In({"RAW_OK"})
  /\ cinfo.output_scanline < cinfo.picture.height
  /\ LET p == cinfo.picture
         high == max_v_samp_factor(p) * DCTSIZE
         line(d, o) ==
           [c \in Comps(p) |-> Row(d, c, (o * rowgroup_height(p, d.mode, c)) \div max_v_samp_factor(p))]
         Raw(d) == IF d.ret = "SUSPENDED" THEN Return("read_raw_data", d, <<>>)
                   ELSE Return("read_raw_data", [d EXCEPT !.output_scanline = @ + high],
                               [o \in 1..high |-> line(d, o - 1)])
     IN Raw(Decompress(cinfo))

jpeg_consume_input ==
  /\ In({"PRELOAD", "PRESCAN", "SCANNING", "RAW_OK", "BUFIMAGE", "BUFPOST", "STOPPING"})
  /\ Return("consume_input", consume_input(cinfo), <<>>)
  /\ cinfo' # cinfo

\* a suspended call is repeated with the same scan; before another two-pass
\* quantization the application may have the colour map made again
jpeg_start_output ==
  /\ Buffered
  /\ \/ /\ In({"BUFIMAGE"})
        /\ \E scan \in 1..(Len(cinfo.picture.scans) + 1), again \in BOOLEAN :
             /\ scan <= cinfo.input_scan_number \/ cinfo.mode.ahead
             /\ again => cinfo.colormap /\ cinfo.mode.quantize = "two"
             /\ LET target == IF cinfo.eoi_reached THEN Min({scan, cinfo.input_scan_number})
                              ELSE scan
                IN Return("start_output",
                          output_pass_setup([cinfo EXCEPT !.output_scan_number = target,
                                                          !.colormap = @ /\ ~again]),
                          <<>>)
     \/ /\ In({"PRESCAN"})
        /\ Return("start_output", output_pass_setup(cinfo), <<>>)

jpeg_finish_output ==
  /\ Buffered
  /\ In({"SCANNING", "RAW_OK", "BUFPOST"})
  /\ LET d == IF In({"BUFPOST"}) THEN cinfo
              ELSE [finish_output_pass(cinfo) EXCEPT !.global_state = "BUFPOST"]
         Finished(e) ==
           [e EXCEPT !.global_state = IF e.ret = "SUSPENDED" THEN @ ELSE "BUFIMAGE"]
     IN Return("finish_output", Finished(Consume(d, "scan")), <<>>)

\* the picture's memory is freed
jpeg_abort(d) ==
  [d EXCEPT !.global_state = "START", !.quant_table = <<>>, !.coef_bits = <<>>,
            !.whole_image = <<>>, !.dct_table = <<>>, !.buffer = <<>>, !.color_buf = <<>>,
            !.strips = <<>>]

\* the object may then serve for another picture
jpeg_finish_decompress ==
  /\ \/ /\ In({"SCANNING", "RAW_OK"}) /\ ~Buffered
        /\ cinfo.output_scanline >= cinfo.picture.height
     \/ In({"BUFIMAGE", "STOPPING"})
  /\ LET d == IF In({"SCANNING", "RAW_OK"}) THEN finish_output_pass(cinfo) ELSE cinfo
         Finish(e) ==
           \/ /\ ~e.eoi_reached
              /\ Return("finish_decompress", e, <<>>)
           \/ /\ e.eoi_reached
              /\ \E p \in Pictures :
                   cinfo' = [jpeg_abort(e) EXCEPT !.picture = p, !.position = 0, !.ret = "ENOUGH"]
              /\ arrived' = 0
              /\ returned' = Nothing
     IN Finish(Consume([d EXCEPT !.global_state = "STOPPING"], "eoi"))

Init ==
  /\ \E p \in Pictures :
       cinfo = [picture |-> p, global_state |-> "START", position |-> 0, ret |-> "ENOUGH",
                unread_marker |-> "none", saw_SOI |-> FALSE, saw_SOF |-> FALSE,
                consume_input |-> "markers", inheaders |-> TRUE, eoi_reached |-> FALSE,
                has_multiple_scans |-> FALSE, quant_tbl |-> 0, quant_table |-> <<>>,
                comps_in_scan |-> <<>>, Ss |-> 0, coef_bits |-> <<>>,
                input_scan_number |-> 0, input_iMCU_row |-> 0, MCU_ctr |-> 0,
                MCU_vert_offset |-> 0, MCU_rows_per_iMCU_row |-> 0, whole_image |-> <<>>,
                mode |-> CHOOSE mode \in Modes[p] : TRUE, decompress_data |-> "onepass",
                output_scan_number |-> 0, output_iMCU_row |-> 0, output_scanline |-> 0,
                dct_table |-> <<>>, buffer |-> <<>>, buffer_full |-> FALSE, rowgroup_ctr |-> 0,
                next_row_out |-> 0, rows_to_go |-> 0, color_buf |-> <<>>,
                post_process |-> "upsample", strips |-> <<>>, starting_row |-> 0, next_row |-> 0,
                is_dummy_pass |-> FALSE, colormap |-> FALSE]
  /\ arrived = 0
  /\ returned = Nothing

Next ==
  \/ Arrive
  \/ jpeg_read_header
  \/ jpeg_start_decompress
  \/ \E max_lines \in cinfo.mode.max_lines : jpeg_read_scanlines(max_lines)
  \/ jpeg_read_raw_data
  \/ jpeg_consume_input
  \/ jpeg_start_output
  \/ jpeg_finish_output
  \/ jpeg_finish_decompress

Spec == Init /\ [][Next]_vars

-----------------------------------------------------------------------------
(* Properties.                                                              *)

\* The counters stay within the picture, and the upsampler has as many rows
\* to go as the application has not got (sep_upsample, jpeg_read_scanlines).
\* Only a second pass of quantization may go on to the end of the last strip:
\* post_process_2pass measures what is left from the start of the strip.
JpegTypeOK ==
  LET p == cinfo.picture
  IN /\ arrived \in 0..Len(Stream(cinfo)) /\ cinfo.position \in 0..arrived
     /\ ~In({"START"}) => cinfo.input_scan_number \in 0..Len(p.scans)
     /\ cinfo.consume_input = "data" =>
          /\ cinfo.input_iMCU_row \in 0..(total_iMCU_rows(p) - 1)
          /\ cinfo.MCU_ctr \in 0..(MCUs_per_row(p, cinfo.comps_in_scan) - 1)
          /\ cinfo.MCU_vert_offset \in 0..(cinfo.MCU_rows_per_iMCU_row - 1)
     /\ cinfo.rowgroup_ctr \in 0..(DCTSIZE - 1)
     /\ In({"SCANNING"}) =>
          /\ cinfo.output_iMCU_row \in 0..total_iMCU_rows(p)
          /\ cinfo.output_scanline \in
               0..(IF cinfo.post_process = "2pass" THEN strip_rows(p) ELSE p.height)
          /\ cinfo.post_process # "2pass" => cinfo.rows_to_go = p.height - cinfo.output_scanline

\* The lines a call gave back, each with its number in the picture and the
\* row of blocks of a component it shows
Lines == {i \in 1..Len(returned.lines) : returned.first + i - 1 < cinfo.picture.height}
BlockRow(p, c, y) == (y * p.comps[c].v) \div (max_v_samp_factor(p) * DCTSIZE)
LineOf(p, mode, c, y) ==
  LET S == DCT_v_scaled_size(p, mode, c)
  IN ((y * p.comps[c].v * S) \div (max_v_samp_factor(p) * DCTSIZE)) % S
ShownAt(i, c, x) == returned.lines[i][c].blocks[x]
ScansOf(p, c) == {s \in 1..Len(p.scans) : c \in Range(p.scans[s].comps)}

\* Every line the application gets is the next one of the picture, and shows
\* each component's samples of that line, made of the coefficients that the
\* coder took from that place: whatever scans, suspensions, buffers kept from
\* one call to the next, aborted passes and padding at the bottom lie between
\* (consume_data, decompress_onepass, process_data_simple_main,
\* sep_upsample, post_process_2pass).
LinesInPlace ==
  LET p == cinfo.picture
  IN \A i \in Lines, c \in Comps(p) :
       LET y == returned.first + i - 1
       IN /\ returned.lines[i][c].line = LineOf(p, cinfo.mode, c, y)
          /\ \A x \in 1..width_in_blocks(p, c) :
               \A from \in ShownAt(i, c, x).coefs :
                 from[2] = BlockRow(p, c, y) /\ from[3] = x - 1

\* A line shows all that the scans up to the one asked for say of it: output
\* makes input catch up first (decompress_data), and a component shown is
\* shown with the quantization table of its own first scan, even if the
\* table is redefined later (latch_quant_tables, start_pass of jddctmgr.c).
LinesComplete ==
  LET p == cinfo.picture
  IN \A i \in Lines, c \in Comps(p) :
       LET y == returned.first + i - 1
           asked == {s \in ScansOf(p, c) : s <= cinfo.output_scan_number}
       IN \A x \in 1..width_in_blocks(p, c) :
            /\ \A s \in asked : <<s, BlockRow(p, c, y), x - 1>> \in ShownAt(i, c, x).coefs
            /\ asked # {} => ShownAt(i, c, x).table = TableAt(p, Min(ScansOf(p, c)))

\* Smoothing looks at the DC values of the rows above and below: they are
\* those of the scans up to the one asked for (decompress_smooth_data reads
\* one row ahead in a DC scan).
NeighboursThere ==
  LET p == cinfo.picture
      dc(c) == {s \in ScansOf(p, c) : s <= cinfo.output_scan_number /\ p.scans[s].Ss = 0}
  IN \A i \in Lines, c \in Comps(p) :
       LET y == returned.first + i - 1
           row == BlockRow(p, c, y)
           above == Max({0, row - 1})
           below == Min({height_in_blocks(p, c) - 1, row + 1})
       IN \A x \in 1..width_in_blocks(p, c) :
            LET near == ShownAt(i, c, x).near
            IN near # <<>> => \A s \in dc(c) : /\ <<s, above, x - 1>> \in near[1]
                                               /\ <<s, below, x - 1>> \in near[2]

\* Input goes on with the very MCU that the counters say: a suspended call
\* neither repeats nor skips one, whichever call goes on (MCU_ctr,
\* MCU_vert_offset and MCU_rows_per_iMCU_row of jdcoefct.c).
NothingSkipped ==
  cinfo.consume_input = "data" =>
    LET p == cinfo.picture
        comps == cinfo.comps_in_scan
    IN Stream(cinfo)[cinfo.position + 1] =
         Unit("MCU", cinfo.input_scan_number,
              (cinfo.input_iMCU_row * (IF Alone(comps) THEN p.comps[comps[1]].v ELSE 1)
               + cinfo.MCU_vert_offset) * MCUs_per_row(p, comps) + cinfo.MCU_ctr)

\* how many units must be there for a row of iMCUs of a scan, and for the
\* marker after a scan
PlaceOf(p, u) == CHOOSE i \in 1..Len(Streams[p]) : Streams[p][i] = u
NeededForRow(p, s, row) ==
  LET comps == p.scans[s].comps
      rows == IF ~Alone(comps) THEN row + 1
              ELSE Min({(row + 1) * p.comps[comps[1]].v, height_in_blocks(p, comps[1])})
  IN PlaceOf(p, Unit("MCU", s, rows * MCUs_per_row(p, comps) - 1))
NeededForNext(p, s) ==
  IF s >= Len(p.scans) THEN Len(Streams[p]) ELSE PlaceOf(p, Unit("params", s + 1, 1))
\* decompress_smooth_data wants the row below in a DC scan.  It asks cinfo->Ss,
\* which is already that of the next scan where the next marker has been cut,
\* so that the last row of an AC scan may wait for that marker as well.
WantsRowBelow(p, s, row) ==
  \/ p.scans[s].Ss = 0
  \/ row = total_iMCU_rows(p) - 1 /\ s < Len(p.scans) /\ p.scans[s + 1].Ss = 0
NeededForOutput ==
  LET p == cinfo.picture
      s == cinfo.output_scan_number
      row == cinfo.output_iMCU_row
      ahead == IF cinfo.decompress_data = "smooth" /\ WantsRowBelow(p, s, row) THEN row + 1
               ELSE row
  IN IF s > Len(p.scans) THEN Len(Streams[p])
     ELSE IF ahead < total_iMCU_rows(p) THEN NeededForRow(p, s, ahead)
     ELSE NeededForNext(p, s)
Needed ==
  CASE returned.call = "read_header" -> NeededForNext(cinfo.picture, 0)
    [] returned.call = "finish_output" -> NeededForNext(cinfo.picture, cinfo.output_scan_number)
    [] returned.call = "finish_decompress" -> Len(Stream(cinfo))
    [] returned.call = "start_decompress" /\ In({"PRELOAD"}) -> Len(Stream(cinfo))
    [] OTHER -> NeededForOutput

\* A call is only suspended if data it needs have not come: what is there is
\* shown at once, and when everything is there no call is suspended.
SuspendedForWant ==
  returned.suspended /\ returned.call # "consume_input" => arrived < Needed

\* As start_pass of jddctmgr.c has it: a component without a table when a
\* pass starts has no coefficients to be shown in that pass.
NoTableNoData ==
  \A i \in Lines, c \in Comps(cinfo.picture) :
    \A x \in 1..width_in_blocks(cinfo.picture, c) :
      ShownAt(i, c, x).table = 0 => ShownAt(i, c, x).coefs = {}

=============================================================================
