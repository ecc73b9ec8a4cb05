--------------------------- MODULE HuffmanCoding ---------------------------
(***************************************************************************)
(* The Huffman coder (jchuff.c) and decoder (jdhuff.c) of libjpeg, with    *)
(* the table that fits a scan.                                             *)
(*                                                                         *)
(* A coder is a record: bits that do not fill a byte (put_buffer), bytes   *)
(* that went out (out), the last DC value of each component, the run of    *)
(* empty blocks not yet written (EOBRUN) and their correction bits (BE).   *)
(* While it gathers statistics it counts symbols and writes nothing.       *)
(* A decoder is a record of JpegScan with the bits it has read ahead.      *)
(* tables.dc and tables.ac are the tables of all components.               *)
(***************************************************************************)
EXTENDS JpegScan, HuffmanTables, TLC

CONSTANTS
  EOBRUN_LIMIT,   \* 0x7FFF in the code: the run that is written at once
  CORR_LIMIT      \* MAX_CORR_BITS - DCTSIZE2 + 1 in the code

ASSUME HuffmanAssumption == EOBRUN_LIMIT \in 1..32767 /\ CORR_LIMIT \in Nat

MIN_GET_BITS == 25
MAX_CLEN == 32

(***************************************************************************)
(* The table that fits a scan.                                             *)
(***************************************************************************)

\* jpeg_gen_optimal_table, code lengths: the two least frequent groups are
\* merged until one is left; of equals the one with the larger index counts
\* as less.
RECURSIVE CodeSizes(_, _, _)
CodeSizes(freq, members, size) ==
  LET least(S) == CHOOSE i \in S : \A j \in S : freq[i] < freq[j] \/ (freq[i] = freq[j] /\ i >= j)
      c1 == least(DOMAIN freq)
      c2 == least(DOMAIN freq \ {c1})
      merged == members[c1] \cup members[c2]
  IN IF Cardinality(DOMAIN freq) = 1 THEN size
     ELSE CodeSizes([i \in DOMAIN freq \ {c2} |-> IF i = c1 THEN freq[c1] + freq[c2] ELSE freq[i]],
                    [i \in DOMAIN freq \ {c2} |-> IF i = c1 THEN merged ELSE members[i]],
                    [i \in DOMAIN size |-> IF i \in merged THEN size[i] + 1 ELSE size[i]])

\* Codes longer than sixteen bits: a pair of them is taken from under its
\* prefix, which goes one up, and a shorter code is split into two.
RECURSIVE LimitedTo16(_, _)
LimitedTo16(bits, i) ==
  LET j == Max({l \in 1..(i - 2) : bits[l] > 0})
      paired == [bits EXCEPT ![i] = @ - 2, ![i - 1] = @ + 1]
  IN IF i = 16 THEN bits
     ELSE IF bits[i] = 0 THEN LimitedTo16(bits, i - 1)
     ELSE LimitedTo16([paired EXCEPT ![j + 1] = @ + 2, ![j] = @ - 1], i)

\* Symbols, the shortest codes first
ByLength(size, symbols) ==
  LET before(i, j) == size[i] < size[j] \/ (size[i] = size[j] /\ i < j)
      rank(i) == Cardinality({j \in symbols : before(j, i)})
  IN SubSeq([p \in 1..Cardinality(symbols) |-> CHOOSE i \in symbols : rank(i) = p - 1],
            1, Cardinality(symbols))

\* Mutant: the place of the reserved code is not given up.
jpeg_gen_optimal_table_full(counts) ==
  LET freq == counts @@ (256 :> 1)
      size == CodeSizes(freq, [i \in DOMAIN freq |-> {i}], [i \in DOMAIN freq |-> 0])
      lengths == [l \in 1..MAX_CLEN |-> Cardinality({i \in DOMAIN size : size[i] = l})]
      limited == SubSeq(LimitedTo16(SubSeq(lengths, 1, MAX_CLEN), MAX_CLEN), 1, 16)
  IN [bits |-> limited,
      huffval |-> ByLength(size, DOMAIN counts)]

\* Symbol 256 is counted once and its code, the last one, given up.
jpeg_gen_optimal_table(counts) ==
  LET freq == counts @@ (256 :> 1)
      size == CodeSizes(freq, [i \in DOMAIN freq |-> {i}], [i \in DOMAIN freq |-> 0])
      lengths == [l \in 1..MAX_CLEN |-> Cardinality({i \in DOMAIN size : size[i] = l})]
      limited == SubSeq(LimitedTo16(SubSeq(lengths, 1, MAX_CLEN), MAX_CLEN), 1, 16)
      longest == Max({l \in 1..16 : limited[l] > 0})
  IN [bits |-> [limited EXCEPT ![longest] = @ - 1],
      huffval |-> ByLength(size, DOMAIN counts)]

(***************************************************************************)
(* The coder.                                                              *)
(***************************************************************************)

\* start_pass_huff
HuffStart(components, interval, gather) ==
  [put_buffer |-> <<>>, out |-> <<>>, last_dc_val |-> [c \in components |-> 0],
   EOBRUN |-> 0, BE |-> <<>>, restarts_to_go |-> interval, next_restart_num |-> 0,
   gather |-> gather, counts |-> [dc |-> <<>>, ac |-> <<>>], missing |-> FALSE]

\* emit_bits: whole bytes go out.
emit_bits(e, bits) ==
  LET all == e.put_buffer \o bits
      whole == Len(all) \div 8
      byte(i) == Value(SubSeq(all, 8 * i - 7, 8 * i))
  IN IF e.gather THEN e
     ELSE [e EXCEPT !.put_buffer = SubSeq(all, 8 * whole + 1, Len(all)),
                    !.out = @ \o FlattenSeq([i \in 1..whole |-> Stuffed(byte(i))])]

\* flush_bits: fills up with ones.
flush_bits(e) == [emit_bits(e, LowBits(127, 7)) EXCEPT !.put_buffer = <<>>]

Counted(counts, symbol) ==
  IF symbol \in DOMAIN counts THEN [counts EXCEPT ![symbol] = @ + 1] ELSE counts @@ (symbol :> 1)

\* emit_dc_symbol and emit_ac_symbol; a symbol without a code is an error.
emit_symbol(e, tables, class, symbol) ==
  IF e.gather THEN [e EXCEPT !.counts[class] = Counted(@, symbol)]
  ELSE IF symbol \notin DOMAIN tables[class] THEN [e EXCEPT !.missing = TRUE]
  ELSE emit_bits(e, tables[class][symbol])

\* A number after the symbol that holds its length: negative ones less one.
Mantissa(x, nbits) == LowBits(IF x < 0 THEN x - 1 ELSE x, nbits)

emit_eobrun(e, tables) ==
  LET nbits == BitLength(e.EOBRUN) - 1
      run == emit_bits(emit_symbol(e, tables, "ac", nbits * 16), LowBits(e.EOBRUN, nbits))
  IN IF e.EOBRUN = 0 THEN e ELSE [emit_bits(run, e.BE) EXCEPT !.EOBRUN = 0, !.BE = <<>>]

emit_restart(e, tables) ==
  LET flushed == flush_bits(emit_eobrun(e, tables))
  IN [flushed EXCEPT !.out = IF e.gather THEN @ ELSE @ \o <<255, RST0 + e.next_restart_num>>,
                     !.last_dc_val = [c \in DOMAIN e.last_dc_val |-> 0],
                     !.EOBRUN = 0, !.BE = <<>>]

\* Runs of sixteen zeros are symbols of their own.
emit_run(e, tables, r) ==
  FoldLeft(LAMBDA f, i : emit_symbol(f, tables, "ac", 240), e, [i \in 1..(r \div 16) |-> i])

EncodeDC(e, tables, c, value) ==
  LET diff == value - e.last_dc_val[c]
      nbits == BitLength(Magnitude(diff))
      coded == emit_bits(emit_symbol(e, tables, "dc", nbits), Mantissa(diff, nbits))
  IN [coded EXCEPT !.last_dc_val[c] = value]

\* One coefficient after a run of r zeros
EncodeAC(e, tables, r, value) ==
  LET nbits == BitLength(Magnitude(value))
      coded == emit_symbol(emit_run(e, tables, r), tables, "ac", (r % 16) * 16 + nbits)
  IN emit_bits(coded, Mantissa(value, nbits))

\* The zeros before the i-th of the positions in use.
RunBefore(ks, i, Ss) == IF i = 1 THEN ks[1] - Ss ELSE ks[i] - ks[i - 1] - 1

EncodeBand(e, tables, block, n, s, ks) ==
  FoldLeft(LAMBDA f, i : EncodeAC(f, tables, RunBefore(ks, i, s.Ss), Divided(block[At(n, ks[i])], s.Al)),
           e, [i \in DOMAIN ks |-> i])

\* encode_one_block, and htest_one_block when it gathers
encode_one_block(e, tables, c, block, n) ==
  LET s == [Ss |-> 1, Se |-> lim_Se(n), Al |-> 0]
      ks == InUse(block, n, 1, lim_Se(n), 0)
      band == EncodeBand(EncodeDC(e, tables, c, block[0]), tables, block, n, s, ks)
  IN IF (IF ks = <<>> THEN 0 ELSE Last(ks)) < lim_Se(n) THEN emit_symbol(band, tables, "ac", 0) ELSE band

DC_first(e, tables, c, block, s) == EncodeDC(e, tables, c, block[0] \div 2^s.Al)

DC_refine(e, block, s) == emit_bits(e, LowBits(block[0] \div 2^s.Al, 1))

\* Mutant: the run of empty blocks grows without limit.
AC_first_unlimited(e, tables, block, n, s) ==
  LET ks == InUse(block, n, s.Ss, s.Se, s.Al)
      band == EncodeBand(IF ks = <<>> THEN e ELSE emit_eobrun(e, tables), tables, block, n, s, ks)
  IN IF ks # <<>> /\ Last(ks) = s.Se THEN band ELSE [band EXCEPT !.EOBRUN = @ + 1]

AC_first(e, tables, block, n, s) ==
  LET ks == InUse(block, n, s.Ss, s.Se, s.Al)
      band == EncodeBand(IF ks = <<>> THEN e ELSE emit_eobrun(e, tables), tables, block, n, s, ks)
      empty == [band EXCEPT !.EOBRUN = @ + 1]
  IN IF ks # <<>> /\ Last(ks) = s.Se THEN band
     ELSE IF empty.EOBRUN = EOBRUN_LIMIT THEN emit_eobrun(empty, tables) ELSE empty

\* The correction bits BR of coefficients that were not zero before are
\* written after the next symbol.
RECURSIVE RefineFrom(_, _, _, _, _, _, _, _)
RefineFrom(e, tables, block, n, s, k, r, BR) ==
  LET value == block[At(n, k)]
      bits == Magnitude(value) \div 2^s.Al
      EOB == Max({0} \cup {i \in s.Ss..s.Se : Magnitude(block[At(n, i)]) \div 2^s.Al = 1})
      rest == [e EXCEPT !.EOBRUN = @ + 1, !.BE = @ \o BR]
      zeros == emit_bits(emit_symbol(emit_eobrun(e, tables), tables, "ac", 240), BR)
      new == emit_symbol(emit_eobrun(e, tables), tables, "ac", r * 16 + 1)
      sign == IF value < 0 THEN 0 ELSE 1
  IN IF k > s.Se
     THEN IF r = 0 /\ BR = <<>> THEN e
          ELSE IF rest.EOBRUN = EOBRUN_LIMIT \/ Len(rest.BE) > CORR_LIMIT THEN emit_eobrun(rest, tables)
          ELSE rest
     ELSE IF bits = 0 THEN RefineFrom(e, tables, block, n, s, k + 1, r + 1, BR)
     ELSE IF r > 15 /\ k <= EOB THEN RefineFrom(zeros, tables, block, n, s, k, r - 16, <<>>)
     ELSE IF bits > 1 THEN RefineFrom(e, tables, block, n, s, k + 1, r, Append(BR, bits % 2))
     ELSE RefineFrom(emit_bits(new, <<sign>> \o BR), tables, block, n, s, k + 1, 0, <<>>)

AC_refine(e, tables, block, n, s) == RefineFrom(e, tables, block, n, s, s.Ss, 0, <<>>)

EncodeBlock(e, tables, c, block, n, s) ==
  CASE ~s.progressive -> encode_one_block(e, tables, c, block, n)
    [] s.progressive /\ s.Ss = 0 /\ s.Ah = 0 -> DC_first(e, tables, c, block, s)
    [] s.progressive /\ s.Ss = 0 /\ s.Ah > 0 -> DC_refine(e, block, s)
    [] s.progressive /\ s.Ss > 0 /\ s.Ah = 0 -> AC_first(e, tables, block, n, s)
    [] s.progressive /\ s.Ss > 0 /\ s.Ah > 0 -> AC_refine(e, tables, block, n, s)

\* encode_mcu of the scan: blocks is the MCU, a sequence like s.comps.
\* encode_mcu_gather counts no restart numbers, which no one needs.
HuffEncodeMcu(e, tables, blocks, n, s, interval) ==
  LET due == interval > 0 /\ e.restarts_to_go = 0
      restarted == IF due THEN emit_restart(e, tables) ELSE e
      counting == IF interval = 0 THEN restarted
                  ELSE [restarted EXCEPT !.restarts_to_go = (IF due THEN interval ELSE @) - 1,
                                         !.next_restart_num = IF due THEN (@ + 1) % 8 ELSE @]
  IN FoldLeft(LAMBDA f, i : EncodeBlock(f, tables, s.comps[i], blocks[i], n, s),
              counting, [i \in DOMAIN blocks |-> i])

\* finish_pass_huff, and what finish_pass_gather does before its tables
HuffFinish(e, tables) == flush_bits(emit_eobrun(e, tables))

(***************************************************************************)
(* The decoder.                                                            *)
(***************************************************************************)

\* start_pass_huff_decoder; get_sos has reset next_restart_num.
HuffDecoder(components, interval) ==
  [data |-> <<>>, pos |-> 0, unread_marker |-> 0, next_restart_num |-> 0, stop |-> FALSE,
   bits |-> <<>>, last_dc_val |-> [c \in components |-> 0], EOBRUN |-> 0,
   insufficient_data |-> FALSE, restarts_to_go |-> interval]

\* The zeros that follow the last byte before a marker.
Padding(d) == [i \in 1..(MIN_GET_BITS - Len(d.bits)) |-> 0]

\* Mutant: at a marker the decoder waits for the bits it lacks.
RECURSIVE jpeg_fill_bit_buffer_waits(_, _)
jpeg_fill_bit_buffer_waits(d, nbits) ==
  LET byte == d.data[d.pos + 1]
      others == {p \in (d.pos + 2)..Len(d.data) : d.data[p] # 255}
      read(value, pos) == [d EXCEPT !.bits = @ \o LowBits(value, 8), !.pos = pos]
  IN IF d.stop THEN d
     ELSE IF d.unread_marker # 0 THEN IF nbits <= Len(d.bits) THEN d ELSE Stopped(d)
     ELSE IF Len(d.bits) >= MIN_GET_BITS THEN d
     ELSE IF d.pos = Len(d.data) THEN Stopped(d)
     ELSE IF byte # 255 THEN jpeg_fill_bit_buffer_waits(read(byte, d.pos + 1), nbits)
     ELSE IF others = {} THEN Stopped(d)
     ELSE IF d.data[Min(others)] = 0 THEN jpeg_fill_bit_buffer_waits(read(255, Min(others)), nbits)
     ELSE jpeg_fill_bit_buffer_waits([d EXCEPT !.pos = Min(others), !.unread_marker = d.data[Min(others)]], nbits)

\* jpeg_fill_bit_buffer: bytes are read until there are MIN_GET_BITS bits.  At
\* a marker zeros stand in, if the bits there are do not do.
RECURSIVE jpeg_fill_bit_buffer(_, _)
jpeg_fill_bit_buffer(d, nbits) ==
  LET byte == d.data[d.pos + 1]
      others == {p \in (d.pos + 2)..Len(d.data) : d.data[p] # 255}
      read(value, pos) == [d EXCEPT !.bits = @ \o LowBits(value, 8), !.pos = pos]
  IN IF d.stop THEN d
     ELSE IF d.unread_marker # 0
     THEN IF nbits <= Len(d.bits) THEN d
          ELSE [d EXCEPT !.insufficient_data = TRUE, !.bits = @ \o Padding(d)]
     ELSE IF Len(d.bits) >= MIN_GET_BITS THEN d
     ELSE IF d.pos = Len(d.data) THEN Stopped(d)
     ELSE IF byte # 255 THEN jpeg_fill_bit_buffer(read(byte, d.pos + 1), nbits)
     ELSE IF others = {} THEN Stopped(d)
     ELSE IF d.data[Min(others)] = 0 THEN jpeg_fill_bit_buffer(read(255, Min(others)), nbits)
     ELSE jpeg_fill_bit_buffer([d EXCEPT !.pos = Min(others), !.unread_marker = d.data[Min(others)]], nbits)

CHECK_BIT_BUFFER(d, nbits) == IF Len(d.bits) < nbits THEN jpeg_fill_bit_buffer(d, nbits) ELSE d

DROP_BITS(d, n) == [d EXCEPT !.bits = SubSeq(@, n + 1, Len(@))]

FirstBits(d, n) == IF d.stop THEN Read(d, 0) ELSE Read(DROP_BITS(d, n), Value(SubSeq(d.bits, 1, n)))

GET_BITS(d, n) == FirstBits(CHECK_BIT_BUFFER(d, n), n)

HUFF_EXTEND(x, s) == IF s > 0 /\ x < 2^(s - 1) THEN x - 2^s + 1 ELSE x

\* jpeg_huff_decode, the code's first bits being read: bit by bit
RECURSIVE SlowDecode(_, _, _, _)
SlowDecode(d, tbl, code, l) ==
  LET next == GET_BITS(d, 1)
  IN IF d.stop THEN Read(d, 0)
     ELSE IF l > 16 THEN Read(d, 0)
     ELSE IF IsCode(tbl, code, l) THEN Read(d, SymbolOf(tbl, code, l))
     ELSE SlowDecode(next.d, tbl, 2 * code + next.value, l + 1)

\* Short codes are looked up once there are enough bits.
CodeIn(filled, tbl) ==
  LET enough == Len(filled.bits) >= HUFF_LOOKAHEAD
      look == Value(SubSeq(filled.bits, 1, HUFF_LOOKAHEAD))
      l0 == IF enough THEN HUFF_LOOKAHEAD + 1 ELSE 1
      first == GET_BITS(filled, l0)
  IN IF filled.stop THEN Read(filled, 0)
     ELSE IF enough /\ tbl.look_nbits[look] > 0
     THEN Read(DROP_BITS(filled, tbl.look_nbits[look]), tbl.look_sym[look])
     ELSE SlowDecode(first.d, tbl, first.value, l0)

HUFF_DECODE(d, tbl) ==
  CodeIn(IF Len(d.bits) < HUFF_LOOKAHEAD THEN jpeg_fill_bit_buffer(d, 0) ELSE d, tbl)

process_restart(d, interval) ==
  LET marked == read_restart_marker([d EXCEPT !.bits = <<>>])
  IN IF marked.stop THEN marked
     ELSE [marked EXCEPT !.last_dc_val = [c \in DOMAIN d.last_dc_val |-> 0],
                         !.EOBRUN = 0,
                         !.restarts_to_go = interval,
                         !.insufficient_data = IF marked.unread_marker = 0 THEN FALSE ELSE @]

\* A symbol and the number that follows it: [d, run, size, value]
NumberAfter(symbol) ==
  LET size == symbol.value % 16
      number == IF symbol.d.stop \/ size = 0 THEN Read(symbol.d, 0) ELSE GET_BITS(symbol.d, size)
  IN [d |-> number.d, run |-> symbol.value \div 16, size |-> size, value |-> HUFF_EXTEND(number.value, size)]

DecodeNumber(d, tbl) == NumberAfter(HUFF_DECODE(d, tbl))

Predicted(number, c, block, Al) ==
  LET value == number.value + number.d.last_dc_val[c]
  IN IF number.d.stop THEN Decoded(number.d, block)
     ELSE Decoded([number.d EXCEPT !.last_dc_val[c] = value], [block EXCEPT ![0] = value * 2^Al])

DecodeDC(d, tables, c, block, Al) == Predicted(DecodeNumber(d, tables.dc), c, block, Al)

\* The coefficients of decode_mcu and decode_mcu_sub: those from coef_limit on
\* are read and thrown away.
RECURSIVE DecodeFrom(_, _, _, _, _, _), DecodeAt(_, _, _, _, _, _)
DecodeFrom(d, tbl, block, n, k, coef_limit) ==
  IF k > lim_Se(n) THEN Decoded(d, block) ELSE DecodeAt(DecodeNumber(d, tbl), tbl, block, n, k, coef_limit)
DecodeAt(number, tbl, block, n, k, coef_limit) ==
  LET at == k + number.run
      stored == IF k < coef_limit THEN [block EXCEPT ![At(n, at)] = number.value] ELSE block
  IN IF number.d.stop THEN Decoded(number.d, block)
     ELSE IF number.size > 0 THEN DecodeFrom(number.d, tbl, stored, n, at + 1, coef_limit)
     ELSE IF number.run = 15 THEN DecodeFrom(number.d, tbl, block, n, k + 16, coef_limit)
     ELSE Decoded(number.d, block)

\* A component that is not needed has coef_limit 0 and keeps no DC either.
DecodeRest(dc, tables, n, coef_limit) ==
  IF dc.d.stop THEN dc ELSE DecodeFrom(dc.d, tables.ac, dc.block, n, 1, coef_limit)

DecodeSequential(d, tables, c, block, n, coef_limit) ==
  DecodeRest(IF coef_limit = 0 THEN Decoded(DecodeNumber(d, tables.dc).d, block)
             ELSE DecodeDC(d, tables, c, block, 0), tables, n, coef_limit)

\* The run of empty blocks a symbol starts, this one included
DecodeRun(d, r) ==
  LET extra == IF r = 0 THEN Read(d, 0) ELSE GET_BITS(d, r)
  IN Read(extra.d, 2^r + extra.value)

RECURSIVE FirstFrom(_, _, _, _, _, _), FirstAt(_, _, _, _, _, _)
FirstFrom(d, tbl, block, n, s, k) ==
  IF k > s.Se THEN Decoded(d, block) ELSE FirstAt(DecodeNumber(d, tbl), tbl, block, n, s, k)
FirstAt(number, tbl, block, n, s, k) ==
  LET at == k + number.run
      stored == [block EXCEPT ![At(n, at)] = number.value * 2^s.Al]
      run == DecodeRun(number.d, number.run)
  IN IF number.d.stop THEN Decoded(number.d, block)
     ELSE IF number.size > 0 THEN FirstFrom(number.d, tbl, stored, n, s, at + 1)
     ELSE IF number.run = 15 THEN FirstFrom(number.d, tbl, block, n, s, k + 16)
     ELSE IF run.d.stop THEN Decoded(run.d, block)
     ELSE Decoded([run.d EXCEPT !.EOBRUN = run.value - 1], block)

DecodeFirst(d, tbl, block, n, s) ==
  IF d.EOBRUN > 0 THEN Decoded([d EXCEPT !.EOBRUN = @ - 1], block)
  ELSE FirstFrom(d, tbl, block, n, s, s.Ss)

DecodeDCRefine(d, block, s) ==
  LET bit == GET_BITS(d, 1)
      set == (block[0] \div 2^s.Al) % 2 = 1
  IN IF bit.d.stop THEN Decoded(bit.d, block)
     ELSE Decoded(bit.d, IF bit.value = 1 /\ ~set THEN [block EXCEPT ![0] = @ + 2^s.Al] ELSE block)

\* Mutant: a correction is made again when the block is decoded again.
Corrected_again(value, bit, Al) ==
  IF bit = 1 THEN (IF value >= 0 THEN value + 2^Al ELSE value - 2^Al) ELSE value

\* A correction bit makes a coefficient larger, unless an attempt at this
\* block that was suspended has already done so.
Corrected(value, bit, Al) ==
  IF bit = 1 /\ (value \div 2^Al) % 2 = 0
  THEN (IF value >= 0 THEN value + 2^Al ELSE value - 2^Al)
  ELSE value

\* From k on: the correction bits of coefficients that are not zero, past r
\* coefficients that are.
RECURSIVE CorrectFrom(_, _, _, _, _, _)
CorrectFrom(d, block, n, s, k, r) ==
  LET value == block[At(n, k)]
      bit == GET_BITS(d, 1)
      result(dd, b, kk) == [d |-> dd, block |-> b, k |-> kk]
  IN IF k > s.Se THEN result(d, block, k)
     ELSE IF value = 0
     THEN IF r = 0 THEN result(d, block, k) ELSE CorrectFrom(d, block, n, s, k + 1, r - 1)
     ELSE IF bit.d.stop THEN result(bit.d, block, k)
     ELSE CorrectFrom(bit.d, [block EXCEPT ![At(n, k)] = Corrected(value, bit.value, s.Al)], n, s, k + 1, r)

\* fresh: the coefficients this attempt made other than zero.  When the attempt
\* is suspended they are zero again (undoit).
RECURSIVE RefineBlockFrom(_, _, _, _, _, _, _), RefineBlockAt(_, _, _, _, _, _, _)
RefineBlockFrom(d, tbl, block, n, s, k, fresh) ==
  IF k > s.Se THEN Decoded(d, block)
  ELSE RefineBlockAt(HUFF_DECODE(d, tbl), tbl, block, n, s, k, fresh)
RefineBlockAt(symbol, tbl, block, n, s, k, fresh) ==
  LET undone(b) == [p \in DOMAIN b |-> IF p \in fresh THEN 0 ELSE b[p]]
      r == symbol.value \div 16
      size == symbol.value % 16
      sign == GET_BITS(symbol.d, 1)
      run == DecodeRun(symbol.d, r)
      placed(c) == [c.block EXCEPT ![At(n, c.k)] = IF sign.value = 1 THEN 2^s.Al ELSE -(2^s.Al)]
      rest == CorrectFrom(run.d, block, n, s, k, DCTSIZE2)
      passed == CorrectFrom(IF size > 0 THEN sign.d ELSE symbol.d, block, n, s, k, r)
  IN IF symbol.d.stop THEN Decoded(symbol.d, undone(block))
     ELSE IF size = 0 /\ r # 15
     THEN IF run.d.stop THEN Decoded(run.d, undone(block))
          ELSE IF rest.d.stop THEN Decoded(rest.d, undone(rest.block))
          ELSE Decoded([rest.d EXCEPT !.EOBRUN = run.value - 1], rest.block)
     ELSE IF size > 0 /\ sign.d.stop THEN Decoded(sign.d, undone(block))
     ELSE IF passed.d.stop THEN Decoded(passed.d, undone(passed.block))
     ELSE IF size > 0
     THEN RefineBlockFrom(passed.d, tbl, placed(passed), n, s, passed.k + 1, fresh \cup {At(n, passed.k)})
     ELSE RefineBlockFrom(passed.d, tbl, passed.block, n, s, passed.k + 1, fresh)

DecodeRefine(d, tbl, block, n, s) ==
  LET rest == CorrectFrom(d, block, n, s, s.Ss, DCTSIZE2)
  IN IF d.EOBRUN = 0 THEN RefineBlockFrom(d, tbl, block, n, s, s.Ss, {})
     ELSE IF rest.d.stop THEN Decoded(rest.d, rest.block)
     ELSE Decoded([rest.d EXCEPT !.EOBRUN = @ - 1], rest.block)

DecodeBlock(d, tables, c, block, n, s, coef_limit) ==
  CASE ~s.progressive -> DecodeSequential(d, tables, c, block, n, coef_limit)
    [] s.progressive /\ s.Ss = 0 /\ s.Ah = 0 -> DecodeDC(d, tables, c, block, s.Al)
    [] s.progressive /\ s.Ss = 0 /\ s.Ah > 0 -> DecodeDCRefine(d, block, s)
    [] s.progressive /\ s.Ss > 0 /\ s.Ah = 0 -> DecodeFirst(d, tables.ac, block, n, s)
    [] s.progressive /\ s.Ss > 0 /\ s.Ah > 0 -> DecodeRefine(d, tables.ac, block, n, s)

\* decode_mcu of the scan.  A suspended attempt leaves the decoder as it was
\* and the blocks as far as they were written; once the data ran out before a
\* marker the blocks are left alone, but for refined DC values.
McuOrSuspended(m, d) ==
  IF m.d.stop THEN [d |-> d, blocks |-> m.blocks, done |-> FALSE]
  ELSE [d |-> [m.d EXCEPT !.restarts_to_go = @ - 1], blocks |-> m.blocks, done |-> TRUE]

HuffDecodeMcu(d, tables, blocks, n, s, interval, coef_limit) ==
  LET begun == IF interval > 0 /\ d.restarts_to_go = 0 THEN process_restart(d, interval) ELSE d
      skips(f) == f.insufficient_data /\ ~(s.progressive /\ s.Ss = 0 /\ s.Ah > 0)
      decoded(f) ==
        FoldLeft(LAMBDA m, i :
                   IF m.d.stop THEN m
                   ELSE Placed(m, i, DecodeBlock(m.d, tables, s.comps[i], blocks[i], n, s, coef_limit[s.comps[i]])),
                 [d |-> f, blocks |-> blocks], IF skips(f) THEN <<>> ELSE [i \in DOMAIN blocks |-> i])
  IN McuOrSuspended(decoded(begun), d)

=============================================================================
