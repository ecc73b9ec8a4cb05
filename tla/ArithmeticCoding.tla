-------------------------- MODULE ArithmeticCoding --------------------------
(***************************************************************************)
(* The arithmetic coder (jcarith.c) and decoder (jdarith.c) of libjpeg.    *)
(*                                                                         *)
(* A block becomes binary decisions, each in the context of a bin whose    *)
(* state estimates the decision's probability; coder and decoder must make *)
(* the same decisions in the same bins, or all that follows is lost.  A    *)
(* bin is named by its class and number: <<"dc", 0..63>>, <<"ac", 0..255>> *)
(* or the fixed one.  All components use the same statistics.              *)
(* A coder is a record of the registers C, A and CT, of the bytes held     *)
(* back for a carry (buffer, sc of FF, zc of 00) and of the statistics; a  *)
(* decoder is a record of JpegScan with its registers and statistics.      *)
(***************************************************************************)
EXTENDS JpegScan

arith_dc_L == 0
arith_dc_U == 1
arith_ac_K == 5

fixed_bin == <<"fixed", 0>>

\* jpeg_aritab: Qe, the next state after the less probable decision, after the
\* more probable one, and whether the sense switches.
jpeg_aritab ==
  <<<<23069, 1, 1, 1>>, <<9606, 14, 2, 0>>, <<4372, 16, 3, 0>>, <<2059, 18, 4, 0>>,
    <<984, 20, 5, 0>>, <<474, 23, 6, 0>>, <<229, 25, 7, 0>>, <<111, 28, 8, 0>>, <<54, 30, 9, 0>>,
    <<26, 33, 10, 0>>, <<13, 35, 11, 0>>, <<6, 9, 12, 0>>, <<3, 10, 13, 0>>, <<1, 12, 13, 0>>,
    <<23167, 15, 15, 1>>, <<16165, 36, 16, 0>>, <<11506, 38, 17, 0>>, <<8316, 39, 18, 0>>,
    <<6073, 40, 19, 0>>, <<4482, 42, 20, 0>>, <<3311, 43, 21, 0>>, <<2465, 45, 22, 0>>,
    <<1839, 46, 23, 0>>, <<1372, 48, 24, 0>>, <<1030, 49, 25, 0>>, <<771, 51, 26, 0>>,
    <<576, 52, 27, 0>>, <<433, 54, 28, 0>>, <<324, 56, 29, 0>>, <<245, 57, 30, 0>>,
    <<183, 59, 31, 0>>, <<138, 60, 32, 0>>, <<104, 62, 33, 0>>, <<78, 63, 34, 0>>,
    <<59, 32, 35, 0>>, <<44, 33, 9, 0>>, <<23265, 37, 37, 1>>, <<18508, 64, 38, 0>>,
    <<14861, 65, 39, 0>>, <<12017, 67, 40, 0>>, <<9759, 68, 41, 0>>, <<7987, 69, 42, 0>>,
    <<6568, 70, 43, 0>>, <<5400, 72, 44, 0>>, <<4471, 73, 45, 0>>, <<3700, 74, 46, 0>>,
    <<3067, 75, 47, 0>>, <<2552, 77, 48, 0>>, <<2145, 78, 49, 0>>, <<1798, 79, 50, 0>>,
    <<1485, 48, 51, 0>>, <<1246, 50, 52, 0>>, <<1039, 50, 53, 0>>, <<867, 51, 54, 0>>,
    <<724, 52, 55, 0>>, <<604, 53, 56, 0>>, <<504, 54, 57, 0>>, <<420, 55, 58, 0>>,
    <<352, 56, 59, 0>>, <<293, 57, 60, 0>>, <<246, 58, 61, 0>>, <<203, 59, 62, 0>>,
    <<171, 61, 63, 0>>, <<143, 61, 32, 0>>, <<23314, 65, 65, 1>>, <<19716, 80, 66, 0>>,
    <<16684, 81, 67, 0>>, <<14296, 82, 68, 0>>, <<12264, 83, 69, 0>>, <<10556, 84, 70, 0>>,
    <<9081, 86, 71, 0>>, <<7903, 87, 72, 0>>, <<6825, 87, 73, 0>>, <<5966, 72, 74, 0>>,
    <<5156, 72, 75, 0>>, <<4508, 74, 76, 0>>, <<3947, 74, 77, 0>>, <<3409, 75, 78, 0>>,
    <<2998, 77, 79, 0>>, <<2624, 77, 48, 0>>, <<22578, 80, 81, 1>>, <<19740, 88, 82, 0>>,
    <<17294, 89, 83, 0>>, <<15325, 90, 84, 0>>, <<13550, 91, 85, 0>>, <<11950, 92, 86, 0>>,
    <<10650, 93, 87, 0>>, <<9494, 86, 71, 0>>, <<21872, 88, 89, 1>>, <<19625, 95, 90, 0>>,
    <<17625, 96, 91, 0>>, <<15906, 97, 92, 0>>, <<14372, 99, 93, 0>>, <<12980, 99, 94, 0>>,
    <<11799, 93, 86, 0>>, <<22184, 95, 96, 1>>, <<20294, 101, 97, 0>>, <<18405, 102, 98, 0>>,
    <<16847, 103, 99, 0>>, <<15421, 104, 100, 0>>, <<14174, 99, 93, 0>>, <<21041, 105, 102, 0>>,
    <<19471, 106, 103, 0>>, <<17977, 107, 104, 0>>, <<16734, 103, 99, 0>>, <<22055, 105, 106, 1>>,
    <<20711, 108, 107, 0>>, <<19333, 109, 103, 0>>, <<21911, 110, 109, 0>>, <<20559, 111, 107, 0>>,
    <<23056, 110, 111, 1>>, <<21794, 112, 109, 0>>, <<23019, 112, 111, 1>>, <<23069, 113, 113, 0>>>>

\* A bin holds a state 0..113 and, in its high bit, the more probable decision.
Estimate(bin) == jpeg_aritab[(bin % 128) + 1]
Sense(bin) == bin \div 128

\* The bin after a decision: (sv & 0x80) ^ nl, the switch being in nl's high bit.
AfterLess(bin) ==
  LET q == Estimate(bin)
  IN q[2] + 128 * (IF q[4] = 1 THEN 1 - Sense(bin) ELSE Sense(bin))
AfterMore(bin) == Estimate(bin)[3] + 128 * Sense(bin)

\* MEMZERO of the statistics; the fixed bin keeps state 113.
NoStats == [dc |-> [i \in 0..63 |-> 0], ac |-> [i \in 0..255 |-> 0], fixed |-> [i \in {0} |-> 113]]

\* The bins a restart clears: those of the classes that the scan codes.
ClearedStats(st, s) ==
  [st EXCEPT !.dc = IF s.Ss = 0 /\ s.Ah = 0 THEN NoStats.dc ELSE @,
             !.ac = IF s.Se > 0 THEN NoStats.ac ELSE @]

(***************************************************************************)
(* The coder.                                                              *)
(***************************************************************************)

\* start_pass
ArithStart(components, interval) ==
  [c |-> 0, a |-> 65536, sc |-> 0, zc |-> 0, ct |-> 11, buffer |-> -1, out |-> <<>>,
   last_dc_val |-> [i \in components |-> 0], dc_context |-> [i \in components |-> 0],
   stats |-> NoStats, restarts_to_go |-> interval, next_restart_num |-> 0]

\* emit_byte, after the zeros that were held back
emit_byte(e, bytes) ==
  [e EXCEPT !.out = @ \o [i \in 1..e.zc |-> 0] \o bytes, !.zc = 0]

\* The buffered byte goes out with the carry, and the FFs behind it turn to 00.
WithCarry(e) ==
  LET written == IF e.buffer >= 0 THEN emit_byte(e, Stuffed(e.buffer + 1)) ELSE e
  IN [written EXCEPT !.zc = @ + e.sc, !.sc = 0]

\* The buffered byte and the FFs go out; a zero is held back.
WithoutCarry(e) ==
  LET first == IF e.buffer = 0 THEN [e EXCEPT !.zc = @ + 1]
               ELSE IF e.buffer > 0 THEN emit_byte(e, <<e.buffer>>) ELSE e
  IN IF e.sc = 0 THEN first
     ELSE [emit_byte(first, FlattenSeq([i \in 1..e.sc |-> <<255, 0>>])) EXCEPT !.sc = 0]

\* A byte has come out of C.
ByteOut(e) ==
  LET byte == e.c \div 2^19
      kept == IF byte > 255 THEN [WithCarry(e) EXCEPT !.buffer = byte % 256]
              ELSE IF byte = 255 THEN [e EXCEPT !.sc = @ + 1]
              ELSE [WithoutCarry(e) EXCEPT !.buffer = byte]
  IN [kept EXCEPT !.c = @ % 2^19, !.ct = 8]

RECURSIVE Renormalized(_)
Renormalized(e) ==
  LET shifted == [e EXCEPT !.a = 2 * @, !.c = 2 * @, !.ct = @ - 1]
      out == IF shifted.ct = 0 THEN ByteOut(shifted) ELSE shifted
  IN IF out.a < 32768 THEN Renormalized(out) ELSE out

\* arith_encode: decision is a bin and a value.  The smaller part of the interval
\* stands for the less probable value, unless they change places.
arith_encode(e, decision) ==
  LET bin == decision[1]
      sv == e.stats[bin[1]][bin[2]]
      qe == Estimate(sv)[1]
      a == e.a - qe
      more == decision[2] = Sense(sv)
      upper == IF more THEN a < qe ELSE a >= qe
      coded == [e EXCEPT !.a = IF upper THEN qe ELSE a,
                         !.c = IF upper THEN @ + a ELSE @,
                         !.stats[bin[1]][bin[2]] = IF more THEN AfterMore(sv) ELSE AfterLess(sv)]
  IN IF more /\ a >= 32768 THEN [e EXCEPT !.a = a] ELSE Renormalized(coded)

\* finish_pass: as few bytes as will do.
finish_pass(e) ==
  LET top == ((e.a - 1 + e.c) \div 65536) * 65536
      c == (IF top < e.c THEN top + 32768 ELSE top) * 2^e.ct
      held == IF c \div 2^27 > 0 THEN WithCarry(e) ELSE WithoutCarry(e)
      first == (c \div 2^19) % 256
      second == (c \div 2^11) % 256
  IN IF (c \div 2^11) % 2^16 = 0 THEN held
     ELSE IF second = 0 THEN emit_byte(held, Stuffed(first))
     ELSE emit_byte(held, Stuffed(first) \o Stuffed(second))

arith_emit_restart(e, s) ==
  LET done == finish_pass(e)
      begun == ArithStart(DOMAIN e.last_dc_val, 0)
      dc == s.Ss = 0 /\ s.Ah = 0
  IN [begun EXCEPT !.out = done.out \o <<255, RST0 + e.next_restart_num>>,
                   !.stats = ClearedStats(e.stats, s),
                   !.last_dc_val = IF dc THEN @ ELSE e.last_dc_val,
                   !.dc_context = IF dc THEN @ ELSE e.dc_context,
                   !.next_restart_num = e.next_restart_num]

(***************************************************************************)
(* Decisions.                                                              *)
(***************************************************************************)

\* Floor of the logarithm of w > 0
Log(w) == BitLength(w) - 1

\* The magnitude category of w = |v| - 1, then its lower bits: base is the bin
\* where the categories from `from` on go, bits follow fourteen bins later.
Category(class, base, w, from) ==
  LET top == base + Log(w) - from
      ones == [i \in 1..(Log(w) - from) |-> <<<<class, base + i - 1>>, 1>>]
      bits == [i \in 1..Log(w) |-> <<<<class, top + 14>>, (w \div 2^(Log(w) - i)) % 2>>]
  IN ones \o <<<<<<class, top>>, 0>>>> \o bits

\* A DC difference in its context: zero or not, sign, magnitude
DCDecisions(v, context) ==
  LET w == Magnitude(v) - 1
      sign == IF v < 0 THEN 1 ELSE 0
      st == context + 2 + sign
  IN IF v = 0 THEN <<<<<<"dc", context>>, 0>>>>
     ELSE <<<<<<"dc", context>>, 1>>, <<<<"dc", context + 1>>, sign>>>>
          \o (IF w = 0 THEN <<<<<<"dc", st>>, 0>>>>
              ELSE <<<<<<"dc", st>>, 1>>>> \o Category("dc", 20, w, 0))

\* The context of the next difference: the size and sign of this one
Context(v) ==
  LET m == IF Magnitude(v) <= 1 THEN 0 ELSE 2^Log(Magnitude(v) - 1)
      sign == IF v < 0 THEN 1 ELSE 0
  IN IF v = 0 \/ m < 2^arith_dc_L \div 2 THEN 0
     ELSE IF m > 2^arith_dc_U \div 2 THEN 12 + 4 * sign
     ELSE 4 + 4 * sign

\* The magnitude of coefficient k; the first two categories share a bin.
ACMagnitude(v, k) ==
  LET w == Magnitude(v) - 1
      st == <<"ac", 3 * (k - 1) + 2>>
  IN IF w = 0 THEN <<<<st, 0>>>>
     ELSE IF w = 1 THEN <<<<st, 1>>, <<st, 0>>>>
     ELSE <<<<st, 1>>, <<st, 1>>>> \o Category("ac", IF k <= arith_ac_K THEN 189 ELSE 217, w, 1)

EndBin(k) == <<"ac", 3 * (k - 1)>>
ZeroBin(k) == <<"ac", 3 * (k - 1) + 1>>
CorrectionBin(k) == <<"ac", 3 * (k - 1) + 2>>

SignDecision(v) == <<fixed_bin, IF v < 0 THEN 1 ELSE 0>>

\* A band: after each coefficient whether it was the last one, then the zeros
\* up to the next, its sign and its magnitude.  ks: the positions in use.
BandDecisions(values, ks, Ss, Se) ==
  LET start(i) == IF i = 1 THEN Ss ELSE ks[i - 1] + 1
      coefficient(i) ==
        <<<<EndBin(start(i)), 0>>>>
        \o [j \in 1..(ks[i] - start(i)) |-> <<ZeroBin(start(i) + j - 1), 0>>]
        \o <<<<ZeroBin(ks[i]), 1>>, SignDecision(values[ks[i]])>>
        \o ACMagnitude(values[ks[i]], ks[i])
      last == IF ks = <<>> THEN Ss - 1 ELSE Last(ks)
  IN FlattenSeq([i \in DOMAIN ks |-> coefficient(i)])
     \o (IF last < Se THEN <<<<EndBin(last + 1), 1>>>> ELSE <<>>)

\* A refinement: up to the last coefficient that was in use before (kex) there
\* is no question whether the block ends.
RefineDecisions(block, n, s) ==
  LET value(k) == Divided(block[At(n, k)], s.Al)
      ke == Max({0} \cup {k \in 1..s.Se : value(k) # 0})
      kex == Max({0} \cup {k \in 1..ke : Divided(value(k), s.Ah - s.Al) # 0})
      afresh(k) == k = s.Ss \/ value(k - 1) # 0
      ends(k) == IF k > kex /\ afresh(k) THEN <<<<EndBin(k), 0>>>> ELSE <<>>
      decision(k) ==
        IF value(k) = 0 THEN <<<<ZeroBin(k), 0>>>>
        ELSE IF Magnitude(value(k)) > 1 THEN <<<<CorrectionBin(k), Magnitude(value(k)) % 2>>>>
        ELSE <<<<ZeroBin(k), 1>>, SignDecision(value(k))>>
      end == Max({ke + 1, s.Ss})
  IN FlattenSeq([i \in 1..(ke - s.Ss + 1) |-> ends(s.Ss + i - 1) \o decision(s.Ss + i - 1)])
     \o (IF end <= s.Se THEN <<<<EndBin(end), 1>>>> ELSE <<>>)

\* One decision after the other (A is a number: the test makes TLC evaluate e).
RECURSIVE EncodeDecisions(_, _)
EncodeDecisions(e, decisions) ==
  IF e.a = 0 \/ decisions = <<>> THEN e
  ELSE EncodeDecisions(arith_encode(e, Head(decisions)), Tail(decisions))

ArithEncodeDC(e, c, value) ==
  LET v == value - e.last_dc_val[c]
  IN [EncodeDecisions(e, DCDecisions(v, e.dc_context[c]))
        EXCEPT !.last_dc_val[c] = value, !.dc_context[c] = Context(v)]

ArithEncodeBand(e, block, n, s) ==
  LET values == [k \in s.Ss..s.Se |-> Divided(block[At(n, k)], s.Al)]
  IN EncodeDecisions(e, BandDecisions(values, InUse(block, n, s.Ss, s.Se, s.Al), s.Ss, s.Se))

ArithEncodeBlock(e, c, block, n, s) ==
  CASE ~s.progressive ->
         LET dc == ArithEncodeDC(e, c, block[0])
         IN IF lim_Se(n) = 0 THEN dc
            ELSE ArithEncodeBand(dc, block, n, [Ss |-> 1, Se |-> lim_Se(n), Al |-> 0])
    [] s.progressive /\ s.Ss = 0 /\ s.Ah = 0 -> ArithEncodeDC(e, c, block[0] \div 2^s.Al)
    [] s.progressive /\ s.Ss = 0 /\ s.Ah > 0 ->
         arith_encode(e, <<fixed_bin, (block[0] \div 2^s.Al) % 2>>)
    [] s.progressive /\ s.Ss > 0 /\ s.Ah = 0 -> ArithEncodeBand(e, block, n, s)
    [] s.progressive /\ s.Ss > 0 /\ s.Ah > 0 -> EncodeDecisions(e, RefineDecisions(block, n, s))

\* encode_mcu of the scan
ArithEncodeMcu(e, blocks, n, s, interval) ==
  LET due == interval > 0 /\ e.restarts_to_go = 0
      begun == IF due THEN [arith_emit_restart(e, s) EXCEPT !.restarts_to_go = interval,
                                                           !.next_restart_num = (@ + 1) % 8]
               ELSE e
  IN FoldLeft(LAMBDA f, i : ArithEncodeBlock(f, s.comps[i], blocks[i], n, s),
              [begun EXCEPT !.restarts_to_go = @ - (IF interval > 0 THEN 1 ELSE 0)],
              [i \in DOMAIN blocks |-> i])

(***************************************************************************)
(* The decoder.                                                            *)
(***************************************************************************)

\* start_pass; get_sos has reset next_restart_num.
ArithDecoder(components, interval) ==
  [data |-> <<>>, pos |-> 0, unread_marker |-> 0, next_restart_num |-> 0, stop |-> FALSE,
   c |-> 0, a |-> 0, ct |-> -16, last_dc_val |-> [i \in components |-> 0],
   dc_context |-> [i \in components |-> 0], stats |-> NoStats, restarts_to_go |-> interval]

\* A byte for C: a marker and all that follows it read as zeros.
NextByte(d) ==
  LET byte == d.data[d.pos + 1]
      after == Min({p \in (d.pos + 2)..Len(d.data) : d.data[p] # 255})
  IN IF d.unread_marker # 0 THEN [d EXCEPT !.c = @ * 256]
     ELSE IF byte # 255 THEN [d EXCEPT !.c = @ * 256 + byte, !.pos = @ + 1]
     ELSE IF d.data[after] = 0 THEN [d EXCEPT !.c = @ * 256 + 255, !.pos = after]
     ELSE [d EXCEPT !.c = @ * 256, !.pos = after, !.unread_marker = d.data[after]]

\* The first two bytes of a segment come in while CT is negative.
WithByte(d) ==
  IF d.ct + 7 >= 0 THEN [d EXCEPT !.ct = @ + 7]
  ELSE IF d.ct + 8 = 0 THEN [d EXCEPT !.ct = 0, !.a = 32768]
  ELSE [d EXCEPT !.ct = @ + 8]

RECURSIVE Refilled(_)
Refilled(d) ==
  LET taken == IF d.ct > 0 THEN [d EXCEPT !.ct = @ - 1] ELSE WithByte(NextByte(d))
  IN IF d.a >= 32768 THEN d ELSE Refilled([taken EXCEPT !.a = 2 * @])

\* A decision in a bin of state sv: qe is the part of the less probable one.
Decided(f, bin, sv, qe) ==
  LET a == f.a - qe
      upper == f.c >= a * 2^f.ct
      less == IF upper THEN a >= qe ELSE a < qe
      narrowed == [f EXCEPT !.a = IF upper THEN qe ELSE a,
                            !.c = IF upper THEN @ - a * 2^f.ct ELSE @]
  IN IF ~upper /\ a >= 32768 THEN Read([f EXCEPT !.a = a], Sense(sv))
     ELSE IF less THEN Read([narrowed EXCEPT !.stats[bin[1]][bin[2]] = AfterLess(sv)], 1 - Sense(sv))
     ELSE Read([narrowed EXCEPT !.stats[bin[1]][bin[2]] = AfterMore(sv)], Sense(sv))

DecisionIn(f, bin) ==
  LET sv == f.stats[bin[1]][bin[2]]
  IN Decided(f, bin, sv, Estimate(sv)[1])

arith_decode(d, bin) == DecisionIn(Refilled(d), bin)

\* Decodes v of category base + ...: doubles m at successive bins while the
\* decisions are 1, then reads the bits below it.  A category of sixteen bits
\* is an error: ct = -1 turns the decoder off until the next restart.
RECURSIVE DecodeCategory(_, _, _, _)
DecodeCategory(d, class, st, m) ==
  LET more == arith_decode(d, <<class, st>>)
      bit(r, j) == LET b == arith_decode(r.d, <<class, st + 14>>)
                   IN Read(b.d, r.value + b.value * 2^(Log(m) - j))
  IN IF more.value = 1
     THEN IF 2 * m = 32768 THEN Read([more.d EXCEPT !.ct = -1], 0)
          ELSE DecodeCategory(more.d, class, st + 1, 2 * m)
     ELSE FoldLeft(bit, Read(more.d, m), [j \in 1..Log(m) |-> j])

Off(d) == d.ct = -1

\* w is a magnitude less one.
Signed(w, sign) == Read(w.d, IF sign = 1 THEN -(w.value + 1) ELSE w.value + 1)

\* A difference that is not zero, its sign being read
DCDifference(sign, context) ==
  LET first == arith_decode(sign.d, <<"dc", context + 2 + sign.value>>)
      w == IF first.value = 0 THEN Read(first.d, 0) ELSE DecodeCategory(first.d, "dc", 20, 1)
  IN Signed(w, sign.value)

WithDifference(v, c, block, Al) ==
  LET last == v.d.last_dc_val[c] + v.value
  IN IF Off(v.d) THEN Decoded(v.d, block)
     ELSE Decoded([v.d EXCEPT !.last_dc_val[c] = last, !.dc_context[c] = Context(v.value)],
                  [block EXCEPT ![0] = last * 2^Al])

ArithDecodeDC(d, c, block, Al) ==
  LET context == d.dc_context[c]
      zero == arith_decode(d, <<"dc", context>>)
  IN WithDifference(IF zero.value = 0 THEN zero
                    ELSE DCDifference(arith_decode(zero.d, <<"dc", context + 1>>), context), c, block, Al)

\* The magnitude of coefficient k, less one; its first decision is read.
ArithDecodeMagnitude(first, k) ==
  LET second == arith_decode(first.d, CorrectionBin(k))
  IN IF first.value = 0 THEN Read(first.d, 0)
     ELSE IF second.value = 0 THEN Read(second.d, 1)
     ELSE DecodeCategory(second.d, "ac", IF k <= arith_ac_K THEN 189 ELSE 217, 2)

\* Sign and magnitude of coefficient k
ArithDecodeAC(d, k) ==
  LET sign == arith_decode(d, fixed_bin)
  IN Signed(ArithDecodeMagnitude(arith_decode(sign.d, CorrectionBin(k)), k), sign.value)

\* The next position in use from k on, Se + 1 if the code is bad
RECURSIVE NextInUse(_, _, _)
NextInUse(d, k, Se) ==
  LET used == arith_decode(d, ZeroBin(k))
  IN IF k > Se THEN Read([d EXCEPT !.ct = -1], k)
     ELSE IF used.value = 1 THEN Read(used.d, k)
     ELSE NextInUse(used.d, k + 1, Se)

RECURSIVE ArithDecodeBand(_, _, _, _, _, _), BandInUse(_, _, _, _, _), BandAfter(_, _, _, _, _, _)
ArithDecodeBand(d, block, n, k, Se, Al) ==
  LET end == arith_decode(d, EndBin(k))
  IN IF k > Se THEN Decoded(d, block)
     ELSE IF end.value = 1 THEN Decoded(end.d, block)
     ELSE BandInUse(NextInUse(end.d, k, Se), block, n, Se, Al)

\* The band from its next position in use on, and from the one after it
BandInUse(next, block, n, Se, Al) ==
  IF Off(next.d) THEN Decoded(next.d, block)
  ELSE BandAfter(ArithDecodeAC(next.d, next.value), block, n, next.value, Se, Al)
BandAfter(v, block, n, k, Se, Al) ==
  IF Off(v.d) THEN Decoded(v.d, block)
  ELSE ArithDecodeBand(v.d, [block EXCEPT ![At(n, k)] = v.value * 2^Al], n, k + 1, Se, Al)

\* A coefficient in use is corrected; a zero one may come into use.
RECURSIVE ArithRefineFrom(_, _, _, _, _, _, _)
ArithRefineFrom(d, block, n, s, k, kex, afresh) ==
  LET value == block[At(n, k)]
      end == IF afresh /\ k > kex THEN arith_decode(d, EndBin(k)) ELSE Read(d, 0)
      correction == arith_decode(end.d, CorrectionBin(k))
      larger == IF value < 0 THEN value - 2^s.Al ELSE value + 2^s.Al
      corrected == IF correction.value = 1 THEN [block EXCEPT ![At(n, k)] = larger] ELSE block
      used == arith_decode(end.d, ZeroBin(k))
      sign == arith_decode(used.d, fixed_bin)
      new == [block EXCEPT ![At(n, k)] = IF sign.value = 1 THEN -(2^s.Al) ELSE 2^s.Al]
  IN IF k > s.Se THEN Decoded(IF afresh THEN d ELSE [d EXCEPT !.ct = -1], block)
     ELSE IF end.value = 1 THEN Decoded(end.d, block)
     ELSE IF value # 0 THEN ArithRefineFrom(correction.d, corrected, n, s, k + 1, kex, TRUE)
     ELSE IF used.value = 1 THEN ArithRefineFrom(sign.d, new, n, s, k + 1, kex, TRUE)
     ELSE ArithRefineFrom(used.d, block, n, s, k + 1, kex, FALSE)

ArithDecodeRefine(d, block, n, s) ==
  LET kex == Max({0} \cup {k \in 1..s.Se : block[At(n, k)] # 0})
  IN ArithRefineFrom(d, block, n, s, s.Ss, kex, TRUE)

ArithDecodeRest(dc, n) ==
  IF Off(dc.d) \/ lim_Se(n) = 0 THEN dc ELSE ArithDecodeBand(dc.d, dc.block, n, 1, lim_Se(n), 0)

ArithDecodeBlock(d, c, block, n, s) ==
  LET bit == arith_decode(d, fixed_bin)
      refined == IF bit.value = 1 /\ (block[0] \div 2^s.Al) % 2 = 0
                 THEN [block EXCEPT ![0] = @ + 2^s.Al] ELSE block
  IN CASE ~s.progressive -> ArithDecodeRest(ArithDecodeDC(d, c, block, s.Al), n)
       [] s.progressive /\ s.Ss = 0 /\ s.Ah = 0 -> ArithDecodeDC(d, c, block, s.Al)
       [] s.progressive /\ s.Ss = 0 /\ s.Ah > 0 -> Decoded(bit.d, refined)
       [] s.progressive /\ s.Ss > 0 /\ s.Ah = 0 -> ArithDecodeBand(d, block, n, s.Ss, s.Se, s.Al)
       [] s.progressive /\ s.Ss > 0 /\ s.Ah > 0 -> ArithDecodeRefine(d, block, n, s)

arith_process_restart(d, s, interval) ==
  LET marked == read_restart_marker(d)
      dc == s.Ss = 0 /\ s.Ah = 0
  IN [marked EXCEPT !.c = 0, !.a = 0, !.ct = -16, !.stats = ClearedStats(@, s),
                    !.last_dc_val = IF dc THEN [i \in DOMAIN @ |-> 0] ELSE @,
                    !.dc_context = IF dc THEN [i \in DOMAIN @ |-> 0] ELSE @,
                    !.restarts_to_go = interval]

\* decode_mcu of the scan; the source may not suspend it.  A decoder that is
\* off leaves the blocks alone, but for refined DC values.
ArithDecodeMcu(d, blocks, n, s, interval) ==
  LET begun == IF interval > 0 /\ d.restarts_to_go = 0 THEN arith_process_restart(d, s, interval) ELSE d
      deaf(f) == Off(f) /\ ~(s.progressive /\ s.Ss = 0 /\ s.Ah > 0)
  IN FoldLeft(LAMBDA m, i :
                IF deaf(m.d) THEN m
                ELSE Placed(m, i, ArithDecodeBlock(m.d, s.comps[i], m.blocks[i], n, s)),
              [d |-> [begun EXCEPT !.restarts_to_go = @ - (IF interval > 0 THEN 1 ELSE 0)],
               blocks |-> blocks, done |-> TRUE],
              [i \in DOMAIN blocks |-> i])

=============================================================================
