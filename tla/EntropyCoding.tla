---------------------------- MODULE EntropyCoding ----------------------------
(***************************************************************************)
(* The coefficients of a picture through libjpeg's entropy coding: the     *)
(* coder's passes over the scans of its script (jcmaster.c with jchuff.c   *)
(* or jcarith.c), the bytes, and the decoder that reads each scan as they  *)
(* arrive (jdhuff.c or jdarith.c), MCU by MCU.                             *)
(*                                                                         *)
(* The Huffman decoder is suspended when it runs out of bytes: it goes     *)
(* back to where the MCU began and tries again when there are more, with   *)
(* the coefficients that the attempt has written in place.  With restart   *)
(* markers a scan may lose bytes on its way (Lose); the decoder then       *)
(* writes what it makes of them.  A damaged scan is the picture's last.    *)
(*                                                                         *)
(* An MCU has one block of each component of its scan; all components      *)
(* share one DC and one AC table.                                          *)
(***************************************************************************)
EXTENDS HuffmanCoding, ArithmeticCoding

CONSTANTS
  Jobs,     \* how pictures are coded, by name
  Losses    \* the most restart intervals a loss may touch

(***************************************************************************)
(* A job is a record: arith_code, block_size n, scan_info (the script, or  *)
(* <<>>), restart_interval, optimize_coding; the size each component is    *)
(* scaled to, <<v, h>>, or <<0, 0>> if it is not needed (scaled); how      *)
(* often each symbol occurs in MCUs before the first one here (counts);    *)
(* and pictures, each a sequence by component of sequences of blocks.      *)
(***************************************************************************)

\* jpeg_simple_progression, for a picture whose colour space it does not know
jpeg_simple_progression(ncomps) ==
  LET scan(comps, Ss, Se, Ah, Al) ==
        [comps |-> comps, Ss |-> Ss, Se |-> Se, Ah |-> Ah, Al |-> Al, progressive |-> TRUE]
      fill_scans(Ss, Se, Ah, Al) == [c \in 1..ncomps |-> scan(<<c>>, Ss, Se, Ah, Al)]
      fill_dc_scans(Ah, Al) == <<scan([c \in 1..ncomps |-> c], 0, 0, Ah, Al)>>
  IN fill_dc_scans(0, 1) \o fill_scans(1, 5, 0, 2) \o fill_scans(6, 63, 0, 2)
     \o fill_scans(1, 63, 2, 1) \o fill_dc_scans(1, 0) \o fill_scans(1, 63, 1, 0)

\* validate_script: each scan sends a coefficient for the first time, or its
\* next bit; AC comes after DC, one component at a time; every DC is sent.
validate_script(scan_info, ncomps) ==
  LET step(sent, s) ==
        [c \in 1..ncomps |-> [k \in 0..63 |->
           IF c \in ToSet(s.comps) /\ k \in s.Ss..s.Se THEN s.Al ELSE sent[c][k]]]
      none == [c \in 1..ncomps |-> [k \in 0..63 |-> -1]]
      before(i) == FoldLeft(step, none, SubSeq(scan_info, 1, i - 1))
      bands(i) ==
        LET s == scan_info[i]
        IN IF s.Ss = 0 THEN s.Se = 0
           ELSE s.Se \in s.Ss..63 /\ Len(s.comps) = 1 /\ before(i)[s.comps[1]][0] >= 0
      bits(i) ==
        LET s == scan_info[i]
        IN \A c \in ToSet(s.comps), k \in s.Ss..s.Se :
             IF before(i)[c][k] < 0 THEN s.Ah = 0 ELSE s.Ah = before(i)[c][k] /\ s.Al = s.Ah - 1
      all == before(Len(scan_info) + 1)
      whole == FlattenSeq([i \in DOMAIN scan_info |-> scan_info[i].comps])
  IN IF \A i \in DOMAIN scan_info : scan_info[i].progressive
     THEN (\A i \in DOMAIN scan_info : bands(i) /\ bits(i)) /\ \A c \in 1..ncomps : all[c][0] >= 0
     ELSE ToSet(whole) = 1..ncomps /\ IsInjective(whole)

ASSUME JobsAssumption ==
  /\ Losses \in 0..3
  /\ \A name \in DOMAIN Jobs : \A picture \in Jobs[name].pictures :
       Jobs[name].scan_info = <<>> \/ validate_script(Jobs[name].scan_info, Len(picture))

\* reduce_script: smaller blocks have no coefficients past lim_Se.
reduce_script(scan_info, n) ==
  LET reduced == [i \in DOMAIN scan_info |->
                    [scan_info[i] EXCEPT !.Se = IF @ > lim_Se(n) THEN lim_Se(n) ELSE @]]
  IN SelectSeq(reduced, LAMBDA s : s.Ss <= lim_Se(n))

\* select_scan_parameters: the scans of a job
Scans(job, ncomps) ==
  LET sequential(comps) ==
        [comps |-> comps, Ss |-> 0, Se |-> lim_Se(job.block_size), Ah |-> 0, Al |-> 0, progressive |-> FALSE]
      script == reduce_script(job.scan_info, job.block_size)
  IN IF job.scan_info = <<>> THEN <<sequential([c \in 1..ncomps |-> c])>>
     ELSE [i \in DOMAIN script |-> IF script[i].progressive THEN script[i] ELSE sequential(script[i].comps)]

\* jinit_c_master_control
optimize_coding(job, s) == ~job.arith_code /\ (job.optimize_coding \/ s.progressive \/ job.block_size < 8)

\* prepare_for_pass: is there a pass to gather statistics before the one that writes?
Gathers(job, s) == optimize_coding(job, s) /\ (s.Ss # 0 \/ s.Ah = 0)

\* jpeg_zigzag_orderN: how many coefficients, in zigzag order, reach to those of
\* the v by h corner; a component not needed has none.
coef_limit(n, size) ==
  LET v == Min({size[1], n})
      h == Min({size[2], n})
  IN IF size = <<0, 0>> THEN 0
     ELSE 1 + (CHOOSE k \in 0..lim_Se(n) : At(n, k) = 8 * (v - 1) + h - 1)

(***************************************************************************)
(* The passes.                                                             *)
(***************************************************************************)

VARIABLES
  job,         \* the name of the picture's job
  picture,     \* the coefficients the coder is given
  scans,       \* cinfo->scan_info of the coder, the scans that arrive at the decoder
  scan,        \* the number of the scan
  phase,       \* "gather", "write", "read" or "done"
  htables,     \* the Huffman tables, of DC and of AC
  derived,     \* what the coder or the decoder has derived from them
  e,           \* the coder
  wire,        \* the bytes of the scan up to the next marker
  lost,        \* the MCUs that a loss has touched
  d,           \* the decoder
  coefs,       \* the coefficients the decoder has written
  coef_bits,   \* their accuracy, or -1
  waiting,     \* the decoder was suspended and nothing has arrived since
  mcu          \* how many MCUs of the scan the pass has dealt with

vars == <<job, picture, scans, scan, phase, htables, derived, e, wire, lost, d, coefs, coef_bits, waiting, mcu>>

J == Jobs[job]
S == scans[scan]
N == J.block_size
Components == DOMAIN picture
MCUs == DOMAIN picture[1]
NoTables == [dc |-> <<>>, ac |-> <<>>]

\* The blocks of an MCU of the scan
MCU(all, m) == [i \in DOMAIN S.comps |-> all[S.comps[i]][m]]

\* The bins, bits and counts a pass starts with
CoderOf(j, s, gather) ==
  IF j.arith_code THEN ArithStart(ToSet(s.comps), j.restart_interval)
  ELSE [HuffStart(ToSet(s.comps), j.restart_interval, gather)
          EXCEPT !.counts = IF gather THEN j.counts ELSE @]

\* start_pass derives the tables its scan has use for.
CodesOf(j, s, tables) ==
  IF j.arith_code THEN NoTables
  ELSE [dc |-> IF s.Ss = 0 /\ s.Ah = 0 THEN jpeg_make_c_derived_tbl(tables.dc) ELSE <<>>,
        ac |-> IF s.Se > 0 THEN jpeg_make_c_derived_tbl(tables.ac) ELSE <<>>]

LookupsOf(j, s, tables) ==
  IF j.arith_code THEN NoTables
  ELSE [dc |-> IF s.Ss = 0 /\ s.Ah = 0 THEN jpeg_make_d_derived_tbl(tables.dc) ELSE <<>>,
        ac |-> IF s.Se > 0 THEN jpeg_make_d_derived_tbl(tables.ac) ELSE <<>>]

\* The first pass of a scan
BeginsWith(j, s) == IF Gathers(j, s) THEN "gather" ELSE "write"

Init ==
  /\ job \in DOMAIN Jobs
  /\ picture \in J.pictures
  /\ scans = Scans(J, Len(picture))
  /\ scan = 1
  /\ phase = BeginsWith(J, S)
  /\ htables = std_huff_tables
  /\ derived = IF Gathers(J, S) THEN NoTables ELSE CodesOf(J, S, std_huff_tables)
  /\ e = CoderOf(J, S, Gathers(J, S))
  /\ wire = <<>>
  /\ lost = {}
  /\ d = <<>>
  /\ coefs = [c \in Components |-> [m \in MCUs |-> [p \in 0..63 |-> 0]]]
  /\ coef_bits = [c \in Components |-> [k \in 0..63 |-> -1]]
  /\ waiting = FALSE
  /\ mcu = 0

\* encode_mcu
EncodeMcu ==
  /\ phase \in {"gather", "write"}
  /\ mcu < Len(picture[1])
  /\ e' = IF J.arith_code
          THEN ArithEncodeMcu(e, MCU(picture, mcu + 1), N, S, J.restart_interval)
          ELSE HuffEncodeMcu(e, derived, MCU(picture, mcu + 1), N, S, J.restart_interval)
  /\ mcu' = mcu + 1
  /\ UNCHANGED <<job, picture, scans, scan, phase, htables, derived, wire, lost, d, coefs, coef_bits, waiting>>

\* finish_pass_gather, and the pass that writes begins.
FinishGathering ==
  /\ phase = "gather"
  /\ mcu = Len(picture[1])
  /\ LET counts == HuffFinish(e, derived).counts
         tables == [dc |-> IF S.Ss = 0 THEN jpeg_gen_optimal_table(counts.dc) ELSE htables.dc,
                    ac |-> IF S.Se > 0 THEN jpeg_gen_optimal_table(counts.ac) ELSE htables.ac]
     IN /\ htables' = tables
        /\ derived' = CodesOf(J, S, tables)
  /\ phase' = "write"
  /\ e' = CoderOf(J, S, FALSE)
  /\ mcu' = 0
  /\ UNCHANGED <<job, picture, scans, scan, wire, lost, d, coefs, coef_bits, waiting>>

\* finish_pass: the scan is complete and another marker follows; the decoder
\* has read the scan's header and starts its own pass.
FinishWriting ==
  /\ phase = "write"
  /\ mcu = Len(picture[1])
  /\ LET finished == IF J.arith_code THEN finish_pass(e) ELSE HuffFinish(e, derived)
     IN /\ wire' = finished.out \o <<255, EOI>>
        /\ e' = <<>>
  /\ phase' = "read"
  /\ derived' = LookupsOf(J, S, htables)
  /\ d' = IF J.arith_code THEN ArithDecoder(ToSet(S.comps), J.restart_interval)
          ELSE HuffDecoder(ToSet(S.comps), J.restart_interval)
  /\ coef_bits' = [c \in Components |-> [k \in 0..63 |->
                     IF c \in ToSet(S.comps) /\ k \in S.Ss..S.Se THEN S.Al ELSE coef_bits[c][k]]]
  /\ mcu' = 0
  /\ UNCHANGED <<job, picture, scans, scan, htables, lost, coefs, waiting>>

(***************************************************************************)
(* The way to the decoder.                                                 *)
(***************************************************************************)

\* Where the markers begin
MarkersOf(bytes) == {p \in 1..(Len(bytes) - 1) : bytes[p] = 255 /\ bytes[p + 1] \notin {0, 255}}

\* The restart interval of an MCU, and of a byte
IntervalOf(m) == (m - 1) \div J.restart_interval
IntervalAt(p) == Cardinality({q \in MarkersOf(wire) : q < p})

\* Before any of it arrives the scan loses the bytes from..to: they begin with a
\* marker, or at the first or second byte of an interval, and end with one.
Lose ==
  /\ phase = "read" /\ d.data = <<>> /\ lost = {}
  /\ J.restart_interval > 0
  /\ \E from \in 1..(Len(wire) - 2), next \in MarkersOf(wire) :
       /\ from < next
       /\ from > 1 => wire[from - 1] # 255
       /\ from \in MarkersOf(wire) \/ \E q \in MarkersOf(wire) \cup {-1} : from \in {q + 2, q + 3}
       /\ LET touched == IntervalAt(from + 1)..IntervalAt(next)
          IN /\ Cardinality(touched) <= Losses
             /\ lost' = {m \in MCUs : IntervalOf(m) \in touched}
       /\ wire' = SubSeq(wire, 1, from - 1) \o SubSeq(wire, next, Len(wire))
  /\ UNCHANGED <<job, picture, scans, scan, phase, htables, derived, e, d, coefs, coef_bits, waiting, mcu>>

\* One byte arrives, or all the rest.  The arithmetic decoder cannot wait.
Arrive ==
  /\ phase = "read"
  /\ Len(d.data) < Len(wire)
  /\ \E n \in {Len(d.data) + 1, Len(wire)} :
       /\ J.arith_code => n = Len(wire)
       /\ d' = [d EXCEPT !.data = SubSeq(wire, 1, n)]
  /\ waiting' = FALSE
  /\ UNCHANGED <<job, picture, scans, scan, phase, htables, derived, e, wire, lost, coefs, coef_bits, mcu>>

\* decode_mcu: it is called with whatever has arrived, and again when there is
\* more.
Decoding(result) ==
  LET place(c) == CHOOSE i \in DOMAIN S.comps : S.comps[i] = c
  IN /\ d' = result.d
     /\ coefs' = [c \in Components |->
                    IF c \in ToSet(S.comps) THEN [coefs[c] EXCEPT ![mcu + 1] = result.blocks[place(c)]]
                    ELSE coefs[c]]
     /\ mcu' = IF result.done THEN mcu + 1 ELSE mcu
     /\ waiting' = ~result.done

DecodeMcu ==
  /\ phase = "read"
  /\ ~waiting
  /\ mcu < Len(picture[1])
  /\ J.arith_code => d.data = wire
  /\ LET limits == [c \in Components |-> coef_limit(N, J.scaled[c])]
     IN Decoding(IF J.arith_code
                 THEN ArithDecodeMcu(d, MCU(coefs, mcu + 1), N, S, J.restart_interval)
                 ELSE HuffDecodeMcu(d, derived, MCU(coefs, mcu + 1), N, S, J.restart_interval, limits))
  /\ UNCHANGED <<job, picture, scans, scan, phase, htables, derived, e, wire, lost, coef_bits>>

\* finish_input_pass, and the coder's next scan; nothing follows a damaged one.
FinishScan ==
  /\ phase = "read"
  /\ mcu = Len(picture[1])
  /\ d' = <<>> /\ wire' = <<>> /\ mcu' = 0
  /\ IF scan = Len(scans) \/ lost # {}
     THEN /\ phase' = "done"
          /\ UNCHANGED <<scan, derived, e>>
     ELSE /\ scan' = scan + 1
          /\ LET s == scans[scan + 1]
             IN /\ phase' = BeginsWith(J, s)
                /\ derived' = IF Gathers(J, s) THEN NoTables ELSE CodesOf(J, s, htables)
                /\ e' = CoderOf(J, s, Gathers(J, s))
  /\ UNCHANGED <<job, picture, scans, htables, lost, coefs, coef_bits, waiting>>

Next ==
  \/ EncodeMcu \/ FinishGathering \/ FinishWriting
  \/ Lose \/ Arrive \/ DecodeMcu \/ FinishScan

Spec == Init /\ [][Next]_vars

(***************************************************************************)
(* Properties.                                                             *)
(***************************************************************************)

\* Every register keeps to its range: the coder never holds back a whole byte
\* of bits, its interval stays above half, and no coefficient leaves 16 bits.
EntropyTypeOK ==
  /\ phase \in {"gather", "write", "read", "done"}
  /\ scan \in DOMAIN scans
  /\ mcu \in 0..Len(picture[1])
  /\ phase \in {"gather", "write"} =>
       IF J.arith_code
       THEN /\ e.a \in 32768..65536 /\ e.ct \in 1..11 /\ e.c \in 0..(2^28 - 1)
            /\ e.buffer \in -1..255 /\ e.sc >= 0 /\ e.zc >= 0
       ELSE /\ e.EOBRUN \in 0..(EOBRUN_LIMIT - 1) /\ Len(e.BE) <= CORR_LIMIT
            /\ Len(e.put_buffer) < 8
  /\ phase = "read" =>
       /\ d.pos \in 0..Len(d.data)
       /\ d.next_restart_num \in 0..7
       /\ ~d.stop
  /\ \A c \in Components, m \in MCUs, p \in 0..63 : coefs[c][m][p] \in -32768..32767

\* A coefficient as a scan of bit position Al leaves it
Rounded(x, k, Al) ==
  IF Al = -1 THEN 0 ELSE IF k = 0 THEN (x \div 2^Al) * 2^Al ELSE Divided(x, Al) * 2^Al

\* The accuracy of each coefficient of an MCU: the scan may still have to reach it.
Accuracy(c, m) ==
  IF phase = "read" /\ m > mcu /\ c \in ToSet(S.comps)
  THEN [k \in 0..63 |-> IF k \in S.Ss..S.Se THEN (IF S.Ah = 0 THEN -1 ELSE S.Ah) ELSE coef_bits[c][k]]
  ELSE coef_bits[c]

\* The decoder keeps the coefficients of the corner its component is scaled to.
InCorner(p, size) == p \div 8 < size[1] /\ p % 8 < size[2]

Exact(c, m) ==
  LET n == N
      size == J.scaled[c]
      bits == Accuracy(c, m)
      sent == picture[c][m]
      got == coefs[c][m]
  IN \A k \in 0..lim_Se(n) :
       LET p == At(n, k)
       IN InCorner(p, size) => got[p] = Rounded(sent[p], k, bits[k])

\* What the decoder has written is what the coder was given, each coefficient to
\* the bit its scans have reached: in whatever portions the bytes arrived and
\* however often an MCU was tried again, in any scan and with any restart
\* interval.  The MCU that is being tried is left out.
CoefficientsSurvive ==
  lost = {} => \A c \in Components, m \in MCUs :
                 ~(phase = "read" /\ m = mcu + 1 /\ c \in ToSet(S.comps)) => Exact(c, m)

\* Bytes lost between restart markers spoil no MCU of another restart interval,
\* neither the one before nor the one after: jpeg_resync_to_restart finds the
\* place, and no prediction, run or estimate of the lost part is used.
LossIsLocal ==
  lost # {} => \A c \in Components, m \in MCUs \ lost :
                 ~(phase = "read" /\ m = mcu + 1 /\ c \in ToSet(S.comps)) => Exact(c, m)

\* The pass that writes has a code for every symbol it meets, though another
\* pass has counted them; and the tables made from the counts can be sent: no
\* code of more than sixteen bits, none of all ones.
CodesComplete ==
  /\ phase = "write" /\ mcu = 0 => LegalTable(htables.dc) /\ LegalTable(htables.ac)
  /\ phase \in {"gather", "write"} /\ ~J.arith_code => ~e.missing

\* Once a scan has arrived up to the marker that follows it the decoder does not
\* wait any more, whatever was lost: it fills up with zeros, restart by restart,
\* and so every picture comes to its end.
NeverStarved == phase = "read" /\ waiting => Len(d.data) < Len(wire)

=============================================================================
