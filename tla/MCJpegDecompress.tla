--------------------------- MODULE MCJpegDecompress ---------------------------
(***************************************************************************)
(* Small pictures for JpegDecompress: blocks of 2 x 2, two components,     *)
(* three rows of blocks of which the last is half of an iMCU row.          *)
(***************************************************************************)
EXTENDS JpegDecompress

Comp(h, v) == [h |-> h, v |-> v]
ScanOf(comps, Ss, dqt) == [comps |-> comps, Ss |-> Ss, dqt |-> dqt]
Picture(height, width, progressive, comps, scans) ==
  [height |-> height, width |-> width, progressive |-> progressive, comps |-> comps,
   scans |-> scans]

\* one scan: chroma of half the size, and of a third of the height
Half == Picture(5, 5, FALSE, <<Comp(2, 2), Comp(1, 1)>>, <<ScanOf(<<1, 2>>, 0, FALSE)>>)
Third == Picture(7, 3, FALSE, <<Comp(1, 3), Comp(1, 1)>>, <<ScanOf(<<1, 2>>, 0, FALSE)>>)
\* a scan for each component, the table redefined between them
TwoScans == Picture(5, 3, FALSE, <<Comp(1, 2), Comp(1, 1)>>,
                    <<ScanOf(<<1>>, 0, FALSE), ScanOf(<<2>>, 0, TRUE)>>)
\* progressive: DC of both, then the rest of the first component
Progressive == Picture(5, 2, TRUE, <<Comp(1, 1), Comp(1, 1)>>,
                       <<ScanOf(<<1, 2>>, 0, FALSE), ScanOf(<<1>>, 1, TRUE)>>)
\* progressive: DC of both, the rest of the first component, DC of both refined
Refined == Picture(3, 2, TRUE, <<Comp(1, 1), Comp(1, 1)>>,
                   <<ScanOf(<<1, 2>>, 0, FALSE), ScanOf(<<1>>, 1, FALSE),
                     ScanOf(<<1, 2>>, 0, FALSE)>>)

Mode(buffered, raw, quantize, fancy, smooth, lines, ahead) ==
  [buffered_image |-> buffered, raw_data_out |-> raw, quantize |-> quantize,
   do_fancy_upsampling |-> fancy, do_block_smoothing |-> smooth, max_lines |-> lines,
   ahead |-> ahead]

\* in one pass: every way of the main and post-process buffers
Straight(quantize, fancy) == Mode(FALSE, FALSE, quantize, fancy, FALSE, {1, 3}, FALSE)
Raw == Mode(FALSE, TRUE, "no", TRUE, FALSE, {}, FALSE)
\* in as many passes as the application likes
Passes(quantize, smooth, ahead) == Mode(TRUE, FALSE, quantize, TRUE, smooth, {3}, ahead)

AllPictures == {Half, Third, TwoScans, Progressive, Refined}
AllModes ==
  [p \in AllPictures |->
     CASE p = Half -> {Straight("no", TRUE), Straight("no", FALSE), Straight("two", FALSE), Raw}
       [] p = Third -> {Straight("one", TRUE), Passes("no", FALSE, FALSE)}
       [] p = TwoScans -> {Straight("no", TRUE), Passes("two", FALSE, FALSE)}
       [] p = Progressive -> {Raw, Passes("no", TRUE, FALSE)}
       [] p = Refined -> {Passes("no", TRUE, FALSE)}]

AheadPictures == {TwoScans}
AheadModes == [p \in AheadPictures |-> {Passes("no", FALSE, TRUE)}]

=============================================================================
