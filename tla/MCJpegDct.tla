----------------------------- MODULE MCJpegDct -----------------------------
(***************************************************************************)
(* Blocks for TLC: every size the decoder can pick, and sparse blocks of   *)
(* levels that leave the samples within their limits (-1 and 2) and that   *)
(* drive them beyond (60).                                                 *)
(***************************************************************************)
EXTENDS JpegDct

AllSizes ==
  {<<n, n>> : n \in 1..16} \cup {<<2 * n, n>> : n \in 1..8} \cup {<<n, 2 * n>> : n \in 1..8}

Corners ==
  {<<0, 0>>, <<0, 1>>, <<1, 0>>, <<2, 3>>, <<5, 2>>, <<7, 7>>, <<3, 4>>, <<4, 6>>, <<6, 5>>}

SomeLevels == {-1, 2, 60}

=============================================================================
