--------------------------- MODULE MCEntropyCoding ---------------------------
(***************************************************************************)
(* Pictures of a few blocks for EntropyCoding, and the ways to code them.  *)
(***************************************************************************)
EXTENDS EntropyCoding

\* A block from its coefficients in use
Block(used) == [p \in 0..63 |-> IF p \in DOMAIN used THEN used[p] ELSE 0]

Empty == Block(0 :> 3)
Flat == Block(0 :> -5)
Steep == Block(0 :> 1023 @@ 1 :> -1023 @@ 8 :> 7)
\* A run of more than fifteen zeros, a coefficient of one, and the last one of a
\* block of 5 by 5
Sparse == Block(0 :> -40 @@ 1 :> 6 @@ 34 :> 1 @@ 36 :> -3)
Dense == Block(0 :> 12 @@ 1 :> -2 @@ 8 :> 3 @@ 16 :> 1 @@ 9 :> -1 @@ 2 :> 4 @@ 10 :> -1 @@ 17 :> 2)
Corner == Block(0 :> -700 @@ 8 :> 1 @@ 63 :> -1)

Four(a, b, c, f) == <<<<a, b, c, f>>>>
Both(a, b, c, f) == <<<<a, b>>, <<c, f>>>>

Plain == [arith_code |-> FALSE, block_size |-> 8, scan_info |-> <<>>, restart_interval |-> 0,
          optimize_coding |-> FALSE, scaled |-> <<<<8, 8>>, <<8, 8>>>>, counts |-> NoTables,
          pictures |-> {Both(Steep, Empty, Dense, Corner), Both(Corner, Steep, Sparse, Flat)}]

Sequential(c) == [comps |-> <<c>>, Ss |-> 0, Se |-> 63, Ah |-> 0, Al |-> 0, progressive |-> FALSE]

\* Counts like Fibonacci's numbers: the best code would have lengths up to 24.
Fibonacci[i \in 1..24] == IF i <= 2 THEN 1 ELSE Fibonacci[i - 1] + Fibonacci[i - 2]
SkewedCounts == [dc |-> <<>>, ac |-> [symbol \in 1..24 |-> Fibonacci[symbol]]]

AllJobs ==
  [baseline |-> Plain,
   scaled |-> [Plain EXCEPT !.scaled = <<<<2, 4>>, <<0, 0>>>>],
   by_component |-> [Plain EXCEPT !.scan_info = <<Sequential(2), Sequential(1)>>, !.optimize_coding = TRUE],
   small |-> [Plain EXCEPT !.block_size = 5, !.restart_interval = 1, !.scaled = <<<<3, 5>>, <<1, 1>>>>,
                           !.pictures = {Both(Sparse, Dense, Flat, Sparse)}],
   point |-> [Plain EXCEPT !.block_size = 1, !.pictures = {Both(Steep, Empty, Dense, Corner)}],
   skewed |-> [Plain EXCEPT !.optimize_coding = TRUE, !.counts = SkewedCounts,
                            !.pictures = {Both(Steep, Empty, Dense, Corner)}],
   progressive |-> [Plain EXCEPT !.scan_info = jpeg_simple_progression(2),
                                 !.pictures = {Both(Corner, Steep, Sparse, Dense), Both(Empty, Flat, Dense, Sparse)}],
   progressive5 |-> [Plain EXCEPT !.block_size = 5, !.scan_info = jpeg_simple_progression(1),
                                  !.pictures = {Four(Sparse, Dense, Sparse, Dense), Four(Dense, Flat, Empty, Sparse)}],
   restarts |-> [Plain EXCEPT !.restart_interval = 1, !.pictures = {Four(Flat, Dense, Empty, Flat)}],
   progressive_restarts |->
     [Plain EXCEPT !.block_size = 5, !.restart_interval = 1, !.scan_info = jpeg_simple_progression(1),
                   !.pictures = {Four(Dense, Flat, Sparse, Empty)}],
   arithmetic |-> [Plain EXCEPT !.arith_code = TRUE],
   arithmetic_progressive |->
     [Plain EXCEPT !.arith_code = TRUE, !.scan_info = jpeg_simple_progression(2),
                   !.pictures = {Both(Corner, Steep, Sparse, Dense), Both(Empty, Flat, Dense, Sparse)}],
   arithmetic_restarts |->
     [Plain EXCEPT !.arith_code = TRUE, !.restart_interval = 1,
                   !.pictures = {Four(Steep, Dense, Corner, Empty)}],
   arithmetic_progressive_restarts |->
     [Plain EXCEPT !.arith_code = TRUE, !.block_size = 5, !.restart_interval = 1,
                   !.scan_info = jpeg_simple_progression(1),
                   !.pictures = {Four(Dense, Flat, Sparse, Dense)}]]

=============================================================================
