--------------------------- MODULE JpegDctKernels ---------------------------
(***************************************************************************)
(* The one-dimensional transforms of jidctint.c and jfdctint.c.            *)
(*                                                                         *)
(* A butterfly of the source adds, subtracts and multiplies by constants   *)
(* of CONST_BITS = 13 fraction bits and rounds once, at its end.  What it  *)
(* computes is linear, so that a kernel is kept multiplied out: row k says *)
(* how much each coefficient counts for sample k (inverse) and sample k    *)
(* for each coefficient (forward).  The last samples mirror the first:     *)
(* sample n-1-k has the weights of sample k, with the sign of the odd      *)
(* coefficients changed.  At most eight coefficients are used.             *)
(*                                                                         *)
(* Every function of jidctint.c that has a pass over n points uses the     *)
(* same n-point kernel in it.  In jfdctint.c the second pass has constants *)
(* scaled by a power of 8/n: those kernels are the Columns below.          *)
(***************************************************************************)
EXTENDS Integers

(***************************************************************************)
(* Inverse: coefficients to samples.                                       *)
(***************************************************************************)

\* One and two points need no multiplication: in units of 1.
Inverse1 == <<<<1>>>>
Inverse2 == <<<<1, 1>>>>
Inverse3 ==
  <<<<8192, 10033, 5793>>, <<8192, 0, -11586>>>>
Inverse4 ==
  <<<<8192, 10703, 8192, 4433>>, <<8192, 4433, -8192, -10704>>>>
Inverse5 ==
  <<<<  8192,  11019,   9372,   6810,   3580>>,
    <<  8192,   6810,  -3580, -11018,  -9372>>,
    <<  8192,      0, -11584,      0,  11584>>>>
Inverse6 ==
  <<<<  8192,  11190,  10033,   8192,   5793,   2998>>,
    <<  8192,   8192,      0,  -8192, -11586,  -8192>>,
    <<  8192,   2998, -10033,  -8192,   5793,  11190>>>>
Inverse7 ==
  <<<<  8192,  11295,  10438,   9058,   7223,   5027,   2578>>,
    <<  8192,   9058,   2578,  -5027, -10438, -11295,  -7223>>,
    <<  8192,   5027,  -7223, -11295,  -2578,   9058,  10438>>,
    <<  8192,      0, -11585,      0,  11585,      0, -11585>>>>
Inverse8 ==
  <<<<  8192,  11363,  10703,   9633,   8192,   6437,   4433,   2260>>,
    <<  8192,   9633,   4433,  -2259,  -8192, -11362, -10704,  -6436>>,
    <<  8192,   6437,  -4433, -11362,  -8192,   2261,  10704,   9633>>,
    <<  8192,   2260, -10703,  -6436,   8192,   9633,  -4433, -11363>>>>
Inverse9 ==
  <<<<  8192,  11409,  10887,  10033,   8875,   7447,   5793,   3962>>,
    <<  8192,  10033,   5793,      0,  -5793, -10033, -11586, -10033>>,
    <<  8192,   7447,  -2012, -10033, -10887,  -3962,   5793,  11409>>,
    <<  8192,   3962,  -8875, -10033,   2012,  11409,   5793,  -7447>>,
    <<  8192,      0, -11586,      0,  11586,      0, -11586,      0>>>>
Inverse10 ==
  <<<<  8192,  11443,  11019,  10322,   9373,   8192,   6810,   5260>>,
    <<  8192,  10323,   6810,   1812,  -3580,  -8192, -11018, -11442>>,
    <<  8192,   8192,      0,  -8192, -11586,  -8192,      0,   8192>>,
    <<  8192,   5260,  -6810, -11442,  -3580,   8192,  11018,   1812>>,
    <<  8192,   1812, -11019,  -5260,   9373,   8192,  -6810, -10322>>>>
Inverse11 ==
  <<<<  8192,  11468,  11116,  10538,   9746,   8756,   7587,   6264>>,
    <<  8192,  10538,   7587,   3264,  -1649,  -6263,  -9746, -11467>>,
    <<  8192,   8756,   1649,  -6263, -11116, -10537,  -4812,   3264>>,
    <<  8192,   6264,  -4812, -11467,  -7587,   3264,  11116,   8756>>,
    <<  8192,   3264,  -9746,  -8755,   4813,  11467,   1649, -10538>>,
    <<  8192,      0, -11585,      0,  11585,      0, -11585,      0>>>>
Inverse12 ==
  <<<<  8192,  11487,  11190,  10703,  10033,   9192,   8192,   7053>>,
    <<  8192,  10703,   8192,   4433,      0,  -4433,  -8192, -10703>>,
    <<  8192,   9192,   2998,  -4433, -10033, -11485,  -8192,  -1512>>,
    <<  8192,   7053,  -2998, -10703, -10033,  -1512,   8192,  11486>>,
    <<  8192,   4433,  -8192, -10704,      0,  10704,   8192,  -4433>>,
    <<  8192,   1513, -11190,  -4433,  10033,   7053,  -8192,  -9191>>>>
Inverse13 ==
  <<<<  8192,  11499,  11249,  10832,  10258,   9534,   8672,   7682>>,
    <<  8192,  10832,   8672,   5384,   1397,  -2773,  -6581,  -9534>>,
    <<  8192,   9534,   4108,  -2773,  -8672, -11502, -10258,  -5384>>,
    <<  8192,   7682,  -1396,  -9534, -11248,  -5384,   4108,  10832>>,
    <<  8192,   5384,  -6581, -11500,  -4108,   7682,  11248,   2773>>,
    <<  8192,   2773, -10258,  -7682,   6581,  10832,  -1397, -11500>>,
    <<  8192,      0, -11585,      0,  11585,      0, -11585,      0>>>>
Inverse14 ==
  <<<<  8192,  11513,  11295,  10935,  10438,   9810,   9058,   8192>>,
    <<  8192,  10935,   9058,   6164,   2578,  -1297,  -5026,  -8192>>,
    <<  8192,   9810,   5027,  -1297,  -7223, -10934, -11295,  -8192>>,
    <<  8192,   8192,      0,  -8192, -11586,  -8192,      0,   8192>>,
    <<  8192,   6164,  -5027, -11512,  -7223,   3826,  11295,   8192>>,
    <<  8192,   3826,  -9058,  -9809,   2578,  11512,   5026,  -8192>>,
    <<  8192,   1297, -11295,  -3826,  10438,   6164,  -9058,  -8192>>>>
Inverse15 ==
  <<<<  8192,  11522,  11332,  11018,  10584,  10033,   9373,   8609>>,
    <<  8192,  11019,   9372,   6810,   3580,      0,  -3580,  -6810>>,
    <<  8192,  10033,   5792,      0,  -5792, -10033, -11586, -10033>>,
    <<  8192,   8609,   1211,  -6810, -11332, -10033,  -3580,   4712>>,
    <<  8192,   6810,  -3580, -11018,  -9372,      0,   9373,  11018>>,
    <<  8192,   4712,  -7753, -11018,  -1211,  10033,   9373,  -2409>>,
    <<  8192,   2409, -10584,  -6810,   7753,  10033,  -3580, -11522>>,
    <<  8192,      0, -11584,      0,  11584,      0, -11586,      0>>>>
Inverse16 ==
  <<<<  8192,  11529,  11363,  11086,  10703,  10217,   9632,   8956>>,
    <<  8192,  11086,   9633,   7350,   4433,   1136,  -2260,  -5461>>,
    <<  8192,  10217,   6437,   1136,  -4433,  -8955, -11363, -11086>>,
    <<  8192,   8956,   2260,  -5461, -10703, -11086,  -6436,   1137>>,
    <<  8192,   7350,  -2260, -10217, -10703,  -3363,   6436,  11529>>,
    <<  8192,   5461,  -6437, -11529,  -4433,   7349,  11363,   3363>>,
    <<  8192,   3363,  -9633,  -8955,   4433,  11529,   2260, -10217>>,
    <<  8192,   1136, -11363,  -3363,  10703,   5461,  -9632,  -7350>>>>

(***************************************************************************)
(* Forward, first pass: samples of a row to coefficients.                  *)
(***************************************************************************)

Forward1 == <<<<8192>>>>
Forward2 == <<<<8192, 8192>>>>
Forward3 == Inverse3
Forward4 == Inverse4
Forward5 == Inverse5
Forward6 == Inverse6
Forward7 ==
  <<<<  8192,  11295,  10438,   9058,   7223,   5027,   2577>>,
    <<  8192,   9058,   2578,  -5027, -10438, -11295,  -7223>>,
    <<  8192,   5027,  -7224, -11295,  -2578,   9058,  10438>>,
    <<  8192,      0, -11584,      0,  11586,      0, -11584>>>>
Forward8 == Inverse8
Forward9 == Inverse9
Forward10 == Inverse10
Forward11 ==
  <<<<  8192,  11467,  11116,  10538,   9746,   8756,   7587,   6263>>,
    <<  8192,  10538,   7587,   3264,  -1648,  -6263,  -9746, -11467>>,
    <<  8192,   8756,   1649,  -6263, -11116, -10537,  -4812,   3264>>,
    <<  8192,   6263,  -4813, -11467,  -7587,   3264,  11116,   8755>>,
    <<  8192,   3264,  -9746,  -8756,   4813,  11467,   1649, -10538>>,
    <<  8192,      0, -11586,      0,  11584,      0, -11588,      0>>>>
\* Coefficient 2 adds tmp14 - tmp15 without << CONST_BITS.
Forward12 ==
  <<<<  8192,  11486,  11190,  10703,  10033,   9191,   8192,   7053>>,
    <<  8192,  10703,      1,   4433,      0,  -4433,  -8192, -10703>>,
    <<  8192,   9191,  11189,  -4433, -10033, -11486,  -8192,  -1512>>,
    <<  8192,   7053, -11189, -10703, -10033,  -1512,   8192,  11487>>,
    <<  8192,   4433,     -1, -10704,      0,  10704,   8192,  -4433>>,
    <<  8192,   1512, -11190,  -4433,  10033,   7053,  -8192,  -9191>>>>
Forward13 ==
  <<<<  8192,  11499,  11249,  10832,  10258,   9534,   8672,   7682>>,
    <<  8192,  10832,   8672,   5384,   1397,  -2773,  -6581,  -9534>>,
    <<  8192,   9534,   4108,  -2773,  -8672, -11502, -10258,  -5384>>,
    <<  8192,   7682,  -1396,  -9534, -11248,  -5384,   4108,  10832>>,
    <<  8192,   5384,  -6581, -11501,  -4108,   7682,  11248,   2773>>,
    <<  8192,   2773, -10258,  -7682,   6581,  10833,  -1397, -11500>>,
    <<  8192,      0, -11588,      0,  11584,      0, -11584,      0>>>>
\* Coefficient 1 adds tmp6 without << CONST_BITS.
Forward14 ==
  <<<<  8192,  11513,  11295,  10935,  10438,   9810,   9058,   8192>>,
    <<  8192,  10935,   9058,   6164,   2578,  -1297,  -5026,  -8192>>,
    <<  8192,   9810,   5027,  -1297,  -7223, -10934, -11295,  -8192>>,
    <<  8192,   8192,      0,  -8192, -11586,  -8192,      0,   8192>>,
    <<  8192,   6164,  -5027, -11512,  -7223,   3827,  11295,   8192>>,
    <<  8192,   3826,  -9058,  -9810,   2578,  11512,   5026,  -8192>>,
    <<  8192,  -6893, -11295,  -3826,  10438,   6164,  -9058,  -8192>>>>
\* The last row weighs half the sum of samples 1, 4, 10 and 13, which the
\* source computes by >> 1.
Forward15 ==
  <<<<  8192,  11522,  11332,  11018,  10584,  10033,   9373,   8610>>,
    <<  8192,  11018,   6476,   6810,   6476,      0,  -3580,  -6810>>,
    <<  8192,  10033,   5793,      0,  -5793, -10033, -11586, -10033>>,
    <<  8192,   8609,   1211,  -6810, -11332, -10033,  -3580,   4712>>,
    <<  8192,   6809,  -6476, -11018,  -6476,      0,   9373,  11018>>,
    <<  8192,   4712,  -7752, -11018,  -1211,  10033,   9373,  -2409>>,
    <<  8192,   2408, -10584,  -6810,   7752,  10033,  -3580, -11522>>,
    <<  8192,      0, -11586,      0,  11586,      0, -11586,      0>>,
    <<     0,      0,   5793,      0,  -5793,      0,      0,      0>>>>
Forward16 ==
  <<<<  8192,  11529,  11363,  11086,  10703,  10217,   9633,   8956>>,
    <<  8192,  11086,   9633,   7350,   4433,   1136,  -2260,  -5461>>,
    <<  8192,  10217,   6436,   1136,  -4433,  -8955, -11363, -11086>>,
    <<  8192,   8956,   2260,  -5461, -10703, -11086,  -6437,   1137>>,
    <<  8192,   7350,  -2260, -10217, -10703,  -3363,   6437,  11530>>,
    <<  8192,   5461,  -6436, -11529,  -4433,   7350,  11363,   3363>>,
    <<  8192,   3363,  -9633,  -8956,   4433,  11529,   2260, -10217>>,
    <<  8192,   1135, -11363,  -3363,  10703,   5461,  -9633,  -7350>>>>

(***************************************************************************)
(* Forward, second pass: the columns, scaled by 8/n as far as no shift     *)
(* does it.                                                                *)
(***************************************************************************)

Columns1 == Forward1
Columns2 == Forward2
Columns3 ==
  <<<<14564, 17837, 10298>>, <<14564, 0, -20596>>>>
Columns4 == Forward4
Columns5 ==
  <<<< 10486,  14103,  11997,   8716,   4583>>,
    << 10486,   8716,  -4583, -14104, -11997>>,
    << 10486,      0, -14828,      0,  14828>>>>
Columns6 ==
  <<<< 14564,  19895,  17837,  14564,  10298,   5331>>,
    << 14564,  14564,      0, -14564, -20596, -14564>>,
    << 14564,   5331, -17837, -14564,  10298,  19895>>>>
Columns7 ==
  <<<< 10700,  14752,  13633,  11831,   9434,   6565,   3367>>,
    << 10700,  11831,   3367,  -6565, -13633, -14752,  -9434>>,
    << 10700,   6565,  -9434, -14752,  -3367,  11830,  13633>>,
    << 10700,      0, -15132,      0,  15132,      0, -15132>>>>
Columns8 == Forward8
Columns9 ==
  <<<< 12945,  18030,  17203,  15855,  14024,  11768,   9154,   6262>>,
    << 12945,  15855,   9154,      0,  -9154, -15855, -18308, -15855>>,
    << 12945,  11768,  -3179, -15855, -17203,  -6261,   9154,  18029>>,
    << 12945,   6262, -14024, -15855,   3179,  18029,   9154, -11767>>,
    << 12945,      0, -18308,      0,  18308,      0, -18308,      0>>>>
Columns10 ==
  <<<< 10486,  14647,  14103,  13213,  11997,  10486,   8716,   6733>>,
    << 10486,  13213,   8716,   2320,  -4582, -10486, -14104, -14646>>,
    << 10486,  10486,      0, -10486, -14830, -10486,      0,  10486>>,
    << 10486,   6732,  -8716, -14646,  -4582,  10486,  14104,   2320>>,
    << 10486,   2320, -14103,  -6733,  11997,  10486,  -8716, -13213>>>>
Columns11 ==
  <<<<  8666,  12131,  11759,  11148,  10310,   9262,   8026,   6626>>,
    <<  8666,  11148,   8026,   3452,  -1744,  -6626, -10310, -12131>>,
    <<  8666,   9262,   1744,  -6626, -11759, -11148,  -5091,   3453>>,
    <<  8666,   6626,  -5092, -12131,  -8026,   3453,  11759,   9262>>,
    <<  8666,   3453, -10310,  -9262,   5091,  12131,   1744, -11148>>,
    <<  8666,      0, -12254,      0,  12256,      0, -12256,      0>>>>
Columns12 ==
  <<<<  7282,  10210,   9947,   9514,   8918,   8170,   7282,   6269>>,
    <<  7282,   9514,   7282,   3941,      0,  -3941,  -7282,  -9514>>,
    <<  7282,   8170,   2665,  -3941,  -8918, -10210,  -7282,  -1344>>,
    <<  7282,   6269,  -2665,  -9514,  -8918,  -1344,   7282,  10210>>,
    <<  7282,   3941,  -7282,  -9514,      0,   9514,   7282,  -3941>>,
    <<  7282,   1344,  -9947,  -3941,   8918,   6269,  -7282,  -8170>>>>
Columns13 ==
  <<<< 6205,  8710,  8520,  8204,  7770,  7221,  6568,  5819>>,
    << 6205,  8204,  6568,  4078,  1058, -2100, -4984, -7221>>,
    << 6205,  7221,  3112, -2100, -6568, -8711, -7770, -4078>>,
    << 6205,  5819, -1058, -7221, -8520, -4078,  3112,  8205>>,
    << 6205,  4078, -4985, -8710, -3112,  5819,  8520,  2100>>,
    << 6205,  2100, -7770, -5819,  4984,  8204, -1058, -8711>>,
    << 6205,     0, -8774,     0,  8776,     0, -8776,     0>>>>
Columns14 ==
  <<<< 5350,  7518,  7376,  7141,  6817,  6406,  5915,  5350>>,
    << 5350,  7141,  5915,  4025,  1684,  -847, -3283, -5350>>,
    << 5350,  6406,  3283,  -847, -4717, -7141, -7376, -5350>>,
    << 5350,  5350,     0, -5350, -7568, -5350,     0,  5350>>,
    << 5350,  4025, -3283, -7518, -4717,  2499,  7376,  5350>>,
    << 5350,  2499, -5915, -6406,  1684,  7518,  3283, -5350>>,
    << 5350,   847, -7376, -2499,  6817,  4025, -5915, -5350>>>>
Columns15 ==
  <<<<  9321,  13109,  12893,  12536,  12041,  11415,  10664,   9795>>,
    <<  9321,  12536,   7369,   7748,   7369,      0,  -4073,  -7748>>,
    <<  9321,  11415,   6591,      0,  -6590, -11415, -13182, -11415>>,
    <<  9321,   9795,   1378,  -7748, -12893, -11415,  -4073,   5361>>,
    <<  9321,   7748,  -7369, -12536,  -7369,      0,  10664,  12536>>,
    <<  9321,   5361,  -8820, -12536,  -1378,  11415,  10664,  -2741>>,
    <<  9321,   2741, -12042,  -7748,   8820,  11415,  -4073, -13109>>,
    <<  9321,      0, -13182,      0,  13180,      0, -13182,      0>>,
    <<     0,      0,   6591,      0,  -6590,      0,      0,      0>>>>
Columns16 == Forward16
==============================================================================
