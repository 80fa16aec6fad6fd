------------------------------ MODULE At1Tables ------------------------------
(***************************************************************************)
(* The tables of ATRAC1: how a spectrum of 512 lines is split into block   *)
(* floating units, and what the writer's bit allocation starts from.       *)
(***************************************************************************)
EXTENDS Integers, Sequences, SequencesExt

\* The function from 0 that takes each value as many times as it says.
LOCAL Table(runs) ==
  LET s == FoldLeft(LAMBDA t, r : t \o [k \in 1 .. r[2] |-> r[1]], << >>, runs)
  IN [i \in 0 .. Len(s) - 1 |-> s[i + 1]]

SpecsPerBlockTab ==
  Table(<< <<8, 4>>, <<4, 4>>, <<8, 4>>, <<6, 12>>, <<7, 4>>, <<9, 4>>, <<10, 4>>,
           <<12, 8>>, <<20, 8>> >>)

BfuBandTab == Table(<< <<0, 20>>, <<1, 16>>, <<2, 16>> >>)

BfuAmounts ==
  Table(<< <<20, 1>>, <<28, 1>>, <<32, 1>>, <<36, 1>>, <<40, 1>>, <<44, 1>>, <<48, 1>>,
           <<52, 1>> >>)

FixedBitAllocTableLong ==
  Table(<< <<7, 3>>, <<6, 19>>, <<5, 13>>, <<4, 3>>, <<3, 6>>, <<2, 1>>, <<1, 4>>, <<0, 3>> >>)

FixedBitAllocTableShort == Table(<< <<6, 24>>, <<5, 12>>, <<4, 8>>, <<0, 8>> >>)

BitBoostMask == 18 .. 22 \cup 32 .. 38
=============================================================================
