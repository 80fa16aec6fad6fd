------------------------------ MODULE At3Tables ------------------------------
(***************************************************************************)
(* The tables of ATRAC3: how a spectrum of 1024 lines is split into block  *)
(* floating units, and what the writer's bit allocation starts from.       *)
(***************************************************************************)
EXTENDS Integers, Sequences, SequencesExt

\* The function from 0 that takes each value as many times as it says.
LOCAL Table(runs) ==
  LET s == FlattenSeq([r \in DOMAIN runs |-> [k \in 1 .. runs[r][2] |-> runs[r][1]]])
  IN [i \in 0 .. Len(s) - 1 |-> s[i + 1]]

SpecsPerBlock ==
  Table(<< <<8, 8>>, <<16, 8>>, <<32, 10>>, <<64, 4>>, <<128, 2>> >>)

BlockStart ==
  LET start[i \in 0 .. 32] == IF i = 0 THEN 0 ELSE start[i - 1] + SpecsPerBlock[i - 1]
  IN start

FixedBitAlloc ==
  Table(<< <<6, 2>>, <<5, 1>>, <<4, 3>>, <<3, 12>>, <<2, 5>>, <<1, 6>>, <<0, 3>> >>)

\* x of CalcBitsAllocation, in tenths.
Divisor == Table(<< <<28, 3>>, <<26, 7>>, <<33, 5>>, <<36, 6>>, <<42, 8>>, <<60, 3>> >>)

ClcLength == <<4, 3, 3, 4, 4, 5, 6>>

Containers ==
  {[FrameSz |-> p[1], Js |-> p[2]] :
     p \in {<<192, TRUE>>, <<272, TRUE>>, <<304, FALSE>>, <<384, FALSE>>, <<424, FALSE>>,
           <<512, FALSE>>, <<768, FALSE>>, <<1024, FALSE>>}}
=============================================================================
