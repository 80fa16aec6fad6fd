---------------------------- MODULE MCAt1BitAlloc ----------------------------
(***************************************************************************)
(* At1BitAlloc with the tables of the code, on frames whose scale factors  *)
(* are flat per band: silent, soft and loud bands, quiet ends of several   *)
(* lengths, quiet BFUs that boosting may raise, long and short windows.    *)
(***************************************************************************)
EXTENDS At1BitAlloc, At1Tables

MCSpecsPerBlock == SpecsPerBlockTab
MCBfuToBand     == BfuBandTab
MCBfuAmountTab  == BfuAmounts
MCFixedLong     == FixedBitAllocTableLong
MCFixedShort    == FixedBitAllocTableShort

Frame(low, mid, high, quiet, short) ==
  [ScaleFactorIndex |-> [i \in 0 .. 51 |-> <<low, mid, high>>[BfuBandTab[i] + 1]],
   quiet |-> quiet, short |-> short]

AllFrames ==
  {Frame(x[1], x[2], x[3], x[4] .. 51, {}) :
     x \in {<<0, 0, 0, 0>>, <<0, 0, 0, 52>>, <<63, 63, 63, 52>>, <<63, 30, 0, 52>>,
           <<40, 0, 45, 52>>, <<63, 0, 0, 21>>, <<20, 40, 63, 31>>, <<50, 50, 45, 40>>,
           <<15, 30, 10, 52>>, <<63, 55, 0, 44>>}}
  \cup {Frame(low, 35, 40, BitBoostMask, {}) : low \in {20, 50}}
  \cup {Frame(low, 20, 40, 30 .. 51, {1, 2}) : low \in {10, 50}}
MCFrames == AllFrames
=============================================================================
