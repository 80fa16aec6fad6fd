----------------------------- MODULE At1BitAlloc -----------------------------
(***************************************************************************)
(* atrac/at1/atrac1_bitalloc.cpp: the writer of ATRAC1 sound units. Two    *)
(* parts run under the engine of BsEncode: TConfigure opens the search for *)
(* a shift, TBfuAlloc derives word lengths from the shift, lets the engine *)
(* search, gives up block floating units (BFUs) that stay silent, and      *)
(* spends what is left of the budget with TBitsBooster before the frame is *)
(* dumped into a sound unit of fixed size.                                 *)
(*                                                                         *)
(* Amounts the code keeps as floats, the shift and the terms it is         *)
(* compared with, are counted in Unit-ths of a bit.                        *)
(***************************************************************************)
EXTENDS Integers, FiniteSets, Sums

CONSTANTS
  MaxBfus, SpecsPerBlock, BfuToBand, BfuAmountTab,
  FixedLong, FixedShort,   \* FixedBitAllocTableLong and -Short
  Boosted,                 \* the BFUs of BitBoostMask
  SoundUnitSize,
  Unit,                    \* how many lambdas there are to a bit
  Frames,                  \* scaled blocks: their indices, the BFUs below the
                           \* hearing threshold, the bands with short windows
  BfuIdxConsts,            \* values of the option, 0 for an automatic choice
  MaxFrames                \* bound: frames encoded

BFUs    == 0 .. MaxBfus - 1
Amounts == {BfuAmountTab[k] : k \in 0 .. 7}

ASSUME TableAssumption ==
  /\ MaxBfus \in Nat /\ SpecsPerBlock \in [BFUs -> Nat \ {0}]
  /\ BfuToBand \in [BFUs -> 0 .. 2] /\ Boosted \subseteq BFUs
  /\ FixedLong \in [BFUs -> 0 .. 7] /\ FixedShort \in [BFUs -> 0 .. 7]
  /\ BfuAmountTab \in [0 .. 7 -> 0 .. MaxBfus]
  /\ \A j, k \in 0 .. 7 : j < k => BfuAmountTab[j] < BfuAmountTab[k]
ASSUME UnitAssumption ==
  /\ SoundUnitSize \in Nat /\ Unit \in Nat \ {0}
  /\ \A n \in Amounts : 8 * SoundUnitSize >= 40 + 10 * n
ASSUME FrameAssumption ==
  /\ Frames # {}
  /\ Frames \subseteq [ScaleFactorIndex : [BFUs -> 0 .. 63],
                      quiet : SUBSET BFUs, short : SUBSET (0 .. 2)]
\* A pass of ApplyBoost takes the BFUs in order of their sizes and ends at the first
\* one the frame does not have.
ASSUME BoostAssumption ==
  \A p, q \in Boosted : p < q => SpecsPerBlock[p] <= SpecsPerBlock[q]
ASSUME RunAssumption == BfuIdxConsts \subseteq 0 .. 8 /\ MaxFrames \in Nat

VARIABLES
  running, CurEncPos, RepeatEncPos, TargetBits, MinLambda, MaxLambda,
  CurLambda, LastLambda, cost, used, fresh, repeats, frames,   \* of the engine
  BfuIdxConst,
  frame, BfuIdx,       \* TEncodeCtx
  midBias,             \* bandBias[1], which depends on nothing else
  BitsPerEachBlock,    \* the word lengths TBfuAlloc settled on
  surplus,             \* locals of ApplyBoost: the bits left,
  reach,               \* the BFUs in front of maxIt,
  todo,                \* those this pass has not come to,
  raised,              \* ~done
  boosting             \* is ApplyBoost in its loop?

search == <<TargetBits, MinLambda, MaxLambda, CurLambda, LastLambda>>
engine == <<running, CurEncPos, RepeatEncPos, search, cost, used, fresh, repeats, frames>>
booster == <<BitsPerEachBlock, surplus, reach, todo, raised, boosting>>
context == <<frame, BfuIdx, midBias>>
vars   == <<engine, BfuIdxConst, context, booster>>
-----------------------------------------------------------------------------
(***************************************************************************)
(* Word lengths                                                            *)
(***************************************************************************)
MinOf(a, b) == IF a < b THEN a ELSE b

\* CalcLowToMidTilt, as a fraction, and the bias of the middle band: 0.3 bit
\* per unit of tilt above 7, and 1.5 bits at most.
InBand(b, n) == {i \in 0 .. n - 1 : BfuToBand[i] = b}
BandSum(f, b, n) ==
  SumTo([i \in BFUs |-> IF BfuToBand[i] = b THEN f.ScaleFactorIndex[i] ELSE 0], n)

MidBias(f, n) ==
  LET nLow == Cardinality(InBand(0, n))
      nMid == Cardinality(InBand(1, n))
      num  == BandSum(f, 0, n) * nMid - BandSum(f, 1, n) * nLow
      den  == nLow * nMid
  IN IF den = 0 \/ num <= 7 * den THEN 0
     ELSE MinOf((3 * Unit) \div 2, (3 * Unit * (num - 7 * den)) \div (10 * den))

\* What the shift is subtracted from: 0.4 of the scale factor's 3.2th, 0.6 of
\* the fixed table and the bias, halved in the high band.
Level(f, bias, i) ==
  LET fix == IF BfuToBand[i] \in f.short THEN FixedShort[i] ELSE FixedLong[i]
  IN (Unit * f.ScaleFactorIndex[i]) \div 8 + (3 * Unit * fix) \div 5
       + <<0, bias, bias \div 2>>[BfuToBand[i] + 1]

WordLength(level, shift) ==
  LET tmp == (level - shift) \div Unit
  IN IF tmp > 16 THEN 16 ELSE IF tmp < 2 THEN 0 ELSE tmp

CalcBitsAllocation(f, n, bias, shift) ==
  [i \in 0 .. n - 1 |->
     IF i \in f.quiet /\ BfuToBand[i] \notin f.short THEN 0
     ELSE WordLength(Level(f, bias, i), shift)]

\* bitsUsed of TBfuAlloc::Encode.
BitsUsed(a, n) == SumTo([i \in 0 .. n - 1 |-> SpecsPerBlock[i] * a[i]], n)

\* The mantissa bits of a unit: the rest of it codes the modes, the BFU amount,
\* and a word length and a scale factor for each BFU.
AvaliableWithoutModes(n) == SoundUnitSize * 8 - 3 - 2 - 3 - 10 * n

CalcAvaliableBitsForBfus(n) == SoundUnitSize * 8 - 3 - 32 - 2 - 3 - 10 * n

\* The number of BFUs, as an index of BfuAmountTab, that the words in use need.
GetMaxUsedBfuId(a) ==
  LET groups == {k \in 1 .. 7 : \E i \in DOMAIN a :
                   BfuAmountTab[k - 1] <= i /\ i < BfuAmountTab[k] /\ a[i] # 0}
  IN CHOOSE k \in groups \cup {0} : \A j \in groups : j <= k
-----------------------------------------------------------------------------
(***************************************************************************)
(* The parts under the engine                                              *)
(***************************************************************************)
Lambdas == -3 * Unit .. 15 * Unit

Engine == INSTANCE BsEncode WITH
            NumParts <- 2, AllocPart <- 1,
            LoLambda <- -3 * Unit, HiLambda <- 15 * Unit, Step <- 1,
            Costs <- [Lambdas -> Nat],
            Targets <- {CalcAvaliableBitsForBfus(n) : n \in Amounts},
            MaxRepeats <- 7

bfuNum == BfuAmountTab[BfuIdx]
Alloc(shift) == CalcBitsAllocation(frame, bfuNum, midBias, shift)

\* TAt1BitAlloc::Write, up to the engine's run.
BeginFrame ==
  /\ Engine!BeginRun
  /\ frame'  \in Frames
  /\ BfuIdx' = IF BfuIdxConst # 0 THEN BfuIdxConst - 1 ELSE 7
  /\ midBias' = MidBias(frame', bfuNum')
  /\ UNCHANGED <<BfuIdxConst, booster>>

Configure ==
  /\ TargetBits' = CalcAvaliableBitsForBfus(bfuNum)
  /\ cost' = [l \in Lambdas |-> BitsUsed(Alloc(l), bfuNum)]
  /\ Engine!EncodeConfigure
  /\ UNCHANGED <<BfuIdxConst, context, booster>>

\* TBfuAlloc::Encode while Submit asks for another shift.
Probe ==
  /\ Engine!EncodeAlloc /\ CurEncPos' = 1
  /\ UNCHANGED <<BfuIdxConst, context, booster>>

HasSilentTailOnce ==
  BfuIdxConst = 0 /\ repeats = 0 /\ GetMaxUsedBfuId(Alloc(Engine!DoContinue)) < BfuIdx

HasSilentTail == BfuIdxConst = 0 /\ GetMaxUsedBfuId(Alloc(Engine!DoContinue)) < BfuIdx

\* The search is over, but the last BFUs are silent: repeat with fewer.
GiveUpNothing ==
  /\ Engine!EncodeAlloc /\ CurEncPos' = 0
  /\ HasSilentTail
  /\ UNCHANGED <<BfuIdxConst, context, booster>>

GiveUpBfus ==
  /\ Engine!EncodeAlloc /\ CurEncPos' = 0
  /\ HasSilentTail
  /\ BfuIdx' = BfuIdx - 1
  /\ midBias' = MidBias(frame, bfuNum')
  /\ UNCHANGED <<BfuIdxConst, frame, booster>>

\* The search is over: keep the word lengths, and enter ApplyBoost if any BFU
\* it may raise is within the surplus.
Settle ==
  /\ Engine!EncodeAlloc /\ CurEncPos' = 2
  /\ ~HasSilentTail
  /\ BitsPerEachBlock' = Alloc(used')
  /\ surplus'  = CalcAvaliableBitsForBfus(bfuNum) - cost[used']
  /\ reach'    = {p \in Boosted : SpecsPerBlock[p] <= surplus'}
  /\ todo'     = reach'
  /\ raised'   = FALSE
  /\ boosting' = (reach' # {})
  /\ UNCHANGED <<BfuIdxConst, context>>
-----------------------------------------------------------------------------
(***************************************************************************)
(* TBitsBooster::ApplyBoost, one turn of its inner loop per step           *)
(***************************************************************************)

\* The multimap's order.
Before(p, q) ==
  \/ SpecsPerBlock[p] < SpecsPerBlock[q]
  \/ SpecsPerBlock[p] = SpecsPerBlock[q] /\ p < q

IsNext(p) == p \in todo /\ \A q \in todo \ {p} : Before(p, q)

\* A word length of one does not exist: the first raise is by two.
Raise(p) == IF BitsPerEachBlock[p] # 0 THEN 1 ELSE 2

CanRaiseUnchecked(p) == BitsPerEachBlock[p] # 16 /\ SpecsPerBlock[p] <= surplus

CanRaise(p) ==
  BitsPerEachBlock[p] # 16 /\ Raise(p) * SpecsPerBlock[p] <= surplus

Visit(p) ==
  /\ boosting /\ IsNext(p) /\ p < bfuNum
  /\ todo' = todo \ {p}
  /\ IF CanRaise(p)
     THEN /\ BitsPerEachBlock' = [BitsPerEachBlock EXCEPT ![p] = @ + Raise(p)]
          /\ surplus' = surplus - Raise(p) * SpecsPerBlock[p]
          /\ raised'  = TRUE
     ELSE UNCHANGED <<BitsPerEachBlock, surplus, raised>>
  /\ UNCHANGED <<engine, BfuIdxConst, context, reach, boosting>>

\* A pass ends with the map, or at the first BFU the frame does not have. There
\* is another one if this one raised something and some bits are left.
EndPassOnce ==
  /\ boosting /\ \A p \in todo : IsNext(p) => p >= bfuNum
  /\ todo' = reach /\ raised' = FALSE
  /\ boosting' = FALSE
  /\ UNCHANGED <<engine, BfuIdxConst, context, BitsPerEachBlock, surplus, reach>>

EndPass ==
  /\ boosting /\ \A p \in todo : IsNext(p) => p >= bfuNum
  /\ todo' = reach /\ raised' = FALSE
  /\ boosting' = (raised /\ \E p \in Boosted : SpecsPerBlock[p] <= surplus)
  /\ UNCHANGED <<engine, BfuIdxConst, context, BitsPerEachBlock, surplus, reach>>

Boost == EndPass \/ \E p \in todo : Visit(p)

\* Both parts' Dump, the frame going to the container.
Dump ==
  /\ Engine!Dump /\ ~boosting
  /\ UNCHANGED <<BfuIdxConst, context, booster>>

Init ==
  /\ TargetBits = CalcAvaliableBitsForBfus(BfuAmountTab[7])
  /\ cost = [l \in Lambdas |-> 0]
  /\ Engine!Init
  /\ BfuIdxConst \in BfuIdxConsts
  /\ frame = CHOOSE f \in Frames : TRUE   \* there is none yet
  /\ BfuIdx = 0 /\ midBias = 0
  /\ BitsPerEachBlock = << >> /\ surplus = 0
  /\ reach = {} /\ todo = {} /\ raised = FALSE /\ boosting = FALSE

Encode == Configure \/ Probe \/ GiveUpBfus \/ Settle \/ Boost
Next   == BeginFrame \/ Encode \/ Dump

\* Write is one synchronous call.
Spec == Init /\ [][Next]_vars /\ WF_vars(Encode \/ Dump)
-----------------------------------------------------------------------------
\* The frame is encoded and about to be dumped.
Ready == running /\ CurEncPos = 2 /\ ~boosting

\* Types. No word is one bit long, or longer than its four-bit code can say.
TypeOK ==
  /\ BfuIdxConst \in BfuIdxConsts /\ frame \in Frames /\ BfuIdx \in 0 .. 7
  /\ midBias \in 0 .. (3 * Unit) \div 2
  /\ surplus \in Int /\ raised \in BOOLEAN /\ boosting \in BOOLEAN
  /\ todo \subseteq reach /\ reach \subseteq Boosted
  /\ running /\ CurEncPos = 2 =>
       BitsPerEachBlock \in [0 .. bfuNum - 1 -> 0 .. 16 \ {1}]

\* The unsigned surplus starts out and stays at what the words leave of the
\* budget: the search never hands ApplyBoost a frame over budget, on which it
\* would wrap, and a boost is charged in full.
SurplusIsExact ==
  running /\ CurEncPos = 2 =>
    /\ surplus >= 0
    /\ BitsUsed(BitsPerEachBlock, bfuNum) + surplus = CalcAvaliableBitsForBfus(bfuNum)

\* The bits TBfuAlloc::Dump writes: the modes, the BFU amount, the reserved
\* bits, word lengths, scale factors, words longer than one bit and a trailer.
Written(a, n) ==
  SumTo([i \in 0 .. n - 1 |-> IF a[i] \in {0, 1} THEN 0 ELSE SpecsPerBlock[i] * a[i]], n)
DumpedBits == 8 + 3 + 5 + 10 * bfuNum + Written(BitsPerEachBlock, bfuNum) + 24

\* Whatever the frame, what is dumped fits the container's fixed sound unit,
\* through any number of repeats, and after boosting.
FitsUnit == Ready => DumpedBits <= 8 * SoundUnitSize

\* Boosting stops only once no BFU that it may raise can be raised any more.
BoostIsMaximal == Ready => \A p \in Boosted : p < bfuNum => ~CanRaise(p)

\* An automatic choice codes no group of BFUs at the end that is silent.
NoSilentTail ==
  running /\ CurEncPos = 2 /\ BfuIdxConst = 0 /\ BfuIdx > 0 =>
    \E i \in BfuAmountTab[BfuIdx - 1] .. bfuNum - 1 : Alloc(used)[i] # 0

\* A frame that was begun is written: neither the search, nor giving up BFUs,
\* which starts it over, nor boosting goes on for ever.
FrameIsWritten == running ~> ~running
=============================================================================
