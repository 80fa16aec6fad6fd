-------------------------- MODULE At1BitAlloc_proofs --------------------------
(***************************************************************************)
(* Proofs about At1BitAlloc, for any tables, frames and sizes that its     *)
(* assumptions allow. That the search ends on a shift that fits is proved  *)
(* for the engine, in BsEncode_proofs, and is used here through the fact   *)
(* that the writer's steps are the engine's.                               *)
(***************************************************************************)
EXTENDS At1BitAlloc, Sums_proofs

Search == INSTANCE BsEncode_proofs WITH
            NumParts <- 2, AllocPart <- 1,
            LoLambda <- -3 * Unit, HiLambda <- 15 * Unit, Step <- 1,
            Costs <- [Lambdas -> Nat],
            Targets <- {CalcAvaliableBitsForBfus(n) : n \in Amounts},
            MaxRepeats <- 7

-----------------------------------------------------------------------------
(***************************************************************************)
(* Arithmetic of the word lengths                                          *)
(***************************************************************************)
LEMMA Scaling ==
  ASSUME NEW u \in Nat, NEW a \in Nat, NEW b \in Nat, a <= b
  PROVE  u * a <= u * b
OBVIOUS

LEMMA Quotient ==
  ASSUME NEW u \in Nat \ {0}, NEW a \in Int, a < 2 * u
  PROVE  a \div u \in Int /\ a \div u < 2
OBVIOUS

\* A scale factor, a fixed amount and a bias never add up to 17 bits.
LEMMA LevelBound ==
  ASSUME NEW f \in Frames, NEW bias \in 0 .. (3 * Unit) \div 2, NEW i \in BFUs
  PROVE  Level(f, bias, i) \in Int /\ Level(f, bias, i) < 17 * Unit
<1> USE UnitAssumption
<1> DEFINE fix == IF BfuToBand[i] \in f.short THEN FixedShort[i] ELSE FixedLong[i]
           sf  == f.ScaleFactorIndex[i]
           b   == <<0, bias, bias \div 2>>[BfuToBand[i] + 1]
<1>1. fix \in 0 .. 7 /\ BfuToBand[i] \in 0 .. 2
  BY TableAssumption
<1>2. sf \in 0 .. 63
  BY FrameAssumption
<1>3. b \in Int /\ b <= (3 * Unit) \div 2
  <2>1. BfuToBand[i] + 1 \in {1, 2, 3}
    BY <1>1
  <2>2. b \in {0, bias, bias \div 2}
    BY <2>1
  <2>3. bias \in Int /\ 0 <= bias /\ bias <= (3 * Unit) \div 2
    OBVIOUS
  <2> QED
    BY <2>2, <2>3
<1>4. Level(f, bias, i) = (Unit * sf) \div 8 + (3 * Unit * fix) \div 5 + b
  BY DEF Level
<1> HIDE DEF fix, sf, b
<1>5. Unit * sf <= Unit * 63 /\ Unit * sf \in Nat
  BY <1>2, Scaling
<1>6. (3 * Unit) * fix <= (3 * Unit) * 7 /\ (3 * Unit) * fix \in Nat
  <2>1. 3 * Unit \in Nat /\ fix \in Nat /\ fix <= 7
    BY <1>1
  <2> QED
    BY <2>1, Scaling
<1> DEFINE x == Unit * sf
           y == 3 * Unit * fix
<1>7. x \in Nat /\ x <= 63 * Unit
  BY <1>5
<1>8. y \in Nat /\ y <= 21 * Unit
  BY <1>6
<1>9. Level(f, bias, i) = x \div 8 + y \div 5 + b
  BY <1>4
<1> HIDE DEF x, y
<1> QED
  BY <1>3, <1>7, <1>8, <1>9

LEMMA WordType ==
  ASSUME NEW level \in Int, NEW shift \in Int
  PROVE  WordLength(level, shift) \in (0 .. 16) \ {1}
<1>1. (level - shift) \div Unit \in Int
  BY UnitAssumption
<1> QED
  BY <1>1 DEF WordLength

LEMMA AmountType ==
  \A k \in 0 .. 7 : /\ BfuAmountTab[k] \in Amounts
                    /\ BfuAmountTab[k] \in Nat /\ BfuAmountTab[k] <= MaxBfus
                    /\ 0 .. BfuAmountTab[k] - 1 \subseteq BFUs
<1> TAKE k \in 0 .. 7
<1>1. BfuAmountTab[k] \in 0 .. MaxBfus /\ MaxBfus \in Nat
  BY TableAssumption
<1>2. BfuAmountTab[k] \in Amounts
  BY DEF Amounts
<1> QED
  BY <1>1, <1>2 DEF BFUs

LEMMA AllocType ==
  ASSUME NEW f \in Frames, NEW k \in 0 .. 7, NEW bias \in 0 .. (3 * Unit) \div 2,
         NEW shift \in Int
  PROVE  CalcBitsAllocation(f, BfuAmountTab[k], bias, shift)
           \in [0 .. BfuAmountTab[k] - 1 -> (0 .. 16) \ {1}]
<1>1. ASSUME NEW i \in 0 .. BfuAmountTab[k] - 1
      PROVE  WordLength(Level(f, bias, i), shift) \in (0 .. 16) \ {1}
  <2>1. i \in BFUs
    BY AmountType
  <2> QED
    BY <2>1, LevelBound, WordType
<1>2. 0 \in (0 .. 16) \ {1}
  OBVIOUS
<1> QED
  BY <1>1, <1>2 DEF CalcBitsAllocation

\* At the coarsest shift no BFU gets any bits.
LEMMA CoarsestIsSilent ==
  ASSUME NEW f \in Frames, NEW k \in 0 .. 7, NEW bias \in 0 .. (3 * Unit) \div 2
  PROVE  BitsUsed(CalcBitsAllocation(f, BfuAmountTab[k], bias, 15 * Unit), BfuAmountTab[k]) = 0
<1> DEFINE n == BfuAmountTab[k]
           a == CalcBitsAllocation(f, n, bias, 15 * Unit)
<1>1. ASSUME NEW i \in 0 .. n - 1 PROVE a[i] = 0
  <2>1. i \in BFUs
    BY AmountType
  <2>2. Level(f, bias, i) \in Int /\ Level(f, bias, i) < 17 * Unit
    BY <2>1, LevelBound
  <2>3. Level(f, bias, i) - 15 * Unit \in Int /\ Level(f, bias, i) - 15 * Unit < 2 * Unit
    BY <2>2, UnitAssumption
  <2>4. WordLength(Level(f, bias, i), 15 * Unit) = 0
    BY <2>3, Quotient, UnitAssumption DEF WordLength
  <2> QED
    BY <2>4 DEF CalcBitsAllocation
<1> HIDE DEF a
<1>2. n \in Nat
  BY AmountType
<1>3. \A i \in 0 .. n - 1 : SpecsPerBlock[i] \in Nat
  BY AmountType, TableAssumption
<1>4. \A i \in 0 .. n - 1 : SpecsPerBlock[i] * a[i] = 0
  BY <1>1, <1>3
<1> DEFINE g == [i \in 0 .. n - 1 |-> SpecsPerBlock[i] * a[i]]
<1>5. \A i \in 0 .. n - 1 : g[i] = 0
  BY <1>4
<1> HIDE DEF g
<1>6. SumTo(g, n) = 0
  BY <1>2, <1>5, SumZero
<1> QED
  BY <1>6 DEF BitsUsed, g, a

LEMMA BitsNat ==
  ASSUME NEW k \in 0 .. 7, NEW a \in [0 .. BfuAmountTab[k] - 1 -> Nat]
  PROVE  BitsUsed(a, BfuAmountTab[k]) \in Nat
<1> DEFINE n == BfuAmountTab[k]
           g == [i \in 0 .. n - 1 |-> SpecsPerBlock[i] * a[i]]
<1>1. n \in Nat
  BY AmountType
<1>2. \A i \in 0 .. n - 1 : SpecsPerBlock[i] \in Nat /\ a[i] \in Nat
  BY AmountType, TableAssumption
<1>3. \A i \in 0 .. n - 1 : g[i] \in Nat
  BY <1>2
<1> HIDE DEF g
<1>4. SumTo(g, n) \in Nat
  BY <1>1, <1>3, SumNat
<1> QED
  BY <1>4 DEF BitsUsed, g

\* Raising the words of BFU p by r costs r bits for each of its lines.
LEMMA RaiseCosts ==
  ASSUME NEW k \in 0 .. 7, NEW a \in [0 .. BfuAmountTab[k] - 1 -> Nat],
         NEW p \in 0 .. BfuAmountTab[k] - 1, NEW r \in {1, 2}
  PROVE  BitsUsed([a EXCEPT ![p] = @ + r], BfuAmountTab[k])
           = BitsUsed(a, BfuAmountTab[k]) + r * SpecsPerBlock[p]
<1> DEFINE n == BfuAmountTab[k]
           b == [a EXCEPT ![p] = @ + r]
           g == [i \in 0 .. n - 1 |-> SpecsPerBlock[i] * a[i]]
           h == [i \in 0 .. n - 1 |-> SpecsPerBlock[i] * b[i]]
           d == r * SpecsPerBlock[p]
<1>1. n \in Nat
  BY AmountType
<1>2. \A i \in 0 .. n - 1 : SpecsPerBlock[i] \in Nat /\ a[i] \in Nat
  BY AmountType, TableAssumption
<1>3. d \in Nat
  BY <1>2
<1>4. \A i \in 0 .. n - 1 : g[i] \in Nat
  BY <1>2
<1>5. h[p] = g[p] + d
  <2>1. b[p] = a[p] + r /\ SpecsPerBlock[p] \in Nat /\ a[p] \in Nat
    BY <1>2
  <2>2. SpecsPerBlock[p] * (a[p] + r) = SpecsPerBlock[p] * a[p] + r * SpecsPerBlock[p]
    BY <2>1
  <2> QED
    BY <2>1, <2>2
<1>6. \A i \in 0 .. n - 1 : i # p => h[i] = g[i]
  OBVIOUS
<1>7. BitsUsed(b, n) = SumTo(h, n) /\ BitsUsed(a, n) = SumTo(g, n)
  BY DEF BitsUsed
<1>8. p \in 0 .. n - 1
  OBVIOUS
<1> HIDE DEF n, g, h, d, b
<1>9. SumTo(h, n) = SumTo(g, n) + d
  BY <1>1, <1>3, <1>4, <1>5, <1>6, <1>8, SumUpdate
<1> QED
  BY <1>7, <1>9 DEF n, d, b

LEMMA BiasBound ==
  ASSUME NEW f \in Frames, NEW k \in 0 .. 7
  PROVE  MidBias(f, BfuAmountTab[k]) \in 0 .. (3 * Unit) \div 2
<1> USE UnitAssumption
<1> DEFINE n   == BfuAmountTab[k]
           low == Cardinality(InBand(0, n))
           mid == Cardinality(InBand(1, n))
           num == BandSum(f, 0, n) * mid - BandSum(f, 1, n) * low
           den == low * mid
           cap == (3 * Unit) \div 2
           lin == 3 * Unit * (num - 7 * den)
           quo == lin \div (10 * den)
<1>1. low \in Nat /\ mid \in Nat
  <2>0. 0 \in Int /\ n - 1 \in Int
    BY AmountType
  <2>1. IsFiniteSet(0 .. n - 1)
    BY <2>0, FS_Interval
  <2>2. InBand(0, n) \subseteq 0 .. n - 1 /\ InBand(1, n) \subseteq 0 .. n - 1
    BY DEF InBand
  <2> QED
    BY <2>1, <2>2, FS_Subset, FS_CardinalityType
<1>2. ASSUME NEW b \in {0, 1} PROVE BandSum(f, b, n) \in Nat
  <2> DEFINE g == [i \in BFUs |-> IF BfuToBand[i] = b THEN f.ScaleFactorIndex[i] ELSE 0]
  <2>1. n \in Nat /\ \A i \in 0 .. n - 1 : i \in BFUs
    BY AmountType
  <2>2. \A i \in BFUs : f.ScaleFactorIndex[i] \in Nat
    BY FrameAssumption
  <2>3. \A i \in 0 .. n - 1 : g[i] \in Nat
    BY <2>1, <2>2
  <2> HIDE DEF g
  <2>4. SumTo(g, n) \in Nat
    BY <2>1, <2>3, SumNat
  <2> QED
    BY <2>4 DEF BandSum, g
<1>3. num \in Int /\ den \in Nat
  BY <1>1, <1>2
<1>4. MidBias(f, n) = IF den = 0 \/ num <= 7 * den THEN 0 ELSE MinOf(cap, quo)
  BY DEF MidBias
<1>5. cap \in Nat
  OBVIOUS
<1> HIDE DEF n, low, mid, num, den, quo, cap
<1>6. CASE den # 0 /\ num > 7 * den
  <2>1. num - 7 * den \in Nat /\ 3 * Unit \in Nat /\ 10 * den \in Nat \ {0}
    BY <1>3, <1>6
  <2>2. lin \in Nat
    BY <2>1
  <2> HIDE DEF lin
  <2>3. quo \in Nat
    BY <2>1, <2>2 DEF quo
  <2>4. MinOf(cap, quo) \in 0 .. cap
    BY <1>5, <2>3 DEF MinOf
  <2> QED
    BY <1>4, <1>6, <2>4 DEF cap, n
<1>7. CASE ~ (den # 0 /\ num > 7 * den)
  <2>1. den = 0 \/ num <= 7 * den
    BY <1>3, <1>7
  <2>2. MidBias(f, n) = 0
    BY <1>4, <2>1
  <2> QED
    BY <1>5, <2>2 DEF cap, n
<1> QED
  BY <1>6, <1>7
-----------------------------------------------------------------------------
(***************************************************************************)
(* The writer's steps are the engine's                                     *)
(***************************************************************************)
LEMMA EngineNext == Engine!Next = Search!Next
BY DEF Engine!Next, Engine!Encode, Engine!BeginRun, Engine!EncodeConfigure,
       Engine!EncodeAlloc, Engine!EncodeOther, Engine!Dump, Engine!GoTo, Engine!Encoded,
       Engine!NextPart, Engine!RepeatPass, Engine!DoStart, Engine!DoContinue,
       Engine!DoSubmit, Engine!NeedRepeat, Engine!Converged, Engine!Parts, Engine!search,
       Search!Next, Search!Encode, Search!BeginRun, Search!EncodeConfigure,
       Search!EncodeAlloc, Search!EncodeOther, Search!Dump, Search!GoTo, Search!Encoded,
       Search!NextPart, Search!RepeatPass, Search!DoStart, Search!DoContinue,
       Search!DoSubmit, Search!NeedRepeat, Search!Converged, Search!Parts, Search!search

LEMMA EngineInit == Engine!Init = Search!Init
BY DEF Engine!Init, Search!Init

LEMMA EngineStep == [Next]_vars => [Search!Next]_(Search!vars)
<1> SUFFICES ASSUME [Next]_vars PROVE [Engine!Next]_engine
  BY EngineNext DEF engine, search, Search!vars, Search!search
<1>1. CASE BeginFrame \/ Dump
  BY <1>1 DEF BeginFrame, Dump, Engine!Next
<1>2. CASE Configure
  BY <1>2 DEF Configure, Engine!Next, Engine!Encode
<1>3. CASE Probe \/ GiveUpBfus \/ Settle
  BY <1>3 DEF Probe, GiveUpBfus, Settle, Engine!Next, Engine!Encode
<1>4. CASE Boost
  BY <1>4 DEF Boost, EndPass, Visit
<1>5. CASE UNCHANGED vars
  BY <1>5 DEF vars
<1> QED
  BY <1>1, <1>2, <1>3, <1>4, <1>5 DEF Next, Encode

\* Whoever follows the writer sees the engine at work, with its two parts.
THEOREM RunsTheEngine == Spec => Search!Spec
<1>1. Init => Search!Init
  BY EngineInit DEF Init
<1> QED
  BY <1>1, EngineStep, PTL DEF Spec, Search!Spec

LEMMA SearchAssumptions ==
  /\ Search!PartsAssumption /\ Search!RangeAssumption
  /\ Search!CostAssumption /\ Search!BoundAssumption
<1>1. Search!PartsAssumption /\ Search!RangeAssumption
  BY UnitAssumption DEF Search!PartsAssumption, Search!RangeAssumption
<1>2. Search!CostAssumption
  <2>1. \A n \in Amounts : CalcAvaliableBitsForBfus(n) \in Nat
    <3> TAKE n \in Amounts
    <3>1. n \in Nat
      BY TableAssumption DEF Amounts
    <3>2. 8 * SoundUnitSize >= 40 + 10 * n
      BY UnitAssumption
    <3> QED
      BY <3>1, <3>2, UnitAssumption DEF CalcAvaliableBitsForBfus
  <2> QED
    BY <2>1 DEF Search!CostAssumption, Search!Lambdas, Lambdas
<1>3. Search!BoundAssumption
  BY RunAssumption DEF Search!BoundAssumption
<1> QED
  BY <1>1, <1>2, <1>3

\* So what the engine keeps invariant holds here.
LEMMA SearchInvariance == Spec => []Search!IInv
BY RunsTheEngine, SearchAssumptions, Search!Invariance, PTL

-----------------------------------------------------------------------------
(***************************************************************************)
(* The writer's own state, relative to the engine's invariant              *)
(***************************************************************************)
ContextInv ==
  /\ BfuIdxConst \in BfuIdxConsts /\ frame \in Frames /\ BfuIdx \in 0 .. 7
  /\ midBias \in 0 .. (3 * Unit) \div 2

BoosterInv ==
  /\ surplus \in Int /\ raised \in BOOLEAN /\ boosting \in BOOLEAN
  /\ todo \subseteq reach /\ reach \subseteq Boosted
  /\ boosting => running /\ CurEncPos = 2

\* Behind the configuring part the search is about the frame as it stands.
CurveInv ==
  running /\ CurEncPos # 0 =>
    /\ TargetBits = CalcAvaliableBitsForBfus(bfuNum)
    /\ cost = [l \in Lambdas |-> BitsUsed(Alloc(l), bfuNum)]

WordsInv ==
  running /\ CurEncPos = 2 => BitsPerEachBlock \in [0 .. bfuNum - 1 -> (0 .. 16) \ {1}]

OwnInv == ContextInv /\ BoosterInv /\ CurveInv /\ WordsInv /\ SurplusIsExact

LEMMA InitOwnInv == Init => OwnInv
<1> SUFFICES ASSUME Init PROVE OwnInv
  OBVIOUS
<1>1. running = FALSE
  BY DEF Init, Engine!Init
<1>2. frame \in Frames
  BY FrameAssumption DEF Init
<1>3. 0 \in 0 .. (3 * Unit) \div 2
  BY UnitAssumption
<1>4. raised = FALSE /\ boosting = FALSE
  BY DEF Init
<1>5. raised \in BOOLEAN /\ boosting \in BOOLEAN
  BY <1>4
<1>6. ContextInv
  BY <1>2, <1>3 DEF Init, ContextInv
<1>7. BoosterInv
  BY <1>1, <1>4, <1>5 DEF Init, BoosterInv
<1> QED
  BY <1>1, <1>6, <1>7 DEF OwnInv, CurveInv, WordsInv, SurplusIsExact

\* What the engine's invariant says here.
LEMMA EngineFacts ==
  ASSUME Search!IInv
  PROVE  /\ ~running => RepeatEncPos = 0
         /\ CurEncPos \in 0 .. 2 /\ used \in Lambdas
         /\ running /\ CurEncPos = 2 => cost[used] <= TargetBits \/ used = 15 * Unit
BY DEF Search!IInv, Search!TypeOK, Search!RangeInv, Search!AllocFits, Search!Settled,
       Search!Lambdas, Lambdas

LEMMA BeginFrameOwn ==
  ASSUME OwnInv, Search!IInv, BeginFrame PROVE OwnInv'
<1>1. /\ CurEncPos' = 0
      /\ frame' \in Frames /\ UNCHANGED <<BfuIdxConst, booster>>
      /\ BfuIdx' = (IF BfuIdxConst # 0 THEN BfuIdxConst - 1 ELSE 7)
      /\ midBias' = MidBias(frame', bfuNum') /\ ~running
  BY EngineFacts DEF BeginFrame, Engine!BeginRun, Engine!GoTo
<1>2. BfuIdx' \in 0 .. 7
  <2>1. BfuIdxConst \in 0 .. 8
    BY RunAssumption DEF OwnInv, ContextInv
  <2> QED
    BY <1>1, <2>1
<1>3. midBias' \in 0 .. (3 * Unit) \div 2
  BY <1>1, <1>2, BiasBound DEF bfuNum
<1>4. ContextInv'
  BY <1>1, <1>2, <1>3 DEF OwnInv, ContextInv
<1>5. BoosterInv'
  <2>1. ~boosting
    BY <1>1 DEF OwnInv, BoosterInv
  <2> QED
    BY <1>1, <2>1 DEF OwnInv, BoosterInv, booster
<1> QED
  BY <1>1, <1>4, <1>5 DEF OwnInv, CurveInv, WordsInv, SurplusIsExact

LEMMA ConfigureOwn ==
  ASSUME OwnInv, Configure PROVE OwnInv'
<1>1. /\ running /\ running' /\ CurEncPos = 0 /\ CurEncPos' = 1
      /\ TargetBits' = CalcAvaliableBitsForBfus(bfuNum)
      /\ cost' = [l \in Lambdas |-> BitsUsed(Alloc(l), bfuNum)]
      /\ UNCHANGED <<BfuIdxConst, context, booster>>
  BY DEF Configure, Engine!EncodeConfigure, Engine!NextPart, Engine!GoTo
<1>2. ContextInv'
  BY <1>1 DEF OwnInv, ContextInv, context
<1>3. BoosterInv'
  <2>1. ~boosting
    BY <1>1 DEF OwnInv, BoosterInv
  <2> QED
    BY <1>1, <2>1 DEF OwnInv, BoosterInv, booster
<1>4. bfuNum' = bfuNum /\ \A l : Alloc(l)' = Alloc(l)
  BY <1>1 DEF context, bfuNum, Alloc
<1>5. CurveInv'
  BY <1>1, <1>4 DEF CurveInv
<1> QED
  BY <1>1, <1>2, <1>3, <1>5 DEF OwnInv, WordsInv, SurplusIsExact

\* The allocating part runs at the shift the engine hands out, and leaves the
\* budget and the cost curve alone.
LEMMA AllocFacts ==
  ASSUME Engine!EncodeAlloc
  PROVE  /\ running /\ running' /\ CurEncPos = 1
         /\ cost' = cost /\ TargetBits' = TargetBits
BY DEF Engine!EncodeAlloc, Engine!DoSubmit, Engine!search

LEMMA ProbeOwn ==
  ASSUME OwnInv, Probe PROVE OwnInv'
<1>1. /\ running /\ running' /\ CurEncPos = 1 /\ CurEncPos' = 1
      /\ cost' = cost /\ TargetBits' = TargetBits
      /\ UNCHANGED <<BfuIdxConst, context, booster>>
  BY AllocFacts DEF Probe
<1>2. ContextInv'
  BY <1>1 DEF OwnInv, ContextInv, context
<1>3. BoosterInv'
  <2>1. ~boosting
    BY <1>1 DEF OwnInv, BoosterInv
  <2> QED
    BY <1>1, <2>1 DEF OwnInv, BoosterInv, booster
<1>4. bfuNum' = bfuNum /\ \A l : Alloc(l)' = Alloc(l)
  BY <1>1 DEF context, bfuNum, Alloc
<1>5. CurveInv'
  BY <1>1, <1>4 DEF OwnInv, CurveInv
<1> QED
  BY <1>1, <1>2, <1>3, <1>5 DEF OwnInv, WordsInv, SurplusIsExact

LEMMA GiveUpBfusOwn ==
  ASSUME OwnInv, GiveUpBfus PROVE OwnInv'
<1>1. /\ CurEncPos = 1 /\ CurEncPos' = 0 /\ HasSilentTail
      /\ BfuIdx' = BfuIdx - 1 /\ midBias' = MidBias(frame, bfuNum')
      /\ UNCHANGED <<BfuIdxConst, frame, booster>>
  BY AllocFacts DEF GiveUpBfus
<1>2. BfuIdx' \in 0 .. 7
  <2> DEFINE a      == Alloc(Engine!DoContinue)
             groups == {k \in 1 .. 7 : \E i \in DOMAIN a :
                          BfuAmountTab[k - 1] <= i /\ i < BfuAmountTab[k] /\ a[i] # 0}
  <2>1. GetMaxUsedBfuId(a) < BfuIdx /\ BfuIdx \in 0 .. 7
    BY <1>1 DEF HasSilentTail, OwnInv, ContextInv
  <2>2. GetMaxUsedBfuId(a) \in 0 .. 7
    <3>1. GetMaxUsedBfuId(a) = CHOOSE k \in groups \cup {0} : \A j \in groups : j <= k
      BY DEF GetMaxUsedBfuId
    <3>2. groups \subseteq 1 .. 7
      OBVIOUS
    <3> HIDE DEF groups
    <3>3. \E k \in groups \cup {0} : \A j \in groups : j <= k
      BY <3>2
    <3>4. GetMaxUsedBfuId(a) \in groups \cup {0}
      BY <3>1, <3>3
    <3>5. groups \cup {0} \subseteq 0 .. 7
      BY <3>2
    <3> QED
      BY <3>4, <3>5, Zenon
  <2> QED
    BY <1>1, <2>1, <2>2
<1>3. midBias' \in 0 .. (3 * Unit) \div 2
  BY <1>1, <1>2, BiasBound DEF bfuNum, OwnInv, ContextInv
<1>4. ContextInv'
  BY <1>1, <1>2, <1>3 DEF OwnInv, ContextInv
<1>5. BoosterInv'
  <2>1. ~boosting
    BY <1>1 DEF OwnInv, BoosterInv
  <2> QED
    BY <1>1, <2>1 DEF OwnInv, BoosterInv, booster
<1> QED
  BY <1>1, <1>4, <1>5 DEF OwnInv, CurveInv, WordsInv, SurplusIsExact

LEMMA AvailableIsNat ==
  ASSUME NEW k \in 0 .. 7
  PROVE  /\ CalcAvaliableBitsForBfus(BfuAmountTab[k]) \in Nat
         /\ CalcAvaliableBitsForBfus(BfuAmountTab[k]) = 8 * SoundUnitSize - 40 - 10 * BfuAmountTab[k]
<1>1. BfuAmountTab[k] \in Nat /\ BfuAmountTab[k] \in Amounts
  BY AmountType
<1>2. 8 * SoundUnitSize >= 40 + 10 * BfuAmountTab[k] /\ SoundUnitSize \in Nat
  BY <1>1, UnitAssumption
<1> QED
  BY <1>1, <1>2 DEF CalcAvaliableBitsForBfus

LEMMA SettleOwn ==
  ASSUME OwnInv, Search!IInv, Search!IInv', Settle PROVE OwnInv'
<1> DEFINE n == bfuNum
           u == used'
<1>1. /\ running /\ running' /\ CurEncPos = 1 /\ CurEncPos' = 2
      /\ cost' = cost /\ TargetBits' = TargetBits
      /\ BitsPerEachBlock' = Alloc(u)
      /\ surplus' = CalcAvaliableBitsForBfus(n) - cost[u]
      /\ reach' = {p \in Boosted : SpecsPerBlock[p] <= surplus'}
      /\ todo' = reach' /\ raised' = FALSE /\ boosting' = (reach' # {})
      /\ UNCHANGED <<BfuIdxConst, context>>
  BY AllocFacts DEF Settle
<1>2. u \in Lambdas /\ (cost'[u] <= TargetBits' \/ u = 15 * Unit)
  <2>1. /\ used' \in Lambdas
        /\ running' /\ CurEncPos' = 2 => cost'[used'] <= TargetBits' \/ used' = 15 * Unit
    BY DEF Search!IInv, Search!TypeOK, Search!AllocFits, Search!Settled, Search!Lambdas, Lambdas
  <2> QED
    BY <1>1, <2>1
<1>3. bfuNum' = bfuNum /\ \A l : Alloc(l)' = Alloc(l)
  BY <1>1 DEF context, bfuNum, Alloc
<1>4. TargetBits = CalcAvaliableBitsForBfus(n) /\ cost = [l \in Lambdas |-> BitsUsed(Alloc(l), n)]
  BY <1>1 DEF OwnInv, CurveInv
<1>5. BfuIdx \in 0 .. 7 /\ frame \in Frames /\ midBias \in 0 .. (3 * Unit) \div 2
  BY DEF OwnInv, ContextInv
<1>6. u \in Int
  BY <1>2, UnitAssumption DEF Lambdas
<1>7. Alloc(u) \in [0 .. n - 1 -> (0 .. 16) \ {1}]
  BY <1>5, <1>6, AllocType DEF Alloc, bfuNum
<1>8. BitsUsed(Alloc(u), n) \in Nat
  <2>1. Alloc(u) \in [0 .. n - 1 -> Nat]
    BY <1>7
  <2> QED
    BY <1>5, <2>1, BitsNat DEF bfuNum
<1>9. cost[u] = BitsUsed(Alloc(u), n)
  BY <1>2, <1>4
<1>10. CalcAvaliableBitsForBfus(n) \in Nat
  BY <1>5, AvailableIsNat DEF bfuNum
<1>11. BitsUsed(Alloc(u), n) <= CalcAvaliableBitsForBfus(n)
  <2>1. CASE cost'[u] <= TargetBits'
    BY <1>1, <1>4, <1>9, <2>1
  <2>2. CASE u = 15 * Unit
    <3>1. BitsUsed(Alloc(u), n) = 0
      BY <1>5, <2>2, CoarsestIsSilent DEF Alloc, bfuNum
    <3> QED
      BY <1>10, <3>1
  <2> QED
    BY <1>2, <2>1, <2>2
<1>12. SurplusIsExact'
  BY <1>1, <1>3, <1>8, <1>9, <1>10, <1>11 DEF SurplusIsExact
<1>13. WordsInv'
  BY <1>1, <1>3, <1>7 DEF WordsInv
<1>14. BoosterInv'
  <2>1. surplus' \in Int
    BY <1>1, <1>8, <1>9, <1>10
  <2>2. raised' \in BOOLEAN /\ boosting' \in BOOLEAN
    BY <1>1
  <2> QED
    BY <1>1, <2>1, <2>2 DEF BoosterInv
<1>15. ContextInv'
  BY <1>1 DEF OwnInv, ContextInv, context
<1>16. CurveInv'
  BY <1>1, <1>3, <1>4 DEF CurveInv
<1> QED
  BY <1>12, <1>13, <1>14, <1>15, <1>16 DEF OwnInv

\* Steps of the booster see the frame, the engine and the context unchanged.
LEMMA BoosterFrame ==
  ASSUME OwnInv, UNCHANGED <<engine, BfuIdxConst, context>>
  PROVE  /\ ContextInv' /\ CurveInv' /\ bfuNum' = bfuNum
         /\ running' = running /\ CurEncPos' = CurEncPos
<1>1. bfuNum' = bfuNum /\ \A l : Alloc(l)' = Alloc(l)
  BY DEF context, bfuNum, Alloc
<1> QED
  BY <1>1 DEF OwnInv, ContextInv, CurveInv, context, engine, search

LEMMA VisitOwn ==
  ASSUME OwnInv, NEW p \in todo, Visit(p) PROVE OwnInv'
<1> DEFINE n == bfuNum
           a == BitsPerEachBlock
           r == Raise(p)
<1>1. /\ boosting /\ p < n
      /\ todo' = todo \ {p}
      /\ UNCHANGED <<engine, BfuIdxConst, context, reach, boosting>>
  BY DEF Visit
<1>2. /\ ContextInv' /\ CurveInv' /\ bfuNum' = bfuNum
      /\ running' = running /\ CurEncPos' = CurEncPos
  BY <1>1, BoosterFrame
<1>3. running /\ CurEncPos = 2
  BY <1>1 DEF OwnInv, BoosterInv
<1>4. /\ a \in [0 .. n - 1 -> (0 .. 16) \ {1}] /\ surplus \in Int /\ surplus >= 0
      /\ BitsUsed(a, n) + surplus = CalcAvaliableBitsForBfus(n) /\ BfuIdx \in 0 .. 7
  BY <1>3 DEF OwnInv, WordsInv, BoosterInv, SurplusIsExact, ContextInv
<1>5. p \in 0 .. n - 1 /\ SpecsPerBlock[p] \in Nat /\ n \in Nat
  <2>1. p \in BFUs
    BY TableAssumption DEF OwnInv, BoosterInv
  <2>2. n \in Nat
    BY <1>4, AmountType DEF bfuNum
  <2>3. p \in Nat
    BY <2>1 DEF BFUs
  <2>4. SpecsPerBlock[p] \in Nat
    BY <2>1, TableAssumption
  <2> HIDE DEF n
  <2> QED
    BY <1>1, <2>2, <2>3, <2>4
<1>6. a[p] \in (0 .. 16) \ {1}
  BY <1>4, <1>5
<1>7. r \in {1, 2} /\ (a[p] = 0 => r = 2) /\ (a[p] # 0 => r = 1)
  BY DEF Raise
<1>8. CASE CanRaise(p)
  <2>1. /\ BitsPerEachBlock' = [a EXCEPT ![p] = @ + r]
        /\ surplus' = surplus - r * SpecsPerBlock[p] /\ raised' = TRUE
    BY <1>8 DEF Visit
  <2>2. a[p] # 16 /\ r * SpecsPerBlock[p] <= surplus
    BY <1>8 DEF CanRaise
  <2>3. r * SpecsPerBlock[p] \in Nat
    BY <1>5, <1>7
  <2>4. a[p] + r \in (0 .. 16) \ {1}
    BY <1>6, <1>7, <2>2
  <2>5. BitsPerEachBlock' \in [0 .. n - 1 -> (0 .. 16) \ {1}]
    BY <1>4, <1>5, <2>1, <2>4
  <2>6. BitsUsed([a EXCEPT ![p] = @ + r], n) = BitsUsed(a, n) + r * SpecsPerBlock[p]
    <3>1. a \in [0 .. n - 1 -> Nat]
      BY <1>4
    <3> QED
      BY <1>4, <1>5, <1>7, <3>1, RaiseCosts DEF bfuNum
  <2>7. BitsUsed(a, n) \in Nat
    <3>1. a \in [0 .. n - 1 -> Nat]
      BY <1>4
    <3> QED
      BY <1>4, <3>1, BitsNat DEF bfuNum
  <2>8. SurplusIsExact'
    <3>1. surplus' >= 0
      BY <1>4, <2>1, <2>2, <2>3
    <3>2. BitsUsed(BitsPerEachBlock', n) + surplus' = CalcAvaliableBitsForBfus(n)
      BY <1>4, <2>1, <2>3, <2>6, <2>7
    <3> QED
      BY <1>2, <3>1, <3>2 DEF SurplusIsExact
  <2>9. BoosterInv'
    <3>1. surplus' \in Int
      BY <1>4, <2>1, <2>3
    <3>2. raised' \in BOOLEAN
      BY <2>1
    <3> QED
      BY <1>1, <1>2, <3>1, <3>2 DEF OwnInv, BoosterInv
  <2>10. WordsInv'
    BY <1>2, <2>5 DEF WordsInv
  <2> QED
    BY <1>2, <2>8, <2>9, <2>10 DEF OwnInv
<1>9. CASE ~CanRaise(p)
  <2>1. UNCHANGED <<BitsPerEachBlock, surplus, raised>>
    BY <1>9 DEF Visit
  <2>2. SurplusIsExact' /\ WordsInv'
    BY <1>2, <2>1 DEF OwnInv, SurplusIsExact, WordsInv
  <2>3. BoosterInv'
    BY <1>1, <1>2, <2>1 DEF OwnInv, BoosterInv
  <2> QED
    BY <1>2, <2>2, <2>3 DEF OwnInv
<1> QED
  BY <1>8, <1>9

LEMMA EndPassOwn ==
  ASSUME OwnInv, EndPass PROVE OwnInv'
<1>1. /\ boosting /\ todo' = reach /\ raised' = FALSE
      /\ boosting' = (raised /\ \E p \in Boosted : SpecsPerBlock[p] <= surplus)
      /\ UNCHANGED <<engine, BfuIdxConst, context, BitsPerEachBlock, surplus, reach>>
  BY DEF EndPass
<1>2. /\ ContextInv' /\ CurveInv' /\ bfuNum' = bfuNum
      /\ running' = running /\ CurEncPos' = CurEncPos
  BY <1>1, BoosterFrame
<1>3. SurplusIsExact' /\ WordsInv'
  BY <1>1, <1>2 DEF OwnInv, SurplusIsExact, WordsInv
<1>4. raised' \in BOOLEAN /\ boosting' \in BOOLEAN
  BY <1>1
<1>5. BoosterInv'
  BY <1>1, <1>2, <1>4 DEF OwnInv, BoosterInv
<1> QED
  BY <1>2, <1>3, <1>5 DEF OwnInv

LEMMA DumpOwn ==
  ASSUME OwnInv, Dump PROVE OwnInv'
<1>1. /\ running' = FALSE /\ ~boosting
      /\ UNCHANGED <<BfuIdxConst, context, booster>>
  BY DEF Dump, Engine!Dump
<1>2. ContextInv' /\ BoosterInv'
  BY <1>1 DEF OwnInv, ContextInv, BoosterInv, context, booster
<1> QED
  BY <1>1, <1>2 DEF OwnInv, CurveInv, WordsInv, SurplusIsExact

LEMMA StutterOwn ==
  ASSUME OwnInv, UNCHANGED vars PROVE OwnInv'
<1>1. /\ ContextInv' /\ CurveInv' /\ bfuNum' = bfuNum
      /\ running' = running /\ CurEncPos' = CurEncPos
  BY BoosterFrame DEF vars
<1>2. UNCHANGED booster
  BY DEF vars
<1> QED
  BY <1>1, <1>2 DEF OwnInv, BoosterInv, WordsInv, SurplusIsExact, booster

\* The writer's state stays consistent with what the engine searches for.
THEOREM Invariance == Spec => []OwnInv
<1>1. OwnInv /\ Search!IInv /\ Search!IInv' /\ [Next]_vars => OwnInv'
  BY BeginFrameOwn, ConfigureOwn, ProbeOwn, GiveUpBfusOwn, SettleOwn, VisitOwn,
     EndPassOwn, DumpOwn, StutterOwn DEF Next, Encode, Boost
<1> QED
  BY <1>1, InitOwnInv, SearchInvariance, PTL DEF Spec
-----------------------------------------------------------------------------
\* Types; no word of one bit, and none longer than 16, is ever dumped.
THEOREM TypeCorrect == Spec => []TypeOK
<1>1. OwnInv => TypeOK
  BY DEF OwnInv, ContextInv, BoosterInv, WordsInv, TypeOK
<1> QED
  BY <1>1, Invariance, PTL

\* ApplyBoost's unsigned surplus never wraps, and is what the words leave of
\* the budget: for any frame, and however often BFUs were given up.
THEOREM SurplusExact == Spec => []SurplusIsExact
<1>1. OwnInv => SurplusIsExact
  BY DEF OwnInv
<1> QED
  BY <1>1, Invariance, PTL

\* Every frame fits its sound unit.
THEOREM UnitFits == Spec => []FitsUnit
<1>1. OwnInv => FitsUnit
  <2> SUFFICES ASSUME OwnInv, Ready PROVE DumpedBits <= 8 * SoundUnitSize
    BY DEF FitsUnit
  <2> DEFINE n == bfuNum
             a == BitsPerEachBlock
             f == [i \in 0 .. n - 1 |-> IF a[i] \in {0, 1} THEN 0 ELSE SpecsPerBlock[i] * a[i]]
             g == [i \in 0 .. n - 1 |-> SpecsPerBlock[i] * a[i]]
  <2>1. /\ BfuIdx \in 0 .. 7 /\ a \in [0 .. n - 1 -> (0 .. 16) \ {1}]
        /\ surplus \in Int /\ surplus >= 0
        /\ BitsUsed(a, n) + surplus = CalcAvaliableBitsForBfus(n)
    BY DEF OwnInv, ContextInv, WordsInv, BoosterInv, SurplusIsExact, Ready
  <2>2. n \in Nat /\ \A i \in 0 .. n - 1 : SpecsPerBlock[i] \in Nat /\ a[i] \in Nat
    <3>1. n \in Nat /\ 0 .. n - 1 \subseteq BFUs
      BY <2>1, AmountType DEF bfuNum
    <3>2. \A i \in 0 .. n - 1 : SpecsPerBlock[i] \in Nat
      BY <3>1, TableAssumption
    <3>3. \A i \in 0 .. n - 1 : a[i] \in Nat
      BY <2>1
    <3> QED
      BY <3>1, <3>2, <3>3
  <2>3. \A i \in 0 .. n - 1 : SpecsPerBlock[i] * a[i] \in Nat
    BY <2>2
  <2>4. \A i \in 0 .. n - 1 : f[i] \in Nat /\ g[i] \in Nat /\ f[i] <= g[i]
    BY <2>3
  <2>5. Written(a, n) = SumTo(f, n) /\ BitsUsed(a, n) = SumTo(g, n)
    BY DEF Written, BitsUsed
  <2>6. CalcAvaliableBitsForBfus(n) = 8 * SoundUnitSize - 40 - 10 * n
    BY <2>1, AvailableIsNat DEF bfuNum
  <2>7. DumpedBits = 40 + 10 * n + Written(a, n)
    <3>1. Written(a, n) \in Nat
      <4> HIDE DEF f, g
      <4> QED
        BY <2>2, <2>4, <2>5, SumNat
    <3> QED
      BY <2>2, <3>1 DEF DumpedBits
  <2> HIDE DEF n, a, f, g
  <2>8. SumTo(f, n) <= SumTo(g, n) /\ SumTo(f, n) \in Nat /\ SumTo(g, n) \in Nat
    BY <2>2, <2>4, SumMono, SumNat
  <2> QED
    BY <2>1, <2>2, <2>5, <2>6, <2>7, <2>8, UnitAssumption
<1> QED
  BY <1>1, Invariance, PTL
-----------------------------------------------------------------------------
(***************************************************************************)
(* That boosting leaves nothing that could be raised                       *)
(***************************************************************************)
LEMMA Smallest ==
  ASSUME NEW S \in SUBSET Nat, S # {}
  PROVE  \E m \in S : \A n \in S : m <= n
<1> SUFFICES ASSUME \A m \in S : \E n \in S : n < m PROVE FALSE
  OBVIOUS
<1> DEFINE T == {n \in Nat : \A m \in 0 .. n : m \notin S}
<1>1. 0 \in T
  OBVIOUS
<1>2. ASSUME NEW n \in T PROVE n + 1 \in T
  <2>1. n \in Nat /\ \A m \in 0 .. n : m \notin S
    BY <1>2
  <2>2. n + 1 \notin S
    <3>1. \A m \in S : m < n + 1 => FALSE
      BY <2>1
    <3> QED
      BY <3>1
  <2> QED
    BY <2>1, <2>2
<1>3. T \in SUBSET Nat
  OBVIOUS
<1> HIDE DEF T
<1>4. T = Nat
  BY <1>1, <1>2, <1>3, SetInduction
<1>5. \A n \in Nat : n \notin S
  BY <1>4 DEF T
<1> QED
  BY <1>5

\* Among the BFUs that a pass has not come to there is a next one, and it has the
\* lowest number.
LEMMA NextIsLowest ==
  ASSUME NEW S \in SUBSET Boosted, S # {}, todo = S
  PROVE  \E m \in S : IsNext(m) /\ \A n \in S : m <= n
<1>1. Boosted \subseteq BFUs /\ BFUs \subseteq Nat
  BY TableAssumption DEF BFUs
<1>2. PICK m \in S : \A n \in S : m <= n
  BY <1>1, Smallest
<1>3. ASSUME NEW q \in S \ {m} PROVE Before(m, q)
  <2>1. m \in Nat /\ q \in Nat /\ m < q
    BY <1>1, <1>2
  <2>2. SpecsPerBlock[m] <= SpecsPerBlock[q]
    BY <2>1, BoostAssumption
  <2>3. SpecsPerBlock[m] \in Nat /\ SpecsPerBlock[q] \in Nat
    BY <1>1, TableAssumption
  <2> QED
    BY <2>1, <2>2, <2>3 DEF Before
<1> QED
  BY <1>2, <1>3 DEF IsNext

\* While ApplyBoost loops, what it does not look at is out of reach of the bits left,
\* and what a pass that has raised nothing was at cannot be raised.
PassInv ==
  running /\ CurEncPos = 2 =>
    /\ boosting => /\ \A p \in Boosted \ reach : SpecsPerBlock[p] > surplus
                   /\ ~raised => \A p \in reach \ todo : p < bfuNum => ~CanRaise(p)
    /\ ~boosting => \A p \in Boosted : p < bfuNum => ~CanRaise(p)

LEMMA RaiseCost ==
  ASSUME NEW p \in Boosted, surplus \in Int, SpecsPerBlock[p] > surplus PROVE ~CanRaise(p)
<1>1. SpecsPerBlock[p] \in Nat
  BY TableAssumption
<1>2. Raise(p) \in {1, 2}
  BY DEF Raise
<1> QED
  BY <1>1, <1>2 DEF CanRaise

LEMMA SettlePass ==
  ASSUME OwnInv', Settle PROVE PassInv'
<1>1. /\ reach' = {p \in Boosted : SpecsPerBlock[p] <= surplus'}
      /\ todo' = reach' /\ boosting' = (reach' # {})
  BY DEF Settle
<1>2. surplus' \in Int
  BY DEF OwnInv, BoosterInv
<1>3. \A p \in Boosted \ reach' : SpecsPerBlock[p] > surplus'
  <2> TAKE p \in Boosted \ reach'
  <2>1. SpecsPerBlock[p] \in Nat
    BY TableAssumption
  <2> QED
    BY <1>1, <1>2, <2>1
<1>4. \A p \in Boosted \ reach' : ~CanRaise(p)'
  <2> TAKE p \in Boosted \ reach'
  <2>1. SpecsPerBlock[p] \in Nat /\ SpecsPerBlock[p] > surplus'
    BY <1>3, TableAssumption
  <2>2. Raise(p)' \in {1, 2}
    BY DEF Raise
  <2> QED
    BY <1>2, <2>1, <2>2 DEF CanRaise
<1> QED
  BY <1>1, <1>3, <1>4 DEF PassInv

LEMMA VisitPass ==
  ASSUME OwnInv, OwnInv', PassInv, NEW p \in todo, Visit(p) PROVE PassInv'
<1>1. /\ boosting /\ boosting' /\ reach' = reach /\ todo' = todo \ {p} /\ bfuNum' = bfuNum
  BY DEF Visit, context, bfuNum
<1>2. running /\ CurEncPos = 2
  BY <1>1 DEF OwnInv, BoosterInv
<1>3. /\ \A q \in Boosted \ reach : SpecsPerBlock[q] > surplus
      /\ ~raised => \A q \in reach \ todo : q < bfuNum => ~CanRaise(q)
      /\ surplus \in Int /\ surplus' \in Int /\ reach \subseteq Boosted
  BY <1>1, <1>2 DEF PassInv, OwnInv, BoosterInv
<1>4. CASE CanRaise(p)
  <2>1. surplus' = surplus - Raise(p) * SpecsPerBlock[p] /\ raised' = TRUE
    BY <1>4 DEF Visit
  <2>2. Raise(p) * SpecsPerBlock[p] \in Nat
    <3>1. SpecsPerBlock[p] \in Nat
      BY <1>3, TableAssumption DEF OwnInv, BoosterInv
    <3>2. Raise(p) \in {1, 2}
      BY DEF Raise
    <3> QED
      BY <3>1, <3>2
  <2>3. surplus' <= surplus
    BY <1>3, <2>1, <2>2
  <2>4. \A q \in Boosted \ reach : SpecsPerBlock[q] > surplus'
    <3> TAKE q \in Boosted \ reach
    <3>1. SpecsPerBlock[q] \in Nat /\ SpecsPerBlock[q] > surplus
      BY <1>3, TableAssumption
    <3> QED
      BY <1>3, <2>3, <3>1
  <2> QED
    BY <1>1, <2>1, <2>4 DEF PassInv
<1>5. CASE ~CanRaise(p)
  <2>1. UNCHANGED <<BitsPerEachBlock, surplus, raised>>
    BY <1>5 DEF Visit
  <2>2. \A q : CanRaise(q)' = CanRaise(q)
    BY <2>1 DEF CanRaise, Raise
  <2>3. ~raised => \A q \in reach \ (todo \ {p}) : q < bfuNum => ~CanRaise(q)
    BY <1>3, <1>5
  <2> QED
    BY <1>1, <1>3, <2>1, <2>2, <2>3 DEF PassInv
<1> QED
  BY <1>4, <1>5

LEMMA EndPassPass ==
  ASSUME OwnInv, PassInv, EndPass PROVE PassInv'
<1>1. /\ boosting /\ (\A p \in todo : IsNext(p) => p >= bfuNum)
      /\ todo' = reach /\ raised' = FALSE /\ reach' = reach /\ bfuNum' = bfuNum
      /\ boosting' = (raised /\ \E p \in Boosted : SpecsPerBlock[p] <= surplus)
      /\ UNCHANGED <<BitsPerEachBlock, surplus>>
  BY DEF EndPass, context, bfuNum
<1>2. running /\ CurEncPos = 2
  BY <1>1 DEF OwnInv, BoosterInv
<1>3. /\ \A p \in Boosted \ reach : SpecsPerBlock[p] > surplus
      /\ ~raised => \A p \in reach \ todo : p < bfuNum => ~CanRaise(p)
      /\ surplus \in Int /\ reach \subseteq Boosted /\ todo \subseteq reach
      /\ BfuIdx \in 0 .. 7
  BY <1>1, <1>2 DEF PassInv, OwnInv, BoosterInv, ContextInv
<1>4. \A p : CanRaise(p)' = CanRaise(p)
  BY <1>1 DEF CanRaise, Raise
\* What is left in todo is behind the frame's last BFU.
<1>5. \A p \in todo : ~(p < bfuNum)
  <2> SUFFICES ASSUME NEW p \in todo PROVE ~(p < bfuNum)
    OBVIOUS
  <2>1. todo \in SUBSET Boosted
    BY <1>3
  <2>2. PICK m \in todo : IsNext(m) /\ \A n \in todo : m <= n
    BY <2>1, NextIsLowest
  <2>3. m >= bfuNum /\ m <= p
    BY <1>1, <2>2
  <2>4. m \in Nat /\ p \in Nat
    BY <2>1, TableAssumption DEF BFUs
  <2>5. bfuNum \in Nat
    BY <1>3, AmountType DEF bfuNum
  <2> QED
    BY <2>3, <2>4, <2>5
<1>6. CASE ~raised
  <2>1. \A p \in Boosted : p < bfuNum => ~CanRaise(p)
    BY <1>3, <1>5, <1>6, RaiseCost
  <2> QED
    BY <1>1, <1>4, <1>6, <2>1 DEF PassInv
<1>7. CASE raised /\ boosting'
  BY <1>1, <1>3, <1>7 DEF PassInv
<1>8. CASE raised /\ ~boosting'
  <2>1. \A p \in Boosted : ~(SpecsPerBlock[p] <= surplus)
    BY <1>1, <1>8
  <2>2. \A p \in Boosted : SpecsPerBlock[p] > surplus
    <3> TAKE p \in Boosted
    <3>1. SpecsPerBlock[p] \in Nat
      BY TableAssumption
    <3> QED
      BY <1>3, <2>1, <3>1
  <2>3. \A p \in Boosted : ~CanRaise(p)
    BY <1>3, <2>2, RaiseCost
  <2> QED
    BY <1>1, <1>4, <1>8, <2>3 DEF PassInv
<1> QED
  BY <1>3, <1>6, <1>7, <1>8

\* What Settle found of the last groups of BFUs.
LEMMA SettleTail ==
  ASSUME OwnInv, Settle PROVE NoSilentTail'
<1> DEFINE u == Engine!DoContinue
           a == Alloc(u)
           groups == {k \in 1 .. 7 : \E i \in DOMAIN a :
                        BfuAmountTab[k - 1] <= i /\ i < BfuAmountTab[k] /\ a[i] # 0}
<1>1. ~HasSilentTail /\ UNCHANGED <<BfuIdxConst, context>> /\ used' = u
  BY DEF Settle, Engine!EncodeAlloc
<1>2. bfuNum' = bfuNum /\ BfuIdx' = BfuIdx /\ \A l : Alloc(l)' = Alloc(l)
  BY <1>1 DEF context, bfuNum, Alloc
<1>3. BfuIdx \in 0 .. 7
  BY DEF OwnInv, ContextInv
<1> SUFFICES ASSUME BfuIdxConst = 0, BfuIdx > 0
             PROVE  \E i \in BfuAmountTab[BfuIdx - 1] .. bfuNum - 1 : a[i] # 0
  <2>1. Alloc(used)' = a
    BY <1>1, <1>2
  <2> HIDE DEF a
  <2> QED
    BY <1>1, <1>2, <2>1 DEF NoSilentTail
<1>4. ~(GetMaxUsedBfuId(a) < BfuIdx)
  BY <1>1 DEF HasSilentTail
<1>5. GetMaxUsedBfuId(a) \in groups \cup {0}
  <2>1. GetMaxUsedBfuId(a) = CHOOSE k \in groups \cup {0} : \A j \in groups : j <= k
    BY DEF GetMaxUsedBfuId
  <2>2. groups \subseteq 1 .. 7
    OBVIOUS
  <2> HIDE DEF groups
  <2>3. \E k \in groups \cup {0} : \A j \in groups : j <= k
    BY <2>2
  <2> QED
    BY <2>1, <2>3
<1> DEFINE k == GetMaxUsedBfuId(a)
<1>6. k \in groups /\ k \in 1 .. 7 /\ BfuIdx <= k
  <2>1. groups \subseteq 1 .. 7
    OBVIOUS
  <2>2. k \in groups \cup {0} /\ ~(k < BfuIdx)
    BY <1>4, <1>5
  <2> HIDE DEF groups, k
  <2>3. k \in 0 .. 7
    BY <2>1, <2>2
  <2>4. BfuIdx <= k /\ k # 0
    BY <1>3, <2>2, <2>3
  <2> QED
    BY <2>1, <2>2, <2>4
<1>7. PICK i \in DOMAIN a : BfuAmountTab[k - 1] <= i /\ i < BfuAmountTab[k] /\ a[i] # 0
  BY <1>6
<1>8. DOMAIN a = 0 .. bfuNum - 1
  BY DEF Alloc, CalcBitsAllocation
<1>9. BfuAmountTab[BfuIdx - 1] <= BfuAmountTab[k - 1]
  <2>1. BfuIdx - 1 \in 0 .. 7 /\ k - 1 \in 0 .. 7 /\ BfuIdx - 1 <= k - 1
    BY <1>3, <1>6
  <2> HIDE DEF k
  <2>2. BfuAmountTab[BfuIdx - 1] \in Nat /\ BfuAmountTab[k - 1] \in Nat
    BY <2>1, AmountType
  <2>3. BfuIdx - 1 < k - 1 => BfuAmountTab[BfuIdx - 1] < BfuAmountTab[k - 1]
    BY <2>1, TableAssumption
  <2>4. BfuIdx - 1 = k - 1 => BfuAmountTab[BfuIdx - 1] = BfuAmountTab[k - 1]
    OBVIOUS
  <2> QED
    BY <2>1, <2>2, <2>3, <2>4
<1>10. BfuAmountTab[BfuIdx - 1] \in Nat /\ BfuAmountTab[k - 1] \in Nat /\ bfuNum \in Nat
  <2>1. BfuIdx - 1 \in 0 .. 7 /\ k - 1 \in 0 .. 7
    BY <1>3, <1>6
  <2> QED
    BY <1>3, <2>1, AmountType DEF bfuNum
<1>11. i \in BfuAmountTab[BfuIdx - 1] .. bfuNum - 1
  <2>1. i \in 0 .. bfuNum - 1 /\ BfuAmountTab[k - 1] <= i
    BY <1>7, <1>8
  <2> HIDE DEF k
  <2> QED
    BY <1>9, <1>10, <2>1
<1> QED
  BY <1>7, <1>11

\* All other steps leave the frame and what it was searched for alone, or are no
\* longer, or not yet, behind the allocating part.
LEMMA OtherTail ==
  ASSUME NoSilentTail, UNCHANGED <<engine, BfuIdxConst, context>> PROVE NoSilentTail'
BY DEF NoSilentTail, engine, context, bfuNum, Alloc

LEMMA StutterPass ==
  ASSUME PassInv, UNCHANGED <<engine, context, booster>> PROVE PassInv'
<1>1. \A p : CanRaise(p)' = CanRaise(p)
  BY DEF CanRaise, Raise, booster
<1> QED
  BY <1>1 DEF PassInv, engine, context, booster, bfuNum

LEMMA BehindStep ==
  ASSUME OwnInv, OwnInv', Search!IInv, PassInv, NoSilentTail, [Next]_vars
  PROVE  PassInv' /\ NoSilentTail'
<1>1. CASE BeginFrame
  <2>1. CurEncPos' = 0
    BY <1>1, EngineFacts DEF BeginFrame, Engine!BeginRun, Engine!GoTo
  <2> QED
    BY <2>1 DEF PassInv, NoSilentTail
<1>2. CASE Configure
  <2>1. CurEncPos' = 1
    BY <1>2 DEF Configure, Engine!EncodeConfigure, Engine!NextPart, Engine!GoTo
  <2> QED
    BY <2>1 DEF PassInv, NoSilentTail
<1>3. CASE Probe \/ GiveUpBfus
  BY <1>3 DEF Probe, GiveUpBfus, PassInv, NoSilentTail
<1>4. CASE Settle
  BY <1>4, SettlePass, SettleTail
<1>5. ASSUME NEW p \in todo, Visit(p) PROVE PassInv' /\ NoSilentTail'
  BY <1>5, VisitPass, OtherTail DEF Visit
<1>6. CASE EndPass
  BY <1>6, EndPassPass, OtherTail DEF EndPass
<1>7. CASE Dump
  BY <1>7 DEF Dump, Engine!Dump, PassInv, NoSilentTail
<1>8. CASE UNCHANGED vars
  BY <1>8, StutterPass, OtherTail DEF vars
<1> QED
  BY <1>1, <1>2, <1>3, <1>4, <1>5, <1>6, <1>7, <1>8 DEF Next, Encode, Boost

LEMMA BehindInvariance == Spec => [](PassInv /\ NoSilentTail)
<1>1. Init => PassInv /\ NoSilentTail
  BY DEF Init, Engine!Init, PassInv, NoSilentTail
<1>2. OwnInv /\ OwnInv' /\ Search!IInv /\ PassInv /\ NoSilentTail /\ [Next]_vars
        => PassInv' /\ NoSilentTail'
  BY BehindStep
<1> QED
  BY <1>1, <1>2, Invariance, SearchInvariance, PTL DEF Spec

\* ApplyBoost stops only once nothing it may raise can be raised, for every table
\* whose boosted BFUs do not get smaller, and every number of BFUs in the frame.
THEOREM BoostMaximal == Spec => []BoostIsMaximal
<1>1. PassInv => BoostIsMaximal
  BY DEF PassInv, BoostIsMaximal, Ready
<1> QED
  BY <1>1, BehindInvariance, PTL

\* No group of BFUs at the end of a frame is coded although it is silent.
THEOREM TailUsed == Spec => []NoSilentTail
BY BehindInvariance, PTL
=============================================================================
