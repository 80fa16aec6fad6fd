----------------------------- MODULE At3BitStream -----------------------------
(***************************************************************************)
(* atrac/at3/atrac3_bitstream.cpp: the writer of ATRAC3 sound units. A     *)
(* unit has one or two channels, whose shares of the frame depend, in      *)
(* joint stereo, on how loud the mid and the side channel are. Each of     *)
(* them goes through the engine of BsEncode: TConfigure opens the search,  *)
(* TAlloc derives word lengths from a shift, raises those that distort too *)
(* much, counts the cost, and gives up block floating units (BFUs) at the  *)
(* end that stay silent. Quantised lines are kept in a cache that both     *)
(* channels use in turn.                                                   *)
(*                                                                         *)
(* The shift and what it is subtracted from, floats in the code, are       *)
(* counted in Unit-ths. Of a line's quantised value the model keeps which  *)
(* channel of which unit, and which word length, it was quantised for.     *)
(***************************************************************************)
EXTENDS Integers, FiniteSets, Sequences, TLC, Sums, At3Tonal

CONSTANTS
  FixedBitAllocTable, ScaleFactorDivisor,  \* the latter in tenths
  ClcLengthTab,
  ContainerParams,     \* the frame sizes, with joint stereo or without it
  Unit,                \* how many lambdas there are to a bit
  Channels,            \* a channel's data, as the encoder analysed it, by its name
  Empty,               \* no scaled blocks: stands in for the side of a mono input
  Inputs,              \* the names of one or two channels
  BfuIdxConsts,        \* values of the option, 0 for an automatic choice
  MaxUnits             \* bound: units written

BFUs  == 0 .. 31
Words == 0 .. 7
Names == DOMAIN Channels
BlockSize(i) == BlockSizeTab[i + 1] - BlockSizeTab[i]
Band(i) == BlockSizeTab[i] \div 256
Lambdas == -8 * Unit .. 20 * Unit

ASSUME TableAssumption ==
  /\ BlockSizeTab \in [0 .. 32 -> 0 .. 1024] /\ BlockSizeTab[0] = 0
  /\ \A i \in BFUs : BlockSizeTab[i] < BlockSizeTab[i + 1]
  /\ FixedBitAllocTable \in [BFUs -> Words]
  /\ ScaleFactorDivisor \in [BFUs -> Nat \ {0}]
  /\ ClcLengthTab \in [1 .. 7 -> Nat]
ASSUME ParamsAssumption ==
  \A p \in ContainerParams : p \in [FrameSz : 192 .. 1024, Js : BOOLEAN] /\ p.FrameSz % 2 = 0
ASSUME ChannelAssumption ==
  /\ Empty \notin Names
  /\ \A x \in Names :
       /\ Channels[x].Loudness \in Nat /\ Channels[x].gain \in [1 .. 4 -> 0 .. 7]
       /\ Channels[x].ScaleFactorIndex \in [BFUs -> 0 .. 63] /\ Channels[x].offset \in [0 .. 3 -> Int]
       /\ IsSelection(Channels[x].tones)
  /\ Inputs \subseteq Seq(Names) /\ \A s \in Inputs : Len(s) \in {1, 2}
ASSUME BoundAssumption ==
  Unit \in Nat \ {0} /\ MaxUnits \in Nat /\ BfuIdxConsts \subseteq 0 .. 32

VARIABLES
  running, CurEncPos, RepeatEncPos, TargetBits, MinLambda, MaxLambda,
  CurLambda, LastLambda, cost, used, fresh, repeats, frames,   \* of the engine
  params, BfuIdxConst, SourceChannels,
  elements, channel,   \* singleChannelElements, and which is written, 0: none
  NumBfu, PrecisionPerBlock, CodingMode, Mantissas,            \* TEncodeCtx
  SpecCache,           \* of each BFU the lines held: their word length, whose they are
  OutBuffer,           \* the bytes of each channel in it
  units                \* sound units handed to the container

search  == <<TargetBits, MinLambda, MaxLambda, CurLambda, LastLambda>>
engine  == <<running, CurEncPos, RepeatEncPos, search, cost, used, fresh, repeats, frames>>
config  == <<params, BfuIdxConst, SourceChannels>>
context == <<NumBfu, PrecisionPerBlock, CodingMode, Mantissas>>
vars    == <<engine, config, elements, channel, context, SpecCache, OutBuffer, units>>

sce == elements[channel]
Loudness(c) == IF elements[c] = Empty THEN 0 ELSE Channels[elements[c]].Loudness
Gain(c)     == IF elements[c] = Empty THEN <<0>> ELSE Channels[elements[c]].gain
Max2(a, b) == IF a > b THEN a ELSE b
Min2(a, b) == IF a < b THEN a ELSE b
-----------------------------------------------------------------------------
(***************************************************************************)
(* The shares of the channels                                              *)
(***************************************************************************)

\* The header: an id, or the joint stereo parameters, the number of bands, and
\* for each of them the gain points.
HeaderBits(c) ==
  LET g == Gain(c)
  IN (IF params.Js /\ c = 2 THEN 1 + 3 + 4 * 2 + 2 ELSE 6) + 2
       + SumTo([b \in 0 .. Len(g) - 1 |-> 3 + 9 * g[b + 1]], Len(g))

\* What is written of any channel besides the spectrum: 6 bits for the number
\* of blocks and the coding mode.
Overhead(c) == IF c \in DOMAIN elements THEN HeaderBits(c) + 6 ELSE 6

Div8Ceil(n) == 1 + (n - 1) \div 8

\* CalcMSRatio, of the frame's bytes and rounded to one.
RatioBytes(m, s) ==
  IF m + s = 0 THEN 0
  ELSE (params.FrameSz * (m - s) + (m + s)) \div (2 * (m + s))

\* The bytes the mid channel takes from the side channel, or gives to it.
UnclampedShift(half) == RatioBytes(Loudness(1), Loudness(2))

CalcMSBytesShift(half) ==
  LET maxAllowedShift == half - Div8Ceil(Overhead(1) + Overhead(2))
      ratio           == RatioBytes(Loudness(1), Loudness(2))
  IN IF elements[2] = Empty THEN maxAllowedShift
     ELSE Max2(Min2(ratio, maxAllowedShift), -maxAllowedShift)

ShareBytes(c) ==
  LET half         == params.FrameSz \div 2
      msBytesShift == IF params.Js THEN CalcMSBytesShift(half) ELSE 0
  IN IF c = 1 THEN half + msBytesShift ELSE half - msBytesShift

BitsToAlloc(c) == Max2(1, 8 * ShareBytes(c) - Overhead(c))

\* As many BFUs as the target has room for the word lengths of.
CalcInitialNumBfu(target) ==
  LET lim == IF target > 5 THEN Max2(1, (target - 5) \div 3) ELSE 1
      n   == IF BfuIdxConst # 0 THEN BfuIdxConst ELSE 32
  IN IF target < 101 THEN Min2(n, lim) ELSE n
-----------------------------------------------------------------------------
(***************************************************************************)
(* Word lengths and what they cost                                         *)
(***************************************************************************)

\* The standard deviation of the scale factors in 14ths, no more than 14.
AnalizeScaleFactorSpread(e) ==
  LET s   == SumTo(e.ScaleFactorIndex, 32)
      ss  == SumTo([i \in BFUs |-> e.ScaleFactorIndex[i] * e.ScaleFactorIndex[i]], 32)
      fits(k) == (32 * k) * (32 * k) <= 32 * ss - s * s
  IN CHOOSE k \in 0 .. 14 : fits(k) /\ \A j \in 0 .. 14 : fits(j) => j <= k

\* What the shift is subtracted from, given the spread.
Level(e, spread, i) ==
  LET corrected == Max2(0, Min2(63, e.ScaleFactorIndex[i] + e.offset[Band(i)]))
  IN ((spread * 10 * Unit * corrected) \div ScaleFactorDivisor[i]
       + (14 - spread) * Unit * FixedBitAllocTable[i]) \div 14

\* Truncated to an integer, towards zero: what is above minus one bit is one.
WordLength(level, shift) ==
  IF level - shift <= -Unit THEN 0
  ELSE Max2(1, Min2(7, (level - shift) \div Unit))

\* The tables below are by channel and shift. A BFU's word length does not
\* depend on how many BFUs there are.
TonalBlocks ==
  [x \in Names |-> IF Channels[x].tones = << >> THEN << >>
                   ELSE MapTonalComponents(ExtractTonalComponents(Channels[x].tones))]
Spread      == [x \in Names |-> AnalizeScaleFactorSpread(Channels[x])]

\* Each tonal block takes a bit from its BFU, down to two.
CalcBitsAllocation(x, shift) ==
  LET ofBfu(i) == Cardinality({k \in DOMAIN TonalBlocks[x] : TonalBlocks[x][k].Bfu = i})
      tonal(w, i) == IF w > 2 THEN Max2(2, w - ofBfu(i)) ELSE w
  IN [i \in BFUs |->
        IF i \in Channels[x].quiet THEN 0
        ELSE tonal(WordLength(Level(Channels[x], Spread[x], i), shift), i)]

\* ConsiderEnergyErr, again and again: in the first ten BFUs a word grows as
\* long as its quantisation loses or adds too much energy.
ConsiderEnergyErr(x, alloc) ==
  LET settled(i, w) == w \in {0, 7} \/ <<i, w>> \notin Channels[x].poor
      raised(i, from) ==
        CHOOSE w \in from .. 7 : settled(i, w) /\ \A v \in from .. w - 1 : ~settled(i, v)
  IN [i \in BFUs |-> IF i < 10 THEN raised(i, alloc[i]) ELSE alloc[i]]

FirstAlloc == [x \in Names |-> [l \in Lambdas |-> CalcBitsAllocation(x, l)]]
LastAlloc  == [x \in Names |-> [l \in Lambdas |-> ConsiderEnergyErr(x, FirstAlloc[x][l])]]

CLCEnc(w, i) ==
  IF w > 1 THEN ClcLengthTab[w] * BlockSize(i) ELSE (ClcLengthTab[1] * BlockSize(i)) \div 2
VLCEnc(x, w, i) ==
  LET vlc == Channels[x].vlc
  IN IF w > 1 THEN vlc[w] * BlockSize(i) ELSE (vlc[1] * BlockSize(i)) \div 2

\* What each BFU of an allocation costs: its word length and scale factor, and its
\* lines in either mode.
BlockBits(a)  == [i \in BFUs |-> IF a[i] = 0 THEN 3 ELSE 9]
ClcBits(a)    == [i \in BFUs |-> IF a[i] = 0 THEN 0 ELSE CLCEnc(a[i], i)]
VlcBits(x, a) == [i \in BFUs |-> IF a[i] = 0 THEN 0 ELSE VLCEnc(x, a[i], i)]

SpecBits ==
  [x \in Names |-> [l \in Lambdas |->
     LET a == LastAlloc[x][l]
     IN [blocks |-> BlockBits(a), clc |-> ClcBits(a), vlc |-> VlcBits(x, a)]]]

TonalFields(x, a, n) ==
  IF TonalBlocks[x] = << >> THEN << >> ELSE EncodeTonalComponents(TonalBlocks[x], a, n)

\* The coding mode, 1 for CLC, and the bits.
CheaperMode(x, l, n) == IF SumTo(SpecBits[x][l].clc, n) <= SumTo(SpecBits[x][l].vlc, n) THEN 1 ELSE 0

CalcSpecsBitsConsumption(x, l, n) ==
  SumTo(SpecBits[x][l].blocks, n)
    + IF CheaperMode(x, l, n) = 1 THEN SumTo(SpecBits[x][l].clc, n) ELSE SumTo(SpecBits[x][l].vlc, n)

\* What TAlloc::Encode submits, with n BFUs.
FirstWords(a, n) == [i \in 0 .. n - 1 |-> a[i]]
TotalBits(x, l, n) ==
  CalcSpecsBitsConsumption(x, l, n)
    + TonalBits(TonalFields(x, FirstWords(LastAlloc[x][l], n), n), Channels[x].vlc)

CostCurve ==
  [x \in Names |-> [n \in 1 .. 32 |-> [l \in Lambdas |-> TotalBits(x, l, n)]]]
-----------------------------------------------------------------------------
(***************************************************************************)
(* The parts under the engine                                              *)
(***************************************************************************)
MaxTarget == 8 * 1024

Engine == INSTANCE BsEncode WITH
            NumParts <- 2, AllocPart <- 1,
            LoLambda <- -8 * Unit, HiLambda <- 20 * Unit, Step <- 1,
            Costs <- [Lambdas -> Nat], Targets <- 1 .. MaxTarget,
            MaxRepeats <- 32, MaxFrames <- 2 * MaxUnits

\* Lines nobody has quantised yet.
NoLines    == [i \in BFUs |-> [word |-> 0, of |-> <<0, 0>>]]
EmptyCache == [i \in BFUs |-> {}]

\* Encoder.Do is called with a new context for channel c.
BeginChannel(c) ==
  /\ Engine!BeginRun
  /\ channel' = c
  /\ NumBfu' = 1 /\ PrecisionPerBlock' = [i \in {0} |-> 0]
  /\ CodingMode' = 1 /\ Mantissas' = NoLines

\* WriteSoundUnit. In joint stereo a mono input is given an empty side channel.
BeginUnit ==
  /\ channel = 0 /\ units < MaxUnits
  /\ \E s \in {s \in Inputs : Len(s) = SourceChannels} :
       elements' = s \o IF params.Js /\ Len(s) = 1 THEN <<Empty>> ELSE << >>
  /\ BeginChannel(1)
  /\ UNCHANGED <<config, SpecCache, OutBuffer, units>>

NextChannel ==
  /\ channel = 1 /\ Len(OutBuffer) = 1 /\ Len(elements) = 2
  /\ BeginChannel(2)
  /\ UNCHANGED <<config, elements, SpecCache, OutBuffer, units>>

NumBfuAnew(target) == CalcInitialNumBfu(target)

\* The number of BFUs is chosen once: a repeat keeps what was given up.
ConfigureNumBfu(target) == IF repeats = 0 THEN CalcInitialNumBfu(target) ELSE NumBfu

Configure ==
  /\ channel > 0 /\ sce # Empty
  /\ LET target == BitsToAlloc(channel)
         n      == ConfigureNumBfu(target)
     IN /\ NumBfu' = n /\ PrecisionPerBlock' = [i \in 0 .. n - 1 |-> 0]
        /\ TargetBits' = target /\ cost' = CostCurve[sce][n]
  /\ Engine!EncodeConfigure
  /\ UNCHANGED <<config, elements, channel, CodingMode, Mantissas, SpecCache, OutBuffer, units>>

\* An empty channel goes past both parts, the search is not opened.
EncodeEmpty ==
  /\ running /\ channel > 0 /\ sce = Empty /\ CurEncPos \in {0, 1}
  /\ Engine!Encoded(CurEncPos) /\ Engine!NextPart
  /\ UNCHANGED <<running, search, cost, used, frames, config, elements, channel, context,
                 SpecCache, OutBuffer, units>>

\* CalcSpecsBitsConsumption gets the lines of each BFU at each word length it
\* tries from the cache, which quantises what it does not have, and copies them.
Me == <<units, channel>>
GetOrCompute(i, w) ==
  LET held == {u \in SpecCache[i] : u.word = w}
  IN IF held = {} THEN [word |-> w, of |-> Me] ELSE CHOOSE u \in held : TRUE

Quantise(shift) ==
  LET first == FirstAlloc[sce][shift]
      last  == LastAlloc[sce][shift]
  IN /\ SpecCache' = [i \in BFUs |-> SpecCache[i] \cup
          IF i < NumBfu THEN {GetOrCompute(i, w) : w \in (first[i] .. last[i]) \ {0}} ELSE {}]
     /\ Mantissas' = [i \in BFUs |->
          IF i < NumBfu /\ last[i] # 0 THEN GetOrCompute(i, last[i]) ELSE Mantissas[i]]

EncodeAlloc == channel > 0 /\ sce # Empty /\ Engine!EncodeAlloc

\* TAlloc::Encode while Submit asks for another shift.
Probe ==
  /\ EncodeAlloc /\ CurEncPos' = 1
  /\ Quantise(Engine!DoContinue)
  /\ UNCHANGED <<config, elements, channel, NumBfu, PrecisionPerBlock, CodingMode, OutBuffer, units>>

\* CheckBfus: is the last BFU silent, and may it go?
GivesUp(shift) == BfuIdxConst = 0 /\ NumBfu > 1 /\ LastAlloc[sce][shift][NumBfu - 1] = 0

GiveUpBfu ==
  /\ EncodeAlloc /\ CurEncPos' = 0
  /\ Quantise(Engine!DoContinue) /\ GivesUp(Engine!DoContinue)
  /\ NumBfu' = NumBfu - 1
  /\ UNCHANGED <<config, elements, channel, PrecisionPerBlock, CodingMode, OutBuffer, units>>

Settle ==
  /\ EncodeAlloc /\ CurEncPos' = 2
  /\ Quantise(Engine!DoContinue) /\ ~GivesUp(Engine!DoContinue)
  /\ PrecisionPerBlock' = FirstWords(LastAlloc[sce][Engine!DoContinue], NumBfu)
  /\ CodingMode' = CheaperMode(sce, Engine!DoContinue, NumBfu)
  /\ UNCHANGED <<config, elements, channel, NumBfu, OutBuffer, units>>

DumpOnly ==
  /\ Engine!Dump
  /\ OutBuffer' = Append(OutBuffer, ShareBytes(channel))
  /\ UNCHANGED <<config, elements, channel, context, SpecCache, units>>

\* Both parts' Dump. The bytes of the stream are cut or filled up to the share.
Dump ==
  /\ Engine!Dump
  /\ SpecCache' = EmptyCache
  /\ OutBuffer' = Append(OutBuffer, ShareBytes(channel))
  /\ UNCHANGED <<config, elements, channel, context, units>>

\* The only channel of a unit is written twice.
WriteFrame ==
  /\ ~running /\ channel > 0 /\ Len(OutBuffer) = Len(elements)
  /\ channel' = 0 /\ units' = units + 1 /\ OutBuffer' = << >>
  /\ UNCHANGED <<engine, config, elements, context, SpecCache>>

Init ==
  /\ TargetBits = 1 /\ cost = [l \in Lambdas |-> 0] /\ Engine!Init
  /\ params \in ContainerParams /\ BfuIdxConst \in BfuIdxConsts /\ SourceChannels \in {1, 2}
  /\ elements = << >> /\ channel = 0
  /\ NumBfu = 1 /\ PrecisionPerBlock = [i \in {0} |-> 0]
  /\ CodingMode = 1 /\ Mantissas = NoLines
  /\ SpecCache = EmptyCache /\ OutBuffer = << >> /\ units = 0

Encode == Configure \/ EncodeEmpty \/ Probe \/ GiveUpBfu \/ Settle \/ Dump
Next   == BeginUnit \/ Encode \/ NextChannel \/ WriteFrame

\* WriteSoundUnit is one synchronous call.
Spec == Init /\ [][Next]_vars /\ WF_vars(Encode \/ NextChannel \/ WriteFrame)
-----------------------------------------------------------------------------
(***************************************************************************)
(* Properties                                                              *)
(***************************************************************************)

\* A channel is encoded and about to be dumped.
Ready == running /\ CurEncPos = 2
NumBlocks == Cardinality(DOMAIN PrecisionPerBlock)
Written   == [i \in BFUs |-> IF i < NumBlocks THEN PrecisionPerBlock[i] ELSE 0]

\* What EncodeSpecs then writes, and what is kept of a unit: besides the number of
\* blocks and the coding mode their words and lines, and the tonal blocks.
BlocksBits ==
  SumTo(BlockBits(Written), NumBlocks)
    + IF sce = Empty THEN 0
      ELSE IF CodingMode = 1 THEN SumTo(ClcBits(Written), NumBlocks)
      ELSE SumTo(VlcBits(sce, Written), NumBlocks)
TonesBits ==
  IF sce = Empty THEN 5
  ELSE TonalBits(TonalFields(sce, PrecisionPerBlock, NumBlocks), Channels[sce].vlc)
EncodeSpecsBits == 5 + 1 + (BlocksBits + TonesBits)

\* Types. A word or a byte count is what its field, or the container, can take.
TypeOK ==
  /\ channel \in 0 .. Len(elements) /\ units \in 0 .. MaxUnits
  /\ NumBfu \in 1 .. 32 /\ CodingMode \in {0, 1}
  /\ PrecisionPerBlock \in [0 .. NumBlocks - 1 -> Words] /\ NumBlocks \in 1 .. 32
  /\ SpecCache \in [BFUs -> SUBSET [word : 1 .. 7, of : (0 .. MaxUnits) \X {1, 2}]]
  /\ \A c \in DOMAIN OutBuffer : OutBuffer[c] \in 1 .. params.FrameSz - 1

\* Whatever the headers, the loudness and the BFUs given up, a channel fits the
\* bytes that are kept of it. If it does not, it is one that does not fit at
\* the coarsest shift either, and it is neither silent nor the empty channel of
\* a mono input: for these the clamped shift always leaves room.
Silent(x) == IF x = Empty THEN TRUE
             ELSE Channels[x].quiet = BFUs /\ Channels[x].tones = << >>
FitsShare ==
  Ready =>
    \/ HeaderBits(channel) + EncodeSpecsBits <= 8 * ShareBytes(channel)
    \/ (~Silent(sce) /\ cost[20 * Unit] > TargetBits)

\* The lines dumped are those of this channel of this unit, quantised for the
\* word lengths dumped, through all the probes that write to the same array
\* and although the cache does not know channels.
MantissasMatch ==
  Ready => \A i \in DOMAIN PrecisionPerBlock :
    PrecisionPerBlock[i] # 0 => Mantissas[i] = [word |-> PrecisionPerBlock[i], of |-> Me]

\* A reader finds the tonal blocks as they were taken out of the spectrum, none
\* twice, and those of the BFUs given up missing; no count outgrows its field.
TonalsDecode ==
  Ready /\ sce # Empty =>
    LET fields    == TonalFields(sce, PrecisionPerBlock, NumBlocks)
        blocks(k) == DecodeSubGroup(fields[k])
        read      == UNION {blocks(k) : k \in DOMAIN fields}
        lines(t)  == t.Pos .. t.Pos + t.len - 1
        coded     == UNION {lines(t) : t \in read}
        taken(n)  == TakenLines(Channels[sce].tones, n)
    IN /\ Len(fields) < 32
       /\ \A k \in DOMAIN fields : Cardinality(blocks(k)) = Len(fields[k].relPos)
       /\ \A j, k \in DOMAIN fields : j # k => blocks(j) \cap blocks(k) = {}
       /\ \A t, u \in read : t # u => lines(t) \cap lines(u) = {}
       /\ taken(NumBlocks) \subseteq coded /\ coded \subseteq taken(32)
       /\ \A t \in read : t.quant = TonalQuant(PrecisionPerBlock[BfuOf(t.Pos)])

\* A unit that was begun reaches the container, however often BFUs are given up.
UnitIsWritten == channel > 0 ~> channel = 0
=============================================================================
