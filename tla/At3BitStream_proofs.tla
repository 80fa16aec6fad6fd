-------------------------- MODULE At3BitStream_proofs --------------------------
(***************************************************************************)
(* Proofs about At3BitStream, for any tables, channels and frame sizes     *)
(* that its assumptions allow. A channel with sound goes through the       *)
(* engine, whose invariant, proved in BsEncode_proofs, says that the       *)
(* search ends on a shift that fits, or on the coarsest one. The empty     *)
(* side channel of a mono input goes past the search and leaves what the   *)
(* channel before it had found.                                            *)
(***************************************************************************)
EXTENDS At3BitStream, Sums_proofs, SequenceTheorems, FiniteSetTheorems

Search == INSTANCE BsEncode_proofs WITH
            NumParts <- 2, AllocPart <- 1,
            LoLambda <- -8 * Unit, HiLambda <- 20 * Unit, Step <- 1,
            Costs <- [Lambdas -> Nat], Targets <- 1 .. MaxTarget,
            MaxRepeats <- 32, MaxFrames <- 2 * MaxUnits

LEMMA EngineActions ==
  /\ Engine!Init = Search!Init /\ Engine!BeginRun = Search!BeginRun
  /\ Engine!EncodeConfigure = Search!EncodeConfigure
  /\ Engine!EncodeAlloc = Search!EncodeAlloc /\ Engine!Dump = Search!Dump
BY DEF Engine!Init, Engine!BeginRun, Engine!EncodeConfigure, Engine!EncodeAlloc, Engine!Dump,
       Engine!GoTo, Engine!Encoded, Engine!NextPart, Engine!RepeatPass, Engine!DoStart,
       Engine!DoContinue, Engine!DoSubmit, Engine!NeedRepeat, Engine!Converged, Engine!search,
       Search!Init, Search!BeginRun, Search!EncodeConfigure, Search!EncodeAlloc, Search!Dump,
       Search!GoTo, Search!Encoded, Search!NextPart, Search!RepeatPass, Search!DoStart,
       Search!DoContinue, Search!DoSubmit, Search!NeedRepeat, Search!Converged, Search!search

LEMMA SearchAssumptions ==
  /\ Search!PartsAssumption /\ Search!RangeAssumption
  /\ Search!CostAssumption /\ Search!BoundAssumption
BY BoundAssumption DEF Search!PartsAssumption, Search!RangeAssumption, Search!CostAssumption,
       Search!BoundAssumption, MaxTarget, Lambdas, Search!Lambdas
-----------------------------------------------------------------------------
(***************************************************************************)
(* The engine, with channels that go past it                               *)
(***************************************************************************)

\* What of the engine's invariant does not depend on who used it last.
OpenInv == /\ Search!TypeOK /\ Search!RangeInv /\ Search!LastFits /\ Search!BoundsInv
           /\ Search!PrefixIsFresh

\* While an empty channel is written, what the search ended on is of the channel before.
EngineInv ==
  /\ OpenInv
  /\ ~(running /\ sce = Empty) => Search!AllocFits /\ Search!AllocIsTight

LEMMA EngineInvIsIInv ==
  ASSUME EngineInv, ~(running /\ sce = Empty) PROVE Search!IInv
BY DEF EngineInv, OpenInv, Search!IInv

\* What the invariant says in this module's terms.
LEMMA EngineFacts ==
  ASSUME EngineInv
  PROVE  /\ running \in BOOLEAN /\ CurEncPos \in 0 .. 2 /\ repeats \in Nat /\ used \in Lambdas
         /\ TargetBits \in Nat /\ cost \in [Lambdas -> Nat]
         /\ ~running => RepeatEncPos = 0
         /\ running /\ CurEncPos = 2 /\ sce # Empty =>
              cost[used] <= TargetBits \/ used = 20 * Unit
BY DEF EngineInv, OpenInv, Search!TypeOK, Search!RangeInv, Search!AllocFits, Search!Settled,
       Search!Lambdas, Lambdas, MaxTarget

LEMMA BeginChannelEngine ==
  ASSUME EngineInv, Engine!BeginRun PROVE EngineInv'
<1>1. ~running /\ Search!BeginRun
  BY EngineActions DEF Engine!BeginRun
<1>2. Search!IInv
  BY <1>1, EngineInvIsIInv
<1>3. Search!IInv'
  BY <1>1, <1>2, SearchAssumptions, Search!BeginRunStep
<1> QED
  BY <1>3 DEF EngineInv, OpenInv, Search!IInv

LEMMA ConfigureEngine ==
  ASSUME EngineInv, sce # Empty, Engine!EncodeConfigure PROVE EngineInv'
<1>1. Search!IInv /\ Search!EncodeConfigure
  BY EngineActions, EngineInvIsIInv
<1>2. Search!IInv'
  BY <1>1, SearchAssumptions, Search!ConfigureStep
<1> QED
  BY <1>2 DEF EngineInv, OpenInv, Search!IInv

LEMMA AllocEngine ==
  ASSUME EngineInv, sce # Empty, Engine!EncodeAlloc PROVE EngineInv'
<1>1. Search!IInv /\ Search!EncodeAlloc
  BY EngineActions, EngineInvIsIInv
<1>2. Search!IInv'
  BY <1>1, SearchAssumptions, Search!AllocStep
<1> QED
  BY <1>2 DEF EngineInv, OpenInv, Search!IInv

\* An empty channel's parts are consulted in order, and nothing else happens.
LEMMA EmptyEngine ==
  ASSUME EngineInv, EncodeEmpty PROVE EngineInv'
<1>1. /\ running /\ running' = running /\ sce = Empty /\ sce' = sce /\ CurEncPos \in {0, 1}
      /\ CurEncPos' = CurEncPos + 1 /\ fresh' = (fresh \cap 0 .. CurEncPos - 1) \cup {CurEncPos}
      /\ UNCHANGED <<RepeatEncPos, repeats, TargetBits, MinLambda, MaxLambda, CurLambda,
                     LastLambda, cost, used, frames>>
  BY DEF EncodeEmpty, Engine!Encoded, Engine!NextPart, Engine!GoTo, search, sce
<1>2. 0 .. CurEncPos - 1 \subseteq fresh /\ CurEncPos \in Nat
  BY <1>1 DEF EngineInv, OpenInv, Search!PrefixIsFresh
<1>3. 0 .. CurEncPos' - 1 \subseteq fresh'
  BY <1>1, <1>2, Search!PrefixGrows, SearchAssumptions
<1>4. Search!TypeOK'
  <2>1. CurEncPos' \in 0 .. 2 /\ fresh' \subseteq Search!Parts
    BY <1>1 DEF EngineInv, OpenInv, Search!TypeOK, Search!Parts
  <2> QED
    BY <1>1, <2>1 DEF EngineInv, OpenInv, Search!TypeOK
<1>5. Search!RangeInv' /\ Search!LastFits' /\ Search!BoundsInv'
  BY <1>1 DEF EngineInv, OpenInv, Search!RangeInv, Search!LastFits, Search!BoundsInv,
     Search!NonIncreasing
<1> QED
  BY <1>1, <1>3, <1>4, <1>5 DEF EngineInv, OpenInv, Search!PrefixIsFresh

LEMMA DumpEngine ==
  ASSUME EngineInv, Engine!Dump PROVE EngineInv'
<1>1. /\ running /\ running' = FALSE /\ RepeatEncPos' = 0 /\ frames' = frames + 1
      /\ UNCHANGED <<CurEncPos, TargetBits, MinLambda, MaxLambda, CurLambda, LastLambda,
                     cost, used, fresh, repeats>>
  BY DEF Engine!Dump, Engine!search
<1>2. Search!TypeOK'
  <2>1. frames' \in 0 .. 2 * MaxUnits
    BY <1>1, BoundAssumption DEF EngineInv, OpenInv, Search!TypeOK, Search!RangeInv
  <2>2. running' \in BOOLEAN /\ RepeatEncPos' \in {0, 1}
    BY <1>1
  <2> QED
    BY <1>1, <2>1, <2>2 DEF EngineInv, OpenInv, Search!TypeOK
<1>3. Search!RangeInv' /\ Search!LastFits' /\ Search!BoundsInv'
  BY <1>1 DEF EngineInv, OpenInv, Search!RangeInv, Search!LastFits, Search!BoundsInv,
     Search!NonIncreasing
<1>4. Search!PrefixIsFresh' /\ Search!AllocFits' /\ Search!AllocIsTight'
  BY <1>1 DEF Search!PrefixIsFresh, Search!AllocFits, Search!AllocIsTight, Search!Settled
<1> QED
  BY <1>2, <1>3, <1>4 DEF EngineInv, OpenInv

LEMMA IdleEngine ==
  ASSUME EngineInv, UNCHANGED engine, sce' = sce \/ ~running PROVE EngineInv'
<1>1. UNCHANGED <<running, CurEncPos, RepeatEncPos, TargetBits, MinLambda, MaxLambda, CurLambda,
                  LastLambda, cost, used, fresh, repeats, frames>>
  BY DEF engine, search
<1>2. OpenInv'
  BY <1>1 DEF EngineInv, OpenInv, Search!TypeOK, Search!RangeInv, Search!LastFits,
     Search!BoundsInv, Search!NonIncreasing, Search!PrefixIsFresh
<1>3. Search!AllocFits' = Search!AllocFits /\ Search!AllocIsTight' = Search!AllocIsTight
  BY <1>1 DEF Search!AllocFits, Search!AllocIsTight, Search!Settled, Search!NonIncreasing
<1> QED
  BY <1>1, <1>2, <1>3 DEF EngineInv

LEMMA InitEngine == Init => EngineInv
<1>1. Init => Search!Init
  BY EngineActions DEF Init
<1>2. Search!Init => Search!IInv
  BY SearchAssumptions, Search!InitIInv
<1> QED
  BY <1>1, <1>2 DEF EngineInv, OpenInv, Search!IInv

LEMMA EngineStep == EngineInv /\ [Next]_vars => EngineInv'
<1> SUFFICES ASSUME EngineInv, [Next]_vars PROVE EngineInv'
  OBVIOUS
<1>1. CASE BeginUnit \/ NextChannel
  BY <1>1, BeginChannelEngine DEF BeginUnit, NextChannel, BeginChannel
<1>2. CASE Configure
  BY <1>2, ConfigureEngine DEF Configure
<1>3. CASE EncodeEmpty
  BY <1>3, EmptyEngine
<1>4. CASE Probe \/ GiveUpBfu \/ Settle
  BY <1>4, AllocEngine DEF Probe, GiveUpBfu, Settle, EncodeAlloc
<1>5. CASE Dump
  BY <1>5, DumpEngine DEF Dump
<1>6. CASE WriteFrame
  BY <1>6, IdleEngine DEF WriteFrame
<1>7. CASE UNCHANGED vars
  BY <1>7, IdleEngine DEF vars, sce
<1> QED
  BY <1>1, <1>2, <1>3, <1>4, <1>5, <1>6, <1>7 DEF Next, Encode

THEOREM EngineInvariance == Spec => []EngineInv
BY InitEngine, EngineStep, PTL DEF Spec
-----------------------------------------------------------------------------
(***************************************************************************)
(* The channels of a unit                                                  *)
(***************************************************************************)

\* A unit has a first channel with sound; a second one without is the side of a mono
\* input in joint stereo, which always has two.
UnitInv ==
  /\ params \in ContainerParams /\ BfuIdxConst \in BfuIdxConsts /\ units \in Nat
  /\ elements \in Seq(Names \cup {Empty}) /\ channel \in 0 .. Len(elements)
  /\ running => channel > 0
  /\ channel > 0 =>
       /\ Len(elements) \in {1, 2} /\ elements[1] # Empty
       /\ params.Js => Len(elements) = 2
       /\ Len(elements) = 2 /\ elements[2] = Empty => params.Js

\* The lines held in the cache are those of the channel that is written.
CacheInv ==
  /\ ~running => SpecCache = EmptyCache
  /\ running => \A i \in BFUs : \A u \in SpecCache[i] : u = [word |-> u.word, of |-> Me]

\* An empty channel has one silent block. Of any other, the search is about the number
\* of BFUs as it stands, and what it settled on is what is kept.
ContextInv ==
  running =>
    /\ NumBfu \in 1 .. 32
    /\ sce = Empty => PrecisionPerBlock = [i \in {0} |-> 0]
    /\ sce # Empty /\ (CurEncPos > 0 \/ repeats > 0) =>
         NumBfu <= CalcInitialNumBfu(BitsToAlloc(channel))
    /\ sce # Empty /\ CurEncPos > 0 =>
         TargetBits = BitsToAlloc(channel) /\ cost = CostCurve[sce][NumBfu]
    /\ sce # Empty /\ CurEncPos = 2 =>
         /\ PrecisionPerBlock = FirstWords(LastAlloc[sce][used], NumBfu)
         /\ CodingMode = CheaperMode(sce, used, NumBfu)

OwnInv == UnitInv /\ CacheInv /\ ContextInv /\ MantissasMatch

LEMMA InitOwn == Init => OwnInv
<1> SUFFICES ASSUME Init PROVE OwnInv
  OBVIOUS
<1>1. running = FALSE
  BY DEF Init, Engine!Init
<1>2. UnitInv
  <2>1. << >> \in Seq(Names \cup {Empty}) /\ Len(<< >>) = 0
    OBVIOUS
  <2> QED
    BY <1>1, <2>1 DEF Init, UnitInv
<1> QED
  BY <1>1, <1>2 DEF Init, OwnInv, CacheInv, ContextInv, MantissasMatch, Ready

\* What WriteSoundUnit makes of its input.
LEMMA ElementsOf ==
  ASSUME NEW s \in Inputs, NEW js \in BOOLEAN, NEW e,
         e = s \o IF js /\ Len(s) = 1 THEN <<Empty>> ELSE << >>
  PROVE  /\ e \in Seq(Names \cup {Empty}) /\ Len(e) \in {1, 2} /\ e[1] # Empty
         /\ js => Len(e) = 2
         /\ Len(e) = 2 /\ e[2] = Empty => js
<1>1. s \in Seq(Names) /\ Len(s) \in {1, 2} /\ Empty \notin Names
  BY ChannelAssumption
<1>2. s \in Seq(Names \cup {Empty}) /\ s[1] \in Names /\ (Len(s) = 2 => s[2] \in Names)
  BY <1>1
<1>3. CASE js /\ Len(s) = 1
  <2>1. e = s \o <<Empty>> /\ <<Empty>> \in Seq(Names \cup {Empty}) /\ Len(<<Empty>>) = 1
    BY <1>3
  <2>2. e \in Seq(Names \cup {Empty}) /\ Len(e) = 2 /\ e[1] = s[1]
    BY <1>2, <1>3, <2>1, ConcatProperties
  <2> QED
    BY <1>1, <1>2, <1>3, <2>2
<1>4. CASE ~(js /\ Len(s) = 1)
  <2>1. e = s
    BY <1>2, <1>4, ConcatEmptySeq
  <2> QED
    BY <1>1, <1>2, <1>4, <2>1
<1> QED
  BY <1>3, <1>4

LEMMA UnitStep == UnitInv /\ EngineInv /\ [Next]_vars => UnitInv'
<1> SUFFICES ASSUME UnitInv, EngineInv, [Next]_vars PROVE UnitInv'
  OBVIOUS
<1> USE DEF UnitInv
<1>1. CASE BeginUnit
  <2>1. /\ UNCHANGED <<params, BfuIdxConst, units>> /\ channel' = 1 /\ running'
    BY <1>1 DEF BeginUnit, BeginChannel, config, Engine!BeginRun
  <2>2. PICK s \in Inputs : elements' = s \o IF params.Js /\ Len(s) = 1 THEN <<Empty>> ELSE << >>
    BY <1>1 DEF BeginUnit
  <2>3. params.Js \in BOOLEAN
    BY ParamsAssumption
  <2>4. /\ elements' \in Seq(Names \cup {Empty}) /\ Len(elements') \in {1, 2} /\ elements'[1] # Empty
        /\ params.Js => Len(elements') = 2
        /\ Len(elements') = 2 /\ elements'[2] = Empty => params.Js
    BY <2>2, <2>3, ElementsOf
  <2> QED
    BY <2>1, <2>4
<1>2. CASE NextChannel
  <2>1. /\ UNCHANGED <<params, BfuIdxConst, units, elements>> /\ channel = 1 /\ channel' = 2
        /\ Len(elements) = 2
    BY <1>2 DEF NextChannel, BeginChannel, config
  <2> QED
    BY <2>1
<1>3. CASE Encode
  <2>1. UNCHANGED <<params, BfuIdxConst, units, elements, channel>>
    BY <1>3 DEF Encode, Configure, EncodeEmpty, Probe, GiveUpBfu, Settle, Dump, config
  <2>2. channel > 0
    <3>1. CASE Configure \/ EncodeEmpty \/ Probe \/ GiveUpBfu \/ Settle
      BY <3>1 DEF Configure, EncodeEmpty, Probe, GiveUpBfu, Settle, EncodeAlloc
    <3>2. CASE Dump
      BY <3>2 DEF Dump, Engine!Dump
    <3> QED
      BY <1>3, <3>1, <3>2 DEF Encode
  <2> QED
    BY <2>1, <2>2
<1>4. CASE WriteFrame
  <2>1. /\ UNCHANGED <<params, BfuIdxConst, elements, running>> /\ channel' = 0 /\ ~running
        /\ units' = units + 1
    BY <1>4 DEF WriteFrame, config, engine
  <2> QED
    BY <2>1
<1>5. CASE UNCHANGED vars
  BY <1>5 DEF vars, config, engine
<1> QED
  BY <1>1, <1>2, <1>3, <1>4, <1>5 DEF Next
-----------------------------------------------------------------------------
(***************************************************************************)
(* The lines                                                               *)
(***************************************************************************)

\* Whatever the cache holds of a BFU at a word length, it is the channel's own.
LEMMA OwnLines ==
  ASSUME CacheInv, running, NEW i \in BFUs, NEW w
  PROVE  GetOrCompute(i, w) = [word |-> w, of |-> Me]
<1>1. \A u \in {u \in SpecCache[i] : u.word = w} : u = [word |-> w, of |-> Me]
  BY DEF CacheInv
<1> QED
  BY <1>1 DEF GetOrCompute

\* A probe adds lines of the channel to the cache, and to what is to be dumped.
LEMMA OwnQuantise ==
  ASSUME CacheInv, running, NEW l, Quantise(l)
  PROVE  /\ \A i \in BFUs : \A u \in SpecCache'[i] : u = [word |-> u.word, of |-> Me]
         /\ \A i \in BFUs : i < NumBfu /\ LastAlloc[sce][l][i] # 0 =>
              Mantissas'[i] = [word |-> LastAlloc[sce][l][i], of |-> Me]
<1>1. ASSUME NEW i \in BFUs, NEW u \in SpecCache'[i] PROVE u = [word |-> u.word, of |-> Me]
  <2>1. u \in SpecCache[i] \/ \E w : u = GetOrCompute(i, w)
    BY <1>1 DEF Quantise
  <2>2. CASE u \in SpecCache[i]
    BY <2>2 DEF CacheInv
  <2>3. ASSUME NEW w, u = GetOrCompute(i, w) PROVE u = [word |-> u.word, of |-> Me]
    BY <2>3, OwnLines
  <2> QED
    BY <2>1, <2>2, <2>3
<1>2. ASSUME NEW i \in BFUs, i < NumBfu, LastAlloc[sce][l][i] # 0
      PROVE  Mantissas'[i] = [word |-> LastAlloc[sce][l][i], of |-> Me]
  <2>1. Mantissas'[i] = GetOrCompute(i, LastAlloc[sce][l][i])
    BY <1>2 DEF Quantise
  <2> QED
    BY <2>1, OwnLines
<1> QED
  BY <1>1, <1>2

LEMMA CacheStep == CacheInv /\ [Next]_vars => CacheInv'
<1> SUFFICES ASSUME CacheInv, [Next]_vars PROVE CacheInv'
  OBVIOUS
<1>1. CASE BeginUnit \/ NextChannel
  <2>1. ~running /\ running' /\ SpecCache' = SpecCache
    BY <1>1 DEF BeginUnit, NextChannel, BeginChannel, Engine!BeginRun
  <2> QED
    BY <2>1 DEF CacheInv, EmptyCache
<1>2. CASE Configure \/ EncodeEmpty
  <2>1. running' = running /\ SpecCache' = SpecCache /\ Me' = Me
    BY <1>2 DEF Configure, EncodeEmpty, Engine!EncodeConfigure, Me
  <2> QED
    BY <2>1 DEF CacheInv
<1>3. CASE Probe \/ GiveUpBfu \/ Settle
  <2>1. running /\ running' /\ Me' = Me
    BY <1>3 DEF Probe, GiveUpBfu, Settle, EncodeAlloc, Engine!EncodeAlloc, Me
  <2>2. Quantise(Engine!DoContinue)
    BY <1>3 DEF Probe, GiveUpBfu, Settle
  <2> QED
    BY <2>1, <2>2, OwnQuantise DEF CacheInv
<1>4. CASE Dump
  BY <1>4 DEF Dump, Engine!Dump, CacheInv, EmptyCache
<1>5. CASE WriteFrame
  BY <1>5 DEF WriteFrame, engine, CacheInv, EmptyCache
<1>6. CASE UNCHANGED vars
  BY <1>6 DEF vars, engine, CacheInv, EmptyCache, Me
<1> QED
  BY <1>1, <1>2, <1>3, <1>4, <1>5, <1>6 DEF Next, Encode
-----------------------------------------------------------------------------
(***************************************************************************)
(* What the search settles on                                              *)
(***************************************************************************)

LEMMA InitialNumBfu ==
  ASSUME UnitInv, NEW target \in Nat PROVE CalcInitialNumBfu(target) \in 1 .. 32
<1>1. BfuIdxConst \in 0 .. 32
  BY BoundAssumption DEF UnitInv
<1> QED
  BY <1>1 DEF CalcInitialNumBfu, Min2, Max2

\* Within a channel neither its target nor the most BFUs it can start with change.
LEMMA SameTarget ==
  ASSUME UNCHANGED <<config, elements, channel>>
  PROVE  /\ BitsToAlloc(channel)' = BitsToAlloc(channel)
         /\ CalcInitialNumBfu(BitsToAlloc(channel))' = CalcInitialNumBfu(BitsToAlloc(channel))
<1>1. params' = params /\ BfuIdxConst' = BfuIdxConst /\ elements' = elements /\ channel' = channel
  BY DEF config
<1>2. \A c : Overhead(c)' = Overhead(c) /\ Loudness(c)' = Loudness(c)
  BY <1>1 DEF Overhead, HeaderBits, Gain, Loudness
<1>3. \A m, n : RatioBytes(m, n)' = RatioBytes(m, n)
  BY <1>1 DEF RatioBytes
<1>4. ShareBytes(channel)' = ShareBytes(channel)
  BY <1>1, <1>2, <1>3 DEF ShareBytes, CalcMSBytesShift
<1> QED
  BY <1>1, <1>2, <1>4 DEF BitsToAlloc, CalcInitialNumBfu

\* A probe keeps the target and the curve; going back to the first part is a repeat.
LEMMA AllocFrame ==
  ASSUME Engine!EncodeAlloc, repeats \in Nat
  PROVE  /\ running /\ running' /\ CurEncPos = 1 /\ CurEncPos' \in {0, 1, 2}
         /\ used' = Engine!DoContinue /\ TargetBits' = TargetBits /\ cost' = cost
         /\ CurEncPos' = 0 => repeats' > 0
BY DEF Engine!EncodeAlloc, Engine!DoSubmit, Engine!GoTo, Engine!RepeatPass, Engine!search

LEMMA ConfigureContext ==
  ASSUME UnitInv, EngineInv, ContextInv, Configure PROVE ContextInv'
<1> DEFINE target == BitsToAlloc(channel)
<1>1. /\ running /\ running' /\ CurEncPos' = 1 /\ TargetBits' \in Nat
      /\ sce # Empty /\ TargetBits' = target /\ NumBfu' = ConfigureNumBfu(target)
      /\ cost' = CostCurve[sce][NumBfu'] /\ UNCHANGED <<config, elements, channel>>
  <2>1. running /\ running' = running /\ CurEncPos' = CurEncPos + 1 /\ CurEncPos = 0
    BY DEF Configure, Engine!EncodeConfigure, Engine!NextPart, Engine!GoTo
  <2>2. sce # Empty /\ TargetBits' = target /\ NumBfu' = ConfigureNumBfu(target)
        /\ cost' = CostCurve[sce][NumBfu'] /\ UNCHANGED <<config, elements, channel>>
    BY DEF Configure
  <2>3. PICK t \in 1 .. MaxTarget : TargetBits' = t
    BY DEF Configure, Engine!EncodeConfigure, Engine!DoStart
  <2>4. MaxTarget \in Nat
    BY DEF MaxTarget
  <2> HIDE DEF target
  <2>5. TargetBits' \in Nat
    BY <2>3, <2>4
  <2> QED
    BY <2>1, <2>2, <2>5
<1>2. target \in Nat
  BY <1>1
<1>3. sce' = sce /\ BitsToAlloc(channel)' = target
      /\ CalcInitialNumBfu(target)' = CalcInitialNumBfu(target)
  BY <1>1, SameTarget DEF sce
<1>4. NumBfu' \in 1 .. 32 /\ NumBfu' <= CalcInitialNumBfu(target)
  <2>1. CalcInitialNumBfu(target) \in 1 .. 32 /\ repeats \in Nat
    BY <1>2, InitialNumBfu, EngineFacts
  <2>2. CASE repeats = 0
    BY <1>1, <2>1, <2>2 DEF ConfigureNumBfu
  <2>3. CASE repeats > 0
    BY <1>1, <2>1, <2>3 DEF ConfigureNumBfu, ContextInv
  <2> QED
    BY <2>1, <2>2, <2>3
<1> QED
  BY <1>1, <1>3, <1>4 DEF ContextInv

LEMMA AllocContext ==
  ASSUME UnitInv, EngineInv, ContextInv, Probe \/ GiveUpBfu \/ Settle PROVE ContextInv'
<1>1. Engine!EncodeAlloc /\ sce # Empty /\ UNCHANGED <<config, elements, channel>>
  BY DEF Probe, GiveUpBfu, Settle, EncodeAlloc
<1>2. /\ running /\ running' /\ CurEncPos = 1 /\ CurEncPos' \in {0, 1, 2}
      /\ used' = Engine!DoContinue /\ TargetBits' = TargetBits /\ cost' = cost
      /\ CurEncPos' = 0 => repeats' > 0
  BY <1>1, AllocFrame, EngineFacts
<1>3. /\ sce' = sce /\ BitsToAlloc(channel)' = BitsToAlloc(channel)
      /\ CalcInitialNumBfu(BitsToAlloc(channel))' = CalcInitialNumBfu(BitsToAlloc(channel))
  BY <1>1, SameTarget DEF sce
<1>4. /\ NumBfu \in 1 .. 32 /\ NumBfu <= CalcInitialNumBfu(BitsToAlloc(channel))
      /\ TargetBits = BitsToAlloc(channel) /\ cost = CostCurve[sce][NumBfu]
  BY <1>1, <1>2 DEF ContextInv
<1>5. CalcInitialNumBfu(BitsToAlloc(channel)) \in Int
  BY <1>4, EngineFacts, InitialNumBfu
<1>6. CASE Probe
  BY <1>1, <1>2, <1>3, <1>4, <1>6 DEF Probe, ContextInv
<1>7. CASE GiveUpBfu
  <2>1. CurEncPos' = 0 /\ NumBfu > 1 /\ NumBfu' = NumBfu - 1
    BY <1>7 DEF GiveUpBfu, GivesUp
  <2> QED
    BY <1>1, <1>2, <1>3, <1>4, <1>5, <2>1 DEF ContextInv
<1>8. CASE Settle
  <2>1. /\ CurEncPos' = 2 /\ NumBfu' = NumBfu
        /\ PrecisionPerBlock' = FirstWords(LastAlloc[sce][used'], NumBfu)
        /\ CodingMode' = CheaperMode(sce, used', NumBfu)
    BY <1>2, <1>8 DEF Settle
  <2> HIDE DEF Lambdas
  <2> QED
    BY <1>1, <1>2, <1>3, <1>4, <2>1 DEF ContextInv, FirstWords, CheaperMode
<1> QED
  BY <1>6, <1>7, <1>8

LEMMA ContextStep == UnitInv /\ EngineInv /\ ContextInv /\ [Next]_vars => ContextInv'
<1> SUFFICES ASSUME UnitInv, EngineInv, ContextInv, [Next]_vars PROVE ContextInv'
  OBVIOUS
<1>1. CASE BeginUnit \/ NextChannel
  <2>1. /\ ~running /\ CurEncPos' = RepeatEncPos /\ repeats' = 0 /\ NumBfu' = 1
        /\ PrecisionPerBlock' = [i \in {0} |-> 0]
    BY <1>1 DEF BeginUnit, NextChannel, BeginChannel, Engine!BeginRun, Engine!GoTo
  <2>2. CurEncPos' = 0
    BY <2>1, EngineFacts
  <2> QED
    BY <2>1, <2>2 DEF ContextInv
<1>2. CASE Configure
  BY <1>2, ConfigureContext
<1>3. CASE EncodeEmpty
  <2>1. running /\ sce = Empty /\ sce' = sce /\ UNCHANGED context
    BY <1>3 DEF EncodeEmpty, sce
  <2> QED
    BY <2>1 DEF ContextInv, context
<1>4. CASE Probe \/ GiveUpBfu \/ Settle
  BY <1>4, AllocContext
<1>5. CASE Dump
  BY <1>5 DEF Dump, Engine!Dump, ContextInv
<1>6. CASE WriteFrame
  BY <1>6 DEF WriteFrame, engine, ContextInv
<1>7. CASE UNCHANGED vars
  <2>1. UNCHANGED <<config, elements, channel, context, running, CurEncPos, repeats, TargetBits, cost, used>>
    BY <1>7 DEF vars, engine, search
  <2> QED
    BY <2>1, SameTarget DEF ContextInv, context, sce, CheaperMode, FirstWords
<1> QED
  BY <1>1, <1>2, <1>3, <1>4, <1>5, <1>6, <1>7 DEF Next, Encode
\* The shift that settles the search writes all the lines that are dumped with it.
LEMMA SettleMatches ==
  ASSUME EngineInv, CacheInv, ContextInv, Settle PROVE MantissasMatch'
<1> DEFINE l == Engine!DoContinue
<1>1. /\ Engine!EncodeAlloc /\ Quantise(l) /\ UNCHANGED <<channel, units>>
      /\ PrecisionPerBlock' = FirstWords(LastAlloc[sce][l], NumBfu)
  BY DEF Settle, EncodeAlloc
<1>2. running /\ CurEncPos = 1
  BY <1>1 DEF Engine!EncodeAlloc
<1>3. NumBfu \in 1 .. 32 /\ Me' = Me
  BY <1>1, <1>2 DEF ContextInv, Me
<1> HIDE DEF l
<1>4. \A i \in BFUs : i < NumBfu /\ LastAlloc[sce][l][i] # 0 =>
        Mantissas'[i] = [word |-> LastAlloc[sce][l][i], of |-> Me]
  BY <1>1, <1>2, OwnQuantise
<1>5. /\ DOMAIN PrecisionPerBlock' = 0 .. NumBfu - 1
      /\ \A i \in 0 .. NumBfu - 1 : PrecisionPerBlock'[i] = LastAlloc[sce][l][i]
  BY <1>1 DEF FirstWords
<1>6. \A i \in 0 .. NumBfu - 1 : i \in BFUs /\ i < NumBfu
  BY <1>3 DEF BFUs
<1> QED
  BY <1>3, <1>4, <1>5, <1>6 DEF MantissasMatch

LEMMA MatchStep ==
  EngineInv /\ CacheInv /\ ContextInv /\ MantissasMatch /\ [Next]_vars => MantissasMatch'
<1> SUFFICES ASSUME EngineInv, CacheInv, ContextInv, MantissasMatch, [Next]_vars
             PROVE  MantissasMatch'
  OBVIOUS
<1>1. CASE BeginUnit \/ NextChannel
  <2>1. ~running /\ CurEncPos' = RepeatEncPos
    BY <1>1 DEF BeginUnit, NextChannel, BeginChannel, Engine!BeginRun, Engine!GoTo
  <2>2. CurEncPos' = 0
    BY <2>1, EngineFacts
  <2> QED
    BY <2>2 DEF MantissasMatch, Ready
<1>2. CASE Configure
  <2>1. CurEncPos = 0 /\ CurEncPos' = CurEncPos + 1
    BY <1>2 DEF Configure, Engine!EncodeConfigure, Engine!NextPart, Engine!GoTo
  <2> QED
    BY <2>1 DEF MantissasMatch, Ready
<1>3. CASE EncodeEmpty
  <2>1. running /\ sce = Empty /\ UNCHANGED context
    BY <1>3 DEF EncodeEmpty
  <2>2. PrecisionPerBlock' = [i \in {0} |-> 0]
    BY <2>1 DEF ContextInv, context
  <2> QED
    BY <2>2 DEF MantissasMatch
<1>4. CASE Probe \/ GiveUpBfu
  BY <1>4 DEF Probe, GiveUpBfu, MantissasMatch, Ready
<1>5. CASE Settle
  BY <1>5, SettleMatches
<1>6. CASE Dump
  BY <1>6 DEF Dump, Engine!Dump, MantissasMatch, Ready
<1>7. CASE WriteFrame
  BY <1>7 DEF WriteFrame, engine, MantissasMatch, Ready
<1>8. CASE UNCHANGED vars
  BY <1>8 DEF vars, engine, context, MantissasMatch, Ready, Me
<1> QED
  BY <1>1, <1>2, <1>3, <1>4, <1>5, <1>6, <1>7, <1>8 DEF Next, Encode

THEOREM OwnInvariance == Spec => []OwnInv
<1>1. Init => EngineInv /\ OwnInv
  BY InitEngine, InitOwn
<1>2. EngineInv /\ OwnInv /\ [Next]_vars => (EngineInv /\ OwnInv)'
  BY EngineStep, UnitStep, CacheStep, ContextStep, MatchStep DEF OwnInv
<1> QED
  BY <1>1, <1>2, PTL DEF Spec

\* MantissasMatch: the lines dumped are this channel's of this unit, quantised for the
\* word lengths dumped with them, whatever was probed before (TEncodeCtx::Mantissas,
\* TQuantCache).
THEOREM LinesMatch == Spec => []MantissasMatch
<1>1. OwnInv => MantissasMatch
  BY DEF OwnInv
<1> QED
  BY <1>1, OwnInvariance, PTL
-----------------------------------------------------------------------------
(***************************************************************************)
(* The room of a channel                                                   *)
(***************************************************************************)

LEMMA SumOfOne == ASSUME NEW f PROVE SumTo(f, 1) = SumTo(f, 0) + f[0] /\ SumTo(f, 0) = 0
<1>1. SumTo(f, 0 + 1) = SumTo(f, 0) + f[0]
  BY SumToDef
<1> QED
  BY <1>1, SumToDef

LEMMA FourPoints ==
  ASSUME NEW a \in 3 .. 66, NEW b \in 3 .. 66, NEW c \in 3 .. 66, NEW d \in 3 .. 66
  PROVE  a + b + c + d \in 12 .. 264
OBVIOUS

LEMMA SumOfFour ==
  ASSUME NEW f, f[0] \in Int, f[1] \in Int, f[2] \in Int, f[3] \in Int
  PROVE  SumTo(f, 4) = f[0] + f[1] + f[2] + f[3]
<1>1. SumTo(f, 0) = 0 /\ SumTo(f, 0 + 1) = SumTo(f, 0) + f[0]
  BY SumToDef
<1>2. SumTo(f, 1 + 1) = SumTo(f, 1) + f[1]
  BY SumToDef
<1>3. SumTo(f, 2 + 1) = SumTo(f, 2) + f[2]
  BY SumToDef
<1>4. SumTo(f, 3 + 1) = SumTo(f, 3) + f[3]
  BY SumToDef, SMTT(30)
<1> QED
  BY <1>1, <1>2, <1>3, <1>4

\* The gain points of four bands, and the one band without any of an empty channel.
LEMMA GainBits ==
  ASSUME NEW g \in [1 .. 4 -> 0 .. 7]
  PROVE  /\ Len(g) = 4
         /\ SumTo([b \in 0 .. 4 - 1 |-> 3 + 9 * g[b + 1]], 4) \in 12 .. 264
<1>1. Len(g) = 4
  <2>1. g \in Seq(0 .. 7)
    <3>1. 4 \in Nat
      OBVIOUS
    <3> QED
      BY <3>1, SeqDef
  <2>2. DOMAIN g = 1 .. 4 /\ DOMAIN g = 1 .. Len(g) /\ Len(g) \in Nat
    BY <2>1, LenProperties
  <2> QED
    BY <2>2
<1> DEFINE f == [b \in 0 .. 4 - 1 |-> 3 + 9 * g[b + 1]]
<1>2. f[0] \in 3 .. 66 /\ f[1] \in 3 .. 66 /\ f[2] \in 3 .. 66 /\ f[3] \in 3 .. 66
  <2>1. g[0 + 1] \in 0 .. 7 /\ g[1 + 1] \in 0 .. 7 /\ g[2 + 1] \in 0 .. 7 /\ g[3 + 1] \in 0 .. 7
    OBVIOUS
  <2> QED
    BY <2>1
<1> HIDE DEF f
<1>3. SumTo(f, 4) = f[0] + f[1] + f[2] + f[3]
  BY <1>2, SumOfFour
<1>4. SumTo(f, 4) \in 12 .. 264
  <2>1. f[0] + f[1] + f[2] + f[3] \in 12 .. 264
    BY <1>2, FourPoints
  <2> QED
    BY <1>3, <2>1, ZenonT(60)
<1> QED
  BY <1>1, <1>4 DEF f

LEMMA HeaderRange ==
  ASSUME UnitInv, channel > 0, NEW c \in 1 .. Len(elements)
  PROVE  /\ HeaderBits(c) \in 8 .. 280 /\ Overhead(c) = HeaderBits(c) + 6
         /\ elements[c] = Empty => HeaderBits(c) = 19
         /\ Loudness(c) \in Nat
<1>1. /\ elements \in Seq(Names \cup {Empty}) /\ elements[1] # Empty /\ Len(elements) \in {1, 2}
      /\ Len(elements) = 2 /\ elements[2] = Empty => params.Js
      /\ DOMAIN elements = 1 .. Len(elements)
  BY DEF UnitInv
<1>2. Overhead(c) = HeaderBits(c) + 6
  BY <1>1 DEF Overhead
<1> DEFINE n == IF params.Js /\ c = 2 THEN 1 + 3 + 4 * 2 + 2 ELSE 6
           points(g) == SumTo([b \in 0 .. Len(g) - 1 |-> 3 + 9 * g[b + 1]], Len(g))
<1>3. HeaderBits(c) = n + 2 + points(Gain(c)) /\ n \in {6, 14}
  BY DEF HeaderBits
<1>4. CASE elements[c] = Empty
  <2>1. c = 2 /\ n = 14
    BY <1>1, <1>4
  <2>2. Gain(c) = <<0>> /\ Loudness(c) = 0
    BY <1>4 DEF Gain, Loudness
  <2>3. points(<<0>>) = 3
    <3> DEFINE f == [b \in 0 .. 1 - 1 |-> 3 + 9 * <<0>>[b + 1]]
    <3>1. Len(<<0>>) = 1 /\ f[0] = 3
      OBVIOUS
    <3>2. SumTo(f, 1) = 0 + f[0]
      BY SumOfOne
    <3> QED
      BY <3>1, <3>2
  <2> HIDE DEF points, n
  <2>4. HeaderBits(c) = 14 + 2 + 3
    BY <1>3, <2>1, <2>2, <2>3
  <2> QED
    BY <1>2, <2>2, <2>4
<1>5. CASE elements[c] # Empty
  <2>1. elements[c] \in Names
    BY <1>1, <1>5
  <2>2. Gain(c) \in [1 .. 4 -> 0 .. 7] /\ Loudness(c) \in Nat
    BY <1>5, <2>1, ChannelAssumption DEF Gain, Loudness
  <2>3. points(Gain(c)) \in 12 .. 264
    BY <2>2, GainBits
  <2> HIDE DEF points, n
  <2>4. n + 2 + points(Gain(c)) \in 8 .. 280
    <3>1. \A x \in {6, 14}, y \in 12 .. 264 : x + 2 + y \in 8 .. 280
      OBVIOUS
    <3> QED
      BY <1>3, <2>3, <3>1
  <2> QED
    BY <1>2, <1>3, <1>5, <2>2, <2>4
<1> QED
  BY <1>4, <1>5

LEMMA OverheadRange ==
  ASSUME UnitInv, channel > 0, NEW c \in 1 .. Len(elements)
  PROVE  Overhead(c) \in 14 .. 286
<1>1. PICK h \in 8 .. 280 : h = HeaderBits(c)
  BY HeaderRange
<1>2. h + 6 \in 14 .. 286
  OBVIOUS
<1>3. Overhead(c) = h + 6
  BY <1>1, HeaderRange
<1> QED
  BY <1>2, <1>3, Zenon

LEMMA RoomOf ==
  ASSUME NEW half \in 96 .. 512, NEW o \in 14 .. 286, NEW share \in 1 .. 2 * half - 1,
         NEW d \in 1 .. half, share >= d, 8 * d >= o + 14
  PROVE  /\ share \in 1 .. 2 * half - 1 /\ 8 * share >= o + 14
         /\ Max2(1, 8 * share - o) = 8 * share - o
BY DEF Max2

\* Half a frame is at least 96 bytes.
LEMMA ParamsOf ==
  ASSUME UnitInv
  PROVE  /\ params.FrameSz \in Nat /\ params.Js \in BOOLEAN
         /\ params.FrameSz \div 2 \in 96 .. 512
         /\ params.FrameSz = 2 * (params.FrameSz \div 2)
<1>1. params \in [FrameSz : 192 .. 1024, Js : BOOLEAN] /\ params.FrameSz % 2 = 0
  BY ParamsAssumption DEF UnitInv
<1>2. \A n \in 192 .. 1024 : n % 2 = 0 => n \div 2 \in 96 .. 512 /\ n = 2 * (n \div 2)
  OBVIOUS
<1>3. params.FrameSz \in 192 .. 1024
  BY <1>1
<1>4. \A n \in 192 .. 1024 : n \in Nat
  OBVIOUS
<1> QED
  BY <1>1, <1>2, <1>3, <1>4, SMTT(30)

LEMMA RatioInt ==
  ASSUME NEW m \in Nat, NEW s \in Nat, params.FrameSz \in Nat PROVE RatioBytes(m, s) \in Int
<1> DEFINE q == params.FrameSz * (m - s) + (m + s)
           r == 2 * (m + s)
<1>1. q \in Int /\ r \in Int
  OBVIOUS
<1>2. CASE m + s # 0
  <2>1. r > 0
    BY <1>2
  <2> HIDE DEF q, r
  <2>2. q \div r \in Int
    BY <1>1, <2>1
  <2> QED
    BY <1>2, <2>2 DEF RatioBytes, q, r
<1> QED
  BY <1>2 DEF RatioBytes

LEMMA MidSideShare ==
  ASSUME UnitInv, channel > 0, params.Js,
         NEW half \in 96 .. 512, NEW d \in 1 .. half,
         d = Div8Ceil(Overhead(1) + Overhead(2))
  PROVE  /\ CalcMSBytesShift(half) \in -(half - d) .. (half - d)
         /\ elements[2] = Empty => CalcMSBytesShift(half) = half - d
<1>1. Len(elements) = 2 /\ params.FrameSz \in Nat
  BY ParamsOf DEF UnitInv
<1>2. Loudness(1) \in Nat /\ Loudness(2) \in Nat
  BY <1>1, HeaderRange
<1> DEFINE ratio == RatioBytes(Loudness(1), Loudness(2))
<1>3. ratio \in Int
  BY <1>1, <1>2, RatioInt
<1> HIDE DEF ratio
<1>4. CalcMSBytesShift(half) = IF elements[2] = Empty THEN half - d
                              ELSE Max2(Min2(ratio, half - d), -(half - d))
  BY DEF CalcMSBytesShift, ratio
<1> QED
  BY <1>3, <1>4 DEF Max2, Min2

\* Whatever the loudness, a channel's share has room for the header and a silent block.
LEMMA ShareHasRoom ==
  ASSUME UnitInv, channel > 0, NEW c \in 1 .. Len(elements)
  PROVE  /\ ShareBytes(c) \in 1 .. params.FrameSz - 1
         /\ 8 * ShareBytes(c) >= Overhead(c) + 14
         /\ BitsToAlloc(c) = 8 * ShareBytes(c) - Overhead(c)
<1>1. Len(elements) \in {1, 2} /\ (params.Js => Len(elements) = 2)
  BY DEF UnitInv
<1> DEFINE half == params.FrameSz \div 2
<1>2. half \in 96 .. 512 /\ params.FrameSz = 2 * half /\ params.Js \in BOOLEAN
  BY ParamsOf
<1>3. PICK o \in 14 .. 286 : o = Overhead(c)
  BY OverheadRange
<1>4. ASSUME NEW d \in 1 .. half, 8 * d >= o + 14, ShareBytes(c) \in d .. 2 * half - d
      PROVE  /\ ShareBytes(c) \in 1 .. params.FrameSz - 1
             /\ 8 * ShareBytes(c) >= Overhead(c) + 14
             /\ BitsToAlloc(c) = 8 * ShareBytes(c) - Overhead(c)
  <2> HIDE DEF half
  <2>1. ShareBytes(c) \in 1 .. 2 * half - 1 /\ ShareBytes(c) >= d
    BY <1>2, <1>4
  <2>2. /\ 8 * ShareBytes(c) >= o + 14
        /\ Max2(1, 8 * ShareBytes(c) - o) = 8 * ShareBytes(c) - o
    BY <1>2, <1>4, <2>1, RoomOf, ZenonT(60)
  <2> QED
    BY <1>2, <1>3, <2>1, <2>2 DEF BitsToAlloc
<1>5. CASE ~params.Js
  <2>1. ShareBytes(c) = half + 0 \/ ShareBytes(c) = half - 0
    BY <1>5 DEF ShareBytes
  <2> HIDE DEF half
  <2>2. 96 \in 1 .. half /\ 8 * 96 >= o + 14 /\ ShareBytes(c) \in 96 .. 2 * half - 96
    BY <1>2, <2>1
  <2> QED
    BY <1>4, <2>2
<1>6. CASE params.Js
  <2>1. 1 \in 1 .. Len(elements) /\ 2 \in 1 .. Len(elements) /\ c \in {1, 2}
    <3>1. Len(elements) = 2
      BY <1>1, <1>6
    <3> QED
      BY <3>1
  <2>2. PICK a \in 14 .. 286 : a = Overhead(1)
    BY <2>1, OverheadRange
  <2>3. PICK b \in 14 .. 286 : b = Overhead(2)
    BY <2>1, OverheadRange
  <2> DEFINE d == Div8Ceil(a + b)
             m == CalcMSBytesShift(half)
  <2>4. d \in 1 .. half /\ 8 * d >= a + b
    <3> HIDE DEF half
    <3> QED
      BY <1>2, SMTT(30) DEF Div8Ceil
  <2>5. m \in -(half - d) .. (half - d)
    <3>1. d = Div8Ceil(Overhead(1) + Overhead(2))
      BY <2>2, <2>3
    <3> HIDE DEF d, half
    <3> QED
      BY <1>2, <1>6, <2>4, <3>1, MidSideShare
  <2>6. ShareBytes(c) = IF c = 1 THEN half + m ELSE half - m
    BY <1>6 DEF ShareBytes
  <2> HIDE DEF d, m, half
  <2>7. ShareBytes(c) \in d .. 2 * half - d
    BY <1>2, <2>4, <2>5, <2>6
  <2>8. o = a \/ o = b
    BY <1>3, <2>1, <2>2, <2>3
  <2>9. 8 * d >= o + 14
    BY <2>4, <2>8
  <2> QED
    BY <1>4, <2>4, <2>7, <2>9
<1> QED
  BY <1>5, <1>6
-----------------------------------------------------------------------------
(***************************************************************************)
(* What is written of a channel                                            *)
(***************************************************************************)

LEMMA SumOfThrees ==
  ASSUME NEW f, NEW n \in Nat, \A k \in 0 .. n - 1 : f[k] = 3 PROVE SumTo(f, n) = 3 * n
<1> DEFINE T == {m \in Nat : m <= n => SumTo(f, m) = 3 * m}
<1>1. 0 \in T
  BY SumToDef
<1>2. ASSUME NEW m \in T PROVE m + 1 \in T
  <2>1. SUFFICES ASSUME m + 1 <= n PROVE SumTo(f, m + 1) = 3 * (m + 1)
    OBVIOUS
  <2>2. SumTo(f, m) = 3 * m /\ f[m] = 3 /\ SumTo(f, m + 1) = SumTo(f, m) + f[m]
    BY <2>1, SumToDef
  <2> QED
    BY <2>2
<1>3. T = Nat
  <2> HIDE DEF T
  <2>1. T \in SUBSET Nat
    BY DEF T
  <2> QED
    BY <1>1, <1>2, <2>1, SetInduction
<1> QED
  BY <1>3

\* A silent channel has no words at any shift, and ConsiderEnergyErr leaves it so.
LEMMA SilentAlloc ==
  ASSUME NEW x \in Names, Silent(x), NEW l \in Lambdas
  PROVE  LastAlloc[x][l] = [i \in BFUs |-> 0]
<1>1. Channels[x].quiet = BFUs
  BY ChannelAssumption DEF Silent
<1>2. FirstAlloc[x][l] = [i \in BFUs |-> 0]
  BY <1>1 DEF FirstAlloc, CalcBitsAllocation
<1> DEFINE settled(i, w) == w \in {0, 7} \/ <<i, w>> \notin Channels[x].poor
           least(i, w) == settled(i, w) /\ \A v \in 0 .. w - 1 : ~settled(i, v)
<1>3. ASSUME NEW i \in BFUs PROVE (CHOOSE w \in 0 .. 7 : least(i, w)) = 0
  <2>1. least(i, 0)
    OBVIOUS
  <2>2. ASSUME NEW w \in 0 .. 7, least(i, w) PROVE w = 0
    <3>1. SUFFICES ASSUME w > 0 PROVE FALSE
      OBVIOUS
    <3>2. 0 \in 0 .. w - 1 /\ settled(i, 0)
      BY <3>1
    <3> QED
      BY <2>2, <3>2
  <2> HIDE DEF least
  <2> QED
    BY <2>1, <2>2
<1>4. LastAlloc[x][l] = ConsiderEnergyErr(x, [i \in BFUs |-> 0])
  BY <1>2 DEF LastAlloc
<1> QED
  BY <1>3, <1>4 DEF ConsiderEnergyErr

LEMMA SilentCost ==
  ASSUME NEW x \in Names, Silent(x), NEW l \in Lambdas, NEW n \in 1 .. 32
  PROVE  TotalBits(x, l, n) = 3 * n + 5
<1>1. LastAlloc[x][l] = [i \in BFUs |-> 0]
  BY SilentAlloc
<1> DEFINE bits == SpecBits[x][l]
<1>2. /\ bits.blocks = [i \in BFUs |-> 3] /\ bits.clc = [i \in BFUs |-> 0]
      /\ bits.vlc = [i \in BFUs |-> 0]
  BY <1>1 DEF SpecBits, BlockBits, ClcBits, VlcBits
<1>3. n \in Nat /\ \A k \in 0 .. n - 1 : k \in BFUs
  BY DEF BFUs
<1>4. SumTo(bits.blocks, n) = 3 * n /\ SumTo(bits.clc, n) = 0 /\ SumTo(bits.vlc, n) = 0
  BY <1>2, <1>3, SumOfThrees, SumZero
<1>5. CalcSpecsBitsConsumption(x, l, n) = 3 * n
  BY <1>4 DEF CalcSpecsBitsConsumption
<1>6. TonalFields(x, FirstWords(LastAlloc[x][l], n), n) = << >>
  BY ChannelAssumption DEF Silent, TonalFields, TonalBlocks
<1> QED
  BY <1>5, <1>6 DEF TotalBits, TonalBits

\* The number of BFUs a silent channel starts with is one it has the room for.
LEMMA SilentFits ==
  ASSUME NEW target \in Nat, target >= 14, NEW n \in 1 .. 32, BfuIdxConst \in 0 .. 32,
         n <= CalcInitialNumBfu(target)
  PROVE  3 * n + 5 <= target
<1>1. CASE target >= 101
  BY <1>1
<1>2. CASE target < 101
  <2> DEFINE lim == (target - 5) \div 3
  <2>1. lim \in Nat /\ lim >= 1 /\ 3 * lim + 5 <= target
    OBVIOUS
  <2>2. CalcInitialNumBfu(target) = Min2(IF BfuIdxConst # 0 THEN BfuIdxConst ELSE 32, Max2(1, lim))
    BY <1>2 DEF CalcInitialNumBfu
  <2> HIDE DEF lim
  <2>3. n <= lim
    BY <2>1, <2>2 DEF Min2, Max2
  <2> QED
    BY <2>1, <2>3
<1> QED
  BY <1>1, <1>2

\* EncodeSpecs writes what the last probe counted.
LEMMA WrittenAsCounted ==
  ASSUME NEW l \in Lambdas, NEW n \in 1 .. 32, sce \in Names, sce # Empty,
         PrecisionPerBlock = FirstWords(LastAlloc[sce][l], n),
         CodingMode = CheaperMode(sce, l, n)
  PROVE  EncodeSpecsBits = 5 + 1 + TotalBits(sce, l, n)
<1> DEFINE a == LastAlloc[sce][l]
<1>1. DOMAIN PrecisionPerBlock = 0 .. n - 1
  BY DEF FirstWords
<1>2. NumBlocks = n
  <2>1. Cardinality(0 .. n - 1) = n
    BY FS_Interval
  <2> QED
    BY <1>1, <2>1 DEF NumBlocks
<1>3. \A i \in 0 .. n - 1 : i \in BFUs /\ Written[i] = a[i]
  <2>1. \A i \in 0 .. n - 1 : i \in BFUs /\ i < n
    BY DEF BFUs
  <2>2. \A i \in 0 .. n - 1 : PrecisionPerBlock[i] = a[i]
    BY DEF FirstWords
  <2>3. \A i \in BFUs : i < n => Written[i] = PrecisionPerBlock[i]
    BY <1>2 DEF Written
  <2> QED
    BY <2>1, <2>2, <2>3
<1>4. /\ SumTo(BlockBits(Written), n) = SumTo(BlockBits(a), n)
      /\ SumTo(ClcBits(Written), n) = SumTo(ClcBits(a), n)
      /\ SumTo(VlcBits(sce, Written), n) = SumTo(VlcBits(sce, a), n)
  <2>1. \A i \in 0 .. n - 1 : /\ BlockBits(Written)[i] = BlockBits(a)[i]
                              /\ ClcBits(Written)[i] = ClcBits(a)[i]
                              /\ VlcBits(sce, Written)[i] = VlcBits(sce, a)[i]
    BY <1>3 DEF BlockBits, ClcBits, VlcBits
  <2> QED
    BY <2>1, SumSame
<1>5. SpecBits[sce][l] = [blocks |-> BlockBits(a), clc |-> ClcBits(a), vlc |-> VlcBits(sce, a)]
  BY DEF SpecBits
<1>6. BlocksBits = CalcSpecsBitsConsumption(sce, l, n)
  <2> HIDE DEF a
  <2> QED
    BY <1>2, <1>4, <1>5 DEF BlocksBits, CalcSpecsBitsConsumption
<1>7. TonesBits = TonalBits(TonalFields(sce, FirstWords(a, n), n), Channels[sce].vlc)
  BY <1>2 DEF TonesBits
<1> QED
  BY <1>6, <1>7 DEF EncodeSpecsBits, TotalBits

LEMMA EmptyFits ==
  ASSUME UnitInv, ContextInv, running, sce = Empty
  PROVE  HeaderBits(channel) + EncodeSpecsBits <= 8 * ShareBytes(channel)
<1>1. channel \in 1 .. Len(elements) /\ channel > 0 /\ PrecisionPerBlock = [i \in {0} |-> 0]
  BY DEF UnitInv, ContextInv
<1>2. NumBlocks = 1
  BY <1>1, FS_Singleton DEF NumBlocks
<1>3. SumTo(BlockBits(Written), 1) = 3
  <2>1. BlockBits(Written)[0] = 3
    BY <1>1, <1>2 DEF BlockBits, Written, BFUs
  <2> QED
    BY <2>1, SumOfOne
<1>4. EncodeSpecsBits = 14
  BY <1>2, <1>3 DEF EncodeSpecsBits, BlocksBits, TonesBits
<1>5. HeaderBits(channel) = 19 /\ Overhead(channel) = HeaderBits(channel) + 6
  BY <1>1, HeaderRange DEF sce
<1>6. ShareBytes(channel) \in Int /\ 8 * ShareBytes(channel) >= Overhead(channel) + 14
  <2>1. params.FrameSz \in Nat
    BY ParamsOf
  <2> QED
    BY <1>1, <2>1, ShareHasRoom
<1> QED
  BY <1>4, <1>5, <1>6

LEMMA FitsFromInv ==
  ASSUME UnitInv, EngineInv, ContextInv PROVE FitsShare
<1> SUFFICES ASSUME running, CurEncPos = 2
             PROVE  \/ HeaderBits(channel) + EncodeSpecsBits <= 8 * ShareBytes(channel)
                    \/ ~Silent(sce) /\ cost[20 * Unit] > TargetBits
  BY DEF FitsShare, Ready
<1>1. CASE sce = Empty
  BY <1>1, EmptyFits
<1>2. CASE sce # Empty
  <2>1. channel \in 1 .. Len(elements) /\ channel > 0 /\ sce \in Names
    BY <1>2 DEF UnitInv, sce
  <2>2. /\ NumBfu \in 1 .. 32 /\ NumBfu <= CalcInitialNumBfu(BitsToAlloc(channel))
        /\ TargetBits = BitsToAlloc(channel) /\ cost = CostCurve[sce][NumBfu]
        /\ PrecisionPerBlock = FirstWords(LastAlloc[sce][used], NumBfu)
        /\ CodingMode = CheaperMode(sce, used, NumBfu)
    BY <1>2 DEF ContextInv
  <2>3. /\ used \in Lambdas /\ TargetBits \in Nat /\ cost \in [Lambdas -> Nat]
        /\ cost[used] <= TargetBits \/ used = 20 * Unit
    BY <1>2, EngineFacts
  <2>4. cost[used] = TotalBits(sce, used, NumBfu) /\ cost[used] \in Nat
    BY <2>1, <2>2, <2>3 DEF CostCurve
  <2>5. EncodeSpecsBits = 5 + 1 + cost[used]
    BY <1>2, <2>1, <2>2, <2>3, <2>4, WrittenAsCounted
  <2>6. PICK h \in 8 .. 280 : h = HeaderBits(channel) /\ Overhead(channel) = h + 6
    BY <2>1, HeaderRange
  <2>7. PICK share \in Nat : share = ShareBytes(channel)
    <3>1. params.FrameSz \in Nat /\ ShareBytes(channel) \in 1 .. params.FrameSz - 1
      BY <2>1, ParamsOf, ShareHasRoom
    <3> QED
      BY <3>1
  <2>8. TargetBits = 8 * share - (h + 6) /\ TargetBits >= 14
    <3>1. 8 * share >= (h + 6) + 14 /\ TargetBits = 8 * share - (h + 6)
      BY <2>1, <2>2, <2>6, <2>7, ShareHasRoom
    <3> QED
      BY <2>3, <3>1
  <2>9. CASE cost[used] <= TargetBits
    BY <2>3, <2>4, <2>5, <2>6, <2>7, <2>8, <2>9
  <2>10. CASE cost[used] > TargetBits
    <3>1. used = 20 * Unit
      BY <2>3, <2>4, <2>10
    <3>2. ASSUME Silent(sce) PROVE FALSE
      <4>1. cost[used] = 3 * NumBfu + 5
        BY <2>1, <2>2, <2>3, <2>4, <3>2, SilentCost
      <4>2. BfuIdxConst \in 0 .. 32
        BY BoundAssumption DEF UnitInv
      <4>3. 3 * NumBfu + 5 <= TargetBits
        BY <2>2, <2>3, <2>8, <4>2, SilentFits
      <4> QED
        BY <2>2, <2>3, <2>10, <4>1, <4>3
    <3> QED
      BY <2>10, <3>1, <3>2
  <2> QED
    BY <2>3, <2>4, <2>9, <2>10
<1> QED
  BY <1>1, <1>2

\* FitsShare: what is written of a channel fits the bytes of the frame that are kept of
\* it (TAt3BitStream::WriteSoundUnit), or the channel has sound and cannot be made to fit.
THEOREM ChannelsFit == Spec => []FitsShare
<1>1. EngineInv /\ OwnInv => FitsShare
  BY FitsFromInv DEF OwnInv
<1> QED
  BY <1>1, EngineInvariance, OwnInvariance, PTL

(***************************************************************************)
(* Tonal components: stretches of a loop                                   *)
(***************************************************************************)
\* FirstOf computes what its recursion says.
IsFirst(f, n, joins, limit) ==
  \A k \in 1 .. n :
    f[k] = IF k > 1 /\ f[k - 1] \in joins[k] /\ k - f[k - 1] < limit THEN f[k - 1] ELSE k

\* The recursion of FirstOf ends: element k asks for element k - 1 only.
LEMMA FirstRecurs ==
  ASSUME NEW n \in Nat, NEW joins, NEW limit
  PROVE  IsFirst(FirstOf(n, joins, limit), n, joins, limit)
<1> DEFINE next(k, open) == IF k > 1 /\ open \in joins[k] /\ k - open < limit THEN open ELSE k
           advance == [kv \in (1 .. n) \X Nat |-> next(kv[1], kv[2])]
           first[k \in 1 .. n] ==
             LET open == first[k - 1]
             IN IF k > 1 /\ open \in joins[k] /\ k - open < limit THEN open ELSE k
<1>1. \A k \in 1 .. n : \A v \in Nat : advance[<<k, v>>] = next(k, v) /\ advance[<<k, v>>] \in Nat
  OBVIOUS
<1> HIDE DEF advance
<1>2. PICK g : Stepped(g, 0, advance, Nat, n)
  BY <1>1, BoundedRecursion
<1> DEFINE f == [k \in 1 .. n |-> g[k]]
<1>3. ASSUME NEW k \in 1 .. n
      PROVE  f[k] = next(k, f[k - 1])
  <2>1. g[k] = advance[<<k, g[k - 1]>>] /\ g[k - 1] \in Nat
    BY <1>2 DEF Stepped
  <2>2. g[k] = next(k, g[k - 1])
    BY <1>1, <2>1
  <2>3. CASE k > 1
    BY <2>2, <2>3
  <2>4. CASE k = 1
    BY <2>2, <2>4
  <2> QED
    BY <2>3, <2>4
<1>4. f = [k \in 1 .. n |-> f[k]]
  OBVIOUS
<1> HIDE DEF f
<1>5. f = [k \in 1 .. n |->
             IF k > 1 /\ f[k - 1] \in joins[k] /\ k - f[k - 1] < limit THEN f[k - 1] ELSE k]
  BY <1>3, <1>4
<1>6. first = [k \in 1 .. n |->
                 IF k > 1 /\ first[k - 1] \in joins[k] /\ k - first[k - 1] < limit
                 THEN first[k - 1] ELSE k]
  BY <1>5
<1>7. FirstOf(n, joins, limit) = first
  BY DEF FirstOf
<1> HIDE DEF first
<1> QED
  BY <1>6, <1>7 DEF IsFirst

\* A stretch has room for its members, which follow one another from its first.
FirstFacts(f, n, joins, limit) ==
  \A k \in 1 .. n :
    /\ f[k] \in 1 .. k /\ k - f[k] < limit
    /\ \A m \in f[k] .. k : f[m] = f[k] /\ (m > f[k] => f[k] \in joins[m])
    /\ f[k] = k /\ k > 1 => \/ f[k - 1] \notin joins[k] 
                            \/ k - f[k - 1] >= limit

\* FirstOf yields stretches.
LEMMA FirstIs ==
  ASSUME NEW n \in Nat, NEW joins, NEW limit \in Nat \ {0}
  PROVE  FirstFacts(FirstOf(n, joins, limit), n, joins, limit)
<1>1. PICK f : f = FirstOf(n, joins, limit)
  OBVIOUS
<1>2. IsFirst(f, n, joins, limit)
  BY <1>1, FirstRecurs
<1> DEFINE Good(k) == /\ f[k] \in 1 .. k /\ k - f[k] < limit
                      /\ \A m \in f[k] .. k : f[m] = f[k] /\ (m > f[k] => f[k] \in joins[m])
           T == {k \in Nat : k \in 1 .. n => Good(k)}
<1>3. 0 \in T
  OBVIOUS
<1>4. ASSUME NEW j \in T PROVE j + 1 \in T
  <2>1. j \in Nat /\ j + 1 \in Nat
    OBVIOUS
  <2>2. SUFFICES ASSUME j + 1 \in 1 .. n PROVE Good(j + 1)
    BY <2>1
  <2>3. PICK k : k = j + 1
    OBVIOUS
  <2>4. k \in 1 .. n /\ k - 1 = j
    BY <2>1, <2>2, <2>3
  <2>5. f[k] = IF k > 1 /\ f[k - 1] \in joins[k] /\ k - f[k - 1] < limit THEN f[k - 1] ELSE k
    BY <1>2, <2>4 DEF IsFirst
  <2>6. CASE k > 1 /\ f[k - 1] \in joins[k] /\ k - f[k - 1] < limit
    <3>1. j \in 1 .. n /\ Good(j) /\ f[k] = f[j]
      BY <2>1, <2>4, <2>5, <2>6
    <3>2. f[k] \in 1 .. k /\ k - f[k] < limit
      BY <2>1, <2>4, <2>6, <3>1
    <3>3. ASSUME NEW m \in f[k] .. k PROVE f[m] = f[k] /\ (m > f[k] => f[k] \in joins[m])
      <4>1. CASE m = k
        BY <2>4, <2>6, <3>1, <4>1
      <4>2. CASE m # k
        <5>1. m \in f[j] .. j
          BY <2>1, <2>4, <3>1, <3>2, <4>2
        <5> QED
          BY <3>1, <5>1
      <4> QED
        BY <4>1, <4>2
    <3> QED
      BY <2>3, <3>2, <3>3
  <2>7. CASE ~(k > 1 /\ f[k - 1] \in joins[k] /\ k - f[k - 1] < limit)
    <3>1. f[k] = k
      BY <2>5, <2>7
    <3>2. f[k] \in 1 .. k /\ k - f[k] < limit
      BY <2>4, <3>1
    <3>3. \A m \in f[k] .. k : m = k
      BY <2>4, <3>1
    <3> QED
      BY <2>3, <3>1, <3>2, <3>3
  <2> QED
    BY <2>6, <2>7
<1> HIDE DEF T
<1>5. T \in SUBSET Nat
  BY DEF T
<1>6. T = Nat
  BY <1>3, <1>4, <1>5, SetInduction
<1>7. ASSUME NEW k \in 1 .. n PROVE Good(k)
  BY <1>6 DEF T
<1>8. ASSUME NEW k \in 1 .. n, f[k] = k, k > 1
      PROVE  \/ f[k - 1] \notin joins[k] 
             \/ k - f[k - 1] >= limit
  <2>1. k - 1 \in 1 .. n
    BY <1>8
  <2>2. f[k - 1] \in 1 .. k - 1
    BY <1>7, <2>1
  <2>3. f[k] = IF k > 1 /\ f[k - 1] \in joins[k] /\ k - f[k - 1] < limit THEN f[k - 1] ELSE k
    BY <1>2 DEF IsFirst
  <2> QED
    BY <1>8, <2>2, <2>3
<1> HIDE DEF Good
<1>9. \A k \in 1 .. n : Good(k) /\ (f[k] = k /\ k > 1 => \/ f[k - 1] \notin joins[k] 
                                                        \/ k - f[k - 1] >= limit)
  BY <1>7, <1>8
<1> QED
  BY <1>1, <1>9 DEF FirstFacts, Good

\* Numbers that leave no gap from b on are as many as they reach.
LEMMA NoGap ==
  ASSUME NEW S \in SUBSET Nat, IsFiniteSet(S), NEW b \in Nat,
         \A x \in S : x >= b /\ b .. x \subseteq S
  PROVE  Cardinality(S) \in Nat /\ S = b .. b + Cardinality(S) - 1
<1>1. PICK c : c = Cardinality(S)
  OBVIOUS
<1>2. c \in Nat
  BY <1>1, FS_CardinalityType
<1>3. ASSUME NEW x \in S PROVE x \in b .. b + c - 1
  <2>1. x \in Nat /\ x >= b /\ b .. x \in SUBSET S
    OBVIOUS
  <2>2. Cardinality(b .. x) = x - b + 1
    BY <2>1, FS_Interval
  <2>3. Cardinality(b .. x) <= c
    BY <1>1, <2>1, FS_Subset
  <2> QED
    BY <1>2, <2>1, <2>2, <2>3
<1>4. IsFiniteSet(b .. b + c - 1) /\ Cardinality(b .. b + c - 1) = c
  BY <1>2, FS_Interval
<1>5. S \in SUBSET (b .. b + c - 1)
  BY <1>3
<1>6. S = b .. b + c - 1
  BY <1>1, <1>4, <1>5, FS_Subset
<1> QED
  BY <1>1, <1>2, <1>6

(***************************************************************************)
(* The lines taken out of the spectrum                                     *)
(***************************************************************************)
\* BFUs lie one after the other, so that a line is in one of them only.
LEMMA TabRises ==
  \A b, c \in 0 .. 32 : /\ BlockSizeTab[b] \in Nat
                        /\ b <= c => BlockSizeTab[b] <= BlockSizeTab[c]
                        /\ b < c => BlockSizeTab[b] < BlockSizeTab[c]
<1>1. \A b \in 0 .. 32 : BlockSizeTab[b] \in Nat
  <2>1. \A b \in 0 .. 32 : BlockSizeTab[b] \in 0 .. 1024
    BY TableAssumption, ZenonT(60)
  <2>2. \A x \in 0 .. 1024 : x \in Nat
    OBVIOUS
  <2> QED
    BY <2>1, <2>2, ZenonT(60)
<1>2. \A b \in 0 .. 31 : BlockSizeTab[b] < BlockSizeTab[b + 1]
  BY TableAssumption DEF BFUs
<1> DEFINE Rises(b, c) == /\ BlockSizeTab[b] <= BlockSizeTab[c]
                          /\ b < c => BlockSizeTab[b] < BlockSizeTab[c]
           T == {d \in Nat : \A b \in 0 .. 32 : b + d <= 32 => Rises(b, b + d)}
<1>3. 0 \in T
  BY <1>1
<1>4. ASSUME NEW d \in T PROVE d + 1 \in T
  <2>1. d \in Nat /\ d + 1 \in Nat
    OBVIOUS
  <2>2. SUFFICES ASSUME NEW b \in 0 .. 32, b + (d + 1) <= 32
                 PROVE  BlockSizeTab[b] < BlockSizeTab[b + (d + 1)] /\ BlockSizeTab[b] <= BlockSizeTab[b + (d + 1)]
    BY <1>1, <2>1
  <2>3. b + d \in 0 .. 31 /\ b + (d + 1) = (b + d) + 1 /\ b + d + 1 \in 0 .. 32 /\ b + d \in 0 .. 32
    BY <2>1, <2>2
  <2>4. BlockSizeTab[b] <= BlockSizeTab[b + d]
    BY <2>2, <2>3
  <2>5. BlockSizeTab[b + d] < BlockSizeTab[(b + d) + 1]
    BY <1>2, <2>3
  <2>6. PICK x, y, z : x = BlockSizeTab[b] /\ y = BlockSizeTab[b + d] /\ z = BlockSizeTab[(b + d) + 1]
    OBVIOUS
  <2>7. x \in Int /\ y \in Int /\ z \in Int
    BY <1>1, <2>3, <2>6
  <2> QED
    BY <2>3, <2>4, <2>5, <2>6, <2>7
<1> HIDE DEF T
<1>5. T \in SUBSET Nat
  BY DEF T
<1>6. T = Nat
  BY <1>3, <1>4, <1>5, SetInduction
<1>7. ASSUME NEW b \in 0 .. 32, NEW c \in 0 .. 32, b <= c
      PROVE  Rises(b, c)
  <2>1. c - b \in Nat /\ b + (c - b) = c /\ (b < c => c - b > 0)
    BY <1>7
  <2>2. c - b \in T
    BY <1>6, <2>1
  <2> QED
    BY <1>7, <2>1, <2>2, SMTT(30) DEF T
<1> QED
  BY <1>1, <1>7, SMTT(30)

\* Where BFU b is.
InBfu(p, b) == BlockSizeTab[b] <= p /\ p < BlockSizeTab[b + 1]

\* BfuOf finds the BFU of a line.
LEMMA BfuIs ==
  ASSUME NEW p \in Nat, NEW b \in 0 .. 31, InBfu(p, b)
  PROVE  BfuOf(p) = b
<1>1. ASSUME NEW c \in 0 .. 31, InBfu(p, c) PROVE c = b
  <2>1. b \in 0 .. 32 /\ c \in 0 .. 32 /\ b + 1 \in 0 .. 32 /\ c + 1 \in 0 .. 32
    OBVIOUS
  <2>2. /\ b < c => BlockSizeTab[b + 1] <= BlockSizeTab[c]
        /\ c < b => BlockSizeTab[c + 1] <= BlockSizeTab[b]
    BY <2>1, TabRises, SMTT(30)
  <2>3. /\ BlockSizeTab[b] \in Int /\ BlockSizeTab[b + 1] \in Int
        /\ BlockSizeTab[c] \in Int /\ BlockSizeTab[c + 1] \in Int
    BY <2>1, TabRises
  <2> QED
    BY <1>1, <2>2, <2>3 DEF InBfu
<1>2. BfuOf(p) = CHOOSE c \in 0 .. 31 : InBfu(p, c)
  BY DEF BfuOf, InBfu
<1> HIDE DEF BfuOf
<1> QED
  BY <1>1, <1>2

\* A line that is taken out is in the run of its BFU.
InRun(tones, p, b) ==
  b \in DOMAIN tones /\ tones[b].first <= p /\ p < tones[b].first + tones[b].len

\* The lines of a run are in its BFU.
LEMMA RunIs ==
  ASSUME NEW tones, IsSelection(tones), NEW b \in DOMAIN tones
  PROVE  /\ b \in 8 .. 28 /\ tones[b].first \in Nat /\ tones[b].len \in 1 .. 5
         /\ \A p \in Int : InRun(tones, p, b) => p \in 0 .. 1023 /\ InBfu(p, b) /\ BfuOf(p) = b
<1>1. b \in 8 .. 28 /\ tones[b] \in Runs(b)
  BY DEF IsSelection, TonalBfus
<1>2. PICK x, y : x = BlockSizeTab[b] /\ y = BlockSizeTab[b + 1]
  BY SMTT(30)
<1>3. x \in 0 .. 1024 /\ y \in 0 .. 1024
  <2>1. b \in 0 .. 32 /\ b + 1 \in 0 .. 32
    BY <1>1
  <2>2. \A c \in 0 .. 32 : BlockSizeTab[c] \in 0 .. 1024
    BY TableAssumption
  <2> QED
    BY <1>2, <2>1, <2>2, ZenonT(60)
<1>4. PICK r : r = tones[b]
  OBVIOUS
<1>5. r.first \in x .. y - 1 /\ r.len \in 1 .. 5 /\ r.first + r.len <= y
  BY <1>1, <1>2, <1>4 DEF Runs, MaxTonalLen
<1>6. ASSUME NEW p \in Int, InRun(tones, p, b)
      PROVE  p \in 0 .. 1023 /\ InBfu(p, b) /\ BfuOf(p) = b
  <2>1. r.first <= p /\ p < r.first + r.len
    BY <1>4, <1>6 DEF InRun
  <2>2. x <= p /\ p < y /\ p \in 0 .. 1023
    BY <1>3, <1>5, <2>1
  <2>3. InBfu(p, b)
    BY <1>2, <2>2 DEF InBfu
  <2>4. p \in Nat /\ b \in 0 .. 31
    BY <1>1, <2>2
  <2> QED
    BY <2>2, <2>3, <2>4, BfuIs
<1>7. r.first \in Nat
  BY <1>3, <1>5
<1> QED
  BY <1>1, <1>4, <1>5, <1>6, <1>7

\* What TakenLines takes.
LEMMA TakenIs ==
  ASSUME NEW tones, IsSelection(tones), NEW n \in Nat
  PROVE  \A p : p \in TakenLines(tones, n) <=> p \in Int /\ \E b \in DOMAIN tones : b < n /\ InRun(tones, p, b)
<1>1. ASSUME NEW p, p \in TakenLines(tones, n)
      PROVE  p \in Int /\ \E b \in DOMAIN tones : b < n /\ InRun(tones, p, b)
  <2>1. PICK b \in DOMAIN tones : b < n /\ p \in tones[b].first .. tones[b].first + tones[b].len - 1
    BY <1>1 DEF TakenLines
  <2>2. PICK x, y : x = tones[b].first /\ y = tones[b].len
    OBVIOUS
  <2>3. x \in Nat /\ y \in 1 .. 5
    BY <2>2, RunIs
  <2>4. p \in Int /\ x <= p /\ p < x + y
    BY <2>1, <2>2, <2>3
  <2> QED
    BY <2>1, <2>2, <2>4 DEF InRun
<1>2. ASSUME NEW p \in Int, NEW b \in DOMAIN tones, b < n, InRun(tones, p, b)
      PROVE  p \in TakenLines(tones, n)
  <2>1. PICK x, y : x = tones[b].first /\ y = tones[b].len
    OBVIOUS
  <2>2. x \in Nat /\ y \in 1 .. 5
    BY <2>1, RunIs
  <2>3. p \in x .. x + y - 1
    BY <1>2, <2>1, <2>2 DEF InRun
  <2> QED
    BY <1>2, <2>1, <2>3 DEF TakenLines
<1> QED
  BY <1>1, <1>2

LineFacts(tones, S) ==
  /\ S \in SUBSET Nat /\ S \subseteq 0 .. 1023 /\ IsFiniteSet(S)
  /\ \A p \in S : BfuOf(p) \in 8 .. 28 /\ InBfu(p, BfuOf(p)) /\ InRun(tones, p, BfuOf(p))
  /\ \A p \in Int, b \in DOMAIN tones : InRun(tones, p, b) => p \in S /\ BfuOf(p) = b
  /\ \A p \in S, q \in S, r \in Int : BfuOf(p) = BfuOf(q) /\ p <= r /\ r <= q => r \in S /\ q - p <= 4
  /\ \A n \in 0 .. 32 : TakenLines(tones, n) = {p \in S : BfuOf(p) < n}

\* The lines taken out are in BFUs that have a run, and in a BFU they are adjacent.
LEMMA LinesAre ==
  ASSUME NEW tones, IsSelection(tones)
  PROVE  LineFacts(tones, TakenLines(tones, 32))
<1>1. PICK S : S = TakenLines(tones, 32)
  OBVIOUS
<1>2. \A p : p \in S <=> p \in Int /\ \E b \in DOMAIN tones : b < 32 /\ InRun(tones, p, b)
  BY <1>1, TakenIs
<1>3. ASSUME NEW p \in S
      PROVE  p \in 0 .. 1023 /\ BfuOf(p) \in 8 .. 28 /\ InBfu(p, BfuOf(p)) /\ InRun(tones, p, BfuOf(p))
  <2>1. PICK b \in DOMAIN tones : p \in Int /\ InRun(tones, p, b)
    BY <1>2
  <2> QED
    BY <2>1, RunIs
<1>4. S \in SUBSET Nat /\ S \subseteq 0 .. 1023
  BY <1>3, SMTT(30)
<1>5. IsFiniteSet(S)
  <2>1. PICK m \in Nat : m = 1023
    OBVIOUS
  <2>2. IsFiniteSet(0 .. m)
    BY FS_Interval
  <2>3. S \in SUBSET (0 .. m)
    BY <1>4, <2>1
  <2> QED
    BY <2>2, <2>3, FS_Subset
<1>6. ASSUME NEW p \in Int, NEW b \in DOMAIN tones, InRun(tones, p, b)
      PROVE  p \in S /\ BfuOf(p) = b
  <2>1. b \in 8 .. 28 /\ BfuOf(p) = b
    BY <1>6, RunIs
  <2>2. b < 32
    BY <2>1
  <2> QED
    BY <1>2, <1>6, <2>1, <2>2
<1>7. ASSUME NEW p \in S, NEW q \in S, NEW r \in Int, BfuOf(p) = BfuOf(q), p <= r, r <= q
      PROVE  r \in S /\ q - p <= 4
  <2>1. PICK b : b = BfuOf(p)
    OBVIOUS
  <2>2. InRun(tones, p, b) /\ InRun(tones, q, b)
    BY <1>3, <1>7, <2>1
  <2>3. b \in DOMAIN tones
    BY <2>2 DEF InRun
  <2>4. PICK x, y : x = tones[b].first /\ y = tones[b].len
    OBVIOUS
  <2>5. x \in Nat /\ y \in 1 .. 5 /\ p \in Nat /\ q \in Nat
    BY <1>4, <2>3, <2>4, RunIs
  <2>6. x <= p /\ q < x + y
    BY <2>2, <2>4 DEF InRun
  <2>7. x <= r /\ r < x + y /\ q - p <= 4
    BY <1>7, <2>5, <2>6
  <2>8. InRun(tones, r, b)
    BY <2>3, <2>4, <2>7 DEF InRun
  <2> QED
    BY <1>6, <2>3, <2>7, <2>8
<1>8. ASSUME NEW n \in 0 .. 32 PROVE TakenLines(tones, n) = {p \in S : BfuOf(p) < n}
  <2>1. \A p : p \in TakenLines(tones, n) <=> p \in Int /\ \E b \in DOMAIN tones : b < n /\ InRun(tones, p, b)
    BY TakenIs
  <2>2. ASSUME NEW p, p \in TakenLines(tones, n) PROVE p \in S /\ BfuOf(p) < n
    BY <1>6, <2>1, <2>2
  <2>3. ASSUME NEW p \in S, BfuOf(p) < n PROVE p \in TakenLines(tones, n)
    <3>1. InRun(tones, p, BfuOf(p)) /\ p \in Int
      BY <1>3, SMTT(30)
    <3>2. BfuOf(p) \in DOMAIN tones
      BY <3>1 DEF InRun
    <3> QED
      BY <2>1, <2>3, <3>1, <3>2
  <2> QED
    BY <2>2, <2>3
<1> QED
  BY <1>1, <1>3, <1>4, <1>5, <1>6, <1>7, <1>8 DEF LineFacts

(***************************************************************************)
(* The blocks of lines                                                     *)
(***************************************************************************)
\* BFUs rise with lines.
LEMMA BfuRises ==
  ASSUME NEW p \in Int, NEW q \in Int, NEW b \in 0 .. 31, NEW c \in 0 .. 31,
         InBfu(p, b), InBfu(q, c), p <= q
  PROVE  b <= c
<1>1. SUFFICES ASSUME c < b PROVE FALSE
  OBVIOUS
<1>2. c + 1 \in 0 .. 32 /\ b \in 0 .. 32 /\ c + 1 <= b
  BY <1>1
<1>3. /\ BlockSizeTab[c + 1] \in Nat /\ BlockSizeTab[b] \in Nat
      /\ BlockSizeTab[c + 1] <= BlockSizeTab[b]
  BY <1>2, TabRises
<1> QED
  BY <1>3 DEF InBfu

\* The blocks that the lines of S are put in.
Blocks   == [Pos : Nat, Bfu : 8 .. 28, len : 1 .. 7]
BlocksOf(bs, S) ==
  /\ bs \in Seq(Blocks)
  /\ \A k \in DOMAIN bs : /\ bs[k].Pos \in S /\ bs[k].Bfu = BfuOf(bs[k].Pos)
                          /\ bs[k].Pos .. bs[k].Pos + bs[k].len - 1 \subseteq S
  /\ \A j, k \in DOMAIN bs : j < k => bs[j].Pos + bs[j].len <= bs[k].Pos /\ bs[j].Bfu < bs[k].Bfu
  /\ \A p \in S : \E k \in DOMAIN bs : p \in bs[k].Pos .. bs[k].Pos + bs[k].len - 1

\* The lines in order, and how they are put together.
LinesInOrder(P, n, S) ==
  /\ n \in Nat /\ P \in [1 .. n -> S]
  /\ \A j, k \in 1 .. n : j < k => P[j] < P[k]
  /\ \A p \in S : \E k \in 1 .. n : P[k] = p
Adjacent(P, n) == [k \in 1 .. n |-> {j \in 1 .. n : P[k] = P[j] + (k - j)}]

\* Two blocks do not begin in one BFU: its run is shorter than a block can be, and
\* what comes before its lines is not put with them only if there is no room.
LEMMA OneBeginsInBfu ==
  ASSUME NEW S, NEW tones, LineFacts(tones, S), NEW n, NEW P, LinesInOrder(P, n, S),
         NEW F, FirstFacts(F, n, Adjacent(P, n), 7),
         \A k \in 1 .. n : P[k] = P[F[k]] + (k - F[k]),
         NEW s \in 1 .. n, NEW t \in 1 .. n, s < t, F[s] = s, F[t] = t
  PROVE  BfuOf(P[s]) # BfuOf(P[t])
<1>1. SUFFICES ASSUME BfuOf(P[s]) = BfuOf(P[t]) PROVE FALSE
  OBVIOUS
<1>2. S \in SUBSET Nat
  BY DEF LineFacts
<1>3. /\ n \in Nat /\ \A k \in 1 .. n : P[k] \in S /\ P[k] \in Nat
      /\ \A j, k \in 1 .. n : j < k => P[j] < P[k]
      /\ \A p \in S : \E k \in 1 .. n : P[k] = p
  BY <1>2 DEF LinesInOrder
<1>4. t - 1 \in 1 .. n /\ s <= t - 1 /\ t > 1
  BY <1>3
<1>5. P[s] < P[t] /\ P[s] \in S /\ P[t] \in S /\ P[s] \in Nat /\ P[t] \in Nat
  BY <1>3
<1>6. P[t] - P[s] <= 4 /\ P[t] - 1 \in S
  <2>1. P[t] - 1 \in Int /\ P[s] <= P[t] - 1 /\ P[t] - 1 <= P[t]
    BY <1>5
  <2> QED
    BY <1>1, <1>5, <2>1 DEF LineFacts
<1>7. PICK m \in 1 .. n : P[m] = P[t] - 1
  BY <1>3, <1>6
<1>8. m = t - 1
  <2>1. CASE m > t - 1
    <3>1. t <= m
      BY <1>3, <2>1
    <3>2. P[t] <= P[m]
      BY <1>3, <1>5, <3>1
    <3> QED
      BY <1>5, <1>7, <3>2
  <2>2. CASE m < t - 1
    <3>1. P[m] < P[t - 1] /\ P[t - 1] < P[t] /\ P[t - 1] \in Nat
      BY <1>3, <1>4, <2>2
    <3> QED
      BY <1>5, <1>7, <3>1
  <2> QED
    BY <1>3, <2>1, <2>2
<1>9. PICK f : f = F[t - 1]
  OBVIOUS
<1>10. f \in 1 .. t - 1 /\ f \in 1 .. n /\ \A k \in f .. t - 1 : F[k] = f
  <2>1. f \in 1 .. t - 1 /\ \A k \in f .. t - 1 : F[k] = f
    BY <1>4, <1>9 DEF FirstFacts
  <2> QED
    BY <1>3, <2>1
<1>11. P[t] = P[f] + (t - f)
  <2>1. P[t - 1] = P[f] + (t - 1 - f)
    BY <1>4, <1>9
  <2>2. P[t - 1] = P[t] - 1 /\ P[f] \in Nat
    BY <1>3, <1>7, <1>8, <1>10
  <2> QED
    BY <1>3, <1>5, <1>10, <2>1, <2>2
<1>12. t - f >= 7
  <2>1. f \in Adjacent(P, n)[t]
    BY <1>10, <1>11 DEF Adjacent
  <2>2. \/ f \notin Adjacent(P, n)[t]
        \/ t - f >= 7
    BY <1>4, <1>9 DEF FirstFacts
  <2> QED
    BY <2>1, <2>2
<1>13. s <= f
  <2>1. SUFFICES ASSUME s > f PROVE FALSE
    BY <1>3, <1>10
  <2>2. s \in f .. t - 1
    BY <1>3, <1>4, <1>10, <2>1
  <2>3. F[s] = f
    BY <1>10, <2>2
  <2> QED
    BY <1>3, <1>10, <2>1, <2>3
<1>14. P[s] <= P[f] /\ P[f] \in Nat
  BY <1>3, <1>5, <1>10, <1>13
<1> QED
  BY <1>3, <1>5, <1>6, <1>10, <1>11, <1>12, <1>14

\* The block that begins with component b has the components whose stretch begins there.
LEMMA StretchIs ==
  ASSUME NEW n \in Nat, NEW joins, NEW F, FirstFacts(F, n, joins, 7),
         NEW b \in 1 .. n, F[b] = b
  PROVE  /\ Cardinality({k \in 1 .. n : F[k] = b}) \in 1 .. 7
         /\ {k \in 1 .. n : F[k] = b} = b .. b + Cardinality({k \in 1 .. n : F[k] = b}) - 1
<1>1. PICK M : M = {k \in 1 .. n : F[k] = b}
  OBVIOUS
<1>2. M \in SUBSET (1 .. n) /\ M \in SUBSET Nat /\ b \in M
  BY <1>1
<1>3. IsFiniteSet(M)
  <2>1. IsFiniteSet(1 .. n)
    BY FS_Interval
  <2> QED
    BY <1>2, <2>1, FS_Subset
<1>4. ASSUME NEW x \in M PROVE x >= b /\ x - b < 7 /\ b .. x \subseteq M
  <2>1. x \in 1 .. n /\ F[x] = b
    BY <1>1
  <2>2. b \in 1 .. x /\ x - b < 7 /\ \A m \in b .. x : F[m] = b
    BY <2>1 DEF FirstFacts
  <2> QED
    BY <1>1, <2>1, <2>2
<1>5. PICK c : c = Cardinality(M)
  OBVIOUS
<1>6. c \in Nat /\ M = b .. b + c - 1
  BY <1>2, <1>3, <1>4, <1>5, NoGap
<1>7. c \in 1 .. 7
  <2>1. c >= 1
    BY <1>2, <1>6
  <2>2. b + c - 1 \in M
    BY <1>6, <2>1
  <2>3. (b + c - 1) - b < 7
    BY <1>4, <2>2
  <2> QED
    BY <1>6, <2>1, <2>3
<1> QED
  BY <1>1, <1>5, <1>6, <1>7

\* JoinLines puts lines in order into blocks, each line in one of them.
LEMMA JoinLinesIs ==
  ASSUME NEW S, NEW tones, LineFacts(tones, S), NEW n, NEW P, LinesInOrder(P, n, S), NEW C,
         C = [k \in 1 .. n |-> [Pos |-> P[k], Bfu |-> BfuOf(P[k])]]
  PROVE  BlocksOf(JoinLines(C, 7), S)
<1>1. S \in SUBSET Nat /\ \A p \in S : BfuOf(p) \in 8 .. 28 /\ InBfu(p, BfuOf(p))
  BY DEF LineFacts
<1>2. /\ n \in Nat /\ \A k \in 1 .. n : P[k] \in S /\ P[k] \in Nat
      /\ \A j, k \in 1 .. n : j < k => P[j] < P[k]
      /\ \A p \in S : \E k \in 1 .. n : P[k] = p
  BY <1>1 DEF LinesInOrder
<1>3. Len(C) = n /\ DOMAIN C = 1 .. n
  BY <1>2
<1>4. \A k \in 1 .. n : C[k].Pos = P[k] /\ C[k].Bfu = BfuOf(P[k])
  OBVIOUS
<1>5. [k \in DOMAIN C |-> {j \in DOMAIN C : C[k].Pos = C[j].Pos + (k - j)}] = Adjacent(P, n)
  BY <1>3, <1>4 DEF Adjacent
<1>6. PICK F : F = FirstOf(n, Adjacent(P, n), 7)
  OBVIOUS
<1>7. FirstFacts(F, n, Adjacent(P, n), 7)
  BY <1>2, <1>6, FirstIs
<1>8. PICK B : B = {k \in 1 .. n : F[k] = k}
  OBVIOUS
<1>9. PICK begins : begins = Ascending(B)
  OBVIOUS
<1>10. PICK bs : bs = JoinLines(C, 7)
  OBVIOUS
<1>11. bs = [b \in DOMAIN begins |->
               [Pos |-> C[begins[b]].Pos, Bfu |-> C[begins[b]].Bfu,
                len |-> Cardinality({k \in 1 .. n : F[k] = begins[b]})]]
  <2> DEFINE adjacent == [k \in DOMAIN C |-> {j \in DOMAIN C : C[k].Pos = C[j].Pos + (k - j)}]
             begin(f)    == {k \in DOMAIN C : f[k] = k}
             build(f, e) == [b \in DOMAIN e |->
                               [Pos |-> C[e[b]].Pos, Bfu |-> C[e[b]].Bfu,
                                len |-> Cardinality({k \in DOMAIN C : f[k] = e[b]})]]
  <2>1. bs = build(FirstOf(Len(C), adjacent, 7), Ascending(begin(FirstOf(Len(C), adjacent, 7))))
    BY <1>10 DEF JoinLines
  <2>2. FirstOf(Len(C), adjacent, 7) = F
    BY <1>3, <1>5, <1>6
  <2>3. begin(F) = B
    BY <1>3, <1>8
  <2> HIDE DEF adjacent, begin, build
  <2>4. bs = build(F, begins)
    BY <1>9, <2>1, <2>2, <2>3
  <2> QED
    BY <1>3, <2>4 DEF build
<1>12. B \in SUBSET Nat /\ IsFiniteSet(B)
  <2>1. IsFiniteSet(1 .. n) /\ B \in SUBSET (1 .. n)
    BY <1>2, <1>8, FS_Interval
  <2>2. IsFiniteSet(B)
    BY <2>1, FS_Subset
  <2> QED
    BY <2>1, <2>2
<1>13. /\ DOMAIN begins = 1 .. Cardinality(B) /\ Cardinality(B) \in Nat
       /\ \A j \in DOMAIN begins : begins[j] \in B
       /\ \A j, k \in DOMAIN begins : j < k => begins[j] < begins[k]
       /\ \A x \in B : \E j \in DOMAIN begins : begins[j] = x
  <2>1. begins \in Seq(B) /\ Cardinality(B) \in Nat
    BY <1>9, <1>12, AscendingIs, FS_CardinalityType
  <2>2. \A j \in DOMAIN begins : begins[j] \in B
    BY <2>1
  <2> QED
    BY <1>9, <1>12, <2>1, <2>2, AscendingIs
<1>14. PICK c : c = Cardinality(B)
  OBVIOUS
<1> DEFINE M(b) == {k \in 1 .. n : F[k] = b}
           size(b) == Cardinality(M(b))
<1>15. ASSUME NEW b \in B
       PROVE  size(b) \in 1 .. 7 /\ M(b) = b .. b + size(b) - 1
  BY <1>2, <1>7, <1>8, StretchIs
<1>16. \A j \in 1 .. c : /\ bs[j].Pos = P[begins[j]] /\ bs[j].Bfu = BfuOf(P[begins[j]])
                         /\ bs[j].len = size(begins[j]) /\ begins[j] \in B /\ begins[j] \in 1 .. n
                         /\ bs[j] = [Pos |-> P[begins[j]], Bfu |-> BfuOf(P[begins[j]]), len |-> size(begins[j])]
  BY <1>4, <1>8, <1>11, <1>13, <1>14
<1>17. DOMAIN bs = 1 .. c /\ c \in Nat /\ bs = [j \in 1 .. c |-> bs[j]]
  BY <1>11, <1>13, <1>14
<1> HIDE DEF size, M
<1>18. bs \in Seq(Blocks)
  <2>1. ASSUME NEW j \in 1 .. c PROVE bs[j] \in Blocks
    <3>1. PICK x, y, z : x = P[begins[j]] /\ y = BfuOf(x) /\ z = size(begins[j])
      OBVIOUS
    <3>2. x \in S /\ x \in Nat
      BY <1>2, <1>16, <3>1
    <3>3. y \in 8 .. 28
      BY <1>1, <3>1, <3>2
    <3>4. z \in 1 .. 7
      BY <1>15, <1>16, <3>1
    <3>5. bs[j] = [Pos |-> x, Bfu |-> y, len |-> z]
      BY <1>16, <3>1
    <3> QED
      BY <3>2, <3>3, <3>4, <3>5 DEF Blocks
  <2> QED
    BY <1>17, <2>1
\* Where the lines of a block are.
<1>19. \A k \in 1 .. n : P[k] = P[F[k]] + (k - F[k])
  <2> SUFFICES ASSUME NEW k \in 1 .. n PROVE P[k] = P[F[k]] + (k - F[k])
    OBVIOUS
  <2>1. F[k] \in 1 .. k /\ \A m \in F[k] .. k : m > F[k] => F[k] \in Adjacent(P, n)[m]
    BY <1>7 DEF FirstFacts
  <2>2. CASE F[k] = k
    BY <1>2, <2>2
  <2>3. CASE F[k] # k
    <3>1. k \in F[k] .. k /\ k > F[k]
      BY <2>1, <2>3
    <3>2. F[k] \in Adjacent(P, n)[k]
      BY <2>1, <3>1
    <3> QED
      BY <3>2 DEF Adjacent
  <2> QED
    BY <2>2, <2>3
<1>20. ASSUME NEW b \in B, NEW d \in 0 .. size(b) - 1
       PROVE  b + d \in 1 .. n /\ F[b + d] = b /\ P[b + d] = P[b] + d /\ P[b] + d \in S
  <2>1. size(b) \in 1 .. 7 /\ b \in 1 .. n
    BY <1>8, <1>15
  <2>2. b + d \in M(b)
    BY <1>15, <2>1
  <2>3. b + d \in 1 .. n /\ F[b + d] = b
    BY <2>2 DEF M
  <2>4. P[b + d] = P[b] + (b + d - b) /\ P[b] \in Nat
    BY <1>2, <1>19, <2>1, <2>3
  <2>5. P[b + d] = P[b] + d
    BY <2>1, <2>4
  <2> QED
    BY <1>2, <2>3, <2>5
<1>21. ASSUME NEW j \in 1 .. c
       PROVE  /\ bs[j].Pos \in S /\ bs[j].Bfu = BfuOf(bs[j].Pos)
              /\ bs[j].Pos .. bs[j].Pos + bs[j].len - 1 \subseteq S
  <2>1. PICK b \in B : b = begins[j] /\ b \in 1 .. n
    BY <1>16
  <2>2. bs[j].Pos = P[b] /\ bs[j].len = size(b) /\ P[b] \in S /\ P[b] \in Nat /\ size(b) \in 1 .. 7
    BY <1>2, <1>15, <1>16, <2>1
  <2>3. ASSUME NEW p \in P[b] .. P[b] + size(b) - 1 PROVE p \in S
    <3>1. PICK d : d = p - P[b]
      OBVIOUS
    <3>2. d \in 0 .. size(b) - 1 /\ P[b] + d = p
      BY <2>2, <3>1
    <3> QED
      BY <1>20, <3>2
  <2> QED
    BY <1>16, <2>2, <2>3
<1>22. ASSUME NEW j \in 1 .. c, NEW k \in 1 .. c, j < k
       PROVE  bs[j].Pos + bs[j].len <= bs[k].Pos /\ bs[j].Bfu < bs[k].Bfu
  <2>1. PICK b \in B, e \in B : /\ b = begins[j] /\ e = begins[k] /\ b \in 1 .. n /\ e \in 1 .. n
                                /\ b < e /\ F[b] = b /\ F[e] = e
    BY <1>8, <1>13, <1>14, <1>16, <1>22
  <2>2. /\ bs[j].Pos = P[b] /\ bs[j].len = size(b) /\ bs[k].Pos = P[e]
        /\ bs[j].Bfu = BfuOf(P[b]) /\ bs[k].Bfu = BfuOf(P[e])
    BY <1>16, <2>1
  <2>3. size(b) \in 1 .. 7 /\ e >= b + size(b)
    <3>1. e \notin M(b)
      BY <2>1 DEF M
    <3> QED
      BY <1>15, <2>1, <3>1, SMTT(30)
  <2>4. PICK d : d = size(b) - 1
    OBVIOUS
  <2>5. b + d \in 1 .. n /\ P[b + d] = P[b] + d /\ b + d < e /\ d \in 0 .. size(b) - 1
    <3>0. PICK z : z = size(b)
      OBVIOUS
    <3>0a. z \in 1 .. 7 /\ e >= b + z /\ d = z - 1
      BY <2>3, <2>4, <3>0
    <3>02. d \in 0 .. z - 1 /\ b + d < e
      BY <2>1, <3>0a
    <3>1. d \in 0 .. size(b) - 1 /\ b + d < e
      BY <3>0, <3>02
    <3> QED
      BY <1>20, <2>1, <3>1
  <2>6. P[b] \in Nat /\ P[e] \in Nat /\ P[b] + d < P[e] /\ P[b] < P[e] /\ P[b] \in S /\ P[e] \in S
    BY <1>2, <2>1, <2>5
  <2>7. P[b] + size(b) <= P[e]
    BY <2>3, <2>4, <2>6, SMTT(30)
  <2>8. BfuOf(P[b]) # BfuOf(P[e])
    BY <1>7, <1>19, <2>1, OneBeginsInBfu
  <2>9. PICK u, w : u = BfuOf(P[b]) /\ w = BfuOf(P[e])
    OBVIOUS
  <2>10. u \in 8 .. 28 /\ w \in 8 .. 28 /\ InBfu(P[b], u) /\ InBfu(P[e], w)
    BY <1>1, <2>6, <2>9
  <2>11. u <= w
    <3>1. u \in 0 .. 31 /\ w \in 0 .. 31 /\ P[b] \in Int /\ P[e] \in Int /\ P[b] <= P[e]
      BY <2>6, <2>10
    <3> QED
      BY <2>10, <3>1, BfuRises
  <2> QED
    BY <2>2, <2>7, <2>8, <2>9, <2>10, <2>11
<1>23. ASSUME NEW p \in S
       PROVE  \E j \in 1 .. c : p \in bs[j].Pos .. bs[j].Pos + bs[j].len - 1
  <2>1. PICK k \in 1 .. n : P[k] = p
    BY <1>2
  <2>2. PICK b : b = F[k]
    OBVIOUS
  <2>3. b \in 1 .. k /\ F[b] = b
    <3>1. b \in 1 .. k /\ \A m \in b .. k : F[m] = b
      BY <1>7, <2>2 DEF FirstFacts
    <3> QED
      BY <3>1
  <2>4. b \in B /\ b \in 1 .. n
    BY <1>2, <1>8, <2>3
  <2>5. k \in M(b)
    BY <2>2 DEF M
  <2>6. size(b) \in 1 .. 7 /\ k \in b .. b + size(b) - 1
    BY <1>15, <2>4, <2>5
  <2>7. p = P[b] + (k - b) /\ P[b] \in Nat
    BY <1>2, <1>19, <2>1, <2>2, <2>4
  <2>8. p \in P[b] .. P[b] + size(b) - 1
    <3>1. PICK x, z : x = P[b] /\ z = size(b)
      OBVIOUS
    <3>2. z \in 1 .. 7 /\ k \in b .. b + z - 1 /\ p = x + (k - b) /\ x \in Nat /\ b \in 1 .. n
      BY <2>4, <2>6, <2>7, <3>1
    <3>3. p \in x .. x + z - 1
      BY <3>2
    <3> QED
      BY <3>1, <3>3
  <2>9. PICK j \in 1 .. c : begins[j] = b
    BY <1>13, <1>14, <2>4
  <2> QED
    BY <1>16, <2>8, <2>9
<1> QED
  BY <1>10, <1>17, <1>18, <1>21, <1>22, <1>23 DEF BlocksOf

\* What MapTonalComponents makes of a selection.
LEMMA TonalBlocksAre ==
  ASSUME NEW tones, IsSelection(tones)
  PROVE  BlocksOf(MapTonalComponents(ExtractTonalComponents(tones)), TakenLines(tones, 32))
<1>1. PICK S : S = TakenLines(tones, 32)
  OBVIOUS
<1>2. LineFacts(tones, S)
  BY <1>1, LinesAre
<1>3. S \in SUBSET Nat /\ IsFiniteSet(S)
  BY <1>2 DEF LineFacts
<1>4. PICK P : P = Ascending(S)
  OBVIOUS
<1>5. PICK n : n = Cardinality(S)
  OBVIOUS
<1>6. LinesInOrder(P, n, S) /\ DOMAIN P = 1 .. n
  <2>1. n \in Nat
    BY <1>3, <1>5, FS_CardinalityType
  <2>2. /\ P \in Seq(S) /\ DOMAIN P = 1 .. n
        /\ \A k, m \in DOMAIN P : k < m => P[k] < P[m]
        /\ \A x \in S : \E k \in DOMAIN P : P[k] = x
    BY <1>3, <1>4, <1>5, AscendingIs
  <2>3. P \in [1 .. n -> S]
    <3>1. P = [k \in 1 .. n |-> P[k]]
      BY <1>4, <1>5 DEF Ascending
    <3>2. \A k \in 1 .. n : P[k] \in S
      <4>1. P \in Seq(S) /\ Len(P) = n
        BY <1>3, <1>4, <1>5, AscendingIs
      <4> QED
        BY <4>1, ElementOfSeq
    <3> QED
      BY <3>1, <3>2
  <2> QED
    BY <2>1, <2>2, <2>3 DEF LinesInOrder
<1>7. ExtractTonalComponents(tones) = [k \in 1 .. n |-> [Pos |-> P[k], Bfu |-> BfuOf(P[k])]]
  BY <1>1, <1>4, <1>6 DEF ExtractTonalComponents
<1>8. PICK C : C = ExtractTonalComponents(tones)
  OBVIOUS
<1>9. BlocksOf(JoinLines(C, 7), S)
  <2>1. C = [k \in 1 .. n |-> [Pos |-> P[k], Bfu |-> BfuOf(P[k])]]
    BY <1>7, <1>8
  <2>2. LinesInOrder(P, n, S)
    BY <1>6
  <2> QED
    BY <1>2, <2>1, <2>2, JoinLinesIs
<1> QED
  BY <1>1, <1>8, <1>9 DEF MapTonalComponents, MaxCoded

(***************************************************************************)
(* The subgroups of a group                                                *)
(***************************************************************************)
\* A sequence of len elements is split where Sp says: the pieces follow one another.
PieceEnd(map, len, s) == IF s = Len(map) THEN len ELSE map[s + 1] - 1
Pieces(map, len, Sp) ==
  /\ DOMAIN map = 1 .. Len(map) /\ Len(map) \in Nat
  /\ \A s \in DOMAIN map : /\ map[s] \in 1 .. len /\ PieceEnd(map, len, s) \in map[s] .. len
                           /\ \A x \in map[s] + 1 .. PieceEnd(map, len, s) : x \notin Sp
  /\ \A s, t \in DOMAIN map : s < t => PieceEnd(map, len, s) < map[t]
  /\ \A k \in 1 .. len : \E s \in DOMAIN map : k \in map[s] .. PieceEnd(map, len, s)

\* Places in order, the first of which is 1, cut what there is into pieces.
LEMMA PiecesAre ==
  ASSUME NEW len \in Nat, NEW Sp \in SUBSET (1 .. len), len > 0 => 1 \in Sp
  PROVE  Pieces(Ascending(Sp), len, Sp)
<1>1. PICK map : map = Ascending(Sp)
  OBVIOUS
<1>2. PICK n : n = Cardinality(Sp)
  OBVIOUS
<1>3. Sp \in SUBSET Nat /\ IsFiniteSet(Sp)
  <2>1. IsFiniteSet(1 .. len)
    BY FS_Interval
  <2>2. IsFiniteSet(Sp)
    BY <2>1, FS_Subset
  <2> QED
    BY <2>2
<1>4. n \in Nat
  BY <1>2, <1>3, FS_CardinalityType
<1>5. Len(map) = n /\ DOMAIN map = 1 .. n
  BY <1>1, <1>2, <1>3, AscendingIs
<1>6. /\ \A j, k \in 1 .. n : j < k => map[j] < map[k]
      /\ \A x \in Sp : \E k \in 1 .. n : map[k] = x
  BY <1>1, <1>2, <1>3, <1>5, AscendingIs
<1>7. \A k \in 1 .. n : map[k] \in Sp /\ map[k] \in 1 .. len /\ map[k] \in Nat
  <2>1. map \in Seq(Sp)
    BY <1>1, <1>3, AscendingIs
  <2>2. \A k \in 1 .. n : map[k] \in Sp
    BY <1>5, <2>1, ElementOfSeq
  <2>3. \A x \in Sp : x \in 1 .. len
    OBVIOUS
  <2>4. \A x \in 1 .. len : x \in Nat
    OBVIOUS
  <2> QED
    BY <2>2, <2>3, <2>4
<1> DEFINE end(s) == PieceEnd(map, len, s)
<1>8. ASSUME NEW s \in 1 .. n
      PROVE  /\ end(s) \in map[s] .. len
             /\ \A x \in map[s] + 1 .. end(s) : x \notin Sp
  <2>1. CASE s = n
    <3>1. end(s) = len
      BY <1>5, <2>1 DEF PieceEnd
    <3>2. ASSUME NEW x \in map[s] + 1 .. len, x \in Sp PROVE FALSE
      <4>1. PICK k \in 1 .. n : map[k] = x
        BY <1>6, <3>2
      <4>2. k = s \/ k < s
        BY <2>1
      <4>3. map[k] <= map[s]
        BY <1>6, <1>7, <4>2
      <4> QED
        BY <1>7, <4>1, <4>3
    <3> QED
      BY <1>7, <3>1, <3>2
  <2>2. CASE s # n
    <3>1. s + 1 \in 1 .. n
      BY <1>4, <2>2
    <3>2. end(s) = map[s + 1] - 1
      BY <1>5, <2>2 DEF PieceEnd
    <3>3. map[s] < map[s + 1] /\ map[s + 1] \in 1 .. len /\ map[s] \in 1 .. len
      BY <1>6, <1>7, <3>1
    <3>4. ASSUME NEW x \in map[s] + 1 .. map[s + 1] - 1, x \in Sp PROVE FALSE
      <4>1. PICK k \in 1 .. n : map[k] = x
        BY <1>6, <3>4
      <4>2. k <= s \/ k >= s + 1
        OBVIOUS
      <4>3. CASE k <= s
        <5>1. map[k] <= map[s]
          BY <1>6, <1>7, <4>3
        <5> QED
          BY <3>3, <4>1, <5>1
      <4>4. CASE k >= s + 1
        <5>1. map[s + 1] <= map[k]
          BY <1>6, <1>7, <3>1, <4>4
        <5> QED
          BY <3>3, <4>1, <5>1
      <4> QED
        BY <4>2, <4>3, <4>4
    <3> QED
      BY <3>2, <3>3, <3>4
  <2> QED
    BY <2>1, <2>2
<1>9. ASSUME NEW s \in 1 .. n, NEW t \in 1 .. n, s < t PROVE end(s) < map[t]
  <2>1. s + 1 \in 1 .. n /\ s # n
    BY <1>4, <1>9
  <2>2. end(s) = map[s + 1] - 1 /\ map[s + 1] \in Nat /\ map[t] \in Nat
    BY <1>5, <1>7, <2>1 DEF PieceEnd
  <2>3. map[s + 1] <= map[t]
    <3>1. s + 1 = t \/ s + 1 < t
      BY <1>9
    <3> QED
      BY <1>6, <2>1, <2>2, <3>1
  <2> QED
    BY <2>2, <2>3
<1>10. ASSUME NEW k \in 1 .. len PROVE \E s \in 1 .. n : k \in map[s] .. end(s)
  <2>1. PICK one \in 1 .. n : map[one] = 1
    BY <1>6
  <2>2. 1 \in 1 .. n /\ map[1] = 1
    <3>1. 1 \in 1 .. n /\ (one = 1 \/ 1 < one)
      BY <1>4
    <3>2. map[1] <= 1 /\ map[1] \in 1 .. len
      BY <1>6, <1>7, <2>1, <3>1
    <3> QED
      BY <3>1, <3>2
  <2>3. PICK W : W = {t \in 1 .. n : map[t] > k}
    OBVIOUS
  <2>4. CASE W = {}
    <3>1. n \in 1 .. n /\ map[n] <= k /\ end(n) = len
      BY <1>4, <1>5, <1>7, <2>2, <2>3, <2>4 DEF PieceEnd
    <3>2. k \in map[n] .. end(n)
      BY <1>7, <3>1
    <3> QED
      BY <3>1, <3>2
  <2>5. CASE W # {}
    <3>1. W \in SUBSET Nat
      BY <2>3
    <3>2. PICK t \in W : \A y \in W : t <= y
      BY <2>5, <3>1, LeastNat
    <3>3. t \in 1 .. n /\ map[t] > k
      BY <2>3, <3>2
    <3>4. t # 1
      BY <2>2, <3>3
    <3>5. t - 1 \in 1 .. n /\ t - 1 # n /\ ~(t <= t - 1)
      BY <1>4, <3>3, <3>4
    <3>6. t - 1 \notin W
      BY <3>2, <3>5
    <3>7. map[t - 1] <= k /\ map[t - 1] \in Nat /\ map[t] \in Nat
      BY <1>7, <2>3, <3>3, <3>5, <3>6
    <3>8. end(t - 1) = map[t] - 1
      BY <1>5, <3>3, <3>5 DEF PieceEnd
    <3>9. k \in map[t - 1] .. end(t - 1)
      BY <3>3, <3>7, <3>8
    <3> QED
      BY <3>5, <3>9
  <2> QED
    BY <2>4, <2>5
<1> QED
  BY <1>1, <1>4, <1>5, <1>7, <1>8, <1>9, <1>10 DEF Pieces

\* Of a piece of a group there are no more than seven blocks to 64 lines.
LEMMA NearIs ==
  ASSUME NEW x \in Nat, NEW y \in Nat, x <= y
  PROVE  /\ y - 64 * (x \div 64) < 64 <=> y \div 64 = x \div 64
         /\ x \div 64 <= y \div 64 /\ x \div 64 \in Nat
OBVIOUS

\* Nothing is split off after lo, and what that says of the elements in each 64 lines.
Near(Q, len) == [k \in 1 .. len |-> {j \in 1 .. len : Q[k] - 64 * (Q[j] \div 64) < 64}]

NoSplit(F, Q, len, lo, hi) ==
  \A x \in lo + 1 .. hi : ~(x = 1 \/ (F[x] = x /\ F[x - 1] \in Near(Q, len)[x]))
FewIn(Q, lo, hi, D) == \E f \in Int : \A k \in lo .. hi : Q[k] \div 64 = D => k \in f .. f + 6

\* In a piece that is not split there are at most seven elements to 64 lines.
LEMMA FewOfAPiece ==
  ASSUME NEW len \in Nat, NEW Q \in [1 .. len -> Nat], \A j, k \in 1 .. len : j < k => Q[j] < Q[k],
         NEW F, FirstFacts(F, len, Near(Q, len), 7),
         NEW lo \in 1 .. len, NEW hi \in lo .. len,
         NoSplit(F, Q, len, lo, hi), NEW D
  PROVE  FewIn(Q, lo, hi, D)
<1> DEFINE K == {k \in lo .. hi : Q[k] \div 64 = D}
<1>1. \A j, k \in 1 .. len : j <= k =>
        /\ Q[k] - 64 * (Q[j] \div 64) < 64 <=> Q[k] \div 64 = Q[j] \div 64
        /\ Q[j] \div 64 <= Q[k] \div 64 /\ Q[j] \div 64 \in Nat
  <2> SUFFICES ASSUME NEW j \in 1 .. len, NEW k \in 1 .. len, j <= k
               PROVE  /\ Q[k] - 64 * (Q[j] \div 64) < 64 <=> Q[k] \div 64 = Q[j] \div 64
                      /\ Q[j] \div 64 <= Q[k] \div 64 /\ Q[j] \div 64 \in Nat
    OBVIOUS
  <2>1. PICK u \in Nat, w \in Nat : u = Q[j] /\ w = Q[k]
    OBVIOUS
  <2>2. u <= w
    <3>1. j = k \/ j < k
      OBVIOUS
    <3> QED
      BY <2>1, <3>1
  <2> QED
    BY <2>1, <2>2, NearIs
<1>2. ASSUME NEW j \in K, NEW k \in K, j < k PROVE F[k] = F[j]
  <2>1. /\ j \in lo .. hi /\ k \in lo .. hi /\ j \in 1 .. len /\ k \in 1 .. len
        /\ Q[j] \div 64 = D /\ Q[k] \div 64 = D
    OBVIOUS
  <2>2. PICK b : b = F[k]
    OBVIOUS
  <2>3. b \in 1 .. k /\ \A m \in b .. k : F[m] = b
    BY <2>1, <2>2 DEF FirstFacts
  <2>4. CASE b <= j
    <3>1. j \in b .. k
      BY <1>2, <2>1, <2>3, <2>4
    <3> QED
      BY <2>2, <2>3, <3>1
  <2>5. CASE b > j
    <3>1. F[b] = b /\ b \in lo + 1 .. hi /\ b \in 1 .. len /\ b - 1 \in 1 .. len /\ j <= b - 1 /\ b <= k
      BY <2>1, <2>3, <2>5
    <3>2. F[b - 1] \notin Near(Q, len)[b]
      BY <3>1 DEF NoSplit
    <3>3. PICK g : g = F[b - 1]
      OBVIOUS
    <3>4. g \in 1 .. b - 1 /\ \A m \in g .. b - 1 : m > g => g \in Near(Q, len)[m]
      BY <3>1, <3>3 DEF FirstFacts
    <3>5. PICK c, d : c = Q[b - 1] \div 64 /\ d = Q[b] \div 64
      OBVIOUS
    <3>6. D <= c /\ c <= D /\ d <= D /\ D <= d /\ c \in Nat /\ d \in Nat /\ D \in Nat
      <4>1. j <= b /\ b - 1 <= k /\ b <= k
        BY <2>1, <2>3, <2>5
      <4>2. D <= c /\ D \in Nat
        BY <1>1, <2>1, <3>1, <3>5
      <4>3. D <= d
        BY <1>1, <2>1, <3>1, <3>5, <4>1
      <4>4. c <= D /\ c \in Nat
        BY <1>1, <2>1, <3>1, <3>5, <4>1
      <4>5. d <= D /\ d \in Nat
        BY <1>1, <2>1, <3>1, <3>5, <4>1
      <4> QED
        BY <4>2, <4>3, <4>4, <4>5
    <3>7. c = D /\ d = D
      BY <3>6
    <3>8. g \in 1 .. len /\ g <= b - 1 /\ g <= b
      BY <3>1, <3>4
    <3>9. Q[g] \div 64 = c
      <4>1. CASE g = b - 1
        BY <3>5, <4>1
      <4>2. CASE g # b - 1
        <5>1. b - 1 \in g .. b - 1 /\ b - 1 > g
          <6>1. PICK h : h = b - 1
            OBVIOUS
          <6>2. h \in 1 .. len /\ g \in 1 .. h /\ g # h
            BY <3>1, <3>4, <4>2, <6>1
          <6>3. h \in g .. h /\ h > g
            BY <6>2
          <6> QED
            BY <6>1, <6>3
        <5>2. g \in Near(Q, len)[b - 1]
          BY <3>4, <5>1
        <5>3. Q[b - 1] - 64 * (Q[g] \div 64) < 64
          BY <3>1, <5>2 DEF Near
        <5> QED
          BY <1>1, <3>1, <3>5, <3>8, <5>3
      <4> QED
        BY <4>1, <4>2
    <3>10. Q[b] - 64 * (Q[g] \div 64) < 64
      BY <1>1, <3>1, <3>5, <3>7, <3>8, <3>9
    <3>11. g \in Near(Q, len)[b]
      BY <3>1, <3>8, <3>10 DEF Near
    <3> QED
      BY <3>2, <3>3, <3>11
  <2> QED
    BY <2>1, <2>3, <2>4, <2>5
<1>3. CASE K = {}
  <2>1. ASSUME NEW k \in lo .. hi, Q[k] \div 64 = D PROVE FALSE
    <3>1. k \in K
      BY <2>1
    <3> QED
      BY <1>3, <3>1
  <2>2. PICK z \in Int : z = 0
    OBVIOUS
  <2>3. \A k \in lo .. hi : Q[k] \div 64 = D => k \in z .. z + 6
    BY <2>1
  <2> QED
    BY <2>3 DEF FewIn
<1>4. CASE K # {}
  <2>1. K \in SUBSET Nat
    OBVIOUS
  <2>2. PICK j \in K : \A y \in K : j <= y
    BY <1>4, <2>1, LeastNat
  <2>3. PICK f : f = F[j]
    OBVIOUS
  <2>4. j \in 1 .. len /\ f \in 1 .. j
    <3>1. j \in 1 .. len
      OBVIOUS
    <3> QED
      BY <2>3, <3>1 DEF FirstFacts
  <2>5. ASSUME NEW k \in K PROVE k \in f .. f + 6
    <3>1. k \in 1 .. len /\ j <= k
      BY <2>2
    <3>2. F[k] = f
      <4>1. j = k \/ j < k
        BY <2>4, <3>1
      <4> QED
        BY <1>2, <2>3, <4>1
    <3>3. k - f < 7
      BY <3>1, <3>2 DEF FirstFacts
    <3> QED
      BY <2>4, <3>1, <3>3
  <2>6. f \in Int /\ \A k \in lo .. hi : Q[k] \div 64 = D => k \in f .. f + 6
    BY <2>4, <2>5
  <2> QED
    BY <2>6 DEF FewIn
<1> QED
  BY <1>3, <1>4

\* How subs cuts G in pieces lo[s] .. hi[s].
AtMost7(sub) == \A D : Cardinality({m \in DOMAIN sub : sub[m].Pos \div 64 = D}) \in 0 .. 7
Cuts(G, subs, lo, hi) ==
  /\ subs \in Seq(Seq(Blocks))
  /\ \A s \in DOMAIN subs : /\ lo[s] \in 1 .. Len(G) /\ hi[s] \in lo[s] .. Len(G)
                            /\ Len(subs[s]) = hi[s] - lo[s] + 1
                            /\ \A m \in 1 .. Len(subs[s]) : subs[s][m] = G[lo[s] + m - 1]
                            /\ AtMost7(subs[s])
  /\ \A s, t \in DOMAIN subs : s < t => hi[s] < lo[t]
  /\ \A k \in 1 .. Len(G) : \E s \in DOMAIN subs : k \in lo[s] .. hi[s]

\* The elements of a SubSeq.
LEMMA SubSeqIs ==
  ASSUME NEW V, NEW G \in Seq(V), NEW lo \in 1 .. Len(G), NEW hi \in lo .. Len(G)
  PROVE  /\ SubSeq(G, lo, hi) \in Seq(V) /\ Len(SubSeq(G, lo, hi)) = hi - lo + 1
         /\ \A m \in 1 .. hi - lo + 1 : SubSeq(G, lo, hi)[m] = G[lo + m - 1]
BY SubSeqProperties

\* SubGroups cuts a group into pieces that the counts can tell.
LEMMA SubGroupsAre ==
  ASSUME NEW G \in Seq(Blocks), \A j, k \in DOMAIN G : j < k => G[j].Pos < G[k].Pos
  PROVE  \E lo, hi : Cuts(G, SubGroups(G), lo, hi)
<1>1. PICK n : n = Len(G)
  OBVIOUS
<1>2. n \in Nat /\ DOMAIN G = 1 .. n /\ \A k \in 1 .. n : G[k] \in Blocks
  BY <1>1
<1>3. \A k \in 1 .. n : G[k].Pos \in Nat
  BY <1>2 DEF Blocks
<1> DEFINE Q == [k \in 1 .. n |-> G[k].Pos]
<1>4. Q \in [1 .. n -> Nat] /\ \A j, k \in 1 .. n : j < k => Q[j] < Q[k]
  BY <1>2, <1>3
<1>5. PICK F : F = FirstOf(n, Near(Q, n), 7)
  OBVIOUS
<1>6. FirstFacts(F, n, Near(Q, n), 7)
  <2>1. n \in Nat /\ 7 \in Nat \ {0}
    BY <1>2
  <2> HIDE DEF Q
  <2> QED
    BY <1>5, <2>1, FirstIs
<1>7. PICK Sp : Sp = {k \in 1 .. n : k = 1 \/ (F[k] = k /\ F[k - 1] \in Near(Q, n)[k])}
  OBVIOUS
<1>8. PICK map : map = Ascending(Sp)
  OBVIOUS
<1>9. SubGroupMap(G) = map
  <2> DEFINE near == [k \in DOMAIN G |-> {j \in DOMAIN G : G[k].Pos - 64 * (G[j].Pos \div 64) < 64}]
             split(f) == {k \in DOMAIN G : k = 1 \/ (f[k] = k /\ f[k - 1] \in near[k])}
  <2>1. SubGroupMap(G) = Ascending(split(FirstOf(Len(G), near, 7)))
    BY DEF SubGroupMap, MaxCoded
  <2>2. near = Near(Q, n)
    <3>1. \A k \in 1 .. n : {j \in 1 .. n : G[k].Pos - 64 * (G[j].Pos \div 64) < 64}
                          = {j \in 1 .. n : Q[k] - 64 * (Q[j] \div 64) < 64}
      OBVIOUS
    <3> HIDE DEF Q
    <3> QED
      BY <1>2, <3>1 DEF Near
  <2>3. FirstOf(Len(G), near, 7) = F
    BY <1>1, <1>5, <2>2
  <2>4. split(F) = Sp
    BY <1>2, <1>7, <2>2
  <2> HIDE DEF near, split
  <2> QED
    BY <1>8, <2>1, <2>3, <2>4
<1>10. Pieces(map, n, Sp)
  <2>1. Sp \in SUBSET (1 .. n) /\ (n > 0 => 1 \in Sp)
    BY <1>2, <1>7
  <2> QED
    BY <1>2, <1>8, <2>1, PiecesAre
<1>11. PICK subs : subs = SubGroups(G)
  OBVIOUS
<1>12. PICK num : num = Len(map)
  OBVIOUS
<1>13. num \in Nat /\ DOMAIN map = 1 .. num
  BY <1>10, <1>12 DEF Pieces
<1> DEFINE lo == [s \in 1 .. num |-> map[s]]
           hi == [s \in 1 .. num |-> PieceEnd(map, n, s)]
<1>14. \A s \in 1 .. num : lo[s] = map[s] /\ hi[s] = PieceEnd(map, n, s)
  OBVIOUS
<1> HIDE DEF lo, hi
<1>15. /\ \A s \in 1 .. num : /\ lo[s] \in 1 .. n /\ hi[s] \in lo[s] .. n
                              /\ \A x \in lo[s] + 1 .. hi[s] : x \notin Sp
       /\ \A s, t \in 1 .. num : s < t => hi[s] < lo[t]
       /\ \A k \in 1 .. n : \E s \in 1 .. num : k \in lo[s] .. hi[s]
  BY <1>10, <1>13, <1>14 DEF Pieces
<1>16. /\ DOMAIN subs = 1 .. num /\ subs = [s \in 1 .. num |-> SubSeq(G, lo[s], hi[s])]
       /\ \A s \in 1 .. num : subs[s] = SubSeq(G, lo[s], hi[s])
  <2>1. subs = [s \in 1 .. num |-> SubSeq(G, map[s], PieceEnd(map, n, s))]
    BY <1>1, <1>9, <1>11, <1>12, <1>13 DEF SubGroups, PieceEnd
  <2> QED
    BY <1>14, <2>1
<1>17. ASSUME NEW s \in 1 .. num
       PROVE  /\ subs[s] \in Seq(Blocks) /\ Len(subs[s]) = hi[s] - lo[s] + 1
              /\ \A m \in 1 .. Len(subs[s]) : subs[s][m] = G[lo[s] + m - 1]
  <2>1. PICK x, y : x = lo[s] /\ y = hi[s]
    OBVIOUS
  <2>2. x \in 1 .. Len(G) /\ y \in x .. Len(G)
    BY <1>1, <1>15, <2>1
  <2>3. subs[s] = SubSeq(G, x, y)
    BY <1>16, <2>1
  <2> QED
    BY <2>1, <2>2, <2>3, SubSeqIs
<1>18. ASSUME NEW s \in 1 .. num PROVE AtMost7(subs[s])
  <2> SUFFICES ASSUME NEW D
               PROVE  Cardinality({m \in DOMAIN subs[s] : subs[s][m].Pos \div 64 = D}) \in 0 .. 7
    BY DEF AtMost7
  <2>1. PICK x, y : x = lo[s] /\ y = hi[s]
    OBVIOUS
  <2>2. x \in 1 .. n /\ y \in x .. n /\ \A z \in x + 1 .. y : z \notin Sp
    BY <1>15, <2>1
  <2>3. NoSplit(F, Q, n, x, y)
    <3> HIDE DEF Q
    <3> QED
      BY <1>2, <1>7, <2>2 DEF NoSplit
  <2>4. PICK f \in Int : \A k \in x .. y : Q[k] \div 64 = D => k \in f .. f + 6
    <3> HIDE DEF Q
    <3>1. FewIn(Q, x, y, D)
      BY <1>2, <1>4, <1>6, <2>2, <2>3, FewOfAPiece
    <3> QED
      BY <3>1 DEF FewIn
  <2>5. PICK K : K = {m \in DOMAIN subs[s] : subs[s][m].Pos \div 64 = D}
    OBVIOUS
  <2>6. PICK a, e : a = f - x + 1 /\ e = f - x + 7
    OBVIOUS
  <2>7. a \in Int /\ e \in Int /\ ~(a > e) /\ e - a + 1 = 7
    BY <2>2, <2>6
  <2>8. ASSUME NEW m \in K PROVE m \in a .. e
    <3>1. m \in 1 .. y - x + 1 /\ subs[s][m] = G[x + m - 1] /\ subs[s][m].Pos \div 64 = D
      <4>1. Len(subs[s]) = y - x + 1 /\ DOMAIN subs[s] = 1 .. Len(subs[s])
        BY <1>17, <2>1
      <4> QED
        BY <1>17, <2>1, <2>5, <4>1
    <3>2. x + m - 1 \in x .. y /\ x + m - 1 \in 1 .. n
      BY <1>2, <2>2, <3>1
    <3>3. Q[x + m - 1] \div 64 = D
      BY <3>1, <3>2
    <3>4. x + m - 1 \in f .. f + 6
      BY <2>4, <3>2, <3>3
    <3> QED
      BY <2>2, <2>6, <3>1, <3>4
  <2>9. IsFiniteSet(a .. e) /\ Cardinality(a .. e) = 7
    BY <2>7, FS_Interval
  <2>10. K \in SUBSET (a .. e)
    BY <2>8
  <2>11. IsFiniteSet(K) /\ Cardinality(K) <= 7
    BY <2>9, <2>10, FS_Subset
  <2>12. Cardinality(K) \in Nat
    BY <2>11, FS_CardinalityType
  <2>13. Cardinality(K) \in 0 .. 7
    BY <2>11, <2>12
  <2> QED
    BY <2>5, <2>13
<1>19. subs \in Seq(Seq(Blocks))
  <2>1. subs = [s \in 1 .. num |-> subs[s]] /\ \A s \in 1 .. num : subs[s] \in Seq(Blocks)
    BY <1>16, <1>17
  <2> QED
    BY <1>13, <2>1
<1>20. Cuts(G, subs, lo, hi)
  BY <1>1, <1>15, <1>16, <1>17, <1>18, <1>19 DEF Cuts
<1> QED
  BY <1>11, <1>20

(***************************************************************************)
(* What is read of the fields                                              *)
(***************************************************************************)
\* Elements in the order of their sections: how many there are of each section tells
\* which ones they are.
Counts(c, seg, len) ==
  /\ seg \in [1 .. len -> 0 .. 15] /\ \A j, k \in 1 .. len : j <= k => seg[j] <= seg[k]
  /\ \A j \in 0 .. 15 : c[j] = Cardinality({k \in 1 .. len : seg[k] = j})
Tells(c, seg, len) ==
  \A j \in 0 .. 15, k \in 1 .. len : (SumTo(c, j) < k /\ k <= SumTo(c, j + 1)) <=> seg[k] = j

\* The running sum of the counts tells which elements are of a section.
LEMMA CountsTell ==
  ASSUME NEW L \in Nat, NEW seg, NEW c, Counts(c, seg, L)
  PROVE  Tells(c, seg, L)
<1>0. /\ seg \in [1 .. L -> 0 .. 15] /\ \A j, k \in 1 .. L : j <= k => seg[j] <= seg[k]
      /\ \A j \in 0 .. 15 : c[j] = Cardinality({k \in 1 .. L : seg[k] = j})
  BY DEF Counts
<1>0a. \A k \in 1 .. L : seg[k] \in 0 .. 15 /\ seg[k] \in Int
  BY <1>0
<1> DEFINE U(j) == {k \in 1 .. L : seg[k] < j}
           A(j) == {k \in 1 .. L : seg[k] = j}
           T == {j \in Nat : j <= 16 => SumTo(c, j) = Cardinality(U(j))}
<1>1. IsFiniteSet(1 .. L)
  BY FS_Interval
<1>2. \A j \in Nat : U(j) \in SUBSET (1 .. L) /\ A(j) \in SUBSET (1 .. L)
  OBVIOUS
<1>3. \A j \in Nat : IsFiniteSet(U(j)) /\ IsFiniteSet(A(j))
  <2> SUFFICES ASSUME NEW j \in Nat PROVE IsFiniteSet(U(j)) /\ IsFiniteSet(A(j))
    OBVIOUS
  <2>1. U(j) \in SUBSET (1 .. L) /\ A(j) \in SUBSET (1 .. L)
    BY <1>2
  <2> HIDE DEF U, A
  <2> QED
    BY <1>1, <2>1, FS_Subset
<1>4. 0 \in T
  <2>1. U(0) = {}
    BY <1>0a
  <2>2. Cardinality(U(0)) = 0
    BY <2>1, FS_EmptySet
  <2> HIDE DEF U
  <2> QED
    BY <2>2, SumToDef
<1>5. ASSUME NEW j \in T PROVE j + 1 \in T
  <2>1. j \in Nat /\ j + 1 \in Nat
    OBVIOUS
  <2>2. SUFFICES ASSUME j + 1 <= 16 PROVE SumTo(c, j + 1) = Cardinality(U(j + 1))
    BY <2>1
  <2>3. j \in 0 .. 15 /\ j <= 16
    BY <2>1, <2>2
  <2>4. SumTo(c, j + 1) = SumTo(c, j) + c[j] /\ SumTo(c, j) = Cardinality(U(j))
    BY <2>1, <2>3, SumToDef
  <2>5. c[j] = Cardinality(A(j))
    BY <1>0, <2>3
  <2>6. U(j + 1) = U(j) \cup A(j) /\ U(j) \cap A(j) = {}
    <3>1. \A k \in 1 .. L : (seg[k] < j + 1 <=> seg[k] < j \/ seg[k] = j) /\ ~(seg[k] < j /\ seg[k] = j)
      BY <1>0a, <2>1
    <3> QED
      BY <3>1
  <2> HIDE DEF U, A
  <2>7. PICK X, Y : X = U(j) /\ Y = A(j)
    OBVIOUS
  <2>8. IsFiniteSet(X) /\ IsFiniteSet(Y) /\ X \cap Y = {} /\ U(j + 1) = X \cup Y
    BY <1>3, <2>1, <2>6, <2>7
  <2>9. Cardinality(X \cup Y) = Cardinality(X) + Cardinality(Y) - Cardinality(X \cap Y)
    BY <2>8, FS_Union
  <2>10. Cardinality(X \cap Y) = 0 /\ Cardinality(X) \in Nat /\ Cardinality(Y) \in Nat
    BY <2>8, FS_EmptySet, FS_CardinalityType
  <2>11. PICK x, y, z : x = Cardinality(X) /\ y = Cardinality(Y) /\ z = Cardinality(X \cap Y)
    OBVIOUS
  <2>12. Cardinality(X \cup Y) = x + y
    BY <2>9, <2>10, <2>11
  <2>13. SumTo(c, j + 1) = x + y
    BY <2>4, <2>5, <2>7, <2>11
  <2> QED
    BY <2>8, <2>12, <2>13
<1> HIDE DEF T
<1>6. T \in SUBSET Nat
  BY DEF T
<1>7. T = Nat
  BY <1>4, <1>5, <1>6, SetInduction
<1>8. ASSUME NEW j \in 0 .. 16 PROVE SumTo(c, j) \in Nat /\ U(j) = 1 .. SumTo(c, j)
  <2>0. j \in Nat /\ j <= 16
    OBVIOUS
  <2>1. SumTo(c, j) = Cardinality(U(j))
    BY <1>7, <2>0 DEF T
  <2>2. U(j) \in SUBSET Nat /\ \A x \in U(j) : x >= 1 /\ 1 .. x \subseteq U(j)
    <3>1. ASSUME NEW x \in U(j) PROVE x \in Nat /\ x >= 1 /\ 1 .. x \subseteq U(j)
      <4>1. x \in 1 .. L /\ seg[x] < j
        OBVIOUS
      <4>2. ASSUME NEW y \in 1 .. x PROVE y \in 1 .. L /\ seg[y] < j
        <5>1. y \in 1 .. L /\ y <= x
          BY <4>1
        <5>2. seg[y] <= seg[x] /\ seg[x] \in Int /\ seg[y] \in Int
          BY <1>0, <1>0a, <4>1, <5>1
        <5> QED
          BY <2>0, <4>1, <5>1, <5>2
      <4> QED
        BY <4>1, <4>2
    <3> QED
      BY <3>1
  <2>3. IsFiniteSet(U(j))
    BY <1>3, <2>0
  <2> HIDE DEF U
  <2>4. PICK one \in Nat : one = 1
    OBVIOUS
  <2>5. Cardinality(U(j)) \in Nat /\ U(j) = one .. one + Cardinality(U(j)) - 1
    BY <2>2, <2>3, <2>4, NoGap
  <2> QED
    BY <2>1, <2>4, <2>5
<1>9. ASSUME NEW j \in 0 .. 15, NEW k \in 1 .. L
      PROVE  SumTo(c, j) < k /\ k <= SumTo(c, j + 1) <=> seg[k] = j
  <2>1. j \in 0 .. 16 /\ j + 1 \in 0 .. 16
    OBVIOUS
  <2>2. PICK x, y : x = SumTo(c, j) /\ y = SumTo(c, j + 1)
    OBVIOUS
  <2>3. x \in Nat /\ y \in Nat /\ U(j) = 1 .. x /\ U(j + 1) = 1 .. y
    BY <1>8, <2>1, <2>2
  <2>4. k \in U(j) <=> seg[k] < j
    OBVIOUS
  <2>5. k \in U(j + 1) <=> seg[k] < j + 1
    OBVIOUS
  <2> HIDE DEF U
  <2>6. k \in U(j) <=> k <= x
    BY <2>3
  <2>7. k \in U(j + 1) <=> k <= y
    BY <2>3
  <2>8. seg[k] \in Int
    BY <1>0a
  <2>9. x < k /\ k <= y <=> seg[k] = j
    BY <2>3, <2>4, <2>5, <2>6, <2>7, <2>8
  <2> QED
    BY <2>2, <2>9
<1> QED
  BY <1>9 DEF Tells

\* What is read of a subgroup: its blocks.
SubOk(sub) ==
  /\ sub \in Seq(Blocks) /\ Len(sub) >= 1
  /\ \A k \in DOMAIN sub : sub[k].Pos < 1024 /\ sub[k].len = sub[1].len
  /\ \A j, k \in DOMAIN sub : j < k => sub[j].Pos < sub[k].Pos
  /\ AtMost7(sub)
ReadOf(sub, i) == {[Pos |-> sub[k].Pos, len |-> sub[k].len, quant |-> i \div 8] : k \in DOMAIN sub}

\* A subgroup is read as it was written.
LEMMA DecodedAre ==
  ASSUME NEW sub, SubOk(sub), NEW i
  PROVE  /\ DecodeSubGroup(EncodeSubGroup(sub, i)) = ReadOf(sub, i)
         /\ Len(EncodeSubGroup(sub, i).relPos) = Len(sub)
<1>1. PICK L : L = Len(sub)
  OBVIOUS
<1>2. L \in Nat /\ DOMAIN sub = 1 .. L /\ 1 \in 1 .. L /\ \A k \in 1 .. L : sub[k] \in Blocks
  BY <1>1 DEF SubOk
<1>3. \A k \in 1 .. L : sub[k].Pos \in Nat /\ sub[k].len \in 1 .. 7
  BY <1>2 DEF Blocks
<1>4. \A k \in 1 .. L : sub[k].Pos \div 64 \in 0 .. 15
  <2> SUFFICES ASSUME NEW k \in 1 .. L PROVE sub[k].Pos \div 64 \in 0 .. 15
    OBVIOUS
  <2>1. PICK p \in Nat : p = sub[k].Pos
    BY <1>3
  <2>2. p < 1024
    BY <1>2, <2>1 DEF SubOk
  <2>3. p \div 64 \in 0 .. 15
    BY <2>2
  <2> QED
    BY <2>1, <2>3
<1> DEFINE seg == [k \in 1 .. L |-> sub[k].Pos \div 64]
           count(j) == Cardinality({k \in DOMAIN sub : sub[k].Pos \div 64 = j})
           flags == {band \in 0 .. 3 : \E j \in 4 * band .. 4 * band + 3 : count(j) > 0}
<1>5. PICK s : s = EncodeSubGroup(sub, i)
  OBVIOUS
<1>6. s = [flags |-> flags, coded |-> (sub[1].len - 1) % 8, quant |-> i \div 8,
           counts |-> [j \in {j \in 0 .. 15 : j \div 4 \in flags} |-> count(j) % 8],
           relPos |-> [k \in DOMAIN sub |-> sub[k].Pos % 64]]
  BY <1>5 DEF EncodeSubGroup
<1>7. \A j : count(j) \in 0 .. 7
  BY DEF SubOk, AtMost7
<1>8. \A j \in 0 .. 15 : count(j) = Cardinality({k \in 1 .. L : seg[k] = j})
  <2> SUFFICES ASSUME NEW j \in 0 .. 15
               PROVE  count(j) = Cardinality({k \in 1 .. L : seg[k] = j})
    OBVIOUS
  <2>1. {k \in DOMAIN sub : sub[k].Pos \div 64 = j} = {k \in 1 .. L : seg[k] = j}
    BY <1>2
  <2> QED
    BY <2>1
<1> HIDE DEF count
<1> DEFINE c == [j \in 0 .. 15 |-> IF j \in DOMAIN s.counts THEN s.counts[j] ELSE 0]
<1>9. ASSUME NEW j \in 0 .. 15 PROVE c[j] = count(j)
  <2>1. s.counts = [h \in {h \in 0 .. 15 : h \div 4 \in flags} |-> count(h) % 8]
    BY <1>6
  <2>2. PICK x : x = count(j)
    OBVIOUS
  <2>3. x \in 0 .. 7 /\ x % 8 = x
    BY <1>7, <2>2
  <2>4. CASE j \div 4 \in flags
    BY <2>1, <2>2, <2>3, <2>4
  <2>5. CASE j \div 4 \notin flags
    <3>1. j \div 4 \in 0 .. 3 /\ j \in 4 * (j \div 4) .. 4 * (j \div 4) + 3
      OBVIOUS
    <3>2. ~(x > 0)
      BY <2>2, <2>5, <3>1
    <3>3. x = 0
      BY <2>3, <3>2
    <3>4. j \notin DOMAIN s.counts
      BY <2>1, <2>5
    <3> QED
      BY <2>2, <3>3, <3>4
  <2> QED
    BY <2>4, <2>5
<1> DEFINE at(j) == {k \in DOMAIN s.relPos : SumTo(c, j) < k /\ k <= SumTo(c, j + 1)}
           block(j, k) == [Pos |-> 64 * j + s.relPos[k], len |-> s.coded + 1, quant |-> s.quant]
<1>10. DecodeSubGroup(s) = UNION {{block(j, k) : k \in at(j)} : j \in 0 .. 15}
  BY DEF DecodeSubGroup
<1>11. \A j, k \in 1 .. L : j <= k => seg[j] <= seg[k]
  <2> SUFFICES ASSUME NEW j \in 1 .. L, NEW k \in 1 .. L, j <= k PROVE seg[j] <= seg[k]
    OBVIOUS
  <2>1. PICK x \in Nat, y \in Nat : x = sub[j].Pos /\ y = sub[k].Pos
    BY <1>3
  <2>2. x <= y
    <3>1. j = k \/ j < k
      OBVIOUS
    <3> QED
      BY <1>2, <2>1, <3>1 DEF SubOk
  <2>3. x \div 64 <= y \div 64
    BY <2>2
  <2> QED
    BY <2>1, <2>3
<1>12. \A j \in 0 .. 15, k \in 1 .. L : SumTo(c, j) < k /\ k <= SumTo(c, j + 1) <=> seg[k] = j
  <2>1. seg \in [1 .. L -> 0 .. 15]
    BY <1>4
  <2>2. \A h \in 0 .. 15 : c[h] = Cardinality({m \in 1 .. L : seg[m] = h})
    BY <1>8, <1>9
  <2> HIDE DEF c, seg
  <2>3. Counts(c, seg, L)
    BY <1>11, <2>1, <2>2 DEF Counts
  <2>4. Tells(c, seg, L)
    BY <1>2, <2>3, CountsTell
  <2> QED
    BY <2>4 DEF Tells
<1>13. /\ DOMAIN s.relPos = 1 .. L /\ \A k \in 1 .. L : s.relPos[k] = sub[k].Pos % 64
       /\ s.coded = (sub[1].len - 1) % 8 /\ s.quant = i \div 8
       /\ s.relPos = [k \in 1 .. L |-> sub[k].Pos % 64]
  BY <1>2, <1>6
<1>14. ASSUME NEW k \in 1 .. L
       PROVE  block(seg[k], k) = [Pos |-> sub[k].Pos, len |-> sub[k].len, quant |-> i \div 8]
  <2>1. PICK p, z : p \in Nat /\ p = sub[k].Pos /\ z = sub[k].len
    BY <1>3
  <2>2. z \in 1 .. 7 /\ z = sub[1].len
    BY <1>2, <1>3, <2>1 DEF SubOk
  <2>3. 64 * (p \div 64) + (p % 64) = p
    BY <2>1
  <2>4. ((z - 1) % 8) + 1 = z
    BY <2>2
  <2>5. 64 * seg[k] + s.relPos[k] = p
    BY <1>13, <2>1, <2>3
  <2>6. s.coded + 1 = z
    BY <1>13, <2>2, <2>4
  <2> QED
    BY <1>13, <2>1, <2>5, <2>6
<1>15. \A j \in 0 .. 15 : at(j) = {k \in 1 .. L : seg[k] = j}
  <2> HIDE DEF seg, c
  <2> QED
    BY <1>12, <1>13
<1>16. \A k \in 1 .. L : seg[k] \in 0 .. 15
  BY <1>4
<1> HIDE DEF at, block, seg, c, flags
<1>17. \A x : x \in UNION {{block(j, k) : k \in at(j)} : j \in 0 .. 15}
              <=> \E k \in 1 .. L : x = block(seg[k], k)
  <2>1. ASSUME NEW x, x \in UNION {{block(j, k) : k \in at(j)} : j \in 0 .. 15}
        PROVE  \E k \in 1 .. L : x = block(seg[k], k)
    <3>1. PICK j \in 0 .. 15 : x \in {block(j, k) : k \in at(j)}
      BY <2>1
    <3>2. PICK k \in at(j) : x = block(j, k)
      BY <3>1
    <3>3. k \in 1 .. L /\ seg[k] = j
      BY <1>15, <3>2
    <3> QED
      BY <3>2, <3>3
  <2>2. ASSUME NEW k \in 1 .. L
        PROVE  block(seg[k], k) \in UNION {{block(j, m) : m \in at(j)} : j \in 0 .. 15}
    <3>1. k \in at(seg[k]) /\ seg[k] \in 0 .. 15
      BY <1>15, <1>16
    <3> QED
      BY <3>1
  <2> QED
    BY <2>1, <2>2
<1>18. DecodeSubGroup(s) = ReadOf(sub, i)
  <2>1. \A x : x \in ReadOf(sub, i) <=> \E k \in 1 .. L : x = block(seg[k], k)
    BY <1>2, <1>14 DEF ReadOf
  <2> QED
    BY <1>10, <1>17, <2>1
<1>19. Len(s.relPos) = L
  BY <1>2, <1>13
<1> QED
  BY <1>1, <1>5, <1>18, <1>19

\* None of them is the same as another.
LEMMA ReadCount ==
  ASSUME NEW sub, SubOk(sub), NEW i
  PROVE  Cardinality(ReadOf(sub, i)) = Len(sub)
<1>1. PICK L : L = Len(sub)
  OBVIOUS
<1>2. L \in Nat /\ DOMAIN sub = 1 .. L /\ \A k \in 1 .. L : sub[k] \in Blocks
  BY <1>1 DEF SubOk
<1>3. \A j, k \in 1 .. L : j # k => sub[j].Pos # sub[k].Pos
  <2> SUFFICES ASSUME NEW j \in 1 .. L, NEW k \in 1 .. L, j # k PROVE sub[j].Pos # sub[k].Pos
    OBVIOUS
  <2>1. sub[j].Pos \in Nat /\ sub[k].Pos \in Nat
    BY <1>2 DEF Blocks
  <2>2. j < k \/ k < j
    OBVIOUS
  <2> QED
    BY <1>2, <2>1, <2>2 DEF SubOk
<1> DEFINE f == [k \in 1 .. L |-> [Pos |-> sub[k].Pos, len |-> sub[k].len, quant |-> i \div 8]]
<1>4. ReadOf(sub, i) = {f[k] : k \in 1 .. L}
  BY <1>2 DEF ReadOf
<1>5. \A j, k \in 1 .. L : f[j] = f[k] => j = k
  BY <1>3
<1>6. f \in Surjection(1 .. L, ReadOf(sub, i)) /\ f \in Injection(1 .. L, ReadOf(sub, i))
  <2>1. f = [k \in 1 .. L |-> f[k]] /\ \A k \in 1 .. L : f[k] \in ReadOf(sub, i)
    BY <1>4
  <2> HIDE DEF f
  <2>2. f \in [1 .. L -> ReadOf(sub, i)]
    BY <2>1
  <2>3. \A x \in ReadOf(sub, i) : \E k \in 1 .. L : f[k] = x
    BY <1>4
  <2>4. f \in Surjection(1 .. L, ReadOf(sub, i))
    BY <2>2, <2>3 DEF Surjection
  <2>5. f \in Injection(1 .. L, ReadOf(sub, i))
    BY <1>5, <2>2 DEF Injection, IsInjective
  <2> QED
    BY <2>4, <2>5
<1>7. IsFiniteSet(1 .. L) /\ Cardinality(1 .. L) = L
  BY <1>2, FS_Interval
<1> HIDE DEF f
<1> QED
  BY <1>1, <1>6, <1>7, FS_Surjection

\* Which blocks of K the fields of each subgroup stand for.
ReadBlock(t, alloc) == [Pos |-> t.Pos, len |-> t.len, quant |-> TonalQuant(alloc[t.Bfu])]
Owned(fs, bs, alloc, K, own) ==
  /\ Len(fs) \in Nat /\ fs = [f \in 1 .. Len(fs) |-> fs[f]]
  /\ \A f \in 1 .. Len(fs) :
       /\ own[f] \in SUBSET K /\ own[f] # {}
       /\ DecodeSubGroup(fs[f]) = {ReadBlock(bs[k], alloc) : k \in own[f]}
       /\ Cardinality(DecodeSubGroup(fs[f])) = Len(fs[f].relPos)
  /\ \A f, g \in 1 .. Len(fs) : f # g => own[f] \cap own[g] = {}
  /\ \A k \in K : \E f \in 1 .. Len(fs) : k \in own[f]

Coded(bs, n) == {k \in DOMAIN bs : bs[k].Bfu < n}
Members(bs, alloc, n, g) == {k \in Coded(bs, n) : GroupOf(bs[k], alloc) = g}

\* fs are fields for the blocks K.
StandsFor(fs, bs, alloc, K) == \E own : Owned(fs, bs, alloc, K, own)

\* A block's group tells its length and its quantiser.
Told(t, alloc) ==
  /\ GroupOf(t, alloc) \in 0 .. 63
  /\ GroupOf(t, alloc) \div 8 = TonalQuant(alloc[t.Bfu]) /\ GroupOf(t, alloc) % 8 = t.len
\* A group is a quantiser and a length.
LEMMA GroupTells ==
  ASSUME NEW n \in 1 .. 32, NEW alloc \in [0 .. n - 1 -> 0 .. 7], NEW t \in Blocks, t.Bfu < n
  PROVE  Told(t, alloc)
<1>1. t.Bfu \in 0 .. n - 1 /\ t.len \in 1 .. 7
  <2>1. t.len \in 1 .. 7
    BY DEF Blocks
  <2>2. t.Bfu \in 8 .. 28
    BY DEF Blocks
  <2>3. PICK b : b = t.Bfu
    OBVIOUS
  <2>4. b \in 8 .. 28 /\ b < n
    BY <2>2, <2>3
  <2>5. b \in 0 .. n - 1
    BY <2>4
  <2> QED
    BY <2>1, <2>3, <2>5
<1>2. PICK w, l : w = alloc[t.Bfu] /\ l = t.len
  OBVIOUS
<1>3. w \in 0 .. 7 /\ l \in 1 .. 7
  BY <1>1, <1>2
<1>4. PICK q : q = TonalQuant(w)
  OBVIOUS
<1>5. q \in 4 .. 7
  BY <1>3, <1>4 DEF TonalQuant
<1>6. q * 8 + l \in 0 .. 63 /\ (q * 8 + l) \div 8 = q /\ (q * 8 + l) % 8 = l
  BY <1>3, <1>5
<1>7. GroupOf(t, alloc) = q * 8 + l
  BY <1>2, <1>4 DEF GroupOf
<1> QED
  BY <1>2, <1>4, <1>6, <1>7 DEF Told

\* How the blocks G of a group are listed: at tells which blocks of bs they are.
Lists(G, at, M, bs) ==
  /\ G \in Seq(Blocks) /\ Len(G) = Len(at) /\ Len(at) \in Nat
  /\ \A m \in 1 .. Len(at) : at[m] \in M /\ G[m] = bs[at[m]]
  /\ \A j, m \in 1 .. Len(at) : j < m => at[j] < at[m]
  /\ \A k \in M : \E m \in 1 .. Len(at) : at[m] = k

\* Group lists the members of a group, in order.
LEMMA GroupIs ==
  ASSUME NEW S, NEW bs, BlocksOf(bs, S), NEW n, NEW alloc, NEW g
  PROVE  Lists(Group(bs, alloc, n, g), Ascending(Members(bs, alloc, n, g)), Members(bs, alloc, n, g), bs)
<1>1. PICK I : I = Members(bs, alloc, n, g)
  OBVIOUS
<1>2. PICK N : N = Len(bs)
  OBVIOUS
<1>3. N \in Nat /\ DOMAIN bs = 1 .. N /\ \A k \in 1 .. N : bs[k] \in Blocks
  BY <1>2 DEF BlocksOf
<1>4. I \in SUBSET (1 .. N) /\ I \in SUBSET Nat
  BY <1>1, <1>3 DEF Members, Coded
<1>5. IsFiniteSet(I)
  <2>1. IsFiniteSet(1 .. N)
    BY <1>3, FS_Interval
  <2> QED
    BY <1>4, <2>1, FS_Subset
<1>6. PICK at : at = Ascending(I)
  OBVIOUS
<1>7. PICK c : c = Cardinality(I)
  OBVIOUS
<1>8. c \in Nat
  BY <1>5, <1>7, FS_CardinalityType
<1>9. Len(at) = c /\ DOMAIN at = 1 .. c
  BY <1>4, <1>5, <1>6, <1>7, AscendingIs
<1>10. /\ \A j, m \in 1 .. c : j < m => at[j] < at[m]
       /\ \A k \in I : \E m \in 1 .. c : at[m] = k
  BY <1>4, <1>5, <1>6, <1>9, AscendingIs
<1>11. \A m \in 1 .. c : at[m] \in I
  <2>1. at \in Seq(I)
    BY <1>4, <1>5, <1>6, AscendingIs
  <2> QED
    BY <1>9, <2>1, ElementOfSeq
<1>12. PICK G : G = Group(bs, alloc, n, g)
  OBVIOUS
<1>13. G = [m \in 1 .. c |-> bs[at[m]]]
  <2>1. I = {k \in DOMAIN bs : bs[k].Bfu < n /\ GroupOf(bs[k], alloc) = g}
    BY <1>1 DEF Members, Coded
  <2>2. G = [m \in DOMAIN at |-> bs[at[m]]]
    BY <1>6, <1>12, <2>1 DEF Group
  <2> QED
    BY <1>9, <2>2
<1>14. \A m \in 1 .. c : G[m] = bs[at[m]] /\ G[m] \in Blocks
  <2> SUFFICES ASSUME NEW m \in 1 .. c PROVE G[m] = bs[at[m]] /\ G[m] \in Blocks
    OBVIOUS
  <2>1. G[m] = bs[at[m]]
    BY <1>13
  <2>0. at[m] \in I
    BY <1>11
  <2>2. at[m] \in 1 .. N
    <3>1. PICK x : x = at[m]
      OBVIOUS
    <3>2. \A y \in I : y \in 1 .. N
      BY <1>4
    <3>3. x \in 1 .. N
      BY <2>0, <3>1, <3>2
    <3> QED
      BY <3>1, <3>3
  <2>3. bs[at[m]] \in Blocks
    BY <1>3, <2>2
  <2> QED
    BY <2>1, <2>3
<1>15. G \in Seq(Blocks) /\ Len(G) = c
  BY <1>8, <1>13, <1>14
<1> QED
  BY <1>1, <1>6, <1>8, <1>9, <1>10, <1>11, <1>12, <1>14, <1>15 DEF Lists

InSpectrum(S) == S \in SUBSET (0 .. 1023)

\* What the blocks of a group have in common.
IsMember(bs, S, alloc, g, k) ==
  /\ k \in DOMAIN bs /\ bs[k] \in Blocks /\ bs[k].Pos \in S
  /\ bs[k].len = g % 8 /\ TonalQuant(alloc[bs[k].Bfu]) = g \div 8

\* Members have the length and the quantiser of their group.
LEMMA MemberIs ==
  ASSUME NEW n \in 1 .. 32, NEW alloc \in [0 .. n - 1 -> 0 .. 7], NEW S, NEW bs, BlocksOf(bs, S),
         NEW g, NEW k \in Members(bs, alloc, n, g)
  PROVE  IsMember(bs, S, alloc, g, k)
<1>1. k \in DOMAIN bs /\ bs[k].Bfu < n /\ GroupOf(bs[k], alloc) = g
  BY DEF Members, Coded
<1>2. bs \in Seq(Blocks) /\ bs[k].Pos \in S
  BY <1>1 DEF BlocksOf
<1>3. bs[k] \in Blocks
  BY <1>1, <1>2
<1>4. PICK t : t = bs[k]
  OBVIOUS
<1>5. t \in Blocks /\ t.Bfu < n
  BY <1>1, <1>3, <1>4
<1>6. GroupOf(t, alloc) \div 8 = TonalQuant(alloc[t.Bfu]) /\ GroupOf(t, alloc) % 8 = t.len
  <2>1. Told(t, alloc)
    BY <1>5, GroupTells
  <2> QED
    BY <2>1 DEF Told
<1> QED
  BY <1>1, <1>2, <1>3, <1>4, <1>6 DEF IsMember

\* The fields of a group stand for its blocks.
RowFor(bs, alloc, n, g) ==
  LET subs == SubGroups(Group(bs, alloc, n, g))
  IN [s \in DOMAIN subs |-> EncodeSubGroup(subs[s], g)]
\* The fields of a group stand for its members.
LEMMA RowOwned ==
  ASSUME NEW n \in 1 .. 32, NEW alloc \in [0 .. n - 1 -> 0 .. 7], NEW S, InSpectrum(S),
         NEW bs, BlocksOf(bs, S), NEW g
  PROVE  StandsFor(RowFor(bs, alloc, n, g), bs, alloc, Members(bs, alloc, n, g))
<1>1. PICK M : M = Members(bs, alloc, n, g)
  OBVIOUS
<1>2. PICK at : at = Ascending(M)
  OBVIOUS
<1>3. PICK G : G = Group(bs, alloc, n, g)
  OBVIOUS
<1>4. PICK c : c = Len(at)
  OBVIOUS
<1>5. /\ G \in Seq(Blocks) /\ Len(G) = c
      /\ \A m \in 1 .. c : at[m] \in M /\ G[m] = bs[at[m]]
      /\ \A j, m \in 1 .. c : j < m => at[j] < at[m]
      /\ \A k \in M : \E m \in 1 .. c : at[m] = k
  <2>1. Lists(Group(bs, alloc, n, g), Ascending(Members(bs, alloc, n, g)), Members(bs, alloc, n, g), bs)
    BY GroupIs
  <2>2. Lists(G, at, M, bs)
    BY <1>1, <1>2, <1>3, <2>1
  <2> QED
    BY <1>4, <2>2 DEF Lists
<1>6. c \in Nat /\ DOMAIN G = 1 .. c
  <2>1. Len(G) \in Nat /\ DOMAIN G = 1 .. Len(G)
    BY <1>5
  <2> QED
    BY <1>5, <2>1
<1>7. \A k \in M : /\ k \in DOMAIN bs /\ bs[k] \in Blocks /\ bs[k].Pos \in S
                   /\ bs[k].len = g % 8 /\ TonalQuant(alloc[bs[k].Bfu]) = g \div 8
  <2> SUFFICES ASSUME NEW k \in M PROVE IsMember(bs, S, alloc, g, k)
    BY DEF IsMember
  <2> QED
    BY <1>1, MemberIs
<1>8. ASSUME NEW j \in 1 .. c, NEW k \in 1 .. c, j < k PROVE G[j].Pos < G[k].Pos
  <2>1. PICK a, b : a = at[j] /\ b = at[k]
    OBVIOUS
  <2>2. a \in M /\ b \in M /\ a < b /\ G[j] = bs[a] /\ G[k] = bs[b]
    BY <1>5, <1>8, <2>1
  <2>3. a \in DOMAIN bs /\ b \in DOMAIN bs /\ bs[a] \in Blocks /\ bs[b] \in Blocks
    BY <1>7, <2>2
  <2>4. bs[a].Pos + bs[a].len <= bs[b].Pos
    BY <2>2, <2>3 DEF BlocksOf
  <2>5. PICK p, q, l : p = bs[a].Pos /\ q = bs[b].Pos /\ l = bs[a].len
    OBVIOUS
  <2>6. p \in Nat /\ q \in Nat /\ l \in 1 .. 7
    BY <2>3, <2>5 DEF Blocks
  <2>7. p < q
    <3>1. p + l <= q
      BY <2>4, <2>5
    <3> QED
      BY <2>6, <3>1
  <2> QED
    BY <2>2, <2>5, <2>7
<1>9. PICK subs : subs = SubGroups(G)
  OBVIOUS
<1>10. PICK lo, hi : Cuts(G, subs, lo, hi)
  <2>1. \A j, k \in DOMAIN G : j < k => G[j].Pos < G[k].Pos
    BY <1>6, <1>8
  <2> QED
    BY <1>5, <1>9, <2>1, SubGroupsAre
<1>11. PICK num : num = Len(subs)
  OBVIOUS
<1>12. /\ num \in Nat /\ DOMAIN subs = 1 .. num
       /\ \A s, t \in 1 .. num : s < t => hi[s] < lo[t]
       /\ \A k \in 1 .. c : \E s \in 1 .. num : k \in lo[s] .. hi[s]
  <2>1. subs \in Seq(Seq(Blocks))
    BY <1>10 DEF Cuts
  <2>2. num \in Nat /\ DOMAIN subs = 1 .. num
    BY <1>11, <2>1
  <2>3. \A s, t \in DOMAIN subs : s < t => hi[s] < lo[t]
    BY <1>10 DEF Cuts
  <2>4. \A k \in 1 .. Len(G) : \E s \in DOMAIN subs : k \in lo[s] .. hi[s]
    BY <1>10 DEF Cuts
  <2>5. \A s, t \in 1 .. num : s < t => hi[s] < lo[t]
    BY <2>2, <2>3
  <2>6. \A k \in 1 .. c : \E s \in 1 .. num : k \in lo[s] .. hi[s]
    <3>1. Len(G) = c
      BY <1>5
    <3>2. \A k \in 1 .. c : \E s \in DOMAIN subs : k \in lo[s] .. hi[s]
      BY <2>4, <3>1
    <3> QED
      BY <2>2, <3>2
  <2> QED
    BY <2>2, <2>5, <2>6
<1>13. ASSUME NEW s \in 1 .. num
       PROVE  /\ subs[s] \in Seq(Blocks) /\ lo[s] \in 1 .. c /\ hi[s] \in lo[s] .. c
              /\ Len(subs[s]) = hi[s] - lo[s] + 1
              /\ \A m \in 1 .. Len(subs[s]) : subs[s][m] = G[lo[s] + m - 1]
              /\ AtMost7(subs[s])
  <2>1. subs \in Seq(Seq(Blocks))
    BY <1>10 DEF Cuts
  <2>2. subs[s] \in Seq(Blocks)
    BY <1>12, <2>1
  <2>3. s \in DOMAIN subs
    BY <1>12
  <2>4. /\ lo[s] \in 1 .. Len(G) /\ hi[s] \in lo[s] .. Len(G)
        /\ Len(subs[s]) = hi[s] - lo[s] + 1
        /\ \A m \in 1 .. Len(subs[s]) : subs[s][m] = G[lo[s] + m - 1]
        /\ AtMost7(subs[s])
    BY <1>10, <2>3 DEF Cuts
  <2> QED
    BY <1>5, <2>2, <2>4
<1> DEFINE own == [s \in 1 .. num |-> {at[m] : m \in lo[s] .. hi[s]}]
           W == [s \in 1 .. num |-> EncodeSubGroup(subs[s], g)]
<1>14. ASSUME NEW s \in 1 .. num
       PROVE  /\ own[s] \in SUBSET M /\ own[s] # {}
              /\ DecodeSubGroup(W[s]) = {ReadBlock(bs[k], alloc) : k \in own[s]}
              /\ Cardinality(DecodeSubGroup(W[s])) = Len(W[s].relPos)
  <2>1. PICK x, y, sub, L : x = lo[s] /\ y = hi[s] /\ sub = subs[s] /\ L = Len(sub)
    OBVIOUS
  <2>2. x \in 1 .. c /\ y \in x .. c /\ sub \in Seq(Blocks) /\ L = y - x + 1 /\ AtMost7(sub)
    BY <1>13, <2>1
  <2>3. DOMAIN sub = 1 .. L /\ L \in Nat /\ L >= 1
    <3>0. sub \in Seq(Blocks) /\ L = Len(sub)
      BY <2>1, <2>2
    <3>1. L \in Nat /\ DOMAIN sub = 1 .. L
      BY <3>0
    <3>2. x \in Int /\ y \in Int /\ x <= y
      BY <1>6, <2>2
    <3>3. L = y - x + 1
      BY <2>2
    <3>4. L >= 1
      BY <3>2, <3>3
    <3> QED
      BY <3>1, <3>4
  <2>4. \A m \in 1 .. L : sub[m] = G[x + m - 1]
    BY <1>13, <2>1
  <2>5. \A m \in 1 .. L : x + m - 1 \in x .. y /\ x + m - 1 \in 1 .. c
    BY <1>6, <2>2
  <2>6. \A m \in x .. y : m \in 1 .. c /\ m - x + 1 \in 1 .. L /\ x + (m - x + 1) - 1 = m
    BY <1>6, <2>2
  <2>7. own[s] = {at[m] : m \in x .. y}
    BY <2>1
  <2>8. own[s] \in SUBSET M /\ own[s] # {}
    <3>1. \A m \in x .. y : at[m] \in M
      BY <1>5, <2>6
    <3>2. x \in x .. y
      BY <1>6, <2>2
    <3> HIDE DEF own
    <3>3. at[x] \in own[s]
      BY <2>7, <3>2
    <3>4. own[s] \in SUBSET M
      BY <2>7, <3>1
    <3> QED
      BY <3>3, <3>4
  <2>9. \A m \in 1 .. L : at[x + m - 1] \in M /\ sub[m] = bs[at[x + m - 1]]
    BY <1>5, <2>4, <2>5
  <2>10. SubOk(sub)
    <3>1. ASSUME NEW m \in 1 .. L
          PROVE  sub[m].Pos < 1024 /\ sub[m].len = sub[1].len
      <4>1. 1 \in 1 .. L
        BY <2>3
      <4>2. sub[m].len = g % 8 /\ sub[1].len = g % 8 /\ sub[m].Pos \in S
        BY <1>7, <2>9, <4>1
      <4>3. sub[m].Pos \in 0 .. 1023
        <5>1. \A h \in S : h \in 0 .. 1023
          BY DEF InSpectrum
        <5> QED
          BY <4>2, <5>1
      <4>4. PICK p : p = sub[m].Pos
        OBVIOUS
      <4>5. p \in 0 .. 1023
        BY <4>3, <4>4
      <4>6. p < 1024
        BY <4>5
      <4> QED
        BY <4>2, <4>4, <4>6
    <3>2. ASSUME NEW j \in 1 .. L, NEW k \in 1 .. L, j < k PROVE sub[j].Pos < sub[k].Pos
      <4>1. x + j - 1 \in 1 .. c /\ x + k - 1 \in 1 .. c /\ x + j - 1 < x + k - 1
        BY <1>6, <2>2, <2>3, <2>5, <3>2
      <4>2. G[x + j - 1].Pos < G[x + k - 1].Pos
        BY <1>8, <4>1
      <4> QED
        BY <2>4, <4>2
    <3> QED
      <4>1. Len(sub) >= 1 /\ sub \in Seq(Blocks) /\ AtMost7(sub)
        BY <2>1, <2>2, <2>3
      <4>2. /\ \A k \in DOMAIN sub : sub[k].Pos < 1024 /\ sub[k].len = sub[1].len
            /\ \A j, k \in DOMAIN sub : j < k => sub[j].Pos < sub[k].Pos
        BY <2>3, <3>1, <3>2
      <4> QED
        BY <4>1, <4>2 DEF SubOk
  <2>11. W[s] = EncodeSubGroup(sub, g)
    BY <2>1
  <2>12. DecodeSubGroup(W[s]) = ReadOf(sub, g) /\ Len(W[s].relPos) = L
    BY <2>1, <2>10, <2>11, DecodedAre
  <2>13. Cardinality(ReadOf(sub, g)) = L
    BY <2>1, <2>10, ReadCount
  <2>14. ReadOf(sub, g) = {ReadBlock(bs[k], alloc) : k \in own[s]}
    <3>1. ASSUME NEW m \in 1 .. L
          PROVE  [Pos |-> sub[m].Pos, len |-> sub[m].len, quant |-> g \div 8]
                   = ReadBlock(bs[at[x + m - 1]], alloc)
      <4>1. PICK k : k = at[x + m - 1]
        OBVIOUS
      <4>2. k \in M /\ sub[m] = bs[k]
        BY <2>9, <4>1
      <4>3. TonalQuant(alloc[bs[k].Bfu]) = g \div 8
        BY <1>7, <4>2
      <4> QED
        BY <4>1, <4>2, <4>3 DEF ReadBlock
    <3> DEFINE r(m) == [Pos |-> sub[m].Pos, len |-> sub[m].len, quant |-> g \div 8]
               o(k) == ReadBlock(bs[k], alloc)
    <3>2. \A m \in 1 .. L : r(m) = o(at[x + m - 1])
      BY <3>1
    <3>3. ReadOf(sub, g) = {r(m) : m \in 1 .. L}
      BY <2>3 DEF ReadOf
    <3>4. {ReadBlock(bs[k], alloc) : k \in own[s]} = {o(k) : k \in own[s]}
      OBVIOUS
    <3> HIDE DEF r, o, own
    <3>5. ASSUME NEW m \in 1 .. L PROVE \E k \in own[s] : r(m) = o(k)
      <4>1. at[x + m - 1] \in own[s]
        BY <2>5, <2>7
      <4> QED
        BY <3>2, <4>1
    <3>6. ASSUME NEW k \in own[s] PROVE \E m \in 1 .. L : r(m) = o(k)
      <4>1. PICK z \in x .. y : k = at[z]
        BY <2>7
      <4>2. PICK m : m = z - x + 1
        OBVIOUS
      <4>3. m \in 1 .. L /\ x + m - 1 = z
        BY <2>6, <4>2
      <4> QED
        BY <3>2, <4>1, <4>3
    <3> QED
      <4>1. PICK O : O = own[s]
        OBVIOUS
      <4>2. ReadOf(sub, g) \subseteq {o(k) : k \in O}
        BY <3>3, <3>5, <4>1
      <4>3. {o(k) : k \in O} \subseteq ReadOf(sub, g)
        BY <3>3, <3>6, <4>1
      <4> QED
        BY <3>4, <4>1, <4>2, <4>3
  <2> QED
    BY <2>8, <2>12, <2>13, <2>14
<1>15. ASSUME NEW s \in 1 .. num, NEW t \in 1 .. num, s < t PROVE own[s] \cap own[t] = {}
  <2> SUFFICES ASSUME NEW k \in own[s], k \in own[t] PROVE FALSE
    OBVIOUS
  <2>1. PICK a \in lo[s] .. hi[s] : k = at[a]
    OBVIOUS
  <2>2. PICK b \in lo[t] .. hi[t] : k = at[b]
    OBVIOUS
  <2>3. PICK w, x, y, z : w = lo[s] /\ x = hi[s] /\ y = lo[t] /\ z = hi[t]
    OBVIOUS
  <2>4. w \in 1 .. c /\ x \in w .. c /\ y \in 1 .. c /\ z \in y .. c
    BY <1>13, <2>3
  <2>5. x < y
    BY <1>12, <1>15, <2>3
  <2>6. a \in 1 .. c /\ b \in 1 .. c /\ a < b
    <3>1. a \in w .. x /\ b \in y .. z
      BY <2>1, <2>2, <2>3
    <3>2. w \in Int /\ x \in Int /\ y \in Int /\ z \in Int /\ 1 <= w /\ x <= c /\ 1 <= y /\ z <= c
      BY <1>6, <2>4
    <3>3. a \in Int /\ b \in Int /\ w <= a /\ a <= x /\ y <= b /\ b <= z
      BY <3>1, <3>2
    <3> QED
      BY <1>6, <2>5, <3>2, <3>3
  <2>7. at[a] < at[b]
    BY <1>5, <2>6
  <2>8. at[a] \in M
    BY <1>5, <2>6
  <2>9. at[a] \in Nat
    <3>1. at[a] \in DOMAIN bs
      BY <1>7, <2>8
    <3>2. bs \in Seq(Blocks)
      BY DEF BlocksOf
    <3> QED
      BY <3>1, <3>2
  <2> QED
    BY <2>1, <2>2, <2>7, <2>9
<1>16. ASSUME NEW k \in M PROVE \E s \in 1 .. num : k \in own[s]
  <2>1. PICK m \in 1 .. c : at[m] = k
    BY <1>5
  <2>2. PICK s \in 1 .. num : m \in lo[s] .. hi[s]
    BY <1>12
  <2> QED
    BY <2>1, <2>2
<1>17. Owned(W, bs, alloc, M, own)
  <2>1. Len(W) = num /\ W = [s \in 1 .. num |-> W[s]]
    BY <1>12
  <2>2. \A s, t \in 1 .. num : s # t => own[s] \cap own[t] = {}
    <3> SUFFICES ASSUME NEW s \in 1 .. num, NEW t \in 1 .. num, s # t PROVE own[s] \cap own[t] = {}
      OBVIOUS
    <3> HIDE DEF own
    <3>1. s < t \/ t < s
      BY <1>12
    <3> QED
      BY <1>15, <3>1
  <2> HIDE DEF W, own
  <2> QED
    BY <1>12, <1>14, <1>16, <2>1, <2>2 DEF Owned
<1>18. [s \in DOMAIN subs |-> EncodeSubGroup(subs[s], g)] = W
  BY <1>12
<1> HIDE DEF W, own
<1> QED
  <2>1. RowFor(bs, alloc, n, g) = W
    BY <1>3, <1>9, <1>18 DEF RowFor
  <2> QED
    BY <1>1, <1>17, <2>1 DEF StandsFor

\* Which place of J is which place of which row.
Places(J, rows, n, row, col) ==
  /\ Len(J) \in Nat /\ J = [i \in 1 .. Len(J) |-> J[i]]
  /\ \A i \in 1 .. Len(J) : /\ row[i] \in 0 .. n - 1 /\ col[i] \in 1 .. Len(rows[row[i]])
                            /\ J[i] = rows[row[i]][col[i]]
  /\ \A i, j \in 1 .. Len(J) : row[i] = row[j] /\ col[i] = col[j] => i = j
  /\ \A r \in 0 .. n - 1 : \A x \in 1 .. Len(rows[r]) :
       \E i \in 1 .. Len(J) : row[i] = r /\ col[i] = x
AreRows(rows, n) ==
  \A r \in 0 .. n - 1 : Len(rows[r]) \in Nat /\ rows[r] = [i \in 1 .. Len(rows[r]) |-> rows[r][i]]

\* Every place of Joined is one of a row, and every place of a row one of Joined.
LEMMA JoinedPlaces ==
  ASSUME NEW n \in Nat, NEW rows, AreRows(rows, n)
  PROVE  \E row, col : Places(Joined(rows, n), rows, n, row, col)
<1> DEFINE V == UNION {{rows[r][i] : i \in 1 .. Len(rows[r])} : r \in 0 .. n - 1}
<1>1. \A r \in 0 .. n - 1 : rows[r] \in Seq(V) /\ Len(rows[r]) \in Nat
  <2> SUFFICES ASSUME NEW r \in 0 .. n - 1 PROVE rows[r] \in Seq(V) /\ Len(rows[r]) \in Nat
    OBVIOUS
  <2>1. Len(rows[r]) \in Nat /\ rows[r] = [i \in 1 .. Len(rows[r]) |-> rows[r][i]]
    BY DEF AreRows
  <2>2. \A i \in 1 .. Len(rows[r]) : rows[r][i] \in V
    OBVIOUS
  <2> HIDE DEF V
  <2>3. rows[r] \in [1 .. Len(rows[r]) -> V]
    BY <2>1, <2>2
  <2> QED
    BY <2>1, <2>3
<1> HIDE DEF V
<1>2. PICK J : J = Joined(rows, n)
  OBVIOUS
<1>3. PICK f : f = RowLengths(rows, n)
  OBVIOUS
<1>4. PICK T : T = SumTo(f, n)
  OBVIOUS
<1>5. /\ J \in Seq(V) /\ Len(J) = T
      /\ \A k \in 0 .. n : SumTo(f, k) \in Nat
      /\ \A k \in 0 .. n - 1 :
           /\ SumTo(f, k + 1) = SumTo(f, k) + Len(rows[k])
           /\ SumTo(f, k + 1) <= T
           /\ \A i \in 1 .. Len(rows[k]) : J[SumTo(f, k) + i] = rows[k][i]
  <2>1. AllRows(rows, n, V)
    BY <1>1 DEF AllRows
  <2>2. HasRows(J, rows, n, V, f)
    BY <1>2, <1>3, <2>1, JoinedIs
  <2> QED
    BY <1>4, <2>2 DEF HasRows
<1>6. T \in Nat /\ DOMAIN J = 1 .. T
  <2>1. Len(J) \in Nat /\ DOMAIN J = 1 .. Len(J)
    BY <1>5
  <2> QED
    BY <1>5, <2>1
<1>7. \A k \in 0 .. n - 1 : f[k] = Len(rows[k]) /\ f[k] \in Nat
  BY <1>1, <1>3 DEF RowLengths
<1>8. \A k, m \in 0 .. n : k <= m => SumTo(f, k) <= SumTo(f, m)
  BY <1>7, SumRises
<1> DEFINE in(k, i) == SumTo(f, k) < i /\ i <= SumTo(f, k + 1)
           row == [i \in 1 .. T |-> CHOOSE k \in 0 .. n - 1 : in(k, i)]
           col == [i \in 1 .. T |-> i - SumTo(f, row[i])]
<1>9. ASSUME NEW i \in 1 .. T PROVE row[i] \in 0 .. n - 1 /\ in(row[i], i)
  <2>1. \E k \in 0 .. n - 1 : SumTo(f, k) < i /\ i <= SumTo(f, k + 1)
    BY <1>4, <1>7, TermExists
  <2> QED
    BY <2>1
<1>10. \A k \in 0 .. n - 1 : k \in 0 .. n /\ k + 1 \in 0 .. n
  OBVIOUS
<1>11. ASSUME NEW i \in 1 .. T, NEW k \in 0 .. n - 1, NEW m \in 0 .. n - 1, in(k, i), in(m, i)
       PROVE  ~(k < m)
  <2> SUFFICES ASSUME k < m PROVE FALSE
    OBVIOUS
  <2>1. k + 1 \in 0 .. n /\ m \in 0 .. n /\ k + 1 <= m
    BY <1>10
  <2>2. SumTo(f, k + 1) <= SumTo(f, m)
    BY <1>8, <2>1
  <2>3. PICK a, b : a = SumTo(f, k + 1) /\ b = SumTo(f, m)
    OBVIOUS
  <2>4. a \in Nat /\ b \in Nat /\ a <= b /\ i <= a /\ b < i
    BY <1>5, <1>11, <2>1, <2>2, <2>3
  <2> QED
    BY <1>6, <2>4
<1>12. ASSUME NEW i \in 1 .. T, NEW k \in 0 .. n - 1, NEW m \in 0 .. n - 1, in(k, i), in(m, i)
       PROVE  k = m
  <2>1. ~(k < m) /\ ~(m < k)
    BY <1>11, <1>12
  <2> QED
    BY <2>1
<1>13. \A i \in 1 .. T : col[i] = i - SumTo(f, row[i])
  OBVIOUS
<1> HIDE DEF row, col
<1>14. ASSUME NEW i \in 1 .. T
       PROVE  col[i] \in 1 .. Len(rows[row[i]]) /\ J[i] = rows[row[i]][col[i]]
  <2>1. PICK r : r = row[i]
    OBVIOUS
  <2>2. r \in 0 .. n - 1 /\ SumTo(f, r) < i /\ i <= SumTo(f, r + 1)
    BY <1>9, <2>1
  <2>3. PICK a, b, l, x : a = SumTo(f, r) /\ b = SumTo(f, r + 1) /\ l = Len(rows[r]) /\ x = col[i]
    OBVIOUS
  <2>4. a \in Nat /\ l \in Nat /\ b = a + l
    BY <1>1, <1>5, <1>10, <2>2, <2>3
  <2>5. x = i - a
    BY <1>13, <2>1, <2>3
  <2>6. x \in 1 .. l /\ a + x = i
    BY <1>6, <2>2, <2>3, <2>4, <2>5
  <2>7. J[a + x] = rows[r][x]
    BY <1>5, <2>2, <2>3, <2>6
  <2> QED
    BY <2>1, <2>3, <2>6, <2>7
<1>15. ASSUME NEW i \in 1 .. T, NEW j \in 1 .. T, row[i] = row[j], col[i] = col[j] PROVE i = j
  <2>1. PICK a : a = SumTo(f, row[i])
    OBVIOUS
  <2>2. a \in Nat
    BY <1>5, <1>9, <1>10, <2>1
  <2>3. i - a = j - a
    BY <1>13, <1>15, <2>1
  <2> QED
    BY <1>6, <2>2, <2>3
<1>16. ASSUME NEW r \in 0 .. n - 1, NEW x \in 1 .. Len(rows[r])
       PROVE  \E i \in 1 .. T : row[i] = r /\ col[i] = x
  <2>1. PICK a, b, l : a = SumTo(f, r) /\ b = SumTo(f, r + 1) /\ l = Len(rows[r])
    OBVIOUS
  <2>2. a \in Nat /\ l \in Nat /\ b = a + l /\ b <= T
    BY <1>1, <1>5, <1>10, <2>1
  <2>3. PICK i : i = a + x
    OBVIOUS
  <2>4. x \in 1 .. l
    BY <2>1
  <2>5. i \in 1 .. T /\ a < i /\ i <= b /\ i - a = x
    BY <1>6, <2>2, <2>3, <2>4
  <2>6. row[i] \in 0 .. n - 1 /\ in(row[i], i)
    BY <1>9, <2>5
  <2>7. in(r, i)
    BY <2>1, <2>5
  <2>8. row[i] = r
    <3> HIDE DEF in
    <3> QED
      BY <1>12, <2>5, <2>6, <2>7
  <2>9. col[i] = x
    BY <1>13, <2>1, <2>5, <2>8
  <2> QED
    BY <2>5, <2>8, <2>9
<1>17. J = [i \in 1 .. T |-> J[i]]
  BY <1>5, <1>6
<1>18. Places(J, rows, n, row, col)
  <2>1. \A i \in 1 .. T : row[i] \in 0 .. n - 1
    BY <1>9
  <2> QED
    BY <1>5, <1>6, <1>14, <1>15, <1>16, <1>17, <2>1 DEF Places
<1> QED
  BY <1>2, <1>18

\* Rows of fields that stand for different blocks, joined, stand for all of them.
AllOwned(rows, bs, alloc, Ks, owns, n) ==
  /\ \A r \in 0 .. n - 1 : Owned(rows[r], bs, alloc, Ks[r], owns[r])
  /\ \A r, q \in 0 .. n - 1 : r # q => Ks[r] \cap Ks[q] = {}

\* The rows joined stand for what all of them stand for.
LEMMA JoinedOwned ==
  ASSUME NEW n \in Nat, NEW rows, NEW bs, NEW alloc, NEW Ks, NEW owns,
         AllOwned(rows, bs, alloc, Ks, owns, n)
  PROVE  StandsFor(Joined(rows, n), bs, alloc, UNION {Ks[r] : r \in 0 .. n - 1})
<1>1. ASSUME NEW r \in 0 .. n - 1 PROVE Owned(rows[r], bs, alloc, Ks[r], owns[r])
  BY DEF AllOwned
<1>2. AreRows(rows, n)
  BY <1>1 DEF Owned, AreRows
<1>3. PICK row, col : Places(Joined(rows, n), rows, n, row, col)
  BY <1>2, JoinedPlaces
<1>4. PICK J, T : J = Joined(rows, n) /\ T = Len(J)
  OBVIOUS
<1>5. /\ T \in Nat /\ J = [i \in 1 .. T |-> J[i]]
      /\ \A i \in 1 .. T : /\ row[i] \in 0 .. n - 1 /\ col[i] \in 1 .. Len(rows[row[i]])
                           /\ J[i] = rows[row[i]][col[i]]
      /\ \A i, j \in 1 .. T : row[i] = row[j] /\ col[i] = col[j] => i = j
      /\ \A r \in 0 .. n - 1 : \A x \in 1 .. Len(rows[r]) :
           \E i \in 1 .. T : row[i] = r /\ col[i] = x
  BY <1>3, <1>4 DEF Places
<1> DEFINE K == UNION {Ks[r] : r \in 0 .. n - 1}
           own == [i \in 1 .. T |-> owns[row[i]][col[i]]]
<1>6. ASSUME NEW i \in 1 .. T
      PROVE  /\ own[i] \in SUBSET Ks[row[i]] /\ own[i] \in SUBSET K /\ own[i] # {}
             /\ DecodeSubGroup(J[i]) = {ReadBlock(bs[k], alloc) : k \in own[i]}
             /\ Cardinality(DecodeSubGroup(J[i])) = Len(J[i].relPos)
  <2>1. PICK r, x : r = row[i] /\ x = col[i]
    OBVIOUS
  <2>2. r \in 0 .. n - 1 /\ x \in 1 .. Len(rows[r]) /\ J[i] = rows[r][x]
    BY <1>5, <2>1
  <2>3. own[i] = owns[r][x]
    BY <2>1
  <2>4. Owned(rows[r], bs, alloc, Ks[r], owns[r])
    BY <1>1, <2>2
  <2>5. /\ own[i] \in SUBSET Ks[r] /\ own[i] # {}
        /\ DecodeSubGroup(J[i]) = {ReadBlock(bs[k], alloc) : k \in own[i]}
        /\ Cardinality(DecodeSubGroup(J[i])) = Len(J[i].relPos)
    <3> HIDE DEF own
    <3> QED
      BY <2>2, <2>3, <2>4 DEF Owned
  <2>6. own[i] \in SUBSET K
    <3> HIDE DEF own
    <3> QED
      BY <2>2, <2>5
  <2> QED
    BY <2>1, <2>5, <2>6
<1>7. ASSUME NEW i \in 1 .. T, NEW j \in 1 .. T, i # j PROVE own[i] \cap own[j] = {}
  <2>1. PICK r, q, x, y : r = row[i] /\ q = row[j] /\ x = col[i] /\ y = col[j]
    OBVIOUS
  <2>2. /\ r \in 0 .. n - 1 /\ q \in 0 .. n - 1
        /\ x \in 1 .. Len(rows[r]) /\ y \in 1 .. Len(rows[q])
    BY <1>5, <2>1
  <2>3. CASE r # q
    <3>1. Ks[r] \cap Ks[q] = {}
      BY <2>2, <2>3 DEF AllOwned
    <3>2. own[i] \in SUBSET Ks[r] /\ own[j] \in SUBSET Ks[q]
      BY <1>6, <2>1
    <3> HIDE DEF own
    <3> QED
      BY <3>1, <3>2
  <2>4. CASE r = q
    <3>1. x # y
      <4>1. \A a, b \in 1 .. T : row[a] = row[b] /\ col[a] = col[b] => a = b
        BY <1>5
      <4>2. row[i] = row[j] /\ i # j
        BY <1>7, <2>1, <2>4
      <4>3. col[i] # col[j]
        BY <4>1, <4>2
      <4> QED
        BY <2>1, <4>3
    <3>2. own[i] = owns[r][x] /\ own[j] = owns[r][y]
      BY <2>1, <2>4
    <3>3. Owned(rows[r], bs, alloc, Ks[r], owns[r])
      BY <1>1, <2>2
    <3>4. x \in 1 .. Len(rows[r]) /\ y \in 1 .. Len(rows[r])
      BY <2>2, <2>4
    <3> HIDE DEF own
    <3> QED
      BY <3>1, <3>2, <3>3, <3>4 DEF Owned
  <2> QED
    BY <2>3, <2>4
<1>8. ASSUME NEW k \in K PROVE \E i \in 1 .. T : k \in own[i]
  <2>1. PICK r \in 0 .. n - 1 : k \in Ks[r]
    OBVIOUS
  <2>2. PICK x \in 1 .. Len(rows[r]) : k \in owns[r][x]
    BY <1>1, <2>1 DEF Owned
  <2>3. PICK i \in 1 .. T : row[i] = r /\ col[i] = x
    BY <1>5
  <2>4. own[i] = owns[r][x]
    BY <2>3
  <2> QED
    BY <2>2, <2>4
<1> HIDE DEF own, K
<1>9. Owned(J, bs, alloc, K, own)
  BY <1>4, <1>5, <1>6, <1>7, <1>8 DEF Owned
<1> QED
  BY <1>4, <1>9 DEF K, StandsFor

\* The fields written stand for the blocks whose BFUs are coded.
LEMMA FieldsOwned ==
  ASSUME NEW n \in 1 .. 32, NEW alloc \in [0 .. n - 1 -> 0 .. 7], NEW S, InSpectrum(S),
         NEW bs, BlocksOf(bs, S)
  PROVE  StandsFor(EncodeTonalComponents(bs, alloc, n), bs, alloc, Coded(bs, n))
<1>1. PICK GS : GS = {GroupOf(bs[k], alloc) : k \in Coded(bs, n)}
  OBVIOUS
<1>2. \A k \in Coded(bs, n) : GroupOf(bs[k], alloc) \in 0 .. 63
  <2> SUFFICES ASSUME NEW k \in Coded(bs, n) PROVE GroupOf(bs[k], alloc) \in 0 .. 63
    OBVIOUS
  <2>1. k \in DOMAIN bs /\ bs[k].Bfu < n
    BY DEF Coded
  <2>2. bs \in Seq(Blocks)
    BY DEF BlocksOf
  <2>3. PICK t : t = bs[k]
    OBVIOUS
  <2>4. t \in Blocks /\ t.Bfu < n
    BY <2>1, <2>2, <2>3
  <2>5. Told(t, alloc)
    BY <2>4, GroupTells
  <2> QED
    BY <2>3, <2>5 DEF Told
<1>3. GS \in SUBSET (0 .. 63) /\ GS \in SUBSET Nat
  <2>1. \A g \in GS : g \in 0 .. 63
    BY <1>1, <1>2
  <2>2. \A g \in 0 .. 63 : g \in Nat
    OBVIOUS
  <2> QED
    BY <2>1, <2>2
<1>4. IsFiniteSet(GS)
  <2>1. IsFiniteSet(0 .. 63)
    <3>1. PICK top \in Int : top = 63
      OBVIOUS
    <3>2. IsFiniteSet(0 .. top)
      BY FS_Interval
    <3> QED
      BY <3>1, <3>2
  <2> QED
    BY <1>3, <2>1, FS_Subset
<1>5. PICK order, N : order = Ascending(GS) /\ N = Len(order)
  OBVIOUS
<1>6. PICK c : c = Cardinality(GS)
  OBVIOUS
<1>7. c \in Nat
  BY <1>4, <1>6, FS_CardinalityType
<1>8. /\ N = c /\ DOMAIN order = 1 .. c /\ order \in Seq(GS)
      /\ \A k, m \in 1 .. c : k < m => order[k] < order[m]
      /\ \A x \in GS : \E k \in 1 .. c : order[k] = x
  <2>1. Len(Ascending(GS)) = c /\ DOMAIN Ascending(GS) = 1 .. c /\ Ascending(GS) \in Seq(GS)
    BY <1>3, <1>4, <1>6, AscendingIs
  <2>2. /\ \A k, m \in DOMAIN Ascending(GS) : k < m => Ascending(GS)[k] < Ascending(GS)[m]
        /\ \A x \in GS : \E k \in DOMAIN Ascending(GS) : Ascending(GS)[k] = x
    BY <1>3, <1>4, AscendingIs
  <2>3. N = c /\ DOMAIN order = 1 .. c /\ order \in Seq(GS)
    BY <1>5, <2>1
  <2>4. /\ \A k, m \in DOMAIN order : k < m => order[k] < order[m]
        /\ \A x \in GS : \E k \in DOMAIN order : order[k] = x
    BY <1>5, <2>2
  <2> QED
    BY <2>3, <2>4
<1>9. \A k \in 1 .. c : order[k] \in GS /\ order[k] \in Nat
  <2>1. \A k \in 1 .. Len(order) : order[k] \in GS
    BY <1>8, ElementOfSeq
  <2>2. \A k \in 1 .. c : order[k] \in GS
    BY <1>5, <1>8, <2>1
  <2> QED
    BY <1>3, <2>2
<1> DEFINE write(i) == RowFor(bs, alloc, n, i)
           rows == [r \in 0 .. N - 1 |-> write(order[r + 1])]
           Ks == [r \in 0 .. N - 1 |-> Members(bs, alloc, n, order[r + 1])]
           owns == [r \in 0 .. N - 1 |-> CHOOSE own : Owned(rows[r], bs, alloc, Ks[r], own)]
<1>10. EncodeTonalComponents(bs, alloc, n) = Joined(rows, N)
  <2>1. Coded(bs, n) = {k \in DOMAIN bs : bs[k].Bfu < n}
    BY DEF Coded
  <2> QED
    BY <1>1, <1>5, <2>1 DEF EncodeTonalComponents, RowFor
<1>11. \A r \in 0 .. N - 1 : Owned(rows[r], bs, alloc, Ks[r], owns[r])
  <2> SUFFICES ASSUME NEW r \in 0 .. N - 1 PROVE Owned(rows[r], bs, alloc, Ks[r], owns[r])
    OBVIOUS
  <2>1. PICK g : g = order[r + 1]
    OBVIOUS
  <2>2. rows[r] = write(g) /\ Ks[r] = Members(bs, alloc, n, g)
    BY <2>1
  <2>3. StandsFor(write(g), bs, alloc, Members(bs, alloc, n, g))
    <3>1. StandsFor(RowFor(bs, alloc, n, g), bs, alloc, Members(bs, alloc, n, g))
      BY RowOwned
    <3> QED
      BY <3>1
  <2>4. owns[r] = CHOOSE own : Owned(rows[r], bs, alloc, Ks[r], own)
    OBVIOUS
  <2> HIDE DEF write, rows, Ks, owns
  <2>5. \E own : Owned(rows[r], bs, alloc, Ks[r], own)
    BY <2>2, <2>3 DEF StandsFor
  <2> QED
    BY <2>4, <2>5
<1>12. ASSUME NEW r \in 0 .. N - 1, NEW q \in 0 .. N - 1, r # q PROVE Ks[r] \cap Ks[q] = {}
  <2>1. PICK j, k : j = r + 1 /\ k = q + 1
    OBVIOUS
  <2>2. j \in 1 .. c /\ k \in 1 .. c /\ j # k
    BY <1>7, <1>8, <1>12, <2>1
  <2>3. j < k \/ k < j
    BY <1>7, <2>2
  <2>4. order[j] \in Nat /\ order[k] \in Nat /\ (order[j] < order[k] \/ order[k] < order[j])
    BY <1>8, <1>9, <2>2, <2>3
  <2>5. order[j] # order[k]
    BY <2>4
  <2>6. Ks[r] = Members(bs, alloc, n, order[j]) /\ Ks[q] = Members(bs, alloc, n, order[k])
    BY <2>1
  <2> HIDE DEF Ks
  <2> QED
    BY <2>5, <2>6 DEF Members
<1>13. UNION {Ks[r] : r \in 0 .. N - 1} = Coded(bs, n)
  <2>1. ASSUME NEW r \in 0 .. N - 1 PROVE Ks[r] \in SUBSET Coded(bs, n)
    BY DEF Members
  <2>2. ASSUME NEW k \in Coded(bs, n) PROVE \E r \in 0 .. N - 1 : k \in Ks[r]
    <3>1. PICK g : g = GroupOf(bs[k], alloc)
      OBVIOUS
    <3>2. g \in GS
      BY <1>1, <3>1
    <3>3. PICK m \in 1 .. c : order[m] = g
      BY <1>8, <3>2
    <3>4. PICK r : r = m - 1
      OBVIOUS
    <3>5. r \in 0 .. N - 1 /\ r + 1 = m
      BY <1>7, <1>8, <3>4
    <3>6. Ks[r] = Members(bs, alloc, n, g)
      BY <3>3, <3>5
    <3>7. k \in Members(bs, alloc, n, g)
      BY <3>1 DEF Members
    <3> HIDE DEF Ks
    <3> QED
      BY <3>5, <3>6, <3>7
  <2> HIDE DEF Ks
  <2> QED
    BY <2>1, <2>2
<1>14. N \in Nat
  BY <1>7, <1>8
<1> HIDE DEF write, rows, Ks, owns
<1>15. AllOwned(rows, bs, alloc, Ks, owns, N)
  BY <1>11, <1>12 DEF AllOwned
<1>16. StandsFor(Joined(rows, N), bs, alloc, UNION {Ks[r] : r \in 0 .. N - 1})
  BY <1>14, <1>15, JoinedOwned
<1> QED
  BY <1>10, <1>13, <1>16

(***************************************************************************)
(* The tonal components of a channel                                       *)
(***************************************************************************)
\* Two blocks are of different BFUs and have no line in common.
LEMMA BlocksDiffer ==
  ASSUME NEW S, NEW bs, BlocksOf(bs, S), NEW j \in DOMAIN bs, NEW k \in DOMAIN bs, j # k
  PROVE  /\ bs[j].Bfu # bs[k].Bfu /\ bs[j].Pos # bs[k].Pos
         /\ (bs[j].Pos .. bs[j].Pos + bs[j].len - 1) \cap (bs[k].Pos .. bs[k].Pos + bs[k].len - 1) = {}
<1>1. bs \in Seq(Blocks)
  BY DEF BlocksOf
<1>2. \A a, b \in DOMAIN bs : a < b => bs[a].Pos + bs[a].len <= bs[b].Pos /\ bs[a].Bfu < bs[b].Bfu
  BY DEF BlocksOf
<1>3. \A a \in DOMAIN bs : bs[a] \in Blocks
  BY <1>1
<1>4. ASSUME NEW a \in DOMAIN bs, NEW b \in DOMAIN bs, a < b
      PROVE  /\ bs[a].Bfu # bs[b].Bfu /\ bs[a].Pos # bs[b].Pos
             /\ (bs[a].Pos .. bs[a].Pos + bs[a].len - 1) \cap (bs[b].Pos .. bs[b].Pos + bs[b].len - 1) = {}
  <2>1. PICK t, u : t = bs[a] /\ u = bs[b]
    OBVIOUS
  <2>2. t \in Blocks /\ u \in Blocks
    BY <1>3, <2>1
  <2>3. PICK p, q, l, m, c, d : p = t.Pos /\ q = u.Pos /\ l = t.len /\ m = u.len /\ c = t.Bfu /\ d = u.Bfu
    OBVIOUS
  <2>4. p \in Nat /\ q \in Nat /\ l \in 1 .. 7 /\ m \in 1 .. 7 /\ c \in 8 .. 28 /\ d \in 8 .. 28
    BY <2>2, <2>3 DEF Blocks
  <2>5. p + l <= q /\ c < d
    BY <1>2, <1>4, <2>1, <2>3
  <2>6. p # q
    BY <2>4, <2>5
  <2>7. c # d
    BY <2>4, <2>5
  <2>8. (p .. p + l - 1) \cap (q .. q + m - 1) = {}
    BY <2>4, <2>5
  <2> QED
    BY <2>1, <2>3, <2>6, <2>7, <2>8
<1>5. j < k \/ k < j
  BY <1>1
<1> QED
  BY <1>4, <1>5

\* What a reader finds of fields, when tones were taken out.
Decodes(fields, tones, alloc, n) ==
  LET blocks(k) == DecodeSubGroup(fields[k])
      read      == UNION {blocks(k) : k \in DOMAIN fields}
      lines(t)  == t.Pos .. t.Pos + t.len - 1
      coded     == UNION {lines(t) : t \in read}
  IN /\ Len(fields) < 32
     /\ \A k \in DOMAIN fields : Cardinality(blocks(k)) = Len(fields[k].relPos)
     /\ \A j, k \in DOMAIN fields : j # k => blocks(j) \cap blocks(k) = {}
     /\ \A t, u \in read : t # u => lines(t) \cap lines(u) = {}
     /\ TakenLines(tones, n) \subseteq coded /\ coded \subseteq TakenLines(tones, 32)
     /\ \A t \in read : t.quant = TonalQuant(alloc[BfuOf(t.Pos)])

\* Each subgroup begins with a BFU of its own, of which there are 21.
LEMMA FewFields ==
  ASSUME NEW S, NEW bs, BlocksOf(bs, S), NEW fields, NEW alloc, NEW n, NEW own,
         Owned(fields, bs, alloc, Coded(bs, n), own)
  PROVE  Len(fields) < 32
<1>1. PICK L : L = Len(fields)
  OBVIOUS
<1>2. /\ L \in Nat
      /\ \A f \in 1 .. L : own[f] \in SUBSET Coded(bs, n) /\ own[f] # {}
      /\ \A f, g \in 1 .. L : f # g => own[f] \cap own[g] = {}
  BY <1>1 DEF Owned
<1> DEFINE k == [f \in 1 .. L |-> CHOOSE k \in own[f] : TRUE]
           h == [f \in 1 .. L |-> bs[k[f]].Bfu]
<1>3. \A f \in 1 .. L : k[f] \in own[f] /\ k[f] \in DOMAIN bs
  <2> SUFFICES ASSUME NEW f \in 1 .. L PROVE k[f] \in own[f] /\ k[f] \in DOMAIN bs
    OBVIOUS
  <2>1. \E x : x \in own[f]
    BY <1>2
  <2>2. k[f] = CHOOSE x \in own[f] : TRUE
    OBVIOUS
  <2> HIDE DEF k
  <2>3. k[f] \in own[f]
    BY <2>1, <2>2
  <2>4. k[f] \in Coded(bs, n)
    BY <1>2, <2>3
  <2> QED
    BY <2>3, <2>4 DEF Coded
<1> HIDE DEF k
<1>4. \A f \in 1 .. L : h[f] \in 8 .. 28
  <2> SUFFICES ASSUME NEW f \in 1 .. L PROVE h[f] \in 8 .. 28
    OBVIOUS
  <2>1. bs \in Seq(Blocks)
    BY DEF BlocksOf
  <2>2. bs[k[f]] \in Blocks
    BY <1>3, <2>1
  <2> QED
    BY <2>2 DEF Blocks
<1>5. \A f, g \in 1 .. L : h[f] = h[g] => f = g
  <2> SUFFICES ASSUME NEW f \in 1 .. L, NEW g \in 1 .. L, f # g PROVE h[f] # h[g]
    OBVIOUS
  <2>1. k[f] # k[g]
    BY <1>2, <1>3
  <2>2. PICK x, y : x = k[f] /\ y = k[g]
    OBVIOUS
  <2>3. bs[x].Bfu # bs[y].Bfu
    BY <1>3, <2>1, <2>2, BlocksDiffer
  <2> QED
    BY <2>2, <2>3
<1>6. h = [f \in 1 .. L |-> h[f]]
  OBVIOUS
<1> HIDE DEF h
<1>7. h \in [1 .. L -> 8 .. 28]
  BY <1>4, <1>6
<1>8. h \in Injection(1 .. L, 8 .. 28)
  BY <1>5, <1>7 DEF Injection, IsInjective
<1>9. IsFiniteSet(8 .. 28) /\ Cardinality(8 .. 28) = 21
  <2>1. PICK a \in Int, e \in Int : a = 8 /\ e = 28
    OBVIOUS
  <2>2. IsFiniteSet(a .. e) /\ Cardinality(a .. e) = IF a > e THEN 0 ELSE e - a + 1
    BY FS_Interval
  <2>3. ~(a > e) /\ e - a + 1 = 21
    BY <2>1
  <2> QED
    BY <2>1, <2>2, <2>3
<1>10. Cardinality(1 .. L) = L
  BY <1>2, FS_Interval
<1>11. Cardinality(1 .. L) <= Cardinality(8 .. 28)
  BY <1>8, <1>9, FS_Injection
<1> QED
  BY <1>1, <1>2, <1>9, <1>10, <1>11

\* Whatever lines are selected and whatever the word lengths, they are read back.
LEMMA TonesDecoded ==
  ASSUME NEW n \in 1 .. 32, NEW alloc \in [0 .. n - 1 -> 0 .. 7], NEW tones, IsSelection(tones)
  PROVE  Decodes(EncodeTonalComponents(MapTonalComponents(ExtractTonalComponents(tones)), alloc, n),
                 tones, alloc, n)
<1>1. PICK S, bs : S = TakenLines(tones, 32) /\ bs = MapTonalComponents(ExtractTonalComponents(tones))
  OBVIOUS
<1>2. BlocksOf(bs, S)
  BY <1>1, TonalBlocksAre
<1>3. LineFacts(tones, S)
  BY <1>1, LinesAre
<1>4. InSpectrum(S)
  BY <1>3 DEF LineFacts, InSpectrum
<1>5. PICK fields : fields = EncodeTonalComponents(bs, alloc, n)
  OBVIOUS
<1>6. PICK own : Owned(fields, bs, alloc, Coded(bs, n), own)
  <2>1. StandsFor(fields, bs, alloc, Coded(bs, n))
    BY <1>2, <1>4, <1>5, FieldsOwned
  <2> QED
    BY <2>1 DEF StandsFor
<1>7. PICK L : L = Len(fields)
  OBVIOUS
<1>8. /\ L \in Nat /\ DOMAIN fields = 1 .. L
      /\ \A f \in 1 .. L :
           /\ own[f] \in SUBSET Coded(bs, n)
           /\ DecodeSubGroup(fields[f]) = {ReadBlock(bs[k], alloc) : k \in own[f]}
           /\ Cardinality(DecodeSubGroup(fields[f])) = Len(fields[f].relPos)
      /\ \A f, g \in 1 .. L : f # g => own[f] \cap own[g] = {}
      /\ \A k \in Coded(bs, n) : \E f \in 1 .. L : k \in own[f]
  BY <1>6, <1>7 DEF Owned
<1> DEFINE blocks(k) == DecodeSubGroup(fields[k])
           read      == UNION {blocks(k) : k \in DOMAIN fields}
           lines(t)  == t.Pos .. t.Pos + t.len - 1
           coded     == UNION {lines(t) : t \in read}
<1>9. ASSUME NEW k PROVE /\ ReadBlock(bs[k], alloc).Pos = bs[k].Pos
                         /\ ReadBlock(bs[k], alloc).quant = TonalQuant(alloc[bs[k].Bfu])
                         /\ lines(ReadBlock(bs[k], alloc)) = bs[k].Pos .. bs[k].Pos + bs[k].len - 1
  BY DEF ReadBlock
<1>10. \A t : t \in read <=> \E k \in Coded(bs, n) : t = ReadBlock(bs[k], alloc)
  <2>1. ASSUME NEW t \in read PROVE \E k \in Coded(bs, n) : t = ReadBlock(bs[k], alloc)
    <3>1. PICK f \in 1 .. L : t \in DecodeSubGroup(fields[f])
      BY <1>8
    <3>2. PICK k \in own[f] : t = ReadBlock(bs[k], alloc)
      BY <1>8, <3>1
    <3>3. k \in Coded(bs, n)
      BY <1>8, <3>2
    <3> QED
      BY <3>2, <3>3
  <2>2. ASSUME NEW k \in Coded(bs, n) PROVE ReadBlock(bs[k], alloc) \in read
    <3>1. PICK f \in 1 .. L : k \in own[f]
      BY <1>8
    <3>2. ReadBlock(bs[k], alloc) \in DecodeSubGroup(fields[f])
      BY <1>8, <3>1
    <3> QED
      BY <1>8, <3>2
  <2> QED
    BY <2>1, <2>2
<1>11. \A k \in Coded(bs, n) : k \in DOMAIN bs /\ bs[k].Bfu < n
  BY DEF Coded
<1>12. Len(fields) < 32
  BY <1>2, <1>6, FewFields
<1>13. \A k \in DOMAIN fields : Cardinality(blocks(k)) = Len(fields[k].relPos)
  BY <1>8
<1>14. \A f, g \in DOMAIN fields : f # g => blocks(f) \cap blocks(g) = {}
  <2> SUFFICES ASSUME NEW f \in 1 .. L, NEW g \in 1 .. L, f # g,
                      NEW t \in DecodeSubGroup(fields[f]), t \in DecodeSubGroup(fields[g])
               PROVE  FALSE
    BY <1>8
  <2>1. PICK j \in own[f] : t = ReadBlock(bs[j], alloc)
    BY <1>8
  <2>2. PICK k \in own[g] : t = ReadBlock(bs[k], alloc)
    BY <1>8
  <2>3. j # k
    BY <1>8
  <2>4. j \in DOMAIN bs /\ k \in DOMAIN bs
    BY <1>8, <1>11
  <2>5. bs[j].Pos # bs[k].Pos
    BY <1>2, <2>3, <2>4, BlocksDiffer
  <2> QED
    BY <1>9, <2>1, <2>2, <2>5
<1> HIDE DEF blocks, read
<1>15. \A t, u \in read : t # u => lines(t) \cap lines(u) = {}
  <2> SUFFICES ASSUME NEW t \in read, NEW u \in read, t # u PROVE lines(t) \cap lines(u) = {}
    OBVIOUS
  <2> HIDE DEF lines
  <2>1. PICK j \in Coded(bs, n) : t = ReadBlock(bs[j], alloc)
    BY <1>10
  <2>2. PICK k \in Coded(bs, n) : u = ReadBlock(bs[k], alloc)
    BY <1>10
  <2>3. j # k /\ j \in DOMAIN bs /\ k \in DOMAIN bs
    BY <1>11, <2>1, <2>2
  <2>4. (bs[j].Pos .. bs[j].Pos + bs[j].len - 1) \cap (bs[k].Pos .. bs[k].Pos + bs[k].len - 1) = {}
    BY <1>2, <2>3, BlocksDiffer
  <2> QED
    BY <1>9, <2>1, <2>2, <2>4
<1>16. \A p : p \in coded <=> \E k \in Coded(bs, n) : p \in bs[k].Pos .. bs[k].Pos + bs[k].len - 1
  <2>1. \A p : p \in coded <=> \E t \in read : p \in lines(t)
    OBVIOUS
  <2> HIDE DEF lines, coded
  <2>2. ASSUME NEW p, p \in coded
        PROVE  \E k \in Coded(bs, n) : p \in bs[k].Pos .. bs[k].Pos + bs[k].len - 1
    <3>1. PICK t \in read : p \in lines(t)
      BY <2>1, <2>2
    <3>2. PICK k \in Coded(bs, n) : t = ReadBlock(bs[k], alloc)
      BY <1>10
    <3> QED
      BY <1>9, <3>1, <3>2
  <2>3. ASSUME NEW p, NEW k \in Coded(bs, n), p \in bs[k].Pos .. bs[k].Pos + bs[k].len - 1
        PROVE  p \in coded
    <3>1. ReadBlock(bs[k], alloc) \in read /\ p \in lines(ReadBlock(bs[k], alloc))
      BY <1>9, <1>10, <2>3
    <3> QED
      BY <2>1, <3>1
  <2> QED
    BY <2>2, <2>3
<1>17. TakenLines(tones, n) \subseteq coded
  <2> HIDE DEF coded
  <2> SUFFICES ASSUME NEW p \in TakenLines(tones, n) PROVE p \in coded
    OBVIOUS
  <2>1. p \in S /\ BfuOf(p) < n
    <3>1. n \in 0 .. 32
      OBVIOUS
    <3>2. \A m \in 0 .. 32 : TakenLines(tones, m) = {x \in S : BfuOf(x) < m}
      BY <1>3 DEF LineFacts
    <3>3. TakenLines(tones, n) = {x \in S : BfuOf(x) < n}
      BY <3>1, <3>2
    <3> QED
      BY <3>3
  <2>2. PICK k \in DOMAIN bs : p \in bs[k].Pos .. bs[k].Pos + bs[k].len - 1
    BY <1>2, <2>1 DEF BlocksOf
  <2>3. bs \in Seq(Blocks) /\ bs[k].Pos \in S /\ bs[k].Bfu = BfuOf(bs[k].Pos)
    BY <1>2 DEF BlocksOf
  <2>4. PICK q, l, b, c : q = bs[k].Pos /\ l = bs[k].len /\ b = BfuOf(q) /\ c = BfuOf(p)
    OBVIOUS
  <2>5. q \in Nat /\ l \in 1 .. 7
    <3>1. bs[k] \in Blocks
      BY <2>3
    <3> QED
      BY <2>4, <3>1 DEF Blocks
  <2>6. p \in q .. q + l - 1
    BY <2>2, <2>4
  <2>7. p \in Int /\ q <= p
    BY <2>5, <2>6
  <2>8. b \in 8 .. 28 /\ InBfu(q, b) /\ c \in 8 .. 28 /\ InBfu(p, c)
    <3>1. \A x \in S : BfuOf(x) \in 8 .. 28 /\ InBfu(x, BfuOf(x))
      BY <1>3 DEF LineFacts
    <3>2. q \in S /\ p \in S
      BY <2>1, <2>3, <2>4
    <3> QED
      BY <2>4, <3>1, <3>2
  <2>9. b \in 0 .. 31 /\ c \in 0 .. 31
    BY <2>8
  <2>10. b <= c
    <3>1. q \in Int /\ p \in Int /\ InBfu(q, b) /\ InBfu(p, c) /\ q <= p
      BY <2>5, <2>7, <2>8
    <3> QED
      BY <2>9, <3>1, BfuRises
  <2>11. b < n
    BY <2>1, <2>4, <2>9, <2>10
  <2>12. k \in Coded(bs, n)
    BY <2>3, <2>4, <2>11 DEF Coded
  <2> QED
    BY <1>16, <2>2, <2>12
<1>18. coded \subseteq TakenLines(tones, 32)
  <2> HIDE DEF coded
  <2> SUFFICES ASSUME NEW p \in coded PROVE p \in S
    BY <1>1
  <2>1. PICK k \in Coded(bs, n) : p \in bs[k].Pos .. bs[k].Pos + bs[k].len - 1
    BY <1>16
  <2>2. k \in DOMAIN bs
    BY <1>11
  <2>3. bs[k].Pos .. bs[k].Pos + bs[k].len - 1 \subseteq S
    BY <1>2, <2>2 DEF BlocksOf
  <2> QED
    BY <2>1, <2>3
<1>19. \A t \in read : t.quant = TonalQuant(alloc[BfuOf(t.Pos)])
  <2> SUFFICES ASSUME NEW t \in read PROVE t.quant = TonalQuant(alloc[BfuOf(t.Pos)])
    OBVIOUS
  <2>1. PICK k \in Coded(bs, n) : t = ReadBlock(bs[k], alloc)
    BY <1>10
  <2>2. bs[k].Bfu = BfuOf(bs[k].Pos)
    BY <1>2, <1>11 DEF BlocksOf
  <2> QED
    BY <1>9, <2>1, <2>2
<1> USE DEF blocks, read
<1> QED
  <2>1. Decodes(fields, tones, alloc, n)
    BY <1>12, <1>13, <1>14, <1>15, <1>17, <1>18, <1>19 DEF Decodes
  <2> QED
    BY <1>1, <1>5, <2>1

(***************************************************************************)
(* The word lengths of a channel                                           *)
(***************************************************************************)
\* The spread is a number: the squares of the scale factors have room for their sum.
LEMMA SquaresHaveRoom ==
  ASSUME NEW f \in [0 .. 31 -> Nat]
  PROVE  LET s  == SumTo(f, 32)
             ss == SumTo([i \in 0 .. 31 |-> f[i] * f[i]], 32)
         IN s \in Nat /\ ss \in Nat /\ 0 <= 32 * ss - s * s
<1> DEFINE sq == [i \in 0 .. 31 |-> f[i] * f[i]]
<1>1. PICK top : top = 32
  OBVIOUS
<1>2. PICK s, ss : s = SumTo(f, top) /\ ss = SumTo(sq, top)
  OBVIOUS
<1>3. \A i \in 0 .. 31 : f[i] \in Nat /\ sq[i] \in Nat /\ sq[i] = f[i] * f[i]
  OBVIOUS
<1>4. \A i \in 0 .. top - 1 : i \in 0 .. 31
  BY <1>1
<1> HIDE DEF sq
<1>5. \A n \in 0 .. top : SumTo(f, n) \in Nat /\ SumTo(sq, n) \in Nat
  <2> SUFFICES ASSUME NEW n \in 0 .. top PROVE SumTo(f, n) \in Nat /\ SumTo(sq, n) \in Nat
    OBVIOUS
  <2>1. n \in Nat /\ \A k \in 0 .. n - 1 : k \in 0 .. 31
    BY <1>1
  <2>2. \A k \in 0 .. n - 1 : f[k] \in Nat /\ sq[k] \in Nat
    BY <1>3, <2>1
  <2> QED
    BY <2>1, <2>2, SumNat
<1>6. s \in Nat /\ ss \in Nat
  BY <1>1, <1>2, <1>5
<1> DEFINE d == [i \in 0 .. 31 |-> (32 * f[i] - s) * (32 * f[i] - s)]
<1>7. ASSUME NEW i \in 0 .. 31
      PROVE  d[i] \in Nat /\ d[i] = 1024 * sq[i] - 64 * (s * f[i]) + s * s
  <2>1. PICK a : a = f[i]
    OBVIOUS
  <2>2. a \in Nat /\ sq[i] = a * a
    BY <1>3, <2>1
  <2>3. d[i] = (32 * a - s) * (32 * a - s)
    BY <2>1
  <2>4. PICK z : z = 32 * a - s
    OBVIOUS
  <2>5. z \in Int
    BY <1>6, <2>2, <2>4
  <2>6. z * z \in Nat
    BY <2>5
  <2>7. (32 * a - s) * (32 * a - s) = 1024 * (a * a) - 64 * (s * a) + s * s
    BY <1>6, <2>2
  <2> QED
    BY <2>1, <2>2, <2>3, <2>4, <2>6, <2>7
<1> HIDE DEF d
<1> DEFINE T == {n \in Nat : n <= top =>
                   SumTo(d, n) = 1024 * SumTo(sq, n) - 64 * (s * SumTo(f, n)) + n * (s * s)}
<1>8. 0 \in T
  <2>1. SumTo(d, 0) = 0 /\ SumTo(sq, 0) = 0 /\ SumTo(f, 0) = 0
    BY SumToDef
  <2>2. s * 0 = 0 /\ 0 * (s * s) = 0
    BY <1>6
  <2> QED
    BY <2>1, <2>2
<1>9. ASSUME NEW n \in T PROVE n + 1 \in T
  <2>1. n \in Nat /\ n + 1 \in Nat
    OBVIOUS
  <2>2. SUFFICES ASSUME n + 1 <= top
                 PROVE  SumTo(d, n + 1) = 1024 * SumTo(sq, n + 1) - 64 * (s * SumTo(f, n + 1))
                                            + (n + 1) * (s * s)
    BY <2>1
  <2>3. n <= top /\ n \in 0 .. 31 /\ n \in 0 .. top
    BY <1>1, <2>1, <2>2
  <2>4. SumTo(d, n) = 1024 * SumTo(sq, n) - 64 * (s * SumTo(f, n)) + n * (s * s)
    BY <2>3
  <2>5. SumTo(d, n + 1) = SumTo(d, n) + d[n] /\ SumTo(sq, n + 1) = SumTo(sq, n) + sq[n]
        /\ SumTo(f, n + 1) = SumTo(f, n) + f[n]
    BY <2>1, SumToDef
  <2>6. PICK A, B, C, a, b, c : A = SumTo(d, n) /\ B = SumTo(sq, n) /\ C = SumTo(f, n)
                               /\ a = d[n] /\ b = sq[n] /\ c = f[n]
    OBVIOUS
  <2>7. B \in Nat /\ C \in Nat /\ b \in Nat /\ c \in Nat
    BY <1>3, <1>5, <2>3, <2>6
  <2>8. A = 1024 * B - 64 * (s * C) + n * (s * s) /\ a = 1024 * b - 64 * (s * c) + s * s
    BY <1>7, <2>3, <2>4, <2>6
  <2>9. PICK u, v, w, nw : u = s * C /\ v = s * c /\ w = s * s /\ nw = n * w
    OBVIOUS
  <2>10. u \in Int /\ v \in Int /\ w \in Int /\ nw \in Int
    BY <1>6, <2>1, <2>7, <2>9
  <2>11. s * (C + c) = u + v /\ (n + 1) * w = nw + w
    BY <1>6, <2>1, <2>7, <2>9, <2>10
  <2>12. A + a = 1024 * (B + b) - 64 * (u + v) + (nw + w)
    BY <2>7, <2>8, <2>9, <2>10
  <2> QED
    BY <2>5, <2>6, <2>9, <2>11, <2>12
<1> HIDE DEF T
<1>10. T \in SUBSET Nat
  BY DEF T
<1>11. T = Nat
  BY <1>8, <1>9, <1>10, SetInduction
<1>12. SumTo(d, top) = 1024 * ss - 64 * (s * s) + 32 * (s * s)
  <2>1. top \in T /\ top <= top
    BY <1>1, <1>11
  <2>2. SumTo(d, top) = 1024 * SumTo(sq, top) - 64 * (s * SumTo(f, top)) + top * (s * s)
    BY <2>1 DEF T
  <2> QED
    BY <1>1, <1>2, <2>2
<1>13. SumTo(d, top) \in Nat
  <2>1. top \in Nat /\ \A k \in 0 .. top - 1 : d[k] \in Nat
    BY <1>1, <1>4, <1>7
  <2> QED
    BY <2>1, SumNat
<1>14. 0 <= 32 * ss - s * s
  <2>1. PICK w, D : w = s * s /\ D = SumTo(d, top)
    OBVIOUS
  <2>2. w \in Int /\ D \in Nat /\ D = 1024 * ss - 64 * w + 32 * w
    BY <1>6, <1>12, <1>13, <2>1
  <2>3. 0 <= 32 * ss - w
    BY <1>6, <2>2
  <2> QED
    BY <2>1, <2>3
<1> QED
  BY <1>1, <1>2, <1>6, <1>14 DEF sq

\* A bounded property that some number has, a greatest number has.
LEMMA Greatest ==
  ASSUME NEW n \in Nat, NEW K \in SUBSET (0 .. n), K # {}
  PROVE  \E k \in K : \A j \in K : j <= k
<1> DEFINE S == {n - k : k \in K}
<1>1. \A k \in K : k \in Int /\ n - k \in Nat
  OBVIOUS
<1>2. S \in SUBSET Nat /\ S # {}
  BY <1>1
<1> HIDE DEF S
<1>3. PICK x \in S : \A y \in S : x <= y
  BY <1>2, LeastNat
<1>4. PICK k \in K : x = n - k
  BY DEF S
<1>5. ASSUME NEW j \in K PROVE j <= k
  <2>1. n - j \in S
    BY DEF S
  <2>2. n - k <= n - j
    BY <1>3, <1>4, <2>1
  <2> QED
    BY <1>1, <2>2
<1> QED
  BY <1>5

\* AnalizeScaleFactorSpread has a greatest deviation to choose.
LEMMA SpreadIs ==
  ASSUME NEW x \in Names
  PROVE  AnalizeScaleFactorSpread(Channels[x]) \in 0 .. 14
<1>1. PICK f : f = Channels[x].ScaleFactorIndex
  OBVIOUS
<1>2. f \in [BFUs -> 0 .. 63]
  BY <1>1, ChannelAssumption
<1>3. f \in [0 .. 31 -> Nat]
  <2>1. \A i \in 0 .. 31 : f[i] \in Nat
    BY <1>2 DEF BFUs
  <2>2. f = [i \in 0 .. 31 |-> f[i]]
    BY <1>2 DEF BFUs
  <2> QED
    BY <2>1, <2>2
<1>4. PICK s, ss : s = SumTo(f, 32) /\ ss = SumTo([i \in 0 .. 31 |-> f[i] * f[i]], 32)
  OBVIOUS
<1>5. s \in Nat /\ ss \in Nat /\ 0 <= 32 * ss - s * s
  BY <1>3, <1>4, SquaresHaveRoom
<1> DEFINE fits(k) == (32 * k) * (32 * k) <= 32 * ss - s * s
           K == {k \in 0 .. 14 : fits(k)}
<1>6. AnalizeScaleFactorSpread(Channels[x])
        = CHOOSE k \in 0 .. 14 : fits(k) /\ \A j \in 0 .. 14 : fits(j) => j <= k
  BY <1>1, <1>4 DEF AnalizeScaleFactorSpread, BFUs
<1>7. 0 \in K
  BY <1>5
<1>8. \E k \in K : \A j \in K : j <= k
  <2>1. K \in SUBSET (0 .. 14) /\ K # {}
    BY <1>7
  <2> HIDE DEF K
  <2> QED
    BY <2>1, Greatest
<1>9. \E k \in 0 .. 14 : fits(k) /\ \A j \in 0 .. 14 : fits(j) => j <= k
  <2> HIDE DEF fits
  <2> QED
    BY <1>8
<1> HIDE DEF fits
<1> QED
  BY <1>6, <1>9

\* A word length is a word, and stays one when energy is considered.
LEMMA LevelInt ==
  ASSUME NEW x \in Names, NEW i \in BFUs, NEW spread \in 0 .. 14
  PROVE  Level(Channels[x], spread, i) \in Int
<1>1. PICK e : e = Channels[x]
  OBVIOUS
<1>2. i \in 0 .. 31 /\ i \in 0 .. 32 /\ i + 1 \in 0 .. 32
  BY DEF BFUs
<1>3. e.ScaleFactorIndex[i] \in Int
  <2>1. e.ScaleFactorIndex \in [BFUs -> 0 .. 63]
    BY <1>1, ChannelAssumption
  <2> QED
    BY <2>1
<1>4. e.offset[Band(i)] \in Int
  <2>1. PICK b : b = BlockSizeTab[i]
    OBVIOUS
  <2>2. PICK top \in Nat : top = 1024
    OBVIOUS
  <2>3. BlockSizeTab[i] \in 0 .. top /\ BlockSizeTab[i + 1] \in 0 .. top
    <3>1. BlockSizeTab \in [0 .. 32 -> 0 .. top]
      BY <2>2, TableAssumption, ZenonT(60)
    <3> QED
      BY <1>2, <3>1
  <2>4. BlockSizeTab[i] < BlockSizeTab[i + 1]
    BY TableAssumption, ZenonT(60)
  <2>5. b \in Nat /\ b < top
    BY <2>1, <2>3, <2>4
  <2>6. b \div 256 \in 0 .. 3
    BY <2>2, <2>5
  <2>7. e.offset \in [0 .. 3 -> Int]
    BY <1>1, ChannelAssumption
  <2> QED
    BY <2>1, <2>6, <2>7 DEF Band
<1>5. PICK sum : sum = e.ScaleFactorIndex[i] + e.offset[Band(i)]
  OBVIOUS
<1>6. PICK corrected : corrected = Max2(0, Min2(63, sum))
  OBVIOUS
<1>7. corrected \in Int
  <2>1. sum \in Int
    BY <1>3, <1>4, <1>5
  <2> QED
    BY <1>6, <2>1 DEF Max2, Min2
<1>8. PICK d, w : d = ScaleFactorDivisor[i] /\ w = FixedBitAllocTable[i]
  OBVIOUS
<1>9. d \in Nat \ {0} /\ w \in Int /\ Unit \in Int
  <2>1. ScaleFactorDivisor \in [BFUs -> Nat \ {0}]
    BY TableAssumption, ZenonT(60)
  <2>2. FixedBitAllocTable \in [BFUs -> Words]
    BY TableAssumption
  <2>3. w \in Words
    BY <1>8, <2>2
  <2>4. w \in Int
    BY <2>3 DEF Words
  <2> QED
    BY <1>8, <2>1, <2>4, BoundAssumption
<1>10. PICK u, v : u = spread * 10 * Unit * corrected /\ v = (14 - spread) * Unit * w
  OBVIOUS
<1>11. u \in Int /\ v \in Int
  BY <1>7, <1>9, <1>10
<1>12. PICK q : q = u \div d
  OBVIOUS
<1>13. q \in Int
  BY <1>9, <1>11, <1>12
<1>14. (q + v) \div 14 \in Int
  BY <1>11, <1>13
<1>15. Level(e, spread, i) = (q + v) \div 14
  BY <1>5, <1>6, <1>8, <1>10, <1>12 DEF Level
<1> QED
  BY <1>1, <1>14, <1>15

\* A word length has three bits.
LEMMA WordLengthIs ==
  ASSUME NEW level \in Int, NEW shift \in Int PROVE WordLength(level, shift) \in 0 .. 7
<1>1. PICK q : q = (level - shift) \div Unit
  OBVIOUS
<1>2. Unit \in Nat \ {0}
  BY BoundAssumption
<1>3. q \in Int
  BY <1>1, <1>2
<1>4. Max2(1, Min2(7, q)) \in 1 .. 7
  BY <1>3 DEF Max2, Min2
<1> QED
  BY <1>1, <1>4 DEF WordLength

\* CalcBitsAllocation yields word lengths.
LEMMA FirstWordIs ==
  ASSUME NEW x \in Names, NEW l \in Lambdas, NEW i \in BFUs
  PROVE  CalcBitsAllocation(x, l)[i] \in 0 .. 7
<1>1. PICK w, c : w = WordLength(Level(Channels[x], Spread[x], i), l)
                  /\ c = Cardinality({k \in DOMAIN TonalBlocks[x] : TonalBlocks[x][k].Bfu = i})
  OBVIOUS
<1>2. w \in 0 .. 7
  <2>1. Spread[x] \in 0 .. 14
    BY SpreadIs DEF Spread
  <2>2. Level(Channels[x], Spread[x], i) \in Int
    BY <2>1, LevelInt
  <2>3. l \in Int
    BY BoundAssumption DEF Lambdas
  <2> QED
    BY <1>1, <2>2, <2>3, WordLengthIs
<1>3. c \in Nat
  <2>1. PICK tones : tones = Channels[x].tones
    OBVIOUS
  <2>2. IsSelection(tones)
    BY <2>1, ChannelAssumption
  <2>3. IsFiniteSet(DOMAIN TonalBlocks[x])
    <3>1. CASE tones = << >>
      <4>1. TonalBlocks[x] = << >>
        BY <2>1, <3>1 DEF TonalBlocks
      <4>2. DOMAIN TonalBlocks[x] = {}
        BY <4>1
      <4> QED
        BY <4>2, FS_EmptySet
    <3>2. CASE tones # << >>
      <4>1. PICK bs : bs = TonalBlocks[x]
        OBVIOUS
      <4>2. bs = MapTonalComponents(ExtractTonalComponents(tones))
        BY <2>1, <3>2, <4>1 DEF TonalBlocks
      <4>3. BlocksOf(bs, TakenLines(tones, 32))
        BY <2>2, <4>2, TonalBlocksAre
      <4>4. bs \in Seq(Blocks)
        BY <4>3 DEF BlocksOf
      <4>5. DOMAIN bs = 1 .. Len(bs) /\ Len(bs) \in Nat
        BY <4>4
      <4>6. IsFiniteSet(1 .. Len(bs))
        BY <4>5, FS_Interval
      <4> QED
        BY <4>1, <4>5, <4>6
    <3> QED
      BY <3>1, <3>2
  <2>4. {k \in DOMAIN TonalBlocks[x] : TonalBlocks[x][k].Bfu = i} \subseteq DOMAIN TonalBlocks[x]
    OBVIOUS
  <2>5. IsFiniteSet({k \in DOMAIN TonalBlocks[x] : TonalBlocks[x][k].Bfu = i})
    BY <2>3, <2>4, FS_Subset
  <2> QED
    BY <1>1, <2>5, FS_CardinalityType
<1>4. Max2(2, w - c) \in 2 .. 7
  BY <1>2, <1>3 DEF Max2
<1>5. CalcBitsAllocation(x, l)[i]
        = IF i \in Channels[x].quiet THEN 0 ELSE IF w > 2 THEN Max2(2, w - c) ELSE w
  BY <1>1 DEF CalcBitsAllocation
<1> QED
  BY <1>2, <1>4, <1>5

\* The words that are written are words.
LEMMA WordsAre ==
  ASSUME NEW x \in Names, NEW l \in Lambdas, NEW i \in BFUs
  PROVE  LastAlloc[x][l][i] \in 0 .. 7
<1>1. PICK from : from = FirstAlloc[x][l][i]
  OBVIOUS
<1>2. from \in 0 .. 7
  BY <1>1, FirstWordIs DEF FirstAlloc
<1> DEFINE settled(j, w) == w \in {0, 7} \/ <<j, w>> \notin Channels[x].poor
           W == {w \in from .. 7 : settled(i, w)}
           raised == CHOOSE w \in from .. 7 : settled(i, w) /\ \A v \in from .. w - 1 : ~settled(i, v)
<1>3. \E w \in from .. 7 : settled(i, w) /\ \A v \in from .. w - 1 : ~settled(i, v)
  <2>1. 7 \in W /\ W \in SUBSET Nat
    BY <1>2
  <2>2. PICK w \in W : \A v \in W : w <= v
    <3> HIDE DEF W
    <3> QED
      BY <2>1, LeastNat
  <2>3. w \in from .. 7 /\ settled(i, w)
    OBVIOUS
  <2>4. ASSUME NEW v \in from .. w - 1 PROVE ~settled(i, v)
    <3>1. v \in from .. 7 /\ ~(w <= v)
      BY <1>2, <2>3
    <3>2. v \notin W
      BY <2>2, <3>1
    <3> HIDE DEF settled
    <3> QED
      BY <3>1, <3>2
  <2> HIDE DEF settled
  <2> QED
    BY <2>3, <2>4
<1>4. raised \in from .. 7
  <2> HIDE DEF settled
  <2> QED
    BY <1>3
<1>5. raised \in 0 .. 7
  <2> HIDE DEF raised
  <2> QED
    BY <1>2, <1>4
<1>6. LastAlloc[x][l][i] = IF i < 10 THEN raised ELSE from
  BY <1>1 DEF LastAlloc, ConsiderEnergyErr
<1> HIDE DEF raised
<1> QED
  BY <1>2, <1>5, <1>6

(***************************************************************************)
(* The tonal components of a unit                                          *)
(***************************************************************************)
\* Where no line is taken out no fields are needed.
LEMMA NothingTaken ==
  ASSUME NEW tones, NEW n, NEW alloc, TakenLines(tones, n) = {}
  PROVE  Decodes(<< >>, tones, alloc, n)
<1>1. DOMAIN << >> = {} /\ Len(<< >>) = 0
  OBVIOUS
<1>2. UNION {DecodeSubGroup(<< >>[k]) : k \in DOMAIN << >>} = {}
  BY <1>1
<1> QED
  BY <1>1, <1>2 DEF Decodes

\* As many blocks are written as BFUs are left.
LEMMA CountTo == ASSUME NEW n \in 1 .. 32 PROVE Cardinality(0 .. n - 1) = n
<1>1. PICK zero \in Int : zero = 0
  OBVIOUS
<1>2. Cardinality(zero .. n - 1) = IF zero > n - 1 THEN 0 ELSE (n - 1) - zero + 1
  BY FS_Interval
<1>3. ~(zero > n - 1) /\ (n - 1) - zero + 1 = n
  BY <1>1
<1> QED
  BY <1>1, <1>2, <1>3

LEMMA NumBlocksIs ==
  ASSUME NEW n \in 1 .. 32, NEW a, PrecisionPerBlock = FirstWords(a, n)
  PROVE  NumBlocks = n
<1>1. DOMAIN PrecisionPerBlock = 0 .. n - 1
  BY DEF FirstWords
<1> QED
  BY <1>1, CountTo DEF NumBlocks

\* The word lengths that are kept are those of an allocation, so that the lines are read.
LEMMA DecodedFromInv ==
  ASSUME UnitInv, EngineInv, ContextInv PROVE TonalsDecode
<1> SUFFICES ASSUME running, CurEncPos = 2, sce # Empty
             PROVE  Decodes(TonalFields(sce, PrecisionPerBlock, NumBlocks), Channels[sce].tones,
                            PrecisionPerBlock, NumBlocks)
  BY DEF TonalsDecode, Decodes, Ready
<1>1. sce \in Names
  BY DEF UnitInv, sce
<1>2. used \in Lambdas
  BY EngineFacts
<1>3. PICK n, tones, alloc : n = NumBfu /\ tones = Channels[sce].tones /\ alloc = PrecisionPerBlock
  OBVIOUS
<1>4. n \in 1 .. 32 /\ alloc = FirstWords(LastAlloc[sce][used], n)
  BY <1>3 DEF ContextInv
<1>5. alloc \in [0 .. n - 1 -> 0 .. 7]
  <2>1. ASSUME NEW i \in 0 .. n - 1 PROVE LastAlloc[sce][used][i] \in 0 .. 7
    <3>1. i \in BFUs
      BY <1>4 DEF BFUs
    <3> QED
      BY <1>1, <1>2, <3>1, WordsAre
  <2>2. alloc = [i \in 0 .. n - 1 |-> LastAlloc[sce][used][i]]
    BY <1>4 DEF FirstWords
  <2> QED
    BY <2>1, <2>2
<1>6. NumBlocks = n
  BY <1>3, <1>4, NumBlocksIs
<1>7. IsSelection(tones)
  BY <1>1, <1>3, ChannelAssumption
<1>8. PICK bs : bs = TonalBlocks[sce]
  OBVIOUS
<1>9. bs = IF tones = << >> THEN << >> ELSE MapTonalComponents(ExtractTonalComponents(tones))
  BY <1>1, <1>3, <1>8 DEF TonalBlocks
<1>10. CASE bs = << >>
  <2>1. TonalFields(sce, alloc, n) = << >>
    BY <1>8, <1>10 DEF TonalFields
  <2>2. TakenLines(tones, n) = {}
    <3>1. CASE tones = << >>
      <4>1. DOMAIN tones = {}
        BY <3>1
      <4>2. {b \in DOMAIN tones : b < n} = {}
        BY <4>1
      <4> QED
        BY <4>2 DEF TakenLines
    <3>2. CASE tones # << >>
      <4>1. PICK S : S = TakenLines(tones, 32)
        OBVIOUS
      <4>2. BlocksOf(bs, S)
        BY <1>7, <1>9, <3>2, <4>1, TonalBlocksAre
      <4>3. DOMAIN bs = {}
        BY <1>10
      <4>4. S = {}
        BY <4>2, <4>3 DEF BlocksOf
      <4>5. LineFacts(tones, S)
        BY <1>7, <4>1, LinesAre
      <4>6. \A m \in 0 .. 32 : TakenLines(tones, m) = {p \in S : BfuOf(p) < m}
        BY <4>5 DEF LineFacts
      <4>7. n \in 0 .. 32
        BY <1>4
      <4>8. TakenLines(tones, n) = {p \in S : BfuOf(p) < n}
        BY <4>6, <4>7
      <4> QED
        BY <4>4, <4>8
    <3> QED
      BY <3>1, <3>2
  <2>3. Decodes(<< >>, tones, alloc, n)
    BY <2>2, NothingTaken
  <2> QED
    BY <1>3, <1>6, <2>1, <2>3
<1>11. CASE bs # << >>
  <2>1. bs = MapTonalComponents(ExtractTonalComponents(tones))
    BY <1>9, <1>11
  <2>2. TonalFields(sce, alloc, n) = EncodeTonalComponents(bs, alloc, n)
    BY <1>8, <1>11 DEF TonalFields
  <2>3. Decodes(EncodeTonalComponents(MapTonalComponents(ExtractTonalComponents(tones)), alloc, n),
                tones, alloc, n)
    BY <1>4, <1>5, <1>7, TonesDecoded
  <2> QED
    BY <1>3, <1>6, <2>1, <2>2, <2>3
<1> QED
  BY <1>10, <1>11

\* TonalsDecode: whatever is selected and however many BFUs are given up, the fields of
\* EncodeTonalComponents and the counts in them tell a reader the lines that
\* ExtractTonalComponents took out of the spectrum, each of them once.
THEOREM TonesDecode == Spec => []TonalsDecode
<1>1. EngineInv /\ OwnInv => TonalsDecode
  BY DecodedFromInv DEF OwnInv
<1> QED
  BY <1>1, EngineInvariance, OwnInvariance, PTL
-----------------------------------------------------------------------------
(***************************************************************************)
(* Types                                                                   *)
(***************************************************************************)
Held == [word : 1 .. 7, of : (0 .. MaxUnits) \X {1, 2}]

\* What is kept from one part to the next, also when no channel is written.
KeptInv ==
  /\ units \in 0 .. MaxUnits /\ (channel > 0 => units < MaxUnits)
  /\ NumBfu \in 1 .. 32 /\ CodingMode \in {0, 1}
  /\ \E n \in 1 .. 32 : PrecisionPerBlock \in [0 .. n - 1 -> Words]
  /\ SpecCache \in [BFUs -> SUBSET Held]

BytesInv == \A c \in DOMAIN OutBuffer : OutBuffer[c] \in 1 .. params.FrameSz - 1

LEMMA InitKept == Init => KeptInv /\ BytesInv
<1> SUFFICES ASSUME Init PROVE KeptInv /\ BytesInv
  OBVIOUS
<1>1. units = 0 /\ channel = 0 /\ NumBfu = 1 /\ CodingMode = 1 /\ OutBuffer = << >>
  BY DEF Init
<1>2. units \in 0 .. MaxUnits /\ ~(channel > 0) /\ NumBfu \in 1 .. 32 /\ CodingMode \in {0, 1}
  BY <1>1, BoundAssumption
<1>3. PrecisionPerBlock \in [0 .. 1 - 1 -> Words] /\ 1 \in 1 .. 32
  <2>1. 0 .. 1 - 1 = {0} /\ 0 \in Words
    BY DEF Words
  <2> QED
    BY <2>1 DEF Init
<1>4. SpecCache \in [BFUs -> SUBSET Held]
  BY DEF Init, EmptyCache
<1>5. BytesInv
  BY <1>1 DEF BytesInv
<1> QED
  BY <1>2, <1>3, <1>4, <1>5 DEF KeptInv

\* Where a probe goes on is a shift, and word lengths at a shift are words.
LEMMA ShiftIs ==
  ASSUME UnitInv, EngineInv, EngineInv', Engine!EncodeAlloc, channel > 0, sce # Empty
  PROVE  Engine!DoContinue \in Lambdas /\ sce \in Names
<1>1. used' = Engine!DoContinue
  BY AllocFrame, EngineFacts
<1>2. used' \in Lambdas
  BY DEF EngineInv, OpenInv, Search!TypeOK, Search!Lambdas, Lambdas
<1>3. sce \in Names
  BY DEF UnitInv, sce
<1> QED
  BY <1>1, <1>2, <1>3

LEMMA HeldAre ==
  ASSUME UnitInv, KeptInv, channel > 0, NEW i \in BFUs, NEW w \in 1 .. 7
  PROVE  GetOrCompute(i, w) \in Held
<1>1. Me \in (0 .. MaxUnits) \X {1, 2}
  <2>1. units \in 0 .. MaxUnits
    BY DEF KeptInv
  <2>2. channel \in {1, 2}
    <3>1. PICK len : len = Len(elements)
      OBVIOUS
    <3>2. channel \in 0 .. len /\ len \in {1, 2}
      BY <3>1 DEF UnitInv
    <3>3. channel \in 0 .. 1 \/ channel \in 0 .. 2
      BY <3>2
    <3> QED
      BY <3>3
  <2> QED
    BY <2>1, <2>2 DEF Me
<1>2. [word |-> w, of |-> Me] \in Held
  BY <1>1 DEF Held
<1>3. PICK held : held = {u \in SpecCache[i] : u.word = w}
  OBVIOUS
<1>4. held \subseteq Held
  BY <1>3 DEF KeptInv
<1>5. held # {} => (CHOOSE u \in held : TRUE) \in held
  OBVIOUS
<1>6. GetOrCompute(i, w) = IF held = {} THEN [word |-> w, of |-> Me] ELSE CHOOSE u \in held : TRUE
  BY <1>3 DEF GetOrCompute
<1> QED
  BY <1>2, <1>4, <1>5, <1>6

LEMMA CacheHolds ==
  ASSUME UnitInv, KeptInv, channel > 0, NEW l \in Lambdas, sce \in Names, Quantise(l)
  PROVE  SpecCache' \in [BFUs -> SUBSET Held]
<1>1. PICK first, last : first = FirstAlloc[sce][l] /\ last = LastAlloc[sce][l]
  OBVIOUS
<1>2. SpecCache' = [i \in BFUs |-> SpecCache[i] \cup
         IF i < NumBfu THEN {GetOrCompute(i, w) : w \in (first[i] .. last[i]) \ {0}} ELSE {}]
  BY <1>1 DEF Quantise
<1>3. ASSUME NEW i \in BFUs
      PROVE  {GetOrCompute(i, w) : w \in (first[i] .. last[i]) \ {0}} \subseteq Held
  <2>1. first[i] \in 0 .. 7
    BY <1>1, FirstWordIs DEF FirstAlloc
  <2>2. last[i] \in 0 .. 7
    BY <1>1, WordsAre
  <2>3. (first[i] .. last[i]) \ {0} \subseteq 1 .. 7
    BY <2>1, <2>2
  <2> QED
    BY <2>3, HeldAre
<1>4. SpecCache \in [BFUs -> SUBSET Held]
  BY DEF KeptInv
<1> QED
  BY <1>2, <1>3, <1>4

LEMMA KeptAlloc ==
  ASSUME UnitInv, EngineInv, EngineInv', KeptInv, Probe \/ GiveUpBfu \/ Settle
  PROVE  KeptInv'
<1>1. /\ Engine!EncodeAlloc /\ channel > 0 /\ sce # Empty /\ UNCHANGED <<channel, units>>
      /\ Quantise(Engine!DoContinue)
  BY DEF Probe, GiveUpBfu, Settle, EncodeAlloc
<1>2. PICK l : l = Engine!DoContinue
  OBVIOUS
<1>3. l \in Lambdas /\ sce \in Names /\ Quantise(l)
  BY <1>1, <1>2, ShiftIs
<1>4. SpecCache' \in [BFUs -> SUBSET Held]
  BY <1>1, <1>3, CacheHolds
<1>5. /\ units' \in 0 .. MaxUnits /\ (channel' > 0 => units' < MaxUnits)
      /\ NumBfu \in 1 .. 32
  BY <1>1 DEF KeptInv
<1>6. CASE Probe \/ GiveUpBfu
  <2>1. NumBfu' \in 1 .. 32
    BY <1>5, <1>6 DEF Probe, GiveUpBfu, GivesUp
  <2>2. PrecisionPerBlock' = PrecisionPerBlock /\ CodingMode' = CodingMode
    BY <1>6 DEF Probe, GiveUpBfu
  <2> QED
    BY <1>4, <1>5, <2>1, <2>2 DEF KeptInv, Held
<1>7. CASE Settle
  <2>1. NumBfu' = NumBfu /\ PrecisionPerBlock' = FirstWords(LastAlloc[sce][l], NumBfu)
    BY <1>2, <1>7 DEF Settle
  <2>2. CodingMode' \in {0, 1}
    BY <1>7 DEF Settle, CheaperMode
  <2>3. PrecisionPerBlock' \in [0 .. NumBfu - 1 -> Words]
    <3>1. ASSUME NEW i \in 0 .. NumBfu - 1 PROVE LastAlloc[sce][l][i] \in Words
      <4>1. i \in BFUs
        BY <1>5 DEF BFUs
      <4> QED
        BY <1>3, <4>1, WordsAre DEF Words
    <3>2. PrecisionPerBlock' = [i \in 0 .. NumBfu - 1 |-> LastAlloc[sce][l][i]]
      BY <2>1 DEF FirstWords
    <3> QED
      BY <3>1, <3>2
  <2> QED
    BY <1>4, <1>5, <2>1, <2>2, <2>3 DEF KeptInv, Held
<1> QED
  BY <1>6, <1>7

LEMMA KeptStep ==
  UnitInv /\ EngineInv /\ EngineInv' /\ ContextInv /\ ContextInv' /\ KeptInv /\ [Next]_vars => KeptInv'
<1> SUFFICES ASSUME UnitInv, EngineInv, EngineInv', ContextInv, ContextInv', KeptInv, [Next]_vars
             PROVE  KeptInv'
  OBVIOUS
<1>1. CASE BeginUnit \/ NextChannel
  <2>1. UNCHANGED <<SpecCache, units>> /\ units < MaxUnits /\ NumBfu' = 1 /\ CodingMode' = 1
        /\ PrecisionPerBlock' = [i \in {0} |-> 0]
    BY <1>1 DEF BeginUnit, NextChannel, BeginChannel, KeptInv
  <2>2. PrecisionPerBlock' \in [0 .. 1 - 1 -> Words] /\ 1 \in 1 .. 32
    <3>1. 0 .. 1 - 1 = {0} /\ 0 \in Words
      BY DEF Words
    <3> QED
      BY <2>1, <3>1
  <2>3. units' \in 0 .. MaxUnits /\ units' < MaxUnits /\ NumBfu' \in 1 .. 32 /\ CodingMode' \in {0, 1}
    BY <2>1 DEF KeptInv
  <2>4. SpecCache' \in [BFUs -> SUBSET Held]'
    BY <2>1 DEF KeptInv, Held
  <2> QED
    BY <2>2, <2>3, <2>4 DEF KeptInv
<1>2. CASE Configure
  <2>1. UNCHANGED <<SpecCache, units, channel, CodingMode>> /\ running'
        /\ PrecisionPerBlock' = [i \in 0 .. NumBfu' - 1 |-> 0]
    BY <1>2 DEF Configure, Engine!EncodeConfigure
  <2>2. NumBfu' \in 1 .. 32
    BY <2>1 DEF ContextInv
  <2>3. PrecisionPerBlock' \in [0 .. NumBfu' - 1 -> Words]
    BY <2>1 DEF Words
  <2>4. SpecCache' \in [BFUs -> SUBSET Held]'
    BY <2>1 DEF KeptInv, Held
  <2> QED
    BY <2>1, <2>2, <2>3, <2>4 DEF KeptInv
<1>3. CASE EncodeEmpty
  BY <1>3 DEF EncodeEmpty, context, KeptInv, Held
<1>4. CASE Probe \/ GiveUpBfu \/ Settle
  BY <1>4, KeptAlloc
<1>5. CASE Dump
  <2>1. UNCHANGED <<units, channel, context>> /\ SpecCache' = EmptyCache
    BY <1>5 DEF Dump
  <2>2. SpecCache' \in [BFUs -> SUBSET Held]'
    BY <2>1 DEF EmptyCache
  <2> QED
    BY <2>1, <2>2 DEF KeptInv, context
<1>6. CASE WriteFrame
  <2>1. UNCHANGED <<context, SpecCache>> /\ channel > 0 /\ channel' = 0 /\ units' = units + 1
    BY <1>6 DEF WriteFrame
  <2>2. units' \in 0 .. MaxUnits
    BY <2>1, BoundAssumption DEF KeptInv
  <2>3. SpecCache' \in [BFUs -> SUBSET Held]' /\ UNCHANGED context
    BY <2>1 DEF KeptInv, Held
  <2>4. ~(channel' > 0)
    BY <2>1
  <2> QED
    BY <2>2, <2>3, <2>4 DEF KeptInv, context
<1>7. CASE UNCHANGED vars
  BY <1>7 DEF vars, context, KeptInv, Held
<1> QED
  BY <1>1, <1>2, <1>3, <1>4, <1>5, <1>6, <1>7 DEF Next, Encode

LEMMA BytesStep == UnitInv /\ BytesInv /\ [Next]_vars => BytesInv'
<1> SUFFICES ASSUME UnitInv, BytesInv, [Next]_vars PROVE BytesInv'
  OBVIOUS
<1>1. CASE OutBuffer' = OutBuffer /\ params' = params
  BY <1>1 DEF BytesInv
<1>2. CASE Dump
  <2>1. params' = params /\ OutBuffer' = Append(OutBuffer, ShareBytes(channel))
    BY <1>2 DEF Dump, config
  <2>2. channel > 0 /\ channel \in 1 .. Len(elements)
    BY <1>2 DEF Dump, Engine!Dump, UnitInv
  <2>3. ShareBytes(channel) \in 1 .. params.FrameSz - 1
    BY <2>2, ShareHasRoom
  <2> QED
    BY <2>1, <2>3 DEF BytesInv
<1>3. CASE WriteFrame
  BY <1>3 DEF WriteFrame, BytesInv
<1>4. [Next]_vars => Dump \/ WriteFrame \/ (OutBuffer' = OutBuffer /\ params' = params)
  BY DEF Next, Encode, BeginUnit, NextChannel, Configure, EncodeEmpty, Probe, GiveUpBfu, Settle,
         vars, config
<1> QED
  BY <1>1, <1>2, <1>3, <1>4

\* TypeOK: word lengths, byte counts and the lines of the cache are what the fields of a
\* sound unit, the container and TQuantCache can take.
THEOREM TypeCorrect == Spec => []TypeOK
<1>1. Init => KeptInv /\ BytesInv
  BY InitKept
<1>2. UnitInv /\ EngineInv /\ ContextInv /\ EngineInv' /\ ContextInv' /\ KeptInv /\ BytesInv /\ [Next]_vars
        => KeptInv' /\ BytesInv'
  BY KeptStep, BytesStep
<1>3. OwnInv => UnitInv /\ ContextInv
  BY DEF OwnInv
<1>4. UnitInv /\ KeptInv /\ BytesInv => TypeOK
  <2> SUFFICES ASSUME UnitInv, KeptInv, BytesInv PROVE TypeOK
    OBVIOUS
  <2>1. PICK n \in 1 .. 32 : PrecisionPerBlock \in [0 .. n - 1 -> Words]
    BY DEF KeptInv
  <2>2. DOMAIN PrecisionPerBlock = 0 .. n - 1
    BY <2>1
  <2>3. NumBlocks = n
    BY <2>2, CountTo DEF NumBlocks
  <2>4. PrecisionPerBlock \in [0 .. NumBlocks - 1 -> Words] /\ NumBlocks \in 1 .. 32
    BY <2>1, <2>3
  <2>5. SpecCache \in [BFUs -> SUBSET [word : 1 .. 7, of : (0 .. MaxUnits) \X {1, 2}]]
    BY DEF KeptInv, Held
  <2>6. channel \in 0 .. Len(elements)
    BY DEF UnitInv
  <2>7. units \in 0 .. MaxUnits /\ NumBfu \in 1 .. 32 /\ CodingMode \in {0, 1}
    BY DEF KeptInv
  <2>8. \A c \in DOMAIN OutBuffer : OutBuffer[c] \in 1 .. params.FrameSz - 1
    BY DEF BytesInv
  <2> QED
    BY <2>4, <2>5, <2>6, <2>7, <2>8 DEF TypeOK
<1> QED
  BY <1>1, <1>2, <1>3, <1>4, EngineInvariance, OwnInvariance, PTL DEF Spec
=============================================================================
