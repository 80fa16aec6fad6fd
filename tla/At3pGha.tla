------------------------------- MODULE At3pGha -------------------------------
(***************************************************************************)
(* The search for tones of the ATRAC3plus encoder (DoAnalize of            *)
(* atrac/at3p/at3p_gha.cpp) with both strategies, TSubbandGhaProcessor and *)
(* TWidebandGhaProcessor, and both refinements of the latter. A tone found *)
(* in a round is fitted, with those of its band, in the next one, and may  *)
(* be taken back there; both channels draw on one budget. What the sound   *)
(* answers to a search or a fit is open, within the frequencies that are   *)
(* in it. DoAnalize is one call, of which a step here does one band.       *)
(***************************************************************************)
EXTENDS At3pTones

CONSTANTS
  Inputs,            \* frames, with the frequencies in each channel and band
  Windows,           \* the parts of a frame that a fit may turn out to explain
  Strategies,        \* of "legacy", "subband" and "raw"
  TonesPerFrame,     \* 48
  TonesPerBand       \* 15

VARIABLES
  strategy,          \* what MakeGhaProcessor0 made
  input,
  stage, ch, sb,     \* where in DoAnalize
  data,              \* TChannelData of each channel
  total,             \* totalTones
  progress,          \* of the last round, by channel
  result,            \* ResultBuf, or NoTones
  history,           \* the stop points in ResultBufHistory
  frames             \* the frames begun
ghaVars == <<strategy, input, stage, ch, sb, data, total, progress, result, history, frames>>

MinFreqDistance == 20
Done            == TonesPerBand + 1      \* MarkSubbandDone
NoTones         == [NumToneBands |-> 0]  \* nullptr

\* Over all bands of so many channels.
SumOver(channels, terms) ==
  SumTo([c \in 0 .. channels - 1 |-> SumTo(terms[c + 1], Subbands)], channels)
\* Of the frequencies of each band, two at the most.
Pairs(s) ==
  [c \in DOMAIN s |-> [b \in Bands |-> IF Cardinality(s[c][b]) > 2 THEN 2 ELSE Cardinality(s[c][b])]]

ASSUME FramesAssumption ==
  \A in \in Inputs :
    /\ in \in Seq(Seq([Bands -> SUBSET (0 .. 1024)])) /\ in # << >>
    /\ \A k \in DOMAIN in : Len(in[k]) = Len(in[1]) /\ Len(in[k]) \in {1, 2}
\* 48 tones are more than two for each of the 16 bands: the first tone of each band
\* is had and fitted, and the second one had, before they are used up. A band's
\* tones are counted in four bits.
ASSUME BudgetAssumption ==
  /\ TonesPerBand \in Nat \ {0} /\ TonesPerFrame \in Nat
  /\ TonesPerBand <= 15
  /\ \A in \in Inputs : \A k \in DOMAIN in : SumOver(Len(in[k]), Pairs(in[k])) < TonesPerFrame
ASSUME WindowAssumption ==
  \A w \in Windows : w \in Nat \X Nat /\ w[1] + 16 <= w[2] /\ w[2] <= FrameSamples

(* ------------------------------ the tones ------------------------------ *)

\* GhaFreqToIndex: the frequency half the sample rate has index 1024, which wraps.
Index(f)     == f % 1024
Indices(fs)  == {Index(f) : f \in fs}
Sound        == input[frames]
Here         == Sound[ch][sb]
Mine         == data[ch].tones[sb]
TooClose(b, i) ==
  \E b2 \in Bands : \E j \in data[ch].tones[b2] :
    1024 * b + i - (1024 * b2 + j) \in 1 - MinFreqDistance .. MinFreqDistance - 1

\* What a fit of n tones may lead to. Equal indices are seen between neighbours
\* only; of two that are not, one is lost when they are inserted.
Refitted(n) ==
  {Indices(fs) : fs \in {fs \in SUBSET Here :
     /\ Cardinality(fs) = n
     /\ \A f, g \in fs : f < g /\ Index(f) = Index(g) => \E h \in fs : f < h /\ h < g}}

\* CheckResuidalAndApply: an envelope that was left open must go on to the end.
Explains(env, w) == env[2] = EmptyPoint => w[2] = FrameSamples
ToTheEnd(w)      == w[2] = FrameSamples
Closed(w, cont)  == IF ToTheEnd(w) /\ cont THEN <<w[1], EmptyPoint>> ELSE w

Fresh ==
  [tones |-> [b \in Bands |-> {}], done |-> [b \in Bands |-> 0],
   env |-> [b \in Bands |-> IF b = 0 THEN <<InitPoint, InitPoint>> ELSE <<0, 0>>],
   gapless |-> [b \in Bands |-> FALSE], last |-> [b \in Bands |-> 0],
   union |-> [b \in Bands |-> << >>], refined |-> [b \in Bands |-> FALSE]]

(* ------------------------------ the order ------------------------------ *)

Go(st, c, b) == stage' = st /\ ch' = c /\ sb' = b
Same         == UNCHANGED <<strategy, input, result, history, frames>>
\* The flags a channel's round begins with.
RoundGoesOn(p, c) == p
RoundBegins(p, c) == [p EXCEPT ![c] = FALSE]
MoreRounds(p, t)  == (\E c \in DOMAIN data : p[c]) /\ t < TonesPerFrame

\* DoRound has returned p for a channel, the count being t.
EndRound(p, t) ==
  IF ch < Len(data)
  THEN Go("refit", ch + 1, 0) /\ progress' = RoundBegins(p, ch + 1)
  ELSE IF MoreRounds(p, t)
  THEN Go("refit", 1, 0) /\ progress' = RoundBegins(p, 1)
  ELSE Go("fill", 1, 0) /\ progress' = p
NextBand(p, t) ==
  IF sb + 1 \in Bands THEN Go("refit", ch, sb + 1) /\ progress' = p ELSE EndRound(p, t)

\* Through all bands of all channels, and then to the next stage.
Walk(st, next) ==
  IF sb + 1 \in Bands THEN Go(st, ch, sb + 1)
  ELSE IF ch < Len(data) THEN Go(st, ch + 1, 0)
  ELSE Go(next, 1, 0)

\* DoAnalize: nothing is kept of the frame before but the result's history.
BeginFrame ==
  /\ stage = "done" /\ frames < Len(input)
  /\ frames' = frames + 1
  /\ data' = [c \in DOMAIN data |-> Fresh]
  /\ progress' = [c \in DOMAIN data |-> strategy # "legacy"]
  /\ total' = 0 /\ result' = NoTones
  /\ Go(IF strategy = "legacy" THEN "refit" ELSE "extract", 1, 0)
  /\ UNCHANGED <<strategy, input, history>>

(* --------------------------- band after band --------------------------- *)

SkipDone ==
  /\ stage = "refit" /\ data[ch].done[sb] = Done
  /\ NextBand(progress, total)
  /\ UNCHANGED <<data, total>> /\ Same

UsedUp ==
  /\ stage = "refit" /\ data[ch].done[sb] # Done
  /\ total >= TonesPerFrame
  /\ EndRound([progress EXCEPT ![ch] = FALSE], total)
  /\ UNCHANGED <<data, total>> /\ Same

NothingToRefit ==
  /\ stage = "refit" /\ data[ch].done[sb] # Done
  /\ total < TonesPerFrame /\ Mine = {}
  /\ Go("look", ch, sb)
  /\ UNCHANGED <<data, total, progress>> /\ Same

\* The tones are moved to where they fit the band best, all together.
Refit ==
  /\ stage = "refit" /\ data[ch].done[sb] # Done
  /\ total < TonesPerFrame /\ Mine # {}
  /\ \E w \in Windows, new \in Refitted(Cardinality(Mine)), cont \in BOOLEAN :
       /\ Explains(data[ch].env[sb], w)
       /\ ~(ToTheEnd(w) /\ data[ch].gapless[sb] /\ ~cont)
       /\ data' = [data EXCEPT ![ch].tones[sb] = new, ![ch].env[sb] = Closed(w, cont),
                               ![ch].gapless[sb] = @ \/ (ToTheEnd(w) /\ cont)]
  /\ Go("look", ch, sb)
  /\ UNCHANGED <<total, progress>> /\ Same

\* What a fit that is not accepted has made of the envelope by then: nothing; its
\* start; all of it, if two tones fall together or do not go on as those before.
LeftBehind(env) ==
  {env} \cup {<<w[1], EmptyPoint>> : w \in {w \in Windows : ~Explains(env, w)}}
        \cup {w \in Windows : /\ Explains(env, w)
                              /\ Cardinality(Mine) > 1 \/ (ToTheEnd(w) /\ data[ch].gapless[sb])}

\* The tone that was added last is given up, and the band with it.
Rollback ==
  /\ stage = "refit" /\ data[ch].done[sb] # Done
  /\ total < TonesPerFrame /\ Mine # {}
  /\ \E env \in LeftBehind(data[ch].env[sb]) :
       data' = [data EXCEPT ![ch].tones[sb] = @ \ {data[ch].last[sb]},
                            ![ch].done[sb] = Done, ![ch].env[sb] = env]
  /\ total' = total - 1
  /\ NextBand(progress, total - 1)
  /\ Same

\* No tone that is loud enough, far enough from the others and one too many.
LookInVain ==
  /\ stage = "look"
  /\ data' = [data EXCEPT ![ch].done[sb] = Done]
  /\ NextBand(progress, total)
  /\ UNCHANGED total /\ Same

AddTone ==
  /\ stage = "look"
  /\ \E i \in Indices(Here) :
       /\ data[ch].done[sb] = 0 \/ (~TooClose(sb, i) /\ data[ch].done[sb] < TonesPerBand)
       /\ data' = [data EXCEPT ![ch].tones[sb] = @ \cup {i}, ![ch].last[sb] = i,
                               ![ch].done[sb] = @ + 1]
  /\ total' = total + 1
  /\ NextBand([progress EXCEPT ![ch] = TRUE], total + 1)
  /\ Same

(* ------------------------------- wideband ------------------------------ *)

NextTurn(p, t) ==
  /\ progress' = p
  /\ IF ch < Len(data) THEN Go("extract", ch + 1, 0)
     ELSE IF MoreRounds(p, t) THEN Go("extract", 1, 0)
     ELSE Go("refine", 1, 0)

\* WidebandExtractOne finds nothing more, within its 200 attempts, and never will.
ExtractNone ==
  /\ stage = "extract"
  /\ NextTurn([progress EXCEPT ![ch] = FALSE], total)
  /\ UNCHANGED <<data, total>> /\ Same

\* A tone shows in the band it is in and in those beside it, in all of them with
\* one envelope; a band's envelope is the union of its tones'.
BudgetLeft(n)  == total < TonesPerFrame
ExtractFits(n) == total + n <= TonesPerFrame
Union(u, w)    == IF u = << >> THEN w ELSE <<Min({u[1], w[1]}), Max({u[2], w[2]})>>

ExtractOne ==
  /\ stage = "extract" /\ progress[ch]
  /\ \E home \in Bands, w \in Windows :
       \E seen \in SUBSET {b \in Bands : b - home \in -1 .. 1 /\ data[ch].done[b] < TonesPerBand} :
         /\ seen # {} /\ ExtractFits(Cardinality(seen))
         /\ \E at \in [seen -> UNION {Indices(Sound[ch][b]) : b \in seen}] :
              /\ \A b \in seen : at[b] \in Indices(Sound[ch][b]) /\ ~TooClose(b, at[b])
              /\ data' = [data EXCEPT
                   ![ch].tones = [b \in Bands |-> IF b \in seen THEN @[b] \cup {at[b]} ELSE @[b]],
                   ![ch].done  = [b \in Bands |-> IF b \in seen THEN @[b] + 1 ELSE @[b]],
                   ![ch].union = [b \in Bands |-> IF b \in seen THEN Union(@[b], w) ELSE @[b]]]
         /\ total' = total + Cardinality(seen)
         /\ NextTurn(progress, total + Cardinality(seen))
  /\ Same

\* RefineWidebandTonesSubbandDomain, for a band: accepted, or as before.
RefineBand ==
  /\ stage = "refine" /\ strategy = "subband" /\ Mine # {}
  /\ \/ \E w \in Windows, new \in Refitted(Cardinality(Mine)), cont \in BOOLEAN :
          data' = [data EXCEPT ![ch].tones[sb] = new, ![ch].env[sb] = Closed(w, cont),
                               ![ch].refined[sb] = TRUE]
     \/ data' = [data EXCEPT ![ch].env[sb] = <<InitPoint, InitPoint>>]
  /\ Walk("refine", "commit")
  /\ UNCHANGED <<total, progress>> /\ Same

\* RefineWidebandTonesRawDomain, for a band: each tone moves, or stays if its new
\* place is taken.
RefineRaw ==
  /\ stage = "refine" /\ strategy = "raw" /\ Mine # {}
  /\ \E new \in {is \in SUBSET Indices(Here) : Cardinality(is) = Cardinality(Mine)} :
       data' = [data EXCEPT ![ch].tones[sb] = new]
  /\ Walk("refine", "commit")
  /\ UNCHANGED <<total, progress>> /\ Same

RefineNothing ==
  /\ stage = "refine" /\ Mine = {}
  /\ Walk("refine", "commit")
  /\ UNCHANGED <<data, total, progress>> /\ Same

\* CommitWidebandEnvelopes, for a band.
Commit ==
  /\ stage = "commit"
  /\ LET u == data[ch].union[sb]
     IN IF data[ch].refined[sb] \/ u = << >> THEN UNCHANGED data
        ELSE \E cont \in BOOLEAN : data' = [data EXCEPT ![ch].env[sb] = Closed(u, cont /\ Mine # {})]
  /\ Walk("commit", "fill")
  /\ UNCHANGED <<total, progress>> /\ Same

(* ------------------------------ the result ----------------------------- *)

Fill ==
  /\ stage = "fill"
  /\ IF total = 0
     THEN result' = NoTones /\ UNCHANGED history
     ELSE \E res \in {FillResultBuf(data, history)} :
            /\ result' = res
            /\ history' = [role \in DOMAIN history |->
                 IF role > Len(data) THEN << >>
                 ELSE [b \in DOMAIN res.Waves[role].WaveSbInfos |->
                         res.Waves[role].WaveSbInfos[b].Envelope[2]]]
  /\ Go("done", 1, 0)
  /\ UNCHANGED <<strategy, input, data, total, progress, frames>>

GhaInit ==
  /\ strategy \in Strategies
  /\ input \in Inputs
  /\ stage = "done" /\ ch = 1 /\ sb = 0
  /\ data = [c \in DOMAIN input[1] |-> Fresh] /\ total = 0
  /\ progress = [c \in DOMAIN input[1] |-> FALSE]
  /\ result = NoTones /\ history = <<<< >>, << >>>> /\ frames = 0

Analysis ==
  \/ SkipDone \/ UsedUp \/ NothingToRefit \/ Refit \/ Rollback \/ LookInVain \/ AddTone
  \/ ExtractNone \/ ExtractOne \/ RefineBand \/ RefineRaw \/ RefineNothing \/ Commit
  \/ Fill
GhaNext == BeginFrame \/ Analysis

\* A frame is analysed in one call.
GhaSpec == GhaInit /\ [][GhaNext]_ghaVars /\ WF_ghaVars(Analysis)

(* ------------------------------ correctness ---------------------------- *)

Found == [c \in DOMAIN data |-> [b \in Bands |-> Cardinality(data[c].tones[b])]]

\* When the search ends, whatever was taken back, there are no more tones in both
\* channels than ApplyFilter has room for (it aborts on a 49th), no more in a band
\* than four bits count, none that the count misses, and none in a band whose
\* envelope was not written, on which AdjustEnvelope aborts.
TonesFit ==
  stage = "fill" =>
    /\ SumOver(Len(data), Found) <= total
    /\ total <= TonesPerFrame
    /\ \A c \in DOMAIN data : \A b \in Bands : data[c].tones[b] # {} =>
         Cardinality(data[c].tones[b]) <= TonesPerBand /\ ~Aborts(data[c].env[b])

\* What a reader makes of the tonal block is what ApplyFilter takes out of the
\* encoder's own signal, tone by tone with its amplitude and envelope; a channel
\* has its own tones in it, in their bands and no other, except that a band all
\* of whose tones the leading channel has as well is given the leader's.
TonesRead ==
  stage = "done" /\ result # NoTones =>
    LET read == ReadTonalBlock(WriteTonalBlock(result))
        heard(c, b) == IF b \in DOMAIN read[c] THEN {w.FreqIndex : w \in Range(read[c][b].waves)} ELSE {}
    IN /\ read = FilteredTones(result)
       /\ \A c \in DOMAIN data : \A b \in Bands :
            LET own == data[c].tones[b]
            IN \/ heard(c, b) = own /\ \A w \in Range(IF own = {} THEN << >> ELSE read[c][b].waves) :
                                          w.of = c \/ data[w.of].tones[b] = own
               \/ own # {} /\ c # Leader(data) /\ own \subseteq data[3 - c].tones[b]
                           /\ read[c][b] = read[3 - c][b]

\* The rounds end: they go on while one channel has found something, although fits
\* give tones, and with them budget, back.
AnalysisEnds == stage # "done" ~> stage = "done"
=============================================================================
