# A specification of atracdenc

`atracdenc` encodes PCM audio to ATRAC1, ATRAC3 and ATRAC3plus, and decodes ATRAC1. This directory holds TLA+
modules of its control logic, TLC configurations that check them on small instances, and proofs of their main
properties for every value of the constants, checked by TLAPS. Everything is translated from the sources under
`src/`; `PROJECT.json` maps each definition to the lines it stands for and lists the runs, the mutations that
show each property can fail, the hazards and the theorems.

The signal processing itself (filter banks, MDCT, psychoacoustics, the fits of sinusoids) is floating-point
arithmetic without control state. What is modelled is what surrounds it: which samples end up in which frame,
which gain curve a frame is divided by, which tones are searched and taken out of it, how many bits a frame
gets and how that is negotiated, that a frame fits its container, and how bits are laid out and read back.

## 1. Inventory

The program is single-threaded. `main` opens a PCM source and a compressed sink (or the reverse), obtains the
codec's *process lambda*, and drives it through `TPCMEngine`.

    TWav reader --> TPCMEngine --> codec lambda --> bit-stream writer --> ICompressedOutput
    (wav.cpp)       (pcmengin.h)   (atrac*denc,     (at1, at3, at3p over  (aea, at3, rm, oma, raw)
                                    at3p)            lib/bs_encode and
                                                     lib/bitstream)

| component | state it keeps | operations | hard behaviour | what makes it correct |
|---|---|---|---|---|
| Bit-allocation engine, `lib/bs_encode` | position of the part being encoded, position to repeat from; target and four lambdas of a bisection | `Do` (run all parts, then dump), `Start`, `Continue`, `Submit` | two independent reasons to go back (a bisection step, a part's `Repeat`), bounds that cross, a final value that was perhaps never probed | terminates; what is dumped was encoded in this frame, after all it depends on; fits the budget and does not waste it |
| Bit stream, `lib/bitstream` | byte vector, bits used, read position | `Write`, `Read`, `GetSizeInBits` | the buffer is sized in bits and indexed in bytes, negative values are sign-extended, fields straddle bytes | no byte outside the buffer, fields read back as written |
| PCM engine, reader and main loop, `pcmengin.h`, `wav.cpp`, `main.cpp` | block buffer, samples read and processed, look-ahead still owed | `ApplyProcess`, `Zero`, the reader, main's loop | look-ahead of one step across blocks, drain at the end, short last block, wrong announced length | each sample in exactly one frame, in order; the loop ends |
| ATRAC1 writer, `atrac/at1/atrac1_bitalloc.cpp` | scaled blocks, BFU amount, word lengths | `Write` with the parts `TConfigure` and `TBfuAlloc`, `TBitsBooster::ApplyBoost` | unsigned surplus, giving up BFUs restarts the search, a word of one bit does not exist | the frame fits 212 bytes, the surplus is spent, no silent group is coded |
| AEA files and the ATRAC1 decoder's loop, `aea.cpp`, `atrac1denc.cpp`, `pcmengin.h` | file, first-write flag; position, block buffer, samples processed | `WriteFrame`, `ReadFrame`, `GetLengthInSamples`, decoder lambda | a dummy unit and a dropped one, a guessed length, damaged and missing units, an error inside a block | every unit at its channel and frame, own files decode in full, little is lost of others |
| ATRAC1 dequantiser, `atrac1_dequantiser.cpp` | | `Dequant` | the inverse of the writer's layout | reads what the writer wrote |
| ATRAC3 writer, `atrac/at3/atrac3_bitstream.cpp` | header, BFU count, cache of quantised lines, tonal groups, M/S ratio | `WriteSoundUnit` with `TConfigure`, `TAlloc` | a cache shared by two channels, tonal blocks that follow the word lengths, variable-length versus fixed coding, bytes shifted between joint-stereo channels | each channel fits its share, consumption is counted as written, lines and word lengths match, tonal blocks read back |
| ATRAC3plus encoder and writer, `atrac/at3p/at3p.cpp`, `at3p_bitstream.cpp` | current and next buffer, delayed tones; the parts' buffers, number of quantisation units | `EncodeFrame`, `WriteFrame` with five parts | the last part sends all back with fewer units but keeps what it has, tones and spectrum are of different calls | a unit is of one call and one number of units, fits the frame, its tones are of the sound its spectrum is of |
| Tonal analysis, `atrac/at3p/at3p_gha.cpp` | tones found, their envelopes, a budget, what the frame before left | `DoAnalize` with two strategies, `ApplyFilter` | tones taken back, a budget of two channels, leader and follower exchange places, frequencies wrap | within budget and fields, what a decoder reads is what was taken out, the rounds end |
| Gain control and ATRAC3 frame pipeline, `atrac3denc.cpp`, `transient_detector.cpp`, `gain_processor.h` | delayed halves of the transform, levels and energies of the frame before | `CalcCurve`, `CreateSubbandInfo`, `Mdct`, the lambda | two halves of a frame divided in two calls by two curves, a target from the frame before, ways to skip a band | decoding undoes the division, curves follow the sound, and use nothing older than the frame before |
| ATRAC1 frame pipeline, `atrac1denc.cpp` | overlap, windows | lambda | floating point | out of scope (section 6) |
| Upsampled transient analysis, `atrac3denc.cpp` | | a Fourier transform | floating point | out of scope: its answer is an input of gain control |
| Encoding session and outputs, `main.cpp`, `at3.cpp`, `rm.cpp`, `raw.cpp`, `oma.cpp` | options, container, header, file, frames written, packet being filled | `Prepare*Encoder`, `WriteFrame`, constructors, destructors, main's error handling | header written before the data it describes and patched in a destructor, partial packets, an error at any write, limits of 32 bits | headers agree with the data, success means a whole file, wrong combinations are refused before a file is touched |
| Command line syntax, `main.cpp`, `help.cpp` | options | option loop | inconsistent options | out of scope beyond the choices above |
| Psychoacoustics, scaling, filter banks, FFT | delay lines | pure numerical functions | floating point | out of scope (section 6) |

Interactions are calls and callbacks: `TPCMEngine::ApplyProcess` calls the lambda once per step, which answers
`PROCESSED` or `LOOK_AHEAD`; a codec calls its writer; the writer hands its parts to `TBitStreamEncoder`,
which calls each part's `Encode` and, through `TBitAllocHandler`, is told by the part to run it again; parts
write to `TBitStream`, whose bytes go to the container.

The hazards, each at its line, are in `PROJECT.json`; the properties of section 4 are aimed at them.

## 2. Plan

Most important first: the engine under all three codecs and the path of the samples; then the writers that run
under the engine, each composed with it; then what a file looks like.

| step | module | composes | contract or property aimed at | status |
|---|---|---|---|---|
| 1 | `BsEncode` | refines `FrameAlloc` | freshness, budget, tightness, termination | checked, proved |
| 2 | `BitStream` | | bounds, slack, round trip | checked, proved |
| 3 | `PcmPipeline` | reader, engine, loop, look-ahead of the codecs | order and coverage of samples | checked, safety proved |
| 4 | `At1BitAlloc` | `BsEncode` (instance) | unit size, exact surplus, maximal boost | checked, safety proved |
| 5 | `AeaFile` | writer, file, decoder's loop | units in place, what a decoder can lose | checked, safety proved |
| 6 | `EncodeSession` | outputs and main around the pipeline | headers, packets, exit codes under errors | checked, proved |
| 7 | `At3BitStream`, `At3Tonal`, `At3Tables` | `BsEncode` (instance) | joint-stereo shares, consumption counted as written, tonal blocks read back | checked, safety proved |
| 8 | `At3pTones`, `At3pGha` | strategies over one analysis | budget, fields, agreement of encoder's filter and decoder | checked, safety proved |
| 9 | `At3pBits`, `At3pBitStream` | encoder's buffers, engine and five parts, tones of `At3pTones` | units of one piece, frame size, delays that agree | checked, safety proved |
| 10 | `At3Curve`, `At3Gain` | at the codec side of `PcmPipeline` | gain control is undone by a decoder | checked, safety proved |

Abstract specifications: `FrameAlloc` for the engine, and `BsEncode` itself for the two writers that run a
search under it.

What is left, in order: the block switching of ATRAC1; the quantiser's energy adjustment; the dequantiser of
the ATRAC1 decoder.

## 3. Modules

**`FrameAlloc`** is the contract of the engine: a frame is accepted, its deal (budget and cost curve) may be
renegotiated, and it is delivered once, at a lambda whose cost fits the deal in force or at the coarsest
lambda.

**`BsEncode`** models `lib/bs_encode/encode.cpp`. `BeginRun`, `EncodeConfigure`, `EncodeAlloc`, `EncodeOther`
and `Dump` are the turns of the loop of `TImpl::DoRun`; `DoStart`, `DoContinue` and `DoSubmit` are the
handler's methods. The parts are the environment: any of them may ask for a repeat, and the cost of a frame is
*any* function of lambda. Lambdas are integers, `Step` of them standing for the `0.01f` of the code. `fresh`
is a history variable: the parts encoded since any part before them was.

**`BitStream`** models `TBitStream`. A word is the set of its one bits and the buffer the set of positions
that hold a one, so shifts, truncation to 32 bits, sign extension and the ORing of bytes are exact. `touched`
records how far a call indexed the vector. `Read` follows the fields in the order they were written, as every
reader of a layout does.

**`PcmPipeline`** models the encoding direction: `BeginBlock`, `LookAhead`, `EncodeStep` and `EndBlock` are
the stages of `ApplyProcess` and the end of an iteration of main's loop. A sample is its number, so a lost,
repeated or stale sample shows. `Filled` models `TWav`'s reader with `TPCMBuffer::Zero` exactly as it clears.

**`At1BitAlloc`** models the ATRAC1 writer, with the tables of the code in **`At1Tables`**. It uses `BsEncode`
as an instance: `BeginFrame`, `Configure`, `Probe`, `GiveUpBfus`, `Settle` and `Dump` are the engine's actions
with what the ATRAC1 parts do in them, so each step is one of the composition, and `Visit` and `EndPass` are
the inner and outer loop of `ApplyBoost`. Floats are counted in `Unit`-ths of a bit. Cost curves, free in
`BsEncode`, are here those of a frame: `BitsUsed(CalcBitsAllocation(...))`. The encoder's other decisions
(windows, loudness, scale factors) arrive as `Frames`. **`Sums`** holds the sum that bit counts are made of,
as a recursive function, and powers of two; **`Rows`** what loops over containers leave: the members of a set
in order, and a vector to which each turn appends a row.

**`AeaFile`** follows an ATRAC1 file from the encoder's `WriteFrame` calls through a medium that may cut it
short or damage units to the decoder. `EncodeUnit` and `EncodeFails` are `TAeaOutput::WriteFrame`, whose first
call writes nothing because the constructor's dummy unit is there; `DecodeUnit` is one channel's turn in the
decoder lambda, `DecodeFails` the error that `ReadFrame` throws through `ApplyProcess`, and `WriteBlock` the
end of `ApplyProcess` with main's comparison of what was processed to the length that `GetLengthInSamples`
guessed. An input may be empty. A unit is its channel and frame. `short` remembers that a block was not
written in full, which the program only mentions: nothing is claimed of the output after that.

**`EncodeSession`** is an encoding command from its parsed options to its exit code. `Selected`, `Valid` and
`FrameSizes` are what main derives from them; `Refuse`, `CreateFails` and `Create` are the ways out of
`Prepare*Encoder`; `WriteFrame` is that of all five outputs, told apart by `container`; `WriteFails` and
`WriteAborts` are their errors up to main's `catch` clauses, and `Finish` the end of main's loop, also by
`TNoDataToRead`. Destructors are a step of their own behind main's return, when the exit code stands:
`Close`, with the patches of headers (`Backfill`), or `CloseFails`, which nobody notices, because what `fseek`,
`fwrite`, `fflush` and `fclose` return there is not looked at. In it any of the patches may be missing, and the
stream gives its buffer up (`Loses`): some first pieces are in the file, perhaps a part of the next one, perhaps
not even the header. A failing write may take earlier frames in the buffer with it in the same way. `lost` is a
history variable that remembers this. A file is a header, of which the counting fields are kept, and a sequence
of pieces: frames by number and packet headers by time, whole or in part. The number of frames is free, as
`PcmPipeline` says how many there are; AEA files are here only for their errors. `position` is what `ftell`
says.

**`At3BitStream`** models the ATRAC3 writer, with the tables of the code in **`At3Tables`**. `BeginUnit` and
`NextChannel` are the turns of the loop of `WriteSoundUnit` over a unit's channels, whose shares of the frame
are `ShareBytes` and `CalcMSBytesShift`. Each channel goes through the engine of `BsEncode`, used as an
instance as in `At1BitAlloc`. The cost of a shift is that of `CalcBitsAllocation` after `ConsiderEnergyErr`,
in the cheaper of both coding modes, with the tonal blocks. How the lines of a channel quantise is floating
point: `Channels` give it, as scale factors, the cost of a group in variable-length code, which groups come
out silent (`quiet`) or distorted (`poor`). `SpecCache` is the code's cache of quantised BFUs and `Mantissas`
the lines that a dump would write: for each BFU, for which channel of which unit, and with which word length,
they were quantised. **`At3Tonal`** has the tonal components from the spectrum (`ExtractTonalComponents`)
through grouping (`GroupTonalComponents`) to the fields of `EncodeTonalComponents`, and `DecodeSubGroup`, a
reader of them. Its loops that cut a sequence into stretches are where the stretches begin: `FirstOf`, a
recursive function.

**`At3pGha`** models `DoAnalize`: a step is one band of one round of one channel, in the order in which the
code visits them (`Walk`). The legacy strategy finds a tone (`AddTone`) and fits it with the others of its
band when it comes by again (`Refit`), or takes it back (`Rollback`); the wideband one extracts (`ExtractOne`,
`ExtractNone`), refines by band or on the raw sound, and commits. What libgha answers, whether a fit explains
the sound and where an envelope begins and ends are choices, limited to the frequencies that `Inputs` say are
in the sound. `Fill` lays out the result. **`At3pTones`** is that layout: leader and follower, which bands
they share and which tones of a shared band are one, the envelopes' points left out where the frame before
says the same (`FillResultBuf`), the ascending and descending packing of frequencies, a reader, and the tones
that the encoder filters out of its own signal.

**`At3pBitStream`** is a call of `EncodeFrame` (`LookAhead` for the first, `BeginFrame` for the others), then
the turns of the engine's loop over the five parts: `EncodePart` for the first four, `FrameDone` and `Repeat`
for the tonal part, which adds up what all of them cost, and `Dump`. **`At3pBits`** is what each part costs,
so the number of quantisation units that a frame ends with is the real one.

**`At3Gain`** is the ATRAC3 encoder around its transform for one band: `LookAhead` is the first call,
`MakeCurve`, `SkipBand` (nothing high in it) and `Uncontrolled` (gain control switched off) are what later
ones may do: find a curve for the frame, or none, divide by it, move the buffers on and write a unit.
**`At3Curve`** is the algorithm: `CalcCurve` from the loudness of 32 subframes with its median, target,
releases, jumps and trimming to the points there is room for; point 0 (`WithPoint0`, `DropPoint0`); the
fields, and the gain at each position as `gain_processor.h` interpolates it. Amplitudes are powers of two and
gains eighths of an exponent, so the gains are exact.

`*_proofs` modules hold theorems; `MC*` modules and `.cfg` files give the constants values for TLC.

## 4. Runs

Deadlock checking is off in all of them because each behaviour ends: a bounded number of frames or fields, or
main returning.

**`bs_encode`** (`MCBsEncode.cfg`): four parts, so that one lies before and one behind the allocating part;
five lambdas with all 243 cost curves over {below, at, above} the budget; one whole-pass repeat per frame and
two frames, so that a frame starts after one that ended in a search. Only the comparison of a cost with the
budget enters the code, so three costs are all there are. `PrefixIsFresh`: no stale part is ever in front of
the one being encoded or in a dump. `AllocFits` and `AllocIsTight`: what the search settles on fits, for any
curve, and on non-increasing curves nothing two steps finer would have. `Terminates`, and
`ImplementsFrameAlloc`.

**`bit_stream`** (`MCBitStream.cfg`): four fields of widths 1, 5, 8, 14 and 23 (within a byte, a byte, across
two and three, the widest allowed), with a small, a negative odd and a negative even word. Four fields reach
all alignments that matter and the case in which the buffer shrinks. `InBounds`, `SlackBounded`, `RoundTrip`.

**`pcm_pipeline`** (`MCPcmPipeline.cfg`): sizes scaled by 1/256, keeping the 8, 4 and 2 steps that the three
codecs have per block; inputs of every length up to three blocks; the announced length right, off by one
either way, or a block too much. `FramesInOrder`, `LookAheadIsNext`, `AllCovered`, `NothingInvented`,
`EndsNormally`.

**`pcm_padding`** (`PcmPadding.cfg`) expects a violation: see section 7.

**`at1_bit_alloc`** (`MCAt1BitAlloc.cfg`): the real tables and unit size, frames from silence to full scale
with flat bands, silent tails of several lengths, quiet BFUs among those that boosting may raise, long and
short windows, with the BFU amount automatic and fixed to 28. Half-bit lambdas (`Unit = 2`) keep the search to
37 shifts. `SurplusIsExact`, `FitsUnit`, `BoostIsMaximal`, `NoSilentTail`, `FrameIsWritten`.

**`aea_file`** (`MCAeaFile.cfg`): blocks of the real eight frames, inputs of none, one and two blocks, mono
and stereo. Files are cut anywhere, so every number of frames from 0 to 16 occurs, with and without half a frame
at the end, and one unit may be damaged; the loop of the decoder is then at every residue of the file's length
to the block. `Wrap = 1000` stands for the 2^55 frames whose samples 64 bits can count; it only has to exceed
the file. `UnitsInPlace`, `DecodedInPlace`, `OwnFilesDecode`, `AtMostABlockLost`, `Returns`. What
`OwnFilesDecode` promises of an undamaged file, all its frames and a normal end, does not hold of an empty
input: its file is the header and the dummy unit, the length wraps, and decoding ends in an error with nothing
in the output, which is what the property says of that case.

**`encode_session`** (`MCEncodeSession.cfg`): all codecs with all containers and suffixes, announced lengths
that are none, right for some number of frames, too short, too long for the file and so large that they wrap,
bitrates of the first and last entry of the table and the default, and an error at each write and at the
closing, that leaves none, some or most of a frame or packet header and takes any number of earlier ones along.
Sizes of frames and headers are real; words of 13 bits instead
of 32 bring the limits of a RIFF file within nine frames, which are also three packets. `HeadersTell`,
`PacketsLead`, `ExitTells`. The first holds of files whose stream lost nothing, the second however they end.
`ExitTells` has two promises about frames: always, those in the file are the first ones delivered without a gap;
after a success they are all there, unless the stream lost what it had taken. The code gives no more: an exit
code of 0 is chosen before the buffer is written out. No property needs fairness, so none is assumed.

**`session_bitrate`** (`SessionBitrate.cfg`, with every value that the option takes) expects a violation: see
section 7.

**`at3_bit_stream`** (`MCAt3BitStream.cfg`): the real tables; four frame sizes, the two of joint stereo, the
smallest and a middle one without; mono and stereo units of a silent channel, one with all the gain points
there can be (which alone may exceed a small share), one with tonal runs that meet at borders of BFUs, one
heavy in a few BFUs and a loud one; the number of BFUs automatic and fixed to 12. One unit is enough, as the
writer keeps nothing from one to the next; within it the cache must be cleared between the channels.
`FitsShare`, `MantissasMatch`, `TonalsDecode`, `UnitIsWritten`.

**`at3p_gha`** (`MCAt3pGha.cfg`): two bands, because the order of visits, the leader's number of bands and
sharing need a second; three tones to a band and a budget of five, so that either may be used up first, but as
in the code, where it is 48 for 16 bands, not by two tones in every band; envelopes over the whole frame and
inside it; indices at both ends and in the middle of the scale, with 1024, which wraps to 0; mono and stereo,
one frame or two, the second with the evidence of the first. The numbers of the code's unit test of
`CreateFreqBitPack` are an assumption that TLC evaluates. `TonesFit`, `TonesRead`, `AnalysisEnds`.

**`at3p_bit_stream`** (`MCAt3pBitStream.cfg`): the frame size that the code uses, spectra from nearly silent
to so costly that only few quantisation units remain, one that fills the frame to the last bit and one that
exceeds it by one, tonal blocks of three and of all eight bands (shown to be those of tones that `At3pTones`
lays out), the four settings of `UseGha` that differ, mono and stereo, four frames, one more than the delays
span. `UnitAgrees`, `ToneBandsFit`, `TonesInStep`, `UnitIsWritten`.

**`at3_gain`** (`MCAt3Gain.cfg`): three frames, as a curve depends on the frame before and divides into the
one after, each any of ten sounds: steady, attacks, releases, more changes than there is room for, slow
slopes, faint, dull and silent ones; the lowest band and the highest, which differ in what the code lets pass,
with and without gain control. `SoundRestored`, `CurveFollows`, `TargetIsFresh`.

**Fairness.** `FairSpec` of `BsEncode` and `Spec` of `At1BitAlloc` assume weak fairness of the steps inside
one call of `Do`, `PcmPipeline` of its whole loop, `AeaFile` of the encoder's loop and of the decoder's,
though not that a file is ever decoded, and `At3BitStream`, `At3pBitStream` and `At3pGha` (`GhaSpec`) of the
steps inside one call of `WriteSoundUnit`, `WriteFrame` and `DoAnalize`: each is synchronous code in a single
thread, which goes on once it was entered. A new frame is never assumed to arrive. That a part asks for
finitely many repeats is the bound `MaxRepeats` in `BsEncode`; in `At1BitAlloc` it is 7 because there are
eight BFU amounts, and `FrameIsWritten` and `FitsUnit` show it is enough: a frame that needed more would be
stuck. In `At3BitStream` it is the number of BFUs, 32, and `UnitIsWritten` shows it enough in the same way.
`At3pGha` has no such bound beyond the tones of a band: that rounds end although tones are taken back is what
`AnalysisEnds` says.

**Mutations.** For every property `PROJECT.json` names a definition and a changed form of it, kept beside it
in the module, such as a bisection without margins, a drain without its `break`, or a surplus charged one bit
too little; TLC finds the property violated under each.

## 5. Proofs

All theorems are of the specification, for every value of the constants that the named assumptions of the
module allow.

**`BsEncode_proofs`**: `TypeCorrect`, `NothingStale`, `BudgetKept`, `BudgetUsed` and `Refinement` (`Spec =>
ImplementsFrameAlloc`), for any number of parts, any range, any cost curve. The inductive invariant adds to
the properties: `RangeInv` (each bound stays on its side of the range the search started with, the repeat
position is 0 outside a run, and a run begins only while the bound on frames allows it), `LastFits`
(`LastLambda` is the coarsest lambda or one that was found to fit, which is what makes it safe to hand out
unprobed), and `BoundsInv` (on a non-increasing curve everything below the lower bound is known to cost too
much, and the last lambda found to fit is the upper bound or a step above it). Refinement needs only that a
step's new deal is renegotiated by the configuring part and that `Dump` happens behind the allocating part.

**`Output_proofs`**, of `BitStream` (`BitsSpec`): `AlwaysInBounds`, `SlackIsBounded`, `FieldsRoundTrip`,
`BitsTypeCorrect`, for any widths up to 23 and any words. `SizeInv` has both bounds together with the types of
the sizes and of the widths still to be read; the resize rule is case-split on the alignment and the sign of
the bits required. `ContentInv` says that the fields not yet read lie one after the other up to the end
(`Layout`), each with its bits at their places (`Holds`), and that nothing is set behind them, without which
ORing would not write. `SpreadPlaces` and `GatherTakes` are the shifts and bytes of `Write` and `Read` reduced
to those places.

Of `AeaFile`: all four invariants and `TypeOK`, for any block size above the five frames that the length
leaves out, and any input, the empty one included. `IInv` adds `Written` (while encoding, the file is as long
as the number of calls, one for none and for one), `Progress` (what precedes the block in the buffer is a
whole number of blocks, and the loop is still running only if the announced length exceeds it) and `Contents`
(the block and the output hold what the file holds at their places). The crux of `OwnFilesDecode` and
`AtMostABlockLost` is that multiples of a block lie a block apart (`StartsApart`) while the announced length
is less than a block short.

**`SoundPath_proofs`**, of `PcmPipeline`: all five invariants for any buffer size, codec, length and announced
length. The invariant `IInv` has a part for each concern: `Control` (positions are multiples of the step),
`Counts` and `Values` (types), `Ledger` (what was encoded, is held and remains in the block adds up to what
was read), `Owed` (`ToDrain` is one exactly when the codec holds a step), `Contents` (the buffer and the held
step hold the samples the ledger says, as far as the input goes), besides `FramesInOrder` and `AllCovered`.

Of `At3Gain` (`GainSpec`): all three invariants, for any sounds that are described as `SoundsAssumption` says,
any number of frames, both bands, with and without gain control. `GainInv` is a chain: each unit's two halves
are those of consecutive frames divided by consecutive curves (`Chained`), the buffers hold what the last unit
leaves to the next (`Buffered`), and the context of the curve is of the frame just before (`ContextIsFresh`).
`SoundsRestored` follows from the chain with what `gain_processor.h` interpolates from a curve's fields;
without `Buffered` a step could not know what it divides a second time. `CurvesFollow` rests on lemmas for any
row of 32 levels: what the scan of releases and jumps may leave, that `Trim` keeps at most the points there is
room for, in order, that point 0 is put in front of them or taken back, and which points a gain is drawn
between. `TargetsAreFresh` is the third part.

Of `At3pGha` (`GhaSpec`): `TonesFitTheBudget`, that the analysis hands on no more tones than a band and a
frame have room for, each band's with an envelope, for any input, windows and numbers of bands and tones that
the assumptions admit. `GhaInv` has the types, `CountInv` (the tones held are counted in `total`, which may
also count some that became one, and no band has more than it was visited), `SearchInv` for the legacy
strategy, `WideInv` for the wideband one (a band with tones has the union of their windows to fall back on
until it is committed) and `FillInv`. `SearchInv` says of each band what its visits left (`Searched`), that
the bands still searched are all in one round (`Rounds`), and bounds what was spent by the rounds gone through
(`Spent`). It is needed because an envelope comes with a band's first fit, which happens at its second visit:
were the budget used up in between, a tone would be laid out without one. The crux is `SpentLess`, that the
first two visits of all bands spend less than the budget, and that is `BudgetAssumption`: 48 tones are more
than two for each of 16 bands.

`TonesReadBack` (`TonesRead`) says that a reader of the fields finds the tones that the encoder filters out of
its own sound. It needs two invariants more: `StartInv`, that an envelope starts at one of the positions its
field has, through all unions and replacements of windows, and `DoneInv`, that what is handed on is
`FillResultBuf` of the tones held. The rest is about the layout. Both packings of a band's frequencies are
undone (`PackReads`): the indices rise, so the width that each is written with follows from the one before
(`AscReads`, `DescReads`). What a channel writes is a row per band, appended to each other, and a reader who
counts the tones of the bands before finds each row at its place (`ChannelReads`). The follower's bands are
its own or the leader's, and an envelope's points survive the five bits they have (`PointsKept`).

**`Sums_proofs`**: `SumTo` satisfies its defining equations (`SumToDef`), is monotone, and changes by the
difference when one term does. Induction over the naturals is derived, in `SetInduction`, from the
well-foundedness of the subset order on finite sets, in the form of a statement about a set; so no operator
has to be instantiated. From it follow that a nonempty set of numbers has a least one (`LeastNat`), that a
recursive function over the naturals exists and satisfies its equation (`BoundedRecursion`), that `Ascending`
lists a set's members in order, each once (`AscendingIs`), and that each place of `Joined` is a place of one
row (`JoinedIs`). These carry what recursion over tones and fields computes.

**`At1BitAlloc_proofs`**: `RunsTheEngine` shows that each behaviour of the writer is one of `BsEncode` with
two parts, so `BsEncode`'s invariant holds here (`SearchInvariance`) and nothing of the search is proved
twice. The writer's own invariant `OwnInv`, relative to it: the frame and bias are typed (`ContextInv`), the
booster runs only behind the allocating part (`BoosterInv`), target and cost curve are those of the frame as
it stands (`CurveInv`), words have 0 or 2..16 bits (`WordsInv`), and `SurplusIsExact`. Its crux is the step
`Settle`: the engine promises a fit *or* the coarsest shift, and `CoarsestIsSilent` shows that there every
word is empty, which needs the bounds on scale factors, fixed tables and bias. Conclusions: `TypeCorrect`,
`SurplusExact`, `UnitFits`. Relative to it `PassInv` says what a pass of the booster has settled: BFUs outside
`reach` cost more than is left, and what a pass without a raise was at cannot be raised. That a pass which
ends at a BFU the frame does not have leaves none that it has (`NextIsLowest`) needs `BoostAssumption`: the
boosted BFUs do not get smaller. Conclusions: `BoostMaximal`, `TailUsed`.

**`EncodeSession_proofs`**: all four invariants, for any sizes of words, requests, cuts and number of frames.
`IInv` adds `RefusedInv` (an output exists only for a valid container), `RiffInv` (up to its closing the file
ends behind its whole frames, or past them if a write failed), `RmInv` (how many pieces and which time so many
frames make, and that each piece is the one expected at its place), `FramesInv` (all frames are there while
encoding goes on and behind a success that lost nothing) and `OrderInv` (each frame lies behind all earlier
ones, so that a cut takes the last ones first). The crux of `HeadersAreTrue` is `BackfillTells`, that of
`PacketsInPlace` is `PacketArithmetic`, and that of `SuccessIsWhole` is `OrderKept`: a file that begins like
another one but for a part at its end (`LosesTail`) keeps the order.

**`At3BitStream_proofs`**: all three invariants (`LinesMatch` is `MantissasMatch`, `ChannelsFit` is
`FitsShare`, `TonesDecode` is `TonalsDecode`) and `TypeCorrect`, for any channels, tables, frame sizes and
numbers of units that the assumptions allow. As in ATRAC1 the engine's steps are
`BsEncode`'s, so its invariant holds (`EngineInvariance`), except while the empty side channel of a mono input
is written: that one goes past the search and leaves its results those of the channel before, so `EngineInv`
claims a settled search only outside it. `OwnInv` adds `UnitInv` (the channels of the unit and the turns gone
through), `CacheInv` (an entry of `SpecCache` is of the channel being written, under the word length it is
filed under), `ContextInv` (target and cost curve are those of the channel with the number of BFUs in force;
behind the search, the words and the mode are those of the shift it ended on) and `MantissasMatch`. A channel
fits its share, or costs too much at the coarsest shift already, which is all that `FitsShare` may claim, as
the code writes on then; `ChannelsFit` shows that this never happens to a silent channel: `SilentAlloc` and
`SilentCost` show that its words are empty at any shift, and `ShareHasRoom` that a share of the joint stereo
split, down to the smallest, has room for such a channel beside any gain points.

`TonesDecode` goes through `At3Tonal` in the order of the code. Where stretches begin is a recursive function,
and `FirstIs` says of it, by induction, that a stretch has room for its members and ends only where the next
element does not join it. `TonalBlocksAre` makes of the lines taken out of the spectrum blocks of at most
seven that partition them. No two blocks begin in one BFU (`OneBeginsInBfu`), of which there are 21, so that
the five bits for the number of subgroups are enough (`FewFields`), and at most seven blocks of a subgroup are
in any 64 lines (`SubGroupsAre`, from `FewOfAPiece`), so that no count outgrows its field. A reader has only
the counts and each block's position within its 64 lines: `CountsTell` shows that the running sums of the
counts say which 64 lines are meant (`DecodedAre`). `FieldsOwned` joins the groups: fields of different groups
stand for different blocks, and those of all groups for each block that is left. How a block is quantised
depends on the word of its BFU, so what is written must be word lengths: `WordsAre`, which goes down to
`SquaresHaveRoom`, that the variance under the root of `AnalizeScaleFactorSpread` is not negative.
`TypeCorrect` uses `WordsAre` for the words in `SpecCache` and `ShareHasRoom` for the bytes handed to the
container; its invariants are `KeptInv` and `BytesInv`.

**`At3pBitStream_proofs`**: all three invariants, for any costs of spectral lines that the code books allow,
any frame size that holds the first eight quantisation units at their costliest with the tonal block, and any
number of frames. `IInv` adds `ClockInv` (which frames the two buffers and the delayed tones are of, call by
call) and `PartsInv` (in front of the part being run every buffer holds one entry, made for the number of
units in force; the tonal part's own buffer keeps its entry across a repetition, and the bits it accounts for
are that entry's). The crux is `EightFit`: a unit with eight quantisation units and any tones fits, so that
the repetition stops before it cuts into the bands the tonal block speaks of; the sum it needs is of
`Sums_proofs`.

Assumptions are the shape of tables and inputs, that a unit can hold the fixed part of a frame
(`UnitAssumption`, `BoostAssumption`, `TonalAssumption`), of `At3BitStream` that a scale factor's index has
six bits, as the code asserts (`ChannelAssumption`), and of `At3pGha` that windows lie within the frame and
are 16 samples long at least (`WindowAssumption`), that the budget exceeds two tones a band
(`BudgetAssumption`) and that a band has no more tones than the four bits of its count can say. TLC evaluates
them on the tables and sizes of the runs, which are the real ones except for the budget's, which is scaled
down with the bands.

**Only model-checked**: liveness (`Terminates`, `EndsNormally`, `FrameIsWritten`, `Returns`, `UnitIsWritten`
of both writers, `AnalysisEnds`), which is beyond the prover. Every invariant that a passing run checks is
also proved. Type correctness is proved, as a theorem of its own or within the inductive invariant, and no run
repeats it. What a theorem says of external code, such as libgha's answers, is what the model lets it answer.

## 6. Not modelled

What is planned is in section 2. Out of scope: floating-point signal processing (filter banks, MDCT, FFT,
psychoacoustics, loudness, the quantiser, the transient detector and block switching of ATRAC1, the
dequantiser), which TLC cannot enumerate; libsndfile, Media Foundation, libgha and liboma, which are external
or vendored. By far the most of the repository's lines are of this kind: tables of coefficients and code
books, the tests and the filters. Where their answer matters it is a nondeterministic choice, as in `AtEnd` of
`PcmPipeline`. Allocation failure is left out. Errors of writing and closing are in `EncodeSession`, with any
size of the stream's buffer; where the word of a patch lands after a failed seek is not followed there, and in
`AeaFile` a file is cut instead, anywhere, behind the encoder's end. The syntax of the command line, titles
and the constant fields of headers are left out. The RM output counts time in floating-point milliseconds,
which are frames here.

In `PcmPipeline`, samples of all channels at one position are one; the codec's spectra are not modelled. In
`At1BitAlloc` the two channels are independent frames; the bias of the low band is always zero in the code. In
`At3BitStream` and `At3pBitStream` quantised values and the bits of code words are inputs; a line's place, its
cost and its word length are not. `At3pGha` leaves out amplitudes and phases, beyond whose they are. `At3Gain`
has one band of one channel: in joint stereo that channel is mid or side, of which the code takes both the
sound to divide (`Matrixing`) and the sound to find the curve in; energies scale thresholds and are classes of
sound; whether an attack at a frame's start is strong enough for a point 0 is a choice.

## 7. Findings

`pcm_padding`: `TPCMBuffer::Zero` takes a length in samples, and asserts it so, but passes a count of bytes to
`memset`. The last block of an input that does not end on a block boundary is cleared only for a quarter of
its unused part; the rest keeps audio of the block before, which is then encoded behind the end of the track.

`session_bitrate`: `--bitrate` takes values up to 384, the table of container parameters ends at 352800 bit/s,
which is 344. For 345 and more `lower_bound` returns the end of the table and main uses what lies there as
frame size and stereo mode. The manual's greatest bitrate is 344.

Observations that no run refutes anything with:

- Of an empty input the ATRAC1 encoder makes a file of a header and the dummy unit and reports success. Decoding that
  file ends in an error: its length, five frames less than none, wraps in 64 bits.
- The exit code is chosen before the output's buffer is written out, and nothing looks at what the patches,
  `fflush`, `fsync` and `fclose` return. On a full disk a command may return success and leave a file without its
  last frames, or without any; the length fields of a RIFF file, which a comment in `at3.cpp` says to "reflect the
  actual frame count on disk", then count them. `CloseFails` is that step: without `~lost`, `HeadersTell` and the
  second promise of `ExitTells` would fail after `Create`, `WriteFrame`, `Finish`, `CloseFails`.
- After an error the AEA outputs and inputs close their file and leave the handle to a destructor that closes it again.
  `EncodeSession` has the exit code open there (`Broken`), and `ExitTells` holds with either.
- The field of the PROP chunk that `rm.cpp` comments as `nb packets`, and the same count in the DATA chunk, is given the
  number of frames; a packet holds three of them.
- `DoAnalize`'s record of where envelopes ended is indexed by leader and follower, not by channel, and a frame
  without tones does not renew it. A start point may be left out on evidence of another channel or an earlier
  frame; the encoder's filter and a decoder make the same of it, which is what `TonesRead` says.
- When a fit is rejected its envelope stays with the band, though its tone is taken back.
- Two tones of a band whose indices become equal without being neighbours (1024 wraps to 0) are one afterwards, while
  the count against the budget keeps both.
- A unit cut to few quantisation units may keep tones in bands that have no spectrum any more. The code compares
  the bands of the tonal block with the number of units rather than that of subbands before it gives up.
- `CalcCurve` does not use its parameter `nextLevel`; the branch that looks for a point at location 0
  among its results is never taken.
