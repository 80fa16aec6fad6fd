------------------------------ MODULE At3pTones ------------------------------
(***************************************************************************)
(* The tonal block of an ATRAC3plus unit: FillResultBuf and FillFolowerRes *)
(* of atrac/at3p/at3p_gha.cpp, which lay out the tones found in two        *)
(* channels for a leader and a follower, WriteTonalBlock and               *)
(* CreateFreqBitPack of at3p_bitstream.cpp, which write them, ApplyFilter, *)
(* by which the encoder takes them out of its signal, and the reader that  *)
(* the syntax implies. A channel's tones are a set of frequency indices    *)
(* and an envelope for each subband; whose amplitude and phase is written  *)
(* with a tone is kept as the channel it is of.                            *)
(***************************************************************************)
EXTENDS Integers, FiniteSets, Sequences, SequencesExt, Rows

CONSTANT Subbands          \* SUBBANDS
ASSUME SubbandsAssumption == Subbands \in Nat \ {0}

Bands        == 0 .. Subbands - 1
FrameSamples == 128        \* SAMPLES_PER_SUBBAND
EmptyPoint   == -1         \* EMPTY_POINT: no start or no stop point
InitPoint    == -2         \* INIT: no envelope there yet

MaxBits == 10

(* -------------------------- leader and follower ------------------------ *)

\* AdjustEnvelope in samples of a subband, to points of four; what it aborts on.
AdjustEnvelope(src, histStop) ==
  <<IF src[1] = 0 /\ histStop = EmptyPoint THEN EmptyPoint ELSE src[1] \div 4,
    IF src[2] = EmptyPoint THEN EmptyPoint ELSE (src[2] - 1) \div 4>>
Aborts(src) ==
  \/ src[1] = EmptyPoint
  \/ src[2] # EmptyPoint /\ src[2] \notin 1 .. FrameSamples

NumToneBandsUsed(channel) ==
  Max({0} \cup {sb + 1 : sb \in {sb \in Bands : channel.tones[sb] # {}}})
Leader(data) ==
  IF Len(data) = 2 /\ NumToneBandsUsed(data[2]) > NumToneBandsUsed(data[1]) THEN 2 ELSE 1

NoWaves == [WaveIndex |-> 0, WaveNums |-> 0, Envelope |-> <<EmptyPoint, EmptyPoint>>]

\* The tones of the bands in own, in order of frequency, those of a band behind those
\* of the bands below.
HistStop(history, sb) == IF sb \in DOMAIN history THEN history[sb] ELSE InitPoint
WavesOf(freqs, ch) == [i \in 1 .. Cardinality(freqs) |-> [FreqIndex |-> Nth(freqs, i), of |-> ch]]
OwnWaves(channel, ch, num, own) ==
  [sb \in 0 .. num - 1 |-> IF sb \in own THEN WavesOf(channel.tones[sb], ch) ELSE << >>]
AddBands(channel, ch, num, own, history) ==
  LET waves == OwnWaves(channel, ch, num, own)
  IN [WaveParams |-> Joined(waves, num),
      WaveSbInfos |-> [sb \in 0 .. num - 1 |->
        IF waves[sb] = << >> THEN NoWaves
        ELSE [WaveIndex |-> SumTo(RowLengths(waves, num), sb), WaveNums |-> Len(waves[sb]),
              Envelope |-> AdjustEnvelope(channel.env[sb], HistStop(history, sb))]]]

\* FillFolowerRes: a follower's band all of whose tones the leader has as well
\* is shared, one without tones is not.
AllFound(freqs, leader)  == freqs # {} /\ freqs \subseteq leader
LastFound(freqs, leader) == freqs # {} /\ Max(freqs) \in leader
SharesBand(freqs, leader) == AllFound(freqs, leader)

(* WaveSbInfos are for all the leader's bands, in both channels.           *)
FillResultBuf(data, history) ==
  LET lead   == Leader(data)
      follow == 3 - lead
      num    == NumToneBandsUsed(data[lead])
      shared == [sb \in 0 .. num - 1 |->
                   Len(data) = 2 /\ SharesBand(data[follow].tones[sb], data[lead].tones[sb])]
      role(r) == IF r = 1 THEN AddBands(data[lead], lead, num, Bands, history[1])
                 ELSE AddBands(data[follow], follow, num, {sb \in Bands : sb < num /\ ~shared[sb]}, history[2])
  IN [NumToneBands |-> num, SecondIsLeader |-> lead = 2, ToneSharing |-> shared,
      Waves |-> [r \in 1 .. Len(data) |-> role(r)]]

(* ------------------------------- on the wire --------------------------- *)

\* GetFirstSetBit: the place of the highest bit set, and 0 for 0.
GetFirstSetBit(x) == Max({b \in 0 .. MaxBits : Pow2[b] <= x} \cup {0})

\* What the width of an index follows from: the one written before it.
AscWidth(prev)  == IF prev < 512 THEN MaxBits ELSE GetFirstSetBit(1023 - prev) + 1
DescWidth(prev) == GetFirstSetBit(prev) + 1

AscPack(freqs) ==
  [i \in DOMAIN freqs |->
     IF i = 1 \/ freqs[i - 1] < 512 THEN [Code |-> freqs[i], Bits |-> MaxBits]
     ELSE LET b == AscWidth(freqs[i - 1]) IN [Code |-> freqs[i] - (1024 - Pow2[b]), Bits |-> b]]
DescPack(freqs) ==
  LET down == Reverse(freqs)
  IN [i \in DOMAIN down |->
        [Code |-> down[i], Bits |-> IF i = 1 THEN MaxBits ELSE DescWidth(down[i - 1])]]
UsedBits(pack) == SumTo([i \in 0 .. Len(pack) - 1 |-> pack[i + 1].Bits], Len(pack))

CreateFreqBitPack(freqs) ==
  IF Len(freqs) = 1 \/ UsedBits(AscPack(freqs)) < UsedBits(DescPack(freqs))
  THEN [Data |-> AscPack(freqs), Desc |-> FALSE]
  ELSE [Data |-> DescPack(freqs), Desc |-> TRUE]

\* GetWaves, and the bands a channel of the result has fields for.
GetWaves(waves, sb) ==
  LET info == waves.WaveSbInfos[sb]
  IN SubSeq(waves.WaveParams, info.WaveIndex + 1, info.WaveIndex + info.WaveNums)
OwnBands(num, sharing, ch) ==
  Ascending({sb \in 0 .. num - 1 : ch = 1 \/ ~sharing[sb]})

Field(value, bits) == value % Pow2[bits]
Point(p) == IF p = EmptyPoint THEN EmptyPoint ELSE Field(p, 5)

WriteChannel(res, ch) ==
  LET waves  == res.Waves[ch]
      own    == OwnBands(res.NumToneBands, res.ToneSharing, ch)
      of(k)  == GetWaves(waves, own[k])
      played == Ascending({k \in DOMAIN own : waves.WaveSbInfos[own[k]].WaveNums # 0})
      freqs(k) == [i \in DOMAIN of(k) |-> of(k)[i].FreqIndex]
  IN [envelopes |-> [k \in DOMAIN own |-> LET e == waves.WaveSbInfos[own[k]].Envelope
                                          IN <<Point(e[1]), Point(e[2])>>],
      numWaves  |-> [k \in DOMAIN own |-> Field(waves.WaveSbInfos[own[k]].WaveNums, 4)],
      freqs     |-> [k \in DOMAIN played |-> CreateFreqBitPack(freqs(played[k]))],
      amps      |-> Joined([k \in 0 .. Len(own) - 1 |-> [i \in DOMAIN of(k + 1) |-> of(k + 1)[i].of]],
                           Len(own))]

WriteTonalBlock(res) ==
  [NumToneBands |-> res.NumToneBands, ToneSharing |-> res.ToneSharing,
   SecondIsLeader |-> res.SecondIsLeader,
   Channels |-> [ch \in DOMAIN res.Waves |-> WriteChannel(res, ch)]]

(* ---------------------- read back, and taken out ----------------------- *)

\* A reader knows an index's width from the one before it; if the writer thought
\* of another width, what it reads is no frequency.
ReadFreqs(pack) ==
  LET width(prev) == IF pack.Desc THEN DescWidth(prev) ELSE AscWidth(prev)
      value(e, prev) ==
        IF e.Bits # width(prev) THEN -1
        ELSE Field(e.Code, e.Bits) + (IF pack.Desc \/ e.Bits = MaxBits THEN 0 ELSE 1024 - Pow2[e.Bits])
      read[i \in DOMAIN pack.Data] ==
        IF i = 1 THEN Field(pack.Data[1].Code, MaxBits) ELSE value(pack.Data[i], read[i - 1])
  IN IF pack.Desc THEN Reverse(read) ELSE read

\* The k-th band of a channel that has fields of its own.
ReadChannel(wire, ch) ==
  LET own    == OwnBands(wire.NumToneBands, wire.ToneSharing, ch)
      fields == wire.Channels[ch]
      before(k) == SumTo([i \in 0 .. Len(own) - 1 |-> fields.numWaves[i + 1]], k - 1)
      pack(k)   == fields.freqs[Cardinality({i \in 1 .. k : fields.numWaves[i] # 0})]
      tones(k)  == IF fields.numWaves[k] = 0 THEN << >>
                   ELSE [i \in 1 .. fields.numWaves[k] |->
                           [FreqIndex |-> ReadFreqs(pack(k))[i], of |-> fields.amps[before(k) + i]]]
      place(sb) == CHOOSE k \in DOMAIN own : own[k] = sb
  IN [sb \in Range(own) |-> [waves |-> tones(place(sb)), env |-> fields.envelopes[place(sb)]]]

\* A shared band sounds as the leader's, and the leader may be the second channel.
BothChannels(num, sharing, second, role) ==
  LET of(c) == IF second THEN 3 - c ELSE c
      info(r, sb) == IF r = 2 /\ sharing[sb] THEN role[1][sb] ELSE role[r][sb]
  IN [c \in DOMAIN role |-> [sb \in 0 .. num - 1 |-> info(of(c), sb)]]

ReadTonalBlock(wire) ==
  BothChannels(wire.NumToneBands, wire.ToneSharing, wire.SecondIsLeader,
               [ch \in DOMAIN wire.Channels |-> ReadChannel(wire, ch)])

\* ApplyFilter's tones_info: the tones that are synthesised and subtracted.
FilteredTones(res) ==
  LET info(ch) == [sb \in Range(OwnBands(res.NumToneBands, res.ToneSharing, ch)) |->
                     [waves |-> GetWaves(res.Waves[ch], sb),
                      env   |-> res.Waves[ch].WaveSbInfos[sb].Envelope]]
  IN BothChannels(res.NumToneBands, res.ToneSharing, res.SecondIsLeader,
                  [ch \in DOMAIN res.Waves |-> info(ch)])
=============================================================================
