------------------------------- MODULE At3pBits -------------------------------
(***************************************************************************)
(* What the parts of an ATRAC3plus unit cost (atrac/at3p/at3p_bitstream.cpp*)
(* over the tables of at3p_tables.h and ff/atrac3plus_data.h): the word    *)
(* lengths, the scale factors, the spectra and the tones of the first n    *)
(* quantisation units. What the lines of a unit cost with the best of the  *)
(* eight code books is given, for all channels.                            *)
(***************************************************************************)
EXTENDS At3pTones

QuantUnits == 0 .. 31

SpecsPerBlock(qu) == IF qu < 8 THEN 16 ELSE IF qu < 16 THEN 32 ELSE IF qu < 22 THEN 64 ELSE 128

\* atrac3p_qu_to_subband, by the units with which subbands 1 .. 15 begin.
FirstUnits    == {8, 12, 16, 18, 20} \cup 22 .. 31
SubbandOf(qu) == Cardinality({first \in FirstUnits : first <= qu})
PowGroups(sb) == 1 + Cardinality({first \in {1, 3, 6, 11} : first <= sb})

\* All frames have these word lengths, in both channels.
AllocTable(qu) ==
  CASE qu <= 16 -> 7 [] qu \in 17 .. 25 -> 6 [] qu \in 26 .. 27 -> 5 [] OTHER -> 32 - qu
ASSUME DeltaAssumption == \A qu \in QuantUnits \ {0} : AllocTable(qu) - AllocTable(qu - 1) \in -1 .. 1

ConfigureBits == 6

\* Differences to the unit before, and to the other channel: as they are 0 or 1
\* either way, FindBestWlDeltaEncode has the first code book only, of 1 and 2 bits.
DeltaLen(delta) == IF delta = 0 THEN 1 ELSE 2
WordLenBits(channels, n) ==
  11 + SumTo([i \in 0 .. n - 2 |-> DeltaLen(AllocTable(i + 1) - AllocTable(i))], n - 1)
     + (IF channels = 2 THEN 6 + n * DeltaLen(0) ELSE 0)

SfIdxBits(channels, n) == channels * (2 + 6 * n)

CodeTabBits(channels, n) == 1 + channels * (4 + 3 * n)
PowerBits(channels, n)   == channels * 4 * PowGroups(SubbandOf(n - 1))
QuantUnitBits(channels, n, spectra) ==
  CodeTabBits(channels, n) + SumTo(spectra, n) + PowerBits(channels, n)

(* -------------------------------- the tones ---------------------------- *)

\* HuffTabs.NumToneBands
NumToneBandsLen(num) == IF num = 1 THEN 1 ELSE IF num = 2 THEN 3 ELSE IF num <= 4 THEN 4
                        ELSE IF num <= 8 THEN 5 ELSE 6

SubbandFlagBits(flags) ==
  IF TRUE \notin Range(flags) THEN 1 ELSE IF FALSE \notin Range(flags) THEN 2 ELSE 2 + Len(flags)

PointBits(p) == IF p = EmptyPoint THEN 1 ELSE 6
Total(f(_), seq) == FoldLeft(LAMBDA sum, x : sum + f(x), 0, seq)

\* Its envelopes, numbers of waves, indices, amplitudes and phases.
ChannelBits(fields, ch) ==
  Total(LAMBDA e : PointBits(e[1]) + PointBits(e[2]), fields.envelopes)
  + ch + 4 * Len(fields.numWaves)
  + Total(LAMBDA p : UsedBits(p.Data) + (IF Len(p.Data) > 1 THEN 1 ELSE 0), fields.freqs)
  + ch + (6 + 5) * Len(fields.amps)
  + (IF ch = 2 THEN 2 ELSE 0)

WriteTonalBlockBits(wire) ==
  LET num == wire.NumToneBands
  IN 1 + NumToneBandsLen(num)
     + (IF Len(wire.Channels) = 2
        THEN SubbandFlagBits([k \in 1 .. num |-> wire.ToneSharing[k - 1]])
             + SubbandFlagBits(<<wire.SecondIsLeader>>) + 1
        ELSE 0)
     + Total(LAMBDA ch : ChannelBits(wire.Channels[ch], ch), [ch \in DOMAIN wire.Channels |-> ch])

\* The flags of a unit without steep windows, gain and noise, and, if it has tones,
\* their block between them.
TonalBits(channels, blockBits) ==
  (IF channels = 2 THEN 2 ELSE 0) + 2 * channels + 1 + blockBits + 3
=============================================================================
