------------------------- MODULE At3pBitStream_proofs -------------------------
(***************************************************************************)
(* For any spectra and tones, any settings and number of frames: a unit is *)
(* made of parts that agree and fits its frame, is never cut down to fewer *)
(* quantisation units than its tones have bands, and what is subtracted as *)
(* tones of a frame is told by its unit and the next.                      *)
(***************************************************************************)
EXTENDS At3pBitStream, Sums_proofs, SequenceTheorems

(* ------------------------------ what parts cost ------------------------ *)

\* The sums of the first seven and eight of numbers of at most d.
LEMMA SumOfEight ==
  ASSUME NEW f, NEW d \in Nat, \A k \in 0 .. 7 : f[k] \in 0 .. d
  PROVE  SumTo(f, 7) \in 0 .. 7 * d /\ SumTo(f, 8) \in 0 .. 8 * d
<1>1. /\ SumTo(f, 0) = 0
      /\ SumTo(f, 0 + 1) = SumTo(f, 0) + f[0] /\ SumTo(f, 1 + 1) = SumTo(f, 1) + f[1]
      /\ SumTo(f, 2 + 1) = SumTo(f, 2) + f[2] /\ SumTo(f, 3 + 1) = SumTo(f, 3) + f[3]
      /\ SumTo(f, 4 + 1) = SumTo(f, 4) + f[4] /\ SumTo(f, 5 + 1) = SumTo(f, 5) + f[5]
      /\ SumTo(f, 6 + 1) = SumTo(f, 6) + f[6] /\ SumTo(f, 7 + 1) = SumTo(f, 7) + f[7]
  BY SumToDef
<1>2. 0 + 1 = 1 /\ 1 + 1 = 2 /\ 2 + 1 = 3 /\ 3 + 1 = 4 /\ 4 + 1 = 5 /\ 5 + 1 = 6 /\ 6 + 1 = 7 /\ 7 + 1 = 8
  OBVIOUS
<1>3. /\ f[0] \in 0 .. d /\ f[1] \in 0 .. d /\ f[2] \in 0 .. d /\ f[3] \in 0 .. d
      /\ f[4] \in 0 .. d /\ f[5] \in 0 .. d /\ f[6] \in 0 .. d /\ f[7] \in 0 .. d
  OBVIOUS
<1> QED
  BY <1>1, <1>2, <1>3

LEMMA PowGroupsNat ==
  ASSUME NEW n \in Nat
  PROVE  PowGroups(n) \in Nat
<1>0. 1 \in Int /\ 11 \in Int
  OBVIOUS
<1>1. IsFiniteSet(1 .. 11)
  BY <1>0, FS_Interval
<1>2. {first \in {1, 3, 6, 11} : first <= n} \subseteq 1 .. 11
  OBVIOUS
<1>3. IsFiniteSet({first \in {1, 3, 6, 11} : first <= n})
  BY <1>1, <1>2, FS_Subset
<1> QED
  BY <1>3, FS_CardinalityType DEF PowGroups

LEMMA SubbandNat ==
  ASSUME NEW n \in Nat
  PROVE  SubbandOf(n) \in Nat
<1>0. 0 \in Int /\ 31 \in Int
  OBVIOUS
<1>1. IsFiniteSet(0 .. 31)
  BY <1>0, FS_Interval
<1>2. {first \in FirstUnits : first <= n} \subseteq 0 .. 31
  BY DEF FirstUnits
<1>3. IsFiniteSet({first \in FirstUnits : first <= n})
  BY <1>1, <1>2, FS_Subset
<1> QED
  BY <1>3, FS_CardinalityType DEF SubbandOf

\* The eight first units are in one subband.
LEMMA FirstSubband == PowGroups(SubbandOf(8 - 1)) = 1
<1>1. {first \in FirstUnits : first <= 8 - 1} = {}
  BY DEF FirstUnits
<1>2. SubbandOf(8 - 1) = 0
  BY <1>1, FS_EmptySet DEF SubbandOf
<1>3. {first \in {1, 3, 6, 11} : first <= 0} = {}
  OBVIOUS
<1> QED
  BY <1>2, <1>3, FS_EmptySet DEF PowGroups

\* What a channel's lines and word lengths are sums of.
LEMMA LinesNat ==
  ASSUME NEW c \in {1, 2}, NEW s \in Spectra[c], NEW k \in QuantUnits
  PROVE  s[k] \in Nat /\ (k < 8 => s[k] \in 0 .. 448)
<1>1. s[k] \in 0 .. c * 14 * SpecsPerBlock(k)
  BY SpectraAssumption
<1>2. CASE c = 1
  BY <1>1, <1>2 DEF SpecsPerBlock, QuantUnits
<1>3. CASE c = 2
  BY <1>1, <1>3 DEF SpecsPerBlock, QuantUnits
<1> QED
  BY <1>2, <1>3

Deltas(n) == [i \in 0 .. n - 2 |-> DeltaLen(AllocTable(i + 1) - AllocTable(i))]
LEMMA DeltasNat ==
  ASSUME NEW n \in 1 .. 32
  PROVE  SumTo(Deltas(n), n - 1) \in Nat
<1>1. \A k \in 0 .. (n - 1) - 1 : Deltas(n)[k] \in Nat
  BY DEF Deltas, DeltaLen
<1> QED
  BY <1>1, SumNat

LEMMA WordLenIs ==
  ASSUME NEW c \in {1, 2}, NEW n \in 1 .. 32
  PROVE  WordLenBits(c, n) = 11 + SumTo(Deltas(n), n - 1) + (IF c = 2 THEN 6 + n ELSE 0)
<1>1. WordLenBits(c, n) = 11 + SumTo(Deltas(n), n - 1) + (IF c = 2 THEN 6 + n * DeltaLen(0) ELSE 0)
  BY Zenon DEF WordLenBits, Deltas
<1>2. n * DeltaLen(0) = n
  BY DEF DeltaLen
<1> QED
  BY <1>1, <1>2

Frame(c, n, s, b) ==
  ConfigureBits + WordLenBits(c, n) + SfIdxBits(c, n) + QuantUnitBits(c, n, s) + TonalBits(c, b)

LEMMA PartsNat ==
  ASSUME NEW c \in {1, 2}, NEW n \in 1 .. 32, NEW s \in Spectra[c], NEW b \in Nat
  PROVE  /\ ConfigureBits \in Nat /\ WordLenBits(c, n) \in Nat /\ SfIdxBits(c, n) \in Nat
         /\ QuantUnitBits(c, n, s) \in Nat /\ TonalBits(c, b) \in Nat /\ TonalBits(c, b) # 0
<1>1. WordLenBits(c, n) \in Nat
  BY WordLenIs, DeltasNat
<1>2. SfIdxBits(c, n) \in Nat
  BY DEF SfIdxBits
<1>3. QuantUnitBits(c, n, s) \in Nat
  <2>1. SumTo(s, n) \in Nat
    BY LinesNat, SumNat DEF QuantUnits
  <2>2. PowGroups(SubbandOf(n - 1)) \in Nat
    BY SubbandNat, PowGroupsNat
  <2>3. PowerBits(c, n) \in Nat
    BY <2>2 DEF PowerBits
  <2>4. CodeTabBits(c, n) \in Nat
    BY DEF CodeTabBits
  <2> QED
    BY <2>1, <2>3, <2>4 DEF QuantUnitBits
<1>4. TonalBits(c, b) \in Nat /\ TonalBits(c, b) # 0
  BY DEF TonalBits
<1> QED
  BY <1>1, <1>2, <1>3, <1>4 DEF ConfigureBits

\* Eight quantisation units always fit beside the tones.
LEMMA EightFit ==
  ASSUME NEW c \in {1, 2}, NEW s \in Spectra[c], NEW b \in Nat
  PROVE  Frame(c, 8, s, b) <= EightUnits + b
<1>1. WordLenBits(c, 8) <= 39
  <2>1. \A k \in 0 .. 6 : Deltas(8)[k] \in 0 .. 2
    BY DEF Deltas, DeltaLen
  <2>2. SumTo(Deltas(8), 7) <= 14
    <3> DEFINE g == [k \in 0 .. 7 |-> 2]
    <3>1. SumTo(Deltas(8), 7) <= SumTo(g, 7)
      BY <2>1, SumMono
    <3>2. SumTo(g, 7) \in 0 .. 7 * 2
      <4>1. \A k \in 0 .. 7 : g[k] \in 0 .. 2
        OBVIOUS
      <4>2. 2 \in Nat
        OBVIOUS
      <4> QED
        BY <4>1, <4>2, SumOfEight
    <3>3. SumTo(Deltas(8), 7) \in Nat
      BY <2>1, SumNat
    <3> QED
      BY <3>1, <3>2, <3>3
  <2>3. SumTo(Deltas(8), 8 - 1) \in Nat
    BY DeltasNat
  <2>4. 8 \in 1 .. 32 /\ 8 - 1 = 7
    OBVIOUS
  <2> QED
    BY <2>2, <2>3, <2>4, WordLenIs
<1>2. SfIdxBits(c, 8) <= 100
  BY DEF SfIdxBits
<1>3. QuantUnitBits(c, 8, s) <= 57 + 3584 + 8
  <2>0. 448 \in Nat /\ \A k \in 0 .. 7 : s[k] \in 0 .. 448
    BY LinesNat DEF QuantUnits
  <2>1. SumTo(s, 8) \in Nat /\ SumTo(s, 8) <= 3584
    <3> DEFINE d == 448
    <3>1. d \in Nat /\ \A k \in 0 .. 7 : s[k] \in 0 .. d
      BY <2>0
    <3> HIDE DEF d
    <3>2. SumTo(s, 8) \in 0 .. 8 * d
      BY <3>1, SumOfEight
    <3>3. 8 * d = 3584
      BY DEF d
    <3> QED
      BY <3>1, <3>2, <3>3
  <2>2. CodeTabBits(c, 8) \in 0 .. 57
    BY DEF CodeTabBits
  <2>3. PowerBits(c, 8) \in 0 .. 8
    BY FirstSubband DEF PowerBits
  <2>4. QuantUnitBits(c, 8, s) = CodeTabBits(c, 8) + SumTo(s, 8) + PowerBits(c, 8)
    BY DEF QuantUnitBits
  <2> QED
    BY <2>1, <2>2, <2>3, <2>4
<1>4. TonalBits(c, b) <= 10 + b
  BY DEF TonalBits
<1>5. 8 \in 1 .. 32
  OBVIOUS
<1> QED
  BY <1>1, <1>2, <1>3, <1>4, <1>5, PartsNat DEF Frame, ConfigureBits, EightUnits

(* ----------------------------- the invariant --------------------------- *)

Tones   == {NoTones} \cup [of : Nat \ {0}, block : DOMAIN Tonals[channels]]
Buffers == [frame : Nat, minus : SUBSET Nat]
Entries == [part : Parts, call : Nat, units : Nat, bits : Nat]
Units   == [entries : Seq(Entries), of : Buffers, tonal : Nat]
Default == {"pass_input", "write_tonal", "write_residual"}

\* Types; and an abort or a number of units that no unit can have are far away.
TypeInv ==
  /\ channels \in {1, 2} /\ settings \in UseGha
  /\ frames \in Nat
  /\ tonalBlock \in BOOLEAN
  /\ ResultBuf \in Tones /\ tones_info_prev \in Tones /\ delay \in Tones
  /\ PrevBuf \in Buffers
  /\ CurEncPos \in {Idle, 0, 1, 2, 3, 4, 5}
  /\ NumQuantUnits \in 8 .. 28 \cup {32}
  /\ CurEncPos # Idle => sound \in [spectra : Spectra[channels], tonal : Tones, of : Buffers]
  /\ units \in Seq(Units)

\* Calls, buffers and units keep in step.
ClockInv ==
  /\ CurBuf = NoBuf => frames = 0 /\ CurEncPos = Idle /\ units = << >>
  /\ CurBuf # NoBuf /\ CurEncPos = Idle => frames >= 1 /\ CurBuf = frames /\ Len(units) = frames - 1
  /\ CurEncPos # Idle =>
       /\ CurBuf # NoBuf /\ frames >= 2 /\ CurBuf = frames - 1 /\ NextBuf = frames
       /\ Len(units) = frames - 2

Entry(part, n) == [part |-> part, call |-> frames, units |-> n, bits |-> PartBits(part)]

\* The parts before the current one are of this pass, those from it on are empty,
\* and the tones are laid out if and only if BitsUsed says so.
PartsInv ==
  /\ CurEncPos = Idle => Buf = Empty /\ BitsUsed = 0
  /\ CurEncPos # Idle =>
       /\ DOMAIN Buf = Parts
       /\ \A part \in 0 .. 3 :
            Buf[part] = IF part < CurEncPos THEN <<Entry(part, NumQuantUnits)>> ELSE << >>
       /\ \/ CurEncPos # 5 /\ BitsUsed = 0 /\ Buf[4] = << >>
          \/ BitsUsed = PartBits(4) /\ \E n \in Nat : Buf[4] = <<Entry(4, n)>>
       /\ CurEncPos = 5 =>
            PartBits(0) + PartBits(1) + PartBits(2) + PartBits(3) + PartBits(4) <= SizeBits

\* delay holds the tones of the frame that the next unit is of, and what was taken
\* out of the last one is what it told and what is delayed.
TonesInv ==
  /\ "write_tonal" \notin settings => delay = NoTones /\ (CurEncPos # Idle => sound.tonal = NoTones)
  /\ settings = Default =>
       /\ delay.of \in {0, Len(units)}
       /\ units # << >> => units[Len(units)].of.minus = {units[Len(units)].tonal, delay.of} \ {0}
       /\ CurEncPos = Idle => PrevBuf.frame = Len(units) /\ tones_info_prev.of = delay.of
       /\ CurEncPos # Idle =>
            /\ sound.of.frame = Len(units) /\ sound.tonal.of = delay.of
            /\ sound.of.minus = {delay.of, tones_info_prev.of} \ {0}
            /\ tones_info_prev.of \in {0, Len(units) + 1}
            /\ IF tonalBlock THEN ResultBuf = tones_info_prev ELSE tones_info_prev = NoTones

IInv == TypeInv /\ ClockInv /\ PartsInv /\ TonesInv /\ UnitAgrees /\ TonesInStep

LEMMA ConsumptionOne ==
  ASSUME NEW e, e.bits \in Nat
  PROVE  Consumption(<<e>>) = e.bits
<1> DEFINE f == [i \in 0 .. Len(<<e>>) - 1 |-> <<e>>[i + 1].bits]
<1>1. f[0] = e.bits /\ Len(<<e>>) = 1
  OBVIOUS
<1>2. SumTo(f, 0) = 0 /\ SumTo(f, 0 + 1) = SumTo(f, 0) + f[0]
  BY SumToDef
<1>3. 0 + 1 = 1
  OBVIOUS
<1>4. SumTo(f, 1) = e.bits
  BY <1>1, <1>2, <1>3
<1> QED
  BY <1>1, <1>4 DEF Consumption

\* What the parts cost, in the middle of a unit.
LEMMA PartBitsNat ==
  ASSUME TypeInv, CurEncPos # Idle
  PROVE  /\ \A part \in Parts : PartBits(part) \in Nat
         /\ PartBits(4) # 0
         /\ NumQuantUnits = 8 =>
              PartBits(0) + PartBits(1) + PartBits(2) + PartBits(3) + PartBits(4) <= SizeBits
         /\ BlockOf(sound.tonal).bands <= 8
<1> DEFINE block == BlockOf(sound.tonal)
<1>1. /\ channels \in {1, 2} /\ NumQuantUnits \in 1 .. 32 /\ sound.spectra \in Spectra[channels]
      /\ sound.tonal \in Tones
  BY DEF TypeInv
<1>2. block.bits \in Nat /\ block.bits <= SizeBits - EightUnits /\ block.bands <= 8
  <2>1. CASE sound.tonal.of = 0
    BY <2>1, TonalAssumption DEF BlockOf, NoBlock, SizeBits, EightUnits
  <2>2. CASE sound.tonal.of # 0
    <3>1. sound.tonal.block \in DOMAIN Tonals[channels]
      BY <1>1, <2>2 DEF Tones, NoTones
    <3>2. Tonals[channels][sound.tonal.block] \in [bands : 1 .. Subbands, bits : 1 .. SizeBits - EightUnits]
      BY <1>1, <3>1, TonalAssumption
    <3>3. block = Tonals[channels][sound.tonal.block]
      BY <2>2 DEF BlockOf
    <3>4. SizeBits \in Int /\ EightUnits \in Int /\ Subbands \in 1 .. 8
      BY TonalAssumption DEF SizeBits, EightUnits
    <3> QED
      BY <3>2, <3>3, <3>4
  <2> QED
    BY <2>1, <2>2
<1>3. /\ PartBits(0) = ConfigureBits
      /\ PartBits(1) = WordLenBits(channels, NumQuantUnits)
      /\ PartBits(2) = SfIdxBits(channels, NumQuantUnits)
      /\ PartBits(3) = QuantUnitBits(channels, NumQuantUnits, sound.spectra)
      /\ PartBits(4) = TonalBits(channels, block.bits)
  BY DEF PartBits, TonePart
<1> HIDE DEF block
<1>4. /\ PartBits(0) \in Nat /\ PartBits(1) \in Nat /\ PartBits(2) \in Nat /\ PartBits(3) \in Nat
      /\ PartBits(4) \in Nat /\ PartBits(4) # 0
  BY <1>1, <1>2, <1>3, PartsNat
<1>5. Parts = {0, 1, 2, 3, 4}
  BY DEF Parts
<1>6. ASSUME NumQuantUnits = 8
      PROVE  PartBits(0) + PartBits(1) + PartBits(2) + PartBits(3) + PartBits(4) <= SizeBits
  <2>1. Frame(channels, 8, sound.spectra, block.bits) <= EightUnits + block.bits
    BY <1>1, <1>2, EightFit
  <2>2. Frame(channels, 8, sound.spectra, block.bits)
          = PartBits(0) + PartBits(1) + PartBits(2) + PartBits(3) + PartBits(4)
    BY <1>3, <1>6 DEF Frame
  <2>3. SizeBits \in Int /\ EightUnits \in Int
    BY TonalAssumption DEF SizeBits, EightUnits
  <2> QED
    BY <1>2, <1>4, <2>1, <2>2, <2>3
<1> QED
  BY <1>2, <1>4, <1>5, <1>6 DEF block

LEMMA BandsInt ==
  ASSUME TypeInv, CurEncPos # Idle
  PROVE  BlockOf(sound.tonal).bands \in Int
<1>1. channels \in {1, 2} /\ sound.tonal \in Tones
  BY DEF TypeInv
<1>2. CASE sound.tonal.of = 0
  BY <1>2 DEF BlockOf, NoBlock
<1>3. CASE sound.tonal.of # 0
  <2>1. sound.tonal.block \in DOMAIN Tonals[channels]
    BY <1>1, <1>3 DEF Tones, NoTones
  <2>2. Tonals[channels][sound.tonal.block].bands \in 1 .. Subbands /\ Subbands \in Int
    BY <1>1, <2>1, TonalAssumption
  <2> QED
    BY <1>3, <2>2 DEF BlockOf
<1> QED
  BY <1>2, <1>3

\* At the tones: the buffers once these are laid out, and the bits of all five parts.
LEMMA AtTones ==
  ASSUME TypeInv, PartsInv, CurEncPos = TonePart
  PROVE  /\ DOMAIN WithTones = Parts
         /\ \A part \in 0 .. 3 : WithTones[part] = <<Entry(part, NumQuantUnits)>>
         /\ \E n \in Nat : WithTones[4] = <<Entry(4, n)>>
         /\ BitsOfTones = PartBits(4)
         /\ TotalConsumption = PartBits(0) + PartBits(1) + PartBits(2) + PartBits(3) + PartBits(4)
<1>1. CurEncPos = 4 /\ CurEncPos # Idle /\ TonePart = 4 /\ 4 \in Parts
  BY DEF TonePart, Idle, Parts
<1>2. /\ PartBits(0) \in Nat /\ PartBits(1) \in Nat /\ PartBits(2) \in Nat /\ PartBits(3) \in Nat
      /\ PartBits(4) \in Nat /\ PartBits(4) # 0
  BY <1>1, PartBitsNat DEF Parts
<1>3. DOMAIN Buf = Parts /\ \A part \in 0 .. 3 : Buf[part] = <<Entry(part, NumQuantUnits)>>
  BY <1>1 DEF PartsInv
<1>4. NumQuantUnits \in Nat
  BY DEF TypeInv
<1>5. /\ DOMAIN WithTones = Parts
      /\ \A part \in 0 .. 3 : WithTones[part] = Buf[part]
      /\ \E n \in Nat : WithTones[4] = <<Entry(4, n)>>
  <2>1. CASE BitsUsed = 0
    <3>1. Buf[4] = << >>
      BY <1>1, <1>2, <2>1 DEF PartsInv
    <3>2. WithTones = [Buf EXCEPT ![4] = Append(@, Entry(4, NumQuantUnits))]
      BY <1>1, <2>1 DEF WithTones, Insert, Entry
    <3>3. Append(<< >>, Entry(4, NumQuantUnits)) = <<Entry(4, NumQuantUnits)>>
      OBVIOUS
    <3> QED
      BY <1>1, <1>3, <1>4, <3>1, <3>2, <3>3 DEF Parts
  <2>2. CASE BitsUsed # 0
    BY <1>1, <1>3, <2>2 DEF PartsInv, WithTones
  <2> QED
    BY <2>1, <2>2
<1>6. \A part \in Parts, n \in Nat : Consumption(<<Entry(part, n)>>) = PartBits(part)
  <2>1. SUFFICES ASSUME NEW part \in Parts, NEW n \in Nat
                 PROVE  Consumption(<<Entry(part, n)>>) = PartBits(part)
    OBVIOUS
  <2>2. Entry(part, n).bits = PartBits(part) /\ PartBits(part) \in Nat
    BY <1>1, PartBitsNat DEF Entry
  <2> QED
    BY <2>2, ConsumptionOne
<1>7. BitsOfTones = PartBits(4)
  <2>1. CASE BitsUsed = 0
    BY <1>1, <1>5, <1>6, <2>1 DEF BitsOfTones
  <2>2. CASE BitsUsed # 0
    BY <1>1, <2>2 DEF BitsOfTones, PartsInv
  <2> QED
    BY <2>1, <2>2
<1>8. GlobalConsumption = PartBits(0) + PartBits(1) + PartBits(2) + PartBits(3)
  BY <1>3, <1>4, <1>6 DEF GlobalConsumption, Parts
<1>9. TotalConsumption = PartBits(0) + PartBits(1) + PartBits(2) + PartBits(3) + PartBits(4)
  BY <1>2, <1>7, <1>8 DEF TotalConsumption
<1> QED
  BY <1>3, <1>5, <1>7, <1>9

LEMMA OneMore ==
  ASSUME NEW S, NEW s \in Seq(S), NEW t \in Seq(S), Len(t) = Len(s) + 1, \A i \in 1 .. Len(s) : t[i] = s[i]
  PROVE  s \o <<t[Len(t)]>> = t
<1> DEFINE x == t[Len(t)]
<1>1. x \in S
  OBVIOUS
<1>2. s \o <<x>> = Append(s, x)
  BY <1>1, AppendIsConcat
<1> HIDE DEF x
<1>3. Append(s, x) \in Seq(S) /\ Len(Append(s, x)) = Len(t)
  BY <1>1
<1>4. \A i \in 1 .. Len(t) : Append(s, x)[i] = t[i]
  BY DEF x
<1>5. Append(s, x) = t
  BY <1>3, <1>4, SeqEqual
<1> QED
  BY <1>2, <1>5 DEF x

LEMMA InARow ==
  ASSUME NEW a, NEW b, NEW c, NEW d, NEW e
  PROVE  <<a>> \o <<b>> \o <<c>> \o <<d>> \o <<e>> = <<a, b, c, d, e>>
<1> DEFINE S == {a, b, c, d, e}
<1>1. /\ <<a>> \in Seq(S) /\ <<a, b>> \in Seq(S) /\ <<a, b, c>> \in Seq(S) /\ <<a, b, c, d>> \in Seq(S)
      /\ <<a, b, c, d, e>> \in Seq(S)
  OBVIOUS
<1> HIDE DEF S
<1>2. <<a>> \o <<b>> = <<a, b>>
  <2>1. Len(<<a, b>>) = Len(<<a>>) + 1 /\ <<a, b>>[Len(<<a, b>>)] = b
        /\ \A i \in 1 .. Len(<<a>>) : <<a, b>>[i] = <<a>>[i]
    OBVIOUS
  <2> QED
    BY <1>1, <2>1, OneMore, Zenon
<1>3. <<a, b>> \o <<c>> = <<a, b, c>>
  <2>1. Len(<<a, b, c>>) = Len(<<a, b>>) + 1 /\ <<a, b, c>>[Len(<<a, b, c>>)] = c
        /\ \A i \in 1 .. Len(<<a, b>>) : <<a, b, c>>[i] = <<a, b>>[i]
    OBVIOUS
  <2> QED
    BY <1>1, <2>1, OneMore, Zenon
<1>4. <<a, b, c>> \o <<d>> = <<a, b, c, d>>
  <2>1. Len(<<a, b, c, d>>) = Len(<<a, b, c>>) + 1 /\ <<a, b, c, d>>[Len(<<a, b, c, d>>)] = d
        /\ \A i \in 1 .. Len(<<a, b, c>>) : <<a, b, c, d>>[i] = <<a, b, c>>[i]
    OBVIOUS
  <2> QED
    BY <1>1, <2>1, OneMore, Zenon
<1>5. <<a, b, c, d>> \o <<e>> = <<a, b, c, d, e>>
  <2>1. /\ Len(<<a, b, c, d, e>>) = Len(<<a, b, c, d>>) + 1
        /\ <<a, b, c, d, e>>[Len(<<a, b, c, d, e>>)] = e
        /\ \A i \in 1 .. Len(<<a, b, c, d>>) : <<a, b, c, d, e>>[i] = <<a, b, c, d>>[i]
    OBVIOUS
  <2> QED
    BY <1>1, <2>1, OneMore, Zenon
<1> QED
  BY <1>2, <1>3, <1>4, <1>5, Zenon

\* What is dumped: one entry of each part.
LEMMA Dumped ==
  ASSUME TypeInv, PartsInv, CurEncPos = 5
  PROVE  \E n \in Nat :
           Buf[0] \o Buf[1] \o Buf[2] \o Buf[3] \o Buf[4]
             = <<Entry(0, NumQuantUnits), Entry(1, NumQuantUnits), Entry(2, NumQuantUnits),
                 Entry(3, NumQuantUnits), Entry(4, n)>>
<1>1. CurEncPos # Idle
  BY DEF Idle
<1>2. /\ Buf[0] = <<Entry(0, NumQuantUnits)>> /\ Buf[1] = <<Entry(1, NumQuantUnits)>>
      /\ Buf[2] = <<Entry(2, NumQuantUnits)>> /\ Buf[3] = <<Entry(3, NumQuantUnits)>>
  BY <1>1 DEF PartsInv
<1>3. PICK n \in Nat : Buf[4] = <<Entry(4, n)>>
  BY <1>1 DEF PartsInv
<1> QED
  BY <1>2, <1>3, InARow

\* Five entries fit if their bits do.
LEMMA FiveFit ==
  ASSUME NEW a, NEW b, NEW c, NEW d, NEW e,
         a.bits \in Nat, b.bits \in Nat, c.bits \in Nat, d.bits \in Nat, e.bits \in Nat
  PROVE  Consumption(<<a, b, c, d, e>>) = a.bits + b.bits + c.bits + d.bits + e.bits
<1> DEFINE s == <<a, b, c, d, e>>
           f == [i \in 0 .. Len(s) - 1 |-> s[i + 1].bits]
<1>1. Len(s) = 5 /\ f[0] = a.bits /\ f[1] = b.bits /\ f[2] = c.bits /\ f[3] = d.bits /\ f[4] = e.bits
  OBVIOUS
<1>2. /\ SumTo(f, 0) = 0
      /\ SumTo(f, 0 + 1) = SumTo(f, 0) + f[0] /\ SumTo(f, 1 + 1) = SumTo(f, 1) + f[1]
      /\ SumTo(f, 2 + 1) = SumTo(f, 2) + f[2] /\ SumTo(f, 3 + 1) = SumTo(f, 3) + f[3]
      /\ SumTo(f, 4 + 1) = SumTo(f, 4) + f[4]
  BY SumToDef
<1>3. 0 + 1 = 1 /\ 1 + 1 = 2 /\ 2 + 1 = 3 /\ 3 + 1 = 4 /\ 4 + 1 = 5
  OBVIOUS
<1>4. Consumption(s) = SumTo(f, 5)
  BY <1>1 DEF Consumption
<1> HIDE DEF f, s
<1>5. SumTo(f, 5) = a.bits + b.bits + c.bits + d.bits + e.bits
  BY <1>1, <1>2, <1>3
<1> QED
  BY <1>4, <1>5 DEF s

(* ------------------------------ its induction -------------------------- *)

LEMMA InitIInv ==
  ASSUME Init
  PROVE  IInv
<1>1. NoTones \in Tones /\ Silence \in Buffers /\ NoTones.of = 0
  BY DEF Tones, NoTones, Silence, Buffers
<1>2. TypeInv
  <2>1. units \in Seq(Units)
    BY DEF Init
  <2>2. tonalBlock \in BOOLEAN /\ NumQuantUnits \in 8 .. 28 \cup {32}
    BY DEF Init
  <2>3. CurEncPos = Idle
    BY DEF Init
  <2> QED
    BY <1>1, <2>1, <2>2, <2>3 DEF Init, TypeInv
<1>3. ClockInv /\ PartsInv
  BY DEF Init, ClockInv, PartsInv, Idle, NoBuf
<1>4. TonesInv
  BY <1>1 DEF Init, TonesInv, Idle, Silence
<1>5. UnitAgrees /\ TonesInStep
  BY DEF Init, UnitAgrees, TonesInStep
<1> QED
  BY <1>2, <1>3, <1>4, <1>5 DEF IInv

\* What BeginFrame makes of the tones it finds.
LEMMA Begins ==
  ASSUME TypeInv, ClockInv, BeginFrame
  PROVE  /\ tones_info_prev' \in Tones /\ tones_info_prev'.of \in {0, CurBuf}
         /\ ResultBuf' \in Tones /\ tonalBlock' \in BOOLEAN
         /\ IF tonalBlock' THEN ResultBuf' = tones_info_prev' ELSE tones_info_prev' = NoTones
         /\ PrevBuf' \in Buffers /\ PrevBuf'.frame = PrevBuf.frame
         /\ PrevBuf'.minus = {tones_info_prev.of, tones_info_prev'.of} \ {0}
         /\ \E spectra \in Spectra[channels] :
              sound' = [spectra |-> spectra, tonal |-> delay,
                        of |-> IF "write_residual" \in settings THEN PrevBuf' ELSE Silence]
<1>1. CurBuf \in Nat \ {0}
  BY DEF BeginFrame, ClockInv, TypeInv, NoBuf, Idle
<1>2. PICK found \in {NoTones} \cup [of : {CurBuf}, block : DOMAIN Tonals[channels]],
           spectra \in Spectra[channels] :
        /\ tonalBlock' = (found # NoTones)
        /\ ResultBuf' = IF found # NoTones THEN found ELSE ResultBuf
        /\ tones_info_prev' = found
        /\ PrevBuf' = [PrevBuf EXCEPT !.minus = Filter(found) \cup Filter(tones_info_prev)]
        /\ sound' = [spectra |-> spectra, tonal |-> delay,
                     of |-> IF "write_residual" \in settings THEN PrevBuf' ELSE Silence]
  BY DEF BeginFrame
<1>3. found \in Tones /\ found.of \in {0, CurBuf} /\ found.of \in Nat
  BY <1>1, <1>2 DEF Tones, NoTones
<1>4. tones_info_prev \in Tones /\ tones_info_prev.of \in Nat
  BY DEF TypeInv, Tones, NoTones
<1>5. PrevBuf' \in Buffers /\ PrevBuf'.frame = PrevBuf.frame
      /\ PrevBuf'.minus = {tones_info_prev.of, tones_info_prev'.of} \ {0}
  BY <1>2, <1>3, <1>4 DEF TypeInv, Buffers, Filter
<1>6. tonalBlock' \in BOOLEAN
  BY <1>2, Zenon
<1>7. IF tonalBlock' THEN ResultBuf' = tones_info_prev' ELSE tones_info_prev' = NoTones
  BY <1>2, Zenon
<1> QED
  BY <1>2, <1>3, <1>5, <1>6, <1>7 DEF TypeInv

\* What Dump makes of the parts: a unit.
LEMMA Dumps ==
  ASSUME TypeInv, ClockInv, PartsInv, Dump
  PROVE  \E e \in Seq(Entries) :
           /\ units' = Append(units, [entries |-> e, of |-> sound.of, tonal |-> sound.tonal.of])
           /\ \E n \in Nat :
                e = <<Entry(0, NumQuantUnits), Entry(1, NumQuantUnits), Entry(2, NumQuantUnits),
                      Entry(3, NumQuantUnits), Entry(4, n)>>
           /\ sound.of \in Buffers /\ sound.tonal.of \in Nat
<1>1. CurEncPos = 5 /\ CurEncPos # Idle
  BY DEF Dump, TonePart, Idle
<1>2. PICK n \in Nat :
        Buf[0] \o Buf[1] \o Buf[2] \o Buf[3] \o Buf[4]
          = <<Entry(0, NumQuantUnits), Entry(1, NumQuantUnits), Entry(2, NumQuantUnits),
              Entry(3, NumQuantUnits), Entry(4, n)>>
  BY <1>1, Dumped
<1>3. \A part \in Parts, m \in Nat : Entry(part, m) \in Entries
  BY <1>1, PartBitsNat DEF Entry, Entries, TypeInv
<1>4. NumQuantUnits \in Nat /\ 0 \in Parts /\ 1 \in Parts /\ 2 \in Parts /\ 3 \in Parts /\ 4 \in Parts
  BY DEF TypeInv, Parts
<1>5. <<Entry(0, NumQuantUnits), Entry(1, NumQuantUnits), Entry(2, NumQuantUnits),
        Entry(3, NumQuantUnits), Entry(4, n)>> \in Seq(Entries)
  BY <1>3, <1>4
<1>6. sound.of \in Buffers /\ sound.tonal \in Tones
  BY <1>1 DEF TypeInv
<1>7. sound.tonal.of \in Nat
  BY <1>6 DEF Tones, NoTones
<1> QED
  BY <1>2, <1>5, <1>6, <1>7 DEF Dump

LEMMA OneUnit ==
  ASSUME TypeInv, ClockInv, PartsInv, Dump
  PROVE  \E u \in Units : units' = Append(units, u) /\ u.of = sound.of /\ u.tonal = sound.tonal.of
<1>1. PICK e \in Seq(Entries) :
        /\ units' = Append(units, [entries |-> e, of |-> sound.of, tonal |-> sound.tonal.of])
        /\ sound.of \in Buffers /\ sound.tonal.of \in Nat
  BY Dumps
<1> DEFINE u == [entries |-> e, of |-> sound.of, tonal |-> sound.tonal.of]
<1>2. u \in Units
  BY <1>1 DEF Units
<1>3. u.of = sound.of /\ u.tonal = sound.tonal.of
  OBVIOUS
<1> QED
  BY <1>1, <1>2, <1>3

LEMMA TypeStep ==
  ASSUME TypeInv, ClockInv, PartsInv, [Next]_vars
  PROVE  TypeInv'
<1>1. CASE LookAhead
  BY <1>1 DEF LookAhead, TypeInv, input, tonal, Tones
<1>2. CASE BeginFrame
  <2>1. Silence \in Buffers
    BY DEF Silence, Buffers
  <2>2. sound' \in [spectra : Spectra[channels], tonal : Tones, of : Buffers]
    BY <1>2, <2>1, Begins DEF TypeInv
  <2>3. UNCHANGED <<channels, settings, delay, units>> /\ frames' = frames + 1
        /\ CurEncPos' = 0 /\ NumQuantUnits' = 32
    BY <1>2 DEF BeginFrame, input
  <2>4. Tones' = Tones
    BY <2>3 DEF Tones
  <2>5. NumQuantUnits' \in 8 .. 28 \cup {32}
    BY <2>3
  <2> QED
    BY <1>2, <2>2, <2>3, <2>4, <2>5, Begins DEF TypeInv
<1>3. CASE EncodePart
  BY <1>3 DEF EncodePart, TypeInv, input, pcm, tonal, Tones, Parts, TonePart, Idle
<1>4. CASE FrameDone
  BY <1>4 DEF FrameDone, TypeInv, input, pcm, tonal, Tones, TonePart, Idle
<1>5. CASE Repeat
  <2>1. CurEncPos = TonePart /\ CurEncPos # Idle /\ TotalConsumption > SizeBits
    BY <1>5 DEF Repeat, TonePart, Idle
  <2>2. NumQuantUnits # 8
    <3>1. SUFFICES ASSUME NumQuantUnits = 8 PROVE FALSE
      OBVIOUS
    <3>2. TotalConsumption <= SizeBits
      BY <2>1, <3>1, AtTones, PartBitsNat
    <3>3. TotalConsumption \in Int /\ SizeBits \in Int
      <4>1. /\ PartBits(0) \in Nat /\ PartBits(1) \in Nat /\ PartBits(2) \in Nat /\ PartBits(3) \in Nat
            /\ PartBits(4) \in Nat
        BY <2>1, PartBitsNat DEF Parts
      <4>2. TotalConsumption \in Int
        BY <2>1, <4>1, AtTones
      <4> QED
        BY <4>2, TonalAssumption DEF SizeBits
    <3> QED
      BY <2>1, <3>2, <3>3
  <2>3. NumQuantUnits' \in 8 .. 28 \cup {32}
    BY <1>5, <2>2 DEF Repeat, FewerUnits, TypeInv
  <2> QED
    BY <1>5, <2>1, <2>3 DEF Repeat, TypeInv, input, pcm, tonal, Tones
<1>6. CASE Dump
  <2>1. units' \in Seq(Units)
    BY <1>6, OneUnit DEF TypeInv
  <2>2. PrevBuf' \in Buffers
    BY <1>6 DEF Dump, Buffers, ClockInv, TypeInv, TonePart, Idle
  <2>3. NoTones \in Tones
    BY DEF Tones
  <2>4. delay' \in Tones
    BY <1>6, <2>3 DEF Dump, Kept, TypeInv
  <2>5. CurEncPos' = Idle /\ UNCHANGED <<channels, settings, frames, tonalBlock, ResultBuf, tones_info_prev,
                                         NumQuantUnits>>
    BY <1>6 DEF Dump, input
  <2>6. Tones' = Tones
    BY <2>5 DEF Tones
  <2> QED
    BY <2>1, <2>2, <2>4, <2>5, <2>6 DEF TypeInv
<1>7. CASE UNCHANGED vars
  BY <1>7 DEF vars, input, pcm, tonal, TypeInv, Tones
<1> QED
  BY <1>1, <1>2, <1>3, <1>4, <1>5, <1>6, <1>7 DEF Next, Writing

LEMMA ClockStep ==
  ASSUME TypeInv, ClockInv, PartsInv, [Next]_vars
  PROVE  ClockInv'
<1>1. CASE LookAhead
  BY <1>1 DEF LookAhead, ClockInv, TypeInv, NoBuf, Idle
<1>2. CASE BeginFrame
  BY <1>2 DEF BeginFrame, ClockInv, TypeInv, NoBuf, Idle
<1>3. CASE EncodePart
  BY <1>3 DEF EncodePart, ClockInv, TypeInv, pcm, Parts, TonePart, NoBuf, Idle
<1>4. CASE FrameDone
  BY <1>4 DEF FrameDone, ClockInv, TypeInv, pcm, TonePart, NoBuf, Idle
<1>5. CASE Repeat
  BY <1>5 DEF Repeat, ClockInv, TypeInv, pcm, TonePart, NoBuf, Idle
<1>6. CASE Dump
  <2>1. Len(units') = Len(units) + 1
    BY <1>6, OneUnit DEF TypeInv
  <2>2. CurEncPos # Idle /\ CurEncPos' = Idle /\ CurBuf' = NextBuf /\ frames' = frames
    BY <1>6 DEF Dump, TonePart, Idle
  <2> QED
    BY <2>1, <2>2 DEF ClockInv, TypeInv, NoBuf
<1>7. CASE UNCHANGED vars
  BY <1>7 DEF vars, pcm, ClockInv
<1> QED
  BY <1>1, <1>2, <1>3, <1>4, <1>5, <1>6, <1>7 DEF Next, Writing

LEMMA PartsStep ==
  ASSUME TypeInv, ClockInv, PartsInv, [Next]_vars
  PROVE  PartsInv'
<1> DEFINE AllBits == PartBits(0) + PartBits(1) + PartBits(2) + PartBits(3) + PartBits(4)
<1>0. Parts = {0, 1, 2, 3, 4} /\ TonePart = 4 /\ Idle \notin Parts /\ Idle # 5
  BY DEF Parts, TonePart, Idle
<1>1. CASE LookAhead
  BY <1>1 DEF LookAhead, PartsInv
<1>2. CASE BeginFrame
  <2>1. CurEncPos = Idle /\ CurEncPos' = 0 /\ Buf' = Empty /\ BitsUsed' = 0
    BY <1>2 DEF BeginFrame, PartsInv
  <2>2. DOMAIN Empty = Parts /\ \A part \in Parts : Empty[part] = << >>
    BY DEF Empty
  <2> QED
    BY <1>0, <2>1, <2>2 DEF PartsInv
<1>3. CASE EncodePart
  <2>1. /\ CurEncPos \in 0 .. 3 /\ CurEncPos # Idle /\ CurEncPos' = CurEncPos + 1
        /\ Buf' = [Buf EXCEPT ![CurEncPos] = Append(@, Entry(CurEncPos, NumQuantUnits))]
        /\ UNCHANGED <<channels, frames, sound, NumQuantUnits, BitsUsed>>
    BY <1>0, <1>3 DEF EncodePart, Insert, Entry, input
  <2>2. \A part, n : Entry(part, n)' = Entry(part, n) /\ PartBits(part)' = PartBits(part)
    BY <2>1 DEF Entry, PartBits
  <2>3. Buf[CurEncPos] = << >> /\ DOMAIN Buf = Parts
    BY <2>1 DEF PartsInv
  <2>4. Append(<< >>, Entry(CurEncPos, NumQuantUnits)) = <<Entry(CurEncPos, NumQuantUnits)>>
    OBVIOUS
  <2>5. DOMAIN Buf' = Parts /\ Buf'[CurEncPos] = <<Entry(CurEncPos, NumQuantUnits)>>
        /\ \A part \in Parts \ {CurEncPos} : Buf'[part] = Buf[part]
    BY <1>0, <2>1, <2>3, <2>4
  <2>6. \A part \in 0 .. 3 :
          Buf'[part] = IF part < CurEncPos' THEN <<Entry(part, NumQuantUnits)>> ELSE << >>
    <3>1. SUFFICES ASSUME NEW part \in 0 .. 3
                   PROVE  Buf'[part] = IF part < CurEncPos' THEN <<Entry(part, NumQuantUnits)>> ELSE << >>
      OBVIOUS
    <3>2. CASE part = CurEncPos
      <4>1. part < CurEncPos'
        BY <2>1, <3>2
      <4>2. Buf'[part] = <<Entry(part, NumQuantUnits)>>
        BY <2>5, <3>2, Zenon
      <4> QED
        BY <4>1, <4>2
    <3>3. CASE part # CurEncPos
      <4>1. Buf'[part] = Buf[part]
        BY <1>0, <2>5, <3>3
      <4>2. Buf[part] = IF part < CurEncPos THEN <<Entry(part, NumQuantUnits)>> ELSE << >>
        BY <2>1 DEF PartsInv
      <4>3. part < CurEncPos' <=> part < CurEncPos
        BY <2>1, <3>3
      <4> QED
        BY <4>1, <4>2, <4>3
    <3> QED
      BY <3>2, <3>3
  <2>7. Buf'[4] = Buf[4] /\ CurEncPos' # 5 /\ CurEncPos' # Idle
    BY <1>0, <2>1, <2>5 DEF Idle
  <2>8. (BitsUsed = 0 /\ Buf[4] = << >>) \/ (BitsUsed = PartBits(4) /\ \E n \in Nat : Buf[4] = <<Entry(4, n)>>)
    BY <2>1 DEF PartsInv
  <2> QED
    BY <2>1, <2>2, <2>5, <2>6, <2>7, <2>8 DEF PartsInv
<1>4. CASE FrameDone
  <2>1. /\ CurEncPos = TonePart /\ CurEncPos' = 5 /\ Buf' = WithTones /\ BitsUsed' = BitsOfTones
        /\ TotalConsumption <= SizeBits /\ UNCHANGED <<channels, frames, sound, NumQuantUnits>>
    BY <1>0, <1>4 DEF FrameDone, input
  <2>2. \A part, n : Entry(part, n)' = Entry(part, n) /\ PartBits(part)' = PartBits(part)
    BY <2>1 DEF Entry, PartBits
  <2>3. /\ DOMAIN WithTones = Parts
        /\ \A part \in 0 .. 3 : WithTones[part] = <<Entry(part, NumQuantUnits)>>
        /\ \E n \in Nat : WithTones[4] = <<Entry(4, n)>>
        /\ BitsOfTones = PartBits(4) /\ AllBits <= SizeBits
    BY <2>1, AtTones
  <2>4. \A part \in 0 .. 3 : part < CurEncPos'
    BY <2>1
  <2> QED
    BY <1>0, <2>1, <2>2, <2>3, <2>4 DEF PartsInv
<1>5. CASE Repeat
  <2>1. /\ CurEncPos = TonePart /\ CurEncPos' = 0 /\ BitsUsed' = BitsOfTones
        /\ Buf' = [Empty EXCEPT ![4] = WithTones[4]]
        /\ UNCHANGED <<channels, frames, sound>>
    BY <1>0, <1>5 DEF Repeat, Reset, input, TonePart
  <2>2. PartBits(4)' = PartBits(4) /\ \A n : Entry(4, n)' = Entry(4, n)
    BY <1>0, <2>1 DEF Entry, PartBits
  <2>3. BitsOfTones = PartBits(4) /\ \E n \in Nat : WithTones[4] = <<Entry(4, n)>>
    BY <2>1, AtTones
  <2>4. DOMAIN Buf' = Parts /\ Buf'[4] = WithTones[4] /\ \A part \in 0 .. 3 : Buf'[part] = << >>
    BY <1>0, <2>1 DEF Empty
  <2> QED
    BY <1>0, <2>1, <2>2, <2>3, <2>4 DEF PartsInv
<1>6. CASE Dump
  BY <1>6 DEF Dump, PartsInv, BitsCleared
<1>7. CASE UNCHANGED vars
  <2>1. UNCHANGED <<channels, frames, sound, CurEncPos, NumQuantUnits, Buf, BitsUsed>>
    BY <1>7 DEF vars, input
  <2>2. \A part, n : Entry(part, n)' = Entry(part, n) /\ PartBits(part)' = PartBits(part)
    BY <2>1 DEF Entry, PartBits
  <2> QED
    BY <2>1, <2>2 DEF PartsInv
<1> QED
  BY <1>1, <1>2, <1>3, <1>4, <1>5, <1>6, <1>7 DEF Next, Writing

LEMMA TonesStep ==
  ASSUME TypeInv, ClockInv, PartsInv, TonesInv, [Next]_vars
  PROVE  TonesInv'
<1>1. CASE LookAhead
  BY <1>1 DEF LookAhead, TonesInv, input, tonal
<1>2. CASE BeginFrame
  <2>1. CurEncPos = Idle /\ CurEncPos' # Idle /\ UNCHANGED <<settings, delay, units>>
    BY <1>2 DEF BeginFrame, input, Idle
  <2>2. sound'.tonal = delay /\ ("write_residual" \in settings => sound'.of = PrevBuf')
    BY <1>2, Begins
  <2>3. CurBuf = Len(units) + 1
    BY <1>2 DEF BeginFrame, ClockInv, TypeInv
  <2>4. PrevBuf'.frame = PrevBuf.frame /\ PrevBuf'.minus = {tones_info_prev.of, tones_info_prev'.of} \ {0}
        /\ tones_info_prev'.of \in {0, CurBuf}
    BY <1>2, Begins
  <2>5. IF tonalBlock' THEN ResultBuf' = tones_info_prev' ELSE tones_info_prev' = NoTones
    BY <1>2, Begins
  <2>6. CASE settings = Default
    <3>1. "write_residual" \in settings /\ "write_tonal" \in settings
      BY <2>6 DEF Default
    <3>2. PrevBuf.frame = Len(units) /\ tones_info_prev.of = delay.of /\ delay.of \in {0, Len(units)}
          /\ (units # << >> => units[Len(units)].of.minus = {units[Len(units)].tonal, delay.of} \ {0})
      BY <2>1, <2>6 DEF TonesInv
    <3>3. sound'.of.frame = Len(units) /\ sound'.of.minus = {delay.of, tones_info_prev'.of} \ {0}
      BY <2>2, <2>4, <3>1, <3>2
    <3> QED
      BY <2>1, <2>2, <2>3, <2>4, <2>5, <3>1, <3>2, <3>3 DEF TonesInv
  <2>7. CASE settings # Default
    BY <2>1, <2>2, <2>7 DEF TonesInv
  <2> QED
    BY <2>6, <2>7
<1>3. CASE EncodePart \/ FrameDone \/ Repeat
  <2>1. CurEncPos # Idle /\ CurEncPos' # Idle /\ UNCHANGED <<settings, tonalBlock, ResultBuf, tones_info_prev,
                                                              delay, sound, units>>
    BY <1>3 DEF EncodePart, FrameDone, Repeat, input, tonal, Parts, TonePart, Idle
  <2> QED
    BY <2>1 DEF TonesInv
<1>4. CASE Dump
  <2>1. /\ CurEncPos # Idle /\ CurEncPos' = Idle /\ UNCHANGED <<settings, tones_info_prev>>
        /\ delay' = Kept(tonalBlock /\ "write_tonal" \in settings)
        /\ PrevBuf'.frame = IF "pass_input" \in settings THEN CurBuf ELSE 0
    BY <1>4 DEF Dump, input, TonePart, Idle
  <2>2. PICK u \in Units : units' = Append(units, u) /\ u.of = sound.of /\ u.tonal = sound.tonal.of
    BY <1>4, OneUnit
  <2>3. Len(units') = Len(units) + 1 /\ units'[Len(units')] = u /\ units' # << >>
    BY <2>2 DEF TypeInv
  <2>4. CurBuf = Len(units) + 1
    BY <2>1 DEF ClockInv, TypeInv
  <2>5. CASE settings = Default
    <3>1. "pass_input" \in settings /\ "write_tonal" \in settings
      BY <2>5 DEF Default
    <3>2. /\ sound.tonal.of = delay.of /\ sound.of.minus = {delay.of, tones_info_prev.of} \ {0}
          /\ tones_info_prev.of \in {0, Len(units) + 1}
          /\ IF tonalBlock THEN ResultBuf = tones_info_prev ELSE tones_info_prev = NoTones
      BY <2>1, <2>5 DEF TonesInv
    <3>3. delay' = tones_info_prev
      BY <2>1, <3>1, <3>2, Zenon DEF Kept
    <3>4. units'[Len(units')].of.minus = {units'[Len(units')].tonal, delay'.of} \ {0}
      BY <2>2, <2>3, <3>2, <3>3
    <3> QED
      BY <2>1, <2>3, <2>4, <3>1, <3>2, <3>3, <3>4 DEF TonesInv
  <2>6. CASE settings # Default
    <3>1. "write_tonal" \notin settings => delay' = NoTones
      BY <2>1 DEF Kept
    <3> QED
      BY <2>1, <2>6, <3>1 DEF TonesInv
  <2> QED
    BY <2>5, <2>6
<1>5. CASE UNCHANGED vars
  BY <1>5 DEF vars, input, pcm, tonal, TonesInv
<1> QED
  BY <1>1, <1>2, <1>3, <1>4, <1>5 DEF Next, Writing

\* Every unit but a new one stays as it was.
LEMMA Appended ==
  ASSUME units \in Seq(Units), NEW u \in Units, units' = Append(units, u)
  PROVE  /\ DOMAIN units' = DOMAIN units \cup {Len(units) + 1} /\ Len(units) \in Nat
         /\ DOMAIN units = 1 .. Len(units)
         /\ \A k \in DOMAIN units : units'[k] = units[k]
         /\ units'[Len(units) + 1] = u
  OBVIOUS

LEMMA AgreeStep ==
  ASSUME TypeInv, ClockInv, PartsInv, UnitAgrees, [Next]_vars
  PROVE  UnitAgrees'
<1>1. CASE Dump
  <2>1. CurEncPos = 5 /\ CurEncPos # Idle
    BY <1>1 DEF Dump, TonePart, Idle
  <2>2. PICK e \in Seq(Entries), n \in Nat :
          /\ units' = Append(units, [entries |-> e, of |-> sound.of, tonal |-> sound.tonal.of])
          /\ e = <<Entry(0, NumQuantUnits), Entry(1, NumQuantUnits), Entry(2, NumQuantUnits),
                   Entry(3, NumQuantUnits), Entry(4, n)>>
          /\ sound.of \in Buffers /\ sound.tonal.of \in Nat
    BY <1>1, Dumps
  <2> DEFINE u == [entries |-> e, of |-> sound.of, tonal |-> sound.tonal.of]
  <2>3. u \in Units /\ u.entries = e
    BY <2>2 DEF Units
  <2> HIDE DEF u
  <2>4. /\ DOMAIN units' = DOMAIN units \cup {Len(units) + 1} /\ Len(units) \in Nat
        /\ \A k \in DOMAIN units : units'[k] = units[k]
        /\ units'[Len(units) + 1].entries = e
    BY <2>2, <2>3, Appended DEF u, TypeInv
  <2>5. ASSUME NEW m \in Nat, m = Len(units) + 1 PROVE Agree(m)'
    <3>1. /\ PartBits(0) \in Nat /\ PartBits(1) \in Nat /\ PartBits(2) \in Nat /\ PartBits(3) \in Nat
          /\ PartBits(4) \in Nat
      BY <2>1, PartBitsNat DEF Parts
    <3>2. Consumption(e) = PartBits(0) + PartBits(1) + PartBits(2) + PartBits(3) + PartBits(4)
      <4>1. /\ Entry(0, NumQuantUnits).bits = PartBits(0) /\ Entry(1, NumQuantUnits).bits = PartBits(1)
            /\ Entry(2, NumQuantUnits).bits = PartBits(2) /\ Entry(3, NumQuantUnits).bits = PartBits(3)
            /\ Entry(4, n).bits = PartBits(4)
        BY DEF Entry
      <4> QED
        BY <2>2, <3>1, <4>1, FiveFit
    <3>3. 3 + Consumption(e) <= 8 * FrameSz
      BY <2>1, <3>1, <3>2, TonalAssumption DEF PartsInv, SizeBits
    <3>4. [k \in DOMAIN e |-> e[k].part] = <<0, 1, 2, 3, 4>>
      BY <2>2 DEF Entry
    <3>5. \A k \in DOMAIN e : e[k].call = m + 1
      <4>1. frames = m + 1
        BY <2>1, <2>4, <2>5 DEF ClockInv, TypeInv
      <4> QED
        BY <2>2, <4>1 DEF Entry
    <3>6. \A k \in 1 .. 4 : e[k].units = e[1].units
      BY <2>2 DEF Entry
    <3> QED
      <4>1. units'[m].entries = e
        BY <2>4, <2>5
      <4> QED
        BY <3>3, <3>4, <3>5, <3>6, <4>1, Zenon DEF Agree, Consumption
  <2>6. ASSUME NEW k \in DOMAIN units PROVE Agree(k)'
    BY <2>4, <2>6 DEF UnitAgrees, Agree, Consumption
  <2>7. \A k \in DOMAIN units' : k \in DOMAIN units \/ (k \in Nat /\ k = Len(units) + 1)
    BY <2>4
  <2> QED
    BY <2>5, <2>6, <2>7, Zenon DEF UnitAgrees
<1>2. CASE UNCHANGED units
  BY <1>2 DEF UnitAgrees, Agree, Consumption
<1>3. CASE ~Dump
  BY <1>2, <1>3 DEF Next, Writing, LookAhead, BeginFrame, EncodePart, FrameDone, Repeat, vars
<1> QED
  BY <1>1, <1>3

LEMMA ToldStep ==
  ASSUME TypeInv, ClockInv, PartsInv, TonesInv, TonesInStep, [Next]_vars
  PROVE  TonesInStep'
<1>1. CASE Dump
  <2>1. CurEncPos # Idle /\ UNCHANGED settings
    BY <1>1 DEF Dump, input, TonePart, Idle
  <2>2. PICK u \in Units : units' = Append(units, u) /\ u.of = sound.of /\ u.tonal = sound.tonal.of
    BY <1>1, OneUnit
  <2> DEFINE L == Len(units)
  <2>3. /\ DOMAIN units' = DOMAIN units \cup {L + 1} /\ L \in Nat /\ DOMAIN units = 1 .. L
        /\ \A k \in DOMAIN units : units'[k] = units[k]
        /\ units'[L + 1] = u
    BY <2>2, Appended DEF TypeInv
  <2>4. ASSUME "write_tonal" \notin settings, NEW k \in DOMAIN units' PROVE units'[k].tonal = 0
    <3>1. u.tonal = 0
      BY <2>1, <2>2, <2>4 DEF TonesInv, NoTones
    <3> QED
      BY <2>3, <2>4, <3>1 DEF TonesInStep
  <2>5. ASSUME settings = Default, NEW k \in DOMAIN units'
        PROVE  /\ units'[k].of.frame = k - 1
               /\ units'[k].tonal \in {0, k - 1}
               /\ k + 1 \in DOMAIN units' => units'[k].of.minus = {units'[k].tonal, units'[k + 1].tonal} \ {0}
    <3>1. /\ u.of.frame = L /\ u.tonal = delay.of /\ delay.of \in {0, L}
          /\ units # << >> => units[L].of.minus = {units[L].tonal, delay.of} \ {0}
      BY <2>1, <2>2, <2>5 DEF TonesInv
    <3>2. CASE k = L + 1
      BY <2>3, <3>1, <3>2
    <3>3. CASE k \in DOMAIN units
      <4>1. units[k].of.frame = k - 1 /\ units[k].tonal \in {0, k - 1}
        BY <2>5, <3>3 DEF TonesInStep, Default
      <4>2. CASE k = L
        <5>1. units # << >>
          BY <3>3
        <5>2. units[k].of.minus = {units[k].tonal, delay.of} \ {0}
          BY <3>1, <4>2, <5>1
        <5>3. k + 1 = L + 1 /\ units'[k + 1].tonal = delay.of /\ units'[k] = units[k]
          BY <2>3, <3>1, <3>3, <4>2
        <5> QED
          BY <4>1, <5>2, <5>3
      <4>3. CASE k # L
        <5>1. k + 1 \in DOMAIN units
          BY <2>3, <3>3, <4>3
        <5>2. units[k].of.minus = {units[k].tonal, units[k + 1].tonal} \ {0}
          BY <2>5, <3>3, <5>1 DEF TonesInStep, Default
        <5> QED
          BY <2>3, <3>3, <4>1, <5>1, <5>2
      <4> QED
        BY <4>2, <4>3
    <3> QED
      BY <2>3, <3>2, <3>3
  <2> QED
    BY <2>1, <2>4, <2>5 DEF TonesInStep, Default
<1>2. CASE UNCHANGED <<settings, units>>
  BY <1>2 DEF TonesInStep
<1>3. CASE ~Dump
  BY <1>2, <1>3 DEF Next, Writing, LookAhead, BeginFrame, EncodePart, FrameDone, Repeat, vars, input
<1> QED
  BY <1>1, <1>3

(* ------------------------------- theorems ------------------------------ *)

LEMMA Invariance == Spec => []IInv
<1>1. IInv /\ [Next]_vars => IInv'
  BY TypeStep, ClockStep, PartsStep, TonesStep, AgreeStep, ToldStep DEF IInv
<1> QED
  BY InitIInv, <1>1, PTL DEF Spec

\* However often CheckFrameDone sends the parts back, a unit consists of the five
\* parts, each once and of its own call, made for one number of quantisation units,
\* and fits the frame: the assertion in WriteFrame holds.
THEOREM UnitsAgree == Spec => []UnitAgrees
<1>1. IInv => UnitAgrees
  BY DEF IInv
<1> QED
  BY <1>1, Invariance, PTL

\* TTonalComponentEncoder never gets to the abort on tones with more bands than there
\* are quantisation units left: with eight of them every unit fits.
THEOREM BandsFit == Spec => []ToneBandsFit
<1>1. IInv => ToneBandsFit
  <2>1. SUFFICES ASSUME IInv PROVE ToneBandsFit
    OBVIOUS
  <2>2. NumQuantUnits \in 8 .. 28 \cup {32}
    BY <2>1 DEF IInv, TypeInv
  <2>3. CurEncPos = TonePart => BlockOf(sound.tonal).bands <= 8
    BY <2>1, PartBitsNat DEF IInv, TonePart, Idle
  <2>4. NumQuantUnits \in 1 .. 28 \cup {32}
    BY <2>2
  <2>5. CurEncPos = TonePart => TonesHaveRoom
    <3>1. SUFFICES ASSUME CurEncPos = TonePart PROVE BlockOf(sound.tonal).bands <= NumQuantUnits
      BY DEF TonesHaveRoom
    <3>2. BlockOf(sound.tonal).bands \in Int
      BY <2>1, <3>1, BandsInt DEF IInv, TonePart, Idle
    <3> QED
      BY <2>2, <2>3, <3>1, <3>2
  <2> QED
    BY <2>4, <2>5 DEF ToneBandsFit
<1> QED
  BY <1>1, Invariance, PTL

\* EncodeFrame keeps what it found for the next call, and no longer: what is taken
\* out of a frame are the tones that its unit and the next tell.
THEOREM TonesKeepStep == Spec => []TonesInStep
<1>1. IInv => TonesInStep
  BY DEF IInv
<1> QED
  BY <1>1, Invariance, PTL
=============================================================================
