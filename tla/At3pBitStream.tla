----------------------------- MODULE At3pBitStream -----------------------------
(***************************************************************************)
(* The ATRAC3plus encoder from a frame of sound to a unit in the container:*)
(* EncodeFrame of atrac/at3p/at3p.cpp with its rotating buffers and the    *)
(* tones it keeps for the next call, around TAt3PBitStream::WriteFrame     *)
(* with the five part encoders, run over and over by TBitStreamEncoder     *)
(* with fewer and fewer quantisation units until the unit fits. No part    *)
(* searches a lambda here; what they do in BsEncode with Continue and      *)
(* Submit is not used. A frame of sound is its number, 0 being silence.    *)
(***************************************************************************)
EXTENDS At3pBits

CONSTANTS
  Tonals,        \* by the number of channels: what DoAnalize may find, by name,
                 \* with the bands and the bits of the tonal block
  Spectra,       \* by the number of channels: what the lines of each unit may cost
  UseGha,        \* sets of "pass_input", "write_tonal" and "write_residual"
  FrameSz,       \* 2048
  MaxFrames      \* bound: frames of sound

VARIABLES
  channels, settings,
  frames,                     \* calls of EncodeFrame
  NextBuf, CurBuf, PrevBuf,   \* PrevBuf with the tones that are taken out of it
  tonalBlock, ResultBuf,      \* what DoAnalize returned: a pointer, and to what
  tones_info_prev,            \* the tones of the frame before, for the filter
  delay,
  sound,                      \* what WriteFrame is given
  CurEncPos, NumQuantUnits,
  Buf, BitsUsed,              \* of the parts, and of the tonal one
  units                       \* written
input  == <<channels, settings>>
pcm    == <<NextBuf, CurBuf, PrevBuf>>
tonal  == <<tonalBlock, ResultBuf, tones_info_prev, delay>>
vars   == <<input, frames, pcm, tonal, sound, CurEncPos, NumQuantUnits, Buf, BitsUsed, units>>

NoBuf    == -1             \* a null pointer
Idle     == -1             \* WriteFrame is not on the stack
Parts    == 0 .. 4         \* CreateEncParts
TonePart == 4
Empty    == [part \in Parts |-> << >>]
SizeBits == FrameSz * 8 - 3
Silence  == [frame |-> 0, minus |-> {}]
NoTones  == [of |-> 0]
Filter(t) == {t.of} \ {0}

\* A line takes 14 bits at most: a code of 12, a sign and a group flag.
ASSUME SpectraAssumption ==
  \A c \in {1, 2} : \A s \in Spectra[c] : \A qu \in QuantUnits : s[qu] \in 0 .. c * 14 * SpecsPerBlock(qu)

\* The tones are those of eight subbands, and leave room for eight quantisation
\* units of the costliest lines: 16 lines each, in two channels.
EightUnits == 3900
ASSUME TonalAssumption ==
  /\ Subbands \in 1 .. 8
  /\ FrameSz \in Nat /\ SizeBits >= EightUnits
  /\ \A c \in {1, 2} : \A x \in DOMAIN Tonals[c] :
       Tonals[c][x] \in [bands : 1 .. Subbands, bits : 1 .. SizeBits - EightUnits]
NoBlock       == [bands |-> 0, bits |-> 0]
BlockOf(t)    == IF t.of = 0 THEN NoBlock ELSE Tonals[channels][t.block]

(* ------------------------------- EncodeFrame --------------------------- *)

\* The first call only rotates the buffers: LOOK_AHEAD.
LookAhead ==
  /\ CurEncPos = Idle /\ CurBuf = NoBuf /\ frames < MaxFrames
  /\ frames' = frames + 1
  /\ NextBuf' = 0 /\ CurBuf' = frames + 1
  /\ UNCHANGED <<input, PrevBuf, tonal, sound, CurEncPos, NumQuantUnits, Buf, BitsUsed, units>>

\* DoAnalize finds the tones of the current frame, and ApplyFilter takes them and
\* those before out of the previous one, which becomes the spectrum of this unit.
BeginFrame ==
  /\ CurEncPos = Idle /\ CurBuf # NoBuf /\ frames < MaxFrames
  /\ frames' = frames + 1 /\ NextBuf' = frames + 1
  /\ \E found \in {NoTones} \cup [of : {CurBuf}, block : DOMAIN Tonals[channels]],
        spectra \in Spectra[channels] :
       /\ tonalBlock' = (found # NoTones)
       /\ ResultBuf' = IF found # NoTones THEN found ELSE ResultBuf
       /\ tones_info_prev' = found
       /\ PrevBuf' = [PrevBuf EXCEPT !.minus = Filter(found) \cup Filter(tones_info_prev)]
       /\ sound' = [spectra |-> spectra, tonal |-> delay,
                    of |-> IF "write_residual" \in settings THEN PrevBuf' ELSE Silence]
  /\ CurEncPos' = 0 /\ NumQuantUnits' = 32
  /\ UNCHANGED <<input, CurBuf, delay, Buf, BitsUsed, units>>

(* ------------------------------- the parts ----------------------------- *)

Consumption(entries) == SumTo([i \in 0 .. Len(entries) - 1 |-> entries[i + 1].bits], Len(entries))
GlobalConsumption    == Consumption(Buf[0]) + Consumption(Buf[1]) + Consumption(Buf[2]) + Consumption(Buf[3])

PartBits(part) ==
  CASE part = 0 -> ConfigureBits
    [] part = 1 -> WordLenBits(channels, NumQuantUnits)
    [] part = 2 -> SfIdxBits(channels, NumQuantUnits)
    [] part = 3 -> QuantUnitBits(channels, NumQuantUnits, sound.spectra)
    [] part = TonePart -> TonalBits(channels, BlockOf(sound.tonal).bits)

Insert(part) ==
  [Buf EXCEPT ![part] = Append(@, [part |-> part, call |-> frames, units |-> NumQuantUnits, bits |-> PartBits(part)])]

EncodePart ==
  /\ CurEncPos \in Parts \ {TonePart}
  /\ Buf' = Insert(CurEncPos)
  /\ CurEncPos' = CurEncPos + 1
  /\ UNCHANGED <<input, frames, pcm, tonal, sound, NumQuantUnits, BitsUsed, units>>

\* The tones are laid out once, whatever becomes of the rest. The code aborts on a
\* block with more bands than there are units left.
WithTones        == IF BitsUsed = 0 THEN Insert(TonePart) ELSE Buf
BitsOfTones      == IF BitsUsed = 0 THEN Consumption(WithTones[TonePart]) ELSE BitsUsed
TotalConsumption == BitsOfTones + GlobalConsumption
TonesHaveRoom    == BitsUsed # 0 => BlockOf(sound.tonal).bands <= NumQuantUnits

\* 29 .. 31 units cannot be told.
SameUnits(n)  == n
FewerUnits(n) == IF n = 32 THEN 28 ELSE n - 1

\* CheckFrameDone sends the parts before this one back to the start.
ResetNone(buf) == buf
Reset(buf)     == [Empty EXCEPT ![TonePart] = buf[TonePart]]

FrameDone ==
  /\ CurEncPos = TonePart /\ TonesHaveRoom
  /\ TotalConsumption <= SizeBits
  /\ Buf' = WithTones /\ BitsUsed' = BitsOfTones
  /\ CurEncPos' = TonePart + 1
  /\ UNCHANGED <<input, frames, pcm, tonal, sound, NumQuantUnits, units>>

Repeat ==
  /\ CurEncPos = TonePart /\ TonesHaveRoom
  /\ TotalConsumption > SizeBits
  /\ Buf' = Reset(WithTones) /\ BitsUsed' = BitsOfTones
  /\ NumQuantUnits' = FewerUnits(NumQuantUnits) /\ CurEncPos' = 0
  /\ UNCHANGED <<input, frames, pcm, tonal, sound, units>>

\* delay: a copy of what was found, as the next DoAnalize writes over ResultBuf.
EverFound(found) == ResultBuf
Kept(found)      == IF found THEN ResultBuf ELSE NoTones

\* TTonalComponentEncoder::Dump clears this as well.
BitsKept    == BitsUsed
BitsCleared == 0

\* All parts are dumped and cleared, the unit is handed over, the buffers rotate.
Dump ==
  /\ CurEncPos = TonePart + 1
  /\ units' = Append(units, [entries |-> Buf[0] \o Buf[1] \o Buf[2] \o Buf[3] \o Buf[4],
                             of |-> sound.of, tonal |-> sound.tonal.of])
  /\ Buf' = Empty /\ BitsUsed' = BitsCleared
  /\ PrevBuf' = [frame |-> IF "pass_input" \in settings THEN CurBuf ELSE 0, minus |-> {}]
  /\ NextBuf' = CurBuf /\ CurBuf' = NextBuf
  /\ delay' = Kept(tonalBlock /\ "write_tonal" \in settings)
  /\ CurEncPos' = Idle
  /\ UNCHANGED <<input, frames, tonalBlock, ResultBuf, tones_info_prev, sound, NumQuantUnits>>

Init ==
  /\ channels \in {1, 2} /\ settings \in UseGha
  /\ frames = 0 /\ NextBuf = 0 /\ CurBuf = NoBuf /\ PrevBuf = Silence
  /\ tonalBlock = FALSE /\ ResultBuf = NoTones /\ tones_info_prev = NoTones /\ delay = NoTones
  /\ sound = [spectra |-> << >>, tonal |-> NoTones, of |-> PrevBuf]
  /\ CurEncPos = Idle /\ NumQuantUnits = 32 /\ Buf = Empty /\ BitsUsed = 0
  /\ units = << >>

Writing == EncodePart \/ FrameDone \/ Repeat \/ Dump
Next == LookAhead \/ BeginFrame \/ Writing

\* A unit is written in one call.
Spec == Init /\ [][Next]_vars /\ WF_vars(Writing)

(* ------------------------------ correctness ---------------------------- *)

\* However often the parts were sent back, a unit has each of them once, made for
\* this unit and, but for the tones, which are the first pass's, for the number of
\* units it ends with; and it fits its frame, so that the assertion in WriteFrame
\* holds and nothing is cut off.
Agree(u) ==
  LET e == units[u].entries
  IN /\ [k \in DOMAIN e |-> e[k].part] = <<0, 1, 2, 3, 4>>
     /\ \A k \in DOMAIN e : e[k].call = u + 1
     /\ \A k \in 1 .. 4 : e[k].units = e[1].units
     /\ 3 + Consumption(e) <= 8 * FrameSz
UnitAgrees == \A u \in DOMAIN units : Agree(u)

\* Long before there are too few quantisation units for the bands of the tones, on
\* which the code aborts, or none, the unit fits; and their number can be told.
ToneBandsFit ==
  /\ CurEncPos = TonePart => TonesHaveRoom
  /\ NumQuantUnits \in 1 .. 28 \cup {32}

\* With the default settings nothing is lost between spectrum and tones, which
\* arrive a call apart: the units carry the frames in order, and what is taken out
\* of a frame are the tones that its unit and the next one tell, between which a
\* decoder fades. Without the tones written, no unit tells any.
TonesInStep ==
  /\ "write_tonal" \notin settings => \A u \in DOMAIN units : units[u].tonal = 0
  /\ settings = {"pass_input", "write_tonal", "write_residual"} =>
       \A u \in DOMAIN units :
         /\ units[u].of.frame = u - 1
         /\ units[u].tonal \in {0, u - 1}
         /\ u + 1 \in DOMAIN units =>
              units[u].of.minus = {units[u].tonal, units[u + 1].tonal} \ {0}

\* A call that has begun a unit ends with it written.
UnitIsWritten == CurEncPos # Idle ~> CurEncPos = Idle
=============================================================================
