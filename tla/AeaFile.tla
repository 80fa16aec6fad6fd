------------------------------ MODULE AeaFile ------------------------------
(***************************************************************************)
(* An ATRAC1 file from the encoder's WriteFrame calls to decoded sound:    *)
(* aea.cpp, the decoder's lambda and the engine's loop in its writing      *)
(* direction. A file holds sound units of fixed size, those of a frame's   *)
(* channels one after the other, and nothing says which unit is whose.     *)
(*                                                                         *)
(* The first unit is a dummy from the constructor, in place of the first   *)
(* one the encoder delivers. Between encoder and decoder the file may lose *)
(* its end (a write that failed, a copy that was cut) and units may be     *)
(* damaged; a unit that is cut short is as good as none for either side.   *)
(***************************************************************************)
EXTENDS Integers, Sequences, FiniteSets

CONSTANTS
  BlockFrames,   \* frames that TPCMEngine's buffer holds
  Wrap,          \* how many frames' samples 64 bits can count
  Totals,        \* lengths of inputs, in frames that begin within them; 0 of an empty one
  MaxDamaged,    \* bound: damaged units in a file
  Dummy, Malformed, Silence

Audio == [channel : {0, 1}, frame : Nat]

ASSUME SizeAssumption ==
  /\ BlockFrames \in Nat /\ BlockFrames > 5
  /\ Totals \subseteq Nat /\ MaxDamaged \in Nat
  /\ Wrap \in Nat /\ \A t \in Totals : t + BlockFrames < Wrap

ASSUME UnitAssumption ==
  /\ Dummy \notin Audio /\ Malformed \notin Audio /\ Silence \notin Audio
  /\ Dummy # Malformed

VARIABLES
  phase,        \* "encode", "closed", "decode", "done" or "io_error"
  channels, total,
  FirstWrite,
  delivered,    \* WriteFrame calls
  disk,         \* the units in the file
  intact,       \* did nothing happen to what was encoded?
  claimed,      \* GetLengthInSamples, in frames
  pos,          \* units read
  block,        \* the buffer: what was decoded of this block, unit by unit
  pcm,          \* the units decoded, as far as blocks were written
  short         \* has a block not been written in full?

source  == <<channels, total>>
encoder == <<FirstWrite, delivered>>
decoder == <<claimed, pos, block, pcm, short>>
vars    == <<phase, source, encoder, disk, intact, decoder>>
-----------------------------------------------------------------------------
(***************************************************************************)
(* Writing                                                                 *)
(***************************************************************************)

\* What CreateMeta leaves behind the header.
OpeningBare == <<>>

Opening == <<Dummy>>

\* Each frame has a unit of every channel.
Unit(n) == [channel |-> n % channels, frame |-> n \div channels]

\* TAeaOutput::WriteFrame, its write succeeding.
WriteEvery(unit) == FirstWrite' = FALSE /\ disk' = Append(disk, unit)

WriteFrame(unit) ==
  /\ FirstWrite' = FALSE
  /\ disk' = IF FirstWrite THEN disk ELSE Append(disk, unit)

\* main's loop has the encoder go through whole blocks; of an empty input the first
\* read finds nothing, and main returns as if it were done.
EncodedFrames == BlockFrames * ((total + BlockFrames - 1) \div BlockFrames)

EncodeUnit ==
  /\ phase = "encode" /\ delivered < channels * EncodedFrames
  /\ WriteFrame(Unit(delivered))
  /\ delivered' = delivered + 1
  /\ UNCHANGED <<phase, source, intact, decoder>>

\* fwrite fails: WriteFrame closes the file and throws TAeaIOError to main, and
\* the destructor closes it again. Whatever the process makes of that, the file
\* is as the first fclose left it.
EncodeFails ==
  /\ phase = "encode" /\ delivered < channels * EncodedFrames /\ ~FirstWrite
  /\ phase' = "closed" /\ intact' = FALSE
  /\ UNCHANGED <<source, encoder, disk, decoder>>

EncodeEnds ==
  /\ phase = "encode" /\ delivered = channels * EncodedFrames
  /\ phase' = "closed"
  /\ UNCHANGED <<source, encoder, disk, intact, decoder>>
-----------------------------------------------------------------------------
(***************************************************************************)
(* The file at rest. Its end is missing as well if fclose, whose result    *)
(* nobody looks at, could not write what was buffered.                     *)
(***************************************************************************)
CutShort ==
  /\ phase = "closed"
  /\ \E n \in 0 .. Len(disk) - 1 : disk' = SubSeq(disk, 1, n)
  /\ intact' = FALSE
  /\ UNCHANGED <<phase, source, encoder, decoder>>

Damage ==
  /\ phase = "closed"
  /\ Cardinality({k \in DOMAIN disk : disk[k] = Malformed}) < MaxDamaged
  /\ \E k \in DOMAIN disk : disk' = [disk EXCEPT ![k] = Malformed]
  /\ intact' = FALSE
  /\ UNCHANGED <<phase, source, encoder, decoder>>
-----------------------------------------------------------------------------
(***************************************************************************)
(* Reading                                                                 *)
(***************************************************************************)
FramesOnDisk == Len(disk) \div channels

\* GetLengthInSamples: unsigned, and so enormous for less than five frames.
ClaimedOfStereo == (Len(disk) \div 2 - 5) % Wrap

Claimed == (FramesOnDisk - 5) % Wrap

Open ==
  /\ phase = "closed"
  /\ phase' = "decode"
  /\ claimed' = Claimed
  /\ UNCHANGED <<source, encoder, disk, intact, pos, block, pcm, short>>

BlockUnits == channels * BlockFrames

\* A malformed unit decodes as silence; so does the dummy, whose words are all
\* of length zero.
Decoded(unit) == IF unit \in {Dummy, Malformed} THEN Silence ELSE unit

\* One channel of the lambda.
DecodeOrSkip ==
  /\ phase = "decode" /\ Len(block) < BlockUnits /\ pos < Len(disk)
  /\ block' = IF disk[pos + 1] = Malformed THEN block
              ELSE Append(block, Decoded(disk[pos + 1]))
  /\ pos' = pos + 1
  /\ UNCHANGED <<phase, source, encoder, disk, intact, claimed, pcm, short>>

DecodeUnit ==
  /\ phase = "decode" /\ Len(block) < BlockUnits /\ pos < Len(disk)
  /\ block' = Append(block, Decoded(disk[pos + 1]))
  /\ pos' = pos + 1
  /\ UNCHANGED <<phase, source, encoder, disk, intact, claimed, pcm, short>>

AtEndOfFrames == pos = Len(disk) /\ pos % channels = 0

\* ReadFrame finds no whole unit: TAeaIOError leaves ApplyProcess before it
\* writes the block, and main returns. Here, too, the file is closed twice, but
\* only after the sound's.
AtEndOfFile == pos = Len(disk)

DecodeFails ==
  /\ phase = "decode" /\ Len(block) < BlockUnits /\ AtEndOfFile
  /\ phase' = "io_error"
  /\ UNCHANGED <<source, encoder, disk, intact, decoder>>

\* ApplyProcess writes the block and main compares what was processed. A write
\* that falls short is not an error to either.
Processed == pos \div channels

WriteBlock ==
  /\ phase = "decode" /\ Len(block) = BlockUnits
  /\ \E n \in 0 .. BlockFrames :
       /\ pcm'   = pcm \o SubSeq(block, 1, n * channels)
       /\ short' = (short \/ n < BlockFrames)
  /\ block' = <<>>
  /\ phase' = IF claimed > Processed THEN "decode" ELSE "done"
  /\ UNCHANGED <<source, encoder, disk, intact, claimed, pos>>

Init ==
  /\ phase = "encode"
  /\ channels \in {1, 2} /\ total \in Totals
  /\ FirstWrite = TRUE /\ delivered = 0
  /\ disk = Opening /\ intact = TRUE
  /\ claimed = 0 /\ pos = 0 /\ block = <<>> /\ pcm = <<>> /\ short = FALSE

Encode == EncodeUnit \/ EncodeFails \/ EncodeEnds
Decode == DecodeUnit \/ DecodeFails \/ WriteBlock
Next   == Encode \/ CutShort \/ Damage \/ Open \/ Decode

\* Encoding and decoding are one synchronous loop each; nobody has to decode a
\* file, or to harm it.
Spec == Init /\ [][Next]_vars /\ WF_vars(Encode \/ Decode)
-----------------------------------------------------------------------------
\* Types.
TypeOK ==
  /\ phase \in {"encode", "closed", "decode", "done", "io_error"}
  /\ channels \in {1, 2} /\ total \in Totals
  /\ FirstWrite \in BOOLEAN /\ delivered \in 0 .. channels * EncodedFrames
  /\ disk \in Seq(Audio \cup {Dummy, Malformed}) /\ intact \in BOOLEAN
  /\ claimed \in 0 .. Wrap - 1 /\ pos \in 0 .. Len(disk)
  /\ block \in Seq(Audio \cup {Silence}) /\ Len(block) <= BlockUnits
  /\ pcm \in Seq(Audio \cup {Silence}) /\ short \in BOOLEAN

\* Where a unit lies tells its channel and its frame: the dummy takes the place
\* of the unit that was dropped, which keeps the channels of all others apart,
\* and a file that was cut still begins with its first units.
UnitsInPlace ==
  \A k \in DOMAIN disk :
    disk[k] \in {Unit(k - 1), Malformed} \/ (k = 1 /\ disk[k] = Dummy)

\* As long as the sound can be written, each unit is decoded to its own place
\* in its own channel; a malformed one leaves silence and moves no other.
DecodedInPlace ==
  ~short =>
    \A k \in DOMAIN pcm :
      pcm[k] = IF disk[k] \in {Dummy, Malformed} THEN Silence ELSE Unit(k - 1)

Ended == phase \in {"done", "io_error"}

\* A file of the encoder's own decodes to the end without an error, as many
\* frames as were encoded: none but that of an empty input, which has only the
\* dummy in it, says that it is enormous, and always ends in an error.
OwnFilesDecode ==
  Ended /\ intact =>
    \/ total > 0 /\ phase = "done" /\ (~short => Len(pcm) = channels * EncodedFrames)
    \/ total = 0 /\ phase = "io_error" /\ Len(pcm) = 0

\* Of any file, less than a block of the whole frames in it is not decoded,
\* though its length is a guess and an error discards the block.
AtMostABlockLost == Ended /\ ~short => FramesOnDisk - Len(pcm) \div channels < BlockFrames

\* Both commands return, also on files for which the length wraps.
Returns == phase \in {"encode", "decode"} ~> phase \notin {"encode", "decode"}
=============================================================================
