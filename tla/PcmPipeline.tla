----------------------------- MODULE PcmPipeline -----------------------------
(***************************************************************************)
(* Encoding one file: main's loop calls TPCMEngine::ApplyProcess, which    *)
(* reads a block through TWav and cuts it into steps for the codec's       *)
(* lambda. A codec that needs one step of look-ahead answers LOOK_AHEAD to *)
(* the first; the engine owes it that step, and drains it once the input   *)
(* has run out.                                                            *)
(*                                                                         *)
(* A sample of the input is its number, from 1; 0 is a silent sample. A    *)
(* position of the buffer stands for the samples of all channels there.    *)
(***************************************************************************)
EXTENDS Integers

CONSTANTS
  BufSize,     \* samples in TPCMEngine's buffer
  Codecs,      \* [step, lookAhead]: samples per lambda call, steps it needs ahead
  Lengths,     \* how many samples an input can really hold
  Errors,      \* by how much GetTotalSamples can be off
  None         \* no step: the codec holds none, or has encoded none

ASSUME BufAssumption == BufSize \in Nat \ {0}
ASSUME CodecAssumption ==
  \A c \in Codecs : /\ c.step \in 1 .. BufSize /\ c.lookAhead \in {0, 1}
                    /\ \E k \in 1 .. BufSize : BufSize = k * c.step
ASSUME InputAssumption == Lengths \subseteq Nat /\ Errors \subseteq Int
ASSUME NoneAssumption  == \A c \in Codecs : None \notin [1 .. c.step -> Nat]

VARIABLES
  codec, length, claimed,   \* the run: its codec, its input and totalSamples
  status,                   \* of main: "running", "done" or "no_data"
  Buffer, ReadPos,          \* the block, and the samples read so far
  i, lastPos, drain,        \* locals of ApplyProcess; i = Idle outside it
  Processed, ToDrain,
  held,                     \* the step the codec keeps as its current one
  frame, ahead,             \* what it last encoded, and looked ahead to
  coded,                    \* samples in the frames it encoded
  fed                       \* samples in the blocks read, padding included

run    == <<codec, length, claimed>>
engine == <<Buffer, ReadPos, i, lastPos, drain, Processed, ToDrain>>
vars   == <<run, status, engine, held, frame, ahead, coded, fed>>

Idle == -1
Positions == 0 .. BufSize - 1
MinOf(a, b) == IF a < b THEN a ELSE b
-----------------------------------------------------------------------------
(***************************************************************************)
(* The reader                                                              *)
(***************************************************************************)

\* How far Zero(pos, len) clears: memset counts len bytes per channel, and a
\* sample takes four.
Cleared(len) == len \div 4

FilledFromStart(read) ==
  [p \in Positions |-> IF p < read THEN p + 1 ELSE Buffer[p]]

\* The first `read` positions are the next samples; the others are cleared as
\* far as Zero goes, and keep what the block before left there.
Filled(read) ==
  [p \in Positions |->
     IF p < read THEN ReadPos + p + 1
     ELSE IF p < read + Cleared(BufSize - read) THEN 0 ELSE Buffer[p]]

\* What a Read that finds nothing does to the buffer is the PCM library's
\* business: it may be left alone or be cleared.
AtEnd == {Buffer, [p \in Positions |-> 0]}

\* ApplyProcess up to its loop.
BeginBlock ==
  /\ status = "running" /\ i = Idle
  /\ LET read == MinOf(BufSize, length - ReadPos)
     IN IF read > 0
        THEN /\ Buffer'  = Filled(read)
             /\ ReadPos' = ReadPos + read
             /\ fed' = fed + BufSize
             /\ drain'   = FALSE
             /\ i' = 0 /\ lastPos' = 0
             /\ UNCHANGED status
        ELSE /\ Buffer' \in AtEnd
             /\ UNCHANGED <<ReadPos, fed>>
             /\ IF ToDrain > 0
                THEN drain' = TRUE /\ i' = 0 /\ lastPos' = 0 /\ UNCHANGED status
                ELSE status' = "no_data" /\ UNCHANGED <<i, lastPos, drain>>
  /\ UNCHANGED <<run, Processed, ToDrain, held, frame, ahead, coded>>
-----------------------------------------------------------------------------
(***************************************************************************)
(* One turn of ApplyProcess's loop                                         *)
(***************************************************************************)
step == codec.step

InLoop == status = "running" /\ i # Idle /\ i + step <= BufSize

Data == [k \in 1 .. step |-> Buffer[i + k - 1]]

\* The codec has no current step yet and needs one ahead of it.
Wants == codec.lookAhead = 1 /\ held = None

\* The lambda answers LOOK_AHEAD.
LookAheadUncounted ==
  /\ InLoop /\ Wants
  /\ held' = Data
  /\ i' = i + step
  /\ UNCHANGED <<run, status, Buffer, ReadPos, lastPos, drain, Processed, ToDrain,
                 frame, ahead, coded, fed>>

LookAhead ==
  /\ InLoop /\ Wants
  /\ held' = Data
  /\ ToDrain' = ToDrain + 1
  /\ i' = i + step
  /\ UNCHANGED <<run, status, Buffer, ReadPos, lastPos, drain, Processed,
                 frame, ahead, coded, fed>>

\* What the lambda encodes: the step it was given, or the one it held.
CurrentNewest == Data

Current == IF codec.lookAhead = 1 THEN held ELSE Data

\* The lambda answers PROCESSED. A drain is over after one step.
EncodeStepNoBreak ==
  /\ InLoop /\ ~Wants
  /\ frame' = Current
  /\ ahead' = IF codec.lookAhead = 1 THEN Data ELSE None
  /\ held'  = ahead'
  /\ coded' = coded + step
  /\ lastPos' = lastPos + step
  /\ ToDrain' = IF drain THEN ToDrain - 1 ELSE ToDrain
  /\ i' = i + step
  /\ UNCHANGED <<run, status, Buffer, ReadPos, drain, Processed, fed>>

EncodeStep ==
  /\ InLoop /\ ~Wants
  /\ frame' = Current
  /\ ahead' = IF codec.lookAhead = 1 THEN Data ELSE None
  /\ held'  = ahead'
  /\ coded' = coded + step
  /\ lastPos' = lastPos + step
  /\ IF drain THEN ToDrain' = ToDrain - 1 /\ i' = BufSize
              ELSE UNCHANGED ToDrain /\ i' = i + step
  /\ UNCHANGED <<run, status, Buffer, ReadPos, drain, Processed, fed>>

\* ApplyProcess returns Processed, and main decides whether to call it again.
EndBlockAllRead ==
  /\ status = "running" /\ i # Idle /\ i + step > BufSize
  /\ Processed' = Processed + lastPos
  /\ i' = Idle
  /\ status' = IF claimed > ReadPos THEN "running" ELSE "done"
  /\ UNCHANGED <<run, Buffer, ReadPos, lastPos, drain, ToDrain, held, frame, ahead, coded, fed>>

EndBlock ==
  /\ status = "running" /\ i # Idle /\ i + step > BufSize
  /\ Processed' = Processed + lastPos
  /\ i' = Idle
  /\ status' = IF claimed > Processed' THEN "running" ELSE "done"
  /\ UNCHANGED <<run, Buffer, ReadPos, lastPos, drain, ToDrain, held, frame, ahead, coded, fed>>

Init ==
  /\ codec \in Codecs
  /\ length \in Lengths
  /\ claimed \in {c \in {length + e : e \in Errors} : c >= 0}
  /\ status = "running"
  /\ Buffer = [p \in Positions |-> 0] /\ ReadPos = 0
  /\ i = Idle /\ lastPos = 0 /\ drain = FALSE
  /\ Processed = 0 /\ ToDrain = 0
  /\ held = None /\ frame = None /\ ahead = None
  /\ coded = 0 /\ fed = 0

Next == BeginBlock \/ LookAhead \/ EncodeStep \/ EndBlock

\* main and ApplyProcess are one synchronous loop: it keeps running.
Spec == Init /\ [][Next]_vars /\ WF_vars(Next)
-----------------------------------------------------------------------------
Samples == 0 .. length
Steps   == [1 .. step -> Samples]

\* Types; and the one step a drain pays back is one that a LOOK_AHEAD owed.
TypeOK ==
  /\ codec \in Codecs /\ length \in Lengths /\ claimed \in Nat
  /\ status \in {"running", "done", "no_data"}
  /\ Buffer \in [Positions -> Samples] /\ ReadPos \in Samples
  /\ i \in {Idle} \cup 0 .. BufSize /\ lastPos \in 0 .. BufSize /\ drain \in BOOLEAN
  /\ Processed \in Nat /\ ToDrain \in 0 .. codec.lookAhead
  /\ coded \in Nat /\ fed \in Nat
  /\ {held, frame, ahead} \subseteq {None} \cup Steps

\* The samples of the input from number n + 1 on, as far as they go.
HasSamplesFrom(f, n) == \A k \in 1 .. step : n + k <= length => f[k] = n + k

\* Every frame encodes the samples that follow those of the frame before, none
\* lost, repeated or overwritten between blocks, by the look-ahead or a drain.
FramesInOrder == frame # None => HasSamplesFrom(frame, coded - step)

\* And what it was chosen with a view to really is the frame that follows, as
\* long as the input lasts that is (a drain has nothing to look ahead to).
LookAheadIsNext == ahead # None /\ ToDrain > 0 => HasSamplesFrom(ahead, coded)

\* main returns, normally or on TNoDataToRead, only once every sample of the
\* input that it was told of is in a frame.
AllCovered ==
  /\ status = "done" => coded >= claimed
  /\ status = "no_data" => coded >= length

\* The blocks read hold little more than the input, and no frame is encoded
\* that begins beyond them, the one a drain adds included: the length that goes
\* into a header, rounded down, is short by at most a block.
NothingInvented == coded <= fed /\ fed < ReadPos + BufSize

\* An input that holds what it claims is encoded without running out of data,
\* wherever in a block it ends.
EndsNormally == 0 < length /\ claimed <= length => <>(status = "done")

\* Read pads the block that the input ends in with silence, as Zero, which
\* takes and checks a length in samples, was called to do.
PaddingIsSilent ==
  i # Idle /\ ~drain =>
    \A p \in Positions : fed - BufSize + p >= length => Buffer[p] = 0
=============================================================================
