--------------------------- MODULE EncodeSession ---------------------------
(***************************************************************************)
(* An encoding command from its options to its exit code and the file it   *)
(* leaves: main's choice of container and bitrate, the outputs of at3.cpp, *)
(* rm.cpp, raw.cpp, oma.cpp and aea.cpp, and what each does on an error.   *)
(*                                                                         *)
(* Headers are written before the frames they describe, from the announced *)
(* length of the input; destructors put in what became of it, when main    *)
(* has returned. What they and fclose cannot write is lost without a word. *)
(* Frames have the size that the bit-stream writers give them; how many    *)
(* the input has is PcmPipeline's matter and any number here.              *)
(***************************************************************************)
EXTENDS Integers, Sequences, FiniteSets

CONSTANTS
  Word32,      \* 2^32
  Requests,    \* command lines
  MaxFrames,   \* bound: frames of an input
  Cuts         \* how many bytes of a piece an error may leave in the file

Codecs     == {"atrac1", "atrac3", "atrac3plus"}
Containers == {"aea", "oma", "riff", "rm", "raw"}
Suffixes   == {"wav", "at3", "raw", "dat", "rm", "other"}

Request == [codec : Codecs, requested : Containers \cup {"auto"}, suffix : Suffixes,
            bitrate : Nat, optionsParse : BOOLEAN, announced : Nat]

ASSUME SessionAssumption ==
  /\ Word32 \in Nat /\ Word32 > 4096 /\ Requests \subseteq Request
  /\ MaxFrames \in Nat /\ Cuts \subseteq Nat

VARIABLES
  request,
  phase,           \* "start", "encoding", "closing" (main has returned, destructors
                   \* are next), "closed"; "aborted": without destructors
  exit,            \* what main returns
  file,            \* "untouched", "truncated" or "written"
  container, FrameSize,
  header,          \* those of its fields that count something
  body, position,  \* the pieces behind the header, and ftell
  FramesWritten, Timestamp,
  delivered,       \* WriteFrame calls
  lost             \* is something that the stream had taken not in the file? A history

choice == <<container, FrameSize>>
counts == <<FramesWritten, Timestamp>>
vars   == <<request, phase, exit, file, choice, header, body, position, counts, delivered, lost>>
-----------------------------------------------------------------------------
(***************************************************************************)
(* What main derives from the options                                      *)
(***************************************************************************)
ValidContainers(codec) ==
  CASE codec = "atrac1"     -> {"aea", "raw"}
    [] codec = "atrac3"     -> {"oma", "riff", "rm", "raw"}
    [] codec = "atrac3plus" -> {"oma", "riff", "raw"}

BySuffix(codec, suffix) ==
  CASE suffix \in {"raw", "dat"} -> "raw"
    [] suffix \notin {"raw", "dat"} /\ codec = "atrac1" -> "aea"
    [] suffix \in {"wav", "at3"} /\ codec # "atrac1" -> "riff"
    [] suffix = "rm" /\ codec # "atrac1" -> "rm"
    [] suffix = "other" /\ codec # "atrac1" -> "oma"

Selected ==
  IF request.requested = "auto" THEN BySuffix(request.codec, request.suffix)
  ELSE request.requested

Valid == Selected \in ValidContainers(request.codec)

ContainerParams ==
  << [rate |-> 66150, size |-> 192],  [rate |-> 93713, size |-> 272],
     [rate |-> 104738, size |-> 304], [rate |-> 132300, size |-> 384],
     [rate |-> 146081, size |-> 424], [rate |-> 176400, size |-> 512],
     [rate |-> 264600, size |-> 768], [rate |-> 352800, size |-> 1024] >>

\* checkedStoi's range, the option's unit and the default.
Bitrate == IF request.bitrate \in 32 .. 384 THEN 1024 * request.bitrate ELSE 132300

\* lower_bound over the table: how many entries are below. The next one is used.
Below == Cardinality({n \in 1 .. 8 : ContainerParams[n].rate < Bitrate})

\* What lies behind the table may be read as any size.
FrameSizes ==
  CASE request.codec = "atrac1"     -> {212}
    [] request.codec = "atrac3plus" -> {2048}
    [] request.codec = "atrac3"     ->
         {ContainerParams[n].size : n \in IF Below < 8 THEN {Below + 1} ELSE 1 .. 8}

NumSamples == IF request.codec = "atrac3plus" THEN 2048 ELSE 1024

\* The announced length in frames, as a parameter of 32 bits.
NumFrames == (request.announced \div NumSamples) % Word32
-----------------------------------------------------------------------------
(***************************************************************************)
(* Files                                                                   *)
(***************************************************************************)
\* Of a RM file only the DATA chunk's header is counted: `position` is relative
\* to its beginning. The frame count of PROP and DATA is `packets`.
HeaderSize(c) ==
  CASE c = "riff" -> IF request.codec = "atrac3plus" THEN 80 ELSE 76
    [] c = "rm"   -> 18
    [] c \in {"oma", "raw", "aea"} -> 0

NoHeader == [size |-> 0, samples |-> 0, data |-> 0, packets |-> 0]

RiffHeader(frames, size) ==
  [size    |-> HeaderSize("riff") + frames * size - 8,
   samples |-> (frames * NumSamples) % Word32,
   data    |-> (frames * size) % Word32,
   packets |-> 0]

TooBig(frames, size) == HeaderSize("riff") + frames * size >= Word32 - 1

\* The header a constructor writes.
Announce(c, size) ==
  CASE c = "riff" -> RiffHeader(NumFrames, size)
    [] c = "rm"   -> [size |-> 0, samples |-> 0, data |-> Word32 - 1, packets |-> NumFrames]
    [] c \in {"oma", "raw", "aea"} -> NoHeader

\* The header after the destructor: RIFF goes by the frames written, RM by where
\* the file ends.
BackfillNothing(end) == header

Backfill(end) ==
  CASE container = "riff" ->
         IF FramesWritten > 0 /\ ~TooBig(FramesWritten, FrameSize)
         THEN RiffHeader(FramesWritten, FrameSize) ELSE header
    [] container = "rm" -> IF end < Word32 THEN [header EXCEPT !.data = end] ELSE header
    [] container \in {"oma", "raw", "aea"} -> header

Piece(kind, of, size) == [kind |-> kind, of |-> of, size |-> size]
Part(bytes) == IF bytes = 0 THEN <<>> ELSE <<Piece("part", 0, bytes)>>

\* A stream that cannot write its buffer gives it up: of what it had taken, only
\* the first pieces are in the file and a part of the next, or not even the header.
Loses(n, cut) ==
  /\ cut < IF n < Len(body) THEN body[n + 1].size ELSE 1
  /\ body' = SubSeq(body, 1, n) \o Part(cut)
  /\ file' \in {file} \cup IF n + cut = 0 THEN {"truncated"} ELSE {}
  /\ lost' = TRUE

\* Where piece n ends.
EndOf(n) ==
  LET packets == IF container = "rm" THEN (n + 3) \div 4 ELSE 0
  IN HeaderSize(container) + 12 * packets + FrameSize * (n - packets)

\* A RM packet holds three frames and begins with the time of the first, which is
\* counted in frames here.
FirstOfPacket == container = "rm" /\ FramesWritten % 3 = 0
Packet        == IF FirstOfPacket THEN <<Piece("packet", Timestamp, 12)>> ELSE <<>>

AdvanceEach == container = "rm"
Advance     == container = "rm" /\ FramesWritten % 3 = 2

\* The first unit for an AEA file stays out of it.
Dropped == container = "aea" /\ delivered = 0
-----------------------------------------------------------------------------
Init ==
  /\ request \in Requests
  /\ phase = "start" /\ exit = "none" /\ file = "untouched"
  /\ container = "none" /\ FrameSize = 0
  /\ header = NoHeader /\ body = <<>> /\ position = 0
  /\ FramesWritten = 0 /\ Timestamp = 0 /\ delivered = 0 /\ lost = FALSE

\* CheckContainer throws before an output is made.
Refuse ==
  /\ phase = "start" /\ ~Valid
  /\ phase' = "closed" /\ exit' = "failure"
  /\ UNCHANGED <<request, file, choice, header, body, position, counts, delivered, lost>>

\* The file cannot be opened, or the constructor throws behind fopen: it cannot
\* write the header, which OMA does not mind, or RIFF finds the announced length
\* too much. No destructor runs.
CreateFails ==
  /\ phase = "start" /\ Valid
  /\ phase' = "closed" /\ exit' = "failure"
  /\ file' \in {"untouched"} \cup IF Selected = "oma" THEN {} ELSE {"truncated"}
  /\ UNCHANGED <<request, choice, header, body, position, counts, delivered, lost>>

\* Advanced options are parsed behind the constructor: if they are wrong, the
\* output is destroyed with nothing in it.
OptionsFail == request.codec = "atrac3plus" /\ ~request.optionsParse

Create ==
  /\ phase = "start" /\ Valid
  /\ \E size \in FrameSizes :
       /\ Selected = "riff" => ~TooBig(NumFrames, size)
       /\ FrameSize' = size /\ header' = Announce(Selected, size)
  /\ container' = Selected /\ file' = "written" /\ position' = HeaderSize(Selected)
  /\ body' = IF Selected = "aea" THEN <<Piece("dummy", 0, 212)>> ELSE <<>>
  /\ \/ ~OptionsFail /\ phase' = "encoding" /\ UNCHANGED exit
     \/ OptionsFail /\ phase' = "closing" /\ exit' = "failure"
  /\ UNCHANGED <<request, counts, delivered, lost>>

WriteFrame ==
  /\ phase = "encoding" /\ delivered < MaxFrames
  /\ delivered' = delivered + 1
  /\ \/ Dropped /\ UNCHANGED <<body, position, counts>>
     \/ /\ ~Dropped
        /\ body' = body \o Packet \o <<Piece("frame", delivered, FrameSize)>>
        /\ position' = position + (IF FirstOfPacket THEN 12 ELSE 0) + FrameSize
        /\ FramesWritten' = FramesWritten + 1
        /\ Timestamp' = IF Advance THEN Timestamp + 3 ELSE Timestamp
  /\ UNCHANGED <<request, phase, exit, file, choice, header, lost>>

\* AEA's output closes its file before it throws and again in the destructor,
\* which is undefined: the C library may abort.
Broken == IF container = "aea" THEN {"failure", "abort"} ELSE {"failure"}

\* A frame or the head of its packet is written in part, perhaps at the cost of
\* earlier ones in the buffer: the output throws to main, which destroys it on
\* returning.
WriteFails ==
  /\ phase = "encoding" /\ container # "oma" /\ delivered < MaxFrames /\ ~Dropped
  /\ \E cut \in Cuts :
       \/ /\ cut < FrameSize
          /\ body' = body \o Packet \o Part(cut)
          /\ position' = position + (IF FirstOfPacket THEN 12 ELSE 0) + cut
          /\ UNCHANGED <<file, lost>>
       \/ /\ FirstOfPacket /\ cut < 12
          /\ body' = body \o Part(cut)
          /\ position' = position + cut
          /\ UNCHANGED <<file, lost>>
       \/ \E n \in 0 .. Len(body) - 1 : Loses(n, cut) /\ position' = EndOf(n) + cut
  /\ delivered' = delivered + 1
  /\ phase' = (IF container = "aea" THEN "closed" ELSE "closing") /\ exit' \in Broken
  /\ header' = IF file' = "truncated" THEN NoHeader ELSE header
  /\ UNCHANGED <<request, choice, counts>>

\* OMA's output aborts the program instead, and what was buffered is lost.
WriteIgnored ==
  /\ phase = "encoding" /\ container = "oma" /\ delivered < MaxFrames
  /\ delivered' = delivered + 1
  /\ UNCHANGED <<request, phase, exit, file, choice, header, body, position, counts, lost>>

WriteAborts ==
  /\ phase = "encoding" /\ container = "oma" /\ delivered < MaxFrames
  /\ delivered' = delivered + 1
  /\ \E n \in 0 .. Len(body), cut \in Cuts : Loses(n, cut)
  /\ phase' = "aborted" /\ exit' = "abort"
  /\ UNCHANGED <<request, choice, header, position, counts>>

\* main's loop is through, or found no more data: both are a success.
Finish ==
  /\ phase = "encoding"
  /\ phase' = "closing" /\ exit' = "success"
  /\ UNCHANGED <<request, file, choice, header, body, position, counts, delivered, lost>>

\* The output's destructor, its patches and fclose succeeding.
Close ==
  /\ phase = "closing"
  /\ phase' = "closed" /\ header' = Backfill(position)
  /\ UNCHANGED <<request, exit, file, choice, body, position, counts, delivered, lost>>

\* The buffer cannot be written out, or a patch fails. Nobody looks at what fflush,
\* fsync and fclose return, and the exit code is no longer main's to change.
CloseFails ==
  /\ phase = "closing"
  /\ \E n \in 0 .. Len(body), cut \in Cuts : Loses(n, cut)
  /\ \E done \in SUBSET DOMAIN header :
       header' = IF file' = "truncated" THEN NoHeader
                 ELSE [f \in DOMAIN header |-> IF f \in done THEN Backfill(position)[f]
                                               ELSE header[f]]
  /\ phase' = "closed"
  /\ UNCHANGED <<request, exit, choice, position, counts, delivered>>

Next ==
  \/ Refuse \/ CreateFails \/ Create
  \/ WriteFrame \/ WriteFails \/ WriteAborts
  \/ Finish \/ Close \/ CloseFails

Spec == Init /\ [][Next]_vars
-----------------------------------------------------------------------------
\* Types.
TypeOK ==
  /\ request \in Requests
  /\ phase \in {"start", "encoding", "closing", "closed", "aborted"} /\ lost \in BOOLEAN
  /\ exit \in {"none", "success", "failure", "abort"}
  /\ file \in {"untouched", "truncated", "written"}
  /\ container \in Containers \cup {"none"} /\ FrameSize \in Nat
  /\ header \in [size : Nat, samples : 0 .. Word32 - 1, data : 0 .. Word32 - 1, packets : Nat]
  /\ body \in Seq([kind : {"frame", "packet", "part", "dummy"}, of : Nat, size : Nat])
  /\ position \in Nat /\ FramesWritten \in 0 .. delivered /\ Timestamp \in Nat
  /\ delivered \in 0 .. MaxFrames

\* Whatever the announced length was and however encoding ended, a header tells
\* of what is in the file, unless the stream lost something: in RIFF the whole
\* frames, as far as 32 bits can count them, in RM the size of the chunk up to its
\* last byte.
RiffTells ==
  LET end == HeaderSize("riff") + FramesWritten * FrameSize
  IN container = "riff" /\ FramesWritten > 0 /\ end < Word32 - 1 =>
       /\ header.size + 8 = end /\ header.data = FramesWritten * FrameSize
       /\ FramesWritten * NumSamples < Word32 => header.samples = FramesWritten * NumSamples
       /\ end <= position /\ (exit = "success" => end = position)

RmTells == container = "rm" /\ position < Word32 => header.data = position

HeadersTell == phase = "closed" /\ ~lost => RiffTells /\ RmTells

\* A player that goes through a RM file in steps of a packet's size finds at each
\* one a packet's header with the time of its first frame, and its three frames
\* behind it in order; only the last may be incomplete.
PacketsLead ==
  container = "rm" =>
    \A k \in DOMAIN body :
      LET packet == (k - 1) \div 4
          frame  == (k - 1) % 4
      IN \/ body[k] = IF frame = 0 THEN Piece("packet", 3 * packet, 12)
                      ELSE Piece("frame", 3 * packet + frame - 1, FrameSize)
         \/ k = Len(body) /\ body[k].kind = "part"

\* However it ends, what is in the file is the first frames, all that the encoder
\* delivered if the program reports success and the stream could write what it had
\* taken; the container leaves AEA's first one out. A container that does not suit
\* the codec fails, and what was in the output file before is still there.
InFile(n) ==
  (container = "aea" /\ n = 0) \/ \E k \in DOMAIN body : body[k] = Piece("frame", n, FrameSize)

ExitTells ==
  /\ \A n \in 0 .. delivered - 1 : InFile(n) => \A i \in 0 .. n - 1 : InFile(i)
  /\ exit = "success" /\ ~lost => \A n \in 0 .. delivered - 1 : InFile(n)
  /\ ~Valid => file = "untouched" /\ exit \in {"none", "failure"}
-----------------------------------------------------------------------------
(***************************************************************************)
(* What documents and comments say                                         *)
(***************************************************************************)
\* The bitrates of the manual: man/atracdenc.1 lists those of the table, and its
\* example gives 344 as the greatest to ask for.
BitrateIsListed == file = "written" /\ request.codec = "atrac3" => Below < 8
=============================================================================
