------------------------ MODULE EncodeSession_proofs ------------------------
(***************************************************************************)
(* Whatever the sizes, the requests, the errors and the number of frames:  *)
(* headers tell of the file they are in, the packets of a RM file lie where *)
(* a player looks for them, and success means that every frame is there.   *)
(***************************************************************************)
EXTENDS EncodeSession, FiniteSetTheorems, SequenceTheorems, TLAPS

Pieces == [kind : {"frame", "packet", "part", "dummy"}, of : Nat, size : Nat]
Fields == [size : Nat, samples : 0 .. Word32 - 1, data : 0 .. Word32 - 1, packets : Nat]

\* A whole packet of a RM file and the frames behind it, by position.
Expected(k) ==
  LET packet == (k - 1) \div 4
      frame  == (k - 1) % 4
  IN IF frame = 0 THEN Piece("packet", 3 * packet, 12)
     ELSE Piece("frame", 3 * packet + frame - 1, FrameSize)

StartInv ==
  phase = "start" =>
    /\ exit = "none" /\ file = "untouched" /\ container = "none"
    /\ body = <<>> /\ FramesWritten = 0 /\ Timestamp = 0 /\ delivered = 0

RefusedInv ==
  /\ ~Valid => file = "untouched" /\ exit \in {"none", "failure"} /\ phase \in {"start", "closed"}
  /\ container = "none" => phase \in {"start", "closed"} /\ body = <<>>

Whole == HeaderSize("riff") + FramesWritten * FrameSize

RiffInv ==
  container = "riff" /\ ~lost =>
    /\ phase = "encoding" => position = Whole
    /\ phase = "closing" => Whole <= position /\ (exit = "success" => position = Whole)

RmInv ==
  /\ container = "rm" /\ phase = "encoding" =>
       /\ delivered = FramesWritten
       /\ Timestamp = 3 * (FramesWritten \div 3)
       /\ Len(body) = FramesWritten + (FramesWritten + 2) \div 3
       /\ \A k \in DOMAIN body : body[k] = Expected(k)

FramesInv ==
  phase = "encoding" \/ (exit = "success" /\ ~lost) =>
    phase # "start" /\ \A n \in 0 .. delivered - 1 : InFile(n)

\* Frames lie behind all earlier ones, so that a cut takes the last away first.
Before(k, i) ==
  (container = "aea" /\ i = 0) \/ \E j \in 1 .. k : body[j] = Piece("frame", i, FrameSize)

OrderInv ==
  \A k \in DOMAIN body :
    body[k].kind = "frame" => \A i \in 0 .. body[k].of - 1 : Before(k, i)

\* A sequence that is the beginning of another, but for a part at its end.
BeginsLike(s, t) ==
  \A k \in DOMAIN s : (k \in DOMAIN t /\ s[k] = t[k]) \/ (k = Len(s) /\ s[k].kind = "part")

IInv ==
  /\ TypeOK /\ StartInv /\ RefusedInv /\ RiffInv /\ RmInv /\ FramesInv /\ OrderInv
  /\ HeadersTell /\ PacketsLead
-----------------------------------------------------------------------------
\* Sizes of frames are numbers, though the table may be left.
LEMMA SizesTyped ==
  ASSUME request \in Request
  PROVE  FrameSizes \subseteq Nat
  <1>1. \A n \in 1 .. 8 : ContainerParams[n].size \in Nat
    <2>1. \A n \in 1 .. 8 : n = 1 \/ n = 2 \/ n = 3 \/ n = 4 \/ n = 5 \/ n = 6 \/ n = 7 \/ n = 8
      OBVIOUS
    <2> QED BY <2>1 DEF ContainerParams
  <1>2. Below \in Nat
    <2>1. {n \in 1 .. 8 : ContainerParams[n].rate < Bitrate} \subseteq 1 .. 8
      OBVIOUS
    <2>2. 1 \in Int /\ 8 \in Int
      OBVIOUS
    <2>3. IsFiniteSet(1 .. 8)
      BY <2>2, FS_Interval
    <2> QED BY <2>1, <2>3, FS_Subset, FS_CardinalityType DEF Below
  <1>3. \A n \in (IF Below < 8 THEN {Below + 1} ELSE 1 .. 8) : n \in 1 .. 8
    BY <1>2
  <1>4. request.codec \in Codecs
    BY DEF Request
  <1> QED BY <1>1, <1>3, <1>4 DEF FrameSizes, Codecs

\* A container that suits the codec is one of the five, and a RIFF header has a
\* length.
LEMMA SessionTyped ==
  ASSUME request \in Request
  PROVE  /\ Valid => Selected \in Containers
         /\ request.codec = "atrac3plus" /\ Valid => Selected # "rm"
         /\ HeaderSize("riff") \in {76, 80}
         /\ \A c \in Containers : HeaderSize(c) \in Nat
         /\ NumSamples \in {1024, 2048}
         /\ NumFrames \in 0 .. Word32 - 1
  <1>1. request.codec \in Codecs /\ request.announced \in Nat
    BY DEF Request
  <1>2. Valid => Selected \in Containers
    BY <1>1 DEF Valid, ValidContainers, Codecs, Containers
  <1>3. request.codec = "atrac3plus" /\ Valid => Selected # "rm"
    BY DEF Valid, ValidContainers
  <1>4. HeaderSize("riff") \in {76, 80} /\ \A c \in Containers : HeaderSize(c) \in Nat
    BY DEF HeaderSize, Containers
  <1>5. NumSamples \in {1024, 2048}
    BY DEF NumSamples
  <1>6. request.announced \div NumSamples \in Nat
    BY <1>1, <1>5
  <1>7. NumFrames \in 0 .. Word32 - 1
    BY <1>6, SessionAssumption DEF NumFrames
  <1> QED BY <1>2, <1>3, <1>4, <1>5, <1>7

\* What a RIFF header counts.
LEMMA RiffTyped ==
  ASSUME request \in Request, NEW frames \in Nat, NEW size \in Nat
  PROVE  /\ RiffHeader(frames, size) \in Fields
         /\ frames * size \in Nat
         /\ RiffHeader(frames, size).size = HeaderSize("riff") + frames * size - 8
         /\ RiffHeader(frames, size).data = (frames * size) % Word32
         /\ RiffHeader(frames, size).samples = (frames * NumSamples) % Word32
  <1>1. HeaderSize("riff") \in {76, 80} /\ NumSamples \in {1024, 2048}
    BY SessionTyped
  <1> DEFINE bytes   == frames * size
             samples == frames * NumSamples
  <1>2. bytes \in Nat /\ samples \in Nat
    BY <1>1
  <1>3. RiffHeader(frames, size) =
          [size |-> HeaderSize("riff") + bytes - 8, samples |-> samples % Word32,
           data |-> bytes % Word32, packets |-> 0]
    BY DEF RiffHeader
  <1> HIDE DEF bytes, samples
  <1>4. /\ HeaderSize("riff") + bytes - 8 \in Nat
        /\ samples % Word32 \in 0 .. Word32 - 1 /\ bytes % Word32 \in 0 .. Word32 - 1
    BY <1>1, <1>2, SessionAssumption
  <1>5. RiffHeader(frames, size) \in Fields
    BY <1>3, <1>4 DEF Fields
  <1> QED BY <1>2, <1>3, <1>5 DEF bytes, samples

LEMMA AnnounceTyped ==
  ASSUME request \in Request, NEW c \in Containers, NEW size \in Nat
  PROVE  Announce(c, size) \in Fields
  <1>1. NumFrames \in Nat
    BY SessionTyped, SessionAssumption
  <1>2. RiffHeader(NumFrames, size) \in Fields
    BY <1>1, RiffTyped
  <1>3. NoHeader \in Fields
    BY SessionAssumption DEF NoHeader, Fields
  <1>4. [size |-> 0, samples |-> 0, data |-> Word32 - 1, packets |-> NumFrames] \in Fields
    BY <1>1, SessionAssumption DEF Fields
  <1> QED BY <1>2, <1>3, <1>4 DEF Announce, Containers

\* What a destructor puts in is typed and tells of the file.
LEMMA BackfillTyped ==
  ASSUME TypeOK, NEW end \in Nat, container \in Containers
  PROVE  Backfill(end) \in Fields
  <1>1. request \in Request /\ header \in Fields /\ FramesWritten \in Nat /\ FrameSize \in Nat
    BY SessionAssumption DEF TypeOK, Fields
  <1>2. RiffHeader(FramesWritten, FrameSize) \in Fields
    BY <1>1, RiffTyped
  <1>3. end < Word32 => [header EXCEPT !.data = end] \in Fields
    BY <1>1, SessionAssumption DEF Fields
  <1> QED BY <1>1, <1>2, <1>3 DEF Backfill, Containers

LEMMA BackfillTells ==
  ASSUME TypeOK, RiffInv, phase = "closing", ~lost, container \in Containers, NEW end \in Nat,
         end = position
  PROVE  LET whole == HeaderSize("riff") + FramesWritten * FrameSize
         IN /\ container = "riff" /\ FramesWritten > 0 /\ whole < Word32 - 1 =>
                 /\ Backfill(end).size + 8 = whole
                 /\ Backfill(end).data = FramesWritten * FrameSize
                 /\ FramesWritten * NumSamples < Word32 =>
                      Backfill(end).samples = FramesWritten * NumSamples
                 /\ whole <= end /\ (exit = "success" => whole = end)
            /\ container = "rm" /\ end < Word32 => Backfill(end).data = end
  <1> DEFINE bytes   == FramesWritten * FrameSize
             samples == FramesWritten * NumSamples
             whole   == HeaderSize("riff") + bytes
  <1>1. request \in Request /\ FramesWritten \in Nat /\ FrameSize \in Nat /\ position \in Nat
    BY SessionAssumption DEF TypeOK
  <1>2. /\ HeaderSize("riff") \in {76, 80} /\ NumSamples \in {1024, 2048} /\ bytes \in Nat
        /\ RiffHeader(FramesWritten, FrameSize).size = whole - 8
        /\ RiffHeader(FramesWritten, FrameSize).data = bytes % Word32
        /\ RiffHeader(FramesWritten, FrameSize).samples = samples % Word32
    <2>1. HeaderSize("riff") \in {76, 80} /\ NumSamples \in {1024, 2048}
      BY <1>1, SessionTyped
    <2>2. /\ FramesWritten * FrameSize \in Nat
          /\ RiffHeader(FramesWritten, FrameSize).size =
               HeaderSize("riff") + FramesWritten * FrameSize - 8
          /\ RiffHeader(FramesWritten, FrameSize).data = (FramesWritten * FrameSize) % Word32
          /\ RiffHeader(FramesWritten, FrameSize).samples = (FramesWritten * NumSamples) % Word32
      BY <1>1, RiffTyped, Zenon
    <2>3. RiffHeader(FramesWritten, FrameSize).size = whole - 8
      <3>1. bytes \in Nat /\ RiffHeader(FramesWritten, FrameSize).size = HeaderSize("riff") + bytes - 8
        BY <2>2, Zenon
      <3> HIDE DEF bytes
      <3> QED BY <2>1, <3>1
    <2> QED BY <2>1, <2>2, <2>3
  <1>3. samples \in Nat
    BY <1>1, <1>2
  <1>4. container = "riff" => whole <= position /\ (exit = "success" => position = whole)
    BY DEF RiffInv, Whole
  <1>5. TooBig(FramesWritten, FrameSize) <=> whole >= Word32 - 1
    BY DEF TooBig
  <1>6. ASSUME container = "rm", end < Word32
        PROVE  Backfill(end).data = end
    BY <1>6 DEF Backfill, TypeOK
  <1>7. ASSUME container = "riff", FramesWritten > 0, whole < Word32 - 1
        PROVE  /\ Backfill(end).size + 8 = whole /\ Backfill(end).data = bytes
               /\ samples < Word32 => Backfill(end).samples = samples
               /\ whole <= end /\ (exit = "success" => whole = end)
    <2>1. ~TooBig(FramesWritten, FrameSize)
      BY <1>1, <1>2, <1>5, <1>7, SessionAssumption
    <2>2. Backfill(end) = RiffHeader(FramesWritten, FrameSize)
      BY <2>1, <1>7 DEF Backfill
    <2> HIDE DEF bytes, samples
    <2>3. bytes % Word32 = bytes /\ (samples < Word32 => samples % Word32 = samples)
      BY <1>2, <1>3, <1>7, SessionAssumption
    <2>4. whole <= end /\ (exit = "success" => whole = end)
      BY <1>1, <1>2, <1>4, <1>7
    <2> QED BY <1>2, <2>2, <2>3, <2>4
  <1> QED BY <1>6, <1>7
-----------------------------------------------------------------------------
(***************************************************************************)
(* Types.                                                                  *)
(***************************************************************************)
LEMMA PieceTyped ==
  ASSUME NEW kind \in {"frame", "packet", "part", "dummy"}, NEW of \in Nat, NEW size \in Nat
  PROVE  /\ Piece(kind, of, size) \in Pieces
         /\ <<Piece(kind, of, size)>> \in Seq(Pieces) /\ <<>> \in Seq(Pieces)
  <1>1. Piece(kind, of, size) \in Pieces
    BY DEF Piece, Pieces
  <1> QED BY <1>1

LEMMA PiecesTyped ==
  ASSUME TypeOK
  PROVE  /\ body \in Seq(Pieces) /\ Packet \in Seq(Pieces)
         /\ \A cut \in Nat : Part(cut) \in Seq(Pieces)
         /\ \A n \in Nat : Piece("frame", n, FrameSize) \in Pieces
  <1>1. body \in Seq(Pieces) /\ Timestamp \in Nat /\ FrameSize \in Nat
    BY DEF TypeOK, Pieces
  <1>2. <<Piece("packet", Timestamp, 12)>> \in Seq(Pieces) /\ <<>> \in Seq(Pieces)
    BY <1>1, PieceTyped
  <1>3. Packet \in Seq(Pieces)
    BY <1>2 DEF Packet
  <1>4. \A cut \in Nat : <<Piece("part", 0, cut)>> \in Seq(Pieces)
    BY PieceTyped
  <1>5. \A cut \in Nat : Part(cut) \in Seq(Pieces)
    BY <1>2, <1>4 DEF Part
  <1>6. \A n \in Nat : Piece("frame", n, FrameSize) \in Pieces
    BY <1>1, PieceTyped
  <1> QED BY <1>1, <1>3, <1>5, <1>6

\* A part at the end leaves all before it as it was.
LEMMA PartEnds ==
  ASSUME NEW head \in Seq(Pieces), NEW cut \in Nat, NEW s, s = head \o Part(cut)
  PROVE  /\ s \in Seq(Pieces) /\ BeginsLike(s, head)
         /\ Len(s) <= Len(head) + 1 /\ (cut = 0 => s = head)
  <1>1. CASE cut = 0
    <2>1. Part(cut) = <<>>
      BY <1>1 DEF Part
    <2>2. s = head
      BY <2>1
    <2> QED BY <2>2 DEF BeginsLike
  <1>2. CASE cut # 0
    <2> DEFINE piece == Piece("part", 0, cut)
    <2>1. piece \in Pieces
      BY PieceTyped
    <2>2. piece.kind = "part"
      BY DEF Piece
    <2>3. Part(cut) = <<piece>>
      BY <1>2 DEF Part
    <2> HIDE DEF piece
    <2>4. s = Append(head, piece)
      BY <2>1, <2>3
    <2>5. /\ s \in Seq(Pieces) /\ Len(s) = Len(head) + 1 /\ DOMAIN s = 1 .. Len(head) + 1
          /\ s[Len(head) + 1] = piece /\ \A k \in 1 .. Len(head) : s[k] = head[k]
      BY <2>1, <2>4
    <2>6. BeginsLike(s, head)
      BY <2>2, <2>5 DEF BeginsLike
    <2> QED BY <1>2, <2>5, <2>6
  <1> QED BY <1>1, <1>2

\* What is left when a stream gives its buffer up: pieces as they were, and perhaps
\* a part behind them.
LEMMA LosesTail ==
  ASSUME TypeOK, NEW n \in 0 .. Len(body), NEW cut \in Cuts, Loses(n, cut)
  PROVE  /\ lost' /\ lost' \in BOOLEAN /\ file' \in {file, "truncated"} /\ body' \in Seq(Pieces)
         /\ BeginsLike(body', body) /\ Len(body') <= Len(body)
  <1>1. /\ lost' = TRUE /\ file' \in {file, "truncated"}
        /\ body' = SubSeq(body, 1, n) \o Part(cut)
    BY DEF Loses
  <1>2. cut \in Nat /\ body \in Seq(Pieces)
    BY PiecesTyped, SessionAssumption
  <1> DEFINE head == SubSeq(body, 1, n)
  <1>3. /\ head \in Seq(Pieces) /\ Len(head) = n
        /\ \A k \in DOMAIN head : k \in DOMAIN body /\ head[k] = body[k]
    <2> DEFINE len == Len(body)
    <2>1. len \in Nat /\ DOMAIN body = 1 .. len /\ n \in 0 .. len
      BY <1>2
    <2> HIDE DEF len
    <2>2. /\ SubSeq(body, 1, n) \in Seq(Pieces) /\ Len(SubSeq(body, 1, n)) = n
          /\ DOMAIN SubSeq(body, 1, n) = 1 .. n
          /\ \A k \in 1 .. n : SubSeq(body, 1, n)[k] = body[k]
      BY <1>2, <2>1 DEF len
    <2> QED BY <2>1, <2>2
  <1>4. body' = head \o Part(cut)
    BY <1>1
  <1> HIDE DEF head
  <1>5. body' \in Seq(Pieces) /\ BeginsLike(body', head)
    BY <1>2, <1>3, <1>4, PartEnds
  <1>6. Len(body') <= Len(body)
    <2>1. Len(body) \in Nat /\ Len(body') \in Nat /\ Len(body') <= n + 1
      <3>1. Len(body') <= Len(head) + 1
        BY <1>2, <1>3, <1>4, PartEnds
      <3>2. Len(body) \in Nat /\ Len(body') \in Nat
        BY <1>2, <1>5
      <3> QED BY <1>3, <3>1, <3>2
    <2>2. n = Len(body) => cut = 0
      <3>1. cut < IF n < Len(body) THEN body[n + 1].size ELSE 1
        BY DEF Loses
      <3> QED BY <1>2, <2>1, <3>1
    <2>3. cut = 0 => Len(body') = n
      BY <1>2, <1>3, <1>4, PartEnds
    <2> QED BY <2>1, <2>2, <2>3
  <1> QED BY <1>1, <1>3, <1>5, <1>6 DEF BeginsLike

LEMMA EndTyped ==
  ASSUME request \in Request, container \in Containers, FrameSize \in Nat, NEW n \in Nat
  PROVE  EndOf(n) \in Nat
  <1> DEFINE packets == IF container = "rm" THEN (n + 3) \div 4 ELSE 0
             frames  == n - packets
  <1>1. packets \in Nat /\ frames \in Nat
    <2>1. CASE n = 0
      BY <2>1
    <2>2. CASE n > 0
      <3>1. (n + 3) \div 4 \in Nat /\ (n + 3) \div 4 <= n
        BY <2>2
      <3> QED BY <3>1
    <2> QED BY <2>1, <2>2
  <1>2. HeaderSize(container) \in Nat
    BY SessionTyped
  <1>3. EndOf(n) = HeaderSize(container) + 12 * packets + FrameSize * frames
    BY DEF EndOf
  <1> HIDE DEF packets, frames
  <1>4. FrameSize * frames \in Nat /\ 12 * packets \in Nat
    BY <1>1
  <1> QED BY <1>2, <1>3, <1>4

LEMMA InitTyped == Init => IInv
  <1> SUFFICES ASSUME Init PROVE IInv
    OBVIOUS
  <1> USE DEF Init
  <1>1. NoHeader \in Fields
    BY SessionAssumption DEF NoHeader, Fields
  <1>2. TypeOK
    <2>1. body \in Seq(Pieces)
      OBVIOUS
    <2>2. /\ phase \in {"start", "encoding", "closing", "closed", "aborted"} /\ lost \in BOOLEAN
          /\ request \in Requests /\ exit \in {"none", "success", "failure", "abort"}
          /\ file \in {"untouched", "truncated", "written"}
          /\ container \in Containers \cup {"none"} /\ FrameSize \in Nat
      OBVIOUS
    <2>3. /\ position \in Nat /\ FramesWritten \in 0 .. delivered /\ Timestamp \in Nat
          /\ delivered \in 0 .. MaxFrames
      BY SessionAssumption
    <2>4. header \in Fields
      BY <1>1
    <2> QED BY <2>1, <2>2, <2>3, <2>4, Zenon DEF TypeOK, Fields, Pieces
  <1>3. StartInv /\ RefusedInv /\ RiffInv /\ RmInv /\ FramesInv /\ HeadersTell
    <2>1. StartInv /\ RefusedInv
      BY DEF StartInv, RefusedInv
    <2>2. RiffInv /\ RmInv
      BY DEF RiffInv, RmInv
    <2>3. FramesInv /\ HeadersTell
      BY DEF FramesInv, HeadersTell
    <2> QED BY <2>1, <2>2, <2>3
  <1>4. PacketsLead /\ OrderInv
    <2>1. DOMAIN body = {}
      OBVIOUS
    <2> QED BY <2>1 DEF PacketsLead, OrderInv
  <1> QED BY <1>2, <1>3, <1>4 DEF IInv

LEMMA TypeStep ==
  ASSUME TypeOK, StartInv, RefusedInv, [Next]_vars
  PROVE  TypeOK'
  <1> USE DEF TypeOK
  <1>1. request \in Request /\ FramesWritten \in Nat /\ delivered \in Nat /\ MaxFrames \in Nat
    BY SessionAssumption
  <1>2. CASE Refuse
    BY <1>2 DEF Refuse, choice, counts
  <1>3. CASE CreateFails
    BY <1>3 DEF CreateFails, choice, counts
  <1>4. CASE Create
    <2>1. Selected \in Containers /\ HeaderSize(Selected) \in Nat
      BY <1>1, <1>4, SessionTyped DEF Create
    <2>2. PICK size \in FrameSizes : FrameSize' = size /\ header' = Announce(Selected, size)
      BY <1>4 DEF Create
    <2>3. FrameSize' \in Nat /\ header' \in Fields
      BY <1>1, <2>1, <2>2, SizesTyped, AnnounceTyped
    <2>4. body' \in Seq(Pieces)
      <3>1. <<Piece("dummy", 0, 212)>> \in Seq(Pieces) /\ <<>> \in Seq(Pieces)
        BY PieceTyped
      <3> QED BY <1>4, <3>1 DEF Create
    <2>5. /\ container' \in Containers /\ file' = "written" /\ position' \in Nat
          /\ phase' \in {"encoding", "closing"} /\ exit' \in {exit, "failure"}
          /\ UNCHANGED <<request, FramesWritten, Timestamp, delivered, lost>>
      BY <1>4, <2>1 DEF Create, counts
    <2> QED BY <2>3, <2>4, <2>5 DEF Fields, Pieces
  <1>5. CASE WriteFrame
    <2>1. body' \in Seq(Pieces)
      <3>1. Piece("frame", delivered, FrameSize) \in Pieces /\ body \in Seq(Pieces) /\ Packet \in Seq(Pieces)
        BY <1>1, PiecesTyped
      <3>2. (body \o Packet) \o <<Piece("frame", delivered, FrameSize)>> \in Seq(Pieces)
        BY <3>1
      <3> QED BY <1>5, <3>1, <3>2 DEF WriteFrame
    <2>2. delivered' = delivered + 1 /\ delivered < MaxFrames
      BY <1>5 DEF WriteFrame
    <2>3. position' \in Nat
      <3>1. (IF FirstOfPacket THEN 12 ELSE 0) \in Nat
        OBVIOUS
      <3>2. position' \in {position, position + (IF FirstOfPacket THEN 12 ELSE 0) + FrameSize}
        BY <1>5 DEF WriteFrame
      <3> QED BY <3>1, <3>2
    <2>4. FramesWritten' \in {FramesWritten, FramesWritten + 1} /\ Timestamp' \in {Timestamp, Timestamp + 3}
      BY <1>5 DEF WriteFrame, counts
    <2>5. FramesWritten' \in 0 .. delivered' /\ Timestamp' \in Nat
      BY <1>1, <2>2, <2>4
    <2> QED BY <1>1, <1>5, <2>1, <2>2, <2>3, <2>5 DEF WriteFrame, choice, Pieces
  <1>6. CASE WriteFails
    <2>1. PICK cut \in Cuts :
             \/ /\ body' = body \o Packet \o Part(cut) /\ UNCHANGED <<file, lost>>
                /\ position' = position + (IF FirstOfPacket THEN 12 ELSE 0) + cut
             \/ /\ body' = body \o Part(cut) /\ UNCHANGED <<file, lost>>
                /\ position' = position + cut
             \/ \E n \in 0 .. Len(body) - 1 : Loses(n, cut) /\ position' = EndOf(n) + cut
      BY <1>6 DEF WriteFails
    <2>2. cut \in Nat
      BY SessionAssumption
    <2>3. container \in Containers
      BY <1>6 DEF WriteFails, RefusedInv
    <2>4. body' \in Seq(Pieces) /\ lost' \in BOOLEAN /\ file' \in {file, "truncated"} /\ position' \in Nat
      <3>1. CASE /\ body' = body \o Packet \o Part(cut) /\ UNCHANGED <<file, lost>>
                 /\ position' = position + (IF FirstOfPacket THEN 12 ELSE 0) + cut
        <4>1. body \in Seq(Pieces) /\ Packet \in Seq(Pieces) /\ Part(cut) \in Seq(Pieces)
          BY <2>2, PiecesTyped
        <4>2. (body \o Packet) \o Part(cut) \in Seq(Pieces)
          BY <4>1
        <4> QED BY <2>2, <3>1, <4>2
      <3>2. CASE /\ body' = body \o Part(cut) /\ UNCHANGED <<file, lost>>
                 /\ position' = position + cut
        <4>1. body \o Part(cut) \in Seq(Pieces)
          BY <2>2, PiecesTyped
        <4> QED BY <2>2, <3>2, <4>1
      <3>3. ASSUME NEW n \in 0 .. Len(body) - 1, Loses(n, cut), position' = EndOf(n) + cut
            PROVE  body' \in Seq(Pieces) /\ lost' \in BOOLEAN /\ file' \in {file, "truncated"}
                   /\ position' \in Nat
        <4>1. n \in 0 .. Len(body) /\ n \in Nat
          BY <3>3
        <4>2. EndOf(n) \in Nat
          BY <1>1, <2>3, <4>1, EndTyped
        <4> QED BY <2>2, <3>3, <4>1, <4>2, LosesTail
      <3> QED BY <2>1, <3>1, <3>2, <3>3
    <2>5. header' \in Fields
      <3>1. header \in Fields /\ NoHeader \in Fields
        BY SessionAssumption DEF Fields, NoHeader
      <3> QED BY <1>6, <3>1 DEF WriteFails
    <2>6. delivered' = delivered + 1 /\ delivered < MaxFrames
      BY <1>6 DEF WriteFails
    <2>7. FramesWritten' \in 0 .. delivered' /\ delivered' \in 0 .. MaxFrames /\ Timestamp' \in Nat
      BY <1>1, <1>6, <2>6 DEF WriteFails, counts
    <2> QED BY <1>6, <2>4, <2>5, <2>7 DEF WriteFails, Broken, choice, Fields, Pieces
  <1>7. CASE WriteAborts
    <2>1. PICK n \in 0 .. Len(body), cut \in Cuts : Loses(n, cut)
      BY <1>7 DEF WriteAborts
    <2>2. body' \in Seq(Pieces) /\ lost' \in BOOLEAN /\ file' \in {file, "truncated"}
      BY <2>1, LosesTail
    <2>3. delivered' = delivered + 1 /\ delivered < MaxFrames
      BY <1>7 DEF WriteAborts
    <2>4. FramesWritten' \in 0 .. delivered' /\ delivered' \in 0 .. MaxFrames
      BY <1>1, <1>7, <2>3 DEF WriteAborts, counts
    <2> QED BY <1>7, <2>2, <2>4 DEF WriteAborts, choice, counts, Pieces
  <1>8. CASE Finish
    BY <1>8 DEF Finish, choice, counts
  <1>9. CASE Close
    <2>1. container \in Containers
      BY <1>9 DEF Close, RefusedInv
    <2>2. header' \in Fields
      BY <1>9, <2>1, BackfillTyped DEF Close
    <2> QED BY <1>9, <2>2 DEF Close, choice, counts, Fields
  <1>10. CASE CloseFails
    <2>1. PICK n \in 0 .. Len(body), cut \in Cuts : Loses(n, cut)
      BY <1>10 DEF CloseFails
    <2>2. body' \in Seq(Pieces) /\ lost' \in BOOLEAN /\ file' \in {file, "truncated"}
      BY <2>1, LosesTail
    <2>3. container \in Containers
      BY <1>10 DEF CloseFails, RefusedInv
    <2>4. PICK done \in SUBSET DOMAIN header :
            header' = IF file' = "truncated" THEN NoHeader
                      ELSE [f \in DOMAIN header |-> IF f \in done THEN Backfill(position)[f]
                                                    ELSE header[f]]
      BY <1>10 DEF CloseFails
    <2>5. header' \in Fields
      <3>1. header \in Fields /\ NoHeader \in Fields /\ Backfill(position) \in Fields
        <4>1. header \in Fields /\ NoHeader \in Fields
          BY SessionAssumption DEF Fields, NoHeader
        <4> QED BY <2>3, <4>1, BackfillTyped
      <3>2. DOMAIN header = {"size", "samples", "data", "packets"}
        BY <3>1 DEF Fields
      <3>3. [f \in DOMAIN header |-> IF f \in done THEN Backfill(position)[f] ELSE header[f]]
              \in Fields
        <4> DEFINE new == [f \in DOMAIN header |-> IF f \in done THEN Backfill(position)[f]
                                                  ELSE header[f]]
        <4>1. /\ new = [size |-> new.size, samples |-> new.samples, data |-> new.data,
                       packets |-> new.packets]
              /\ \A f \in DOMAIN header : new[f] \in {header[f], Backfill(position)[f]}
          BY <3>2
        <4>2. \A h \in Fields : /\ h.size \in Nat /\ h.packets \in Nat
                               /\ h.samples \in 0 .. Word32 - 1 /\ h.data \in 0 .. Word32 - 1
          BY DEF Fields
        <4> HIDE DEF new
        <4>3. /\ new.size \in Nat /\ new.packets \in Nat
              /\ new.samples \in 0 .. Word32 - 1 /\ new.data \in 0 .. Word32 - 1
          BY <3>1, <3>2, <4>1, <4>2
        <4>4. new \in Fields
          BY <4>1, <4>3 DEF Fields
        <4> QED BY <4>4 DEF new
      <3> QED BY <2>4, <3>1, <3>3
    <2> QED BY <1>10, <2>2, <2>5 DEF CloseFails, choice, counts, Fields, Pieces
  <1>11. CASE UNCHANGED vars
    BY <1>11 DEF vars, choice, counts
  <1> QED BY <1>2, <1>3, <1>4, <1>5, <1>6, <1>7, <1>8, <1>9, <1>10, <1>11 DEF Next
-----------------------------------------------------------------------------
(***************************************************************************)
(* Headers.                                                                *)
(***************************************************************************)
LEMMA StartStep ==
  ASSUME TypeOK, StartInv, RefusedInv, [Next]_vars
  PROVE  StartInv' /\ RefusedInv'
  <1>1. request \in Request
    BY SessionAssumption DEF TypeOK
  <1>2. request' = request /\ (Valid' <=> Valid)
    <2>1. request' = request
      BY DEF Next, Refuse, CreateFails, Create, WriteFrame, WriteFails, WriteAborts, Finish,
         Close, CloseFails, vars
    <2> QED BY <2>1 DEF Valid, Selected
  <1>3. phase = "start" \/ phase' # "start" \/ UNCHANGED vars
    BY DEF Next, Refuse, CreateFails, Create, WriteFrame, WriteFails, WriteAborts,
       Finish, Close, CloseFails
  <1>4. Next => phase' # "start"
    BY DEF Next, Refuse, CreateFails, Create, WriteFrame, WriteFails, WriteAborts,
       Finish, Close, CloseFails, TypeOK
  <1>5. StartInv'
    BY <1>4 DEF StartInv, vars, choice, counts
  <1>6. CASE Refuse
    BY <1>2, <1>5, <1>6 DEF Refuse, RefusedInv, StartInv, choice
  <1>7. CASE CreateFails
    BY <1>2, <1>5, <1>7 DEF CreateFails, RefusedInv, StartInv, choice
  <1>8. CASE Create
    <2>1. Valid /\ container' = Selected
      BY <1>8 DEF Create
    <2>2. container' # "none"
      BY <1>1, <2>1, SessionTyped DEF Containers
    <2> QED BY <1>2, <1>5, <2>1, <2>2 DEF RefusedInv
  <1>9. CASE WriteFrame \/ WriteFails \/ WriteAborts \/ Finish \/ Close \/ CloseFails
    <2>1. phase \in {"encoding", "closing"} /\ container' = container
      BY <1>9 DEF WriteFrame, WriteFails, WriteAborts, Finish, Close, CloseFails, choice
    <2>2. Valid /\ container # "none"
      BY <2>1 DEF RefusedInv
    <2> QED BY <1>2, <1>5, <2>1, <2>2 DEF RefusedInv
  <1>10. CASE UNCHANGED vars
    BY <1>2, <1>5, <1>10 DEF vars, RefusedInv, choice
  <1> QED BY <1>5, <1>6, <1>7, <1>8, <1>9, <1>10 DEF Next

LEMMA RiffStep ==
  ASSUME TypeOK, StartInv, RefusedInv, RiffInv, [Next]_vars
  PROVE  RiffInv'
  <1>1. /\ request \in Request /\ FramesWritten \in Nat /\ FrameSize \in Nat /\ position \in Nat
        /\ HeaderSize("riff") \in {76, 80}
    BY SessionAssumption, SessionTyped DEF TypeOK
  <1>2. request' = request /\ HeaderSize("riff")' = HeaderSize("riff")
    <2>1. request' = request
      BY DEF Next, Refuse, CreateFails, Create, WriteFrame, WriteFails, WriteAborts, Finish,
         Close, CloseFails, vars
    <2> QED BY <2>1 DEF HeaderSize
  <1>3. CASE Create
    <2>1. FramesWritten' = 0 /\ FrameSize' \in Nat
      <3>1. PICK size \in FrameSizes : FrameSize' = size
        BY <1>3 DEF Create
      <3> QED BY <1>1, <1>3, <3>1, SizesTyped DEF Create, StartInv, counts
    <2>2. container' = "riff" => position' = HeaderSize("riff")
      BY <1>3 DEF Create
    <2>3. FramesWritten' * FrameSize' = 0
      <3>1. \A n \in Nat : 0 * n = 0
        OBVIOUS
      <3> QED BY <2>1, <3>1, Zenon
    <2>4. container' = "riff" => position' = Whole'
      BY <1>1, <1>2, <2>2, <2>3 DEF Whole
    <2>5. container' = "riff" => position' \in Nat
      BY <1>1, <2>2
    <2> QED BY <2>4, <2>5 DEF RiffInv
  <1>4. CASE WriteFrame
    <2> SUFFICES ASSUME container' = "riff", ~lost
                 PROVE  position' = HeaderSize("riff") + FramesWritten' * FrameSize'
      <3>1. phase' = "encoding" /\ lost' = lost
        BY <1>4 DEF WriteFrame
      <3> QED BY <1>2, <3>1 DEF RiffInv, Whole
    <2>1. container = "riff" /\ FrameSize' = FrameSize /\ phase = "encoding"
      BY <1>4 DEF WriteFrame, choice
    <2>2. ~Dropped /\ ~FirstOfPacket
      BY <2>1 DEF Dropped, FirstOfPacket
    <2>3. FramesWritten' = FramesWritten + 1 /\ position' = position + 0 + FrameSize
      BY <1>4, <2>2 DEF WriteFrame
    <2>4. (FramesWritten + 1) * FrameSize = FramesWritten * FrameSize + FrameSize
      BY <1>1
    <2>5. position = HeaderSize("riff") + FramesWritten * FrameSize
      BY <2>1 DEF RiffInv, Whole
    <2> DEFINE bytes == FramesWritten * FrameSize
    <2>6. bytes \in Nat
      BY <1>1
    <2>7. position = HeaderSize("riff") + bytes /\ FramesWritten' * FrameSize' = bytes + FrameSize
      BY <2>1, <2>3, <2>4, <2>5
    <2> HIDE DEF bytes
    <2> QED BY <1>1, <2>3, <2>6, <2>7
  <1>5. CASE UNCHANGED vars
    BY <1>2, <1>5 DEF vars, choice, counts, RiffInv, Whole
  <1>6. CASE Refuse \/ CreateFails \/ WriteAborts \/ Close \/ CloseFails
    BY <1>6 DEF Refuse, CreateFails, WriteAborts, Close, CloseFails, RiffInv
  <1>7. CASE WriteFails
    <2> SUFFICES ASSUME container' = "riff", ~lost' PROVE Whole' <= position'
      <3>1. phase' # "encoding" /\ exit' # "success"
        BY <1>7 DEF WriteFails, Broken
      <3> QED BY <3>1 DEF RiffInv
    <2>1. container = "riff" /\ phase = "encoding" /\ Whole' = Whole
      BY <1>2, <1>7 DEF WriteFails, choice, counts, Whole
    <2>2. PICK cut \in Cuts : /\ ~lost
                             /\ \/ position' = position + (IF FirstOfPacket THEN 12 ELSE 0) + cut
                                \/ position' = position + cut
      BY <1>7 DEF WriteFails, Loses
    <2>3. cut \in Nat /\ position = Whole
      BY <2>1, <2>2, SessionAssumption DEF RiffInv
    <2> QED BY <1>1, <2>1, <2>2, <2>3
  <1>8. CASE Finish
    <2>1. /\ phase = "encoding" /\ phase' = "closing" /\ lost' = lost /\ position' = position
          /\ container' = container /\ Whole' = Whole
      BY <1>2, <1>8 DEF Finish, choice, counts, Whole
    <2> QED BY <1>1, <2>1 DEF RiffInv
  <1> QED BY <1>3, <1>4, <1>5, <1>6, <1>7, <1>8 DEF Next

LEMMA HeaderStep ==
  ASSUME TypeOK, StartInv, RefusedInv, RiffInv, HeadersTell, [Next]_vars
  PROVE  HeadersTell'
  <1>1. /\ request \in Request /\ request' = request /\ position \in Nat
        /\ HeaderSize("riff")' = HeaderSize("riff") /\ NumSamples' = NumSamples
    <2>1. request' = request
      BY DEF Next, Refuse, CreateFails, Create, WriteFrame, WriteFails, WriteAborts, Finish,
         Close, CloseFails, vars
    <2> QED BY <2>1, SessionAssumption DEF TypeOK, HeaderSize, NumSamples
  <1>2. CASE Refuse \/ CreateFails
    <2>1. container' = "none"
      BY <1>2 DEF Refuse, CreateFails, StartInv, choice
    <2> QED BY <2>1 DEF HeadersTell, RiffTells, RmTells
  <1>3. CASE Create \/ WriteFrame \/ WriteAborts \/ Finish \/ CloseFails
    <2>1. phase' # "closed" \/ lost'
      BY <1>3 DEF Create, WriteFrame, WriteAborts, Finish, CloseFails, Loses
    <2> QED BY <2>1 DEF HeadersTell
  <1>4. CASE WriteFails
    <2>1. phase' = "closed" => container' = "aea"
      BY <1>4 DEF WriteFails, choice
    <2> QED BY <2>1 DEF HeadersTell, RiffTells, RmTells
  <1>5. CASE Close
    <2> SUFFICES ASSUME ~lost PROVE HeadersTell'
      BY <1>5 DEF Close, HeadersTell
    <2>1. /\ phase = "closing" /\ header' = Backfill(position)
          /\ UNCHANGED <<container, FrameSize, FramesWritten, position, exit>>
      BY <1>5 DEF Close, choice, counts
    <2>2. container \in Containers
      BY <2>1 DEF TypeOK, RefusedInv
    <2> DEFINE end   == position
               whole == HeaderSize("riff") + FramesWritten * FrameSize
    <2>3. /\ container = "riff" /\ FramesWritten > 0 /\ whole < Word32 - 1 =>
               /\ Backfill(end).size + 8 = whole
               /\ Backfill(end).data = FramesWritten * FrameSize
               /\ FramesWritten * NumSamples < Word32 =>
                    Backfill(end).samples = FramesWritten * NumSamples
               /\ whole <= end /\ (exit = "success" => whole = end)
          /\ container = "rm" /\ end < Word32 => Backfill(end).data = end
      BY <1>1, <2>1, <2>2, BackfillTells
    <2>4. RiffTells'
      BY <1>1, <2>1, <2>3, Zenon DEF RiffTells
    <2>5. RmTells'
      BY <2>1, <2>3, Zenon DEF RmTells
    <2> QED BY <2>4, <2>5 DEF HeadersTell
  <1>6. CASE UNCHANGED vars
    BY <1>1, <1>6 DEF vars, choice, counts, HeadersTell, RiffTells, RmTells
  <1> QED BY <1>2, <1>3, <1>4, <1>5, <1>6 DEF Next
-----------------------------------------------------------------------------
(***************************************************************************)
(* Frames.                                                                 *)
(***************************************************************************)
LEMMA FramesStep ==
  ASSUME TypeOK, StartInv, RefusedInv, FramesInv, [Next]_vars
  PROVE  FramesInv'
  <1>1. body \in Seq(Pieces) /\ Packet \in Seq(Pieces) /\ delivered \in Nat
    BY PiecesTyped, SessionAssumption DEF TypeOK
  <1>2. CASE Refuse \/ CreateFails \/ WriteFails \/ WriteAborts \/ CloseFails
    BY <1>2 DEF Refuse, CreateFails, WriteFails, WriteAborts, CloseFails, Loses, Broken, FramesInv
  <1>3. CASE Create
    <2>1. delivered' = 0 /\ phase' # "start"
      BY <1>3 DEF Create, StartInv
    <2> QED BY <2>1 DEF FramesInv
  <1>4. CASE WriteFrame
    <2> SUFFICES ASSUME NEW n \in 0 .. delivered
                 PROVE  InFile(n)'
      <3>1. phase' = "encoding" /\ delivered' = delivered + 1
        BY <1>4 DEF WriteFrame
      <3>2. (\A n \in 0 .. delivered' - 1 : InFile(n)') => FramesInv'
        BY <3>1 DEF FramesInv
      <3> QED BY <1>1, <3>1, <3>2
    <2>1. container' = container /\ FrameSize' = FrameSize /\ phase = "encoding"
      BY <1>4 DEF WriteFrame, choice
    <2>2. n # delivered => InFile(n)
      BY <1>1, <2>1 DEF FramesInv
    <2>3. CASE Dropped /\ UNCHANGED body
      BY <2>1, <2>2, <2>3 DEF InFile, Dropped
    <2>4. CASE body' = body \o Packet \o <<Piece("frame", delivered, FrameSize)>>
      <3> DEFINE head == body \o Packet
      <3>1. head \in Seq(Pieces) /\ Len(head) = Len(body) + Len(Packet)
            /\ \A k \in DOMAIN body : k \in DOMAIN head /\ head[k] = body[k]
        BY <1>1, ConcatProperties
      <3>2. body' = Append(head, Piece("frame", delivered, FrameSize))
        BY <2>4, <3>1
      <3> HIDE DEF head
      <3>3. /\ Len(head) + 1 \in DOMAIN body'
            /\ body'[Len(head) + 1] = Piece("frame", delivered, FrameSize)
            /\ \A k \in DOMAIN head : k \in DOMAIN body' /\ body'[k] = head[k]
        BY <3>1, <3>2
      <3>4. \A k \in DOMAIN body : k \in DOMAIN body' /\ body'[k] = body[k]
        BY <3>1, <3>3
      <3>5. n = delivered => \E k \in DOMAIN body' : body'[k] = Piece("frame", n, FrameSize)
        BY <3>3
      <3> QED BY <2>1, <2>2, <3>4, <3>5 DEF InFile
    <2> QED BY <1>4, <2>3, <2>4 DEF WriteFrame
  <1>5. CASE Finish \/ Close
    BY <1>5 DEF Finish, Close, FramesInv, InFile, choice
  <1>6. CASE UNCHANGED vars
    BY <1>6 DEF vars, FramesInv, InFile, choice
  <1> QED BY <1>2, <1>3, <1>4, <1>5, <1>6 DEF Next

\* Each frame of a sequence, and all before it, is where another has it.
FramesOf(s, t) ==
  \A k \in DOMAIN s : s[k].kind = "frame" => k \in DOMAIN t /\ \A j \in 1 .. k : s[j] = t[j]

LEMMA LikeHasFramesOf ==
  ASSUME NEW s \in Seq(Pieces), NEW t \in Seq(Pieces), BeginsLike(s, t)
  PROVE  FramesOf(s, t)
  <1> SUFFICES ASSUME NEW k \in DOMAIN s, s[k].kind = "frame"
               PROVE  k \in DOMAIN t /\ \A j \in 1 .. k : s[j] = t[j]
    BY DEF FramesOf
  <1>1. k \in DOMAIN t /\ s[k] = t[k]
    BY DEF BeginsLike
  <1>2. ASSUME NEW j \in 1 .. k, j # k
        PROVE  s[j] = t[j]
    <2> DEFINE len == Len(s)
    <2>1. len \in Nat /\ DOMAIN s = 1 .. len
      OBVIOUS
    <2> HIDE DEF len
    <2>2. j \in DOMAIN s /\ j # len
      BY <1>2, <2>1
    <2> QED BY <2>2 DEF BeginsLike, len
  <1> QED BY <1>1, <1>2

\* Where only the end of the file goes, what lies behind all earlier frames still does.
LEMMA OrderKept ==
  ASSUME OrderInv, body \in Seq(Pieces), FramesOf(body', body),
         container' = container, FrameSize' = FrameSize
  PROVE  OrderInv'
  <1> SUFFICES ASSUME NEW k \in DOMAIN body', body'[k].kind = "frame",
                      NEW i \in 0 .. body'[k].of - 1
               PROVE  Before(k, i)'
    BY DEF OrderInv
  <1>1. k \in DOMAIN body /\ \A j \in 1 .. k : body'[j] = body[j]
    BY DEF FramesOf
  <1>2. body'[k] = body[k]
    BY <1>1
  <1>3. Before(k, i)
    BY <1>1, <1>2 DEF OrderInv
  <1> QED BY <1>1, <1>3 DEF Before

\* A packet's header begins behind all that was there.
LEMMA PacketBehind ==
  ASSUME TypeOK, NEW head, head = body \o Packet
  PROVE  /\ head \in Seq(Pieces) /\ Len(head) \in Nat /\ DOMAIN head = 1 .. Len(head)
         /\ \A k \in DOMAIN body : k \in DOMAIN head /\ head[k] = body[k]
         /\ \A k \in DOMAIN head : k \in DOMAIN body \/ head[k].kind = "packet"
  <1>1. body \in Seq(Pieces) /\ Timestamp \in Nat
    BY PiecesTyped DEF TypeOK
  <1>2. CASE Packet = <<>>
    <2>1. head = body
      BY <1>1, <1>2
    <2> QED BY <1>1, <2>1
  <1>3. CASE Packet = <<Piece("packet", Timestamp, 12)>>
    <2> DEFINE packet == Piece("packet", Timestamp, 12)
    <2>1. packet \in Pieces /\ packet.kind = "packet"
      BY <1>1, PieceTyped DEF Piece
    <2> HIDE DEF packet
    <2>2. head = Append(body, packet)
      BY <1>1, <1>3, <2>1 DEF packet
    <2>3. /\ head \in Seq(Pieces) /\ Len(head) = Len(body) + 1 /\ head[Len(body) + 1] = packet
          /\ DOMAIN head = 1 .. Len(body) + 1 /\ \A k \in 1 .. Len(body) : head[k] = body[k]
      BY <1>1, <2>1, <2>2
    <2> QED BY <1>1, <2>1, <2>3
  <1> QED BY <1>2, <1>3 DEF Packet

LEMMA OrderStep ==
  ASSUME TypeOK, StartInv, RefusedInv, FramesInv, OrderInv, TypeOK', [Next]_vars
  PROVE  OrderInv'
  <1>1. body \in Seq(Pieces) /\ body' \in Seq(Pieces) /\ Packet \in Seq(Pieces) /\ delivered \in Nat
    BY PiecesTyped, SessionAssumption DEF TypeOK, Pieces
  <1>2. ASSUME UNCHANGED <<body, container, FrameSize>>
        PROVE  OrderInv'
    BY <1>2 DEF OrderInv, Before
  <1>3. CASE Refuse \/ CreateFails \/ Finish \/ Close \/ UNCHANGED vars
    BY <1>2, <1>3 DEF Refuse, CreateFails, Finish, Close, vars, choice
  <1>4. CASE Create
    <2>1. Piece("dummy", 0, 212).kind # "frame"
      BY DEF Piece
    <2>2. body' \in {<<>>, <<Piece("dummy", 0, 212)>>}
      BY <1>4 DEF Create
    <2>3. \A k \in DOMAIN body' : body'[k].kind # "frame"
      BY <2>1, <2>2
    <2> QED BY <2>3 DEF OrderInv
  <1>5. CASE WriteFrame
    <2>1. UNCHANGED <<container, FrameSize>> /\ phase = "encoding"
      BY <1>5 DEF WriteFrame, choice
    <2>2. \A n \in 0 .. delivered - 1 : InFile(n)
      BY <2>1 DEF FramesInv
    <2>3. CASE UNCHANGED body
      BY <1>2, <2>1, <2>3
    <2>4. CASE body' = body \o Packet \o <<Piece("frame", delivered, FrameSize)>>
      <3> DEFINE head  == body \o Packet
                 frame == Piece("frame", delivered, FrameSize)
      <3>1. /\ head \in Seq(Pieces) /\ Len(head) \in Nat /\ DOMAIN head = 1 .. Len(head)
            /\ \A k \in DOMAIN body : k \in DOMAIN head /\ head[k] = body[k]
            /\ \A k \in DOMAIN head : k \in DOMAIN body \/ head[k].kind = "packet"
        BY PacketBehind
      <3>2. frame \in Pieces /\ frame.of = delivered
        BY <1>1, PiecesTyped DEF Piece
      <3>3. body' = Append(head, frame)
        BY <2>4, <3>1, <3>2
      <3> HIDE DEF head, frame
      <3>4. /\ DOMAIN body' = 1 .. Len(head) + 1 /\ body'[Len(head) + 1] = frame
            /\ \A k \in 1 .. Len(head) : body'[k] = head[k]
        BY <3>1, <3>2, <3>3
      <3>5. \A k \in DOMAIN body : k \in 1 .. Len(head) /\ body'[k] = body[k]
        BY <3>1, <3>4
      <3> SUFFICES ASSUME NEW k \in DOMAIN body', body'[k].kind = "frame",
                          NEW i \in 0 .. body'[k].of - 1
                   PROVE  Before(k, i)'
        BY DEF OrderInv
      <3>6. CASE k = Len(head) + 1
        <4>1. InFile(i)
          BY <2>2, <3>2, <3>4, <3>6
        <4>2. \A j \in DOMAIN body : j \in 1 .. k /\ body'[j] = body[j]
          BY <3>1, <3>5, <3>6
        <4> QED BY <2>1, <4>1, <4>2 DEF InFile, Before
      <3>7. CASE k # Len(head) + 1
        <4>1. k \in DOMAIN head /\ body'[k] = head[k]
          BY <3>1, <3>4, <3>7
        <4>2. k \in DOMAIN body
          BY <3>1, <4>1
        <4>3. Before(k, i) /\ \A j \in 1 .. k : body'[j] = body[j]
          <5>1. body'[k] = body[k] /\ \A j \in 1 .. k : j \in DOMAIN body
            BY <1>1, <3>5, <4>2
          <5> QED BY <3>5, <4>2, <5>1 DEF OrderInv
        <4> QED BY <2>1, <4>3 DEF Before
      <3> QED BY <3>6, <3>7
    <2> QED BY <1>5, <2>3, <2>4 DEF WriteFrame
  <1>6. CASE WriteFails
    <2>1. UNCHANGED <<container, FrameSize>>
      BY <1>6 DEF WriteFails, choice
    <2>2. PICK cut \in Cuts :
            \/ body' = body \o Packet \o Part(cut)
            \/ body' = body \o Part(cut)
            \/ \E n \in 0 .. Len(body) - 1 : Loses(n, cut)
      BY <1>6 DEF WriteFails
    <2>3. cut \in Nat
      BY SessionAssumption
    <2>4. CASE body' = body \o Part(cut)
      <3>1. BeginsLike(body', body)
        BY <1>1, <2>3, <2>4, PartEnds
      <3> QED BY <1>1, <2>1, <3>1, LikeHasFramesOf, OrderKept
    <2>5. CASE body' = body \o Packet \o Part(cut)
      <3> DEFINE head == body \o Packet
      <3>1. head \in Seq(Pieces) /\ body' = head \o Part(cut)
        BY <1>1, <2>5
      <3>2. /\ \A k \in DOMAIN body : k \in DOMAIN head /\ head[k] = body[k]
            /\ \A k \in DOMAIN head : k \in DOMAIN body \/ head[k].kind = "packet"
        BY PacketBehind
      <3> HIDE DEF head
      <3>3. FramesOf(body', head)
        BY <1>1, <2>3, <3>1, PartEnds, LikeHasFramesOf
      <3>4. FramesOf(body', body)
        <4> SUFFICES ASSUME NEW k \in DOMAIN body', body'[k].kind = "frame"
                     PROVE  k \in DOMAIN body /\ \A j \in 1 .. k : body'[j] = body[j]
          BY DEF FramesOf
        <4>1. k \in DOMAIN head /\ k \in 1 .. k /\ \A j \in 1 .. k : body'[j] = head[j]
          BY <1>1, <3>3 DEF FramesOf
        <4>2. k \in DOMAIN body
          BY <3>2, <4>1
        <4>3. \A j \in 1 .. k : j \in DOMAIN body
          BY <1>1, <4>2
        <4> QED BY <3>2, <4>1, <4>2, <4>3
      <3> QED BY <2>1, <3>4, <1>1, OrderKept
    <2>6. ASSUME NEW n \in 0 .. Len(body) - 1, Loses(n, cut)
          PROVE  OrderInv'
      <3>1. n \in 0 .. Len(body)
        BY <2>6
      <3>2. FramesOf(body', body)
        BY <1>1, <2>6, <3>1, LosesTail, LikeHasFramesOf
      <3> QED BY <2>1, <3>2, <1>1, OrderKept
    <2> QED BY <2>2, <2>4, <2>5, <2>6
  <1>7. CASE WriteAborts \/ CloseFails
    <2>1. PICK n \in 0 .. Len(body), cut \in Cuts : Loses(n, cut)
      BY <1>7 DEF WriteAborts, CloseFails
    <2>2. UNCHANGED <<container, FrameSize>>
      BY <1>7 DEF WriteAborts, CloseFails, choice
    <2>3. FramesOf(body', body)
      BY <1>1, <2>1, LosesTail, LikeHasFramesOf
    <2> QED BY <2>2, <2>3, <1>1, OrderKept
  <1> QED BY <1>3, <1>4, <1>5, <1>6, <1>7 DEF Next
-----------------------------------------------------------------------------
(***************************************************************************)
(* Packets.                                                                *)
(***************************************************************************)
\* Behind three frames comes a packet's header, behind the others a frame.
LEMMA PacketArithmetic ==
  ASSUME NEW f \in Nat, NEW len \in Nat, len = f + (f + 2) \div 3
  PROVE  /\ f % 3 = 0 =>
              /\ len % 4 = 0 /\ len \div 4 = f \div 3 /\ f = 3 * (f \div 3)
              /\ (len + 1) % 4 = 1 /\ (len + 1) \div 4 = f \div 3
              /\ len + 2 = (f + 1) + (f + 3) \div 3
         /\ f % 3 # 0 =>
              /\ len % 4 # 0 /\ 3 * (len \div 4) + (len % 4) - 1 = f
              /\ len + 1 = (f + 1) + (f + 3) \div 3
         /\ f % 3 = 2 => 3 * (f \div 3) + 3 = 3 * ((f + 1) \div 3)
         /\ f % 3 # 2 => 3 * (f \div 3) = 3 * ((f + 1) \div 3)
  <1>1. PICK q \in Nat, r \in 0 .. 2 : f = 3 * q + r
    <2>1. f = 3 * (f \div 3) + (f % 3) /\ f \div 3 \in Nat /\ f % 3 \in 0 .. 2
      OBVIOUS
    <2> QED BY <2>1
  <1>2. CASE r = 0
    BY <1>1, <1>2
  <1>3. CASE r = 1
    BY <1>1, <1>3
  <1>4. CASE r = 2
    BY <1>1, <1>4
  <1> QED BY <1>1, <1>2, <1>3, <1>4

LEMMA NextExpected ==
  ASSUME TypeOK, RmInv, container = "rm", phase = "encoding"
  PROVE  /\ body \in Seq(Pieces) /\ Len(body) \in Nat
         /\ FirstOfPacket =>
              /\ Expected(Len(body) + 1) = Piece("packet", Timestamp, 12)
              /\ Expected(Len(body) + 2) = Piece("frame", delivered, FrameSize)
         /\ ~FirstOfPacket => Expected(Len(body) + 1) = Piece("frame", delivered, FrameSize)
  <1> DEFINE len == Len(body)
             f   == FramesWritten
  <1>1. body \in Seq(Pieces) /\ len \in Nat /\ f \in Nat
    BY SessionAssumption DEF TypeOK, Pieces
  <1>2. len = f + (f + 2) \div 3 /\ Timestamp = 3 * (f \div 3) /\ delivered = f
    BY DEF RmInv
  <1>3. FirstOfPacket <=> f % 3 = 0
    BY DEF FirstOfPacket
  <1> HIDE DEF len, f
  <1>4. (len + 1) - 1 = len /\ (len + 2) - 1 = len + 1
    BY <1>1
  <1>5. ASSUME FirstOfPacket
        PROVE  /\ Expected(len + 1) = Piece("packet", Timestamp, 12)
               /\ Expected(len + 2) = Piece("frame", delivered, FrameSize)
    <2>1. /\ len % 4 = 0 /\ len \div 4 = f \div 3 /\ f = 3 * (f \div 3)
          /\ (len + 1) % 4 = 1 /\ (len + 1) \div 4 = f \div 3
      BY <1>1, <1>2, <1>3, <1>5, PacketArithmetic
    <2>2. Expected(len + 1) = Piece("packet", 3 * (len \div 4), 12)
      BY <1>4, <2>1 DEF Expected
    <2>3. Expected(len + 2) = Piece("frame", 3 * ((len + 1) \div 4) + 1 - 1, FrameSize)
      BY <1>4, <2>1 DEF Expected
    <2>4. 3 * ((len + 1) \div 4) + 1 - 1 = delivered
      BY <1>1, <1>2, <2>1
    <2> QED BY <1>2, <2>1, <2>2, <2>3, <2>4
  <1>6. ASSUME ~FirstOfPacket
        PROVE  Expected(len + 1) = Piece("frame", delivered, FrameSize)
    <2>1. len % 4 # 0 /\ 3 * (len \div 4) + (len % 4) - 1 = f
      BY <1>1, <1>2, <1>3, <1>6, PacketArithmetic
    <2>2. Expected(len + 1) = Piece("frame", 3 * (len \div 4) + (len % 4) - 1, FrameSize)
      BY <1>4, <2>1 DEF Expected
    <2> QED BY <1>2, <2>1, <2>2
  <1> QED BY <1>1, <1>5, <1>6 DEF len

LEMMA RmStep ==
  ASSUME TypeOK, StartInv, RefusedInv, RmInv, [Next]_vars
  PROVE  RmInv'
  <1>1. CASE Refuse \/ CreateFails \/ WriteFails \/ WriteAborts \/ Finish \/ Close \/ CloseFails
    BY <1>1 DEF Refuse, CreateFails, WriteFails, WriteAborts, Finish, Close, CloseFails, RmInv
  <1>2. CASE UNCHANGED vars
    BY <1>2 DEF vars, choice, counts, RmInv, Expected
  <1>3. CASE Create
    <2> SUFFICES ASSUME container' = "rm" PROVE RmInv'
      BY DEF RmInv
    <2>1. body' = <<>> /\ FramesWritten' = 0 /\ Timestamp' = 0 /\ delivered' = 0
      BY <1>3 DEF Create, StartInv, counts
    <2>2. Len(body') = 0 /\ DOMAIN body' = {} /\ 0 + (0 + 2) \div 3 = 0 /\ 3 * (0 \div 3) = 0
      BY <2>1
    <2> QED BY <2>1, <2>2 DEF RmInv
  <1>4. CASE WriteFrame
    <2> SUFFICES ASSUME container' = "rm"
                 PROVE  /\ delivered' = FramesWritten'
                        /\ Timestamp' = 3 * (FramesWritten' \div 3)
                        /\ Len(body') = FramesWritten' + (FramesWritten' + 2) \div 3
                        /\ \A k \in DOMAIN body' : body'[k] = Expected(k)'
      BY DEF RmInv
    <2>1. container = "rm" /\ FrameSize' = FrameSize /\ phase = "encoding"
      BY <1>4 DEF WriteFrame, choice
    <2>2. ~Dropped
      BY <2>1 DEF Dropped
    <2> DEFINE frame == Piece("frame", delivered, FrameSize)
               f     == FramesWritten
    <2>3. /\ body' = body \o Packet \o <<frame>>
          /\ FramesWritten' = f + 1 /\ delivered' = delivered + 1
          /\ Timestamp' = IF f % 3 = 2 THEN Timestamp + 3 ELSE Timestamp
      BY <1>4, <2>1, <2>2 DEF WriteFrame, Advance
    <2>4. /\ f \in Nat /\ f = delivered /\ Timestamp = 3 * (f \div 3)
          /\ Len(body) = f + (f + 2) \div 3
          /\ \A k \in DOMAIN body : body[k] = Expected(k)
      BY <2>1, SessionAssumption DEF RmInv, TypeOK
    <2>5. /\ body \in Seq(Pieces) /\ Len(body) \in Nat
          /\ FirstOfPacket => /\ Expected(Len(body) + 1) = Piece("packet", Timestamp, 12)
                              /\ Expected(Len(body) + 2) = frame
          /\ ~FirstOfPacket => Expected(Len(body) + 1) = frame
      BY <2>1, NextExpected
    <2>6. \A k : Expected(k)' = Expected(k)
      BY <2>1 DEF Expected
    <2>7. FirstOfPacket <=> f % 3 = 0
      BY <2>1 DEF FirstOfPacket
    <2> HIDE DEF frame, f
    <2>8. delivered' = FramesWritten' /\ Timestamp' = 3 * (FramesWritten' \div 3)
      BY <2>3, <2>4, PacketArithmetic
    <2>9. (f + 1) + 2 = f + 3
      BY <2>4
    <2>10. CASE FirstOfPacket
      <3>1. body' = Append(Append(body, Piece("packet", Timestamp, 12)), frame)
        BY <2>3, <2>5, <2>10 DEF Packet
      <3>2. /\ Len(body') = Len(body) + 2
            /\ DOMAIN body' = DOMAIN body \cup {Len(body) + 1, Len(body) + 2}
            /\ \A k \in DOMAIN body : body'[k] = body[k]
            /\ body'[Len(body) + 1] = Piece("packet", Timestamp, 12) /\ body'[Len(body) + 2] = frame
        BY <2>5, <3>1
      <3>3. Len(body) + 2 = (f + 1) + (f + 3) \div 3
        BY <2>4, <2>5, <2>7, <2>10, PacketArithmetic
      <3>4. Len(body') = FramesWritten' + (FramesWritten' + 2) \div 3
        BY <2>3, <2>9, <3>2, <3>3
      <3>5. \A k \in DOMAIN body' : body'[k] = Expected(k)
        BY <2>4, <2>5, <2>10, <3>2
      <3> QED BY <2>6, <2>8, <3>4, <3>5
    <2>11. CASE ~FirstOfPacket
      <3>1. body' = Append(body, frame)
        BY <2>3, <2>5, <2>11 DEF Packet
      <3>2. /\ Len(body') = Len(body) + 1
            /\ DOMAIN body' = DOMAIN body \cup {Len(body) + 1}
            /\ \A k \in DOMAIN body : body'[k] = body[k]
            /\ body'[Len(body) + 1] = frame
        BY <2>5, <3>1
      <3>3. Len(body) + 1 = (f + 1) + (f + 3) \div 3
        BY <2>4, <2>5, <2>7, <2>11, PacketArithmetic
      <3>4. Len(body') = FramesWritten' + (FramesWritten' + 2) \div 3
        BY <2>3, <2>9, <3>2, <3>3
      <3>5. \A k \in DOMAIN body' : body'[k] = Expected(k)
        BY <2>4, <2>5, <2>11, <3>2
      <3> QED BY <2>6, <2>8, <3>4, <3>5
    <2> QED BY <2>10, <2>11
  <1> QED BY <1>1, <1>2, <1>3, <1>4 DEF Next

\* What PacketsLead says of a piece, in terms of the one expected there.
LEMMA LeadByExpected ==
  PacketsLead <=>
    (container = "rm" =>
       \A k \in DOMAIN body : body[k] = Expected(k) \/ (k = Len(body) /\ body[k].kind = "part"))
  BY DEF PacketsLead, Expected

LEMMA PacketsStep ==
  ASSUME TypeOK, StartInv, RefusedInv, RmInv, PacketsLead, [Next]_vars
  PROVE  PacketsLead'
  <1>1. PacketsLead' <=>
          (container' = "rm" =>
             \A k \in DOMAIN body' :
               body'[k] = Expected(k)' \/ (k = Len(body') /\ body'[k].kind = "part"))
    BY DEF PacketsLead, Expected
  <1> SUFFICES ASSUME container' = "rm"
               PROVE  \A k \in DOMAIN body' :
                        body'[k] = Expected(k)' \/ (k = Len(body') /\ body'[k].kind = "part")
    BY <1>1
  <1>2. CASE Refuse \/ CreateFails
    BY <1>2 DEF Refuse, CreateFails, StartInv, choice
  <1>3. CASE Create \/ WriteFrame
    <2>1. phase' = "encoding" \/ body' = <<>>
      BY <1>3 DEF Create, WriteFrame
    <2>2. RmInv'
      BY RmStep
    <2> QED BY <2>1, <2>2 DEF RmInv
  <1>4. ASSUME NEW n \in 0 .. Len(body), NEW cut \in Cuts, Loses(n, cut),
               container = "rm", FrameSize' = FrameSize
        PROVE  \A k \in DOMAIN body' :
                 body'[k] = Expected(k)' \/ (k = Len(body') /\ body'[k].kind = "part")
    <2>1. \A k : Expected(k)' = Expected(k)
      BY <1>4 DEF Expected
    <2>2. /\ body \in Seq(Pieces) /\ body' \in Seq(Pieces) /\ BeginsLike(body', body)
          /\ Len(body') <= Len(body)
      BY <1>4, LosesTail, PiecesTyped
    <2>3. \A k \in DOMAIN body : body[k] = Expected(k) \/ (k = Len(body) /\ body[k].kind = "part")
      BY <1>4, LeadByExpected
    <2> SUFFICES ASSUME NEW k \in DOMAIN body', k \in DOMAIN body, body'[k] = body[k]
                 PROVE  body'[k] = Expected(k) \/ (k = Len(body') /\ body'[k].kind = "part")
      BY <2>1, <2>2 DEF BeginsLike
    <2>4. k = Len(body) => k = Len(body')
      BY <2>2
    <2> QED BY <2>3, <2>4
  <1>5. ASSUME WriteFails, NEW cut \in Cuts,
               body' \in {body \o Packet \o Part(cut), body \o Part(cut)}
        PROVE  \A k \in DOMAIN body' :
                 body'[k] = Expected(k)' \/ (k = Len(body') /\ body'[k].kind = "part")
    <2>1. container = "rm" /\ FrameSize' = FrameSize /\ phase = "encoding"
      BY <1>5 DEF WriteFails, choice
    <2>3. /\ body \in Seq(Pieces) /\ Len(body) \in Nat
          /\ FirstOfPacket => Expected(Len(body) + 1) = Piece("packet", Timestamp, 12)
          /\ \A k \in DOMAIN body : body[k] = Expected(k)
          /\ Packet \in Seq(Pieces) /\ Part(cut) \in Seq(Pieces)
      <3>1. cut \in Nat
        BY SessionAssumption
      <3> QED BY <2>1, <3>1, NextExpected, PiecesTyped DEF RmInv
    <2>4. \A k : Expected(k)' = Expected(k)
      BY <2>1 DEF Expected
    <2>5. PICK head \in Seq(Pieces) : head \in {body, body \o Packet} /\ body' = head \o Part(cut)
      <3>1. body \o Packet \in Seq(Pieces)
        BY <2>3
      <3>2. CASE body' = (body \o Packet) \o Part(cut)
        BY <3>1, <3>2, Zenon
      <3>3. CASE body' = body \o Part(cut)
        BY <2>3, <3>3, Zenon
      <3> QED BY <1>5, <3>2, <3>3
    <2>6. \A k \in DOMAIN head : head[k] = Expected(k)
      <3>1. CASE FirstOfPacket /\ head # body
        <4>1. head = Append(body, Piece("packet", Timestamp, 12))
          BY <2>3, <2>5, <3>1 DEF Packet
        <4>2. /\ DOMAIN head = DOMAIN body \cup {Len(body) + 1}
              /\ \A k \in DOMAIN body : head[k] = body[k]
              /\ head[Len(body) + 1] = Piece("packet", Timestamp, 12)
          BY <2>3, <4>1
        <4> QED BY <2>3, <3>1, <4>2
      <3>2. CASE ~FirstOfPacket
        BY <2>3, <2>5, <3>2 DEF Packet
      <3>3. CASE head = body
        BY <2>3, <3>3
      <3> QED BY <3>1, <3>2, <3>3
    <2>7. cut \in Nat
      BY SessionAssumption
    <2>8. BeginsLike(body', head)
      BY <2>5, <2>7, PartEnds
    <2> QED BY <2>4, <2>6, <2>8 DEF BeginsLike
  <1>6. CASE WriteFails
    <2>1. container = "rm" /\ FrameSize' = FrameSize
      BY <1>6 DEF WriteFails, choice
    <2>2. PICK cut \in Cuts :
            \/ body' \in {body \o Packet \o Part(cut), body \o Part(cut)}
            \/ \E n \in 0 .. Len(body) - 1 : Loses(n, cut)
      BY <1>6 DEF WriteFails
    <2>3. \A n \in 0 .. Len(body) - 1 : n \in 0 .. Len(body)
      BY PiecesTyped
    <2> QED BY <1>4, <1>5, <1>6, <2>1, <2>2, <2>3
  <1>7. CASE CloseFails \/ WriteAborts
    <2>1. PICK n \in 0 .. Len(body), cut \in Cuts : Loses(n, cut)
      BY <1>7 DEF CloseFails, WriteAborts
    <2>2. container = "rm" /\ FrameSize' = FrameSize
      BY <1>7 DEF CloseFails, WriteAborts, choice
    <2> QED BY <1>4, <2>1, <2>2
  <1>8. CASE Finish \/ Close \/ UNCHANGED vars
    <2>1. container = "rm" /\ FrameSize' = FrameSize /\ body' = body
      BY <1>8 DEF Finish, Close, vars, choice
    <2>2. \A k : Expected(k)' = Expected(k)
      BY <2>1 DEF Expected
    <2> QED BY <2>1, <2>2, LeadByExpected
  <1> QED BY <1>2, <1>3, <1>6, <1>7, <1>8 DEF Next
-----------------------------------------------------------------------------
LEMMA InvariantHolds == Spec => []IInv
  <1>1. Init => IInv
    BY InitTyped
  <1>2. IInv /\ [Next]_vars => IInv'
    BY TypeStep, StartStep, RiffStep, RmStep, FramesStep, OrderStep, HeaderStep, PacketsStep
       DEF IInv
  <1> QED BY <1>1, <1>2, PTL DEF Spec

\* Type correctness of the session, for every size and set of requests.
THEOREM TypeCorrect == Spec => []TypeOK
  <1>1. IInv => TypeOK
    BY DEF IInv
  <1> QED BY <1>1, InvariantHolds, PTL

\* When an output is closed and the stream lost nothing, what BackfillWaveHeader
\* and ~TRm put into the headers is what is in the file, whatever length the input
\* announced and wherever an error came.
THEOREM HeadersAreTrue == Spec => []HeadersTell
  <1>1. IInv => HeadersTell
    BY DEF IInv
  <1> QED BY <1>1, InvariantHolds, PTL

\* TRm::WriteAudioPacket leaves a file whose packets are where their sizes say,
\* in files of any length and after an error in a packet.
THEOREM PacketsInPlace == Spec => []PacketsLead
  <1>1. IInv => PacketsLead
    BY DEF IInv
  <1> QED BY <1>1, InvariantHolds, PTL

\* What is in the file are the first frames that the encoder delivered, also when a
\* write, a patch or fclose failed; all of them if main returned 0 and the stream
\* lost nothing. The old file is not touched for a container that the codec does
\* not take.
THEOREM SuccessIsWhole == Spec => []ExitTells
  <1>1. ASSUME IInv, NEW n \in 0 .. delivered - 1, InFile(n), NEW i \in 0 .. n - 1
        PROVE  InFile(i)
    <2>1. delivered \in Nat /\ n \in Nat /\ body \in Seq(Pieces) /\ OrderInv
      BY <1>1, PiecesTyped, SessionAssumption DEF IInv, TypeOK
    <2>2. PICK k \in DOMAIN body : body[k] = Piece("frame", n, FrameSize)
      BY <1>1, <2>1 DEF InFile
    <2>3. body[k].kind = "frame" /\ body[k].of = n
      BY <2>2 DEF Piece
    <2>4. Before(k, i)
      BY <2>1, <2>3 DEF OrderInv
    <2>5. \A j \in 1 .. k : j \in DOMAIN body
      BY <2>1
    <2> QED BY <2>4, <2>5 DEF Before, InFile
  <1>2. IInv => ExitTells
    BY <1>1 DEF IInv, FramesInv, RefusedInv, ExitTells
  <1> QED BY <1>2, InvariantHolds, PTL
=============================================================================
