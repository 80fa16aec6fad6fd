------------------------------ MODULE BitStream ------------------------------
(***************************************************************************)
(* lib/bitstream: TBitStream, the bit buffer every frame goes through.     *)
(* Write ORs a field into a byte vector that it grows (or trims) first;    *)
(* Read takes fields back out. A 32-bit word is the set of its one bits,   *)
(* numbered from the least significant, and the buffer is the set of the   *)
(* positions, counted from its first bit, that hold a one.                 *)
(***************************************************************************)
EXTENDS Integers, Sequences

CONSTANTS
  Widths,      \* field widths in use, in bits
  Words,       \* the words written: sign-extended ones as well as plain ones
  MaxFields    \* bound: fields written

WordBits == 0 .. 31

ASSUME WidthAssumption == Widths \subseteq 1 .. 23
ASSUME WordAssumption  == Words \subseteq SUBSET WordBits /\ MaxFields \in Nat

VARIABLES
  size,        \* Buf.size()
  ones,        \* the bits of Buf that are set
  BitsUsed, ReadPos,
  touched,     \* one past the last byte the latest call indexed
  writes,      \* fields written
  pending,     \* the fields written and not yet read back
  echo         \* the field last read back, and what it had been written as

bitsVars == <<size, ones, BitsUsed, ReadPos, touched, writes, pending, echo>>
-----------------------------------------------------------------------------
\* C's division of an int by 8 truncates toward zero.
CDiv8(a) == IF a >= 0 THEN a \div 8 ELSE -((-a) \div 8)

Shl(w, k) == {b + k : b \in {c \in w : c + k <= 31}}
Shr(w, k) == {b - k : b \in {c \in w : c >= k}}

Overlap(pos) == pos % 8

\* The size of Buf once Write has resized it for n more bits.
ResizeAlways(n) == size + n \div 8 + (IF Overlap(BitsUsed) # 0 THEN 2 ELSE 1)

ResizeOneByte(n) ==
  LET bitsReq == n - (8 * size - BitsUsed)
  IN IF Overlap(BitsUsed) # 0 \/ bitsReq >= 0 THEN size + CDiv8(bitsReq) + 1 ELSE size

Resized(n) ==
  LET bitsReq == n - (8 * size - BitsUsed)
  IN IF Overlap(BitsUsed) # 0 \/ bitsReq >= 0
     THEN size + CDiv8(bitsReq) + (IF Overlap(BitsUsed) # 0 THEN 2 ELSE 1)
     ELSE size

\* How many bytes, from the one BitsUsed falls in, Write ORs into.
BytesWritten(n) == n \div 8 + (IF Overlap(BitsUsed) # 0 THEN 2 ELSE 1)

\* The low n bits of the word, aligned to where the field starts in its byte.
AlignUnmasked(w, n) == Shr({b + 32 - n : b \in w} , Overlap(BitsUsed)) \cap WordBits

Aligned(w, n) == Shr(Shl(w, 32 - n), Overlap(BitsUsed))

\* The buffer bits that bit set t of a word sets when its most significant
\* byte goes to byte `at`, and the word that `count` bytes from there make up.
Spread(t, at, count) == {8 * at + 31 - b : b \in {c \in t : 31 - c < 8 * count}}
Gather(at, count)    == {b \in WordBits : 31 - b < 8 * count /\ 8 * at + 31 - b \in ones}

Write(w, n) ==
  LET bytesPos == BitsUsed \div 8
  IN /\ writes < MaxFields
     /\ writes' = writes + 1
     /\ size' = Resized(n)
     /\ ones' = {p \in ones : p < 8 * size'}
                  \cup Spread(Aligned(w, n), bytesPos, BytesWritten(n))
     /\ touched'  = bytesPos + BytesWritten(n)
     /\ BitsUsed' = BitsUsed + n
     /\ pending'  = Append(pending, [width |-> n, word |-> {b \in w : b < n}])
     /\ UNCHANGED <<ReadPos, echo>>

\* Number of bytes the requested value spans.
BytesRead(n) == (Overlap(ReadPos) + n + 7) \div 8

\* A reader that knows the layout asks for the fields as they were written.
Read ==
  /\ pending # <<>>
  /\ LET n        == Head(pending).width
         bytesPos == ReadPos \div 8
         t        == Gather(bytesPos, BytesRead(n))
     IN /\ ReadPos + n <= 8 * size      \* else the code throws
        /\ echo' = [got |-> Shr(Shl(t, Overlap(ReadPos)), 32 - n), want |-> Head(pending).word]
        /\ ReadPos' = ReadPos + n
        /\ touched' = bytesPos + BytesRead(n)
  /\ pending' = Tail(pending)
  /\ UNCHANGED <<size, ones, BitsUsed, writes>>

BitsInit ==
  /\ size = 0 /\ ones = {} /\ BitsUsed = 0 /\ ReadPos = 0 /\ touched = 0
  /\ writes = 0 /\ pending = <<>>
  /\ echo = [got |-> {}, want |-> {}]

BitsNext == Read \/ \E w \in Words, n \in Widths : Write(w, n)

BitsSpec == BitsInit /\ [][BitsNext]_bitsVars
-----------------------------------------------------------------------------
\* Types; and Buf is zero beyond BitsUsed, which is what lets Write OR into it.
BitsTypeOK ==
  /\ size \in Nat /\ BitsUsed \in Nat /\ ReadPos \in Nat /\ touched \in Nat
  /\ ones \subseteq 0 .. BitsUsed - 1
  /\ writes \in 0 .. MaxFields
  /\ pending \in Seq([width : Widths, word : SUBSET WordBits])

\* No call indexes a byte that Buf does not hold, although Write sizes Buf by
\* bits and indexes it by bytes, and may shrink it.
InBounds == touched <= size

\* Trimming never cuts into what was written, and what Buf holds beyond it is
\* less than three bytes: the excess that the containers cut off a frame.
SlackBounded == BitsUsed <= 8 * size /\ 8 * size - BitsUsed < 24

\* Every field comes back as its low bits were written, sign-extended words and
\* fields that straddle bytes included, however writes and reads interleave.
RoundTrip == echo.got = echo.want
=============================================================================
