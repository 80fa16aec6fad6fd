---------------------------- MODULE Output_proofs ----------------------------
(***************************************************************************)
(* Proofs about what the encoder puts out: the bits that BitStream packs   *)
(* into bytes, for any set of widths up to 23 bits and any words, and the  *)
(* files of AeaFile, for every block size and every input.                 *)
(*                                                                         *)
(* The argument for the files: what was decoded before the block in the    *)
(* buffer ends at a whole number of blocks, the block's units are those    *)
(* that follow it in the file, and the loop goes on exactly as long as the *)
(* length it was told exceeds what it has processed. The length is less    *)
(* than a block short of what the file holds, so at most that much is left *)
(* over.                                                                   *)
(***************************************************************************)
EXTENDS AeaFile, BitStream, SequenceTheorems, TLAPS

(***************************************************************************)
(* BitStream: the sizes Write computes, and where it puts the bits         *)
(***************************************************************************)

SizeInv ==
  /\ size \in Nat /\ BitsUsed \in Nat /\ ReadPos \in Nat /\ touched \in Nat
  /\ InBounds /\ SlackBounded
  /\ pending \in Seq([width : Widths, word : SUBSET WordBits])

USE WidthAssumption, WordAssumption

LEMMA DivMod8 ==
  ASSUME NEW x \in Nat
  PROVE  x = 8 * (x \div 8) + (x % 8) /\ x \div 8 \in Nat /\ x % 8 \in 0 .. 7
OBVIOUS

\* Growing or trimming, the new size covers every byte Write indexes, holds all
\* the bits, and exceeds them by less than three bytes.
LEMMA ResizedCovers ==
  ASSUME size \in Nat, BitsUsed \in Nat, SlackBounded, NEW n \in Widths
  PROVE  /\ Resized(n) \in Nat
         /\ BitsUsed \div 8 + BytesWritten(n) <= Resized(n)
         /\ BitsUsed + n <= 8 * Resized(n)
         /\ 8 * Resized(n) - (BitsUsed + n) < 24
<1>1. n \in 1 .. 23
  OBVIOUS
<1> DEFINE bytes == BitsUsed \div 8
           over  == BitsUsed % 8
           req   == n - (8 * size - BitsUsed)
<1>2. BitsUsed = 8 * bytes + over /\ bytes \in Nat /\ over \in 0 .. 7
  BY DivMod8
<1>3. req \in Int /\ 8 * size - BitsUsed = n - req
  BY <1>1
<1>4. CDiv8(req) \in Int /\ req - 8 * CDiv8(req) \in -7 .. 7
      /\ (req >= 0 => req - 8 * CDiv8(req) >= 0) /\ (req < 0 => req - 8 * CDiv8(req) <= 0)
  <2>1. CASE req >= 0
    BY <1>3, <2>1 DEF CDiv8
  <2>2. CASE req < 0
    BY <1>3, <2>2 DEF CDiv8
  <2> QED
    BY <1>3, <2>1, <2>2
<1>5. n \div 8 \in Nat /\ n - 8 * (n \div 8) \in 0 .. 7
  BY <1>1
<1> HIDE DEF req, bytes, over
<1>6. Resized(n) = IF over # 0 \/ req >= 0
                   THEN size + CDiv8(req) + (IF over # 0 THEN 2 ELSE 1)
                   ELSE size
  BY DEF Resized, Overlap, over, req
<1>7. BitsUsed \div 8 + BytesWritten(n) = bytes + n \div 8 + (IF over # 0 THEN 2 ELSE 1)
  BY <1>2, <1>5 DEF BytesWritten, Overlap, over, bytes
<1>8. Resized(n) \in Int
  BY <1>4, <1>6
<1>9. CASE over # 0
  BY <1>1, <1>2, <1>3, <1>4, <1>5, <1>6, <1>7, <1>9 DEF SlackBounded
<1>10. CASE over = 0 /\ req >= 0
  BY <1>1, <1>2, <1>3, <1>4, <1>5, <1>6, <1>7, <1>10 DEF SlackBounded
<1>11. CASE over = 0 /\ req < 0
  BY <1>1, <1>2, <1>3, <1>4, <1>5, <1>6, <1>7, <1>11 DEF SlackBounded
<1> QED
  BY <1>2, <1>3, <1>9, <1>10, <1>11

LEMMA InitSizeInv == BitsInit => SizeInv
BY DEF BitsInit, SizeInv, InBounds, SlackBounded

LEMMA WriteStep ==
  ASSUME SizeInv, NEW w \in Words, NEW n \in Widths, Write(w, n)
  PROVE  SizeInv'
<1>1. /\ size' = Resized(n) /\ BitsUsed' = BitsUsed + n /\ ReadPos' = ReadPos
      /\ touched' = BitsUsed \div 8 + BytesWritten(n)
      /\ pending' = Append(pending, [width |-> n, word |-> {b \in w : b < n}])
  BY DEF Write
<1>2. /\ Resized(n) \in Nat
      /\ BitsUsed \div 8 + BytesWritten(n) <= Resized(n)
      /\ BitsUsed + n <= 8 * Resized(n)
      /\ 8 * Resized(n) - (BitsUsed + n) < 24
  BY ResizedCovers DEF SizeInv
<1>3. size' \in Nat /\ BitsUsed' \in Nat /\ ReadPos' \in Nat /\ InBounds' /\ SlackBounded'
  BY <1>1, <1>2 DEF SizeInv, InBounds, SlackBounded
<1>4. touched' \in Nat
  BY <1>1 DEF SizeInv, BytesWritten
<1>5. [width |-> n, word |-> {b \in w : b < n}] \in [width : Widths, word : SUBSET WordBits]
  OBVIOUS
<1>6. pending' \in Seq([width : Widths, word : SUBSET WordBits])
  BY <1>1, <1>5 DEF SizeInv
<1> QED
  BY <1>3, <1>4, <1>6 DEF SizeInv

LEMMA HeadInSet == ASSUME NEW S, NEW s \in Seq(S), s # <<>> PROVE Head(s) \in S
OBVIOUS

LEMMA ElementInSet == ASSUME NEW S, NEW s \in Seq(S), NEW k \in 1 .. Len(s) PROVE s[k] \in S
OBVIOUS

LEMMA ReadStep == SizeInv /\ Read => SizeInv'
<1> SUFFICES ASSUME SizeInv, Read PROVE SizeInv'
  OBVIOUS
<1> DEFINE n == Head(pending).width
<1>1. /\ pending # <<>> /\ ReadPos + n <= 8 * size
      /\ size' = size /\ BitsUsed' = BitsUsed /\ ReadPos' = ReadPos + n
      /\ touched' = ReadPos \div 8 + BytesRead(n) /\ pending' = Tail(pending)
  BY DEF Read
<1>2. n \in Widths
  <2>1. Head(pending) \in [width : Widths, word : SUBSET WordBits]
    BY <1>1, HeadInSet DEF SizeInv
  <2> QED
    BY <2>1
<1>3. pending' \in Seq([width : Widths, word : SUBSET WordBits])
  BY <1>1 DEF SizeInv
<1> HIDE DEF n
<1>4. n \in 1 .. 23
  BY <1>2
<1>5. /\ ReadPos \in Nat /\ ReadPos = 8 * (ReadPos \div 8) + (ReadPos % 8)
      /\ ReadPos \div 8 \in Nat /\ ReadPos % 8 \in 0 .. 7
  BY DivMod8 DEF SizeInv
<1>6. touched' \in Nat /\ touched' <= size
  <2> DEFINE b == ReadPos \div 8
             q == ((ReadPos % 8) + n + 7) \div 8
  <2>1. touched' = b + q /\ ReadPos + n <= 8 * size /\ size \in Nat
    BY <1>1 DEF BytesRead, Overlap, SizeInv
  <2>2. b \in Nat /\ q \in Nat /\ 8 * q <= (ReadPos % 8) + n + 7
    BY <1>4, <1>5
  <2> HIDE DEF b, q
  <2>3. 8 * (b + q) <= ReadPos + n + 7
    BY <1>4, <1>5, <2>2 DEF b
  <2> QED
    BY <1>4, <1>5, <2>1, <2>2, <2>3
<1>7. ReadPos' \in Nat
  BY <1>1, <1>4 DEF SizeInv
<1> QED
  BY <1>1, <1>3, <1>6, <1>7 DEF SizeInv, InBounds, SlackBounded

THEOREM SizeInvariance == BitsSpec => []SizeInv
<1>1. SizeInv /\ [BitsNext]_bitsVars => SizeInv'
  <2> SUFFICES ASSUME SizeInv, [BitsNext]_bitsVars PROVE SizeInv'
    OBVIOUS
  <2>1. CASE UNCHANGED bitsVars
    BY <2>1 DEF bitsVars, SizeInv, InBounds, SlackBounded
  <2> QED
    BY <2>1, WriteStep, ReadStep DEF BitsNext
<1> QED
  BY <1>1, InitSizeInv, PTL DEF BitsSpec

\* For every sequence of writes and reads: no byte outside Buf is indexed.
THEOREM AlwaysInBounds == BitsSpec => []InBounds
BY SizeInvariance, PTL DEF SizeInv

\* For every sequence of writes and reads: Buf holds all the bits written and
\* less than three bytes more.
THEOREM SlackIsBounded == BitsSpec => []SlackBounded
BY SizeInvariance, PTL DEF SizeInv
-----------------------------------------------------------------------------
(***************************************************************************)
(* What the buffer holds                                                   *)
(***************************************************************************)

\* A field stands among the first `used` bits, which are set where `bits` says, from
\* bit start on, its most significant bit first.
Holds(bits, used, start, field) ==
  /\ start + field.width <= used
  /\ \A b \in 0 .. field.width - 1 :
       (start + field.width - 1 - b \in bits) <=> (b \in field.word)

\* The fields lie one after the other, at[k] being where the k-th begins, from a
\* reader's position to the end.
Layout(at, fields, bits, used, first) ==
  /\ at \in [1 .. Len(fields) + 1 -> Nat]
  /\ at[1] = first /\ at[Len(fields) + 1] = used
  /\ \A k \in 1 .. Len(fields) :
       /\ at[k + 1] = at[k] + fields[k].width
       /\ Holds(bits, used, at[k], fields[k])

ContentInv ==
  /\ ones \subseteq 0 .. BitsUsed - 1
  /\ \A k \in 1 .. Len(pending) : pending[k].word \subseteq 0 .. pending[k].width - 1
  /\ \E at : Layout(at, pending, ones, BitsUsed, ReadPos)
  /\ RoundTrip

LEMMA ShlMember ==
  ASSUME NEW w, NEW k PROVE \A x : x \in Shl(w, k) <=> \E b \in w : b + k <= 31 /\ x = b + k
BY DEF Shl

LEMMA ShrMember ==
  ASSUME NEW w, NEW k PROVE \A x : x \in Shr(w, k) <=> \E b \in w : b >= k /\ x = b - k
BY DEF Shr

\* Shifting, aligning and spreading over bytes put bit b of an n-bit field at its
\* place, n - 1 - b behind where the field begins, and nothing anywhere else.
LEMMA SpreadPlaces ==
  ASSUME BitsUsed \in Nat, NEW n \in Widths, NEW w \in SUBSET WordBits
  PROVE  Spread(Aligned(w, n), BitsUsed \div 8, BytesWritten(n))
           = {BitsUsed + n - 1 - b : b \in {c \in w : c < n}}
<1> DEFINE over  == BitsUsed % 8
           bytes == BitsUsed \div 8
           count == BytesWritten(n)
           low   == {c \in w : c < n}
<1>1. n \in 1 .. 23 /\ w \subseteq 0 .. 31
  BY DEF WordBits
<1>2. BitsUsed = 8 * bytes + over /\ bytes \in Nat /\ over \in 0 .. 7
  BY DivMod8
<1>3. over + n <= 8 * count /\ count \in Nat
  <2>1. count = n \div 8 + (IF over # 0 THEN 2 ELSE 1)
    BY DEF BytesWritten, Overlap
  <2> HIDE DEF over, count
  <2> QED
    BY <1>1, <1>2, <2>1
<1>4. Shl(w, 32 - n) = {b + 32 - n : b \in low}
  <2>1. \A c \in w : c + (32 - n) <= 31 <=> c < n
    BY <1>1
  <2>2. {c \in w : c + (32 - n) <= 31} = low
    BY <2>1
  <2>3. \A c \in low : c + (32 - n) = c + 32 - n
    BY <1>1
  <2> QED
    BY <2>2, <2>3 DEF Shl
<1>5. Aligned(w, n) = {b + 32 - n - over : b \in low}
  <2>1. \A b \in low : b + 32 - n >= over
    BY <1>1, <1>2
  <2>2. Aligned(w, n) = Shr(Shl(w, 32 - n), over)
    BY DEF Aligned, Overlap
  <2>0. over \in Int /\ n \in Int /\ \A b \in low : b \in Int
    BY <1>1, <1>2
  <2> HIDE DEF low, over
  <2>3. \A x : x \in Aligned(w, n) <=> \E c \in Shl(w, 32 - n) : c >= over /\ x = c - over
    BY <2>2, ShrMember
  <2>4. \A x : x \in Aligned(w, n) <=> \E b \in low : x = b + 32 - n - over
    <3>1. ASSUME NEW b \in low PROVE b + 32 - n - over \in Aligned(w, n)
      <4>1. b + 32 - n \in Shl(w, 32 - n) /\ b + 32 - n >= over
        BY <1>4, <2>1
      <4>2. (b + 32 - n) - over = b + 32 - n - over
        BY <2>0
      <4> QED
        BY <2>3, <4>1, <4>2
    <3>2. ASSUME NEW x \in Aligned(w, n) PROVE \E b \in low : x = b + 32 - n - over
      <4>1. PICK c \in Shl(w, 32 - n) : x = c - over
        BY <2>3
      <4>2. PICK b \in low : c = b + 32 - n
        BY <1>4
      <4>3. x = b + 32 - n - over
        BY <2>0, <4>1, <4>2
      <4> QED
        BY <4>3
    <3> QED
      BY <3>1, <3>2, Zenon
  <2> QED
    BY <2>4
<1> HIDE DEF over, bytes, count
<1>6. \A b \in low : /\ 31 - (b + 32 - n - over) < 8 * count
                     /\ 8 * bytes + 31 - (b + 32 - n - over) = BitsUsed + n - 1 - b
  BY <1>1, <1>2, <1>3
<1>7. Spread(Aligned(w, n), bytes, count)
        = {8 * bytes + 31 - b : b \in {c \in Aligned(w, n) : 31 - c < 8 * count}}
  BY DEF Spread
<1>8. {c \in Aligned(w, n) : 31 - c < 8 * count} = Aligned(w, n)
  BY <1>5, <1>6
<1> HIDE DEF low
<1>9. Spread(Aligned(w, n), bytes, count) = {BitsUsed + n - 1 - b : b \in low}
  BY <1>5, <1>6, <1>7, <1>8
<1> QED
  BY <1>9 DEF low, bytes, count

\* Gathering bytes and shifting takes out what stands in the n bits from ReadPos on.
LEMMA GatherTakes ==
  ASSUME ReadPos \in Nat, NEW n \in Widths
  PROVE  Shr(Shl(Gather(ReadPos \div 8, BytesRead(n)), Overlap(ReadPos)), 32 - n)
           = {d \in 0 .. n - 1 : ReadPos + n - 1 - d \in ones}
<1> DEFINE over  == ReadPos % 8
           bytes == ReadPos \div 8
           count == BytesRead(n)
           t     == Gather(bytes, count)
           got   == Shr(Shl(t, over), 32 - n)
<1>1. n \in 1 .. 23
  OBVIOUS
<1>2. ReadPos = 8 * bytes + over /\ bytes \in Nat /\ over \in 0 .. 7
  BY DivMod8
<1>3. over + n <= 8 * count /\ count \in Nat
  <2>1. count = (over + n + 7) \div 8
    BY DEF BytesRead, Overlap
  <2> HIDE DEF over, count
  <2> QED
    BY <1>1, <1>2, <2>1
<1>4. \A b : b \in t <=> b \in 0 .. 31 /\ 31 - b < 8 * count /\ 8 * bytes + 31 - b \in ones
  BY DEF Gather, WordBits
<1>5. \A d : d \in got <=>
        \E b \in t : b + over <= 31 /\ b + over >= 32 - n /\ d = b + over - (32 - n)
  <2> HIDE DEF t, over
  <2>1. \A x : x \in Shl(t, over) <=> \E b \in t : b + over <= 31 /\ x = b + over
    BY ShlMember
  <2>2. \A d : d \in got <=> \E x \in Shl(t, over) : x >= 32 - n /\ d = x - (32 - n)
    BY ShrMember
  <2> HIDE DEF got
  <2>3. ASSUME NEW d \in got
        PROVE  \E b \in t : b + over <= 31 /\ b + over >= 32 - n /\ d = b + over - (32 - n)
    <3>1. PICK x \in Shl(t, over) : x >= 32 - n /\ d = x - (32 - n)
      BY <2>2
    <3>2. PICK b \in t : b + over <= 31 /\ x = b + over
      BY <2>1
    <3>3. b \in Int /\ over \in Int
      BY <1>2, <1>4
    <3> QED
      BY <1>1, <3>1, <3>2, <3>3
  <2>4. ASSUME NEW d, NEW b \in t,
               b + over <= 31, b + over >= 32 - n, d = b + over - (32 - n)
        PROVE  d \in got
    <3>1. b + over \in Shl(t, over)
      BY <2>1, <2>4
    <3>2. b \in Int /\ over \in Int
      BY <1>2, <1>4
    <3>3. b + over >= 32 - n /\ d = (b + over) - (32 - n)
      BY <1>1, <2>4, <3>2
    <3> QED
      BY <2>2, <3>1, <3>3
  <2> QED
    BY <2>3, <2>4
<1> HIDE DEF over, bytes, count, t, got
<1>6. ASSUME NEW d \in got PROVE d \in 0 .. n - 1 /\ ReadPos + n - 1 - d \in ones
  <2>1. PICK b \in t : b + over <= 31 /\ b + over >= 32 - n /\ d = b + over - (32 - n)
    BY <1>5
  <2>2. b \in 0 .. 31 /\ 8 * bytes + 31 - b \in ones
    BY <1>4
  <2>3. d \in 0 .. n - 1 /\ ReadPos + n - 1 - d = 8 * bytes + 31 - b
    BY <1>1, <1>2, <2>1, <2>2
  <2> QED
    BY <2>2, <2>3
<1>7. ASSUME NEW d \in 0 .. n - 1, ReadPos + n - 1 - d \in ones PROVE d \in got
  <2> DEFINE b == d + 32 - n - over
  <2>1. /\ b \in 0 .. 31 /\ 31 - b < 8 * count /\ 8 * bytes + 31 - b = ReadPos + n - 1 - d
        /\ b + over <= 31 /\ b + over >= 32 - n /\ d = b + over - (32 - n)
    BY <1>1, <1>2, <1>3
  <2> HIDE DEF b
  <2>2. b \in t
    BY <1>4, <1>7, <2>1
  <2> QED
    BY <1>5, <2>1, <2>2
<1>8. got = {d \in 0 .. n - 1 : ReadPos + n - 1 - d \in ones}
  BY <1>6, <1>7
<1> QED
  BY <1>8 DEF got, t, over, bytes, count, Overlap

LEMMA Below ==
  ASSUME NEW s \in Nat, NEW used \in Nat, NEW n \in 1 .. 23, used + n <= 8 * s
  PROVE  \A p \in 0 .. used - 1 : p < 8 * s
OBVIOUS

LEMMA WriteContent ==
  ASSUME SizeInv, ContentInv, NEW w \in Words, NEW n \in Widths, Write(w, n)
  PROVE  ContentInv'
<1> DEFINE field == [width |-> n, word |-> {b \in w : b < n}]
           put   == {BitsUsed + n - 1 - b : b \in field.word}
           len   == Len(pending)
<1>1. n \in 1 .. 23 /\ w \in SUBSET WordBits /\ w \subseteq 0 .. 31
  BY DEF WordBits
<1>2. /\ BitsUsed \in Nat /\ size \in Nat /\ len \in Nat
      /\ pending \in Seq([width : Widths, word : SUBSET WordBits])
  BY DEF SizeInv
<1>3. /\ BitsUsed' = BitsUsed + n /\ ReadPos' = ReadPos /\ echo' = echo
      /\ pending' = Append(pending, field) /\ size' = Resized(n)
      /\ ones' = {p \in ones : p < 8 * size'} \cup Spread(Aligned(w, n), BitsUsed \div 8, BytesWritten(n))
  BY DEF Write
<1>4. Spread(Aligned(w, n), BitsUsed \div 8, BytesWritten(n)) = put
  BY <1>1, <1>2, SpreadPlaces
<1>5. BitsUsed + n <= 8 * size' /\ size' \in Nat
  BY <1>2, <1>3, ResizedCovers DEF SizeInv
<1>6. ones \subseteq 0 .. BitsUsed - 1
  BY DEF ContentInv
\* Trimming loses nothing, and the field goes behind what is there.
<1>7. ones' = ones \cup put
  <2> HIDE DEF put, field
  <2>1. ASSUME NEW p \in ones PROVE p < 8 * size'
    <3>1. p \in 0 .. BitsUsed - 1
      BY <1>6
    <3>2. BitsUsed \in Nat /\ n \in 1 .. 23 /\ BitsUsed + n <= 8 * size'
      BY <1>1, <1>2, <1>5
    <3>3. size' \in Nat
      BY <1>5
    <3> QED
      BY <3>1, <3>2, <3>3, Below
  <2> QED
    BY <1>3, <1>4, <2>1
<1>8. field.word \subseteq 0 .. n - 1
  <2>1. field.word = {b \in w : b < n}
    OBVIOUS
  <2> HIDE DEF field
  <2>2. ASSUME NEW b \in w, b < n PROVE b \in 0 .. n - 1
    BY <1>1, <2>2
  <2> QED
    BY <2>1, <2>2
<1>9. \A p \in put : p \in BitsUsed .. BitsUsed + n - 1
  BY <1>1, <1>2, <1>8
<1>10. \A b \in 0 .. n - 1 : (BitsUsed + n - 1 - b \in ones') <=> (b \in field.word)
  <2> TAKE b \in 0 .. n - 1
  <2>1. BitsUsed + n - 1 - b \notin ones
    BY <1>1, <1>2, <1>6
  <2>2. BitsUsed + n - 1 - b \in put => b \in field.word
    <3> SUFFICES ASSUME BitsUsed + n - 1 - b \in put PROVE b \in field.word
      OBVIOUS
    <3>1. PICK c \in field.word : BitsUsed + n - 1 - b = BitsUsed + n - 1 - c
      OBVIOUS
    <3>2. c \in Int /\ b \in Int /\ n \in Int
      BY <1>1, <1>8
    <3> HIDE DEF field
    <3>3. b = c
      BY <1>2, <3>1, <3>2
    <3> QED
      BY <3>1, <3>3
  <2> QED
    BY <1>7, <2>1, <2>2
<1>11. \A p \in Nat : p < BitsUsed => (p \in ones' <=> p \in ones)
  BY <1>1, <1>2, <1>7, <1>9
<1>12. PICK at : Layout(at, pending, ones, BitsUsed, ReadPos)
  BY DEF ContentInv
<1> DEFINE new == [k \in 1 .. len + 2 |-> IF k <= len + 1 THEN at[k] ELSE BitsUsed + n]
<1>13. /\ Len(pending') = len + 1 /\ pending'[len + 1] = field
       /\ \A k \in 1 .. len : pending'[k] = pending[k]
  BY <1>2, <1>3
<1>14. /\ new \in [1 .. len + 2 -> Nat] /\ new[len + 2] = BitsUsed + n
       /\ \A k \in 1 .. len + 1 : new[k] = at[k]
  <2>1. at \in [1 .. len + 1 -> Nat]
    BY <1>12 DEF Layout
  <2>2. BitsUsed + n \in Nat
    BY <1>1, <1>2
  <2> QED
    BY <1>2, <2>1, <2>2
<1> HIDE DEF new, put, field, len
<1>15. field.width = n
  BY DEF field
<1>16. /\ at \in [1 .. len + 1 -> Nat] /\ at[1] = ReadPos /\ at[len + 1] = BitsUsed
       /\ \A k \in 1 .. len : at[k + 1] = at[k] + pending[k].width /\ Holds(ones, BitsUsed, at[k], pending[k])
  BY <1>12 DEF Layout, len
<1>17. ASSUME NEW k \in 1 .. len
       PROVE  new[k + 1] = new[k] + pending'[k].width /\ Holds(ones', BitsUsed', new[k], pending'[k])
  <2>1. k \in 1 .. len + 1 /\ k + 1 \in 1 .. len + 1
    BY <1>2
  <2>2. at[k] \in Nat /\ pending[k].width \in 1 .. 23
    <3>1. pending[k] \in [width : Widths, word : SUBSET WordBits]
      BY <1>2, ElementInSet DEF len
    <3> QED
      BY <1>16, <2>1, <3>1
  <2>3. at[k] + pending[k].width <= BitsUsed
    BY <1>16 DEF Holds
  <2>4. \A b \in 0 .. pending[k].width - 1 :
          /\ at[k] + pending[k].width - 1 - b \in Nat
          /\ at[k] + pending[k].width - 1 - b < BitsUsed
    <3> DEFINE width == pending[k].width
    <3>1. at[k] \in Nat /\ width \in 1 .. 23 /\ BitsUsed \in Nat /\ at[k] + width <= BitsUsed
      BY <1>2, <2>2, <2>3
    <3> HIDE DEF width
    <3>2. \A b \in 0 .. width - 1 : at[k] + width - 1 - b \in Nat /\ at[k] + width - 1 - b < BitsUsed
      BY <3>1
    <3> QED
      BY <3>2 DEF width
  <2>5. at[k] + pending[k].width <= BitsUsed'
    <3> DEFINE width == pending[k].width
    <3>1. at[k] \in Nat /\ width \in 1 .. 23 /\ BitsUsed \in Nat /\ at[k] + width <= BitsUsed
      BY <1>2, <2>2, <2>3
    <3> HIDE DEF width
    <3>2. at[k] + width <= BitsUsed + n
      BY <1>1, <3>1
    <3> QED
      BY <1>3, <3>2 DEF width
  <2>6. \A b \in 0 .. pending[k].width - 1 :
          (at[k] + pending[k].width - 1 - b \in ones') <=> (b \in pending[k].word)
    BY <1>11, <1>16, <2>4 DEF Holds
  <2>7. new[k] = at[k] /\ new[k + 1] = at[k + 1] /\ pending'[k] = pending[k]
    BY <1>13, <1>14, <2>1
  <2> QED
    BY <1>16, <2>5, <2>6, <2>7 DEF Holds
<1>18. new[len + 2] = new[len + 1] + field.width /\ Holds(ones', BitsUsed', new[len + 1], pending'[len + 1])
  <2>1. new[len + 1] = BitsUsed
    BY <1>2, <1>14, <1>16
  <2> QED
    BY <1>1, <1>2, <1>3, <1>10, <1>13, <1>14, <1>15, <2>1 DEF Holds
<1>19. Layout(new, pending', ones', BitsUsed', ReadPos')
  <2>1. new[1] = ReadPos'
    BY <1>2, <1>3, <1>14, <1>16
  <2>2. \A k \in 1 .. len + 1 : new[k + 1] = new[k] + pending'[k].width /\ Holds(ones', BitsUsed', new[k], pending'[k])
    <3> TAKE k \in 1 .. len + 1
    <3>1. k \in 1 .. len \/ k = len + 1
      BY <1>2
    <3>2. k = len + 1 => k + 1 = len + 2
      BY <1>2
    <3> QED
      BY <1>13, <1>17, <1>18, <3>1, <3>2
  <2>3. len + 1 + 1 = len + 2
    BY <1>2
  <2>4. new[Len(pending') + 1] = BitsUsed'
    BY <1>3, <1>13, <1>14, <2>3
  <2> QED
    BY <1>13, <1>14, <2>1, <2>2, <2>3, <2>4 DEF Layout
<1>20. ones' \subseteq 0 .. BitsUsed' - 1
  <2>1. BitsUsed \in Nat /\ n \in 1 .. 23
    BY <1>1, <1>2
  <2>2. ASSUME NEW p \in ones' PROVE p \in 0 .. (BitsUsed + n) - 1
    <3>1. p \in 0 .. BitsUsed - 1 \/ p \in BitsUsed .. BitsUsed + n - 1
      BY <1>6, <1>7, <1>9
    <3> QED
      BY <2>1, <3>1
  <2> QED
    BY <1>3, <2>2
<1>21. \A k \in 1 .. Len(pending') : pending'[k].word \subseteq 0 .. pending'[k].width - 1
  <2> TAKE k \in 1 .. Len(pending')
  <2>1. k \in 1 .. len \/ k = len + 1
    BY <1>2, <1>13
  <2> QED
    BY <1>8, <1>13, <1>15, <2>1 DEF ContentInv, len
<1>22. RoundTrip'
  BY <1>3 DEF ContentInv, RoundTrip
<1> QED
  BY <1>19, <1>20, <1>21, <1>22 DEF ContentInv

LEMMA ReadContent ==
  ASSUME SizeInv, ContentInv, Read
  PROVE  ContentInv'
<1> DEFINE field == Head(pending)
           n     == field.width
           len   == Len(pending)
<1>1. /\ pending # << >> /\ pending' = Tail(pending) /\ ReadPos' = ReadPos + n
      /\ UNCHANGED <<size, ones, BitsUsed>>
      /\ echo' = [got  |-> Shr(Shl(Gather(ReadPos \div 8, BytesRead(n)), Overlap(ReadPos)), 32 - n),
                  want |-> field.word]
  BY DEF Read
<1>2. /\ pending \in Seq([width : Widths, word : SUBSET WordBits])
      /\ BitsUsed \in Nat /\ ReadPos \in Nat
  BY DEF SizeInv
<1>3. len \in Nat \ {0} /\ field = pending[1] /\ field \in [width : Widths, word : SUBSET WordBits]
  <2>1. len \in Nat \ {0} /\ field = pending[1]
    BY <1>1, <1>2
  <2>2. field \in [width : Widths, word : SUBSET WordBits]
    BY <1>1, <1>2, HeadInSet
  <2> QED
    BY <2>1, <2>2
<1>4. n \in Widths /\ n \in 1 .. 23
  BY <1>3
<1>5. /\ Len(pending') = len - 1
      /\ \A k \in 1 .. len - 1 : pending'[k] = pending[k + 1]
  BY <1>1, <1>2
<1>6. PICK at : Layout(at, pending, ones, BitsUsed, ReadPos)
  BY DEF ContentInv
<1> DEFINE new == [k \in 1 .. len |-> at[k + 1]]
<1> HIDE DEF field, n
<1>7. 1 \in 1 .. len
  BY <1>3
<1>8. /\ at \in [1 .. len + 1 -> Nat] /\ at[1] = ReadPos /\ at[len + 1] = BitsUsed
      /\ \A k \in 1 .. len : at[k + 1] = at[k] + pending[k].width /\ Holds(ones, BitsUsed, at[k], pending[k])
  BY <1>6 DEF Layout
<1>9. /\ field.word \subseteq 0 .. n - 1
      /\ \A k \in 1 .. len : pending[k].word \subseteq 0 .. pending[k].width - 1
  BY <1>3, <1>7 DEF ContentInv, n
<1>10. Holds(ones, BitsUsed, ReadPos, field) /\ at[2] = ReadPos + n
  <2>1. Holds(ones, BitsUsed, at[1], pending[1]) /\ at[1 + 1] = at[1] + pending[1].width
    BY <1>7, <1>8
  <2> QED
    BY <1>3, <1>8, <2>1 DEF n
<1>11. RoundTrip'
  <2>1. echo'.got = {d \in 0 .. n - 1 : ReadPos + n - 1 - d \in ones} /\ echo'.want = field.word
    BY <1>1, <1>2, <1>4, GatherTakes
  <2>2. \A d \in 0 .. n - 1 : (ReadPos + n - 1 - d \in ones) <=> (d \in field.word)
    BY <1>10 DEF Holds, n
  <2> QED
    BY <1>9, <2>1, <2>2 DEF RoundTrip
<1>12. /\ new \in [1 .. len -> Nat] /\ \A k \in 1 .. len : new[k] = at[k + 1]
  BY <1>3, <1>8
<1> HIDE DEF new, len
<1>14. Layout(new, pending', ones', BitsUsed', ReadPos')
  <2>1. new[1] = ReadPos'
    BY <1>1, <1>7, <1>10, <1>12
  <2>2. len - 1 + 1 = len
    BY <1>3
  <2>3. len \in 1 .. len
    BY <1>3
  <2>4. new[Len(pending') + 1] = BitsUsed'
    BY <1>1, <1>5, <1>8, <1>12, <2>2, <2>3
  <2>5. ASSUME NEW k \in 1 .. len - 1
        PROVE  new[k + 1] = new[k] + pending'[k].width /\ Holds(ones', BitsUsed', new[k], pending'[k])
    <3>1. k \in 1 .. len /\ k + 1 \in 1 .. len
      BY <1>3
    <3>2. pending'[k] = pending[k + 1] /\ new[k] = at[k + 1] /\ new[k + 1] = at[k + 1 + 1]
      BY <1>5, <1>12, <3>1
    <3>3. at[k + 1 + 1] = at[k + 1] + pending[k + 1].width /\ Holds(ones, BitsUsed, at[k + 1], pending[k + 1])
      BY <1>8, <3>1
    <3> QED
      BY <1>1, <3>2, <3>3 DEF Holds
  <2> QED
    BY <1>5, <1>12, <2>1, <2>2, <2>4, <2>5 DEF Layout
<1>15. \A k \in 1 .. Len(pending') : pending'[k].word \subseteq 0 .. pending'[k].width - 1
  <2> TAKE k \in 1 .. Len(pending')
  <2>1. k + 1 \in 1 .. len /\ k \in 1 .. len - 1
    BY <1>3, <1>5
  <2> QED
    BY <1>5, <1>9, <2>1
<1> QED
  BY <1>1, <1>11, <1>14, <1>15 DEF ContentInv

THEOREM ContentInvariance == BitsSpec => []ContentInv
<1>1. BitsInit => ContentInv
  <2> SUFFICES ASSUME BitsInit PROVE ContentInv
    OBVIOUS
  <2>1. Len(pending) = 0 /\ ones = {} /\ ReadPos = 0 /\ BitsUsed = 0 /\ echo.got = echo.want
    BY DEF BitsInit
  <2>2. Layout([k \in 1 .. Len(pending) + 1 |-> 0], pending, ones, BitsUsed, ReadPos)
    BY <2>1 DEF Layout
  <2> QED
    BY <2>1, <2>2 DEF ContentInv, RoundTrip
<1>2. SizeInv /\ ContentInv /\ [BitsNext]_bitsVars => ContentInv'
  <2> SUFFICES ASSUME SizeInv, ContentInv, [BitsNext]_bitsVars PROVE ContentInv'
    OBVIOUS
  <2>1. CASE UNCHANGED bitsVars
    BY <2>1 DEF bitsVars, ContentInv, Layout, Holds, RoundTrip
  <2> QED
    BY <2>1, WriteContent, ReadContent DEF BitsNext
<1> QED
  BY <1>1, <1>2, SizeInvariance, PTL DEF BitsSpec

\* For every sequence of writes and reads: a field comes back as its low bits were
\* written, wherever in a byte it begins and whatever stands before and behind it.
THEOREM FieldsRoundTrip == BitsSpec => []RoundTrip
BY ContentInvariance, PTL DEF ContentInv

\* Types; and nothing is set in Buf beyond what was written.
THEOREM BitsTypeCorrect == BitsSpec => []BitsTypeOK
<1> DEFINE Count == writes \in 0 .. MaxFields
<1>1. BitsInit => Count
  BY DEF BitsInit
<1>2. Count /\ [BitsNext]_bitsVars => Count'
  <2> SUFFICES ASSUME Count, [BitsNext]_bitsVars PROVE Count'
    OBVIOUS
  <2>1. CASE Read \/ UNCHANGED bitsVars
    BY <2>1 DEF Read, bitsVars
  <2>2. ASSUME NEW w \in Words, NEW n \in Widths, Write(w, n) PROVE Count'
    BY <2>2 DEF Write
  <2> QED
    BY <2>1, <2>2 DEF BitsNext
<1>3. SizeInv /\ ContentInv /\ Count => BitsTypeOK
  BY DEF SizeInv, ContentInv, BitsTypeOK
<1> QED
  BY <1>1, <1>2, <1>3, SizeInvariance, ContentInvariance, PTL DEF BitsSpec
-----------------------------------------------------------------------------
(***************************************************************************)
(* AeaFile: units in their places                                          *)
(***************************************************************************)

BlockStarts == {BlockFrames * j : j \in Nat}

\* What the encoder leaves: all units, or the dummy of an input that has none.
FileUnits == IF total = 0 THEN 1 ELSE channels * EncodedFrames

\* Where the block in the buffer begins in the file.
Base == pos - Len(block)

Written ==
  /\ phase = "encode" => intact
  /\ phase = "encode" => /\ (FirstWrite <=> delivered = 0)
                         /\ Len(disk) = IF delivered = 0 THEN 1 ELSE delivered
  /\ Len(disk) <= FileUnits
  /\ intact /\ phase # "encode" => Len(disk) = FileUnits

Progress ==
  /\ phase \in {"encode", "closed"} => pos = 0 /\ Len(block) = 0 /\ Len(pcm) = 0 /\ ~short
  /\ phase \notin {"encode", "closed"} => claimed = Claimed
  /\ phase = "done" => Len(block) = 0
  /\ phase = "io_error" => pos = Len(disk) /\ Len(block) < BlockUnits
  /\ \E p \in BlockStarts :
       /\ Base = channels * p
       /\ phase \in {"decode", "io_error"} => p = 0 \/ claimed > p
       /\ phase = "done" => claimed <= p

Contents ==
  /\ \A j \in DOMAIN block : block[j] = Decoded(disk[Base + j])
  /\ ~short => Len(pcm) = Base /\ \A k \in DOMAIN pcm : pcm[k] = Decoded(disk[k])
  /\ Base = 0 => Len(pcm) = 0

IInv == TypeOK /\ Written /\ UnitsInPlace /\ Progress /\ Contents
-----------------------------------------------------------------------------
\* Whole blocks: they begin a block apart.
LEMMA StartsApart ==
  /\ BlockStarts \subseteq Nat /\ 0 \in BlockStarts
  /\ \A p \in BlockStarts : p + BlockFrames \in BlockStarts
  /\ \A p, q \in BlockStarts : p < q => p + BlockFrames <= q
  <1>1. BlockFrames \in Nat /\ BlockFrames > 0
    BY SizeAssumption
  <1>2. BlockStarts \subseteq Nat /\ 0 \in BlockStarts
    BY <1>1 DEF BlockStarts
  <1>3. ASSUME NEW j \in Nat
        PROVE  BlockFrames * j + BlockFrames = BlockFrames * (j + 1) /\ j + 1 \in Nat
    BY <1>1
  <1>4. ASSUME NEW i \in Nat, NEW j \in Nat, BlockFrames * i < BlockFrames * j
        PROVE  BlockFrames * i + BlockFrames <= BlockFrames * j
    <2>1. CASE i < j
      <3>1. PICK d \in Nat : j = i + 1 + d
        <4>1. j - i - 1 \in Nat /\ j = i + 1 + (j - i - 1)
          BY <2>1
        <4> QED BY <4>1
      <3>2. BlockFrames * (i + 1 + d) = BlockFrames * i + BlockFrames + BlockFrames * d
        BY <1>1
      <3>3. BlockFrames * d \in Nat /\ BlockFrames * i \in Nat
        BY <1>1
      <3> QED BY <1>1, <3>1, <3>2, <3>3
    <2>2. CASE j <= i
      <3>1. PICK d \in Nat : i = j + d
        <4>1. i - j \in Nat /\ i = j + (i - j)
          BY <2>2
        <4> QED BY <4>1
      <3>2. BlockFrames * (j + d) = BlockFrames * j + BlockFrames * d
        BY <1>1
      <3>3. BlockFrames * d \in Nat /\ BlockFrames * j \in Nat
        BY <1>1
      <3> QED BY <1>4, <3>1, <3>2, <3>3
    <2> QED BY <2>1, <2>2
  <1>5. ASSUME NEW p \in BlockStarts
        PROVE  p + BlockFrames \in BlockStarts
    BY <1>3 DEF BlockStarts
  <1>6. ASSUME NEW p \in BlockStarts, NEW q \in BlockStarts, p < q
        PROVE  p + BlockFrames <= q
    BY <1>4, <1>6 DEF BlockStarts
  <1> QED BY <1>2, <1>5, <1>6

\* The encoder goes through whole blocks, the last of which the input begins.
LEMMA EncodedWhole ==
  ASSUME total \in Totals, total > 0
  PROVE  /\ EncodedFrames \in BlockStarts /\ EncodedFrames \in Nat
         /\ EncodedFrames >= BlockFrames /\ EncodedFrames < Wrap
  <1> DEFINE x == total + BlockFrames - 1
             q == x \div BlockFrames
  <1>1. BlockFrames \in Nat \ {0} /\ x \in Nat /\ x >= BlockFrames /\ x < Wrap /\ Wrap \in Nat
    BY SizeAssumption
  <1>2. q \in Int /\ BlockFrames * q <= x /\ x < BlockFrames * q + BlockFrames
    <2> HIDE DEF x
    <2> QED BY <1>1
  <1>3. EncodedFrames = BlockFrames * q
    BY DEF EncodedFrames
  <1> HIDE DEF x, q
  <1>4. q > 0
    <2>1. CASE q <= 0
      <3>1. PICK d \in Nat : q = -d
        <4>1. -q \in Nat /\ q = -(-q)
          BY <1>2, <2>1
        <4> QED BY <4>1
      <3>2. BlockFrames * d \in Nat /\ BlockFrames * (-d) = -(BlockFrames * d)
        BY <1>1
      <3> QED BY <1>1, <1>2, <3>1, <3>2
    <2> QED BY <1>2, <2>1
  <1>5. BlockFrames * q >= BlockFrames
    <2>1. PICK d \in Nat : q = d + 1
      <3>1. q - 1 \in Nat /\ q = (q - 1) + 1
        BY <1>2, <1>4
      <3> QED BY <3>1
    <2>2. BlockFrames * (d + 1) = BlockFrames * d + BlockFrames /\ BlockFrames * d \in Nat
      BY <1>1
    <2> QED BY <1>1, <2>1, <2>2
  <1>6. q \in Nat /\ BlockFrames * q \in Nat
    BY <1>1, <1>2, <1>4
  <1> QED BY <1>1, <1>2, <1>3, <1>5, <1>6 DEF BlockStarts

LEMMA EncodedNone ==
  ASSUME total = 0
  PROVE  EncodedFrames = 0
  <1>1. BlockFrames \in Nat /\ BlockFrames > 5
    BY SizeAssumption
  <1>2. (total + BlockFrames - 1) \div BlockFrames = 0
    <2>1. total + BlockFrames - 1 = BlockFrames - 1
      BY <1>1
    <2>2. (BlockFrames - 1) \div BlockFrames = 0
      BY <1>1
    <2> QED BY <2>1, <2>2
  <1> QED BY <1>1, <1>2 DEF EncodedFrames
-----------------------------------------------------------------------------
LEMMA UnitType ==
  ASSUME channels \in {1, 2}, NEW n \in Nat
  PROVE  Unit(n) \in Audio /\ Unit(n) \notin {Dummy, Malformed, Silence}
  <1>1. CASE channels = 1
    BY <1>1, UnitAssumption DEF Unit, Audio
  <1>2. CASE channels = 2
    BY <1>2, UnitAssumption DEF Unit, Audio
  <1> QED BY <1>1, <1>2

LEMMA PerChannel ==
  ASSUME channels \in {1, 2}, NEW n \in Nat
  PROVE  /\ channels * n \in Nat /\ channels * n >= n
         /\ channels * n = IF channels = 1 THEN n ELSE n + n
  <1>1. CASE channels = 1
    BY <1>1
  <1>2. CASE channels = 2
    BY <1>2
  <1> QED BY <1>1, <1>2

LEMMA Sizes ==
  ASSUME channels \in {1, 2}, total \in Totals
  PROVE  /\ EncodedFrames \in Nat /\ EncodedFrames < Wrap /\ EncodedFrames \in BlockStarts
         /\ total \in Nat /\ (total > 0 => EncodedFrames >= BlockFrames)
         /\ BlockFrames \in Nat /\ BlockFrames > 5 /\ Wrap \in Nat /\ Wrap > 6
         /\ channels * EncodedFrames \in Nat /\ FileUnits \in Nat /\ FileUnits > 0
         /\ channels * EncodedFrames > 0 => FileUnits = channels * EncodedFrames
         /\ channels * EncodedFrames = 0 => FileUnits = 1
         /\ BlockUnits \in Nat /\ BlockUnits > 5
  <1>1. /\ BlockFrames \in Nat /\ BlockFrames > 5 /\ Wrap \in Nat /\ Wrap > 6
        /\ total \in Nat
    BY SizeAssumption
  <1>2. CASE total > 0
    <2>1. /\ EncodedFrames \in Nat /\ EncodedFrames >= BlockFrames /\ EncodedFrames < Wrap
          /\ EncodedFrames \in BlockStarts
      BY <1>2, EncodedWhole
    <2>2. /\ channels * EncodedFrames \in Nat /\ channels * EncodedFrames >= EncodedFrames
          /\ channels * BlockFrames \in Nat /\ channels * BlockFrames >= BlockFrames
      BY <1>1, <2>1, PerChannel
    <2> QED BY <1>1, <1>2, <2>1, <2>2 DEF BlockUnits, FileUnits
  <1>3. CASE total = 0
    <2>1. EncodedFrames = 0 /\ channels * EncodedFrames = 0
      BY <1>3, EncodedNone
    <2>2. channels * BlockFrames \in Nat /\ channels * BlockFrames >= BlockFrames
      BY <1>1, PerChannel
    <2> QED BY <1>1, <1>3, <2>1, <2>2, StartsApart DEF BlockUnits, FileUnits
  <1> QED BY <1>1, <1>2, <1>3

LEMMA InitIInv == Init => IInv
  <1> SUFFICES ASSUME Init PROVE IInv
    OBVIOUS
  <1>1. channels \in {1, 2} /\ total \in Totals
    BY DEF Init
  <1>2. /\ EncodedFrames \in Nat /\ channels * EncodedFrames \in Nat
        /\ BlockUnits \in Nat /\ FileUnits \in Nat /\ FileUnits > 0
    BY <1>1, Sizes
  <1>3. disk = <<Dummy>> /\ Len(disk) = 1 /\ disk[1] = Dummy
    BY DEF Init, Opening
  <1>4. block = <<>> /\ pcm = <<>>
    BY DEF Init
  <1>5. /\ pos = 0 /\ Len(block) = 0 /\ Len(pcm) = 0 /\ claimed = 0 /\ delivered = 0
        /\ phase = "encode" /\ ~short
    <2>1. Len(block) = 0 /\ Len(pcm) = 0
      BY <1>4
    <2> QED BY <2>1 DEF Init
  <1>6. 0 \in 0 .. Wrap - 1
    BY <1>1, SizeAssumption
  <1>7. disk \in Seq(Audio \cup {Dummy, Malformed})
    BY <1>3
  <1>8. TypeOK
    <2>1. delivered \in 0 .. channels * EncodedFrames /\ pos \in 0 .. Len(disk)
          /\ claimed \in 0 .. Wrap - 1
      BY <1>2, <1>3, <1>5, <1>6
    <2>2. /\ block \in Seq(Audio \cup {Silence}) /\ Len(block) <= BlockUnits
          /\ pcm \in Seq(Audio \cup {Silence})
      <3>1. block \in Seq(Audio \cup {Silence}) /\ pcm \in Seq(Audio \cup {Silence})
        BY <1>4
      <3> QED BY <1>2, <1>5, <3>1
    <2> QED BY <1>1, <1>7, <2>1, <2>2 DEF Init, TypeOK
  <1>9. Written
    BY <1>2, <1>3 DEF Init, Written
  <1>10. UnitsInPlace
    BY <1>3 DEF UnitsInPlace
  <1>11. Progress
    <2>1. Base = 0 /\ 0 = channels * 0 /\ 0 \in BlockStarts
      BY <1>1, <1>5, StartsApart DEF Base
    <2> QED BY <1>5, <2>1 DEF Progress
  <1>12. Contents
    <2>1. DOMAIN block = {} /\ DOMAIN pcm = {}
      BY <1>4
    <2>2. Len(pcm) = Base
      BY <1>5 DEF Base
    <2> QED BY <2>1, <2>2 DEF Contents
  <1> QED BY <1>8, <1>9, <1>10, <1>11, <1>12 DEF IInv
-----------------------------------------------------------------------------
(***************************************************************************)
(* Steps of the encoder and of the file at rest.                           *)
(***************************************************************************)
LEMMA EncodeUnitStep == IInv /\ EncodeUnit => IInv'
  <1> SUFFICES ASSUME IInv, EncodeUnit PROVE IInv'
    OBVIOUS
  <1> USE DEF IInv
  <1>1. /\ channels \in {1, 2} /\ delivered \in Nat /\ FirstWrite \in BOOLEAN
        /\ disk \in Seq(Audio \cup {Dummy, Malformed}) /\ total \in Totals
        /\ channels * EncodedFrames \in Nat
    BY Sizes DEF TypeOK
  <1>2. /\ phase = "encode" /\ phase' = phase /\ intact /\ intact' = intact
        /\ channels' = channels /\ total' = total /\ EncodedFrames' = EncodedFrames
        /\ delivered < channels * EncodedFrames /\ delivered' = delivered + 1
        /\ FirstWrite' = FALSE
        /\ disk' = IF FirstWrite THEN disk ELSE Append(disk, Unit(delivered))
        /\ (FirstWrite <=> delivered = 0)
        /\ Len(disk) = IF delivered = 0 THEN 1 ELSE delivered
        /\ BlockUnits' = BlockUnits /\ FileUnits' = FileUnits
        /\ UNCHANGED <<claimed, pos, block, pcm, short>>
    BY DEF EncodeUnit, WriteFrame, Written, source, decoder, EncodedFrames, BlockUnits, FileUnits
  <1>3. pos = 0 /\ Len(block) = 0 /\ Len(pcm) = 0 /\ ~short
    BY <1>2 DEF Progress
  <1>4. /\ Len(disk') = delivered + 1 /\ disk' \in Seq(Audio \cup {Dummy, Malformed})
        /\ \A k \in 1 .. Len(disk') :
             disk'[k] = IF k <= Len(disk) THEN disk[k] ELSE Unit(k - 1)
    <2>1. CASE FirstWrite
      <3>1. disk' = disk
        BY <1>2, <2>1
      <3>2. delivered = 0
        BY <1>2, <2>1
      <3>3. Len(disk) = 1 /\ delivered + 1 = 1
        BY <1>2, <3>2
      <3> QED BY <1>1, <3>1, <3>3
    <2>2. CASE ~FirstWrite
      <3>1. Unit(delivered) \in Audio
        BY <1>1, UnitType
      <3>2. disk' = Append(disk, Unit(delivered)) /\ Len(disk) = delivered
        BY <1>1, <1>2, <2>2
      <3> QED BY <1>1, <3>1, <3>2
    <2> QED BY <2>1, <2>2, <1>1
  <1>5. TypeOK'
    <2>1. delivered' \in 0 .. channels * EncodedFrames /\ pos \in 0 .. Len(disk')
      BY <1>1, <1>2, <1>3, <1>4, Sizes
    <2> QED BY <1>1, <1>2, <1>4, <2>1 DEF TypeOK
  <1>6. Written'
    <2>1. FirstWrite' <=> delivered' = 0
      BY <1>1, <1>2
    <2>2. FileUnits = channels * EncodedFrames
      BY <1>1, <1>2, Sizes
    <2> QED BY <1>1, <1>2, <1>4, <2>1, <2>2 DEF Written
  <1>7. UnitsInPlace'
    <2> SUFFICES ASSUME NEW k \in 1 .. Len(disk')
                 PROVE  disk'[k] \in {Unit(k - 1), Malformed} \/ (k = 1 /\ disk'[k] = Dummy)
      BY <1>2, <1>4 DEF UnitsInPlace, Unit
    <2>1. CASE k <= Len(disk)
      BY <1>1, <1>4, <2>1 DEF UnitsInPlace
    <2>2. CASE ~(k <= Len(disk))
      BY <1>4, <2>2
    <2> QED BY <2>1, <2>2
  <1>8. Progress'
    <2>1. Base' = 0 /\ 0 = channels' * 0 /\ 0 \in BlockStarts
      BY <1>1, <1>2, <1>3, StartsApart DEF Base
    <2> QED BY <1>2, <1>3, <2>1 DEF Progress
  <1>9. Contents'
    BY <1>2, <1>3 DEF Contents, Base
  <1> QED BY <1>5, <1>6, <1>7, <1>8, <1>9

\* What the end of the encoder and the file at rest have in common: a file that
\* holds the same units as before, up to where it ends, less the damaged ones.
LEMMA AtRest ==
  ASSUME IInv, phase \in {"encode", "closed"}, phase' = "closed",
         UNCHANGED <<source, encoder, decoder>>, intact' \in BOOLEAN,
         disk' \in Seq(Audio \cup {Dummy, Malformed}), Len(disk') <= Len(disk),
         \A k \in 1 .. Len(disk') : disk'[k] \in {disk[k], Malformed},
         intact' => Len(disk') = FileUnits
  PROVE  IInv'
  <1> USE DEF IInv
  <1>1. /\ channels \in {1, 2} /\ disk \in Seq(Audio \cup {Dummy, Malformed})
        /\ channels' = channels /\ total' = total /\ EncodedFrames' = EncodedFrames
        /\ BlockUnits' = BlockUnits /\ FileUnits' = FileUnits /\ total \in Totals
        /\ UNCHANGED <<FirstWrite, delivered, claimed, pos, block, pcm, short>>
    BY DEF TypeOK, source, encoder, decoder, EncodedFrames, BlockUnits, FileUnits
  <1>2. pos = 0 /\ Len(block) = 0 /\ Len(pcm) = 0 /\ ~short
    BY DEF Progress
  <1>3. TypeOK'
    BY <1>1, <1>2 DEF TypeOK
  <1>4. Written'
    <2>1. Len(disk') <= FileUnits
      <3>1. Len(disk) \in Nat /\ Len(disk') \in Nat
        BY <1>1
      <3>2. FileUnits \in Nat /\ Len(disk) <= FileUnits
        <4>1. FileUnits \in Nat
          BY <1>1, Sizes
        <4>2. Len(disk) <= FileUnits
          BY DEF Written
        <4> QED BY <4>1, <4>2
      <3> QED BY <3>1, <3>2
    <2> QED BY <1>1, <2>1 DEF Written
  <1>5. UnitsInPlace'
    <2> SUFFICES ASSUME NEW k \in 1 .. Len(disk')
                 PROVE  disk'[k] \in {Unit(k - 1), Malformed} \/ (k = 1 /\ disk'[k] = Dummy)
      BY <1>1 DEF UnitsInPlace, Unit
    <2>1. k \in 1 .. Len(disk)
      BY <1>1
    <2> QED BY <2>1, <1>1 DEF UnitsInPlace
  <1>6. Progress'
    <2>1. Base' = 0 /\ 0 = channels' * 0 /\ 0 \in BlockStarts
      BY <1>1, <1>2, StartsApart DEF Base
    <2> QED BY <1>1, <1>2, <2>1 DEF Progress
  <1>7. Contents'
    BY <1>1, <1>2 DEF Contents, Base
  <1> QED BY <1>3, <1>4, <1>5, <1>6, <1>7

LEMMA AtRestStep ==
  IInv /\ (EncodeFails \/ EncodeEnds \/ CutShort \/ Damage) => IInv'
  <1> SUFFICES ASSUME IInv, EncodeFails \/ EncodeEnds \/ CutShort \/ Damage PROVE IInv'
    OBVIOUS
  <1>1. disk \in Seq(Audio \cup {Dummy, Malformed}) /\ Written /\ TypeOK
    BY DEF IInv, TypeOK
  <1>2. CASE EncodeFails
    <2>1. disk' = disk /\ ~intact' /\ intact' \in BOOLEAN /\ phase = "encode" /\ phase' = "closed"
          /\ UNCHANGED <<source, encoder, decoder>>
      BY <1>2 DEF EncodeFails
    <2> QED BY <1>1, <2>1, AtRest
  <1>3. CASE EncodeEnds
    <2>1. disk' = disk /\ intact' = intact /\ phase = "encode" /\ phase' = "closed"
          /\ UNCHANGED <<source, encoder, decoder>> /\ delivered = channels * EncodedFrames
      BY <1>3 DEF EncodeEnds
    <2>2. Len(disk) = FileUnits /\ intact
      <3>1. channels \in {1, 2} /\ total \in Totals
        BY <1>1 DEF TypeOK
      <3>2. intact /\ Len(disk) = IF delivered = 0 THEN 1 ELSE delivered
        BY <1>1, <2>1 DEF Written
      <3>3. FileUnits = IF delivered = 0 THEN 1 ELSE delivered
        <4>1. channels * EncodedFrames \in Nat
          BY <3>1, Sizes
        <4> QED BY <2>1, <3>1, <4>1, Sizes
      <3> QED BY <3>2, <3>3
    <2> QED BY <1>1, <2>1, <2>2, AtRest DEF TypeOK
  <1>4. CASE CutShort
    <2>1. PICK n \in 0 .. Len(disk) - 1 : disk' = SubSeq(disk, 1, n)
      BY <1>4 DEF CutShort
    <2>2. /\ Len(disk') = n /\ disk' \in Seq(Audio \cup {Dummy, Malformed})
          /\ \A k \in 1 .. Len(disk') : disk'[k] = disk[k]
      BY <1>1, <2>1
    <2>3. ~intact' /\ intact' \in BOOLEAN /\ phase = "closed" /\ phase' = "closed"
          /\ UNCHANGED <<source, encoder, decoder>>
      BY <1>4 DEF CutShort
    <2>4. Len(disk') <= Len(disk)
      BY <1>1, <2>2
    <2> QED BY <2>2, <2>3, <2>4, AtRest
  <1>5. CASE Damage
    <2>1. PICK d \in DOMAIN disk : disk' = [disk EXCEPT ![d] = Malformed]
      BY <1>5 DEF Damage
    <2>2. /\ Len(disk') = Len(disk) /\ disk' \in Seq(Audio \cup {Dummy, Malformed})
          /\ \A k \in 1 .. Len(disk') : disk'[k] \in {disk[k], Malformed}
      BY <1>1, <2>1
    <2>3. ~intact' /\ intact' \in BOOLEAN /\ phase = "closed" /\ phase' = "closed"
          /\ UNCHANGED <<source, encoder, decoder>>
      BY <1>5 DEF Damage
    <2>4. Len(disk') <= Len(disk)
      BY <1>1, <2>2
    <2> QED BY <2>2, <2>3, <2>4, AtRest
  <1> QED BY <1>2, <1>3, <1>4, <1>5
-----------------------------------------------------------------------------
(***************************************************************************)
(* Steps of the decoder.                                                   *)
(***************************************************************************)
\* The length announced: five frames less than the file has, if it has them.
LEMMA Length ==
  ASSUME TypeOK, Written
  PROVE  /\ FramesOnDisk \in Nat /\ FramesOnDisk < Wrap
         /\ channels * FramesOnDisk <= Len(disk)
         /\ Len(disk) < channels * FramesOnDisk + channels
         /\ Claimed \in 0 .. Wrap - 1
         /\ FramesOnDisk >= 5 => Claimed = FramesOnDisk - 5
  <1>1. /\ channels \in {1, 2} /\ Len(disk) \in Nat /\ EncodedFrames \in Nat
        /\ EncodedFrames < Wrap /\ Wrap \in Nat /\ Wrap > 6
        /\ Len(disk) <= 1 \/ Len(disk) <= channels * EncodedFrames
    <2>1. channels \in {1, 2} /\ total \in Totals /\ Len(disk) \in Nat
      BY DEF TypeOK
    <2>2. Len(disk) <= 1 \/ Len(disk) <= channels * EncodedFrames
      BY DEF Written, FileUnits
    <2> QED BY <2>1, <2>2, Sizes
  <1>2. Wrap \in Nat /\ Wrap > 0
    BY <1>1
  <1>3. /\ FramesOnDisk \in Nat /\ FramesOnDisk < Wrap
        /\ channels * FramesOnDisk <= Len(disk)
        /\ Len(disk) < channels * FramesOnDisk + channels
    <2>1. CASE channels = 1
      BY <1>1, <2>1 DEF FramesOnDisk
    <2>2. CASE channels = 2
      BY <1>1, <2>2 DEF FramesOnDisk
    <2> QED BY <1>1, <2>1, <2>2
  <1>4. Claimed \in 0 .. Wrap - 1
    <2>1. FramesOnDisk - 5 \in Int
      BY <1>3
    <2> QED BY <1>2, <2>1 DEF Claimed
  <1>5. FramesOnDisk >= 5 => Claimed = FramesOnDisk - 5
    <2> SUFFICES ASSUME FramesOnDisk >= 5 PROVE Claimed = FramesOnDisk - 5
      OBVIOUS
    <2>1. FramesOnDisk - 5 \in Nat /\ FramesOnDisk - 5 < Wrap
      BY <1>1, <1>2, <1>3
    <2> QED BY <1>2, <2>1 DEF Claimed
  <1> QED BY <1>3, <1>4, <1>5

\* What all steps of the decoder leave alone.
LEMMA FileUnchanged ==
  ASSUME IInv, UNCHANGED <<source, encoder, disk, intact>>, phase # "encode",
         phase' \notin {"encode", "closed"}
  PROVE  /\ Written' /\ UnitsInPlace'
         /\ channels' = channels /\ total' = total /\ EncodedFrames' = EncodedFrames
         /\ BlockUnits' = BlockUnits /\ FramesOnDisk' = FramesOnDisk
         /\ Claimed' = Claimed /\ FirstWrite' = FirstWrite /\ delivered' = delivered
  <1>1. /\ channels' = channels /\ total' = total /\ EncodedFrames' = EncodedFrames
        /\ BlockUnits' = BlockUnits /\ FramesOnDisk' = FramesOnDisk
        /\ Claimed' = Claimed /\ FirstWrite' = FirstWrite /\ delivered' = delivered
    BY DEF source, encoder, EncodedFrames, BlockUnits, FramesOnDisk, Claimed
  <1>2. Written'
    BY <1>1 DEF IInv, Written, FileUnits
  <1>3. UnitsInPlace'
    BY <1>1 DEF IInv, UnitsInPlace, Unit
  <1> QED BY <1>1, <1>2, <1>3

LEMMA OpenStep == IInv /\ Open => IInv'
  <1> SUFFICES ASSUME IInv, Open PROVE IInv'
    OBVIOUS
  <1>1. /\ phase = "closed" /\ phase' = "decode" /\ claimed' = Claimed
        /\ UNCHANGED <<source, encoder, disk, intact>>
        /\ UNCHANGED <<pos, block, pcm, short>>
    BY DEF Open
  <1>2. TypeOK /\ Written /\ Progress /\ Contents
    BY DEF IInv
  <1>3. /\ Written' /\ UnitsInPlace' /\ channels' = channels /\ total' = total
        /\ EncodedFrames' = EncodedFrames /\ BlockUnits' = BlockUnits /\ Claimed' = Claimed
        /\ FirstWrite' = FirstWrite /\ delivered' = delivered
    BY <1>1, FileUnchanged
  <1>4. TypeOK'
    BY <1>1, <1>2, <1>3, Length DEF TypeOK
  <1>5. Progress'
    <2>1. pos = 0 /\ Len(block) = 0 /\ Len(pcm) = 0 /\ ~short
      BY <1>1, <1>2 DEF Progress
    <2>2. channels \in {1, 2}
      BY <1>2 DEF TypeOK
    <2>3. Base' = 0 /\ 0 = channels' * 0 /\ 0 \in BlockStarts
      BY <1>1, <1>3, <2>1, <2>2, StartsApart DEF Base
    <2> QED BY <1>1, <1>3, <2>1, <2>3 DEF Progress
  <1>6. Contents'
    BY <1>1, <1>2 DEF Contents, Base
  <1> QED BY <1>3, <1>4, <1>5, <1>6 DEF IInv

LEMMA DecodeUnitStep == IInv /\ DecodeUnit => IInv'
  <1> SUFFICES ASSUME IInv, DecodeUnit PROVE IInv'
    OBVIOUS
  <1>1. /\ phase = "decode" /\ phase' = "decode" /\ claimed' = claimed
        /\ UNCHANGED <<source, encoder, disk, intact>> /\ UNCHANGED <<pcm, short>>
        /\ Len(block) < BlockUnits /\ pos < Len(disk) /\ pos' = pos + 1
        /\ block' = Append(block, Decoded(disk[pos + 1]))
    BY DEF DecodeUnit
  <1>2. TypeOK /\ Written /\ Progress /\ Contents
    BY DEF IInv
  <1>3. /\ Written' /\ UnitsInPlace' /\ channels' = channels /\ total' = total
        /\ EncodedFrames' = EncodedFrames /\ BlockUnits' = BlockUnits /\ Claimed' = Claimed
        /\ FirstWrite' = FirstWrite /\ delivered' = delivered
    BY <1>1, FileUnchanged
  <1>4. /\ disk \in Seq(Audio \cup {Dummy, Malformed}) /\ pos \in Nat
        /\ block \in Seq(Audio \cup {Silence}) /\ BlockUnits \in Nat /\ disk' = disk
    BY <1>1, <1>2, Sizes DEF TypeOK
  <1>5. Decoded(disk[pos + 1]) \in Audio \cup {Silence}
    BY <1>1, <1>4 DEF Decoded
  <1>6. /\ block' \in Seq(Audio \cup {Silence}) /\ Len(block') = Len(block) + 1
        /\ \A j \in 1 .. Len(block) : block'[j] = block[j]
        /\ block'[Len(block) + 1] = Decoded(disk[pos + 1])
    BY <1>1, <1>4, <1>5
  <1>7. Base' = Base /\ Base \in Int /\ Base + Len(block) = pos
    BY <1>1, <1>4, <1>6 DEF Base
  <1>8. TypeOK'
    <2>1. Len(block') <= BlockUnits /\ pos' \in 0 .. Len(disk)
      BY <1>1, <1>4, <1>6
    <2> QED BY <1>1, <1>2, <1>3, <1>6, <2>1 DEF TypeOK
  <1>9. Progress'
    BY <1>1, <1>2, <1>3, <1>7 DEF Progress
  <1>10. Contents'
    <2>1. ASSUME NEW j \in DOMAIN block'
          PROVE  block'[j] = Decoded(disk[Base + j])
      <3>1. j \in 1 .. Len(block) + 1
        BY <1>6, <2>1
      <3>2. CASE j \in 1 .. Len(block)
        BY <1>2, <1>4, <1>6, <3>2 DEF Contents
      <3>3. CASE j = Len(block) + 1
        <4>1. Base + j = pos + 1
          BY <1>4, <1>7, <3>3
        <4> QED BY <1>6, <3>3, <4>1
      <3> QED BY <1>4, <3>1, <3>2, <3>3
    <2>2. /\ ~short => Len(pcm) = Base /\ \A k \in DOMAIN pcm : pcm[k] = Decoded(disk[k])
          /\ Base = 0 => Len(pcm) = 0
      BY <1>2 DEF Contents
    <2>3. pcm' = pcm /\ short' = short
      BY <1>1
    <2> QED BY <1>4, <1>7, <2>1, <2>2, <2>3 DEF Contents, Decoded
  <1> QED BY <1>3, <1>8, <1>9, <1>10 DEF IInv

LEMMA DecodeFailsStep == IInv /\ DecodeFails => IInv'
  <1> SUFFICES ASSUME IInv, DecodeFails PROVE IInv'
    OBVIOUS
  <1>1. /\ phase = "decode" /\ phase' = "io_error" /\ Len(block) < BlockUnits
        /\ pos = Len(disk) /\ UNCHANGED <<source, encoder, disk, intact>>
        /\ UNCHANGED <<claimed, pos, block, pcm, short>>
    BY DEF DecodeFails, AtEndOfFile, decoder
  <1>2. TypeOK /\ Written /\ Progress /\ Contents
    BY DEF IInv
  <1>3. /\ Written' /\ UnitsInPlace' /\ channels' = channels /\ total' = total
        /\ EncodedFrames' = EncodedFrames /\ BlockUnits' = BlockUnits /\ Claimed' = Claimed
        /\ FirstWrite' = FirstWrite /\ delivered' = delivered
    BY <1>1, FileUnchanged
  <1>4. Base' = Base
    BY <1>1 DEF Base
  <1>5. TypeOK'
    BY <1>1, <1>2, <1>3 DEF TypeOK
  <1>6. Progress'
    BY <1>1, <1>2, <1>3, <1>4 DEF Progress
  <1>7. Contents'
    BY <1>1, <1>2, <1>4 DEF Contents, Decoded
  <1> QED BY <1>3, <1>5, <1>6, <1>7 DEF IInv

LEMMA WriteBlockStep == IInv /\ WriteBlock => IInv'
  <1> SUFFICES ASSUME IInv, WriteBlock PROVE IInv'
    OBVIOUS
  <1>1. PICK n \in 0 .. BlockFrames :
          /\ pcm' = pcm \o SubSeq(block, 1, n * channels)
          /\ short' = (short \/ n < BlockFrames)
    BY DEF WriteBlock
  <1>2. /\ phase = "decode" /\ Len(block) = BlockUnits /\ block' = <<>>
        /\ phase' = (IF claimed > Processed THEN "decode" ELSE "done")
        /\ UNCHANGED <<source, encoder, disk, intact>> /\ claimed' = claimed /\ pos' = pos
    BY DEF WriteBlock
  <1>3. TypeOK /\ Written /\ Progress /\ Contents
    BY DEF IInv
  <1>4. phase' \in {"decode", "done"} /\ phase' \notin {"encode", "closed"}
    BY <1>2
  <1>5. /\ Written' /\ UnitsInPlace' /\ channels' = channels /\ total' = total
        /\ EncodedFrames' = EncodedFrames /\ BlockUnits' = BlockUnits /\ Claimed' = Claimed
        /\ FirstWrite' = FirstWrite /\ delivered' = delivered /\ disk' = disk
        /\ intact' = intact
    BY <1>2, <1>4, FileUnchanged
  <1>6. /\ channels \in {1, 2} /\ pos \in Nat /\ BlockFrames \in Nat
        /\ block \in Seq(Audio \cup {Silence}) /\ pcm \in Seq(Audio \cup {Silence})
    BY <1>3, SizeAssumption DEF TypeOK
  <1>7. n * channels \in 0 .. Len(block) /\ (n = BlockFrames => n * channels = Len(block))
    <2>1. CASE channels = 1
      BY <1>2, <1>6, <2>1 DEF BlockUnits
    <2>2. CASE channels = 2
      BY <1>2, <1>6, <2>2 DEF BlockUnits
    <2> QED BY <1>6, <2>1, <2>2
  <1> DEFINE u == SubSeq(block, 1, n * channels)
  <1>8. /\ u \in Seq(Audio \cup {Silence}) /\ Len(u) = n * channels
        /\ \A j \in 1 .. Len(u) : u[j] = block[j]
    <2> HIDE DEF IInv
    <2>1. n * channels \in 0 .. Len(block) /\ Len(block) \in Nat
      BY <1>6, <1>7
    <2> DEFINE e == n * channels
    <2> HIDE DEF e
    <2>2. e \in 0 .. Len(block) /\ Len(block) \in Nat
      BY <2>1 DEF e
    <2>3. /\ SubSeq(block, 1, e) \in Seq(Audio \cup {Silence}) /\ Len(SubSeq(block, 1, e)) = e
          /\ \A j \in 1 .. e : SubSeq(block, 1, e)[j] = block[j]
      BY <1>6, <2>2
    <2> QED BY <2>3 DEF e
  <1>9. pcm' = pcm \o u
    BY <1>1
  <1> HIDE DEF u
  <1>10. /\ pcm' \in Seq(Audio \cup {Silence}) /\ Len(pcm') = Len(pcm) + Len(u)
         /\ \A k \in 1 .. Len(pcm') : pcm'[k] = IF k <= Len(pcm) THEN pcm[k] ELSE u[k - Len(pcm)]
    <2>1. u \in Seq(Audio \cup {Silence}) /\ pcm \in Seq(Audio \cup {Silence})
      BY <1>6, <1>8
    <2>2. /\ pcm \o u \in Seq(Audio \cup {Silence}) /\ Len(pcm \o u) = Len(pcm) + Len(u)
          /\ \A k \in 1 .. Len(pcm) + Len(u) :
               (pcm \o u)[k] = IF k <= Len(pcm) THEN pcm[k] ELSE u[k - Len(pcm)]
      BY <2>1, ConcatProperties
    <2> QED BY <1>9, <2>2
  <1>11. Len(block') = 0 /\ DOMAIN block' = {} /\ block' \in Seq(Audio \cup {Silence})
    BY <1>2
  <1>12. PICK p \in BlockStarts : Base = channels * p
    BY <1>3 DEF Progress
  <1>13. /\ p \in Nat /\ p + BlockFrames \in BlockStarts
         /\ pos = channels * (p + BlockFrames) /\ Processed = p + BlockFrames
    <2>1. p \in Nat /\ p + BlockFrames \in BlockStarts
      BY <1>12, StartsApart
    <2>2. pos = channels * p + channels * BlockFrames
      <3>1. pos = Base + channels * BlockFrames
        BY <1>2, <1>6 DEF Base, BlockUnits
      <3> QED BY <1>12, <3>1
    <2>3. CASE channels = 1
      BY <1>6, <2>1, <2>2, <2>3 DEF Processed
    <2>4. CASE channels = 2
      BY <1>6, <2>1, <2>2, <2>4 DEF Processed
    <2> QED BY <1>6, <2>1, <2>3, <2>4
  <1>14. Base' = pos
    BY <1>2, <1>6, <1>11 DEF Base
  <1>15. TypeOK'
    <2>1. Len(block') <= BlockUnits'
      <3>1. channels \in {1, 2} /\ total \in Totals
        BY <1>3 DEF TypeOK
      <3> QED BY <3>1, <1>5, <1>11, Sizes
    <2>2. short' \in BOOLEAN
      BY <1>1
    <2> QED BY <1>2, <1>3, <1>4, <1>5, <1>10, <1>11, <2>1, <2>2 DEF TypeOK
  <1>16. Progress'
    <2>1. claimed = Claimed /\ claimed \in Nat
      <3>1. claimed \in 0 .. Wrap - 1
        BY <1>3 DEF TypeOK
      <3> QED BY <1>2, <1>3, <3>1 DEF Progress
    <2>2. /\ phase' = "decode" => claimed > p + BlockFrames
          /\ phase' = "done" => claimed <= p + BlockFrames
      BY <1>2, <1>6, <1>13, <2>1
    <2>3. Base' = channels' * (p + BlockFrames)
      BY <1>5, <1>13, <1>14
    <2> QED BY <1>2, <1>4, <1>5, <1>11, <1>13, <2>1, <2>2, <2>3 DEF Progress
  <1>17. Contents'
    <2> SUFFICES ASSUME ~short'
                 PROVE  Len(pcm') = Base' /\ \A k \in DOMAIN pcm' : pcm'[k] = Decoded(disk'[k])
      <3>1. Base' # 0
        <4>1. CASE channels = 1
          BY <1>6, <1>13, <1>14, <4>1, SizeAssumption
        <4>2. CASE channels = 2
          BY <1>6, <1>13, <1>14, <4>2, SizeAssumption
        <4> QED BY <1>6, <4>1, <4>2
      <3> QED BY <1>11, <3>1 DEF Contents, Decoded
    <2>1. ~short /\ n = BlockFrames
      <3>1. ~short /\ ~(n < BlockFrames)
        BY Zenon, <1>1
      <3>2. n \in 0 .. BlockFrames
        OBVIOUS
      <3> QED BY <1>6, <3>1, <3>2
    <2>2. Len(u) = Len(block) /\ Base \in Nat /\ Base + Len(block) = pos /\ Len(pcm) = Base
      BY <1>3, <1>6, <1>7, <1>8, <2>1 DEF Base, Contents
    <2>3. Len(pcm') = Base'
      BY <1>10, <1>14, <2>2
    <2>4. ASSUME NEW k \in 1 .. Len(pcm')
          PROVE  pcm'[k] = Decoded(disk[k])
      <3>1. CASE k <= Len(pcm)
        BY <1>3, <1>6, <1>10, <2>1, <3>1 DEF Contents
      <3>2. CASE ~(k <= Len(pcm))
        <4>1. k - Len(pcm) \in 1 .. Len(u) /\ Base + (k - Len(pcm)) = k
          BY <1>6, <1>10, <2>2, <3>2
        <4>2. pcm'[k] = block[k - Len(pcm)]
          BY <1>8, <1>10, <3>2, <4>1
        <4> QED BY <1>3, <1>6, <2>2, <4>1, <4>2 DEF Contents
      <3> QED BY <3>1, <3>2
    <2> QED BY <1>5, <1>10, <2>3, <2>4
  <1> QED BY <1>5, <1>15, <1>16, <1>17 DEF IInv
-----------------------------------------------------------------------------
LEMMA StepIInv == IInv /\ [Next]_vars => IInv'
  <1> SUFFICES ASSUME IInv, [Next]_vars PROVE IInv'
    OBVIOUS
  <1>1. CASE EncodeUnit
    BY <1>1, EncodeUnitStep
  <1>2. CASE EncodeFails \/ EncodeEnds \/ CutShort \/ Damage
    BY <1>2, AtRestStep
  <1>3. CASE Open
    BY <1>3, OpenStep
  <1>4. CASE DecodeUnit
    BY <1>4, DecodeUnitStep
  <1>5. CASE DecodeFails
    BY <1>5, DecodeFailsStep
  <1>6. CASE WriteBlock
    BY <1>6, WriteBlockStep
  <1>7. CASE UNCHANGED vars
    BY <1>7 DEF IInv, TypeOK, Written, UnitsInPlace, Progress, Contents, Base, vars, source,
       encoder, decoder, EncodedFrames, BlockUnits, FileUnits, Claimed, FramesOnDisk, Unit, Decoded
  <1> QED BY <1>1, <1>2, <1>3, <1>4, <1>5, <1>6, <1>7 DEF Next, Encode, Decode

LEMMA Invariance == Spec => []IInv
  <1> QED BY InitIInv, StepIInv, PTL DEF Spec

\* Types, for every block size and input.
THEOREM TypeCorrect == Spec => []TypeOK
  <1>1. IInv => TypeOK
    BY DEF IInv
  <1> QED BY <1>1, Invariance, PTL

\* The dummy of the constructor and the unit that WriteFrame drops cancel out:
\* of any file, whole or cut, unit k is that of channel and frame k.
THEOREM FileInPlace == Spec => []UnitsInPlace
  <1>1. IInv => UnitsInPlace
    BY DEF IInv
  <1> QED BY <1>1, Invariance, PTL

\* The decoder puts each unit into its own place of its own channel, silence
\* where it is malformed.
THEOREM SoundInPlace == Spec => []DecodedInPlace
  <1>1. IInv => DecodedInPlace
    <2> SUFFICES ASSUME IInv, ~short, NEW k \in DOMAIN pcm
                 PROVE  pcm[k] = IF disk[k] \in {Dummy, Malformed} THEN Silence ELSE Unit(k - 1)
      BY DEF DecodedInPlace
    <2>1. /\ pcm \in Seq(Audio \cup {Silence}) /\ disk \in Seq(Audio \cup {Dummy, Malformed})
          /\ block \in Seq(Audio \cup {Silence}) /\ pos \in 0 .. Len(disk)
          /\ Len(pcm) = Base /\ pcm[k] = Decoded(disk[k])
      BY DEF IInv, TypeOK, Contents
    <2>2. k \in DOMAIN disk
      BY <2>1 DEF Base
    <2>3. disk[k] \in {Unit(k - 1), Malformed, Dummy}
      BY <2>2 DEF IInv, UnitsInPlace
    <2> QED BY <2>1, <2>3 DEF Decoded
  <1> QED BY <1>1, Invariance, PTL

\* What the encoder wrote of any input that is not empty decodes to its end,
\* without an error; what it wrote of an empty one to nothing, with an error.
THEOREM OwnFilesWhole == Spec => []OwnFilesDecode
  <1>1. ASSUME IInv, Ended, intact, total > 0
        PROVE  phase = "done" /\ (~short => Len(pcm) = channels * EncodedFrames)
    <2>1. /\ phase \in {"done", "io_error"} /\ TypeOK /\ Written /\ Progress /\ Contents
          /\ channels \in {1, 2} /\ total \in Totals /\ pos \in 0 .. Len(disk) /\ Len(block) \in Nat
      BY <1>1 DEF Ended, IInv, TypeOK
    <2>2. /\ EncodedFrames \in BlockStarts /\ EncodedFrames \in Nat /\ EncodedFrames > 5
          /\ BlockFrames \in Nat /\ BlockFrames > 5
      BY <1>1, <2>1, Sizes
    <2>3. Len(disk) = channels * EncodedFrames
      BY <1>1, <2>1 DEF Written, FileUnits
    <2>4. claimed = EncodedFrames - 5
      <3>1. FramesOnDisk = EncodedFrames
        <4>1. CASE channels = 1
          BY <2>2, <2>3, <4>1 DEF FramesOnDisk
        <4>2. CASE channels = 2
          BY <2>2, <2>3, <4>2 DEF FramesOnDisk
        <4> QED BY <2>1, <4>1, <4>2
      <3> QED BY <2>1, <2>2, <3>1, Length DEF Progress
    <2>5. PICK p \in BlockStarts :
            /\ Base = channels * p
            /\ phase = "io_error" => p = 0 \/ claimed > p
            /\ phase = "done" => claimed <= p
      BY <2>1 DEF Progress
    <2>6. p \in Nat
      BY <2>5, StartsApart
    <2>7. /\ p < EncodedFrames => p + BlockFrames <= EncodedFrames
          /\ EncodedFrames < p => EncodedFrames + BlockFrames <= p
      BY <2>2, <2>5, StartsApart
    <2>8. CASE phase = "io_error"
      <3>1. pos = Len(disk) /\ Len(block) < BlockUnits
        BY <2>1, <2>8 DEF Progress
      <3>2. p < EncodedFrames
        BY <2>2, <2>4, <2>5, <2>6, <2>7, <2>8
      <3>3. channels * p + Len(block) = channels * EncodedFrames
        BY <2>1, <2>2, <2>3, <2>5, <3>1 DEF Base
      <3>4. channels * p + channels * BlockFrames <= channels * EncodedFrames
        <4>1. CASE channels = 1
          BY <2>2, <2>6, <2>7, <3>2, <4>1
        <4>2. CASE channels = 2
          BY <2>2, <2>6, <2>7, <3>2, <4>2
        <4> QED BY <2>1, <4>1, <4>2
      <3>5. FALSE
        <4>1. CASE channels = 1
          BY <2>1, <2>2, <2>6, <3>1, <3>3, <3>4, <4>1 DEF BlockUnits
        <4>2. CASE channels = 2
          BY <2>1, <2>2, <2>6, <3>1, <3>3, <3>4, <4>2 DEF BlockUnits
        <4> QED BY <2>1, <4>1, <4>2
      <3> QED BY <3>5
    <2>9. CASE phase = "done"
      <3>1. Len(block) = 0 /\ Base = pos
        BY <2>1, <2>9 DEF Progress, Base
      <3>2. p <= EncodedFrames
        <4>1. CASE channels = 1
          BY <2>1, <2>2, <2>3, <2>5, <2>6, <3>1, <4>1
        <4>2. CASE channels = 2
          BY <2>1, <2>2, <2>3, <2>5, <2>6, <3>1, <4>2
        <4> QED BY <2>1, <4>1, <4>2
      <3>3. p = EncodedFrames
        BY <2>2, <2>4, <2>5, <2>6, <2>7, <2>9, <3>2
      <3>4. ~short => Len(pcm) = channels * EncodedFrames
        BY <2>1, <2>5, <3>3 DEF Contents
      <3> QED BY <2>9, <3>4
    <2> QED BY <2>1, <2>8, <2>9
  <1>2. ASSUME IInv, Ended, intact, total = 0
        PROVE  phase = "io_error" /\ Len(pcm) = 0
    <2>1. /\ phase \in {"done", "io_error"} /\ TypeOK /\ Written /\ Progress /\ Contents
          /\ channels \in {1, 2} /\ total \in Totals /\ pos \in 0 .. Len(disk) /\ Len(block) \in Nat
      BY <1>2 DEF Ended, IInv, TypeOK
    <2>2. Len(disk) = 1 /\ pos <= 1
      BY <1>2, <2>1 DEF Written, FileUnits
    <2>3. PICK p \in BlockStarts : Base = channels * p /\ (phase = "done" => claimed <= p)
      BY <2>1 DEF Progress
    <2>4. p \in Nat /\ (0 < p => BlockFrames <= p) /\ BlockFrames \in Nat /\ BlockFrames > 5
      BY <2>3, StartsApart, SizeAssumption
    <2>5. p = 0
      <3>1. channels * p <= 1
        BY <2>1, <2>2, <2>3 DEF Base
      <3>2. channels * p >= p
        BY <2>1, <2>4, PerChannel
      <3> QED BY <2>1, <2>4, <3>1, <3>2, PerChannel
    <2>6. Len(pcm) = 0
      <3>1. Base = 0
        BY <2>1, <2>3, <2>5
      <3> QED BY <2>1, <3>1 DEF Contents
    <2>7. claimed > 0 /\ claimed \in Int
      <3>1. Wrap \in Nat /\ Wrap > 6
        BY <2>1, Sizes
      <3>2. FramesOnDisk \in {0, 1}
        BY <2>1, <2>2 DEF FramesOnDisk
      <3>3. (0 - 5) % Wrap = Wrap - 5 /\ (1 - 5) % Wrap = Wrap - 4
        <4>1. (0 - 5) % Wrap = Wrap - 5
          BY <3>1
        <4>2. (1 - 5) % Wrap = Wrap - 4
          BY <3>1
        <4> QED BY <4>1, <4>2
      <3>4. Claimed \in {Wrap - 5, Wrap - 4}
        BY <3>2, <3>3 DEF Claimed
      <3>5. claimed = Claimed
        BY <2>1 DEF Progress
      <3> QED BY <3>1, <3>4, <3>5
    <2> QED BY <2>1, <2>3, <2>5, <2>6, <2>7
  <1>3. IInv => OwnFilesDecode
    <2> SUFFICES ASSUME IInv, Ended, intact
                 PROVE  \/ total > 0 /\ phase = "done" /\ (~short => Len(pcm) = channels * EncodedFrames)
                        \/ total = 0 /\ phase = "io_error" /\ Len(pcm) = 0
      BY DEF OwnFilesDecode
    <2>1. total \in Nat
      BY SizeAssumption DEF IInv, TypeOK
    <2> QED BY <2>1, <1>1, <1>2
  <1> QED BY <1>3, Invariance, PTL

\* However long a file is, and whatever its announced length wraps to, less
\* than a block of its whole frames is left undecoded.
THEOREM LossBounded == Spec => []AtMostABlockLost
  <1>1. IInv => AtMostABlockLost
    <2> SUFFICES ASSUME IInv, Ended, ~short
                 PROVE  FramesOnDisk - Len(pcm) \div channels < BlockFrames
      BY DEF AtMostABlockLost
    <2>1. /\ phase \in {"done", "io_error"} /\ TypeOK /\ Written /\ Progress /\ Contents
          /\ channels \in {1, 2} /\ pos \in 0 .. Len(disk) /\ Len(block) \in Nat
          /\ Len(disk) \in Nat
      BY DEF Ended, IInv, TypeOK
    <2>2. /\ FramesOnDisk \in Nat /\ channels * FramesOnDisk <= Len(disk)
          /\ FramesOnDisk >= 5 => Claimed = FramesOnDisk - 5
          /\ BlockFrames \in Nat /\ BlockFrames > 5
      BY <2>1, Length, SizeAssumption
    <2>3. PICK p \in BlockStarts : Base = channels * p /\ (phase = "done" => claimed <= p)
      BY <2>1 DEF Progress
    <2>4. p \in Nat /\ claimed = Claimed
      BY <2>1, <2>3, StartsApart DEF Progress
    <2>5. Len(pcm) \div channels = p
      <3>1. Len(pcm) = channels * p
        BY <2>1, <2>3 DEF Contents
      <3>2. CASE channels = 1
        BY <2>4, <3>1, <3>2
      <3>3. CASE channels = 2
        BY <2>4, <3>1, <3>3
      <3> QED BY <2>1, <3>2, <3>3
    <2>6. CASE phase = "done"
      BY <2>2, <2>3, <2>4, <2>5, <2>6
    <2>7. CASE phase = "io_error"
      <3>1. pos = Len(disk) /\ Len(block) < BlockUnits
        BY <2>1, <2>7 DEF Progress
      <3>2. channels * FramesOnDisk < channels * p + channels * BlockFrames
        <4>1. CASE channels = 1
          BY <2>1, <2>2, <2>3, <2>4, <3>1, <4>1 DEF Base, BlockUnits
        <4>2. CASE channels = 2
          BY <2>1, <2>2, <2>3, <2>4, <3>1, <4>2 DEF Base, BlockUnits
        <4> QED BY <2>1, <4>1, <4>2
      <3>3. CASE channels = 1
        BY <2>2, <2>4, <2>5, <3>2, <3>3
      <3>4. CASE channels = 2
        BY <2>2, <2>4, <2>5, <3>2, <3>4
      <3> QED BY <2>1, <3>3, <3>4
    <2> QED BY <2>1, <2>6, <2>7
  <1> QED BY <1>1, Invariance, PTL
=============================================================================
