--------------------------- MODULE MCAt3BitStream ---------------------------
(***************************************************************************)
(* At3BitStream with the tables of the code, on channels whose scale       *)
(* factors are flat but for the first ten BFUs: a silent one, one with all *)
(* the gain points there can be, one with tonal runs that meet at borders  *)
(* and leave silence behind, a soft one that is heavy in a few BFUs, a     *)
(* loud one.                                                               *)
(***************************************************************************)
EXTENDS At3BitStream, At3Tables

MCBlockSizeTab == BlockStart
MCFixedBitAllocTable == FixedBitAlloc
MCScaleFactorDivisor == Divisor
MCClcLengthTab == ClcLength
MCContainerParams ==
  {p \in Containers : p.FrameSz \in {192, 272, 304, 512}}

Channel(low, high, quiet, loudness, points, tones) ==
  [gain |-> [b \in 1 .. 4 |-> points], Loudness |-> loudness,
   ScaleFactorIndex |-> [i \in 0 .. 31 |-> IF i < 10 THEN low ELSE high],
   offset |-> [b \in 0 .. 3 |-> IF points > 0 THEN 2 ELSE 0],
   quiet |-> quiet,
   poor |-> {<<i, w>> \in (0 .. 9) \X (1 .. 7) : low = 63 /\ (i + w) % 4 \in {1, 2}},
   vlc |-> IF low > high THEN <<4, 2, 3, 3, 4, 5, 6>> ELSE <<3, 4, 4, 4, 5, 6, 7>>,
   tones |-> tones]

Run(first, len) == [first |-> first, len |-> len]
Tones == (8 :> Run(75, 5) @@ 9 :> Run(80, 5) @@ 10 :> Run(98, 1)
            @@ 11 :> Run(123, 5) @@ 12 :> Run(128, 2) @@ 25 :> Run(500, 5))

MCChannels ==
  [silence |-> Channel(0, 0, 0 .. 31, 0, 0, << >>),
   points  |-> Channel(40, 30, 26 .. 31, 100, 7, << >>),
   tonal   |-> Channel(45, 33, {8, 9, 30, 31}, 30, 0, Tones),
   narrow  |-> Channel(63, 0, {}, 10, 0, 28 :> Run(700, 3)),
   loud    |-> Channel(63, 40, {}, 90, 2, << >>)]

MCInputs ==
  {<<"tonal">>, <<"narrow", "loud">>, <<"silence">>, <<"loud", "narrow">>, <<"silence", "points">>, <<"points", "tonal">>}
=============================================================================
