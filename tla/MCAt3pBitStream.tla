---------------------------- MODULE MCAt3pBitStream ----------------------------
(***************************************************************************)
(* At3pBitStream with the real frame size, and the eight subbands of sound *)
(* that can hold tones: none, one, and the most there can be; spectra from *)
(* nearly silent to as costly as they can be, and, without tones, filling  *)
(* a frame to the last bit and exceeding it by one.                        *)
(***************************************************************************)
EXTENDS At3pBitStream, TLC

MCTonals == <<[one |-> [bands |-> 3, bits |-> 51], most |-> [bands |-> 8, bits |-> 1072]],
              [one |-> [bands |-> 3, bits |-> 76], most |-> [bands |-> 8, bits |-> 1201]]>>

\* They are tones that DoAnalize lays out: one, alike in both channels, and 48.
Whole(tones) == [tones |-> tones, env |-> [b \in Bands |-> <<0, EmptyPoint>>]]
One   == [b \in Bands |-> IF b = 2 THEN {300} ELSE {}]
Three == [b \in Bands |-> {100 + b, 400, 700 + b}]
Others == [b \in Bands |-> {5, 300 + b, 1000}]
Six   == [b \in Bands |-> {5, 100 + b, 300 + b, 400, 700 + b, 1000}]
LaidOut(block, data) ==
  LET res == FillResultBuf(data, <<<< >>, << >>>>)
  IN block = [bands |-> res.NumToneBands, bits |-> WriteTonalBlockBits(WriteTonalBlock(res))]
ASSUME Real ==
  /\ LaidOut(MCTonals[1].one, <<Whole(One)>>) /\ LaidOut(MCTonals[1].most, <<Whole(Six)>>)
  /\ LaidOut(MCTonals[2].one, <<Whole(One), Whole(One)>>)
  /\ LaidOut(MCTonals[2].most, <<Whole(Three), Whole(Others)>>)

Cost(perLine) == [qu \in QuantUnits |-> perLine * SpecsPerBlock(qu)]
UnitBits(c, spectra) ==
  ConfigureBits + WordLenBits(c, 32) + SfIdxBits(c, 32) + QuantUnitBits(c, 32, spectra)
    + TonalBits(c, 0)
\* Seven bits to a line, or twelve; the last unit takes up what is left, and extra.
Full == [Cost(7) EXCEPT ![29] = 12 * 128, ![30] = 12 * 128, ![31] = 0]
Exactly(c, extra) == [Full EXCEPT ![31] = SizeBits - UnitBits(c, Full) + extra]
MCSpectra == [c \in {1, 2} |-> {Cost(1), Cost(14 * c), Exactly(c, 0), Exactly(c, 1)}]

Default  == {"pass_input", "write_tonal", "write_residual"}
MCUseGha == {Default, Default \ {"write_tonal"}, Default \ {"pass_input"}, {"pass_input", "write_tonal"}}

ASSUME Wordlen == WordLenBits(2, 6) = 28
=============================================================================
