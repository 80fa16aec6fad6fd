------------------------------ MODULE MCAt3pGha ------------------------------
(***************************************************************************)
(* At3pGha with two bands to a channel, in mono and stereo, at most three  *)
(* tones to a band and a budget that two busy bands can use up; and        *)
(* CreateFreqBitPack on the tones of its unit test.                        *)
(***************************************************************************)
EXTENDS At3pGha

Bands2(low, high) == (0 :> low @@ 1 :> high)
Wrapping == <<Bands2({0, 350, 700, 1024}, {5, 300, 600})>>
Alike    == <<Bands2({5, 600}, {}), Bands2({5, 600, 1000}, {})>>
Right    == <<Bands2({5}, {}), Bands2({5, 600}, {700})>>
Short    == <<Bands2({}, {600, 1000})>>
Single   == <<Bands2({5}, {}), Bands2({}, {5})>>
MCInputs == {<<Wrapping>>, <<Alike>>, <<Right>>, <<Short, Short>>, <<Single, Single>>}

MCWindows == {<<0, 128>>, <<32, 96>>}
MCStrategies == {"legacy", "subband", "raw"}

Packed(freqs, bits, desc) ==
  LET pack == CreateFreqBitPack(freqs)
  IN UsedBits(pack.Data) = bits /\ pack.Desc = desc /\ ReadFreqs(pack) = freqs
ASSUME PackTests ==
  /\ Packed(<<512, 1020, 1023>>, 21, FALSE)
  /\ Packed(<<1, 2, 3>>, 14, TRUE)
  /\ Packed(<<1, 2, 3, 1020, 1021, 1022>>, 44, TRUE)
  /\ Packed(<<1, 2, 1020, 1021, 1022>>, 34, FALSE)
=============================================================================
