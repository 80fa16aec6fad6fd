------------------------------ MODULE MCAeaFile ------------------------------
(***************************************************************************)
(* AeaFile with the eight frames of 512 samples that a block of 4096 has,  *)
(* on inputs of none, one and two blocks. Cut anywhere, the files have all *)
(* numbers of frames up to 16, those below the five that the length leaves *)
(* out included, with and without half a frame at the end.                 *)
(***************************************************************************)
EXTENDS AeaFile

MCTotals == {0, 3, 9}
=============================================================================
