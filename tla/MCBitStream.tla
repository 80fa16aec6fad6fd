----------------------------- MODULE MCBitStream -----------------------------
(***************************************************************************)
(* BitStream with the widths at which Write behaves differently: inside a  *)
(* byte, a byte, across bytes, and the widest allowed; and words that are  *)
(* sign-extended negatives as well as small positives.                     *)
(***************************************************************************)
EXTENDS BitStream

MCWidths == {1, 5, 8, 14, 23}
MCWords  == {{0}, 0 .. 31, 1 .. 31}
=============================================================================
