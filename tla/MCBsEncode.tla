----------------------------- MODULE MCBsEncode -----------------------------
(***************************************************************************)
(* BsEncode on four parts: the configuring one, one before the allocator,  *)
(* the allocator and one behind it. Only how a cost compares with the      *)
(* budget matters, so costs are 0, 1 and 2 around a budget of 1; every     *)
(* cost curve over the five lambdas is tried, growing ones included.      *)
(***************************************************************************)
EXTENDS BsEncode

MCCosts == [Lambdas -> 0 .. 2]
MCTargets == {1}
=============================================================================
