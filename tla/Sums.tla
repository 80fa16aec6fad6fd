-------------------------------- MODULE Sums --------------------------------
(***************************************************************************)
(* Sums of numbers, as the loops of the code form them: one term after the *)
(* other, from index 0; and powers of two, as shifts form them.            *)
(***************************************************************************)
EXTENDS Integers

\* f[0] + ... + f[n - 1]
SumTo(f, n) ==
  LET s[k \in Nat] == IF k = 0 THEN 0 ELSE s[k - 1] + f[k - 1]
  IN s[n]

Pow2 == [e \in 0 .. 14 |->
           <<1, 2, 4, 8, 16, 32, 64, 128, 256, 512, 1024, 2048, 4096, 8192, 16384>>[e + 1]]
=============================================================================
