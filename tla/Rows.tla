--------------------------------- MODULE Rows ---------------------------------
(***************************************************************************)
(* What loops over containers leave: the members of a set of numbers one   *)
(* after the other, as an ordered map yields them, and a vector that each  *)
(* turn appends a row to.                                                  *)
(***************************************************************************)
EXTENDS Sums, FiniteSets, Sequences

\* The k-th of a set of numbers, and all of them in order.
Nth(locs, k) == CHOOSE loc \in locs : Cardinality({a \in locs : a <= loc}) = k
Ascending(locs) == [k \in 1 .. Cardinality(locs) |-> Nth(locs, k)]

\* rows[0] \o ... \o rows[n - 1]
RowLengths(rows, n) == [k \in 0 .. n - 1 |-> Len(rows[k])]
Joined(rows, n) ==
  LET end(k) == SumTo(RowLengths(rows, n), k)
      row(i) == CHOOSE k \in 0 .. n - 1 : end(k) < i /\ i <= end(k + 1)
  IN [i \in 1 .. end(n) |-> rows[row(i)][i - end(row(i))]]
=============================================================================
