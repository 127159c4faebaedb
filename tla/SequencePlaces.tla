--------------------------- MODULE SequencePlaces ---------------------------
(***************************************************************************)
(* Elements of a sequence picked by their places, and sorted sequences.    *)
(* Pure: no variables.                                                     *)
(***************************************************************************)
EXTENDS Naturals, Sequences, FiniteSets

Least(S) == CHOOSE i \in S : \A j \in S : i <= j

\* The elements of a sequence at the places S, in their order.
Place(S, k) == CHOOSE i \in S : Cardinality({j \in S : j <= i}) = k
Only(seq, S) == [k \in 1..Cardinality(S) |-> seq[Place(S, k)]]

\* The members of S in their order: <<x, y>> is in ahead if x is ahead of y.
Arranged(S, ahead) ==
  [n \in 1..Cardinality(S) |-> CHOOSE x \in S : Cardinality({y \in S : <<y, x>> \in ahead}) = n - 1]

\* A stable sort of a sequence, each element by its key.
ByKey(S, keys) ==
  {p \in S \X S : keys[p[1]] < keys[p[2]] \/ (keys[p[1]] = keys[p[2]] /\ p[1] < p[2])}
Sorted(seq, keys) ==
  LET order == Arranged(DOMAIN seq, ByKey(DOMAIN seq, keys))
  IN  [n \in DOMAIN seq |-> seq[order[n]]]
=============================================================================
