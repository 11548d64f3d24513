------------------------------- MODULE MCServing -------------------------------
(* ServingStore on small instances.                                           *)
EXTENDS ServingStore, TLC

CONSTANTS d1, d2, e1, e2, e3

\* A correction (version 2) keeps the row count, a rebuild (version 3) does not.
SomeRows == [v \in 0 .. MaxVersion |-> IF v = 0 THEN 0 ELSE IF v < 3 THEN 1 ELSE 2]
TwoDates == {d1, d2}
TwoIds == {e1, e2}
ThreeIds == {e1, e2, e3}
Symmetric == Permutations(TwoDates) \union Permutations(ThreeIds)
================================================================================
