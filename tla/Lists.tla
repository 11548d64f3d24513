---------------------------------- MODULE Lists ----------------------------------
(* Folding and sorting as the models of the algorithms use them: each element is *)
(* evaluated once, and nothing is enumerated but the elements.                   *)
EXTENDS Integers, Sequences, FiniteSets

\* FoldLeft, with the accumulator evaluated once per element.
Fold(op(_, _), base, seq) ==
  LET after[i \in 0 .. Len(seq)] ==
        IF i = 0 THEN base ELSE CHOOSE r \in {op(s, seq[i]) : s \in {after[i - 1]}} : TRUE
  IN  after[Len(seq)]

\* The elements of S in the strict order Less.
Sorted(S, Less(_, _)) ==
  LET T == {x : x \in S}
      first[n \in 0 .. Cardinality(T)] ==
        IF n = 0 THEN <<>> ELSE Append(first[n - 1], CHOOSE x \in T : Cardinality({y \in T : Less(y, x)}) = n - 1)
  IN  first[Cardinality(T)]

Least(a, b) == IF a < b THEN a ELSE b
Greatest(a, b) == IF a > b THEN a ELSE b

==================================================================================
