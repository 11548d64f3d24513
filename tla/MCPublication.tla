------------------------------ MODULE MCPublication ------------------------------
(* Two runs of one date, two tables, two outputs that may be published and one *)
(* that may not, made of the same contents.                                    *)
EXTENDS MatcherPublication

CONSTANTS x, y, c, d

TwoSound == {[a \in {x, y} |-> c], [a \in {x, y} |-> d]}
Mixed == [a \in {x, y} |-> IF a = x THEN c ELSE d]
ThreeOutputs == TwoSound \union {Mixed}
==================================================================================
