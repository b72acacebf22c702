------------------------------- MODULE MCFixed -------------------------------
(***************************************************************************)
(* Two books: a cover on the right followed by pairs, and, to be read from *)
(* right to left, one with a pair among pages that do not pair up: two on  *)
(* the left in a row, one in the centre and one beside it.                 *)
(***************************************************************************)
EXTENDS FixedProperties

Cover == [i \in Items |-> IF i % 2 = 0 THEN "right" ELSE "left"]
Sizes == [i \in Items |-> IF i < 4 THEN 1 ELSE IF i = 5 THEN 0 ELSE 2]
Mixed == [i \in Items |-> IF i = 2 THEN "right" ELSE IF i = 4 THEN "center" ELSE "left"]
=============================================================================
