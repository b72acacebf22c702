------------------------------- MODULE MCBook -------------------------------
(***************************************************************************)
(* The book of the runs: no item asks for a side of the spread, and a      *)
(* wider viewport holds an item in fewer columns.                          *)
(***************************************************************************)
EXTENDS ReflowableView

MCPageSpread == [i \in Items |-> "center"]
MCColumnsOf  == [c \in Items \X {1, 2} \X Sizes |->
                    IF c[1] = 0 THEN MaxColumns + 1 - c[3] ELSE IF c[3] = 1 THEN 2 ELSE 1]
=============================================================================
