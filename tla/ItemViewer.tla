----------------------------- MODULE ItemViewer -----------------------------
(***************************************************************************)
(* What a view that loads one spine item at a time promises its caller:    *)
(* the caller may change its mind at any moment, and the only item ever    *)
(* presented is the one wanted at that moment.                             *)
(***************************************************************************)
CONSTANTS Items, NoItem

VARIABLES wanted,   \* the item last asked for
          shown     \* the item presented, NoItem while there is none

vars == <<wanted, shown>>

Init == wanted = NoItem /\ shown = NoItem

Ask     == wanted' \in Items /\ shown' = shown
Close   == wanted' = NoItem /\ shown' = NoItem
Open    == wanted' \in Items /\ shown' = NoItem
Blank   == shown' = NoItem /\ wanted' = wanted
Present == /\ wanted # NoItem /\ shown # wanted
           /\ shown' = wanted /\ wanted' = wanted

Next == Ask \/ Close \/ Open \/ Blank \/ Present

SafeSpec == Init /\ [][Next]_vars

(* Left alone, the viewer presents what is wanted.                          *)
Spec == SafeSpec /\ WF_vars(Present)
=============================================================================
