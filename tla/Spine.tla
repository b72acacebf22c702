------------------------------- MODULE Spine -------------------------------
(***************************************************************************)
(* The spine of an opened package (models/spine.js, models/spine_item.js): *)
(* its items in reading order, each known by its index, the page each item *)
(* asks for in a two-page spread, and the page progression direction.      *)
(***************************************************************************)
EXTENDS Integers

CONSTANTS
    NItems,         \* number of spine items
    Direction,      \* "ltr" or "rtl"; spine.js turns a missing one into "ltr"
    PageSpread      \* the page-spread property of each item

NoItem == -1        \* JavaScript's undefined where an item is expected
Items  == 0 .. NItems - 1

PageSpreads == {"left", "right", "center"}

ASSUME SpineAssumption ==
    /\ NItems \in Nat \ {0}
    /\ Direction \in {"ltr", "rtl"}
    /\ PageSpread \in [Items -> PageSpreads]

isRightToLeft == Direction = "rtl"

isValidIndex(i) == i \in Items

nextItem_Unchecked(i) == i + 1

prevItem(i) == IF isValidIndex(i - 1) THEN i - 1 ELSE NoItem
nextItem(i) == IF isValidIndex(i + 1) THEN i + 1 ELSE NoItem

first == 0
last  == NItems - 1

isLeftPage(i)   == PageSpread[i] = "left"
isRightPage(i)  == PageSpread[i] = "right"
isCenterPage(i) == ~isLeftPage(i) /\ ~isRightPage(i)
=============================================================================
