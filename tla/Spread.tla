------------------------------- MODULE Spread -------------------------------
(***************************************************************************)
(* models/fixed_page_spread.js: which items of a fixed-layout book are     *)
(* shown together.  A spread gives each side an item or none; synthetic    *)
(* tells whether two pages may be shown side by side.                      *)
(***************************************************************************)
EXTENDS Spine

Sides   == PageSpreads
Spreads == [Sides -> Items \cup {NoItem}]

resetItems == [s \in Sides |-> NoItem]

setItem(spread, item, synthetic) ==
    [spread EXCEPT ![IF synthetic THEN PageSpread[item] ELSE "center"] = item]

(* The item on the facing side, before asking whether it wants to be there. *)
FacingItem(item) == IF isLeftPage(item) <=> isRightToLeft THEN prevItem(item) ELSE nextItem(item)

getNeighbourItem_AnySide(item, synthetic) ==
    IF ~synthetic \/ isCenterPage(item) \/ FacingItem(item) = NoItem THEN NoItem
    ELSE IF isCenterPage(FacingItem(item)) THEN NoItem ELSE FacingItem(item)

getNeighbourItem_CentreToo(item, synthetic) ==
    LET facing == FacingItem(item) IN
    IF ~synthetic \/ isCenterPage(item) \/ facing = NoItem THEN NoItem
    ELSE IF PageSpread[facing] = PageSpread[item] THEN NoItem ELSE facing

getNeighbourItem(item, synthetic) ==
    LET facing == FacingItem(item) IN
    IF ~synthetic \/ isCenterPage(item) \/ facing = NoItem THEN NoItem
    ELSE IF isCenterPage(facing) \/ PageSpread[facing] = PageSpread[item] THEN NoItem
    ELSE facing

openItem(item, synthetic) ==
    LET neighbour == getNeighbourItem(item, synthetic)
        alone     == setItem(resetItems, item, synthetic)
    IN  IF neighbour = NoItem THEN alone ELSE setItem(alone, neighbour, synthetic)

(* The items of a spread; validItems sorts them by index.                   *)
validItems_Unchecked(spread) == {spread[s] : s \in Sides}

validItems(spread) == {spread[s] : s \in Sides} \ {NoItem}

firstOf(spread) == CHOOSE i \in validItems(spread) : \A j \in validItems(spread) : i <= j
lastOf(spread)  == CHOOSE i \in validItems(spread) : \A j \in validItems(spread) : j <= i

openNext(spread, synthetic) ==
    IF validItems(spread) = {} THEN openItem(first, synthetic)
    ELSE LET next == nextItem(lastOf(spread))
         IN  IF next = NoItem THEN spread ELSE openItem(next, synthetic)

openPrev(spread, synthetic) ==
    IF validItems(spread) = {} THEN openItem(last, synthetic)
    ELSE LET prev == prevItem(firstOf(spread))
         IN  IF prev = NoItem THEN spread ELSE openItem(prev, synthetic)
=============================================================================
