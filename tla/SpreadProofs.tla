---------------------------- MODULE SpreadProofs ----------------------------
(***************************************************************************)
(* Facts about the spreads of any fixed-layout book: pages pair up one to  *)
(* one, an item is in one spread only, and turning a page and back returns *)
(* to the same spread.                                                     *)
(***************************************************************************)
EXTENDS Spread, TLAPS

LEMMA ItemsAreInts == \A i \in Items : i \in Int /\ i # NoItem /\ 0 <= i /\ i < NItems
BY SpineAssumption DEF Items, NoItem

(* The items before and after an item.                                      *)
LEMMA PrevNext ==
    ASSUME NEW i \in Items
    PROVE  /\ prevItem(i) \in Items \cup {NoItem}
           /\ nextItem(i) \in Items \cup {NoItem}
           /\ prevItem(i) # NoItem => prevItem(i) = i - 1 /\ nextItem(prevItem(i)) = i
           /\ nextItem(i) # NoItem => nextItem(i) = i + 1 /\ prevItem(nextItem(i)) = i
BY SpineAssumption DEF Items, NoItem, prevItem, nextItem, isValidIndex

LEMMA PageSpreadType == \A i \in Items : PageSpread[i] \in {"left", "right", "center"}
BY SpineAssumption DEF PageSpreads

(* Pages pair up one to one: getNeighbourItem is an involution, and the two *)
(* pages of a pair are adjacent and take different sides.                   *)
LEMMA NeighbourSymmetric ==
    ASSUME NEW i \in Items, NEW synthetic \in BOOLEAN,
           getNeighbourItem(i, synthetic) # NoItem
    PROVE  LET n == getNeighbourItem(i, synthetic) IN
           /\ synthetic
           /\ n \in Items
           /\ n = i - 1 \/ n = i + 1
           /\ getNeighbourItem(n, synthetic) = i
           /\ \/ PageSpread[i] = "left" /\ PageSpread[n] = "right"
              \/ PageSpread[i] = "right" /\ PageSpread[n] = "left"
<1> DEFINE n == getNeighbourItem(i, synthetic)
<1>1. /\ synthetic
      /\ ~isCenterPage(i)
      /\ n = FacingItem(i)
      /\ n # NoItem
      /\ ~isCenterPage(n)
      /\ PageSpread[n] # PageSpread[i]
  BY DEF getNeighbourItem
<1>2. n \in Items /\ (n = prevItem(i) \/ n = nextItem(i))
  BY <1>1, PrevNext DEF FacingItem
<1>3. n = i - 1 \/ n = i + 1
  BY <1>1, <1>2, PrevNext
<1>4. \/ PageSpread[i] = "left" /\ PageSpread[n] = "right"
      \/ PageSpread[i] = "right" /\ PageSpread[n] = "left"
  BY <1>1, <1>2, PageSpreadType DEF isCenterPage, isLeftPage, isRightPage
<1>5. FacingItem(n) = i
  <2>1. CASE n = prevItem(i)
    <3>1. nextItem(n) = i  BY <1>1, <2>1, PrevNext
    <3>2. isLeftPage(i) <=> isRightToLeft
      <4>1. CASE prevItem(i) = nextItem(i)
        BY <4>1, <2>1, <1>1, <1>2, PrevNext, ItemsAreInts
      <4>2. CASE prevItem(i) # nextItem(i)
        BY <4>2, <2>1, <1>1 DEF FacingItem
      <4> QED  BY <4>1, <4>2
    <3>3. ~(isLeftPage(n) <=> isRightToLeft)
      BY <3>2, <1>4 DEF isLeftPage
    <3> QED  BY <3>1, <3>3 DEF FacingItem
  <2>2. CASE n = nextItem(i)
    <3>1. prevItem(n) = i  BY <1>1, <2>2, PrevNext
    <3>2. ~(isLeftPage(i) <=> isRightToLeft)
      <4>1. CASE prevItem(i) = nextItem(i)
        BY <4>1, <2>2, <1>1, <1>2, PrevNext, ItemsAreInts
      <4>2. CASE prevItem(i) # nextItem(i)
        BY <4>2, <2>2, <1>1 DEF FacingItem
      <4> QED  BY <4>1, <4>2
    <3>3. isLeftPage(n) <=> isRightToLeft
      BY <3>2, <1>4 DEF isLeftPage
    <3> QED  BY <3>1, <3>3 DEF FacingItem
  <2> QED  BY <1>2, <2>1, <2>2
<1>6. i # NoItem  BY ItemsAreInts
<1>7. getNeighbourItem(n, synthetic) = i
  BY <1>1, <1>4, <1>5, <1>6 DEF getNeighbourItem, isCenterPage, isLeftPage, isRightPage
<1> QED  BY <1>1, <1>2, <1>3, <1>4, <1>7

(* A spread holds the item opened and its neighbour, if any, each on its    *)
(* own side.                                                                *)
LEMMA OpenItem ==
    ASSUME NEW i \in Items, NEW synthetic \in BOOLEAN
    PROVE  LET n == getNeighbourItem(i, synthetic) IN
           /\ openItem(i, synthetic) \in Spreads
           /\ n = NoItem => validItems(openItem(i, synthetic)) = {i}
           /\ n # NoItem => validItems(openItem(i, synthetic)) = {i, n}
<1> DEFINE n == getNeighbourItem(i, synthetic)
           side(j) == IF synthetic THEN PageSpread[j] ELSE "center"
           alone == [s \in Sides |-> IF s = side(i) THEN i ELSE NoItem]
<1>1. Sides = {"left", "right", "center"}  BY DEF Sides, PageSpreads
<1>2. side(i) \in Sides /\ i # NoItem  BY <1>1, PageSpreadType, ItemsAreInts
<1>3. setItem(resetItems, i, synthetic) = alone
  BY <1>2 DEF setItem, resetItems
<1>4. CASE n = NoItem
  <2>1. openItem(i, synthetic) = alone  BY <1>3, <1>4 DEF openItem
  <2>2. validItems(alone) = {i}  BY <1>2 DEF validItems
  <2>3. alone \in Spreads  BY DEF Spreads
  <2> QED  BY <1>4, <2>1, <2>2, <2>3
<1>5. CASE n # NoItem
  <2>1. /\ n \in Items /\ n # NoItem /\ synthetic
        /\ side(n) \in Sides /\ side(n) # side(i)
    BY <1>1, <1>5, NeighbourSymmetric
  <2> DEFINE both == [s \in Sides |-> IF s = side(n) THEN n ELSE IF s = side(i) THEN i ELSE NoItem]
  <2>2. openItem(i, synthetic) = both
    <3>1. openItem(i, synthetic) = setItem(alone, n, synthetic)
      BY <1>3, <1>5 DEF openItem
    <3> QED  BY <3>1, <2>1 DEF setItem
  <2>3. validItems(both) = {i, n}
    <3>1. \A s \in Sides : both[s] \in {i, n, NoItem}  OBVIOUS
    <3>2. both[side(i)] = i /\ both[side(n)] = n  BY <1>2, <2>1
    <3>3. validItems(both) = {both[s] : s \in Sides} \ {NoItem}  BY DEF validItems
    <3> HIDE DEF both, side, n
    <3> QED  BY <3>1, <3>2, <3>3, <1>2, <2>1
  <2>4. both \in Spreads  BY <2>1 DEF Spreads
  <2> QED  BY <1>5, <2>2, <2>3, <2>4
<1> QED  BY <1>4, <1>5

(* An item shown is on the side it asks for, or alone in the centre.        *)
LEMMA OpenItemSides ==
    ASSUME NEW i \in Items, NEW synthetic \in BOOLEAN, NEW s \in Sides,
           openItem(i, synthetic)[s] # NoItem
    PROVE  s = IF synthetic THEN PageSpread[openItem(i, synthetic)[s]] ELSE "center"
<1> DEFINE n == getNeighbourItem(i, synthetic)
           side(j) == IF synthetic THEN PageSpread[j] ELSE "center"
<1>1. side(i) \in Sides  BY PageSpreadType DEF Sides, PageSpreads
<1>2. CASE n = NoItem
  BY <1>1, <1>2 DEF openItem, setItem, resetItems
<1>3. CASE n # NoItem
  <2>1. n \in Items /\ side(n) \in Sides
    BY <1>3, NeighbourSymmetric, PageSpreadType DEF Sides, PageSpreads
  <2> QED  BY <1>1, <1>3, <2>1 DEF openItem, setItem, resetItems
<1> QED  BY <1>2, <1>3

(* An item is in one spread only: opening any item of a spread opens it.    *)
THEOREM SpreadsPartition ==
    ASSUME NEW i \in Items, NEW synthetic \in BOOLEAN,
           NEW j \in validItems(openItem(i, synthetic))
    PROVE  j \in Items /\ openItem(j, synthetic) = openItem(i, synthetic)
<1> DEFINE n == getNeighbourItem(i, synthetic)
<1>1. CASE j = i  BY <1>1
<1>2. CASE j # i
  <2>1. j = n /\ n # NoItem  BY <1>2, OpenItem
  <2>2. /\ n \in Items /\ getNeighbourItem(n, synthetic) = i /\ synthetic /\ i # NoItem
        /\ PageSpread[i] # PageSpread[n]
        /\ PageSpread[i] \in Sides /\ PageSpread[n] \in Sides
    BY <2>1, NeighbourSymmetric, ItemsAreInts, PageSpreadType DEF Sides, PageSpreads
  <2>3. setItem(setItem(resetItems, n, synthetic), i, synthetic)
          = setItem(setItem(resetItems, i, synthetic), n, synthetic)
    BY <2>2 DEF setItem, resetItems
  <2>4. openItem(i, synthetic) = setItem(setItem(resetItems, i, synthetic), n, synthetic)
    BY <2>1 DEF openItem
  <2>5. openItem(n, synthetic) = setItem(setItem(resetItems, n, synthetic), i, synthetic)
    BY <2>2 DEF openItem
  <2> QED  BY <2>1, <2>2, <2>3, <2>4, <2>5
<1> QED  BY <1>1, <1>2

(* Two spreads are the same or have no side and item in common, even if the *)
(* one is of two pages and the other of one.                                *)
LEMMA SameOrDisjoint ==
    ASSUME NEW i \in Items, NEW a \in BOOLEAN, NEW j \in Items, NEW b \in BOOLEAN,
           NEW s \in Sides,
           openItem(i, a)[s] = openItem(j, b)[s], openItem(i, a)[s] # NoItem
    PROVE  openItem(i, a) = openItem(j, b)
<1> DEFINE x == openItem(i, a)[s]
<1>1. x \in validItems(openItem(i, a)) /\ x \in validItems(openItem(j, b))
  BY DEF validItems
<1>2. x \in Items /\ openItem(x, a) = openItem(i, a) /\ openItem(x, b) = openItem(j, b)
  BY <1>1, SpreadsPartition
<1>3. ASSUME a # b PROVE PageSpread[x] = "center"
  BY <1>2, <1>3, OpenItemSides
<1>4. ASSUME PageSpread[x] = "center" PROVE openItem(x, a) = openItem(x, b)
  BY <1>4 DEF openItem, getNeighbourItem, setItem, isCenterPage, isLeftPage, isRightPage
<1> QED  BY <1>2, <1>3, <1>4

(* The first and the last item of a spread.                                 *)
LEMMA FirstLast ==
    ASSUME NEW i \in Items, NEW synthetic \in BOOLEAN
    PROVE  LET shown == openItem(i, synthetic) IN
           /\ firstOf(shown) \in validItems(shown) /\ lastOf(shown) \in validItems(shown)
           /\ \A j \in validItems(shown) : firstOf(shown) <= j /\ j <= lastOf(shown)
<1> DEFINE n == getNeighbourItem(i, synthetic)
           shown == openItem(i, synthetic)
<1>a. n = NoItem \/ (n \in Items /\ (n <= i \/ i <= n))
  BY NeighbourSymmetric, ItemsAreInts
<1>b. \/ validItems(shown) = {i}
      \/ n \in Items /\ (n <= i \/ i <= n) /\ validItems(shown) = {i, n}
  BY <1>a, OpenItem
<1> HIDE DEF shown, n
<1>1. \E k \in validItems(shown) : \A j \in validItems(shown) : k <= j
  BY <1>b, ItemsAreInts
<1>2. \E k \in validItems(shown) : \A j \in validItems(shown) : j <= k
  BY <1>b, ItemsAreInts
<1>3. firstOf(shown) \in validItems(shown) /\ \A j \in validItems(shown) : firstOf(shown) <= j
  BY <1>1 DEF firstOf
<1>4. lastOf(shown) \in validItems(shown) /\ \A j \in validItems(shown) : j <= lastOf(shown)
  BY <1>2 DEF lastOf
<1> QED  BY <1>3, <1>4 DEF shown

(* Of two neighbours the one on the side read first comes first in the      *)
(* spine.                                                                   *)
LEMMA NeighbourOrder ==
    ASSUME NEW i \in Items, NEW synthetic \in BOOLEAN,
           getNeighbourItem(i, synthetic) # NoItem
    PROVE  getNeighbourItem(i, synthetic)
             = IF isLeftPage(i) <=> isRightToLeft THEN i - 1 ELSE i + 1
<1>1. getNeighbourItem(i, synthetic) = FacingItem(i)  BY DEF getNeighbourItem
<1> QED  BY <1>1, PrevNext DEF FacingItem

(* The first item of a spread is the one on the side read first.            *)
LEMMA FirstIsBefore ==
    ASSUME NEW i \in Items, NEW synthetic \in BOOLEAN
    PROVE  LET shown  == openItem(i, synthetic)
               before == IF isRightToLeft THEN "right" ELSE "left"
               after  == IF isRightToLeft THEN "left" ELSE "right"
           IN  firstOf(shown) = IF shown[before] # NoItem THEN shown[before]
                                ELSE IF shown["center"] # NoItem THEN shown["center"]
                                ELSE shown[after]
<1> DEFINE n      == getNeighbourItem(i, synthetic)
           shown  == openItem(i, synthetic)
           before == IF isRightToLeft THEN "right" ELSE "left"
           after  == IF isRightToLeft THEN "left" ELSE "right"
           found  == IF shown[before] # NoItem THEN shown[before]
                     ELSE IF shown["center"] # NoItem THEN shown["center"]
                     ELSE shown[after]
<1>1. Sides = {"left", "right", "center"}  BY DEF Sides, PageSpreads
<1>2. /\ firstOf(shown) \in validItems(shown)
      /\ \A j \in validItems(shown) : firstOf(shown) <= j
      /\ validItems(shown) # {}
  BY FirstLast
<1>3. found \in validItems(shown)
  <2>1. \E s \in Sides : shown[s] # NoItem  BY <1>2 DEF validItems
  <2>2. found # NoItem  BY <1>1, <2>1
  <2>3. \E s \in Sides : found = shown[s]  BY <1>1
  <2> HIDE DEF found
  <2> QED  BY <2>2, <2>3 DEF validItems
<1>4. CASE n = NoItem
  <2>1. validItems(shown) = {i}  BY <1>4, OpenItem
  <2> HIDE DEF found, shown
  <2>2. found = i /\ firstOf(shown) = i  BY <1>2, <1>3, <2>1
  <2> QED  BY <2>2 DEF found, shown
<1>5. CASE n # NoItem
  <2>1. /\ synthetic /\ n \in Items /\ i \in Int
        /\ n = IF isLeftPage(i) <=> isRightToLeft THEN i - 1 ELSE i + 1
        /\ \/ PageSpread[i] = "left" /\ PageSpread[n] = "right"
           \/ PageSpread[i] = "right" /\ PageSpread[n] = "left"
    BY <1>5, NeighbourSymmetric, NeighbourOrder, ItemsAreInts
  <2>2. validItems(shown) = {i, n}  BY <1>5, OpenItem
  <2> DEFINE low == IF n < i THEN n ELSE i
  <2>3. PageSpread[low] = before /\ low \in {i, n} /\ low \in Items
    <3> HIDE DEF n, shown, found
    <3>1. CASE isLeftPage(i) <=> isRightToLeft
      <4>1. n = i - 1  BY <2>1, <3>1
      <4>2. low = n  BY <2>1, <4>1
      <4> HIDE DEF low
      <4> QED  BY <2>1, <3>1, <4>2 DEF isLeftPage, isRightToLeft
    <3>2. CASE ~(isLeftPage(i) <=> isRightToLeft)
      <4>1. n = i + 1  BY <2>1, <3>2
      <4>2. low = i  BY <2>1, <4>1
      <4> HIDE DEF low
      <4> QED  BY <2>1, <3>2, <4>2 DEF isLeftPage, isRightToLeft
    <3> QED  BY <3>1, <3>2
  <2>4. firstOf(shown) = low
    <3>1. firstOf(shown) \in {i, n} /\ firstOf(shown) <= i /\ firstOf(shown) <= n
      BY <1>2, <2>2
    <3> HIDE DEF shown, n
    <3> QED  BY <2>1, <3>1
  <2>5. PICK s \in Sides : shown[s] = low /\ low # NoItem
    BY <2>2, <2>3 DEF validItems
  <2>6. s = before
    BY <2>1, <2>3, <2>5, OpenItemSides
  <2> QED  BY <2>4, <2>5, <2>6
<1> QED  BY <1>4, <1>5

(* Turning a page and back returns to the same spread.                      *)
THEOREM NextThenPrev ==
    ASSUME NEW i \in Items, NEW synthetic \in BOOLEAN,
           nextItem(lastOf(openItem(i, synthetic))) # NoItem
    PROVE  openPrev(openNext(openItem(i, synthetic), synthetic), synthetic)
             = openItem(i, synthetic)
<1> DEFINE shown == openItem(i, synthetic)
           l == lastOf(shown)
           next == openItem(l + 1, synthetic)
<1>1. l \in validItems(shown) /\ l \in Items /\ openItem(l, synthetic) = shown
  BY FirstLast, SpreadsPartition
<1>2. nextItem(l) = l + 1 /\ l + 1 \in Items /\ prevItem(l + 1) = l
  BY <1>1, PrevNext
<1>3. openNext(shown, synthetic) = next
  BY <1>1, <1>2 DEF openNext
<1>4. l \notin validItems(next)
  <2> SUFFICES ASSUME l \in validItems(next) PROVE FALSE  OBVIOUS
  <2>1. openItem(l, synthetic) = next  BY <1>2, SpreadsPartition
  <2>2. l + 1 \in validItems(next)  BY <1>2, OpenItem
  <2>3. l + 1 \in validItems(shown)  BY <1>1, <2>1, <2>2
  <2>4. l + 1 <= l  BY <2>3, FirstLast
  <2> QED  BY <2>4, <1>1, ItemsAreInts
<1>5. firstOf(next) = l + 1
  <2>1. /\ firstOf(next) \in validItems(next)
        /\ firstOf(next) <= l + 1
    BY <1>2, FirstLast, OpenItem
  <2>2. firstOf(next) = l + 1 \/ firstOf(next) = l \/ firstOf(next) = l + 2
    BY <1>1, <1>2, <2>1, OpenItem, NeighbourSymmetric, ItemsAreInts
  <2> QED  BY <1>1, <1>4, <2>1, <2>2, ItemsAreInts
<1>6. validItems(next) # {} /\ prevItem(firstOf(next)) = l
  BY <1>2, <1>5, OpenItem
<1>7. l # NoItem  BY <1>1, ItemsAreInts
<1>8. openPrev(next, synthetic) = shown
  BY <1>1, <1>6, <1>7 DEF openPrev
<1> QED  BY <1>3, <1>8

(* And turning back a page, then on.                                        *)
THEOREM PrevThenNext ==
    ASSUME NEW i \in Items, NEW synthetic \in BOOLEAN,
           prevItem(firstOf(openItem(i, synthetic))) # NoItem
    PROVE  openNext(openPrev(openItem(i, synthetic), synthetic), synthetic)
             = openItem(i, synthetic)
<1> DEFINE shown == openItem(i, synthetic)
           f == firstOf(shown)
           prev == openItem(f - 1, synthetic)
<1>1. f \in validItems(shown) /\ f \in Items /\ openItem(f, synthetic) = shown
  BY FirstLast, SpreadsPartition
<1>2. prevItem(f) = f - 1 /\ f - 1 \in Items /\ nextItem(f - 1) = f
  BY <1>1, PrevNext
<1>3. openPrev(shown, synthetic) = prev
  BY <1>1, <1>2 DEF openPrev
<1>4. f \notin validItems(prev)
  <2> SUFFICES ASSUME f \in validItems(prev) PROVE FALSE  OBVIOUS
  <2>1. openItem(f, synthetic) = prev  BY <1>2, SpreadsPartition
  <2>2. f - 1 \in validItems(prev)  BY <1>2, OpenItem
  <2>3. f - 1 \in validItems(shown)  BY <1>1, <2>1, <2>2
  <2>4. f <= f - 1  BY <2>3, FirstLast
  <2> QED  BY <2>4, <1>1, ItemsAreInts
<1>5. lastOf(prev) = f - 1
  <2>1. /\ lastOf(prev) \in validItems(prev)
        /\ f - 1 <= lastOf(prev)
    BY <1>2, FirstLast, OpenItem
  <2>2. lastOf(prev) = f - 1 \/ lastOf(prev) = f \/ lastOf(prev) = f - 2
    BY <1>1, <1>2, <2>1, OpenItem, NeighbourSymmetric, ItemsAreInts
  <2> QED  BY <1>1, <1>4, <2>1, <2>2, ItemsAreInts
<1>6. validItems(prev) # {} /\ nextItem(lastOf(prev)) = f
  BY <1>2, <1>5, OpenItem
<1>7. f # NoItem  BY <1>1, ItemsAreInts
<1>8. openNext(prev, synthetic) = shown
  BY <1>1, <1>6, <1>7 DEF openNext
<1> QED  BY <1>3, <1>8
=============================================================================
