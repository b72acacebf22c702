---------------------------- MODULE CfiNavigation ----------------------------
(***************************************************************************)
(* views/cfi_navigation_logic.js: the top of a page as an element and a    *)
(* percentage of its height, and the page such a place is on.              *)
(*                                                                         *)
(* The columns of a document lie end to end: the top of an element is its  *)
(* distance from the top of the first column, as offsetTop gives it.  The  *)
(* elements of a document are the images and the parents of its text, in   *)
(* document order.  A CFI names one by its number; how the EPUB CFI        *)
(* library writes and reads that number is left out, and so are the        *)
(* lookups that fail by an error (ReflowableView has those).               *)
(***************************************************************************)
EXTENDS Integers, Sequences

Rects == [top : Nat, height : Nat]

bottom(rect) == rect.top + rect.height

CeilDiv(a, b) == (a + b - 1) \div b

NotFound == 0

findFirstVisibleElement(rects, topOffset) ==
    IF \E k \in DOMAIN rects : bottom(rects[k]) > topOffset
      THEN CHOOSE k \in DOMAIN rects :
              /\ bottom(rects[k]) > topOffset
              /\ \A j \in 1 .. k - 1 : bottom(rects[j]) <= topOffset
      ELSE NotFound

percentsOfElementHeight_Floor(rect, topOffset) ==
    IF rect.top > topOffset THEN {0}
    ELSE {(100 * (topOffset - rect.top)) \div rect.height}

(* Math.ceil of a quotient of doubles times a hundred: where the percentage *)
(* is a whole number the product may come out just above it (7/100 * 100).  *)
percentsOfElementHeight(rect, topOffset) ==
    LET above == 100 * (topOffset - rect.top) IN
    IF rect.top > topOffset THEN {0}
    ELSE {CeilDiv(above, rect.height)}
         \cup (IF above > 0 /\ above % rect.height = 0 THEN {above \div rect.height + 1} ELSE {})

getPageForElement(rect, y, height) == CeilDiv(100 * rect.top + y * rect.height, 100) \div height
=============================================================================
