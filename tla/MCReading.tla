------------------------------ MODULE MCReading ------------------------------
(***************************************************************************)
(* A book with a text, a pair of pages, a longer text, and a page that     *)
(* stands beside another text, which has a page of nothing.  An element of *)
(* the long text is taller than a page.                                    *)
(***************************************************************************)
EXTENDS ReadingProperties

MCPageSpread == [i \in Items |-> CASE i \in {1, 4} -> "left" [] i \in {2, 5} -> "right"
                                   [] OTHER -> "center"]
MCItemLayout == [i \in Items |-> IF i \in {1, 2, 4} THEN "pre-paginated"
                                 ELSE IF i = 3 THEN "reflowable" ELSE ""]

Element(top, height) == [top |-> top, height |-> height]

Short  == <<Element(0, 50), Element(60, 130)>>
Broken == <<Element(0, 50), Element(210, 80)>>
Long(columns) == <<Element(20, 30), Element(70, 100 * columns - 180),
                   Element(100 * columns - 100, 40), Element(100 * columns - 50, 50)>>

MCColumnsOf  == [i \in Items |-> [n \in {1, 2} |->
                    CASE isFixedLayout(i) -> 1 [] i = 0 -> 2 [] i = 3 -> 3 + n [] OTHER -> 3]]
MCElementsOf == [i \in Items |-> [n \in {1, 2} |->
                    CASE isFixedLayout(i) -> <<Element(0, 100)>> [] i = 0 -> Short
                      [] i = 3 -> Long(3 + n) [] OTHER -> Broken]]
=============================================================================
