--------------------------- MODULE ReaderRequests ---------------------------
(***************************************************************************)
(* The reader with a history of what it was last asked to open, to say     *)
(* that it ends up there.                                                  *)
(***************************************************************************)
EXTENDS ReaderProperties

VARIABLE asked      \* the request that should prevail, NoRequest if none

(* A request for the item just loaded is overridden by the one that item    *)
(* was loaded for, until the measure timer has opened that.  Nothing is     *)
(* claimed of a request made in between, nor once the layout is changed.    *)
Claim(req) ==
    asked' = IF currentView = 0 \/ View0.isWaitingFrameRender \/ Settled THEN req
                                                                         ELSE NoRequest

(* A turn asks for the next (previous) page not shown, or else for the      *)
(* first (last) page of the next (previous) item.                           *)
TurnRequest(step) ==
    LET item == View0.currentSpineItem
        page == IF step = 1 THEN Max(OpenPages) + 1 ELSE Min(OpenPages) - 1
    IN  IF page \in 0 .. paginationInfo.columnCount - 1 THEN PageIndex(item, page)
        ELSE IF step = 1 THEN FirstPage(nextItem(item)) ELSE LastPage(prevItem(item))

ClaimTurn(step) == asked' = IF Settled THEN TurnRequest(step) ELSE NoRequest

RInit == Init /\ asked = NoRequest

RNext ==
    \/ \E synthetic \in BOOLEAN, req \in BookRequests :
         openBook(synthetic, req) /\ asked' = req
    \/ \E synthetic \in BOOLEAN : openBookAtUnknownItem(synthetic) /\ asked' = NoRequest
    \/ \E i \in Items, p \in 0 .. MaxColumns :
         openSpineItemPage(i, p) /\ Claim(IF p = 0 THEN NoTarget(i) ELSE PageIndex(i, p))
    \/ \E req \in ElementRequests : openElement(req) /\ Claim(req)
    \/ openPageLeft  /\ ClaimTurn(IF isRightToLeft THEN 1 ELSE -1)
    \/ openPageRight /\ ClaimTurn(IF isRightToLeft THEN -1 ELSE 1)
    \/ \E p \in 0 .. MaxColumns : openPageIndex(p) /\ asked' = asked
    \/ LayoutCalls /\ asked' = NoRequest
    \/ Browser /\ asked' = asked

RSpec == RInit /\ [][RNext]_<<vars, asked>>

(* The last request claimed is where the view comes to rest: in the item    *)
(* asked for and, if it has the page asked for, with that page among those  *)
(* shown; in spite of loads and requests it cut short, of other books'      *)
(* timers, and of measurements in between.  Two flaws are left aside: a     *)
(* position lost to a measurement that saw nothing (index -1), and a shared *)
(* viewport size reset by a removed view.                                   *)
RequestIsHonoured ==
    Settled /\ asked # NoRequest /\ lastViewPortSize # 0 =>
        LET page == TargetPage(paginationInfo, asked) IN
        /\ View0.currentSpineItem = asked.spineItem
        /\ paginationInfo.currentSpreadIndex >= 0 /\ page \in 0 .. paginationInfo.columnCount - 1
            => page \in OpenPages
=============================================================================
