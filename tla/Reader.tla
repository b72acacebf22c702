------------------------------- MODULE Reader -------------------------------
(***************************************************************************)
(* views/reader_view.js over reflowable books: the operations the host     *)
(* page and the buttons of myReader.html call, composed with the view they *)
(* act on.  A call runs to completion on the JavaScript thread, so each is *)
(* one step.  A call that changes nothing is not a step, unless it ends in *)
(* an uncaught error.                                                      *)
(***************************************************************************)
EXTENDS ReflowableView

CONSTANT MaxCalls       \* bound: calls and window resizes in a behaviour

ASSUME ReaderAssumption == MaxCalls \in Nat

VARIABLES
    package,            \* a book has been opened
    isSyntheticSpread,  \* viewerSettings.isSyntheticSpread
    viewCount,          \* view instances created so far
    calls               \* calls made so far

readerVars == <<package, isSyntheticSpread, viewCount, calls>>
vars == <<viewVars, readerVars>>

visibleColumns(synthetic) == IF synthetic THEN 2 ELSE 1

(* The members of paginationInfo and of viewer_settings.js at the start.    *)
Init ==
    /\ paginationInfo = [visibleColumnCount |-> 2, columnCount |-> 0, spreadCount |-> 0,
                         currentSpreadIndex |-> 0, columnSize |-> 0]
    /\ lastViewPortSize = 0
    /\ views = [v \in Views |-> NewView]
    /\ currentView = 0
    /\ windowSize \in Sizes
    /\ timers = <<>>
    /\ thrown = FALSE
    /\ package = FALSE
    /\ isSyntheticSpread = TRUE
    /\ viewCount = 0
    /\ calls = 0

Call == /\ calls < MaxCalls
        /\ calls' = calls + 1

(* Calling a member of undefined: nothing happens but the TypeError.        *)
Throws == /\ thrown' = TRUE
          /\ UNCHANGED <<paginationInfo, lastViewPortSize, views, currentView, windowSize,
                         timers, package, isSyntheticSpread, viewCount>>

(* openPage with no view to keep: renderCurrentView makes one and applies   *)
(* the viewer settings to it, which sets the shared column count.           *)
openInNewView(req, synthetic) ==
    LET v == viewCount + 1
        i == [paginationInfo EXCEPT !.visibleColumnCount = visibleColumns(synthetic)]
    IN  /\ v \in Views
        /\ viewCount' = v
        /\ currentView' = v
        /\ openPage(v, i, NewView, req)

readerOpenPage(req) ==
    /\ IF currentView = 0
         THEN openInNewView(req, isSyntheticSpread)
         ELSE /\ openPage(currentView, paginationInfo, views[currentView], req)
              /\ UNCHANGED <<currentView, viewCount>>
    /\ thrown' = (currentView # 0 /\ LookupThrows(views[currentView], req))
    /\ UNCHANGED <<lastViewPortSize, windowSize, timers, package, isSyntheticSpread>>

-----------------------------------------------------------------------------
(* The old view is reset before the settings are updated, so these touch no *)
(* view.  The request may be for the first page of the book, for a page or  *)
(* an element of an item (page 0 counts as no page), or for an item the     *)
(* spine does not have; then there is no view.                              *)
openBook(synthetic, req) ==
    /\ Call
    /\ openInNewView(req, synthetic)
    /\ isSyntheticSpread' = synthetic
    /\ package' = TRUE
    /\ thrown' = FALSE
    /\ UNCHANGED <<lastViewPortSize, windowSize, timers>>

openBookAtUnknownItem(synthetic) ==
    /\ Call
    /\ currentView' = 0
    /\ isSyntheticSpread' = synthetic
    /\ package' = TRUE
    /\ thrown' = FALSE
    /\ UNCHANGED <<paginationInfo, lastViewPortSize, views, windowSize, timers, viewCount>>

-----------------------------------------------------------------------------
(* openPageNext and openPagePrev throw without a view; with one they let    *)
(* the view turn the page while there is one in the item, and open the      *)
(* neighbouring item otherwise.                                             *)
readerOpenPageNext ==
    LET next == nextItem(views[currentView].currentSpineItem) IN
    /\ OpenPages # {}
    /\ IF \E p \in OpenPages : p >= paginationInfo.columnCount - 1
         THEN /\ next # NoItem
              /\ readerOpenPage(FirstPage(next))
         ELSE /\ openPageNext(currentView)
              /\ UNCHANGED <<lastViewPortSize, currentView, windowSize, timers, package,
                             isSyntheticSpread, viewCount>>

readerOpenPagePrev ==
    LET prev == prevItem(views[currentView].currentSpineItem) IN
    /\ OpenPages # {}
    /\ IF \E p \in OpenPages : p <= 0
         THEN /\ prev # NoItem
              /\ readerOpenPage(LastPage(prev))
         ELSE /\ openPagePrev(currentView)
              /\ UNCHANGED <<lastViewPortSize, currentView, windowSize, timers, package,
                             isSyntheticSpread, viewCount>>

openPageLeft ==
    /\ Call
    /\ IF currentView = 0 THEN Throws
       ELSE IF isRightToLeft THEN readerOpenPageNext ELSE readerOpenPagePrev

openPageRight ==
    /\ Call
    /\ IF currentView = 0 THEN Throws
       ELSE IF isRightToLeft THEN readerOpenPagePrev ELSE readerOpenPageNext

-----------------------------------------------------------------------------
(* A page index of 0 is false, and then no page is set in the request.      *)
openSpineItemPage(i, p) ==
    /\ Call
    /\ IF package THEN readerOpenPage(IF p = 0 THEN NoTarget(i) ELSE PageIndex(i, p))
                  ELSE Throws

(* openSpineItemElementCfi and openContentUrl.                              *)
ElementRequests == {PageIndex(i, p) : i \in Items, p \in -1 .. MaxColumns}
                     \cup {Unreadable(i) : i \in Items}

openElement(req) ==
    /\ Call
    /\ IF package THEN readerOpenPage(req) ELSE Throws

(* The request of openPageIndex has no spine item, and openPage asks that   *)
(* item whether it is reflowable.                                           *)
openPageIndex(p) ==
    /\ Call
    /\ currentView # 0
    /\ Throws

(* The view is told of the settings and then asked to open the bookmarked   *)
(* item; the bookmark's CFI is read from a member it does not have, so the  *)
(* request has no target.                                                   *)
updateSettings(synthetic) ==
    LET v == currentView
        w == views[v]
        n == [paginationInfo EXCEPT !.visibleColumnCount = visibleColumns(synthetic)]
    IN  /\ Call
        /\ isSyntheticSpread' = synthetic
        /\ IF v = 0 THEN UNCHANGED <<paginationInfo, views, timers>>
           ELSE /\ openPage(v, Columnized(n, w, lastViewPortSize), ShiftedOffScreen(w),
                            NoTarget(w.currentSpineItem))
                /\ StartMeasure(v, w)
        /\ thrown' = FALSE
        /\ UNCHANGED <<lastViewPortSize, currentView, windowSize, package, viewCount>>

setStyles ==
    /\ Call
    /\ currentView # 0
    /\ applyStyles(currentView, views[currentView])
    /\ thrown' = FALSE
    /\ UNCHANGED <<currentView, windowSize, package, isSyntheticSpread, viewCount>>

(* The user resizes the window: the debounce timer of the bound view starts *)
(* again.                                                                   *)
resizeWindow(size) ==
    /\ Call
    /\ size # windowSize
    /\ windowSize' = size
    /\ IF currentView = 0 THEN UNCHANGED timers
       ELSE timers' \in Restarted(timers, Timer("resize", currentView))
    /\ thrown' = FALSE
    /\ UNCHANGED <<paginationInfo, lastViewPortSize, views, currentView, package,
                   isSyntheticSpread, viewCount>>

-----------------------------------------------------------------------------
BookRequests == {NoTarget(i) : i \in Items} \cup ElementRequests

BookCalls == \E synthetic \in BOOLEAN :
                \/ \E req \in BookRequests : openBook(synthetic, req)
                \/ openBookAtUnknownItem(synthetic)
PageCalls == \/ openPageLeft \/ openPageRight
             \/ \E i \in Items, p \in 0 .. MaxColumns : openSpineItemPage(i, p)
             \/ \E req \in ElementRequests : openElement(req)
             \/ \E p \in 0 .. MaxColumns : openPageIndex(p)
LayoutCalls == \/ \E synthetic \in BOOLEAN : updateSettings(synthetic)
               \/ setStyles
               \/ \E size \in Sizes : resizeWindow(size)

TimerFires == \E v \in Views : MeasureTimer(v) \/ ShowTimer(v) \/ ResizeTimer(v)
FrameEvent == \E v \in Views : CommitNavigation(v) \/ onIFrameLoad(v)

Browser == /\ UNCHANGED readerVars
           /\ TimerFires \/ FrameEvent

Next == BookCalls \/ PageCalls \/ LayoutCalls \/ Browser

Spec == Init /\ [][Next]_vars

(* The browser runs every timer and finishes every navigation; nobody has   *)
(* to call anything.                                                        *)
FairSpec == /\ Spec
            /\ WF_vars(TimerFires /\ UNCHANGED readerVars)
            /\ WF_vars(FrameEvent /\ UNCHANGED readerVars)
=============================================================================
