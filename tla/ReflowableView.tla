--------------------------- MODULE ReflowableView ---------------------------
(***************************************************************************)
(* views/reflowable_view.js: one spine item at a time is loaded into an    *)
(* iframe and laid out in CSS columns; a page is a column, a spread the    *)
(* one or two columns shown together.                                      *)
(*                                                                         *)
(* Everything in the view runs on the one JavaScript thread, so a handler  *)
(* is an atomic step; what interleaves are the handlers: calls from the    *)
(* reader, the iframe's navigation (commit, then the load event) and three *)
(* kinds of timers.  Two of the view's members, paginationInfo and         *)
(* lastViewPortSize, are objects on the prototype: every instance of the   *)
(* view, also one already removed from the page, reads and writes the same *)
(* ones.  The other members belong to the instance.                        *)
(*                                                                         *)
(* A module that EXTENDS this one adds the caller's operations (Reader).   *)
(***************************************************************************)
EXTENDS Spine, SequencesExt

CONSTANTS
    MaxViews,       \* bound: view instances created in a behaviour
    MaxColumns,     \* bound: columns of the longest item
    Sizes,          \* viewport sizes, 0 excluded
    ColumnsOf       \* columns an item is laid out in: item, columns shown, size

Views == 1 .. MaxViews

ASSUME ReflowableViewAssumption ==
    /\ MaxViews \in Nat \ {0}
    /\ MaxColumns \in Nat \ {0}
    /\ Sizes # {} /\ Sizes \subseteq Nat \ {0}
    /\ ColumnsOf \in [Items \X {1, 2} \X Sizes -> 1 .. MaxColumns]

VARIABLES
    paginationInfo,     \* prototype: the pagination all instances share
    lastViewPortSize,   \* prototype: the viewport size last measured, 0 if none
    views,              \* the members of each instance, and its iframe
    currentView,        \* the reader's view, 0 if it has none
    windowSize,         \* the size the viewport really has
    timers,             \* pending timers in the order they will fire
    thrown              \* the last handler ended in an uncaught error

viewVars == <<paginationInfo, lastViewPortSize, views, currentView, windowSize, timers,
              thrown>>

-----------------------------------------------------------------------------
(* A request (models/page_open_request.js) names an item and, in it, a      *)
(* page, the last page or nothing.  setFirstPage is page 0.  A request for  *)
(* an element carries what looking the element up will give: the page it is *)
(* on, -1 if there is no such element, or an error ("throws").  The lookup  *)
(* throws for an id that is no plain selector ($("#fn:1")) and for a CFI    *)
(* the library can not parse or not follow in the document it is given.     *)
Requests == [spineItem : Items, target : {"page", "last", "none", "throws"},
             page : -1 .. MaxColumns]

PageIndex(i, p) == [spineItem |-> i, target |-> "page", page |-> p]
FirstPage(i)    == PageIndex(i, 0)
LastPage(i)     == [spineItem |-> i, target |-> "last", page |-> 0]
NoTarget(i)     == [spineItem |-> i, target |-> "none", page |-> 0]
Unreadable(i)   == [spineItem |-> i, target |-> "throws", page |-> 0]
NoRequest       == [spineItem |-> NoItem, target |-> "none", page |-> 0]

(* Where the iframe stands in a navigation: idle; asked for the item but    *)
(* still showing the old document; the new document in place but its load   *)
(* event not fired yet.  html is what $epubHtml refers to: nothing yet, the *)
(* root of the document in the iframe, or of one no longer in it.  cutShort *)
(* is a history: the view's last measurement ended in a lookup that threw,  *)
(* and the document has not been put in place since.                        *)
Navigation == {"idle", "requested", "committed"}
HtmlStates == {"undefined", "attached", "detached"}
OffScreen  == -1000     \* shiftBookOfScreen: left of every offset redraw sets

View == [currentSpineItem      : Items \cup {NoItem},
         isWaitingFrameRender  : BOOLEAN,
         deferredPageRequest   : Requests \cup {NoRequest},
         html                  : HtmlStates,
         hidden                : BOOLEAN,
         left                  : Int,
         cutShort              : BOOLEAN,
         document              : Items \cup {NoItem},
         navigation            : Navigation]

NewView == [currentSpineItem |-> NoItem, isWaitingFrameRender |-> FALSE,
            deferredPageRequest |-> NoRequest, html |-> "undefined", hidden |-> FALSE,
            left |-> 0, cutShort |-> FALSE, document |-> NoItem, navigation |-> "idle"]

(* measure: the 100 ms timer of updatePagination; show: the 50 ms timer it  *)
(* starts; resize: the 100 ms debounce of the window's resize event.        *)
Timers == [kind : {"measure", "show", "resize"}, view : Views]

Timer(k, v)       == [kind |-> k, view |-> v]
Has(q, t)         == \E n \in 1 .. Len(q) : q[n] = t
Pending(k, v)     == Has(timers, Timer(k, v))

(* Timers fire in the order of their deadlines.  A new 100 ms timer is      *)
(* therefore the last; a new 50 ms one comes after every other 50 ms timer  *)
(* and anywhere among the 100 ms ones.                                      *)
WithShow(q, v) ==
    {InsertAt(q, k, Timer("show", v)) :
        k \in {k \in 1 .. Len(q) + 1 : \A n \in k .. Len(q) : q[n].kind # "show"}}

(* A debounced timer starts again.                                          *)
Restarted(q, t) ==
    LET running == {k \in 1 .. Len(q) : q[k] = t}
    IN  IF running = {} THEN {Append(q, t)} ELSE {Append(RemoveAt(q, k), t) : k \in running}

CeilDiv(a, b) == (a + b - 1) \div b

-----------------------------------------------------------------------------
(* The steps handlers are composed of.  Each takes the pagination i and the *)
(* view w as the handler has changed them so far.                           *)

(* openPage and updatePagination are called by handlers that have already   *)
(* done something; what they assign is the primed state.                    *)

Store(v, i, w) == /\ paginationInfo' = i
                  /\ views' = [views EXCEPT ![v] = w]

loadSpineItem_NotWaiting(v, i, w, item) ==
    Store(v, [i EXCEPT !.currentSpreadIndex = 0],
             [w EXCEPT !.currentSpineItem = item, !.navigation = "requested"])

loadSpineItem_NoRoot(v, i, w, item) ==
    IF item = w.currentSpineItem THEN Store(v, i, w)
    ELSE Store(v, [i EXCEPT !.currentSpreadIndex = 0],
                  [w EXCEPT !.currentSpineItem = item, !.isWaitingFrameRender = TRUE,
                            !.navigation = "requested", !.html = "undefined"])

loadSpineItem(v, i, w, item) ==
    IF item = w.currentSpineItem THEN Store(v, i, w)
    ELSE Store(v, [i EXCEPT !.currentSpreadIndex = 0],
                  [w EXCEPT !.currentSpineItem = item, !.isWaitingFrameRender = TRUE,
                            !.navigation = "requested"])

(* onPaginationChanged: pageOffset and redraw.  Without $epubHtml redraw    *)
(* throws, after currentSpreadIndex has changed.                            *)
Redrawn_NoNegative(i, w) ==
    IF w.html = "undefined" \/ i.currentSpreadIndex < 0 THEN w
    ELSE [w EXCEPT !.left = i.visibleColumnCount * i.currentSpreadIndex, !.cutShort = FALSE]

Redrawn(i, w) ==
    IF w.html = "undefined" THEN w
    ELSE [w EXCEPT !.left = i.visibleColumnCount * i.currentSpreadIndex, !.cutShort = FALSE]

TargetPage(i, req) == CASE req.target = "page" -> req.page
                        [] req.target = "last" -> i.columnCount - 1
                        [] req.target \in {"none", "throws"} -> -1

IsPage_NoLowerBound(i, page) == page < i.columnCount
IsPage(i, page) == page >= 0 /\ page < i.columnCount

AtPage_NotASpread(i, page) == [i EXCEPT !.currentSpreadIndex = page]
AtPage(i, page) == [i EXCEPT !.currentSpreadIndex = page \div i.visibleColumnCount]

(* openPage gets as far as looking an element up, and the lookup throws.    *)
(* openPage itself has changed nothing by then; its caller goes no further. *)
LookupThrows(w, req) == /\ ~w.isWaitingFrameRender
                        /\ req.spineItem = w.currentSpineItem
                        /\ req.target = "throws"

openPage(v, i, w, req) ==
    LET page == TargetPage(i, req) IN
    \/ /\ w.isWaitingFrameRender
       /\ Store(v, i, [w EXCEPT !.deferredPageRequest = req])
    \/ /\ ~w.isWaitingFrameRender
       /\ req.spineItem # w.currentSpineItem
       /\ loadSpineItem(v, i, [w EXCEPT !.deferredPageRequest = req], req.spineItem)
    \/ /\ ~w.isWaitingFrameRender
       /\ req.spineItem = w.currentSpineItem
       /\ IF IsPage(i, page)
             THEN Store(v, AtPage(i, page), Redrawn(AtPage(i, page), w))
             ELSE Store(v, i, w)

openDeferredElement_Kept(v, i, w) ==
    IF w.deferredPageRequest = NoRequest THEN Store(v, i, w)
    ELSE openPage(v, i, w, w.deferredPageRequest)

openDeferredElement_Dropped(v, i, w) ==
    LET open == [w EXCEPT !.deferredPageRequest = NoRequest]
    IN  IF w.deferredPageRequest = NoRequest THEN Store(v, i, w)
        ELSE IF w.isWaitingFrameRender THEN Store(v, i, open)
        ELSE openPage(v, i, open, w.deferredPageRequest)

openDeferredElement(v, i, w) ==
    IF w.deferredPageRequest = NoRequest THEN Store(v, i, w)
    ELSE openPage(v, i, [w EXCEPT !.deferredPageRequest = NoRequest], w.deferredPageRequest)

(* updatePagination up to its timer: nothing without $epubHtml.             *)
Columnized(i, w, size) == IF w.html = "undefined" THEN i ELSE [i EXCEPT !.columnSize = size]
ShiftedOffScreen(w)    == IF w.html = "undefined" THEN w ELSE [w EXCEPT !.left = OffScreen]
StartMeasure_ShowToo(v, w) ==
    timers' = IF w.html = "undefined" THEN timers
              ELSE timers \o <<Timer("measure", v), Timer("show", v)>>
StartMeasure(v, w)     ==
    timers' = IF w.html = "undefined" THEN timers ELSE Append(timers, Timer("measure", v))

updatePagination(v, w, size) ==
    /\ Store(v, Columnized(paginationInfo, w, size), ShiftedOffScreen(w))
    /\ StartMeasure(v, w)

(* The content frame of a removed view has no size.                         *)
ViewportOf(v) == IF v = currentView THEN windowSize ELSE 0

applyStyles_OnlyIfResized(v, w) ==
    /\ lastViewPortSize' = ViewportOf(v)
    /\ IF lastViewPortSize' # lastViewPortSize THEN updatePagination(v, w, ViewportOf(v))
       ELSE Store(v, paginationInfo, w) /\ UNCHANGED timers

applyStyles(v, w) ==
    /\ lastViewPortSize' = ViewportOf(v)
    /\ updatePagination(v, w, ViewportOf(v))

-----------------------------------------------------------------------------
(* Timers.                                                                  *)

Fires(k, v) == /\ timers # <<>>
               /\ Head(timers) = Timer(k, v)
               /\ UNCHANGED <<currentView, windowSize>>

(* scrollWidth turned into a number of columns.  Nothing that is hidden, in *)
(* a document no longer shown or in a removed view has a width: the result  *)
(* is then round(gap / (columnWidth + gap)), which is 0, or the number of   *)
(* visible columns if columnWidth was computed from a viewport of size 0.   *)
(* Of a shown document that division gives any number from there on.        *)
Sighted(v) == v = currentView /\ views[v].html = "attached" /\ ~views[v].hidden

MeasuredColumns(v) ==
    LET n == paginationInfo.visibleColumnCount
        s == paginationInfo.columnSize
    IN  IF Sighted(v)
        THEN IF s = 0 THEN n .. MaxColumns + 1 ELSE {ColumnsOf[<<views[v].document, n, s>>]}
        ELSE {IF s = 0 THEN n ELSE 0}

Measured_OffByOne(c) ==
    LET spreads == CeilDiv(c, paginationInfo.visibleColumnCount)
    IN  [paginationInfo EXCEPT !.columnCount = c,
                               !.spreadCount = spreads,
                               !.currentSpreadIndex = IF @ > spreads THEN spreads - 1 ELSE @]

Measured(c) ==
    LET spreads == CeilDiv(c, paginationInfo.visibleColumnCount)
    IN  [paginationInfo EXCEPT !.columnCount = c,
                               !.spreadCount = spreads,
                               !.currentSpreadIndex = IF @ >= spreads THEN spreads - 1 ELSE @]

(* The timer of updatePagination: measures, opens the request put off and   *)
(* hides the document until the show timer it starts.                       *)
LaidOut(v) ==
    /\ ~LookupThrows(views[v], views[v].deferredPageRequest)
    /\ \E c \in MeasuredColumns(v) :
          openDeferredElement(v, Measured(c),
                              [views[v] EXCEPT !.hidden = TRUE, !.cutShort = FALSE])
    /\ timers' \in WithShow(Tail(timers), v)
    /\ thrown' = FALSE

(* A lookup that throws ends the handler before it hides the document: the  *)
(* request is gone, no show timer starts, and the document stays where      *)
(* shiftBookOfScreen put it.                                                *)
CutShort(v) ==
    /\ LookupThrows(views[v], views[v].deferredPageRequest)
    /\ \E c \in MeasuredColumns(v) :
          Store(v, Measured(c), [views[v] EXCEPT !.deferredPageRequest = NoRequest,
                                                 !.cutShort = TRUE])
    /\ timers' = Tail(timers)
    /\ thrown' = TRUE

MeasureTimer(v) ==
    /\ Fires("measure", v)
    /\ LaidOut(v) \/ CutShort(v)
    /\ UNCHANGED lastViewPortSize

ShowTimer(v) ==
    /\ Fires("show", v)
    /\ thrown' = FALSE
    /\ Store(v, paginationInfo, Redrawn(paginationInfo, [views[v] EXCEPT !.hidden = FALSE]))
    /\ timers' = Tail(timers)
    /\ UNCHANGED lastViewPortSize

(* onViewportResize; remove() unbinds the resize event but leaves a pending *)
(* debounce timer.                                                          *)
ResizeTimer(v) ==
    /\ Fires("resize", v)
    /\ thrown' = FALSE
    /\ lastViewPortSize' = ViewportOf(v)
    /\ IF lastViewPortSize' # lastViewPortSize /\ views[v].html # "undefined"
          THEN /\ Store(v, Columnized(paginationInfo, views[v], lastViewPortSize'),
                           ShiftedOffScreen(views[v]))
               /\ timers' = Append(Tail(timers), Timer("measure", v))
          ELSE /\ timers' = Tail(timers)
               /\ UNCHANGED <<paginationInfo, views>>

-----------------------------------------------------------------------------
(* The iframe of the current view; a removed iframe fires no events.        *)

Committed(w) == [w EXCEPT !.navigation = "committed", !.document = w.currentSpineItem,
                          !.html = IF @ = "undefined" THEN @ ELSE "detached"]

CommitNavigation(v) ==
    /\ v = currentView
    /\ views[v].navigation = "requested"
    /\ Store(v, paginationInfo, Committed(views[v]))
    /\ thrown' = FALSE
    /\ UNCHANGED <<lastViewPortSize, currentView, windowSize, timers>>

NewRequestCame_Never(w) == FALSE
NewRequestCame(w) == /\ w.deferredPageRequest # NoRequest
                     /\ w.deferredPageRequest.spineItem # w.currentSpineItem

FrameRendered_StillWaiting(w) == [w EXCEPT !.navigation = "idle"]
FrameRendered(w) == [w EXCEPT !.isWaitingFrameRender = FALSE, !.navigation = "idle"]

onIFrameLoad(v) ==
    LET w == FrameRendered(views[v])
    IN  /\ v = currentView
        /\ views[v].navigation = "committed"
        /\ IF NewRequestCame(w)
              THEN /\ loadSpineItem(v, paginationInfo, w, w.deferredPageRequest.spineItem)
                   /\ UNCHANGED <<lastViewPortSize, timers>>
              ELSE applyStyles(v, [w EXCEPT !.html = "attached", !.hidden = FALSE])
        /\ thrown' = FALSE
        /\ UNCHANGED <<currentView, windowSize>>

-----------------------------------------------------------------------------
(* Calls from the reader.                                                   *)

(* getPaginationInfo: the indices of the open pages.                        *)
OpenPages ==
    LET i     == paginationInfo
        start == i.currentSpreadIndex * i.visibleColumnCount
    IN  IF currentView = 0 \/ views[currentView].currentSpineItem = NoItem THEN {}
        ELSE {p \in start .. start + i.visibleColumnCount - 1 : p < i.columnCount}

(* openPageNext and openPagePrev of the view: turn to the spread, or open   *)
(* the neighbouring item.                                                   *)
turnTo(v, index) ==
    LET i == [paginationInfo EXCEPT !.currentSpreadIndex = index]
    IN  /\ Store(v, i, Redrawn(i, views[v]))
        /\ thrown' = (views[v].html = "undefined")

openPageNext(v) ==
    LET next == nextItem(views[v].currentSpineItem) IN
    IF paginationInfo.currentSpreadIndex < paginationInfo.spreadCount - 1
    THEN turnTo(v, paginationInfo.currentSpreadIndex + 1)
    ELSE /\ next # NoItem
         /\ openPage(v, paginationInfo, views[v], FirstPage(next))
         /\ thrown' = FALSE

openPagePrev(v) ==
    LET prev == prevItem(views[v].currentSpineItem) IN
    IF paginationInfo.currentSpreadIndex > 0
    THEN turnTo(v, paginationInfo.currentSpreadIndex - 1)
    ELSE /\ prev # NoItem
         /\ openPage(v, paginationInfo, views[v], LastPage(prev))
         /\ thrown' = FALSE
=============================================================================
