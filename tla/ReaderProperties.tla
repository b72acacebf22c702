-------------------------- MODULE ReaderProperties --------------------------
(***************************************************************************)
(* What the reader over a reflowable view gets right.                      *)
(***************************************************************************)
EXTENDS Reader, Counting

PaginationInfos == [visibleColumnCount : {1, 2}, columnCount : 0 .. MaxColumns + 1,
                    spreadCount : Nat, currentSpreadIndex : Nat \cup {-1},
                    columnSize : Sizes \cup {0}]

(* The variables keep to their types.                                       *)
TypeOK ==
    /\ paginationInfo \in PaginationInfos
    /\ lastViewPortSize \in Sizes \cup {0}
    /\ views \in [Views -> View]
    /\ currentView \in Views \cup {0}
    /\ windowSize \in Sizes
    /\ timers \in Seq(Timers)
    /\ thrown \in BOOLEAN
    /\ package \in BOOLEAN
    /\ isSyntheticSpread \in BOOLEAN
    /\ viewCount \in Views \cup {0}
    /\ calls \in 0 .. MaxCalls

View0 == views[currentView]     \* only where currentView # 0

(* A request the view has put off is never forgotten: either the iframe is  *)
(* on its way to a load event, or the request is for the item already       *)
(* loaded and a measure timer is going to open it (deferredPageRequest,     *)
(* isWaitingFrameRender against the iframe and updatePagination's timers).  *)
DeferredIsServed ==
    currentView # 0 =>
        /\ View0.isWaitingFrameRender <=> View0.navigation # "idle"
        /\ View0.deferredPageRequest # NoRequest =>
            \/ View0.isWaitingFrameRender
            \/ /\ View0.deferredPageRequest.spineItem = View0.currentSpineItem
               /\ Pending("measure", currentView)

(* A request that was put off is opened only when its document is laid out  *)
(* and visible: no measure timer finds one while the html element is hidden *)
(* or belongs to a document that has left the iframe.                       *)
DeferredIsSighted ==
    currentView # 0 =>
        (View0.deferredPageRequest # NoRequest /\ ~View0.isWaitingFrameRender
            => Sighted(currentView))

(* A page that updatePagination hides or moves off the screen comes back:   *)
(* the timer that shows it, or the one that starts that timer, is pending.  *)
(* The exception is a flaw: a measure timer that looks up an element and    *)
(* throws (reflowable_view.js:410) leaves the page off the screen until the *)
(* next page turn, request or layout; but it never leaves one hidden.       *)
HiddenIsShownAgain ==
    \A v \in Views :
        /\ views[v].hidden => Pending("show", v)
        /\ views[v].left = OffScreen =>
              Pending("measure", v) \/ Pending("show", v) \/ views[v].cutShort

(* What is in the iframes.  Once the current view has an item and waits for *)
(* nothing, that item's document is in the iframe and $epubHtml is its      *)
(* root; while it waits for the load event the document is the current      *)
(* item's but $epubHtml is not yet its root, and $epubHtml never is the     *)
(* root of nothing.  Nothing is shifted off the screen before there is a    *)
(* root to shift.                                                           *)
FramesOK ==
    /\ \A v \in Views : views[v].html = "undefined" => views[v].left # OffScreen
    /\ currentView # 0 =>
        /\ View0.currentSpineItem \in Items
        /\ View0.html = "attached" => View0.document \in Items
        /\ View0.navigation = "committed" =>
            View0.document = View0.currentSpineItem /\ View0.html # "attached"
        /\ ~View0.isWaitingFrameRender =>
            View0.document = View0.currentSpineItem /\ View0.html = "attached"

Settled == timers = <<>> /\ currentView # 0 /\ ~View0.isWaitingFrameRender

(* When nothing is pending any more the view shows the current item's own   *)
(* document, and no request is left over.                                   *)
SettledShowsItem ==
    Settled =>
        /\ View0.html = "attached" /\ ~View0.hidden
        /\ View0.document = View0.currentSpineItem
        /\ View0.deferredPageRequest = NoRequest

(* ... and it shows it at the offset of the current spread, unless its last *)
(* measurement was cut short by a lookup that threw, with the column count  *)
(* of that document in the present viewport, or 0 if the last measurement   *)
(* saw nothing, and a spread among those the count makes.  All              *)
(* instances share paginationInfo, so this is also what no timer of a       *)
(* removed view may undo.  One does: a resize timer that outlives its view  *)
(* sets lastViewPortSize to 0, and until the next resize or restyling the   *)
(* pagination is that of a viewport of no size; those states are excluded.  *)
SettledIsCoherent ==
    Settled /\ lastViewPortSize # 0 =>
        LET i == paginationInfo IN
        /\ lastViewPortSize = windowSize
        /\ i.columnCount \in {0, ColumnsOf[<<View0.document, i.visibleColumnCount, windowSize>>]}
        /\ i.spreadCount = CeilDiv(i.columnCount, i.visibleColumnCount)
        /\ i.currentSpreadIndex \in -1 .. i.spreadCount - 1
        /\ ~View0.cutShort => View0.left = i.visibleColumnCount * i.currentSpreadIndex

(* The current spread stops being a spread of the item (index -1) only in a *)
(* measurement that saw nothing; no page turn or request does that.         *)
LostOnlyBlind ==
    [][paginationInfo.currentSpreadIndex >= 0 /\ paginationInfo'.currentSpreadIndex < 0
        => \E v \in Views : MeasureTimer(v) /\ ~Sighted(v)]_vars

(* What the browser has still to do: a measure timer starts a show timer, a *)
(* resize timer a measure timer; a navigation goes from asked for to        *)
(* committed to the load event, which starts a measure timer, or else loads *)
(* the item put off meanwhile.                                              *)
TimerWork(q) == Len(q) + HowMany(q, [kind : {"measure", "resize"}, view : Views])
                       + HowMany(q, [kind : {"resize"}, view : Views])

FrameWork(w) ==
    CASE w.navigation = "idle"      -> 0
      [] w.navigation = "committed" -> IF NewRequestCame(w) THEN 5 ELSE 3
      [] w.navigation = "requested" -> IF NewRequestCame(w) THEN 6 ELSE 4

Work == TimerWork(timers) + (IF currentView = 0 THEN 0 ELSE FrameWork(View0))

(* Every timer and every event of the iframe leaves less to do: handlers    *)
(* start timers and navigations, but no chain of them goes on by itself.    *)
WorkRunsOut == [][Browser => Work' < Work]_vars

(* Once the calls stop, the view comes to rest.                             *)
AtRest == timers = <<>> /\ (currentView # 0 => ~View0.isWaitingFrameRender)

EventuallySettled == <>[]AtRest

(* The item the caller asked for last: that of a request put off, or the    *)
(* one loaded or being loaded.  The item shown: that of the document        *)
(* $epubHtml belongs to.                                                    *)
WantedOf(w) == IF w.deferredPageRequest # NoRequest THEN w.deferredPageRequest.spineItem
               ELSE w.currentSpineItem
ShownOf(w)  == IF w.html = "attached" THEN w.document ELSE NoItem

Wanted == IF currentView = 0 THEN NoItem ELSE WantedOf(View0)
Shown  == IF currentView = 0 THEN NoItem ELSE ShownOf(View0)

Viewer == INSTANCE ItemViewer WITH wanted <- Wanted, shown <- Shown

(* The view is an ItemViewer: whatever is clicked, however the clicks fall  *)
(* between the iframe's events and the timers, the document it presents is  *)
(* never one nobody wants any more ...                                      *)
PresentsOnlyWanted == Viewer!SafeSpec

(* ... and the last item asked for is shown in the end.                     *)
ShowsLastWanted == Viewer!Spec

(* No timer and no event of the iframe changes what is wanted: a request    *)
(* put off is opened as it was, not dropped and not replaced by another     *)
(* item (openDeferredElement, onIFrameLoad).                                *)
OnlyCallsAsk == [][Browser => Wanted' = Wanted]_vars

(* A page turn throws only in the first item of a second view, which reads  *)
(* the column count the first has left on the prototype.                    *)
TurnThrowsOnlyInLaterView ==
    [][currentView # 0 /\ (openPageLeft \/ openPageRight) /\ thrown'
        => viewCount > 1 /\ View0.html = "undefined"]_vars

-----------------------------------------------------------------------------
(* What the documentation says and the code does not do.                    *)

(* reader_view.js:148 and 162 on openPageLeft and openPageRight: "Flips the  *)
(* page ...".  With a view open, a page turn does not end in a TypeError.   *)
PageTurnsDoNotThrow ==
    [][currentView # 0 /\ (openPageLeft \/ openPageRight) => ~thrown']_vars

(* reflowable_view.js:414 on the timers of updatePagination: "Hiding and    *)
(* showing the html element puts document in place".  Said of measure       *)
(* timers that get that far: none since has thrown in looking up an element.*)
SettledInPlace == Settled /\ ~View0.cutShort => View0.left >= 0
=============================================================================
