------------------------------ MODULE FixedView ------------------------------
(***************************************************************************)
(* views/fixed_view.js and views/one_page_view.js under reader_view.js:    *)
(* the items of a spread are loaded into up to three iframes, one a side,  *)
(* and scaled together once all of them have loaded.                       *)
(*                                                                         *)
(* "Once all have loaded" is a jQuery promise: every redraw registers a    *)
(* deferred with each page view it shows an item in and waits for all of   *)
(* them.  The registrations are never removed, so a load resolves every    *)
(* deferred of its page view, those of redraws long abandoned included,    *)
(* and the callbacks run inside the load event, in the order of the        *)
(* redraws.  jQuery and Backbone catch nothing: a callback that throws     *)
(* ends the event, and the deferreds registered later stay unresolved.     *)
(*                                                                         *)
(* One view of one book.  The size of a page, width and height, is a       *)
(* number, 0 before any is known (0 by 0).  meta_size is one variable, for *)
(* the code keeps it on the prototype: all page views share it.  So the    *)
(* size of the content follows from it, whichever sides are displayed and  *)
(* however their heights are normalized, and the scale from the size of    *)
(* the content.  The viewport has a size throughout.                       *)
(***************************************************************************)
EXTENDS Spread, Sequences

CONSTANTS
    SizeOf,         \* the size the document of an item gives, 0 if it gives none
    MaxCalls        \* bound: calls and window resizes in a behaviour

ASSUME FixedViewAssumption == SizeOf \in [Items -> Nat] /\ MaxCalls \in Nat

Unknown   == -1     \* a contentMetaSize that is undefined, a document not transformed
MetaSizes == {SizeOf[i] : i \in Items} \cup {0}

VARIABLES
    spread,             \* the items to show
    isSyntheticSpread,  \* may two pages be shown side by side
    pageViews,          \* leftPageView, rightPageView and centerPageView
    redraws,            \* for each redraw, the sides it still waits for
    meta_size,          \* the size of the last page loaded that gave one
    contentMetaSize,    \* the size the content is scaled by
    reported,           \* the open pages ViewPaginationChanged last reported
    cutShort,           \* an uncaught TypeError has ended some load event
    cameLate,           \* some load event was of a document no longer asked for
    calls

layoutVars == <<meta_size, contentMetaSize>>
vars == <<spread, isSyntheticSpread, pageViews, redraws, layoutVars, reported, cutShort,
          cameLate, calls>>

(* document is the item whose document is in the iframe.  epubHtml is what  *)
(* $epubHtml refers to: nothing yet, the root of that document, or of one   *)
(* no longer there.  requested tells that the iframe has been asked for     *)
(* currentSpineItem and still shows what it showed before, loading that the *)
(* document has yet to fire its load event; size and scale are what         *)
(* transformContent last set on it.                                         *)
HtmlStates == {"undefined", "attached", "detached"}

PageView == [currentSpineItem : Items \cup {NoItem},
             epubHtml         : HtmlStates,
             requested        : BOOLEAN,
             loading          : BOOLEAN,
             document         : Items \cup {NoItem},
             size             : MetaSizes \cup {Unknown},
             scale            : MetaSizes \cup {Unknown}]

EmptyFrame(html) == [currentSpineItem |-> NoItem, epubHtml |-> html, requested |-> FALSE,
                     loading |-> FALSE, document |-> NoItem, size |-> Unknown,
                     scale |-> Unknown]

NewPageView == EmptyFrame("undefined")

Detached(html) == IF html = "undefined" THEN "undefined" ELSE "detached"

isDisplaying(page) == page.currentSpineItem # NoItem
Displayed(pages)   == {s \in Sides : isDisplaying(pages[s])}

-----------------------------------------------------------------------------
(* Layout.  resizeBook transforms the pages displayed, the left one before  *)
(* the right one, and calls css of an undefined $epubHtml when it comes to  *)
(* a page that has never loaded: a TypeError.                               *)
NeverLoaded(page)   == isDisplaying(page) /\ page.epubHtml = "undefined"
LayoutThrows(pages) == \E s \in Sides : NeverLoaded(pages[s])

transformContent(page, size, scale) ==
    IF page.epubHtml = "attached" THEN [page EXCEPT !.size = size, !.scale = scale] ELSE page

resizeBook_NoRight(pages, size, scale) ==
    [s \in Sides |-> IF isDisplaying(pages[s]) /\ s # "right"
                       THEN transformContent(pages[s], size, scale) ELSE pages[s]]

resizeBook(pages, size, scale) ==
    [s \in Sides |->
        IF ~isDisplaying(pages[s]) \/ (s = "right" /\ NeverLoaded(pages["left"])) THEN pages[s]
        ELSE transformContent(pages[s], size, scale)]

updateContentMetaSize(pages, size) == IF Displayed(pages) = {} THEN Unknown ELSE size

(* applyStyles and onPagesLoaded bring contentMetaSize up to date first; a  *)
(* redraw that has added an element calls both, which is as good as one.    *)
Layout(pages, size) ==
    /\ contentMetaSize' = updateContentMetaSize(pages, size)
    /\ pageViews' = resizeBook(pages, size, contentMetaSize')

-----------------------------------------------------------------------------
(* redraw: updatePageViewForItem for each side.  A page view with no item   *)
(* leaves the page, and its iframe with it.                                 *)
removed(page) == EmptyFrame(Detached(page.epubHtml))

loadSpineItem(page, item) ==
    IF page.currentSpineItem = item THEN page
    ELSE [page EXCEPT !.currentSpineItem = item, !.requested = TRUE]

updatePageViewForItem(page, item) ==
    IF item # NoItem THEN loadSpineItem(page, item)
    ELSE IF isDisplaying(page) THEN removed(page) ELSE page

WaitingFor_PagesAdded(items) == {s \in Sides : items[s] # NoItem /\ ~isDisplaying(pageViews[s])}

WaitingFor(items) == {s \in Sides : items[s] # NoItem}

redraw(items) ==
    /\ pageViews' = [s \in Sides |-> updatePageViewForItem(pageViews[s], items[s])]
    /\ redraws' = Append(redraws, WaitingFor(items))

openPage(item, synthetic) ==
    /\ spread' = openItem(item, synthetic)
    /\ redraw(openItem(item, synthetic))
    /\ UNCHANGED <<layoutVars, reported, cutShort, cameLate>>

-----------------------------------------------------------------------------
(* PageLoaded of side s resolves the deferreds registered with it.  Every   *)
(* redraw that waits for nothing more then lays out the book and, unless    *)
(* that throws, reports its pages; the first that throws is the last.       *)
Complete(s) == {k \in DOMAIN redraws : redraws[k] = {s}}

FirstComplete(s) == CHOOSE k \in Complete(s) : \A j \in Complete(s) : k <= j

Resolved(s, upto) ==
    [k \in DOMAIN redraws |-> IF k <= upto THEN redraws[k] \ {s} ELSE redraws[k]]

LoadedPage(page) == [page EXCEPT !.epubHtml = "attached", !.loading = FALSE]

(* The size the document gives is everyone's from now on.                   *)
updateMetaSize_FirstOnly(page) == IF meta_size = 0 THEN SizeOf[page.document] ELSE meta_size

updateMetaSize(page) == IF SizeOf[page.document] = 0 THEN meta_size ELSE SizeOf[page.document]

onPagesLoaded(s, pages, size) ==
    /\ Layout(pages, size)
    /\ IF LayoutThrows(pages)
         THEN /\ redraws' = Resolved(s, FirstComplete(s))
              /\ cutShort' = TRUE
              /\ UNCHANGED reported
         ELSE /\ redraws' = Resolved(s, Len(redraws))
              /\ reported' = validItems(spread)
              /\ UNCHANGED cutShort

(* Browsers differ in whether a document still fires its load event once    *)
(* the iframe has been asked for another; nothing in the code excludes it.  *)
onIFrameLoad(s) ==
    LET pages == [pageViews EXCEPT ![s] = LoadedPage(pageViews[s])]
        size  == updateMetaSize(pageViews[s])
    IN
    /\ pageViews[s].loading
    /\ meta_size' = size
    /\ cameLate' = (cameLate \/ pageViews[s].requested)
    /\ IF Complete(s) # {} THEN onPagesLoaded(s, pages, size)
       ELSE /\ pageViews' = pages
            /\ redraws' = Resolved(s, Len(redraws))
            /\ UNCHANGED <<contentMetaSize, reported, cutShort>>
    /\ UNCHANGED <<spread, isSyntheticSpread, calls>>

(* The document asked for replaces the one in the iframe.                   *)
Committed(page) == [page EXCEPT !.epubHtml = Detached(page.epubHtml), !.requested = FALSE,
                                !.loading = TRUE, !.document = page.currentSpineItem,
                                !.size = Unknown, !.scale = Unknown]

CommitNavigation(s) ==
    /\ pageViews[s].requested
    /\ pageViews' = [pageViews EXCEPT ![s] = Committed(pageViews[s])]
    /\ UNCHANGED <<spread, isSyntheticSpread, redraws, layoutVars, reported, cutShort,
                   cameLate, calls>>

-----------------------------------------------------------------------------
Init ==
    /\ spread = resetItems
    /\ isSyntheticSpread \in BOOLEAN
    /\ pageViews = [s \in Sides |-> NewPageView]
    /\ redraws = <<>>
    /\ meta_size = 0
    /\ contentMetaSize = Unknown
    /\ reported = {}
    /\ cutShort = FALSE
    /\ cameLate = FALSE
    /\ calls = 0

Call == calls < MaxCalls /\ calls' = calls + 1

(* The reader's calls, once its view is a fixed one.  A fixed page counts   *)
(* one page, so a page turn never is the view's own openPageNext or         *)
(* openPagePrev: it opens the item after or before those of the spread.     *)
readerOpenPage(item) == /\ Call
                        /\ openPage(item, isSyntheticSpread)
                        /\ UNCHANGED isSyntheticSpread

openPageNext == /\ validItems(spread) # {}
                /\ nextItem(lastOf(spread)) # NoItem
                /\ readerOpenPage(nextItem(lastOf(spread)))

openPagePrev == /\ validItems(spread) # {}
                /\ prevItem(firstOf(spread)) # NoItem
                /\ readerOpenPage(prevItem(firstOf(spread)))

(* The item bookmarked is that of the first page view displayed, the views  *)
(* taken in reading order.                                                  *)
bookmarkCurrentPage_LeftToRight(pages) ==
    IF isDisplaying(pages["left"]) THEN pages["left"].currentSpineItem
    ELSE IF isDisplaying(pages["center"]) THEN pages["center"].currentSpineItem
    ELSE pages["right"].currentSpineItem

bookmarkCurrentPage(pages) ==
    LET before == IF isRightToLeft THEN "right" ELSE "left"
        after  == IF isRightToLeft THEN "left" ELSE "right"
    IN  IF isDisplaying(pages[before]) THEN pages[before].currentSpineItem
        ELSE IF isDisplaying(pages["center"]) THEN pages["center"].currentSpineItem
        ELSE pages[after].currentSpineItem

(* updateSettings reopens the item bookmarked.                              *)
updateSettings(synthetic) ==
    /\ Call
    /\ isSyntheticSpread' = synthetic
    /\ IF bookmarkCurrentPage(pageViews) = NoItem
         THEN UNCHANGED <<spread, pageViews, redraws, layoutVars, reported, cutShort, cameLate>>
         ELSE openPage(bookmarkCurrentPage(pageViews), synthetic)

setStyles == /\ Call
             /\ Layout(pageViews, meta_size)
             /\ UNCHANGED <<spread, isSyntheticSpread, redraws, meta_size, reported, cutShort,
                            cameLate>>

(* onViewportResize, which fixed_view.js does not debounce.                 *)
onViewportResize ==
    /\ Call
    /\ pageViews' = IF contentMetaSize = Unknown THEN pageViews
                    ELSE resizeBook(pageViews, meta_size, contentMetaSize)
    /\ UNCHANGED <<spread, isSyntheticSpread, redraws, layoutVars, reported, cutShort, cameLate>>

OpenSpineItem  == \E item \in Items : readerOpenPage(item)
UpdateSettings == \E synthetic \in BOOLEAN : updateSettings(synthetic)
Browser        == \E s \in Sides : CommitNavigation(s) \/ onIFrameLoad(s)

Next == \/ OpenSpineItem \/ openPageNext \/ openPagePrev
        \/ UpdateSettings \/ setStyles \/ onViewportResize
        \/ Browser

Spec == Init /\ [][Next]_vars

(* The browser finishes every navigation.                                   *)
FairSpec == Spec /\ WF_vars(Browser)
=============================================================================
