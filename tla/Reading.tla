------------------------------- MODULE Reading -------------------------------
(***************************************************************************)
(* views/reader_view.js over any book, its items reflowable, fixed-layout  *)
(* or mixed, for a reader who waits: a call is taken to the end of the     *)
(* loads and timers it starts.  What happens before that end is in Reader  *)
(* and FixedView, for a book of one kind each; here the two kinds of view  *)
(* take turns, and pages are remembered.                                   *)
(***************************************************************************)
EXTENDS Spread, CfiNavigation

CONSTANTS
    PackageLayout,  \* the layout of the book
    ItemLayout,     \* the layout of an item, "" if it is that of the book
    ColumnsOf,      \* the columns an item takes, one or two of them shown
    ElementsOf,     \* where its elements are in these columns
    Height          \* the height of a column

Layouts == {"reflowable", "pre-paginated"}

(* The columns hold all the elements, though some may hold none.            *)
ColumnsHold(columns, rects) ==
    /\ rects \in Seq(Rects)
    /\ \A k \in DOMAIN rects : /\ rects[k].top < columns * Height
                              /\ bottom(rects[k]) <= columns * Height

ASSUME ReadingAssumption ==
    /\ PackageLayout \in Layouts
    /\ ItemLayout \in [Items -> Layouts \cup {""}]
    /\ Height \in Nat \ {0}
    /\ ColumnsOf \in [Items -> [{1, 2} -> Nat \ {0}]]
    /\ \A i \in Items, n \in {1, 2} : ColumnsHold(ColumnsOf[i][n], ElementsOf[i][n])

isFixedLayout(item) ==
    "pre-paginated" = IF ItemLayout[item] = "" THEN PackageLayout ELSE ItemLayout[item]

VARIABLES
    reader,     \* the reader, its view and its view's members
    bookmark    \* the last bookmark made, and what was shown then

vars == <<reader, bookmark>>

(* The members of paginationInfo outlive the view, for they are on the      *)
(* prototype; currentSpineItem is the reflowable view's.                    *)
Readers == [isSyntheticSpread  : BOOLEAN,
            view               : {"none", "reflowable", "fixed"},
            currentSpineItem   : Items \cup {NoItem},
            visibleColumnCount : {1, 2},
            columnCount        : Nat,
            currentSpreadIndex : Nat,
            spread             : Spreads]

visibleColumns(synthetic) == IF synthetic THEN 2 ELSE 1

-----------------------------------------------------------------------------
(* Page open requests.                                                      *)
Request(item, target, page, element, y) ==
    [spineItem |-> item, target |-> target, page |-> page, element |-> element, y |-> y]

NoTarget(item)              == Request(item, "none", 0, NotFound, 0)
PageIndex(item, page)       == Request(item, "page", page, NotFound, 0)
FirstPage(item)             == PageIndex(item, 0)
LastPage(item)              == Request(item, "last", 0, NotFound, 0)
ElementCfi(item, element, y) == Request(item, "cfi", 0, element, y)

TargetPage(r, req) ==
    CASE req.target = "page" -> req.page
      [] req.target = "last" -> r.columnCount - 1
      [] req.target = "cfi"  ->
            getPageForElement(ElementsOf[req.spineItem][r.visibleColumnCount][req.element],
                              req.y, Height)
      [] OTHER -> -1

-----------------------------------------------------------------------------
(* renderCurrentView keeps a view of the right kind, and tells a new one    *)
(* the settings.                                                            *)
resetCurrentView(r) ==
    [r EXCEPT !.view = "none", !.currentSpineItem = NoItem, !.spread = resetItems]

setViewSettings(r) == [r EXCEPT !.visibleColumnCount = visibleColumns(r.isSyntheticSpread)]

renderCurrentView_NotTold(r, view) ==
    IF r.view = view THEN r ELSE [resetCurrentView(r) EXCEPT !.view = view]

renderCurrentView(r, view) ==
    IF r.view = view THEN r
    ELSE LET new == [resetCurrentView(r) EXCEPT !.view = view]
         IN  IF view = "reflowable" THEN setViewSettings(new) ELSE new

(* The item loaded and measured.                                            *)
loadSpineItem(r, item) ==
    IF item = r.currentSpineItem THEN r
    ELSE [r EXCEPT !.currentSpineItem = item, !.currentSpreadIndex = 0,
                   !.columnCount = ColumnsOf[item][r.visibleColumnCount]]

openReflowable(r, req) ==
    LET w    == loadSpineItem(r, req.spineItem)
        page == TargetPage(w, req)
    IN  IF page \in 0 .. w.columnCount - 1
          THEN [w EXCEPT !.currentSpreadIndex = page \div w.visibleColumnCount] ELSE w

openFixed(r, req) == [r EXCEPT !.spread = openItem(req.spineItem, r.isSyntheticSpread)]

openPage(r, req) ==
    IF isFixedLayout(req.spineItem) THEN openFixed(renderCurrentView(r, "fixed"), req)
                                    ELSE openReflowable(renderCurrentView(r, "reflowable"), req)

-----------------------------------------------------------------------------
(* The pages shown, each with the number of pages its item has: to a fixed  *)
(* view every item is one page.                                             *)
Page(item, page, count) == [item |-> item, page |-> page, count |-> count]

openPages(r) ==
    IF r.view = "fixed" THEN {Page(i, 0, 1) : i \in validItems(r.spread)}
    ELSE LET currentPage == r.currentSpreadIndex * r.visibleColumnCount IN
         {Page(r.currentSpineItem, p, r.columnCount) :
             p \in {q \in currentPage .. currentPage + r.visibleColumnCount - 1 : q < r.columnCount}}

NoLaterThan(p, q) == p.item < q.item \/ (p.item = q.item /\ p.page <= q.page)

firstOpenPage(r) == CHOOSE p \in openPages(r) : \A q \in openPages(r) : NoLaterThan(p, q)
lastOpenPage(r)  == CHOOSE p \in openPages(r) : \A q \in openPages(r) : NoLaterThan(q, p)

(* The view has a next spread when its last page open is not its last.      *)
openPageNext_ToLast(r) ==
    LET p == lastOpenPage(r) IN
    IF p.page < p.count - 1 THEN [r EXCEPT !.currentSpreadIndex = r.currentSpreadIndex + 1]
    ELSE IF nextItem(p.item) = NoItem THEN r
    ELSE openPage(r, LastPage(nextItem(p.item)))

openPageNext(r) ==
    LET p == lastOpenPage(r) IN
    IF p.page < p.count - 1 THEN [r EXCEPT !.currentSpreadIndex = r.currentSpreadIndex + 1]
    ELSE IF nextItem(p.item) = NoItem THEN r
    ELSE openPage(r, FirstPage(nextItem(p.item)))

openPagePrev_ToFirst(r) ==
    LET p == firstOpenPage(r) IN
    IF p.page > 0 THEN [r EXCEPT !.currentSpreadIndex = r.currentSpreadIndex - 1]
    ELSE IF prevItem(p.item) = NoItem THEN r
    ELSE openPage(r, FirstPage(prevItem(p.item)))

openPagePrev_InView(r) == [r EXCEPT !.currentSpreadIndex = r.currentSpreadIndex - 1]

openPagePrev(r) ==
    LET p == firstOpenPage(r) IN
    IF p.page > 0 THEN [r EXCEPT !.currentSpreadIndex = r.currentSpreadIndex - 1]
    ELSE IF prevItem(p.item) = NoItem THEN r
    ELSE openPage(r, LastPage(prevItem(p.item)))

-----------------------------------------------------------------------------
(* The bookmarks bookmarkCurrentPage may make, as requests: of the first    *)
(* element visible, or of the first page displayed in reading order.        *)
Rectangles(r) == ElementsOf[r.currentSpineItem][r.visibleColumnCount]
topOffset(r)  == r.currentSpreadIndex * r.visibleColumnCount * Height

getFirstVisibleElementCfi(r) ==
    LET k == findFirstVisibleElement(Rectangles(r), topOffset(r)) IN
    IF k = NotFound THEN {NoTarget(r.currentSpineItem)}
    ELSE {ElementCfi(r.currentSpineItem, k, y) :
             y \in percentsOfElementHeight(Rectangles(r)[k], topOffset(r))}

firstDisplayed(spread) ==
    LET before == IF isRightToLeft THEN "right" ELSE "left"
        after  == IF isRightToLeft THEN "left" ELSE "right"
    IN  IF spread[before] # NoItem THEN spread[before]
        ELSE IF spread["center"] # NoItem THEN spread["center"] ELSE spread[after]

bookmarkCurrentPage(r) ==
    IF r.view = "reflowable" THEN getFirstVisibleElementCfi(r)
                             ELSE {NoTarget(firstDisplayed(r.spread))}

(* The bookmark updateSettings makes is opened without its CFI, which is    *)
(* read from a member bookmarks do not have: a reflowable view measures its *)
(* item anew and stays at its spread, or at the last there is.              *)
Remeasured(r) ==
    LET columns == ColumnsOf[r.currentSpineItem][r.visibleColumnCount]
        spreads == CeilDiv(columns, r.visibleColumnCount)
    IN  [r EXCEPT !.columnCount = columns,
                  !.currentSpreadIndex = IF r.currentSpreadIndex >= spreads THEN spreads - 1
                                         ELSE r.currentSpreadIndex]

updateSettings(r, synthetic) ==
    LET s == [r EXCEPT !.isSyntheticSpread = synthetic] IN
    IF s.view = "none" THEN s
    ELSE IF s.view = "reflowable" THEN Remeasured(setViewSettings(s))
    ELSE openPage(s, NoTarget(firstDisplayed(s.spread)))

-----------------------------------------------------------------------------
(* viewer_settings.js and the members on the prototype at the start.        *)
NewReader == [isSyntheticSpread |-> TRUE, view |-> "none", currentSpineItem |-> NoItem,
              visibleColumnCount |-> 2, columnCount |-> 0, currentSpreadIndex |-> 0,
              spread |-> resetItems]

NoBookmark == [request |-> NoTarget(NoItem), made |-> NewReader]

Init == reader = NewReader /\ bookmark = NoBookmark

(* Whatever is asked for is an item, or a page that it, or an element of    *)
(* it, is found to be on.                                                   *)
Requests == {NoTarget(i) : i \in Items}
            \cup UNION {{PageIndex(i, p) : p \in 0 .. ColumnsOf[i][n]} : i \in Items, n \in {1, 2}}

(* The old view is gone before the settings arrive.                         *)
openBook(synthetic, req) ==
    /\ reader' = openPage(updateSettings(resetCurrentView(reader), synthetic), req)
    /\ UNCHANGED bookmark

openElement(req) == /\ reader.view # "none"
                    /\ reader' = openPage(reader, req)
                    /\ UNCHANGED bookmark

OpenPageNext == /\ reader.view # "none"
                /\ reader' = openPageNext(reader)
                /\ UNCHANGED bookmark

OpenPagePrev == /\ reader.view # "none"
                /\ reader' = openPagePrev(reader)
                /\ UNCHANGED bookmark

UpdateSettings == \E synthetic \in BOOLEAN :
                      reader' = updateSettings(reader, synthetic) /\ UNCHANGED bookmark

(* The host keeps a bookmark and, much later perhaps, opens it.             *)
BookmarkCurrentPage == /\ reader.view # "none"
                       /\ \E req \in bookmarkCurrentPage(reader) :
                             bookmark' = [request |-> req, made |-> reader]
                       /\ UNCHANGED reader

OpenBookmark == /\ bookmark # NoBookmark
                /\ reader' = openPage(reader, bookmark.request)
                /\ UNCHANGED bookmark

OpenSomePage == \E req \in Requests :
                    openElement(req) \/ \E synthetic \in BOOLEAN : openBook(synthetic, req)

Next == \/ OpenSomePage \/ OpenPageNext \/ OpenPagePrev
        \/ UpdateSettings \/ BookmarkCurrentPage \/ OpenBookmark

Spec == Init /\ [][Next]_vars
=============================================================================
