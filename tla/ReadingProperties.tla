-------------------------- MODULE ReadingProperties --------------------------
(***************************************************************************)
(* What a reader who waits gets from the two views taking turns.           *)
(***************************************************************************)
EXTENDS Reading

(* The type invariant.                                                      *)
TypeOK ==
    /\ reader \in Readers
    /\ bookmark.made \in Readers
    /\ bookmark.request.spineItem \in Items \cup {NoItem}

(* A fixed view pairs an item with its neighbour whatever layout that has;  *)
(* a reflowable one is then taken for a single page.                        *)
Unmixed(r) == r.view = "fixed" => \A i \in validItems(r.spread) : isFixedLayout(i)

(* A reflowable view shows what the settings say, of an item measured for   *)
(* that, at a spread the item has: although the numbers are shared by all   *)
(* views, and a change of settings while a fixed view is shown is told to   *)
(* that one only.                                                           *)
ReflowableFits ==
    LET r == reader IN
    r.view = "reflowable" =>
        /\ r.visibleColumnCount = visibleColumns(r.isSyntheticSpread)
        /\ r.columnCount = ColumnsOf[r.currentSpineItem][r.visibleColumnCount]
        /\ r.currentSpreadIndex * r.visibleColumnCount < r.columnCount

(* What is on display.                                                      *)
Shown(r) ==
    IF r.view = "reflowable"
      THEN <<r.currentSpineItem, r.visibleColumnCount, r.currentSpreadIndex>>
      ELSE <<r.spread, r.isSyntheticSpread>>

(* A page turn and its opposite (openPageNext, openPagePrev of the reader)  *)
(* return to what was shown, also where one kind of view replaces another,  *)
(* unless a fixed page is paired with a reflowable item.                    *)
TurnsComeBack ==
    reader.view # "none" /\ Unmixed(reader) =>
        LET next == openPageNext(reader)
            prev == openPagePrev(reader)
        IN  /\ next # reader /\ Unmixed(next) => Shown(openPagePrev(next)) = Shown(reader)
            /\ prev # reader /\ Unmixed(prev) => Shown(openPageNext(prev)) = Shown(reader)

(* The page after p in the book.                                            *)
PagesOf(r, item) == IF isFixedLayout(item) THEN 1
                    ELSE ColumnsOf[item][visibleColumns(r.isSyntheticSpread)]

Follows(r, p, q) ==
    IF p.page < PagesOf(r, p.item) - 1 THEN q.item = p.item /\ q.page = p.page + 1
                                       ELSE q.item = p.item + 1 /\ q.page = 0

IsLast(r, p) == p.page >= PagesOf(r, p.item) - 1 /\ p.item = last

NextFollows(r) ==
    ~IsLast(r, lastOpenPage(r)) => Follows(r, lastOpenPage(r), firstOpenPage(openPageNext(r)))

(* openPageNext goes on where the last page shown ends: no page is skipped  *)
(* and none is shown again, with the same exception.                        *)
NoPageSkipped ==
    reader.view # "none" /\ Unmixed(reader) /\ Unmixed(openPageNext(reader))
        => NextFollows(reader)

(* The first element visible begins on the pages shown or before them: a    *)
(* page of nothing has no CFI of its own.  And it is not taller than a      *)
(* hundred pages, for the CFI keeps whole percentages of its height.        *)
HasPlace(r) ==
    r.view = "reflowable" =>
        LET k == findFirstVisibleElement(Rectangles(r), topOffset(r)) IN
        /\ k # NotFound
        /\ Rectangles(r)[k].top < topOffset(r) + r.visibleColumnCount * Height
        /\ Rectangles(r)[k].height <= 100 * (Height - 1)

(* A bookmark opened (openSpineItemElementCfi of what bookmarkCurrentPage   *)
(* returned, "the bookmark associated with currently opened page") shows    *)
(* what was shown when it was made, wherever the reader has been meanwhile, *)
(* if as many pages are shown as then.                                      *)
BookmarkComesBack ==
    [][OpenBookmark =>
        LET made == bookmark.made IN
        HasPlace(made) /\ Unmixed(made) /\ made.isSyntheticSpread = reader.isSyntheticSpread
            => Shown(reader') = Shown(made)]_vars

-----------------------------------------------------------------------------
(* reader_view.js:201 on openPageNext: "Opens the next page."  It is false, *)
(* see the README.                                                          *)
NextOpensTheNextPage == reader.view # "none" => NextFollows(reader)
=============================================================================
