---------------------------- MODULE ReadingProofs ----------------------------
(***************************************************************************)
(* Proofs about Reading, for every book: the round trip of a CFI, page     *)
(* turns between the two kinds of view, bookmarks.                         *)
(***************************************************************************)
EXTENDS ReadingProperties, SpreadProofs

-----------------------------------------------------------------------------
(* Rounding.                                                                *)
LEMMA DivFacts ==
    ASSUME NEW a \in Nat, NEW b \in Nat, b > 0
    PROVE  /\ a \div b \in Nat /\ (a \div b) * b <= a /\ a < (a \div b) * b + b
           /\ a % b = 0 => (a \div b) * b = a
BY Z3

LEMMA CeilDivFacts ==
    ASSUME NEW a \in Nat, NEW b \in Nat, b > 0
    PROVE  /\ CeilDiv(a, b) \in Nat
           /\ a <= CeilDiv(a, b) * b /\ CeilDiv(a, b) * b < a + b
<1>1. a + b - 1 \in Nat  OBVIOUS
<1> QED  BY <1>1, DivFacts DEF CeilDiv

LEMMA DivIs ==
    ASSUME NEW a \in Nat, NEW b \in Nat, b > 0, NEW q \in Nat, q * b <= a, a < q * b + b
    PROVE  a \div b = q
BY Z3

LEMMA PageIsBetween ==
    ASSUME NEW top \in Nat, NEW height \in Nat, NEW p \in Nat, NEW c \in Nat, NEW n \in Nat,
           p * height <= top, top < p * height + height,
           c * height < top, top < c * height + n * height
    PROVE  c <= p /\ p < c + n
<1>1. ASSUME NEW a \in Nat, NEW b \in Nat, a < b PROVE a * height + height <= b * height
  <2>1. PICK d \in Nat : b = a + 1 + d  BY <1>1
  <2>2. b * height = a * height + height + d * height /\ d * height >= 0  BY <2>1, Z3
  <2>3. a * height \in Int /\ d * height \in Int  OBVIOUS
  <2> QED  BY <2>2, <2>3
<1>2. PICK ph \in Nat, ch \in Nat, nh \in Nat :
         ph = p * height /\ ch = c * height /\ nh = (c + n) * height /\ nh = ch + n * height
  BY Z3
<1>3. CASE p < c  BY <1>1, <1>2, <1>3
<1>4. CASE c + n <= p
  <2>1. nh <= ph  BY <1>1, <1>2, <1>4
  <2> QED  BY <1>2, <2>1
<1> QED  BY <1>3, <1>4

(* The percentages lie between the place and one percent more.              *)
LEMMA PercentBounds ==
    ASSUME NEW above \in Nat, NEW h \in Nat, h > 0, NEW y,
           \/ y = CeilDiv(above, h)
           \/ above % h = 0 /\ y = above \div h + 1
    PROVE  y \in Nat /\ above <= y * h /\ y * h <= above + h
<1>1. CASE y = CeilDiv(above, h)
  <2>1. y \in Nat /\ above <= y * h /\ y * h < above + h  BY <1>1, CeilDivFacts
  <2>2. y * h \in Int  BY <2>1
  <2> QED  BY <2>1, <2>2
<1>2. CASE above % h = 0 /\ y = above \div h + 1
  <2>1. PICK q \in Nat : q * h = above /\ y = q + 1  BY <1>2, DivFacts
  <2>2. (q + 1) * h = q * h + h  BY <2>1
  <2> QED  BY <2>1, <2>2
<1> QED  BY <1>1, <1>2

(* The percentage of an element's height brings back the page.              *)
LEMMA PercentIsOnPage ==
    ASSUME NEW rect \in Rects, NEW height \in Nat, NEW c \in Nat,
           rect.top <= c * height, c * height < bottom(rect),
           rect.height <= 100 * (height - 1),
           NEW y \in percentsOfElementHeight(rect, c * height)
    PROVE  getPageForElement(rect, y, height) = c
<1>1. PICK top \in Nat, h \in Nat : top = rect.top /\ h = rect.height  BY DEF Rects
<1>2. PICK start \in Nat : start = c * height  OBVIOUS
<1>3. /\ top <= start /\ start < top + h /\ h > 0 /\ h <= 100 * (height - 1) /\ height > 1
  BY <1>1, <1>2 DEF bottom
<1>4. 100 * (start - top) \in Nat  BY <1>3
<1>5. \/ y = CeilDiv(100 * (start - top), h)
      \/ (100 * (start - top)) % h = 0 /\ y = (100 * (start - top)) \div h + 1
  BY <1>1, <1>2, <1>3 DEF percentsOfElementHeight
<1>6. y \in Nat /\ 100 * (start - top) <= y * h /\ y * h <= 100 * (start - top) + h
  BY <1>3, <1>4, <1>5, PercentBounds
<1>7. PICK p \in Nat : p = y * h  BY <1>6
<1>8. 100 * start <= 100 * top + p /\ 100 * top + p <= 100 * start + h  BY <1>3, <1>6, <1>7
<1>9. 100 * top + p \in Nat  BY <1>7
<1>10. PICK pos \in Nat : /\ pos = CeilDiv(100 * top + p, 100)
                         /\ 100 * top + p <= pos * 100 /\ pos * 100 < 100 * top + p + 100
  BY <1>9, CeilDivFacts
<1>11. start <= pos /\ pos < start + height  BY <1>3, <1>8, <1>10
<1>12. pos \div height = c  BY <1>2, <1>3, <1>11, DivIs
<1> QED  BY <1>1, <1>7, <1>10, <1>12 DEF getPageForElement

-----------------------------------------------------------------------------
(* The inductive invariant: a reflowable view shows a spread its item has,  *)
(* measured for the settings; a fixed view shows the spread of an item that *)
(* asked for such a view; a bookmark was made of a reader in such a state.  *)
Reflowed(r) ==
    /\ r.currentSpineItem \in Items
    /\ ~isFixedLayout(r.currentSpineItem)
    /\ r.visibleColumnCount = visibleColumns(r.isSyntheticSpread)
    /\ r.columnCount = ColumnsOf[r.currentSpineItem][r.visibleColumnCount]
    /\ r.currentSpreadIndex * r.visibleColumnCount < r.columnCount

Paired(r) == \E i \in Items : isFixedLayout(i) /\ r.spread = openItem(i, r.isSyntheticSpread)

Sound(r) ==
    /\ r \in Readers
    /\ r.view = "reflowable" => Reflowed(r)
    /\ r.view = "fixed" => Paired(r)

(* All that a page open request needs.                                      *)
Ready(r) == r \in Readers /\ (r.view = "reflowable" => Reflowed(r))

BookmarkIsOf(r, req) == r.view # "none" /\ Sound(r) /\ req \in bookmarkCurrentPage(r)

IInv == /\ Sound(reader)
        /\ bookmark = NoBookmark \/ BookmarkIsOf(bookmark.made, bookmark.request)

LEMMA Columns ==
    ASSUME NEW i \in Items, NEW synthetic \in BOOLEAN
    PROVE  /\ visibleColumns(synthetic) \in {1, 2}
           /\ ColumnsOf[i][visibleColumns(synthetic)] \in Nat \ {0}
<1>1. visibleColumns(synthetic) \in {1, 2}  BY DEF visibleColumns
<1> QED  BY <1>1, ReadingAssumption

LEMMA ResetItemsType == resetItems \in Spreads
BY DEF resetItems, Spreads

(* A reflowable view that renderCurrentView kept or made.                   *)
LEMMA RenderReflowable ==
    ASSUME NEW r, Ready(r), NEW w, w = renderCurrentView(r, "reflowable")
    PROVE  /\ w \in Readers /\ w.view = "reflowable"
           /\ w.isSyntheticSpread = r.isSyntheticSpread
           /\ w.visibleColumnCount = visibleColumns(r.isSyntheticSpread)
           /\ w.currentSpineItem # NoItem => Reflowed(w)
<1>1. CASE r.view = "reflowable"
  BY <1>1 DEF Ready, Reflowed, renderCurrentView
<1>2. CASE r.view # "reflowable"
  <2>1. w = [[resetCurrentView(r) EXCEPT !.view = "reflowable"]
               EXCEPT !.visibleColumnCount = visibleColumns(r.isSyntheticSpread)]
    BY <1>2, ResetItemsType DEF renderCurrentView, setViewSettings, resetCurrentView, Ready, Readers
  <2>2. visibleColumns(r.isSyntheticSpread) \in {1, 2}  BY DEF visibleColumns
  <2> QED  BY <2>1, <2>2, ResetItemsType DEF resetCurrentView, Ready, Readers
<1> QED  BY <1>1, <1>2

LEMMA LoadSpineItem ==
    ASSUME NEW r, Ready(r), NEW item \in Items, ~isFixedLayout(item),
           NEW w, w = loadSpineItem(renderCurrentView(r, "reflowable"), item)
    PROVE  /\ w \in Readers /\ w.view = "reflowable"
           /\ w.isSyntheticSpread = r.isSyntheticSpread
           /\ w.currentSpineItem = item /\ Reflowed(w)
<1> DEFINE v == renderCurrentView(r, "reflowable")
<1>1. /\ v \in Readers /\ v.view = "reflowable"
      /\ v.isSyntheticSpread = r.isSyntheticSpread
      /\ v.visibleColumnCount = visibleColumns(r.isSyntheticSpread)
      /\ v.currentSpineItem # NoItem => Reflowed(v)
  BY RenderReflowable
<1>2. w = loadSpineItem(v, item)  OBVIOUS
<1> HIDE DEF v
<1>3. CASE item = v.currentSpineItem
  BY <1>1, <1>2, <1>3, ItemsAreInts DEF loadSpineItem
<1>4. CASE item # v.currentSpineItem
  <2>1. w = [v EXCEPT !.currentSpineItem = item, !.currentSpreadIndex = 0,
                      !.columnCount = ColumnsOf[item][v.visibleColumnCount]]
    BY <1>2, <1>4 DEF loadSpineItem
  <2>2. PICK columns \in Nat \ {0} : columns = ColumnsOf[item][v.visibleColumnCount]
    BY <1>1, Columns DEF Ready, Readers
  <2>3. PICK v1 : v1 = [v EXCEPT !.currentSpineItem = item]  OBVIOUS
  <2>4. PICK v2 : v2 = [v1 EXCEPT !.currentSpreadIndex = 0]  OBVIOUS
  <2>5. w = [v2 EXCEPT !.columnCount = columns]  BY <2>1, <2>2, <2>3, <2>4
  <2>6. v1 \in Readers /\ v1.currentSpineItem = item /\ v1.view = v.view
        /\ v1.visibleColumnCount = v.visibleColumnCount
        /\ v1.isSyntheticSpread = v.isSyntheticSpread
    BY <1>1, <2>3 DEF Readers
  <2>7. v2 \in Readers /\ v2.currentSpineItem = item /\ v2.view = v.view
        /\ v2.currentSpreadIndex = 0
        /\ v2.visibleColumnCount = v.visibleColumnCount
        /\ v2.isSyntheticSpread = v.isSyntheticSpread
    BY <2>4, <2>6 DEF Readers
  <2>8. /\ w \in Readers /\ w.currentSpineItem = item /\ w.currentSpreadIndex = 0
        /\ w.visibleColumnCount = v.visibleColumnCount /\ w.columnCount = columns
        /\ w.view = v.view /\ w.isSyntheticSpread = v.isSyntheticSpread
    BY <2>5, <2>7 DEF Readers
  <2>9. w.currentSpreadIndex * w.visibleColumnCount < w.columnCount  BY <2>8 DEF Readers
  <2>10. ~isFixedLayout(w.currentSpineItem)  BY <2>8
  <2>11. w.columnCount = ColumnsOf[w.currentSpineItem][w.visibleColumnCount]  BY <2>2, <2>8
  <2>12. Reflowed(w)  BY <1>1, <2>8, <2>9, <2>10, <2>11 DEF Reflowed
  <2> QED  BY <1>1, <2>8, <2>12
<1> QED  BY <1>3, <1>4

LEMMA OpenReflowable ==
    ASSUME NEW r, Ready(r), NEW req, req.spineItem \in Items, ~isFixedLayout(req.spineItem),
           NEW o, o = openPage(r, req)
    PROVE  /\ Sound(o) /\ o.view = "reflowable"
           /\ o.isSyntheticSpread = r.isSyntheticSpread
           /\ o.currentSpineItem = req.spineItem
           /\ TargetPage(o, req) \in 0 .. o.columnCount - 1
                => o.currentSpreadIndex = TargetPage(o, req) \div o.visibleColumnCount
<1> DEFINE w == loadSpineItem(renderCurrentView(r, "reflowable"), req.spineItem)
           page == TargetPage(w, req)
<1>1. /\ w \in Readers /\ w.view = "reflowable"
      /\ w.isSyntheticSpread = r.isSyntheticSpread
      /\ w.currentSpineItem = req.spineItem /\ Reflowed(w)
  BY LoadSpineItem
<1>2. o = IF page \in 0 .. w.columnCount - 1
            THEN [w EXCEPT !.currentSpreadIndex = page \div w.visibleColumnCount] ELSE w
  BY DEF openPage, openReflowable
<1> HIDE DEF w
<1>3. CASE page \in 0 .. w.columnCount - 1
  <2>1. w.columnCount \in Nat /\ w.visibleColumnCount \in {1, 2}  BY <1>1 DEF Readers
  <2>2. PICK p \in Nat, q \in Int : p = page /\ q = p \div w.visibleColumnCount  BY <1>3, <2>1
  <2>3. q \in Nat /\ q * w.visibleColumnCount <= p  BY <2>1, <2>2, DivFacts
  <2>4. o = [w EXCEPT !.currentSpreadIndex = q]  BY <1>2, <1>3, <2>2
  <2>5. o \in Readers /\ o.currentSpreadIndex = q /\ o.view = "reflowable"
    BY <1>1, <2>3, <2>4 DEF Readers
  <2>6. q * w.visibleColumnCount < w.columnCount  BY <1>3, <2>1, <2>2, <2>3
  <2>7. Reflowed(o)  BY <1>1, <2>3, <2>4, <2>6 DEF Readers, Reflowed
  <2>8. /\ TargetPage(o, req) = page /\ o.visibleColumnCount = w.visibleColumnCount
        /\ o.isSyntheticSpread = w.isSyntheticSpread
        /\ o.currentSpineItem = w.currentSpineItem
    BY <1>1, <2>4 DEF Readers, TargetPage
  <2> QED  BY <1>1, <2>2, <2>5, <2>7, <2>8 DEF Sound
<1>4. CASE page \notin 0 .. w.columnCount - 1
  BY <1>1, <1>2, <1>4 DEF Sound
<1> QED  BY <1>3, <1>4

LEMMA OpenFixed ==
    ASSUME NEW r, Ready(r), NEW req, req.spineItem \in Items, isFixedLayout(req.spineItem),
           NEW o, o = openPage(r, req)
    PROVE  /\ Sound(o) /\ o.view = "fixed"
           /\ o.isSyntheticSpread = r.isSyntheticSpread
           /\ o.spread = openItem(req.spineItem, r.isSyntheticSpread)
<1> DEFINE w == renderCurrentView(r, "fixed")
           spread == openItem(req.spineItem, r.isSyntheticSpread)
<1>1. w \in Readers /\ w.view = "fixed" /\ w.isSyntheticSpread = r.isSyntheticSpread
  BY ResetItemsType DEF renderCurrentView, resetCurrentView, Ready, Readers
<1>2. o = [w EXCEPT !.spread = openItem(req.spineItem, w.isSyntheticSpread)]
  BY DEF openPage, openFixed
<1> HIDE DEF w
<1>3. spread \in Spreads  BY OpenItem DEF Ready, Readers
<1>4. /\ o \in Readers /\ o.view = "fixed" /\ o.spread = spread
      /\ o.isSyntheticSpread = r.isSyntheticSpread
  BY <1>1, <1>2, <1>3 DEF Readers
<1>5. Paired(o)  BY <1>4 DEF Paired
<1> QED  BY <1>4, <1>5 DEF Sound

LEMMA OpenPageIsSound ==
    ASSUME NEW r, Ready(r), NEW req, req.spineItem \in Items
    PROVE  Sound(openPage(r, req))
BY OpenReflowable, OpenFixed

-----------------------------------------------------------------------------
(* The first and the last page open.                                        *)
LEMMA ReflowableEnds ==
    ASSUME NEW r, Sound(r), r.view = "reflowable"
    PROVE  LET c == r.currentSpreadIndex * r.visibleColumnCount
               l == IF r.visibleColumnCount = 2 /\ c + 1 < r.columnCount THEN c + 1 ELSE c
           IN  /\ firstOpenPage(r) = Page(r.currentSpineItem, c, r.columnCount)
               /\ lastOpenPage(r) = Page(r.currentSpineItem, l, r.columnCount)
<1>1. PICK item, c \in Nat, n \in {1, 2}, count \in Nat :
         /\ item = r.currentSpineItem /\ n = r.visibleColumnCount /\ count = r.columnCount
         /\ c = r.currentSpreadIndex * r.visibleColumnCount /\ c < count /\ item \in Int
  BY ItemsAreInts DEF Sound, Readers, Reflowed
<1>2. PICK l \in Nat : l = IF n = 2 /\ c + 1 < count THEN c + 1 ELSE c  OBVIOUS
<1> DEFINE S == {q \in c .. c + n - 1 : q < count}
           P == {Page(item, p, count) : p \in S}
<1>3. openPages(r) = P  BY <1>1 DEF openPages
<1>4. c \in S /\ l \in S /\ (\A p \in S : p \in Nat /\ c <= p /\ p <= l)  BY <1>1, <1>2
<1> HIDE DEF S
<1>5. /\ \A p : Page(item, p, count).item = item /\ Page(item, p, count).page = p
  BY DEF Page
<1>6. firstOpenPage(r) = Page(item, c, count)
  <2> DEFINE f == firstOpenPage(r)
  <2>1. /\ Page(item, c, count) \in P
        /\ \A q \in P : NoLaterThan(Page(item, c, count), q)
    BY <1>4, <1>5 DEF NoLaterThan
  <2>2. f \in P /\ NoLaterThan(f, Page(item, c, count))  BY <1>3, <2>1 DEF firstOpenPage
  <2>3. PICK p \in S : f = Page(item, p, count)  BY <2>2
  <2>4. p <= c  BY <1>1, <1>5, <2>2, <2>3 DEF NoLaterThan
  <2> QED  BY <1>4, <2>3, <2>4
<1>7. lastOpenPage(r) = Page(item, l, count)
  <2> DEFINE f == lastOpenPage(r)
  <2>1. /\ Page(item, l, count) \in P
        /\ \A q \in P : NoLaterThan(q, Page(item, l, count))
    BY <1>4, <1>5 DEF NoLaterThan
  <2>2. f \in P /\ NoLaterThan(Page(item, l, count), f)  BY <1>3, <2>1 DEF lastOpenPage
  <2>3. PICK p \in S : f = Page(item, p, count)  BY <2>2
  <2>4. l <= p  BY <1>1, <1>5, <2>2, <2>3 DEF NoLaterThan
  <2> QED  BY <1>4, <2>3, <2>4
<1> QED  BY <1>1, <1>2, <1>6, <1>7

LEMMA FixedEnds ==
    ASSUME NEW r, Sound(r), r.view = "fixed"
    PROVE  /\ firstOpenPage(r) = Page(firstOf(r.spread), 0, 1)
           /\ lastOpenPage(r) = Page(lastOf(r.spread), 0, 1)
           /\ firstOf(r.spread) \in validItems(r.spread)
           /\ lastOf(r.spread) \in validItems(r.spread)
           /\ \A j \in validItems(r.spread) :
                 /\ j \in Items /\ openItem(j, r.isSyntheticSpread) = r.spread
                 /\ firstOf(r.spread) <= j /\ j <= lastOf(r.spread)
<1> DEFINE V == validItems(r.spread)
           a == firstOf(r.spread)
           b == lastOf(r.spread)
           P == {Page(i, 0, 1) : i \in V}
<1>1. PICK i \in Items : r.spread = openItem(i, r.isSyntheticSpread)  BY DEF Sound, Paired
<1>2. r.isSyntheticSpread \in BOOLEAN  BY DEF Sound, Readers
<1>3. /\ a \in V /\ b \in V
      /\ \A j \in V : /\ j \in Items /\ openItem(j, r.isSyntheticSpread) = r.spread
                     /\ a <= j /\ j <= b
  BY <1>1, <1>2, FirstLast, SpreadsPartition
<1>4. openPages(r) = P  BY DEF openPages
<1> HIDE DEF V, a, b
<1>5. \A j : Page(j, 0, 1).item = j /\ Page(j, 0, 1).page = 0  BY DEF Page
<1>6. \A j \in V : j \in Int  BY <1>3, ItemsAreInts
<1>7. firstOpenPage(r) = Page(a, 0, 1)
  <2> DEFINE f == firstOpenPage(r)
  <2>1. Page(a, 0, 1) \in P /\ \A q \in P : NoLaterThan(Page(a, 0, 1), q)
    BY <1>3, <1>5, <1>6 DEF NoLaterThan
  <2>2. f \in P /\ NoLaterThan(f, Page(a, 0, 1))  BY <1>4, <2>1 DEF firstOpenPage
  <2>3. PICK j \in V : f = Page(j, 0, 1)  BY <2>2
  <2>4. j <= a  BY <1>3, <1>5, <1>6, <2>2, <2>3 DEF NoLaterThan
  <2> QED  BY <1>3, <1>6, <2>3, <2>4
<1>8. lastOpenPage(r) = Page(b, 0, 1)
  <2> DEFINE f == lastOpenPage(r)
  <2>1. Page(b, 0, 1) \in P /\ \A q \in P : NoLaterThan(q, Page(b, 0, 1))
    BY <1>3, <1>5, <1>6 DEF NoLaterThan
  <2>2. f \in P /\ NoLaterThan(Page(b, 0, 1), f)  BY <1>4, <2>1 DEF lastOpenPage
  <2>3. PICK j \in V : f = Page(j, 0, 1)  BY <2>2
  <2>4. b <= j  BY <1>3, <1>5, <1>6, <2>2, <2>3 DEF NoLaterThan
  <2> QED  BY <1>3, <1>6, <2>3, <2>4
<1> QED  BY <1>3, <1>7, <1>8 DEF V, a, b

(* The ends as plain numbers, of either kind of view.                       *)
LEMMA Ends ==
    ASSUME NEW r, Sound(r), r.view # "none"
    PROVE  /\ firstOpenPage(r).item \in Items /\ lastOpenPage(r).item \in Items
           /\ firstOpenPage(r).page \in Nat /\ lastOpenPage(r).page \in Nat
           /\ r.view = "fixed" => /\ firstOpenPage(r).page = 0
                                  /\ lastOpenPage(r).page = 0 /\ lastOpenPage(r).count = 1
<1>1. r.view \in {"reflowable", "fixed"}  BY DEF Sound, Readers
<1>2. CASE r.view = "reflowable"
  <2>1. /\ r.currentSpineItem \in Items /\ r.columnCount \in Nat
        /\ r.currentSpreadIndex * r.visibleColumnCount \in Nat
    BY <1>2 DEF Sound, Readers, Reflowed
  <2> QED  BY <1>2, <2>1, ReflowableEnds DEF Page
<1>3. CASE r.view = "fixed"
  BY <1>3, FixedEnds DEF Page
<1> QED  BY <1>1, <1>2, <1>3

(* A turn within a reflowable view.                                         *)
LEMMA NextInView ==
    ASSUME NEW r, Sound(r), r.view # "none", lastOpenPage(r).page < lastOpenPage(r).count - 1,
           NEW o, o = [r EXCEPT !.currentSpreadIndex = r.currentSpreadIndex + 1]
    PROVE  /\ Sound(o) /\ o.view = "reflowable" /\ r.view = "reflowable"
           /\ o.currentSpineItem = r.currentSpineItem
           /\ o.visibleColumnCount = r.visibleColumnCount
           /\ o.currentSpreadIndex = r.currentSpreadIndex + 1
           /\ o.isSyntheticSpread = r.isSyntheticSpread
           /\ firstOpenPage(o).item = lastOpenPage(r).item
           /\ firstOpenPage(o).page = lastOpenPage(r).page + 1
<1>1. r.view = "reflowable"  BY Ends DEF Sound, Readers
<1>2. PICK idx \in Nat, n \in {1, 2}, count \in Nat, c \in Nat :
         /\ idx = r.currentSpreadIndex /\ n = r.visibleColumnCount /\ count = r.columnCount
         /\ c = idx * n /\ c < count
  BY <1>1 DEF Sound, Readers, Reflowed
<1>3. PICK l \in Nat : l = IF n = 2 /\ c + 1 < count THEN c + 1 ELSE c  OBVIOUS
<1>4. lastOpenPage(r) = Page(r.currentSpineItem, l, count)  BY <1>1, <1>2, <1>3, ReflowableEnds
<1>5. l = c + n - 1 /\ l + 1 < count  BY <1>2, <1>3, <1>4 DEF Page
<1>6. (idx + 1) * n = l + 1  BY <1>2, <1>5
<1>7. /\ o \in Readers /\ o.currentSpreadIndex = idx + 1 /\ o.visibleColumnCount = n
      /\ o.columnCount = count /\ o.currentSpineItem = r.currentSpineItem
      /\ o.view = "reflowable" /\ o.isSyntheticSpread = r.isSyntheticSpread
  BY <1>1, <1>2 DEF Sound, Readers
<1>8. Sound(o)  BY <1>1, <1>2, <1>5, <1>6, <1>7 DEF Sound, Reflowed
<1>9. firstOpenPage(o) = Page(r.currentSpineItem, l + 1, count)
  BY <1>6, <1>7, <1>8, ReflowableEnds
<1> QED  BY <1>1, <1>2, <1>4, <1>7, <1>8, <1>9 DEF Page

LEMMA PrevInView ==
    ASSUME NEW r, Sound(r), r.view # "none", firstOpenPage(r).page > 0,
           NEW o, o = [r EXCEPT !.currentSpreadIndex = r.currentSpreadIndex - 1]
    PROVE  /\ Sound(o) /\ o.view = "reflowable" /\ r.view = "reflowable"
           /\ o.currentSpineItem = r.currentSpineItem
           /\ o.visibleColumnCount = r.visibleColumnCount
           /\ o.currentSpreadIndex = r.currentSpreadIndex - 1
           /\ o.isSyntheticSpread = r.isSyntheticSpread
           /\ lastOpenPage(o).page < lastOpenPage(o).count - 1
<1>1. r.view = "reflowable"  BY Ends DEF Sound, Readers
<1>2. PICK idx \in Nat, n \in {1, 2}, count \in Nat, c \in Nat :
         /\ idx = r.currentSpreadIndex /\ n = r.visibleColumnCount /\ count = r.columnCount
         /\ c = idx * n /\ c < count
  BY <1>1 DEF Sound, Readers, Reflowed
<1>3. c > 0  BY <1>1, <1>2, ReflowableEnds DEF Page
<1>4. idx - 1 \in Nat /\ (idx - 1) * n = c - n  BY <1>2, <1>3
<1>5. /\ o \in Readers /\ o.currentSpreadIndex = idx - 1 /\ o.visibleColumnCount = n
      /\ o.columnCount = count /\ o.currentSpineItem = r.currentSpineItem
      /\ o.view = "reflowable" /\ o.isSyntheticSpread = r.isSyntheticSpread
  BY <1>1, <1>2, <1>4 DEF Sound, Readers
<1>6. c - n < count  BY <1>2
<1>7. Sound(o)  BY <1>1, <1>2, <1>4, <1>5, <1>6 DEF Sound, Reflowed
<1>8. PICK l \in Int : l = IF n = 2 /\ c - n + 1 < count THEN c - n + 1 ELSE c - n  BY <1>2
<1>9. lastOpenPage(o) = Page(r.currentSpineItem, l, count)
  BY <1>4, <1>5, <1>7, <1>8, ReflowableEnds
<1>10. l < count - 1  BY <1>2, <1>8
<1> QED  BY <1>1, <1>2, <1>5, <1>7, <1>9, <1>10 DEF Page

-----------------------------------------------------------------------------
(* Each operation keeps a reader sound.                                     *)
LEMMA NextIsSound ==
    ASSUME NEW r, Sound(r), r.view # "none"
    PROVE  Sound(openPageNext(r))
<1> DEFINE p == lastOpenPage(r)
<1>1. CASE p.page < p.count - 1  BY <1>1, NextInView DEF openPageNext
<1>2. CASE ~(p.page < p.count - 1) /\ nextItem(p.item) = NoItem  BY <1>2 DEF openPageNext
<1>3. CASE ~(p.page < p.count - 1) /\ nextItem(p.item) # NoItem
  <2>1. nextItem(p.item) \in Items  BY <1>3, Ends, PrevNext
  <2>2. FirstPage(nextItem(p.item)).spineItem \in Items
    BY <2>1 DEF FirstPage, PageIndex, Request
  <2> QED  BY <1>3, <2>2, OpenPageIsSound DEF openPageNext, Sound, Ready
<1> QED  BY <1>1, <1>2, <1>3

LEMMA PrevIsSound ==
    ASSUME NEW r, Sound(r), r.view # "none"
    PROVE  Sound(openPagePrev(r))
<1> DEFINE p == firstOpenPage(r)
<1>1. CASE p.page > 0  BY <1>1, PrevInView DEF openPagePrev
<1>2. CASE ~(p.page > 0) /\ prevItem(p.item) = NoItem  BY <1>2 DEF openPagePrev
<1>3. CASE ~(p.page > 0) /\ prevItem(p.item) # NoItem
  <2>1. prevItem(p.item) \in Items  BY <1>3, Ends, PrevNext
  <2>2. LastPage(prevItem(p.item)).spineItem \in Items  BY <2>1 DEF LastPage, Request
  <2> QED  BY <1>3, <2>2, OpenPageIsSound DEF openPagePrev, Sound, Ready
<1> QED  BY <1>1, <1>2, <1>3

LEMMA FirstDisplayed ==
    ASSUME NEW r, Sound(r), r.view = "fixed"
    PROVE  /\ firstDisplayed(r.spread) = firstOf(r.spread)
           /\ firstDisplayed(r.spread) \in validItems(r.spread)
           /\ firstDisplayed(r.spread) \in Items
<1>1. PICK i \in Items : r.spread = openItem(i, r.isSyntheticSpread)  BY DEF Sound, Paired
<1>2. r.isSyntheticSpread \in BOOLEAN  BY DEF Sound, Readers
<1>3. firstDisplayed(r.spread) = firstOf(r.spread)
  BY <1>1, <1>2, FirstIsBefore DEF firstDisplayed
<1> QED  BY <1>3, FixedEnds

LEMMA BookmarkType ==
    ASSUME NEW r, Sound(r), r.view # "none", NEW req \in bookmarkCurrentPage(r)
    PROVE  req.spineItem \in Items
<1>1. CASE r.view = "reflowable"
  <2>1. req.spineItem = r.currentSpineItem
    BY <1>1 DEF bookmarkCurrentPage, getFirstVisibleElementCfi, NoTarget, ElementCfi, Request
  <2> QED  BY <1>1, <2>1 DEF Sound, Reflowed
<1>2. CASE r.view # "reflowable"
  <2>1. r.view = "fixed"  BY <1>2 DEF Sound, Readers
  <2>2. req = NoTarget(firstDisplayed(r.spread))  BY <1>2 DEF bookmarkCurrentPage
  <2> QED  BY <2>1, <2>2, FirstDisplayed DEF NoTarget, Request
<1> QED  BY <1>1, <1>2

LEMMA LastSpread ==
    ASSUME NEW columns \in Nat, columns > 0, NEW n \in {1, 2}, NEW idx \in Nat,
           NEW new, new = IF idx >= CeilDiv(columns, n) THEN CeilDiv(columns, n) - 1 ELSE idx
    PROVE  new \in Nat /\ new * n < columns
<1>1. n \in Nat /\ n > 0  OBVIOUS
<1>2. PICK spreads \in Nat : /\ spreads = CeilDiv(columns, n)
                             /\ columns <= spreads * n /\ spreads * n < columns + n
  BY <1>1, CeilDivFacts
<1>3. spreads > 0 /\ new = IF idx >= spreads THEN spreads - 1 ELSE idx  BY <1>2
<1> QED  BY <1>2, <1>3

LEMMA SettingsKeepSound ==
    ASSUME NEW r, Sound(r), NEW synthetic \in BOOLEAN
    PROVE  Sound(updateSettings(r, synthetic))
<1> DEFINE s == [r EXCEPT !.isSyntheticSpread = synthetic]
           o == updateSettings(r, synthetic)
<1>1. /\ s \in Readers /\ s.view = r.view /\ s.spread = r.spread
      /\ s.isSyntheticSpread = synthetic /\ s.currentSpineItem = r.currentSpineItem
  BY DEF Sound, Readers
<1>2. CASE r.view = "none"
  BY <1>1, <1>2 DEF updateSettings, Sound
<1>3. CASE r.view = "reflowable"
  <2> DEFINE w == [s EXCEPT !.visibleColumnCount = visibleColumns(synthetic)]
  <2>1. visibleColumns(synthetic) \in {1, 2} /\ r.currentSpineItem \in Items
    BY <1>3 DEF visibleColumns, Sound, Reflowed
  <2>2. /\ w \in Readers /\ w.visibleColumnCount = visibleColumns(synthetic)
        /\ w.view = "reflowable" /\ w.isSyntheticSpread = synthetic
        /\ w.currentSpineItem = r.currentSpineItem
    BY <1>1, <1>3, <2>1 DEF Readers
  <2>3. o = Remeasured(w)  BY <1>1, <1>3 DEF updateSettings, setViewSettings
  <2>4. PICK columns \in Nat :
           columns = ColumnsOf[w.currentSpineItem][w.visibleColumnCount] /\ columns > 0
    BY <2>1, <2>2, Columns
  <2>5. PICK new : new = IF w.currentSpreadIndex >= CeilDiv(columns, w.visibleColumnCount)
                           THEN CeilDiv(columns, w.visibleColumnCount) - 1
                           ELSE w.currentSpreadIndex
    OBVIOUS
  <2> HIDE DEF w, s
  <2>6. new \in Nat /\ new * w.visibleColumnCount < columns
    <3>1. w.currentSpreadIndex \in Nat /\ w.visibleColumnCount \in {1, 2}  BY <2>2 DEF Readers
    <3> QED  BY <2>4, <2>5, <3>1, LastSpread
  <2>7. o = [w EXCEPT !.columnCount = columns, !.currentSpreadIndex = new]
    BY <2>3, <2>4, <2>5 DEF Remeasured
  <2>8. /\ o \in Readers /\ o.view = "reflowable" /\ o.isSyntheticSpread = synthetic
        /\ o.currentSpineItem = r.currentSpineItem /\ o.currentSpreadIndex = new
        /\ o.visibleColumnCount = w.visibleColumnCount /\ o.columnCount = columns
    BY <2>2, <2>6, <2>7 DEF Readers
  <2>9. Reflowed(o)  BY <1>3, <2>2, <2>4, <2>6, <2>8 DEF Sound, Reflowed
  <2> QED  BY <2>8, <2>9 DEF Sound
<1>4. CASE r.view = "fixed"
  <2>1. o = openPage(s, NoTarget(firstDisplayed(r.spread)))
    BY <1>1, <1>4 DEF updateSettings
  <2>2. NoTarget(firstDisplayed(r.spread)).spineItem \in Items
    BY <1>4, FirstDisplayed DEF NoTarget, Request
  <2>3. Ready(s)  BY <1>1, <1>4 DEF Ready
  <2> QED  BY <2>1, <2>2, <2>3, OpenPageIsSound
<1> QED  BY <1>2, <1>3, <1>4 DEF Sound, Readers

LEMMA RequestType == \A req \in Requests : req.spineItem \in Items
<1> SUFFICES ASSUME NEW req \in Requests PROVE req.spineItem \in Items  OBVIOUS
<1>1. \/ \E i \in Items : req = NoTarget(i)
      \/ \E i \in Items : \E p : req = PageIndex(i, p)
  BY DEF Requests
<1> QED  BY <1>1 DEF NoTarget, PageIndex, Request

LEMMA InitIInv == Init => IInv
<1> SUFFICES ASSUME Init PROVE IInv  OBVIOUS
<1>1. NewReader \in Readers /\ NewReader.view = "none"
  BY ResetItemsType DEF NewReader, Readers
<1> QED  BY <1>1 DEF Init, IInv, Sound

LEMMA StepIInv == IInv /\ [Next]_vars => IInv'
<1> SUFFICES ASSUME IInv, [Next]_vars PROVE IInv'  OBVIOUS
<1>1. Sound(reader)  BY DEF IInv
<1>2. Ready(reader)  BY <1>1 DEF Sound, Ready
<1>3. ASSUME Sound(reader'), UNCHANGED bookmark PROVE IInv'
  BY <1>3 DEF IInv
<1>4. ASSUME NEW req \in Requests, openElement(req) PROVE IInv'
  BY <1>2, <1>3, <1>4, RequestType, OpenPageIsSound DEF openElement
<1>5. ASSUME NEW req \in Requests, NEW synthetic \in BOOLEAN, openBook(synthetic, req)
      PROVE  IInv'
  <2>1. Sound(resetCurrentView(reader))
    BY <1>1, ResetItemsType DEF resetCurrentView, Sound, Readers
  <2>2. Ready(updateSettings(resetCurrentView(reader), synthetic))
    BY <2>1, SettingsKeepSound DEF Sound, Ready
  <2> QED  BY <1>3, <1>5, <2>2, RequestType, OpenPageIsSound DEF openBook
<1>6. CASE OpenPageNext  BY <1>1, <1>3, <1>6, NextIsSound DEF OpenPageNext
<1>7. CASE OpenPagePrev  BY <1>1, <1>3, <1>7, PrevIsSound DEF OpenPagePrev
<1>8. CASE UpdateSettings  BY <1>1, <1>3, <1>8, SettingsKeepSound DEF UpdateSettings
<1>9. CASE BookmarkCurrentPage
  <2>1. PICK req \in bookmarkCurrentPage(reader) :
           /\ bookmark' = [request |-> req, made |-> reader] /\ reader.view # "none"
           /\ reader' = reader
    BY <1>9 DEF BookmarkCurrentPage
  <2> QED  BY <1>1, <2>1 DEF IInv, BookmarkIsOf
<1>10. CASE OpenBookmark
  <2>1. bookmark.request.spineItem \in Items
    BY <1>10, BookmarkType DEF OpenBookmark, IInv, BookmarkIsOf
  <2> QED  BY <1>2, <1>3, <1>10, <2>1, OpenPageIsSound DEF OpenBookmark
<1>11. CASE UNCHANGED vars  BY <1>1, <1>3, <1>11 DEF vars
<1> QED  BY <1>4, <1>5, <1>6, <1>7, <1>8, <1>9, <1>10, <1>11 DEF Next, OpenSomePage

(* What the calls rely on and keep: types, page counts that fit, bookmarks  *)
(* made by such a reader.                                                   *)
THEOREM IInvIsInvariant == Spec => []IInv
BY InitIInv, StepIInv, PTL DEF Spec

-----------------------------------------------------------------------------
(* Readers and bookmarks have their types, whatever the book and whatever   *)
(* calls are made.                                                          *)
THEOREM TypeCorrect == Spec => []TypeOK
<1>1. IInv => TypeOK
  <2> SUFFICES ASSUME IInv PROVE TypeOK  OBVIOUS
  <2>1. CASE bookmark = NoBookmark
    <3>1. NewReader \in Readers  BY ResetItemsType DEF NewReader, Readers
    <3>2. bookmark.made = NewReader /\ bookmark.request.spineItem = NoItem
      BY <2>1 DEF NoBookmark, NoTarget, Request
    <3> QED  BY <3>1, <3>2 DEF IInv, Sound, TypeOK
  <2>2. CASE BookmarkIsOf(bookmark.made, bookmark.request)
    <3>1. bookmark.request.spineItem \in Items  BY <2>2, BookmarkType DEF BookmarkIsOf
    <3> QED  BY <2>2, <3>1 DEF IInv, BookmarkIsOf, Sound, TypeOK
  <2> QED  BY <2>1, <2>2 DEF IInv
<1> QED  BY <1>1, IInvIsInvariant, PTL

(* A reflowable view always shows a spread its item has, laid out as the    *)
(* settings say: renderCurrentView and updateSettings, whichever view the   *)
(* settings were changed in.                                                *)
THEOREM ReflowableAlwaysFits == Spec => []ReflowableFits
<1>1. IInv => ReflowableFits  BY DEF IInv, Sound, Reflowed, ReflowableFits
<1> QED  BY <1>1, IInvIsInvariant, PTL

-----------------------------------------------------------------------------
(* A fixed view shows a spread all of whose items ask for it, again when    *)
(* any of them is opened.                                                   *)
LEMMA FixedAgain ==
    ASSUME NEW r, Sound(r), r.view = "fixed", Unmixed(r), NEW i \in validItems(r.spread),
           NEW s, Sound(s), s.isSyntheticSpread = r.isSyntheticSpread,
           NEW req, req.spineItem = i
    PROVE  Shown(openPage(s, req)) = Shown(r)
<1>1. i \in Items /\ openItem(i, r.isSyntheticSpread) = r.spread  BY FixedEnds
<1>2. isFixedLayout(i)  BY DEF Unmixed
<1> DEFINE o == openPage(s, req)
<1>3. o.view = "fixed" /\ o.isSyntheticSpread = r.isSyntheticSpread /\ o.spread = r.spread
  BY <1>1, <1>2, OpenFixed DEF Sound, Ready
<1> QED  BY <1>3 DEF Shown

(* And a reflowable view its spread, when one of its pages is opened.       *)
LEMMA ReflowableAgain ==
    ASSUME NEW r, Sound(r), r.view = "reflowable",
           NEW s, Sound(s), s.isSyntheticSpread = r.isSyntheticSpread,
           NEW req, req.spineItem = r.currentSpineItem,
           TargetPage(r, req) \in 0 .. r.columnCount - 1,
           TargetPage(r, req) \div r.visibleColumnCount = r.currentSpreadIndex
    PROVE  Shown(openPage(s, req)) = Shown(r)
<1> DEFINE o == openPage(s, req)
<1>1. /\ req.spineItem \in Items /\ ~isFixedLayout(req.spineItem) /\ Ready(s)
  BY DEF Sound, Reflowed, Ready
<1>2. /\ Sound(o) /\ o.view = "reflowable" /\ o.currentSpineItem = r.currentSpineItem
      /\ o.isSyntheticSpread = r.isSyntheticSpread
      /\ TargetPage(o, req) \in 0 .. o.columnCount - 1
           => o.currentSpreadIndex = TargetPage(o, req) \div o.visibleColumnCount
  BY <1>1, OpenReflowable
<1> HIDE DEF o
<1>3. /\ o.visibleColumnCount = r.visibleColumnCount /\ o.columnCount = r.columnCount
  BY <1>2 DEF Sound, Reflowed
<1>4. TargetPage(o, req) = TargetPage(r, req)  BY <1>3 DEF TargetPage
<1>5. o.currentSpreadIndex = r.currentSpreadIndex  BY <1>2, <1>3, <1>4
<1> QED  BY <1>2, <1>3, <1>5 DEF Shown, o

LEMMA PlaceComesBack ==
    ASSUME NEW r, Sound(r), r.view = "reflowable", HasPlace(r),
           NEW req \in bookmarkCurrentPage(r)
    PROVE  /\ req.spineItem = r.currentSpineItem
           /\ TargetPage(r, req) \in 0 .. r.columnCount - 1
           /\ TargetPage(r, req) \div r.visibleColumnCount = r.currentSpreadIndex
<1> DEFINE rects == Rectangles(r)
           k == findFirstVisibleElement(rects, topOffset(r))
<1>1. PICK idx \in Nat, n \in {1, 2}, count \in Nat, item \in Items :
         /\ idx = r.currentSpreadIndex /\ n = r.visibleColumnCount /\ count = r.columnCount
         /\ item = r.currentSpineItem /\ idx * n < count
         /\ count = ColumnsOf[item][n] /\ rects = ElementsOf[item][n]
  BY DEF Sound, Readers, Reflowed, Rectangles
<1>2. PICK c \in Nat : c = idx * n /\ c < count  BY <1>1
<1>3. topOffset(r) = c * Height /\ Height \in Nat \ {0}
  BY <1>1, <1>2, ReadingAssumption DEF topOffset
<1>4. /\ k # NotFound /\ rects[k].top < topOffset(r) + n * Height
      /\ rects[k].height <= 100 * (Height - 1)
  BY <1>1 DEF HasPlace
<1>5. k \in DOMAIN rects /\ bottom(rects[k]) > topOffset(r)
  BY <1>4 DEF findFirstVisibleElement
<1> HIDE DEF rects, k
<1>6. /\ rects[k] \in Rects
      /\ rects[k].top < count * Height
  <2>1. ColumnsHold(count, rects)  BY <1>1, ReadingAssumption
  <2>2. rects \in Seq(Rects) /\ rects[k].top < count * Height  BY <1>5, <2>1 DEF ColumnsHold
  <2> QED  BY <1>5, <2>2
<1>7. PICK y \in percentsOfElementHeight(rects[k], topOffset(r)) : req = ElementCfi(item, k, y)
  BY <1>1, <1>4 DEF bookmarkCurrentPage, getFirstVisibleElementCfi, rects, k
<1>8. TargetPage(r, req) = getPageForElement(rects[k], y, Height)
  BY <1>1, <1>7 DEF TargetPage, ElementCfi, Request, rects, Rectangles
<1>9. CASE rects[k].top <= c * Height
  <2>1. getPageForElement(rects[k], y, Height) = c
    BY <1>3, <1>4, <1>5, <1>6, <1>7, <1>9, PercentIsOnPage
  <2>2. c \div n = idx  BY <1>1, <1>2
  <2> QED  BY <1>1, <1>2, <1>7, <1>8, <2>1, <2>2 DEF ElementCfi, Request
<1>10. CASE c * Height < rects[k].top
  <2> DEFINE p == getPageForElement(rects[k], y, Height)
  <2>1. PICK top \in Nat, h \in Nat, start \in Nat :
           top = rects[k].top /\ h = rects[k].height /\ start = c * Height
    BY <1>3, <1>6 DEF Rects
  <2>2. y = 0  BY <1>3, <1>7, <1>10, <2>1 DEF percentsOfElementHeight
  <2>3. CeilDiv(100 * top + y * h, 100) = top
    <3>1. y * h = 0 /\ CeilDiv(100 * top + y * h, 100) = (100 * top + 99) \div 100
      BY <2>1, <2>2 DEF CeilDiv
    <3> QED  BY <3>1
  <2>4. p = top \div Height  BY <2>1, <2>3 DEF getPageForElement
  <2>5. start < top /\ top < start + n * Height /\ top < count * Height
    BY <1>3, <1>4, <1>6, <1>10, <2>1
  <2>6. /\ p \in Nat /\ c <= p /\ p < c + n /\ p < count
    <3>1. p \in Nat /\ p * Height <= top /\ top < p * Height + Height
      BY <1>3, <2>1, <2>4, DivFacts
    <3> HIDE DEF p
    <3>2. c <= p /\ p < c + n  BY <1>3, <2>1, <2>5, <3>1, PageIsBetween
    <3>3. top < 0 * Height + count * Height /\ (p >= count => count * Height <= p * Height)
      BY <1>3, <2>5, <3>1, Z3
    <3>4. p < count  BY <1>3, <2>1, <3>1, <3>3
    <3> QED  BY <3>1, <3>2, <3>4
  <2>7. p \div n = idx  BY <1>1, <1>2, <2>6
  <2> QED  BY <1>1, <1>7, <1>8, <2>6, <2>7 DEF ElementCfi, Request
<1>11. rects[k].top \in Nat /\ c * Height \in Nat  BY <1>3, <1>6 DEF Rects
<1> QED  BY <1>9, <1>10, <1>11

(* A bookmark opened shows what was shown when it was made, in any book.    *)
THEOREM BookmarksComeBack == Spec => BookmarkComesBack
<1> DEFINE made == bookmark.made
           Back == OpenBookmark =>
                     (HasPlace(made) /\ Unmixed(made)
                        /\ made.isSyntheticSpread = reader.isSyntheticSpread
                      => Shown(reader') = Shown(made))
<1>1. IInv /\ [Next]_vars => [Back]_vars
  <2> SUFFICES ASSUME IInv, OpenBookmark, HasPlace(made), Unmixed(made),
                      made.isSyntheticSpread = reader.isSyntheticSpread
               PROVE  Shown(reader') = Shown(made)
    OBVIOUS
  <2>1. /\ Sound(made) /\ made.view # "none" /\ bookmark.request \in bookmarkCurrentPage(made)
        /\ Sound(reader) /\ reader' = openPage(reader, bookmark.request)
    BY DEF IInv, BookmarkIsOf, OpenBookmark
  <2> DEFINE req == bookmark.request
  <2> HIDE DEF made, req
  <2>2. CASE made.view = "reflowable"
    BY <2>1, <2>2, PlaceComesBack, ReflowableAgain DEF req
  <2>3. CASE made.view = "fixed"
    <3>1. req = NoTarget(firstDisplayed(made.spread))  BY <2>1, <2>3 DEF bookmarkCurrentPage, req
    <3>2. req.spineItem \in validItems(made.spread)
      BY <2>1, <2>3, <3>1, FirstDisplayed DEF NoTarget, Request
    <3> QED  BY <2>1, <2>3, <3>2, FixedAgain DEF req
  <2> QED  BY <2>1, <2>2, <2>3 DEF Sound, Readers
<1>2. IInv /\ [Next]_vars => [OpenBookmark =>
          LET m == bookmark.made IN
          HasPlace(m) /\ Unmixed(m) /\ m.isSyntheticSpread = reader.isSyntheticSpread
            => Shown(reader') = Shown(m)]_vars
  BY <1>1
<1> QED  BY <1>2, IInvIsInvariant, PTL DEF Spec, BookmarkComesBack

-----------------------------------------------------------------------------
(* Turning to the item before or after opens the page that adjoins.         *)
LEMMA NextItem ==
    ASSUME NEW r, Sound(r), r.view # "none", Unmixed(r),
           NEW i, i = lastOpenPage(r).item, NEW j, j = nextItem(i), j # NoItem,
           NEW o, o = openPage(r, FirstPage(j)), Unmixed(o)
    PROVE  /\ Sound(o) /\ o.view # "none" /\ o.isSyntheticSpread = r.isSyntheticSpread
           /\ firstOpenPage(o).item = j /\ firstOpenPage(o).page = 0
           /\ j \in Items /\ j = i + 1 /\ prevItem(j) = i
<1>1. i \in Items /\ j \in Items /\ j = i + 1 /\ prevItem(j) = i  BY Ends, PrevNext
<1>2. FirstPage(j).spineItem = j /\ FirstPage(j).page = 0 /\ FirstPage(j).target = "page"
  BY DEF FirstPage, PageIndex, Request
<1>3. Ready(r) /\ r.isSyntheticSpread \in BOOLEAN  BY DEF Ready, Sound, Readers
<1>4. CASE ~isFixedLayout(j)
  <2>1. /\ Sound(o) /\ o.view = "reflowable" /\ o.currentSpineItem = j
        /\ o.isSyntheticSpread = r.isSyntheticSpread
        /\ TargetPage(o, FirstPage(j)) \in 0 .. o.columnCount - 1
             => o.currentSpreadIndex = TargetPage(o, FirstPage(j)) \div o.visibleColumnCount
    BY <1>1, <1>2, <1>3, <1>4, OpenReflowable
  <2>2. TargetPage(o, FirstPage(j)) = 0  BY <1>2 DEF TargetPage
  <2>3. o.visibleColumnCount \in {1, 2} /\ o.columnCount \in Nat \ {0}
    BY <1>3, <2>1, Columns DEF Sound, Readers, Reflowed
  <2>4. o.currentSpreadIndex = 0  BY <2>1, <2>2, <2>3
  <2>5. firstOpenPage(o) = Page(j, 0, o.columnCount)  BY <2>1, <2>3, <2>4, ReflowableEnds
  <2> QED  BY <1>1, <2>1, <2>5 DEF Page
<1>5. CASE isFixedLayout(j)
  <2>1. /\ Sound(o) /\ o.view = "fixed" /\ o.isSyntheticSpread = r.isSyntheticSpread
        /\ o.spread = openItem(j, r.isSyntheticSpread)
    BY <1>1, <1>2, <1>3, <1>5, OpenFixed
  <2> DEFINE f == firstOf(o.spread)
             n == getNeighbourItem(j, r.isSyntheticSpread)
  <2>2. /\ firstOpenPage(o) = Page(f, 0, 1) /\ f \in validItems(o.spread) /\ f <= j
    <3>1. j \in validItems(o.spread)  BY <1>1, <1>3, <2>1, OpenItem
    <3> QED  BY <2>1, <3>1, FixedEnds
  <2>3. ASSUME f # j PROVE FALSE
    <3>1. f = n /\ n # NoItem  BY <1>1, <1>3, <2>1, <2>2, <2>3, OpenItem
    <3>2. f = i  BY <1>1, <1>3, <2>2, <2>3, <3>1, NeighbourSymmetric, ItemsAreInts
    <3>3. isFixedLayout(i)  BY <2>1, <2>2, <3>2 DEF Unmixed
    <3>4. r.view = "fixed"
      BY <3>3, ReflowableEnds DEF Sound, Readers, Reflowed, Page
    <3>5. i = lastOf(r.spread)  BY <3>4, FixedEnds DEF Page
    <3>6. openItem(i, r.isSyntheticSpread) = r.spread  BY <3>4, <3>5, FixedEnds
    <3>7. openItem(i, r.isSyntheticSpread) = openItem(j, r.isSyntheticSpread)
      BY <1>1, <1>3, <2>1, <2>2, <3>2, SpreadsPartition
    <3>8. j \in validItems(r.spread)  BY <1>1, <1>3, <3>6, <3>7, OpenItem
    <3>9. j <= i  BY <3>4, <3>5, <3>8, FixedEnds
    <3> QED  BY <1>1, <3>9, ItemsAreInts
  <2> QED  BY <1>1, <2>1, <2>2, <2>3 DEF Page
<1> QED  BY <1>4, <1>5

LEMMA PrevItem ==
    ASSUME NEW r, Sound(r), r.view # "none", Unmixed(r),
           NEW i, i = firstOpenPage(r).item, NEW j, j = prevItem(i), j # NoItem,
           NEW o, o = openPage(r, LastPage(j)), Unmixed(o)
    PROVE  /\ Sound(o) /\ o.view # "none" /\ o.isSyntheticSpread = r.isSyntheticSpread
           /\ lastOpenPage(o).item = j /\ ~(lastOpenPage(o).page < lastOpenPage(o).count - 1)
           /\ j \in Items /\ j = i - 1 /\ nextItem(j) = i
<1>1. i \in Items /\ j \in Items /\ j = i - 1 /\ nextItem(j) = i  BY Ends, PrevNext
<1>2. LastPage(j).spineItem = j /\ LastPage(j).target = "last"  BY DEF LastPage, Request
<1>3. Ready(r) /\ r.isSyntheticSpread \in BOOLEAN  BY DEF Ready, Sound, Readers
<1>4. CASE ~isFixedLayout(j)
  <2>1. /\ Sound(o) /\ o.view = "reflowable" /\ o.currentSpineItem = j
        /\ o.isSyntheticSpread = r.isSyntheticSpread
        /\ TargetPage(o, LastPage(j)) \in 0 .. o.columnCount - 1
             => o.currentSpreadIndex = TargetPage(o, LastPage(j)) \div o.visibleColumnCount
    BY <1>1, <1>2, <1>3, <1>4, OpenReflowable
  <2>2. PICK n \in {1, 2}, count \in Nat \ {0}, idx \in Nat :
           n = o.visibleColumnCount /\ count = o.columnCount /\ idx = o.currentSpreadIndex
    BY <1>3, <2>1, Columns DEF Sound, Readers, Reflowed
  <2>3. TargetPage(o, LastPage(j)) = count - 1  BY <1>2, <2>2 DEF TargetPage
  <2>4. idx = (count - 1) \div n  BY <2>1, <2>2, <2>3
  <2>5. PICK l : /\ l = IF n = 2 /\ idx * n + 1 < count THEN idx * n + 1 ELSE idx * n
                 /\ lastOpenPage(o) = Page(j, l, count)
    BY <2>1, <2>2, ReflowableEnds
  <2>6. ~(l < count - 1)  BY <2>2, <2>4, <2>5
  <2> QED  BY <1>1, <2>1, <2>5, <2>6 DEF Page
<1>5. CASE isFixedLayout(j)
  <2>1. /\ Sound(o) /\ o.view = "fixed" /\ o.isSyntheticSpread = r.isSyntheticSpread
        /\ o.spread = openItem(j, r.isSyntheticSpread)
    BY <1>1, <1>2, <1>3, <1>5, OpenFixed
  <2> DEFINE l == lastOf(o.spread)
             n == getNeighbourItem(j, r.isSyntheticSpread)
  <2>2. /\ lastOpenPage(o) = Page(l, 0, 1) /\ l \in validItems(o.spread) /\ j <= l
    <3>1. j \in validItems(o.spread)  BY <1>1, <1>3, <2>1, OpenItem
    <3> QED  BY <2>1, <3>1, FixedEnds
  <2>3. ASSUME l # j PROVE FALSE
    <3>1. l = n /\ n # NoItem  BY <1>1, <1>3, <2>1, <2>2, <2>3, OpenItem
    <3>2. l = i  BY <1>1, <1>3, <2>2, <2>3, <3>1, NeighbourSymmetric, ItemsAreInts
    <3>3. isFixedLayout(i)  BY <2>1, <2>2, <3>2 DEF Unmixed
    <3>4. r.view = "fixed"
      BY <3>3, ReflowableEnds DEF Sound, Readers, Reflowed, Page
    <3>5. i = firstOf(r.spread)  BY <3>4, FixedEnds DEF Page
    <3>6. openItem(i, r.isSyntheticSpread) = r.spread  BY <3>4, <3>5, FixedEnds
    <3>7. openItem(i, r.isSyntheticSpread) = openItem(j, r.isSyntheticSpread)
      BY <1>1, <1>3, <2>1, <2>2, <3>2, SpreadsPartition
    <3>8. j \in validItems(r.spread)  BY <1>1, <1>3, <3>6, <3>7, OpenItem
    <3>9. i <= j  BY <3>4, <3>5, <3>8, FixedEnds
    <3> QED  BY <1>1, <3>9, ItemsAreInts
  <2> QED  BY <1>1, <2>1, <2>2, <2>3 DEF Page
<1> QED  BY <1>4, <1>5

(* Opening the last page open, if it is its item's last, or the first, if   *)
(* it is its item's first, shows the same again.                            *)
LEMMA LastAgain ==
    ASSUME NEW r, Sound(r), r.view # "none", Unmixed(r),
           ~(lastOpenPage(r).page < lastOpenPage(r).count - 1),
           NEW s, Sound(s), s.isSyntheticSpread = r.isSyntheticSpread
    PROVE  Shown(openPage(s, LastPage(lastOpenPage(r).item))) = Shown(r)
<1> DEFINE i == lastOpenPage(r).item
<1>1. LastPage(i).spineItem = i /\ LastPage(i).target = "last"  BY DEF LastPage, Request
<1>2. CASE r.view = "fixed"  BY <1>1, <1>2, FixedAgain, FixedEnds DEF Page
<1>3. CASE r.view = "reflowable"
  <2>1. PICK n \in {1, 2}, count \in Nat, idx \in Nat :
           /\ n = r.visibleColumnCount /\ count = r.columnCount /\ idx = r.currentSpreadIndex
           /\ idx * n < count
    BY <1>3 DEF Sound, Readers, Reflowed
  <2>2. PICK l : /\ l = IF n = 2 /\ idx * n + 1 < count THEN idx * n + 1 ELSE idx * n
                 /\ lastOpenPage(r) = Page(r.currentSpineItem, l, count)
    BY <1>3, <2>1, ReflowableEnds
  <2>3. l >= count - 1 /\ i = r.currentSpineItem  BY <2>1, <2>2 DEF Page
  <2>4. (count - 1) \div n = idx
    <3>1. PICK c \in Nat : c = idx * n /\ c < count  BY <2>1
    <3>2. l = IF n = 2 /\ c + 1 < count THEN c + 1 ELSE c  BY <2>2, <3>1
    <3>3. c >= count - n  BY <2>1, <2>3, <3>1, <3>2
    <3>4. PICK m \in Nat : m = count - 1  BY <3>1
    <3>5. n \in Nat /\ n > 0 /\ idx * n <= m /\ m < idx * n + n  BY <3>1, <3>3, <3>4
    <3> QED  BY <3>4, <3>5, DivIs
  <2>5. TargetPage(r, LastPage(i)) = count - 1  BY <1>1, <2>1 DEF TargetPage
  <2> QED  BY <1>1, <1>3, <2>1, <2>3, <2>4, <2>5, ReflowableAgain
<1> QED  BY <1>2, <1>3 DEF Sound, Readers

LEMMA FirstAgain ==
    ASSUME NEW r, Sound(r), r.view # "none", Unmixed(r), ~(firstOpenPage(r).page > 0),
           NEW s, Sound(s), s.isSyntheticSpread = r.isSyntheticSpread
    PROVE  Shown(openPage(s, FirstPage(firstOpenPage(r).item))) = Shown(r)
<1> DEFINE i == firstOpenPage(r).item
<1>1. FirstPage(i).spineItem = i /\ FirstPage(i).page = 0 /\ FirstPage(i).target = "page"
  BY DEF FirstPage, PageIndex, Request
<1>2. CASE r.view = "fixed"  BY <1>1, <1>2, FixedAgain, FixedEnds DEF Page
<1>3. CASE r.view = "reflowable"
  <2>1. PICK n \in {1, 2}, count \in Nat, idx \in Nat :
           /\ n = r.visibleColumnCount /\ count = r.columnCount /\ idx = r.currentSpreadIndex
           /\ idx * n < count
    BY <1>3 DEF Sound, Readers, Reflowed
  <2>2. firstOpenPage(r) = Page(r.currentSpineItem, idx * n, count)
    BY <1>3, <2>1, ReflowableEnds
  <2>3. idx = 0 /\ i = r.currentSpineItem  BY <2>1, <2>2 DEF Page
  <2>4. TargetPage(r, FirstPage(i)) = 0  BY <1>1 DEF TargetPage
  <2>5. /\ 0 \in 0 .. r.columnCount - 1 /\ 0 \div r.visibleColumnCount = r.currentSpreadIndex
    BY <2>1, <2>3
  <2> QED  BY <1>1, <1>3, <2>3, <2>4, <2>5, ReflowableAgain
<1> QED  BY <1>2, <1>3 DEF Sound, Readers

(* A page turn and its opposite return to what was shown, in any book,      *)
(* whichever views they make, unless a fixed page is paired with an item    *)
(* that is reflowable.                                                      *)
THEOREM TurnsAlwaysComeBack == Spec => []TurnsComeBack
<1>1. IInv => TurnsComeBack
  <2> SUFFICES ASSUME NEW r, Sound(r), r.view # "none", Unmixed(r)
               PROVE  /\ openPageNext(r) # r /\ Unmixed(openPageNext(r))
                           => Shown(openPagePrev(openPageNext(r))) = Shown(r)
                      /\ openPagePrev(r) # r /\ Unmixed(openPagePrev(r))
                           => Shown(openPageNext(openPagePrev(r))) = Shown(r)
    BY DEF IInv, TurnsComeBack
  <2>1. ASSUME openPageNext(r) # r, Unmixed(openPageNext(r))
        PROVE  Shown(openPagePrev(openPageNext(r))) = Shown(r)
    <3> DEFINE p == lastOpenPage(r)
               o == openPageNext(r)
    <3>1. CASE p.page < p.count - 1
      <4>1. o = [r EXCEPT !.currentSpreadIndex = r.currentSpreadIndex + 1]
        BY <3>1 DEF openPageNext
      <4> HIDE DEF o
      <4>2. /\ Sound(o) /\ o.view = "reflowable" /\ r.view = "reflowable"
            /\ o.currentSpineItem = r.currentSpineItem
            /\ o.visibleColumnCount = r.visibleColumnCount
            /\ o.currentSpreadIndex = r.currentSpreadIndex + 1
            /\ firstOpenPage(o).page = p.page + 1 /\ p.page \in Nat
            /\ r.currentSpreadIndex \in Nat
        BY <3>1, <4>1, NextInView, Ends DEF Sound, Readers
      <4>3. openPagePrev(o) = [o EXCEPT !.currentSpreadIndex = o.currentSpreadIndex - 1]
        BY <4>2 DEF openPagePrev
      <4>4. /\ openPagePrev(o).view = "reflowable"
            /\ openPagePrev(o).currentSpineItem = r.currentSpineItem
            /\ openPagePrev(o).visibleColumnCount = r.visibleColumnCount
            /\ openPagePrev(o).currentSpreadIndex = r.currentSpreadIndex
        BY <4>2, <4>3 DEF Sound, Readers
      <4> QED  BY <4>2, <4>4 DEF Shown, o
    <3>2. CASE ~(p.page < p.count - 1)
      <4> DEFINE j == nextItem(p.item)
      <4>1. j # NoItem /\ o = openPage(r, FirstPage(j))  BY <2>1, <3>2 DEF openPageNext
      <4>2. /\ Sound(o) /\ o.isSyntheticSpread = r.isSyntheticSpread
            /\ firstOpenPage(o).item = j /\ firstOpenPage(o).page = 0
            /\ j \in Items /\ prevItem(j) = p.item /\ p.item \in Items
        BY <2>1, <4>1, NextItem, Ends
      <4>3. openPagePrev(o) = openPage(o, LastPage(p.item))
        BY <4>2, ItemsAreInts DEF openPagePrev
      <4> HIDE DEF o
      <4> QED  BY <3>2, <4>2, <4>3, LastAgain DEF o
    <3> QED  BY <3>1, <3>2
  <2>2. ASSUME openPagePrev(r) # r, Unmixed(openPagePrev(r))
        PROVE  Shown(openPageNext(openPagePrev(r))) = Shown(r)
    <3> DEFINE p == firstOpenPage(r)
               o == openPagePrev(r)
    <3>1. CASE p.page > 0
      <4>1. o = [r EXCEPT !.currentSpreadIndex = r.currentSpreadIndex - 1]
        BY <3>1 DEF openPagePrev
      <4> HIDE DEF o
      <4>2. /\ Sound(o) /\ o.view = "reflowable" /\ r.view = "reflowable"
            /\ o.currentSpineItem = r.currentSpineItem
            /\ o.visibleColumnCount = r.visibleColumnCount
            /\ o.currentSpreadIndex = r.currentSpreadIndex - 1
            /\ lastOpenPage(o).page < lastOpenPage(o).count - 1
            /\ r.currentSpreadIndex \in Nat
        BY <3>1, <4>1, PrevInView DEF Sound, Readers
      <4>3. openPageNext(o) = [o EXCEPT !.currentSpreadIndex = o.currentSpreadIndex + 1]
        BY <4>2 DEF openPageNext
      <4>4. /\ openPageNext(o).view = "reflowable"
            /\ openPageNext(o).currentSpineItem = r.currentSpineItem
            /\ openPageNext(o).visibleColumnCount = r.visibleColumnCount
            /\ openPageNext(o).currentSpreadIndex = r.currentSpreadIndex
        BY <4>2, <4>3 DEF Sound, Readers
      <4> QED  BY <4>2, <4>4 DEF Shown, o
    <3>2. CASE ~(p.page > 0)
      <4> DEFINE j == prevItem(p.item)
      <4>1. j # NoItem /\ o = openPage(r, LastPage(j))  BY <2>2, <3>2 DEF openPagePrev
      <4>2. /\ Sound(o) /\ o.isSyntheticSpread = r.isSyntheticSpread
            /\ lastOpenPage(o).item = j
            /\ ~(lastOpenPage(o).page < lastOpenPage(o).count - 1)
            /\ j \in Items /\ nextItem(j) = p.item /\ p.item \in Items
        BY <2>2, <4>1, PrevItem, Ends
      <4>3. openPageNext(o) = openPage(o, FirstPage(p.item))
        BY <4>2, ItemsAreInts DEF openPageNext
      <4> HIDE DEF o
      <4> QED  BY <3>2, <4>2, <4>3, FirstAgain DEF o
    <3> QED  BY <3>1, <3>2
  <2> QED  BY <2>1, <2>2
<1> QED  BY <1>1, IInvIsInvariant, PTL

(* openPageNext skips no page and repeats none, with the same exception.    *)
THEOREM NoPageIsSkipped == Spec => []NoPageSkipped
<1>1. IInv => NoPageSkipped
  <2> SUFFICES ASSUME NEW r, Sound(r), r.view # "none", Unmixed(r), Unmixed(openPageNext(r)),
                      ~IsLast(r, lastOpenPage(r))
               PROVE  Follows(r, lastOpenPage(r), firstOpenPage(openPageNext(r)))
    BY DEF IInv, NoPageSkipped, NextFollows
  <2> DEFINE p == lastOpenPage(r)
             o == openPageNext(r)
  <2>1. p.item \in Items /\ p.page \in Nat  BY Ends
  <2>2. PICK count : count = p.count /\ PagesOf(r, p.item) = count /\ count \in Nat
    <3>1. CASE r.view = "reflowable"
      <4>1. /\ ~isFixedLayout(r.currentSpineItem)
            /\ r.columnCount = ColumnsOf[r.currentSpineItem][visibleColumns(r.isSyntheticSpread)]
            /\ r.columnCount \in Nat
        BY <3>1 DEF Sound, Readers, Reflowed
      <4>2. p.item = r.currentSpineItem /\ p.count = r.columnCount
        BY <3>1, ReflowableEnds DEF Page
      <4> QED  BY <4>1, <4>2 DEF PagesOf
    <3>2. CASE r.view = "fixed"
      <4>1. p.item \in validItems(r.spread) /\ p.count = 1  BY <3>2, FixedEnds DEF Page
      <4>2. isFixedLayout(p.item)  BY <3>2, <4>1 DEF Unmixed
      <4> QED  BY <4>1, <4>2 DEF PagesOf
    <3> QED  BY <3>1, <3>2 DEF Sound, Readers
  <2>3. CASE p.page < count - 1
    <3>1. o = [r EXCEPT !.currentSpreadIndex = r.currentSpreadIndex + 1]
      BY <2>2, <2>3 DEF openPageNext
    <3>2. firstOpenPage(o).item = p.item /\ firstOpenPage(o).page = p.page + 1
      BY <2>2, <2>3, <3>1, NextInView
    <3> QED  BY <2>2, <2>3, <3>2 DEF Follows
  <2>4. CASE ~(p.page < count - 1)
    <3>1. p.item # last  BY <2>1, <2>2, <2>4 DEF IsLast
    <3>2. nextItem(p.item) # NoItem
      BY <2>1, <3>1, SpineAssumption DEF Items, nextItem, isValidIndex, last, NoItem
    <3>3. o = openPage(r, FirstPage(nextItem(p.item)))  BY <2>2, <2>4, <3>2 DEF openPageNext
    <3>4. firstOpenPage(o).item = p.item + 1 /\ firstOpenPage(o).page = 0
      BY <3>2, <3>3, NextItem
    <3> QED  BY <2>2, <2>4, <3>4 DEF Follows
  <2> QED  BY <2>3, <2>4
<1> QED  BY <1>1, IInvIsInvariant, PTL
=============================================================================
