----------------------------- MODULE FixedProofs -----------------------------
(***************************************************************************)
(* Proofs about the fixed-layout view, for any book and any number of      *)
(* calls.                                                                  *)
(*                                                                         *)
(* Why the view reports what it shows: two different spreads have no side  *)
(* and item in common (SameOrDisjoint), so a redraw that changes the       *)
(* spread waits for iframes all of which have just been asked for another  *)
(* document.  As long as some redraw waits only for iframes that are busy, *)
(* one of their load events will complete it.                              *)
(***************************************************************************)
EXTENDS FixedProperties, SpreadProofs, SequenceTheorems

(* The spread is empty or has been opened at some item.                     *)
Opened == \/ spread = resetItems
          \/ \E i \in Items : spread = openItem(i, isSyntheticSpread)

DisplaysSpread == \A s \in Sides : pageViews[s].currentSpineItem = spread[s]

OnlyDisplayedIsBusy == Busy(pageViews) \subseteq Displayed(pageViews)

(* A report of the spread has been made or is on its way.                   *)
WillReport ==
    ~cutShort => \/ reported = validItems(spread)
                 \/ \E k \in DOMAIN redraws : redraws[k] # {} /\ redraws[k] \subseteq Busy(pageViews)

IdleIsAttached ==
    ~cameLate =>
        \A s \in Displayed(pageViews) \ Busy(pageViews) : pageViews[s].epubHtml = "attached"

(* Every page displayed is as the size last read asks for.                  *)
LaidOut ==
    /\ Displayed(pageViews) # {} => contentMetaSize = meta_size
    /\ \A s \in Displayed(pageViews) : /\ pageViews[s].size = meta_size
                                       /\ pageViews[s].scale = meta_size

(* A layout has been made since all pages loaded, or will be: some redraw   *)
(* waits for exactly the iframes that are busy.                             *)
WillScale ==
    ~cutShort /\ ~cameLate =>
        \/ Busy(pageViews) = {} /\ LaidOut
        \/ Busy(pageViews) # {} /\ \E k \in DOMAIN redraws : redraws[k] = Busy(pageViews)

(* The document in an iframe is the one asked for, unless another has been  *)
(* asked for since.                                                         *)
FramesHold ==
    \A s \in Sides :
        /\ pageViews[s].loading => pageViews[s].document \in Items
        /\ ~pageViews[s].requested => pageViews[s].document = pageViews[s].currentSpineItem

(* The size last read is that of a page displayed, if one has loaded.       *)
SizeIsOfAPage ==
    ~cameLate /\ Displayed(pageViews) \ Busy(pageViews) # {} =>
        \E s \in Displayed(pageViews) : SizeOf[spread[s]] \in {0, meta_size}

IInv == TypeOK /\ Opened /\ DisplaysSpread /\ OnlyDisplayedIsBusy
        /\ WillReport /\ IdleIsAttached /\ WillScale /\ FramesHold /\ SizeIsOfAPage

-----------------------------------------------------------------------------
LEMMA SidesType == Sides = {"left", "right", "center"}
BY DEF Sides, PageSpreads

LEMMA SizesType == MetaSizes \subseteq Nat /\ Unknown \notin MetaSizes
BY FixedViewAssumption DEF MetaSizes, Unknown

(* A resize keeps every page's item, document and navigation.               *)
LEMMA Resize ==
    ASSUME NEW pages \in [Sides -> PageView],
           NEW size \in MetaSizes, NEW scale \in MetaSizes \cup {Unknown}
    PROVE  LET after == resizeBook(pages, size, scale) IN
           /\ after \in [Sides -> PageView]
           /\ \A s \in Sides : /\ after[s].currentSpineItem = pages[s].currentSpineItem
                               /\ after[s].epubHtml = pages[s].epubHtml
                               /\ after[s].requested = pages[s].requested
                               /\ after[s].loading = pages[s].loading
                               /\ after[s].document = pages[s].document
                               /\ pages[s].size = size /\ pages[s].scale = scale
                                    => after[s].size = size /\ after[s].scale = scale
           /\ Busy(after) = Busy(pages)
           /\ Displayed(after) = Displayed(pages)
           /\ ~LayoutThrows(pages) =>
                 \A s \in Displayed(pages) : pages[s].epubHtml = "attached"
                    => after[s].size = size /\ after[s].scale = scale
<1> DEFINE after == resizeBook(pages, size, scale)
           resized(s) == transformContent(pages[s], size, scale)
<1>1. \A s \in Sides : after[s] = pages[s] \/ after[s] = resized(s)
  BY DEF resizeBook
<1>2. \A s \in Sides : /\ resized(s) \in PageView
                       /\ resized(s).currentSpineItem = pages[s].currentSpineItem
                       /\ resized(s).epubHtml = pages[s].epubHtml
                       /\ resized(s).requested = pages[s].requested
                       /\ resized(s).loading = pages[s].loading
                       /\ resized(s).document = pages[s].document
                       /\ \/ pages[s].epubHtml = "attached"
                          \/ pages[s].size = size /\ pages[s].scale = scale
                          => resized(s).size = size /\ resized(s).scale = scale
  BY DEF transformContent, PageView
<1>3. after \in [Sides -> PageView]
  <2>1. after = [s \in Sides |-> after[s]]  BY DEF resizeBook
  <2>2. \A s \in Sides : after[s] \in PageView  BY <1>1, <1>2
  <2> QED  BY <2>1, <2>2
<1>4. \A s \in Sides : /\ after[s].currentSpineItem = pages[s].currentSpineItem
                       /\ after[s].epubHtml = pages[s].epubHtml
                       /\ after[s].requested = pages[s].requested
                       /\ after[s].loading = pages[s].loading
                       /\ after[s].document = pages[s].document
                       /\ pages[s].size = size /\ pages[s].scale = scale
                            => after[s].size = size /\ after[s].scale = scale
  BY <1>1, <1>2
<1>5. ASSUME ~LayoutThrows(pages), NEW s \in Displayed(pages)
      PROVE  after[s] = resized(s)
  BY <1>5, SidesType DEF resizeBook, LayoutThrows, Displayed
<1> HIDE DEF after, resized
<1>6. Busy(after) = Busy(pages) /\ Displayed(after) = Displayed(pages)
  BY <1>4 DEF Busy, Displayed, isDisplaying
<1>7. Displayed(pages) \subseteq Sides  BY DEF Displayed
<1>8. ~LayoutThrows(pages) =>
         \A s \in Displayed(pages) : pages[s].epubHtml = "attached"
            => after[s].size = size /\ after[s].scale = scale
  BY <1>2, <1>5, <1>7
<1> QED  BY <1>3, <1>4, <1>6, <1>8 DEF after

(* What a redraw does to the pages.                                         *)
LEMMA UpdatedPages ==
    ASSUME NEW pages \in [Sides -> PageView], NEW items \in Spreads,
           Busy(pages) \subseteq Displayed(pages)
    PROVE  LET after == [s \in Sides |-> updatePageViewForItem(pages[s], items[s])] IN
           /\ after \in [Sides -> PageView]
           /\ \A s \in Sides :
                 /\ after[s].currentSpineItem = items[s]
                 /\ items[s] = pages[s].currentSpineItem => after[s] = pages[s]
                 /\ items[s] # NoItem /\ items[s] # pages[s].currentSpineItem
                       => s \in Busy(after)
                 /\ items[s] = NoItem => s \notin Busy(after)
                 /\ after[s].loading => after[s].document = pages[s].document /\ pages[s].loading
                 /\ pages[s].requested \/ pages[s].document = pages[s].currentSpineItem
                       => after[s].requested \/ after[s].document = items[s]
<1> DEFINE after == [s \in Sides |-> updatePageViewForItem(pages[s], items[s])]
<1>1. ASSUME NEW s \in Sides
      PROVE  /\ after[s] \in PageView
             /\ after[s].currentSpineItem = items[s]
             /\ items[s] = pages[s].currentSpineItem => after[s] = pages[s]
             /\ items[s] # NoItem /\ items[s] # pages[s].currentSpineItem => after[s].requested
             /\ items[s] = NoItem => ~after[s].requested /\ ~after[s].loading
             /\ after[s].loading => after[s].document = pages[s].document /\ pages[s].loading
             /\ pages[s].requested \/ pages[s].document = pages[s].currentSpineItem
                   => after[s].requested \/ after[s].document = items[s]
  <2>1. after[s] = updatePageViewForItem(pages[s], items[s])  OBVIOUS
  <2>2. items[s] \in Items \cup {NoItem} /\ pages[s] \in PageView  BY DEF Spreads
  <2>3. CASE items[s] # NoItem
    BY <2>1, <2>2, <2>3 DEF updatePageViewForItem, loadSpineItem, PageView
  <2>4. CASE items[s] = NoItem /\ isDisplaying(pages[s])
    BY <2>1, <2>2, <2>4 DEF updatePageViewForItem, removed, EmptyFrame, Detached, isDisplaying,
                            PageView, HtmlStates
  <2>5. CASE items[s] = NoItem /\ ~isDisplaying(pages[s])
    <3>1. s \notin Busy(pages)  BY <2>5 DEF Displayed
    <3> QED  BY <2>1, <2>2, <2>5, <3>1 DEF updatePageViewForItem, isDisplaying, Busy
  <2> QED  BY <2>3, <2>4, <2>5
<1>2. after \in [Sides -> PageView]  BY <1>1
<1> HIDE DEF after
<1>3. \A s \in Sides : s \in Busy(after) <=> after[s].requested \/ after[s].loading
  BY DEF Busy
<1> QED  BY <1>1, <1>2, <1>3 DEF after

(* Resolving deferreds keeps the list of redraws and its type.              *)
LEMMA ResolvedType ==
    ASSUME NEW s \in Sides, NEW upto, redraws \in Seq(SUBSET Sides)
    PROVE  /\ Resolved(s, upto) \in Seq(SUBSET Sides)
           /\ DOMAIN Resolved(s, upto) = DOMAIN redraws
<1>1. DOMAIN redraws = 1 .. Len(redraws) /\ Len(redraws) \in Nat
  BY LenProperties
<1>2. \A k \in DOMAIN redraws : redraws[k] \in SUBSET Sides  BY ElementOfSeq
<1>3. Resolved(s, upto) \in [1 .. Len(redraws) -> SUBSET Sides]
  BY <1>1, <1>2 DEF Resolved
<1> QED  BY <1>1, <1>3, SeqDef DEF Resolved

LEMMA AppendedRedraw ==
    ASSUME redraws \in Seq(SUBSET Sides), NEW sides \in SUBSET Sides
    PROVE  LET after == Append(redraws, sides) IN
           /\ after \in Seq(SUBSET Sides)
           /\ \A k \in DOMAIN redraws : k \in DOMAIN after /\ after[k] = redraws[k]
           /\ Len(after) \in DOMAIN after /\ after[Len(after)] = sides
<1> DEFINE after == Append(redraws, sides)
<1>1. /\ after \in Seq(SUBSET Sides)
      /\ Len(after) = Len(redraws) + 1
      /\ \A k \in 1 .. Len(redraws) : after[k] = redraws[k]
      /\ after[Len(redraws) + 1] = sides
  BY AppendProperties
<1>2. DOMAIN after = 1 .. Len(after) /\ DOMAIN redraws = 1 .. Len(redraws) /\ Len(redraws) \in Nat
  BY <1>1, LenProperties
<1> HIDE DEF after
<1> QED  BY <1>1, <1>2 DEF after

(* Opening a page, whatever two-page setting it is opened with.             *)
LEMMA OpenPageStep ==
    ASSUME IInv, NEW item \in Items, NEW synthetic \in BOOLEAN,
           openPage(item, synthetic), isSyntheticSpread' = synthetic,
           calls' \in 0 .. MaxCalls
    PROVE  IInv'
<1> DEFINE items == openItem(item, synthetic)
<1>1. items \in Spreads /\ validItems(items) # {}  BY OpenItem
<1>2. /\ spread' = items
      /\ pageViews' = [s \in Sides |-> updatePageViewForItem(pageViews[s], items[s])]
      /\ redraws' = Append(redraws, WaitingFor(items))
      /\ UNCHANGED <<layoutVars, meta_size, contentMetaSize, reported, cutShort, cameLate>>
  BY DEF openPage, redraw, layoutVars
<1>3. /\ pageViews \in [Sides -> PageView] /\ redraws \in Seq(SUBSET Sides)
      /\ spread \in Spreads
      /\ Busy(pageViews) \subseteq Displayed(pageViews)
      /\ \A s \in Sides : pageViews[s].currentSpineItem = spread[s]
  BY DEF IInv, TypeOK, OnlyDisplayedIsBusy, DisplaysSpread
<1>4. WaitingFor(items) \in SUBSET Sides /\ WaitingFor(items) # {}
  BY <1>1 DEF WaitingFor, validItems
<1> HIDE DEF items
<1>5. /\ pageViews' \in [Sides -> PageView]
      /\ \A s \in Sides :
            /\ pageViews'[s].currentSpineItem = items[s]
            /\ items[s] = spread[s] => pageViews'[s] = pageViews[s]
            /\ items[s] # NoItem /\ items[s] # spread[s] => s \in Busy(pageViews')
            /\ items[s] = NoItem => s \notin Busy(pageViews')
            /\ pageViews'[s].loading => pageViews'[s].document = pageViews[s].document
                                       /\ pageViews[s].loading
            /\ pageViews[s].requested \/ pageViews[s].document = pageViews[s].currentSpineItem
                  => pageViews'[s].requested \/ pageViews'[s].document = items[s]
  <2> DEFINE after == [s \in Sides |-> updatePageViewForItem(pageViews[s], items[s])]
  <2>1. /\ after \in [Sides -> PageView]
        /\ \A s \in Sides :
              /\ after[s].currentSpineItem = items[s]
              /\ items[s] = pageViews[s].currentSpineItem => after[s] = pageViews[s]
              /\ items[s] # NoItem /\ items[s] # pageViews[s].currentSpineItem
                    => s \in Busy(after)
              /\ items[s] = NoItem => s \notin Busy(after)
              /\ after[s].loading => after[s].document = pageViews[s].document
                                     /\ pageViews[s].loading
              /\ pageViews[s].requested \/ pageViews[s].document = pageViews[s].currentSpineItem
                    => after[s].requested \/ after[s].document = items[s]
    BY <1>1, <1>3, UpdatedPages
  <2>2. pageViews' = after  BY <1>2
  <2> HIDE DEF after
  <2> QED  BY <1>3, <2>1, <2>2
<1>6. /\ redraws' \in Seq(SUBSET Sides)
      /\ \A k \in DOMAIN redraws : k \in DOMAIN redraws' /\ redraws'[k] = redraws[k]
      /\ \E k \in DOMAIN redraws' : redraws'[k] = WaitingFor(items)
  BY <1>2, <1>3, <1>4, AppendedRedraw
<1>7. items = spread \/ \A s \in Sides : items[s] # NoItem => items[s] # spread[s]
  <2>1. CASE spread = resetItems  BY <2>1 DEF resetItems
  <2>2. CASE \E i \in Items : spread = openItem(i, isSyntheticSpread)
    <3>1. isSyntheticSpread \in BOOLEAN  BY DEF IInv, TypeOK
    <3> QED  BY <2>2, <3>1, SameOrDisjoint DEF items
  <2> QED  BY <2>1, <2>2 DEF IInv, Opened
<1>8. TypeOK'
  BY <1>1, <1>2, <1>5, <1>6 DEF IInv, TypeOK
<1>8a. FramesHold'
  BY <1>2, <1>5 DEF IInv, FramesHold
<1>9. Opened'  BY <1>2 DEF Opened, items
<1>10. DisplaysSpread'  BY <1>2, <1>5 DEF DisplaysSpread
<1>11. OnlyDisplayedIsBusy'
  BY <1>2, <1>5 DEF OnlyDisplayedIsBusy, Busy, Displayed, isDisplaying
<1>12. CASE items = spread
  <2>1. pageViews' = pageViews
    BY <1>3, <1>5, <1>12
  <2>2. WillReport'
    BY <1>2, <1>6, <1>12, <2>1 DEF IInv, WillReport
  <2>3. IdleIsAttached'  BY <1>2, <2>1 DEF IInv, IdleIsAttached
  <2>4. WillScale'
    BY <1>2, <1>6, <2>1 DEF IInv, WillScale, LaidOut
  <2>5. SizeIsOfAPage'
    BY <1>2, <1>12, <2>1 DEF IInv, SizeIsOfAPage
  <2> QED  BY <1>8, <1>8a, <1>9, <1>10, <1>11, <2>2, <2>3, <2>4, <2>5 DEF IInv
<1>13. CASE \A s \in Sides : items[s] # NoItem => items[s] # spread[s]
  <2>1. Busy(pageViews') = WaitingFor(items)
    BY <1>5, <1>13 DEF WaitingFor, Busy
  <2>2. Displayed(pageViews') = WaitingFor(items)
    BY <1>5 DEF WaitingFor, Displayed, isDisplaying
  <2>3. WillReport'  BY <1>4, <1>6, <2>1 DEF WillReport
  <2>4. IdleIsAttached'  BY <2>1, <2>2 DEF IdleIsAttached
  <2>5. WillScale'  BY <1>4, <1>6, <2>1 DEF WillScale
  <2>6. SizeIsOfAPage'  BY <2>1, <2>2 DEF SizeIsOfAPage
  <2> QED  BY <1>8, <1>8a, <1>9, <1>10, <1>11, <2>3, <2>4, <2>5, <2>6 DEF IInv
<1> QED  BY <1>7, <1>12, <1>13

(* A resize, from the window or from setStyles.                             *)
LEMMA ResizeStep ==
    ASSUME IInv,
           \/ pageViews' = pageViews
           \/ pageViews' = resizeBook(pageViews, meta_size, contentMetaSize'),
           \/ contentMetaSize' = contentMetaSize
           \/ contentMetaSize' = updateContentMetaSize(pageViews, meta_size),
           calls' \in 0 .. MaxCalls,
           UNCHANGED <<spread, isSyntheticSpread, redraws, meta_size, reported, cutShort,
                       cameLate>>
    PROVE  IInv'
<1>1. /\ pageViews \in [Sides -> PageView] /\ meta_size \in MetaSizes
      /\ contentMetaSize \in MetaSizes \cup {Unknown}
  BY DEF IInv, TypeOK
<1>2. contentMetaSize' \in MetaSizes \cup {Unknown}
  BY <1>1 DEF updateContentMetaSize
<1>3. /\ pageViews' \in [Sides -> PageView]
      /\ \A s \in Sides : /\ pageViews'[s].currentSpineItem = pageViews[s].currentSpineItem
                          /\ pageViews'[s].epubHtml = pageViews[s].epubHtml
                          /\ pageViews'[s].requested = pageViews[s].requested
                          /\ pageViews'[s].loading = pageViews[s].loading
                          /\ pageViews'[s].document = pageViews[s].document
                          /\ /\ pageViews[s].size = meta_size
                             /\ pageViews[s].scale = meta_size
                             /\ contentMetaSize' = meta_size
                             => pageViews'[s].size = meta_size /\ pageViews'[s].scale = meta_size
      /\ Busy(pageViews') = Busy(pageViews)
      /\ Displayed(pageViews') = Displayed(pageViews)
  BY <1>1, <1>2, Resize
<1>4. Displayed(pageViews) \subseteq Sides  BY DEF Displayed
<1>5. TypeOK'  BY <1>2, <1>3 DEF IInv, TypeOK
<1>6. Opened'  BY DEF IInv, Opened
<1>7. DisplaysSpread'  BY <1>3 DEF IInv, DisplaysSpread
<1>8. OnlyDisplayedIsBusy'  BY <1>3 DEF IInv, OnlyDisplayedIsBusy
<1>9. WillReport'  BY <1>3 DEF IInv, WillReport
<1>10. IdleIsAttached'  BY <1>3, <1>4 DEF IInv, IdleIsAttached
<1>11. LaidOut => LaidOut'
  <2>1. SUFFICES ASSUME LaidOut PROVE LaidOut'  OBVIOUS
  <2>2. Displayed(pageViews) # {} => contentMetaSize' = meta_size
    BY <2>1 DEF LaidOut, updateContentMetaSize
  <2> QED  BY <1>3, <1>4, <2>1, <2>2 DEF LaidOut
<1>12. WillScale'  BY <1>3, <1>11 DEF IInv, WillScale
<1>13. FramesHold'  BY <1>3 DEF IInv, FramesHold
<1>14. SizeIsOfAPage'  BY <1>3 DEF IInv, SizeIsOfAPage
<1> QED  BY <1>5, <1>6, <1>7, <1>8, <1>9, <1>10, <1>12, <1>13, <1>14 DEF IInv

(* The document of a side is replaced: it stays busy.                       *)
LEMMA CommitStep ==
    ASSUME IInv, NEW s \in Sides, CommitNavigation(s)
    PROVE  IInv'
<1>1. /\ pageViews[s].requested
      /\ pageViews' = [pageViews EXCEPT ![s] = Committed(pageViews[s])]
      /\ UNCHANGED <<spread, isSyntheticSpread, redraws, meta_size, contentMetaSize, reported,
                     cutShort, cameLate, calls>>
  BY DEF CommitNavigation, layoutVars
<1>2. /\ pageViews \in [Sides -> PageView]
      /\ Busy(pageViews) \subseteq Displayed(pageViews)
  BY DEF IInv, TypeOK, OnlyDisplayedIsBusy
<1>3. /\ Committed(pageViews[s]) \in PageView
      /\ Committed(pageViews[s]).loading
      /\ Committed(pageViews[s]).currentSpineItem = pageViews[s].currentSpineItem
      /\ Committed(pageViews[s]).document = pageViews[s].currentSpineItem
  BY <1>2 DEF Committed, Detached, PageView, HtmlStates
<1>4. /\ pageViews' \in [Sides -> PageView]
      /\ pageViews'[s] = Committed(pageViews[s])
      /\ \A t \in Sides : /\ t # s => pageViews'[t] = pageViews[t]
                          /\ pageViews'[t].currentSpineItem = pageViews[t].currentSpineItem
  BY <1>1, <1>2, <1>3
<1>5. Busy(pageViews') = Busy(pageViews) /\ Displayed(pageViews') = Displayed(pageViews)
      /\ s \in Busy(pageViews)
  BY <1>1, <1>3, <1>4 DEF Busy, Displayed, isDisplaying
<1>6. TypeOK'  BY <1>1, <1>4 DEF IInv, TypeOK
<1>7. Opened'  BY <1>1 DEF IInv, Opened
<1>8. DisplaysSpread'  BY <1>1, <1>4 DEF IInv, DisplaysSpread
<1>9. OnlyDisplayedIsBusy'  BY <1>5 DEF IInv, OnlyDisplayedIsBusy
<1>10. WillReport'  BY <1>1, <1>5 DEF IInv, WillReport
<1>11. IdleIsAttached'
  BY <1>1, <1>4, <1>5 DEF IInv, IdleIsAttached, Displayed
<1>12. WillScale'  BY <1>1, <1>5 DEF IInv, WillScale
<1>13. FramesHold'
  <2>1. pageViews[s].currentSpineItem \in Items
    BY <1>2, <1>5 DEF Displayed, isDisplaying, PageView
  <2> QED  BY <1>3, <1>4, <2>1 DEF IInv, FramesHold
<1>14. SizeIsOfAPage'  BY <1>1, <1>5 DEF IInv, SizeIsOfAPage
<1> QED  BY <1>6, <1>7, <1>8, <1>9, <1>10, <1>11, <1>12, <1>13, <1>14 DEF IInv

(* The page view that has loaded, before anything is made of it.            *)
LEMMA PageLoads ==
    ASSUME NEW s \in Sides, pageViews \in [Sides -> PageView],
           pageViews[s].currentSpineItem # NoItem
    PROVE  LET pages == [pageViews EXCEPT ![s] = LoadedPage(pageViews[s])] IN
           /\ pages \in [Sides -> PageView]
           /\ \A t \in Sides : /\ pages[t].currentSpineItem = pageViews[t].currentSpineItem
                               /\ t # s => pages[t] = pageViews[t]
           /\ pages[s].epubHtml = "attached"
           /\ pages[s].document = pageViews[s].document
           /\ pages[s].requested = pageViews[s].requested /\ ~pages[s].loading
           /\ Displayed(pages) = Displayed(pageViews)
           /\ Busy(pages) = IF pageViews[s].requested THEN Busy(pageViews) \cup {s}
                            ELSE Busy(pageViews) \ {s}
<1> DEFINE pages == [pageViews EXCEPT ![s] = LoadedPage(pageViews[s])]
<1>1. /\ LoadedPage(pageViews[s]) \in PageView
      /\ LoadedPage(pageViews[s]).epubHtml = "attached"
      /\ ~LoadedPage(pageViews[s]).loading
      /\ LoadedPage(pageViews[s]).requested = pageViews[s].requested
      /\ LoadedPage(pageViews[s]).currentSpineItem = pageViews[s].currentSpineItem
      /\ LoadedPage(pageViews[s]).document = pageViews[s].document
  BY DEF LoadedPage, PageView, HtmlStates
<1>2. /\ pages \in [Sides -> PageView]
      /\ pages[s] = LoadedPage(pageViews[s])
      /\ \A t \in Sides : t # s => pages[t] = pageViews[t]
  BY <1>1
<1> HIDE DEF pages
<1>3. \A t \in Sides : pages[t].currentSpineItem = pageViews[t].currentSpineItem
  BY <1>1, <1>2
<1>4. Displayed(pages) = Displayed(pageViews)  BY <1>3 DEF Displayed, isDisplaying
<1>5. Busy(pages) = IF pageViews[s].requested THEN Busy(pageViews) \cup {s}
                    ELSE Busy(pageViews) \ {s}
  BY <1>1, <1>2 DEF Busy
<1> QED  BY <1>1, <1>2, <1>3, <1>4, <1>5 DEF pages

(* The size known after a load, and whose it is.                            *)
LEMMA SizeRead ==
    ASSUME IInv, NEW s \in Sides, pageViews[s].loading
    PROVE  /\ updateMetaSize(pageViews[s]) \in MetaSizes
           /\ ~pageViews[s].requested =>
                 SizeOf[spread[s]] \in {0, updateMetaSize(pageViews[s])}
<1>1. /\ pageViews[s].document \in Items
      /\ ~pageViews[s].requested => pageViews[s].document = spread[s]
  BY DEF IInv, FramesHold, DisplaysSpread
<1>2. meta_size \in MetaSizes  BY DEF IInv, TypeOK
<1> QED  BY <1>1, <1>2 DEF updateMetaSize, MetaSizes

(* A load that completes no redraw.                                         *)
LEMMA PartLoadStep ==
    ASSUME IInv, NEW s \in Sides, onIFrameLoad(s), Complete(s) = {}
    PROVE  IInv'
<1> DEFINE pages == [pageViews EXCEPT ![s] = LoadedPage(pageViews[s])]
<1>1. /\ pageViews[s].loading
      /\ meta_size' = updateMetaSize(pageViews[s])
      /\ cameLate' = (cameLate \/ pageViews[s].requested)
      /\ pageViews' = pages
      /\ redraws' = Resolved(s, Len(redraws))
      /\ UNCHANGED <<spread, isSyntheticSpread, contentMetaSize, reported, cutShort, calls>>
  BY DEF onIFrameLoad
<1>2. /\ pageViews \in [Sides -> PageView] /\ redraws \in Seq(SUBSET Sides)
      /\ pageViews[s].requested \in BOOLEAN /\ cameLate \in BOOLEAN
      /\ s \in Busy(pageViews) /\ Busy(pageViews) \subseteq Displayed(pageViews)
  BY <1>1 DEF IInv, TypeOK, OnlyDisplayedIsBusy, Busy, PageView
<1>2a. ~cameLate' => ~cameLate /\ ~pageViews[s].requested
  BY <1>1
<1>3. pageViews[s].currentSpineItem # NoItem
  BY <1>2 DEF Displayed, isDisplaying
<1>4. /\ pageViews' \in [Sides -> PageView]
      /\ \A t \in Sides : /\ pageViews'[t].currentSpineItem = pageViews[t].currentSpineItem
                          /\ t # s => pageViews'[t] = pageViews[t]
      /\ pageViews'[s].epubHtml = "attached"
      /\ pageViews'[s].document = pageViews[s].document
      /\ pageViews'[s].requested = pageViews[s].requested /\ ~pageViews'[s].loading
      /\ Displayed(pageViews') = Displayed(pageViews)
      /\ Busy(pageViews') = IF pageViews[s].requested THEN Busy(pageViews) \cup {s}
                            ELSE Busy(pageViews) \ {s}
  BY <1>1, <1>2, <1>3, PageLoads
<1>5. /\ Len(redraws) \in Nat /\ DOMAIN redraws = 1 .. Len(redraws)
      /\ \A k \in DOMAIN redraws : redraws[k] \in SUBSET Sides
  BY <1>2, LenProperties, ElementOfSeq
<1>6. /\ redraws' \in Seq(SUBSET Sides)
      /\ DOMAIN redraws' = DOMAIN redraws
      /\ \A k \in DOMAIN redraws : redraws'[k] = redraws[k] \ {s}
  BY <1>1, <1>2, <1>5, ResolvedType DEF Resolved
<1>7. \A k \in DOMAIN redraws : redraws[k] # {s}  BY DEF Complete
<1>8. TypeOK'
  <2>1. meta_size' \in MetaSizes  BY <1>1, SizeRead
  <2> QED  BY <1>1, <1>2, <1>4, <1>6, <2>1 DEF IInv, TypeOK
<1>9. Opened'  BY <1>1 DEF IInv, Opened
<1>10. DisplaysSpread'  BY <1>1, <1>4 DEF IInv, DisplaysSpread
<1>11. OnlyDisplayedIsBusy'  BY <1>2, <1>4 DEF OnlyDisplayedIsBusy
<1>12. WillReport'
  <2>1. SUFFICES ASSUME ~cutShort, NEW k \in DOMAIN redraws,
                        redraws[k] # {}, redraws[k] \subseteq Busy(pageViews)
                 PROVE  redraws'[k] # {} /\ redraws'[k] \subseteq Busy(pageViews')
    BY <1>1, <1>6 DEF IInv, WillReport
  <2>2. redraws'[k] = redraws[k] \ {s} /\ redraws[k] # {s}
    BY <1>6, <1>7
  <2> QED  BY <1>4, <2>1, <2>2
<1>13. IdleIsAttached'  BY <1>1, <1>4 DEF IInv, IdleIsAttached, Displayed
<1>14. WillScale'
  <2>1. SUFFICES ASSUME ~cutShort, ~cameLate'
                 PROVE  Busy(pageViews') # {}
                        /\ \E k \in DOMAIN redraws' : redraws'[k] = Busy(pageViews')
    BY <1>1 DEF WillScale
  <2>2. Busy(pageViews') = Busy(pageViews) \ {s}  BY <1>1, <1>4, <2>1
  <2>3. PICK k \in DOMAIN redraws : redraws[k] = Busy(pageViews)
    BY <1>2, <1>2a, <2>1 DEF IInv, WillScale
  <2> QED  BY <1>2, <1>6, <1>7, <2>2, <2>3
<1>15. FramesHold'  BY <1>1, <1>4 DEF IInv, FramesHold
<1>16. SizeIsOfAPage'
  BY <1>1, <1>2, <1>4, SizeRead DEF SizeIsOfAPage
<1> QED  BY <1>8, <1>9, <1>10, <1>11, <1>12, <1>13, <1>14, <1>15, <1>16 DEF IInv

(* A load that completes a redraw: either a report is made and everything   *)
(* loaded is laid out, or the event is cut short.                           *)
LEMMA FullLoadStep ==
    ASSUME IInv, NEW s \in Sides, onIFrameLoad(s), Complete(s) # {}
    PROVE  IInv'
<1> DEFINE pages == [pageViews EXCEPT ![s] = LoadedPage(pageViews[s])]
           size  == updateMetaSize(pageViews[s])
<1>1. /\ pageViews[s].loading
      /\ meta_size' = size
      /\ cameLate' = (cameLate \/ pageViews[s].requested)
      /\ contentMetaSize' = updateContentMetaSize(pages, size)
      /\ pageViews' = resizeBook(pages, size, contentMetaSize')
      /\ \/ /\ LayoutThrows(pages)
            /\ redraws' = Resolved(s, FirstComplete(s))
            /\ cutShort' = TRUE
            /\ reported' = reported
         \/ /\ ~LayoutThrows(pages)
            /\ redraws' = Resolved(s, Len(redraws))
            /\ reported' = validItems(spread)
            /\ cutShort' = cutShort
      /\ UNCHANGED <<spread, isSyntheticSpread, calls>>
  BY DEF onIFrameLoad, onPagesLoaded, Layout
<1>2. /\ pageViews \in [Sides -> PageView] /\ redraws \in Seq(SUBSET Sides)
      /\ pageViews[s].requested \in BOOLEAN /\ cameLate \in BOOLEAN
      /\ s \in Busy(pageViews) /\ Busy(pageViews) \subseteq Displayed(pageViews)
  BY <1>1 DEF IInv, TypeOK, OnlyDisplayedIsBusy, Busy, PageView
<1>2a. ~cameLate' => ~cameLate /\ ~pageViews[s].requested
  BY <1>1
<1>3. pageViews[s].currentSpineItem # NoItem
  BY <1>2 DEF Displayed, isDisplaying
<1>4. /\ pages \in [Sides -> PageView]
      /\ \A t \in Sides : /\ pages[t].currentSpineItem = pageViews[t].currentSpineItem
                          /\ t # s => pages[t] = pageViews[t]
      /\ pages[s].epubHtml = "attached"
      /\ pages[s].document = pageViews[s].document
      /\ pages[s].requested = pageViews[s].requested /\ ~pages[s].loading
      /\ Displayed(pages) = Displayed(pageViews)
      /\ Busy(pages) = IF pageViews[s].requested THEN Busy(pageViews) \cup {s}
                       ELSE Busy(pageViews) \ {s}
  BY <1>2, <1>3, PageLoads
<1>4a. /\ size \in MetaSizes
       /\ contentMetaSize' = size
       /\ ~pageViews[s].requested => SizeOf[spread[s]] \in {0, size}
  BY <1>1, <1>2, <1>4, SizeRead DEF updateContentMetaSize
<1> HIDE DEF pages, size
<1>5. /\ pageViews' \in [Sides -> PageView]
      /\ \A t \in Sides : /\ pageViews'[t].currentSpineItem = pages[t].currentSpineItem
                          /\ pageViews'[t].epubHtml = pages[t].epubHtml
                          /\ pageViews'[t].requested = pages[t].requested
                          /\ pageViews'[t].loading = pages[t].loading
                          /\ pageViews'[t].document = pages[t].document
      /\ Busy(pageViews') = Busy(pages)
      /\ Displayed(pageViews') = Displayed(pageViews)
      /\ ~LayoutThrows(pages) =>
            \A t \in Displayed(pages) : pages[t].epubHtml = "attached"
               => pageViews'[t].size = size /\ pageViews'[t].scale = size
  BY <1>1, <1>4, <1>4a, Resize
<1>6. /\ Len(redraws) \in Nat /\ DOMAIN redraws = 1 .. Len(redraws)
      /\ \A k \in DOMAIN redraws : redraws[k] \in SUBSET Sides
  BY <1>2, LenProperties, ElementOfSeq
<1>7. redraws' \in Seq(SUBSET Sides)
  BY <1>1, <1>2, ResolvedType
<1>8. TypeOK'
  <2>1. validItems(spread) \in SUBSET Items
    BY DEF IInv, TypeOK, Spreads, validItems
  <2> QED  BY <1>1, <1>2, <1>4a, <1>5, <1>7, <2>1 DEF IInv, TypeOK
<1>9. Opened'  BY <1>1 DEF IInv, Opened
<1>10. DisplaysSpread'  BY <1>1, <1>4, <1>5 DEF IInv, DisplaysSpread
<1>11. OnlyDisplayedIsBusy'  BY <1>2, <1>4, <1>5 DEF OnlyDisplayedIsBusy
<1>12. WillReport'  BY <1>1 DEF WillReport
<1>13. IdleIsAttached'  BY <1>2a, <1>4, <1>5 DEF IInv, IdleIsAttached, Displayed
<1>14. WillScale'
  <2>1. SUFFICES ASSUME ~cutShort', ~cameLate'
                 PROVE  \/ Busy(pageViews') = {} /\ LaidOut'
                        \/ /\ Busy(pageViews') # {}
                           /\ \E k \in DOMAIN redraws' : redraws'[k] = Busy(pageViews')
    BY DEF WillScale
  <2>2. /\ ~LayoutThrows(pages) /\ ~cutShort
        /\ redraws' = Resolved(s, Len(redraws))
        /\ Busy(pageViews') = Busy(pageViews) \ {s}
    BY <1>1, <1>2a, <1>4, <1>5, <2>1
  <2>3. /\ DOMAIN redraws' = DOMAIN redraws
        /\ \A k \in DOMAIN redraws : redraws'[k] = redraws[k] \ {s}
    BY <1>6, <2>2 DEF Resolved
  <2>4. PICK k \in DOMAIN redraws : redraws[k] = Busy(pageViews)
    BY <1>2, <1>2a, <2>1, <2>2 DEF IInv, WillScale
  <2>5. CASE Busy(pageViews') # {}  BY <2>2, <2>3, <2>4, <2>5
  <2>6. CASE Busy(pageViews') = {}
    <3>1. \A t \in Displayed(pageViews') : pageViews'[t].epubHtml = "attached"
      BY <1>13, <2>1, <2>6 DEF IdleIsAttached
    <3>2. Displayed(pageViews') \subseteq Sides  BY DEF Displayed
    <3>3. \A t \in Displayed(pageViews') : pageViews'[t].size = size
                                           /\ pageViews'[t].scale = size
      BY <1>4, <1>5, <2>2, <3>1, <3>2
    <3> QED  BY <1>1, <1>4a, <2>6, <3>3 DEF LaidOut
  <2> QED  BY <2>5, <2>6
<1>15. FramesHold'  BY <1>1, <1>4, <1>5 DEF IInv, FramesHold
<1>16. SizeIsOfAPage'
  BY <1>1, <1>2, <1>4, <1>4a, <1>5 DEF SizeIsOfAPage
<1> QED  BY <1>8, <1>9, <1>10, <1>11, <1>12, <1>13, <1>14, <1>15, <1>16 DEF IInv

-----------------------------------------------------------------------------
LEMMA InvInit == Init => IInv
<1> SUFFICES ASSUME Init PROVE IInv  OBVIOUS
<1>1. /\ spread = [s \in Sides |-> NoItem]
      /\ pageViews = [s \in Sides |-> NewPageView]
      /\ redraws = <<>> /\ reported = {} /\ cutShort = FALSE /\ calls = 0
      /\ isSyntheticSpread \in BOOLEAN /\ meta_size = 0 /\ contentMetaSize = Unknown
      /\ cameLate = FALSE
  BY DEF Init, resetItems
<1>2. NewPageView \in PageView  BY DEF NewPageView, EmptyFrame, PageView, HtmlStates
<1>3. Busy(pageViews) = {} /\ Displayed(pageViews) = {}
  BY <1>1 DEF Busy, Displayed, isDisplaying, NewPageView, EmptyFrame
<1>4. TypeOK
  <2>1. redraws \in Seq(SUBSET Sides)  BY <1>1, EmptySeq
  <2>2. spread \in Spreads  BY <1>1 DEF Spreads
  <2>3. pageViews \in [Sides -> PageView]  BY <1>1, <1>2
  <2>4. calls \in 0 .. MaxCalls  BY <1>1, FixedViewAssumption
  <2>5. /\ isSyntheticSpread \in BOOLEAN /\ cutShort \in BOOLEAN /\ cameLate \in BOOLEAN
        /\ meta_size \in MetaSizes /\ contentMetaSize \in MetaSizes \cup {Unknown}
        /\ reported \in SUBSET Items
    BY <1>1 DEF MetaSizes
  <2> QED  BY <2>1, <2>2, <2>3, <2>4, <2>5 DEF TypeOK
<1>5. Opened  BY <1>1 DEF Opened, resetItems
<1>6. DisplaysSpread /\ FramesHold
  BY <1>1 DEF DisplaysSpread, FramesHold, NewPageView, EmptyFrame
<1>7. validItems(spread) = {}  BY <1>1 DEF validItems
<1> QED
  BY <1>1, <1>3, <1>4, <1>5, <1>6, <1>7
     DEF IInv, OnlyDisplayedIsBusy, WillReport, IdleIsAttached, WillScale, LaidOut, SizeIsOfAPage

(* The item bookmarked is one of the spread, if there is any.               *)
LEMMA Bookmark ==
    ASSUME IInv
    PROVE  LET b == bookmarkCurrentPage(pageViews) IN
           /\ b = NoItem => spread = resetItems
           /\ b # NoItem => b \in Items /\ b \in validItems(spread)
<1>1. /\ \A s \in Sides : pageViews[s].currentSpineItem = spread[s]
      /\ spread \in [Sides -> Items \cup {NoItem}]
  BY DEF IInv, TypeOK, DisplaysSpread, Spreads
<1>2. \E s \in Sides : bookmarkCurrentPage(pageViews) = spread[s]
  BY <1>1, SidesType DEF bookmarkCurrentPage
<1>3. ASSUME bookmarkCurrentPage(pageViews) = NoItem PROVE spread = resetItems
  BY <1>1, <1>3, SidesType DEF bookmarkCurrentPage, isDisplaying, resetItems
<1> QED  BY <1>1, <1>2, <1>3 DEF validItems

(* The view's bookmark is the item FirstIsBefore finds first.               *)
LEMMA BookmarkIsFirst ==
    ASSUME IInv, validItems(spread) # {}
    PROVE  bookmarkCurrentPage(pageViews) = firstOf(spread)
<1>1. spread # resetItems  BY DEF resetItems, validItems
<1>2. PICK i \in Items : spread = openItem(i, isSyntheticSpread)
  BY <1>1 DEF IInv, Opened
<1>3. isSyntheticSpread \in BOOLEAN  BY DEF IInv, TypeOK
<1>4. \A s \in Sides : pageViews[s].currentSpineItem = spread[s]
  BY DEF IInv, DisplaysSpread
<1> QED
  BY <1>2, <1>3, <1>4, FirstIsBefore, SidesType DEF bookmarkCurrentPage, isDisplaying

LEMMA SpreadItems ==
    ASSUME IInv, validItems(spread) # {}
    PROVE  /\ \E i \in Items : spread = openItem(i, isSyntheticSpread)
           /\ firstOf(spread) \in Items /\ lastOf(spread) \in Items
<1>1. spread # resetItems  BY DEF resetItems, validItems
<1>2. PICK i \in Items : spread = openItem(i, isSyntheticSpread)
  BY <1>1 DEF IInv, Opened
<1>3. isSyntheticSpread \in BOOLEAN  BY DEF IInv, TypeOK
<1> QED  BY <1>2, <1>3, FirstLast, SpreadsPartition

LEMMA InvNext == IInv /\ [Next]_vars => IInv'
<1> SUFFICES ASSUME IInv, [Next]_vars PROVE IInv'  OBVIOUS
<1>1. isSyntheticSpread \in BOOLEAN /\ calls \in 0 .. MaxCalls /\ MaxCalls \in Nat
  BY FixedViewAssumption DEF IInv, TypeOK
<1>2. ASSUME Call PROVE calls' \in 0 .. MaxCalls
  BY <1>1, <1>2 DEF Call
<1>3. ASSUME NEW item \in Items, readerOpenPage(item) PROVE IInv'
  BY <1>1, <1>2, <1>3, OpenPageStep DEF readerOpenPage
<1>4. CASE OpenSpineItem  BY <1>3, <1>4 DEF OpenSpineItem
<1>5. CASE openPageNext
  <2>1. nextItem(lastOf(spread)) \in Items  BY <1>5, SpreadItems, PrevNext DEF openPageNext
  <2> QED  BY <1>3, <1>5, <2>1 DEF openPageNext
<1>6. CASE openPagePrev
  <2>1. prevItem(firstOf(spread)) \in Items  BY <1>6, SpreadItems, PrevNext DEF openPagePrev
  <2> QED  BY <1>3, <1>6, <2>1 DEF openPagePrev
<1>7. CASE UpdateSettings
  <2>1. PICK synthetic \in BOOLEAN : updateSettings(synthetic)  BY <1>7 DEF UpdateSettings
  <2>2. calls' \in 0 .. MaxCalls /\ isSyntheticSpread' = synthetic
    BY <1>2, <2>1 DEF updateSettings
  <2>3. CASE bookmarkCurrentPage(pageViews) = NoItem
    <3>1. /\ spread = resetItems
          /\ UNCHANGED <<spread, pageViews, redraws, meta_size, contentMetaSize, reported,
                         cutShort, cameLate>>
      BY <2>1, <2>3, Bookmark DEF updateSettings, layoutVars
    <3>2. TypeOK'  BY <2>2, <3>1 DEF IInv, TypeOK
    <3>3. Opened'  BY <3>1 DEF Opened, resetItems
    <3>4. /\ DisplaysSpread' /\ OnlyDisplayedIsBusy' /\ WillReport' /\ IdleIsAttached'
          /\ WillScale' /\ FramesHold' /\ SizeIsOfAPage'
      BY <3>1 DEF IInv, DisplaysSpread, OnlyDisplayedIsBusy, WillReport, IdleIsAttached, WillScale,
                  LaidOut, FramesHold, SizeIsOfAPage
    <3> QED  BY <3>2, <3>3, <3>4 DEF IInv
  <2>4. CASE bookmarkCurrentPage(pageViews) # NoItem
    <3>1. openPage(bookmarkCurrentPage(pageViews), synthetic)
      BY <2>1, <2>4 DEF updateSettings
    <3>2. bookmarkCurrentPage(pageViews) \in Items  BY <2>4, Bookmark
    <3> QED  BY <2>2, <3>1, <3>2, OpenPageStep
  <2> QED  BY <2>3, <2>4
<1>8. CASE setStyles
  BY <1>2, <1>8, ResizeStep DEF setStyles, Layout
<1>9. CASE onViewportResize
  BY <1>1, <1>2, <1>9, ResizeStep DEF onViewportResize, layoutVars
<1>10. CASE Browser
  BY <1>10, CommitStep, PartLoadStep, FullLoadStep DEF Browser
<1>11. CASE UNCHANGED vars
  BY <1>11 DEF vars, layoutVars, IInv, TypeOK, Opened, DisplaysSpread, OnlyDisplayedIsBusy,
               WillReport, IdleIsAttached, WillScale, LaidOut, FramesHold, SizeIsOfAPage
<1> QED
  BY <1>4, <1>5, <1>6, <1>7, <1>8, <1>9, <1>10, <1>11 DEF Next

LEMMA Invariance == Spec => []IInv
BY InvInit, InvNext, PTL DEF Spec

(* The members of the view keep their types.                                *)
THEOREM TypeCorrect == Spec => []TypeOK
<1>1. IInv => TypeOK  BY DEF IInv
<1> QED  BY <1>1, Invariance, PTL

(* Whatever order the iframes load in, superseded documents included, the   *)
(* host is told of the spread shown, unless a load event was cut short.     *)
THEOREM SpreadsAreReported == Spec => []RestIsReported
<1>1. IInv => RestIsReported  BY DEF IInv, WillReport, RestIsReported, AtRest
<1> QED  BY <1>1, Invariance, PTL

(* Every page displayed has the size last read and the scale that goes with *)
(* it once the iframes are at rest, unless a superseded document fired its  *)
(* load event.                                                              *)
THEOREM PagesAreScaled == Spec => []RestIsScaled
<1>1. IInv => RestIsScaled  BY DEF IInv, WillScale, LaidOut, RestIsScaled, AtRest
<1> QED  BY <1>1, Invariance, PTL

(* Pages of one size, side by side, get that size, whatever the sizes of    *)
(* the other pages of the book.                                             *)
THEOREM SizesAreKept == Spec => []RestKeepsSize
<1>1. IInv => RestKeepsSize
  <2> SUFFICES ASSUME IInv, AtRest, ~cutShort, ~cameLate, NEW size \in MetaSizes \ {0},
                      \A s \in Displayed(pageViews) : SizeOf[spread[s]] = size
               PROVE  \A s \in Displayed(pageViews) : pageViews[s].size = size
    BY DEF RestKeepsSize
  <2>1. \A s \in Displayed(pageViews) : pageViews[s].size = meta_size
    BY DEF IInv, WillScale, LaidOut, AtRest
  <2>2. CASE Displayed(pageViews) # {}
    <3>1. \E s \in Displayed(pageViews) : SizeOf[spread[s]] \in {0, meta_size}
      BY <2>2 DEF IInv, SizeIsOfAPage, AtRest
    <3> QED  BY <2>1, <3>1
  <2> QED  BY <2>2
<1> QED  BY <1>1, Invariance, PTL

(* Turning a page and back returns to the same spread.                      *)
THEOREM PageTurnsComeBack == Spec => []TurnsComeBack
<1>1. IInv => TurnsComeBack
  <2> SUFFICES ASSUME IInv, validItems(spread) # {}
               PROVE  /\ nextItem(lastOf(spread)) # NoItem =>
                            openPrev(openNext(spread, isSyntheticSpread), isSyntheticSpread)
                              = spread
                      /\ prevItem(firstOf(spread)) # NoItem =>
                            openNext(openPrev(spread, isSyntheticSpread), isSyntheticSpread)
                              = spread
    BY DEF TurnsComeBack
  <2>1. PICK i \in Items : spread = openItem(i, isSyntheticSpread)  BY SpreadItems
  <2>2. isSyntheticSpread \in BOOLEAN  BY DEF IInv, TypeOK
  <2> QED  BY <2>1, <2>2, NextThenPrev, PrevThenNext
<1> QED  BY <1>1, Invariance, PTL

(* Whatever the reader opens is on display.                                 *)
THEOREM OpenedIsOnDisplay == Spec => OpenedIsShown
<1>1. IInv /\ [Next]_vars
        => [\A item \in Items : readerOpenPage(item) => item \in validItems(spread')]_vars
  <2> SUFFICES ASSUME IInv, NEW item \in Items, readerOpenPage(item)
               PROVE  item \in validItems(spread')
    OBVIOUS
  <2>1. isSyntheticSpread \in BOOLEAN /\ spread' = openItem(item, isSyntheticSpread)
    BY DEF IInv, TypeOK, readerOpenPage, openPage
  <2> QED  BY <2>1, OpenItem
<1> QED  BY <1>1, Invariance, PTL DEF Spec, OpenedIsShown

(* A change of settings keeps the reader's place.                           *)
THEOREM SettingsKeepThePlace == Spec => SettingsKeepPlace
<1>1. IInv /\ [Next]_vars
        => [UpdateSettings /\ validItems(spread) # {}
              => firstOf(spread) \in validItems(spread')]_vars
  <2> SUFFICES ASSUME IInv, UpdateSettings, validItems(spread) # {}
               PROVE  firstOf(spread) \in validItems(spread')
    OBVIOUS
  <2>1. PICK synthetic \in BOOLEAN : updateSettings(synthetic)  BY DEF UpdateSettings
  <2>2. /\ bookmarkCurrentPage(pageViews) = firstOf(spread)
        /\ firstOf(spread) \in Items /\ firstOf(spread) # NoItem
    BY BookmarkIsFirst, SpreadItems, ItemsAreInts
  <2>3. spread' = openItem(firstOf(spread), synthetic)
    BY <2>1, <2>2 DEF updateSettings, openPage
  <2> QED  BY <2>2, <2>3, OpenItem
<1> QED  BY <1>1, Invariance, PTL DEF Spec, SettingsKeepPlace

-----------------------------------------------------------------------------
(* Load events cut short.  A page that has never loaded is one the last     *)
(* redraw waits for.                                                        *)
LastWaits ==
    \A s \in Sides : NeverLoaded(pageViews[s])
                        => redraws # <<>> /\ s \in redraws[Len(redraws)]

LEMMA LastIs ==
    ASSUME NEW q \in Seq(SUBSET Sides), q # <<>>
    PROVE  Len(q) \in DOMAIN q /\ Len(q) \in Nat
<1>1. Len(q) \in Nat /\ Len(q) > 0 /\ DOMAIN q = 1 .. Len(q)
  BY EmptySeq, LenProperties
<1> QED  BY <1>1

(* A step that leaves the redraws, and what has been loaded.                *)
LEMMA SameNeverLoaded ==
    ASSUME LastWaits, redraws' = redraws,
           \A t \in Sides : /\ pageViews'[t].currentSpineItem = pageViews[t].currentSpineItem
                            /\ pageViews'[t].epubHtml = "undefined"
                                  => pageViews[t].epubHtml = "undefined"
    PROVE  LastWaits'
BY DEF LastWaits, NeverLoaded, isDisplaying

LEMMA OpenPageWaits ==
    ASSUME IInv, NEW item \in Items, NEW synthetic \in BOOLEAN, openPage(item, synthetic)
    PROVE  LastWaits'
<1> DEFINE items == openItem(item, synthetic)
<1>1. /\ items \in Spreads /\ pageViews \in [Sides -> PageView]
      /\ Busy(pageViews) \subseteq Displayed(pageViews) /\ redraws \in Seq(SUBSET Sides)
  BY OpenItem DEF IInv, TypeOK, OnlyDisplayedIsBusy
<1>2. /\ pageViews' = [s \in Sides |-> updatePageViewForItem(pageViews[s], items[s])]
      /\ redraws' = Append(redraws, WaitingFor(items))
  BY DEF openPage, redraw
<1>3. WaitingFor(items) \in SUBSET Sides  BY DEF WaitingFor
<1> HIDE DEF items
<1>4. \A s \in Sides : pageViews'[s].currentSpineItem = items[s]
  <2> DEFINE after == [s \in Sides |-> updatePageViewForItem(pageViews[s], items[s])]
  <2>1. \A s \in Sides : after[s].currentSpineItem = items[s]
    BY <1>1, UpdatedPages
  <2>2. pageViews' = after  BY <1>2
  <2> HIDE DEF after
  <2> QED  BY <2>1, <2>2
<1>5. Len(redraws') \in DOMAIN redraws' /\ redraws'[Len(redraws')] = WaitingFor(items)
  BY <1>1, <1>2, <1>3, AppendedRedraw
<1>6. redraws' # <<>>
  <2>1. DOMAIN <<>> = {}  OBVIOUS
  <2> QED  BY <1>5, <2>1
<1> QED  BY <1>4, <1>5, <1>6 DEF LastWaits, NeverLoaded, isDisplaying, WaitingFor

(* What a load does to the page and to the last redraw, and when it is cut  *)
(* short.                                                                   *)
LEMMA Loads ==
    ASSUME IInv, NEW s \in Sides, onIFrameLoad(s)
    PROVE  /\ \A t \in Sides : pageViews'[t].currentSpineItem = pageViews[t].currentSpineItem
           /\ \A t \in Sides : t # s => pageViews'[t].epubHtml = pageViews[t].epubHtml
           /\ pageViews'[s].epubHtml = "attached"
           /\ ~pageViews'[s].loading /\ pageViews'[s].requested = pageViews[s].requested
           /\ \A t \in Sides \ {s} : /\ pageViews'[t].requested = pageViews[t].requested
                                     /\ pageViews'[t].loading = pageViews[t].loading
           /\ Len(redraws') = Len(redraws) /\ (redraws = <<>> <=> redraws' = <<>>)
           /\ \A k \in DOMAIN redraws : redraws[k] \ {s} \subseteq redraws'[k]
           /\ ~cutShort /\ cutShort' => \E t \in Sides \ {s} : NeverLoaded(pageViews[t])
<1> DEFINE pages == [pageViews EXCEPT ![s] = LoadedPage(pageViews[s])]
           size == updateMetaSize(pageViews[s])
<1>1. /\ pageViews \in [Sides -> PageView] /\ redraws \in Seq(SUBSET Sides)
      /\ pageViews[s].loading /\ pageViews[s].currentSpineItem # NoItem
  BY DEF IInv, TypeOK, OnlyDisplayedIsBusy, Busy, Displayed, isDisplaying, onIFrameLoad
<1>2. /\ pages \in [Sides -> PageView]
      /\ \A t \in Sides : /\ pages[t].currentSpineItem = pageViews[t].currentSpineItem
                          /\ t # s => pages[t] = pageViews[t]
      /\ pages[s].epubHtml = "attached"
      /\ pages[s].requested = pageViews[s].requested /\ ~pages[s].loading
  BY <1>1, PageLoads
<1>3. size \in MetaSizes  BY <1>1, SizeRead
<1>4. /\ \E upto : redraws' = Resolved(s, upto)
      /\ ~cutShort /\ cutShort' => LayoutThrows(pages)
      /\ \/ pageViews' = pages
         \/ /\ contentMetaSize' = updateContentMetaSize(pages, size)
            /\ pageViews' = resizeBook(pages, size, contentMetaSize')
  BY DEF onIFrameLoad, onPagesLoaded, Layout
<1> HIDE DEF pages, size
<1>5. \A t \in Sides : /\ pageViews'[t].currentSpineItem = pages[t].currentSpineItem
                       /\ pageViews'[t].epubHtml = pages[t].epubHtml
                       /\ pageViews'[t].requested = pages[t].requested
                       /\ pageViews'[t].loading = pages[t].loading
  <2>1. CASE pageViews' = pages  BY <2>1
  <2>2. CASE /\ contentMetaSize' = updateContentMetaSize(pages, size)
             /\ pageViews' = resizeBook(pages, size, contentMetaSize')
    <3>1. contentMetaSize' \in MetaSizes \cup {Unknown}
      BY <1>3, <2>2 DEF updateContentMetaSize
    <3> QED  BY <1>2, <1>3, <2>2, <3>1, Resize
  <2> QED  BY <1>4, <2>1, <2>2
<1>6. /\ redraws' \in Seq(SUBSET Sides) /\ DOMAIN redraws' = DOMAIN redraws
      /\ \A k \in DOMAIN redraws : redraws[k] \ {s} \subseteq redraws'[k]
  <2>1. PICK upto : redraws' = Resolved(s, upto)  BY <1>4
  <2>2. redraws' \in Seq(SUBSET Sides) /\ DOMAIN redraws' = DOMAIN redraws
    BY <1>1, <2>1, ResolvedType
  <2>3. \A k \in DOMAIN redraws : redraws'[k] = IF k <= upto THEN redraws[k] \ {s} ELSE redraws[k]
    BY <2>1 DEF Resolved
  <2> QED  BY <2>2, <2>3
<1>7. Len(redraws') = Len(redraws) /\ (redraws = <<>> <=> redraws' = <<>>)
  <2>1. PICK n \in Nat, m \in Nat : n = Len(redraws) /\ m = Len(redraws')
    BY <1>1, <1>6, LenProperties
  <2>2. 1 .. n = 1 .. m  BY <1>1, <1>6, <2>1, LenProperties
  <2>3. n = m  BY <2>2
  <2>4. (redraws = <<>> <=> n = 0) /\ (redraws' = <<>> <=> m = 0)
    BY <1>1, <1>6, <2>1, EmptySeq
  <2> QED  BY <2>1, <2>3, <2>4
<1>8. ~cutShort /\ cutShort' => \E t \in Sides \ {s} : NeverLoaded(pageViews[t])
  <2> SUFFICES ASSUME LayoutThrows(pages)
               PROVE  \E t \in Sides \ {s} : NeverLoaded(pageViews[t])
    BY <1>4
  <2>1. PICK t \in Sides : NeverLoaded(pages[t])  BY DEF LayoutThrows
  <2>2. t # s  BY <1>2, <2>1 DEF NeverLoaded
  <2> QED  BY <1>2, <2>1, <2>2
<1> QED  BY <1>2, <1>5, <1>6, <1>7, <1>8

LEMMA LoadWaits ==
    ASSUME IInv, LastWaits, NEW s \in Sides, onIFrameLoad(s)
    PROVE  LastWaits'
<1> SUFFICES ASSUME NEW t \in Sides, NeverLoaded(pageViews[t])'
             PROVE  redraws' # <<>> /\ t \in redraws'[Len(redraws')]
  BY DEF LastWaits
<1>1. t # s /\ NeverLoaded(pageViews[t])
  BY Loads DEF NeverLoaded, isDisplaying
<1>2. redraws # <<>> /\ t \in redraws[Len(redraws)]
  BY <1>1 DEF LastWaits
<1>3. redraws \in Seq(SUBSET Sides)  BY DEF IInv, TypeOK
<1>4. Len(redraws) \in DOMAIN redraws  BY <1>2, <1>3, LastIs
<1> QED  BY <1>1, <1>2, <1>4, Loads

LEMMA LastWaitsInit == Init => LastWaits
BY DEF Init, LastWaits, NeverLoaded, isDisplaying, NewPageView, EmptyFrame

LEMMA LastWaitsNext == IInv /\ LastWaits /\ [Next]_vars => LastWaits'
<1> SUFFICES ASSUME IInv, LastWaits, [Next]_vars PROVE LastWaits'  OBVIOUS
<1>1. isSyntheticSpread \in BOOLEAN /\ pageViews \in [Sides -> PageView]
  BY DEF IInv, TypeOK
<1>2. ASSUME NEW item \in Items, readerOpenPage(item) PROVE LastWaits'
  BY <1>1, <1>2, OpenPageWaits DEF readerOpenPage
<1>3. CASE OpenSpineItem  BY <1>2, <1>3 DEF OpenSpineItem
<1>4. CASE openPageNext
  <2>1. nextItem(lastOf(spread)) \in Items  BY <1>4, SpreadItems, PrevNext DEF openPageNext
  <2> QED  BY <1>2, <1>4, <2>1 DEF openPageNext
<1>5. CASE openPagePrev
  <2>1. prevItem(firstOf(spread)) \in Items  BY <1>5, SpreadItems, PrevNext DEF openPagePrev
  <2> QED  BY <1>2, <1>5, <2>1 DEF openPagePrev
<1>6. CASE UpdateSettings
  <2>1. PICK synthetic \in BOOLEAN : updateSettings(synthetic)  BY <1>6 DEF UpdateSettings
  <2>2. CASE bookmarkCurrentPage(pageViews) = NoItem
    <3>1. UNCHANGED <<pageViews, redraws>>  BY <2>1, <2>2 DEF updateSettings
    <3> QED  BY <3>1, SameNeverLoaded
  <2>3. CASE bookmarkCurrentPage(pageViews) # NoItem
    <3>1. openPage(bookmarkCurrentPage(pageViews), synthetic)
      BY <2>1, <2>3 DEF updateSettings
    <3>2. bookmarkCurrentPage(pageViews) \in Items  BY <2>3, Bookmark
    <3> QED  BY <3>1, <3>2, OpenPageWaits
  <2> QED  BY <2>2, <2>3
<1>7. ASSUME redraws' = redraws, NEW size \in MetaSizes, NEW scale \in MetaSizes \cup {Unknown},
             pageViews' = resizeBook(pageViews, size, scale)
      PROVE  LastWaits'
  <2>1. \A t \in Sides : /\ pageViews'[t].currentSpineItem = pageViews[t].currentSpineItem
                         /\ pageViews'[t].epubHtml = pageViews[t].epubHtml
    BY <1>1, <1>7, Resize
  <2> QED  BY <1>7, <2>1, SameNeverLoaded
<1>8. meta_size \in MetaSizes /\ contentMetaSize \in MetaSizes \cup {Unknown}
  BY DEF IInv, TypeOK
<1>9. CASE setStyles
  <2>1. /\ redraws' = redraws /\ contentMetaSize' = updateContentMetaSize(pageViews, meta_size)
        /\ pageViews' = resizeBook(pageViews, meta_size, contentMetaSize')
    BY <1>9 DEF setStyles, Layout
  <2>2. contentMetaSize' \in MetaSizes \cup {Unknown}
    BY <1>8, <2>1 DEF updateContentMetaSize
  <2> QED  BY <1>7, <1>8, <2>1, <2>2
<1>10. CASE onViewportResize
  <2>1. /\ redraws' = redraws
        /\ \/ pageViews' = pageViews
           \/ pageViews' = resizeBook(pageViews, meta_size, contentMetaSize)
    BY <1>10 DEF onViewportResize
  <2> QED  BY <1>7, <1>8, <2>1, SameNeverLoaded
<1>11. ASSUME NEW s \in Sides, CommitNavigation(s) PROVE LastWaits'
  <2>1. /\ redraws' = redraws
        /\ pageViews' = [pageViews EXCEPT ![s] = Committed(pageViews[s])]
    BY <1>11 DEF CommitNavigation
  <2>2. /\ Committed(pageViews[s]).currentSpineItem = pageViews[s].currentSpineItem
        /\ Committed(pageViews[s]).epubHtml = "undefined" => pageViews[s].epubHtml = "undefined"
    BY <1>1 DEF Committed, Detached, PageView
  <2>3. \A t \in Sides : pageViews'[t] = IF t = s THEN Committed(pageViews[s]) ELSE pageViews[t]
    BY <1>1, <2>1
  <2> QED  BY <2>1, <2>2, <2>3, SameNeverLoaded
<1>12. CASE Browser  BY <1>11, <1>12, LoadWaits DEF Browser
<1>13. CASE UNCHANGED vars
  BY <1>13, SameNeverLoaded DEF vars
<1> QED
  BY <1>3, <1>4, <1>5, <1>6, <1>9, <1>10, <1>12, <1>13 DEF Next

LEMMA LastAlwaysWaits == Spec => []LastWaits
BY LastWaitsInit, LastWaitsNext, Invariance, PTL DEF Spec

(* The only steps that cut a load event short are load events.              *)
LEMMA OnlyLoadsCutShort ==
    ASSUME IInv, [Next]_vars, cutShort' # cutShort
    PROVE  \E s \in Sides : onIFrameLoad(s)
BY DEF Next, OpenSpineItem, openPageNext, openPagePrev, readerOpenPage, openPage, UpdateSettings,
       updateSettings, setStyles, onViewportResize, Browser, CommitNavigation, vars

(* A load event is cut short only while the last redraw still waits: the    *)
(* callback that throws is that of a redraw since abandoned.                *)
THEOREM OnlyAbandonedRedrawsThrow == Spec => OnlyAbandonedThrow
<1>1. IInv /\ LastWaits /\ [Next]_vars
        => [~cutShort /\ cutShort' => redraws'[Len(redraws')] # {}]_vars
  <2> SUFFICES ASSUME IInv, LastWaits, [Next]_vars, ~cutShort, cutShort'
               PROVE  redraws'[Len(redraws')] # {}
    OBVIOUS
  <2>1. PICK s \in Sides : onIFrameLoad(s)  BY OnlyLoadsCutShort
  <2>2. PICK t \in Sides \ {s} : NeverLoaded(pageViews[t])  BY <2>1, Loads
  <2>3. redraws # <<>> /\ t \in redraws[Len(redraws)]  BY <2>2 DEF LastWaits
  <2>4. redraws \in Seq(SUBSET Sides)  BY DEF IInv, TypeOK
  <2>5. Len(redraws) \in DOMAIN redraws  BY <2>3, <2>4, LastIs
  <2>6. t \in redraws'[Len(redraws')]  BY <2>1, <2>2, <2>3, <2>5, Loads
  <2> QED  BY <2>6
<1> QED  BY <1>1, Invariance, LastAlwaysWaits, PTL DEF Spec, OnlyAbandonedThrow

-----------------------------------------------------------------------------
(* What is left for the browser: to replace each document asked for, and to *)
(* load each that has been.                                                 *)
PageWork(page) == (IF page.requested THEN 2 ELSE 0) + (IF page.loading THEN 1 ELSE 0)

FrameWork == PageWork(pageViews["left"]) + PageWork(pageViews["right"])
               + PageWork(pageViews["center"])

FramesRunDown == [][Browser => FrameWork' < FrameWork]_vars

LEMMA OneRunsDown ==
    ASSUME IInv, NEW s \in Sides,
           \A t \in Sides \ {s} : /\ pageViews'[t].requested = pageViews[t].requested
                                  /\ pageViews'[t].loading = pageViews[t].loading,
           PageWork(pageViews'[s]) < PageWork(pageViews[s]),
           PageWork(pageViews'[s]) \in Nat
    PROVE  FrameWork' < FrameWork
<1>1. \A t \in Sides : PageWork(pageViews[t]) \in Nat
  BY DEF PageWork
<1>2. \A t \in Sides \ {s} : PageWork(pageViews'[t]) = PageWork(pageViews[t])
  BY DEF PageWork
<1> DEFINE w(t) == PageWork(pageViews[t])
           x(t) == PageWork(pageViews'[t])
<1>3. /\ w("left") \in Nat /\ w("right") \in Nat /\ w("center") \in Nat
      /\ x("left") \in Nat /\ x("right") \in Nat /\ x("center") \in Nat
  BY <1>1, <1>2, SidesType
<1>4. /\ FrameWork = w("left") + w("right") + w("center")
      /\ FrameWork' = x("left") + x("right") + x("center")
  BY DEF FrameWork
<1>5. \/ s = "left" /\ x("right") = w("right") /\ x("center") = w("center")
      \/ s = "right" /\ x("left") = w("left") /\ x("center") = w("center")
      \/ s = "center" /\ x("left") = w("left") /\ x("right") = w("right")
  BY <1>2, SidesType
<1>6. x(s) < w(s)  OBVIOUS
<1> HIDE DEF w, x
<1> QED  BY <1>3, <1>4, <1>5, <1>6

(* Every step of the browser brings the frames nearer to rest, and at rest  *)
(* nothing is left, so that only calls can keep them busy.                  *)
THEOREM FramesAlwaysRunDown == Spec => FramesRunDown
<1>1. IInv /\ [Next]_vars => [Browser => FrameWork' < FrameWork]_vars
  <2> SUFFICES ASSUME IInv, Browser PROVE FrameWork' < FrameWork  OBVIOUS
  <2>1. pageViews \in [Sides -> PageView]  BY DEF IInv, TypeOK
  <2>2. ASSUME NEW s \in Sides, CommitNavigation(s) PROVE FrameWork' < FrameWork
    <3>1. /\ pageViews[s].requested
          /\ pageViews' = [pageViews EXCEPT ![s] = Committed(pageViews[s])]
      BY <2>2 DEF CommitNavigation
    <3>2. ~Committed(pageViews[s]).requested /\ Committed(pageViews[s]).loading
      BY <2>1 DEF Committed, PageView
    <3>3. \A t \in Sides : pageViews'[t] = IF t = s THEN Committed(pageViews[s]) ELSE pageViews[t]
      BY <2>1, <3>1
    <3>4. PageWork(pageViews'[s]) = 1 /\ PageWork(pageViews[s]) >= 2
      BY <3>1, <3>2, <3>3 DEF PageWork
    <3>5. PageWork(pageViews'[s]) < PageWork(pageViews[s]) /\ PageWork(pageViews'[s]) \in Nat
      BY <3>4 DEF PageWork
    <3> QED  BY <3>3, <3>5, OneRunsDown
  <2>3. ASSUME NEW s \in Sides, onIFrameLoad(s) PROVE FrameWork' < FrameWork
    <3>1. /\ pageViews[s].loading /\ ~pageViews'[s].loading
          /\ pageViews'[s].requested = pageViews[s].requested
          /\ \A t \in Sides \ {s} : /\ pageViews'[t].requested = pageViews[t].requested
                                     /\ pageViews'[t].loading = pageViews[t].loading
      BY <2>3, Loads DEF onIFrameLoad
    <3>2. /\ PageWork(pageViews'[s]) \in Nat
          /\ PageWork(pageViews'[s]) < PageWork(pageViews[s])
      BY <3>1 DEF PageWork
    <3> QED  BY <3>1, <3>2, OneRunsDown
  <2> QED  BY <2>2, <2>3 DEF Browser
<1> QED  BY <1>1, Invariance, PTL DEF Spec, FramesRunDown

(* ... and what is left is a natural number, 0 where the frames are at      *)
(* rest: that RestIsReported speaks of comes in so many steps.              *)
THEOREM RestIsNoFrameWork == Spec => [](FrameWork \in Nat /\ (FrameWork = 0 <=> AtRest))
<1>1. FrameWork \in Nat /\ (FrameWork = 0 <=> AtRest)
  <2> DEFINE w(t) == PageWork(pageViews[t])
  <2>1. \A t \in Sides : w(t) \in Nat /\ (w(t) = 0 <=> t \notin Busy(pageViews))
    BY DEF PageWork, Busy
  <2>2. FrameWork = w("left") + w("right") + w("center")  BY DEF FrameWork
  <2>3. AtRest <=> \A t \in Sides : t \notin Busy(pageViews)  BY DEF AtRest, Busy
  <2> HIDE DEF w
  <2>4. /\ w("left") \in Nat /\ w("right") \in Nat /\ w("center") \in Nat
        /\ AtRest <=> w("left") = 0 /\ w("right") = 0 /\ w("center") = 0
    BY <2>1, <2>3, SidesType
  <2> QED  BY <2>2, <2>4
<1> QED  BY <1>1, PTL
=============================================================================
