# SDKLauncher-Linux-Qt: specification and verification

SDKLauncher-Linux-Qt is an EPUB reader: a Qt 4 program with one QtWebKit page
(`src/res/host_app/myReader.html`) in which the Readium JavaScript viewer runs.
The viewer lays a book out, an item of its spine at a time, in iframes; the C++
half opens the EPUB with the Readium SDK and answers the page's requests from
it. This directory holds TLA+ models of both halves, what TLC checks of them on
small instances and what TLAPS proves of them for all.

## 1. The system

```
 host page  --calls-->  ReaderView --owns--> ReflowableView | FixedView --> 3 OnePageViews
 (myReader.html)          |   ^                   |   ^                        |  ^
   ^      |               |   '-ViewPagination-   v   | load event             v  | load event
   |      v               v       Changed        iframe (one item)         iframes (a spread)
 openBook LoadFile      Spine, Package            \____________ URLs ____________/
   |      |                                              v            ^
 DREpubInterface --m_pckg--> ReadiumSdk <--getContent-- createRequest | readyRead, finished
                                                              DRNetworkReply
```

| component | state | operations | how it can go wrong |
|---|---|---|---|
| Spine, items (`models/spine*.js`) | items, direction, page_spread | neighbours, direction | sides and direction decide the partner of a page |
| ReflowableView | current item, `isWaitingFrameRender`, `deferredPageRequest`, `$epubHtml`; on its *prototype* `paginationInfo`, `lastViewPortSize` | openPage, page turns, updatePagination (a 100 ms timer that starts a 50 ms one), onIFrameLoad, styles, settings, debounced resize | requests, loads and timers in any order; timers outlive the view |
| ReaderView | package, current view, settings, styles | openBook, open requests, page turns, updateSettings, setStyles | keeps or replaces the view; turns the answers of one view into requests to another |
| FixedView, OnePageView, Spread | the spread, three page views, on the *prototype* one size for all of them, and for each redraw a jQuery promise of its loads | openPage, redraw, layout, settings, resize, onIFrameLoad, updateMetaSize | loads of old and new redraws mix; so do the sizes of pages |
| CFI navigation, page infos, bookmarks | none | arithmetic on rectangles | positions lost by rounding or by a misnamed field |
| Styles, triggers, media overlays | lists and trees of data | add, clear, copy | not modelled |
| DREpubInterface, network manager and reply | the content of a reply and how far it is read | LoadFile, createRequest, setContent, abort | nested event loop of the dialog; signals queued past the death of what they were for |
| ReadiumSdk (`sdkHelper.cpp`) | `m_cntnr`, `m_pckg` | openEpubFile, getContent, packageToJason | `m_pckg` is swapped before the page knows |

Everything in the page runs on one JavaScript thread and the C++ half on the
thread of the same event loop, so a handler is one atomic step. What
interleaves is handlers: calls of the host page, timers, the two stages of a
navigation (the new document is committed to the iframe; it fires its load
event), window resizes and queued signals. There are no threads, there is no
persistence (no crash recovery) and no lost message, but there are handlers
that arrive when what they belong to is gone. `PROJECT.json` lists the hazards
with their lines.

What makes each component correct:

* *Reflowable view*: the item asked for last is the one shown in the end; none
  is presented that nobody wants any more; a request put off is never lost and
  is opened on a document that is laid out; what a layout hides comes back; at
  rest document, column count, spread index and offset fit each other. (A lookup
  that throws in the middle of a layout breaks the last two, see section 5.)
* *Fixed view*: an item is shown with its partner and every item in exactly one
  spread; a turn and its opposite cancel out; the report is made once all pages
  are in, of exactly the items shown, whatever loads were abandoned; the pages
  shown have their size; settings keep the place.
* *The two views in turn*: page turns skip nothing where a fixed-layout item
  follows a reflowable one; a bookmark leads back to where it was made.
* *Launcher*: the frame shows only the open book, references lead where they
  lead in the container, and every navigation ends in a load event. A reply gives
  all its bytes, in order, once, and then says so.

## 2. Modules

| module | models | refers to |
|---|---|---|
| `Spine` | spine, page sides, direction | `spine.js`, `spine_item.js` |
| `ReflowableView` | the view: handlers as operators over "the pagination so far, the view so far" | `reflowable_view.js`, `page_open_request.js` |
| `Reader` | `ReaderView` over reflowable books; Init, Next, fairness | `reader_view.js`, `viewer_settings.js` |
| `ReaderProperties` | what is claimed of `Reader` | |
| `ItemViewer` | **abstract**: a viewer that presents only what is wanted and in the end presents it | |
| `ReaderRequests` | `Reader` with a history variable, the request that should prevail | |
| `ReaderProofs`, `CoherenceProofs` | TLAPS proofs | |
| `Counting`, `CountingProofs` | how many elements of a queue are of a kind (for the measures of progress); lemmas | |
| `Spread` | which items share a spread (pure operators) | `fixed_page_spread.js` |
| `FixedView` | the fixed-layout view, its pages and promises, under the reader | `fixed_view.js`, `one_page_view.js`, `reader_view.js` |
| `FixedProperties`, `SpreadProofs`, `FixedProofs` | claims and proofs | |
| `CfiNavigation` | places in a document as an element and a percentage (pure operators) | `cfi_navigation_logic.js`, `helpers.js` |
| `Reading` | the reader over any book, mixed ones included, call by call; bookmarks | `reader_view.js`, both views' page counts, `page_open_request.js`, `bookmark_data.js` |
| `ReadingProperties`, `ReadingProofs` | claims and proofs | |
| `Launcher` | the native half and the frame it fills | `DREpubInterface.cpp`, `sdkHelper.cpp`, `getItemUrl`, `openContentUrl` |
| `LauncherProperties`, `LauncherProofs` | claims and proofs | |
| `ByteStream` | **abstract**: the bytes of one content, in order, once, and word of the end | |
| `NetworkReply`, `ReplyProofs` | a reply and the QIODevice it is read through; proofs | `DRNetworkReply` |
| `MC*` | instances for TLC | |

### How the state corresponds to the code

**Reader, ReflowableView.** `views[v]` holds the members of the v-th instance
ever made and its iframe (`document`, `navigation`); removed instances stay,
for their timers do. `paginationInfo` and `lastViewPortSize` are single
variables because the code keeps them on the prototype. `timers` is the queue
of pending timers in the order they will fire: a new 100 ms timer goes last, a
new 50 ms one anywhere among the 100 ms ones but behind other 50 ms ones.
`columnWidth`, the window and the font size are reduced to what they decide:
`ColumnsOf`, the columns an item takes for a number of columns shown and a size.
It is a constant, so the font size is one throughout a behaviour: changing it lays
the item out anew (`updateSettings`, `setStyles`) with the same number of columns.
`pageOffset` is kept as `views[v].left`, in columns. `html` tells whether
`$epubHtml` is undefined, the root of the document in the iframe, or a leftover
of an earlier one; `scrollWidth` of a root that is hidden, detached or in a
removed iframe is taken to be 0. A request for an element carries what looking it
up will give: the page it is on, -1 for an element that is not there, or an error
(`Unreadable`), for the lookup throws for an id that is no plain selector
(`$("#fn:1")`, `cfi_navigation_logic.js:141`) and for a CFI the library cannot
parse or follow in the document (`epub_cfi.js:1397, 1576, 2003`). `openPage` has
changed nothing by the time it does (`LookupThrows`); what is lost is the rest of
its caller. Called by the reader that is nothing, so only `thrown` tells. In
the measure timer it is the end of the layout, so `MeasureTimer` has two outcomes:
`LaidOut`, which hides the document and starts the show timer, and `CutShort`,
which has measured and forgotten the request and leaves the document where
`shiftBookOfScreen` put it. `views[v].cutShort`, a history, is true from there
until a timer, a page turn or a request puts the document in its place. The column
gap is positive and even.
A call that changes nothing is not a step, except that one ending in an
uncaught error is (`thrown`).

**FixedView.** `pageViews[side]` is a page view with its iframe; `redraws[k]` is
the set of sides the k-th redraw still waits for, its `$.when`. A load event
resolves the deferreds of *every* redraw registered with that page, in order,
and stops where a callback throws, as jQuery 1.8 and Backbone do (`cutShort`
remembers that one did). A document may still fire its load event once the
iframe has been asked for another: browsers differ and nothing in the code
excludes it (`cameLate` remembers that one did). `meta_size` is one variable,
for it is an object on the prototype, and a size is a number, 0 for 0 by 0; so
`contentMetaSize`, whatever the sides displayed, and the scale are known by the
size they follow from, and a page view keeps the size and scale transformContent
last set. One view of one book. The viewport has a size throughout.
`FixedView`'s own openPageNext/Prev cannot be reached, since the reader sees one
page per item.

**Reading.** The reader and its view as one record, a call as a function of it
run to the end of the loads and timers it starts: what happens in between is the
business of `Reader` and `FixedView`. `columnCount` and `currentSpreadIndex`
survive the view, as they do on the prototype. `ColumnsOf` and `ElementsOf`, the
columns of an item and where its elements lie in them, are given for one and
for two columns shown. A CFI is its element and one of the percentages that
`Math.ceil` of the doubles may come out at; its elements are those whose lookup
succeeds, the others being the business of `ReflowableView`. A bookmark is kept with the reader
it was made by, to compare with.

**Launcher.** A URL or path is the sequence of its names. `replies` holds every
`DRNetworkReply` with what it was created for; `posted` is Qt's queue of the
two signals `setContent` posts; `fromAscii` is what `QString::arg(const char *)`
makes of a name beyond ASCII under Qt 4; `createRequest` reads the package at once, so
`m_pckg` matters at the request and not at delivery. `dialog` is the time
`LoadFile` spends in the modal dialog's event loop, when the book's signals go
on but its buttons are out of reach. The frame is WebKit's and marked external:
a navigation stops the loads of the last document, the first data replace the
document, the document then asks for what it refers to, and the load event
follows when all it asked for is in. WebKit's cache and the MIME types are left
out, and so are further frames.

**NetworkReply.** `content` and `offset` are the reply's, `buffer` is what
QIODevice holds of it after a peek, `delivered` what WebKit has read. Its slot
for readyRead may look at up to `MaxPeek` bytes, reads in pieces of any size,
and returns when bytesAvailable is 0; signals wait meanwhile.

### Plan and what is left

Order of the work: the reflowable reader (most of the state and of the
interleaving), the abstract viewer and its refinement, the fixed view, the
launcher; then sizes in the fixed view, the two views in turn with the CFI
arithmetic, the bytes of a reply; proofs beside each. Left: loads
and timers interleaved while one kind of view replaces the other. `Reading` has
the kinds without the interleaving, `Reader` and `FixedView` the interleaving
without the other kind. What the two kinds share is nothing but the reader's
view and settings; to the timers of a reflowable view, its replacement by a
fixed view is its removal, which `openBookAtUnknownItem` has in `Reader`.

## 3. The runs

| run | instance | question |
|---|---|---|
| `reader` | 2 items, 2 views, up to 3 columns, 2 window sizes, 4 calls | no request is lost or opened blind, no page stays hidden, lookups that throw included, a view at rest is coherent and at the page asked for last; only calls change what is wanted, or keep the view from rest; a page turn throws only in an unloaded later view |
| `viewer` | 3 items, rtl, 2 window sizes, 3 calls, fair | `Reader` implements `ItemViewer`, liveness included |
| `fixed` | 6 items of every kind and of two sizes, rtl, 5 calls, fair | pages scaled to their size and reported, in the end always; turns cancel out, settings keep the place; only an abandoned redraw throws |
| `reading` | 6 items: texts, a pair, a page beside a text; a page of nothing; an element taller than a page | the two views in turn: counts fit, no page is skipped, turns cancel out, bookmarks lead back |
| `launcher` | 2 books with equal file names, a missing item, an item whose name is not ASCII, links, 4 calls, fair | nothing of one book is shown or served in the other; links lead where they should; every navigation ends, its load event always on its way and every step of the event loop bringing it nearer |
| `reply` | contents of 0 to 5 bytes, up to 3 looked at, fair | a reply implements `ByteStream`, and is told to be finished |
| `page_turn_throws`, `in_place`, `always_reported`, `own_size`, `next_page`, `container_files` | small | the documented claims of section 5 that the code does not keep |

*Bounds.* `MaxCalls` counts calls and resizes, `MaxViews` the views of a
behaviour. Everything between calls (timers, loads, signals) is unbounded, so
every interleaving of that many calls is covered. Four calls are enough for the
patterns a defect needs: open a book, act twice while it loads or is measured,
and interrupt it by a second book (a second view, which is where shared state
shows). An item of three columns has three spreads with one column shown, and
with two a last spread that is half empty. Two window sizes change the column count.
Six fixed pages hold every neighbourhood: left-left, left-right, right-left
across a centre, first and last; one gives no size. The mixed book has each
kind beside each other, and `reading` has no bound on calls. Five bytes and
peeks of three leave contents that are empty, shorter and longer than a peek. Each mutant in `PROJECT.json` is caught under
the bounds of its run. `CHECK_DEADLOCK FALSE` is set because
a behaviour ends when the bounded calls are used up and the page is at rest,
as the program does when the user leaves it alone.

*Fairness.* Weak, and only for what the user does not do: the browser fires
every timer and finishes every navigation (`Reader`, `FixedView`); Qt's event
loop and WebKit go on, also under the modal dialog (`Launcher`). WebKit's slot goes on reading
until nothing is available (`NetworkReply`). No call is
ever fair. That a navigation *fires a load event* matters, because
`LoadIframe` has no error path (`helpers.js:82-91`); for the files of a book
`launcher` checks it (`EventuallyLoaded`), for missing files as well.

## 4. What the properties say

`DeferredIsServed`, `DeferredIsSighted`, `HiddenIsShownAgain` and `FramesOK`
are the invariants that make the reflowable view work at all: what was put off
or hidden has a pending event that serves it, and on a document that is really
there. `SettledShowsItem` and `SettledIsCoherent` describe the view at rest.
`LostOnlyBlind`: the index -1 comes only out of a measurement that saw nothing.
`PresentsOnlyWanted` / `ShowsLastWanted` are the safety part and the whole of
`ItemViewer` under the refinement mapping *wanted* = the item of the request put
off, or else the current one; *shown* = the item of the document `$epubHtml`
belongs to. `OnlyCallsAsk` says no timer or load changes *wanted*.
`RequestIsHonoured` adds the page.

`WorkRunsOut` gives each timer and each stage of a navigation a weight, so that
what a handler starts weighs less than what it ends: a resize timer, the measure
timer it starts and the show timer after that; a navigation, its load event, and
the second navigation that a request put off makes of it.
`TurnThrowsOnlyInLaterView` is the exact extent of the TypeError of section 5:
the first item of a later view, before it has loaded, and nowhere else.

Some states are excluded, on purpose and by name: `lastViewPortSize = 0`, set by
the debounced resize of a *removed* view into the shared object, after which
nothing is promised until the next resize; requests made between a load event
and the first measurement, which the older request put off overrides
(`ReaderRequests` claims nothing for them); the place of the document, and nothing
else, after a measurement cut short by a lookup that threw (`cutShort` in
`HiddenIsShownAgain`, `SettledIsCoherent` and `SettledInPlace`: the document is
then off the screen with no timer pending, though never hidden, and its columns and
spread are still right); and, in `FixedProperties`, the time after a load event was
cut short by a TypeError.

`RestIsReported`: at rest the host has been told exactly the items of the
spread. `RestIsScaled`: each page shown has the size last read and the scale that
goes with it; `RestKeepsSize`: although all share one size, pages of one size get
that size, whatever loaded before (both claimed without late loads).
`TurnsComeBack` is an invariant: in every spread the view can be in, next then
previous is the identity and so is the reverse. `OpenedIsShown`,
`SettingsKeepPlace`: the item opened, and the first item shown, stay in view.
`OnlyAbandonedThrow`: when a load event is cut short, the redraw of the present
spread was not the one that threw; it still waits for a page (and, as section 5
says, may wait for ever).

`ReflowableFits` is what makes `Reading` sound: a reflowable view has the column
count of its item for the settings in force, although counts are shared by all
views and a fixed view alone is told of settings changed under it.
`TurnsComeBack` and `NoPageSkipped` say so of page turns across kinds of view;
both leave out spreads that pair a fixed page with a reflowable item
(`Unmixed`, see section 5). `BookmarkComesBack`: the CFI's percentage, rounded
up twice, leads to the spread it was made at, if its element starts there or
before and is not taller than a hundred pages (`HasPlace`).

`FrameShowsBook`: the document in the frame is an item of the open book with
that book's bytes. `ReferencesAreFound`: the composition of `getItemUrl`,
WebKit's resolution of relative URLs and createRequest's `relativePath` is the
resolution of the reference in the container, in the asking document's book.
`LinksLeadToItems`: openContentUrl's own resolution agrees with WebKit's.
`LoadIsOnItsWay` is what `EventuallyLoaded` rests on: nobody waits for a reply
whose finished has already been delivered to nobody, whatever was aborted.
`EventLoopRunsDown` orders the steps: asking for the document, its first data,
then what is still to come (signals, the network's answers, references with two
signals each).

`AllAccountedFor`: delivered, buffered and unread bytes make up the content,
which is why a reader that stops at bytesAvailable = 0 leaves none behind.
`IsAStream` is the refinement of `ByteStream`: *sent* = delivered, *ended* =
finished was received. `EventuallyFinished`: an empty reply too.

## 5. Where code and documentation part

* `PageTurnsDoNotThrow`: while the first item of a second book loads, the new
  view reports the pages of the old one, for `paginationInfo` is shared; a turn
  then redraws an undefined `$epubHtml`.
* `SettledInPlace`: two repaginations within 50 ms. The second's measure timer
  fires while the first one hides the html element, sees `scrollWidth` 0, and
  leaves spread -1 and a negative offset.
* `AlwaysReported`: turn the page of a fixed book before its cover has loaded.
  The abandoned redraw's promise is completed by the new right page; its layout
  finds the left page without a document and throws inside the load event, and
  the redraw that counts never completes.
* `PagesKeepTheirSize`: two pages of different sizes, side by side, both get the
  size of the one that loaded last, for `meta_size` is shared
  (`one_page_view.js:30`).
* `NextOpensTheNextPage`: in a mixed book a page may be paired with a reflowable
  item (`getNeighbourItem` does not ask for its layout); the reader takes that
  item for one page, and its other pages are passed over.
* `ContainerFilesAreFound`: a reference out of the package's directory
  (`../images/map` with the package in `OEBPS`) leaves the `epubVirtual` part of
  the URL and is sent to the network; one level higher it is looked up below
  the package's directory with a stray leading slash.

Seen on the way, and plain enough to need no run: a request for an element that
was put off while its item loads, and whose lookup then throws, ends the measure
timer at `reflowable_view.js:410`, after the document was moved to the left of the
screen (391) and before the timer that would put it back (416); the page stays blank
until the next page turn, request or layout. A call of `openPageIndex` on a
reflowable book always throws, for its request has no item to ask (`reader_view.js:332,
342`); `openSpineItemPage(idref, 0)` tests the index for
truth, so the item stays at the page where it is (363); `updateSettings` reads the
bookmark's CFI from a member a bookmark does not have (193), so a reflowable view
keeps the number of its spread and not the place; `clearStyles` throws
(`style_collection.js:22`). A name beyond ASCII is lost on its way into the page
(`DREpubInterface.cpp:59`), and a link that is only a fragment finds no item
(`helpers.js:103`; `LinksLeadToItems` leaves it out, `NamesFile`). `pageViews` and the
`PageLoaded` handlers of a page view are never removed (`fixed_view.js:35, 336`), and
the buffer of a file read is owned by no one (`sdkHelper.cpp:428`): only memory.

## 6. What is proved

All constants are arbitrary under the assumptions in the modules (`NItems`
positive, `ColumnsOf` a function into `1 .. MaxColumns`, and so on), calls, views
and sizes without the bounds of the runs.

* **ReaderProofs.** `TypeCorrect`, `RequestsAreServed`, `RequestsAreSighted`,
  `PagesComeBack`, `FramesKept`, `RestShowsItem`, `SpreadIsLostOnlyBlind`. The
  inductive invariant `IInv`
  is `TypeOK` with `ViewOK` for the current view and `HiddenOK` for every view. None
  of the properties is inductive alone: that a request put off is served depends
  on the flag agreeing with the iframe, on which document is in it and on the
  measure timer; the last of these on no timer of another view removing it.
  The one way a measure timer leaves a document off the screen with nothing
  pending is `CutShort`, and there `HiddenOK` has the history instead of a timer.
  The proof is one lemma per handler, on top of lemmas about the timer queue
  (`InsertAtFacts`, `RemoveAtFacts`, `WithShowKeeps`, `RestartedKeeps`), since
  queue order is the one thing handlers of different views share.
  There follow `ReaderImplementsViewer` (`Spec => PresentsOnlyWanted`)
  and `OnlyCallsAskHolds`: every handler is a step of `ItemViewer` or a stutter.
  A load event presents only because `IInv` says that the document committed is
  the current item's and that nothing else waits. `WantedIsOnItsWay`,
  `BrowserRunsDown` and `RestIsNoWork` are the safety halves of `ShowsLastWanted`
  and `EventuallySettled` (below). `OnlyLaterViewsThrow` needs an invariant of all
  views (`RootsOK`): the shared pagination counts pages only once some view has a
  root, measure timers belong to views with one, and such views have been created.
* **CoherenceProofs.** `RestIsCoherent` (`SettledIsCoherent`) and
  `LastRequestIsHonoured` (`RequestIsHonoured`, of `RSpec`). Both speak of a view at rest, so
  the invariants say what is true on the way there. For the first
  (`RestsCoherent`): the last measure timer in the queue is the current view's
  (`MeasuredLast`), so whatever timers of removed views leave in the shared
  pagination is measured over, and without one the view is laid out, and in its
  place, about to be put there, or left by a measurement cut short. A removed view starts a measurement only by
  taking the viewport's size away, which is the state left aside. For the second (`LastHonoured`) also: a
  request put off is the one last claimed, and for the item loaded
  (`RequestsOK`); the spreads are those the columns make, whatever the size
  (`SpreadsCounted`); and once opened, the request's page is on the current
  spread (`Placed`), or a blind measurement is in the queue and will leave no
  spread (`Doomed`). The size a removed view took away and the view's own resize
  timer brings back is the hard case: such a timer always has a blind
  measurement behind it (`Overtaken`), so a spread counted in a viewport of no
  size is never taken for the page asked for.
* **SpreadProofs.** `SpreadsPartition` (an item is in one spread, whichever of
  its items is opened), `NextThenPrev`, `PrevThenNext`. They rest on
  `NeighbourSymmetric`: the partner of my partner is me, for every assignment of
  sides and both directions.
* **FixedProofs.** `TypeCorrect`, `SpreadsAreReported`, `PagesAreScaled`,
  `SizesAreKept`, `PageTurnsComeBack`, `OpenedIsOnDisplay`,
  `SettingsKeepThePlace`. The invariant adds to `TypeOK` that the pages display
  the spread, that only displayed pages are busy, that some redraw which will
  report waits for no page that is not busy (`WillReport`), the same for scaling
  (`WillScale`), and that once a page displayed is in, the shared size is that of
  a page of the spread (`SizeIsOfAPage`). These are needed because the properties speak of a view
  at rest and say nothing of one that is loading. They are kept because of
  `SameOrDisjoint`: two different spreads have no side and item in common, so a
  redraw that changes the spread asks every iframe it waits for for another
  document. `OnlyAbandonedRedrawsThrow` adds that the last redraw waits for every
  page that has never loaded (`LastWaits`), so its own handler never meets one.
  `FramesAlwaysRunDown`, `RestIsNoFrameWork`: every commit and load event brings
  the frames nearer to the rest that `SpreadsAreReported` speaks of.
* **ReadingProofs.** `TypeCorrect`, `ReflowableAlwaysFits`, `NoPageIsSkipped`,
  `TurnsAlwaysComeBack`, `BookmarksComeBack`. The last two are about calls not
  made yet, so they follow from what the states have in common (`IInv`: types,
  the counts of a reflowable view, bookmarks made by such a reader) through lemmas
  about the operators: `PageIsBetween` (a column of an element is between its
  first and its last), `PercentIsOnPage` (the arithmetic: a percentage rounded up
  twice stays in its column).
* **ReplyProofs.** `TypeCorrect`, `BytesAddUp`, `ReplyIsAStream` (the refinement
  of `ByteStream`). The invariant adds to the account of the bytes that the
  signals posted are both, the last or none, and that finished is received only
  when everything is delivered. `AvailableIsWhatIsLeft`: bytesAvailable counts what
  has not been delivered. `FinishedIsAlwaysPosted`, `ReplyAlwaysRunsDown`: finished
  is in the queue as long as it is waited for, and each signal, read and return
  decreases a natural number.
* **LauncherProofs.** `TypeCorrect`, `FrameAlwaysShowsBook`,
  `ReferencesAreAlwaysFound`, `LinksAlwaysLeadToItems`, for any books and paths. The
  invariant says that the SDK and the reader have one book open and that every
  reply a navigation still listens to, and the document, are of that book; it
  needs that a reply is no longer listened to once a book is opened over it.
  `LoadIsAlwaysOnItsWay` (invariant `OnItsWay`), `EventLoopAlwaysRunsDown`,
  `LoadEventComesNearer` and `NeverStuck` say that a load event not yet fired is
  coming. The rest is algebra of paths: `BelowRoot` (what createRequest cuts off a URL is what
  `getItemUrl` put before it) and `UptoOfCat` (going up directories commutes with
  putting a directory before a path).

*Progress.* A liveness property under weak fairness has a safety half and a
step that only fairness makes. The safety half is proved, for all constants:
what is owed is always on its way (`WantedIsOnItsWay`, `LoadIsAlwaysOnItsWay`,
`FinishedIsAlwaysPosted`, and `SpreadsAreReported` at rest); each step of browser
or event loop decreases a natural number (`BrowserRunsDown`,
`EventLoopAlwaysRunsDown`, `FramesAlwaysRunDown`, `ReplyAlwaysRunsDown`; in
`Launcher` a pair, compared from the left, below the one step that asks for the
document); where it is 0 there is rest (`RestIsNoWork`, `RestIsNoFrameWork`), or
the guard of some step is true until there is (`NeverStuck`). The measures are sums over queues, hence
`CountingProofs`: what one element more, one less or one changed does to a count
(`HowMany`), shown with bijections, for induction over the queue is out of reach.
For the references of a document the sum is finite by `LauncherAssumption`: a
file refers to finitely many others. Only that a step whose guard stays true is
taken is left to fairness and to TLC.

Every invariant and every action property the passing runs check is proved. Only
model-checked is liveness itself (`ShowsLastWanted`,
`EventuallySettled`, `EventuallyReported`, `EventuallyLoaded`,
`EventuallyFinished`), which is out of the prover's reach. Out of its reach too:
ENABLED and induction over recursive data; no module uses `RECURSIVE`.

## 7. What is not modelled

* `applySwitches` and triggers (they change the publication's document and nothing
  else), styles as data, and the media overlay tree (the launcher does not send
  one: `sdkHelper.cpp:377-389` is commented out).
* How text becomes numbers and back: `parseSize`, viewport sizes and margins, MIME
  types, the JSON of a package.
* WebKit's cache, several frames at once, short reads in `ReadBytes`, an EPUB that
  does not open or has an empty spine.
* Loads and timers interleaved with a change of the kind of view.
* A font size that changes while an item is shown, other than as one more layout.
* The build, and the vendored libraries: the Readium SDK's and libxml's headers,
  jsoncpp, jQuery, Backbone, Underscore. They are most of the repository's lines,
  and the map marks what is relied on of them as external, so its share of all
  lines is small however much of the program's own code it covers.
