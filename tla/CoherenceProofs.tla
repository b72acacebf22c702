-------------------------- MODULE CoherenceProofs --------------------------
(***************************************************************************)
(* Proofs of where the reader over a reflowable view comes to rest: that   *)
(* the view is coherent there, and that it is where the last request asked *)
(* it to be, for any book, any number of views and any number of calls.    *)
(***************************************************************************)
EXTENDS ReaderProofs, ReaderRequests

-----------------------------------------------------------------------------
(* The order of the queue of timers.  The last measurement is that of view  *)
(* v: no measure timer is without one of v at its place or behind it.       *)

MeasuredLast(v, q) ==
    \A n \in 1 .. Len(q) :
        q[n].kind = "measure" => \E m \in n .. Len(q) : q[m] = Timer("measure", v)

(* The spreads are those the columns make, and the current one is among     *)
(* them or lost; the columns are those of the document in the iframe at the *)
(* size measured last, or none; and the page is where the spread is, or is  *)
(* about to be put there, or was left by a measurement cut short.           *)
Counted(i) ==
    /\ i.spreadCount = CeilDiv(i.columnCount, i.visibleColumnCount)
    /\ i.currentSpreadIndex \in -1 .. i.spreadCount - 1

ColumnsAt(w, i) == ColumnsOf[<<w.document, i.visibleColumnCount, i.columnSize>>]

Laid(w, i) == i.columnCount \in {0, ColumnsAt(w, i)} /\ Counted(i)

InPlace(v, w, i, q) ==
    /\ Laid(w, i)
    /\ \/ w.left = i.visibleColumnCount * i.currentSpreadIndex
       \/ Has(q, Timer("show", v))
       \/ w.cutShort

Coherent(v, w, i, size, window, q) ==
    ~w.isWaitingFrameRender /\ size # 0 =>
        /\ i.columnSize = size
        /\ size = window \/ Has(q, Timer("resize", v))
        /\ MeasuredLast(v, q)
        /\ Has(q, Timer("measure", v)) \/ InPlace(v, w, i, q)

RestsCoherent ==
    currentView # 0 => Coherent(currentView, views[currentView], paginationInfo,
                                lastViewPortSize, windowSize, timers)

-----------------------------------------------------------------------------
(* What the operations on the queue do to that order.                       *)

LEMMA LastWhenAppended ==
    ASSUME NEW q \in Seq(Timers), NEW v \in Views
    PROVE  /\ Append(q, Timer("measure", v)) \in Seq(Timers)
           /\ MeasuredLast(v, Append(q, Timer("measure", v)))
           /\ \A u : Has(q, u) => Has(Append(q, Timer("measure", v)), u)
           /\ Has(Append(q, Timer("measure", v)), Timer("measure", v))
<1> DEFINE t == Timer("measure", v)
           r == Append(q, t)
<1>1. t \in Timers /\ Len(q) \in Nat
  BY LenProperties DEF Timer, Timers
<1>2. r \in Seq(Timers) /\ Len(r) = Len(q) + 1 /\ r[Len(q) + 1] = t
  BY <1>1, AppendProperties
<1>3. \A n \in 1 .. Len(r) : \E m \in n .. Len(r) : r[m] = t
  BY <1>1, <1>2
<1>4. /\ Has(r, t)
      /\ \A u : Has(q, u) => Has(r, u)
  BY <1>1, AppendKeeps
<1> HIDE DEF t, r
<1>5. MeasuredLast(v, r)
  BY <1>3 DEF MeasuredLast, t
<1> QED
  BY <1>2, <1>4, <1>5 DEF t, r

LEMMA LastAfterOther ==
    ASSUME NEW q \in Seq(Timers), NEW v \in Views, MeasuredLast(v, q),
           NEW t \in Timers, t.kind # "measure"
    PROVE  MeasuredLast(v, Append(q, t))
<1> DEFINE r == Append(q, t)
<1>1. Len(q) \in Nat
  BY LenProperties
<1>2. /\ Len(r) = Len(q) + 1 /\ r[Len(q) + 1] = t
      /\ \A n \in 1 .. Len(q) : r[n] = q[n]
  BY AppendProperties
<1> HIDE DEF r
<1>3. ASSUME NEW n \in 1 .. Len(r), r[n].kind = "measure"
      PROVE  \E m \in n .. Len(r) : r[m] = Timer("measure", v)
  <2>1. n \in 1 .. Len(q) /\ q[n].kind = "measure"
    BY <1>1, <1>2, <1>3
  <2>2. PICK m \in n .. Len(q) : q[m] = Timer("measure", v)
    BY <2>1 DEF MeasuredLast
  <2>3. m \in n .. Len(r) /\ r[m] = Timer("measure", v)
    BY <1>1, <1>2, <2>1, <2>2
  <2> QED
    BY <2>3
<1> QED
  BY <1>3 DEF MeasuredLast, r

LEMMA LastInTail ==
    ASSUME NEW q \in Seq(Timers), q # <<>>, NEW v \in Views, MeasuredLast(v, q)
    PROVE  /\ MeasuredLast(v, Tail(q))
           /\ \A u : u # v /\ Head(q) = Timer("measure", u)
                    => Has(Tail(q), Timer("measure", v))
<1>1. Len(q) \in Nat /\ Len(q) > 0
  BY EmptySeq, LenProperties
<1>2. /\ Len(Tail(q)) = Len(q) - 1
      /\ \A n \in 1 .. Len(Tail(q)) : Tail(q)[n] = q[n + 1]
      /\ Head(q) = q[1]
  BY HeadTailProperties
<1> DEFINE r == Tail(q)
<1> HIDE DEF r
<1>3. ASSUME NEW n \in 1 .. Len(r), r[n].kind = "measure"
      PROVE  \E m \in n .. Len(r) : r[m] = Timer("measure", v)
  <2>1. n + 1 \in 1 .. Len(q) /\ q[n + 1].kind = "measure"
    BY <1>1, <1>2, <1>3 DEF r
  <2>2. PICK m \in n + 1 .. Len(q) : q[m] = Timer("measure", v)
    BY <2>1 DEF MeasuredLast
  <2>3. m - 1 \in n .. Len(r) /\ r[m - 1] = Timer("measure", v)
    BY <1>1, <1>2, <2>1, <2>2 DEF r
  <2> QED
    BY <2>3
<1>4. ASSUME NEW u, u # v, Head(q) = Timer("measure", u)
      PROVE  Has(r, Timer("measure", v))
  <2>1. 1 \in 1 .. Len(q) /\ q[1].kind = "measure" /\ q[1] # Timer("measure", v)
    BY <1>1, <1>2, <1>4 DEF Timer
  <2>2. PICK m \in 1 .. Len(q) : q[m] = Timer("measure", v)
    BY <2>1 DEF MeasuredLast
  <2>3. m # 1
    BY <2>1, <2>2
  <2>4. m - 1 \in 1 .. Len(r) /\ r[m - 1] = Timer("measure", v)
    BY <1>1, <1>2, <2>2, <2>3 DEF r
  <2> QED
    BY <2>4 DEF Has
<1> QED
  BY <1>3, <1>4 DEF MeasuredLast, r

LEMMA LastWithShow ==
    ASSUME NEW q \in Seq(Timers), NEW v \in Views, MeasuredLast(v, q),
           NEW u \in Views, NEW r \in WithShow(q, u)
    PROVE  MeasuredLast(v, r)
<1>1. PICK k \in 1 .. Len(q) + 1 : r = InsertAt(q, k, Timer("show", u))
  BY DEF WithShow
<1>2. Timer("show", u) \in Timers /\ Timer("show", u).kind # "measure" /\ Len(q) \in Nat
  BY LenProperties DEF Timer, Timers
<1>3. /\ Len(r) = Len(q) + 1 /\ r[k] = Timer("show", u)
      /\ \A n \in 1 .. k - 1 : r[n] = q[n]
      /\ \A n \in k .. Len(q) : r[n + 1] = q[n]
  BY <1>1, <1>2, InsertAtFacts
<1>4. ASSUME NEW n \in 1 .. Len(r), r[n].kind = "measure"
      PROVE  \E m \in n .. Len(r) : r[m] = Timer("measure", v)
  <2>1. n # k
    BY <1>2, <1>3, <1>4
  <2>2. PICK p \in 1 .. Len(q) : q[p] = r[n] /\ p >= n - 1 /\ (p >= n \/ p >= k)
    <3>1. CASE n < k
      BY <1>2, <1>3, <3>1
    <3>2. CASE n > k
      <4>1. n - 1 \in k .. Len(q) /\ r[(n - 1) + 1] = q[n - 1]
        BY <1>2, <1>3, <3>2
      <4> QED
        BY <1>2, <3>2, <4>1
    <3> QED
      BY <1>2, <2>1, <3>1, <3>2
  <2>3. PICK m \in p .. Len(q) : q[m] = Timer("measure", v)
    BY <1>4, <2>2 DEF MeasuredLast
  <2>4. CASE m < k
    <3>1. m \in n .. Len(r) /\ r[m] = Timer("measure", v)
      BY <1>2, <1>3, <2>2, <2>3, <2>4
    <3> QED
      BY <3>1
  <2>5. CASE m >= k
    <3>1. m + 1 \in n .. Len(r) /\ r[m + 1] = Timer("measure", v)
      BY <1>2, <1>3, <2>2, <2>3, <2>5
    <3> QED
      BY <3>1
  <2> QED
    BY <1>2, <2>3, <2>4, <2>5
<1> QED
  BY <1>4 DEF MeasuredLast

LEMMA LastWithout ==
    ASSUME NEW q \in Seq(Timers), NEW v \in Views, MeasuredLast(v, q),
           NEW k \in 1 .. Len(q), q[k].kind # "measure"
    PROVE  MeasuredLast(v, RemoveAt(q, k))
<1> DEFINE r == RemoveAt(q, k)
<1>1. /\ Len(q) \in Nat /\ Len(r) = Len(q) - 1
      /\ \A n \in 1 .. k - 1 : r[n] = q[n]
      /\ \A n \in k + 1 .. Len(q) : r[n - 1] = q[n]
  BY RemoveAtFacts, LenProperties
<1> HIDE DEF r
<1>2. ASSUME NEW n \in 1 .. Len(r), r[n].kind = "measure"
      PROVE  \E m \in n .. Len(r) : r[m] = Timer("measure", v)
  <2>1. PICK p \in 1 .. Len(q) : q[p] = r[n] /\ p >= n /\ (p < k \/ p >= n + 1)
    <3>1. CASE n < k
      BY <1>1, <3>1
    <3>2. CASE n >= k
      <4>1. n + 1 \in k + 1 .. Len(q) /\ r[(n + 1) - 1] = q[n + 1]
        BY <1>1, <3>2
      <4> QED
        BY <1>1, <3>2, <4>1
    <3> QED
      BY <1>1, <3>1, <3>2
  <2>2. PICK m \in p .. Len(q) : q[m] = Timer("measure", v)
    BY <1>2, <2>1 DEF MeasuredLast
  <2>3. m # k
    BY <2>2 DEF Timer
  <2>4. CASE m < k
    <3>1. m \in n .. Len(r) /\ r[m] = Timer("measure", v)
      BY <1>1, <2>1, <2>2, <2>4
    <3> QED
      BY <3>1
  <2>5. CASE m > k
    <3>1. m - 1 \in n .. Len(r) /\ r[m - 1] = Timer("measure", v)
      BY <1>1, <2>1, <2>2, <2>5
    <3> QED
      BY <3>1
  <2> QED
    BY <1>1, <2>2, <2>3, <2>4, <2>5
<1> QED
  BY <1>2 DEF MeasuredLast, r

LEMMA LastRestarted ==
    ASSUME NEW q \in Seq(Timers), NEW v \in Views, MeasuredLast(v, q),
           NEW u \in Views, NEW r \in Restarted(q, Timer("resize", u))
    PROVE  MeasuredLast(v, r)
<1> DEFINE t == Timer("resize", u)
<1>1. t \in Timers /\ t.kind # "measure"
  BY DEF Timer, Timers
<1> HIDE DEF t
<1>2. CASE r = Append(q, t)
  BY <1>1, <1>2, LastAfterOther
<1>3. ASSUME NEW k \in 1 .. Len(q), q[k] = t, r = Append(RemoveAt(q, k), t)
      PROVE  MeasuredLast(v, r)
  <2>1. RemoveAt(q, k) \in Seq(Timers) /\ MeasuredLast(v, RemoveAt(q, k))
    BY <1>1, <1>3, RemoveAtFacts, LastWithout
  <2> QED
    BY <1>1, <1>3, <2>1, LastAfterOther
<1> QED
  BY <1>2, <1>3 DEF Restarted, t

-----------------------------------------------------------------------------
(* The pagination.                                                          *)

(* What is true of the current view in a state the reader can be in.        *)
LEMMA OfCurrentView ==
    ASSUME IInv, currentView # 0
    PROVE  /\ currentView \in Views
           /\ views \in [Views -> View] /\ views[currentView] \in View
           /\ ViewOK(currentView, views[currentView], timers)
           /\ timers \in Seq(Timers)
           /\ paginationInfo \in PaginationInfos
           /\ lastViewPortSize \in Sizes \cup {0} /\ windowSize \in Sizes
BY DEF IInv, TypeOK

(* The spread of a page is one of the spreads its columns make.             *)
LEMMA SpreadOfPage ==
    ASSUME NEW n \in {1, 2}, NEW c \in Nat, NEW p \in Nat, p < c
    PROVE  p \div n \in -1 .. CeilDiv(c, n) - 1
<1>1. CASE n = 1
  BY <1>1 DEF CeilDiv
<1>2. CASE n = 2
  BY <1>2 DEF CeilDiv
<1> QED
  BY <1>1, <1>2

LEMMA RedrawnThere ==
    ASSUME NEW v, NEW q, NEW i \in PaginationInfos, NEW w \in View, w.html = "attached"
    PROVE  /\ Redrawn(i, w).left = i.visibleColumnCount * i.currentSpreadIndex
           /\ Redrawn(i, w).document = w.document
           /\ Redrawn(i, w).isWaitingFrameRender = w.isWaitingFrameRender
BY DEF Redrawn, View

(* A request opened in a view that is laid out, or waits to be, leaves it so. *)
LEMMA OpenPageCoheres ==
    ASSUME NEW v \in Views, views \in [Views -> View],
           NEW i \in PaginationInfos, NEW w \in View, NEW req \in Requests,
           openPage(v, i, w, req),
           NEW size, NEW window, NEW q,
           ~w.isWaitingFrameRender => w.html = "attached",
           Coherent(v, w, i, size, window, q)
    PROVE  Coherent(v, views'[v], paginationInfo', size, window, q)
<1> DEFINE page == TargetPage(i, req)
           i2   == AtPage(i, page)
           w2   == Redrawn(i2, w)
<1>1. CASE w.isWaitingFrameRender
  <2>1. views'[v].isWaitingFrameRender
    BY <1>1 DEF openPage, Store, View
  <2> QED
    BY <2>1 DEF Coherent
<1>2. CASE ~w.isWaitingFrameRender /\ req.spineItem # w.currentSpineItem
  <2>1. views'[v].isWaitingFrameRender
    BY <1>2 DEF openPage, loadSpineItem, Store, View
  <2> QED
    BY <2>1 DEF Coherent
<1>3. CASE ~w.isWaitingFrameRender /\ req.spineItem = w.currentSpineItem /\ ~IsPage(i, page)
  <2>1. paginationInfo' = i /\ views'[v] = w
    BY <1>3 DEF openPage, Store
  <2> QED
    BY <2>1
<1>4. CASE ~w.isWaitingFrameRender /\ req.spineItem = w.currentSpineItem /\ IsPage(i, page)
  <2>1. paginationInfo' = i2 /\ views'[v] = w2
    BY <1>4 DEF openPage, Store
  <2>2. page \in Nat /\ i.visibleColumnCount \in {1, 2} /\ i.columnCount \in Nat
        /\ page < i.columnCount
    BY <1>4, ReflowableViewAssumption DEF IsPage, TargetPage, PaginationInfos, Requests
  <2>3. PICK k \in Nat : k = page \div i.visibleColumnCount
    BY <2>2, SpreadArithmetic
  <2>4. /\ i2 = [i EXCEPT !.currentSpreadIndex = k]
    BY <2>3 DEF AtPage
  <2>5. /\ i2 \in PaginationInfos
        /\ i2.columnSize = i.columnSize /\ i2.columnCount = i.columnCount
        /\ i2.spreadCount = i.spreadCount /\ i2.visibleColumnCount = i.visibleColumnCount
        /\ i2.currentSpreadIndex = k
    BY <2>3, <2>4 DEF PaginationInfos
  <2>6. k \in -1 .. CeilDiv(i.columnCount, i.visibleColumnCount) - 1
    BY <2>2, <2>3, SpreadOfPage
  <2> HIDE DEF i2
  <2>7. /\ w2.left = i2.visibleColumnCount * i2.currentSpreadIndex
        /\ w2.document = w.document
    BY <1>4, <2>5, RedrawnThere
  <2>8. InPlace(v, w, i, q) => InPlace(v, w2, i2, q)
    BY <2>5, <2>6, <2>7 DEF InPlace, Laid, ColumnsAt, Counted
  <2> HIDE DEF w2
  <2> QED
    BY <1>4, <2>1, <2>5, <2>8 DEF Coherent
<1> QED
  BY <1>1, <1>2, <1>3, <1>4 DEF View

(* A request opened in one view leaves the others.                          *)
LEMMA OpenPageElsewhere ==
    ASSUME NEW v, NEW i, NEW w, NEW req, openPage(v, i, w, req),
           views \in [Views -> View], NEW u \in Views, u # v
    PROVE  views'[u] = views[u]
BY DEF openPage, loadSpineItem, Store

(* What a measurement sees is the document's number of columns at that      *)
(* size, or nothing; the document is then about to be shown, or stays where *)
(* it is.                                                                   *)
LEMMA MeasuredLaysOut ==
    ASSUME IInv, NEW v \in Views, NEW c \in MeasuredColumns(v), paginationInfo.columnSize # 0,
           NEW w \in View, w.document = views[v].document, NEW q,
           Has(q, Timer("show", v)) \/ w.cutShort
    PROVE  InPlace(v, w, Measured(c), q)
<1>1. PICK n \in {1, 2} : n = paginationInfo.visibleColumnCount
  BY DEF IInv, TypeOK, PaginationInfos
<1>2. paginationInfo \in PaginationInfos /\ Measured(c) \in PaginationInfos
  BY MeasuredTypes DEF IInv, TypeOK
<1>3. c \in {0, ColumnsOf[<<w.document, n, paginationInfo.columnSize>>]}
  BY <1>1 DEF MeasuredColumns
<1>4. /\ Measured(c).columnCount = c
      /\ Measured(c).visibleColumnCount = n
      /\ Measured(c).columnSize = paginationInfo.columnSize
      /\ Measured(c).spreadCount = CeilDiv(c, n)
  BY <1>1, <1>2 DEF Measured, PaginationInfos
<1>5. c \in Nat
  BY <1>2, <1>4 DEF PaginationInfos
<1>6. PICK spreads \in Nat : spreads = CeilDiv(c, n)
  BY <1>5, SpreadArithmetic
<1>7. PICK index \in Nat \cup {-1} : index = paginationInfo.currentSpreadIndex
  BY <1>2 DEF PaginationInfos
<1>8. Measured(c).currentSpreadIndex = IF index >= spreads THEN spreads - 1 ELSE index
  BY <1>1, <1>2, <1>6, <1>7 DEF Measured, PaginationInfos
<1>9. Measured(c).currentSpreadIndex \in -1 .. spreads - 1
  BY <1>6, <1>7, <1>8
<1> QED
  BY <1>3, <1>4, <1>6, <1>9 DEF InPlace, Laid, ColumnsAt, Counted

-----------------------------------------------------------------------------
(* The timers and the iframe.                                               *)

(* A measure timer of the current view, whichever way it ends.              *)
LEMMA MeasuredCoheres ==
    ASSUME IInv, RestsCoherent, currentView # 0, NEW c \in MeasuredColumns(currentView),
           NEW x \in View, NEW q,
           x.document = views[currentView].document,
           x.isWaitingFrameRender = views[currentView].isWaitingFrameRender,
           Has(timers, Timer("resize", currentView)) => Has(q, Timer("resize", currentView)),
           MeasuredLast(currentView, timers) => MeasuredLast(currentView, q),
           Has(q, Timer("show", currentView)) \/ x.cutShort
    PROVE  Coherent(currentView, x, Measured(c), lastViewPortSize, windowSize, q)
<1> DEFINE v == currentView
<1>1. v \in Views /\ paginationInfo \in PaginationInfos
  BY OfCurrentView
<1>2. Coherent(v, views[v], paginationInfo, lastViewPortSize, windowSize, timers)
  BY DEF RestsCoherent
<1>3. /\ Measured(c) \in PaginationInfos
      /\ Measured(c).columnSize = paginationInfo.columnSize
  BY <1>1, MeasuredTypes DEF Measured, PaginationInfos
<1>4. CASE lastViewPortSize # 0 /\ ~views[v].isWaitingFrameRender
  <2>1. /\ paginationInfo.columnSize = lastViewPortSize
        /\ lastViewPortSize = windowSize \/ Has(q, Timer("resize", v))
        /\ MeasuredLast(v, q)
    BY <1>2, <1>4 DEF Coherent
  <2>2. InPlace(v, x, Measured(c), q)
    BY <1>1, <1>4, <2>1, MeasuredLaysOut
  <2> QED
    BY <1>3, <2>1, <2>2 DEF Coherent
<1>5. CASE ~(lastViewPortSize # 0 /\ ~views[v].isWaitingFrameRender)
  BY <1>5 DEF Coherent
<1> QED
  BY <1>4, <1>5

LEMMA MeasureTimerCoheres ==
    ASSUME IInv, RestsCoherent, NEW u \in Views, MeasureTimer(u)
    PROVE  RestsCoherent'
<1> DEFINE v  == currentView
           w  == LaidOutView(views[u])
           w1 == [w EXCEPT !.deferredPageRequest = NoRequest]
           cs == CutShortView(views[u])
<1>1. UNCHANGED <<currentView, lastViewPortSize, windowSize>>
  BY HowMeasured
<1>2. CASE v = 0
  BY <1>1, <1>2 DEF RestsCoherent
<1>3. CASE v # 0
  <2>1. /\ v \in Views /\ views \in [Views -> View] /\ timers \in Seq(Timers)
        /\ ViewOK(v, views[v], timers) /\ paginationInfo \in PaginationInfos
        /\ lastViewPortSize \in Sizes \cup {0}
    BY <1>3, OfCurrentView
  <2>2. Coherent(v, views[v], paginationInfo, lastViewPortSize, windowSize, timers)
    BY <1>3 DEF RestsCoherent
  <2>3. PICK c \in MeasuredColumns(u) : LaysOut(u, c) \/ CutsShort(u, c)
    BY HowMeasured
  <2>4. /\ timers # <<>> /\ Head(timers) = Timer("measure", u)
        /\ timers' \in WithShow(Tail(timers), u) \/ timers' = Tail(timers)
        /\ LaysOut(u, c) => timers' \in WithShow(Tail(timers), u)
    BY <2>3, HowMeasured DEF LaysOut, CutsShort
  <2>5. /\ Tail(timers) \in Seq(Timers)
        /\ \A t : Has(timers, t) /\ t # Timer("measure", u) => Has(Tail(timers), t)
    BY <2>1, <2>4, TailKeeps
  <2>6. /\ LaysOut(u, c) => Has(timers', Timer("show", u))
        /\ \A t : Has(Tail(timers), t) => Has(timers', t)
    BY <2>4, <2>5, WithShowKeeps
  <2>7. MeasuredLast(v, timers) => MeasuredLast(v, timers')
    BY <2>1, <2>4, <2>5, LastInTail, LastWithShow
  <2>8. /\ Timer("resize", v) # Timer("measure", u)
        /\ Timer("show", v) # Timer("measure", u)
    BY DEF Timer
  <2>9. /\ Has(timers, Timer("resize", v)) => Has(timers', Timer("resize", v))
        /\ Has(timers, Timer("show", v)) => Has(timers', Timer("show", v))
    BY <2>5, <2>6, <2>8
  <2>10. /\ Measured(c) \in PaginationInfos
         /\ Measured(c).columnSize = paginationInfo.columnSize
    BY <2>1, <2>3, MeasuredTypes DEF Measured, PaginationInfos
  <2>11. /\ views[u] \in View /\ w \in View /\ cs \in View
         /\ w.deferredPageRequest \in Requests \cup {NoRequest}
    BY <2>1, MeasuredView DEF View
  <2>12. CASE u # v
    <3>1. /\ views'[v] = views[v]
          /\ paginationInfo'.columnSize = paginationInfo.columnSize
      <4>1. CASE CutsShort(u, c)
        BY <2>1, <2>10, <2>12, <4>1 DEF CutsShort, Store
      <4>2. CASE LaysOut(u, c) /\ w.deferredPageRequest = NoRequest
        BY <2>1, <2>10, <2>12, <4>2 DEF LaysOut, openDeferredElement, Store
      <4>3. CASE LaysOut(u, c) /\ w.deferredPageRequest # NoRequest
        <5>1. openPage(u, Measured(c), w1, w.deferredPageRequest)
          BY <4>3 DEF LaysOut, openDeferredElement
        <5> HIDE DEF w, w1
        <5> QED
          BY <2>1, <2>10, <2>12, <5>1, OpenPageKeepsColumns, OpenPageElsewhere
      <4> QED
        BY <2>3, <4>1, <4>2, <4>3
    <3>2. MeasuredLast(v, timers) => Has(timers', Timer("measure", v))
      BY <2>1, <2>4, <2>6, <2>12, LastInTail
    <3> QED
      BY <1>1, <2>2, <2>7, <2>9, <3>1, <3>2 DEF RestsCoherent, Coherent
  <2>13. CASE u = v
    <3>1. /\ w1 \in View /\ w1.document = views[v].document /\ w.document = views[v].document
          /\ w1.isWaitingFrameRender = views[v].isWaitingFrameRender
          /\ w.isWaitingFrameRender = views[v].isWaitingFrameRender
          /\ w1.html = views[v].html
      BY <2>11, <2>13 DEF LaidOutView, View
    <3>2. /\ cs.document = views[v].document /\ cs.cutShort
          /\ cs.isWaitingFrameRender = views[v].isWaitingFrameRender
      BY <2>11, <2>13 DEF CutShortView, View
    <3> HIDE DEF w, w1, cs
    <3>3. CASE CutsShort(u, c)
      <4>1. paginationInfo' = Measured(c) /\ views'[v] = cs
        BY <2>1, <2>13, <3>3 DEF CutsShort, Store, cs
      <4>2. Coherent(v, cs, Measured(c), lastViewPortSize, windowSize, timers')
        BY <1>3, <2>3, <2>7, <2>9, <2>11, <2>13, <3>2, MeasuredCoheres
      <4> QED
        BY <1>1, <4>1, <4>2 DEF RestsCoherent
    <3>4. ASSUME NEW x \in View, x.document = views[v].document, LaysOut(u, c),
                 x.isWaitingFrameRender = views[v].isWaitingFrameRender
          PROVE  Coherent(v, x, Measured(c), lastViewPortSize, windowSize, timers')
      BY <1>3, <2>3, <2>6, <2>7, <2>9, <2>13, <3>4, MeasuredCoheres
    <3>5. CASE LaysOut(u, c) /\ w.deferredPageRequest = NoRequest
      <4>1. paginationInfo' = Measured(c) /\ views'[v] = w
        BY <2>1, <2>13, <3>5 DEF LaysOut, openDeferredElement, Store, w
      <4> QED
        BY <1>1, <2>11, <3>1, <3>4, <3>5, <4>1 DEF RestsCoherent
    <3>6. CASE LaysOut(u, c) /\ w.deferredPageRequest # NoRequest
      <4>1. openPage(v, Measured(c), w1, w.deferredPageRequest)
        BY <2>13, <3>6 DEF LaysOut, openDeferredElement, w, w1
      <4>2. Coherent(v, w1, Measured(c), lastViewPortSize, windowSize, timers')
        BY <3>1, <3>4, <3>6
      <4>3. ~w1.isWaitingFrameRender => w1.html = "attached"
        BY <2>1, <3>1 DEF ViewOK
      <4>4. Coherent(v, views'[v], paginationInfo', lastViewPortSize, windowSize, timers')
        BY <2>1, <2>10, <2>11, <3>1, <3>6, <4>1, <4>2, <4>3, OpenPageCoheres
      <4> QED
        BY <1>1, <4>4 DEF RestsCoherent
    <3> QED
      BY <2>3, <3>3, <3>5, <3>6
  <2> QED
    BY <2>12, <2>13
<1> QED
  BY <1>2, <1>3

LEMMA ShowTimerCoheres ==
    ASSUME IInv, RestsCoherent, NEW u \in Views, ShowTimer(u)
    PROVE  RestsCoherent'
<1> DEFINE v == currentView
           w == [views[u] EXCEPT !.hidden = FALSE]
<1>1. UNCHANGED <<currentView, lastViewPortSize, windowSize, paginationInfo>>
  BY DEF ShowTimer, Fires, Store
<1>2. CASE v = 0
  BY <1>1, <1>2 DEF RestsCoherent
<1>3. CASE v # 0
  <2>1. /\ v \in Views /\ views \in [Views -> View] /\ timers \in Seq(Timers)
        /\ ViewOK(v, views[v], timers) /\ paginationInfo \in PaginationInfos
    BY <1>3, OfCurrentView
  <2>2. Coherent(v, views[v], paginationInfo, lastViewPortSize, windowSize, timers)
    BY <1>3 DEF RestsCoherent
  <2>3. /\ timers # <<>> /\ Head(timers) = Timer("show", u) /\ timers' = Tail(timers)
        /\ views' = [views EXCEPT ![u] = Redrawn(paginationInfo, w)]
    BY DEF ShowTimer, Fires, Store
  <2>4. \A t : Has(timers, t) /\ t # Timer("show", u) => Has(timers', t)
    BY <2>1, <2>3, TailKeeps
  <2>5. MeasuredLast(v, timers) => MeasuredLast(v, timers')
    BY <2>1, <2>3, LastInTail
  <2>6. Timer("resize", v) # Timer("show", u) /\ Timer("measure", v) # Timer("show", u)
    BY DEF Timer
  <2>7. ASSUME ~views'[v].isWaitingFrameRender, InPlace(v, views[v], paginationInfo, timers),
               ~views[v].isWaitingFrameRender
        PROVE  InPlace(v, views'[v], paginationInfo, timers')
    <3>1. CASE u # v
      <4>1. views'[v] = views[v] /\ Timer("show", v) # Timer("show", u)
        BY <2>1, <2>3, <3>1 DEF Timer
      <4> QED
        BY <2>4, <2>7, <4>1 DEF InPlace, Laid, ColumnsAt, Counted
    <3>2. CASE u = v
      <4>1. /\ w \in View /\ w.html = "attached" /\ w.document = views[v].document
            /\ views'[v] = Redrawn(paginationInfo, w)
        BY <2>1, <2>3, <2>7, <3>2 DEF ViewOK, View
      <4>2. /\ views'[v].left = paginationInfo.visibleColumnCount
                                  * paginationInfo.currentSpreadIndex
            /\ views'[v].document = views[v].document
        BY <2>1, <4>1, RedrawnThere
      <4> QED
        BY <2>7, <4>2 DEF InPlace, Laid, ColumnsAt, Counted
    <3> QED
      BY <3>1, <3>2
  <2>8. ~views'[v].isWaitingFrameRender => ~views[v].isWaitingFrameRender
    BY <2>1, <2>3 DEF Redrawn, View
  <2> QED
    BY <1>1, <2>2, <2>4, <2>5, <2>6, <2>7, <2>8 DEF RestsCoherent, Coherent
<1> QED
  BY <1>2, <1>3

(* updatePagination of the current view: a measurement is due.              *)
LEMMA ShiftCoheres ==
    ASSUME NEW v \in Views, NEW q \in Seq(Timers), NEW i \in PaginationInfos,
           NEW w \in View, NEW size \in Sizes \cup {0}, NEW window,
           ~w.isWaitingFrameRender => w.html = "attached",
           size = window \/ Has(q, Timer("resize", v))
    PROVE  Coherent(v, ShiftedOffScreen(w), Columnized(i, w, size), size, window,
                    Append(q, Timer("measure", v)))
<1>1. CASE w.html = "undefined"
  BY <1>1 DEF ShiftedOffScreen, Coherent
<1>2. CASE w.html # "undefined"
  <2>1. Columnized(i, w, size).columnSize = size
    BY <1>2 DEF Columnized, PaginationInfos
  <2> QED
    BY <2>1, LastWhenAppended DEF Coherent
<1> QED
  BY <1>1, <1>2

LEMMA ResizeTimerCoheres ==
    ASSUME IInv, RestsCoherent, NEW u \in Views, ResizeTimer(u)
    PROVE  RestsCoherent'
<1> DEFINE v == currentView
<1>1. UNCHANGED <<currentView, windowSize>> /\ lastViewPortSize' = ViewportOf(u)
  BY DEF ResizeTimer, Fires
<1>2. CASE v = 0
  BY <1>1, <1>2 DEF RestsCoherent
<1>3. CASE v # 0 /\ u # v
  <2>1. lastViewPortSize' = 0
    BY <1>1, <1>3 DEF ViewportOf
  <2> QED
    BY <2>1 DEF RestsCoherent, Coherent
<1>4. CASE v # 0 /\ u = v
  <2>1. /\ v \in Views /\ views \in [Views -> View] /\ timers \in Seq(Timers)
        /\ ViewOK(v, views[v], timers) /\ paginationInfo \in PaginationInfos
        /\ lastViewPortSize \in Sizes \cup {0} /\ windowSize \in Sizes
        /\ views[v] \in View
    BY <1>4, OfCurrentView
  <2>2. Coherent(v, views[v], paginationInfo, lastViewPortSize, windowSize, timers)
    BY <1>4 DEF RestsCoherent
  <2>3. lastViewPortSize' = windowSize
    BY <1>1, <1>4 DEF ViewportOf
  <2>4. timers # <<>> /\ Head(timers) = Timer("resize", v)
    BY <1>4 DEF ResizeTimer, Fires
  <2>5. /\ Tail(timers) \in Seq(Timers)
        /\ \A t : Has(timers, t) /\ t # Timer("resize", v) => Has(Tail(timers), t)
    BY <2>1, <2>4, TailKeeps
  <2>6. CASE lastViewPortSize' # lastViewPortSize /\ views[v].html # "undefined"
    <3>1. /\ paginationInfo' = Columnized(paginationInfo, views[v], windowSize)
          /\ views'[v] = ShiftedOffScreen(views[v])
          /\ timers' = Append(Tail(timers), Timer("measure", v))
      BY <1>4, <2>1, <2>3, <2>6 DEF ResizeTimer, Store
    <3>2. Coherent(v, ShiftedOffScreen(views[v]),
                   Columnized(paginationInfo, views[v], windowSize),
                   windowSize, windowSize, Append(Tail(timers), Timer("measure", v)))
      <4>1. ~views[v].isWaitingFrameRender => views[v].html = "attached"
        BY <2>1 DEF ViewOK
      <4> QED
        BY <2>1, <2>5, <4>1, ShiftCoheres
    <3> QED
      BY <1>1, <2>3, <3>1, <3>2 DEF RestsCoherent
  <2>7. CASE ~(lastViewPortSize' # lastViewPortSize /\ views[v].html # "undefined")
    <3>1. timers' = Tail(timers) /\ UNCHANGED <<paginationInfo, views>>
      BY <1>4, <2>7 DEF ResizeTimer
    <3>2. ~views[v].isWaitingFrameRender => lastViewPortSize = windowSize
      BY <2>1, <2>3, <2>7 DEF ViewOK
    <3>3. Timer("measure", v) # Timer("resize", v) /\ Timer("show", v) # Timer("resize", v)
      BY DEF Timer
    <3>4. MeasuredLast(v, timers) => MeasuredLast(v, timers')
      BY <2>1, <2>4, <3>1, LastInTail
    <3>5. InPlace(v, views[v], paginationInfo, timers)
            => InPlace(v, views[v], paginationInfo, timers')
      BY <2>5, <3>1, <3>3 DEF InPlace, Laid, ColumnsAt, Counted
    <3> QED
      BY <1>1, <2>2, <2>3, <2>5, <3>1, <3>2, <3>3, <3>4, <3>5 DEF RestsCoherent, Coherent
  <2> QED
    BY <2>6, <2>7
<1> QED
  BY <1>2, <1>3, <1>4

LEMMA CommitNavigationCoheres ==
    ASSUME IInv, RestsCoherent, NEW u \in Views, CommitNavigation(u)
    PROVE  RestsCoherent'
<1>1. u = currentView /\ currentView' = currentView /\ currentView # 0
  BY DEF CommitNavigation, Views
<1>2. ViewOK(u, views[u], timers) /\ views[u] \in View /\ views \in [Views -> View]
  BY <1>1, OfCurrentView
<1>3. views[u].isWaitingFrameRender
  BY <1>2 DEF CommitNavigation, ViewOK
<1>4. views'[u].isWaitingFrameRender
  BY <1>2, <1>3 DEF CommitNavigation, Store, Committed, View
<1> QED
  BY <1>1, <1>4 DEF RestsCoherent, Coherent

LEMMA onIFrameLoadCoheres ==
    ASSUME IInv, NEW u \in Views, onIFrameLoad(u)
    PROVE  RestsCoherent'
<1> DEFINE w  == FrameRendered(views[u])
           w1 == [w EXCEPT !.html = "attached", !.hidden = FALSE]
<1>1. /\ u = currentView /\ currentView # 0
      /\ UNCHANGED <<currentView, windowSize>>
  BY DEF onIFrameLoad, Views
<1>2. /\ views[u] \in View /\ views \in [Views -> View] /\ timers \in Seq(Timers)
      /\ paginationInfo \in PaginationInfos /\ windowSize \in Sizes
  BY <1>1, OfCurrentView
<1>3. w \in View
  BY <1>2 DEF FrameRendered, View, Navigation
<1>4. CASE NewRequestCame(w)
  <2>1. loadSpineItem(u, paginationInfo, w, w.deferredPageRequest.spineItem)
    BY <1>4 DEF onIFrameLoad
  <2>2. w.deferredPageRequest.spineItem # w.currentSpineItem
    BY <1>4 DEF NewRequestCame
  <2> HIDE DEF w
  <2>3. views'[u].isWaitingFrameRender
    BY <1>2, <1>3, <2>1, <2>2 DEF loadSpineItem, Store, View
  <2> QED
    BY <1>1, <2>3 DEF RestsCoherent, Coherent
<1>5. CASE ~NewRequestCame(w)
  <2>1. applyStyles(u, w1)
    BY <1>5 DEF onIFrameLoad
  <2>2. w1 \in View /\ w1.html = "attached"
    BY <1>3 DEF View, HtmlStates
  <2>3. ViewportOf(u) = windowSize
    BY <1>1 DEF ViewportOf
  <2>4. /\ lastViewPortSize' = windowSize
        /\ paginationInfo' = Columnized(paginationInfo, w1, windowSize)
        /\ views'[u] = ShiftedOffScreen(w1)
        /\ timers' = Append(timers, Timer("measure", u))
    BY <1>2, <2>1, <2>2, <2>3 DEF applyStyles, updatePagination, StartMeasure, Store
  <2> HIDE DEF w, w1
  <2>5. Coherent(u, ShiftedOffScreen(w1), Columnized(paginationInfo, w1, windowSize),
                 windowSize, windowSize, Append(timers, Timer("measure", u)))
    BY <1>2, <2>2, ShiftCoheres
  <2> QED
    BY <1>1, <2>4, <2>5 DEF RestsCoherent
<1> QED
  BY <1>4, <1>5

-----------------------------------------------------------------------------
(* The reader's calls.                                                      *)

(* A new view waits for its frame.                                          *)
LEMMA openInNewViewCoheres ==
    ASSUME IInv, NEW req \in Requests, NEW synthetic \in BOOLEAN,
           openInNewView(req, synthetic)
    PROVE  RestsCoherent'
<1> DEFINE v == viewCount + 1
           i == [paginationInfo EXCEPT !.visibleColumnCount = visibleColumns(synthetic)]
<1>1. v \in Views /\ currentView' = v /\ openPage(v, i, NewView, req)
  BY DEF openInNewView
<1>2. i \in PaginationInfos /\ NewView \in View /\ views \in [Views -> View]
  BY DEF IInv, TypeOK, PaginationInfos, visibleColumns, View, NewView, HtmlStates, Navigation
<1> HIDE DEF v, i
<1>3. PICK i2 \in PaginationInfos, w2 \in View : Store(v, i2, w2) /\ Opened(NewView, w2, req)
  BY <1>1, <1>2, OpenPageEffect
<1>4. w2.isWaitingFrameRender
  <2>1. req.spineItem # NoItem
    BY RequestIsOne, SpineAssumption DEF NoItem, Items
  <2>2. w2 = [NewView EXCEPT !.deferredPageRequest = req, !.currentSpineItem = req.spineItem,
                             !.isWaitingFrameRender = TRUE, !.navigation = "requested"]
    BY <1>3, <2>1 DEF Opened, NewView
  <2> QED
    BY <2>2 DEF NewView
<1>5. views'[v] = w2
  BY <1>1, <1>2, <1>3 DEF Store
<1> QED
  BY <1>1, <1>4, <1>5 DEF RestsCoherent, Coherent

LEMMA CurrentOpenPageCoheres ==
    ASSUME IInv, RestsCoherent, currentView # 0, NEW req \in Requests,
           openPage(currentView, paginationInfo, views[currentView], req),
           UNCHANGED <<currentView, lastViewPortSize, windowSize, timers>>
    PROVE  RestsCoherent'
<1>1. /\ currentView \in Views /\ views \in [Views -> View] /\ views[currentView] \in View
      /\ paginationInfo \in PaginationInfos
      /\ ViewOK(currentView, views[currentView], timers)
  BY OfCurrentView
<1>2. ~views[currentView].isWaitingFrameRender => views[currentView].html = "attached"
  BY <1>1 DEF ViewOK
<1>3. Coherent(currentView, views[currentView], paginationInfo, lastViewPortSize, windowSize,
               timers)
  BY DEF RestsCoherent
<1>4. Coherent(currentView, views'[currentView], paginationInfo', lastViewPortSize,
               windowSize, timers)
  BY <1>1, <1>2, <1>3, OpenPageCoheres
<1> QED
  BY <1>4 DEF RestsCoherent

LEMMA readerOpenPageCoheres ==
    ASSUME IInv, RestsCoherent, NEW req \in Requests, readerOpenPage(req)
    PROVE  RestsCoherent'
<1>1. UNCHANGED <<lastViewPortSize, windowSize, timers>>
  BY DEF readerOpenPage
<1>2. CASE currentView = 0
  BY <1>2, BooleanTypes, openInNewViewCoheres DEF readerOpenPage
<1>3. CASE currentView # 0
  BY <1>1, <1>3, CurrentOpenPageCoheres DEF readerOpenPage
<1> QED
  BY <1>2, <1>3

LEMMA turnToCoheres ==
    ASSUME IInv, RestsCoherent, currentView # 0, NEW index \in Nat,
           index < paginationInfo.spreadCount \/ index < paginationInfo.currentSpreadIndex,
           turnTo(currentView, index),
           UNCHANGED <<currentView, lastViewPortSize, windowSize, timers>>
    PROVE  RestsCoherent'
<1> DEFINE v  == currentView
           i2 == [paginationInfo EXCEPT !.currentSpreadIndex = index]
           w2 == Redrawn(i2, views[v])
<1>1. /\ v \in Views /\ views \in [Views -> View] /\ views[v] \in View
      /\ paginationInfo \in PaginationInfos
      /\ ViewOK(v, views[v], timers)
  BY OfCurrentView
<1>2. paginationInfo' = i2 /\ views'[v] = w2
  BY <1>1 DEF turnTo, Store
<1>3. /\ i2 \in PaginationInfos /\ i2.currentSpreadIndex = index
      /\ i2.columnSize = paginationInfo.columnSize
      /\ i2.columnCount = paginationInfo.columnCount
      /\ i2.spreadCount = paginationInfo.spreadCount
      /\ i2.visibleColumnCount = paginationInfo.visibleColumnCount
  BY <1>1 DEF PaginationInfos
<1>4. w2.isWaitingFrameRender = views[v].isWaitingFrameRender
  BY <1>1 DEF Redrawn, View
<1>5. InPlace(v, views[v], paginationInfo, timers) => index \in -1 .. i2.spreadCount - 1
  BY <1>1, <1>3 DEF PaginationInfos, InPlace, Laid, ColumnsAt, Counted
<1> HIDE DEF i2
<1>6. ~w2.isWaitingFrameRender => /\ w2.left = i2.visibleColumnCount * i2.currentSpreadIndex
                                  /\ w2.document = views[v].document
  BY <1>1, <1>3, <1>4, RedrawnThere DEF ViewOK
<1> HIDE DEF w2
<1>7. ~w2.isWaitingFrameRender /\ InPlace(v, views[v], paginationInfo, timers)
        => InPlace(v, w2, i2, timers)
  BY <1>3, <1>5, <1>6 DEF InPlace, Laid, ColumnsAt, Counted
<1>8. Coherent(v, views[v], paginationInfo, lastViewPortSize, windowSize, timers)
  BY DEF RestsCoherent
<1>9. Coherent(v, w2, i2, lastViewPortSize, windowSize, timers)
  BY <1>3, <1>4, <1>7, <1>8 DEF Coherent
<1> QED
  BY <1>2, <1>9 DEF RestsCoherent

LEMMA PageTurnCoheres ==
    ASSUME IInv, RestsCoherent, currentView # 0, readerOpenPageNext \/ readerOpenPagePrev
    PROVE  RestsCoherent'
<1>1. PICK item \in Items : item = views[currentView].currentSpineItem
  BY DEF IInv, ViewOK
<1>2. /\ nextItem(item) # NoItem => FirstPage(nextItem(item)) \in Requests
      /\ prevItem(item) # NoItem => LastPage(prevItem(item)) \in Requests
  <2>1. 0 \in -1 .. MaxColumns
    BY ReflowableViewAssumption
  <2>2. /\ nextItem(item) # NoItem => nextItem(item) \in Items
        /\ prevItem(item) # NoItem => prevItem(item) \in Items
    BY Neighbours
  <2> QED
    BY <2>1, <2>2, RequestTypes
<1>3. /\ paginationInfo.currentSpreadIndex \in Nat \cup {-1}
      /\ paginationInfo.spreadCount \in Nat
  BY DEF IInv, TypeOK, PaginationInfos
<1>4. CASE readerOpenPageNext
  <2>1. \/ nextItem(item) # NoItem /\ readerOpenPage(FirstPage(nextItem(item)))
        \/ /\ openPageNext(currentView)
           /\ UNCHANGED <<currentView, lastViewPortSize, windowSize, timers>>
    BY <1>1, <1>4 DEF readerOpenPageNext
  <2>2. CASE nextItem(item) # NoItem /\ readerOpenPage(FirstPage(nextItem(item)))
    BY <1>2, <2>2, readerOpenPageCoheres
  <2>3. CASE /\ openPageNext(currentView)
             /\ UNCHANGED <<currentView, lastViewPortSize, windowSize, timers>>
    <3>1. CASE paginationInfo.currentSpreadIndex < paginationInfo.spreadCount - 1
      <4>1. PICK k \in Nat : k = paginationInfo.currentSpreadIndex + 1
        BY <1>3
      <4>2. k < paginationInfo.spreadCount /\ turnTo(currentView, k)
        BY <1>3, <2>3, <3>1, <4>1 DEF openPageNext
      <4> QED
        BY <2>3, <4>2, turnToCoheres
    <3>2. CASE ~(paginationInfo.currentSpreadIndex < paginationInfo.spreadCount - 1)
      <4>1. /\ nextItem(item) # NoItem
            /\ openPage(currentView, paginationInfo, views[currentView],
                        FirstPage(nextItem(item)))
        BY <1>1, <2>3, <3>2 DEF openPageNext
      <4> QED
        BY <1>2, <2>3, <4>1, CurrentOpenPageCoheres
    <3> QED
      BY <3>1, <3>2
  <2> QED
    BY <2>1, <2>2, <2>3
<1>5. CASE readerOpenPagePrev
  <2>1. \/ prevItem(item) # NoItem /\ readerOpenPage(LastPage(prevItem(item)))
        \/ /\ openPagePrev(currentView)
           /\ UNCHANGED <<currentView, lastViewPortSize, windowSize, timers>>
    BY <1>1, <1>5 DEF readerOpenPagePrev
  <2>2. CASE prevItem(item) # NoItem /\ readerOpenPage(LastPage(prevItem(item)))
    BY <1>2, <2>2, readerOpenPageCoheres
  <2>3. CASE /\ openPagePrev(currentView)
             /\ UNCHANGED <<currentView, lastViewPortSize, windowSize, timers>>
    <3>1. CASE paginationInfo.currentSpreadIndex > 0
      <4>1. PICK k \in Nat : k = paginationInfo.currentSpreadIndex - 1
        BY <1>3, <3>1
      <4>2. k < paginationInfo.currentSpreadIndex /\ turnTo(currentView, k)
        BY <1>3, <2>3, <3>1, <4>1 DEF openPagePrev
      <4> QED
        BY <2>3, <4>2, turnToCoheres
    <3>2. CASE ~(paginationInfo.currentSpreadIndex > 0)
      <4>1. /\ prevItem(item) # NoItem
            /\ openPage(currentView, paginationInfo, views[currentView],
                        LastPage(prevItem(item)))
        BY <1>1, <2>3, <3>2 DEF openPagePrev
      <4> QED
        BY <1>2, <2>3, <4>1, CurrentOpenPageCoheres
    <3> QED
      BY <3>1, <3>2
  <2> QED
    BY <2>1, <2>2, <2>3
<1> QED
  BY <1>4, <1>5

LEMMA updateSettingsCoheres ==
    ASSUME IInv, RestsCoherent, NEW synthetic \in BOOLEAN, updateSettings(synthetic)
    PROVE  RestsCoherent'
<1> DEFINE v == currentView
           n == [paginationInfo EXCEPT !.visibleColumnCount = visibleColumns(synthetic)]
           i == Columnized(n, views[v], lastViewPortSize)
           w == ShiftedOffScreen(views[v])
<1>1. UNCHANGED <<currentView, lastViewPortSize, windowSize>>
  BY DEF updateSettings
<1>2. CASE v = 0
  BY <1>1, <1>2 DEF RestsCoherent
<1>3. CASE v # 0
  <2>1. /\ v \in Views /\ views \in [Views -> View] /\ views[v] \in View
        /\ timers \in Seq(Timers) /\ paginationInfo \in PaginationInfos
        /\ ViewOK(v, views[v], timers) /\ lastViewPortSize \in Sizes \cup {0}
    BY <1>3, OfCurrentView
  <2>2. n \in PaginationInfos
    BY <2>1 DEF PaginationInfos, visibleColumns
  <2> HIDE DEF n
  <2>3. /\ openPage(v, i, w, NoTarget(views[v].currentSpineItem))
        /\ StartMeasure(v, views[v])
    BY <1>3 DEF updateSettings, n
  <2>4. NoTarget(views[v].currentSpineItem) \in Requests
    <3>1. views[v].currentSpineItem \in Items
      BY <2>1 DEF ViewOK
    <3>2. 0 \in -1 .. MaxColumns
      BY ReflowableViewAssumption
    <3> QED
      BY <3>1, <3>2, RequestTypes
  <2>5. ~views[v].isWaitingFrameRender => views[v].html = "attached"
    BY <2>1 DEF ViewOK
  <2>6. i \in PaginationInfos
    BY <2>1, <2>2 DEF Columnized, PaginationInfos
  <2>7. /\ w \in View /\ w.html = views[v].html
        /\ w.isWaitingFrameRender = views[v].isWaitingFrameRender
    BY <2>1 DEF ShiftedOffScreen, View, OffScreen
  <2>8. Coherent(v, w, i, lastViewPortSize, windowSize, timers')
    <3>1. CASE w.isWaitingFrameRender
      BY <3>1 DEF Coherent
    <3>2. CASE lastViewPortSize = 0
      BY <3>2 DEF Coherent
    <3>3. CASE ~w.isWaitingFrameRender /\ lastViewPortSize # 0
      <4>1. timers' = Append(timers, Timer("measure", v))
        BY <2>3, <2>5, <2>7, <3>3 DEF StartMeasure
      <4>2. Coherent(v, views[v], paginationInfo, lastViewPortSize, windowSize, timers)
        BY <1>3 DEF RestsCoherent
      <4>3. lastViewPortSize = windowSize \/ Has(timers', Timer("resize", v))
        BY <2>1, <2>7, <3>3, <4>1, <4>2, LastWhenAppended DEF Coherent
      <4>4. i.columnSize = lastViewPortSize
        BY <2>2, <2>5, <2>7, <3>3 DEF Columnized, PaginationInfos
      <4> QED
        BY <2>1, <4>1, <4>3, <4>4, LastWhenAppended DEF Coherent
    <3> QED
      BY <2>7, <3>1, <3>2, <3>3 DEF View
  <2> HIDE DEF w, i
  <2>9. Coherent(v, views'[v], paginationInfo', lastViewPortSize, windowSize, timers')
    BY <2>1, <2>3, <2>4, <2>5, <2>6, <2>7, <2>8, OpenPageCoheres
  <2> QED
    BY <1>1, <2>9 DEF RestsCoherent
<1> QED
  BY <1>2, <1>3

LEMMA setStylesCoheres ==
    ASSUME IInv, setStyles
    PROVE  RestsCoherent'
<1> DEFINE v == currentView
           w == views[v]
<1>1. v # 0 /\ applyStyles(v, w) /\ UNCHANGED <<currentView, windowSize>>
  BY DEF setStyles
<1>2. /\ v \in Views /\ views \in [Views -> View] /\ w \in View
      /\ timers \in Seq(Timers) /\ paginationInfo \in PaginationInfos
      /\ ViewOK(v, w, timers) /\ windowSize \in Sizes
  BY <1>1, OfCurrentView
<1>3. /\ lastViewPortSize' = windowSize
      /\ paginationInfo' = Columnized(paginationInfo, w, windowSize)
      /\ views'[v] = ShiftedOffScreen(w)
      /\ StartMeasure(v, w)
  BY <1>1, <1>2 DEF applyStyles, updatePagination, Store, ViewportOf
<1>4. CASE w.html = "undefined"
  <2>1. views'[v].isWaitingFrameRender
    BY <1>2, <1>3, <1>4 DEF ViewOK, ShiftedOffScreen, View
  <2> QED
    BY <1>1, <2>1 DEF RestsCoherent, Coherent
<1>5. CASE w.html # "undefined"
  <2>1. timers' = Append(timers, Timer("measure", v))
    BY <1>3, <1>5 DEF StartMeasure
  <2>2. ~w.isWaitingFrameRender => w.html = "attached"
    BY <1>2 DEF ViewOK
  <2> HIDE DEF w
  <2>3. Coherent(v, ShiftedOffScreen(w), Columnized(paginationInfo, w, windowSize),
                 windowSize, windowSize, Append(timers, Timer("measure", v)))
    BY <1>2, <2>2, ShiftCoheres
  <2> QED
    BY <1>1, <1>3, <2>1, <2>3 DEF RestsCoherent
<1> QED
  BY <1>4, <1>5

LEMMA resizeWindowCoheres ==
    ASSUME IInv, RestsCoherent, NEW size \in Sizes, resizeWindow(size)
    PROVE  RestsCoherent'
<1> DEFINE v == currentView
           t == Timer("resize", v)
<1>1. UNCHANGED <<paginationInfo, lastViewPortSize, views, currentView>>
  BY DEF resizeWindow
<1>2. CASE v = 0
  BY <1>1, <1>2 DEF RestsCoherent
<1>3. CASE v # 0
  <2>1. v \in Views /\ timers \in Seq(Timers)
    BY <1>3, OfCurrentView
  <2>2. timers' \in Restarted(timers, t) /\ t \in Timers
    BY <1>3, <2>1 DEF resizeWindow, Timer, Timers
  <2>3. Has(timers', t)
    <3>1. CASE timers' = Append(timers, t)
      BY <2>1, <2>2, <3>1, AppendKeeps
    <3>2. ASSUME NEW k \in 1 .. Len(timers), timers' = Append(RemoveAt(timers, k), t)
          PROVE  Has(timers', t)
      <4>1. RemoveAt(timers, k) \in Seq(Timers)
        BY <2>1, RemoveAtFacts
      <4> QED
        BY <2>2, <3>2, <4>1, AppendKeeps
    <3> QED
      BY <2>2, <3>1, <3>2 DEF Restarted
  <2>4. \A u : Has(timers, u) => Has(timers', u)
    BY <2>1, <2>2, RestartedKeeps
  <2>5. MeasuredLast(v, timers) => MeasuredLast(v, timers')
    BY <2>1, <2>2, LastRestarted
  <2>6. Coherent(v, views[v], paginationInfo, lastViewPortSize, windowSize, timers)
    BY <1>3 DEF RestsCoherent
  <2>7. Coherent(v, views[v], paginationInfo, lastViewPortSize, windowSize', timers')
    BY <2>3, <2>4, <2>5, <2>6 DEF Coherent, InPlace, Laid, ColumnsAt, Counted
  <2> QED
    BY <1>1, <2>7 DEF RestsCoherent
<1> QED
  BY <1>2, <1>3

LEMMA CallsCohere ==
    ASSUME IInv, RestsCoherent, BookCalls \/ PageCalls \/ LayoutCalls
    PROVE  RestsCoherent'
<1>1. ASSUME NEW i \in Items, NEW p \in -1 .. MaxColumns
      PROVE  PageIndex(i, p) \in Requests /\ NoTarget(i) \in Requests
  BY RequestTypes
<1>2. 0 .. MaxColumns \subseteq -1 .. MaxColumns
  BY ReflowableViewAssumption
<1>3. BookRequests \subseteq Requests /\ ElementRequests \subseteq Requests
  BY CallersRequestTypes
<1>4. Throws => RestsCoherent'
  BY DEF Throws, RestsCoherent
<1>5. CASE BookCalls
  <2>1. \/ currentView' = 0
        \/ \E synthetic \in BOOLEAN, req \in BookRequests : openInNewView(req, synthetic)
    BY <1>5 DEF BookCalls, openBook, openBookAtUnknownItem
  <2> QED
    BY <1>3, <2>1, openInNewViewCoheres DEF RestsCoherent
<1>6. CASE PageCalls
  <2>1. CASE openPageLeft \/ openPageRight
    BY <1>4, <2>1, PageTurnCoheres DEF openPageLeft, openPageRight
  <2>2. ASSUME NEW i \in Items, NEW p \in 0 .. MaxColumns, openSpineItemPage(i, p)
        PROVE  RestsCoherent'
    <3>1. 0 \in -1 .. MaxColumns /\ p \in -1 .. MaxColumns
      BY <1>2, ReflowableViewAssumption
    <3> QED
      BY <1>1, <1>4, <2>2, <3>1, readerOpenPageCoheres DEF openSpineItemPage
  <2>3. ASSUME NEW req \in ElementRequests, openElement(req)
        PROVE  RestsCoherent'
    BY <1>3, <1>4, <2>3, readerOpenPageCoheres DEF openElement
  <2>4. ASSUME NEW p \in 0 .. MaxColumns, openPageIndex(p) PROVE RestsCoherent'
    BY <1>4, <2>4 DEF openPageIndex
  <2> QED
    BY <1>6, <2>1, <2>2, <2>3, <2>4 DEF PageCalls
<1>7. CASE LayoutCalls
  BY <1>7, updateSettingsCoheres, setStylesCoheres, resizeWindowCoheres DEF LayoutCalls
<1> QED
  BY <1>5, <1>6, <1>7

-----------------------------------------------------------------------------
(* Where the view comes to rest.                                            *)

LEMMA CoherenceIsKept == IInv /\ RestsCoherent /\ [Next]_vars => RestsCoherent'
<1> SUFFICES ASSUME IInv, RestsCoherent, [Next]_vars PROVE RestsCoherent'
  OBVIOUS
<1>1. CASE BookCalls \/ PageCalls \/ LayoutCalls
  BY <1>1, CallsCohere
<1>2. CASE Browser
  BY <1>2, MeasureTimerCoheres, ShowTimerCoheres, ResizeTimerCoheres, CommitNavigationCoheres,
     onIFrameLoadCoheres DEF Browser, TimerFires, FrameEvent
<1>3. CASE UNCHANGED vars
  BY <1>3 DEF RestsCoherent, vars, viewVars
<1> QED
  BY <1>1, <1>2, <1>3 DEF Next

LEMMA AlwaysCoherent == Spec => []RestsCoherent
<1>1. Init => RestsCoherent
  BY DEF Init, RestsCoherent
<1> QED
  BY <1>1, CoherenceIsKept, Invariance, PTL DEF Spec

(* At rest the page shown is the current spread of the current document, as *)
(* that document is laid out in the present viewport: no timer of a removed *)
(* view, nor the order in which timers fire, leaves the shared pagination   *)
(* and the page apart.  Only a lookup that throws in a measure timer does.  *)
THEOREM RestIsCoherent == Spec => []SettledIsCoherent
<1>1. IInv /\ RestsCoherent => SettledIsCoherent
  <2> SUFFICES ASSUME IInv, RestsCoherent, Settled, lastViewPortSize # 0
               PROVE  SettledIsCoherent
    BY DEF SettledIsCoherent
  <2>1. /\ currentView # 0 /\ ~views[currentView].isWaitingFrameRender
        /\ timers = <<>>
    BY DEF Settled, View0
  <2>2. \A k, v : ~Has(timers, Timer(k, v))
    BY <2>1, NothingPending DEF Pending
  <2>3. /\ paginationInfo.columnSize = lastViewPortSize
        /\ lastViewPortSize = windowSize
        /\ InPlace(currentView, views[currentView], paginationInfo, timers)
    BY <2>1, <2>2 DEF RestsCoherent, Coherent
  <2> QED
    BY <2>2, <2>3 DEF SettledIsCoherent, InPlace, Laid, ColumnsAt, Counted, View0
<1> QED
  BY <1>1, Invariance, AlwaysCoherent, PTL

-----------------------------------------------------------------------------
(* Of every view, removed ones too: it waits for its frame only with a      *)
(* request, and a request it does not wait for is for the item it has.      *)
(* There is a view only with a package.                                     *)

RequestOK(w) ==
    /\ w.isWaitingFrameRender => w.deferredPageRequest # NoRequest
    /\ ~w.isWaitingFrameRender /\ w.deferredPageRequest # NoRequest =>
          w.deferredPageRequest.spineItem = w.currentSpineItem

RequestsOK == /\ \A u \in Views : RequestOK(views[u])
              /\ currentView # 0 => package

LEMMA OpenedRequestOK ==
    ASSUME NEW w \in View, NEW w2, NEW req \in Requests, Opened(w, w2, req), RequestOK(w)
    PROVE  RequestOK(w2)
<1>1. req # NoRequest
  BY RequestIsOne
<1> QED
  BY <1>1 DEF Opened, RequestOK, View

LEMMA StoredRequestsOK ==
    ASSUME IInv, RequestsOK, NEW v \in Views, NEW i, NEW w, Store(v, i, w), RequestOK(w)
    PROVE  \A u \in Views : RequestOK(views'[u])
<1>1. views \in [Views -> View]
  BY DEF IInv, TypeOK
<1> QED
  BY <1>1 DEF Store, RequestsOK

LEMMA OpenPageRequestsOK ==
    ASSUME IInv, RequestsOK, NEW v \in Views, NEW i \in PaginationInfos, NEW w \in View,
           NEW req \in Requests, openPage(v, i, w, req), RequestOK(w)
    PROVE  \A u \in Views : RequestOK(views'[u])
<1>1. PICK i2 \in PaginationInfos, w2 \in View : Store(v, i2, w2) /\ Opened(w, w2, req)
  BY OpenPageEffect
<1> QED
  BY <1>1, OpenedRequestOK, StoredRequestsOK

LEMMA BrowserRequestsOK ==
    ASSUME IInv, RequestsOK, Browser
    PROVE  RequestsOK'
<1>1. currentView' # 0 => package'
  BY DEF Browser, TimerFires, FrameEvent, MeasureTimer, ShowTimer, ResizeTimer, Fires,
         CommitNavigation, onIFrameLoad, readerVars, RequestsOK
<1>2. /\ views \in [Views -> View]
      /\ \A v \in Views : RequestOK(views[v]) /\ views[v] \in View
  BY DEF IInv, TypeOK, RequestsOK
<1>3. ASSUME NEW v \in Views, MeasureTimer(v) PROVE \A u \in Views : RequestOK(views'[u])
  <2> DEFINE w  == LaidOutView(views[v])
             w1 == [w EXCEPT !.deferredPageRequest = NoRequest]
             cs == CutShortView(views[v])
  <2>1. PICK c \in MeasuredColumns(v) : LaysOut(v, c) \/ CutsShort(v, c)
    BY <1>3, HowMeasured
  <2>2. Measured(c) \in PaginationInfos
    BY MeasuredTypes
  <2>3. /\ w \in View /\ RequestOK(w) /\ w1 \in View
        /\ w.deferredPageRequest \in Requests \cup {NoRequest}
        /\ w.isWaitingFrameRender = w1.isWaitingFrameRender
    BY <1>2 DEF LaidOutView, View, RequestOK
  <2>6. CASE CutsShort(v, c)
    <3>1. Store(v, Measured(c), cs) /\ ~views[v].isWaitingFrameRender
      BY <2>6 DEF CutsShort, LookupThrows
    <3>2. RequestOK(cs)
      BY <1>2, <3>1 DEF CutShortView, View, RequestOK
    <3> HIDE DEF cs
    <3> QED
      BY <3>1, <3>2, StoredRequestsOK
  <2>4. CASE LaysOut(v, c) /\ w.deferredPageRequest = NoRequest
    <3>1. Store(v, Measured(c), w)
      BY <2>4 DEF LaysOut, openDeferredElement
    <3> HIDE DEF w
    <3> QED
      BY <2>3, <3>1, StoredRequestsOK
  <2>5. CASE LaysOut(v, c) /\ w.deferredPageRequest # NoRequest
    <3>1. openPage(v, Measured(c), w1, w.deferredPageRequest)
      BY <2>5 DEF LaysOut, openDeferredElement
    <3>2. PICK i2 \in PaginationInfos, w2 \in View :
             Store(v, i2, w2) /\ Opened(w1, w2, w.deferredPageRequest)
      <4> HIDE DEF w, w1
      <4> QED
        BY <2>2, <2>3, <2>5, <3>1, OpenPageEffect
    <3>3. w.deferredPageRequest # NoRequest
      BY <2>5
    <3>4. w1.deferredPageRequest = NoRequest
      BY <2>3 DEF View
    <3> HIDE DEF w, w1
    <3>5. RequestOK(w2)
      BY <2>3, <3>2, <3>3, <3>4 DEF Opened, RequestOK, View
    <3> QED
      BY <3>2, <3>5, StoredRequestsOK
  <2> QED
    BY <2>1, <2>4, <2>5, <2>6
<1>4. ASSUME NEW v \in Views, ShowTimer(v) PROVE \A u \in Views : RequestOK(views'[u])
  <2>1. RequestOK(Redrawn(paginationInfo, [views[v] EXCEPT !.hidden = FALSE]))
    BY <1>2 DEF Redrawn, RequestOK, View
  <2> QED
    BY <1>4, <2>1, StoredRequestsOK DEF ShowTimer
<1>5. ASSUME NEW v \in Views PROVE RequestOK(ShiftedOffScreen(views[v]))
  BY <1>2 DEF ShiftedOffScreen, RequestOK, View
<1>6. ASSUME NEW v \in Views, ResizeTimer(v) PROVE \A u \in Views : RequestOK(views'[u])
  <2>1. \/ views' = views
        \/ Store(v, Columnized(paginationInfo, views[v], lastViewPortSize'),
                 ShiftedOffScreen(views[v]))
    BY <1>6 DEF ResizeTimer
  <2> QED
    BY <1>2, <1>5, <2>1, StoredRequestsOK
<1>7. ASSUME NEW v \in Views, CommitNavigation(v) PROVE \A u \in Views : RequestOK(views'[u])
  <2>1. RequestOK(Committed(views[v]))
    BY <1>2 DEF Committed, RequestOK, View
  <2> QED
    BY <1>7, <2>1, StoredRequestsOK DEF CommitNavigation
<1>8. ASSUME NEW v \in Views, onIFrameLoad(v) PROVE \A u \in Views : RequestOK(views'[u])
  <2> DEFINE w  == FrameRendered(views[v])
             w1 == [w EXCEPT !.html = "attached", !.hidden = FALSE]
  <2>1. w \in View /\ ~w.isWaitingFrameRender
    BY <1>2 DEF FrameRendered, View, Navigation
  <2>2. CASE NewRequestCame(w)
    <3>1. loadSpineItem(v, paginationInfo, w, w.deferredPageRequest.spineItem)
      BY <1>8, <2>2 DEF onIFrameLoad
    <3>2. /\ w.deferredPageRequest.spineItem # w.currentSpineItem
          /\ w.deferredPageRequest # NoRequest
      BY <2>2 DEF NewRequestCame
    <3> HIDE DEF w
    <3>3. PICK i2, w2 : /\ Store(v, i2, w2)
                        /\ w2 = [w EXCEPT !.currentSpineItem = w.deferredPageRequest.spineItem,
                                          !.isWaitingFrameRender = TRUE,
                                          !.navigation = "requested"]
      BY <3>1, <3>2 DEF loadSpineItem
    <3>4. RequestOK(w2)
      BY <2>1, <3>2, <3>3 DEF RequestOK, View
    <3> QED
      BY <3>3, <3>4, StoredRequestsOK
  <2>3. CASE ~NewRequestCame(w)
    <3>1. applyStyles(v, w1)
      BY <1>8, <2>3 DEF onIFrameLoad
    <3>2. RequestOK(ShiftedOffScreen(w1))
      BY <2>1, <2>3 DEF NewRequestCame, ShiftedOffScreen, RequestOK, View
    <3> HIDE DEF w1
    <3> QED
      BY <3>1, <3>2, StoredRequestsOK DEF applyStyles, updatePagination
  <2> QED
    BY <2>2, <2>3
<1> QED
  BY <1>1, <1>3, <1>4, <1>6, <1>7, <1>8 DEF Browser, TimerFires, FrameEvent, RequestsOK

(* The requests callers make are requests.                                  *)
LEMMA CallersRequests ==
    /\ BookRequests \subseteq Requests /\ ElementRequests \subseteq Requests
    /\ \A i \in Items, p \in -1 .. MaxColumns : PageIndex(i, p) \in Requests
    /\ \A i \in Items : NoTarget(i) \in Requests
    /\ 0 .. MaxColumns \subseteq -1 .. MaxColumns
<1>1. 0 \in -1 .. MaxColumns /\ 0 .. MaxColumns \subseteq -1 .. MaxColumns
  BY ReflowableViewAssumption
<1> QED
  BY <1>1, RequestTypes, CallersRequestTypes

LEMMA NeighbourRequests ==
    ASSUME IInv, currentView # 0, NEW item, item = views[currentView].currentSpineItem
    PROVE  /\ item \in Items
           /\ nextItem(item) # NoItem => FirstPage(nextItem(item)) \in Requests
           /\ prevItem(item) # NoItem => LastPage(prevItem(item)) \in Requests
<1>1. item \in Items
  BY DEF IInv, ViewOK
<1>2. 0 \in -1 .. MaxColumns
  BY ReflowableViewAssumption
<1>3. /\ nextItem(item) # NoItem => nextItem(item) \in Items
      /\ prevItem(item) # NoItem => prevItem(item) \in Items
  BY Neighbours
<1> QED
  BY <1>1, <1>2, <1>3, RequestTypes

LEMMA NewViewRequestsOK ==
    ASSUME IInv, RequestsOK, NEW req \in Requests, NEW synthetic \in BOOLEAN,
           openInNewView(req, synthetic)
    PROVE  \A u \in Views : RequestOK(views'[u])
<1> DEFINE i == [paginationInfo EXCEPT !.visibleColumnCount = visibleColumns(synthetic)]
<1>1. viewCount + 1 \in Views /\ openPage(viewCount + 1, i, NewView, req)
  BY DEF openInNewView
<1>2. i \in PaginationInfos /\ NewView \in View
  BY DEF IInv, TypeOK, PaginationInfos, visibleColumns, View, NewView, HtmlStates, Navigation
<1>3. RequestOK(NewView)
  BY DEF RequestOK, NewView
<1> HIDE DEF i
<1> QED
  BY <1>1, <1>2, <1>3, OpenPageRequestsOK

LEMMA readerOpenPageRequestsOK ==
    ASSUME IInv, RequestsOK, NEW req \in Requests, readerOpenPage(req)
    PROVE  \A u \in Views : RequestOK(views'[u])
<1>1. CASE currentView = 0
  BY <1>1, BooleanTypes, NewViewRequestsOK DEF readerOpenPage
<1>2. CASE currentView # 0
  <2>1. openPage(currentView, paginationInfo, views[currentView], req)
    BY <1>2 DEF readerOpenPage
  <2> QED
    BY <1>2, <2>1, OfCurrentView, OpenPageRequestsOK DEF RequestsOK
<1> QED
  BY <1>1, <1>2

LEMMA PageTurnRequestsOK ==
    ASSUME IInv, RequestsOK, currentView # 0, readerOpenPageNext \/ readerOpenPagePrev
    PROVE  \A u \in Views : RequestOK(views'[u])
<1> DEFINE v == currentView
<1>1. PICK item : item = views[v].currentSpineItem
  OBVIOUS
<1>2. /\ nextItem(item) # NoItem => FirstPage(nextItem(item)) \in Requests
      /\ prevItem(item) # NoItem => LastPage(prevItem(item)) \in Requests
  BY <1>1, NeighbourRequests
<1>3. v \in Views /\ views[v] \in View /\ paginationInfo \in PaginationInfos
      /\ RequestOK(views[v])
  BY OfCurrentView DEF RequestsOK
<1>4. ASSUME NEW index, turnTo(v, index) PROVE \A u \in Views : RequestOK(views'[u])
  <2> DEFINE i == [paginationInfo EXCEPT !.currentSpreadIndex = index]
  <2>1. Store(v, i, Redrawn(i, views[v]))
    BY <1>4 DEF turnTo
  <2> HIDE DEF i
  <2>2. RequestOK(Redrawn(i, views[v]))
    BY <1>3 DEF Redrawn, RequestOK, View
  <2> QED
    BY <1>3, <2>1, <2>2, StoredRequestsOK
<1>5. \/ \E index : turnTo(v, index)
      \/ \E req \in Requests : openPage(v, paginationInfo, views[v], req) \/ readerOpenPage(req)
  BY <1>1, <1>2 DEF readerOpenPageNext, readerOpenPagePrev, openPageNext, openPagePrev
<1> QED
  BY <1>3, <1>4, <1>5, OpenPageRequestsOK, readerOpenPageRequestsOK

LEMMA CallsRequestsOK ==
    ASSUME IInv, RequestsOK, BookCalls \/ PageCalls \/ LayoutCalls
    PROVE  RequestsOK'
<1>1. Throws => RequestsOK'
  BY DEF Throws, RequestsOK
<1>2. ASSUME NEW req \in Requests, readerOpenPage(req), package PROVE RequestsOK'
  <2>1. package'
    BY <1>2 DEF readerOpenPage
  <2> QED
    BY <1>2, <2>1, readerOpenPageRequestsOK DEF RequestsOK
<1>3. CASE BookCalls
  <2>1. package'
    BY <1>3 DEF BookCalls, openBook, openBookAtUnknownItem
  <2>2. \/ views' = views
        \/ \E synthetic \in BOOLEAN, req \in BookRequests : openInNewView(req, synthetic)
    BY <1>3 DEF BookCalls, openBook, openBookAtUnknownItem
  <2> QED
    BY <2>1, <2>2, CallersRequests, NewViewRequestsOK DEF RequestsOK
<1>4. CASE PageCalls
  <2>1. CASE openPageLeft \/ openPageRight
    <3>1. \/ Throws
          \/ currentView # 0 /\ (readerOpenPageNext \/ readerOpenPagePrev)
      BY <2>1 DEF openPageLeft, openPageRight
    <3>2. currentView # 0 /\ (readerOpenPageNext \/ readerOpenPagePrev) => package'
      BY DEF readerOpenPageNext, readerOpenPagePrev, readerOpenPage, RequestsOK
    <3> QED
      BY <1>1, <3>1, <3>2, PageTurnRequestsOK DEF RequestsOK
  <2>2. ASSUME NEW i \in Items, NEW p \in 0 .. MaxColumns, openSpineItemPage(i, p)
        PROVE  RequestsOK'
    <3>1. Throws \/ (package /\ (readerOpenPage(NoTarget(i)) \/ readerOpenPage(PageIndex(i, p))))
      BY <2>2 DEF openSpineItemPage
    <3> QED
      BY <1>1, <1>2, <3>1, CallersRequests
  <2>3. ASSUME NEW req \in ElementRequests, openElement(req)
        PROVE  RequestsOK'
    <3>1. Throws \/ (package /\ readerOpenPage(req))
      BY <2>3 DEF openElement
    <3> QED
      BY <1>1, <1>2, <3>1, CallersRequests
  <2>4. ASSUME NEW p \in 0 .. MaxColumns, openPageIndex(p) PROVE RequestsOK'
    BY <1>1, <2>4 DEF openPageIndex
  <2> QED
    BY <1>4, <2>1, <2>2, <2>3, <2>4 DEF PageCalls
<1>5. CASE LayoutCalls
  <2>1. UNCHANGED <<currentView, package>>
    BY <1>5 DEF LayoutCalls, updateSettings, setStyles, resizeWindow
  <2>2. ASSUME NEW synthetic \in BOOLEAN, updateSettings(synthetic), currentView # 0
        PROVE  \A u \in Views : RequestOK(views'[u])
    <3> DEFINE v == currentView
               n == [paginationInfo EXCEPT !.visibleColumnCount = visibleColumns(synthetic)]
               i == Columnized(n, views[v], lastViewPortSize)
               w == ShiftedOffScreen(views[v])
    <3>1. v \in Views /\ views[v] \in View /\ paginationInfo \in PaginationInfos
          /\ RequestOK(views[v]) /\ ViewOK(v, views[v], timers)
          /\ lastViewPortSize \in Sizes \cup {0}
      BY <2>2, OfCurrentView DEF RequestsOK
    <3>2. openPage(v, i, w, NoTarget(views[v].currentSpineItem))
      BY <2>2 DEF updateSettings
    <3>3. NoTarget(views[v].currentSpineItem) \in Requests
      BY <3>1, CallersRequests DEF ViewOK
    <3>4. i \in PaginationInfos
      BY <3>1 DEF Columnized, PaginationInfos, visibleColumns
    <3>5. w \in View /\ RequestOK(w)
      BY <3>1 DEF ShiftedOffScreen, RequestOK, View, OffScreen
    <3> HIDE DEF i, w
    <3> QED
      BY <3>1, <3>2, <3>3, <3>4, <3>5, OpenPageRequestsOK
  <2>3. ASSUME setStyles PROVE \A u \in Views : RequestOK(views'[u])
    <3>1. currentView # 0 /\ applyStyles(currentView, views[currentView])
      BY <2>3 DEF setStyles
    <3>2. /\ currentView \in Views /\ views[currentView] \in View
          /\ RequestOK(views[currentView])
      BY <3>1, OfCurrentView DEF RequestsOK
    <3>3. RequestOK(ShiftedOffScreen(views[currentView]))
      BY <3>2 DEF ShiftedOffScreen, RequestOK, View
    <3> QED
      BY <3>1, <3>2, <3>3, StoredRequestsOK DEF applyStyles, updatePagination
  <2>4. \/ views' = views
        \/ setStyles
        \/ \E synthetic \in BOOLEAN : updateSettings(synthetic) /\ currentView # 0
    BY <1>5 DEF LayoutCalls, updateSettings, resizeWindow
  <2> QED
    BY <2>1, <2>2, <2>3, <2>4 DEF RequestsOK
<1> QED
  BY <1>3, <1>4, <1>5

-----------------------------------------------------------------------------
(* The spreads of a view that waits for nothing are those its columns make, *)
(* whatever the size, unless a measurement is due.                          *)

SpreadsOK(v, w, i, q) ==
    ~w.isWaitingFrameRender => Has(q, Timer("measure", v)) \/ Counted(i)

SpreadsCounted ==
    currentView # 0 => SpreadsOK(currentView, views[currentView], paginationInfo, timers)

LEMMA OpenPageCounts ==
    ASSUME NEW v, NEW i \in PaginationInfos, NEW w \in View, NEW req \in Requests,
           openPage(v, i, w, req), Counted(i),
           ~w.isWaitingFrameRender => req.spineItem = w.currentSpineItem
    PROVE  Counted(paginationInfo')
<1> DEFINE page == TargetPage(i, req)
<1>1. paginationInfo' = i \/ (IsPage(i, page) /\ paginationInfo' = AtPage(i, page))
  <2>1. CASE w.isWaitingFrameRender
    BY <2>1 DEF openPage, Store
  <2>2. CASE ~w.isWaitingFrameRender
    BY <2>2 DEF openPage, Store
  <2> QED
    BY <2>1, <2>2
<1>2. CASE IsPage(i, page) /\ paginationInfo' = AtPage(i, page)
  <2>1. page \in Nat /\ i.visibleColumnCount \in {1, 2} /\ i.columnCount \in Nat
        /\ page < i.columnCount
    BY <1>2, ReflowableViewAssumption DEF IsPage, TargetPage, PaginationInfos, Requests
  <2>2. PICK k \in Nat : k = page \div i.visibleColumnCount
    BY <2>1, SpreadArithmetic
  <2>3. paginationInfo' = [i EXCEPT !.currentSpreadIndex = k]
    BY <1>2, <2>2 DEF AtPage
  <2>4. k \in -1 .. CeilDiv(i.columnCount, i.visibleColumnCount) - 1
    BY <2>1, <2>2, SpreadOfPage
  <2> QED
    BY <2>3, <2>4 DEF Counted, PaginationInfos
<1> QED
  BY <1>1, <1>2

(* ... and a request opened in the current view keeps that.                 *)
LEMMA OpenPageSpreadsOK ==
    ASSUME NEW v \in Views, views \in [Views -> View], NEW i \in PaginationInfos,
           NEW w \in View, NEW req \in Requests, openPage(v, i, w, req),
           NEW q, SpreadsOK(v, w, i, q)
    PROVE  SpreadsOK(v, views'[v], paginationInfo', q)
<1>1. CASE w.isWaitingFrameRender \/ req.spineItem # w.currentSpineItem
  <2>1. views'[v].isWaitingFrameRender
    BY <1>1 DEF openPage, loadSpineItem, Store, View
  <2> QED
    BY <2>1 DEF SpreadsOK
<1>2. CASE ~w.isWaitingFrameRender /\ req.spineItem = w.currentSpineItem
  BY <1>2, OpenPageCounts DEF SpreadsOK
<1> QED
  BY <1>1, <1>2

LEMMA MeasuredCounts ==
    ASSUME IInv, NEW v \in Views, NEW c \in MeasuredColumns(v)
    PROVE  Counted(Measured(c))
<1>1. PICK n \in {1, 2} : n = paginationInfo.visibleColumnCount
  BY DEF IInv, TypeOK, PaginationInfos
<1>2. paginationInfo \in PaginationInfos /\ Measured(c) \in PaginationInfos
  BY MeasuredTypes DEF IInv, TypeOK
<1>3. /\ Measured(c).columnCount = c
      /\ Measured(c).visibleColumnCount = n
      /\ Measured(c).spreadCount = CeilDiv(c, n)
  BY <1>1, <1>2 DEF Measured, PaginationInfos
<1>4. PICK spreads \in Nat : spreads = CeilDiv(c, n)
  BY <1>2, <1>3, SpreadArithmetic DEF PaginationInfos
<1>5. PICK index \in Nat \cup {-1} : index = paginationInfo.currentSpreadIndex
  BY <1>2 DEF PaginationInfos
<1>6. Measured(c).currentSpreadIndex = IF index >= spreads THEN spreads - 1 ELSE index
  BY <1>1, <1>2, <1>4, <1>5 DEF Measured, PaginationInfos
<1> QED
  BY <1>3, <1>4, <1>5, <1>6 DEF Counted

LEMMA MeasureTimerCounts ==
    ASSUME IInv, RequestsOK, NEW u \in Views, MeasureTimer(u)
    PROVE  Counted(paginationInfo')
<1> DEFINE w  == LaidOutView(views[u])
           w1 == [w EXCEPT !.deferredPageRequest = NoRequest]
<1>1. PICK c \in MeasuredColumns(u) : LaysOut(u, c) \/ CutsShort(u, c)
  BY HowMeasured
<1>2. Measured(c) \in PaginationInfos /\ Counted(Measured(c))
  BY MeasuredTypes, MeasuredCounts
<1>3. /\ w \in View /\ w1 \in View
      /\ w.deferredPageRequest \in Requests \cup {NoRequest}
      /\ RequestOK(w)
      /\ w1.isWaitingFrameRender = w.isWaitingFrameRender
      /\ w1.currentSpineItem = w.currentSpineItem
  BY OfView DEF LaidOutView, View, RequestsOK, RequestOK
<1>4. CASE CutsShort(u, c)
  BY <1>2, <1>4 DEF CutsShort, Store
<1>5. CASE LaysOut(u, c) /\ w.deferredPageRequest = NoRequest
  BY <1>2, <1>5 DEF LaysOut, openDeferredElement, Store
<1>6. CASE LaysOut(u, c) /\ w.deferredPageRequest # NoRequest
  <2>1. openPage(u, Measured(c), w1, w.deferredPageRequest)
    BY <1>6 DEF LaysOut, openDeferredElement
  <2>2. ~w1.isWaitingFrameRender => w.deferredPageRequest.spineItem = w1.currentSpineItem
    BY <1>3, <1>6 DEF RequestOK
  <2> HIDE DEF w, w1
  <2> QED
    BY <1>2, <1>3, <1>6, <2>1, <2>2, OpenPageCounts
<1> QED
  BY <1>1, <1>4, <1>5, <1>6

LEMMA BrowserCounts ==
    ASSUME IInv, RequestsOK, SpreadsCounted, Browser
    PROVE  SpreadsCounted'
<1> DEFINE v == currentView
<1>1. v' = v
  BY DEF Browser, TimerFires, FrameEvent, MeasureTimer, ShowTimer, ResizeTimer, Fires,
         CommitNavigation, onIFrameLoad
<1>2. CASE v = 0
  BY <1>1, <1>2 DEF SpreadsCounted
<1>3. CASE v # 0
  <2>1. /\ v \in Views /\ views \in [Views -> View] /\ views[v] \in View
        /\ timers \in Seq(Timers) /\ ViewOK(v, views[v], timers)
        /\ paginationInfo \in PaginationInfos
    BY <1>3, OfCurrentView
  <2>2. SpreadsOK(v, views[v], paginationInfo, timers)
    BY <1>3 DEF SpreadsCounted
  <2>3. ASSUME NEW u \in Views, MeasureTimer(u) PROVE SpreadsCounted'
    BY <2>3, MeasureTimerCounts DEF SpreadsCounted, SpreadsOK
  <2>4. ASSUME NEW k \in {"show", "resize"}, NEW u \in Views, timers # <<>>,
               Head(timers) = Timer(k, u), Has(timers, Timer("measure", v))
        PROVE  Tail(timers) \in Seq(Timers) /\ Has(Tail(timers), Timer("measure", v))
    <3>1. Timer("measure", v) # Timer(k, u)
      BY <2>4 DEF Timer
    <3> QED
      BY <2>1, <2>4, <3>1, TailKeeps
  <2>5. ASSUME NEW u \in Views, ShowTimer(u) PROVE SpreadsCounted'
    <3>1. /\ paginationInfo' = paginationInfo
          /\ views'[v].isWaitingFrameRender = views[v].isWaitingFrameRender
      BY <2>1, <2>5 DEF ShowTimer, Store, Redrawn, View
    <3>2. Has(timers, Timer("measure", v)) => Has(timers', Timer("measure", v))
      BY <2>4, <2>5 DEF ShowTimer, Fires
    <3> QED
      BY <1>1, <2>2, <3>1, <3>2 DEF SpreadsCounted, SpreadsOK
  <2>6. ASSUME NEW u \in Views, ResizeTimer(u) PROVE SpreadsCounted'
    <3>1. \/ UNCHANGED <<paginationInfo, views>>
          \/ Store(u, Columnized(paginationInfo, views[u], lastViewPortSize'),
                   ShiftedOffScreen(views[u]))
      BY <2>6 DEF ResizeTimer
    <3>2. views'[v].isWaitingFrameRender = views[v].isWaitingFrameRender
      BY <2>1, <3>1 DEF Store, ShiftedOffScreen, View
    <3>3. \/ paginationInfo' = paginationInfo
          \/ \E s : paginationInfo' = [paginationInfo EXCEPT !.columnSize = s]
      BY <3>1 DEF Store, Columnized
    <3>4. Counted(paginationInfo) => Counted(paginationInfo')
      BY <2>1, <3>3 DEF Counted, PaginationInfos
    <3>5. Has(timers, Timer("measure", v)) => Has(timers', Timer("measure", v))
      <4>1. \/ timers' = Tail(timers)
            \/ timers' = Append(Tail(timers), Timer("measure", u))
        BY <2>6 DEF ResizeTimer
      <4>2. Timer("measure", u) \in Timers
        BY <2>6 DEF Timer, Timers
      <4> QED
        BY <2>4, <2>6, <4>1, <4>2, AppendKeeps DEF ResizeTimer, Fires
    <3> QED
      BY <1>1, <2>2, <3>2, <3>4, <3>5 DEF SpreadsCounted, SpreadsOK
  <2>7. ASSUME NEW u \in Views, CommitNavigation(u) PROVE SpreadsCounted'
    <3>1. UNCHANGED <<paginationInfo, timers>> /\ u = v
      BY <2>7 DEF CommitNavigation, Store
    <3>2. views'[v].isWaitingFrameRender = views[v].isWaitingFrameRender
      BY <2>1, <2>7, <3>1 DEF CommitNavigation, Store, Committed, View
    <3> QED
      BY <1>1, <2>2, <3>1, <3>2 DEF SpreadsCounted, SpreadsOK
  <2>8. ASSUME NEW u \in Views, onIFrameLoad(u) PROVE SpreadsCounted'
    <3> DEFINE w  == FrameRendered(views[u])
               w1 == [w EXCEPT !.html = "attached", !.hidden = FALSE]
    <3>1. w \in View /\ u = v
      BY <2>1, <2>8 DEF onIFrameLoad, FrameRendered, View, Navigation
    <3>2. CASE NewRequestCame(w)
      <4>1. loadSpineItem(u, paginationInfo, w, w.deferredPageRequest.spineItem)
        BY <2>8, <3>2 DEF onIFrameLoad
      <4>2. w.deferredPageRequest.spineItem # w.currentSpineItem
        BY <3>2 DEF NewRequestCame
      <4> HIDE DEF w
      <4>3. views'[v].isWaitingFrameRender
        BY <2>1, <3>1, <4>1, <4>2 DEF loadSpineItem, Store, View
      <4> QED
        BY <1>1, <4>3 DEF SpreadsCounted, SpreadsOK
    <3>3. CASE ~NewRequestCame(w)
      <4>1. applyStyles(u, w1) /\ w1.html # "undefined"
        BY <2>8, <3>1, <3>3 DEF onIFrameLoad, View
      <4> HIDE DEF w1
      <4>2. timers' = Append(timers, Timer("measure", v))
        BY <3>1, <4>1 DEF applyStyles, updatePagination, StartMeasure
      <4> QED
        BY <1>1, <2>1, <4>2, LastWhenAppended DEF SpreadsCounted, SpreadsOK
    <3> QED
      BY <3>2, <3>3
  <2> QED
    BY <2>3, <2>5, <2>6, <2>7, <2>8 DEF Browser, TimerFires, FrameEvent
<1> QED
  BY <1>2, <1>3

LEMMA NewViewWaits ==
    ASSUME IInv, NEW req \in Requests, NEW synthetic \in BOOLEAN,
           openInNewView(req, synthetic)
    PROVE  /\ currentView' \in Views
           /\ views'[currentView'].isWaitingFrameRender
           /\ views'[currentView'].deferredPageRequest = req
<1> DEFINE v == viewCount + 1
           i == [paginationInfo EXCEPT !.visibleColumnCount = visibleColumns(synthetic)]
<1>1. v \in Views /\ currentView' = v /\ openPage(v, i, NewView, req)
  BY DEF openInNewView
<1>2. i \in PaginationInfos /\ NewView \in View /\ views \in [Views -> View]
  BY DEF IInv, TypeOK, PaginationInfos, visibleColumns, View, NewView, HtmlStates, Navigation
<1> HIDE DEF v, i
<1>3. PICK i2 \in PaginationInfos, w2 \in View : Store(v, i2, w2) /\ Opened(NewView, w2, req)
  BY <1>1, <1>2, OpenPageEffect
<1>4. w2.isWaitingFrameRender /\ w2.deferredPageRequest = req
  <2>1. req.spineItem # NoItem
    BY RequestIsOne, SpineAssumption DEF NoItem, Items
  <2>2. w2 = [NewView EXCEPT !.deferredPageRequest = req, !.currentSpineItem = req.spineItem,
                             !.isWaitingFrameRender = TRUE, !.navigation = "requested"]
    BY <1>3, <2>1 DEF Opened, NewView
  <2> QED
    BY <2>2 DEF NewView
<1>5. views'[v] = w2
  BY <1>1, <1>2, <1>3 DEF Store
<1> QED
  BY <1>1, <1>4, <1>5

LEMMA CurrentOpenPageCounts ==
    ASSUME IInv, SpreadsCounted, currentView # 0, NEW req \in Requests,
           openPage(currentView, paginationInfo, views[currentView], req),
           UNCHANGED <<currentView, timers>>
    PROVE  SpreadsCounted'
<1>1. SpreadsOK(currentView, views'[currentView], paginationInfo', timers)
  BY OfCurrentView, OpenPageSpreadsOK DEF SpreadsCounted
<1> QED
  BY <1>1 DEF SpreadsCounted

LEMMA readerOpenPageCounts ==
    ASSUME IInv, SpreadsCounted, NEW req \in Requests, readerOpenPage(req)
    PROVE  SpreadsCounted'
<1>1. CASE currentView = 0
  BY <1>1, BooleanTypes, NewViewWaits DEF readerOpenPage, SpreadsCounted, SpreadsOK
<1>2. CASE currentView # 0
  BY <1>2, CurrentOpenPageCounts DEF readerOpenPage
<1> QED
  BY <1>1, <1>2

LEMMA PageTurnCounts ==
    ASSUME IInv, SpreadsCounted, currentView # 0, readerOpenPageNext \/ readerOpenPagePrev
    PROVE  SpreadsCounted'
<1> DEFINE v == currentView
<1>1. PICK item : item = views[v].currentSpineItem
  OBVIOUS
<1>2. /\ nextItem(item) # NoItem => FirstPage(nextItem(item)) \in Requests
      /\ prevItem(item) # NoItem => LastPage(prevItem(item)) \in Requests
  BY <1>1, NeighbourRequests
<1>3. /\ v \in Views /\ views \in [Views -> View] /\ views[v] \in View
      /\ paginationInfo \in PaginationInfos
  BY OfCurrentView
<1>4. PICK index \in Nat \cup {-1} : index = paginationInfo.currentSpreadIndex
  BY <1>3 DEF PaginationInfos
<1>5. PICK spreads \in Nat : spreads = paginationInfo.spreadCount
  BY <1>3 DEF PaginationInfos
<1>6. ASSUME NEW k \in Nat, k < spreads \/ k < index, turnTo(v, k),
             UNCHANGED <<currentView, timers>>
      PROVE  SpreadsCounted'
  <2> DEFINE i == [paginationInfo EXCEPT !.currentSpreadIndex = k]
  <2>1. /\ paginationInfo' = i
        /\ views'[v].isWaitingFrameRender = views[v].isWaitingFrameRender
    BY <1>3, <1>6 DEF turnTo, Store, Redrawn, View
  <2>2. Counted(paginationInfo) => Counted(i)
    BY <1>3, <1>4, <1>5, <1>6 DEF Counted, PaginationInfos
  <2> QED
    BY <1>6, <2>1, <2>2 DEF SpreadsCounted, SpreadsOK
<1>7. \/ /\ UNCHANGED <<currentView, timers>>
         /\ \/ index < spreads - 1 /\ turnTo(v, index + 1)
            \/ index > 0 /\ turnTo(v, index - 1)
            \/ \E req \in Requests : openPage(v, paginationInfo, views[v], req)
      \/ \E req \in Requests : readerOpenPage(req)
  BY <1>1, <1>2, <1>4, <1>5
     DEF readerOpenPageNext, readerOpenPagePrev, openPageNext, openPagePrev
<1>8. CASE UNCHANGED <<currentView, timers>> /\ index < spreads - 1 /\ turnTo(v, index + 1)
  <2>1. index + 1 \in Nat /\ index + 1 < spreads
    BY <1>8
  <2> QED
    BY <1>6, <1>8, <2>1
<1>9. CASE UNCHANGED <<currentView, timers>> /\ index > 0 /\ turnTo(v, index - 1)
  <2>1. index - 1 \in Nat /\ index - 1 < index
    BY <1>9
  <2> QED
    BY <1>6, <1>9, <2>1
<1> QED
  BY <1>7, <1>8, <1>9, CurrentOpenPageCounts, readerOpenPageCounts

LEMMA CallsCount ==
    ASSUME IInv, SpreadsCounted, BookCalls \/ PageCalls \/ LayoutCalls
    PROVE  SpreadsCounted'
<1>1. Throws => SpreadsCounted'
  BY DEF Throws, SpreadsCounted
<1>2. CASE BookCalls
  <2>1. \/ currentView' = 0
        \/ \E synthetic \in BOOLEAN, req \in BookRequests : openInNewView(req, synthetic)
    BY <1>2 DEF BookCalls, openBook, openBookAtUnknownItem
  <2> QED
    BY <2>1, CallersRequests, NewViewWaits DEF SpreadsCounted, SpreadsOK
<1>3. CASE PageCalls
  <2>1. \/ Throws
        \/ currentView # 0 /\ (readerOpenPageNext \/ readerOpenPagePrev)
        \/ \E req \in Requests : readerOpenPage(req)
    BY <1>3, CallersRequests
       DEF PageCalls, openPageLeft, openPageRight, openSpineItemPage, openElement, openPageIndex
  <2> QED
    BY <1>1, <2>1, PageTurnCounts, readerOpenPageCounts
<1>4. CASE LayoutCalls /\ currentView = 0
  <2>1. currentView' = 0
    BY <1>4 DEF LayoutCalls, updateSettings, setStyles, resizeWindow
  <2> QED
    BY <2>1 DEF SpreadsCounted
<1>5. CASE LayoutCalls /\ currentView # 0
  <2> DEFINE v == currentView
  <2>1. /\ v \in Views /\ views \in [Views -> View] /\ views[v] \in View
        /\ timers \in Seq(Timers) /\ ViewOK(v, views[v], timers)
        /\ paginationInfo \in PaginationInfos
        /\ lastViewPortSize \in Sizes \cup {0}
    BY <1>5, OfCurrentView
  <2>2. v' = v
    BY <1>5 DEF LayoutCalls, updateSettings, setStyles, resizeWindow
  <2>3. ASSUME StartMeasure(v, views[v]), views'[v].isWaitingFrameRender
                                            \/ ~views[v].isWaitingFrameRender
        PROVE  SpreadsCounted'
    <3>1. ~views[v].isWaitingFrameRender => views[v].html # "undefined"
      BY <2>1 DEF ViewOK
    <3>2. ~views'[v].isWaitingFrameRender => Has(timers', Timer("measure", v))
      BY <2>1, <2>3, <3>1, LastWhenAppended DEF StartMeasure
    <3> QED
      BY <2>2, <3>2 DEF SpreadsCounted, SpreadsOK
  <2>4. CASE setStyles
    <3>1. /\ StartMeasure(v, views[v])
          /\ views' = [views EXCEPT ![v] = ShiftedOffScreen(views[v])]
      BY <2>4 DEF setStyles, applyStyles, updatePagination, Store
    <3>2. views'[v].isWaitingFrameRender = views[v].isWaitingFrameRender
      BY <2>1, <3>1 DEF ShiftedOffScreen, View
    <3> QED
      BY <2>1, <2>3, <3>1, <3>2 DEF View
  <2>5. ASSUME NEW synthetic \in BOOLEAN, updateSettings(synthetic) PROVE SpreadsCounted'
    <3> DEFINE w == ShiftedOffScreen(views[v])
    <3>1. /\ StartMeasure(v, views[v])
          /\ \E i, req : openPage(v, i, w, req)
      BY <1>5, <2>5 DEF updateSettings
    <3>2. w \in View /\ w.isWaitingFrameRender = views[v].isWaitingFrameRender
      BY <2>1 DEF ShiftedOffScreen, View, OffScreen
    <3> HIDE DEF w
    <3>3. w.isWaitingFrameRender => views'[v].isWaitingFrameRender
      BY <2>1, <3>1, <3>2 DEF openPage, Store, View
    <3> QED
      BY <2>1, <2>3, <3>1, <3>2, <3>3 DEF View
  <2>6. ASSUME NEW size \in Sizes, resizeWindow(size) PROVE SpreadsCounted'
    <3>1. Timer("resize", v) \in Timers /\ timers' \in Restarted(timers, Timer("resize", v))
      BY <1>5, <2>1, <2>6 DEF resizeWindow, Timer, Timers
    <3>2. UNCHANGED <<views, paginationInfo>>
      BY <2>6 DEF resizeWindow
    <3>3. Has(timers, Timer("measure", v)) => Has(timers', Timer("measure", v))
      BY <2>1, <3>1, RestartedKeeps
    <3> QED
      BY <1>5, <2>2, <3>2, <3>3 DEF SpreadsCounted, SpreadsOK
  <2> QED
    BY <1>5, <2>4, <2>5, <2>6 DEF LayoutCalls
<1> QED
  BY <1>2, <1>3, <1>4, <1>5

(* What the reader keeps besides.                                           *)
Kept == RestsCoherent /\ RequestsOK /\ SpreadsCounted

LEMMA AlwaysKept == Spec => []Kept
<1>1. Init => Kept
  <2>1. NewView.isWaitingFrameRender = FALSE /\ NewView.deferredPageRequest = NoRequest
    BY DEF NewView
  <2> QED
    BY <2>1 DEF Init, Kept, RestsCoherent, RequestsOK, RequestOK, SpreadsCounted
<1>2. IInv /\ Kept /\ [Next]_vars => Kept'
  <2> SUFFICES ASSUME IInv, Kept, [Next]_vars PROVE Kept'
    OBVIOUS
  <2>1. RestsCoherent /\ RequestsOK /\ SpreadsCounted
    BY DEF Kept
  <2>2. RestsCoherent'
    BY <2>1, CoherenceIsKept
  <2>3. CASE BookCalls \/ PageCalls \/ LayoutCalls
    BY <2>1, <2>2, <2>3, CallsRequestsOK, CallsCount DEF Kept
  <2>4. CASE Browser
    BY <2>1, <2>2, <2>4, BrowserRequestsOK, BrowserCounts DEF Kept
  <2>5. CASE UNCHANGED vars
    BY <2>1, <2>2, <2>5 DEF Kept, RequestsOK, SpreadsCounted, vars, viewVars, readerVars
  <2> QED
    BY <2>3, <2>4, <2>5 DEF Next
<1> QED
  BY <1>1, <1>2, Invariance, PTL DEF Spec

-----------------------------------------------------------------------------
(* That the last request is honoured.  A measurement for another view is    *)
(* blind, and leaves no spread (index -1); while one is pending the spread  *)
(* is doomed.  A resize timer of view v is overtaken if such a measurement  *)
(* follows it.                                                              *)

Other(v, t)     == t.kind = "measure" /\ t # Timer("measure", v)
Doomed(v, q)    == \E n \in 1 .. Len(q) : Other(v, q[n])
Overtaken(v, q) == \A n \in 1 .. Len(q) :
                      q[n] = Timer("resize", v) => \E m \in n .. Len(q) : Other(v, q[m])

(* The viewport has a size, or is about to be measured.                     *)
Live(v, size, q) == size # 0 \/ Has(q, Timer("resize", v))

(* The page a request asks for in an item of c columns.                     *)
TargetIn(c, req) == CASE req.target = "page" -> req.page
                      [] req.target = "last" -> c - 1
                      [] req.target \in {"none", "throws"} -> -1

Placed(w, i, req) ==
    /\ i.currentSpreadIndex \in 0 .. CeilDiv(ColumnsAt(w, i), i.visibleColumnCount) - 1
    /\ TargetIn(ColumnsAt(w, i), req) \in 0 .. ColumnsAt(w, i) - 1 =>
          TargetIn(ColumnsAt(w, i), req) \div i.visibleColumnCount = i.currentSpreadIndex

Reached(v, w, i, q, req) == i.currentSpreadIndex = -1 \/ Doomed(v, q) \/ Placed(w, i, req)

Sized(v, i, window, q) == i.columnSize \in {0, window} /\ (i.columnSize = 0 => Overtaken(v, q))

Honours(v, w, i, size, window, q, req) ==
    /\ w.deferredPageRequest # NoRequest => w.deferredPageRequest = req
    /\ w.deferredPageRequest = NoRequest => w.currentSpineItem = req.spineItem
    /\ ~w.isWaitingFrameRender /\ Live(v, size, q) =>
        /\ Sized(v, i, window, q)
        /\ i.columnSize # 0 /\ w.deferredPageRequest = NoRequest => Reached(v, w, i, q, req)

LastHonoured ==
    currentView # 0 /\ asked # NoRequest =>
        Honours(currentView, views[currentView], paginationInfo, lastViewPortSize,
                windowSize, timers, asked)

-----------------------------------------------------------------------------
(* What the operations on the queue do to that.                             *)

LEMMA OtherInTail ==
    ASSUME NEW q \in Seq(Timers), q # <<>>, NEW v \in Views
    PROVE  /\ Overtaken(v, q) => Overtaken(v, Tail(q))
           /\ Doomed(v, q) /\ ~Other(v, Head(q)) => Doomed(v, Tail(q))
           /\ Overtaken(v, q) /\ Head(q) = Timer("resize", v) => Doomed(v, Tail(q))
           /\ \A t : Has(Tail(q), t) => Has(q, t)
           /\ Has(q, Head(q))
<1> DEFINE r == Tail(q)
<1>1. /\ Len(q) \in Nat /\ Len(q) > 0 /\ Len(r) = Len(q) - 1 /\ Head(q) = q[1]
      /\ \A n \in 1 .. Len(r) : r[n] = q[n + 1]
  BY EmptySeq, LenProperties, HeadTailProperties
<1> HIDE DEF r
<1>2. ASSUME Overtaken(v, q), NEW n \in 1 .. Len(r), r[n] = Timer("resize", v)
      PROVE  \E m \in n .. Len(r) : Other(v, r[m])
  <2>1. n + 1 \in 1 .. Len(q) /\ q[n + 1] = Timer("resize", v)
    BY <1>1, <1>2
  <2>2. PICK m \in n + 1 .. Len(q) : Other(v, q[m])
    BY <1>2, <2>1 DEF Overtaken
  <2>3. m - 1 \in n .. Len(r) /\ r[m - 1] = q[m]
    BY <1>1, <1>2, <2>2
  <2> QED
    BY <2>2, <2>3
<1>3. ASSUME NEW n \in 1 .. Len(q), n # 1, Other(v, q[n]) PROVE Doomed(v, r)
  <2>1. n - 1 \in 1 .. Len(r) /\ r[n - 1] = q[n]
    BY <1>1, <1>3
  <2> QED
    BY <1>3, <2>1 DEF Doomed
<1>4. Doomed(v, q) /\ ~Other(v, Head(q)) => Doomed(v, r)
  BY <1>1, <1>3 DEF Doomed
<1>5. Overtaken(v, q) /\ Head(q) = Timer("resize", v) => Doomed(v, r)
  <2>1. ~Other(v, Timer("resize", v))
    BY DEF Other, Timer
  <2>2. 1 \in 1 .. Len(q)
    BY <1>1
  <2>3. Overtaken(v, q) /\ Head(q) = Timer("resize", v) => \E n \in 1 .. Len(q) : Other(v, q[n])
    BY <1>1, <2>2 DEF Overtaken
  <2> QED
    BY <1>1, <1>3, <2>1, <2>3
<1>6. ASSUME NEW t, Has(r, t) PROVE Has(q, t)
  <2>1. PICK n \in 1 .. Len(r) : r[n] = t
    BY <1>6 DEF Has
  <2>2. n + 1 \in 1 .. Len(q) /\ q[n + 1] = t
    BY <1>1, <2>1
  <2> QED
    BY <2>2 DEF Has
<1>7. Has(q, Head(q))
  BY <1>1 DEF Has
<1> QED
  BY <1>2, <1>4, <1>5, <1>6, <1>7 DEF Overtaken, r

LEMMA OtherWithShow ==
    ASSUME NEW q \in Seq(Timers), NEW v \in Views, NEW u \in Views, NEW r \in WithShow(q, u)
    PROVE  /\ Overtaken(v, q) => Overtaken(v, r)
           /\ Doomed(v, q) => Doomed(v, r)
           /\ \A t : t # Timer("show", u) /\ Has(r, t) => Has(q, t)
<1>1. PICK k \in 1 .. Len(q) + 1 : r = InsertAt(q, k, Timer("show", u))
  BY DEF WithShow
<1>2. Timer("show", u) \in Timers /\ Len(q) \in Nat
  BY LenProperties DEF Timer, Timers
<1>3. /\ Len(r) = Len(q) + 1 /\ r[k] = Timer("show", u)
      /\ \A n \in 1 .. k - 1 : r[n] = q[n]
      /\ \A n \in k .. Len(q) : r[n + 1] = q[n]
  BY <1>1, <1>2, InsertAtFacts
<1>4. ASSUME NEW n \in 1 .. Len(q)
      PROVE  \E m \in 1 .. Len(r) : r[m] = q[n] /\ m = (IF n < k THEN n ELSE n + 1)
  <2>1. CASE n < k
    BY <1>2, <1>3, <2>1
  <2>2. CASE n >= k
    <3>1. n + 1 \in 1 .. Len(r) /\ r[n + 1] = q[n]
      BY <1>2, <1>3, <2>2
    <3> QED
      BY <2>2, <3>1
  <2> QED
    BY <1>2, <2>1, <2>2
<1>5. ASSUME NEW m \in 1 .. Len(r), m # k
      PROVE  \E n \in 1 .. Len(q) : r[m] = q[n] /\ m = (IF n < k THEN n ELSE n + 1)
  <2>1. CASE m < k
    BY <1>2, <1>3, <2>1
  <2>2. CASE m > k
    <3>1. m - 1 \in k .. Len(q) /\ r[(m - 1) + 1] = q[m - 1]
      BY <1>2, <1>3, <2>2
    <3> QED
      BY <1>2, <2>2, <3>1
  <2> QED
    BY <1>2, <1>5, <2>1, <2>2
<1>6. Doomed(v, q) => Doomed(v, r)
  BY <1>4 DEF Doomed
<1>7. ASSUME Overtaken(v, q), NEW m \in 1 .. Len(r), r[m] = Timer("resize", v)
      PROVE  \E p \in m .. Len(r) : Other(v, r[p])
  <2>1. m # k
    BY <1>3, <1>7 DEF Timer
  <2>2. PICK n \in 1 .. Len(q) : r[m] = q[n] /\ m = (IF n < k THEN n ELSE n + 1)
    BY <1>5, <2>1
  <2>3. PICK o \in n .. Len(q) : Other(v, q[o])
    BY <1>7, <2>2 DEF Overtaken
  <2>4. PICK p \in 1 .. Len(r) : r[p] = q[o] /\ p = (IF o < k THEN o ELSE o + 1)
    BY <1>2, <1>4, <2>3
  <2>5. p \in m .. Len(r)
    BY <1>2, <2>2, <2>3, <2>4
  <2> QED
    BY <2>3, <2>4, <2>5
<1>8. ASSUME NEW t, t # Timer("show", u), Has(r, t) PROVE Has(q, t)
  BY <1>3, <1>5, <1>8 DEF Has
<1> QED
  BY <1>6, <1>7, <1>8 DEF Overtaken

LEMMA OtherAppended ==
    ASSUME NEW q \in Seq(Timers), NEW v \in Views, NEW u \in Views
    PROVE  /\ Doomed(v, q) => Doomed(v, Append(q, Timer("measure", u)))
           /\ u # v => Overtaken(v, Append(q, Timer("measure", u)))
           /\ \A t : t # Timer("measure", u) /\ Has(Append(q, Timer("measure", u)), t)
                        => Has(q, t)
<1> DEFINE r == Append(q, Timer("measure", u))
<1>1. /\ Len(q) \in Nat /\ Len(r) = Len(q) + 1 /\ r[Len(q) + 1] = Timer("measure", u)
      /\ \A n \in 1 .. Len(q) : r[n] = q[n]
  BY AppendProperties, LenProperties DEF Timer, Timers
<1> HIDE DEF r
<1>2. Doomed(v, q) => Doomed(v, r)
  BY <1>1 DEF Doomed
<1>3. u # v => Overtaken(v, r)
  <2>1. u # v => Other(v, Timer("measure", u))
    BY DEF Other, Timer
  <2> QED
    BY <1>1, <2>1 DEF Overtaken
<1>4. ASSUME NEW t, t # Timer("measure", u), Has(r, t) PROVE Has(q, t)
  BY <1>1, <1>4 DEF Has
<1> QED
  BY <1>2, <1>3, <1>4 DEF r

-----------------------------------------------------------------------------
(* A request opened in a view that is ready for it is honoured there: the    *)
(* view waits for its frame, or is laid out or about to be.                  *)
LEMMA OpenPageHonours ==
    ASSUME NEW v \in Views, views \in [Views -> View],
           NEW i \in PaginationInfos, NEW w \in View, NEW req \in Requests,
           openPage(v, i, w, req),
           NEW size, NEW window, NEW q,
           ~w.isWaitingFrameRender => w.deferredPageRequest = NoRequest,
           ~w.isWaitingFrameRender /\ Live(v, size, q) =>
               Sized(v, i, window, q) /\ (i.columnSize # 0 => Laid(w, i))
    PROVE  Honours(v, views'[v], paginationInfo', size, window, q, req)
<1> DEFINE page == TargetPage(i, req)
           i2   == AtPage(i, page)
           w2   == Redrawn(i2, w)
<1>1. req # NoRequest
  BY RequestIsOne
<1>2. CASE w.isWaitingFrameRender
  <2>1. views'[v] = [w EXCEPT !.deferredPageRequest = req]
    BY <1>2 DEF openPage, Store
  <2>2. views'[v].isWaitingFrameRender /\ views'[v].deferredPageRequest = req
    BY <1>2, <2>1 DEF View
  <2> QED
    BY <1>1, <2>2 DEF Honours
<1>3. CASE ~w.isWaitingFrameRender /\ req.spineItem # w.currentSpineItem
  <2>1. views'[v].isWaitingFrameRender /\ views'[v].deferredPageRequest = req
    BY <1>3 DEF openPage, loadSpineItem, Store, View
  <2> QED
    BY <1>1, <2>1 DEF Honours
<1>4. CASE ~w.isWaitingFrameRender /\ req.spineItem = w.currentSpineItem /\ ~IsPage(i, page)
  <2>1. paginationInfo' = i /\ views'[v] = w
    BY <1>4 DEF openPage, Store
  <2>2. PICK n \in {1, 2} : n = i.visibleColumnCount
    BY DEF PaginationInfos
  <2>3. PICK c \in Nat : c = i.columnCount
    BY DEF PaginationInfos
  <2>4. PICK index \in Nat \cup {-1} : index = i.currentSpreadIndex
    BY DEF PaginationInfos
  <2>5. ASSUME Laid(w, i) PROVE Reached(v, w, i, q, req)
    <3>1. c \in {0, ColumnsAt(w, i)} /\ index \in -1 .. CeilDiv(c, n) - 1
      BY <2>2, <2>3, <2>4, <2>5 DEF Laid, Counted
    <3>2. CASE c = 0
      <4>1. CeilDiv(c, n) = 0
        BY <2>2, <3>2 DEF CeilDiv
      <4> QED
        BY <2>4, <3>1, <4>1 DEF Reached
    <3>3. CASE c = ColumnsAt(w, i)
      <4>1. CeilDiv(c, n) \in Nat
        BY SpreadArithmetic
      <4>2. ~(page \in 0 .. c - 1)
        BY <1>4, <2>3 DEF IsPage
      <4>3. TargetIn(c, req) = page
        BY <2>3 DEF TargetIn, TargetPage
      <4>4. index = -1 \/ index \in 0 .. CeilDiv(c, n) - 1
        BY <3>1, <4>1
      <4> QED
        BY <2>2, <2>3, <2>4, <3>3, <4>2, <4>3, <4>4 DEF Reached, Placed
    <3> QED
      BY <3>1, <3>2, <3>3
  <2> QED
    BY <1>4, <2>1, <2>5 DEF Honours
<1>5. CASE ~w.isWaitingFrameRender /\ req.spineItem = w.currentSpineItem /\ IsPage(i, page)
  <2>1. paginationInfo' = i2 /\ views'[v] = w2
    BY <1>5 DEF openPage, Store
  <2>2. page \in Nat /\ i.visibleColumnCount \in {1, 2} /\ i.columnCount \in Nat
        /\ page < i.columnCount
    BY <1>5, ReflowableViewAssumption DEF IsPage, TargetPage, PaginationInfos, Requests
  <2>3. PICK k \in Nat : k = page \div i.visibleColumnCount
    BY <2>2, SpreadArithmetic
  <2>4. i2 = [i EXCEPT !.currentSpreadIndex = k]
    BY <2>3 DEF AtPage
  <2>5. /\ i2.columnSize = i.columnSize /\ i2.visibleColumnCount = i.visibleColumnCount
        /\ i2.currentSpreadIndex = k
    BY <2>4 DEF PaginationInfos
  <2>6. k \in -1 .. CeilDiv(i.columnCount, i.visibleColumnCount) - 1
    BY <2>2, <2>3, SpreadOfPage
  <2>7. /\ w2.deferredPageRequest = NoRequest
        /\ w2.currentSpineItem = req.spineItem
        /\ w2.document = w.document
        /\ w2.isWaitingFrameRender = w.isWaitingFrameRender
    BY <1>5 DEF Redrawn, View
  <2> HIDE DEF i2, w2
  <2>8. ASSUME Laid(w, i) PROVE Placed(w2, i2, req)
    <3>1. ColumnsAt(w2, i2) = ColumnsAt(w, i)
      BY <2>5, <2>7 DEF ColumnsAt
    <3>2. i.columnCount = ColumnsAt(w, i)
      BY <2>2, <2>8 DEF Laid
    <3>3. TargetIn(i.columnCount, req) = page
      BY DEF TargetIn, TargetPage
    <3>4. k \in 0 .. CeilDiv(i.columnCount, i.visibleColumnCount) - 1
      BY <2>2, <2>3, <2>6, SpreadArithmetic
    <3> QED
      BY <2>3, <2>5, <3>1, <3>2, <3>3, <3>4 DEF Placed
  <2> QED
    BY <1>5, <2>1, <2>5, <2>7, <2>8 DEF Honours, Sized, Reached
<1> QED
  BY <1>2, <1>3, <1>4, <1>5 DEF View

(* What a step may change of a view without a request being lost.            *)
LEMMA HonoursKept ==
    ASSUME NEW v, NEW w, NEW i, NEW size, NEW window, NEW q, NEW req,
           Honours(v, w, i, size, window, q, req),
           NEW w2, NEW i2, NEW size2, NEW q2,
           /\ w2.isWaitingFrameRender = w.isWaitingFrameRender
           /\ w2.deferredPageRequest = w.deferredPageRequest
           /\ w2.currentSpineItem = w.currentSpineItem
           /\ w2.document = w.document,
           /\ i2.currentSpreadIndex = i.currentSpreadIndex
           /\ i2.visibleColumnCount = i.visibleColumnCount
           /\ i2.columnSize = i.columnSize,
           ~w.isWaitingFrameRender /\ Live(v, size2, q2) => Live(v, size, q),
           Overtaken(v, q) => Overtaken(v, q2),
           Doomed(v, q) => Doomed(v, q2)
    PROVE  Honours(v, w2, i2, size2, window, q2, req)
<1>1. ColumnsAt(w2, i2) = ColumnsAt(w, i)
  BY DEF ColumnsAt
<1>2. Placed(w, i, req) => Placed(w2, i2, req)
  BY <1>1 DEF Placed
<1>3. Reached(v, w, i, q, req) => Reached(v, w2, i2, q2, req)
  BY <1>2 DEF Reached
<1>4. Sized(v, i, window, q) => Sized(v, i2, window, q2)
  BY DEF Sized
<1> QED
  BY <1>3, <1>4 DEF Honours

-----------------------------------------------------------------------------
(* The timers and the iframe honour the last request.                        *)

(* A measurement for a view that shows nothing leaves no spread, unless the  *)
(* viewport has no size.                                                     *)
LEMMA BlindLeavesNoSpread ==
    ASSUME IInv, RequestsOK, NEW u \in Views, MeasureTimer(u), ~Sighted(u)
    PROVE  /\ paginationInfo'.columnSize = paginationInfo.columnSize
           /\ paginationInfo.columnSize # 0 => paginationInfo'.currentSpreadIndex = -1
<1>1. PICK c \in MeasuredColumns(u) : LaysOut(u, c) \/ CutsShort(u, c)
  BY HowMeasured
<1>2. /\ Measured(c) \in PaginationInfos /\ paginationInfo \in PaginationInfos
      /\ Counted(paginationInfo')
  BY MeasuredTypes, OfView, MeasureTimerCounts
<1>3. /\ Measured(c).columnSize = paginationInfo.columnSize
      /\ Measured(c).columnCount = c
      /\ Measured(c).visibleColumnCount \in {1, 2}
  BY <1>2 DEF Measured, PaginationInfos
<1>4. /\ paginationInfo'.columnSize = paginationInfo.columnSize
      /\ paginationInfo'.columnCount = c
      /\ paginationInfo'.visibleColumnCount \in {1, 2}
  <2>1. CASE LaysOut(u, c)
    BY <1>2, <1>3, <2>1, OpenPageKeepsColumns DEF LaysOut, openDeferredElement, Store
  <2>2. CASE CutsShort(u, c)
    BY <1>3, <2>2 DEF CutsShort, Store
  <2> QED
    BY <1>1, <2>1, <2>2
<1>5. ASSUME paginationInfo.columnSize # 0 PROVE paginationInfo'.currentSpreadIndex = -1
  <2>1. c = 0
    BY <1>5 DEF MeasuredColumns
  <2>2. CeilDiv(c, paginationInfo'.visibleColumnCount) = 0
    BY <1>4, <2>1 DEF CeilDiv
  <2> QED
    BY <1>2, <1>4, <2>1, <2>2 DEF Counted
<1> QED
  BY <1>4, <1>5

LEMMA OtherMeasureHonours ==
    ASSUME IInv, Kept, LastHonoured, currentView # 0, asked # NoRequest,
           NEW u \in Views, u # currentView, MeasureTimer(u)
    PROVE  Honours(currentView, views'[currentView], paginationInfo', lastViewPortSize',
                   windowSize', timers', asked)
<1> DEFINE v == currentView
<1>1. /\ v \in Views /\ views \in [Views -> View] /\ timers \in Seq(Timers)
  BY OfCurrentView
<1>2. Honours(v, views[v], paginationInfo, lastViewPortSize, windowSize, timers, asked)
  BY DEF LastHonoured
<1>3. /\ UNCHANGED <<lastViewPortSize, windowSize>>
      /\ timers # <<>>
      /\ timers' \in WithShow(Tail(timers), u) \/ timers' = Tail(timers)
  BY HowMeasured DEF LaysOut, CutsShort
<1>4. views'[v] = views[v]
  <2>1. PICK c \in MeasuredColumns(u) : LaysOut(u, c) \/ CutsShort(u, c)
    BY HowMeasured
  <2>2. CASE LaysOut(u, c)
    BY <1>1, <2>2, OpenPageElsewhere DEF LaysOut, openDeferredElement, Store
  <2>3. CASE CutsShort(u, c)
    BY <1>1, <2>3 DEF CutsShort, Store
  <2> QED
    BY <2>1, <2>2, <2>3
<1>5. /\ paginationInfo'.columnSize = paginationInfo.columnSize
      /\ paginationInfo.columnSize # 0 => paginationInfo'.currentSpreadIndex = -1
  BY BlindLeavesNoSpread DEF Kept, Sighted
<1>6. Tail(timers) \in Seq(Timers)
  BY <1>1, <1>3
<1>7. Overtaken(v, timers) => Overtaken(v, timers')
  BY <1>1, <1>3, <1>6, OtherInTail, OtherWithShow
<1>8. Has(timers', Timer("resize", v)) => Has(timers, Timer("resize", v))
  <2>1. Timer("resize", v) # Timer("show", u)
    BY DEF Timer
  <2> QED
    BY <1>1, <1>3, <1>6, <2>1, OtherInTail, OtherWithShow
<1>9. Live(v, lastViewPortSize', timers') => Live(v, lastViewPortSize, timers)
  BY <1>3, <1>8 DEF Live
<1>10. Sized(v, paginationInfo, windowSize, timers)
          => Sized(v, paginationInfo', windowSize', timers')
  BY <1>3, <1>5, <1>7 DEF Sized
<1> QED
  BY <1>2, <1>4, <1>5, <1>9, <1>10 DEF Honours, Reached

LEMMA OwnMeasureHonours ==
    ASSUME IInv, Kept, LastHonoured, currentView # 0, asked # NoRequest,
           MeasureTimer(currentView)
    PROVE  Honours(currentView, views'[currentView], paginationInfo', lastViewPortSize',
                   windowSize', timers', asked)
<1> DEFINE v  == currentView
           w  == LaidOutView(views[v])
           w1 == [w EXCEPT !.deferredPageRequest = NoRequest]
           cs == CutShortView(views[v])
<1>1. /\ v \in Views /\ views \in [Views -> View] /\ timers \in Seq(Timers)
      /\ views[v] \in View /\ ViewOK(v, views[v], timers) /\ paginationInfo \in PaginationInfos
      /\ RequestOK(views[v])
  BY OfCurrentView DEF Kept, RequestsOK
<1>2. Honours(v, views[v], paginationInfo, lastViewPortSize, windowSize, timers, asked)
  BY DEF LastHonoured
<1>3. /\ UNCHANGED <<lastViewPortSize, windowSize>>
      /\ timers # <<>> /\ Head(timers) = Timer("measure", v)
      /\ timers' \in WithShow(Tail(timers), v) \/ timers' = Tail(timers)
  BY HowMeasured DEF LaysOut, CutsShort
<1>4. PICK c \in MeasuredColumns(v) : LaysOut(v, c) \/ CutsShort(v, c)
  BY HowMeasured
<1>5. /\ Measured(c) \in PaginationInfos /\ Counted(Measured(c))
      /\ Measured(c).columnSize = paginationInfo.columnSize
      /\ Measured(c).visibleColumnCount = paginationInfo.visibleColumnCount
      /\ Measured(c).columnCount = c
  <2>1. Measured(c) \in PaginationInfos /\ Counted(Measured(c))
    BY <1>1, MeasuredTypes, MeasuredCounts
  <2> QED
    BY <1>1, <2>1 DEF Measured, PaginationInfos
<1>6. Tail(timers) \in Seq(Timers)
  BY <1>1, <1>3
<1>7. /\ Overtaken(v, timers) => Overtaken(v, timers')
      /\ Doomed(v, timers) => Doomed(v, timers')
  <2>1. ~Other(v, Head(timers))
    BY <1>3 DEF Other
  <2>2. /\ Overtaken(v, timers) => Overtaken(v, Tail(timers))
        /\ Doomed(v, timers) => Doomed(v, Tail(timers))
    BY <1>1, <1>3, <2>1, OtherInTail
  <2> QED
    BY <1>1, <1>3, <1>6, <2>2, OtherWithShow
<1>8. Live(v, lastViewPortSize', timers') => Live(v, lastViewPortSize, timers)
  <2>1. Timer("resize", v) # Timer("show", v)
    BY DEF Timer
  <2> QED
    BY <1>1, <1>3, <1>6, <2>1, OtherInTail, OtherWithShow DEF Live
<1>9. \A i2 : i2.columnSize = paginationInfo.columnSize
                 /\ Sized(v, paginationInfo, windowSize, timers)
                    => Sized(v, i2, windowSize', timers')
  BY <1>3, <1>7 DEF Sized
<1>10. paginationInfo.columnSize # 0 =>
          c \in {0, ColumnsOf[<<views[v].document, paginationInfo.visibleColumnCount,
                                paginationInfo.columnSize>>]}
  BY DEF MeasuredColumns
<1>11. /\ w \in View /\ w1 \in View
       /\ w.deferredPageRequest = views[v].deferredPageRequest
       /\ w1.deferredPageRequest = NoRequest
       /\ w.currentSpineItem = views[v].currentSpineItem
       /\ w.document = views[v].document /\ w1.document = views[v].document
       /\ w.isWaitingFrameRender = views[v].isWaitingFrameRender
       /\ w1.isWaitingFrameRender = views[v].isWaitingFrameRender
       /\ views[v].deferredPageRequest \in Requests \cup {NoRequest}
  BY <1>1 DEF LaidOutView, View
<1>12. CASE LaysOut(v, c) /\ views[v].deferredPageRequest # NoRequest
  <2>1. openPage(v, Measured(c), w1, asked) /\ asked \in Requests
    BY <1>2, <1>11, <1>12 DEF LaysOut, openDeferredElement, Honours
  <2>2. ~w1.isWaitingFrameRender /\ Live(v, lastViewPortSize', timers') =>
            /\ Sized(v, Measured(c), windowSize', timers')
            /\ Measured(c).columnSize # 0 => Laid(w1, Measured(c))
    <3> HIDE DEF w1
    <3>1. paginationInfo.columnSize # 0 => Laid(w1, Measured(c))
      BY <1>5, <1>10, <1>11 DEF Laid, ColumnsAt
    <3> QED
      BY <1>2, <1>5, <1>8, <1>9, <1>11, <3>1 DEF Honours
  <2> HIDE DEF w1
  <2> QED
    BY <1>1, <1>5, <1>11, <2>1, <2>2, OpenPageHonours
<1>13. CASE LaysOut(v, c) /\ views[v].deferredPageRequest = NoRequest
  <2>1. /\ paginationInfo' = Measured(c) /\ views'[v] = w
        /\ ~views[v].isWaitingFrameRender
    BY <1>1, <1>11, <1>13 DEF LaysOut, openDeferredElement, Store, RequestOK
  <2> HIDE DEF w
  <2>2. ASSUME paginationInfo.columnSize # 0, Reached(v, views[v], paginationInfo, timers, asked)
        PROVE  Reached(v, w, Measured(c), timers', asked)
    <3>1. PICK n \in {1, 2} : n = paginationInfo.visibleColumnCount
      BY <1>1 DEF PaginationInfos
    <3>2. PICK index \in Nat \cup {-1} : index = paginationInfo.currentSpreadIndex
      BY <1>1 DEF PaginationInfos
    <3>3. c \in Nat
      BY <1>5 DEF PaginationInfos
    <3>4. PICK spreads \in Nat : spreads = CeilDiv(c, n)
      BY <3>3, SpreadArithmetic
    <3>5. Measured(c).currentSpreadIndex = IF index >= spreads THEN spreads - 1 ELSE index
      BY <1>1, <3>1, <3>2, <3>4 DEF Measured, PaginationInfos
    <3>6. CASE index = -1
      <4>1. Measured(c).currentSpreadIndex = -1
        BY <3>4, <3>5, <3>6
      <4> QED
        BY <4>1 DEF Reached
    <3>7. CASE Doomed(v, timers)
      BY <1>7, <3>7 DEF Reached
    <3>8. CASE c = 0
      <4>1. spreads = 0
        BY <3>1, <3>4, <3>8 DEF CeilDiv
      <4>2. Measured(c).currentSpreadIndex = -1
        BY <3>2, <3>5, <4>1
      <4> QED
        BY <4>2 DEF Reached
    <3>9. CASE Placed(views[v], paginationInfo, asked) /\ c = ColumnsAt(views[v], paginationInfo)
      <4>1. index \in 0 .. spreads - 1
        BY <3>1, <3>2, <3>4, <3>9 DEF Placed
      <4>2. Measured(c).currentSpreadIndex = index
        BY <3>4, <3>5, <4>1
      <4>3. ColumnsAt(w, Measured(c)) = ColumnsAt(views[v], paginationInfo)
        BY <1>5, <1>11 DEF ColumnsAt
      <4> QED
        BY <1>5, <3>2, <3>9, <4>2, <4>3 DEF Placed, Reached
    <3> QED
      BY <1>10, <2>2, <3>2, <3>6, <3>7, <3>8, <3>9 DEF Reached, ColumnsAt
  <2> QED
    BY <1>2, <1>5, <1>8, <1>9, <1>11, <1>13, <2>1, <2>2 DEF Honours
<1>14. CASE CutsShort(v, c)
  <2>1. /\ paginationInfo' = Measured(c) /\ views'[v] = cs
        /\ ~views[v].isWaitingFrameRender
        /\ views[v].deferredPageRequest.target = "throws"
        /\ views[v].deferredPageRequest.spineItem = views[v].currentSpineItem
    BY <1>1, <1>14 DEF CutsShort, Store, LookupThrows
  <2>2. /\ cs.deferredPageRequest = NoRequest
        /\ cs.currentSpineItem = views[v].currentSpineItem
        /\ cs.document = views[v].document
        /\ cs.isWaitingFrameRender = views[v].isWaitingFrameRender
    BY <1>1 DEF CutShortView, View
  <2>3. views[v].deferredPageRequest = asked
    <3>1. views[v].deferredPageRequest # NoRequest
      BY <2>1 DEF NoRequest
    <3> QED
      BY <1>2, <3>1 DEF Honours
  <2> HIDE DEF cs
  <2>4. ASSUME paginationInfo.columnSize # 0
        PROVE  Reached(v, cs, Measured(c), timers', asked)
    <3>1. PICK n \in {1, 2} : n = paginationInfo.visibleColumnCount
      BY <1>1 DEF PaginationInfos
    <3>2. c \in Nat /\ CeilDiv(c, n) \in Nat
      BY <1>5, SpreadArithmetic DEF PaginationInfos
    <3>3. PICK index \in -1 .. CeilDiv(c, n) - 1 : index = Measured(c).currentSpreadIndex
      BY <1>5, <3>1 DEF Counted
    <3>4. CASE c = 0
      <4>1. CeilDiv(c, n) = 0
        BY <3>1, <3>4 DEF CeilDiv
      <4> QED
        BY <3>3, <4>1 DEF Reached
    <3>5. CASE c = ColumnsAt(cs, Measured(c))
      <4>1. TargetIn(c, asked) = -1
        BY <2>1, <2>3 DEF TargetIn
      <4>2. index = -1 \/ index \in 0 .. CeilDiv(c, n) - 1
        BY <3>2, <3>3
      <4>3. -1 \notin 0 .. c - 1
        OBVIOUS
      <4> QED
        BY <1>5, <3>1, <3>3, <3>5, <4>1, <4>2, <4>3 DEF Reached, Placed
    <3> QED
      BY <1>5, <1>10, <2>2, <2>4, <3>4, <3>5 DEF ColumnsAt
  <2> QED
    BY <1>2, <1>5, <1>8, <1>9, <2>1, <2>2, <2>3, <2>4 DEF Honours
<1> QED
  BY <1>4, <1>12, <1>13, <1>14

LEMMA ShowTimerHonours ==
    ASSUME IInv, LastHonoured, currentView # 0, asked # NoRequest, NEW u \in Views, ShowTimer(u)
    PROVE  Honours(currentView, views'[currentView], paginationInfo', lastViewPortSize',
                   windowSize', timers', asked)
<1> DEFINE v == currentView
<1>1. /\ v \in Views /\ views \in [Views -> View] /\ timers \in Seq(Timers)
      /\ views[v] \in View
  BY OfCurrentView
<1>2. Honours(v, views[v], paginationInfo, lastViewPortSize, windowSize, timers, asked)
  BY DEF LastHonoured
<1>3. /\ UNCHANGED <<paginationInfo, lastViewPortSize, windowSize>>
      /\ timers # <<>> /\ Head(timers) = Timer("show", u) /\ timers' = Tail(timers)
  BY DEF ShowTimer, Fires, Store
<1>4. /\ views'[v].isWaitingFrameRender = views[v].isWaitingFrameRender
      /\ views'[v].deferredPageRequest = views[v].deferredPageRequest
      /\ views'[v].currentSpineItem = views[v].currentSpineItem
      /\ views'[v].document = views[v].document
  BY <1>1 DEF ShowTimer, Store, Redrawn, View
<1>5. ~Other(v, Head(timers))
  BY <1>3 DEF Other, Timer
<1>6. /\ Overtaken(v, timers) => Overtaken(v, timers')
      /\ Doomed(v, timers) => Doomed(v, timers')
      /\ Live(v, lastViewPortSize', timers') => Live(v, lastViewPortSize, timers)
  BY <1>1, <1>3, <1>5, OtherInTail DEF Live
<1> QED
  BY <1>2, <1>3, <1>4, <1>6, HonoursKept

(* The view's own resize timer gives the viewport its size.  Where there was *)
(* none, a blind measurement is to follow.                                   *)
LEMMA OwnResizeHonours ==
    ASSUME IInv, LastHonoured, currentView # 0, asked # NoRequest, ResizeTimer(currentView)
    PROVE  Honours(currentView, views'[currentView], paginationInfo', lastViewPortSize',
                   windowSize', timers', asked)
<1> DEFINE v == currentView
<1>1. /\ v \in Views /\ views \in [Views -> View] /\ timers \in Seq(Timers)
      /\ views[v] \in View /\ ViewOK(v, views[v], timers)
      /\ paginationInfo \in PaginationInfos
      /\ windowSize \in Sizes
  BY OfCurrentView
<1>2. Honours(v, views[v], paginationInfo, lastViewPortSize, windowSize, timers, asked)
  BY DEF LastHonoured
<1>3. /\ UNCHANGED windowSize
      /\ timers # <<>> /\ Head(timers) = Timer("resize", v)
  BY DEF ResizeTimer, Fires
<1>4. ~Other(v, Head(timers)) /\ Live(v, lastViewPortSize, timers)
  <2>1. Has(timers, Head(timers))
    BY <1>1, <1>3, OtherInTail
  <2> QED
    BY <1>3, <2>1 DEF Other, Timer, Live
<1>5. /\ Overtaken(v, timers) => Overtaken(v, Tail(timers))
      /\ Doomed(v, timers) => Doomed(v, Tail(timers))
      /\ Overtaken(v, timers) => Doomed(v, Tail(timers))
      /\ Tail(timers) \in Seq(Timers)
  BY <1>1, <1>3, <1>4, OtherInTail
<1>6. CASE timers' = Tail(timers) /\ UNCHANGED <<paginationInfo, views>>
  BY <1>2, <1>3, <1>4, <1>5, <1>6, HonoursKept
<1>7. CASE /\ views[v].html # "undefined"
           /\ Store(v, Columnized(paginationInfo, views[v], lastViewPortSize'),
                    ShiftedOffScreen(views[v]))
           /\ timers' = Append(Tail(timers), Timer("measure", v))
           /\ lastViewPortSize' = windowSize
  <2>1. /\ paginationInfo'.columnSize = windowSize
        /\ paginationInfo'.visibleColumnCount = paginationInfo.visibleColumnCount
        /\ paginationInfo'.currentSpreadIndex = paginationInfo.currentSpreadIndex
    BY <1>1, <1>7 DEF Store, Columnized, PaginationInfos
  <2>2. /\ views'[v].isWaitingFrameRender = views[v].isWaitingFrameRender
        /\ views'[v].deferredPageRequest = views[v].deferredPageRequest
        /\ views'[v].currentSpineItem = views[v].currentSpineItem
        /\ views'[v].document = views[v].document
    BY <1>1, <1>7 DEF Store, ShiftedOffScreen, View
  <2>3. Doomed(v, Tail(timers)) => Doomed(v, timers')
    BY <1>1, <1>5, <1>7, OtherAppended
  <2>4. windowSize # 0 /\ 0 \notin Sizes
    BY <1>1, ReflowableViewAssumption
  <2>5. Sized(v, paginationInfo', windowSize', timers')
    BY <1>3, <2>1, <2>4 DEF Sized
  <2>6. ASSUME ~views[v].isWaitingFrameRender, views[v].deferredPageRequest = NoRequest
        PROVE  Reached(v, views'[v], paginationInfo', timers', asked)
    <3>1. Sized(v, paginationInfo, windowSize, timers)
      BY <1>2, <1>4, <2>6 DEF Honours
    <3>2. CASE paginationInfo.columnSize = 0
      BY <1>5, <2>3, <3>1, <3>2 DEF Sized, Reached
    <3>3. CASE paginationInfo.columnSize = windowSize
      <4>1. Reached(v, views[v], paginationInfo, timers, asked)
        BY <1>2, <1>4, <2>4, <2>6, <3>3 DEF Honours
      <4>2. ColumnsAt(views'[v], paginationInfo') = ColumnsAt(views[v], paginationInfo)
        BY <2>1, <2>2, <3>3 DEF ColumnsAt
      <4> QED
        BY <1>5, <2>1, <2>3, <4>1, <4>2 DEF Reached, Placed
    <3> QED
      BY <3>1, <3>2, <3>3 DEF Sized
  <2> QED
    BY <1>2, <2>2, <2>5, <2>6 DEF Honours
<1> QED
  BY <1>3, <1>6, <1>7 DEF ResizeTimer, ViewportOf

(* The resize timer of a removed view takes the viewport's size away; if the *)
(* view's own is still to come, its measurement comes after.                 *)
LEMMA OtherResizeHonours ==
    ASSUME IInv, LastHonoured, currentView # 0, asked # NoRequest,
           NEW u \in Views, u # currentView, ResizeTimer(u)
    PROVE  Honours(currentView, views'[currentView], paginationInfo', lastViewPortSize',
                   windowSize', timers', asked)
<1> DEFINE v == currentView
<1>1. /\ v \in Views /\ views \in [Views -> View] /\ timers \in Seq(Timers)
      /\ paginationInfo \in PaginationInfos
  BY OfCurrentView
<1>2. Honours(v, views[v], paginationInfo, lastViewPortSize, windowSize, timers, asked)
  BY DEF LastHonoured
<1>3. /\ UNCHANGED windowSize /\ lastViewPortSize' = 0
      /\ timers # <<>> /\ Head(timers) = Timer("resize", u)
  BY DEF ResizeTimer, Fires, ViewportOf
<1>4. /\ ~Other(v, Head(timers))
      /\ Timer("resize", v) # Timer("measure", u)
  BY <1>3 DEF Other, Timer
<1>5. /\ Overtaken(v, timers) => Overtaken(v, Tail(timers))
      /\ Doomed(v, timers) => Doomed(v, Tail(timers))
      /\ Has(Tail(timers), Timer("resize", v)) => Has(timers, Timer("resize", v))
      /\ Tail(timers) \in Seq(Timers)
  BY <1>1, <1>3, <1>4, OtherInTail
<1>6. CASE timers' = Tail(timers) /\ UNCHANGED <<paginationInfo, views>>
  <2>1. Live(v, lastViewPortSize', timers') => Live(v, lastViewPortSize, timers)
    BY <1>3, <1>5, <1>6 DEF Live
  <2> QED
    BY <1>2, <1>3, <1>5, <1>6, <2>1, HonoursKept
<1>7. CASE /\ views[u].html # "undefined"
           /\ Store(u, Columnized(paginationInfo, views[u], lastViewPortSize'),
                    ShiftedOffScreen(views[u]))
           /\ timers' = Append(Tail(timers), Timer("measure", u))
  <2>1. paginationInfo'.columnSize = 0 /\ views'[v] = views[v]
    BY <1>1, <1>3, <1>7 DEF Store, Columnized, PaginationInfos
  <2>2. /\ Overtaken(v, timers')
        /\ Has(timers', Timer("resize", v)) => Has(Tail(timers), Timer("resize", v))
    BY <1>1, <1>4, <1>5, <1>7, OtherAppended
  <2>3. Live(v, lastViewPortSize', timers') => Live(v, lastViewPortSize, timers)
    BY <1>3, <1>5, <2>2 DEF Live
  <2>4. Sized(v, paginationInfo', windowSize', timers')
    BY <2>1, <2>2 DEF Sized
  <2> QED
    BY <1>2, <2>1, <2>4 DEF Honours
<1> QED
  BY <1>6, <1>7 DEF ResizeTimer

LEMMA FrameHonours ==
    ASSUME IInv, Kept, LastHonoured, currentView # 0, asked # NoRequest, FrameEvent
    PROVE  Honours(currentView, views'[currentView], paginationInfo', lastViewPortSize',
                   windowSize', timers', asked)
<1> DEFINE v == currentView
<1>1. /\ v \in Views /\ views \in [Views -> View] /\ timers \in Seq(Timers)
      /\ views[v] \in View /\ ViewOK(v, views[v], timers) /\ RequestOK(views[v])
      /\ paginationInfo \in PaginationInfos /\ windowSize \in Sizes
  BY OfCurrentView DEF Kept, RequestsOK
<1>2. CommitNavigation(v) \/ onIFrameLoad(v)
  BY DEF FrameEvent, CommitNavigation, onIFrameLoad
<1>3. views[v].isWaitingFrameRender
  BY <1>1, <1>2 DEF ViewOK, CommitNavigation, onIFrameLoad
<1>4. views[v].deferredPageRequest = asked
  BY <1>1, <1>3 DEF LastHonoured, Honours, RequestOK
<1>5. CASE CommitNavigation(v)
  <2>1. /\ views'[v].isWaitingFrameRender
        /\ views'[v].deferredPageRequest = asked
    BY <1>1, <1>3, <1>4, <1>5 DEF CommitNavigation, Store, Committed, View
  <2> QED
    BY <2>1 DEF Honours
<1>6. CASE onIFrameLoad(v)
  <2> DEFINE w  == FrameRendered(views[v])
             w1 == [w EXCEPT !.html = "attached", !.hidden = FALSE]
  <2>1. /\ w \in View /\ ~w.isWaitingFrameRender /\ w.deferredPageRequest = asked
    BY <1>1, <1>4 DEF FrameRendered, View, Navigation
  <2>2. CASE NewRequestCame(w)
    <3>1. loadSpineItem(v, paginationInfo, w, w.deferredPageRequest.spineItem)
      BY <1>6, <2>2 DEF onIFrameLoad
    <3>2. w.deferredPageRequest.spineItem # w.currentSpineItem
      BY <2>2 DEF NewRequestCame
    <3> HIDE DEF w
    <3>3. views'[v].isWaitingFrameRender /\ views'[v].deferredPageRequest = asked
      BY <1>1, <2>1, <3>1, <3>2 DEF loadSpineItem, Store, View
    <3> QED
      BY <3>3 DEF Honours
  <2>3. CASE ~NewRequestCame(w)
    <3>1. applyStyles(v, w1) /\ w1.html # "undefined" /\ windowSize' = windowSize
      BY <1>6, <2>1, <2>3 DEF onIFrameLoad, View
    <3>2. w1 \in View /\ w1.deferredPageRequest = asked
      BY <2>1 DEF View, HtmlStates
    <3> HIDE DEF w, w1
    <3>3. /\ paginationInfo' = [paginationInfo EXCEPT !.columnSize = windowSize]
          /\ views' = [views EXCEPT ![v] = ShiftedOffScreen(w1)]
      BY <3>1 DEF applyStyles, updatePagination, Store, Columnized, ViewportOf
    <3>4. views'[v].deferredPageRequest = asked
      BY <1>1, <3>2, <3>3 DEF ShiftedOffScreen, View
    <3>5. paginationInfo'.columnSize = windowSize' /\ windowSize # 0
      BY <1>1, <3>1, <3>3, ReflowableViewAssumption DEF PaginationInfos
    <3> QED
      BY <3>1, <3>4, <3>5 DEF Honours, Sized
  <2> QED
    BY <2>2, <2>3
<1> QED
  BY <1>2, <1>5, <1>6

LEMMA BrowserHonours ==
    ASSUME IInv, Kept, LastHonoured, Browser, asked' = asked
    PROVE  LastHonoured'
<1>1. currentView' = currentView
  BY DEF Browser, TimerFires, FrameEvent, MeasureTimer, ShowTimer, ResizeTimer, Fires,
         CommitNavigation, onIFrameLoad
<1>2. ASSUME currentView # 0, asked # NoRequest
      PROVE  Honours(currentView, views'[currentView], paginationInfo', lastViewPortSize',
                     windowSize', timers', asked)
  BY <1>2, OtherMeasureHonours, OwnMeasureHonours, ShowTimerHonours, OwnResizeHonours,
     OtherResizeHonours, FrameHonours
     DEF Browser, TimerFires
<1> QED
  BY <1>1, <1>2 DEF LastHonoured

-----------------------------------------------------------------------------
(* The calls honour the request they make.                                   *)

(* A settled view is ready for the next request.                             *)
LEMMA SettledIsReady ==
    ASSUME IInv, Kept, Settled
    PROVE  /\ views[currentView].deferredPageRequest = NoRequest
           /\ Counted(paginationInfo)
           /\ Live(currentView, lastViewPortSize, timers) =>
                /\ paginationInfo.columnSize = lastViewPortSize
                /\ lastViewPortSize = windowSize /\ lastViewPortSize # 0
                /\ Laid(views[currentView], paginationInfo)
<1> DEFINE v == currentView
<1>1. /\ v # 0 /\ timers = <<>> /\ ~views[v].isWaitingFrameRender
      /\ ViewOK(v, views[v], timers)
  BY OfCurrentView DEF Settled, View0
<1>2. \A k : ~Has(timers, Timer(k, v))
  BY <1>1, NothingPending DEF Pending
<1>3. Counted(paginationInfo)
  BY <1>1, <1>2 DEF Kept, SpreadsCounted, SpreadsOK
<1>4. lastViewPortSize # 0 =>
         /\ paginationInfo.columnSize = lastViewPortSize
         /\ lastViewPortSize = windowSize
         /\ Laid(views[v], paginationInfo)
  BY <1>1, <1>2 DEF Kept, RestsCoherent, Coherent, InPlace
<1> QED
  BY <1>1, <1>2, <1>3, <1>4 DEF ViewOK, Live

LEMMA ClaimHonours ==
    ASSUME IInv, Kept, NEW req \in Requests, readerOpenPage(req),
           currentView = 0 \/ View0.isWaitingFrameRender \/ Settled
    PROVE  Honours(currentView', views'[currentView'], paginationInfo', lastViewPortSize',
                   windowSize', timers', req)
<1>1. req # NoRequest
  BY RequestIsOne
<1>2. CASE currentView = 0
  <2>1. openInNewView(req, isSyntheticSpread)
    BY <1>2 DEF readerOpenPage
  <2> QED
    BY <1>1, <2>1, BooleanTypes, NewViewWaits DEF Honours
<1>3. CASE currentView # 0
  <2> DEFINE v == currentView
  <2>1. /\ v \in Views /\ views \in [Views -> View] /\ views[v] \in View
        /\ paginationInfo \in PaginationInfos
    BY <1>3, OfCurrentView
  <2>2. /\ openPage(v, paginationInfo, views[v], req)
        /\ UNCHANGED <<currentView, lastViewPortSize, windowSize, timers>>
    BY <1>3 DEF readerOpenPage
  <2>3. ~views[v].isWaitingFrameRender => Settled
    BY <1>3 DEF View0
  <2>4. ~views[v].isWaitingFrameRender => views[v].deferredPageRequest = NoRequest
    BY <2>3, SettledIsReady
  <2>5. ~views[v].isWaitingFrameRender /\ Live(v, lastViewPortSize, timers) =>
           /\ Sized(v, paginationInfo, windowSize, timers)
           /\ paginationInfo.columnSize # 0 => Laid(views[v], paginationInfo)
    BY <2>3, SettledIsReady DEF Sized
  <2> QED
    BY <2>1, <2>2, <2>4, <2>5, OpenPageHonours
<1> QED
  BY <1>2, <1>3

(* Turning to a spread is as good as a request for a page on it.             *)
LEMMA TurnToHonours ==
    ASSUME IInv, Kept, Settled, NEW k \in Nat, turnTo(currentView, k),
           UNCHANGED <<lastViewPortSize, windowSize, timers>>,
           NEW page \in 0 .. paginationInfo.columnCount - 1,
           page \div paginationInfo.visibleColumnCount = k,
           NEW req, req = PageIndex(views[currentView].currentSpineItem, page)
    PROVE  Honours(currentView, views'[currentView], paginationInfo', lastViewPortSize',
                   windowSize', timers', req)
<1> DEFINE v == currentView
           i == [paginationInfo EXCEPT !.currentSpreadIndex = k]
<1>1. /\ v \in Views /\ views \in [Views -> View] /\ views[v] \in View
      /\ paginationInfo \in PaginationInfos
  BY OfCurrentView DEF Settled
<1>2. /\ paginationInfo' = i /\ views'[v] = Redrawn(i, views[v])
  BY <1>1 DEF turnTo, Store
<1>3. /\ views'[v].isWaitingFrameRender = views[v].isWaitingFrameRender
      /\ views'[v].deferredPageRequest = views[v].deferredPageRequest
      /\ views'[v].currentSpineItem = views[v].currentSpineItem
      /\ views'[v].document = views[v].document
  BY <1>1, <1>2 DEF Redrawn, View
<1>4. /\ paginationInfo'.columnSize = paginationInfo.columnSize
      /\ paginationInfo'.visibleColumnCount = paginationInfo.visibleColumnCount
      /\ paginationInfo'.currentSpreadIndex = k
  BY <1>1, <1>2 DEF PaginationInfos
<1>5. /\ req.spineItem = views[v].currentSpineItem
      /\ \A c : TargetIn(c, req) = page
  BY DEF PageIndex, TargetIn
<1>6. ASSUME Live(v, lastViewPortSize, timers)
      PROVE  /\ Sized(v, paginationInfo', windowSize', timers')
             /\ Placed(views'[v], paginationInfo', req)
  <2>1. /\ paginationInfo.columnSize = windowSize /\ windowSize # 0
        /\ Laid(views[v], paginationInfo)
    BY <1>6, SettledIsReady
  <2>2. PICK n \in {1, 2} : n = paginationInfo.visibleColumnCount
    BY <1>1 DEF PaginationInfos
  <2>3. PICK c \in Nat : c = paginationInfo.columnCount
    BY <1>1 DEF PaginationInfos
  <2>4. page \in Nat /\ page < c /\ page \in 0 .. c - 1
    BY <2>3
  <2>5. c = ColumnsAt(views[v], paginationInfo)
    BY <2>1, <2>3, <2>4 DEF Laid
  <2>6. c = ColumnsAt(views'[v], paginationInfo')
    BY <1>3, <1>4, <2>5 DEF ColumnsAt
  <2>7. k \in 0 .. CeilDiv(c, n) - 1
    <3>1. page \div n \in -1 .. CeilDiv(c, n) - 1
      BY <2>4, SpreadOfPage
    <3> QED
      BY <2>2, <2>3, <3>1, SpreadArithmetic
  <2> QED
    BY <1>4, <1>5, <2>1, <2>2, <2>4, <2>6, <2>7 DEF Sized, Placed
<1>7. views[v].deferredPageRequest = NoRequest /\ ~views[v].isWaitingFrameRender
  BY SettledIsReady DEF Settled, View0
<1> QED
  BY <1>3, <1>5, <1>6, <1>7 DEF Honours, Reached, Live

(* The pages shown are an interval of those of the item.                     *)
LEMMA OpenPagesAre ==
    ASSUME IInv, currentView # 0, OpenPages # {}
    PROVE  \E n \in {1, 2}, c \in Nat, index \in Nat \cup {-1} :
              /\ n = paginationInfo.visibleColumnCount
              /\ c = paginationInfo.columnCount
              /\ index = paginationInfo.currentSpreadIndex
              /\ index * n < c
              /\ Min(OpenPages) = index * n
              /\ Max(OpenPages) = IF index * n + n - 1 < c THEN index * n + n - 1 ELSE c - 1
              /\ \A p : p \in OpenPages <=> p \in index * n .. index * n + n - 1 /\ p < c
<1>1. paginationInfo \in PaginationInfos
  BY OfCurrentView
<1>2. PICK n \in {1, 2} : n = paginationInfo.visibleColumnCount
  BY <1>1 DEF PaginationInfos
<1>3. PICK c \in Nat : c = paginationInfo.columnCount
  BY <1>1 DEF PaginationInfos
<1>4. PICK index \in Nat \cup {-1} : index = paginationInfo.currentSpreadIndex
  BY <1>1 DEF PaginationInfos
<1>5. PICK lo \in Int : lo = index * n
  BY <1>2
<1>6. \A p : p \in OpenPages <=> p \in lo .. lo + n - 1 /\ p < c
  BY <1>2, <1>3, <1>4, <1>5 DEF OpenPages
<1>7. lo < c
  BY <1>6
<1>8. PICK hi \in Int : hi = IF lo + n - 1 < c THEN lo + n - 1 ELSE c - 1
  OBVIOUS
<1>9. lo \in OpenPages /\ hi \in OpenPages /\ \A p \in OpenPages : p \in Int /\ lo <= p /\ p <= hi
  BY <1>6, <1>7, <1>8
<1>10. Min(OpenPages) = lo
  <2>1. \A x \in OpenPages : (\A y \in OpenPages : x <= y) => x = lo
    BY <1>9
  <2> QED
    BY <1>9, <2>1 DEF Min
<1>11. Max(OpenPages) = hi
  <2>1. \A x \in OpenPages : (\A y \in OpenPages : x >= y) => x = hi
    BY <1>9
  <2> QED
    BY <1>9, <2>1 DEF Max
<1> QED
  BY <1>2, <1>3, <1>4, <1>5, <1>6, <1>7, <1>8, <1>10, <1>11

LEMMA NextTurnHonours ==
    ASSUME IInv, Kept, Settled, readerOpenPageNext
    PROVE  Honours(currentView', views'[currentView'], paginationInfo', lastViewPortSize',
                   windowSize', timers', TurnRequest(1))
<1> DEFINE item == views[currentView].currentSpineItem
<1>1. currentView # 0 /\ OpenPages # {}
  BY DEF Settled, readerOpenPageNext
<1>2. PICK n \in {1, 2}, c \in Nat, index \in Nat \cup {-1} :
         /\ n = paginationInfo.visibleColumnCount
         /\ c = paginationInfo.columnCount
         /\ index = paginationInfo.currentSpreadIndex
         /\ index * n < c
         /\ Max(OpenPages) = IF index * n + n - 1 < c THEN index * n + n - 1 ELSE c - 1
         /\ \A p : p \in OpenPages <=> p \in index * n .. index * n + n - 1 /\ p < c
  BY <1>1, OpenPagesAre
<1>3. item \in Items /\ (nextItem(item) # NoItem => FirstPage(nextItem(item)) \in Requests)
  BY <1>1, NeighbourRequests
<1>4. PICK lo \in Int : lo = index * n
  OBVIOUS
<1>5. PICK hi \in Int : hi = Max(OpenPages) /\ hi = IF lo + n - 1 < c THEN lo + n - 1 ELSE c - 1
  BY <1>2, <1>4
<1>6. CASE hi = c - 1
  <2>1. hi \in OpenPages /\ hi >= paginationInfo.columnCount - 1
    BY <1>2, <1>4, <1>5, <1>6
  <2>2. nextItem(item) # NoItem /\ readerOpenPage(FirstPage(nextItem(item)))
    BY <2>1 DEF readerOpenPageNext
  <2>3. TurnRequest(1) = FirstPage(nextItem(item))
    BY <1>2, <1>5, <1>6 DEF TurnRequest, View0
  <2> QED
    BY <1>3, <2>2, <2>3, ClaimHonours
<1>7. CASE hi # c - 1
  <2>1. hi = lo + n - 1 /\ hi + 1 < c /\ hi + 1 = (index + 1) * n /\ hi + 1 \in 0 .. c - 1
    <3>1. CASE n = 1
      BY <1>4, <1>5, <1>7, <3>1
    <3>2. CASE n = 2
      BY <1>4, <1>5, <1>7, <3>2
    <3> QED
      BY <3>1, <3>2
  <2>2. ~\E p \in OpenPages : p >= paginationInfo.columnCount - 1
    BY <1>2, <1>4, <2>1
  <2>3. openPageNext(currentView) /\ UNCHANGED <<lastViewPortSize, currentView, windowSize, timers>>
    BY <2>2 DEF readerOpenPageNext
  <2>4. index + 1 \in Nat /\ (hi + 1) \div n = index + 1
    <3>1. CASE n = 1
      BY <2>1, <3>1
    <3>2. CASE n = 2
      BY <2>1, <3>2
    <3> QED
      BY <3>1, <3>2
  <2>5. index < paginationInfo.spreadCount - 1
    <3>1. index + 1 \in -1 .. CeilDiv(c, n) - 1
      BY <2>1, <2>4, SpreadOfPage
    <3>2. paginationInfo.spreadCount = CeilDiv(c, n) /\ CeilDiv(c, n) \in Nat
      BY <1>2, SettledIsReady, SpreadArithmetic DEF Counted
    <3> QED
      BY <3>1, <3>2
  <2>6. turnTo(currentView, index + 1)
    BY <1>2, <2>3, <2>5 DEF openPageNext
  <2>7. TurnRequest(1) = PageIndex(item, hi + 1)
    BY <1>2, <1>5, <2>1 DEF TurnRequest, View0
  <2>8. Honours(currentView, views'[currentView], paginationInfo', lastViewPortSize',
                windowSize', timers', PageIndex(item, hi + 1))
    BY <1>2, <2>1, <2>3, <2>4, <2>6, TurnToHonours
  <2> QED
    BY <2>3, <2>7, <2>8
<1> QED
  BY <1>6, <1>7

LEMMA PrevTurnHonours ==
    ASSUME IInv, Kept, Settled, readerOpenPagePrev
    PROVE  Honours(currentView', views'[currentView'], paginationInfo', lastViewPortSize',
                   windowSize', timers', TurnRequest(-1))
<1> DEFINE item == views[currentView].currentSpineItem
<1>1. currentView # 0 /\ OpenPages # {}
  BY DEF Settled, readerOpenPagePrev
<1>2. PICK n \in {1, 2}, c \in Nat, index \in Nat \cup {-1} :
         /\ n = paginationInfo.visibleColumnCount
         /\ c = paginationInfo.columnCount
         /\ index = paginationInfo.currentSpreadIndex
         /\ index * n < c
         /\ Min(OpenPages) = index * n
         /\ \A p : p \in OpenPages <=> p \in index * n .. index * n + n - 1 /\ p < c
  BY <1>1, OpenPagesAre
<1>3. item \in Items /\ (prevItem(item) # NoItem => LastPage(prevItem(item)) \in Requests)
  BY <1>1, NeighbourRequests
<1>4. PICK lo \in Int : lo = index * n /\ lo = Min(OpenPages)
  BY <1>2
<1>5. CASE lo <= 0
  <2>1. lo \in OpenPages
    BY <1>2, <1>4
  <2>2. prevItem(item) # NoItem /\ readerOpenPage(LastPage(prevItem(item)))
    BY <1>5, <2>1 DEF readerOpenPagePrev
  <2>3. ~(Min(OpenPages) - 1 \in 0 .. paginationInfo.columnCount - 1)
    BY <1>4, <1>5
  <2>4. TurnRequest(-1) = LastPage(prevItem(item))
    BY <2>3 DEF TurnRequest, View0
  <2> QED
    BY <1>3, <2>2, <2>4, ClaimHonours
<1>6. CASE lo > 0
  <2>1. ~\E p \in OpenPages : p <= 0
    BY <1>2, <1>4, <1>6
  <2>2. openPagePrev(currentView) /\ UNCHANGED <<lastViewPortSize, currentView, windowSize, timers>>
    BY <2>1 DEF readerOpenPagePrev
  <2>3. index > 0 /\ index - 1 \in Nat /\ (lo - 1) \div n = index - 1
    <3>1. CASE n = 1
      BY <1>4, <1>6, <3>1
    <3>2. CASE n = 2
      BY <1>4, <1>6, <3>2
    <3> QED
      BY <3>1, <3>2
  <2>4. lo - 1 \in 0 .. c - 1
    BY <1>2, <1>4, <1>6
  <2>5. turnTo(currentView, index - 1)
    BY <1>2, <2>2, <2>3 DEF openPagePrev
  <2>6. TurnRequest(-1) = PageIndex(item, lo - 1)
    BY <1>2, <1>4, <2>4 DEF TurnRequest, View0
  <2>7. Honours(currentView, views'[currentView], paginationInfo', lastViewPortSize',
                windowSize', timers', PageIndex(item, lo - 1))
    BY <1>2, <2>2, <2>3, <2>4, <2>5, TurnToHonours
  <2> QED
    BY <2>2, <2>6, <2>7
<1> QED
  BY <1>5, <1>6

LEMMA HonouredIfClaimed ==
    ASSUME NEW req,
           asked' = NoRequest \/ currentView' = 0
               \/ /\ asked' = req
                  /\ Honours(currentView', views'[currentView'], paginationInfo',
                             lastViewPortSize', windowSize', timers', req)
    PROVE  LastHonoured'
BY DEF LastHonoured

LEMMA TurnCallHonours ==
    ASSUME IInv, Kept, NEW step \in {-1, 1},
           IF currentView = 0 THEN Throws
           ELSE IF step = 1 THEN readerOpenPageNext ELSE readerOpenPagePrev,
           ClaimTurn(step)
    PROVE  LastHonoured'
<1>1. CASE currentView = 0
  <2>1. currentView' = 0
    BY <1>1 DEF Throws
  <2> QED
    BY <2>1, HonouredIfClaimed
<1>2. CASE ~Settled
  BY <1>2, HonouredIfClaimed DEF ClaimTurn
<1>3. CASE currentView # 0 /\ Settled /\ step = 1
  BY <1>3, NextTurnHonours, HonouredIfClaimed DEF ClaimTurn
<1>4. CASE currentView # 0 /\ Settled /\ step = -1
  BY <1>4, PrevTurnHonours, HonouredIfClaimed DEF ClaimTurn
<1> QED
  BY <1>1, <1>2, <1>3, <1>4

LEMMA PageCallHonours ==
    ASSUME IInv, Kept, NEW req \in Requests,
           IF package THEN readerOpenPage(req) ELSE Throws, Claim(req)
    PROVE  LastHonoured'
<1>1. CASE ~package
  <2>1. currentView' = 0
    BY <1>1 DEF Throws, Kept, RequestsOK
  <2> QED
    BY <2>1, HonouredIfClaimed
<1>2. CASE package /\ (currentView = 0 \/ View0.isWaitingFrameRender \/ Settled)
  <2>1. asked' = req
    BY <1>2 DEF Claim
  <2> QED
    BY <1>2, <2>1, ClaimHonours, HonouredIfClaimed
<1>3. CASE ~(currentView = 0 \/ View0.isWaitingFrameRender \/ Settled)
  <2>1. asked' = NoRequest
    BY <1>3 DEF Claim
  <2> QED
    BY <2>1, HonouredIfClaimed
<1> QED
  BY <1>1, <1>2, <1>3

LEMMA LastIsHonoured ==
    IInv /\ Kept /\ LastHonoured /\ [RNext]_<<vars, asked>> => LastHonoured'
<1> SUFFICES ASSUME IInv, Kept, LastHonoured, [RNext]_<<vars, asked>>
             PROVE  LastHonoured'
  OBVIOUS
<1>1. ASSUME NEW synthetic \in BOOLEAN, NEW req \in BookRequests,
             openBook(synthetic, req), asked' = req
      PROVE  LastHonoured'
  <2>1. openInNewView(req, synthetic) /\ req \in Requests
    BY <1>1, CallersRequests DEF openBook
  <2>2. /\ views'[currentView'].isWaitingFrameRender
        /\ views'[currentView'].deferredPageRequest = req
        /\ req # NoRequest
    BY <2>1, NewViewWaits, RequestIsOne
  <2> QED
    BY <1>1, <2>2 DEF LastHonoured, Honours
<1>2. ASSUME asked' = NoRequest PROVE LastHonoured'
  BY <1>2, HonouredIfClaimed
<1>3. ASSUME NEW i \in Items, NEW p \in 0 .. MaxColumns, openSpineItemPage(i, p),
             Claim(IF p = 0 THEN NoTarget(i) ELSE PageIndex(i, p))
      PROVE  LastHonoured'
  <2>1. PICK req \in Requests : req = IF p = 0 THEN NoTarget(i) ELSE PageIndex(i, p)
    BY CallersRequests
  <2> QED
    BY <1>3, <2>1, PageCallHonours DEF openSpineItemPage
<1>4. ASSUME NEW req \in ElementRequests, openElement(req), Claim(req)
      PROVE  LastHonoured'
  BY <1>4, CallersRequests, PageCallHonours DEF openElement
<1>5. ASSUME openPageLeft, ClaimTurn(IF isRightToLeft THEN 1 ELSE -1) PROVE LastHonoured'
  BY <1>5, TurnCallHonours DEF openPageLeft
<1>6. ASSUME openPageRight, ClaimTurn(IF isRightToLeft THEN -1 ELSE 1) PROVE LastHonoured'
  BY <1>6, TurnCallHonours DEF openPageRight
<1>7. ASSUME NEW p \in 0 .. MaxColumns, openPageIndex(p), asked' = asked PROVE LastHonoured'
  BY <1>7 DEF openPageIndex, Throws, LastHonoured
<1>8. ASSUME Browser, asked' = asked PROVE LastHonoured'
  BY <1>8, BrowserHonours
<1>9. ASSUME UNCHANGED <<vars, asked>> PROVE LastHonoured'
  BY <1>9 DEF LastHonoured, vars, viewVars
<1> QED
  BY <1>1, <1>2, <1>3, <1>4, <1>5, <1>6, <1>7, <1>8, <1>9 DEF RNext

(* The history only watches.                                                 *)
LEMMA RequestsRefineReader == RSpec => Spec
<1>1. RInit => Init
  BY DEF RInit
<1>2. [RNext]_<<vars, asked>> => [Next]_vars
  BY CallersRequests DEF RNext, Next, BookCalls, PageCalls
<1> QED
  BY <1>1, <1>2, PTL DEF RSpec, Spec

(* At rest, the last request claimed is where the view is, for any book, any *)
(* sizes and any number of views and calls: in the item asked for and, if it *)
(* has the page asked for, with that page among those shown.  A request put  *)
(* off is kept as it was until a frame loads or a measurement opens it; a    *)
(* blind measurement of a removed view loses the spread (index -1), and one  *)
(* is always still to come where a removed view has taken the size away.     *)
THEOREM LastRequestIsHonoured == RSpec => []RequestIsHonoured
<1>1. RInit => LastHonoured
  BY DEF RInit, LastHonoured
<1>2. IInv /\ Kept /\ LastHonoured => RequestIsHonoured
  <2> SUFFICES ASSUME IInv, Kept, LastHonoured, Settled, asked # NoRequest,
                      lastViewPortSize # 0
               PROVE  LET page == TargetPage(paginationInfo, asked) IN
                      /\ View0.currentSpineItem = asked.spineItem
                      /\ paginationInfo.currentSpreadIndex >= 0
                         /\ page \in 0 .. paginationInfo.columnCount - 1 => page \in OpenPages
    BY DEF RequestIsHonoured
  <2> DEFINE v == currentView
             page == TargetPage(paginationInfo, asked)
  <2>1. /\ v # 0 /\ ~views[v].isWaitingFrameRender /\ timers = <<>>
        /\ Honours(v, views[v], paginationInfo, lastViewPortSize, windowSize, timers, asked)
        /\ views[v].currentSpineItem \in Items
        /\ paginationInfo \in PaginationInfos
    BY OfCurrentView DEF Settled, View0, LastHonoured, ViewOK
  <2>2. /\ views[v].deferredPageRequest = NoRequest
        /\ Live(v, lastViewPortSize, timers)
        /\ paginationInfo.columnSize # 0
        /\ Laid(views[v], paginationInfo)
    BY SettledIsReady DEF Live
  <2>3. views[v].currentSpineItem = asked.spineItem
    BY <2>1, <2>2 DEF Honours
  <2>4. ~Doomed(v, timers)
    BY <2>1, EmptySeq DEF Doomed
  <2>5. ASSUME paginationInfo.currentSpreadIndex >= 0,
               page \in 0 .. paginationInfo.columnCount - 1
        PROVE  page \in OpenPages
    <3>1. PICK n \in {1, 2} : n = paginationInfo.visibleColumnCount
      BY <2>1 DEF PaginationInfos
    <3>2. PICK c \in Nat : c = paginationInfo.columnCount
      BY <2>1 DEF PaginationInfos
    <3>3. PICK index \in Nat : index = paginationInfo.currentSpreadIndex
      BY <2>1, <2>5 DEF PaginationInfos
    <3>4. Placed(views[v], paginationInfo, asked)
      BY <2>1, <2>2, <2>4, <3>3 DEF Honours, Reached
    <3>5. c = ColumnsAt(views[v], paginationInfo)
      BY <2>2, <2>5, <3>2 DEF Laid
    <3>6. TargetIn(c, asked) = page
      BY <3>2 DEF TargetIn, TargetPage
    <3>7. page \in 0 .. c - 1 /\ page \div n = index
      BY <2>5, <3>1, <3>2, <3>3, <3>4, <3>5, <3>6 DEF Placed
    <3>8. page \in index * n .. index * n + n - 1 /\ page < c
      <4> HIDE DEF page
      <4>1. CASE n = 1
        BY <3>7, <4>1
      <4>2. CASE n = 2
        BY <3>7, <4>2
      <4> QED
        BY <4>1, <4>2
    <3>9. views[v].currentSpineItem # NoItem
      BY <2>1, SpineAssumption DEF Items, NoItem
    <3> QED
      BY <2>1, <3>1, <3>2, <3>3, <3>8, <3>9 DEF OpenPages
  <2> QED
    BY <2>3, <2>5 DEF View0
<1> QED
  BY <1>1, <1>2, LastIsHonoured, RequestsRefineReader, Invariance, AlwaysKept, PTL DEF RSpec
=============================================================================
