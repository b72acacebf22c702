---------------------------- MODULE ReaderProofs ----------------------------
(***************************************************************************)
(* Proofs about the reader over a reflowable view, for any book, any       *)
(* number of views and any number of calls.                                *)
(***************************************************************************)
EXTENDS ReaderProperties, CountingProofs, SequenceTheorems, TLAPS

-----------------------------------------------------------------------------
(* Arithmetic of spreads.                                                   *)

LEMMA SpreadArithmetic ==
    ASSUME NEW n \in {1, 2}, NEW c \in Nat
    PROVE  /\ c \div n \in Nat
           /\ CeilDiv(c, n) \in Nat
<1>1. n = 1 \/ n = 2
  OBVIOUS
<1>2. ASSUME n = 1 PROVE c \div n \in Nat /\ CeilDiv(c, n) \in Nat
  BY <1>2 DEF CeilDiv
<1>3. ASSUME n = 2 PROVE c \div n \in Nat /\ CeilDiv(c, n) \in Nat
  BY <1>3 DEF CeilDiv
<1> QED
  BY <1>1, <1>2, <1>3

-----------------------------------------------------------------------------
(* The queue of timers.                                                     *)

LEMMA InsertAtFacts ==
    ASSUME NEW S, NEW q \in Seq(S), NEW e \in S, NEW k \in 1 .. Len(q) + 1
    PROVE  /\ InsertAt(q, k, e) \in Seq(S)
           /\ Len(InsertAt(q, k, e)) = Len(q) + 1
           /\ InsertAt(q, k, e)[k] = e
           /\ \A n \in 1 .. k - 1 : InsertAt(q, k, e)[n] = q[n]
           /\ \A n \in k .. Len(q) : InsertAt(q, k, e)[n + 1] = q[n]
<1> DEFINE a == SubSeq(q, 1, k - 1)
           b == SubSeq(q, k, Len(q))
           c == a \o <<e>>
           r == c \o b
<1>1. Len(q) \in Nat /\ \A n \in 1 .. Len(q) : q[n] \in S
  BY LenProperties, ElementOfSeq
<1>2. /\ a \in Seq(S) /\ Len(a) = k - 1
      /\ \A n \in 1 .. k - 1 : a[n] = q[n]
  BY <1>1, SubSeqProperties, SMTT(30)
<1>3. /\ b \in Seq(S) /\ Len(b) = Len(q) - k + 1
      /\ \A n \in 1 .. Len(q) - k + 1 : b[n] = q[k + n - 1]
  BY <1>1, SubSeqProperties, SMTT(30)
<1>4. /\ <<e>> \in Seq(S) /\ Len(<<e>>) = 1 /\ <<e>>[1] = e
  OBVIOUS
<1>5. InsertAt(q, k, e) = r
  BY DEF InsertAt
<1> HIDE DEF a, b
<1>6. /\ c \in Seq(S) /\ Len(c) = k
      /\ c[k] = e
      /\ \A n \in 1 .. k - 1 : c[n] = q[n]
  BY <1>1, <1>2, <1>4, ConcatProperties, SMTT(30)
<1> HIDE DEF c
<1>7. /\ r \in Seq(S)
      /\ Len(r) = k + (Len(q) - k + 1)
      /\ \A n \in 1 .. k + (Len(q) - k + 1) : r[n] = IF n <= k THEN c[n] ELSE b[n - k]
  <2>1. Len(c) + Len(b) = k + (Len(q) - k + 1)
    BY <1>3, <1>6
  <2> QED
    BY <1>3, <1>6, <2>1, ConcatProperties
<1> HIDE DEF r
<1>8. \A n \in k .. Len(q) : r[n + 1] = q[n]
  <2> TAKE n \in k .. Len(q)
  <2>1. r[n + 1] = b[n + 1 - k]
    BY <1>1, <1>7
  <2>2. b[n + 1 - k] = q[n]
    BY <1>1, <1>3
  <2> QED
    BY <2>1, <2>2
<1>9. r[k] = e /\ \A n \in 1 .. k - 1 : r[n] = q[n]
  BY <1>1, <1>6, <1>7
<1> QED
  BY <1>1, <1>5, <1>7, <1>8, <1>9

LEMMA RemoveAtFacts ==
    ASSUME NEW S, NEW q \in Seq(S), NEW k \in 1 .. Len(q)
    PROVE  /\ RemoveAt(q, k) \in Seq(S)
           /\ Len(RemoveAt(q, k)) = Len(q) - 1
           /\ \A n \in 1 .. k - 1 : RemoveAt(q, k)[n] = q[n]
           /\ \A n \in k + 1 .. Len(q) : RemoveAt(q, k)[n - 1] = q[n]
<1> DEFINE a == SubSeq(q, 1, k - 1)
           b == SubSeq(q, k + 1, Len(q))
           r == a \o b
<1>1. Len(q) \in Nat /\ \A n \in 1 .. Len(q) : q[n] \in S
  BY LenProperties, ElementOfSeq
<1>2. /\ a \in Seq(S) /\ Len(a) = k - 1
      /\ \A n \in 1 .. k - 1 : a[n] = q[n]
  BY <1>1, SubSeqProperties, SMTT(30)
<1>3. /\ b \in Seq(S) /\ Len(b) = Len(q) - k
      /\ \A n \in 1 .. Len(q) - k : b[n] = q[k + n]
  BY <1>1, SubSeqProperties, SMTT(30)
<1>4. RemoveAt(q, k) = r
  BY DEF RemoveAt
<1> HIDE DEF a, b
<1>5. /\ r \in Seq(S)
      /\ Len(r) = Len(q) - 1
      /\ \A n \in 1 .. Len(q) - 1 : r[n] = IF n <= k - 1 THEN a[n] ELSE b[n - (k - 1)]
  <2>1. Len(a) + Len(b) = Len(q) - 1
    BY <1>1, <1>2, <1>3
  <2>2. /\ r \in Seq(S) /\ Len(r) = Len(a) + Len(b)
        /\ \A n \in 1 .. Len(a) + Len(b) : r[n] = IF n <= Len(a) THEN a[n] ELSE b[n - Len(a)]
    BY <1>2, <1>3, ConcatProperties
  <2> QED
    BY <1>2, <2>1, <2>2
<1> HIDE DEF r
<1>6. \A n \in k + 1 .. Len(q) : r[n - 1] = q[n]
  <2> TAKE n \in k + 1 .. Len(q)
  <2>1. r[n - 1] = b[n - k]
    BY <1>1, <1>5
  <2>2. b[n - k] = q[n]
    BY <1>1, <1>3
  <2> QED
    BY <2>1, <2>2
<1>7. \A n \in 1 .. k - 1 : r[n] = q[n]
  BY <1>1, <1>2, <1>5
<1> QED
  BY <1>4, <1>5, <1>6, <1>7

(* Starting a timer leaves the others pending.                              *)
LEMMA AppendKeeps ==
    ASSUME NEW q \in Seq(Timers), NEW t \in Timers
    PROVE  /\ Append(q, t) \in Seq(Timers)
           /\ Has(Append(q, t), t)
           /\ \A u : Has(q, u) => Has(Append(q, t), u)
<1>1. Len(q) \in Nat
  BY LenProperties
<1> QED
  BY <1>1, AppendProperties DEF Has

(* When the first timer has fired the others are still pending.             *)
LEMMA TailKeeps ==
    ASSUME NEW q \in Seq(Timers), q # <<>>
    PROVE  /\ Tail(q) \in Seq(Timers)
           /\ \A u : Has(q, u) /\ u # Head(q) => Has(Tail(q), u)
<1>1. Len(q) \in Nat /\ Len(q) > 0
  BY EmptySeq, LenProperties
<1>2. /\ Tail(q) \in Seq(Timers) /\ Len(Tail(q)) = Len(q) - 1
      /\ \A n \in 1 .. Len(Tail(q)) : Tail(q)[n] = q[n + 1]
  BY HeadTailProperties
<1>3. Head(q) = q[1]
  OBVIOUS
<1>4. ASSUME NEW u, Has(q, u), u # Head(q) PROVE Has(Tail(q), u)
  <2>1. PICK n \in 1 .. Len(q) : q[n] = u
    BY <1>4 DEF Has
  <2>2. n - 1 \in 1 .. Len(Tail(q)) /\ Tail(q)[n - 1] = u
    BY <1>1, <1>2, <1>3, <1>4, <2>1
  <2> QED
    BY <2>2 DEF Has
<1> QED
  BY <1>2, <1>4

(* So are they when a show timer joins them, wherever it does.              *)
LEMMA WithShowKeeps ==
    ASSUME NEW q \in Seq(Timers), NEW v \in Views, NEW r \in WithShow(q, v)
    PROVE  /\ r \in Seq(Timers)
           /\ Has(r, Timer("show", v))
           /\ \A u : Has(q, u) => Has(r, u)
<1>1. PICK k \in 1 .. Len(q) + 1 : r = InsertAt(q, k, Timer("show", v))
  BY DEF WithShow
<1>2. Timer("show", v) \in Timers /\ Len(q) \in Nat
  BY LenProperties DEF Timer, Timers
<1>3. /\ r \in Seq(Timers) /\ Len(r) = Len(q) + 1 /\ r[k] = Timer("show", v)
      /\ \A n \in 1 .. k - 1 : r[n] = q[n]
      /\ \A n \in k .. Len(q) : r[n + 1] = q[n]
  BY <1>1, <1>2, InsertAtFacts
<1>4. Has(r, Timer("show", v))
  BY <1>2, <1>3 DEF Has
<1>5. ASSUME NEW u, Has(q, u) PROVE Has(r, u)
  <2>1. PICK n \in 1 .. Len(q) : q[n] = u
    BY <1>5 DEF Has
  <2>2. CASE n < k
    BY <1>2, <1>3, <2>1, <2>2 DEF Has
  <2>3. CASE n >= k
    <3>1. n + 1 \in 1 .. Len(r) /\ r[n + 1] = u
      BY <1>2, <1>3, <2>1, <2>3
    <3> QED
      BY <3>1 DEF Has
  <2> QED
    BY <1>2, <2>2, <2>3
<1> QED
  BY <1>3, <1>4, <1>5

(* And when a debounced timer starts again.                                 *)
LEMMA RestartedKeeps ==
    ASSUME NEW q \in Seq(Timers), NEW t \in Timers, NEW r \in Restarted(q, t)
    PROVE  /\ r \in Seq(Timers)
           /\ \A u : Has(q, u) => Has(r, u)
<1>1. CASE r = Append(q, t)
  BY <1>1, AppendKeeps
<1>2. ASSUME NEW k \in 1 .. Len(q), q[k] = t, r = Append(RemoveAt(q, k), t)
      PROVE  r \in Seq(Timers) /\ \A u : Has(q, u) => Has(r, u)
  <2>1. Len(q) \in Nat
    BY LenProperties
  <2>2. /\ RemoveAt(q, k) \in Seq(Timers) /\ Len(RemoveAt(q, k)) = Len(q) - 1
        /\ \A n \in 1 .. k - 1 : RemoveAt(q, k)[n] = q[n]
        /\ \A n \in k + 1 .. Len(q) : RemoveAt(q, k)[n - 1] = q[n]
    BY RemoveAtFacts
  <2>3. /\ r \in Seq(Timers) /\ Has(r, t)
        /\ \A u : Has(RemoveAt(q, k), u) => Has(r, u)
    BY <1>2, <2>2, AppendKeeps
  <2>4. ASSUME NEW u, Has(q, u) PROVE Has(r, u)
    <3>1. PICK n \in 1 .. Len(q) : q[n] = u
      BY <2>4 DEF Has
    <3>2. CASE n = k
      BY <1>2, <2>3, <3>1, <3>2
    <3>3. CASE n < k
      <4>1. n \in 1 .. Len(RemoveAt(q, k)) /\ RemoveAt(q, k)[n] = u
        BY <2>1, <2>2, <3>1, <3>3
      <4> QED
        BY <2>3, <4>1 DEF Has
    <3>4. CASE n > k
      <4>1. n - 1 \in 1 .. Len(RemoveAt(q, k)) /\ RemoveAt(q, k)[n - 1] = u
        BY <2>1, <2>2, <3>1, <3>4
      <4> QED
        BY <2>3, <4>1 DEF Has
    <3> QED
      BY <2>1, <3>2, <3>3, <3>4
  <2> QED
    BY <2>3, <2>4
<1> QED
  BY <1>1, <1>2 DEF Restarted

-----------------------------------------------------------------------------
(* The invariant, one view at a time: q is the queue of timers, w the       *)
(* members of view v.                                                       *)

ViewOK(v, w, q) ==
    /\ w.isWaitingFrameRender <=> w.navigation # "idle"
    /\ w.deferredPageRequest # NoRequest =>
        \/ w.isWaitingFrameRender
        \/ /\ w.deferredPageRequest.spineItem = w.currentSpineItem
           /\ Has(q, Timer("measure", v))
           /\ w.html = "attached" /\ ~w.hidden
    /\ w.currentSpineItem \in Items
    /\ w.html = "attached" => w.document \in Items
    /\ w.navigation = "committed" => w.document = w.currentSpineItem /\ w.html # "attached"
    /\ ~w.isWaitingFrameRender => w.document = w.currentSpineItem /\ w.html = "attached"

HiddenOK(v, w, q) ==
    /\ w.hidden => Has(q, Timer("show", v))
    /\ w.left = OffScreen =>
          Has(q, Timer("measure", v)) \/ Has(q, Timer("show", v)) \/ w.cutShort
    /\ w.html = "undefined" => w.left # OffScreen

IInv == /\ TypeOK
        /\ currentView # 0 => ViewOK(currentView, views[currentView], timers)
        /\ \A v \in Views : HiddenOK(v, views[v], timers)

LEMMA InvariantByView ==
    TypeOK => (IInv <=> /\ DeferredIsServed /\ DeferredIsSighted
                        /\ HiddenIsShownAgain /\ FramesOK)
<1> SUFFICES ASSUME TypeOK
             PROVE  IInv <=> /\ DeferredIsServed /\ DeferredIsSighted
                             /\ HiddenIsShownAgain /\ FramesOK
  OBVIOUS
<1>1. (\A v \in Views : HiddenOK(v, views[v], timers))
        <=> /\ HiddenIsShownAgain
            /\ \A v \in Views : views[v].html = "undefined" => views[v].left # OffScreen
  BY DEF HiddenOK, HiddenIsShownAgain, Pending
<1>2. ((currentView # 0 => ViewOK(currentView, views[currentView], timers))
         /\ \A v \in Views : views[v].html = "undefined" => views[v].left # OffScreen)
        <=> (DeferredIsServed /\ DeferredIsSighted /\ FramesOK)
  BY DEF ViewOK, DeferredIsServed, DeferredIsSighted, FramesOK, Pending, Sighted, View0
<1> QED
  BY <1>1, <1>2 DEF IInv

(* More pending timers do no harm, and resize timers do not matter.         *)
Keeps(q, r) ==
    \A k \in {"measure", "show"} : \A v : Has(q, Timer(k, v)) => Has(r, Timer(k, v))

LEMMA ViewKept ==
    ASSUME NEW v, NEW w, NEW q, NEW r, Keeps(q, r)
    PROVE  /\ ViewOK(v, w, q) => ViewOK(v, w, r)
           /\ HiddenOK(v, w, q) => HiddenOK(v, w, r)
BY DEF ViewOK, HiddenOK, Keeps

-----------------------------------------------------------------------------
(* Requests and the effect of openPage.                                     *)

LEMMA RequestTypes ==
    ASSUME NEW i \in Items, NEW p \in -1 .. MaxColumns
    PROVE  /\ PageIndex(i, p) \in Requests /\ NoTarget(i) \in Requests
           /\ FirstPage(i) \in Requests /\ LastPage(i) \in Requests
           /\ Unreadable(i) \in Requests
<1>1. 0 \in -1 .. MaxColumns
  BY ReflowableViewAssumption
<1> QED
  BY <1>1 DEF PageIndex, NoTarget, FirstPage, LastPage, Unreadable, Requests

LEMMA CallersRequestTypes == ElementRequests \subseteq Requests /\ BookRequests \subseteq Requests
<1>1. 0 \in -1 .. MaxColumns
  BY ReflowableViewAssumption
<1> QED
  BY <1>1, RequestTypes DEF ElementRequests, BookRequests

(* No request is NoRequest.                                                 *)
LEMMA RequestIsOne ==
    ASSUME NEW req \in Requests
    PROVE  req # NoRequest /\ req.spineItem \in Items
BY SpineAssumption DEF Requests, NoRequest, NoItem, Items

Opened(w, w2, req) ==
    \/ /\ w.isWaitingFrameRender
       /\ w2 = [w EXCEPT !.deferredPageRequest = req]
    \/ /\ ~w.isWaitingFrameRender
       /\ req.spineItem # w.currentSpineItem
       /\ w2 = [w EXCEPT !.deferredPageRequest = req, !.currentSpineItem = req.spineItem,
                         !.isWaitingFrameRender = TRUE, !.navigation = "requested"]
    \/ /\ ~w.isWaitingFrameRender
       /\ req.spineItem = w.currentSpineItem
       /\ w2 = w \/ \E n \in Nat : w2 = [w EXCEPT !.left = n, !.cutShort = FALSE]

LEMMA OpenPageEffect ==
    ASSUME NEW v, NEW i \in PaginationInfos, NEW w \in View, NEW req \in Requests,
           openPage(v, i, w, req)
    PROVE  \E i2 \in PaginationInfos, w2 \in View : Store(v, i2, w2) /\ Opened(w, w2, req)
<1> DEFINE page == TargetPage(i, req)
<1>1. CASE w.isWaitingFrameRender
  <2> DEFINE w2 == [w EXCEPT !.deferredPageRequest = req]
  <2>1. w2 \in View /\ Opened(w, w2, req)
    BY <1>1 DEF View, Opened
  <2>2. Store(v, i, w2)
    BY <1>1 DEF openPage
  <2> QED
    BY <2>1, <2>2
<1>2. CASE ~w.isWaitingFrameRender /\ req.spineItem # w.currentSpineItem
  <2> DEFINE i2 == [i EXCEPT !.currentSpreadIndex = 0]
             w1 == [w EXCEPT !.deferredPageRequest = req]
             w2 == [w1 EXCEPT !.currentSpineItem = req.spineItem,
                              !.isWaitingFrameRender = TRUE, !.navigation = "requested"]
  <2>1. w1 \in View /\ w1.currentSpineItem = w.currentSpineItem
    BY DEF View
  <2>2. w2 \in View /\ i2 \in PaginationInfos
    BY <2>1, RequestIsOne DEF View, Navigation, PaginationInfos
  <2>3. w2 = [w EXCEPT !.deferredPageRequest = req, !.currentSpineItem = req.spineItem,
                       !.isWaitingFrameRender = TRUE, !.navigation = "requested"]
    BY DEF View
  <2>4. Store(v, i2, w2)
    BY <1>2, <2>1 DEF openPage, loadSpineItem
  <2> QED
    BY <1>2, <2>2, <2>3, <2>4 DEF Opened
<1>3. CASE ~w.isWaitingFrameRender /\ req.spineItem = w.currentSpineItem /\ ~IsPage(i, page)
  <2>1. Store(v, i, w)
    BY <1>3 DEF openPage
  <2> QED
    BY <1>3, <2>1 DEF Opened
<1>4. CASE ~w.isWaitingFrameRender /\ req.spineItem = w.currentSpineItem /\ IsPage(i, page)
  <2> DEFINE i2 == AtPage(i, page)
             w2 == Redrawn(i2, w)
  <2>1. Store(v, i2, w2)
    BY <1>4 DEF openPage
  <2>2. page \in Nat
    BY <1>4 DEF IsPage, TargetPage, PaginationInfos, Requests
  <2>3. i.visibleColumnCount \in {1, 2}
    BY DEF PaginationInfos
  <2>4. page \div i.visibleColumnCount \in Nat
    BY <2>2, <2>3, SpreadArithmetic
  <2>5. i2 \in PaginationInfos /\ i2.visibleColumnCount \in {1, 2} /\ i2.currentSpreadIndex \in Nat
    BY <2>4 DEF AtPage, PaginationInfos
  <2>6. i2.visibleColumnCount * i2.currentSpreadIndex \in Nat
    BY <2>5
  <2>7. /\ w2 \in View
        /\ w2 = w \/ \E n \in Nat : w2 = [w EXCEPT !.left = n, !.cutShort = FALSE]
    <3>1. CASE w.html = "undefined"
      BY <3>1 DEF Redrawn
    <3>2. CASE w.html # "undefined"
      <4> DEFINE n == i2.visibleColumnCount * i2.currentSpreadIndex
      <4>1. w2 = [w EXCEPT !.left = n, !.cutShort = FALSE]
        BY <3>2 DEF Redrawn
      <4>2. n \in Nat /\ n \in Int
        BY <2>6
      <4> HIDE DEF n, w2
      <4>3. w2 \in View
        BY <4>1, <4>2 DEF View
      <4> QED  BY <4>1, <4>2, <4>3
    <3> QED  BY <3>1, <3>2
  <2> QED
    BY <1>4, <2>1, <2>5, <2>7 DEF Opened
<1> QED
  BY <1>1, <1>2, <1>3, <1>4 DEF View

(* A request that is put off makes the view wait; one that is opened at once *)
(* leaves the view in the middle of no navigation and not off the screen.    *)
LEMMA OpenedKeeps ==
    ASSUME NEW v, NEW q, NEW w \in View, NEW w2 \in View, NEW req \in Requests,
           Opened(w, w2, req)
    PROVE  /\ ViewOK(v, w, q) => ViewOK(v, w2, q)
           /\ HiddenOK(v, w, q) => HiddenOK(v, w2, q)
<1>1. CASE w2 = [w EXCEPT !.deferredPageRequest = req] /\ w.isWaitingFrameRender
  BY <1>1 DEF ViewOK, HiddenOK, View
<1>2. CASE /\ ~w.isWaitingFrameRender /\ req.spineItem # w.currentSpineItem
           /\ w2 = [w EXCEPT !.deferredPageRequest = req, !.currentSpineItem = req.spineItem,
                             !.isWaitingFrameRender = TRUE, !.navigation = "requested"]
  BY <1>2, RequestIsOne DEF ViewOK, HiddenOK, View
<1>3. CASE w2 = w
  BY <1>3
<1>4. ASSUME NEW n \in Nat, w2 = [w EXCEPT !.left = n, !.cutShort = FALSE]
      PROVE  /\ ViewOK(v, w, q) => ViewOK(v, w2, q)
             /\ HiddenOK(v, w, q) => HiddenOK(v, w2, q)
  <2>1. n # OffScreen
    BY DEF OffScreen
  <2> QED
    BY <1>4, <2>1 DEF ViewOK, HiddenOK, View
<1> QED
  BY <1>1, <1>2, <1>3, <1>4 DEF Opened

(* The first request of a new view is for an item the view does not have.    *)
LEMMA OpenedInNewView ==
    ASSUME NEW v, NEW q, NEW w2 \in View, NEW req \in Requests, Opened(NewView, w2, req)
    PROVE  ViewOK(v, w2, q) /\ HiddenOK(v, w2, q)
<1>1. req.spineItem # NoItem /\ req.spineItem \in Items
  BY RequestIsOne, SpineAssumption DEF NoItem, Items
<1>2. w2 = [NewView EXCEPT !.deferredPageRequest = req, !.currentSpineItem = req.spineItem,
                           !.isWaitingFrameRender = TRUE, !.navigation = "requested"]
  BY <1>1 DEF Opened, NewView
<1>3. OffScreen # 0
  BY DEF OffScreen
<1> QED
  BY <1>1, <1>2, <1>3 DEF ViewOK, HiddenOK, NewView

-----------------------------------------------------------------------------
(* Every step stores one view or none, and keeps the timers of the others.   *)

OtherTypes == /\ lastViewPortSize \in Sizes \cup {0}
              /\ windowSize \in Sizes
              /\ thrown \in BOOLEAN
              /\ package \in BOOLEAN
              /\ isSyntheticSpread \in BOOLEAN
              /\ viewCount \in Views \cup {0}
              /\ calls \in 0 .. MaxCalls

KeepsOthers(v, q, r) ==
    \A k \in {"measure", "show"} : \A u : u # v /\ Has(q, Timer(k, u)) => Has(r, Timer(k, u))

LEMMA StoreKeeps ==
    ASSUME IInv, NEW v \in Views, NEW i2 \in PaginationInfos, NEW w2 \in View,
           Store(v, i2, w2),
           timers' \in Seq(Timers), KeepsOthers(v, timers, timers'),
           HiddenOK(v, w2, timers'),
           currentView' \in {0, v, currentView},
           currentView' = v => ViewOK(v, w2, timers'),
           OtherTypes'
    PROVE  IInv'
<1>1. views \in [Views -> View] /\ currentView \in Views \cup {0}
  BY DEF IInv, TypeOK
<1>2. /\ views' \in [Views -> View] /\ views'[v] = w2
      /\ \A u \in Views \ {v} : views'[u] = views[u]
  BY <1>1 DEF Store
<1>3. TypeOK'
  BY <1>1, <1>2 DEF TypeOK, OtherTypes, Store
<1>4. ASSUME NEW u \in Views PROVE HiddenOK(u, views'[u], timers')
  <2>1. CASE u = v
    BY <1>2, <2>1
  <2>2. CASE u # v
    <3>1. HiddenOK(u, views[u], timers)
      BY DEF IInv
    <3> QED
      BY <1>2, <2>2, <3>1 DEF HiddenOK, KeepsOthers
  <2> QED
    BY <2>1, <2>2
<1>5. ASSUME currentView' # 0 PROVE ViewOK(currentView', views'[currentView'], timers')
  <2>1. CASE currentView' = v
    BY <1>2, <2>1
  <2>2. CASE currentView' # v
    <3>1. currentView' = currentView /\ ViewOK(currentView, views[currentView], timers)
      BY <1>5, <2>2 DEF IInv
    <3>2. views'[currentView'] = views[currentView]
      BY <1>1, <1>2, <1>5, <2>2, <3>1
    <3> QED
      BY <2>2, <3>1, <3>2 DEF ViewOK, KeepsOthers
  <2> QED
    BY <2>1, <2>2
<1> QED
  BY <1>3, <1>4, <1>5 DEF IInv

(* Steps that store no view.                                                 *)
LEMMA NoStoreKeeps ==
    ASSUME IInv, UNCHANGED <<paginationInfo, views>>,
           timers' \in Seq(Timers), Keeps(timers, timers'),
           currentView' \in {0, currentView}, OtherTypes'
    PROVE  IInv'
<1>1. TypeOK'
  BY DEF IInv, TypeOK, OtherTypes
<1>2. \A v \in Views : HiddenOK(v, views[v], timers')
  BY ViewKept DEF IInv
<1>3. currentView # 0 => ViewOK(currentView, views[currentView], timers')
  BY ViewKept DEF IInv
<1> QED
  BY <1>1, <1>2, <1>3 DEF IInv

(* A request opened in view v, by any handler that touches no other view.    *)
LEMMA OpenPageKeeps ==
    ASSUME IInv, NEW v \in Views, NEW i \in PaginationInfos, NEW w \in View,
           NEW req \in Requests,
           openPage(v, i, w, req),
           timers' \in Seq(Timers), KeepsOthers(v, timers, timers'),
           w = NewView \/ HiddenOK(v, w, timers'),
           currentView' \in {0, v, currentView},
           w = NewView \/ (currentView' = v => ViewOK(v, w, timers')),
           OtherTypes'
    PROVE  IInv'
<1>1. PICK i2 \in PaginationInfos, w2 \in View : Store(v, i2, w2) /\ Opened(w, w2, req)
  BY OpenPageEffect
<1>2. HiddenOK(v, w2, timers')
  BY <1>1, OpenedKeeps, OpenedInNewView
<1>3. currentView' = v => ViewOK(v, w2, timers')
  BY <1>1, OpenedKeeps, OpenedInNewView
<1> QED
  BY <1>1, <1>2, <1>3, StoreKeeps

-----------------------------------------------------------------------------
(* The timers and the iframe.                                                *)

LEMMA RedrawnKeeps ==
    ASSUME NEW v, NEW q, NEW i \in PaginationInfos, NEW w \in View
    PROVE  /\ Redrawn(i, w) \in View
           /\ ViewOK(v, w, q) => ViewOK(v, Redrawn(i, w), q)
           /\ HiddenOK(v, w, q) => HiddenOK(v, Redrawn(i, w), q)
           /\ w.html # "undefined" => Redrawn(i, w).left # OffScreen
           /\ w.html = "undefined" => Redrawn(i, w) = w
<1>1. /\ i.visibleColumnCount * i.currentSpreadIndex \in Int
      /\ i.visibleColumnCount * i.currentSpreadIndex >= -2
  <2>1. i.visibleColumnCount \in {1, 2} /\ i.currentSpreadIndex \in Nat \cup {-1}
    BY DEF PaginationInfos
  <2>2. CASE i.visibleColumnCount = 1
    BY <2>1, <2>2
  <2>3. CASE i.visibleColumnCount = 2
    BY <2>1, <2>3
  <2> QED
    BY <2>1, <2>2, <2>3
<1> DEFINE offset == i.visibleColumnCount * i.currentSpreadIndex
<1>2. offset # OffScreen
  BY <1>1 DEF OffScreen
<1> HIDE DEF offset
<1>3. CASE w.html = "undefined"
  BY <1>3 DEF Redrawn
<1>4. CASE w.html # "undefined"
  <2>1. Redrawn(i, w) = [w EXCEPT !.left = offset, !.cutShort = FALSE] /\ offset \in Int
    BY <1>1, <1>4 DEF Redrawn, offset
  <2>2. Redrawn(i, w) \in View /\ Redrawn(i, w).left # OffScreen
    BY <1>2, <2>1 DEF View
  <2>3. ViewOK(v, w, q) => ViewOK(v, Redrawn(i, w), q)
    BY <2>1 DEF View, ViewOK
  <2>4. HiddenOK(v, w, q) => HiddenOK(v, Redrawn(i, w), q)
    BY <2>1, <2>2 DEF View, HiddenOK
  <2> QED
    BY <1>4, <2>2, <2>3, <2>4
<1> QED
  BY <1>3, <1>4

(* A measurement gives a number of columns there can be.                     *)
LEMMA MeasuredTypes ==
    ASSUME IInv, NEW v \in Views, NEW c \in MeasuredColumns(v)
    PROVE  Measured(c) \in PaginationInfos
<1> DEFINE n == paginationInfo.visibleColumnCount
           s == paginationInfo.columnSize
<1>1. n \in {1, 2} /\ s \in Sizes \cup {0} /\ paginationInfo \in PaginationInfos
  BY DEF IInv, TypeOK, PaginationInfos
<1>2. c \in 0 .. MaxColumns + 1
  <2>1. CASE Sighted(v) /\ s # 0
    <3>1. views[v].document \in Items
      BY <2>1, ReflowableViewAssumption DEF Sighted, IInv, ViewOK, Views
    <3>2. ColumnsOf[<<views[v].document, n, s>>] \in 1 .. MaxColumns
      BY <1>1, <2>1, <3>1, ReflowableViewAssumption
    <3>3. c = ColumnsOf[<<views[v].document, n, s>>]
      BY <2>1 DEF MeasuredColumns
    <3> QED
      BY <3>2, <3>3, ReflowableViewAssumption
  <2>2. CASE Sighted(v) /\ s = 0
    BY <1>1, <2>2, ReflowableViewAssumption DEF MeasuredColumns
  <2>3. CASE ~Sighted(v)
    BY <1>1, <2>3, ReflowableViewAssumption DEF MeasuredColumns
  <2> QED
    BY <2>1, <2>2, <2>3
<1>3. CeilDiv(c, n) \in Nat
  BY <1>1, <1>2, SpreadArithmetic
<1> DEFINE spreads == CeilDiv(c, n)
           index   == IF paginationInfo.currentSpreadIndex >= spreads THEN spreads - 1
                      ELSE paginationInfo.currentSpreadIndex
<1>4. index \in Nat \cup {-1}
  <2> HIDE DEF spreads
  <2>1. spreads \in Nat /\ paginationInfo.currentSpreadIndex \in Nat \cup {-1}
    BY <1>1, <1>3 DEF PaginationInfos, spreads
  <2> QED
    BY <2>1
<1>5. Measured(c) = [paginationInfo EXCEPT !.columnCount = c, !.spreadCount = spreads,
                                           !.currentSpreadIndex = index]
  <2> HIDE DEF spreads
  <2>1. Measured(c) =
          [paginationInfo EXCEPT !.columnCount = c, !.spreadCount = spreads,
             !.currentSpreadIndex = IF @ >= spreads THEN spreads - 1 ELSE @]
    BY DEF Measured, spreads
  <2> QED
    BY <1>1, <2>1 DEF PaginationInfos
<1> HIDE DEF index, spreads
<1> QED
  BY <1>1, <1>2, <1>3, <1>4, <1>5 DEF PaginationInfos, spreads

(* What the timers and the iframe leave to the reader keeps its types.       *)
LEMMA BrowserTypes ==
    ASSUME IInv, thrown' \in BOOLEAN, UNCHANGED <<currentView, windowSize>>,
           UNCHANGED readerVars,
           lastViewPortSize' \in Sizes \cup {0}
    PROVE  OtherTypes' /\ currentView' = currentView
<1>1. /\ windowSize' \in Sizes /\ viewCount' \in Views \cup {0} /\ calls' \in 0 .. MaxCalls
      /\ currentView' = currentView
  BY DEF IInv, TypeOK, readerVars
<1>2. package' \in BOOLEAN /\ isSyntheticSpread' \in BOOLEAN /\ thrown' \in BOOLEAN
  BY Zenon DEF IInv, TypeOK, readerVars
<1> QED
  BY <1>1, <1>2 DEF OtherTypes

(* What the invariant says of one view.                                      *)
LEMMA OfView ==
    ASSUME IInv, NEW v \in Views
    PROVE  /\ timers \in Seq(Timers) /\ views[v] \in View
           /\ paginationInfo \in PaginationInfos
           /\ HiddenOK(v, views[v], timers)
           /\ currentView = v => ViewOK(v, views[v], timers)
           /\ lastViewPortSize \in Sizes \cup {0}
           /\ ViewportOf(v) \in Sizes \cup {0}
<1>1. v # 0
  BY DEF Views
<1> QED
  BY <1>1 DEF IInv, TypeOK, ViewportOf

(* A measure timer lays the document out or is cut short by a lookup that   *)
(* throws.                                                                  *)
LaidOutView(w)  == [w EXCEPT !.hidden = TRUE, !.cutShort = FALSE]
CutShortView(w) == [w EXCEPT !.deferredPageRequest = NoRequest, !.cutShort = TRUE]

LaysOut(v, c) == /\ openDeferredElement(v, Measured(c), LaidOutView(views[v]))
                 /\ timers' \in WithShow(Tail(timers), v)
CutsShort(v, c) == /\ LookupThrows(views[v], views[v].deferredPageRequest)
                   /\ Store(v, Measured(c), CutShortView(views[v]))
                   /\ timers' = Tail(timers)

LEMMA HowMeasured ==
    ASSUME NEW v, MeasureTimer(v)
    PROVE  /\ timers # <<>> /\ Head(timers) = Timer("measure", v)
           /\ UNCHANGED <<lastViewPortSize, currentView, windowSize>>
           /\ \E c \in MeasuredColumns(v) : LaysOut(v, c) \/ CutsShort(v, c)
BY DEF MeasureTimer, Fires, LaidOut, CutShort, LaysOut, CutsShort, LaidOutView, CutShortView

(* What they leave alone.                                                   *)
LEMMA MeasuredView ==
    ASSUME NEW w \in View
    PROVE  /\ LaidOutView(w) \in View /\ CutShortView(w) \in View
           /\ LaidOutView(w).deferredPageRequest = w.deferredPageRequest
           /\ CutShortView(w).deferredPageRequest = NoRequest
           /\ \A w2 \in {LaidOutView(w), CutShortView(w)} :
                 /\ w2.currentSpineItem = w.currentSpineItem
                 /\ w2.isWaitingFrameRender = w.isWaitingFrameRender
                 /\ w2.navigation = w.navigation
                 /\ w2.html = w.html /\ w2.document = w.document
BY DEF LaidOutView, CutShortView, View

LEMMA MeasureTimerKeeps ==
    ASSUME IInv, NEW v \in Views, MeasureTimer(v), UNCHANGED readerVars
    PROVE  IInv'
<1> DEFINE w == LaidOutView(views[v])
<1>1. /\ timers \in Seq(Timers) /\ views[v] \in View /\ HiddenOK(v, views[v], timers)
      /\ currentView = v => ViewOK(v, views[v], timers)
      /\ OtherTypes' /\ currentView' = currentView
  <2>1. thrown' \in BOOLEAN
    BY Zenon DEF MeasureTimer, LaidOut, CutShort
  <2>2. UNCHANGED <<lastViewPortSize, currentView, windowSize>>
    BY HowMeasured
  <2> QED
    BY <2>1, <2>2, OfView, BrowserTypes
<1>2. timers # <<>> /\ Head(timers) = Timer("measure", v)
  BY HowMeasured
<1>3. /\ Tail(timers) \in Seq(Timers)
      /\ \A u : Has(timers, u) /\ u # Timer("measure", v) => Has(Tail(timers), u)
  BY <1>1, <1>2, TailKeeps
<1>4. PICK c \in MeasuredColumns(v) : LaysOut(v, c) \/ CutsShort(v, c)
  BY HowMeasured
<1>5. Measured(c) \in PaginationInfos
  BY MeasuredTypes
<1>6. ASSUME LaysOut(v, c) PROVE IInv'
  <2>1. /\ timers' \in Seq(Timers)
        /\ Has(timers', Timer("show", v))
        /\ \A u : Has(Tail(timers), u) => Has(timers', u)
    BY <1>3, <1>6, WithShowKeeps DEF LaysOut
  <2>2. KeepsOthers(v, timers, timers')
    BY <1>3, <2>1 DEF KeepsOthers, Timer
  <2>3. w \in View /\ HiddenOK(v, w, timers')
    BY <1>1, <2>1 DEF LaidOutView, View, HiddenOK
  <2>4. CASE w.deferredPageRequest = NoRequest
    <3>1. Store(v, Measured(c), w)
      BY <1>6, <2>4 DEF LaysOut, openDeferredElement
    <3>2. currentView' = v => ViewOK(v, w, timers')
      BY <1>1, <2>4 DEF LaidOutView, ViewOK, View
    <3> QED
      BY <1>1, <1>5, <2>1, <2>2, <2>3, <3>1, <3>2, StoreKeeps
  <2>5. CASE w.deferredPageRequest # NoRequest
    <3> DEFINE w1 == [w EXCEPT !.deferredPageRequest = NoRequest]
    <3>1. openPage(v, Measured(c), w1, w.deferredPageRequest)
      BY <1>6, <2>5 DEF LaysOut, openDeferredElement
    <3>2. w.deferredPageRequest \in Requests
      BY <2>3, <2>5 DEF View
    <3>3. w1 \in View /\ HiddenOK(v, w1, timers')
      BY <2>3 DEF View, HiddenOK
    <3>4. currentView' = v => ViewOK(v, w1, timers')
      BY <1>1 DEF LaidOutView, ViewOK, View
    <3> HIDE DEF w, w1
    <3> QED
      BY <1>1, <1>5, <2>1, <2>2, <3>1, <3>2, <3>3, <3>4, OpenPageKeeps
  <2> QED
    BY <2>4, <2>5
<1>7. ASSUME CutsShort(v, c) PROVE IInv'
  <2> DEFINE w2 == CutShortView(views[v])
  <2>1. Store(v, Measured(c), w2) /\ timers' = Tail(timers)
    BY <1>7 DEF CutsShort
  <2>2. timers' \in Seq(Timers) /\ KeepsOthers(v, timers, timers')
    BY <1>3, <2>1 DEF KeepsOthers, Timer
  <2>3. Has(timers, Timer("show", v)) => Has(timers', Timer("show", v))
    BY <1>3, <2>1 DEF Timer
  <2>4. w2 \in View /\ HiddenOK(v, w2, timers')
    BY <1>1, <2>3 DEF CutShortView, View, HiddenOK
  <2>5. currentView' = v => ViewOK(v, w2, timers')
    BY <1>1 DEF CutShortView, ViewOK, View
  <2> HIDE DEF w2
  <2> QED
    BY <1>1, <1>5, <2>1, <2>2, <2>4, <2>5, StoreKeeps
<1> QED
  BY <1>4, <1>6, <1>7

LEMMA ShowTimerKeeps ==
    ASSUME IInv, NEW v \in Views, ShowTimer(v), UNCHANGED readerVars
    PROVE  IInv'
<1> DEFINE w  == [views[v] EXCEPT !.hidden = FALSE]
           w2 == Redrawn(paginationInfo, w)
<1>1. /\ timers \in Seq(Timers) /\ views[v] \in View /\ HiddenOK(v, views[v], timers)
      /\ paginationInfo \in PaginationInfos
      /\ currentView = v => ViewOK(v, views[v], timers)
      /\ OtherTypes' /\ currentView' = currentView
  BY OfView, BrowserTypes DEF ShowTimer, Fires
<1>2. timers # <<>> /\ Head(timers) = Timer("show", v) /\ timers' = Tail(timers)
  BY DEF ShowTimer, Fires
<1>3. /\ timers' \in Seq(Timers)
      /\ \A u : Has(timers, u) /\ u # Timer("show", v) => Has(timers', u)
  BY <1>1, <1>2, TailKeeps
<1>4. KeepsOthers(v, timers, timers') /\ Timer("measure", v) # Timer("show", v)
  BY <1>3 DEF KeepsOthers, Timer
<1>5. /\ w \in View /\ w.html = views[v].html /\ w.left = views[v].left /\ ~w.hidden
      /\ currentView = v => ViewOK(v, w, timers')
  BY <1>1, <1>3, <1>4 DEF View, ViewOK
<1>6. /\ w2 \in View /\ ~w2.hidden /\ w2.html = w.html
      /\ currentView = v => ViewOK(v, w2, timers')
  <2>1. w2.hidden = w.hidden /\ w2.html = w.html
    BY <1>5 DEF Redrawn, View
  <2> HIDE DEF w
  <2> QED
    BY <1>1, <1>5, <2>1, RedrawnKeeps
<1>7. w2.left # OffScreen
  <2>1. CASE w.html = "undefined"
    <3>1. w2 = w /\ w.left # OffScreen
      BY <1>1, <1>5, <2>1 DEF HiddenOK, Redrawn
    <3> QED
      BY <3>1
  <2>2. CASE w.html # "undefined"
    <3> HIDE DEF w
    <3> QED
      BY <1>1, <1>5, <2>2, RedrawnKeeps
  <2> QED
    BY <2>1, <2>2
<1>8. HiddenOK(v, w2, timers')
  BY <1>6, <1>7 DEF HiddenOK
<1>9. Store(v, paginationInfo, w2)
  BY DEF ShowTimer
<1> HIDE DEF w, w2
<1> QED
  BY <1>1, <1>3, <1>4, <1>6, <1>8, <1>9, StoreKeeps

(* updatePagination shifts the page off the screen and starts the timer that *)
(* will bring it back, or does neither.                                      *)
LEMMA ShiftKeeps ==
    ASSUME NEW v, NEW q, NEW r, NEW i \in PaginationInfos, NEW w \in View,
           NEW size \in Sizes \cup {0}, Keeps(q, r),
           w.html # "undefined" => Has(r, Timer("measure", v))
    PROVE  /\ Columnized(i, w, size) \in PaginationInfos
           /\ ShiftedOffScreen(w) \in View
           /\ ViewOK(v, w, q) => ViewOK(v, ShiftedOffScreen(w), r)
           /\ HiddenOK(v, w, q) => HiddenOK(v, ShiftedOffScreen(w), r)
<1>1. ViewOK(v, w, q) => ViewOK(v, w, r)
  BY ViewKept
<1>2. HiddenOK(v, w, q) => HiddenOK(v, w, r)
  BY ViewKept
<1>3. Columnized(i, w, size) \in PaginationInfos
  BY DEF Columnized, PaginationInfos
<1>4. CASE w.html = "undefined"
  BY <1>1, <1>2, <1>3, <1>4 DEF ShiftedOffScreen
<1>5. CASE w.html # "undefined"
  <2>1. ShiftedOffScreen(w) = [w EXCEPT !.left = OffScreen]
    BY <1>5 DEF ShiftedOffScreen
  <2>2. ShiftedOffScreen(w) \in View
    BY <2>1 DEF View, OffScreen
  <2>3. ViewOK(v, w, r) => ViewOK(v, ShiftedOffScreen(w), r)
    BY <2>1 DEF View, ViewOK
  <2>4. HiddenOK(v, w, r) => HiddenOK(v, ShiftedOffScreen(w), r)
    BY <1>5, <2>1 DEF View, HiddenOK
  <2> QED
    BY <1>1, <1>2, <1>3, <2>2, <2>3, <2>4
<1> QED
  BY <1>4, <1>5

LEMMA MeasureStarts ==
    ASSUME NEW q \in Seq(Timers), NEW v \in Views
    PROVE  /\ Append(q, Timer("measure", v)) \in Seq(Timers)
           /\ Has(Append(q, Timer("measure", v)), Timer("measure", v))
           /\ Keeps(q, Append(q, Timer("measure", v)))
<1>1. Timer("measure", v) \in Timers
  BY DEF Timer, Timers
<1> QED
  BY <1>1, AppendKeeps DEF Keeps

LEMMA ResizeTimerKeeps ==
    ASSUME IInv, NEW v \in Views, ResizeTimer(v), UNCHANGED readerVars
    PROVE  IInv'
<1>1. /\ timers \in Seq(Timers) /\ views[v] \in View /\ HiddenOK(v, views[v], timers)
      /\ paginationInfo \in PaginationInfos
      /\ currentView = v => ViewOK(v, views[v], timers)
      /\ lastViewPortSize' \in Sizes \cup {0}
  BY OfView DEF ResizeTimer
<1>2. OtherTypes' /\ currentView' = currentView
  BY <1>1, BrowserTypes DEF ResizeTimer, Fires
<1>3. timers # <<>> /\ Head(timers) = Timer("resize", v)
  BY DEF ResizeTimer, Fires
<1>4. Tail(timers) \in Seq(Timers) /\ Keeps(timers, Tail(timers))
  BY <1>1, <1>3, TailKeeps DEF Keeps, Timer
<1>5. CASE lastViewPortSize' # lastViewPortSize /\ views[v].html # "undefined"
  <2> DEFINE i2 == Columnized(paginationInfo, views[v], lastViewPortSize')
             w2 == ShiftedOffScreen(views[v])
  <2>1. timers' = Append(Tail(timers), Timer("measure", v)) /\ Store(v, i2, w2)
    BY <1>5 DEF ResizeTimer
  <2>2. /\ timers' \in Seq(Timers) /\ Has(timers', Timer("measure", v))
        /\ Keeps(timers, timers')
    BY <1>4, <2>1, MeasureStarts DEF Keeps
  <2>3. /\ i2 \in PaginationInfos /\ w2 \in View /\ HiddenOK(v, w2, timers')
        /\ currentView = v => ViewOK(v, w2, timers')
    BY <1>1, <2>2, ShiftKeeps
  <2>4. KeepsOthers(v, timers, timers')
    BY <2>2 DEF KeepsOthers, Keeps
  <2> HIDE DEF i2, w2
  <2> QED
    BY <1>2, <2>1, <2>2, <2>3, <2>4, StoreKeeps
<1>6. CASE ~(lastViewPortSize' # lastViewPortSize /\ views[v].html # "undefined")
  <2>1. timers' = Tail(timers) /\ UNCHANGED <<paginationInfo, views>>
    BY <1>6 DEF ResizeTimer
  <2> QED
    BY <1>2, <1>4, <2>1, NoStoreKeeps
<1> QED
  BY <1>5, <1>6

LEMMA CommitNavigationKeeps ==
    ASSUME IInv, NEW v \in Views, CommitNavigation(v), UNCHANGED readerVars
    PROVE  IInv'
<1> DEFINE w  == views[v]
           w2 == Committed(w)
<1>1. /\ timers \in Seq(Timers) /\ w \in View /\ HiddenOK(v, w, timers)
      /\ paginationInfo \in PaginationInfos
      /\ lastViewPortSize' \in Sizes \cup {0}
  BY OfView DEF CommitNavigation
<1>2. OtherTypes' /\ currentView' = currentView /\ timers' = timers
  BY <1>1, BrowserTypes DEF CommitNavigation
<1>3. ViewOK(v, w, timers) /\ w.navigation = "requested"
  BY OfView DEF CommitNavigation
<1>4. Store(v, paginationInfo, w2)
  BY DEF CommitNavigation
<1>5. w2 \in View
  BY <1>1 DEF Committed, View, HtmlStates, Navigation
<1>6. ViewOK(v, w2, timers)
  BY <1>1, <1>3 DEF Committed, ViewOK, View
<1>7. HiddenOK(v, w2, timers)
  BY <1>1 DEF Committed, HiddenOK, View
<1>8. KeepsOthers(v, timers, timers)
  BY DEF KeepsOthers
<1> HIDE DEF w2
<1> QED
  BY <1>1, <1>2, <1>4, <1>5, <1>6, <1>7, <1>8, StoreKeeps

LEMMA onIFrameLoadKeeps ==
    ASSUME IInv, NEW v \in Views, onIFrameLoad(v), UNCHANGED readerVars
    PROVE  IInv'
<1> DEFINE w == FrameRendered(views[v])
<1>1. /\ timers \in Seq(Timers) /\ views[v] \in View /\ HiddenOK(v, views[v], timers)
      /\ paginationInfo \in PaginationInfos
      /\ lastViewPortSize \in Sizes \cup {0} /\ ViewportOf(v) \in Sizes \cup {0}
  BY OfView
<1>2. ViewOK(v, views[v], timers) /\ views[v].navigation = "committed"
  BY OfView DEF onIFrameLoad
<1>3. /\ w \in View /\ w.isWaitingFrameRender = FALSE /\ w.navigation = "idle"
      /\ w.document = w.currentSpineItem /\ w.currentSpineItem \in Items
      /\ w.html # "attached"
  BY <1>1, <1>2 DEF FrameRendered, View, Navigation, ViewOK
<1>4. HiddenOK(v, w, timers)
  BY <1>1 DEF HiddenOK, View, FrameRendered
<1>5. CASE NewRequestCame(w)
  <2> DEFINE item == w.deferredPageRequest.spineItem
             i2   == [paginationInfo EXCEPT !.currentSpreadIndex = 0]
             w2   == [w EXCEPT !.currentSpineItem = item, !.isWaitingFrameRender = TRUE,
                               !.navigation = "requested"]
  <2>1. item \in Items /\ item # w.currentSpineItem
    BY <1>3, <1>5, RequestIsOne DEF NewRequestCame, View
  <2>2. /\ Store(v, i2, w2) /\ timers' = timers
        /\ UNCHANGED lastViewPortSize
    BY <1>5, <2>1 DEF onIFrameLoad, loadSpineItem
  <2>3. OtherTypes' /\ currentView' = currentView
    BY <1>1, <2>2, BrowserTypes DEF onIFrameLoad
  <2>4. i2 \in PaginationInfos /\ w2 \in View
    BY <1>1, <1>3, <2>1 DEF PaginationInfos, View, Navigation
  <2>5. ViewOK(v, w2, timers)
    BY <1>3, <2>1 DEF View, ViewOK
  <2>6. HiddenOK(v, w2, timers)
    BY <1>3, <1>4 DEF View, HiddenOK
  <2>7. KeepsOthers(v, timers, timers)
    BY DEF KeepsOthers
  <2> HIDE DEF w, i2, w2
  <2> QED
    BY <1>1, <2>2, <2>3, <2>4, <2>5, <2>6, <2>7, StoreKeeps
<1>6. CASE ~NewRequestCame(w)
  <2> DEFINE w1 == [w EXCEPT !.html = "attached", !.hidden = FALSE]
             i2 == Columnized(paginationInfo, w1, ViewportOf(v))
             w2 == ShiftedOffScreen(w1)
  <2>1. applyStyles(v, w1)
    BY <1>6 DEF onIFrameLoad
  <2>2. w1 \in View /\ w1.html = "attached"
    BY <1>3 DEF View, HtmlStates
  <2>3. /\ Store(v, i2, w2) /\ lastViewPortSize' = ViewportOf(v)
        /\ timers' = Append(timers, Timer("measure", v))
    BY <2>1, <2>2 DEF applyStyles, updatePagination, StartMeasure
  <2>4. OtherTypes' /\ currentView' = currentView
    BY <1>1, <2>3, BrowserTypes DEF onIFrameLoad
  <2>5. /\ timers' \in Seq(Timers) /\ Has(timers', Timer("measure", v))
        /\ Keeps(timers, timers')
    BY <1>1, <2>3, MeasureStarts
  <2>6. ViewOK(v, w1, timers')
    BY <1>3, <1>6, <2>5 DEF View, ViewOK, NewRequestCame
  <2>7. HiddenOK(v, w1, timers')
    BY <1>3, <2>5 DEF View, HiddenOK
  <2>8. Keeps(timers', timers')
    BY DEF Keeps
  <2>9. /\ i2 \in PaginationInfos /\ w2 \in View
        /\ HiddenOK(v, w2, timers') /\ ViewOK(v, w2, timers')
    BY <1>1, <2>2, <2>5, <2>6, <2>7, <2>8, ShiftKeeps
  <2>10. KeepsOthers(v, timers, timers')
    BY <2>5 DEF KeepsOthers, Keeps
  <2> HIDE DEF w, w1, i2, w2
  <2> QED
    BY <2>3, <2>4, <2>5, <2>9, <2>10, StoreKeeps
<1> QED
  BY <1>5, <1>6

-----------------------------------------------------------------------------
(* The reader's calls.                                                       *)

(* A call that leaves an operation's own variables alone keeps their types.  *)
LEMMA CallTypes ==
    ASSUME IInv, Call, thrown' \in BOOLEAN,
           isSyntheticSpread' \in BOOLEAN, package' \in BOOLEAN,
           viewCount' \in Views \cup {0}, windowSize' \in Sizes,
           UNCHANGED lastViewPortSize
    PROVE  OtherTypes'
<1>1. calls' \in 0 .. MaxCalls
  BY ReaderAssumption DEF IInv, TypeOK, Call
<1>2. lastViewPortSize' \in Sizes \cup {0}
  BY DEF IInv, TypeOK
<1> QED
  BY <1>1, <1>2 DEF OtherTypes

LEMMA BooleanTypes ==
    ASSUME IInv
    PROVE  /\ package \in BOOLEAN /\ isSyntheticSpread \in BOOLEAN
           /\ viewCount \in Views \cup {0} /\ windowSize \in Sizes
           /\ timers \in Seq(Timers) /\ currentView \in Views \cup {0}
           /\ paginationInfo \in PaginationInfos
BY Zenon DEF IInv, TypeOK

LEMMA ThrowsKeeps ==
    ASSUME IInv, Call, Throws
    PROVE  IInv'
<1>1. OtherTypes'
  <2>1. thrown' \in BOOLEAN
    BY Zenon DEF Throws
  <2>2. /\ UNCHANGED <<lastViewPortSize, windowSize, package, isSyntheticSpread, viewCount>>
    BY DEF Throws
  <2> QED
    BY <2>1, <2>2, BooleanTypes, CallTypes
<1>2. UNCHANGED <<paginationInfo, views, timers, currentView>>
  BY DEF Throws
<1> QED
  BY <1>1, <1>2, BooleanTypes, NoStoreKeeps DEF Keeps

LEMMA openInNewViewKeeps ==
    ASSUME IInv, NEW req \in Requests, NEW synthetic \in BOOLEAN,
           openInNewView(req, synthetic), UNCHANGED timers, OtherTypes'
    PROVE  IInv'
<1> DEFINE v == viewCount + 1
           i == [paginationInfo EXCEPT !.visibleColumnCount = visibleColumns(synthetic)]
<1>1. /\ v \in Views /\ currentView' = v
      /\ openPage(v, i, NewView, req)
  BY DEF openInNewView
<1>2. i \in PaginationInfos
  BY BooleanTypes DEF PaginationInfos, visibleColumns
<1>3. NewView \in View
  BY DEF View, NewView, HtmlStates, Navigation
<1>4. timers' \in Seq(Timers) /\ KeepsOthers(v, timers, timers')
  BY BooleanTypes DEF KeepsOthers
<1> HIDE DEF v, i
<1> QED
  BY <1>1, <1>2, <1>3, <1>4, OpenPageKeeps

LEMMA readerOpenPageKeeps ==
    ASSUME IInv, Call, NEW req \in Requests, readerOpenPage(req)
    PROVE  IInv'
<1>1. /\ thrown' \in BOOLEAN
      /\ UNCHANGED <<lastViewPortSize, windowSize, timers, package, isSyntheticSpread>>
  BY Zenon DEF readerOpenPage
<1>2. viewCount' \in Views \cup {0}
  BY BooleanTypes DEF readerOpenPage, openInNewView
<1>3. OtherTypes'
  BY <1>1, <1>2, BooleanTypes, CallTypes
<1>4. CASE currentView = 0
  <2>1. openInNewView(req, isSyntheticSpread)
    BY <1>4 DEF readerOpenPage
  <2> QED
    BY <1>1, <1>3, <2>1, BooleanTypes, openInNewViewKeeps
<1>5. CASE currentView # 0
  <2>1. /\ openPage(currentView, paginationInfo, views[currentView], req)
        /\ currentView' = currentView /\ timers' = timers
    BY <1>1, <1>5 DEF readerOpenPage
  <2>2. currentView \in Views
    BY <1>5, BooleanTypes
  <2>3. /\ timers' \in Seq(Timers) /\ KeepsOthers(currentView, timers, timers')
    BY <2>1, BooleanTypes DEF KeepsOthers
  <2> QED
    BY <1>3, <2>1, <2>2, <2>3, OfView, OpenPageKeeps
<1> QED
  BY <1>4, <1>5

LEMMA turnToKeeps ==
    ASSUME IInv, currentView # 0, NEW index \in Nat, turnTo(currentView, index),
           UNCHANGED <<timers, currentView>>, OtherTypes'
    PROVE  IInv'
<1> DEFINE v  == currentView
           i2 == [paginationInfo EXCEPT !.currentSpreadIndex = index]
           w2 == Redrawn(i2, views[v])
<1>1. v \in Views /\ i2 \in PaginationInfos /\ timers' \in Seq(Timers)
  BY BooleanTypes DEF PaginationInfos
<1>2. w2 \in View /\ ViewOK(v, w2, timers') /\ HiddenOK(v, w2, timers')
  BY <1>1, OfView, RedrawnKeeps
<1>3. Store(v, i2, w2) /\ KeepsOthers(v, timers, timers')
  BY DEF turnTo, KeepsOthers
<1> HIDE DEF i2, w2
<1> QED
  BY <1>1, <1>2, <1>3, StoreKeeps

(* The neighbour of an item is an item or there is none.                     *)
LEMMA Neighbours ==
    ASSUME NEW i
    PROVE  /\ nextItem(i) \in Items \cup {NoItem}
           /\ prevItem(i) \in Items \cup {NoItem}
BY DEF nextItem, prevItem, isValidIndex

(* A view's page turn, called by the reader.                                 *)
LEMMA PageTurnKeeps ==
    ASSUME IInv, Call, currentView # 0,
           openPageNext(currentView) \/ openPagePrev(currentView),
           UNCHANGED <<lastViewPortSize, currentView, windowSize, timers, package,
                       isSyntheticSpread, viewCount>>
    PROVE  IInv'
<1> DEFINE v == currentView
           w == views[currentView]
<1>1. /\ currentView \in Views /\ w \in View /\ paginationInfo \in PaginationInfos
      /\ timers' = timers /\ timers \in Seq(Timers)
      /\ HiddenOK(v, w, timers) /\ ViewOK(v, w, timers)
  BY OfView, BooleanTypes
<1>2. ASSUME NEW index \in Nat, turnTo(currentView, index) PROVE IInv'
  <2>1. thrown' \in BOOLEAN
    BY <1>2, Zenon DEF turnTo
  <2>2. OtherTypes'
    BY <2>1, BooleanTypes, CallTypes
  <2> QED
    BY <1>2, <2>2, turnToKeeps
<1>3. ASSUME NEW req \in Requests, openPage(v, paginationInfo, w, req), thrown' = FALSE
      PROVE  IInv'
  <2>1. thrown' \in BOOLEAN
    BY <1>3, Zenon
  <2>2. OtherTypes'
    BY <2>1, BooleanTypes, CallTypes
  <2>3. KeepsOthers(v, timers, timers')
    BY DEF KeepsOthers
  <2> QED
    BY <1>1, <1>3, <2>2, <2>3, OpenPageKeeps
<1>4. paginationInfo.currentSpreadIndex \in Nat \cup {-1}
  BY <1>1 DEF PaginationInfos
<1>5. CASE openPageNext(currentView)
  <2> DEFINE next == nextItem(w.currentSpineItem)
  <2>1. CASE paginationInfo.currentSpreadIndex < paginationInfo.spreadCount - 1
    <3>1. /\ turnTo(currentView, paginationInfo.currentSpreadIndex + 1)
          /\ paginationInfo.currentSpreadIndex + 1 \in Nat
      BY <1>4, <1>5, <2>1 DEF openPageNext
    <3> QED
      BY <1>2, <3>1
  <2>2. CASE ~(paginationInfo.currentSpreadIndex < paginationInfo.spreadCount - 1)
    <3>1. next # NoItem /\ openPage(v, paginationInfo, w, FirstPage(next)) /\ thrown' = FALSE
      BY <1>5, <2>2 DEF openPageNext
    <3>2. next \in Items
      BY <3>1, Neighbours
    <3>3. FirstPage(next) \in Requests
      BY <3>2, RequestTypes, ReflowableViewAssumption
    <3> QED
      BY <1>3, <3>1, <3>3
  <2> QED
    BY <2>1, <2>2
<1>6. CASE openPagePrev(currentView)
  <2> DEFINE prev == prevItem(w.currentSpineItem)
  <2>1. CASE paginationInfo.currentSpreadIndex > 0
    <3>1. /\ turnTo(currentView, paginationInfo.currentSpreadIndex - 1)
          /\ paginationInfo.currentSpreadIndex - 1 \in Nat
      BY <1>4, <1>6, <2>1 DEF openPagePrev
    <3> QED
      BY <1>2, <3>1
  <2>2. CASE ~(paginationInfo.currentSpreadIndex > 0)
    <3>1. prev # NoItem /\ openPage(v, paginationInfo, w, LastPage(prev)) /\ thrown' = FALSE
      BY <1>6, <2>2 DEF openPagePrev
    <3>2. prev \in Items
      BY <3>1, Neighbours
    <3>3. LastPage(prev) \in Requests
      BY <3>2, RequestTypes, ReflowableViewAssumption
    <3> QED
      BY <1>3, <3>1, <3>3
  <2> QED
    BY <2>1, <2>2
<1> QED
  BY <1>5, <1>6

LEMMA readerPageTurnKeeps ==
    ASSUME IInv, Call, currentView # 0, readerOpenPageNext \/ readerOpenPagePrev
    PROVE  IInv'
<1> DEFINE item == views[currentView].currentSpineItem
<1>1. CASE readerOpenPageNext
  <2>1. CASE \E p \in OpenPages : p >= paginationInfo.columnCount - 1
    <3>1. nextItem(item) # NoItem /\ readerOpenPage(FirstPage(nextItem(item)))
      BY <1>1, <2>1 DEF readerOpenPageNext
    <3>2. nextItem(item) \in Items
      BY <3>1, Neighbours
    <3>3. FirstPage(nextItem(item)) \in Requests
      BY <3>2, RequestTypes, ReflowableViewAssumption
    <3> QED
      BY <3>1, <3>3, readerOpenPageKeeps
  <2>2. CASE ~\E p \in OpenPages : p >= paginationInfo.columnCount - 1
    BY <1>1, <2>2, PageTurnKeeps DEF readerOpenPageNext
  <2> QED
    BY <2>1, <2>2
<1>2. CASE readerOpenPagePrev
  <2>1. CASE \E p \in OpenPages : p <= 0
    <3>1. prevItem(item) # NoItem /\ readerOpenPage(LastPage(prevItem(item)))
      BY <1>2, <2>1 DEF readerOpenPagePrev
    <3>2. prevItem(item) \in Items
      BY <3>1, Neighbours
    <3>3. LastPage(prevItem(item)) \in Requests
      BY <3>2, RequestTypes, ReflowableViewAssumption
    <3> QED
      BY <3>1, <3>3, readerOpenPageKeeps
  <2>2. CASE ~\E p \in OpenPages : p <= 0
    BY <1>2, <2>2, PageTurnKeeps DEF readerOpenPagePrev
  <2> QED
    BY <2>1, <2>2
<1> QED
  BY <1>1, <1>2

LEMMA BookCallsKeep ==
    ASSUME IInv, BookCalls
    PROVE  IInv'
<1>1. ASSUME NEW synthetic \in BOOLEAN, NEW req \in BookRequests, openBook(synthetic, req)
      PROVE  IInv'
  <2>1. req \in Requests
    BY CallersRequestTypes
  <2>2. /\ openInNewView(req, synthetic)
        /\ UNCHANGED <<lastViewPortSize, windowSize, timers>>
    BY <1>1 DEF openBook
  <2>3. /\ thrown' \in BOOLEAN /\ package' \in BOOLEAN /\ isSyntheticSpread' \in BOOLEAN
    BY <1>1, Zenon DEF openBook
  <2>4. viewCount' \in Views \cup {0} /\ Call
    BY <1>1 DEF openBook, openInNewView
  <2>5. OtherTypes'
    BY <2>2, <2>3, <2>4, BooleanTypes, CallTypes
  <2> QED
    BY <2>1, <2>2, <2>5, openInNewViewKeeps
<1>2. ASSUME NEW synthetic \in BOOLEAN, openBookAtUnknownItem(synthetic)
      PROVE  IInv'
  <2>1. /\ UNCHANGED <<paginationInfo, lastViewPortSize, views, windowSize, timers, viewCount>>
        /\ currentView' = 0 /\ Call
    BY <1>2 DEF openBookAtUnknownItem
  <2>2. /\ thrown' \in BOOLEAN /\ package' \in BOOLEAN /\ isSyntheticSpread' \in BOOLEAN
    BY <1>2, Zenon DEF openBookAtUnknownItem
  <2>3. OtherTypes'
    BY <2>1, <2>2, BooleanTypes, CallTypes
  <2> QED
    BY <2>1, <2>3, BooleanTypes, NoStoreKeeps DEF Keeps
<1> QED
  BY <1>1, <1>2 DEF BookCalls

LEMMA PageCallsKeep ==
    ASSUME IInv, PageCalls
    PROVE  IInv'
<1>1. CASE openPageLeft
  BY <1>1, ThrowsKeeps, readerPageTurnKeeps DEF openPageLeft
<1>2. CASE openPageRight
  BY <1>2, ThrowsKeeps, readerPageTurnKeeps DEF openPageRight
<1>3. ASSUME NEW i \in Items, NEW p \in 0 .. MaxColumns, openSpineItemPage(i, p)
      PROVE  IInv'
  <2>1. PageIndex(i, p) \in Requests /\ NoTarget(i) \in Requests
    BY RequestTypes, ReflowableViewAssumption
  <2> QED
    BY <1>3, <2>1, ThrowsKeeps, readerOpenPageKeeps DEF openSpineItemPage
<1>4. ASSUME NEW req \in ElementRequests, openElement(req) PROVE IInv'
  BY <1>4, CallersRequestTypes, ThrowsKeeps, readerOpenPageKeeps DEF openElement
<1>5. ASSUME NEW p \in 0 .. MaxColumns, openPageIndex(p) PROVE IInv'
  BY <1>5, ThrowsKeeps DEF openPageIndex
<1> QED
  BY <1>1, <1>2, <1>3, <1>4, <1>5 DEF PageCalls

LEMMA updateSettingsKeeps ==
    ASSUME IInv, NEW synthetic \in BOOLEAN, updateSettings(synthetic)
    PROVE  IInv'
<1> DEFINE v == currentView
           w == views[v]
           n == [paginationInfo EXCEPT !.visibleColumnCount = visibleColumns(synthetic)]
           i == Columnized(n, w, lastViewPortSize)
<1>1. /\ Call /\ currentView' = currentView
      /\ UNCHANGED <<lastViewPortSize, windowSize, viewCount>>
  BY DEF updateSettings
<1>2. thrown' \in BOOLEAN /\ package' \in BOOLEAN /\ isSyntheticSpread' \in BOOLEAN
  <2>1. thrown' = FALSE /\ package' = package /\ isSyntheticSpread' = synthetic
    BY DEF updateSettings
  <2> QED
    BY <2>1, BooleanTypes, Zenon
<1>3. OtherTypes'
  BY <1>1, <1>2, BooleanTypes, CallTypes
<1>4. CASE v = 0
  <2>1. UNCHANGED <<paginationInfo, views, timers>>
    BY <1>4 DEF updateSettings
  <2> QED
    BY <1>1, <1>3, <2>1, BooleanTypes, NoStoreKeeps DEF Keeps
<1>5. CASE v # 0
  <2>1. /\ openPage(v, i, ShiftedOffScreen(w), NoTarget(w.currentSpineItem))
        /\ StartMeasure(v, w)
    BY <1>5 DEF updateSettings
  <2>2. /\ v \in Views /\ w \in View /\ timers \in Seq(Timers)
        /\ HiddenOK(v, w, timers) /\ ViewOK(v, w, timers)
        /\ lastViewPortSize \in Sizes \cup {0} /\ n \in PaginationInfos
    BY <1>5, BooleanTypes, OfView DEF PaginationInfos, visibleColumns
  <2>3. /\ timers' \in Seq(Timers) /\ Keeps(timers, timers')
        /\ w.html # "undefined" => Has(timers', Timer("measure", v))
    BY <2>1, <2>2, MeasureStarts DEF StartMeasure, Keeps
  <2>4. NoTarget(w.currentSpineItem) \in Requests
    <3>1. w.currentSpineItem \in Items
      BY <2>2 DEF ViewOK
    <3> QED
      BY <3>1, RequestTypes, ReflowableViewAssumption
  <2>5. /\ i \in PaginationInfos /\ ShiftedOffScreen(w) \in View
        /\ ViewOK(v, ShiftedOffScreen(w), timers')
        /\ HiddenOK(v, ShiftedOffScreen(w), timers')
    BY <2>2, <2>3, ShiftKeeps
  <2>6. KeepsOthers(v, timers, timers')
    BY <2>3 DEF KeepsOthers, Keeps
  <2> HIDE DEF w, i
  <2> QED
    BY <1>1, <1>3, <2>1, <2>2, <2>3, <2>4, <2>5, <2>6, OpenPageKeeps
<1> QED
  BY <1>4, <1>5

LEMMA setStylesKeeps ==
    ASSUME IInv, setStyles
    PROVE  IInv'
<1> DEFINE v  == currentView
           w  == views[v]
           i2 == Columnized(paginationInfo, w, ViewportOf(v))
           w2 == ShiftedOffScreen(w)
<1>1. /\ v # 0 /\ Call /\ currentView' = currentView
      /\ Store(v, i2, w2) /\ StartMeasure(v, w)
      /\ lastViewPortSize' = ViewportOf(v)
      /\ UNCHANGED <<windowSize, viewCount>>
  BY DEF setStyles, applyStyles, updatePagination
<1>2. /\ v \in Views /\ w \in View /\ timers \in Seq(Timers)
      /\ HiddenOK(v, w, timers) /\ ViewOK(v, w, timers)
      /\ ViewportOf(v) \in Sizes \cup {0} /\ paginationInfo \in PaginationInfos
  BY <1>1, BooleanTypes, OfView
<1>3. OtherTypes'
  <2>1. thrown' \in BOOLEAN /\ package' \in BOOLEAN /\ isSyntheticSpread' \in BOOLEAN
    <3>1. thrown' = FALSE /\ package' = package /\ isSyntheticSpread' = isSyntheticSpread
      BY DEF setStyles
    <3> QED
      BY <3>1, BooleanTypes, Zenon
  <2>2. calls' \in 0 .. MaxCalls
    BY <1>1, ReaderAssumption DEF Call, IInv, TypeOK
  <2> QED
    BY <1>1, <1>2, <2>1, <2>2, BooleanTypes DEF OtherTypes
<1>4. /\ timers' \in Seq(Timers) /\ Keeps(timers, timers')
      /\ w.html # "undefined" => Has(timers', Timer("measure", v))
  BY <1>1, <1>2, MeasureStarts DEF StartMeasure, Keeps
<1>5. /\ i2 \in PaginationInfos /\ w2 \in View
      /\ ViewOK(v, w2, timers') /\ HiddenOK(v, w2, timers')
  BY <1>2, <1>4, ShiftKeeps
<1>6. KeepsOthers(v, timers, timers')
  BY <1>4 DEF KeepsOthers, Keeps
<1> HIDE DEF w, i2, w2
<1> QED
  BY <1>1, <1>2, <1>3, <1>4, <1>5, <1>6, StoreKeeps

LEMMA resizeWindowKeeps ==
    ASSUME IInv, NEW size \in Sizes, resizeWindow(size)
    PROVE  IInv'
<1>1. /\ Call /\ windowSize' \in Sizes
      /\ UNCHANGED <<paginationInfo, lastViewPortSize, views, currentView, viewCount>>
  BY DEF resizeWindow
<1>2. thrown' \in BOOLEAN /\ package' \in BOOLEAN /\ isSyntheticSpread' \in BOOLEAN
  <2>1. thrown' = FALSE /\ package' = package /\ isSyntheticSpread' = isSyntheticSpread
    BY DEF resizeWindow
  <2> QED
    BY <2>1, BooleanTypes, Zenon
<1>3. timers' \in Seq(Timers) /\ Keeps(timers, timers')
  <2>1. CASE currentView = 0
    BY <2>1, BooleanTypes DEF resizeWindow, Keeps
  <2>2. CASE currentView # 0
    <3>1. /\ timers' \in Restarted(timers, Timer("resize", currentView))
          /\ currentView \in Views
      BY <2>2, BooleanTypes DEF resizeWindow
    <3>2. Timer("resize", currentView) \in Timers
      BY <3>1 DEF Timer, Timers
    <3> QED
      BY <3>1, <3>2, BooleanTypes, RestartedKeeps DEF Keeps
  <2> QED
    BY <2>1, <2>2
<1>4. OtherTypes'
  BY <1>1, <1>2, BooleanTypes, CallTypes
<1> QED
  BY <1>1, <1>3, <1>4, NoStoreKeeps

-----------------------------------------------------------------------------
(* The invariant.                                                            *)

LEMMA InitHolds == Init => IInv
<1> SUFFICES ASSUME Init PROVE IInv
  OBVIOUS
<1>1. \A v \in Views : views[v] = NewView
  BY DEF Init
<1>2. NewView \in View
  BY DEF View, NewView, HtmlStates, Navigation
<1>3. timers \in Seq(Timers)
  BY DEF Init
<1>4. /\ thrown \in BOOLEAN /\ package \in BOOLEAN /\ isSyntheticSpread \in BOOLEAN
  BY Zenon DEF Init
<1>5. TypeOK
  <2>1. paginationInfo \in PaginationInfos
    BY ReflowableViewAssumption DEF Init, PaginationInfos
  <2>2. views \in [Views -> View]
    BY <1>2 DEF Init
  <2>3. /\ lastViewPortSize \in Sizes \cup {0} /\ windowSize \in Sizes
        /\ currentView \in Views \cup {0} /\ viewCount \in Views \cup {0}
        /\ calls \in 0 .. MaxCalls
    BY ReaderAssumption DEF Init
  <2> QED
    BY <1>3, <1>4, <2>1, <2>2, <2>3 DEF TypeOK
<1>6. \A v \in Views : HiddenOK(v, views[v], timers)
  BY <1>1 DEF HiddenOK, NewView, OffScreen
<1>7. currentView = 0
  BY DEF Init
<1> QED
  BY <1>5, <1>6, <1>7 DEF IInv

LEMMA NextKeeps == IInv /\ [Next]_vars => IInv'
<1> SUFFICES ASSUME IInv, [Next]_vars PROVE IInv'
  OBVIOUS
<1>1. CASE BookCalls
  BY <1>1, BookCallsKeep
<1>2. CASE PageCalls
  BY <1>2, PageCallsKeep
<1>3. CASE LayoutCalls
  BY <1>3, updateSettingsKeeps, setStylesKeeps, resizeWindowKeeps DEF LayoutCalls
<1>4. CASE Browser
  BY <1>4, MeasureTimerKeeps, ShowTimerKeeps, ResizeTimerKeeps, CommitNavigationKeeps,
     onIFrameLoadKeeps DEF Browser, TimerFires, FrameEvent
<1>5. CASE UNCHANGED vars
  <2>1. /\ UNCHANGED <<paginationInfo, lastViewPortSize, views, currentView, windowSize>>
        /\ UNCHANGED <<timers, thrown, package, isSyntheticSpread, viewCount, calls>>
    BY <1>5 DEF vars, viewVars, readerVars
  <2>2. thrown' \in BOOLEAN /\ package' \in BOOLEAN /\ isSyntheticSpread' \in BOOLEAN
    BY <2>1, Zenon DEF IInv, TypeOK
  <2>3. OtherTypes'
    BY <2>1, <2>2 DEF IInv, TypeOK, OtherTypes
  <2> QED
    BY <2>1, <2>3, BooleanTypes, NoStoreKeeps DEF Keeps
<1> QED
  BY <1>1, <1>2, <1>3, <1>4, <1>5 DEF Next

LEMMA Invariance == Spec => []IInv
BY InitHolds, NextKeeps, PTL DEF Spec

(* For any book, any number of columns in its items, of views and of calls:  *)
(* the variables of reflowable_view.js and reader_view.js keep their types.  *)
THEOREM TypeCorrect == Spec => []TypeOK
<1>1. IInv => TypeOK
  BY DEF IInv
<1> QED
  BY <1>1, Invariance, PTL

(* ... no request that was put off is ever forgotten ...                     *)
THEOREM RequestsAreServed == Spec => []DeferredIsServed
<1>1. IInv => DeferredIsServed
  BY InvariantByView DEF IInv
<1> QED
  BY <1>1, Invariance, PTL

(* ... nor opened in a page that is not laid out ...                         *)
THEOREM RequestsAreSighted == Spec => []DeferredIsSighted
<1>1. IInv => DeferredIsSighted
  BY InvariantByView DEF IInv
<1> QED
  BY <1>1, Invariance, PTL

(* ... and a timer that brings back what is hidden is always pending.        *)
THEOREM PagesComeBack == Spec => []HiddenIsShownAgain
<1>1. IInv => HiddenIsShownAgain
  BY InvariantByView DEF IInv
<1> QED
  BY <1>1, Invariance, PTL

(* What is in the iframe and what $epubHtml refers to go together.           *)
THEOREM FramesKept == Spec => []FramesOK
<1>1. IInv => FramesOK
  BY InvariantByView DEF IInv
<1> QED
  BY <1>1, Invariance, PTL

LEMMA NothingPending == timers = <<>> => \A k, v : ~Pending(k, v)
<1> SUFFICES ASSUME timers = <<>>, NEW k, NEW v, Pending(k, v) PROVE FALSE
  OBVIOUS
<1>1. PICK n \in 1 .. Len(timers) : timers[n] = Timer(k, v)
  BY DEF Pending, Has
<1>2. Len(timers) = 0
  BY EmptySeq
<1> QED
  BY <1>1, <1>2

(* At rest the current item's document is in the iframe and visible, and no  *)
(* request is left over: what each timer owes has been paid when there is    *)
(* none left.                                                                *)
THEOREM RestShowsItem == Spec => []SettledShowsItem
<1>1. IInv => SettledShowsItem
  <2> SUFFICES ASSUME IInv, Settled
               PROVE  /\ View0.html = "attached" /\ ~View0.hidden
                      /\ View0.document = View0.currentSpineItem
                      /\ View0.deferredPageRequest = NoRequest
    BY DEF SettledShowsItem
  <2>1. DeferredIsServed /\ HiddenIsShownAgain /\ FramesOK /\ currentView \in Views \cup {0}
    BY InvariantByView DEF IInv, TypeOK
  <2>2. currentView \in Views /\ currentView # 0 /\ ~View0.isWaitingFrameRender
    BY <2>1 DEF Settled
  <2>3. ~Pending("measure", currentView) /\ ~Pending("show", currentView)
    BY NothingPending DEF Settled
  <2>4. View0.deferredPageRequest = NoRequest
    BY <2>1, <2>2, <2>3 DEF DeferredIsServed
  <2>5. ~View0.hidden
    BY <2>1, <2>2, <2>3 DEF HiddenIsShownAgain, View0
  <2> QED
    BY <2>1, <2>2, <2>4, <2>5 DEF FramesOK
<1> QED
  BY <1>1, Invariance, PTL

-----------------------------------------------------------------------------
(* A spread is lost only to a measurement that saw nothing.                  *)

NotLost(i) == i.currentSpreadIndex >= 0

LEMMA OpenPageFinds ==
    ASSUME NEW v, NEW i \in PaginationInfos, NEW w, NEW req \in Requests,
           openPage(v, i, w, req), NotLost(i)
    PROVE  NotLost(paginationInfo')
<1> DEFINE page == TargetPage(i, req)
<1>1. \/ paginationInfo' = i
      \/ paginationInfo' = [i EXCEPT !.currentSpreadIndex = 0]
      \/ IsPage(i, page) /\ paginationInfo' = AtPage(i, page)
  BY DEF openPage, loadSpineItem, Store
<1>2. CASE paginationInfo' = i
  BY <1>2
<1>3. CASE paginationInfo' = [i EXCEPT !.currentSpreadIndex = 0]
  <2>1. paginationInfo'.currentSpreadIndex = 0
    BY <1>3 DEF PaginationInfos
  <2> QED
    BY <2>1 DEF NotLost
<1>4. CASE IsPage(i, page) /\ paginationInfo' = AtPage(i, page)
  <2>1. page \in Nat
    BY <1>4 DEF IsPage, TargetPage, PaginationInfos, Requests
  <2>2. i.visibleColumnCount \in {1, 2}
    BY DEF PaginationInfos
  <2>3. PICK k \in Nat : k = page \div i.visibleColumnCount
    BY <2>1, <2>2, SpreadArithmetic
  <2>4. paginationInfo'.currentSpreadIndex = k
    BY <1>4, <2>3 DEF AtPage, PaginationInfos
  <2> QED
    BY <2>3, <2>4 DEF NotLost
<1> QED
  BY <1>1, <1>2, <1>3, <1>4

(* What is measured of a document that is seen has a column.                 *)
LEMMA MeasuredFinds ==
    ASSUME IInv, NEW v \in Views, Sighted(v), NEW c \in MeasuredColumns(v),
           NotLost(paginationInfo)
    PROVE  NotLost(Measured(c))
<1>1. PICK n \in {1, 2} : n = paginationInfo.visibleColumnCount
  BY DEF IInv, TypeOK, PaginationInfos
<1>2. PICK s \in Sizes \cup {0} : s = paginationInfo.columnSize
  BY DEF IInv, TypeOK, PaginationInfos
<1>3. c \in Nat /\ c >= 1
  <2>1. CASE s # 0
    <3>1. views[v].document \in Items
      BY ReflowableViewAssumption DEF Sighted, IInv, ViewOK, Views
    <3>2. ColumnsOf[<<views[v].document, n, s>>] \in 1 .. MaxColumns
      BY <1>1, <1>2, <2>1, <3>1, ReflowableViewAssumption
    <3>3. c = ColumnsOf[<<views[v].document, n, s>>]
      BY <1>1, <1>2, <2>1 DEF MeasuredColumns
    <3> QED
      BY <3>2, <3>3, ReflowableViewAssumption
  <2>2. CASE s = 0
    <3>1. c \in n .. MaxColumns + 1
      BY <1>1, <1>2, <2>2 DEF MeasuredColumns
    <3> QED
      BY <1>1, <3>1, ReflowableViewAssumption
  <2> QED
    BY <2>1, <2>2
<1>4. PICK spreads \in Nat : spreads = CeilDiv(c, n) /\ spreads >= 1
  <2>1. CASE n = 1
    BY <1>3, <2>1 DEF CeilDiv
  <2>2. CASE n = 2
    BY <1>3, <2>2 DEF CeilDiv
  <2> QED
    BY <1>1, <2>1, <2>2
<1>5. PICK index \in Int : index = paginationInfo.currentSpreadIndex /\ index >= 0
  BY DEF IInv, TypeOK, PaginationInfos, NotLost
<1>6. Measured(c).currentSpreadIndex = IF index >= spreads THEN spreads - 1 ELSE index
  BY <1>1, <1>4, <1>5 DEF Measured, IInv, TypeOK, PaginationInfos
<1> QED
  BY <1>4, <1>5, <1>6 DEF NotLost

LEMMA MeasureTimerFinds ==
    ASSUME IInv, NEW v \in Views, MeasureTimer(v), Sighted(v), NotLost(paginationInfo)
    PROVE  NotLost(paginationInfo')
<1> DEFINE w == LaidOutView(views[v])
<1>1. PICK c \in MeasuredColumns(v) : LaysOut(v, c) \/ CutsShort(v, c)
  BY HowMeasured
<1>2. Measured(c) \in PaginationInfos /\ NotLost(Measured(c))
  BY MeasuredTypes, MeasuredFinds
<1>3. w.deferredPageRequest \in Requests \cup {NoRequest}
  BY OfView, MeasuredView DEF View
<1>4. ASSUME LaysOut(v, c) PROVE openDeferredElement(v, Measured(c), w)
  BY <1>4 DEF LaysOut
<1> HIDE DEF w
<1>5. CASE LaysOut(v, c) /\ w.deferredPageRequest = NoRequest
  BY <1>2, <1>4, <1>5 DEF openDeferredElement, Store
<1>6. CASE LaysOut(v, c) /\ w.deferredPageRequest # NoRequest
  <2>1. openPage(v, Measured(c), [w EXCEPT !.deferredPageRequest = NoRequest],
                 w.deferredPageRequest)
    BY <1>4, <1>6 DEF openDeferredElement
  <2> QED
    BY <1>2, <1>3, <1>6, <2>1, OpenPageFinds
<1>7. CASE CutsShort(v, c)
  BY <1>2, <1>7 DEF CutsShort, Store
<1> QED
  BY <1>1, <1>5, <1>6, <1>7

(* Setting other members of the pagination leaves its spread.                *)
LEMMA ColumnsSet ==
    ASSUME NEW i \in PaginationInfos, NotLost(i)
    PROVE  /\ \A n \in {1, 2} : /\ [i EXCEPT !.visibleColumnCount = n] \in PaginationInfos
                                /\ NotLost([i EXCEPT !.visibleColumnCount = n])
           /\ \A w : \A s \in Sizes \cup {0} : /\ Columnized(i, w, s) \in PaginationInfos
                                             /\ NotLost(Columnized(i, w, s))
BY DEF PaginationInfos, NotLost, Columnized

LEMMA BrowserFinds ==
    ASSUME IInv, Browser, NotLost(paginationInfo),
           ~\E v \in Views : MeasureTimer(v) /\ ~Sighted(v)
    PROVE  NotLost(paginationInfo')
<1>1. ASSUME NEW v \in Views, MeasureTimer(v) PROVE NotLost(paginationInfo')
  BY <1>1, MeasureTimerFinds
<1>2. ASSUME NEW v \in Views, ShowTimer(v) PROVE NotLost(paginationInfo')
  BY <1>2 DEF ShowTimer, Store
<1>3. ASSUME NEW v \in Views, ResizeTimer(v) PROVE NotLost(paginationInfo')
  <2>1. /\ paginationInfo \in PaginationInfos /\ lastViewPortSize' \in Sizes \cup {0}
    BY <1>3, OfView DEF ResizeTimer
  <2>2. \/ paginationInfo' = paginationInfo
        \/ paginationInfo' = Columnized(paginationInfo, views[v], lastViewPortSize')
    BY <1>3 DEF ResizeTimer, Store
  <2> QED
    BY <2>1, <2>2, ColumnsSet
<1>4. ASSUME NEW v \in Views, CommitNavigation(v) PROVE NotLost(paginationInfo')
  BY <1>4 DEF CommitNavigation, Store
<1>5. ASSUME NEW v \in Views, onIFrameLoad(v) PROVE NotLost(paginationInfo')
  <2>1. paginationInfo \in PaginationInfos /\ ViewportOf(v) \in Sizes \cup {0}
    BY OfView
  <2>2. \/ paginationInfo' = paginationInfo
        \/ paginationInfo' = [paginationInfo EXCEPT !.currentSpreadIndex = 0]
        \/ \E w : paginationInfo' = Columnized(paginationInfo, w, ViewportOf(v))
    BY <1>5 DEF onIFrameLoad, loadSpineItem, applyStyles, updatePagination, Store
  <2>3. [paginationInfo EXCEPT !.currentSpreadIndex = 0].currentSpreadIndex = 0
    BY <2>1 DEF PaginationInfos
  <2>4. NotLost([paginationInfo EXCEPT !.currentSpreadIndex = 0])
    BY <2>3 DEF NotLost
  <2> QED
    BY <2>1, <2>2, <2>4, ColumnsSet
<1> QED
  BY <1>1, <1>2, <1>3, <1>4, <1>5 DEF Browser, TimerFires, FrameEvent

LEMMA openInNewViewFinds ==
    ASSUME IInv, NEW req \in Requests, NEW synthetic, openInNewView(req, synthetic),
           NotLost(paginationInfo)
    PROVE  NotLost(paginationInfo')
<1>1. paginationInfo \in PaginationInfos /\ visibleColumns(synthetic) \in {1, 2}
  BY DEF IInv, TypeOK, visibleColumns
<1>2. PICK i : i = [paginationInfo EXCEPT !.visibleColumnCount = visibleColumns(synthetic)]
  OBVIOUS
<1>3. i \in PaginationInfos /\ NotLost(i)
  BY <1>1, <1>2, ColumnsSet
<1>4. openPage(viewCount + 1, i, NewView, req)
  BY <1>2 DEF openInNewView
<1> QED
  BY <1>3, <1>4, OpenPageFinds

LEMMA readerOpenPageFinds ==
    ASSUME IInv, NEW req \in Requests, readerOpenPage(req), NotLost(paginationInfo)
    PROVE  NotLost(paginationInfo')
<1>1. CASE currentView = 0
  BY <1>1, openInNewViewFinds DEF readerOpenPage
<1>2. CASE currentView # 0
  <2>1. paginationInfo \in PaginationInfos
    BY DEF IInv, TypeOK
  <2>2. openPage(currentView, paginationInfo, views[currentView], req)
    BY <1>2 DEF readerOpenPage
  <2> QED
    BY <2>1, <2>2, OpenPageFinds
<1> QED
  BY <1>1, <1>2

LEMMA turnToFinds ==
    ASSUME IInv, NEW v, NEW index \in Int, index >= 0, turnTo(v, index)
    PROVE  NotLost(paginationInfo')
<1>1. paginationInfo' = [paginationInfo EXCEPT !.currentSpreadIndex = index]
  BY DEF turnTo, Store
<1>2. paginationInfo'.currentSpreadIndex = index
  BY <1>1 DEF IInv, TypeOK, PaginationInfos
<1> QED
  BY <1>2 DEF NotLost

LEMMA PageTurnFinds ==
    ASSUME IInv, NotLost(paginationInfo), currentView # 0,
           readerOpenPageNext \/ readerOpenPagePrev
    PROVE  NotLost(paginationInfo')
<1>1. PICK item : item = views[currentView].currentSpineItem  OBVIOUS
<1>2. item \in Items
  BY <1>1 DEF IInv, ViewOK
<1>3. /\ nextItem(item) # NoItem => FirstPage(nextItem(item)) \in Requests
      /\ prevItem(item) # NoItem => LastPage(prevItem(item)) \in Requests
  <2>1. 0 \in -1 .. MaxColumns
    BY ReflowableViewAssumption
  <2>2. /\ nextItem(item) # NoItem => nextItem(item) \in Items
        /\ prevItem(item) # NoItem => prevItem(item) \in Items
    BY <1>2, Neighbours
  <2> QED
    BY <2>1, <2>2, RequestTypes
<1>4. paginationInfo \in PaginationInfos
  BY DEF IInv, TypeOK
<1>5. PICK index \in Int : index = paginationInfo.currentSpreadIndex /\ index >= 0
  BY <1>4 DEF PaginationInfos, NotLost
<1>6. ASSUME readerOpenPageNext PROVE NotLost(paginationInfo')
  <2>1. \/ nextItem(item) # NoItem /\ readerOpenPage(FirstPage(nextItem(item)))
        \/ openPageNext(currentView)
    BY <1>1, <1>6 DEF readerOpenPageNext
  <2>2. \/ nextItem(item) # NoItem /\ readerOpenPage(FirstPage(nextItem(item)))
        \/ turnTo(currentView, index + 1)
        \/ /\ nextItem(item) # NoItem
           /\ openPage(currentView, paginationInfo, views[currentView], FirstPage(nextItem(item)))
    BY <1>1, <1>5, <2>1 DEF openPageNext
  <2>3. index + 1 \in Int /\ index + 1 >= 0
    BY <1>5
  <2> QED
    BY <1>3, <1>4, <2>2, <2>3, readerOpenPageFinds, turnToFinds, OpenPageFinds
<1>7. ASSUME readerOpenPagePrev PROVE NotLost(paginationInfo')
  <2>1. \/ prevItem(item) # NoItem /\ readerOpenPage(LastPage(prevItem(item)))
        \/ openPagePrev(currentView)
    BY <1>1, <1>7 DEF readerOpenPagePrev
  <2>2. \/ prevItem(item) # NoItem /\ readerOpenPage(LastPage(prevItem(item)))
        \/ index > 0 /\ turnTo(currentView, index - 1)
        \/ /\ prevItem(item) # NoItem
           /\ openPage(currentView, paginationInfo, views[currentView], LastPage(prevItem(item)))
    BY <1>1, <1>5, <2>1 DEF openPagePrev
  <2>3. index > 0 => index - 1 \in Int /\ index - 1 >= 0
    BY <1>5
  <2> QED
    BY <1>3, <1>4, <2>2, <2>3, readerOpenPageFinds, turnToFinds, OpenPageFinds
<1> QED
  BY <1>6, <1>7

LEMMA updateSettingsFinds ==
    ASSUME IInv, NEW synthetic, updateSettings(synthetic), NotLost(paginationInfo)
    PROVE  NotLost(paginationInfo')
<1>1. /\ paginationInfo \in PaginationInfos /\ visibleColumns(synthetic) \in {1, 2}
      /\ lastViewPortSize \in Sizes \cup {0}
  BY DEF IInv, TypeOK, visibleColumns
<1>2. CASE currentView = 0
  BY <1>2 DEF updateSettings
<1>3. CASE currentView # 0
  <2>1. PICK n : n = [paginationInfo EXCEPT !.visibleColumnCount = visibleColumns(synthetic)]
    OBVIOUS
  <2>2. n \in PaginationInfos /\ NotLost(n)
    BY <1>1, <2>1, ColumnsSet
  <2>3. PICK w : w = views[currentView]
    OBVIOUS
  <2>4. /\ openPage(currentView, Columnized(n, w, lastViewPortSize), ShiftedOffScreen(w),
                    NoTarget(w.currentSpineItem))
    BY <1>3, <2>1, <2>3 DEF updateSettings
  <2>5. NoTarget(w.currentSpineItem) \in Requests
    <3>1. w.currentSpineItem \in Items
      BY <1>3, <2>3 DEF IInv, ViewOK
    <3>2. 0 \in -1 .. MaxColumns
      BY ReflowableViewAssumption
    <3> QED
      BY <3>1, <3>2, RequestTypes
  <2>6. /\ Columnized(n, w, lastViewPortSize) \in PaginationInfos
        /\ NotLost(Columnized(n, w, lastViewPortSize))
    BY <1>1, <2>2, ColumnsSet
  <2> QED
    BY <2>4, <2>5, <2>6, OpenPageFinds
<1> QED
  BY <1>2, <1>3

LEMMA CallsFind ==
    ASSUME IInv, BookCalls \/ PageCalls \/ LayoutCalls, NotLost(paginationInfo)
    PROVE  NotLost(paginationInfo')
<1>1. ASSUME NEW i \in Items, NEW p \in -1 .. MaxColumns
      PROVE  PageIndex(i, p) \in Requests /\ NoTarget(i) \in Requests
  BY RequestTypes
<1>2. 0 .. MaxColumns \subseteq -1 .. MaxColumns /\ 0 \in -1 .. MaxColumns
  BY ReflowableViewAssumption
<1>3. BookRequests \subseteq Requests /\ ElementRequests \subseteq Requests
  BY CallersRequestTypes
<1>4. CASE BookCalls
  <2>1. \/ paginationInfo' = paginationInfo
        \/ \E synthetic \in BOOLEAN, req \in BookRequests : openInNewView(req, synthetic)
    BY <1>4 DEF BookCalls, openBook, openBookAtUnknownItem
  <2> QED
    BY <1>3, <2>1, openInNewViewFinds
<1>5. CASE PageCalls
  <2>1. CASE openPageLeft \/ openPageRight
    <3>1. \/ paginationInfo' = paginationInfo
          \/ currentView # 0 /\ (readerOpenPageNext \/ readerOpenPagePrev)
      BY <2>1 DEF openPageLeft, openPageRight, Throws
    <3> QED
      BY <3>1, PageTurnFinds
  <2>2. ASSUME NEW i \in Items, NEW p \in 0 .. MaxColumns, openSpineItemPage(i, p)
        PROVE  NotLost(paginationInfo')
    <3>1. \/ paginationInfo' = paginationInfo
          \/ readerOpenPage(NoTarget(i)) \/ readerOpenPage(PageIndex(i, p))
      BY <2>2 DEF openSpineItemPage, Throws
    <3> QED
      BY <1>1, <1>2, <3>1, readerOpenPageFinds
  <2>3. ASSUME NEW req \in ElementRequests, openElement(req) PROVE NotLost(paginationInfo')
    <3>1. paginationInfo' = paginationInfo \/ readerOpenPage(req)
      BY <2>3 DEF openElement, Throws
    <3> QED
      BY <1>3, <3>1, readerOpenPageFinds
  <2>4. ASSUME NEW p \in 0 .. MaxColumns, openPageIndex(p) PROVE NotLost(paginationInfo')
    BY <2>4 DEF openPageIndex, Throws
  <2> QED
    BY <1>5, <2>1, <2>2, <2>3, <2>4 DEF PageCalls
<1>6. CASE LayoutCalls
  <2>1. CASE setStyles
    <3>1. /\ paginationInfo \in PaginationInfos /\ currentView \in Views
      BY <2>1 DEF setStyles, IInv, TypeOK
    <3>2. ViewportOf(currentView) \in Sizes \cup {0}
      BY <3>1, OfView
    <3>3. \E w : paginationInfo' = Columnized(paginationInfo, w, ViewportOf(currentView))
      BY <2>1 DEF setStyles, applyStyles, updatePagination, Store
    <3> QED
      BY <3>1, <3>2, <3>3, ColumnsSet
  <2>2. ASSUME NEW size \in Sizes, resizeWindow(size) PROVE NotLost(paginationInfo')
    BY <2>2 DEF resizeWindow
  <2> QED
    BY <1>6, <2>1, <2>2, updateSettingsFinds DEF LayoutCalls
<1> QED
  BY <1>4, <1>5, <1>6

(* No page turn, request, setting or other timer loses the spread: it takes  *)
(* a measurement of a document that is hidden or gone.                       *)
THEOREM SpreadIsLostOnlyBlind == Spec => LostOnlyBlind
<1> DEFINE Kept == NotLost(paginationInfo) /\ paginationInfo'.currentSpreadIndex < 0
                     => \E v \in Views : MeasureTimer(v) /\ ~Sighted(v)
<1>1. IInv /\ IInv' /\ [Next]_vars => [Kept]_vars
  <2> SUFFICES ASSUME IInv, IInv', Next, NotLost(paginationInfo),
                      paginationInfo'.currentSpreadIndex < 0,
                      ~\E v \in Views : MeasureTimer(v) /\ ~Sighted(v)
               PROVE  FALSE
    OBVIOUS
  <2>1. NotLost(paginationInfo')
    BY BrowserFinds, CallsFind DEF Next
  <2>2. paginationInfo'.currentSpreadIndex \in Int
    BY DEF IInv, TypeOK, PaginationInfos
  <2> QED
    BY <2>1, <2>2 DEF NotLost
<1>2. [Kept]_vars => [paginationInfo.currentSpreadIndex >= 0
                        /\ paginationInfo'.currentSpreadIndex < 0
                        => \E v \in Views : MeasureTimer(v) /\ ~Sighted(v)]_vars
  BY DEF NotLost
<1> QED
  BY <1>1, <1>2, Invariance, PTL DEF Spec, LostOnlyBlind
-----------------------------------------------------------------------------
(* The reader implements the abstract viewer: what a step may do to the     *)
(* item wanted and the item shown.                                          *)

(* What the operations on a view do to what it wants and shows.             *)

(* A request names what is wanted from now on, put off or not.              *)
LEMMA OpenedShows ==
    ASSUME NEW w \in View, NEW w2 \in View, NEW req \in Requests, Opened(w, w2, req),
           w.deferredPageRequest # NoRequest /\ ~w.isWaitingFrameRender
             => w.deferredPageRequest.spineItem = w.currentSpineItem
    PROVE  WantedOf(w2) = req.spineItem /\ ShownOf(w2) = ShownOf(w)
<1>1. CASE w.isWaitingFrameRender
  BY <1>1, RequestIsOne DEF Opened, View, WantedOf, ShownOf
<1>2. CASE ~w.isWaitingFrameRender /\ req.spineItem # w.currentSpineItem
  BY <1>2, RequestIsOne DEF Opened, View, WantedOf, ShownOf
<1>3. CASE ~w.isWaitingFrameRender /\ req.spineItem = w.currentSpineItem
  <2>1. /\ w2.deferredPageRequest = w.deferredPageRequest
        /\ w2.currentSpineItem = w.currentSpineItem
        /\ w2.html = w.html /\ w2.document = w.document
    BY <1>3 DEF Opened, View
  <2> QED
    BY <1>3, <2>1 DEF WantedOf, ShownOf
<1> QED
  BY <1>1, <1>2, <1>3

(* Moving the page, hiding it or showing it again changes neither.          *)
LEMMA MovedShows ==
    ASSUME NEW w \in View, NEW i
    PROVE  /\ WantedOf(Redrawn(i, w)) = WantedOf(w) /\ ShownOf(Redrawn(i, w)) = ShownOf(w)
           /\ WantedOf(ShiftedOffScreen(w)) = WantedOf(w)
           /\ ShownOf(ShiftedOffScreen(w)) = ShownOf(w)
           /\ \A b : LET h == [w EXCEPT !.hidden = b] IN
                     WantedOf(h) = WantedOf(w) /\ ShownOf(h) = ShownOf(w)
<1>1. /\ Redrawn(i, w).deferredPageRequest = w.deferredPageRequest
      /\ Redrawn(i, w).currentSpineItem = w.currentSpineItem
      /\ Redrawn(i, w).html = w.html /\ Redrawn(i, w).document = w.document
  BY DEF Redrawn, View
<1>2. /\ ShiftedOffScreen(w).deferredPageRequest = w.deferredPageRequest
      /\ ShiftedOffScreen(w).currentSpineItem = w.currentSpineItem
      /\ ShiftedOffScreen(w).html = w.html /\ ShiftedOffScreen(w).document = w.document
  BY DEF ShiftedOffScreen, View
<1>3. ASSUME NEW b
      PROVE  LET h == [w EXCEPT !.hidden = b] IN
             WantedOf(h) = WantedOf(w) /\ ShownOf(h) = ShownOf(w)
  BY DEF WantedOf, ShownOf, View
<1> QED
  BY <1>1, <1>2, <1>3 DEF WantedOf, ShownOf

(* A step that stores view v changes what the reader shows if v is its view. *)
LEMMA StoreShows ==
    ASSUME IInv, NEW v \in Views, NEW i2, NEW w2, Store(v, i2, w2)
    PROVE  /\ currentView' = v => Wanted' = WantedOf(w2) /\ Shown' = ShownOf(w2)
           /\ currentView = v => Wanted = WantedOf(views[v]) /\ Shown = ShownOf(views[v])
           /\ currentView' = currentView /\ currentView # v => UNCHANGED <<Wanted, Shown>>
<1>1. views \in [Views -> View] /\ currentView \in Views \cup {0} /\ v # 0
  BY DEF IInv, TypeOK, Views
<1>2. views'[v] = w2 /\ \A u \in Views \ {v} : views'[u] = views[u]
  BY <1>1 DEF Store
<1> QED
  BY <1>1, <1>2 DEF Wanted, Shown, View0

(* Storing what wants and shows the same.                                   *)
LEMMA SameShows ==
    ASSUME IInv, NEW v \in Views, NEW i2, NEW w2, Store(v, i2, w2),
           currentView' = currentView,
           WantedOf(w2) = WantedOf(views[v]), ShownOf(w2) = ShownOf(views[v])
    PROVE  UNCHANGED <<Wanted, Shown>>
BY StoreShows

LEMMA NoStoreShows ==
    ASSUME UNCHANGED <<views, currentView>>
    PROVE  UNCHANGED <<Wanted, Shown>>
BY DEF Wanted, Shown, View0

-----------------------------------------------------------------------------
(* The browser changes nothing wanted; it blanks the view and presents what *)
(* is wanted.                                                               *)

LEMMA LaysOutShows ==
    ASSUME IInv, NEW v \in Views, NEW c \in MeasuredColumns(v), LaysOut(v, c),
           currentView' = currentView
    PROVE  UNCHANGED <<Wanted, Shown>>
<1> DEFINE h  == LaidOutView(views[v])
           w1 == [h EXCEPT !.deferredPageRequest = NoRequest]
<1>1. /\ views[v] \in View /\ h \in View /\ WantedOf(h) = WantedOf(views[v])
      /\ ShownOf(h) = ShownOf(views[v])
      /\ h.currentSpineItem = views[v].currentSpineItem
      /\ h.isWaitingFrameRender = views[v].isWaitingFrameRender
      /\ h.deferredPageRequest = views[v].deferredPageRequest
  BY OfView, MeasuredView DEF WantedOf, ShownOf
<1>2. openDeferredElement(v, Measured(c), h)
  BY DEF LaysOut
<1> HIDE DEF h
<1>3. Measured(c) \in PaginationInfos
  BY MeasuredTypes
<1>4. CASE h.deferredPageRequest = NoRequest
  <2>1. Store(v, Measured(c), h)
    BY <1>2, <1>4 DEF openDeferredElement
  <2> QED
    BY <1>1, <2>1, SameShows
<1>5. CASE h.deferredPageRequest # NoRequest
  <2> DEFINE req == h.deferredPageRequest
  <2>1. req \in Requests /\ w1 \in View /\ openPage(v, Measured(c), w1, req)
    BY <1>1, <1>2, <1>5 DEF View, openDeferredElement
  <2>2. w1.deferredPageRequest = NoRequest /\ ShownOf(w1) = ShownOf(h)
    BY <1>1 DEF View, ShownOf
  <2> HIDE DEF w1
  <2>3. PICK i2 \in PaginationInfos, w2 \in View : Store(v, i2, w2) /\ Opened(w1, w2, req)
    BY <1>3, <2>1, OpenPageEffect
  <2>4. WantedOf(w2) = req.spineItem /\ ShownOf(w2) = ShownOf(w1)
    BY <2>1, <2>2, <2>3, OpenedShows
  <2>5. WantedOf(h) = req.spineItem
    BY <1>5 DEF WantedOf
  <2> QED
    BY <1>1, <2>2, <2>3, <2>4, <2>5, SameShows
<1> QED
  BY <1>4, <1>5

(* The request a lookup that throws throws away is for the item shown.      *)
LEMMA CutsShortShows ==
    ASSUME IInv, NEW v \in Views, NEW c, CutsShort(v, c), currentView' = currentView
    PROVE  UNCHANGED <<Wanted, Shown>>
<1> DEFINE w  == views[v]
           w2 == CutShortView(w)
<1>1. /\ Store(v, Measured(c), w2) /\ w \in View
      /\ w.deferredPageRequest.spineItem = w.currentSpineItem
  BY OfView DEF CutsShort, LookupThrows
<1>2. /\ w2.deferredPageRequest = NoRequest /\ w2.currentSpineItem = w.currentSpineItem
      /\ w2.html = w.html /\ w2.document = w.document
  BY <1>1, MeasuredView
<1> HIDE DEF w, w2
<1>3. WantedOf(w2) = WantedOf(w) /\ ShownOf(w2) = ShownOf(w)
  BY <1>1, <1>2 DEF WantedOf, ShownOf
<1> QED
  BY <1>1, <1>3, SameShows DEF w

LEMMA MeasureTimerShows ==
    ASSUME IInv, NEW v \in Views, MeasureTimer(v)
    PROVE  UNCHANGED <<Wanted, Shown>>
BY HowMeasured, LaysOutShows, CutsShortShows

LEMMA OtherTimersShow ==
    ASSUME IInv, NEW v \in Views, ShowTimer(v) \/ ResizeTimer(v)
    PROVE  UNCHANGED <<Wanted, Shown>>
<1>1. views[v] \in View /\ currentView' = currentView
  BY OfView DEF ShowTimer, ResizeTimer, Fires
<1>2. CASE ShowTimer(v)
  <2> DEFINE h == [views[v] EXCEPT !.hidden = FALSE]
  <2>1. h \in View /\ WantedOf(h) = WantedOf(views[v]) /\ ShownOf(h) = ShownOf(views[v])
    BY <1>1, MovedShows DEF View
  <2>2. Store(v, paginationInfo, Redrawn(paginationInfo, h))
    BY <1>2 DEF ShowTimer
  <2> HIDE DEF h
  <2> QED
    BY <1>1, <2>1, <2>2, MovedShows, SameShows
<1>3. CASE ResizeTimer(v)
  <2>1. CASE lastViewPortSize' # lastViewPortSize /\ views[v].html # "undefined"
    <3>1. Store(v, Columnized(paginationInfo, views[v], lastViewPortSize'),
                ShiftedOffScreen(views[v]))
      BY <1>3, <2>1 DEF ResizeTimer
    <3> QED
      BY <1>1, <3>1, MovedShows, SameShows
  <2>2. CASE ~(lastViewPortSize' # lastViewPortSize /\ views[v].html # "undefined")
    BY <1>1, <1>3, <2>2, NoStoreShows DEF ResizeTimer
  <2> QED
    BY <2>1, <2>2
<1> QED
  BY <1>2, <1>3

LEMMA CommitNavigationShows ==
    ASSUME IInv, NEW v \in Views, CommitNavigation(v)
    PROVE  Wanted' = Wanted /\ Shown' = NoItem
<1>1. /\ v = currentView /\ currentView' = currentView /\ views[v] \in View
      /\ Store(v, paginationInfo, Committed(views[v]))
  BY OfView DEF CommitNavigation
<1>2. /\ WantedOf(Committed(views[v])) = WantedOf(views[v])
      /\ ShownOf(Committed(views[v])) = NoItem
  BY <1>1 DEF Committed, WantedOf, ShownOf, View
<1> QED
  BY <1>1, <1>2, StoreShows

LEMMA onIFrameLoadShows ==
    ASSUME IInv, NEW v \in Views, onIFrameLoad(v)
    PROVE  /\ Wanted' = Wanted
           /\ \/ Shown' = Shown
              \/ Shown = NoItem /\ Shown' = Wanted /\ Wanted \in Items
<1> DEFINE w == FrameRendered(views[v])
<1>1. /\ v = currentView /\ currentView' = currentView /\ views[v] \in View
      /\ ViewOK(v, views[v], timers) /\ views[v].navigation = "committed"
  BY OfView DEF onIFrameLoad
<1>2. /\ w \in View /\ w.html # "attached" /\ w.document = w.currentSpineItem
      /\ w.currentSpineItem \in Items
      /\ WantedOf(w) = WantedOf(views[v]) /\ ShownOf(w) = NoItem /\ ShownOf(views[v]) = NoItem
  BY <1>1 DEF FrameRendered, View, Navigation, ViewOK, WantedOf, ShownOf
<1> HIDE DEF w
<1>3. CASE NewRequestCame(w)
  <2> DEFINE item == w.deferredPageRequest.spineItem
             i2   == [paginationInfo EXCEPT !.currentSpreadIndex = 0]
             w2   == [w EXCEPT !.currentSpineItem = item, !.isWaitingFrameRender = TRUE,
                               !.navigation = "requested"]
  <2>1. Store(v, i2, w2)
    BY <1>3 DEF onIFrameLoad, loadSpineItem, NewRequestCame, w
  <2>2. WantedOf(w2) = WantedOf(w) /\ ShownOf(w2) = NoItem
    BY <1>2, <1>3 DEF WantedOf, ShownOf, View, NewRequestCame
  <2> HIDE DEF w2, i2
  <2> QED
    BY <1>1, <1>2, <2>1, <2>2, StoreShows
<1>4. CASE ~NewRequestCame(w)
  <2> DEFINE w1 == [w EXCEPT !.html = "attached", !.hidden = FALSE]
             i2 == Columnized(paginationInfo, w1, ViewportOf(v))
             w2 == ShiftedOffScreen(w1)
  <2>1. Store(v, i2, w2)
    BY <1>4 DEF onIFrameLoad, applyStyles, updatePagination, w
  <2>2. /\ w1 \in View /\ WantedOf(w1) = WantedOf(w) /\ ShownOf(w1) = w.currentSpineItem
    BY <1>2 DEF View, HtmlStates, WantedOf, ShownOf
  <2>3. WantedOf(w) = w.currentSpineItem
    BY <1>4 DEF WantedOf, NewRequestCame
  <2> HIDE DEF w1
  <2>4. WantedOf(w2) = WantedOf(w1) /\ ShownOf(w2) = ShownOf(w1)
    BY <2>2, MovedShows
  <2> HIDE DEF w2, i2
  <2> QED
    BY <1>1, <1>2, <2>1, <2>2, <2>3, <2>4, StoreShows
<1> QED
  BY <1>3, <1>4

LEMMA BrowserShows ==
    ASSUME IInv, Browser
    PROVE  /\ Wanted' = Wanted
           /\ \/ Shown' = Shown \/ Shown' = NoItem
              \/ Shown = NoItem /\ Shown' = Wanted /\ Wanted \in Items
BY MeasureTimerShows, OtherTimersShow, CommitNavigationShows, onIFrameLoadShows
   DEF Browser, TimerFires, FrameEvent

-----------------------------------------------------------------------------
(* The calls ask for an item, open another book or close it, or change       *)
(* neither what is wanted nor what is shown.                                 *)

Asks  == Wanted' \in Items /\ Shown' = Shown
Opens == Wanted' \in Items /\ Shown' = NoItem

LEMMA OpenPageShows ==
    ASSUME IInv, currentView # 0, currentView' = currentView,
           NEW i \in PaginationInfos, NEW w \in View, NEW req \in Requests,
           openPage(currentView, i, w, req),
           ViewOK(currentView, w, timers'), ShownOf(w) = ShownOf(View0)
    PROVE  Asks
<1>1. currentView \in Views
  BY BooleanTypes
<1>2. PICK i2 \in PaginationInfos, w2 \in View :
         Store(currentView, i2, w2) /\ Opened(w, w2, req)
  BY OpenPageEffect
<1>3. WantedOf(w2) = req.spineItem /\ ShownOf(w2) = ShownOf(w)
  BY <1>2, OpenedShows DEF ViewOK
<1>4. req.spineItem \in Items
  BY RequestIsOne
<1> QED
  BY <1>1, <1>2, <1>3, <1>4, StoreShows DEF Asks, View0

LEMMA openInNewViewShows ==
    ASSUME IInv, NEW req \in Requests, NEW synthetic \in BOOLEAN, openInNewView(req, synthetic)
    PROVE  Opens
<1> DEFINE v == viewCount + 1
           i == [paginationInfo EXCEPT !.visibleColumnCount = visibleColumns(synthetic)]
<1>1. /\ v \in Views /\ currentView' = v
      /\ openPage(v, i, NewView, req)
  BY DEF openInNewView
<1>2. i \in PaginationInfos /\ NewView \in View
  BY BooleanTypes DEF PaginationInfos, visibleColumns, View, NewView, HtmlStates, Navigation
<1> HIDE DEF v, i
<1>3. PICK i2 \in PaginationInfos, w2 \in View : Store(v, i2, w2) /\ Opened(NewView, w2, req)
  BY <1>1, <1>2, OpenPageEffect
<1>4. WantedOf(w2) = req.spineItem /\ ShownOf(w2) = ShownOf(NewView)
  BY <1>2, <1>3, OpenedShows DEF NewView
<1>5. ShownOf(NewView) = NoItem /\ req.spineItem \in Items
  BY RequestIsOne DEF ShownOf, NewView
<1> QED
  BY <1>1, <1>3, <1>4, <1>5, StoreShows DEF Opens

LEMMA readerOpenPageShows ==
    ASSUME IInv, NEW req \in Requests, readerOpenPage(req)
    PROVE  Asks \/ Opens
<1>1. CASE currentView = 0
  <2>1. openInNewView(req, isSyntheticSpread)
    BY <1>1 DEF readerOpenPage
  <2> QED
    BY <2>1, BooleanTypes, openInNewViewShows
<1>2. CASE currentView # 0
  <2>1. /\ openPage(currentView, paginationInfo, View0, req)
        /\ currentView' = currentView /\ timers' = timers
    BY <1>2 DEF readerOpenPage, View0
  <2>2. /\ View0 \in View /\ ViewOK(currentView, View0, timers')
        /\ paginationInfo \in PaginationInfos
    BY <1>2, <2>1, OfView, BooleanTypes DEF View0
  <2> QED
    BY <1>2, <2>1, <2>2, OpenPageShows
<1> QED
  BY <1>1, <1>2

LEMMA PageTurnShows ==
    ASSUME IInv, currentView # 0, openPageNext(currentView) \/ openPagePrev(currentView),
           UNCHANGED <<currentView, timers>>
    PROVE  Asks \/ UNCHANGED <<Wanted, Shown>>
<1> DEFINE next == nextItem(View0.currentSpineItem)
           prev == prevItem(View0.currentSpineItem)
<1>1. /\ currentView \in Views /\ View0 \in View /\ paginationInfo \in PaginationInfos
      /\ ViewOK(currentView, View0, timers')
  BY OfView, BooleanTypes DEF View0
<1>2. ASSUME NEW index, turnTo(currentView, index) PROVE UNCHANGED <<Wanted, Shown>>
  <2> DEFINE i == [paginationInfo EXCEPT !.currentSpreadIndex = index]
  <2>1. Store(currentView, i, Redrawn(i, views[currentView]))
    BY <1>2 DEF turnTo
  <2> HIDE DEF i
  <2> QED
    BY <1>1, <2>1, MovedShows, SameShows DEF View0
<1>3. ASSUME NEW item \in Items
      PROVE  FirstPage(item) \in Requests /\ LastPage(item) \in Requests
  BY RequestTypes, ReflowableViewAssumption
<1>4. next \in Items \cup {NoItem} /\ prev \in Items \cup {NoItem}
  BY Neighbours
<1>5. CASE openPageNext(currentView)
  <2>1. \/ turnTo(currentView, paginationInfo.currentSpreadIndex + 1)
        \/ next # NoItem /\ openPage(currentView, paginationInfo, View0, FirstPage(next))
    BY <1>5 DEF openPageNext, View0
  <2> HIDE DEF next
  <2> QED
    BY <1>1, <1>2, <1>3, <1>4, <2>1, OpenPageShows
<1>6. CASE openPagePrev(currentView)
  <2>1. \/ turnTo(currentView, paginationInfo.currentSpreadIndex - 1)
        \/ prev # NoItem /\ openPage(currentView, paginationInfo, View0, LastPage(prev))
    BY <1>6 DEF openPagePrev, View0
  <2> HIDE DEF prev
  <2> QED
    BY <1>1, <1>2, <1>3, <1>4, <2>1, OpenPageShows
<1> QED
  BY <1>5, <1>6

LEMMA readerPageTurnShows ==
    ASSUME IInv, currentView # 0, readerOpenPageNext \/ readerOpenPagePrev
    PROVE  Asks \/ Opens \/ UNCHANGED <<Wanted, Shown>>
<1> DEFINE next == nextItem(View0.currentSpineItem)
           prev == prevItem(View0.currentSpineItem)
<1>1. ASSUME NEW item \in Items
      PROVE  FirstPage(item) \in Requests /\ LastPage(item) \in Requests
  BY RequestTypes, ReflowableViewAssumption
<1>2. next \in Items \cup {NoItem} /\ prev \in Items \cup {NoItem}
  BY Neighbours
<1>3. \/ next # NoItem /\ readerOpenPage(FirstPage(next))
      \/ prev # NoItem /\ readerOpenPage(LastPage(prev))
      \/ /\ openPageNext(currentView) \/ openPagePrev(currentView)
         /\ UNCHANGED <<currentView, timers>>
  BY DEF readerOpenPageNext, readerOpenPagePrev, View0
<1> HIDE DEF next, prev
<1> QED
  BY <1>1, <1>2, <1>3, readerOpenPageShows, PageTurnShows

LEMMA BookCallsShow ==
    ASSUME IInv, BookCalls
    PROVE  Opens \/ (Wanted' = NoItem /\ Shown' = NoItem)
<1>1. ASSUME NEW synthetic \in BOOLEAN, NEW req \in BookRequests, openBook(synthetic, req)
      PROVE  Opens
  <2>1. req \in Requests
    BY CallersRequestTypes
  <2> QED
    BY <1>1, <2>1, openInNewViewShows DEF openBook
<1>2. ASSUME NEW synthetic \in BOOLEAN, openBookAtUnknownItem(synthetic)
      PROVE  Wanted' = NoItem /\ Shown' = NoItem
  BY <1>2 DEF openBookAtUnknownItem, Wanted, Shown
<1> QED
  BY <1>1, <1>2 DEF BookCalls

LEMMA PageCallsShow ==
    ASSUME IInv, PageCalls
    PROVE  Asks \/ Opens \/ UNCHANGED <<Wanted, Shown>>
<1>1. ASSUME Throws PROVE UNCHANGED <<Wanted, Shown>>
  BY <1>1, NoStoreShows DEF Throws
<1>2. CASE openPageLeft \/ openPageRight
  BY <1>1, <1>2, readerPageTurnShows DEF openPageLeft, openPageRight
<1>3. ASSUME NEW i \in Items, NEW p \in -1 .. MaxColumns, openSpineItemPage(i, p)
      PROVE  Asks \/ Opens \/ UNCHANGED <<Wanted, Shown>>
  <2>1. PageIndex(i, p) \in Requests /\ NoTarget(i) \in Requests
    BY RequestTypes
  <2> QED
    BY <1>1, <1>3, <2>1, readerOpenPageShows DEF openSpineItemPage
<1>4. /\ \A p : openPageIndex(p) => UNCHANGED <<Wanted, Shown>>
      /\ \A req \in ElementRequests :
            openElement(req) => Asks \/ Opens \/ UNCHANGED <<Wanted, Shown>>
  BY <1>1, CallersRequestTypes, readerOpenPageShows DEF openPageIndex, openElement
<1>5. 0 .. MaxColumns \subseteq -1 .. MaxColumns
  BY ReflowableViewAssumption
<1> QED
  BY <1>2, <1>3, <1>4, <1>5 DEF PageCalls

LEMMA LayoutCallsShow ==
    ASSUME IInv, LayoutCalls
    PROVE  Asks \/ UNCHANGED <<Wanted, Shown>>
<1>1. ASSUME NEW synthetic \in BOOLEAN, updateSettings(synthetic)
      PROVE  Asks \/ UNCHANGED <<Wanted, Shown>>
  <2>1. CASE currentView = 0
    BY <1>1, <2>1, NoStoreShows DEF updateSettings
  <2>2. CASE currentView # 0
    <3> DEFINE v == currentView
               w == views[v]
               n == [paginationInfo EXCEPT !.visibleColumnCount = visibleColumns(synthetic)]
               i == Columnized(n, w, lastViewPortSize)
    <3>1. /\ openPage(v, i, ShiftedOffScreen(w), NoTarget(w.currentSpineItem))
          /\ StartMeasure(v, w) /\ currentView' = currentView
      BY <1>1, <2>2 DEF updateSettings
    <3>2. /\ v \in Views /\ w \in View /\ timers \in Seq(Timers)
          /\ HiddenOK(v, w, timers) /\ ViewOK(v, w, timers)
          /\ lastViewPortSize \in Sizes \cup {0} /\ n \in PaginationInfos
      BY <2>2, BooleanTypes, OfView DEF PaginationInfos, visibleColumns
    <3>3. /\ timers' \in Seq(Timers) /\ Keeps(timers, timers')
          /\ w.html # "undefined" => Has(timers', Timer("measure", v))
      BY <3>1, <3>2, MeasureStarts DEF StartMeasure, Keeps
    <3>4. NoTarget(w.currentSpineItem) \in Requests
      <4>1. w.currentSpineItem \in Items
        BY <3>2 DEF ViewOK
      <4> QED
        BY <4>1, RequestTypes, ReflowableViewAssumption
    <3>5. /\ i \in PaginationInfos /\ ShiftedOffScreen(w) \in View
          /\ ViewOK(v, ShiftedOffScreen(w), timers')
      BY <3>2, <3>3, ShiftKeeps
    <3>6. ShownOf(ShiftedOffScreen(w)) = ShownOf(View0)
      BY <3>2, MovedShows DEF View0
    <3> HIDE DEF i
    <3> QED
      BY <2>2, <3>1, <3>4, <3>5, <3>6, OpenPageShows
  <2> QED
    BY <2>1, <2>2
<1>2. CASE setStyles
  <2>1. /\ currentView # 0 /\ currentView' = currentView
        /\ Store(currentView, Columnized(paginationInfo, views[currentView], ViewportOf(currentView)),
                 ShiftedOffScreen(views[currentView]))
    BY <1>2 DEF setStyles, applyStyles, updatePagination
  <2>2. currentView \in Views /\ views[currentView] \in View
    BY <2>1, BooleanTypes, OfView
  <2> QED
    BY <2>1, <2>2, MovedShows, SameShows
<1>3. ASSUME NEW size, resizeWindow(size) PROVE UNCHANGED <<Wanted, Shown>>
  BY <1>3, NoStoreShows DEF resizeWindow
<1> QED
  BY <1>1, <1>2, <1>3 DEF LayoutCalls

-----------------------------------------------------------------------------
LEMMA InitShows == Init => Viewer!Init
BY DEF Init, Viewer!Init, Wanted, Shown

LEMMA NextShows == IInv /\ [Next]_vars => [Viewer!Next]_(Viewer!vars)
<1> SUFFICES ASSUME IInv, [Next]_vars PROVE [Viewer!Next]_(Viewer!vars)
  OBVIOUS
<1>1. Asks => Viewer!Ask
  BY DEF Asks, Viewer!Ask
<1>2. Opens => Viewer!Open
  BY DEF Opens, Viewer!Open
<1>3. CASE BookCalls
  BY <1>2, <1>3, BookCallsShow DEF Viewer!Next, Viewer!Close
<1>4. CASE PageCalls
  BY <1>1, <1>2, <1>4, PageCallsShow DEF Viewer!Next, Viewer!vars
<1>5. CASE LayoutCalls
  BY <1>1, <1>5, LayoutCallsShow DEF Viewer!Next, Viewer!vars
<1>6. CASE Browser
  <2>1. Wanted \in Items => Wanted # NoItem
    BY SpineAssumption DEF Items, NoItem
  <2> QED
    BY <1>6, <2>1, BrowserShows DEF Viewer!Next, Viewer!Blank, Viewer!Present, Viewer!vars
<1>7. CASE UNCHANGED vars
  BY <1>7, NoStoreShows DEF vars, viewVars, Viewer!vars
<1> QED
  BY <1>3, <1>4, <1>5, <1>6, <1>7 DEF Next

(* The reader implements the safety part of the viewer: no document is ever  *)
(* presented that is not the one wanted at that moment, for any book and any *)
(* interleaving of calls, timers and events of the iframe.                   *)
THEOREM ReaderImplementsViewer == Spec => PresentsOnlyWanted
<1>1. Init => Viewer!Init
  BY InitShows
<1>2. IInv /\ [Next]_vars => [Viewer!Next]_(Viewer!vars)
  BY NextShows
<1> QED
  BY <1>1, <1>2, Invariance, PTL DEF Spec, PresentsOnlyWanted, Viewer!SafeSpec

(* Only calls change what is wanted.                                         *)
THEOREM OnlyCallsAskHolds == Spec => OnlyCallsAsk
<1>1. IInv /\ [Next]_vars => [Browser => Wanted' = Wanted]_vars
  BY BrowserShows
<1> QED
  BY <1>1, Invariance, PTL DEF Spec, OnlyCallsAsk

(* A view that does not present what is wanted is navigating to it, so       *)
(* that a turn of the browser is still to come.                              *)
THEOREM WantedIsOnItsWay == Spec => [](Shown # Wanted => View0.navigation # "idle")
<1>1. IInv => (Shown # Wanted => View0.navigation # "idle")
  <2> SUFFICES ASSUME IInv, currentView # 0, View0.navigation = "idle"
               PROVE  Shown = Wanted
    BY DEF Shown, Wanted
  <2>1. ViewOK(currentView, View0, timers)  BY DEF IInv, View0
  <2> QED  BY <2>1 DEF ViewOK, Shown, Wanted, ShownOf, WantedOf
<1> QED  BY <1>1, Invariance, PTL

-----------------------------------------------------------------------------
(* What is left for the browser to do.                                      *)

Weight(t) == CASE t.kind = "show" -> 1 [] t.kind = "measure" -> 2 [] t.kind = "resize" -> 3

Slow    == [kind : {"measure", "resize"}, view : Views]
Resizes == [kind : {"resize"}, view : Views]

LEMMA WorkIsNatural ==
    ASSUME NEW q \in Seq(Timers)
    PROVE  /\ TimerWork(q) \in Nat /\ HowMany(q, Slow) \in Nat /\ HowMany(q, Resizes) \in Nat
           /\ TimerWork(q) = Len(q) + HowMany(q, Slow) + HowMany(q, Resizes)
           /\ Len(q) \in Nat
<1>1. HowMany(q, Slow) \in Nat /\ HowMany(q, Resizes) \in Nat /\ Len(q) \in Nat
  BY PlacesAreFinite, LenProperties
<1>2. TimerWork(q) = Len(q) + HowMany(q, Slow) + HowMany(q, Resizes)
  BY DEF TimerWork, Slow, Resizes
<1> QED  BY <1>1, <1>2

LEMMA WeightIs ==
    ASSUME NEW t \in Timers
    PROVE  1 + (IF t \in Slow THEN 1 ELSE 0) + (IF t \in Resizes THEN 1 ELSE 0) = Weight(t)
BY DEF Weight, Timers, Slow, Resizes

LEMMA WorkOfTail ==
    ASSUME NEW q \in Seq(Timers), q # <<>>
    PROVE  TimerWork(q) = TimerWork(Tail(q)) + Weight(Head(q))
<1>1. /\ Tail(q) \in Seq(Timers) /\ Len(Tail(q)) = Len(q) - 1 /\ Head(q) \in Timers
  BY HeadTailProperties
<1>2. /\ HowMany(q, Slow) = HowMany(Tail(q), Slow) + (IF Head(q) \in Slow THEN 1 ELSE 0)
      /\ HowMany(q, Resizes)
            = HowMany(Tail(q), Resizes) + (IF Head(q) \in Resizes THEN 1 ELSE 0)
  BY CountTail
<1>3. 1 + (IF Head(q) \in Slow THEN 1 ELSE 0) + (IF Head(q) \in Resizes THEN 1 ELSE 0)
        = Weight(Head(q))
  BY <1>1, WeightIs
<1>4. /\ TimerWork(q) = Len(q) + HowMany(q, Slow) + HowMany(q, Resizes)
      /\ TimerWork(Tail(q))
            = Len(Tail(q)) + HowMany(Tail(q), Slow) + HowMany(Tail(q), Resizes)
      /\ HowMany(Tail(q), Slow) \in Nat /\ HowMany(Tail(q), Resizes) \in Nat /\ Len(q) \in Nat
  BY <1>1, WorkIsNatural
<1> QED  BY <1>1, <1>2, <1>3, <1>4

LEMMA WorkOfAppended ==
    ASSUME NEW q \in Seq(Timers), NEW t \in Timers
    PROVE  TimerWork(Append(q, t)) = TimerWork(q) + Weight(t)
<1>1. Append(q, t) \in Seq(Timers) /\ Len(Append(q, t)) = Len(q) + 1
  BY AppendProperties
<1>2. /\ HowMany(Append(q, t), Slow) = HowMany(q, Slow) + (IF t \in Slow THEN 1 ELSE 0)
      /\ HowMany(Append(q, t), Resizes) = HowMany(q, Resizes) + (IF t \in Resizes THEN 1 ELSE 0)
  BY CountAppend
<1> DEFINE r == Append(q, t)
<1> HIDE DEF r
<1>3. /\ TimerWork(q) = Len(q) + HowMany(q, Slow) + HowMany(q, Resizes)
      /\ TimerWork(r) = Len(r) + HowMany(r, Slow) + HowMany(r, Resizes)
      /\ HowMany(q, Slow) \in Nat /\ HowMany(q, Resizes) \in Nat /\ Len(q) \in Nat
  BY <1>1, WorkIsNatural DEF r
<1> QED  BY <1>1, <1>2, <1>3, WeightIs DEF r

LEMMA WorkWithShow ==
    ASSUME NEW q \in Seq(Timers), NEW v \in Views, NEW r \in WithShow(q, v)
    PROVE  TimerWork(r) = TimerWork(q) + 1
<1> DEFINE t == Timer("show", v)
<1>1. PICK k \in 1 .. Len(q) + 1 : r = InsertAt(q, k, t)
  BY DEF WithShow
<1>2. t \in Timers /\ Weight(t) = 1
  BY DEF Timer, Timers, Weight
<1>3. /\ r \in Seq(Timers) /\ Len(r) = Len(q) + 1 /\ r[k] = t
      /\ \A n \in 1 .. k - 1 : r[n] = q[n]
      /\ \A n \in k .. Len(q) : r[n + 1] = q[n]
  BY <1>1, <1>2, InsertAtFacts
<1> HIDE DEF t
<1>4. /\ HowMany(r, Slow) = HowMany(q, Slow) + (IF t \in Slow THEN 1 ELSE 0)
      /\ HowMany(r, Resizes) = HowMany(q, Resizes) + (IF t \in Resizes THEN 1 ELSE 0)
  BY <1>3, OneMore
<1>5. /\ TimerWork(q) = Len(q) + HowMany(q, Slow) + HowMany(q, Resizes)
      /\ TimerWork(r) = Len(r) + HowMany(r, Slow) + HowMany(r, Resizes)
      /\ HowMany(q, Slow) \in Nat /\ HowMany(q, Resizes) \in Nat /\ Len(q) \in Nat
  BY <1>3, WorkIsNatural
<1>6. 1 + (IF t \in Slow THEN 1 ELSE 0) + (IF t \in Resizes THEN 1 ELSE 0) = 1
  BY <1>2, WeightIs
<1>7. Len(r) = Len(q) + 1  BY <1>3
<1> HIDE DEF t
<1> QED  BY ONLY <1>4, <1>5, <1>6, <1>7

FrameLeft == IF currentView = 0 THEN 0 ELSE FrameWork(View0)

LEMMA FrameWorkIsNatural ==
    ASSUME NEW w \in View
    PROVE  FrameWork(w) \in Nat /\ (FrameWork(w) = 0 <=> w.navigation = "idle")
<1>1. w.navigation \in {"idle", "requested", "committed"}  BY DEF View, Navigation
<1> QED  BY <1>1 DEF FrameWork

LEMMA FrameLeftIsNatural ==
    ASSUME IInv PROVE FrameLeft \in Nat
<1>1. views \in [Views -> View] /\ currentView \in Views \cup {0}  BY DEF IInv, TypeOK
<1> QED  BY <1>1, FrameWorkIsNatural DEF FrameLeft, View0

LEMMA SameFrameWork ==
    ASSUME NEW w, NEW w2, w2.navigation = w.navigation,
           w2.deferredPageRequest = w.deferredPageRequest,
           w2.currentSpineItem = w.currentSpineItem
    PROVE  FrameWork(w2) = FrameWork(w)
BY DEF FrameWork, NewRequestCame

LEMMA MovedWorks ==
    ASSUME NEW w \in View, NEW i
    PROVE  /\ FrameWork(Redrawn(i, w)) = FrameWork(w)
           /\ FrameWork(ShiftedOffScreen(w)) = FrameWork(w)
<1>1. /\ Redrawn(i, w).deferredPageRequest = w.deferredPageRequest
      /\ Redrawn(i, w).currentSpineItem = w.currentSpineItem
      /\ Redrawn(i, w).navigation = w.navigation
  BY DEF Redrawn, View
<1>2. /\ ShiftedOffScreen(w).deferredPageRequest = w.deferredPageRequest
      /\ ShiftedOffScreen(w).currentSpineItem = w.currentSpineItem
      /\ ShiftedOffScreen(w).navigation = w.navigation
  BY DEF ShiftedOffScreen, View
<1> QED  BY <1>1, <1>2, SameFrameWork

(* A step that stores view v changes what is left if v is the reader's.     *)
LEMMA StoreWorks ==
    ASSUME IInv, NEW v \in Views, NEW i2, NEW w2, Store(v, i2, w2), currentView' = currentView
    PROVE  /\ currentView = v => FrameLeft' = FrameWork(w2) /\ FrameLeft = FrameWork(views[v])
           /\ currentView # v => FrameLeft' = FrameLeft
<1>1. views \in [Views -> View] /\ currentView \in Views \cup {0} /\ v # 0
  BY DEF IInv, TypeOK, Views
<1>2. views'[v] = w2 /\ \A u \in Views \ {v} : views'[u] = views[u]
  BY <1>1 DEF Store
<1> QED  BY <1>1, <1>2 DEF FrameLeft, View0

LEMMA SameWorks ==
    ASSUME IInv, NEW v \in Views, NEW i2, NEW w2, Store(v, i2, w2), currentView' = currentView,
           currentView = v => FrameWork(w2) = FrameWork(views[v])
    PROVE  FrameLeft' = FrameLeft
BY StoreWorks

LEMMA LaysOutWorks ==
    ASSUME IInv, NEW v \in Views, NEW c \in MeasuredColumns(v), LaysOut(v, c),
           currentView' = currentView
    PROVE  FrameLeft' = FrameLeft
<1> DEFINE h  == LaidOutView(views[v])
           w1 == [h EXCEPT !.deferredPageRequest = NoRequest]
<1>1. /\ views[v] \in View /\ h \in View
      /\ h.navigation = views[v].navigation
      /\ h.currentSpineItem = views[v].currentSpineItem
      /\ h.isWaitingFrameRender = views[v].isWaitingFrameRender
      /\ h.deferredPageRequest = views[v].deferredPageRequest
      /\ currentView = v => ViewOK(v, views[v], timers)
  BY OfView, MeasuredView
<1>2. FrameWork(h) = FrameWork(views[v])
  BY <1>1, SameFrameWork
<1>3. openDeferredElement(v, Measured(c), h)
  BY DEF LaysOut
<1> HIDE DEF h
<1>4. CASE h.deferredPageRequest = NoRequest
  <2>1. Store(v, Measured(c), h)
    BY <1>3, <1>4 DEF openDeferredElement
  <2> QED  BY <1>1, <1>2, <2>1, SameWorks
<1>5. CASE h.deferredPageRequest # NoRequest
  <2> DEFINE req == h.deferredPageRequest
  <2>1. /\ req \in Requests /\ w1 \in View /\ openPage(v, Measured(c), w1, req)
        /\ w1.navigation = h.navigation /\ w1.currentSpineItem = h.currentSpineItem
        /\ w1.isWaitingFrameRender = h.isWaitingFrameRender
    BY <1>1, <1>3, <1>5 DEF View, openDeferredElement
  <2> HIDE DEF w1
  <2>2. PICK i2 \in PaginationInfos, w2 \in View : Store(v, i2, w2) /\ Opened(w1, w2, req)
    BY <2>1, MeasuredTypes, OpenPageEffect
  <2>3. ASSUME currentView = v PROVE FrameWork(w2) = FrameWork(h)
    <3>1. CASE w1.isWaitingFrameRender
      <4>1. w2 = [w1 EXCEPT !.deferredPageRequest = req]
        BY <2>2, <3>1 DEF Opened
      <4>2. /\ w2.navigation = h.navigation /\ w2.currentSpineItem = h.currentSpineItem
            /\ w2.deferredPageRequest = h.deferredPageRequest
        BY <2>1, <4>1 DEF View
      <4> QED  BY <4>2, SameFrameWork
    <3>2. CASE ~w1.isWaitingFrameRender
      <4>1. req.spineItem = w1.currentSpineItem /\ h.navigation = "idle"
        BY <1>1, <1>5, <2>1, <2>3, <3>2 DEF ViewOK
      <4>2. w2.navigation = "idle"
        BY <2>1, <2>2, <3>2, <4>1 DEF Opened, View
      <4> QED  BY <4>1, <4>2 DEF FrameWork
    <3> QED  BY <3>1, <3>2
  <2> QED  BY <1>1, <1>2, <2>2, <2>3, SameWorks
<1> QED  BY <1>4, <1>5

LEMMA CutsShortWorks ==
    ASSUME IInv, NEW v \in Views, NEW c, CutsShort(v, c), currentView' = currentView
    PROVE  FrameLeft' = FrameLeft
<1> DEFINE w  == views[v]
           w2 == CutShortView(w)
<1>1. /\ Store(v, Measured(c), w2) /\ w \in View /\ ~w.isWaitingFrameRender
      /\ currentView = v => ViewOK(v, w, timers)
  BY OfView DEF CutsShort, LookupThrows
<1>2. w2.navigation = w.navigation
  BY <1>1, MeasuredView
<1>3. currentView = v => w.navigation = "idle"
  BY <1>1 DEF ViewOK
<1> HIDE DEF w, w2
<1>4. currentView = v => FrameWork(w2) = FrameWork(w)
  BY <1>2, <1>3 DEF FrameWork
<1> QED  BY <1>1, <1>4, SameWorks DEF w

LEMMA TimerLess ==
    ASSUME IInv, NEW v \in Views, MeasureTimer(v) \/ ShowTimer(v) \/ ResizeTimer(v)
    PROVE  TimerWork(timers') < TimerWork(timers) /\ FrameLeft' = FrameLeft
<1>1. /\ views[v] \in View /\ timers \in Seq(Timers) /\ timers # <<>>
      /\ currentView' = currentView
  BY OfView DEF MeasureTimer, ShowTimer, ResizeTimer, Fires
<1>2. /\ Tail(timers) \in Seq(Timers)
      /\ TimerWork(timers) = TimerWork(Tail(timers)) + Weight(Head(timers))
      /\ TimerWork(Tail(timers)) \in Nat
  BY <1>1, HeadTailProperties, WorkOfTail, WorkIsNatural
<1>3. /\ Timer("measure", v) \in Timers
      /\ Weight(Timer("show", v)) = 1 /\ Weight(Timer("measure", v)) = 2
      /\ Weight(Timer("resize", v)) = 3
  BY DEF Timer, Timers, Weight
<1>4. CASE MeasureTimer(v)
  <2>1. PICK c \in MeasuredColumns(v) : LaysOut(v, c) \/ CutsShort(v, c)
    BY <1>4, HowMeasured
  <2>2. Head(timers) = Timer("measure", v)
    BY <1>4, HowMeasured
  <2>3. CASE LaysOut(v, c)
    <3>1. TimerWork(timers') = TimerWork(Tail(timers)) + 1
      BY <1>2, <2>3, WorkWithShow DEF LaysOut
    <3> QED  BY <1>1, <1>2, <1>3, <2>2, <2>3, <3>1, LaysOutWorks
  <2>4. CASE CutsShort(v, c)
    <3>1. timers' = Tail(timers)
      BY <2>4 DEF CutsShort
    <3> QED  BY <1>1, <1>2, <1>3, <2>2, <2>4, <3>1, CutsShortWorks
  <2> QED  BY <2>1, <2>3, <2>4
<1>5. CASE ShowTimer(v)
  <2> DEFINE h == [views[v] EXCEPT !.hidden = FALSE]
  <2>1. Head(timers) = Timer("show", v) /\ timers' = Tail(timers)
    BY <1>5 DEF ShowTimer, Fires
  <2>2. h \in View /\ FrameWork(h) = FrameWork(views[v])
    <3>1. /\ h \in View /\ h.navigation = views[v].navigation
          /\ h.deferredPageRequest = views[v].deferredPageRequest
          /\ h.currentSpineItem = views[v].currentSpineItem
      BY <1>1 DEF View
    <3> QED  BY <3>1, SameFrameWork
  <2>3. Store(v, paginationInfo, Redrawn(paginationInfo, h))
    BY <1>5 DEF ShowTimer
  <2> HIDE DEF h
  <2>4. FrameWork(Redrawn(paginationInfo, h)) = FrameWork(views[v])
    BY <2>2, MovedWorks
  <2>5. FrameLeft' = FrameLeft
    BY <1>1, <2>3, <2>4, SameWorks
  <2> QED  BY <1>2, <1>3, <2>1, <2>5
<1>6. CASE ResizeTimer(v)
  <2>1. Head(timers) = Timer("resize", v)
    BY <1>6 DEF ResizeTimer, Fires
  <2>2. CASE lastViewPortSize' # lastViewPortSize /\ views[v].html # "undefined"
    <3>1. /\ Store(v, Columnized(paginationInfo, views[v], lastViewPortSize'),
                   ShiftedOffScreen(views[v]))
          /\ timers' = Append(Tail(timers), Timer("measure", v))
      BY <1>6, <2>2 DEF ResizeTimer
    <3>2. TimerWork(timers') = TimerWork(Tail(timers)) + 2
      BY <1>2, <1>3, <3>1, WorkOfAppended
    <3>3. FrameLeft' = FrameLeft
      BY <1>1, <3>1, MovedWorks, SameWorks
    <3> QED  BY <1>2, <1>3, <2>1, <3>2, <3>3
  <2>3. CASE ~(lastViewPortSize' # lastViewPortSize /\ views[v].html # "undefined")
    <3>1. timers' = Tail(timers) /\ views' = views
      BY <1>6, <2>3 DEF ResizeTimer
    <3>2. FrameLeft' = FrameLeft
      BY <1>1, <3>1 DEF FrameLeft, View0
    <3> QED  BY <1>2, <1>3, <2>1, <3>1, <3>2
  <2> QED  BY <2>2, <2>3
<1> QED  BY <1>4, <1>5, <1>6

LEMMA FrameLess ==
    ASSUME IInv, NEW v \in Views, CommitNavigation(v) \/ onIFrameLoad(v)
    PROVE  TimerWork(timers') + FrameLeft' < TimerWork(timers) + FrameLeft
<1>1. /\ v = currentView /\ currentView' = currentView /\ views[v] \in View
      /\ timers \in Seq(Timers) /\ TimerWork(timers) \in Nat
      /\ ViewOK(v, views[v], timers)
  BY OfView, WorkIsNatural DEF CommitNavigation, onIFrameLoad
<1>2. CASE CommitNavigation(v)
  <2>1. /\ Store(v, paginationInfo, Committed(views[v])) /\ timers' = timers
        /\ views[v].navigation = "requested"
    BY <1>2 DEF CommitNavigation
  <2>2. FrameLeft' = FrameWork(Committed(views[v])) /\ FrameLeft = FrameWork(views[v])
    BY <1>1, <2>1, StoreWorks
  <2>3. /\ Committed(views[v]).navigation = "committed"
        /\ NewRequestCame(Committed(views[v])) <=> NewRequestCame(views[v])
    BY <1>1 DEF Committed, View, NewRequestCame
  <2>4. FrameWork(Committed(views[v])) < FrameWork(views[v])
    BY <2>1, <2>3 DEF FrameWork
  <2>5. FrameWork(views[v]) \in {4, 6} /\ FrameWork(Committed(views[v])) \in {3, 5}
    BY <2>1, <2>3 DEF FrameWork
  <2> QED  BY <1>1, <2>1, <2>2, <2>4, <2>5
<1>3. CASE onIFrameLoad(v)
  <2> DEFINE w == FrameRendered(views[v])
  <2>1. /\ w \in View /\ views[v].navigation = "committed" /\ w.navigation = "idle"
        /\ NewRequestCame(w) <=> NewRequestCame(views[v])
    BY <1>1, <1>3 DEF onIFrameLoad, FrameRendered, View, Navigation, NewRequestCame
  <2> HIDE DEF w
  <2>2. CASE NewRequestCame(w)
    <3> DEFINE item == w.deferredPageRequest.spineItem
               i2   == [paginationInfo EXCEPT !.currentSpreadIndex = 0]
               w2   == [w EXCEPT !.currentSpineItem = item, !.isWaitingFrameRender = TRUE,
                                 !.navigation = "requested"]
    <3>1. Store(v, i2, w2) /\ timers' = timers
      BY <1>3, <2>2 DEF onIFrameLoad, loadSpineItem, NewRequestCame, w
    <3>2. w2.navigation = "requested" /\ ~NewRequestCame(w2)
      BY <2>1 DEF View, NewRequestCame
    <3> HIDE DEF w2, i2
    <3>3. FrameLeft' = 4 /\ FrameLeft = 5
      BY <1>1, <2>1, <2>2, <3>1, <3>2, StoreWorks DEF FrameWork
    <3> QED  BY <1>1, <3>1, <3>3
  <2>3. CASE ~NewRequestCame(w)
    <3> DEFINE w1 == [w EXCEPT !.html = "attached", !.hidden = FALSE]
               i2 == Columnized(paginationInfo, w1, ViewportOf(v))
               w2 == ShiftedOffScreen(w1)
    <3>1. w1 \in View /\ w1.html = "attached" /\ w1.navigation = "idle"
      BY <2>1 DEF View, HtmlStates
    <3>2. Store(v, i2, w2) /\ timers' = Append(timers, Timer("measure", v))
      BY <1>3, <2>3, <3>1
         DEF onIFrameLoad, applyStyles, updatePagination, StartMeasure, w
    <3> HIDE DEF w1
    <3>3. FrameWork(w2) = 0
      BY <3>1, MovedWorks DEF FrameWork
    <3> HIDE DEF w2, i2
    <3>4. FrameLeft' = 0 /\ FrameLeft = 3
      BY <1>1, <2>1, <2>3, <3>2, <3>3, StoreWorks DEF FrameWork
    <3>5. Timer("measure", v) \in Timers /\ Weight(Timer("measure", v)) = 2
      BY DEF Timer, Timers, Weight
    <3>6. TimerWork(timers') = TimerWork(timers) + 2
      BY <1>1, <3>2, <3>5, WorkOfAppended
    <3> QED  BY <1>1, <3>4, <3>6
  <2> QED  BY <2>2, <2>3
<1> QED  BY <1>2, <1>3

(* Every timer and every event of the iframe leaves the browser less to do, *)
(* whatever removed views have pending: no chain of timers and navigations  *)
(* goes on by itself.                                                       *)
THEOREM BrowserRunsDown == Spec => WorkRunsOut
<1>1. IInv /\ [Next]_vars => [Browser => Work' < Work]_vars
  <2> SUFFICES ASSUME IInv, Browser PROVE Work' < Work
    OBVIOUS
  <2>1. Work = TimerWork(timers) + FrameLeft /\ Work' = TimerWork(timers') + FrameLeft'
    BY DEF Work, FrameLeft
  <2>2. FrameLeft \in Nat /\ TimerWork(timers) \in Nat /\ IInv'
    BY FrameLeftIsNatural, WorkIsNatural, NextKeeps DEF IInv, TypeOK, Next
  <2>3. TimerWork(timers') \in Nat
    BY <2>2, WorkIsNatural DEF IInv, TypeOK
  <2>4. CASE TimerFires
    BY <2>1, <2>2, <2>3, <2>4, TimerLess DEF TimerFires
  <2>5. CASE FrameEvent
    BY <2>1, <2>5, FrameLess DEF FrameEvent
  <2> QED  BY <2>4, <2>5 DEF Browser
<1> QED  BY <1>1, Invariance, PTL DEF Spec, WorkRunsOut

WorkLeft == Work \in Nat /\ (Work = 0 <=> AtRest)

(* ... and what is left is a natural number, 0 where the view is at rest:   *)
(* so many timers and events away from rest.                                *)
THEOREM RestIsNoWork == Spec => []WorkLeft
<1>1. IInv => WorkLeft
  <2> SUFFICES ASSUME IInv PROVE WorkLeft
    OBVIOUS
  <2>1. Work = TimerWork(timers) + FrameLeft
    BY DEF Work, FrameLeft
  <2>2. /\ timers \in Seq(Timers) /\ views \in [Views -> View] /\ currentView \in Views \cup {0}
    BY DEF IInv, TypeOK
  <2>3. /\ TimerWork(timers) \in Nat /\ FrameLeft \in Nat
        /\ TimerWork(timers) = 0 <=> timers = <<>>
    <3>1. Len(timers) \in Nat /\ (Len(timers) = 0 <=> timers = <<>>)
      BY <2>2, LenProperties, EmptySeq
    <3>2. /\ HowMany(timers, Slow) \in Nat /\ HowMany(timers, Slow) <= Len(timers)
          /\ HowMany(timers, Resizes) \in Nat /\ HowMany(timers, Resizes) <= Len(timers)
      BY <2>2, PlacesAreFinite
    <3> QED  BY <2>2, <3>1, <3>2, WorkIsNatural, FrameLeftIsNatural
  <2>4. FrameLeft = 0 <=> (currentView # 0 => ~View0.isWaitingFrameRender)
    <3>1. CASE currentView = 0  BY <3>1 DEF FrameLeft
    <3>2. CASE currentView # 0
      <4>1. View0 \in View /\ (View0.isWaitingFrameRender <=> View0.navigation # "idle")
        BY <2>2, <3>2 DEF IInv, ViewOK, View0
      <4> QED  BY <3>2, <4>1, FrameWorkIsNatural DEF FrameLeft
    <3> QED  BY <3>1, <3>2
  <2> QED  BY <2>1, <2>3, <2>4 DEF WorkLeft, AtRest
<1> QED  BY <1>1, Invariance, PTL

-----------------------------------------------------------------------------
(* Pages without a root.  paginationInfo counts pages only after a          *)
(* measurement, measurements are made of views that have a root, and the    *)
(* only views that have one have been created.                              *)

HasRoot(w)  == w.html # "undefined"
HasPages(i) == i.columnCount # 0 \/ i.currentSpreadIndex < 0

RootsOK ==
    /\ currentView <= viewCount
    /\ \A v \in Views : HasRoot(views[v]) => v <= viewCount
    /\ \A v \in Views : Has(timers, Timer("measure", v)) => HasRoot(views[v])
    /\ HasPages(paginationInfo) => \E v \in Views : HasRoot(views[v])

(* A request leaves the columns, their size and how many are shown.         *)
LEMMA OpenPageKeepsColumns ==
    ASSUME NEW v, NEW i \in PaginationInfos, NEW w, NEW req, openPage(v, i, w, req)
    PROVE  /\ paginationInfo'.columnSize = i.columnSize
           /\ paginationInfo'.columnCount = i.columnCount
           /\ paginationInfo'.visibleColumnCount = i.visibleColumnCount
<1>1. \/ paginationInfo' = i
      \/ paginationInfo' = [i EXCEPT !.currentSpreadIndex = 0]
      \/ paginationInfo' = [i EXCEPT !.currentSpreadIndex =
                              TargetPage(i, req) \div i.visibleColumnCount]
  BY DEF openPage, loadSpineItem, Store, AtPage
<1> QED
  BY <1>1 DEF PaginationInfos

LEMMA OpenPageHasPages ==
    ASSUME NEW v \in Views, NEW i \in PaginationInfos, NEW w \in View, NEW req \in Requests,
           openPage(v, i, w, req)
    PROVE  \E i2, w2 : /\ Store(v, i2, w2)
                       /\ HasPages(i2) => HasPages(i)
                       /\ HasRoot(w2) <=> HasRoot(w)
<1>1. PICK i2 \in PaginationInfos, w2 \in View : Store(v, i2, w2) /\ Opened(w, w2, req)
  BY OpenPageEffect
<1>2. HasRoot(w2) <=> HasRoot(w)
  <2>1. w2.html = w.html  BY <1>1 DEF Opened, View
  <2> QED  BY <2>1 DEF HasRoot
<1>3. HasPages(i2) => HasPages(i)
  <2>1. paginationInfo' = i2  BY <1>1 DEF Store
  <2>2. i2.columnCount = i.columnCount  BY <2>1, OpenPageKeepsColumns
  <2>3. NotLost(i) => NotLost(i2)  BY <2>1, OpenPageFinds
  <2>4. i.currentSpreadIndex \in Int /\ i2.currentSpreadIndex \in Int
    BY <1>1 DEF PaginationInfos
  <2> QED  BY <2>2, <2>3, <2>4 DEF HasPages, NotLost
<1> QED  BY <1>1, <1>2, <1>3

(* No step but updatePagination starts a measure timer.                     *)
OnlyOld(q, r) == \A u : Has(r, Timer("measure", u)) => Has(q, Timer("measure", u))

LEMMA TailIsOld ==
    ASSUME NEW q \in Seq(Timers), q # <<>>
    PROVE  OnlyOld(q, Tail(q))
<1>1. Len(q) \in Nat /\ Len(q) > 0  BY EmptySeq, LenProperties
<1>2. /\ Len(Tail(q)) = Len(q) - 1
      /\ \A n \in 1 .. Len(Tail(q)) : Tail(q)[n] = q[n + 1]
  BY HeadTailProperties
<1>3. \A n \in 1 .. Len(Tail(q)) : n + 1 \in 1 .. Len(q)
  BY <1>1, <1>2
<1> QED  BY <1>2, <1>3 DEF OnlyOld, Has

LEMMA AppendedIsNew ==
    ASSUME NEW q \in Seq(Timers), NEW t \in Timers, NEW u, Has(Append(q, t), u)
    PROVE  Has(q, u) \/ u = t
<1>1. /\ Len(q) \in Nat /\ Len(Append(q, t)) = Len(q) + 1 /\ Append(q, t)[Len(q) + 1] = t
      /\ \A n \in 1 .. Len(q) : Append(q, t)[n] = q[n]
  BY AppendProperties, LenProperties
<1>2. PICK n \in 1 .. Len(Append(q, t)) : Append(q, t)[n] = u
  BY DEF Has
<1>3. n = Len(q) + 1 \/ n \in 1 .. Len(q)
  BY <1>1, <1>2
<1> QED  BY <1>1, <1>2, <1>3 DEF Has

LEMMA WithShowIsOld ==
    ASSUME NEW q \in Seq(Timers), NEW v \in Views, NEW r \in WithShow(q, v)
    PROVE  OnlyOld(q, r)
<1> DEFINE t == Timer("show", v)
<1>1. PICK k \in 1 .. Len(q) + 1 : r = InsertAt(q, k, t)
  BY DEF WithShow
<1>2. t \in Timers /\ Len(q) \in Nat /\ \A u : Timer("measure", u) # t
  BY LenProperties DEF Timer, Timers
<1>3. /\ Len(r) = Len(q) + 1 /\ r[k] = t
      /\ \A n \in 1 .. k - 1 : r[n] = q[n]
      /\ \A n \in k .. Len(q) : r[n + 1] = q[n]
  BY <1>1, <1>2, InsertAtFacts
<1> HIDE DEF t
<1>4. ASSUME NEW u, Has(r, Timer("measure", u)) PROVE Has(q, Timer("measure", u))
  <2>1. PICK n \in 1 .. Len(r) : r[n] = Timer("measure", u)
    BY <1>4 DEF Has
  <2>2. n # k  BY <1>2, <1>3, <2>1
  <2>3. CASE n < k
    <3>1. n \in 1 .. k - 1 /\ n \in 1 .. Len(q)  BY <1>2, <1>3, <2>1, <2>3
    <3> QED  BY <1>3, <2>1, <3>1 DEF Has
  <2>4. CASE n > k
    <3>1. n - 1 \in k .. Len(q) /\ n - 1 \in 1 .. Len(q) /\ (n - 1) + 1 = n
      BY <1>2, <1>3, <2>1, <2>4
    <3>2. q[n - 1] = Timer("measure", u)  BY <1>3, <2>1, <3>1
    <3> QED  BY <3>1, <3>2 DEF Has
  <2> QED  BY <1>2, <2>1, <2>2, <2>3, <2>4
<1> QED  BY <1>4 DEF OnlyOld

LEMMA RestartedIsOld ==
    ASSUME NEW q \in Seq(Timers), NEW v \in Views, NEW r \in Restarted(q, Timer("resize", v))
    PROVE  OnlyOld(q, r)
<1> DEFINE t == Timer("resize", v)
<1>1. t \in Timers /\ \A u : Timer("measure", u) # t
  BY DEF Timer, Timers
<1> HIDE DEF t
<1>2. r = Append(q, t) \/ \E k \in 1 .. Len(q) : r = Append(RemoveAt(q, k), t)
  BY DEF Restarted, t
<1>3. ASSUME NEW k \in 1 .. Len(q)
      PROVE  /\ RemoveAt(q, k) \in Seq(Timers)
             /\ \A u : Has(RemoveAt(q, k), u) => Has(q, u)
  <2>1. /\ Len(q) \in Nat
        /\ RemoveAt(q, k) \in Seq(Timers) /\ Len(RemoveAt(q, k)) = Len(q) - 1
        /\ \A n \in 1 .. k - 1 : RemoveAt(q, k)[n] = q[n]
        /\ \A n \in k + 1 .. Len(q) : RemoveAt(q, k)[n - 1] = q[n]
    BY RemoveAtFacts, LenProperties
  <2>2. ASSUME NEW u, Has(RemoveAt(q, k), u) PROVE Has(q, u)
    <3>1. PICK n \in 1 .. Len(RemoveAt(q, k)) : RemoveAt(q, k)[n] = u
      BY <2>2 DEF Has
    <3>2. CASE n < k
      <4>1. n \in 1 .. k - 1 /\ n \in 1 .. Len(q)  BY <2>1, <3>1, <3>2
      <4> QED  BY <2>1, <3>1, <4>1 DEF Has
    <3>3. CASE ~(n < k)
      <4>1. n + 1 \in k + 1 .. Len(q) /\ n + 1 \in 1 .. Len(q) /\ (n + 1) - 1 = n
        BY <2>1, <3>1, <3>3
      <4>2. q[n + 1] = u  BY <2>1, <3>1, <4>1
      <4> QED  BY <4>1, <4>2 DEF Has
    <3> QED  BY <3>2, <3>3
  <2> QED  BY <2>1, <2>2
<1> QED  BY <1>1, <1>2, <1>3, AppendedIsNew DEF OnlyOld

(* Or of a view that has a root.                                            *)
OnlyMeasures(v, w) ==
    \/ OnlyOld(timers, timers')
    \/ HasRoot(w) /\ timers' = Append(timers, Timer("measure", v))
    \/ HasRoot(w) /\ timers # <<>> /\ timers' = Append(Tail(timers), Timer("measure", v))

(* A step that stores one view, which keeps its root or gets one, and       *)
(* starts no measurement but of that view.                                  *)
LEMMA StoredRoots ==
    ASSUME IInv, RootsOK, NEW v \in Views, NEW i2, NEW w2, Store(v, i2, w2),
           currentView' <= viewCount',
           \A u \in Views : u <= viewCount => u <= viewCount',
           HasRoot(w2) => v <= viewCount',
           HasRoot(views[v]) => HasRoot(w2),
           HasPages(i2) => HasPages(paginationInfo) \/ HasRoot(w2),
           OnlyMeasures(v, w2)
    PROVE  RootsOK'
<1>1. views \in [Views -> View] /\ timers \in Seq(Timers)
  BY DEF IInv, TypeOK
<1>2. /\ views'[v] = w2 /\ \A u \in Views \ {v} : views'[u] = views[u]
      /\ paginationInfo' = i2
  BY <1>1 DEF Store
<1>3. \A u \in Views : HasRoot(views[u]) => HasRoot(views'[u])
  BY <1>2
<1>4. \A u \in Views : HasRoot(views'[u]) => u <= viewCount'
  BY <1>2 DEF RootsOK
<1>5. \A u \in Views : Has(timers', Timer("measure", u)) => HasRoot(views'[u])
  <2> TAKE u \in Views
  <2>1. Has(timers, Timer("measure", u)) => HasRoot(views'[u])
    BY <1>3 DEF RootsOK
  <2>2. Timer("measure", v) \in Timers
        /\ (Timer("measure", u) = Timer("measure", v) => u = v)
    BY DEF Timer, Timers
  <2>3. timers # <<>> => Tail(timers) \in Seq(Timers) /\ OnlyOld(timers, Tail(timers))
    BY <1>1, TailIsOld, HeadTailProperties
  <2> QED  BY <1>1, <1>2, <2>1, <2>2, <2>3, AppendedIsNew DEF OnlyOld, OnlyMeasures
<1>6. HasPages(paginationInfo') => \E u \in Views : HasRoot(views'[u])
  BY <1>2, <1>3 DEF RootsOK
<1> QED  BY <1>4, <1>5, <1>6 DEF RootsOK

LEMMA KeptRoots ==
    ASSUME IInv, RootsOK, NEW v \in Views, NEW i2, NEW w2, Store(v, i2, w2),
           currentView' = currentView, viewCount' = viewCount,
           HasRoot(w2) => v <= viewCount,
           HasRoot(views[v]) => HasRoot(w2),
           HasPages(i2) => HasPages(paginationInfo) \/ HasRoot(w2),
           OnlyMeasures(v, w2)
    PROVE  RootsOK'
<1>1. currentView' <= viewCount' /\ (HasRoot(w2) => v <= viewCount')
  BY DEF RootsOK
<1>2. \A u \in Views : u <= viewCount => u <= viewCount'
  OBVIOUS
<1> QED  BY <1>1, <1>2, StoredRoots

(* A step that stores none.                                                 *)
LEMMA SameRoots ==
    ASSUME RootsOK, UNCHANGED <<views, paginationInfo>>, currentView' <= viewCount',
           viewCount' = viewCount, OnlyOld(timers, timers')
    PROVE  RootsOK'
BY DEF RootsOK, OnlyOld

LEMMA RootKept ==
    ASSUME NEW w \in View, NEW i
    PROVE  /\ HasRoot(Redrawn(i, w)) <=> HasRoot(w)
           /\ HasRoot(ShiftedOffScreen(w)) <=> HasRoot(w)
           /\ HasRoot(Committed(w)) <=> HasRoot(w)
           /\ \A b : HasRoot([w EXCEPT !.hidden = b]) <=> HasRoot(w)
<1>1. Redrawn(i, w).html = w.html  BY DEF Redrawn, View
<1>2. ShiftedOffScreen(w).html = w.html  BY DEF ShiftedOffScreen, View
<1>3. \A b : [w EXCEPT !.hidden = b].html = w.html  BY DEF View
<1>4. HasRoot(Committed(w)) <=> HasRoot(w)  BY DEF Committed, View, HasRoot
<1> QED  BY <1>1, <1>2, <1>3, <1>4 DEF HasRoot

LEMMA ColumnizedHasPages ==
    ASSUME NEW i \in PaginationInfos, NEW w, NEW s
    PROVE  HasPages(Columnized(i, w, s)) => HasPages(i)
BY DEF HasPages, Columnized, PaginationInfos

LEMMA BrowserRoots ==
    ASSUME IInv, RootsOK, Browser
    PROVE  RootsOK'
<1>1. /\ currentView' = currentView /\ viewCount' = viewCount /\ currentView' <= viewCount'
      /\ timers \in Seq(Timers) /\ paginationInfo \in PaginationInfos
  BY BooleanTypes DEF Browser, TimerFires, FrameEvent, MeasureTimer, ShowTimer, ResizeTimer, Fires,
         CommitNavigation, onIFrameLoad, readerVars, RootsOK
<1>2. ASSUME NEW v \in Views, MeasureTimer(v) PROVE RootsOK'
  <2> DEFINE h  == LaidOutView(views[v])
             w1 == [h EXCEPT !.deferredPageRequest = NoRequest]
             cs == CutShortView(views[v])
  <2>1. PICK c \in MeasuredColumns(v) : LaysOut(v, c) \/ CutsShort(v, c)
    BY <1>2, HowMeasured
  <2>2. /\ views[v] \in View /\ timers # <<>> /\ Head(timers) = Timer("measure", v)
        /\ Tail(timers) \in Seq(Timers)
        /\ timers' \in WithShow(Tail(timers), v) \/ timers' = Tail(timers)
    BY <1>1, <1>2, <2>1, OfView, HeadTailProperties
       DEF MeasureTimer, Fires, LaysOut, CutsShort
  <2>3. HasRoot(views[v])
    <3>1. Len(timers) \in Nat /\ Len(timers) > 0 /\ Head(timers) = timers[1]
      BY <1>1, <2>2, LenProperties, EmptySeq
    <3>2. Has(timers, Timer("measure", v))  BY <2>2, <3>1 DEF Has
    <3> QED  BY <3>2 DEF RootsOK
  <2>4. OnlyOld(timers, timers')
    BY <1>1, <2>2, TailIsOld, WithShowIsOld DEF OnlyOld
  <2>5. h \in View /\ w1 \in View /\ HasRoot(h) /\ HasRoot(w1) /\ HasRoot(cs)
    BY <2>2, <2>3 DEF LaidOutView, CutShortView, View, HasRoot
  <2> DEFINE req == h.deferredPageRequest
  <2>6. \E i2, w2 : Store(v, i2, w2) /\ HasRoot(w2)
    <3>1. CASE CutsShort(v, c)
      BY <2>5, <3>1 DEF CutsShort
    <3>2. CASE LaysOut(v, c) /\ req = NoRequest
      <4>1. Store(v, Measured(c), h)  BY <3>2 DEF LaysOut, openDeferredElement
      <4> QED  BY <2>5, <4>1
    <3>3. CASE LaysOut(v, c) /\ req # NoRequest
      <4>1. req \in Requests /\ openPage(v, Measured(c), w1, req)
        BY <2>5, <3>3 DEF View, LaysOut, openDeferredElement
      <4> HIDE DEF w1, req
      <4> QED  BY <2>5, <4>1, MeasuredTypes, OpenPageHasPages
    <3> QED  BY <2>1, <3>1, <3>2, <3>3
  <2>7. v <= viewCount  BY <2>3 DEF RootsOK
  <2> HIDE DEF h, w1, req, cs
  <2> QED  BY <1>1, <2>4, <2>6, <2>7, KeptRoots DEF OnlyMeasures
<1>3. ASSUME NEW v \in Views, ShowTimer(v) PROVE RootsOK'
  <2> DEFINE h  == [views[v] EXCEPT !.hidden = FALSE]
             w2 == Redrawn(paginationInfo, h)
  <2>1. /\ views[v] \in View /\ timers # <<>> /\ timers' = Tail(timers)
        /\ Store(v, paginationInfo, w2)
    BY <1>3, OfView DEF ShowTimer, Fires
  <2>2. h \in View /\ (HasRoot(h) <=> HasRoot(views[v]))
    BY <2>1, RootKept DEF View
  <2>3. HasRoot(w2) <=> HasRoot(views[v])
    BY <2>2, RootKept
  <2>4. OnlyOld(timers, timers')  BY <1>1, <2>1, TailIsOld
  <2>5. HasRoot(views[v]) => v <= viewCount  BY DEF RootsOK
  <2> HIDE DEF w2
  <2> QED  BY <1>1, <2>1, <2>3, <2>4, <2>5, KeptRoots DEF OnlyMeasures
<1>4. ASSUME NEW v \in Views, ResizeTimer(v) PROVE RootsOK'
  <2> DEFINE i2 == Columnized(paginationInfo, views[v], lastViewPortSize')
             w2 == ShiftedOffScreen(views[v])
  <2>1. views[v] \in View /\ timers # <<>>
    BY <1>4, OfView DEF ResizeTimer, Fires
  <2>2. CASE lastViewPortSize' # lastViewPortSize /\ views[v].html # "undefined"
    <3>1. Store(v, i2, w2) /\ timers' = Append(Tail(timers), Timer("measure", v))
      BY <1>4, <2>2 DEF ResizeTimer
    <3>2. HasRoot(w2) /\ HasRoot(views[v])  BY <2>1, <2>2, RootKept DEF HasRoot
    <3>3. v <= viewCount  BY <3>2 DEF RootsOK
    <3> HIDE DEF i2, w2
    <3> QED  BY <1>1, <2>1, <3>1, <3>2, <3>3, KeptRoots DEF OnlyMeasures
  <2>3. CASE ~(lastViewPortSize' # lastViewPortSize /\ views[v].html # "undefined")
    <3>1. timers' = Tail(timers) /\ UNCHANGED <<views, paginationInfo>>
      BY <1>4, <2>3 DEF ResizeTimer
    <3> QED  BY <1>1, <2>1, <3>1, TailIsOld, SameRoots
  <2> QED  BY <2>2, <2>3
<1>5. ASSUME NEW v \in Views, CommitNavigation(v) PROVE RootsOK'
  <2>1. views[v] \in View /\ timers' = timers /\ Store(v, paginationInfo, Committed(views[v]))
    BY <1>5, OfView DEF CommitNavigation
  <2>2. HasRoot(Committed(views[v])) <=> HasRoot(views[v])  BY <2>1, RootKept
  <2>3. HasRoot(views[v]) => v <= viewCount  BY DEF RootsOK
  <2> QED  BY <1>1, <2>1, <2>2, <2>3, KeptRoots DEF OnlyOld, OnlyMeasures
<1>6. ASSUME NEW v \in Views, onIFrameLoad(v) PROVE RootsOK'
  <2> DEFINE w == FrameRendered(views[v])
  <2>1. v = currentView /\ views[v] \in View /\ v <= viewCount
    BY <1>1, <1>6, OfView DEF onIFrameLoad
  <2>2. w \in View /\ (HasRoot(w) <=> HasRoot(views[v]))
    BY <2>1 DEF FrameRendered, View, Navigation, HasRoot
  <2> HIDE DEF w
  <2>3. CASE NewRequestCame(w)
    <3> DEFINE item == w.deferredPageRequest.spineItem
               i2   == [paginationInfo EXCEPT !.currentSpreadIndex = 0]
               w2   == [w EXCEPT !.currentSpineItem = item, !.isWaitingFrameRender = TRUE,
                                 !.navigation = "requested"]
    <3>1. Store(v, i2, w2) /\ timers' = timers
      BY <1>6, <2>3 DEF onIFrameLoad, loadSpineItem, NewRequestCame, w
    <3>2. (HasRoot(w2) <=> HasRoot(views[v])) /\ (HasPages(i2) => HasPages(paginationInfo))
      BY <1>1, <2>2 DEF View, HasRoot, HasPages, PaginationInfos
    <3> HIDE DEF w2, i2
    <3> QED  BY <1>1, <2>1, <3>1, <3>2, KeptRoots DEF OnlyOld, OnlyMeasures
  <2>4. CASE ~NewRequestCame(w)
    <3> DEFINE w1 == [w EXCEPT !.html = "attached", !.hidden = FALSE]
               i2 == Columnized(paginationInfo, w1, ViewportOf(v))
               w2 == ShiftedOffScreen(w1)
    <3>1. w1 \in View /\ w1.html = "attached"
      BY <2>2 DEF View, HtmlStates
    <3>2. Store(v, i2, w2) /\ timers' = Append(timers, Timer("measure", v))
      BY <1>6, <2>4, <3>1
         DEF onIFrameLoad, applyStyles, updatePagination, StartMeasure, w
    <3> HIDE DEF w1
    <3>3. HasRoot(w2)  BY <3>1, RootKept DEF HasRoot
    <3> HIDE DEF w2, i2
    <3> QED  BY <1>1, <2>1, <3>2, <3>3, KeptRoots DEF OnlyMeasures
  <2> QED  BY <2>3, <2>4
<1> QED  BY <1>2, <1>3, <1>4, <1>5, <1>6 DEF Browser, TimerFires, FrameEvent

(* A new view has no root yet, and leaves the pagination as it was.         *)
LEMMA openInNewViewRoots ==
    ASSUME IInv, RootsOK, NEW req \in Requests, NEW synthetic \in BOOLEAN,
           openInNewView(req, synthetic), UNCHANGED timers
    PROVE  RootsOK'
<1> DEFINE v == viewCount + 1
           i == [paginationInfo EXCEPT !.visibleColumnCount = visibleColumns(synthetic)]
<1>1. /\ v \in Views /\ currentView' = v /\ viewCount' = v
      /\ openPage(v, i, NewView, req) /\ viewCount \in Nat
  BY BooleanTypes DEF openInNewView, Views
<1>2. /\ i \in PaginationInfos /\ NewView \in View /\ ~HasRoot(NewView)
      /\ HasPages(i) => HasPages(paginationInfo)
  BY BooleanTypes
     DEF PaginationInfos, visibleColumns, View, NewView, HtmlStates, Navigation, HasRoot, HasPages
<1>3. v \in Nat /\ \A u \in Views : u <= viewCount => u <= v
  BY <1>1 DEF Views
<1>4. ~HasRoot(views[v])  BY <1>1 DEF RootsOK
<1> HIDE DEF i
<1>5. PICK i2, w2 : /\ Store(v, i2, w2)
                    /\ HasPages(i2) => HasPages(i)
                    /\ HasRoot(w2) <=> HasRoot(NewView)
  BY <1>1, <1>2, OpenPageHasPages
<1> HIDE DEF v
<1> QED  BY <1>1, <1>2, <1>3, <1>4, <1>5, StoredRoots DEF OnlyOld, OnlyMeasures

LEMMA CurrentOpenPageRoots ==
    ASSUME IInv, RootsOK, currentView # 0, NEW req \in Requests,
           NEW i \in PaginationInfos, HasPages(i) => HasPages(paginationInfo),
           NEW w \in View, HasRoot(w) <=> HasRoot(views[currentView]),
           openPage(currentView, i, w, req),
           currentView' = currentView, viewCount' = viewCount, OnlyMeasures(currentView, w)
    PROVE  RootsOK'
<1>1. currentView \in Views /\ currentView <= viewCount /\ viewCount' = viewCount
  BY BooleanTypes DEF RootsOK
<1>2. PICK i2, w2 : /\ Store(currentView, i2, w2)
                    /\ HasPages(i2) => HasPages(i)
                    /\ HasRoot(w2) <=> HasRoot(w)
  BY <1>1, OpenPageHasPages
<1> QED  BY <1>1, <1>2, KeptRoots DEF OnlyMeasures

LEMMA readerOpenPageRoots ==
    ASSUME IInv, RootsOK, NEW req \in Requests, readerOpenPage(req)
    PROVE  RootsOK'
<1>1. timers' = timers /\ isSyntheticSpread \in BOOLEAN /\ paginationInfo \in PaginationInfos
  BY BooleanTypes DEF readerOpenPage
<1>2. CASE currentView = 0
  BY <1>1, <1>2, openInNewViewRoots DEF readerOpenPage
<1>3. CASE currentView # 0
  <2>1. /\ openPage(currentView, paginationInfo, views[currentView], req)
        /\ UNCHANGED <<currentView, viewCount>>
    BY <1>3 DEF readerOpenPage
  <2>2. views[currentView] \in View  BY <1>3, BooleanTypes, OfView
  <2> QED  BY <1>1, <1>3, <2>1, <2>2, CurrentOpenPageRoots DEF OnlyOld, OnlyMeasures
<1> QED  BY <1>2, <1>3

LEMMA TurnRoots ==
    ASSUME IInv, RootsOK, currentView # 0, readerOpenPageNext \/ readerOpenPagePrev
    PROVE  RootsOK'
<1> DEFINE v == currentView
           next == nextItem(views[v].currentSpineItem)
           prev == prevItem(views[v].currentSpineItem)
<1>1. /\ v \in Views /\ views[v] \in View /\ paginationInfo \in PaginationInfos
      /\ v <= viewCount
  BY BooleanTypes, OfView DEF RootsOK
<1>2. ASSUME NEW item \in Items
      PROVE  FirstPage(item) \in Requests /\ LastPage(item) \in Requests
  BY RequestTypes, ReflowableViewAssumption
<1>3. next \in Items \cup {NoItem} /\ prev \in Items \cup {NoItem}
  BY Neighbours
<1>4. \/ next # NoItem /\ readerOpenPage(FirstPage(next))
      \/ prev # NoItem /\ readerOpenPage(LastPage(prev))
      \/ /\ openPageNext(v) \/ openPagePrev(v)
         /\ UNCHANGED <<currentView, timers, viewCount>>
  BY DEF readerOpenPageNext, readerOpenPagePrev
<1>5. ASSUME NEW index \in Int, turnTo(v, index),
             index >= 0 \/ index > paginationInfo.currentSpreadIndex,
             UNCHANGED <<currentView, timers, viewCount>>
      PROVE  RootsOK'
  <2> DEFINE i == [paginationInfo EXCEPT !.currentSpreadIndex = index]
             w == Redrawn(i, views[v])
  <2>1. Store(v, i, w)  BY <1>5 DEF turnTo
  <2>2. HasRoot(w) <=> HasRoot(views[v])  BY <1>1, RootKept
  <2>3. HasPages(i) => HasPages(paginationInfo)
    BY <1>1, <1>5 DEF HasPages, PaginationInfos
  <2> HIDE DEF i, w
  <2> QED  BY <1>1, <1>5, <2>1, <2>2, <2>3, KeptRoots DEF OnlyOld, OnlyMeasures
<1>6. \/ next # NoItem /\ readerOpenPage(FirstPage(next))
      \/ prev # NoItem /\ readerOpenPage(LastPage(prev))
      \/ /\ UNCHANGED <<currentView, timers, viewCount>>
         /\ \/ turnTo(v, paginationInfo.currentSpreadIndex + 1)
            \/ /\ paginationInfo.currentSpreadIndex > 0
               /\ turnTo(v, paginationInfo.currentSpreadIndex - 1)
            \/ next # NoItem /\ openPage(v, paginationInfo, views[v], FirstPage(next))
            \/ prev # NoItem /\ openPage(v, paginationInfo, views[v], LastPage(prev))
  BY <1>4 DEF openPageNext, openPagePrev
<1>7. PICK index \in Int : index = paginationInfo.currentSpreadIndex
  BY <1>1 DEF PaginationInfos
<1>8. index + 1 \in Int /\ index - 1 \in Int /\ index + 1 > index /\ (index > 0 => index - 1 >= 0)
  BY <1>7
<1> HIDE DEF next, prev
<1>9. ASSUME NEW req \in Requests, openPage(v, paginationInfo, views[v], req),
             UNCHANGED <<currentView, timers, viewCount>>
      PROVE  RootsOK'
  BY <1>1, <1>9, CurrentOpenPageRoots DEF OnlyOld, OnlyMeasures
<1> HIDE DEF v
<1> QED  BY <1>2, <1>3, <1>5, <1>6, <1>7, <1>8, <1>9, readerOpenPageRoots

LEMMA CallsRoots ==
    ASSUME IInv, RootsOK, BookCalls \/ PageCalls \/ LayoutCalls
    PROVE  RootsOK'
<1>1. viewCount \in Nat /\ currentView <= viewCount
  BY BooleanTypes DEF Views, RootsOK
<1>2. CASE BookCalls
  <2>1. ASSUME NEW synthetic \in BOOLEAN, NEW req \in BookRequests, openBook(synthetic, req)
        PROVE  RootsOK'
    <3>1. req \in Requests
      BY CallersRequestTypes
    <3> QED  BY <2>1, <3>1, openInNewViewRoots DEF openBook
  <2>2. ASSUME NEW synthetic, openBookAtUnknownItem(synthetic) PROVE RootsOK'
    BY <1>1, <2>2, SameRoots DEF openBookAtUnknownItem, OnlyOld
  <2> QED  BY <1>2, <2>1, <2>2 DEF BookCalls
<1>3. ASSUME Throws PROVE RootsOK'
  BY <1>1, <1>3, SameRoots DEF Throws, OnlyOld
<1>4. CASE PageCalls
  <2>1. CASE openPageLeft \/ openPageRight
    BY <1>3, <2>1, TurnRoots DEF openPageLeft, openPageRight
  <2>2. ASSUME NEW i \in Items, NEW p \in -1 .. MaxColumns, openSpineItemPage(i, p)
        PROVE  RootsOK'
    <3>1. PageIndex(i, p) \in Requests /\ NoTarget(i) \in Requests
      BY RequestTypes
    <3> QED  BY <1>3, <2>2, <3>1, readerOpenPageRoots DEF openSpineItemPage
  <2>3. /\ \A p : openPageIndex(p) => RootsOK'
        /\ \A req \in ElementRequests : openElement(req) => RootsOK'
    BY <1>3, CallersRequestTypes, readerOpenPageRoots DEF openPageIndex, openElement
  <2>4. 0 .. MaxColumns \subseteq -1 .. MaxColumns
    BY ReflowableViewAssumption
  <2> QED  BY <1>4, <2>1, <2>2, <2>3, <2>4 DEF PageCalls
<1>5. CASE LayoutCalls
  <2>1. ASSUME NEW synthetic \in BOOLEAN, updateSettings(synthetic) PROVE RootsOK'
    <3>1. CASE currentView = 0
      BY <1>1, <2>1, <3>1, SameRoots DEF updateSettings, OnlyOld
    <3>2. CASE currentView # 0
      <4> DEFINE v == currentView
                 w == views[v]
                 n == [paginationInfo EXCEPT !.visibleColumnCount = visibleColumns(synthetic)]
                 i == Columnized(n, w, lastViewPortSize)
                 req == NoTarget(w.currentSpineItem)
      <4>1. /\ openPage(v, i, ShiftedOffScreen(w), req)
            /\ StartMeasure(v, w) /\ UNCHANGED <<currentView, viewCount>>
        BY <2>1, <3>2 DEF updateSettings
      <4>2. /\ v \in Views /\ w \in View /\ lastViewPortSize \in Sizes \cup {0}
            /\ n \in PaginationInfos /\ w.currentSpineItem \in Items
        BY <3>2, BooleanTypes, OfView DEF PaginationInfos, visibleColumns, ViewOK
      <4>3. i \in PaginationInfos /\ (HasPages(i) => HasPages(n))
        BY <4>2, ColumnizedHasPages DEF Columnized, PaginationInfos
      <4>4. HasPages(n) => HasPages(paginationInfo)
        BY BooleanTypes DEF HasPages, PaginationInfos
      <4>5. ShiftedOffScreen(w) \in View /\ (HasRoot(ShiftedOffScreen(w)) <=> HasRoot(w))
        BY <4>2, RootKept DEF ShiftedOffScreen, View, OffScreen
      <4>6. req \in Requests
        BY <4>2, RequestTypes, ReflowableViewAssumption
      <4>7. \/ timers' = timers
            \/ HasRoot(w) /\ timers' = Append(timers, Timer("measure", v))
        BY <4>1 DEF StartMeasure, HasRoot
      <4> HIDE DEF w, n, i, req
      <4> QED  BY <3>2, <4>1, <4>3, <4>4, <4>5, <4>6, <4>7, CurrentOpenPageRoots DEF OnlyOld, OnlyMeasures, w
    <3> QED  BY <3>1, <3>2
  <2>2. CASE setStyles
    <3> DEFINE v == currentView
               i2 == Columnized(paginationInfo, views[v], ViewportOf(v))
               w2 == ShiftedOffScreen(views[v])
    <3>1. /\ currentView # 0 /\ UNCHANGED <<currentView, viewCount>>
          /\ Store(v, i2, w2) /\ StartMeasure(v, views[v])
      BY <2>2 DEF setStyles, applyStyles, updatePagination
    <3>2. /\ v \in Views /\ views[v] \in View /\ v <= viewCount
          /\ paginationInfo \in PaginationInfos
      BY <3>1, BooleanTypes, OfView DEF RootsOK
    <3>3. (HasRoot(w2) <=> HasRoot(views[v])) /\ (HasPages(i2) => HasPages(paginationInfo))
      BY <3>2, RootKept, ColumnizedHasPages
    <3>4. \/ timers' = timers
          \/ HasRoot(views[v]) /\ timers' = Append(timers, Timer("measure", v))
      BY <3>1 DEF StartMeasure, HasRoot
    <3> HIDE DEF v, i2, w2
    <3> QED  BY <3>1, <3>2, <3>3, <3>4, KeptRoots DEF OnlyOld, OnlyMeasures, v
  <2>3. ASSUME NEW size, resizeWindow(size) PROVE RootsOK'
    <3>1. /\ UNCHANGED <<views, paginationInfo, currentView, viewCount>>
          /\ timers' = timers \/ timers' \in Restarted(timers, Timer("resize", currentView))
          /\ currentView = 0 => timers' = timers
      BY <2>3 DEF resizeWindow
    <3>2. OnlyOld(timers, timers')
      BY <3>1, BooleanTypes, RestartedIsOld DEF OnlyOld
    <3> QED  BY <1>1, <3>1, <3>2, SameRoots
  <2> QED  BY <1>5, <2>1, <2>2, <2>3 DEF LayoutCalls
<1> QED  BY <1>2, <1>4, <1>5

LEMMA AlwaysRooted == Spec => []RootsOK
<1>1. Init => RootsOK
  BY EmptySeq DEF Init, RootsOK, HasPages, HasRoot, NewView, Has
<1>2. IInv /\ RootsOK /\ [Next]_vars => RootsOK'
  <2> SUFFICES ASSUME IInv, RootsOK, [Next]_vars PROVE RootsOK'
    OBVIOUS
  <2>1. CASE UNCHANGED vars
    BY <2>1 DEF RootsOK, vars, viewVars, readerVars
  <2> QED  BY <2>1, BrowserRoots, CallsRoots DEF Next
<1> QED  BY <1>1, <1>2, Invariance, PTL DEF Spec

(* A page turn throws in no other place than the first item of a second     *)
(* view.                                                                    *)
THEOREM OnlyLaterViewsThrow == Spec => TurnThrowsOnlyInLaterView
<1> DEFINE Turns == currentView # 0 /\ (openPageLeft \/ openPageRight) /\ thrown'
                      => viewCount > 1 /\ View0.html = "undefined"
<1>1. IInv /\ RootsOK /\ [Next]_vars => [Turns]_vars
  <2> SUFFICES ASSUME IInv, RootsOK, currentView # 0, openPageLeft \/ openPageRight, thrown'
               PROVE  viewCount > 1 /\ View0.html = "undefined"
    OBVIOUS
  <2>1. /\ currentView \in Views /\ currentView <= viewCount
        /\ viewCount \in Nat /\ paginationInfo \in PaginationInfos
    BY BooleanTypes DEF RootsOK, Views
  <2>2. readerOpenPageNext \/ readerOpenPagePrev
    BY DEF openPageLeft, openPageRight
  <2>3. thrown' # FALSE  OBVIOUS
  <2>4. OpenPages # {} /\ (openPageNext(currentView) \/ openPagePrev(currentView))
    <3>1. \A i : ~LookupThrows(views[currentView], FirstPage(i))
                 /\ ~LookupThrows(views[currentView], LastPage(i))
      BY DEF LookupThrows, FirstPage, LastPage, PageIndex
    <3> QED  BY <2>2, <2>3, <3>1 DEF readerOpenPageNext, readerOpenPagePrev, readerOpenPage
  <2>5. \E index : turnTo(currentView, index)
    BY <2>3, <2>4 DEF openPageNext, openPagePrev
  <2>6. View0.html = "undefined"
    BY <2>3, <2>5 DEF turnTo, View0
  <2>7. HasPages(paginationInfo)
    <3>1. PICK p : p \in paginationInfo.currentSpreadIndex * paginationInfo.visibleColumnCount
                          .. paginationInfo.currentSpreadIndex * paginationInfo.visibleColumnCount
                              + paginationInfo.visibleColumnCount - 1
                   /\ p < paginationInfo.columnCount
      BY <2>4 DEF OpenPages
    <3>2. paginationInfo.visibleColumnCount = 1 \/ paginationInfo.visibleColumnCount = 2
      BY <2>1 DEF PaginationInfos
    <3>3. /\ paginationInfo.currentSpreadIndex \in Int /\ paginationInfo.columnCount \in Nat
      BY <2>1, ReflowableViewAssumption DEF PaginationInfos
    <3>4. CASE paginationInfo.visibleColumnCount = 1
      BY <3>1, <3>3, <3>4 DEF HasPages
    <3>5. CASE paginationInfo.visibleColumnCount = 2
      BY <3>1, <3>3, <3>5 DEF HasPages
    <3> QED  BY <3>2, <3>4, <3>5
  <2>8. PICK u \in Views : HasRoot(views[u]) /\ u <= viewCount
    BY <2>7 DEF RootsOK
  <2>9. u # currentView
    BY <2>6, <2>8 DEF HasRoot, View0
  <2> QED  BY <2>1, <2>6, <2>8, <2>9 DEF Views
<1> QED  BY <1>1, Invariance, AlwaysRooted, PTL DEF Spec, TurnThrowsOnlyInLaterView
=============================================================================
