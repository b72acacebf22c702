---------------------------- MODULE LauncherProofs ----------------------------
(***************************************************************************)
(* Proofs that the frame shows the open book and that references and links *)
(* lead where they should, whatever books there are and however often one  *)
(* is opened over another, and that the load event is always on its way.    *)
(***************************************************************************)
EXTENDS LauncherProperties, CountingProofs, SequenceTheorems, TLAPS

(* Concatenation and parts of paths under names of their own, for the       *)
(* provers to take as they are.                                             *)
Cat(s, t)   == s \o t
Upto(s, n)  == SubSeq(s, 1, n)
From(s, n)  == SubSeq(s, n, Len(s))

(* What a book's container has for one of its items.                        *)
HoldsItem(b, href, content) ==
    BasePath[b] \o href \in Archive[b] =>
        content = [book |-> b, path |-> BasePath[b] \o href]

FromArchive(content) == content.book \in Books => content.path \in Archive[content.book]

ReferenceFound(r) ==
    (/\ r.ref # NoReference
     /\ r.ref.up < Len(r.href)
     /\ Referred(r.by, r.href, r.ref) \in Archive[r.by]) => Finds(r)

(* A reply that a navigation still listens to is for an item of the book.   *)
ReplyOK(b, r) ==
    /\ FromArchive(r.content)
    /\ ReferenceFound(r)
    /\ r.live /\ r.ref = NoReference =>
          r.by = b /\ r.href \in Hrefs(b) /\ HoldsItem(b, r.href, r.content)

DocumentOK(b, d) ==
    d # NoDocument => /\ d.book = b /\ d.href \in Hrefs(b)
                      /\ HoldsItem(b, d.href, d.content)
                      /\ NoReference \notin d.refs

(* The inductive invariant: the SDK and the reader have one book open, and  *)
(* everything on its way to the frame is of that book.                      *)
IInv ==
    /\ TypeOK
    /\ m_pckg = book
    /\ book = NoBook => asked = NoHref /\ document = NoDocument
    /\ book # NoBook => asked \in {NoHref} \cup Hrefs(book)
    /\ \A k \in DOMAIN replies : ReplyOK(book, replies[k])
    /\ DocumentOK(book, document)

-----------------------------------------------------------------------------
(* Paths.                                                                   *)
LEMMA CatType == \A s, t \in Paths : Cat(s, t) \in Paths /\ Len(Cat(s, t)) = Len(s) + Len(t)
BY ConcatProperties DEF Cat, Paths

LEMMA CatAssociative == \A s, t, u \in Paths : Cat(Cat(s, t), u) = Cat(s, Cat(t, u))
BY ConcatAssociative DEF Cat, Paths

LEMMA UptoType ==
    ASSUME NEW s \in Paths, NEW n \in Nat, n <= Len(s)
    PROVE  Upto(s, n) \in Paths /\ Len(Upto(s, n)) = n
<1>1. \A i \in 1 .. n : s[i] \in Names  BY ElementOfSeq, LenProperties DEF Paths
<1> QED  BY <1>1, SubSeqProperties DEF Upto, Paths

(* Cutting the end off two paths in a row cuts it off the second.           *)
LEMMA UptoOfCat ==
    ASSUME NEW s \in Paths, NEW t \in Paths, NEW n \in Nat, n <= Len(t)
    PROVE  Upto(Cat(s, t), Len(s) + n) = Cat(s, Upto(t, n))
<1>1. Len(s) \in Nat /\ Len(t) \in Nat  BY LenProperties DEF Paths
<1> DEFINE c == Cat(s, t)
           u == Upto(t, n)
<1>2. /\ c \in Paths /\ Len(c) = Len(s) + Len(t)
      /\ \A i \in 1 .. Len(s) + Len(t) : c[i] = IF i <= Len(s) THEN s[i] ELSE t[i - Len(s)]
  BY ConcatProperties DEF Cat, Paths
<1>3. u \in Paths /\ Len(u) = n /\ \A i \in 1 .. n : u[i] = t[i]
  <2>1. \A i \in 1 .. n : t[i] \in Names  BY <1>1, ElementOfSeq DEF Paths
  <2>2. \A i \in 1 .. n - 1 + 1 : SubSeq(t, 1, n)[i] = t[1 + i - 1]  BY <2>1, SubSeqProperties
  <2> QED  BY <2>2, UptoType DEF Upto
<1>4. PICK m \in Nat : m = Len(s) + n /\ m <= Len(c)  BY <1>1, <1>2
<1>5. Upto(c, m) \in Paths /\ Len(Upto(c, m)) = m /\ \A i \in 1 .. m : Upto(c, m)[i] = c[i]
  <2>1. \A i \in 1 .. m : c[i] \in Names  BY <1>2, <1>4, ElementOfSeq DEF Paths
  <2>2. \A i \in 1 .. m - 1 + 1 : SubSeq(c, 1, m)[i] = c[1 + i - 1]  BY <2>1, SubSeqProperties
  <2> QED  BY <1>2, <1>4, <2>2, UptoType DEF Upto
<1> HIDE DEF c, u
<1>6. /\ Cat(s, u) \in Paths /\ Len(Cat(s, u)) = Len(s) + n
      /\ \A i \in 1 .. Len(s) + n : Cat(s, u)[i] = IF i <= Len(s) THEN s[i] ELSE u[i - Len(s)]
  <2>1. u \in Seq(Names) /\ s \in Seq(Names)  BY <1>3 DEF Paths
  <2> QED  BY <1>3, <2>1, ConcatProperties DEF Cat, Paths
<1>7. \A i \in 1 .. m : Upto(c, m)[i] = Cat(s, u)[i]
  BY <1>1, <1>2, <1>3, <1>4, <1>5, <1>6
<1>8. Upto(c, m) = Cat(s, u)  BY <1>4, <1>5, <1>6, <1>7, SeqEqual DEF Paths
<1> QED  BY <1>4, <1>8 DEF c, u

LEMMA FromCat ==
    ASSUME NEW s \in Paths, NEW t \in Paths
    PROVE  From(Cat(s, t), Len(s) + 1) = t
<1>1. Len(s) \in Nat /\ Len(t) \in Nat  BY LenProperties DEF Paths
<1> DEFINE c == Cat(s, t)
<1>2. /\ c \in Paths /\ Len(c) = Len(s) + Len(t)
      /\ \A i \in 1 .. Len(s) + Len(t) : c[i] = IF i <= Len(s) THEN s[i] ELSE t[i - Len(s)]
  BY ConcatProperties DEF Cat, Paths
<1> HIDE DEF c
<1>3. PICK m \in Nat, n \in Nat : m = Len(s) + 1 /\ n = Len(c)  BY <1>1, <1>2
<1>4. \A i \in m .. n : c[i] \in Names  BY <1>1, <1>2, <1>3, ElementOfSeq DEF Paths
<1>5. /\ SubSeq(c, m, n) \in Paths
      /\ Len(SubSeq(c, m, n)) = IF m <= n THEN n - m + 1 ELSE 0
      /\ \A i \in 1 .. n - m + 1 : SubSeq(c, m, n)[i] = c[m + i - 1]
  BY <1>4, SubSeqProperties DEF Paths
<1>6. Len(SubSeq(c, m, n)) = Len(t)  BY <1>1, <1>2, <1>3, <1>5
<1>7. \A i \in 1 .. Len(t) : SubSeq(c, m, n)[i] = t[i]  BY <1>1, <1>2, <1>3, <1>5
<1>8. SubSeq(c, m, n) = t  BY <1>5, <1>6, <1>7, SeqEqual DEF Paths
<1> QED  BY <1>3, <1>8 DEF From, c

(* The URL of the package, and what is below it.                            *)
LEMMA RootUrlType ==
    /\ RootUrl \in Paths /\ Len(RootUrl) = 3
    /\ RootUrl[1] = "res" /\ RootUrl[2] = "host_app" /\ RootUrl[3] = REDIRECT_PATH
<1> DEFINE last == <<REDIRECT_PATH>>
<1>1. /\ HostDir \in Seq(Names) /\ Len(HostDir) = 2
      /\ HostDir[1] = "res" /\ HostDir[2] = "host_app"
  <2>1. \A a, b \in Names : <<a, b>> \in Seq(Names)  OBVIOUS
  <2>2. "res" \in Names /\ "host_app" \in Names  BY LauncherAssumption
  <2> QED  BY <2>1, <2>2 DEF HostDir
<1>2. last \in Seq(Names) /\ Len(last) = 1 /\ last[1] = REDIRECT_PATH
  <2>1. \A a \in Names : <<a>> \in Seq(Names)  OBVIOUS
  <2>2. REDIRECT_PATH \in Names  BY LauncherAssumption
  <2> QED  BY <2>1, <2>2
<1>3. RootUrl = HostDir \o last  BY DEF RootUrl
<1> HIDE DEF last
<1>4. /\ HostDir \o last \in Seq(Names)
      /\ Len(HostDir \o last) = Len(HostDir) + Len(last)
      /\ \A i \in 1 .. Len(HostDir) + Len(last) :
            (HostDir \o last)[i] = IF i <= Len(HostDir) THEN HostDir[i] ELSE last[i - Len(HostDir)]
  BY <1>1, <1>2, ConcatProperties
<1> QED  BY <1>1, <1>2, <1>3, <1>4 DEF Paths

LEMMA BelowRoot ==
    ASSUME NEW p \in Paths
    PROVE  ~Forwards(Cat(RootUrl, p)) /\ relativePath(Cat(RootUrl, p)) = p
<1> DEFINE c == Cat(RootUrl, p)
<1>1. Len(p) \in Nat  BY LenProperties DEF Paths
<1>2. /\ c \in Paths /\ Len(c) = 3 + Len(p)
      /\ \A i \in 1 .. 3 + Len(p) : c[i] = IF i <= 3 THEN RootUrl[i] ELSE p[i - 3]
  <2>1. RootUrl \in Seq(Names) /\ p \in Seq(Names)  BY RootUrlType DEF Paths
  <2>2. /\ c \in Seq(Names) /\ Len(c) = Len(RootUrl) + Len(p)
        /\ \A i \in 1 .. Len(RootUrl) + Len(p) :
              c[i] = IF i <= Len(RootUrl) THEN RootUrl[i] ELSE p[i - Len(RootUrl)]
    BY <2>1, ConcatProperties DEF Cat
  <2> QED  BY <2>2, RootUrlType DEF Paths
<1> HIDE DEF c
<1>3. /\ DOMAIN c = 1 .. 3 + Len(p)
      /\ c[1] = "res" /\ c[2] = "host_app" /\ c[3] = REDIRECT_PATH
  BY <1>1, <1>2, RootUrlType, LenProperties DEF Paths
<1>4. c[1] # REDIRECT_PATH /\ c[2] # REDIRECT_PATH  BY <1>3 DEF REDIRECT_PATH
<1>5. contains(c)  BY <1>1, <1>3 DEF contains
<1>6. \A i \in DOMAIN c :
        (c[i] = REDIRECT_PATH /\ \A j \in 1 .. i - 1 : c[j] # REDIRECT_PATH) <=> i = 3
  <2>1. \A j \in 1 .. 3 - 1 : c[j] # REDIRECT_PATH  BY <1>4
  <2>2. \A i \in DOMAIN c : i > 3 => 3 \in 1 .. i - 1  BY <1>1, <1>3
  <2>3. \A i \in DOMAIN c : i = 1 \/ i = 2 \/ i = 3 \/ i > 3  BY <1>1, <1>3
  <2> QED  BY <1>3, <1>4, <2>1, <2>2, <2>3
<1>7. 3 \in DOMAIN c  BY <1>1, <1>3
<1>8. indexOf(c) = 3  BY <1>6, <1>7 DEF indexOf
<1>9. relativePath(c) = From(c, 3 + 1)  BY <1>5, <1>8 DEF relativePath, From
<1>10. From(c, 3 + 1) = p  BY RootUrlType, FromCat DEF c
<1> QED  BY <1>5, <1>9, <1>10 DEF Forwards, c

-----------------------------------------------------------------------------
(* The books.                                                               *)
LEMMA FromAscii ==
    ASSUME NEW p \in Paths
    PROVE  fromAscii(p) \in Paths /\ Len(fromAscii(p)) = Len(p)
<1>1. PICK n \in Nat : n = Len(p)  BY LenProperties DEF Paths
<1>2. DOMAIN p = 1 .. n /\ \A i \in 1 .. n : p[i] \in Names
  BY <1>1, LenProperties, ElementOfSeq DEF Paths
<1> DEFINE f == fromAscii(p)
<1>3. f \in [1 .. n -> Names]  BY <1>2, LauncherAssumption DEF fromAscii
<1> HIDE DEF f
<1>4. f \in Seq(Names) /\ Len(f) = n  BY <1>1, <1>3
<1> QED  BY <1>1, <1>4 DEF f, Paths

LEMMA BookFacts ==
    ASSUME NEW b \in Books
    PROVE  /\ BasePath[b] \in Paths /\ Archive[b] \subseteq Paths
           /\ Hrefs(b) \subseteq Paths \ {NoHref}
           /\ fromAscii(Spine[b][1]) \in Hrefs(b)
<1>1. BasePath[b] \in Paths /\ Archive[b] \subseteq Paths  BY LauncherAssumption
<1>2. Spine[b] \in Seq(Paths) /\ Spine[b] # <<>>  BY LauncherAssumption
<1>3. PICK n \in Nat \ {0} : n = Len(Spine[b])  BY <1>2, EmptySeq
<1>4. DOMAIN Spine[b] = 1 .. n  BY <1>2, <1>3, LenProperties
<1>5. ASSUME NEW i \in DOMAIN Spine[b] PROVE fromAscii(Spine[b][i]) \in Paths \ {NoHref}
  <2>1. Spine[b][i] \in Paths  BY <1>2, <1>3, <1>4, ElementOfSeq
  <2>2. Spine[b][i] # <<>>  BY LauncherAssumption
  <2>3. Len(Spine[b][i]) # 0  BY <2>1, <2>2, EmptySeq DEF Paths
  <2>4. Len(<<>>) = 0  BY EmptySeq
  <2> QED  BY <2>1, <2>3, <2>4, FromAscii DEF NoHref
<1>6. 1 \in DOMAIN Spine[b]  BY <1>4
<1> QED  BY <1>1, <1>5, <1>6 DEF Hrefs

LEMMA ReferenceFacts ==
    ASSUME NEW b \in Books, NEW path \in Archive[b]
    PROVE  References[b][path] \subseteq Reference /\ NoReference \notin References[b][path]
BY LauncherAssumption

LEMMA NoBookFacts ==
    /\ NoContent \in Contents /\ HostContent \in Contents
    /\ FromArchive(NoContent) /\ FromArchive(HostContent)
    /\ NoReference \in Reference /\ NoHref \in Paths
<1>1. <<>> \in Paths  BY EmptySeq DEF Paths
<1>2. NoContent.book = NoBook /\ HostContent.book = NoBook  BY DEF NoContent, HostContent
<1> QED  BY <1>1, <1>2, NoBookAssumption DEF Contents, FromArchive, NoReference, Reference, NoHref

(* What the open book answers.                                              *)
LEMMA Content ==
    ASSUME m_pckg \in Books, NEW rel
    PROVE  /\ getContent(rel) \in Contents
           /\ FromArchive(getContent(rel))
           /\ BasePath[m_pckg] \o rel \in Archive[m_pckg] =>
                 getContent(rel) = [book |-> m_pckg, path |-> BasePath[m_pckg] \o rel]
<1> DEFINE path == BasePath[m_pckg] \o rel
<1>1. CASE path \in Archive[m_pckg]
  <2>1. getContent(rel) = [book |-> m_pckg, path |-> path]  BY <1>1 DEF getContent
  <2>2. path \in Paths  BY <1>1, BookFacts
  <2> HIDE DEF path
  <2>3. [book |-> m_pckg, path |-> path] \in Contents  BY <2>2 DEF Contents
  <2>4. FromArchive([book |-> m_pckg, path |-> path])  BY <1>1 DEF FromArchive
  <2> QED  BY <2>1, <2>3, <2>4 DEF path
<1>2. CASE path \notin Archive[m_pckg]
  <2>1. getContent(rel) = NoContent  BY <1>2 DEF getContent
  <2> QED  BY <1>2, <2>1, NoBookFacts
<1> QED  BY <1>1, <1>2

(* A URL of an item asks for that item; one that a reference leads to, for  *)
(* what it refers to.                                                       *)
LEMMA ItemUrl ==
    ASSUME NEW href \in Paths
    PROVE  ~Forwards(getItemUrl(href)) /\ relativePath(getItemUrl(href)) = href
<1>1. getItemUrl(href) = Cat(RootUrl, href)  BY DEF getItemUrl, Cat
<1> QED  BY <1>1, BelowRoot

LEMMA ReferenceUrl ==
    ASSUME NEW b \in Books, NEW href \in Paths, NEW ref \in Reference, ref.up < Len(href),
           NEW url, url = Resolve(getItemUrl(href), ref)
    PROVE  ~Forwards(url) /\ BasePath[b] \o relativePath(url) = Referred(b, href, ref)
<1>1. ref.up \in Nat /\ ref.path \in Paths  BY DEF Reference
<1>2. BasePath[b] \in Paths  BY BookFacts
<1>3. PICK l \in Nat, k \in Nat : l = Len(href) /\ k = Len(BasePath[b])
  BY <1>2, LenProperties DEF Paths
<1>4. PICK n \in Nat : n = l - 1 - ref.up /\ n <= l  BY <1>1, <1>3
<1> DEFINE rel == Cat(Upto(href, n), ref.path)
<1>5. Upto(href, n) \in Paths  BY <1>3, <1>4, UptoType
<1>6. rel \in Paths  BY <1>1, <1>5, CatType
<1>7. url = Cat(RootUrl, rel)
  <2>1. Len(getItemUrl(href)) = 3 + l
    BY <1>3, RootUrlType, CatType DEF getItemUrl, Cat
  <2>2. Len(getItemUrl(href)) - 1 - ref.up = Len(RootUrl) + n
    BY <1>1, <1>3, <1>4, <2>1, RootUrlType
  <2>3. url = Cat(Upto(Cat(RootUrl, href), Len(RootUrl) + n), ref.path)
    BY <2>2 DEF Resolve, Cat, Upto, getItemUrl
  <2>4. Upto(Cat(RootUrl, href), Len(RootUrl) + n) = Cat(RootUrl, Upto(href, n))
    BY <1>3, <1>4, RootUrlType, UptoOfCat
  <2> QED  BY <1>1, <1>5, <2>3, <2>4, RootUrlType, CatAssociative
<1>8. ~Forwards(url) /\ relativePath(url) = rel  BY <1>6, <1>7, BelowRoot
<1>9. Referred(b, href, ref) = Cat(BasePath[b], rel)
  <2>1. FullPath(b, href) = Cat(BasePath[b], href)  BY DEF FullPath, Cat
  <2>2. Len(FullPath(b, href)) = k + l  BY <1>2, <1>3, <2>1, CatType
  <2>3. ClimbsTo(b, href, ref) = Len(BasePath[b]) + n
    <3>1. PICK m \in Nat : m = Len(FullPath(b, href)) /\ m = k + l  BY <2>2
    <3>2. ClimbsTo(b, href, ref) = m - 1 - ref.up  BY <3>1 DEF ClimbsTo
    <3> QED  BY <1>1, <1>3, <1>4, <3>1, <3>2
  <2>4. Referred(b, href, ref) = Cat(Upto(Cat(BasePath[b], href), Len(BasePath[b]) + n), ref.path)
    BY <2>1, <2>3 DEF Referred, Cat, Upto
  <2>5. Upto(Cat(BasePath[b], href), Len(BasePath[b]) + n) = Cat(BasePath[b], Upto(href, n))
    BY <1>2, <1>3, <1>4, UptoOfCat
  <2> QED  BY <1>1, <1>2, <1>5, <2>4, <2>5, CatAssociative
<1> QED  BY <1>8, <1>9 DEF Cat

-----------------------------------------------------------------------------
(* Replies.                                                                 *)
Signals(n) == [reply : 1 .. n, name : {"readyRead", "finished"}]

LEMMA TypeFacts ==
    ASSUME TypeOK
    PROVE  /\ replies \in Seq(Reply) /\ Len(replies) \in Nat
           /\ DOMAIN replies = 1 .. Len(replies)
           /\ \A k \in DOMAIN replies : replies[k] \in Reply
           /\ posted \in Seq(Signals(Len(replies)))
<1>1. replies \in Seq(Reply)  BY DEF TypeOK
<1>2. Len(replies) \in Nat /\ DOMAIN replies = 1 .. Len(replies)  BY <1>1, LenProperties
<1>3. \A k \in DOMAIN replies : replies[k] \in Reply  BY <1>1, <1>2, ElementOfSeq
<1> QED  BY <1>1, <1>2, <1>3 DEF TypeOK, Signals

(* A reply that is done, or that no one listens to, holds what it held.     *)
LEMMA Held ==
    ASSUME NEW b, NEW r \in Reply, ReplyOK(b, r)
    PROVE  /\ [r EXCEPT !.done = TRUE] \in Reply /\ ReplyOK(b, [r EXCEPT !.done = TRUE])
           /\ [r EXCEPT !.live = FALSE] \in Reply
           /\ \A c : ReplyOK(c, [r EXCEPT !.live = FALSE])
<1>1. ASSUME NEW q, q = [r EXCEPT !.done = TRUE]
      PROVE  q \in Reply /\ ReplyOK(b, q)
  <2>1. /\ q \in Reply /\ q.by = r.by /\ q.href = r.href /\ q.ref = r.ref
        /\ q.content = r.content /\ q.live = r.live
    BY <1>1 DEF Reply
  <2> QED  BY <2>1 DEF ReplyOK, ReferenceFound, Finds
<1>2. ASSUME NEW q, q = [r EXCEPT !.live = FALSE], NEW c
      PROVE  q \in Reply /\ ReplyOK(c, q)
  <2>1. /\ q \in Reply /\ q.by = r.by /\ q.href = r.href /\ q.ref = r.ref
        /\ q.content = r.content /\ q.live = FALSE
    BY <1>2 DEF Reply
  <2> QED  BY <2>1 DEF ReplyOK, ReferenceFound, Finds
<1> QED  BY <1>1, <1>2

LEMMA AbortedFacts ==
    ASSUME IInv
    PROVE  /\ Aborted \in Seq(Reply) /\ Len(Aborted) = Len(replies)
           /\ DOMAIN Aborted = DOMAIN replies
           /\ \A b : \A k \in DOMAIN replies : ReplyOK(b, Aborted[k])
<1>1. PICK n \in Nat : n = Len(replies) /\ DOMAIN replies = 1 .. n  BY TypeFacts DEF IInv
<1>2. \A k \in 1 .. n : replies[k] \in Reply /\ ReplyOK(book, replies[k])
  BY <1>1, TypeFacts DEF IInv
<1> DEFINE a == Aborted
<1>3. \A k \in 1 .. n : a[k] = [replies[k] EXCEPT !.live = FALSE]  BY <1>1 DEF Aborted
<1>4. DOMAIN a = 1 .. n /\ a = [k \in 1 .. n |-> a[k]]  BY <1>1 DEF Aborted
<1> HIDE DEF a
<1>5. \A k \in 1 .. n : a[k] \in Reply /\ \A b : ReplyOK(b, a[k])
  <2>1. SUFFICES ASSUME NEW k \in 1 .. n PROVE a[k] \in Reply /\ \A b : ReplyOK(b, a[k])
    OBVIOUS
  <2>2. replies[k] \in Reply /\ ReplyOK(book, replies[k])  BY <1>2
  <2>3. /\ [replies[k] EXCEPT !.live = FALSE] \in Reply
        /\ \A b : ReplyOK(b, [replies[k] EXCEPT !.live = FALSE])
    BY <2>2, Held
  <2>4. a[k] = [replies[k] EXCEPT !.live = FALSE]  BY <1>3
  <2> QED  BY <2>3, <2>4, Zenon
<1>6. a \in [1 .. n -> Reply]  BY <1>4, <1>5
<1>7. a \in Seq(Reply) /\ Len(a) = n  BY <1>6
<1> QED  BY <1>1, <1>4, <1>5, <1>7 DEF a

LEMMA DoneFacts ==
    ASSUME IInv, NEW k \in DOMAIN replies, NEW done, done = [replies EXCEPT ![k].done = TRUE]
    PROVE  /\ done \in Seq(Reply) /\ DOMAIN done = DOMAIN replies
           /\ \A j \in DOMAIN replies : ReplyOK(book, done[j])
<1>1. PICK n \in Nat : n = Len(replies) /\ DOMAIN replies = 1 .. n  BY TypeFacts DEF IInv
<1>2. \A j \in 1 .. n : replies[j] \in Reply /\ ReplyOK(book, replies[j])
  BY <1>1, TypeFacts DEF IInv
<1>3. PICK q : q = [replies[k] EXCEPT !.done = TRUE]  OBVIOUS
<1>4. q \in Reply /\ ReplyOK(book, q)  BY <1>1, <1>2, <1>3, Held
<1>5. done = [replies EXCEPT ![k] = q]  BY <1>3
<1>6. /\ done \in Seq(Reply) /\ Len(done) = n
      /\ \A j \in 1 .. n : done[j] = IF j = k THEN q ELSE replies[j]
  <2>1. replies \in Seq(Reply) /\ k \in 1 .. Len(replies)  BY <1>1, TypeFacts DEF IInv
  <2>2. /\ [replies EXCEPT ![k] = q] \in Seq(Reply)
        /\ Len([replies EXCEPT ![k] = q]) = Len(replies)
        /\ \A j \in 1 .. Len(replies) :
              [replies EXCEPT ![k] = q][j] = IF j = k THEN q ELSE replies[j]
    BY <1>4, <2>1, ExceptSeq
  <2> QED  BY <1>1, <1>5, <2>2
<1>7. DOMAIN done = 1 .. n  BY <1>6, LenProperties
<1> QED  BY <1>1, <1>2, <1>4, <1>6, <1>7

(* createRequest makes a reply that finds what was asked for, in the book   *)
(* that asks.                                                               *)
LEMMA CreateRequest ==
    ASSUME IInv, book \in Books,
           NEW listening \in Seq(Reply), Len(listening) = Len(replies),
           \A k \in DOMAIN replies : ReplyOK(book, listening[k]),
           NEW href \in Hrefs(book), NEW ref \in Reference, NEW url,
           ref = NoReference => url = getItemUrl(href),
           ref # NoReference => url = Resolve(getItemUrl(href), ref),
           createRequest(listening, book, href, ref, url)
    PROVE  /\ replies' \in Seq(Reply) /\ posted' \in Seq(Signals(Len(replies')))
           /\ \A k \in DOMAIN replies' : ReplyOK(book, replies'[k])
<1>1. PICK content : content = IF Forwards(url) THEN HostContent ELSE getContent(relativePath(url))
  OBVIOUS
<1>2. m_pckg = book /\ TypeOK  BY DEF IInv
<1>3. content \in Contents /\ FromArchive(content)
  BY <1>1, <1>2, Content, NoBookFacts
<1>4. PICK new : new = [by |-> book, href |-> href, ref |-> ref,
                        content |-> content, live |-> TRUE, done |-> FALSE]
  OBVIOUS
<1>5. href \in Paths  BY BookFacts
<1>6. new \in Reply  BY <1>3, <1>4, <1>5 DEF Reply
<1>7. ReferenceFound(new)
  <2>1. SUFFICES ASSUME ref # NoReference, ref.up < Len(href),
                        Referred(book, href, ref) \in Archive[book]
                 PROVE  content = [book |-> book, path |-> Referred(book, href, ref)]
    BY <1>4 DEF ReferenceFound, Finds
  <2>2. url = Resolve(getItemUrl(href), ref)  BY <2>1
  <2>3. ~Forwards(url) /\ BasePath[book] \o relativePath(url) = Referred(book, href, ref)
    BY <1>5, <2>1, <2>2, ReferenceUrl
  <2> QED  BY <1>1, <1>2, <2>1, <2>3, Content
<1>8. ref = NoReference => HoldsItem(book, href, content)
  <2>1. SUFFICES ASSUME ref = NoReference PROVE HoldsItem(book, href, content)  OBVIOUS
  <2>2. ~Forwards(url) /\ relativePath(url) = href  BY <1>5, <2>1, ItemUrl
  <2>3. content = getContent(href)  BY <1>1, <2>2
  <2> QED  BY <1>2, <2>3, Content DEF HoldsItem
<1>9. ReplyOK(book, new)  BY <1>3, <1>4, <1>7, <1>8 DEF ReplyOK
<1>10. replies' = Append(listening, new)  BY <1>1, <1>4 DEF createRequest
<1>11. PICK n \in Nat : n = Len(replies) /\ DOMAIN replies = 1 .. n  BY <1>2, TypeFacts
<1>12. /\ replies' \in Seq(Reply) /\ Len(replies') = n + 1
       /\ \A k \in 1 .. n : replies'[k] = listening[k]
       /\ replies'[n + 1] = new
  BY <1>6, <1>10, <1>11, AppendProperties
<1>13. DOMAIN replies' = 1 .. n + 1  BY <1>12, LenProperties
<1>14. \A k \in DOMAIN replies' : ReplyOK(book, replies'[k])
  <2>1. \A k \in 1 .. n + 1 : k \in 1 .. n \/ k = n + 1  BY <1>11
  <2> QED  BY <1>9, <1>11, <1>12, <1>13, <2>1
<1>15. posted' \in Seq(Signals(n + 1))
  <2>1. posted \in Seq(Signals(n + 1))
    <3>1. posted \in Seq(Signals(n))  BY <1>2, <1>11, TypeFacts
    <3>2. Signals(n) \subseteq Signals(n + 1)  BY <1>11 DEF Signals
    <3> QED  BY <3>1, <3>2, SeqMonotonic
  <2>2. PICK two : two = <<[reply |-> n + 1, name |-> "readyRead"],
                           [reply |-> n + 1, name |-> "finished"]>>
    OBVIOUS
  <2>3. two \in Seq(Signals(n + 1))  BY <1>11, <2>2 DEF Signals
  <2>4. posted \o two \in Seq(Signals(n + 1))  BY <2>1, <2>3, ConcatProperties
  <2>5. posted' = posted \/ posted' = posted \o two
    BY <1>11, <2>2 DEF createRequest, setContent
  <2> QED  BY <2>1, <2>4, <2>5
<1> QED  BY <1>12, <1>14, <1>15

-----------------------------------------------------------------------------
(* The invariant holds and is kept.                                         *)
Document == [book : Books, href : Paths, content : Contents, refs : SUBSET Reference]

LEMMA InitIInv == Init => IInv
<1> SUFFICES ASSUME Init PROVE IInv  OBVIOUS
<1>1. replies = <<>> /\ posted = <<>> /\ calls = 0  BY DEF Init
<1>2. DOMAIN replies = {} /\ replies \in Seq(Reply)  BY <1>1, EmptySeq
<1>3. posted \in Seq([reply : DOMAIN replies, name : {"readyRead", "finished"}])
  BY <1>1, EmptySeq
<1>4. calls \in 0 .. MaxCalls  BY <1>1, LauncherAssumption
<1>5. /\ m_pckg = NoBook /\ book = NoBook /\ dialog = FALSE /\ asked = NoHref
      /\ document = NoDocument /\ loaded = FALSE
  BY DEF Init
<1>6. TypeOK  BY <1>2, <1>3, <1>4, <1>5, NoBookFacts DEF TypeOK
<1> QED  BY <1>2, <1>5, <1>6 DEF IInv, DocumentOK

(* The parts of TypeOK, with the signals as Signals has them.               *)
LEMMA TypeParts ==
    ASSUME TypeOK
    PROVE  /\ m_pckg \in Books \cup {NoBook} /\ book \in Books \cup {NoBook}
           /\ dialog \in BOOLEAN /\ loaded \in BOOLEAN
           /\ asked \in Paths /\ calls \in 0 .. MaxCalls
           /\ document \in {NoDocument} \cup Document
BY DEF TypeOK, Document

LEMMA TypeAgain ==
    ASSUME replies' \in Seq(Reply), posted' \in Seq(Signals(Len(replies'))),
           m_pckg' \in Books \cup {NoBook}, book' \in Books \cup {NoBook},
           dialog' \in BOOLEAN, loaded' \in BOOLEAN,
           asked' \in Paths, calls' \in 0 .. MaxCalls,
           document' \in {NoDocument} \cup Document
    PROVE  TypeOK'
<1>1. DOMAIN replies' = 1 .. Len(replies')  BY LenProperties
<1> QED  BY <1>1 DEF TypeOK, Document, Signals

LEMMA CallType == ASSUME TypeOK, Call PROVE calls' \in 0 .. MaxCalls
<1>1. calls \in 0 .. MaxCalls /\ calls < MaxCalls /\ calls' = calls + 1
  BY DEF TypeOK, Call
<1> QED  BY <1>1, LauncherAssumption

(* A step of the page or its user that leaves book and replies alone.       *)
PageMove ==
    /\ m_pckg' = m_pckg /\ book' = book /\ replies' = replies /\ posted' = posted
    /\ document' = document
    /\ asked' = asked \/ (book \in Books /\ asked' \in Hrefs(book))
    /\ dialog' \in BOOLEAN /\ loaded' \in BOOLEAN /\ calls' \in 0 .. MaxCalls

LEMMA PageStep ==
    ASSUME IInv, PageMove
    PROVE  IInv'
<1>1. TypeOK  BY DEF IInv
<1> USE DEF PageMove
<1>2. asked' \in Paths  BY <1>1, TypeParts, BookFacts
<1>3. TypeOK'  BY <1>1, <1>2, TypeFacts, TypeParts, TypeAgain
<1>4. book' = NoBook => asked' = NoHref /\ document' = NoDocument
  BY NoBookAssumption DEF IInv
<1>5. book' # NoBook => asked' \in {NoHref} \cup Hrefs(book')  BY DEF IInv
<1>6. m_pckg' = book' /\ DocumentOK(book', document')  BY DEF IInv
<1>7. \A k \in DOMAIN replies' : ReplyOK(book', replies'[k])  BY DEF IInv
<1> QED  BY <1>3, <1>4, <1>5, <1>6, <1>7 DEF IInv

LEMMA ChooseFileStep == ASSUME IInv, NEW b \in Books, ChooseFile(b) PROVE IInv'
<1>1. /\ dialog' = FALSE /\ m_pckg' = b /\ book' = b /\ replies' = Aborted
      /\ document' = NoDocument /\ asked' = fromAscii(Spine[b][1]) /\ loaded' = FALSE
      /\ posted' = posted /\ calls' = calls
  BY DEF ChooseFile, openBook
<1>2. TypeOK  BY DEF IInv
<1>3. asked' \in Hrefs(b) /\ asked' \in Paths  BY <1>1, BookFacts
<1>4. /\ Aborted \in Seq(Reply) /\ Len(Aborted) = Len(replies)
      /\ DOMAIN Aborted = DOMAIN replies
      /\ \A k \in DOMAIN replies : ReplyOK(b, Aborted[k])
  BY AbortedFacts
<1>5. posted' \in Seq(Signals(Len(replies')))  BY <1>1, <1>2, <1>4, TypeFacts
<1>6. calls' \in 0 .. MaxCalls  BY <1>1, <1>2, TypeParts
<1>7. TypeOK'  BY <1>1, <1>3, <1>4, <1>5, <1>6, TypeAgain
<1>8. book' # NoBook  BY <1>1, NoBookAssumption
<1>9. DocumentOK(book', document')  BY <1>1 DEF DocumentOK
<1>10. \A k \in DOMAIN replies' : ReplyOK(book', replies'[k])  BY <1>1, <1>4
<1> QED  BY <1>1, <1>3, <1>7, <1>8, <1>9, <1>10 DEF IInv

(* The document in the frame asks for one thing less, or for nothing more.  *)
LEMMA FewerReferences ==
    ASSUME IInv, document # NoDocument, NEW refs \in SUBSET document.refs
    PROVE  /\ [document EXCEPT !.refs = refs] \in Document
           /\ DocumentOK(book, [document EXCEPT !.refs = refs])
<1>1. document \in Document /\ DocumentOK(book, document)  BY TypeParts DEF IInv
<1>2. PICK d : d = [document EXCEPT !.refs = refs]  OBVIOUS
<1>3. /\ d \in Document /\ d.book = document.book /\ d.href = document.href
      /\ d.content = document.content /\ d.refs = refs
  BY <1>1, <1>2 DEF Document
<1>4. DocumentOK(book, d)  BY <1>1, <1>3 DEF DocumentOK
<1> QED  BY <1>2, <1>3, <1>4

LEMMA RequestDocumentStep == ASSUME IInv, RequestDocument PROVE IInv'
<1>1. /\ asked # NoHref /\ asked' = NoHref
      /\ createRequest(Aborted, book, asked, NoReference, getItemUrl(asked))
      /\ document' = IF document = NoDocument THEN NoDocument ELSE [document EXCEPT !.refs = {}]
      /\ UNCHANGED <<m_pckg, book, dialog, loaded, calls>>
  BY DEF RequestDocument
<1>2. TypeOK  BY DEF IInv
<1>3. book \in Books /\ asked \in Hrefs(book)
  BY <1>1, <1>2, TypeParts DEF IInv
<1>4. /\ Aborted \in Seq(Reply) /\ Len(Aborted) = Len(replies)
      /\ \A k \in DOMAIN replies : ReplyOK(book, Aborted[k])
  BY AbortedFacts
<1>5. /\ replies' \in Seq(Reply) /\ posted' \in Seq(Signals(Len(replies')))
      /\ \A k \in DOMAIN replies' : ReplyOK(book, replies'[k])
  BY <1>1, <1>3, <1>4, NoBookFacts, CreateRequest
<1>6. document' \in {NoDocument} \cup Document /\ DocumentOK(book, document')
  <2>1. CASE document = NoDocument  BY <1>1, <2>1 DEF DocumentOK
  <2>2. CASE document # NoDocument
    <3>1. {} \in SUBSET document.refs  OBVIOUS
    <3> QED  BY <1>1, <2>2, <3>1, FewerReferences
  <2> QED  BY <2>1, <2>2
<1>7. TypeOK'  BY <1>1, <1>2, <1>5, <1>6, NoBookFacts, TypeParts, TypeAgain
<1>8. book # NoBook  BY <1>3, NoBookAssumption
<1>9. m_pckg' = book' /\ book' = book  BY <1>1 DEF IInv
<1> QED  BY <1>1, <1>5, <1>6, <1>7, <1>8, <1>9 DEF IInv

LEMMA RequestReferenceStep == ASSUME IInv, RequestReference PROVE IInv'
<1>1. PICK ref \in document.refs :
        /\ createRequest(replies, document.book, document.href, ref,
                         Resolve(getItemUrl(document.href), ref))
        /\ document' = [document EXCEPT !.refs = document.refs \ {ref}]
  BY DEF RequestReference
<1>2. document # NoDocument /\ UNCHANGED <<m_pckg, book, dialog, asked, loaded, calls>>
  BY DEF RequestReference
<1>3. TypeOK /\ DocumentOK(book, document)  BY DEF IInv
<1>4. document \in Document  BY <1>2, <1>3, TypeParts
<1>5. /\ document.book = book /\ document.href \in Hrefs(book)
      /\ ref \in Reference /\ ref # NoReference /\ book \in Books
  BY <1>1, <1>2, <1>3, <1>4 DEF DocumentOK, Document
<1>6. /\ replies \in Seq(Reply) /\ \A k \in DOMAIN replies : ReplyOK(book, replies[k])
  BY <1>3, TypeFacts DEF IInv
<1>7. createRequest(replies, book, document.href, ref, Resolve(getItemUrl(document.href), ref))
  BY <1>1, <1>5
<1>8. /\ replies' \in Seq(Reply) /\ posted' \in Seq(Signals(Len(replies')))
      /\ \A k \in DOMAIN replies' : ReplyOK(book, replies'[k])
  BY <1>5, <1>6, <1>7, CreateRequest
<1>9. document' \in Document /\ DocumentOK(book, document')
  <2>1. document.refs \ {ref} \in SUBSET document.refs  OBVIOUS
  <2> QED  BY <1>1, <1>2, <2>1, FewerReferences
<1>10. TypeOK'  BY <1>2, <1>3, <1>8, <1>9, TypeParts, TypeAgain
<1>11. book # NoBook  BY <1>5, NoBookAssumption
<1>12. m_pckg' = book' /\ book' = book /\ asked' = asked  BY <1>2 DEF IInv
<1>13. asked' \in {NoHref} \cup Hrefs(book)  BY <1>11, <1>12 DEF IInv
<1> QED  BY <1>8, <1>9, <1>10, <1>11, <1>12, <1>13 DEF IInv

(* The first data of a navigation bring its document.                       *)
LEMMA DeliversDocument ==
    ASSUME IInv, NEW r \in Reply, ReplyOK(book, r), r.live, r.ref = NoReference,
           NEW d, d = [book |-> r.by, href |-> r.href, content |-> r.content,
                       refs |-> IF r.content.book \in Books
                                THEN References[r.content.book][r.content.path]
                                ELSE {}]
    PROVE  d \in Document /\ DocumentOK(book, d) /\ book # NoBook
<1>1. /\ r.by = book /\ r.href \in Hrefs(book) /\ HoldsItem(book, r.href, r.content)
      /\ FromArchive(r.content)
  BY DEF ReplyOK
<1>2. r.by \in Books /\ r.href \in Paths /\ r.content \in Contents  BY DEF Reply
<1>3. PICK refs : refs = IF r.content.book \in Books
                         THEN References[r.content.book][r.content.path] ELSE {}
  OBVIOUS
<1>4. refs \in SUBSET Reference /\ NoReference \notin refs
  BY <1>1, <1>3, ReferenceFacts DEF FromArchive
<1>5. d = [book |-> r.by, href |-> r.href, content |-> r.content, refs |-> refs]  BY <1>3
<1>6. d \in Document  BY <1>2, <1>4, <1>5 DEF Document
<1>7. DocumentOK(book, d)  BY <1>1, <1>4, <1>5 DEF DocumentOK
<1> QED  BY <1>1, <1>2, <1>6, <1>7, NoBookAssumption

LEMMA EmitSignalStep == ASSUME IInv, EmitSignal PROVE IInv'
<1>1. TypeOK  BY DEF IInv
<1>2. PICK k, name : k = Head(posted).reply /\ name = Head(posted).name  OBVIOUS
<1>3. /\ posted # <<>> /\ Delivers(k, name) /\ posted' = Tail(posted)
      /\ UNCHANGED <<m_pckg, book, dialog, asked, loaded, calls>>
  BY <1>2 DEF EmitSignal
<1>4. Head(posted) \in Signals(Len(replies)) /\ posted' \in Seq(Signals(Len(replies)))
  BY <1>1, <1>3, TypeFacts, HeadTailProperties
<1>5. k \in DOMAIN replies  BY <1>1, <1>2, <1>4, TypeFacts DEF Signals
<1>6. replies[k] \in Reply /\ ReplyOK(book, replies[k])  BY <1>1, <1>5, TypeFacts DEF IInv
<1>7. /\ replies' \in Seq(Reply) /\ DOMAIN replies' = DOMAIN replies
      /\ \A j \in DOMAIN replies : ReplyOK(book, replies'[j])
  <2>1. CASE name = "finished"
    <3>1. replies' = [replies EXCEPT ![k].done = TRUE]  BY <1>3, <2>1 DEF Delivers
    <3> QED  BY <1>5, <3>1, DoneFacts
  <2>2. CASE name # "finished"
    <3>1. replies' = replies  BY <1>3, <2>2 DEF Delivers
    <3> QED  BY <1>1, <3>1, TypeFacts DEF IInv
  <2> QED  BY <2>1, <2>2
<1>8. Len(replies') = Len(replies)  BY <1>1, <1>7, TypeFacts, LenProperties
<1>9. /\ document' \in {NoDocument} \cup Document /\ DocumentOK(book, document')
      /\ book = NoBook => document' = NoDocument
  <2>1. CASE name = "readyRead" /\ replies[k].live /\ replies[k].ref = NoReference
    <3>1. document' = [book |-> replies[k].by, href |-> replies[k].href,
                       content |-> replies[k].content,
                       refs |-> IF replies[k].content.book \in Books
                                THEN References[replies[k].content.book][replies[k].content.path]
                                ELSE {}]
      BY <1>3, <2>1 DEF Delivers
    <3> QED  BY <1>6, <2>1, <3>1, DeliversDocument
  <2>2. CASE ~(name = "readyRead" /\ replies[k].live /\ replies[k].ref = NoReference)
    <3>1. document' = document  BY <1>3, <2>2 DEF Delivers
    <3> QED  BY <1>1, <3>1, TypeParts DEF IInv
  <2> QED  BY <2>1, <2>2
<1>10. TypeOK'  BY <1>1, <1>3, <1>4, <1>7, <1>8, <1>9, TypeParts, TypeAgain
<1>11. /\ m_pckg' = book' /\ book' = book /\ asked' = asked
       /\ book = NoBook => asked = NoHref
       /\ book # NoBook => asked \in {NoHref} \cup Hrefs(book)
  BY <1>3 DEF IInv
<1> QED  BY <1>7, <1>9, <1>10, <1>11 DEF IInv

LEMMA NetworkAnswersStep == ASSUME IInv, NetworkAnswers PROVE IInv'
<1>1. TypeOK  BY DEF IInv
<1>2. PICK k \in DOMAIN replies : replies' = [replies EXCEPT ![k].done = TRUE]
  BY DEF NetworkAnswers
<1>3. UNCHANGED <<m_pckg, book, dialog, asked, posted, document, loaded, calls>>
  BY DEF NetworkAnswers
<1>4. /\ replies' \in Seq(Reply) /\ DOMAIN replies' = DOMAIN replies
      /\ \A j \in DOMAIN replies : ReplyOK(book, replies'[j])
  BY <1>2, DoneFacts
<1>5. Len(replies') = Len(replies)  BY <1>1, <1>4, TypeFacts, LenProperties
<1>6. posted' \in Seq(Signals(Len(replies')))  BY <1>1, <1>3, <1>5, TypeFacts
<1>7. TypeOK'  BY <1>1, <1>3, <1>4, <1>6, TypeParts, TypeAgain
<1>8. /\ m_pckg' = book' /\ book' = book /\ asked' = asked /\ document' = document
      /\ book = NoBook => asked = NoHref /\ document = NoDocument
      /\ book # NoBook => asked \in {NoHref} \cup Hrefs(book)
      /\ DocumentOK(book, document)
  BY <1>3 DEF IInv
<1> QED  BY <1>4, <1>7, <1>8 DEF IInv

(* Every step is one of the page or its user that leaves book and replies   *)
(* alone, or one of five others.                                            *)
LEMMA Moves ==
    ASSUME IInv, [Next]_vars
    PROVE  \/ PageMove \/ \E b \in Books : ChooseFile(b)
           \/ RequestDocument \/ RequestReference \/ EmitSignal \/ NetworkAnswers
<1>1. /\ TypeOK /\ calls \in 0 .. MaxCalls /\ dialog \in BOOLEAN /\ loaded \in BOOLEAN
      /\ book \in Books \cup {NoBook}
  BY TypeParts DEF IInv
<1>2. CASE LoadFile
  <2>1. Call /\ dialog' = TRUE /\ UNCHANGED <<m_pckg, book, asked, replies, posted, document, loaded>>
    BY <1>2 DEF LoadFile
  <2>2. PageMove  BY <1>1, <2>1, CallType DEF PageMove
  <2> QED  BY <2>2
<1>3. CASE CancelDialog
  <2>1. dialog' = FALSE /\ UNCHANGED <<m_pckg, book, asked, replies, posted, document, loaded, calls>>
    BY <1>3 DEF CancelDialog
  <2>2. PageMove  BY <1>1, <2>1 DEF PageMove
  <2> QED  BY <2>2
<1>4. CASE OpenItem
  <2>1. /\ Call /\ book # NoBook /\ loaded' = FALSE
        /\ \E i \in DOMAIN Spine[book] : asked' = fromAscii(Spine[book][i])
        /\ UNCHANGED <<m_pckg, book, dialog, replies, posted, document>>
    BY <1>4 DEF OpenItem
  <2>2. book \in Books /\ asked' \in Hrefs(book)  BY <1>1, <2>1 DEF Hrefs
  <2>3. PageMove  BY <1>1, <2>1, <2>2, CallType DEF PageMove
  <2> QED  BY <2>3
<1>5. CASE OpenLink
  <2>1. PICK link \in Links[book] : book # NoBook /\ OpenContentUrl(link)
    BY <1>5 DEF OpenLink
  <2>2. /\ Call /\ UNCHANGED <<m_pckg, book, dialog, replies, posted, document>>
        /\ \/ asked' \in Hrefs(book) /\ loaded' = FALSE
           \/ UNCHANGED <<asked, loaded>>
    BY <2>1 DEF OpenContentUrl
  <2>3. PageMove  BY <1>1, <2>1, <2>2, CallType DEF PageMove
  <2> QED  BY <2>3
<1>6. CASE FireLoad
  <2>1. loaded' = TRUE /\ UNCHANGED <<m_pckg, book, dialog, asked, replies, posted, document, calls>>
    BY <1>6 DEF FireLoad
  <2>2. PageMove  BY <1>1, <2>1 DEF PageMove
  <2> QED  BY <2>2
<1>7. CASE UNCHANGED vars
  <2>1. UNCHANGED <<m_pckg, book, dialog, asked, replies, posted, document, loaded, calls>>
    BY <1>7 DEF vars
  <2>2. PageMove  BY <1>1, <2>1 DEF PageMove
  <2> QED  BY <2>2
<1> QED  BY <1>2, <1>3, <1>4, <1>5, <1>6, <1>7 DEF Next, EventLoop

LEMMA StepIInv == IInv /\ [Next]_vars => IInv'
BY Moves, PageStep, ChooseFileStep, RequestDocumentStep, RequestReferenceStep, EmitSignalStep,
   NetworkAnswersStep

-----------------------------------------------------------------------------
(* The invariant holds in every behaviour: one book is open in the SDK and  *)
(* in the reader, and what is on its way to the frame is of that book.      *)
THEOREM IInvIsInvariant == Spec => []IInv
BY InitIInv, StepIInv, PTL DEF Spec

(* Every variable of the launcher keeps its type.                           *)
THEOREM TypeCorrect == Spec => []TypeOK
<1>1. IInv => TypeOK  BY DEF IInv
<1> QED  BY <1>1, IInvIsInvariant, PTL

(* Whatever is opened while replies are on their way, the frame shows an    *)
(* item of the open book, as that book's container has it.                  *)
THEOREM FrameAlwaysShowsBook == Spec => []FrameShowsBook
<1>1. IInv => FrameShowsBook  BY DEF IInv, DocumentOK, HoldsItem, FrameShowsBook
<1> QED  BY <1>1, IInvIsInvariant, PTL

(* What a document refers to below its package is found, whatever           *)
(* directories its package and the document are in.                         *)
THEOREM ReferencesAreAlwaysFound == Spec => []ReferencesAreFound
<1>1. IInv => ReferencesAreFound
  BY DEF IInv, ReplyOK, ReferenceFound, ReferencesAreFound
<1> QED  BY <1>1, IInvIsInvariant, PTL

(* openContentUrl and WebKit resolve a link to the same item.               *)
THEOREM LinksAlwaysLeadToItems == Spec => LinksLeadToItems
<1> DEFINE Leads == book # NoBook => \A link \in Links[book] :
                      /\ NamesFile(link.ref) /\ link.ref.up < Len(link.source)
                      /\ OpenContentUrl(link)
                      => \A target \in Hrefs(book) :
                            target = Resolve(link.source, link.ref) => asked' = target
<1>1. TypeOK => Leads
  <2> SUFFICES ASSUME TypeOK, book # NoBook, NEW link \in Links[book],
                      link.ref.up < Len(link.source), OpenContentUrl(link),
                      NEW target \in Hrefs(book), target = Resolve(link.source, link.ref)
               PROVE  asked' = target
    OBVIOUS
  <2>1. book \in Books  BY TypeParts
  <2>2. link.source \in Paths /\ link.ref \in Reference  BY <2>1, LauncherAssumption
  <2>3. Len(link.source) \in Nat /\ link.ref.up \in Nat
    BY <2>2, LenProperties DEF Paths, Reference
  <2>4. link.ref.up <= Len(link.source) - 1  BY <2>3
  <2>5. ResolveContentRef(link.ref, link.source) = target
    BY <2>4 DEF ResolveContentRef, Resolve
  <2> QED  BY <2>5 DEF OpenContentUrl
<1>2. TypeOK /\ [Next]_vars => [Leads]_vars  BY <1>1
<1>3. Spec => [][Next]_vars  BY PTL DEF Spec
<1> QED  BY <1>2, <1>3, TypeCorrect, PTL DEF LinksLeadToItems

-----------------------------------------------------------------------------
(* What is still to come before the load event.                             *)

LEMMA NotADocument == ASSUME NEW d \in Document PROVE d # NoDocument
<1>1. "book" \in DOMAIN d  BY DEF Document
<1>2. "book" \notin DOMAIN NoDocument  BY DEF NoDocument
<1> QED  BY <1>1, <1>2

Signal(k, name) == [reply |-> k, name |-> name]

IsPosted(q, s) == \E n \in DOMAIN q : q[n] = s

(* Replies that are told of in a queue of signals, or that the network has. *)
ToldOf(rs, q) ==
    \A k \in DOMAIN rs :
        rs[k].live /\ ~rs[k].done =>
            rs[k].content = HostContent \/ IsPosted(q, Signal(k, "finished"))

(* A first datum of a document is in the queue.                             *)
DocumentComes(rs, q) ==
    \E k \in DOMAIN rs : IsDocument(rs[k]) /\ IsPosted(q, Signal(k, "readyRead"))

FirstDataOf(rs) == [reply : {k \in DOMAIN rs : IsDocument(rs[k])}, name : {"readyRead"}]

LEMMA ComingIs ==
    /\ LoadIsOnItsWay <=>
          /\ book # NoBook /\ document = NoDocument =>
                asked # NoHref \/ DocumentComes(replies, posted)
          /\ ToldOf(replies, posted)
    /\ FirstData = FirstDataOf(replies)
<1>1. (\E n \in DOMAIN posted : posted[n] \in FirstData) <=> DocumentComes(replies, posted)
  BY DEF FirstData, DocumentComes, IsPosted, Signal
<1>2. ToldOf(replies, posted) <=>
        \A k \in DOMAIN replies :
          replies[k].live /\ ~replies[k].done =>
             \/ replies[k].content = HostContent
             \/ \E n \in DOMAIN posted : posted[n] = [reply |-> k, name |-> "finished"]
  BY DEF ToldOf, IsPosted, Signal
<1> QED  BY <1>1, <1>2 DEF LoadIsOnItsWay, FirstData, FirstDataOf

LEMMA PostedTail ==
    ASSUME NEW T, NEW q \in Seq(T), q # <<>>, NEW s, IsPosted(q, s)
    PROVE  s = Head(q) \/ IsPosted(Tail(q), s)
<1>1. /\ Len(Tail(q)) = Len(q) - 1 /\ Head(q) = q[1]
      /\ Tail(q) \in Seq(T) /\ Len(q) \in Nat
      /\ \A n \in 1 .. Len(Tail(q)) : Tail(q)[n] = q[n + 1]
  BY HeadTailProperties, EmptySeq, LenProperties
<1>2. DOMAIN q = 1 .. Len(q) /\ DOMAIN Tail(q) = 1 .. Len(Tail(q))
  BY <1>1, LenProperties
<1>3. PICK n \in 1 .. Len(q) : q[n] = s  BY <1>2 DEF IsPosted
<1>4. CASE n = 1  BY <1>1, <1>3, <1>4
<1>5. CASE n # 1
  <2>1. n - 1 \in 1 .. Len(Tail(q)) /\ (n - 1) + 1 = n  BY <1>1, <1>3, <1>5
  <2>2. Tail(q)[n - 1] = s  BY <1>1, <1>3, <2>1
  <2> QED  BY <1>2, <2>1, <2>2 DEF IsPosted
<1> QED  BY <1>4, <1>5

(* Replies of which nothing changes but that they end.                      *)
OnlyEnd(rs, ts) ==
    /\ DOMAIN ts = DOMAIN rs
    /\ \A k \in DOMAIN rs : ts[k] = rs[k] \/ ts[k] = [rs[k] EXCEPT !.done = TRUE]

LEMMA EndKeeps ==
    ASSUME NEW rs \in Seq(Reply), NEW ts, OnlyEnd(rs, ts)
    PROVE  /\ DOMAIN ts = DOMAIN rs
           /\ \A k \in DOMAIN rs : /\ ts[k].live = rs[k].live /\ ts[k].ref = rs[k].ref
                                   /\ ts[k].content = rs[k].content
                                   /\ ~ts[k].done => ~rs[k].done
           /\ FirstDataOf(ts) = FirstDataOf(rs)
<1>1. DOMAIN rs = 1 .. Len(rs) /\ \A k \in DOMAIN rs : rs[k] \in Reply
  BY LenProperties, ElementOfSeq
<1>2. ASSUME NEW k \in DOMAIN rs
      PROVE  /\ ts[k].live = rs[k].live /\ ts[k].ref = rs[k].ref
             /\ ts[k].content = rs[k].content
             /\ ~ts[k].done => ~rs[k].done
  BY <1>1 DEF OnlyEnd, Reply
<1>3. {k \in DOMAIN ts : IsDocument(ts[k])} = {k \in DOMAIN rs : IsDocument(rs[k])}
  BY <1>2 DEF OnlyEnd, IsDocument
<1>4. DOMAIN ts = DOMAIN rs  BY DEF OnlyEnd
<1> QED  BY <1>2, <1>3, <1>4 DEF FirstDataOf

LEMMA OneEnds ==
    ASSUME TypeOK, NEW k \in DOMAIN replies, NEW ts, ts = [replies EXCEPT ![k].done = TRUE]
    PROVE  /\ OnlyEnd(replies, ts) /\ ts[k].done
           /\ \A j \in DOMAIN replies \ {k} : ts[j] = replies[j]
BY TypeFacts DEF OnlyEnd, Reply

(* What a signal does, to a reply or to the frame.                          *)
LEMMA Emitted ==
    ASSUME IInv, EmitSignal
    PROVE  \E k \in DOMAIN replies :
             /\ posted # <<>> /\ posted' = Tail(posted)
             /\ Head(posted) \in Signals(Len(replies)) /\ Head(posted).reply = k
             /\ OnlyEnd(replies, replies')
             /\ \A j \in DOMAIN replies \ {k} : replies'[j] = replies[j]
             /\ Head(posted) = Signal(k, "finished") => replies'[k].done
             /\ Head(posted) # Signal(k, "finished") => replies' = replies
             /\ Head(posted) \in FirstData => document' # NoDocument
             /\ Head(posted) \notin FirstData => document' = document
<1>1. TypeOK  BY DEF IInv
<1> DEFINE s == Head(posted)
           k == s.reply
<1>2. /\ posted # <<>> /\ Delivers(k, s.name) /\ posted' = Tail(posted)
  BY DEF EmitSignal
<1>3. s \in Signals(Len(replies)) /\ k \in DOMAIN replies
  <2>1. posted \in Seq(Signals(Len(replies))) /\ DOMAIN replies = 1 .. Len(replies)
    BY <1>1, TypeFacts
  <2>2. s \in Signals(Len(replies))  BY <1>2, <2>1, HeadTailProperties
  <2> QED  BY <2>1, <2>2 DEF Signals
<1> HIDE DEF s
<1>4. s = Signal(k, s.name) /\ s.name \in {"readyRead", "finished"}
  BY <1>3 DEF Signals, Signal
<1>5. s = Signal(k, "finished") <=> s.name = "finished"
  BY <1>4 DEF Signal
<1>6. s \in FirstData <=> s.name = "readyRead" /\ IsDocument(replies[k])
  BY <1>3, <1>4 DEF FirstData, Signal
<1>7. /\ OnlyEnd(replies, replies')
      /\ \A j \in DOMAIN replies \ {k} : replies'[j] = replies[j]
      /\ s.name = "finished" => replies'[k].done
      /\ s.name # "finished" => replies' = replies
  <2>1. CASE s.name = "finished"
    <3>1. replies' = [replies EXCEPT ![k].done = TRUE]  BY <1>2, <2>1 DEF Delivers
    <3> QED  BY <1>1, <1>3, <2>1, <3>1, OneEnds
  <2>2. CASE s.name # "finished"
    <3>1. replies' = replies  BY <1>2, <2>2 DEF Delivers
    <3> QED  BY <2>2, <3>1 DEF OnlyEnd
  <2> QED  BY <2>1, <2>2
<1>8. CASE s \in FirstData
  <2>1. s.name = "readyRead" /\ replies[k].live /\ replies[k].ref = NoReference
    BY <1>6, <1>8 DEF IsDocument
  <2>2. "book" \in DOMAIN document'
    BY <1>2, <2>1 DEF Delivers
  <2>3. "book" \notin DOMAIN NoDocument  BY DEF NoDocument
  <2>4. document' # NoDocument  BY <2>2, <2>3
  <2> QED  BY <1>2, <1>3, <1>5, <1>7, <1>8, <2>4 DEF s
<1>9. CASE s \notin FirstData
  <2>1. ~(s.name = "readyRead" /\ replies[k].live /\ replies[k].ref = NoReference)
    BY <1>6, <1>9 DEF IsDocument
  <2>2. document' = document  BY <1>2, <2>1 DEF Delivers
  <2> QED  BY <1>2, <1>3, <1>5, <1>7, <1>9, <2>2 DEF s
<1> QED  BY <1>8, <1>9

LEMMA PostedAppend ==
    ASSUME NEW T, NEW q \in Seq(T), NEW e \in T
    PROVE  /\ IsPosted(Append(q, e), e)
           /\ \A s : IsPosted(q, s) => IsPosted(Append(q, e), s)
<1>1. /\ Append(q, e) \in Seq(T) /\ Len(Append(q, e)) = Len(q) + 1 /\ Len(q) \in Nat
      /\ \A n \in 1 .. Len(q) : Append(q, e)[n] = q[n]
      /\ Append(q, e)[Len(q) + 1] = e
  BY AppendProperties, LenProperties
<1>2. DOMAIN q = 1 .. Len(q) /\ DOMAIN Append(q, e) = 1 .. Len(q) + 1
  BY <1>1, LenProperties
<1>3. Len(q) + 1 \in 1 .. Len(q) + 1 /\ \A n \in 1 .. Len(q) : n \in 1 .. Len(q) + 1
  BY <1>1
<1> QED  BY <1>1, <1>2, <1>3 DEF IsPosted

LEMMA TwoMore ==
    ASSUME NEW T, NEW q \in Seq(T), NEW a \in T, NEW b \in T
    PROVE  /\ Append(q, a) \in Seq(T) /\ Append(Append(q, a), b) \in Seq(T)
           /\ q \o <<a, b>> = Append(Append(q, a), b)
<1> DEFINE r == Append(q, a)
           s == Append(r, b)
           two == <<a, b>>
           c == q \o two
<1>1. PICK l \in Nat : l = Len(q)  BY LenProperties
<1>2. /\ r \in Seq(T) /\ Len(r) = l + 1 /\ r[l + 1] = a
      /\ \A n \in 1 .. l : r[n] = q[n]
  BY <1>1, AppendProperties
<1> HIDE DEF r
<1>3. /\ s \in Seq(T) /\ Len(s) = l + 2 /\ s[l + 2] = b
      /\ \A n \in 1 .. l + 1 : s[n] = r[n]
  BY <1>1, <1>2, AppendProperties
<1>4. two \in Seq(T) /\ Len(two) = 2 /\ two[1] = a /\ two[2] = b
  OBVIOUS
<1> HIDE DEF s, two
<1>5. /\ c \in Seq(T) /\ Len(c) = l + 2
      /\ \A n \in 1 .. l + 2 : c[n] = IF n <= l THEN q[n] ELSE two[n - l]
  <2>1. /\ c \in Seq(T) /\ Len(c) = Len(q) + Len(two)
        /\ \A n \in 1 .. Len(q) + Len(two) : c[n] = IF n <= Len(q) THEN q[n] ELSE two[n - Len(q)]
    BY <1>4, ConcatProperties
  <2> HIDE DEF c
  <2> QED  BY <1>1, <1>4, <2>1
<1> HIDE DEF c
<1>6. \A n \in 1 .. l + 2 : c[n] = s[n]
  <2> TAKE n \in 1 .. l + 2
  <2>1. CASE n <= l
    <3>1. n \in 1 .. l /\ n \in 1 .. l + 1  BY <1>1, <2>1
    <3> QED  BY <1>2, <1>3, <1>5, <2>1, <3>1
  <2>2. CASE n = l + 1
    <3>1. n \in 1 .. l + 1 /\ n - l = 1 /\ ~(n <= l)  BY <1>1, <2>2
    <3> QED  BY <1>2, <1>3, <1>4, <1>5, <2>2, <3>1
  <2>3. CASE n = l + 2
    <3>1. n - l = 2 /\ ~(n <= l)  BY <1>1, <2>3
    <3> QED  BY <1>3, <1>4, <1>5, <2>3, <3>1
  <2> QED  BY <1>1, <2>1, <2>2, <2>3
<1>7. c = s  BY <1>3, <1>5, <1>6, SeqEqual
<1> QED  BY <1>2, <1>3, <1>7 DEF c, r, s, two

LEMMA Created ==
    ASSUME IInv, book \in Books, NEW listening, NEW href \in Paths, NEW ref \in Reference,
           NEW url, createRequest(listening, book, href, ref, url)
    PROVE  \E new \in Reply :
             /\ new.ref = ref /\ new.live /\ ~new.done
             /\ replies' = Append(listening, new)
             /\ \/ /\ Forwards(url) /\ new.content = HostContent /\ posted' = posted
                \/ /\ ~Forwards(url) /\ new.content # HostContent
                   /\ posted' = Append(Append(posted, Signal(Len(replies) + 1, "readyRead")),
                                       Signal(Len(replies) + 1, "finished"))
<1>1. m_pckg = book /\ TypeOK  BY DEF IInv
<1> DEFINE content == IF Forwards(url) THEN HostContent ELSE getContent(relativePath(url))
           new == [by |-> book, href |-> href, ref |-> ref,
                   content |-> content, live |-> TRUE, done |-> FALSE]
           n == Len(replies) + 1
<1>2. content \in Contents  BY <1>1, Content, NoBookFacts
<1>3. getContent(relativePath(url)) # HostContent
  <2>1. HostContent.book = NoBook /\ HostContent.path = HostDir  BY DEF HostContent
  <2>2. NoContent.path # HostDir
    BY DEF NoContent, HostDir
  <2>3. \A p : [book |-> m_pckg, path |-> p].book # NoBook
    BY <1>1, NoBookAssumption
  <2> QED  BY <2>1, <2>2, <2>3 DEF getContent
<1>4. replies' = Append(listening, new)
  BY DEF createRequest
<1>5. Forwards(url) => posted' = posted
  BY DEF createRequest
<1>6. ~Forwards(url) => posted' = posted \o <<Signal(n, "readyRead"), Signal(n, "finished")>>
  BY DEF createRequest, setContent, Signal
<1>7. posted \in Seq(Signals(n))
  <2>1. posted \in Seq(Signals(Len(replies))) /\ Len(replies) \in Nat  BY <1>1, TypeFacts
  <2>2. Signals(Len(replies)) \subseteq Signals(n)  BY <2>1 DEF Signals
  <2> QED  BY <2>1, <2>2, SeqMonotonic
<1>8. Signal(n, "readyRead") \in Signals(n) /\ Signal(n, "finished") \in Signals(n)
  <2>1. Len(replies) \in Nat  BY <1>1, TypeFacts
  <2> QED  BY <2>1 DEF Signal, Signals
<1>9. posted \o <<Signal(n, "readyRead"), Signal(n, "finished")>>
        = Append(Append(posted, Signal(n, "readyRead")), Signal(n, "finished"))
  <2> HIDE DEF n
  <2> QED  BY <1>7, <1>8, TwoMore
<1>10. new \in Reply  BY <1>2 DEF Reply
<1>11. /\ new.ref = ref /\ new.live /\ ~new.done /\ new.content = content
  OBVIOUS
<1> HIDE DEF new, n
<1>12. \/ Forwards(url) /\ new.content = HostContent /\ posted' = posted
       \/ /\ ~Forwards(url) /\ new.content # HostContent
          /\ posted' = Append(Append(posted, Signal(n, "readyRead")), Signal(n, "finished"))
  BY <1>3, <1>5, <1>6, <1>9, <1>11
<1> QED  BY <1>4, <1>10, <1>11, <1>12 DEF n

-----------------------------------------------------------------------------
(* A load event that has not come is always on its way; what a document     *)
(* refers to is never without end.                                          *)
Coming == book # NoBook /\ document = NoDocument =>
              asked # NoHref \/ DocumentComes(replies, posted)

OnItsWay == /\ Coming /\ ToldOf(replies, posted)
            /\ document # NoDocument => IsFiniteSet(document.refs)

LEMMA PageIsOnItsWay == ASSUME IInv, OnItsWay, PageMove PROVE OnItsWay'
<1>1. /\ book' = book /\ replies' = replies /\ posted' = posted /\ document' = document
      /\ asked' = asked \/ asked' # NoHref
  BY BookFacts DEF PageMove
<1>2. Coming'  BY <1>1 DEF OnItsWay, Coming
<1>3. ToldOf(replies, posted)' /\ (document' # NoDocument => IsFiniteSet(document'.refs))
  BY <1>1 DEF OnItsWay
<1> QED  BY <1>2, <1>3 DEF OnItsWay

(* Nobody listens any more, but to what is asked next.                      *)
LEMMA AbortedIsTold == ASSUME TypeOK PROVE \A q : ToldOf(Aborted, q)
<1>1. \A k \in DOMAIN replies : [replies[k] EXCEPT !.live = FALSE].live = FALSE
  BY TypeFacts DEF Reply
<1>2. \A k \in DOMAIN Aborted : ~Aborted[k].live
  BY <1>1 DEF Aborted
<1> QED  BY <1>2 DEF ToldOf

LEMMA ChosenIsOnItsWay == ASSUME IInv, NEW b \in Books, ChooseFile(b) PROVE OnItsWay'
<1>1. replies' = Aborted /\ document' = NoDocument /\ asked' = fromAscii(Spine[b][1])
  BY DEF ChooseFile, openBook
<1>2. asked' # NoHref  BY <1>1, BookFacts
<1>3. Coming' /\ ToldOf(replies, posted)'  BY <1>1, <1>2, AbortedIsTold DEF Coming, IInv
<1> QED  BY <1>1, <1>3 DEF OnItsWay

LEMMA CreatedIsTold ==
    ASSUME IInv, book \in Books, NEW listening \in Seq(Reply), Len(listening) = Len(replies),
           NEW href \in Paths, NEW ref \in Reference, NEW url,
           createRequest(listening, book, href, ref, url),
           ToldOf(listening, posted)
    PROVE  /\ ToldOf(replies, posted)'
           /\ ref = NoReference /\ ~Forwards(url) => DocumentComes(replies, posted)'
<1>1. PICK new \in Reply :
             /\ new.ref = ref /\ new.live /\ ~new.done
             /\ replies' = Append(listening, new)
             /\ \/ /\ Forwards(url) /\ new.content = HostContent /\ posted' = posted
                \/ /\ ~Forwards(url) /\ new.content # HostContent
                   /\ posted' = Append(Append(posted, Signal(Len(replies) + 1, "readyRead")),
                                       Signal(Len(replies) + 1, "finished"))
  BY Created
<1>2. PICK n \in Nat : n = Len(replies)  BY TypeFacts DEF IInv
<1>3. /\ Append(listening, new) \in Seq(Reply) /\ Len(Append(listening, new)) = n + 1
      /\ \A k \in 1 .. n : Append(listening, new)[k] = listening[k]
      /\ Append(listening, new)[n + 1] = new
  BY <1>2, AppendProperties
<1>4. DOMAIN replies' = 1 .. n + 1 /\ DOMAIN listening = 1 .. n
  BY <1>1, <1>2, <1>3, LenProperties
<1>5. /\ posted \in Seq(Signals(n + 1))
      /\ Signal(n + 1, "readyRead") \in Signals(n + 1)
      /\ Signal(n + 1, "finished") \in Signals(n + 1)
  <2>1. posted \in Seq(Signals(n))  BY <1>2, TypeFacts DEF IInv
  <2>2. Signals(n) \subseteq Signals(n + 1)  BY <1>2 DEF Signals
  <2>3. posted \in Seq(Signals(n + 1))  BY <2>1, <2>2, SeqMonotonic
  <2>4. n + 1 \in 1 .. n + 1  BY <1>2
  <2> QED  BY <2>3, <2>4 DEF Signal, Signals
<1> DEFINE a == Signal(n + 1, "readyRead")
           b == Signal(n + 1, "finished")
           one == Append(posted, a)
<1>6. one \in Seq(Signals(n + 1)) /\ a \in Signals(n + 1) /\ b \in Signals(n + 1)
  BY <1>5, AppendProperties
<1>7. IsPosted(one, a) /\ \A s : IsPosted(posted, s) => IsPosted(one, s)
  <2> HIDE DEF a
  <2> QED  BY <1>5, <1>6, PostedAppend
<1>8. IsPosted(Append(one, b), b) /\ \A s : IsPosted(one, s) => IsPosted(Append(one, b), s)
  <2> HIDE DEF a, b, one
  <2> QED  BY <1>6, PostedAppend
<1>9. \A s : IsPosted(posted, s) => IsPosted(posted', s)
  <2>1. CASE posted' = posted  BY <2>1
  <2>2. CASE posted' = Append(Append(posted, Signal(n + 1, "readyRead")),
                              Signal(n + 1, "finished"))
    BY <1>7, <1>8, <2>2
  <2> QED  BY <1>1, <1>2, <2>1, <2>2
<1>10. ~Forwards(url) => /\ IsPosted(posted', Signal(n + 1, "readyRead"))
                        /\ IsPosted(posted', Signal(n + 1, "finished"))
  <2> SUFFICES ASSUME ~Forwards(url)
               PROVE  /\ IsPosted(posted', Signal(n + 1, "readyRead"))
                      /\ IsPosted(posted', Signal(n + 1, "finished"))
    OBVIOUS
  <2>1. posted' = Append(one, b)  BY <1>1, <1>2
  <2> QED  BY <1>7, <1>8, <2>1
<1>11. \A k \in DOMAIN replies' : k \in 1 .. n \/ k = n + 1  BY <1>2, <1>4
<1>12. ToldOf(replies, posted)'
  <2>1. ASSUME NEW k \in DOMAIN replies', replies'[k].live, ~replies'[k].done
        PROVE  replies'[k].content = HostContent \/ IsPosted(posted', Signal(k, "finished"))
    <3>1. CASE k \in 1 .. n
      <4>1. replies'[k] = listening[k] /\ k \in DOMAIN listening  BY <1>1, <1>3, <1>4, <3>1
      <4> QED  BY <1>9, <2>1, <4>1 DEF ToldOf
    <3>2. CASE k = n + 1
      <4>1. replies'[k] = new  BY <1>1, <1>3, <3>2
      <4> QED  BY <1>1, <1>10, <3>2, <4>1
    <3> QED  BY <1>11, <3>1, <3>2
  <2> QED  BY <2>1 DEF ToldOf
<1>13. ref = NoReference /\ ~Forwards(url) => DocumentComes(replies, posted)'
  <2>1. n + 1 \in DOMAIN replies' /\ replies'[n + 1] = new  BY <1>1, <1>2, <1>3, <1>4
  <2> QED  BY <1>1, <1>10, <2>1 DEF DocumentComes, IsDocument
<1> QED  BY <1>12, <1>13

LEMMA RequestedIsOnItsWay ==
    ASSUME IInv, OnItsWay, RequestDocument \/ RequestReference
    PROVE  OnItsWay'
<1>1. TypeOK /\ DocumentOK(book, document)  BY DEF IInv
<1>2. CASE RequestDocument
  <2>1. /\ asked # NoHref /\ asked' = NoHref /\ book' = book
        /\ createRequest(Aborted, book, asked, NoReference, getItemUrl(asked))
        /\ document' = IF document = NoDocument THEN NoDocument ELSE [document EXCEPT !.refs = {}]
    BY <1>2 DEF RequestDocument
  <2>2. book \in Books /\ asked \in Paths
    BY <1>1, <2>1, TypeParts DEF IInv
  <2>3. ~Forwards(getItemUrl(asked))  BY <2>2, ItemUrl
  <2>4. ToldOf(replies, posted)' /\ DocumentComes(replies, posted)'
    BY <1>1, <2>1, <2>2, <2>3, NoBookFacts, AbortedFacts, AbortedIsTold, CreatedIsTold
  <2>5. document' # NoDocument => IsFiniteSet(document'.refs)
    <3>1. CASE document = NoDocument  BY <2>1, <3>1
    <3>2. CASE document # NoDocument
      <4>1. document \in Document  BY <1>1, <3>2, TypeParts
      <4>2. document'.refs = {}  BY <2>1, <3>2, <4>1 DEF Document
      <4> QED  BY <4>2, FS_EmptySet
    <3> QED  BY <3>1, <3>2
  <2> QED  BY <2>4, <2>5 DEF OnItsWay, Coming
<1>3. CASE RequestReference
  <2>1. PICK ref \in document.refs :
          /\ createRequest(replies, document.book, document.href, ref,
                           Resolve(getItemUrl(document.href), ref))
          /\ document' = [document EXCEPT !.refs = document.refs \ {ref}]
    BY <1>3 DEF RequestReference
  <2>2. document # NoDocument /\ UNCHANGED <<book, asked>>
    BY <1>3 DEF RequestReference
  <2>3. document \in Document  BY <1>1, <2>2, TypeParts
  <2>4. /\ document.book = book /\ document.href \in Paths
        /\ ref \in Reference /\ book \in Books
    BY <1>1, <2>1, <2>2, <2>3 DEF DocumentOK, Document
  <2>5. ToldOf(replies, posted)'
    <3>1. replies \in Seq(Reply) /\ ToldOf(replies, posted)  BY <1>1, TypeFacts DEF OnItsWay
    <3>2. createRequest(replies, book, document.href, ref, Resolve(getItemUrl(document.href), ref))
      BY <2>1, <2>4
    <3> QED  BY <2>4, <3>1, <3>2, CreatedIsTold
  <2>6. document' \in Document /\ document'.refs = document.refs \ {ref}
    BY <2>1, <2>3 DEF Document
  <2>7. document' # NoDocument  BY <2>6, NotADocument
  <2>8. IsFiniteSet(document'.refs)
    BY <2>2, <2>6, FS_RemoveElement DEF OnItsWay
  <2> QED  BY <2>5, <2>7, <2>8 DEF OnItsWay, Coming
<1> QED  BY <1>2, <1>3

LEMMA EndIsTold ==
    ASSUME NEW rs \in Seq(Reply), NEW ts, OnlyEnd(rs, ts), NEW q, ToldOf(rs, q)
    PROVE  ToldOf(ts, q)
<1>1. /\ DOMAIN ts = DOMAIN rs
      /\ \A k \in DOMAIN rs : /\ ts[k].live = rs[k].live /\ ts[k].content = rs[k].content
                              /\ ~ts[k].done => ~rs[k].done
  BY EndKeeps
<1> QED  BY <1>1 DEF ToldOf

LEMMA EmittedIsOnItsWay == ASSUME IInv, OnItsWay, EmitSignal PROVE OnItsWay'
<1>1. PICK k \in DOMAIN replies :
             /\ posted # <<>> /\ posted' = Tail(posted)
             /\ Head(posted) \in Signals(Len(replies)) /\ Head(posted).reply = k
             /\ OnlyEnd(replies, replies')
             /\ \A j \in DOMAIN replies \ {k} : replies'[j] = replies[j]
             /\ Head(posted) = Signal(k, "finished") => replies'[k].done
             /\ Head(posted) # Signal(k, "finished") => replies' = replies
             /\ Head(posted) \in FirstData => document' # NoDocument
             /\ Head(posted) \notin FirstData => document' = document
  BY Emitted
<1>2. UNCHANGED <<book, asked>>  BY DEF EmitSignal
<1>3. TypeOK /\ replies \in Seq(Reply) /\ posted \in Seq(Signals(Len(replies)))
  BY TypeFacts DEF IInv
<1>4. /\ DOMAIN replies' = DOMAIN replies
      /\ \A j \in DOMAIN replies : /\ replies'[j].live = replies[j].live
                                   /\ replies'[j].ref = replies[j].ref
                                   /\ replies'[j].content = replies[j].content
                                   /\ ~replies'[j].done => ~replies[j].done
  BY <1>1, <1>3, EndKeeps
<1>5. \A j, name : Signal(j, name).reply = j  BY DEF Signal
<1>6. \A s : IsPosted(posted, s) => s = Head(posted) \/ IsPosted(posted', s)
  BY <1>1, <1>3, PostedTail
<1>7. ToldOf(replies, posted)'
  <2>1. ASSUME NEW j \in DOMAIN replies, replies'[j].live, ~replies'[j].done
        PROVE  replies'[j].content = HostContent \/ IsPosted(posted', Signal(j, "finished"))
    <3>1. replies[j].content = HostContent \/ IsPosted(posted, Signal(j, "finished"))
      BY <1>4, <2>1 DEF OnItsWay, ToldOf
    <3>2. Signal(j, "finished") # Head(posted)
      BY <1>1, <1>5, <2>1
    <3> QED  BY <1>4, <1>6, <3>1, <3>2
  <2> QED  BY <1>4, <2>1 DEF ToldOf
<1>8. Coming'
  <2> SUFFICES ASSUME book # NoBook, document' = NoDocument, asked = NoHref
               PROVE  DocumentComes(replies, posted)'
    BY <1>2 DEF Coming
  <2>1. Head(posted) \notin FirstData /\ document = NoDocument  BY <1>1
  <2>2. PICK j \in DOMAIN replies :
          IsDocument(replies[j]) /\ IsPosted(posted, Signal(j, "readyRead"))
    BY <2>1 DEF OnItsWay, Coming, DocumentComes
  <2>3. Signal(j, "readyRead") \in FirstData
    BY <2>2 DEF FirstData, Signal
  <2>4. IsPosted(posted', Signal(j, "readyRead"))  BY <1>6, <2>1, <2>2, <2>3
  <2>5. IsDocument(replies'[j])  BY <1>4, <2>2 DEF IsDocument
  <2> QED  BY <1>4, <2>4, <2>5 DEF DocumentComes
<1>9. document' # NoDocument => IsFiniteSet(document'.refs)
  <2>1. CASE document' = document  BY <2>1 DEF OnItsWay
  <2>2. CASE document' # document
    <3>1. document'.refs = IF replies[k].content.book \in Books
                           THEN References[replies[k].content.book][replies[k].content.path]
                           ELSE {}
      BY <1>1, <2>2 DEF EmitSignal, Delivers
    <3>2. FromArchive(replies[k].content)  BY DEF IInv, ReplyOK
    <3> QED  BY <3>1, <3>2, LauncherAssumption, FS_EmptySet DEF FromArchive
  <2> QED  BY <2>1, <2>2
<1> QED  BY <1>7, <1>8, <1>9 DEF OnItsWay

LEMMA AnsweredIsOnItsWay == ASSUME IInv, OnItsWay, NetworkAnswers PROVE OnItsWay'
<1>1. PICK k \in DOMAIN replies : replies' = [replies EXCEPT ![k].done = TRUE]
  BY DEF NetworkAnswers
<1>2. UNCHANGED <<book, asked, posted, document>>  BY DEF NetworkAnswers
<1>3. TypeOK /\ replies \in Seq(Reply)  BY TypeFacts DEF IInv
<1>4. OnlyEnd(replies, replies')  BY <1>1, <1>3, OneEnds
<1>5. ToldOf(replies, posted)'  BY <1>2, <1>3, <1>4, EndIsTold DEF OnItsWay
<1>6. DocumentComes(replies, posted) => DocumentComes(replies, posted)'
  <2>1. /\ DOMAIN replies' = DOMAIN replies
        /\ \A j \in DOMAIN replies : /\ replies'[j].live = replies[j].live
                                     /\ replies'[j].ref = replies[j].ref
    BY <1>3, <1>4, EndKeeps
  <2> QED  BY <1>2, <2>1 DEF DocumentComes, IsDocument
<1> QED  BY <1>2, <1>5, <1>6 DEF OnItsWay, Coming

LEMMA StepOnItsWay == IInv /\ OnItsWay /\ [Next]_vars => OnItsWay'
BY Moves, PageIsOnItsWay, ChosenIsOnItsWay, RequestedIsOnItsWay, EmittedIsOnItsWay,
   AnsweredIsOnItsWay

LEMMA InitOnItsWay == Init => OnItsWay
<1> SUFFICES ASSUME Init PROVE OnItsWay  OBVIOUS
<1>1. replies = <<>> /\ book = NoBook /\ document = NoDocument  BY DEF Init
<1>2. DOMAIN replies = {}  BY <1>1
<1> QED  BY <1>1, <1>2 DEF OnItsWay, Coming, ToldOf

LEMMA AlwaysOnItsWay == Spec => []OnItsWay
BY InitOnItsWay, StepOnItsWay, IInvIsInvariant, PTL DEF Spec

(* With no document in the frame, one is asked for or its first data are    *)
(* in the event queue; and whatever the load event waits for, a signal or   *)
(* the network will end.                                                    *)
THEOREM LoadIsAlwaysOnItsWay == Spec => []LoadIsOnItsWay
<1>1. OnItsWay => LoadIsOnItsWay  BY ComingIs DEF OnItsWay, Coming
<1> QED  BY <1>1, AlwaysOnItsWay, PTL

-----------------------------------------------------------------------------
(* The event loop runs down.                                                *)
RefsLeft(d) == IF d = NoDocument THEN 0 ELSE 3 * Cardinality(d.refs)

LEMMA WorkIsNatural ==
    ASSUME IInv, OnItsWay
    PROVE  /\ Len(posted) \in Nat /\ HowMany(posted, FirstData) \in Nat
           /\ HowMany(replies, AtNetwork) \in Nat /\ RefsLeft(document) \in Nat
           /\ Work = Len(posted) + HowMany(replies, AtNetwork) + RefsLeft(document)
                       + (IF loaded THEN 0 ELSE 1)
           /\ Work \in Nat
<1>1. replies \in Seq(Reply) /\ posted \in Seq(Signals(Len(replies)))
  BY TypeFacts DEF IInv
<1>2. /\ Len(posted) \in Nat /\ HowMany(posted, FirstData) \in Nat
      /\ HowMany(replies, AtNetwork) \in Nat
  BY <1>1, LenProperties, PlacesAreFinite
<1>3. RefsLeft(document) \in Nat
  BY FS_CardinalityType DEF OnItsWay, RefsLeft
<1>4. Work = Len(posted) + HowMany(replies, AtNetwork) + RefsLeft(document)
             + (IF loaded THEN 0 ELSE 1)
  BY DEF Work, RefsLeft
<1> QED  BY <1>2, <1>3, <1>4

(* What a step has to show.                                                 *)
Less == /\ asked' = asked
        /\ \/ HowMany(posted', FirstData') < HowMany(posted, FirstData)
           \/ HowMany(posted', FirstData') = HowMany(posted, FirstData) /\ Work' < Work

LEMMA LessWork ==
    ASSUME IInv, OnItsWay, asked' = asked,
           NEW l \in Nat, NEW a \in Nat, NEW d \in Nat, loaded \in BOOLEAN,
           HowMany(posted', FirstData') = HowMany(posted, FirstData),
           Len(posted') = l, HowMany(replies', AtNetwork) = a, RefsLeft(document)' = d,
           \/ loaded' = loaded
              /\ l + a + d < Len(posted) + HowMany(replies, AtNetwork) + RefsLeft(document)
           \/ ~loaded /\ loaded'
              /\ l + a + d = Len(posted) + HowMany(replies, AtNetwork) + RefsLeft(document)
    PROVE  Less
<1>1. Work' = l + a + d + (IF loaded' THEN 0 ELSE 1)
  <2>1. Work' = Len(posted') + HowMany(replies', AtNetwork)
                + RefsLeft(document') + (IF loaded' THEN 0 ELSE 1)
    BY DEF Work, RefsLeft, AtNetwork
  <2> QED  BY <2>1
<1>2. Work' < Work
  BY <1>1, WorkIsNatural
<1> QED  BY <1>2 DEF Less

LEMMA AnswerRunsDown == ASSUME IInv, OnItsWay, NetworkAnswers PROVE Less
<1>1. PICK k \in DOMAIN replies : /\ replies[k].content = HostContent /\ ~replies[k].done
                                  /\ replies' = [replies EXCEPT ![k].done = TRUE]
  BY DEF NetworkAnswers
<1>2. asked' = asked /\ posted' = posted /\ document' = document /\ loaded' = loaded
  BY DEF NetworkAnswers
<1>3. /\ TypeOK /\ replies \in Seq(Reply) /\ replies[k] \in Reply /\ loaded \in BOOLEAN
  BY TypeFacts, TypeParts DEF IInv
<1>4. /\ OnlyEnd(replies, replies') /\ replies'[k].done
      /\ \A j \in DOMAIN replies \ {k} : replies'[j] = replies[j]
  BY <1>1, <1>3, OneEnds
<1>5. replies' \in Seq(Reply) /\ DOMAIN replies' = DOMAIN replies
  BY <1>1, DoneFacts
<1>6. replies[k] \in AtNetwork /\ replies'[k] \notin AtNetwork
  BY <1>1, <1>3, <1>4 DEF AtNetwork
<1>7. HowMany(replies, AtNetwork) = HowMany(replies', AtNetwork) + 1
  <2>1. HowMany(replies, AtNetwork)
          = HowMany(replies', AtNetwork) + (IF replies[k] \in AtNetwork THEN 1 ELSE 0)
    BY ONLY k \in DOMAIN replies, <1>3, <1>4, <1>5, <1>6, CountReplaced
  <2> QED  BY <1>6, <2>1
<1>8. HowMany(replies', AtNetwork) \in Nat  BY <1>5, PlacesAreFinite
<1>9. FirstData' = FirstData
  <2>1. FirstDataOf(replies') = FirstDataOf(replies)  BY <1>3, <1>4, EndKeeps
  <2> QED  BY <2>1 DEF FirstData, FirstDataOf
<1>10. RefsLeft(document)' = RefsLeft(document)  BY <1>2
<1>11. /\ Len(posted) \in Nat /\ HowMany(replies, AtNetwork) \in Nat
       /\ RefsLeft(document) \in Nat
  BY WorkIsNatural
<1>12. Len(posted) + HowMany(replies', AtNetwork) + RefsLeft(document)
        < Len(posted) + HowMany(replies, AtNetwork) + RefsLeft(document)
  BY <1>7, <1>8, <1>11
<1> HIDE DEF Less
<1> QED  BY <1>2, <1>3, <1>8, <1>9, <1>10, <1>11, <1>12, LessWork

LEMMA LoadRunsDown == ASSUME IInv, OnItsWay, FireLoad PROVE Less
<1>1. /\ ~loaded /\ loaded' = TRUE
      /\ UNCHANGED <<asked, replies, posted, document>>
  BY DEF FireLoad
<1>2. loaded \in BOOLEAN  BY TypeParts DEF IInv
<1>3. FirstData' = FirstData  BY <1>1 DEF FirstData
<1>4. /\ Len(posted) \in Nat /\ HowMany(replies, AtNetwork) \in Nat
      /\ RefsLeft(document) \in Nat
  BY WorkIsNatural
<1>5. RefsLeft(document)' = RefsLeft(document)  BY <1>1
<1>6. posted' = posted /\ replies' = replies  BY <1>1
<1> QED  BY <1>1, <1>2, <1>3, <1>4, <1>5, <1>6, LessWork

LEMMA SignalRunsDown == ASSUME IInv, OnItsWay, EmitSignal PROVE Less
<1>1. PICK k \in DOMAIN replies :
             /\ posted # <<>> /\ posted' = Tail(posted)
             /\ Head(posted) \in Signals(Len(replies)) /\ Head(posted).reply = k
             /\ OnlyEnd(replies, replies')
             /\ \A j \in DOMAIN replies \ {k} : replies'[j] = replies[j]
             /\ Head(posted) = Signal(k, "finished") => replies'[k].done
             /\ Head(posted) # Signal(k, "finished") => replies' = replies
             /\ Head(posted) \in FirstData => document' # NoDocument
             /\ Head(posted) \notin FirstData => document' = document
  BY Emitted
<1>2. asked' = asked /\ loaded' = loaded  BY DEF EmitSignal
<1>3. /\ TypeOK /\ replies \in Seq(Reply) /\ posted \in Seq(Signals(Len(replies)))
      /\ loaded \in BOOLEAN
  BY TypeFacts, TypeParts DEF IInv
<1>4. FirstData' = FirstData
  <2>1. FirstDataOf(replies') = FirstDataOf(replies)  BY <1>1, <1>3, EndKeeps
  <2> QED  BY <2>1 DEF FirstData, FirstDataOf
<1>5. HowMany(posted, FirstData)
        = HowMany(posted', FirstData') + (IF Head(posted) \in FirstData THEN 1 ELSE 0)
  BY <1>1, <1>3, <1>4, CountTail
<1>6. posted' \in Seq(Signals(Len(replies))) /\ Len(posted') = Len(posted) - 1
      /\ Len(posted') \in Nat
  BY <1>1, <1>3, HeadTailProperties, LenProperties
<1>7. HowMany(posted', FirstData') \in Nat  BY <1>6, PlacesAreFinite
<1>8. CASE Head(posted) \in FirstData
  BY <1>2, <1>5, <1>7, <1>8 DEF Less
<1>9. CASE Head(posted) \notin FirstData
  <2>1. HowMany(posted', FirstData') = HowMany(posted, FirstData)
    BY <1>5, <1>7, <1>9
  <2>2. document' = document  BY <1>1, <1>9
  <2>3. /\ HowMany(replies', AtNetwork) \in Nat
        /\ HowMany(replies', AtNetwork) <= HowMany(replies, AtNetwork)
    <3>1. CASE Head(posted) = Signal(k, "finished")
      <4>1. replies' \in Seq(Reply) /\ DOMAIN replies' = DOMAIN replies
        <5>1. replies' = [replies EXCEPT ![k].done = TRUE]
          <6>1. Delivers(Head(posted).reply, Head(posted).name)  BY DEF EmitSignal
          <6>2. Head(posted).reply = k /\ Head(posted).name = "finished"
            BY <3>1 DEF Signal
          <6> QED  BY <6>1, <6>2 DEF Delivers
        <5> QED  BY <5>1, DoneFacts
      <4>2. replies'[k] \notin AtNetwork  BY <1>1, <3>1 DEF AtNetwork
      <4>3. HowMany(replies, AtNetwork)
              = HowMany(replies', AtNetwork) + (IF replies[k] \in AtNetwork THEN 1 ELSE 0)
        BY ONLY <1>1, <1>3, <4>1, <4>2, CountReplaced
      <4>4. HowMany(replies', AtNetwork) \in Nat  BY <4>1, PlacesAreFinite
      <4> QED  BY <4>3, <4>4
    <3>2. CASE Head(posted) # Signal(k, "finished")
      BY <1>1, <3>2, WorkIsNatural
    <3> QED  BY <3>1, <3>2
  <2>4. /\ Len(posted) \in Nat /\ HowMany(replies, AtNetwork) \in Nat
        /\ RefsLeft(document) \in Nat
    BY WorkIsNatural
  <2>5. Len(posted') + HowMany(replies', AtNetwork) + RefsLeft(document)
         < Len(posted) + HowMany(replies, AtNetwork) + RefsLeft(document)
    BY <1>6, <2>3, <2>4
  <2>6. RefsLeft(document)' = RefsLeft(document)  BY <2>2
  <2> QED  BY <1>2, <1>3, <1>6, <2>1, <2>3, <2>4, <2>5, <2>6, LessWork
<1> QED  BY <1>8, <1>9

LEMMA ReferenceRunsDown == ASSUME IInv, OnItsWay, RequestReference PROVE Less
<1>1. PICK ref \in document.refs :
        /\ createRequest(replies, document.book, document.href, ref,
                         Resolve(getItemUrl(document.href), ref))
        /\ document' = [document EXCEPT !.refs = document.refs \ {ref}]
  BY DEF RequestReference
<1>2. document # NoDocument /\ asked' = asked /\ loaded' = loaded
  BY DEF RequestReference
<1>3. /\ TypeOK /\ DocumentOK(book, document) /\ document \in Document /\ loaded \in BOOLEAN
      /\ replies \in Seq(Reply) /\ posted \in Seq(Signals(Len(replies)))
  BY <1>2, TypeFacts, TypeParts DEF IInv
<1>4. /\ document.book = book /\ document.href \in Paths
      /\ ref \in Reference /\ ref # NoReference /\ book \in Books
  BY <1>1, <1>2, <1>3 DEF DocumentOK, Document
<1> DEFINE url == Resolve(getItemUrl(document.href), ref)
<1>5. createRequest(replies, book, document.href, ref, url)  BY <1>1, <1>4
<1> HIDE DEF url
<1>6. PICK n \in Nat : n = Len(replies)  BY <1>3, TypeFacts
<1> DEFINE a == Signal(n + 1, "readyRead")
           b == Signal(n + 1, "finished")
           one == Append(posted, a)
           two == Append(one, b)
<1>7. PICK new \in Reply :
             /\ new.ref = ref /\ new.live /\ ~new.done
             /\ replies' = Append(replies, new)
             /\ \/ /\ Forwards(url) /\ new.content = HostContent /\ posted' = posted
                \/ ~Forwards(url) /\ new.content # HostContent /\ posted' = two
  BY <1>4, <1>5, <1>6, Created
<1>8. replies' \in Seq(Reply) /\ HowMany(replies', AtNetwork) \in Nat
  BY <1>3, <1>7, AppendProperties, PlacesAreFinite
<1>9. HowMany(replies', AtNetwork)
        = HowMany(replies, AtNetwork) + (IF new \in AtNetwork THEN 1 ELSE 0)
  BY ONLY <1>3, <1>7, CountAppend
<1>10. FirstData' = FirstData
  <2>1. /\ Len(Append(replies, new)) = n + 1
        /\ \A k \in 1 .. n : Append(replies, new)[k] = replies[k]
        /\ Append(replies, new)[n + 1] = new
    BY <1>3, <1>6, AppendProperties
  <2>2. DOMAIN replies' = 1 .. n + 1 /\ DOMAIN replies = 1 .. n
    BY <1>3, <1>6, <1>7, <1>8, <2>1, LenProperties
  <2>3. \A k \in 1 .. n + 1 : k \in 1 .. n \/ k = n + 1  BY <1>6
  <2>4. ~IsDocument(replies'[n + 1])  BY <1>4, <1>7, <2>1 DEF IsDocument
  <2>5. \A k \in 1 .. n : k \in 1 .. n + 1 /\ replies'[k] = replies[k]  BY <1>6, <1>7, <2>1
  <2>6. {k \in 1 .. n + 1 : IsDocument(replies'[k])} = {k \in 1 .. n : IsDocument(replies[k])}
    BY <2>3, <2>4, <2>5
  <2> QED  BY <2>2, <2>6 DEF FirstData, IsDocument
<1>11. /\ posted \in Seq(Signals(n + 1)) /\ a \in Signals(n + 1) /\ b \in Signals(n + 1)
       /\ a \notin FirstData /\ b \notin FirstData
  <2>1. Signals(n) \subseteq Signals(n + 1)  BY <1>6 DEF Signals
  <2>2. posted \in Seq(Signals(n + 1))  BY <1>3, <1>6, <2>1, SeqMonotonic
  <2>3. n + 1 \in 1 .. n + 1 /\ n + 1 \notin DOMAIN replies  BY <1>3, <1>6, TypeFacts
  <2>4. a \in Signals(n + 1) /\ b \in Signals(n + 1)  BY <2>3 DEF Signal, Signals
  <2>5. a.reply = n + 1 /\ b.reply = n + 1  BY DEF Signal
  <2>6. \A s \in FirstData : s.reply \in DOMAIN replies  BY DEF FirstData
  <2> QED  BY <2>2, <2>3, <2>4, <2>5, <2>6
<1> HIDE DEF a, b
<1>12. /\ one \in Seq(Signals(n + 1)) /\ Len(one) = Len(posted) + 1
       /\ HowMany(one, FirstData) = HowMany(posted, FirstData)
  <2>1. HowMany(one, FirstData) = HowMany(posted, FirstData) + (IF a \in FirstData THEN 1 ELSE 0)
    BY ONLY <1>11, CountAppend
  <2>2. HowMany(posted, FirstData) \in Nat  BY <1>11, PlacesAreFinite
  <2> QED  BY <1>11, <2>1, <2>2, AppendProperties
<1> HIDE DEF one
<1>13. /\ two \in Seq(Signals(n + 1)) /\ Len(two) = Len(one) + 1
       /\ HowMany(two, FirstData) = HowMany(one, FirstData)
  <2>1. HowMany(two, FirstData) = HowMany(one, FirstData) + (IF b \in FirstData THEN 1 ELSE 0)
    BY ONLY <1>11, <1>12, CountAppend
  <2>2. HowMany(one, FirstData) \in Nat  BY <1>12, PlacesAreFinite
  <2> QED  BY <1>11, <1>12, <2>1, <2>2, AppendProperties
<1> HIDE DEF two
<1>14. HowMany(posted', FirstData') = HowMany(posted, FirstData)
  BY <1>7, <1>10, <1>12, <1>13
<1>15. RefsLeft(document)' \in Nat /\ RefsLeft(document)' + 3 = RefsLeft(document)
  <2>1. document' \in Document /\ document'.refs = document.refs \ {ref}
    BY <1>1, <1>3 DEF Document
  <2>2. document' # NoDocument  BY <2>1, NotADocument
  <2>3. IsFiniteSet(document.refs)  BY <1>2 DEF OnItsWay
  <2>4. /\ Cardinality(document.refs) \in Nat /\ Cardinality(document'.refs) \in Nat
        /\ Cardinality(document'.refs) = Cardinality(document.refs) - 1
    BY <1>1, <2>1, <2>3, FS_RemoveElement, FS_CardinalityType
  <2> QED  BY <1>2, <2>2, <2>4 DEF RefsLeft
<1>16. /\ Len(posted) \in Nat /\ HowMany(replies, AtNetwork) \in Nat
       /\ RefsLeft(document) \in Nat
  BY WorkIsNatural
<1>17. /\ Len(posted') \in Nat
       /\ Len(posted') + HowMany(replies', AtNetwork) + RefsLeft(document)'
            < Len(posted) + HowMany(replies, AtNetwork) + RefsLeft(document)
  <2>1. CASE posted' = posted
    <3>1. HowMany(replies', AtNetwork) <= HowMany(replies, AtNetwork) + 1
      BY <1>8, <1>9, <1>16
    <3> QED  BY <1>8, <1>15, <1>16, <2>1, <3>1
  <2>2. CASE new.content # HostContent /\ posted' = two
    <3>1. new \notin AtNetwork  BY <2>2 DEF AtNetwork
    <3>2. HowMany(replies', AtNetwork) = HowMany(replies, AtNetwork)
      BY <1>9, <1>16, <3>1
    <3>3. Len(posted') = Len(posted) + 2  BY <1>12, <1>13, <1>16, <2>2
    <3> QED  BY <1>15, <1>16, <3>2, <3>3
  <2> QED  BY <1>7, <2>1, <2>2
<1> QED  BY <1>2, <1>3, <1>8, <1>14, <1>15, <1>17, LessWork

(* Every step of the event loop asks for the document or gets nearer to     *)
(* the load event: only a call can keep it busy for ever.                   *)
THEOREM EventLoopAlwaysRunsDown == Spec => EventLoopRunsDown
<1> DEFINE Down == EventLoop => (asked # NoHref /\ asked' = NoHref) \/ Less
<1>1. IInv /\ OnItsWay /\ [Next]_vars => [Down]_vars
  <2> SUFFICES ASSUME IInv, OnItsWay, EventLoop
               PROVE  (asked # NoHref /\ asked' = NoHref) \/ Less
    OBVIOUS
  <2>1. CASE RequestDocument  BY <2>1 DEF RequestDocument
  <2> QED  BY <2>1, ReferenceRunsDown, SignalRunsDown, AnswerRunsDown, LoadRunsDown
              DEF EventLoop
<1> QED  BY <1>1, IInvIsInvariant, AlwaysOnItsWay, PTL DEF Spec, EventLoopRunsDown, Less

(* What it runs down are natural numbers, so that it gets there.            *)
THEOREM LoadEventComesNearer ==
    Spec => [](Work \in Nat /\ HowMany(posted, FirstData) \in Nat)
<1>1. IInv /\ OnItsWay => Work \in Nat /\ HowMany(posted, FirstData) \in Nat
  BY WorkIsNatural
<1> QED  BY <1>1, IInvIsInvariant, AlwaysOnItsWay, PTL

(* Before the load event there is always a turn left for the event loop:    *)
(* what guards its steps is never false of all of them at once.             *)
THEOREM NeverStuck ==
    Spec => [](book # NoBook /\ ~loaded =>
                  \/ asked # NoHref
                  \/ posted # <<>>
                  \/ document # NoDocument /\ document.refs # {}
                  \/ \E k \in DOMAIN replies : replies[k].content = HostContent /\ ~replies[k].done
                  \/ /\ document # NoDocument /\ document.refs = {}
                     /\ \A k \in DOMAIN replies : replies[k].live => replies[k].done)
<1> DEFINE Left == book # NoBook /\ ~loaded =>
                  \/ asked # NoHref
                  \/ posted # <<>>
                  \/ document # NoDocument /\ document.refs # {}
                  \/ \E k \in DOMAIN replies : replies[k].content = HostContent /\ ~replies[k].done
                  \/ /\ document # NoDocument /\ document.refs = {}
                     /\ \A k \in DOMAIN replies : replies[k].live => replies[k].done
<1>1. LoadIsOnItsWay => Left
  <2> SUFFICES ASSUME LoadIsOnItsWay, book # NoBook, asked = NoHref, posted = <<>>
               PROVE  /\ document # NoDocument
                      /\ \A k \in DOMAIN replies : replies[k].live /\ ~replies[k].done
                                                     => replies[k].content = HostContent
    OBVIOUS
  <2>1. DOMAIN posted = {}  OBVIOUS
  <2> QED  BY <2>1 DEF LoadIsOnItsWay
<1> QED  BY <1>1, LoadIsAlwaysOnItsWay, PTL
=============================================================================
