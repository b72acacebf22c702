------------------------- MODULE LauncherProperties -------------------------
(***************************************************************************)
(* What the launcher promises the reader: the files of the book it has     *)
(* open, found under the URLs its documents use, and an end to every       *)
(* navigation.                                                             *)
(***************************************************************************)
EXTENDS Launcher, Counting

(* The type invariant.                                                      *)
TypeOK ==
    /\ m_pckg \in Books \cup {NoBook}
    /\ book \in Books \cup {NoBook}
    /\ dialog \in BOOLEAN
    /\ asked \in Paths
    /\ replies \in Seq(Reply)
    /\ posted \in Seq([reply : DOMAIN replies, name : {"readyRead", "finished"}])
    /\ document \in {NoDocument} \cup [book : Books, href : Paths, content : Contents,
                                        refs : SUBSET Reference]
    /\ loaded \in BOOLEAN
    /\ calls \in 0 .. MaxCalls

(* The document in the frame is an item of the book the reader has open,    *)
(* with the content that book's container has for it: a book chosen in      *)
(* LoadFile while replies of the last one are on their way mixes nothing.   *)
FrameShowsBook ==
    document # NoDocument =>
        /\ document.book = book /\ document.href \in Hrefs(book)
        /\ BasePath[book] \o document.href \in Archive[book] =>
              document.content = [book |-> book, path |-> BasePath[book] \o document.href]

(* Where a reference of a document leads in the container, if it does not   *)
(* climb above its root.                                                    *)
FullPath(b, href)       == BasePath[b] \o href
ClimbsTo(b, href, ref)  == Len(FullPath(b, href)) - 1 - ref.up
Referred(b, href, ref)  == SubSeq(FullPath(b, href), 1, ClimbsTo(b, href, ref)) \o ref.path

Finds(r) == r.content = [book |-> r.by, path |-> Referred(r.by, r.href, r.ref)]

(* What a document refers to below its package's directory is found: the    *)
(* reader's getItemUrl, WebKit's resolution and createRequest's relative    *)
(* path together come out where the reference leads in the container, and   *)
(* in the book of the document, whatever is opened meanwhile.               *)
ReferencesAreFound ==
    \A k \in DOMAIN replies :
        LET r == replies[k] IN
        (/\ r.ref # NoReference
         /\ r.ref.up < Len(r.href)
         /\ Referred(r.by, r.href, r.ref) \in Archive[r.by]) => Finds(r)

(* openContentUrl, which resolves a URL against its source file by itself,  *)
(* comes to the item WebKit would come to, if the URL names a file: one     *)
(* that is only a fragment of its source finds none.                        *)
NamesFile(ref) == ref.path # <<"">>

LinksLeadToItems ==
    [][book # NoBook => \A link \in Links[book] :
         /\ NamesFile(link.ref) /\ link.ref.up < Len(link.source)
         /\ OpenContentUrl(link)
         => \A target \in Hrefs(book) :
               target = Resolve(link.source, link.ref) => asked' = target]_vars

(* The same of the whole container: the comment at DREpubInterface.cpp:140  *)
(* has only "host skeleton and js files" leave for the network.  It is      *)
(* false, see the README.                                                   *)
ContainerFilesAreFound ==
    \A k \in DOMAIN replies :
        LET r == replies[k] IN
        (/\ r.ref # NoReference
         /\ ClimbsTo(r.by, r.href, r.ref) >= 0
         /\ Referred(r.by, r.href, r.ref) \in Archive[r.by]) => Finds(r)

(* A load event that has not come is on its way.  With no document in the   *)
(* frame, one is asked for or the first data of its reply are still in the  *)
(* event queue; and a reply the load event waits for is the network's, or   *)
(* its end is still in the queue.                                           *)
IsDocument(r) == r.live /\ r.ref = NoReference

FirstData == [reply : {k \in DOMAIN replies : IsDocument(replies[k])}, name : {"readyRead"}]

LoadIsOnItsWay ==
    /\ book # NoBook /\ document = NoDocument =>
          asked # NoHref \/ \E n \in DOMAIN posted : posted[n] \in FirstData
    /\ \A k \in DOMAIN replies :
          replies[k].live /\ ~replies[k].done =>
             \/ replies[k].content = HostContent
             \/ \E n \in DOMAIN posted : posted[n] = [reply |-> k, name |-> "finished"]

(* What is still to come before that: signals, the answers of the network,  *)
(* requests for what the document refers to, with two signals each, and the *)
(* load event itself.                                                       *)
AtNetwork == {r \in Reply : r.content = HostContent /\ ~r.done}

Work == Len(posted) + HowMany(replies, AtNetwork)
        + (IF document = NoDocument THEN 0 ELSE 3 * Cardinality(document.refs))
        + (IF loaded THEN 0 ELSE 1)

(* Every step of the event loop gets nearer to the load event: it asks for  *)
(* the document, or puts the first data of the document in the frame, or    *)
(* leaves less to come.  A document can refer to a thousand files, and so   *)
(* can the next, but they end.                                              *)
EventLoopRunsDown ==
    [][EventLoop =>
         \/ asked # NoHref /\ asked' = NoHref
         \/ /\ asked' = asked
            /\ \/ HowMany(posted', FirstData') < HowMany(posted, FirstData)
               \/ /\ HowMany(posted', FirstData') = HowMany(posted, FirstData)
                  /\ Work' < Work]_vars

(* Left alone, the frame fires the load event the reader waits for, for a   *)
(* file missing from the book too.                                          *)
EventuallyLoaded == <>[](book = NoBook \/ loaded)
=============================================================================
