------------------------------ MODULE Launcher ------------------------------
(***************************************************************************)
(* The native half (DREpubInterface.cpp, sdkHelper.cpp) and the frame its  *)
(* replies fill: LoadFile opens a book under the page's feet, every URL of *)
(* the page goes through createRequest, and a DRNetworkReply is read only  *)
(* after its signals have gone through Qt's event loop.                    *)
(*                                                                         *)
(* The frame stands for the reflowable view's iframe: Reader.tla has what  *)
(* is asked of it, and takes for granted that every navigation ends in a   *)
(* load event.  Here that is a property.                                   *)
(*                                                                         *)
(* A path is the sequence of its names, "" the one before a leading slash. *)
(***************************************************************************)
EXTENDS Naturals, Sequences, FiniteSets

CONSTANTS
    Names,      \* of files and directories
    Books,      \* the EPUB files there are to open
    BasePath,   \* of each book, the directory of its package document
    Archive,    \* of each book, the paths in its container
    Spine,      \* of each book, the hrefs of its spine items
    References, \* of each book and path in its container, what the file refers to
    Links,      \* of each book, URLs to open, with the href of the file each is relative to
    Mangled,    \* of each name that is not ASCII, what its UTF-8 reads as in Latin-1
    MaxCalls    \* bound: files loaded and items opened in a behaviour

Paths == Seq(Names)

(* A relative reference: how many directories up, and the path from there.  *)
Reference == [up : Nat, path : Paths]

NoReference == [up |-> 0, path |-> <<>>]

(* CallJS_OpenBook makes a QString of the package's bytes: every byte a     *)
(* character, so a name beyond ASCII is another name to the page.           *)
fromAscii(path) ==
    [i \in DOMAIN path |-> IF path[i] \in DOMAIN Mangled THEN Mangled[path[i]] ELSE path[i]]

(* The hrefs of a book's items as the page has them.                        *)
Hrefs(b) == {fromAscii(Spine[b][i]) : i \in DOMAIN Spine[b]}

REDIRECT_PATH == "epubVirtual"

ASSUME LauncherAssumption ==
    /\ {"res", "host_app", REDIRECT_PATH} \subseteq Names
    /\ BasePath \in [Books -> Paths]
    /\ Archive \in [Books -> SUBSET Paths]
    /\ Spine \in [Books -> Seq(Paths)]
    /\ \A b \in Books : Spine[b] # <<>> /\ \A i \in DOMAIN Spine[b] : Spine[b][i] # <<>>
    /\ \A b \in Books : References[b] \in [Archive[b] -> SUBSET (Reference \ {NoReference})]
    /\ \A b \in Books : \A path \in Archive[b] : IsFiniteSet(References[b][path])
    /\ \A b \in Books : Links[b] \subseteq [source : Paths \ {<<>>}, ref : Reference]
    /\ Mangled \in [DOMAIN Mangled -> Names]
    /\ MaxCalls \in Nat

NoBook     == "no book"
NoHref     == <<>>
NoDocument == [href |-> NoHref]
ASSUME NoBookAssumption == NoBook \notin Books

VARIABLES
    m_pckg,     \* the package the SDK has open
    book,       \* the book the reader has open
    dialog,     \* is LoadFile waiting for its file dialog
    asked,      \* the href the frame's src was last set to, until it is requested
    replies,    \* every reply made: whose it is, what it holds, whether it is listened to
    posted,     \* the signals in Qt's event queue
    document,   \* the document in the frame
    loaded,     \* has it fired its load event
    calls

vars == <<m_pckg, book, dialog, asked, replies, posted, document, loaded, calls>>

-----------------------------------------------------------------------------
(* URLs.  myReader.html is in HostDir, and rootUrl is relative to it.       *)
HostDir == <<"res", "host_app">>
RootUrl == HostDir \o <<REDIRECT_PATH>>

getItemUrl(href) == RootUrl \o href

Resolve(url, ref) == SubSeq(url, 1, Len(url) - 1 - ref.up) \o ref.path

(* Back from the directory of the source file as often as it has one.       *)
ResolveContentRef_FromFile(ref, source) ==
    IF ref.up < Len(source) THEN SubSeq(source, 1, Len(source) - ref.up) \o ref.path
    ELSE [i \in 1 .. ref.up - Len(source) |-> ".."] \o ref.path

ResolveContentRef(ref, source) ==
    LET depth == Len(source) - 1 IN
    IF ref.up <= depth THEN SubSeq(source, 1, depth - ref.up) \o ref.path
    ELSE [i \in 1 .. ref.up - depth |-> ".."] \o ref.path

(* createRequest.                                                           *)
contains(path)   == \E i \in DOMAIN path : path[i] = REDIRECT_PATH
indexOf(path)    == CHOOSE i \in DOMAIN path :
                        path[i] = REDIRECT_PATH /\ \A j \in 1 .. i - 1 : path[j] # REDIRECT_PATH
isHostPath(path) == Len(path) > 2 /\ SubSeq(path, 1, 2) = HostDir

Forwards(path) == ~contains(path) /\ (m_pckg = NoBook \/ isHostPath(path))

relativePath_WithSlash(path) ==
    <<"">> \o (IF contains(path) THEN SubSeq(path, indexOf(path) + 1, Len(path)) ELSE Tail(path))

(* The four characters cut from a path below /res leave the next slash;     *)
(* from any other path they cut as blindly.  No container has such a path.  *)
relativePath(path) ==
    IF contains(path) THEN SubSeq(path, indexOf(path) + 1, Len(path)) ELSE <<"">> \o Tail(path)

(* What a reply holds: a file of a book, nothing, or what the network has.  *)
NoContent   == [book |-> NoBook, path |-> <<>>]
HostContent == [book |-> NoBook, path |-> HostDir]
Contents    == [book : Books, path : Paths] \cup {NoContent, HostContent}

getContent(relative) ==
    LET path == BasePath[m_pckg] \o relative IN
    IF path \in Archive[m_pckg] THEN [book |-> m_pckg, path |-> path] ELSE NoContent

-----------------------------------------------------------------------------
(* A reply: the book and document that asked for it, by which reference if  *)
(* not as the frame's own document, what it holds, whether anyone listens.  *)
Reply == [by : Books, href : Paths, ref : Reference, content : Contents,
          live : BOOLEAN, done : BOOLEAN]

(* setContent posts both signals at once, for an empty content too.         *)
setContent_OnlyIfFound(k, content) ==
    IF content = NoContent THEN posted
    ELSE posted \o <<[reply |-> k, name |-> "readyRead"], [reply |-> k, name |-> "finished"]>>

setContent_NextReply(k, content) ==
    posted \o <<[reply |-> k + 1, name |-> "readyRead"], [reply |-> k + 1, name |-> "finished"]>>

setContent_ToldTwice(k, content) ==
    posted \o <<[reply |-> k, name |-> "readyRead"], [reply |-> k, name |-> "readyRead"],
                [reply |-> k, name |-> "finished"]>>

setContent(k, content) ==
    posted \o <<[reply |-> k, name |-> "readyRead"], [reply |-> k, name |-> "finished"]>>

(* The package is read there and then; a reply forwarded is the network's.  *)
createRequest(listening, by, href, ref, url) ==
    LET content == IF Forwards(url) THEN HostContent ELSE getContent(relativePath(url))
    IN  /\ replies' = Append(listening, [by |-> by, href |-> href, ref |-> ref,
                                         content |-> content, live |-> TRUE, done |-> FALSE])
        /\ posted' = IF Forwards(url) THEN posted ELSE setContent(Len(replies) + 1, content)

(* abort does nothing: the signals still come, to no one.                   *)
Aborted == [k \in DOMAIN replies |-> [replies[k] EXCEPT !.live = FALSE]]

-----------------------------------------------------------------------------
Init ==
    /\ m_pckg = NoBook
    /\ book = NoBook
    /\ dialog = FALSE
    /\ asked = NoHref
    /\ replies = <<>>
    /\ posted = <<>>
    /\ document = NoDocument
    /\ loaded = FALSE
    /\ calls = 0

Call == calls < MaxCalls /\ calls' = calls + 1

(* LoadFile waits in a nested event loop for its modal dialog: the signals  *)
(* go on being delivered, the buttons of the page are out of reach.         *)
LoadFile == /\ Call
            /\ ~dialog
            /\ dialog' = TRUE
            /\ UNCHANGED <<m_pckg, book, asked, replies, posted, document, loaded>>

CancelDialog == /\ dialog
                /\ dialog' = FALSE
                /\ UNCHANGED <<m_pckg, book, asked, replies, posted, document, loaded, calls>>

(* openBook removes the view, its frame included, and opens the first item. *)
openBook_KeepingView(b) ==
    /\ book' = b
    /\ asked' = fromAscii(Spine[b][1])
    /\ UNCHANGED <<replies, document, loaded>>

openBook(b) ==
    /\ book' = b
    /\ replies' = Aborted
    /\ document' = NoDocument
    /\ asked' = fromAscii(Spine[b][1])
    /\ loaded' = FALSE

ChooseFile(b) == /\ dialog
                 /\ dialog' = FALSE
                 /\ m_pckg' = b
                 /\ openBook(b)
                 /\ UNCHANGED <<posted, calls>>

(* The reader opens an item: loadSpineItem sets the frame's src.            *)
OpenItem == /\ Call
            /\ ~dialog
            /\ book # NoBook
            /\ \E i \in DOMAIN Spine[book] : asked' = fromAscii(Spine[book][i])
            /\ loaded' = FALSE
            /\ UNCHANGED <<m_pckg, book, dialog, replies, posted, document>>

(* The item of a URL in the package, if it is one.                          *)
OpenContentUrl(link) ==
    LET href == ResolveContentRef(link.ref, link.source) IN
    /\ Call
    /\ ~dialog
    /\ IF href \in Hrefs(book) THEN asked' = href /\ loaded' = FALSE
                               ELSE UNCHANGED <<asked, loaded>>
    /\ UNCHANGED <<m_pckg, book, dialog, replies, posted, document>>

OpenLink == book # NoBook /\ \E link \in Links[book] : OpenContentUrl(link)

(* The frame starts a navigation, and stops what it was loading.            *)
RequestDocument ==
    /\ asked # NoHref
    /\ createRequest(Aborted, book, asked, NoReference, getItemUrl(asked))
    /\ asked' = NoHref
    /\ document' = IF document = NoDocument THEN NoDocument ELSE [document EXCEPT !.refs = {}]
    /\ UNCHANGED <<m_pckg, book, dialog, loaded, calls>>

(* The document in the frame asks for something it refers to.               *)
RequestReference ==
    /\ document # NoDocument
    /\ \E ref \in document.refs :
          /\ createRequest(replies, document.book, document.href, ref,
                           Resolve(getItemUrl(document.href), ref))
          /\ document' = [document EXCEPT !.refs = document.refs \ {ref}]
    /\ UNCHANGED <<m_pckg, book, dialog, asked, loaded, calls>>

(* Qt delivers a signal.  The first data of a navigation replace the        *)
(* document in the frame; an empty document refers to nothing.              *)
Delivers(k, name) ==
    /\ replies' = IF name = "finished" THEN [replies EXCEPT ![k].done = TRUE] ELSE replies
    /\ document' =
          IF name = "readyRead" /\ replies[k].live /\ replies[k].ref = NoReference
          THEN [book |-> replies[k].by, href |-> replies[k].href, content |-> replies[k].content,
                refs |-> IF replies[k].content.book \in Books
                         THEN References[replies[k].content.book][replies[k].content.path]
                         ELSE {}]
          ELSE document

EmitSignal == /\ posted # <<>>
              /\ Delivers(Head(posted).reply, Head(posted).name)
              /\ posted' = Tail(posted)
              /\ UNCHANGED <<m_pckg, book, dialog, asked, loaded, calls>>

(* The network answers a request forwarded to it.                           *)
NetworkAnswers ==
    \E k \in DOMAIN replies :
        /\ replies[k].content = HostContent /\ ~replies[k].done
        /\ replies' = [replies EXCEPT ![k].done = TRUE]
        /\ UNCHANGED <<m_pckg, book, dialog, asked, posted, document, loaded, calls>>

FireLoad == /\ ~loaded
            /\ asked = NoHref
            /\ document # NoDocument
            /\ document.refs = {}
            /\ \A k \in DOMAIN replies : replies[k].live => replies[k].done
            /\ loaded' = TRUE
            /\ UNCHANGED <<m_pckg, book, dialog, asked, replies, posted, document, calls>>

EventLoop == RequestDocument \/ RequestReference \/ EmitSignal \/ NetworkAnswers \/ FireLoad

Next == \/ LoadFile \/ CancelDialog
        \/ \E b \in Books : ChooseFile(b)
        \/ OpenItem \/ OpenLink
        \/ EventLoop

Spec == Init /\ [][Next]_vars

(* Qt's event loop never stops, the dialog's nested one included, and       *)
(* neither does WebKit.                                                     *)
FairSpec == Spec /\ WF_vars(EventLoop)
=============================================================================
