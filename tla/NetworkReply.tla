---------------------------- MODULE NetworkReply ----------------------------
(***************************************************************************)
(* DRNetworkReply (DREpubInterface.cpp): a file already in memory, given   *)
(* out as if it came from a network.  Both its signals are posted when its *)
(* content is set; bytes leave through QIODevice, whose buffer holds what  *)
(* was read from the reply but only looked at.                             *)
(***************************************************************************)
EXTENDS Naturals, Sequences

CONSTANTS
    Byte,
    Contents,   \* what replies may hold
    MaxPeek     \* the bytes WebKit looks at to find what a content is

ASSUME ReplyAssumption == Contents \subseteq Seq(Byte) /\ MaxPeek \in Nat

VARIABLES
    content,    \* of the reply
    offset,     \* how much of it has been read by QIODevice
    buffer,     \* read, but not given to the reader of the reply
    posted,     \* the signals of the reply in Qt's event queue
    reader,     \* what WebKit, the reader, is doing
    delivered   \* the bytes given to it

vars == <<content, offset, buffer, posted, reader, delivered>>

-----------------------------------------------------------------------------
(* Bytes there are to read: in the reply, and in QIODevice's buffer.        *)
bytesAvailable_NotBuffered == Len(content) - offset

bytesAvailable == Len(content) - offset + Len(buffer)

(* readData has as much as asked for, or as there is: nothing in the end.   *)
LesserOf(a, b) == IF a <= b THEN a ELSE b

number(maxSize) == LesserOf(maxSize, Len(content) - offset)

readData_FromStart(maxSize) == SubSeq(content, 1, number(maxSize))

readData(maxSize) == SubSeq(content, offset + 1, offset + number(maxSize))

NewOffset_Asked(maxSize) == offset + maxSize

NewOffset(maxSize) == offset + number(maxSize)

(* QIODevice takes from its buffer first, and the rest from readData.       *)
FromBuffer(n) == SubSeq(buffer, 1, LesserOf(n, Len(buffer)))
LeftBehind(n) == SubSeq(buffer, n + 1, Len(buffer))
Wanted(n)     == n - Len(FromBuffer(n))
Bytes(n)      == FromBuffer(n) \o readData(Wanted(n))

-----------------------------------------------------------------------------
Init == /\ content = <<>> /\ offset = 0
        /\ buffer = <<>>
        /\ posted = <<>>
        /\ reader = "no reply"
        /\ delivered = <<>>

(* createRequest makes the reply, with a content that may be empty, and     *)
(* WebKit connects to its signals.                                          *)
setContent_ToldOnce(data) ==
    /\ content' = data
    /\ offset' = 0
    /\ posted' = <<"readyRead">>

setContent(data) ==
    /\ content' = data
    /\ offset' = 0
    /\ posted' = <<"readyRead", "finished">>

createRequest == /\ reader = "no reply"
                 /\ \E data \in Contents : setContent(data)
                 /\ reader' = "waiting"
                 /\ UNCHANGED <<buffer, delivered>>

(* A signal is delivered when no slot runs; a reader that has turned away   *)
(* is told nothing.                                                         *)
EmitReadyRead == /\ posted # <<>> /\ Head(posted) = "readyRead"
                 /\ reader # "reading"
                 /\ posted' = Tail(posted)
                 /\ reader' = IF reader = "waiting" THEN "reading" ELSE reader
                 /\ UNCHANGED <<content, offset, buffer, delivered>>

EmitFinished == /\ posted # <<>> /\ Head(posted) = "finished"
                /\ reader # "reading"
                /\ posted' = Tail(posted)
                /\ reader' = IF reader = "waiting" THEN "finished" ELSE reader
                /\ UNCHANGED <<content, offset, buffer, delivered>>

(* WebKit looks at the first bytes for the type of the content: they are    *)
(* read, and put back into the buffer.                                      *)
Peek(n) == /\ reader = "reading"
           /\ buffer' = Bytes(n) \o LeftBehind(n)
           /\ offset' = NewOffset(Wanted(n))
           /\ UNCHANGED <<content, posted, reader, delivered>>

(* It reads what is available, all at once or in pieces, and returns.       *)
Read(n) == /\ reader = "reading"
           /\ delivered' = delivered \o Bytes(n)
           /\ buffer' = LeftBehind(n)
           /\ offset' = NewOffset(Wanted(n))
           /\ UNCHANGED <<content, posted, reader>>

ReturnFromSlot == /\ reader = "reading"
                  /\ bytesAvailable = 0
                  /\ reader' = "waiting"
                  /\ UNCHANGED <<content, offset, buffer, posted, delivered>>

(* abort does nothing; it is WebKit that stops listening.                   *)
abort == /\ reader \in {"waiting", "reading"}
         /\ reader' = "aborted"
         /\ UNCHANGED <<content, offset, buffer, posted, delivered>>

PeekSome == \E n \in 1 .. MaxPeek : Peek(n)
ReadSome == \E n \in 1 .. bytesAvailable : Read(n)

EventLoop == EmitReadyRead \/ EmitFinished

Next == \/ createRequest \/ EventLoop
        \/ PeekSome \/ ReadSome \/ ReturnFromSlot
        \/ abort

Spec == Init /\ [][Next]_vars

(* Qt's event loop never stops, and a slot that runs gets on with it.       *)
FairSpec == Spec /\ WF_vars(EventLoop) /\ WF_vars(ReadSome) /\ WF_vars(ReturnFromSlot)

-----------------------------------------------------------------------------
(* The type invariant.                                                      *)
Readers == {"no reply", "waiting", "reading", "finished", "aborted"}

TypeOK ==
    /\ content \in Seq(Byte)
    /\ offset \in 0 .. Len(content)
    /\ buffer \in Seq(Byte)
    /\ posted \in Seq({"readyRead", "finished"})
    /\ reader \in Readers
    /\ delivered \in Seq(Byte)

(* bytesAvailable tells the truth: what is delivered and what is available  *)
(* make up the content, so the reader who reads until none is available     *)
(* leaves none behind, however it looked at them first.                     *)
AllAccountedFor == delivered \o buffer \o SubSeq(content, offset + 1, Len(content)) = content

(* The reply is a stream (ByteStream) to its reader: in order, once, and    *)
(* told finished when it has all.                                           *)
Stream == INSTANCE ByteStream WITH source <- content, sent <- delivered,
                                   ended <- reader = "finished"
IsAStream == Stream!StreamSpec

(* A reply is told to be finished unless it is aborted, an empty one too.   *)
EventuallyFinished == reader = "waiting" ~> reader \in {"finished", "aborted"}
=============================================================================
