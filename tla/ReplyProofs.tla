----------------------------- MODULE ReplyProofs -----------------------------
(***************************************************************************)
(* Proofs that a network reply is a stream, whatever it holds and however  *)
(* its reader looks at it and reads it, and that it comes to its end.      *)
(***************************************************************************)
EXTENDS NetworkReply, SequenceTheorems, TLAPS

(* Concatenation and parts of sequences under names of their own, for the   *)
(* provers to take as they are.                                             *)
Cat(s, t)     == s \o t
Part(s, a, b) == SubSeq(s, a, b)

(* What Qt's event queue may hold of a reply's signals.                     *)
Both == <<"readyRead", "finished">>
Last == <<"finished">>
None == <<>>

(* The part of the content not read yet.                                    *)
Rest(k) == Part(content, k + 1, Len(content))

(* The inductive invariant: the bytes add up; there are none before there   *)
(* is a reply; a reader told of the data, and back, has them all.           *)
IInv ==
    /\ TypeOK
    /\ Cat(Cat(delivered, buffer), Rest(offset)) = content
    /\ posted \in {None, Both, Last}
    /\ reader = "no reply" => posted = None /\ delivered = <<>> /\ buffer = <<>>
    /\ reader = "reading" => posted = Last
    /\ reader = "waiting" => \/ posted = Both
                             \/ posted = Last /\ delivered = content
    /\ reader = "finished" => delivered = content

-----------------------------------------------------------------------------
(* Parts of sequences.                                                      *)
LEMMA PartType ==
    ASSUME NEW s \in Seq(Byte), NEW a \in Nat, a > 0, NEW b \in Nat, b <= Len(s)
    PROVE  /\ Part(s, a, b) \in Seq(Byte)
           /\ Len(Part(s, a, b)) = IF a <= b THEN b - a + 1 ELSE 0
<1>1. \A i \in a .. b : s[i] \in Byte  BY ElementOfSeq, LenProperties
<1> QED  BY <1>1, SubSeqProperties DEF Part

LEMMA PartsJoin ==
    ASSUME NEW s \in Seq(Byte), NEW a \in Nat, a > 0, NEW b \in Nat, a <= b + 1, b <= Len(s)
    PROVE  Cat(Part(s, a, b), Part(s, b + 1, Len(s))) = Part(s, a, Len(s))
<1>1. /\ Len(s) \in Nat /\ a \in 1 .. Len(s) + 1 /\ b \in a - 1 .. Len(s)
      /\ Len(s) \in b .. Len(s)
  BY LenProperties
<1> QED  BY <1>1, ConcatAdjacentSubSeq DEF Cat, Part

LEMMA WholePart == \A s \in Seq(Byte) : Part(s, 1, Len(s)) = s
BY SubSeqFull DEF Part

LEMMA EmptyPart ==
    ASSUME NEW s, NEW a \in Int, NEW b \in Int, b < a
    PROVE  Part(s, a, b) = <<>>
BY SubSeqEmpty DEF Part

LEMMA CatType == \A s, t \in Seq(Byte) : Cat(s, t) \in Seq(Byte)
BY ConcatProperties DEF Cat

LEMMA CatEmpty == \A s \in Seq(Byte) : Cat(s, <<>>) = s /\ Cat(<<>>, s) = s
BY ConcatEmptySeq DEF Cat

LEMMA CatAssociative ==
    \A s, t, u \in Seq(Byte) : Cat(Cat(s, t), u) = Cat(s, Cat(t, u))
BY ConcatAssociative DEF Cat

LEMMA Nothing == <<>> \in Seq(Byte)
BY EmptySeq

(* The operators of the reply.                                              *)
LEMMA Operators ==
    ASSUME NEW n
    PROVE  /\ FromBuffer(n) = Part(buffer, 1, LesserOf(n, Len(buffer)))
           /\ LeftBehind(n) = Part(buffer, n + 1, Len(buffer))
           /\ readData(n) = Part(content, offset + 1, offset + number(n))
           /\ Bytes(n) = Cat(FromBuffer(n), readData(Wanted(n)))
BY DEF FromBuffer, LeftBehind, readData, Bytes, Cat, Part

LEMMA TypeFacts ==
    ASSUME TypeOK
    PROVE  /\ content \in Seq(Byte) /\ buffer \in Seq(Byte) /\ delivered \in Seq(Byte)
           /\ Len(content) \in Nat /\ Len(buffer) \in Nat
           /\ offset \in Nat /\ offset <= Len(content)
BY LenProperties DEF TypeOK

LEMMA RestType ==
    ASSUME TypeOK, NEW k \in Nat, k <= Len(content)
    PROVE  Rest(k) \in Seq(Byte)
BY TypeFacts, PartType DEF Rest

(* QIODevice takes n bytes, or those there are: what it gives, what it      *)
(* leaves in its buffer and what it leaves in the reply is what there was.  *)
LEMMA TakeBytes ==
    ASSUME TypeOK, NEW n \in Nat
    PROVE  /\ Bytes(n) \in Seq(Byte) /\ LeftBehind(n) \in Seq(Byte)
           /\ NewOffset(Wanted(n)) \in Nat /\ NewOffset(Wanted(n)) <= Len(content)
           /\ Cat(Cat(Bytes(n), LeftBehind(n)), Rest(NewOffset(Wanted(n))))
                = Cat(buffer, Rest(offset))
<1> DEFINE got == readData(Wanted(n))
           new == NewOffset(Wanted(n))
<1>1. CASE n <= Len(buffer)
  <2>1. FromBuffer(n) = Part(buffer, 1, n)  BY <1>1, Operators DEF LesserOf
  <2>2. FromBuffer(n) \in Seq(Byte) /\ Len(FromBuffer(n)) = n
    BY <1>1, <2>1, TypeFacts, PartType
  <2>3. Wanted(n) = 0  BY <2>2 DEF Wanted
  <2>4. number(0) = 0  BY TypeFacts DEF number, LesserOf
  <2>5. new = offset  BY <2>3, <2>4, TypeFacts DEF NewOffset
  <2>6. got = Part(content, offset + 1, offset)  BY <2>3, <2>4, Operators, TypeFacts
  <2>7. got = <<>>  BY <2>6, TypeFacts, EmptyPart
  <2>8. Bytes(n) = FromBuffer(n)  BY <2>2, <2>7, CatEmpty, Operators
  <2>9. LeftBehind(n) = Part(buffer, n + 1, Len(buffer)) /\ LeftBehind(n) \in Seq(Byte)
    BY Operators, TypeFacts, PartType
  <2>10. Cat(Part(buffer, 1, n), Part(buffer, n + 1, Len(buffer))) = Part(buffer, 1, Len(buffer))
    BY <1>1, TypeFacts, PartsJoin
  <2>11. Cat(Bytes(n), LeftBehind(n)) = buffer
    BY <2>1, <2>8, <2>9, <2>10, WholePart, TypeFacts
  <2> QED  BY <2>2, <2>5, <2>8, <2>9, <2>11, TypeFacts
<1>2. CASE n > Len(buffer)
  <2>1. FromBuffer(n) = buffer
    <3>1. FromBuffer(n) = Part(buffer, 1, Len(buffer))
      BY <1>2, TypeFacts, Operators DEF LesserOf
    <3> QED  BY <3>1, TypeFacts, WholePart
  <2>2. LeftBehind(n) = <<>>  BY <1>2, TypeFacts, EmptyPart, Operators
  <2>3. PICK w \in Nat : w = Wanted(n)  BY <1>2, <2>1, TypeFacts DEF Wanted
  <2>4. PICK b \in Nat : b = offset + number(w) /\ offset <= b /\ b <= Len(content)
    BY <2>3, TypeFacts DEF number, LesserOf
  <2>5. PICK a \in Nat : a = offset + 1  BY TypeFacts
  <2>6. new = b  BY <2>3, <2>4 DEF NewOffset
  <2>7. got = Part(content, a, b)  BY <2>3, <2>4, <2>5, Operators
  <2>8. Rest(offset) = Part(content, a, Len(content))  BY <2>5 DEF Rest
  <2>9. Rest(new) = Part(content, b + 1, Len(content))  BY <2>6 DEF Rest
  <2>10. Cat(Part(content, a, b), Part(content, b + 1, Len(content)))
           = Part(content, a, Len(content))
    BY <2>4, <2>5, TypeFacts, PartsJoin
  <2>11. got \in Seq(Byte) /\ Rest(new) \in Seq(Byte)
    BY <2>4, <2>5, <2>6, <2>7, TypeFacts, PartType, RestType
  <2>12. Bytes(n) = Cat(buffer, got)  BY <2>1, Operators
  <2>13. Bytes(n) \in Seq(Byte)  BY <2>11, <2>12, TypeFacts, CatType
  <2>14. Cat(Bytes(n), LeftBehind(n)) = Bytes(n)  BY <2>2, <2>13, CatEmpty
  <2>15. Cat(Cat(buffer, got), Rest(new)) = Cat(buffer, Cat(got, Rest(new)))
    BY <2>11, TypeFacts, CatAssociative
  <2>16. Cat(got, Rest(new)) = Rest(offset)  BY <2>7, <2>8, <2>9, <2>10
  <2>17. Cat(Cat(Bytes(n), LeftBehind(n)), Rest(new)) = Cat(buffer, Rest(offset))
    BY <2>12, <2>14, <2>15, <2>16
  <2> QED  BY <2>2, <2>4, <2>6, <2>13, <2>17, Nothing
<1> QED  BY <1>1, <1>2, TypeFacts

-----------------------------------------------------------------------------
LEMMA Signals ==
    /\ Both # <<>> /\ Last # <<>> /\ None = <<>>
    /\ Head(Both) = "readyRead" /\ Head(Last) = "finished"
    /\ Tail(Both) = Last /\ Tail(Last) = None
BY DEF Both, Last, None

LEMMA SignalType == \A p \in {None, Both, Last} : p \in Seq({"readyRead", "finished"})
<1>1. /\ None \in Seq({"readyRead", "finished"})  BY EmptySeq DEF None
<1>2. Both \in Seq({"readyRead", "finished"})  BY DEF Both
<1>3. Last \in Seq({"readyRead", "finished"})  BY DEF Last
<1> QED  BY <1>1, <1>2, <1>3

LEMMA InitIInv == Init => IInv
<1> SUFFICES ASSUME Init PROVE IInv  OBVIOUS
<1>1. /\ content = <<>> /\ delivered = <<>> /\ buffer = <<>> /\ offset = 0
      /\ posted = None /\ reader = "no reply"
  BY DEF Init, None
<1>2. Len(content) = 0  BY <1>1, EmptySeq
<1>3. TypeOK
  <2>1. posted \in Seq({"readyRead", "finished"})  BY <1>1, SignalType
  <2>2. offset \in 0 .. Len(content) /\ reader \in Readers
    <3>1. offset = 0 /\ reader = "no reply"  BY <1>1
    <3>2. 0 \in 0 .. 0  OBVIOUS
    <3>3. offset \in 0 .. Len(content)  BY <1>2, <3>1, <3>2, Zenon
    <3>4. reader \in Readers  BY <3>1 DEF Readers
    <3> QED  BY <3>3, <3>4
  <2>3. content \in Seq(Byte) /\ buffer \in Seq(Byte) /\ delivered \in Seq(Byte)
    BY <1>1, Nothing
  <2> QED  BY <2>1, <2>2, <2>3 DEF TypeOK
<1>4. Rest(offset) = <<>>
  <2>1. offset = 0  BY <1>1
  <2>2. PICK k \in Nat : k = offset + 1 /\ 0 < k  BY <2>1
  <2>3. Rest(offset) = Part(content, k, 0)  BY <1>2, <2>2 DEF Rest
  <2> QED  BY <2>2, <2>3, EmptyPart
<1>5. Cat(Cat(<<>>, <<>>), <<>>) = <<>>  BY Nothing, CatEmpty
<1> QED  BY <1>1, <1>3, <1>4, <1>5 DEF IInv

(* Looking at bytes and reading them keep the account.                      *)
LEMMA PeekIInv ==
    ASSUME IInv, NEW n \in Nat, Peek(n)
    PROVE  IInv'
<1>1. /\ reader = "reading" /\ buffer' = Cat(Bytes(n), LeftBehind(n))
      /\ offset' = NewOffset(Wanted(n)) /\ content' = content /\ posted' = posted
      /\ reader' = reader /\ delivered' = delivered
  BY DEF Peek, Cat
<1>2. TypeOK /\ Cat(Cat(delivered, buffer), Rest(offset)) = content  BY DEF IInv
<1>3. /\ Bytes(n) \in Seq(Byte) /\ LeftBehind(n) \in Seq(Byte)
      /\ offset' \in Nat /\ offset' <= Len(content)
      /\ Cat(buffer', Rest(offset')) = Cat(buffer, Rest(offset))
  BY <1>1, <1>2, TakeBytes
<1>4. buffer' \in Seq(Byte)  BY <1>1, <1>3, CatType
<1>5. TypeOK'  BY <1>1, <1>2, <1>3, <1>4, TypeFacts DEF TypeOK
<1>6. Rest(offset)' = Rest(offset')  BY <1>1 DEF Rest
<1>7. Rest(offset') \in Seq(Byte) /\ Rest(offset) \in Seq(Byte)
  BY <1>2, <1>3, RestType, TypeFacts
<1>8. Cat(Cat(delivered, buffer'), Rest(offset')) = content
  BY <1>2, <1>3, <1>4, <1>7, TypeFacts, CatAssociative
<1> QED  BY <1>1, <1>5, <1>6, <1>8 DEF IInv

LEMMA ReadIInv ==
    ASSUME IInv, NEW n \in Nat, Read(n)
    PROVE  IInv'
<1>1. /\ reader = "reading" /\ delivered' = Cat(delivered, Bytes(n)) /\ buffer' = LeftBehind(n)
      /\ offset' = NewOffset(Wanted(n)) /\ content' = content /\ posted' = posted
      /\ reader' = reader
  BY DEF Read, Cat
<1>2. TypeOK /\ Cat(Cat(delivered, buffer), Rest(offset)) = content  BY DEF IInv
<1>3. /\ Bytes(n) \in Seq(Byte) /\ buffer' \in Seq(Byte)
      /\ offset' \in Nat /\ offset' <= Len(content)
      /\ Cat(Cat(Bytes(n), buffer'), Rest(offset')) = Cat(buffer, Rest(offset))
  BY <1>1, <1>2, TakeBytes
<1>4. delivered' \in Seq(Byte)  BY <1>1, <1>2, <1>3, TypeFacts, CatType
<1>5. TypeOK'  BY <1>1, <1>2, <1>3, <1>4, TypeFacts DEF TypeOK
<1>6. Rest(offset)' = Rest(offset')  BY <1>1 DEF Rest
<1>7. Rest(offset') \in Seq(Byte) /\ Rest(offset) \in Seq(Byte) /\ Cat(Bytes(n), buffer') \in Seq(Byte)
  BY <1>2, <1>3, RestType, TypeFacts, CatType
<1>8. Cat(Cat(delivered, Bytes(n)), buffer') = Cat(delivered, Cat(Bytes(n), buffer'))
  BY <1>2, <1>3, TypeFacts, CatAssociative
<1>9. Cat(Cat(delivered, Cat(Bytes(n), buffer')), Rest(offset'))
        = Cat(delivered, Cat(Cat(Bytes(n), buffer'), Rest(offset')))
  BY <1>2, <1>7, TypeFacts, CatAssociative
<1>10. Cat(delivered, Cat(buffer, Rest(offset))) = content
  BY <1>2, <1>7, TypeFacts, CatAssociative
<1>11. Cat(Cat(delivered', buffer'), Rest(offset')) = content
  BY <1>1, <1>3, <1>8, <1>9, <1>10
<1> QED  BY <1>1, <1>5, <1>6, <1>11 DEF IInv

(* No bytes available: the reader has them all.                             *)
LEMMA NoneAvailable ==
    ASSUME IInv, bytesAvailable = 0
    PROVE  delivered = content
<1>1. TypeOK /\ Cat(Cat(delivered, buffer), Rest(offset)) = content  BY DEF IInv
<1>2. Len(buffer) = 0 /\ offset = Len(content)  BY <1>1, TypeFacts DEF bytesAvailable
<1>3. buffer = <<>>  BY <1>1, <1>2, TypeFacts, EmptySeq
<1>4. Rest(offset) = <<>>  BY <1>1, <1>2, TypeFacts, EmptyPart DEF Rest
<1> QED  BY <1>1, <1>3, <1>4, TypeFacts, CatEmpty

LEMMA StepIInv == IInv /\ [Next]_vars => IInv'
<1> SUFFICES ASSUME IInv, [Next]_vars PROVE IInv'  OBVIOUS
<1>1. CASE createRequest
  <2>1. PICK data \in Seq(Byte) :
           /\ content' = data /\ offset' = 0 /\ posted' = Both
           /\ reader' = "waiting" /\ buffer' = <<>> /\ delivered' = <<>>
    BY <1>1, ReplyAssumption, Signals DEF createRequest, setContent, IInv, Both
  <2>2. Len(data) \in Nat  BY LenProperties
  <2>3. TypeOK'  BY <2>1, <2>2, Nothing, SignalType DEF TypeOK, Readers
  <2>4. Rest(offset)' = Part(data, 1, Len(data))  BY <2>1 DEF Rest
  <2>5. Cat(Cat(<<>>, <<>>), data) = data  BY Nothing, CatEmpty
  <2> QED  BY <2>1, <2>3, <2>4, <2>5, WholePart DEF IInv
<1>2. CASE EmitReadyRead
  <2>1. posted = Both
    <3>1. posted \in {None, Both, Last} /\ posted # <<>> /\ Head(posted) = "readyRead"
      BY <1>2 DEF EmitReadyRead, IInv
    <3>2. posted # None  BY <3>1, Signals
    <3>3. posted # Last  BY <3>1, Signals
    <3> QED  BY <3>1, <3>2, <3>3
  <2>2. posted' = Last
    <3>1. posted' = Tail(posted)  BY <1>2 DEF EmitReadyRead
    <3> QED  BY <2>1, <3>1, Signals, Zenon
  <2>3. /\ content' = content /\ offset' = offset /\ buffer' = buffer /\ delivered' = delivered
        /\ posted = Both /\ posted' = Last
        /\ reader' = (IF reader = "waiting" THEN "reading" ELSE reader) /\ reader # "reading"
    BY <1>2, <2>1, <2>2 DEF EmitReadyRead
  <2>4. TypeOK'  BY <2>3, SignalType DEF TypeOK, IInv, Readers
  <2>5. Rest(offset)' = Rest(offset)  BY <2>3 DEF Rest
  <2> QED  BY <2>3, <2>4, <2>5, Signals DEF IInv
<1>3. CASE EmitFinished
  <2>1. posted = Last
    <3>1. posted \in {None, Both, Last} /\ posted # <<>> /\ Head(posted) = "finished"
      BY <1>3 DEF EmitFinished, IInv
    <3>2. posted # None  BY <3>1, Signals
    <3>3. posted # Both  BY <3>1, Signals
    <3> QED  BY <3>1, <3>2, <3>3
  <2>2. posted' = None
    <3>1. posted' = Tail(posted)  BY <1>3 DEF EmitFinished
    <3> QED  BY <2>1, <3>1, Signals, Zenon
  <2>3. /\ content' = content /\ offset' = offset /\ buffer' = buffer /\ delivered' = delivered
        /\ posted = Last /\ posted' = None
        /\ reader' = (IF reader = "waiting" THEN "finished" ELSE reader) /\ reader # "reading"
    BY <1>3, <2>1, <2>2 DEF EmitFinished
  <2>4. TypeOK'  BY <2>3, SignalType DEF TypeOK, IInv, Readers
  <2>5. Rest(offset)' = Rest(offset)  BY <2>3 DEF Rest
  <2> QED  BY <2>3, <2>4, <2>5, Signals DEF IInv
<1>4. CASE PeekSome
  <2>1. PICK n \in Nat : Peek(n)  BY <1>4, ReplyAssumption DEF PeekSome
  <2> QED  BY <2>1, PeekIInv
<1>5. CASE ReadSome
  <2>1. bytesAvailable \in Int
    <3>1. TypeOK  BY DEF IInv
    <3> QED  BY <3>1, TypeFacts DEF bytesAvailable
  <2>2. PICK n \in Nat : Read(n)  BY <1>5, <2>1 DEF ReadSome
  <2> QED  BY <2>2, ReadIInv
<1>6. CASE ReturnFromSlot
  <2>1. /\ content' = content /\ offset' = offset /\ buffer' = buffer /\ delivered' = delivered
        /\ posted = Last /\ posted' = posted /\ reader' = "waiting"
        /\ delivered = content
    BY <1>6, NoneAvailable DEF ReturnFromSlot, IInv
  <2>2. TypeOK'  BY <2>1 DEF TypeOK, IInv, Readers
  <2>3. Rest(offset)' = Rest(offset)  BY <2>1 DEF Rest
  <2> QED  BY <2>1, <2>2, <2>3 DEF IInv
<1>7. CASE abort
  <2>1. /\ content' = content /\ offset' = offset /\ buffer' = buffer /\ delivered' = delivered
        /\ posted' = posted /\ reader' = "aborted"
    BY <1>7 DEF abort
  <2>2. TypeOK'  BY <2>1 DEF TypeOK, IInv, Readers
  <2>3. Rest(offset)' = Rest(offset)  BY <2>1 DEF Rest
  <2> QED  BY <2>1, <2>2, <2>3 DEF IInv
<1>8. CASE UNCHANGED vars
  BY <1>8 DEF IInv, vars, TypeOK, Rest
<1> QED  BY <1>1, <1>2, <1>3, <1>4, <1>5, <1>6, <1>7, <1>8 DEF Next, EventLoop

(* What every step relies on and keeps: the account of the bytes, and which *)
(* signals are still posted for which reader.                               *)
THEOREM IInvIsInvariant == Spec => []IInv
BY InitIInv, StepIInv, PTL DEF Spec

(* Reply, buffer and reader have their types, whatever the content.         *)
THEOREM TypeCorrect == Spec => []TypeOK
<1>1. IInv => TypeOK  BY DEF IInv
<1> QED  BY <1>1, IInvIsInvariant, PTL

(* No byte is lost between reply, buffer and reader, and none is there      *)
(* twice: bytesAvailable and readData of DRNetworkReply agree with the      *)
(* buffer of QIODevice.                                                     *)
THEOREM BytesAddUp == Spec => []AllAccountedFor
<1>1. IInv => AllAccountedFor  BY DEF IInv, AllAccountedFor, Cat, Part, Rest
<1> QED  BY <1>1, IInvIsInvariant, PTL

-----------------------------------------------------------------------------
(* What is delivered is the content up to some byte.                        *)
LEMMA IsPrefix ==
    ASSUME NEW s \in Seq(Byte), NEW t \in Seq(Byte), NEW c, c = Cat(s, t)
    PROVE  Len(s) <= Len(c) /\ s = SubSeq(c, 1, Len(s))
<1>1. /\ c \in Seq(Byte) /\ Len(c) = Len(s) + Len(t) /\ Len(s) \in Nat /\ Len(t) \in Nat
  BY ConcatProperties, LenProperties DEF Cat
<1>2. CASE s = <<>>
  <2>1. Len(s) = 0  BY <1>2
  <2>2. SubSeq(c, 1, 0) = <<>>  BY SubSeqEmpty
  <2> QED  BY <1>1, <1>2, <2>1, <2>2
<1>3. CASE s # <<>>
  <2>1. 1 \in 1 .. Len(s) /\ Len(s) \in 1 .. Len(s)  BY <1>1, <1>3, EmptySeq
  <2>2. SubSeq(c, 1, Len(s)) = SubSeq(s, 1, Len(s))  BY <2>1, SubSeqOfConcat1 DEF Cat
  <2> QED  BY <1>1, <2>2, SubSeqFull
<1> QED  BY <1>2, <1>3

LEMMA ReadIsSend ==
    ASSUME IInv, NEW n \in Nat, Read(n)
    PROVE  Stream!Send
<1>1. /\ delivered' = Cat(delivered, Bytes(n)) /\ content' = content /\ reader' = reader
      /\ reader = "reading"
  BY DEF Read, Cat
<1>2. TypeOK /\ TypeOK' /\ Cat(Cat(delivered', buffer'), Rest(offset)') = content'
  BY ReadIInv DEF IInv
<1>3. /\ delivered \in Seq(Byte) /\ delivered' \in Seq(Byte) /\ buffer' \in Seq(Byte)
      /\ Bytes(n) \in Seq(Byte)
  BY <1>2, TakeBytes DEF TypeOK
<1>4. Rest(offset)' \in Seq(Byte)
  <2>1. /\ content' \in Seq(Byte) /\ Len(content') \in Nat
        /\ offset' \in Nat /\ offset' <= Len(content')
    BY <1>2, LenProperties DEF TypeOK
  <2> QED  BY <2>1, PartType DEF Rest
<1>5. Cat(delivered', Cat(buffer', Rest(offset)')) = content  BY <1>1, <1>2, <1>3, <1>4, CatAssociative
<1>6. Cat(buffer', Rest(offset)') \in Seq(Byte)  BY <1>3, <1>4, CatType
<1>7. Len(delivered') <= Len(content) /\ delivered' = SubSeq(content, 1, Len(delivered'))
  BY <1>3, <1>5, <1>6, IsPrefix
<1>8. /\ Len(delivered) \in Nat /\ Len(delivered') \in Nat /\ Len(content) \in Nat
      /\ Len(delivered) <= Len(delivered')
  <2>1. /\ Len(delivered') = Len(delivered) + Len(Bytes(n))
        /\ Len(delivered) \in Nat /\ Len(Bytes(n)) \in Nat
    BY <1>1, <1>3, ConcatProperties, LenProperties DEF Cat
  <2> QED  BY <1>2, <2>1, LenProperties DEF TypeOK
<1>9. Len(delivered') \in Len(delivered) .. Len(content)  BY <1>7, <1>8
<1> QED  BY <1>1, <1>7, <1>9 DEF Stream!Send

LEMMA StepIsStream == IInv /\ [Next]_vars => [Stream!StreamNext]_(Stream!streamVars)
<1> SUFFICES ASSUME IInv, [Next]_vars PROVE [Stream!StreamNext]_(Stream!streamVars)
  OBVIOUS
<1>1. CASE createRequest
  <2>1. /\ delivered = <<>> /\ delivered' = delivered /\ content' \in Seq(Byte)
        /\ reader = "no reply" /\ reader' = "waiting"
    BY <1>1, ReplyAssumption DEF createRequest, setContent, IInv
  <2> QED  BY <2>1 DEF Stream!StreamNext, Stream!Offer
<1>2. CASE EmitFinished /\ reader = "waiting"
  <2>1. /\ posted = Last /\ delivered = content /\ reader' = "finished"
        /\ content' = content /\ delivered' = delivered
    BY <1>2, Signals DEF EmitFinished, IInv
  <2> QED  BY <2>1 DEF Stream!StreamNext, Stream!End
<1>3. CASE ReadSome
  <2>1. bytesAvailable \in Int
    <3>1. TypeOK  BY DEF IInv
    <3> QED  BY <3>1, TypeFacts DEF bytesAvailable
  <2>2. PICK n \in Nat : Read(n)  BY <1>3, <2>1 DEF ReadSome
  <2> QED  BY <2>2, ReadIsSend DEF Stream!StreamNext
<1>4. ASSUME content' = content, delivered' = delivered,
             (reader' = "finished") = (reader = "finished")
      PROVE  [Stream!StreamNext]_(Stream!streamVars)
  BY <1>4 DEF Stream!streamVars
<1>5. CASE EmitReadyRead  BY <1>4, <1>5 DEF EmitReadyRead
<1>6. CASE EmitFinished /\ reader # "waiting"  BY <1>4, <1>6 DEF EmitFinished
<1>7. CASE PeekSome  BY <1>4, <1>7 DEF PeekSome, Peek
<1>8. CASE ReturnFromSlot  BY <1>4, <1>8 DEF ReturnFromSlot
<1>9. CASE abort  BY <1>4, <1>9 DEF abort
<1>10. CASE UNCHANGED vars  BY <1>4, <1>10 DEF vars
<1> QED  BY <1>1, <1>2, <1>3, <1>5, <1>6, <1>7, <1>8, <1>9, <1>10 DEF Next, EventLoop

(* A reply is a stream of its content to WebKit: its bytes in order, each   *)
(* once, and finished only after the last.                                  *)
THEOREM ReplyIsAStream == Spec => IsAStream
<1>1. Init => Stream!StreamInit  BY DEF Init, Stream!StreamInit
<1> QED  BY <1>1, StepIsStream, IInvIsInvariant, PTL DEF Spec, IsAStream, Stream!StreamSpec

-----------------------------------------------------------------------------
(* What there is to read of a reply is what its reader has not been given.  *)
LEMMA CatLength ==
    ASSUME NEW s \in Seq(Byte), NEW t \in Seq(Byte)
    PROVE  Len(Cat(s, t)) = Len(s) + Len(t) /\ Len(s) \in Nat /\ Len(t) \in Nat
BY ConcatProperties, LenProperties DEF Cat

LEMMA AvailableIsTheRest ==
    ASSUME IInv
    PROVE  /\ bytesAvailable \in Nat /\ Len(delivered) \in Nat /\ Len(content) \in Nat
           /\ Len(content) = Len(delivered) + bytesAvailable
<1>1. TypeOK /\ Cat(Cat(delivered, buffer), Rest(offset)) = content  BY DEF IInv
<1>2. /\ delivered \in Seq(Byte) /\ buffer \in Seq(Byte) /\ Rest(offset) \in Seq(Byte)
      /\ Cat(delivered, buffer) \in Seq(Byte)
  BY <1>1, TypeFacts, RestType, CatType
<1>3. Len(Rest(offset)) = Len(content) - offset
  <2>1. PICK k \in Nat : k = offset + 1 /\ k > 0  BY <1>1, TypeFacts
  <2>2. Rest(offset) = Part(content, k, Len(content))  BY <2>1 DEF Rest
  <2>3. content \in Seq(Byte) /\ Len(content) \in Nat /\ Len(content) <= Len(content)
    BY <1>1, TypeFacts
  <2>4. Len(Part(content, k, Len(content)))
          = IF k <= Len(content) THEN Len(content) - k + 1 ELSE 0
    BY <2>1, <2>3, PartType
  <2> QED  BY <1>1, <2>1, <2>2, <2>4, TypeFacts
<1>4. Len(content) = Len(Cat(delivered, buffer)) + Len(Rest(offset))  BY <1>1, <1>2, CatLength
<1>5. /\ Len(Cat(delivered, buffer)) = Len(delivered) + Len(buffer)
      /\ Len(delivered) \in Nat /\ Len(buffer) \in Nat
  BY <1>2, CatLength
<1>6. /\ Len(content) \in Nat /\ offset \in Nat /\ offset <= Len(content)
      /\ bytesAvailable = Len(content) - offset + Len(buffer)
  BY <1>1, TypeFacts DEF bytesAvailable
<1>7. Len(content) = Len(delivered) + Len(buffer) + (Len(content) - offset)
  BY <1>3, <1>4, <1>5
<1> QED  BY ONLY <1>5, <1>6, <1>7

(* A read of no more than is available gets what it asks for.               *)
LEMMA BytesLength ==
    ASSUME TypeOK, NEW n \in Nat, n <= bytesAvailable
    PROVE  Len(Bytes(n)) = n
<1>1. CASE n <= Len(buffer)
  <2>1. FromBuffer(n) = Part(buffer, 1, n)  BY <1>1, Operators DEF LesserOf
  <2>2. FromBuffer(n) \in Seq(Byte) /\ Len(FromBuffer(n)) = n
    <3>1. Part(buffer, 1, n) \in Seq(Byte)  BY <1>1, TypeFacts, PartType
    <3>2. Len(Part(buffer, 1, n)) = IF 1 <= n THEN n - 1 + 1 ELSE 0
      BY <1>1, TypeFacts, PartType
    <3> QED  BY <2>1, <3>1, <3>2
  <2>3. Wanted(n) = 0  BY <2>2 DEF Wanted
  <2>4. number(0) = 0  BY TypeFacts DEF number, LesserOf
  <2>5. readData(Wanted(n)) = Part(content, offset + 1, offset)
    BY <2>3, <2>4, Operators, TypeFacts
  <2>6. readData(Wanted(n)) = <<>>  BY <2>5, TypeFacts, EmptyPart
  <2>7. Bytes(n) = FromBuffer(n)  BY <2>2, <2>6, CatEmpty, Operators
  <2> QED  BY <2>2, <2>7
<1>2. CASE n > Len(buffer)
  <2>1. FromBuffer(n) = buffer
    <3>1. FromBuffer(n) = Part(buffer, 1, Len(buffer))
      BY <1>2, TypeFacts, Operators DEF LesserOf
    <3> QED  BY <3>1, TypeFacts, WholePart
  <2>2. PICK w \in Nat : w = n - Len(buffer) /\ w > 0  BY <1>2, TypeFacts
  <2>3. Wanted(n) = w  BY <2>1, <2>2 DEF Wanted
  <2>4. number(w) = w /\ offset + w <= Len(content)
    BY <2>2, TypeFacts DEF number, LesserOf, bytesAvailable
  <2>5. PICK a \in Nat : a = offset + 1 /\ a > 0  BY TypeFacts
  <2>6. PICK b \in Nat : b = offset + w /\ b <= Len(content)  BY <2>2, <2>4, TypeFacts
  <2>7. readData(w) = Part(content, a, b)  BY <2>4, <2>5, <2>6, Operators
  <2>8. readData(w) \in Seq(Byte) /\ Len(readData(w)) = w
    <3>1. Part(content, a, b) \in Seq(Byte)  BY <2>5, <2>6, TypeFacts, PartType
    <3>2. Len(Part(content, a, b)) = IF a <= b THEN b - a + 1 ELSE 0
      BY <2>5, <2>6, TypeFacts, PartType
    <3>3. a <= b /\ b - a + 1 = w  BY <2>2, <2>5, <2>6, TypeFacts
    <3> QED  BY <2>7, <3>1, <3>2, <3>3
  <2>9. Bytes(n) = Cat(buffer, readData(w))  BY <2>1, <2>3, Operators
  <2>10. Len(Bytes(n)) = Len(buffer) + w  BY <2>8, <2>9, TypeFacts, CatLength
  <2> QED  BY <2>2, <2>10, TypeFacts
<1> QED  BY <1>1, <1>2, TypeFacts

(* bytesAvailable of DRNetworkReply, whose bytes QIODevice holds in part,   *)
(* is what the reader has not been given: no more, or it would wait for     *)
(* them, and no less, or it would leave them.                               *)
THEOREM AvailableIsWhatIsLeft == Spec => [](bytesAvailable = Len(content) - Len(delivered))
<1>1. IInv => bytesAvailable = Len(content) - Len(delivered)
  <2>1. ASSUME IInv PROVE bytesAvailable = Len(content) - Len(delivered)
    BY <2>1, AvailableIsTheRest
  <2> QED  BY <2>1
<1> QED  BY <1>1, IInvIsInvariant, PTL

-----------------------------------------------------------------------------
(* EventuallyFinished has two halves.  One is that the last signal is still *)
(* to come as long as the reader waits for it or reads.                     *)
FinishedIsPosted ==
    reader \in {"waiting", "reading"} =>
        posted \in {<<"readyRead", "finished">>, <<"finished">>}

(* The other: a step of the event loop, or of the slot, brings it nearer.   *)
(* One to read, one to return for each byte, one for each signal.           *)
ToBeDone == bytesAvailable + 2 * Len(posted) + (IF reader = "reading" THEN 1 ELSE 0)

ReplyRunsDown == [][EventLoop \/ ReadSome \/ ReturnFromSlot => ToBeDone' < ToBeDone]_vars

LEMMA SignalLengths == Len(Both) = 2 /\ Len(Last) = 1 /\ Len(None) = 0
BY DEF Both, Last, None

LEMMA SignalsCounted == IInv => Len(posted) \in Nat
<1> SUFFICES ASSUME IInv PROVE Len(posted) \in Nat  OBVIOUS
<1>1. posted \in {None, Both, Last}  BY DEF IInv
<1>2. CASE posted = None  BY <1>2, SignalLengths
<1>3. CASE posted = Both  BY <1>3, SignalLengths
<1>4. CASE posted = Last  BY <1>4, SignalLengths
<1> QED  BY <1>1, <1>2, <1>3, <1>4

LEMMA ToBeDoneNat == IInv => ToBeDone \in Nat
<1> SUFFICES ASSUME IInv PROVE ToBeDone \in Nat  OBVIOUS
<1>1. Len(posted) \in Nat  BY SignalsCounted
<1> QED  BY <1>1, AvailableIsTheRest DEF ToBeDone

(* The same of this state and of the next.                                 *)
Left == bytesAvailable \in Nat /\ Len(content) = Len(delivered) + bytesAvailable

LEMMA LeftNow == IInv => Left
BY AvailableIsTheRest DEF Left

LEMMA LeftThen == IInv' => Left'
BY LeftNow, PTL

LEMMA StepRunsDown ==
    ASSUME IInv, [Next]_vars, EventLoop \/ ReadSome \/ ReturnFromSlot
    PROVE  ToBeDone' < ToBeDone
<1>1. /\ bytesAvailable \in Nat /\ Len(delivered) \in Nat
      /\ Len(content) = Len(delivered) + bytesAvailable /\ Len(content) \in Nat
  BY AvailableIsTheRest
<1>2. CASE EmitReadyRead
  <2>1. posted \in {None, Both, Last} /\ posted # <<>> /\ Head(posted) = "readyRead"
    BY <1>2 DEF EmitReadyRead, IInv
  <2>2. posted = Both  BY <2>1, Signals
  <2>3. posted' = Tail(posted)  BY <1>2 DEF EmitReadyRead
  <2>4. posted' = Last  BY <2>2, <2>3, Signals, Zenon
  <2>5. bytesAvailable' = bytesAvailable /\ reader # "reading"
    BY <1>2 DEF EmitReadyRead, bytesAvailable
  <2> QED  BY <1>1, <2>2, <2>4, <2>5, SignalLengths DEF ToBeDone
<1>3. CASE EmitFinished
  <2>1. posted \in {None, Both, Last} /\ posted # <<>> /\ Head(posted) = "finished"
    BY <1>3 DEF EmitFinished, IInv
  <2>2. posted = Last  BY <2>1, Signals
  <2>3. posted' = Tail(posted)  BY <1>3 DEF EmitFinished
  <2>4. posted' = None  BY <2>2, <2>3, Signals, Zenon
  <2>5. /\ bytesAvailable' = bytesAvailable /\ reader # "reading"
        /\ reader' = (IF reader = "waiting" THEN "finished" ELSE reader)
    BY <1>3 DEF EmitFinished, bytesAvailable
  <2> QED  BY <1>1, <2>2, <2>4, <2>5, SignalLengths DEF ToBeDone
<1>4. CASE ReadSome
  <2>1. PICK n \in 1 .. bytesAvailable : Read(n)  BY <1>4 DEF ReadSome
  <2>2. n \in Nat /\ n > 0 /\ n <= bytesAvailable  BY <1>1, <2>1
  <2>3. IInv' /\ IInv  BY <2>1, <2>2, ReadIInv
  <2>4. TypeOK  BY <2>3 DEF IInv
  <2>5. Bytes(n) \in Seq(Byte) /\ Len(Bytes(n)) = n  BY <2>2, <2>4, TakeBytes, BytesLength
  <2>6. /\ delivered' = Cat(delivered, Bytes(n)) /\ content' = content /\ posted' = posted
        /\ reader' = reader
    BY <2>1 DEF Read, Cat
  <2>7. Len(delivered') = Len(delivered) + n  BY <2>4, <2>5, <2>6, TypeFacts, CatLength
  <2>8. /\ bytesAvailable' \in Nat
        /\ Len(content') = Len(delivered') + bytesAvailable'
    BY <2>3, LeftThen DEF Left
  <2>9. Len(posted) \in Nat  BY SignalsCounted
  <2>10. bytesAvailable' = bytesAvailable - n  BY <1>1, <2>2, <2>6, <2>7, <2>8
  <2> QED  BY <1>1, <2>2, <2>6, <2>9, <2>10 DEF ToBeDone
<1>5. CASE ReturnFromSlot
  <2>1. /\ bytesAvailable' = bytesAvailable /\ posted' = posted
        /\ reader = "reading" /\ reader' = "waiting"
    BY <1>5 DEF ReturnFromSlot, bytesAvailable
  <2>2. Len(posted) \in Nat  BY SignalsCounted
  <2> QED  BY <1>1, <2>1, <2>2 DEF ToBeDone
<1> QED  BY <1>2, <1>3, <1>4, <1>5 DEF EventLoop

(* A reader that has not been told the end will be: the signal is in the    *)
(* queue, behind readyRead or alone.                                        *)
THEOREM FinishedIsAlwaysPosted == Spec => []FinishedIsPosted
<1>1. IInv => FinishedIsPosted  BY DEF IInv, FinishedIsPosted, Both, Last
<1> QED  BY <1>1, IInvIsInvariant, PTL

(* Every signal delivered, every read and every return of the slot leaves   *)
(* less to do, so the event loop gets to that signal.                       *)
THEOREM ReplyAlwaysRunsDown == Spec => [](ToBeDone \in Nat) /\ ReplyRunsDown
<1>1. IInv /\ [Next]_vars => [EventLoop \/ ReadSome \/ ReturnFromSlot => ToBeDone' < ToBeDone]_vars
  BY StepRunsDown
<1> QED  BY <1>1, ToBeDoneNat, IInvIsInvariant, PTL DEF Spec, ReplyRunsDown
=============================================================================
