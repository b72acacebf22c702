----------------------------- MODULE ByteStream -----------------------------
(***************************************************************************)
(* What a network reply owes its reader: the bytes of one content, in      *)
(* order, none twice, and word of the end when all have been handed over.  *)
(***************************************************************************)
EXTENDS Naturals, Sequences

CONSTANT Byte

VARIABLES
    source,     \* the content, once there is one
    sent,       \* what the reader has been given of it
    ended       \* has it been told that this is all

streamVars == <<source, sent, ended>>

StreamInit == source = <<>> /\ sent = <<>> /\ ended = FALSE

Offer == /\ sent = <<>> /\ ~ended
         /\ source' \in Seq(Byte)
         /\ UNCHANGED <<sent, ended>>

Send == /\ ~ended
        /\ \E n \in Len(sent) .. Len(source) : sent' = SubSeq(source, 1, n)
        /\ UNCHANGED <<source, ended>>

End == /\ sent = source
       /\ ended' = TRUE
       /\ UNCHANGED <<source, sent>>

StreamNext == Offer \/ Send \/ End

StreamSpec == StreamInit /\ [][StreamNext]_streamVars
=============================================================================
