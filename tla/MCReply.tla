------------------------------- MODULE MCReply -------------------------------
(***************************************************************************)
(* Contents of up to five bytes, all different.                            *)
(***************************************************************************)
EXTENDS NetworkReply

MCByte     == 1 .. 5
MCContents == {[i \in 1 .. n |-> i] : n \in 0 .. 5}
=============================================================================
