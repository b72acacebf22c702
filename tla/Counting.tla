------------------------------ MODULE Counting ------------------------------
(***************************************************************************)
(* Counting the elements of a queue: timers, signals, requests that are    *)
(* still to come.                                                          *)
(***************************************************************************)
EXTENDS FiniteSets, Sequences

HowMany(q, S) == Cardinality({n \in DOMAIN q : q[n] \in S})
=============================================================================
