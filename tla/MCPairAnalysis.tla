---- MODULE MCPairAnalysis ----
(***************************************************************************)
(* Instances of PairAnalysis for TLC: which job and which texts each pair   *)
(* belongs to.  Pairs of one job with the same key are what boilerplate     *)
(* shared by several documents gives.                                       *)
(***************************************************************************)
EXTENDS PairAnalysis

CONSTANTS j1, j2, j3, p1, p2, p3, p4, p5, k1, k2, k3

\* A job with four pairs for its two slots, the last two with the same texts; a
\* job that analyses those texts at the same time; and one whose documents have
\* no candidate pair, for which the worker must first have room.
MCJobOf == [p \in Pairs |-> IF p = p5 THEN j2 ELSE j1]
MCKeyOf == [p \in Pairs |-> IF p = p1 THEN k1 ELSE IF p = p2 THEN k2 ELSE k3]

\* One job with one slot: other texts are ahead of two pairs with equal texts.
QueueJobOf == [p \in Pairs |-> j1]
QueueKeyOf == [p \in Pairs |-> IF p = p1 THEN k1 ELSE k2]
====
