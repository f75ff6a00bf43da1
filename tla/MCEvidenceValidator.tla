---- MODULE MCEvidenceValidator ----
(***************************************************************************)
(* An instance for TLC: clause c3 of a third document reads as c1 does, so  *)
(* the pairs {c1, c2} and {c3, c2} share a key.  The citations are right    *)
(* ones and one of each way to be wrong.                                   *)
(***************************************************************************)
EXTENDS EvidenceValidator

CONSTANTS c1, c2, c3, d1, d2, d3, t1, t2, p, r

MCDocumentOf == [c \in Clauses |-> CASE c = c1 -> d1 [] c = c2 -> d2 [] c = c3 -> d3]
MCPageOf == [c \in Clauses |-> IF c = c3 THEN 2 ELSE 1]
MCTextOf == [c \in Clauses |-> IF c = c2 THEN t2 ELSE t1]
MCSidesOf == [q \in Pairs |-> IF q = p THEN {c1, c2} ELSE {c3, c2}]

\* "notice" occurs in both texts, "30 days" and "90 days" in one each.
MCQuotes == {"30 days", "90 days", "notice", "never said"}
MCWithin == {<<"30 days", t1>>, <<"90 days", t2>>, <<"notice", t1>>, <<"notice", t2>>}

Cite(d, c, n, q) == [document |-> d, clause |-> c, page |-> n, quote |-> q]

MCCitations ==
    {Cite(d1, c1, 1, "30 days"), Cite(d1, c1, 1, "notice"), Cite(d2, c2, 1, "90 days"),
     Cite(d3, c3, 2, "30 days"),
     Cite(d2, c1, 1, "notice"),         \* the other document
     Cite(d1, c1, 2, "30 days"),        \* another page
     Cite(d2, c2, 1, "30 days"),        \* a quote of the other clause
     Cite(d3, c3, 2, "never said")}     \* of none
====
