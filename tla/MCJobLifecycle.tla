---- MODULE MCJobLifecycle ----
(***************************************************************************)
(* Instances of JobLifecycle for TLC: two requests of different sessions    *)
(* for the same documents, and a third for other documents.                 *)
(***************************************************************************)
EXTENDS JobLifecycle

CONSTANTS r1, r2, r3, j1, j2, s1, s2

MCJobOf == [r \in Requests |-> IF r = r3 THEN j2 ELSE j1]
MCSessionOf == [r \in Requests |-> IF r = r2 THEN s2 ELSE s1]
====
