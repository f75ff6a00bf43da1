---- MODULE AnalysisService ----
(***************************************************************************)
(* What a caller of ConsistencyEngine.analyze is promised, with no          *)
(* semaphore, cache or table of calls in it (nor the worker's limit on how  *)
(* many jobs run at once).                                                  *)
(*                                                                         *)
(* Every pair of a running job gets one answer and keeps it: a finding made *)
(* for that pair, the finding made for another pair with the same texts, or *)
(* nothing when the analysis of those texts failed.  A job ends, and only   *)
(* when all its pairs have been answered.                                   *)
(***************************************************************************)
CONSTANTS Jobs, Pairs, JobOf, KeyOf, None, Dropped

VARIABLES jobPc, outcome

vars == <<jobPc, outcome>>

Init ==
    /\ jobPc = [j \in Jobs |-> "waiting"]
    /\ outcome = [p \in Pairs |-> None]

Begin(j) ==
    /\ jobPc[j] = "waiting"
    /\ jobPc' = [jobPc EXCEPT ![j] = "analyzing"]
    /\ UNCHANGED outcome

\* The findings made so far for the texts of p.
Made(p) == {q \in Pairs : outcome[q] = q /\ KeyOf[q] = KeyOf[p]}

Answer(p) ==
    /\ jobPc[JobOf[p]] = "analyzing"
    /\ outcome[p] = None
    /\ \E a \in {p, Dropped} \cup Made(p) : outcome' = [outcome EXCEPT ![p] = a]
    /\ UNCHANGED jobPc

Finish(j) ==
    /\ jobPc[j] = "analyzing"
    /\ \A p \in Pairs : JobOf[p] = j => outcome[p] # None
    /\ jobPc' = [jobPc EXCEPT ![j] = "done"]
    /\ UNCHANGED outcome

Next ==
    \/ \E j \in Jobs : Begin(j) \/ Finish(j)
    \/ \E p \in Pairs : Answer(p)

Safe == Init /\ [][Next]_vars

Spec ==
    /\ Safe
    /\ \A j \in Jobs : WF_vars(Begin(j)) /\ WF_vars(Finish(j))
    /\ \A p \in Pairs : WF_vars(Answer(p))
====
