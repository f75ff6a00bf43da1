---- MODULE JobService ----
(***************************************************************************)
(* What whoever polls a job sees of the server: whether the job is on its   *)
(* way, COMPLETE or FAILED, and whether there is a result to be had; and    *)
(* behind it the one worker a job has at a time.  JobLifecycle, with the    *)
(* store in use, and the server of PollingClient both implement it.         *)
(***************************************************************************)
CONSTANTS Jobs, None

VARIABLES
    shown,   \* job -> "RUNNING", "COMPLETE", "FAILED", or None before it is created
    stored,  \* the jobs with a result that can be read
    worker   \* job -> "idle", "working" or "stored", when its result is

vars == <<shown, stored, worker>>

Init ==
    /\ shown = [j \in Jobs |-> None]
    /\ stored = {}
    /\ worker = [j \in Jobs |-> "idle"]

Create(j) ==
    /\ shown[j] = None
    /\ shown' = [shown EXCEPT ![j] = "RUNNING"]
    /\ UNCHANGED <<stored, worker>>

\* A job without a worker gets one.  What is shown of an earlier run stays for now.
Submit(j) ==
    /\ shown' = [shown EXCEPT ![j] = IF @ = None THEN "RUNNING" ELSE @]
    /\ worker' = [worker EXCEPT ![j] = IF @ = "idle" THEN "working" ELSE @]
    /\ UNCHANGED stored

Progress(j) ==
    /\ worker[j] = "working"
    /\ shown' = [shown EXCEPT ![j] = "RUNNING"]
    /\ UNCHANGED <<stored, worker>>

StoreResult(j) ==
    /\ worker[j] = "working" /\ shown[j] = "RUNNING"
    /\ stored' = stored \cup {j}
    /\ worker' = [worker EXCEPT ![j] = "stored"]
    /\ UNCHANGED shown

Complete(j) ==
    /\ worker[j] = "stored"
    /\ shown' = [shown EXCEPT ![j] = "COMPLETE"]
    /\ worker' = [worker EXCEPT ![j] = "idle"]
    /\ UNCHANGED stored

Fail(j) ==
    /\ worker[j] # "idle"
    /\ shown' = [shown EXCEPT ![j] = "FAILED"]
    /\ worker' = [worker EXCEPT ![j] = "idle"]
    /\ UNCHANGED stored

\* The time to live of some results is over.
Expire(J) ==
    /\ stored' = stored \ J
    /\ UNCHANGED <<shown, worker>>

\* The workers are cancelled, and what is shown stays as it was.
Stop ==
    /\ worker' = [j \in Jobs |-> "idle"]
    /\ UNCHANGED <<shown, stored>>

Next ==
    \/ \E j \in Jobs : Create(j) \/ Submit(j) \/ Progress(j) \/ StoreResult(j) \/ Complete(j) \/ Fail(j)
    \/ \E J \in SUBSET Jobs : Expire(J)
    \/ Stop

Spec == Init /\ [][Next]_vars
====
