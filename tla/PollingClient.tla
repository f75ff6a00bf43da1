---- MODULE PollingClient ----
(***************************************************************************)
(* The browser that waits for an analysis (frontend App.tsx and             *)
(* AnalysisProgress.tsx) and the status it asks for (api/analysis.py,       *)
(* jobs/job_manager.py), which is read from an ExpiringStore.  A step is a  *)
(* handler of the browser or a call of the store.                          *)
(*                                                                         *)
(* JobLifecycle has all states and writes of a job; here those that differ  *)
(* for the browser: the job is on its way, FAILED or COMPLETE, and a result *)
(* with a time to live is there or not.  That a job may belong to another   *)
(* session shows as a request that fails, as any may.                       *)
(***************************************************************************)
EXTENDS ExpiringStore, Sequences, FiniteSetsExt

CONSTANTS
    Jobs,
    ResultTtl,
    MaxPolls,     \* bound of the model on the analyses watched
    MaxCreations  \* bound of the model on the creations under way

VARIABLES
    worker,    \* job -> "idle", "working" or "stored", when the result is
    page,      \* "upload", "analyzing" or "report"
    activeJob, \* or None
    report,    \* the job whose result is kept, or None
    creating,  \* job -> how many of its creations are under way
    polls      \* one for each time that AnalysisProgress was mounted or given another job

clientVars == <<page, activeJob, report, creating, polls>>
vars == <<storeVars, worker, clientVars>>

StateOf(j) == <<"state", j>>
ResultOf(j) == <<"result", j>>

ASSUME ClientAssumption ==
    /\ \A j \in Jobs : {StateOf(j), ResultOf(j)} \subseteq Keys
    /\ {"RUNNING", "COMPLETE", "FAILED"} \cup Jobs \subseteq Values
    /\ {None, ResultTtl} \subseteq Ttls
    /\ None \notin Jobs
    /\ MaxCreations \in Nat

\* A loop of pollStatus: its request is under way, or answered, or it waits for its timer,
\* or it is over.  Its component is mounted or gone; overtaken says that a request was
\* under way when it went.  Such a poll goes on as before: when it is answered that the job
\* is on its way, it sets a timer that nobody clears any more.
Poll == [job : Jobs, stage : {"asking", "answered", "waiting", "ended"},
         seen : {"pending", "result", "failed", "error"}, mounted : BOOLEAN, overtaken : BOOLEAN]

Init ==
    /\ InitStore
    /\ worker = [j \in Jobs |-> "idle"]
    /\ page = "upload"
    /\ activeJob = None /\ report = None
    /\ creating = [j \in Jobs |-> 0]
    /\ polls = << >>

(***************************************************************************)
(* The server.  A worker says that the job is on its way, stores the result *)
(* and says that it is complete, or fails.                                 *)
(***************************************************************************)

Progress(j) ==
    /\ worker[j] = "working"
    /\ Set(StateOf(j), "RUNNING", None)
    /\ UNCHANGED <<worker, clientVars>>

StoreResult(j) ==
    /\ worker[j] = "working" /\ Visible(StateOf(j)) = "RUNNING"
    /\ Set(ResultOf(j), j, ResultTtl)
    /\ worker' = [worker EXCEPT ![j] = "stored"]
    /\ UNCHANGED clientVars

Complete(j) ==
    /\ worker[j] = "stored"
    /\ Set(StateOf(j), "COMPLETE", None)
    /\ worker' = [worker EXCEPT ![j] = "idle"]
    /\ UNCHANGED clientVars

Fail(j) ==
    /\ worker[j] # "idle"
    /\ Set(StateOf(j), "FAILED", None)
    /\ worker' = [worker EXCEPT ![j] = "idle"]
    /\ UNCHANGED clientVars

(***************************************************************************)
(* The browser                                                             *)
(***************************************************************************)

\* Mutant: the timer of a component that goes is not cleared.
KeepTimers(ps) ==
    [c \in DOMAIN ps |->
        IF ps[c].mounted
        THEN [ps[c] EXCEPT !.mounted = FALSE, !.overtaken = ps[c].stage \in {"asking", "answered"}]
        ELSE ps[c]]

\* The effect is left: a timer is cleared, a request goes on.
Unmount(ps) ==
    [c \in DOMAIN ps |->
        IF ps[c].mounted
        THEN [ps[c] EXCEPT !.mounted = FALSE,
                           !.stage = IF @ = "waiting" THEN "ended" ELSE @,
                           !.overtaken = ps[c].stage \in {"asking", "answered"}]
        ELSE ps[c]]

Mount(ps, j) ==
    Append(ps, [job |-> j, stage |-> "asking", seen |-> "pending", mounted |-> TRUE, overtaken |-> FALSE])

\* The button is there until an answer comes, and may be pressed again.
StartAnalysis(j) ==
    /\ page = "upload" /\ MapThenSumSet(LAMBDA i : creating[i], Jobs) < MaxCreations
    /\ creating' = [creating EXCEPT ![j] = @ + 1]
    /\ UNCHANGED <<storeVars, worker, page, activeJob, report, polls>>

\* The server has created the job, if there was none, and set a worker to it, if none is;
\* the browser shows its progress, whatever page it has come to.
Created(j) ==
    /\ creating[j] > 0
    /\ Len(polls) < MaxPolls
    /\ creating' = [creating EXCEPT ![j] = @ - 1]
    /\ IF Visible(StateOf(j)) = None THEN Set(StateOf(j), "RUNNING", None) ELSE UNCHANGED storeVars
    /\ worker' = IF worker[j] = "idle" THEN [worker EXCEPT ![j] = "working"] ELSE worker
    /\ activeJob' = j /\ page' = "analyzing"
    /\ polls' = IF page = "analyzing" /\ activeJob = j THEN polls ELSE Mount(Unmount(polls), j)
    /\ UNCHANGED report

CreateFails(j) ==
    /\ creating[j] > 0
    /\ creating' = [creating EXCEPT ![j] = @ - 1]
    /\ UNCHANGED <<storeVars, worker, page, activeJob, report, polls>>

\* get_status: the result is looked for when the state is COMPLETE.
Serve(c) ==
    /\ polls[c].stage = "asking"
    /\ LET j == polls[c].job
           complete == Visible(StateOf(j)) = "COMPLETE"
       IN  /\ Read({StateOf(j)} \cup IF complete THEN {ResultOf(j)} ELSE {})
           /\ polls' = [polls EXCEPT ![c].stage = "answered",
                  ![c].seen = CASE answer'[StateOf(j)] = None -> "error"
                                [] answer'[StateOf(j)] = "FAILED" -> "failed"
                                [] complete /\ answer'[ResultOf(j)] # None -> "result"
                                [] OTHER -> "pending"]
    /\ UNCHANGED <<worker, page, activeJob, report, creating>>

RequestFails(c) ==
    /\ polls[c].stage = "asking"
    /\ polls' = [polls EXCEPT ![c].stage = "answered", ![c].seen = "error"]
    /\ UNCHANGED <<storeVars, worker, page, activeJob, report, creating>>

\* onComplete is called for a component that is gone, too.
ReceiveResult(c) ==
    /\ polls[c].stage = "answered" /\ polls[c].seen = "result"
    /\ report' = polls[c].job
    /\ page' = "report"
    /\ polls' = Unmount([polls EXCEPT ![c].stage = "ended", ![c].seen = "pending"])
    /\ UNCHANGED <<storeVars, worker, activeJob, creating>>

\* Mutant: only an exception is an end.
RetryFailed(c) ==
    /\ polls[c].stage = "answered" /\ polls[c].seen # "result"
    /\ polls' = [polls EXCEPT ![c].stage = IF polls[c].seen # "error" THEN "waiting" ELSE "ended",
                               ![c].seen = "pending"]
    /\ UNCHANGED <<storeVars, worker, page, activeJob, report, creating>>

ReceiveOther(c) ==
    /\ polls[c].stage = "answered" /\ polls[c].seen # "result"
    /\ polls' = [polls EXCEPT ![c].stage = IF polls[c].seen = "pending" THEN "waiting" ELSE "ended",
                               ![c].seen = "pending"]
    /\ UNCHANGED <<storeVars, worker, page, activeJob, report, creating>>

TimerFires(c) ==
    /\ polls[c].stage = "waiting"
    /\ polls' = [polls EXCEPT ![c].stage = "asking"]
    /\ UNCHANGED <<storeVars, worker, page, activeJob, report, creating>>

\* Mutant: the page is not left.
ForgetResult ==
    /\ page # "upload"
    /\ activeJob' = None /\ report' = None
    /\ UNCHANGED <<storeVars, worker, page, creating, polls>>

\* The button "New Analysis".
Reset ==
    /\ page # "upload"
    /\ page' = "upload"
    /\ activeJob' = None /\ report' = None
    /\ polls' = Unmount(polls)
    /\ UNCHANGED <<storeVars, worker, creating>>

PollStep(c) == Serve(c) \/ RequestFails(c) \/ ReceiveResult(c) \/ ReceiveOther(c) \/ TimerFires(c)

Next ==
    \/ \E j \in Jobs : Progress(j) \/ StoreResult(j) \/ Complete(j) \/ Fail(j)
    \/ \E j \in Jobs : StartAnalysis(j) \/ Created(j) \/ CreateFails(j)
    \/ \E c \in DOMAIN polls : PollStep(c)
    \/ Reset
    \/ Tick /\ UNCHANGED <<worker, clientVars>>

\* Requests are answered or fail, answers are handled and timers fire.
Fairness == \A c \in 1..MaxPolls : WF_vars(c \in DOMAIN polls /\ PollStep(c))

Spec == Init /\ [][Next]_vars /\ Fairness

(***************************************************************************)
(* Properties                                                              *)
(***************************************************************************)

TypeOK ==
    /\ StoreTypeOK
    /\ worker \in [Jobs -> {"idle", "working", "stored"}]
    /\ page \in {"upload", "analyzing", "report"}
    /\ activeJob \in Jobs \cup {None} /\ report \in Jobs \cup {None}
    /\ page = "analyzing" => activeJob # None
    /\ page = "report" => report # None
    /\ creating \in [Jobs -> Nat]
    /\ polls \in Seq(Poll)
    \* One component at most is mounted, on its page and with the job of the page.
    /\ \A c \in DOMAIN polls : polls[c].mounted => page = "analyzing" /\ polls[c].job = activeJob
    /\ \A c, d \in DOMAIN polls : polls[c].mounted /\ polls[d].mounted => c = d

IsAlive(c) == polls[c].stage # "ended"

\* Only a poll that had a request under way when the user turned away goes on without its
\* component; one that waited for its timer is over.  A report on another job than the one
\* the user asked for last, or on a job that was left, is shown by a poll of the first
\* kind, and that poll is over then, so that it brings no second one.  It need not have
\* been that request: the poll may have set timers and asked again long after
\* (AnalysisProgress:27-53, App:30-40).
LateReportsWereOvertaken ==
    /\ \A c \in DOMAIN polls : IsAlive(c) /\ ~polls[c].mounted => polls[c].overtaken
    /\ page = "report" =>
          \/ report = activeJob
          \/ \E c \in DOMAIN polls : polls[c].job = report /\ polls[c].overtaken /\ ~IsAlive(c)

\* The server as JobService has it.
Served == INSTANCE JobService WITH
    shown <- [j \in Jobs |-> Visible(StateOf(j))],
    stored <- {j \in Jobs : Visible(ResultOf(j)) # None}

\* The server is the one that JobLifecycle has too (JobLifecycle!ImplementsJobService).
ImplementsJobService == Served!Spec

\* The status of the job is final, with a result that is there to be had.
IsFinal(j) ==
    \/ Visible(StateOf(j)) = "FAILED"
    \/ Visible(StateOf(j)) = "COMPLETE" /\ Visible(ResultOf(j)) # None

\* No poll goes on for ever next to a final status: it ends, or the job is begun again, or
\* the result expires (AnalysisProgress:36-43, job_manager:187-222).
PollingEnds ==
    \A c \in 1..MaxPolls : []<>~(c \in DOMAIN polls /\ IsAlive(c) /\ IsFinal(polls[c].job))
====
