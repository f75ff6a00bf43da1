---- MODULE JobLifecycle ----
(***************************************************************************)
(* A job from POST /analysis to COMPLETE or FAILED: create_analysis         *)
(* (api/analysis.py), JobManager (jobs/job_manager.py), JobWorker           *)
(* (jobs/worker.py) and the keys they write in the state store.             *)
(*                                                                         *)
(* Every request is a handler coroutine and may create one background run.  *)
(* Each store call is a step.  With the in-process store no store call      *)
(* suspends, so whoever runs keeps the event loop (turn) until it waits for *)
(* the worker's semaphore or for the engine; with storeSuspends the other   *)
(* coroutines run at every store call, as the StateStore interface allows   *)
(* and its Redis implementation would.                                      *)
(***************************************************************************)
EXTENDS Naturals, Sequences, FiniteSets

CONSTANTS
    Requests,       \* the POST requests, each served by one coroutine
    Jobs,           \* job ids, a hash of document ids and prompt version
    Sessions,
    JobOf,          \* request -> the job id of its documents
    SessionOf,      \* request -> its session
    MaxConcurrent,  \* settings.max_concurrent_llm_calls
    StoreModes,     \* the values of storeSuspends: FALSE is the store in use
    None

Progress == {"PARSING", "INDEXING", "MATCHING", "ANALYZING", "VALIDATING"}
Terminal == {"COMPLETE", "FAILED"}
States == {"QUEUED"} \cup Progress \cup Terminal

ASSUME RequestsAssumption ==
    /\ IsFiniteSet(Requests)
    /\ JobOf \in [Requests -> Jobs]
    /\ SessionOf \in [Requests -> Sessions]
    /\ None \notin Requests \cup States
ASSUME LimitAssumption == MaxConcurrent \in Nat \ {0} /\ StoreModes \subseteq BOOLEAN

VARIABLES
    handler,    \* request -> where create_analysis is
    run,        \* request -> where the run it created is: the state it will write
                \* next, or a step between states
    turn,       \* the request whose handler or run has the event loop, or None
    inside,     \* the runs inside the worker's semaphore
    waiters,    \* the semaphore's FIFO queue
    active,     \* _active_tasks: job -> the request whose run is its task
    state,      \* job:J:state
    data,       \* the jobs with a job:J:data, the documents questions are about
    error,      \* job:J:error is set
    result,     \* job:J:result: the run that stored it
    metrics,    \* job:J:metrics: the run that stored them
    owner,      \* the keys session:S:job:J
    expired,    \* jobs whose result has passed its time to live
    stopped,    \* the worker has been shut down
    storeSuspends   \* awaiting the state store lets other coroutines run

vars == <<handler, run, turn, inside, waiters, active, state, data, error,
          result, metrics, owner, expired, stopped, storeSuspends>>

store == <<state, data, error, result, metrics, owner, expired>>
worker == <<inside, waiters, active>>

Finished == {"none", "done", "cancelled"}

Init ==
    /\ handler = [r \in Requests |-> "check"]
    /\ run = [r \in Requests |-> "none"]
    /\ turn = None
    /\ inside = {}
    /\ waiters = <<>>
    /\ active = [j \in Jobs |-> None]
    /\ state = [j \in Jobs |-> None]
    /\ data = {}
    /\ error = [j \in Jobs |-> FALSE]
    /\ result = [j \in Jobs |-> None]
    /\ metrics = [j \in Jobs |-> None]
    /\ owner = {}
    /\ expired = {}
    /\ stopped = FALSE
    /\ storeSuspends \in StoreModes

HasLoop(r) == turn \in {r, None}

\* After a store call the coroutine keeps the loop unless the store suspends.
StoreCall(r) == turn' = IF storeSuspends THEN None ELSE r

GoesOn(r) == turn' = r
Waits == turn' = None

HandlerTo(r, step) == handler' = [handler EXCEPT ![r] = step]
RunTo(r, step) == run' = [run EXCEPT ![r] = step]

(***************************************************************************)
(* POST /analysis: create_job, then submit_job.                             *)
(***************************************************************************)

\* Mutant: a job that has ended does not count as existing.
CreatesAnew(r) ==
    /\ handler[r] = "check" /\ HasLoop(r) /\ ~stopped
    /\ HandlerTo(r, IF state[JobOf[r]] \in Terminal \cup {None} THEN "data" ELSE "submit")
    /\ StoreCall(r)
    /\ UNCHANGED <<run, worker, store, stopped, storeSuspends>>

\* A job that exists is returned as it is.
CheckExisting(r) ==
    /\ handler[r] = "check" /\ HasLoop(r) /\ ~stopped
    /\ HandlerTo(r, IF state[JobOf[r]] = None THEN "data" ELSE "submit")
    /\ StoreCall(r)
    /\ UNCHANGED <<run, worker, store, stopped, storeSuspends>>

\* job:J:data is written before the job has an owner who may ask about it.
WriteData(r) ==
    /\ handler[r] = "data" /\ HasLoop(r)
    /\ data' = data \cup {JobOf[r]}
    /\ HandlerTo(r, "state")
    /\ StoreCall(r)
    /\ UNCHANGED <<run, worker, state, error, result, metrics, owner, expired, stopped,
                   storeSuspends>>

WriteQueued(r) ==
    /\ handler[r] = "state" /\ HasLoop(r)
    /\ state' = [state EXCEPT ![JobOf[r]] = "QUEUED"]
    /\ HandlerTo(r, "session")
    /\ StoreCall(r)
    /\ UNCHANGED <<run, worker, data, error, result, metrics, owner, expired, stopped,
                   storeSuspends>>

\* Mutant: one ownership key per job, which any session can read.
SharesOwnership(r) ==
    /\ handler[r] = "session" /\ HasLoop(r)
    /\ owner' = owner \cup (Sessions \X {JobOf[r]})
    /\ HandlerTo(r, "submit")
    /\ StoreCall(r)
    /\ UNCHANGED <<run, worker, state, data, error, result, metrics, expired, stopped,
                   storeSuspends>>

WriteSession(r) ==
    /\ handler[r] = "session" /\ HasLoop(r)
    /\ owner' = owner \cup {<<SessionOf[r], JobOf[r]>>}
    /\ HandlerTo(r, "submit")
    /\ StoreCall(r)
    /\ UNCHANGED <<run, worker, state, data, error, result, metrics, expired, stopped,
                   storeSuspends>>

InProgress(j) == active[j] # None /\ run[active[j]] \notin Finished

\* Mutant: the tasks of other jobs are forgotten, done or not.
ForgetsTasks(r) ==
    [j \in Jobs |-> IF j = JobOf[r] THEN r ELSE None]

\* The new task is recorded and the tasks that are done are forgotten.
WithTask(r) ==
    [j \in Jobs |-> IF j = JobOf[r] THEN r
                    ELSE IF InProgress(j) THEN active[j] ELSE None]

Submit(r) ==
    /\ handler[r] = "submit" /\ HasLoop(r)
    /\ HandlerTo(r, "answered")
    /\ Waits
    /\ IF InProgress(JobOf[r])
       THEN UNCHANGED <<run, active>>
       ELSE RunTo(r, "ready") /\ active' = WithTask(r)
    /\ UNCHANGED <<inside, waiters, store, stopped, storeSuspends>>

(***************************************************************************)
(* _run_job.  The semaphore is asyncio's: FIFO, handed to the head waiter.  *)
(***************************************************************************)
HasRoom == Cardinality(inside) < MaxConcurrent

EnterAtOnce(r) ==
    /\ run[r] = "ready" /\ HasLoop(r)
    /\ HasRoom /\ waiters = <<>>
    /\ inside' = inside \cup {r}
    /\ RunTo(r, "PARSING")
    /\ GoesOn(r)
    /\ UNCHANGED <<handler, waiters, active, store, stopped, storeSuspends>>

WaitForRoom(r) ==
    /\ run[r] = "ready" /\ HasLoop(r)
    /\ ~(HasRoom /\ waiters = <<>>)
    /\ waiters' = Append(waiters, r)
    /\ RunTo(r, "queued")
    /\ Waits
    /\ UNCHANGED <<handler, inside, active, store, stopped, storeSuspends>>

\* Mutant: a run that enters keeps its place in the queue.
KeepsItsPlace(r) ==
    /\ run[r] = "queued" /\ HasLoop(r)
    /\ HasRoom /\ waiters # <<>> /\ Head(waiters) = r
    /\ inside' = inside \cup {r}
    /\ RunTo(r, "PARSING")
    /\ GoesOn(r)
    /\ UNCHANGED <<handler, waiters, active, store, stopped, storeSuspends>>

EnterFromQueue(r) ==
    /\ run[r] = "queued" /\ HasLoop(r)
    /\ HasRoom /\ waiters # <<>> /\ Head(waiters) = r
    /\ waiters' = Tail(waiters)
    /\ inside' = inside \cup {r}
    /\ RunTo(r, "PARSING")
    /\ GoesOn(r)
    /\ UNCHANGED <<handler, active, store, stopped, storeSuspends>>

\* update_state through the states before the engine, in their order.
NextStep == [PARSING |-> "INDEXING", INDEXING |-> "MATCHING",
             MATCHING |-> "ANALYZING", ANALYZING |-> "engine",
             VALIDATING |-> "result"]

ReportProgress(r) ==
    /\ run[r] \in Progress /\ HasLoop(r)
    /\ state' = [state EXCEPT ![JobOf[r]] = run[r]]
    /\ RunTo(r, NextStep[run[r]])
    /\ StoreCall(r)
    /\ UNCHANGED <<handler, worker, data, error, result, metrics, owner, expired, stopped,
                   storeSuspends>>

\* analyze gathers coroutines, so it suspends at once; PairAnalysis is inside it.
StartEngine(r) ==
    /\ run[r] = "engine" /\ HasLoop(r)
    /\ RunTo(r, "analyzing")
    /\ Waits
    /\ UNCHANGED <<handler, worker, store, stopped, storeSuspends>>

EngineReturns(r) ==
    /\ run[r] = "analyzing" /\ HasLoop(r)
    /\ RunTo(r, "VALIDATING")
    /\ GoesOn(r)
    /\ UNCHANGED <<handler, worker, store, stopped, storeSuspends>>

\* Mutant: the error path is taken inside the semaphore and does not leave it.
RaisesInside(r) ==
    /\ run[r] = "analyzing" /\ HasLoop(r)
    /\ RunTo(r, "failedMetrics")
    /\ GoesOn(r)
    /\ UNCHANGED <<handler, inside, waiters, active, store, stopped, storeSuspends>>

\* The exception leaves the semaphore before the handler for it runs.
EngineRaises(r) ==
    /\ run[r] = "analyzing" /\ HasLoop(r)
    /\ inside' = inside \ {r}
    /\ RunTo(r, "failedMetrics")
    /\ GoesOn(r)
    /\ UNCHANGED <<handler, waiters, active, store, stopped, storeSuspends>>

\* Mutant: the result is not stored before the job is reported COMPLETE.
SkipsResult(r) ==
    /\ run[r] = "result" /\ HasLoop(r)
    /\ RunTo(r, "metrics")
    /\ StoreCall(r)
    /\ UNCHANGED <<handler, worker, store, stopped, storeSuspends>>

StoreResult(r) ==
    /\ run[r] = "result" /\ HasLoop(r)
    /\ result' = [result EXCEPT ![JobOf[r]] = r]
    /\ expired' = expired \ {JobOf[r]}
    /\ RunTo(r, "metrics")
    /\ StoreCall(r)
    /\ UNCHANGED <<handler, worker, state, data, error, metrics, owner, stopped,
                   storeSuspends>>

StoreMetrics(r) ==
    /\ run[r] \in {"metrics", "failedMetrics"} /\ HasLoop(r)
    /\ metrics' = [metrics EXCEPT ![JobOf[r]] = r]
    /\ RunTo(r, IF run[r] = "metrics" THEN "COMPLETE" ELSE "FAILED")
    /\ StoreCall(r)
    /\ UNCHANGED <<handler, worker, state, data, error, result, owner, expired, stopped,
                   storeSuspends>>

\* Mutant: the error message of a failure is not stored.
FailsSilently(r) ==
    /\ run[r] \in Terminal /\ HasLoop(r)
    /\ state' = [state EXCEPT ![JobOf[r]] = run[r]]
    /\ RunTo(r, "exit")
    /\ StoreCall(r)
    /\ UNCHANGED <<handler, worker, data, error, result, metrics, owner, expired, stopped,
                   storeSuspends>>

\* update_state with COMPLETE, or with FAILED and then the error message.
ReportEnd(r) ==
    /\ run[r] \in Terminal /\ HasLoop(r)
    /\ state' = [state EXCEPT ![JobOf[r]] = run[r]]
    /\ RunTo(r, IF run[r] = "COMPLETE" THEN "exit" ELSE "error")
    /\ StoreCall(r)
    /\ UNCHANGED <<handler, worker, data, error, result, metrics, owner, expired, stopped,
                   storeSuspends>>

StoreError(r) ==
    /\ run[r] = "error" /\ HasLoop(r)
    /\ error' = [error EXCEPT ![JobOf[r]] = TRUE]
    /\ RunTo(r, "exit")
    /\ StoreCall(r)
    /\ UNCHANGED <<handler, worker, state, data, result, metrics, owner, expired, stopped,
                   storeSuspends>>

\* Mutant: a run that returns does not leave the semaphore.
ExitsInside(r) ==
    /\ run[r] = "exit" /\ HasLoop(r)
    /\ RunTo(r, "done")
    /\ Waits
    /\ UNCHANGED <<handler, inside, waiters, active, store, stopped, storeSuspends>>

\* The coroutine returns, out of the semaphore if it was still inside.
Exit(r) ==
    /\ run[r] = "exit" /\ HasLoop(r)
    /\ inside' = inside \ {r}
    /\ RunTo(r, "done")
    /\ Waits
    /\ UNCHANGED <<handler, waiters, active, store, stopped, storeSuspends>>

(***************************************************************************)
(* Time and shutdown.                                                      *)
(***************************************************************************)
ExpireResult(j) ==
    /\ turn = None /\ result[j] # None
    /\ result' = [result EXCEPT ![j] = None]
    /\ expired' = expired \cup {j}
    /\ UNCHANGED <<handler, run, turn, worker, state, data, error, metrics, owner, stopped,
                   storeSuspends>>

ExpireMetrics(j) ==
    /\ turn = None /\ metrics[j] # None
    /\ metrics' = [metrics EXCEPT ![j] = None]
    /\ UNCHANGED <<handler, run, turn, worker, state, data, error, result, owner, expired, stopped,
                   storeSuspends>>

\* The server has answered its requests and cancels the tasks it knows of, which
\* leave the semaphore or its queue (they are all the runs there are: NoOrphanRun).
Cancelled(r) == \E j \in Jobs : active[j] = r /\ run[r] \notin Finished

Shutdown ==
    /\ turn = None /\ ~stopped
    /\ \A r \in Requests : handler[r] \in {"check", "answered"}
    /\ stopped' = TRUE
    /\ run' = [r \in Requests |-> IF Cancelled(r) THEN "cancelled" ELSE run[r]]
    /\ inside' = {}
    /\ waiters' = <<>>
    /\ active' = [j \in Jobs |-> None]
    /\ UNCHANGED <<handler, turn, store, storeSuspends>>

Quiet ==
    /\ turn = None
    /\ \A r \in Requests : run[r] \in Finished
    /\ stopped \/ \A r \in Requests : handler[r] = "answered"
    /\ UNCHANGED vars

Handle(r) == CheckExisting(r) \/ WriteData(r) \/ WriteQueued(r) \/ WriteSession(r) \/ Submit(r)

Work(r) ==
    \/ EnterAtOnce(r) \/ WaitForRoom(r) \/ EnterFromQueue(r)
    \/ ReportProgress(r) \/ StartEngine(r) \/ EngineReturns(r) \/ EngineRaises(r)
    \/ StoreResult(r) \/ StoreMetrics(r) \/ ReportEnd(r) \/ StoreError(r) \/ Exit(r)

Next ==
    \/ \E r \in Requests : Handle(r) \/ Work(r)
    \/ \E j \in Jobs : ExpireResult(j) \/ ExpireMetrics(j)
    \/ Shutdown
    \/ Quiet

\* The loop runs every coroutine that can go on; the engine returns or raises
\* (PairAnalysis!EveryJobEnds).  Nothing obliges a client to send a request.
Fairness ==
    \A r \in Requests : WF_vars(handler[r] # "check" /\ Handle(r)) /\ WF_vars(Work(r))

Safe == Init /\ [][Next]_vars

Spec == Safe /\ Fairness

(***************************************************************************)
(* Properties                                                              *)
(***************************************************************************)
Live(r) == run[r] \notin Finished

\* Every variable has its type; the semaphore's queue holds only runs that wait.
TypeOK ==
    /\ handler \in [Requests -> {"check", "data", "state", "session", "submit", "answered"}]
    /\ run \in [Requests -> {"none", "ready", "queued", "engine", "analyzing", "result",
                             "metrics", "failedMetrics", "error", "exit", "done",
                             "cancelled"} \cup Progress \cup Terminal]
    /\ turn \in Requests \cup {None}
    /\ inside \subseteq Requests
    /\ waiters \in Seq(Requests)
    /\ \A i \in DOMAIN waiters : run[waiters[i]] = "queued"
    /\ active \in [Jobs -> Requests \cup {None}]
    /\ state \in [Jobs -> States \cup {None}]
    /\ data \subseteq Jobs
    /\ error \in [Jobs -> BOOLEAN]
    /\ result \in [Jobs -> Requests \cup {None}]
    /\ metrics \in [Jobs -> Requests \cup {None}]
    /\ owner \subseteq Sessions \X Jobs
    /\ expired \subseteq Jobs
    /\ stopped \in BOOLEAN
    /\ storeSuspends \in StoreModes

\* Every run under way is the task _active_tasks has for its job: a job never has
\* two runs at once, and no run escapes the cancellation of shutdown (:84-97, :185).
NoOrphanRun == \A r \in Requests : Live(r) => active[JobOf[r]] = r

\* A run exists only for a request that has been answered.
RunsAreSubmitted ==
    \A r \in Requests : run[r] # "none" => handler[r] = "answered"

\* The semaphore's queue names each waiting run once.
QueueIsSet ==
    \A i, k \in DOMAIN waiters : waiters[i] = waiters[k] => i = k

\* The steps of a run inside the semaphore, if it does not fail.
InsideSteps == Progress \cup {"engine", "analyzing", "result", "metrics", "COMPLETE"}

\* The worker never runs more jobs at once than its limit, and a place inside is
\* kept only by a run that still works there (worker.py:122-146).
RoomBounded ==
    /\ Cardinality(inside) <= MaxConcurrent
    /\ \A r \in inside : run[r] \in InsideSteps \cup {"exit"}
    /\ \A r \in Requests : run[r] \in InsideSteps => r \in inside

\* Whoever reads COMPLETE finds a result, unless its time to live has passed
\* (worker.py:144-146, job_manager.py:202).
CompleteHasResult ==
    \A j \in Jobs : state[j] = "COMPLETE" => result[j] # None \/ j \in expired

\* Whoever reads FAILED finds the message, but in the one step between the two
\* writes, or when the shutdown falls there (job_manager.py:113-116).
FailureHasMessage ==
    \A j \in Jobs : state[j] = "FAILED" =>
        error[j] \/ stopped \/ \E r \in Requests : JobOf[r] = j /\ run[r] = "error"

\* A session is given a job only by a request of its own for those documents, and
\* finds the job's documents when it asks about them (job_manager.py:88-90, 176;
\* qa_service.py:65-70).
SessionsIsolated ==
    \A s \in Sessions, j \in Jobs : <<s, j>> \in owner =>
        /\ j \in data
        /\ \E r \in Requests :
              SessionOf[r] = s /\ JobOf[r] = j /\ handler[r] \in {"submit", "answered"}

Follows(before) ==
    CASE before = None         -> {"QUEUED"}
      [] before = "QUEUED"     -> {"PARSING"}
      [] before = "PARSING"    -> {"INDEXING"}
      [] before = "INDEXING"   -> {"MATCHING"}
      [] before = "MATCHING"   -> {"ANALYZING"}
      [] before = "ANALYZING"  -> {"VALIDATING", "FAILED"}
      [] before = "VALIDATING" -> {"COMPLETE"}
      [] before \in Terminal   -> {"PARSING"}

\* With the store in use, a job goes through its states in order and leaves COMPLETE
\* or FAILED only to be analysed again from the start: no second run and no late
\* request writes in between.
StagesInOrder ==
    [][~storeSuspends => \A j \in Jobs :
          state'[j] # state[j] => state'[j] \in Follows(state[j])]_vars

Ends(r) == state[JobOf[r]] \in Terminal \/ stopped

\* With the store in use, every job that a request submitted ends, unless the worker
\* is shut down.
SubmittedJobsEnd ==
    \A r \in Requests : (handler[r] = "answered" /\ ~storeSuspends) ~> Ends(r)

\* What the run of a job, if there is one, has still to do for whoever polls.
WorkerOf(j) ==
    LET steps == {run[r] : r \in {q \in Requests : JobOf[q] = j}} IN
    IF steps \cap {"metrics", "COMPLETE"} # {} THEN "stored"
    ELSE IF steps \subseteq Finished \cup {"error", "exit"} THEN "idle" ELSE "working"

\* The jobs as JobService has them.
Served == INSTANCE JobService WITH
    shown <- [j \in Jobs |-> IF state[j] \in {None} \cup Terminal THEN state[j] ELSE "RUNNING"],
    stored <- {j \in Jobs : result[j] # None},
    worker <- [j \in Jobs |-> WorkerOf(j)]

\* With the store in use, whoever polls sees a job on its way, and its end when a worker
\* that was at it has stored a result or has failed (worker.py:122-166, job_manager:187-222).
ImplementsJobService == ~storeSuspends => Served!Spec

(***************************************************************************)
(* What the proofs need besides.                                           *)
(***************************************************************************)

\* The states in which a live run finds its job when no store call suspends.
Before(step) ==
    CASE step \in {"ready", "queued", "PARSING"} -> {"QUEUED"} \cup Terminal
      [] step = "INDEXING" -> {"PARSING"}
      [] step = "MATCHING" -> {"INDEXING"}
      [] step = "ANALYZING" -> {"MATCHING"}
      [] step \in {"engine", "analyzing", "VALIDATING", "failedMetrics", "FAILED"} -> {"ANALYZING"}
      [] step \in {"result", "metrics", "COMPLETE"} -> {"VALIDATING"}
      [] OTHER -> Terminal

\* A handler between its first store call and its answer has the event loop.
HandlerHasLoop ==
    \A r \in Requests : handler[r] \notin {"check", "answered"} => turn = r /\ ~stopped

\* What create_job read of the job still holds when it writes.
CheckStillHolds ==
    /\ \A r \in Requests : handler[r] \in {"data", "state"} => state[JobOf[r]] = None
    /\ \A r \in Requests : handler[r] \in {"session", "submit"} => state[JobOf[r]] # None

\* A live run finds the state it wrote last.
RunsInStep == \A r \in Requests : Live(r) => state[JobOf[r]] \in Before(run[r])

\* A job shown in progress has a run.
ProgressIsLive ==
    \A j \in Jobs : state[j] \in Progress /\ ~stopped =>
        \E r \in Requests : JobOf[r] = j /\ Live(r)

LoopInv ==
    ~storeSuspends => HandlerHasLoop /\ CheckStillHolds /\ RunsInStep /\ ProgressIsLive

(***************************************************************************)
(* Claims of the documentation that the code does not keep.                *)
(***************************************************************************)

\* api/analysis.py:5-6, "the POST endpoint returns immediately with a job ID, and
\* clients poll GET for status": not the client whose session did not create the
\* job, for get_status (:176) finds no key for it.
SubmitterMayPoll ==
    \A r \in Requests : handler[r] = "answered" => <<SessionOf[r], JobOf[r]>> \in owner
====
