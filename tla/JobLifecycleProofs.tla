---- MODULE JobLifecycleProofs ----
(***************************************************************************)
(* Proofs about JobLifecycle, for any requests, jobs and sessions, any      *)
(* limit, and a store that suspends or not.                                 *)
(***************************************************************************)
EXTENDS JobLifecycle, FiniteSetTheorems, TLAPS

USE RequestsAssumption, LimitAssumption

\* Every step keeps the types and the queue of the semaphore in order.
LEMMA TypeInit == Init => TypeOK /\ QueueIsSet /\ RunsAreSubmitted
<1> SUFFICES ASSUME Init PROVE TypeOK /\ QueueIsSet /\ RunsAreSubmitted
  OBVIOUS
<1>1. waiters = <<>> /\ waiters \in Seq(Requests) /\ DOMAIN waiters = {}
  BY DEF Init
<1>2. TypeOK
  BY <1>1 DEF Init, TypeOK
<1> QED
  BY <1>1, <1>2 DEF Init, QueueIsSet, RunsAreSubmitted

\* A run leaves the queue by its head and stands in it once.
LEMMA TypeStep == TypeOK /\ QueueIsSet /\ RunsAreSubmitted /\ [Next]_vars => (TypeOK /\ QueueIsSet /\ RunsAreSubmitted)'
<1> SUFFICES ASSUME TypeOK, QueueIsSet, RunsAreSubmitted, [Next]_vars PROVE (TypeOK /\ QueueIsSet /\ RunsAreSubmitted)'
  OBVIOUS
<1> USE DEF TypeOK, RunsAreSubmitted, States, Progress, Terminal
<1> USE DEF HandlerTo, RunTo, HasLoop, StoreCall, GoesOn, Waits, store, worker
<1>1. ASSUME NEW r \in Requests, CheckExisting(r) PROVE (TypeOK /\ QueueIsSet /\ RunsAreSubmitted)'
  BY <1>1 DEF CheckExisting, QueueIsSet
<1>2. ASSUME NEW r \in Requests, WriteData(r) PROVE (TypeOK /\ QueueIsSet /\ RunsAreSubmitted)'
  BY <1>2 DEF WriteData, QueueIsSet
<1>3. ASSUME NEW r \in Requests, WriteQueued(r) PROVE (TypeOK /\ QueueIsSet /\ RunsAreSubmitted)'
  BY <1>3 DEF WriteQueued, QueueIsSet
<1>4. ASSUME NEW r \in Requests, WriteSession(r) PROVE (TypeOK /\ QueueIsSet /\ RunsAreSubmitted)'
  BY <1>4 DEF WriteSession, QueueIsSet
<1>5. ASSUME NEW r \in Requests, Submit(r) PROVE (TypeOK /\ QueueIsSet /\ RunsAreSubmitted)'
  BY <1>5 DEF Submit, WithTask, QueueIsSet
<1>6. ASSUME NEW r \in Requests, EnterAtOnce(r) PROVE (TypeOK /\ QueueIsSet /\ RunsAreSubmitted)'
  BY <1>6 DEF EnterAtOnce, QueueIsSet
<1>7. ASSUME NEW r \in Requests, WaitForRoom(r) PROVE (TypeOK /\ QueueIsSet /\ RunsAreSubmitted)'
  <2>1. /\ waiters' = Append(waiters, r) /\ waiters \in Seq(Requests)
        /\ run[r] = "ready"
    BY <1>7 DEF WaitForRoom
  <2>2. /\ waiters' \in Seq(Requests)
        /\ DOMAIN waiters = 1..Len(waiters) /\ DOMAIN waiters' = 1..(Len(waiters) + 1)
        /\ \A i \in 1..Len(waiters) : waiters'[i] = waiters[i]
        /\ waiters'[Len(waiters) + 1] = r
    BY <2>1
  <2>3. \A i \in DOMAIN waiters : waiters[i] # r
    BY <2>1
  <2>4. QueueIsSet'
    BY <2>2, <2>3 DEF QueueIsSet
  <2>5. \A i \in DOMAIN waiters' : run'[waiters'[i]] = "queued"
    BY <1>7, <2>2, <2>3 DEF WaitForRoom
  <2> QED
    BY <1>7, <2>2, <2>4, <2>5 DEF WaitForRoom
<1>8. ASSUME NEW r \in Requests, EnterFromQueue(r) PROVE (TypeOK /\ QueueIsSet /\ RunsAreSubmitted)'
  <2>1. /\ waiters # <<>> /\ waiters \in Seq(Requests) /\ r = Head(waiters)
        /\ waiters' = Tail(waiters)
    BY <1>8 DEF EnterFromQueue
  <2>2. /\ waiters' \in Seq(Requests)
        /\ Len(waiters') = Len(waiters) - 1
        /\ \A i \in 1..Len(waiters') : waiters'[i] = waiters[i + 1] /\ i + 1 \in 1..Len(waiters)
        /\ r = waiters[1] /\ 1 \in 1..Len(waiters)
        /\ DOMAIN waiters = 1..Len(waiters) /\ DOMAIN waiters' = 1..Len(waiters')
    BY <2>1
  <2>3. ASSUME NEW i \in DOMAIN waiters' PROVE waiters'[i] # r /\ run[waiters'[i]] = "queued"
    <3>1. i + 1 \in DOMAIN waiters /\ i + 1 # 1 /\ waiters'[i] = waiters[i + 1]
      BY <2>2
    <3> QED
      BY <2>2, <3>1 DEF QueueIsSet
  <2>4. ASSUME NEW i \in DOMAIN waiters', NEW k \in DOMAIN waiters', waiters'[i] = waiters'[k]
        PROVE  i = k
    <3>1. /\ i + 1 \in DOMAIN waiters /\ waiters'[i] = waiters[i + 1]
          /\ k + 1 \in DOMAIN waiters /\ waiters'[k] = waiters[k + 1]
      BY <2>2
    <3>2. i + 1 = k + 1
      BY <2>4, <3>1 DEF QueueIsSet
    <3> QED
      BY <2>2, <3>2
  <2>5. /\ run[r] = "queued" /\ run' = [run EXCEPT ![r] = "PARSING"]
        /\ inside' = inside \cup {r} /\ turn' = r
        /\ UNCHANGED <<handler, active, state, data, error, result, metrics, owner, expired,
                       stopped, storeSuspends>>
    BY <1>8 DEF EnterFromQueue
  <2>6. \A i \in DOMAIN waiters' : run'[waiters'[i]] = "queued"
    BY <2>2, <2>3, <2>5
  <2>7. waiters' \in Seq(Requests)
    BY <2>2
  <2> HIDE <2>2
  <2>8. TypeOK'
    BY <2>5, <2>6, <2>7
  <2> QED
    BY <2>4, <2>5, <2>8 DEF QueueIsSet, RunsAreSubmitted
<1>9. ASSUME NEW r \in Requests, ReportProgress(r) PROVE (TypeOK /\ QueueIsSet /\ RunsAreSubmitted)'
  BY <1>9 DEF ReportProgress, NextStep, QueueIsSet
<1>10. ASSUME NEW r \in Requests, StartEngine(r) PROVE (TypeOK /\ QueueIsSet /\ RunsAreSubmitted)'
  BY <1>10 DEF StartEngine, QueueIsSet
<1>11. ASSUME NEW r \in Requests, EngineReturns(r) PROVE (TypeOK /\ QueueIsSet /\ RunsAreSubmitted)'
  BY <1>11 DEF EngineReturns, QueueIsSet
<1>12. ASSUME NEW r \in Requests, EngineRaises(r) PROVE (TypeOK /\ QueueIsSet /\ RunsAreSubmitted)'
  BY <1>12 DEF EngineRaises, QueueIsSet
<1>13. ASSUME NEW r \in Requests, StoreResult(r) PROVE (TypeOK /\ QueueIsSet /\ RunsAreSubmitted)'
  BY <1>13 DEF StoreResult, QueueIsSet
<1>14. ASSUME NEW r \in Requests, StoreMetrics(r) PROVE (TypeOK /\ QueueIsSet /\ RunsAreSubmitted)'
  BY <1>14 DEF StoreMetrics, QueueIsSet
<1>15. ASSUME NEW r \in Requests, ReportEnd(r) PROVE (TypeOK /\ QueueIsSet /\ RunsAreSubmitted)'
  BY <1>15 DEF ReportEnd, QueueIsSet
<1>16. ASSUME NEW r \in Requests, StoreError(r) PROVE (TypeOK /\ QueueIsSet /\ RunsAreSubmitted)'
  BY <1>16 DEF StoreError, QueueIsSet
<1>17. ASSUME NEW r \in Requests, Exit(r) PROVE (TypeOK /\ QueueIsSet /\ RunsAreSubmitted)'
  BY <1>17 DEF Exit, QueueIsSet
<1>18. ASSUME NEW j \in Jobs, ExpireResult(j) PROVE (TypeOK /\ QueueIsSet /\ RunsAreSubmitted)'
  BY <1>18 DEF ExpireResult, QueueIsSet
<1>19. ASSUME NEW j \in Jobs, ExpireMetrics(j) PROVE (TypeOK /\ QueueIsSet /\ RunsAreSubmitted)'
  BY <1>19 DEF ExpireMetrics, QueueIsSet
<1>20. CASE Shutdown
  <2>1. waiters' \in Seq(Requests) /\ DOMAIN waiters' = {}
    BY <1>20 DEF Shutdown
  <2> QED
    BY <1>20, <2>1 DEF Shutdown, QueueIsSet, Cancelled, Finished
<1>21. CASE UNCHANGED vars
  BY <1>21 DEF vars, QueueIsSet
<1> QED
  BY <1>1, <1>2, <1>3, <1>4, <1>5, <1>6, <1>7, <1>8, <1>9, <1>10, <1>11, <1>12,
     <1>13, <1>14, <1>15, <1>16, <1>17, <1>18, <1>19, <1>20, <1>21
     DEF Next, Handle, Work, Quiet

\* Type correctness of every run.
THEOREM TypeCorrect == Spec => []TypeOK
<1>1. Safe => [](TypeOK /\ QueueIsSet /\ RunsAreSubmitted)
  BY TypeInit, TypeStep, PTL DEF Safe
<1> QED
  BY <1>1, PTL DEF Spec

\* The invariant of the bookkeeping: types, queue and handlers in order.
Base == TypeOK /\ QueueIsSet /\ RunsAreSubmitted

(***************************************************************************)
(* One run per job                                                         *)
(***************************************************************************)

\* A run is recorded when it is created and only finished runs are forgotten.
LEMMA NoOrphanStep == Base /\ NoOrphanRun /\ [Next]_vars => NoOrphanRun'
<1> SUFFICES ASSUME Base, NoOrphanRun, [Next]_vars PROVE NoOrphanRun'
  OBVIOUS
<1> USE DEF Base, TypeOK, RunsAreSubmitted, NoOrphanRun, Live, Finished, Progress, Terminal
<1> USE DEF HandlerTo, RunTo, HasLoop, StoreCall, GoesOn, Waits, store, worker
<1>1. ASSUME NEW r \in Requests, CheckExisting(r) PROVE NoOrphanRun'
  BY <1>1 DEF CheckExisting
<1>2. ASSUME NEW r \in Requests, WriteData(r) PROVE NoOrphanRun'
  BY <1>2 DEF WriteData
<1>3. ASSUME NEW r \in Requests, WriteQueued(r) PROVE NoOrphanRun'
  BY <1>3 DEF WriteQueued
<1>4. ASSUME NEW r \in Requests, WriteSession(r) PROVE NoOrphanRun'
  BY <1>4 DEF WriteSession
<1>5. ASSUME NEW r \in Requests, Submit(r) PROVE NoOrphanRun'
  BY <1>5 DEF Submit, WithTask, InProgress
<1>6. ASSUME NEW r \in Requests, EnterAtOnce(r) PROVE NoOrphanRun'
  BY <1>6 DEF EnterAtOnce
<1>7. ASSUME NEW r \in Requests, WaitForRoom(r) PROVE NoOrphanRun'
  BY <1>7 DEF WaitForRoom
<1>8. ASSUME NEW r \in Requests, EnterFromQueue(r) PROVE NoOrphanRun'
  BY <1>8 DEF EnterFromQueue
<1>9. ASSUME NEW r \in Requests, ReportProgress(r) PROVE NoOrphanRun'
  BY <1>9 DEF ReportProgress, NextStep
<1>10. ASSUME NEW r \in Requests, StartEngine(r) PROVE NoOrphanRun'
  BY <1>10 DEF StartEngine
<1>11. ASSUME NEW r \in Requests, EngineReturns(r) PROVE NoOrphanRun'
  BY <1>11 DEF EngineReturns
<1>12. ASSUME NEW r \in Requests, EngineRaises(r) PROVE NoOrphanRun'
  BY <1>12 DEF EngineRaises
<1>13. ASSUME NEW r \in Requests, StoreResult(r) PROVE NoOrphanRun'
  BY <1>13 DEF StoreResult
<1>14. ASSUME NEW r \in Requests, StoreMetrics(r) PROVE NoOrphanRun'
  BY <1>14 DEF StoreMetrics
<1>15. ASSUME NEW r \in Requests, ReportEnd(r) PROVE NoOrphanRun'
  BY <1>15 DEF ReportEnd
<1>16. ASSUME NEW r \in Requests, StoreError(r) PROVE NoOrphanRun'
  BY <1>16 DEF StoreError
<1>17. ASSUME NEW r \in Requests, Exit(r) PROVE NoOrphanRun'
  BY <1>17 DEF Exit
<1>18. ASSUME NEW j \in Jobs, ExpireResult(j) PROVE NoOrphanRun'
  BY <1>18 DEF ExpireResult
<1>19. ASSUME NEW j \in Jobs, ExpireMetrics(j) PROVE NoOrphanRun'
  BY <1>19 DEF ExpireMetrics
<1>20. CASE Shutdown
  BY <1>20 DEF Shutdown, Cancelled
<1>21. CASE UNCHANGED vars
  BY <1>21 DEF vars
<1> QED
  BY <1>1, <1>2, <1>3, <1>4, <1>5, <1>6, <1>7, <1>8, <1>9, <1>10, <1>11, <1>12,
     <1>13, <1>14, <1>15, <1>16, <1>17, <1>18, <1>19, <1>20, <1>21
     DEF Next, Handle, Work, Quiet

\* A job never has two runs, and shutdown reaches every run (worker.py:84-97, 185).
THEOREM OneRunPerJob == Spec => []NoOrphanRun
<1>1. Safe => []Base
  BY TypeInit, TypeStep, PTL DEF Safe, Base
<1>2. Init => NoOrphanRun
  BY DEF Init, NoOrphanRun, Live, Finished
<1>3. Safe => []NoOrphanRun
  BY <1>1, <1>2, NoOrphanStep, PTL DEF Safe
<1> QED
  BY <1>3, PTL DEF Spec

(***************************************************************************)
(* Room in the worker                                                      *)
(***************************************************************************)

\* A run is inside from the step that takes room to the step that leaves, and takes
\* room only when there is some.
LEMMA RoomStep == Base /\ NoOrphanRun /\ RoomBounded /\ [Next]_vars => RoomBounded'
<1> SUFFICES ASSUME Base, NoOrphanRun, RoomBounded, [Next]_vars PROVE RoomBounded'
  OBVIOUS
<1> USE DEF Base, TypeOK, InsideSteps, RoomBounded, Progress, Terminal
<1> USE DEF HandlerTo, RunTo, HasLoop, StoreCall, GoesOn, Waits, store, worker
<1>1. ASSUME NEW r \in Requests, CheckExisting(r) PROVE RoomBounded'
  BY <1>1 DEF CheckExisting
<1>2. ASSUME NEW r \in Requests, WriteData(r) PROVE RoomBounded'
  BY <1>2 DEF WriteData
<1>3. ASSUME NEW r \in Requests, WriteQueued(r) PROVE RoomBounded'
  BY <1>3 DEF WriteQueued
<1>4. ASSUME NEW r \in Requests, WriteSession(r) PROVE RoomBounded'
  BY <1>4 DEF WriteSession
<1>5. ASSUME NEW r \in Requests, Submit(r) PROVE RoomBounded'
  BY <1>5 DEF Submit, InProgress, RunsAreSubmitted
<1>6. ASSUME NEW r \in Requests, EnterAtOnce(r) PROVE RoomBounded'
  <2>1. inside' = inside \cup {r} /\ Cardinality(inside) < MaxConcurrent
    BY <1>6 DEF EnterAtOnce, HasRoom
  <2>2. IsFiniteSet(inside)
    BY FS_Subset
  <2>3. Cardinality(inside) \in Nat /\ Cardinality(inside') \in {Cardinality(inside), Cardinality(inside) + 1}
    BY <2>1, <2>2, FS_AddElement, FS_CardinalityType
  <2>4. Cardinality(inside') <= MaxConcurrent
    BY <2>1, <2>3
  <2> QED
    BY <1>6, <2>4 DEF EnterAtOnce
<1>7. ASSUME NEW r \in Requests, WaitForRoom(r) PROVE RoomBounded'
  BY <1>7 DEF WaitForRoom
<1>8. ASSUME NEW r \in Requests, EnterFromQueue(r) PROVE RoomBounded'
  <2>1. inside' = inside \cup {r} /\ Cardinality(inside) < MaxConcurrent
    BY <1>8 DEF EnterFromQueue, HasRoom
  <2>2. IsFiniteSet(inside)
    BY FS_Subset
  <2>3. Cardinality(inside) \in Nat /\ Cardinality(inside') \in {Cardinality(inside), Cardinality(inside) + 1}
    BY <2>1, <2>2, FS_AddElement, FS_CardinalityType
  <2>4. Cardinality(inside') <= MaxConcurrent
    BY <2>1, <2>3
  <2> QED
    BY <1>8, <2>4 DEF EnterFromQueue
<1>9. ASSUME NEW r \in Requests, ReportProgress(r) PROVE RoomBounded'
  BY <1>9 DEF ReportProgress, NextStep
<1>10. ASSUME NEW r \in Requests, StartEngine(r) PROVE RoomBounded'
  BY <1>10 DEF StartEngine
<1>11. ASSUME NEW r \in Requests, EngineReturns(r) PROVE RoomBounded'
  BY <1>11 DEF EngineReturns
<1>12. ASSUME NEW r \in Requests, EngineRaises(r) PROVE RoomBounded'
  <2>1. inside' = inside \ {r}
    BY <1>12 DEF EngineRaises
  <2>2. IsFiniteSet(inside)
    BY FS_Subset
  <2>3. /\ Cardinality(inside) \in Nat /\ Cardinality(inside') \in Nat
        /\ Cardinality(inside') <= Cardinality(inside)
    BY <2>1, <2>2, FS_Subset, FS_CardinalityType
  <2>4. Cardinality(inside') <= MaxConcurrent
    BY <2>3
  <2> QED
    BY <1>12, <2>4 DEF EngineRaises
<1>13. ASSUME NEW r \in Requests, StoreResult(r) PROVE RoomBounded'
  BY <1>13 DEF StoreResult
<1>14. ASSUME NEW r \in Requests, StoreMetrics(r) PROVE RoomBounded'
  BY <1>14 DEF StoreMetrics
<1>15. ASSUME NEW r \in Requests, ReportEnd(r) PROVE RoomBounded'
  BY <1>15 DEF ReportEnd
<1>16. ASSUME NEW r \in Requests, StoreError(r) PROVE RoomBounded'
  BY <1>16 DEF StoreError
<1>17. ASSUME NEW r \in Requests, Exit(r) PROVE RoomBounded'
  <2>1. inside' = inside \ {r}
    BY <1>17 DEF Exit
  <2>2. IsFiniteSet(inside)
    BY FS_Subset
  <2>3. /\ Cardinality(inside) \in Nat /\ Cardinality(inside') \in Nat
        /\ Cardinality(inside') <= Cardinality(inside)
    BY <2>1, <2>2, FS_Subset, FS_CardinalityType
  <2>4. Cardinality(inside') <= MaxConcurrent
    BY <2>3
  <2> QED
    BY <1>17, <2>4 DEF Exit
<1>18. ASSUME NEW j \in Jobs, ExpireResult(j) PROVE RoomBounded'
  BY <1>18 DEF ExpireResult
<1>19. ASSUME NEW j \in Jobs, ExpireMetrics(j) PROVE RoomBounded'
  BY <1>19 DEF ExpireMetrics
<1>20. CASE Shutdown
  <2>1. inside' = {} /\ Cardinality(inside') <= MaxConcurrent
    BY <1>20, FS_EmptySet DEF Shutdown
  <2> QED
    BY <1>20, <2>1 DEF Shutdown, Cancelled, NoOrphanRun, Live, Finished
<1>21. CASE UNCHANGED vars
  BY <1>21 DEF vars
<1> QED
  BY <1>1, <1>2, <1>3, <1>4, <1>5, <1>6, <1>7, <1>8, <1>9, <1>10, <1>11, <1>12,
     <1>13, <1>14, <1>15, <1>16, <1>17, <1>18, <1>19, <1>20, <1>21
     DEF Next, Handle, Work, Quiet

\* The worker keeps to its limit, and room is never lost (worker.py:122).
THEOREM RoomIsBounded == Spec => []RoomBounded
<1>1. Safe => []Base
  BY TypeInit, TypeStep, PTL DEF Safe, Base
<1>2. Init => RoomBounded
  BY FS_EmptySet DEF Init, RoomBounded, InsideSteps, Progress
<1>3. Safe /\ []Base /\ []NoOrphanRun => []RoomBounded
  BY <1>2, RoomStep, PTL DEF Safe
<1> QED
  BY <1>1, <1>3, OneRunPerJob, PTL DEF Spec

(***************************************************************************)
(* What a poll reads                                                       *)
(***************************************************************************)

\* A run that is about to report COMPLETE has stored its result.
ResultStored ==
    \A r \in Requests : run[r] \in {"metrics", "COMPLETE"} =>
        result[JobOf[r]] # None \/ JobOf[r] \in expired

\* A handler past the first write has written the job's data.
DataWritten == \A r \in Requests : handler[r] \in {"state", "session"} => JobOf[r] \in data

Polled == CompleteHasResult /\ ResultStored /\ FailureHasMessage /\ DataWritten /\ SessionsIsolated

\* Results and messages are written around the state that announces them; nothing but
\* the passing of time takes a result away.
LEMMA PolledStep == Base /\ Polled /\ [Next]_vars => Polled'
<1> SUFFICES ASSUME Base, Polled, [Next]_vars PROVE Polled'
  OBVIOUS
<1> USE DEF Base, TypeOK, Polled, CompleteHasResult, ResultStored, FailureHasMessage, DataWritten,
        SessionsIsolated, Progress, Terminal
<1> USE DEF HandlerTo, RunTo, HasLoop, StoreCall, GoesOn, Waits, store, worker
<1>1. ASSUME NEW r \in Requests, CheckExisting(r) PROVE Polled'
  BY <1>1 DEF CheckExisting
<1>2. ASSUME NEW r \in Requests, WriteData(r) PROVE Polled'
  BY <1>2 DEF WriteData
<1>3. ASSUME NEW r \in Requests, WriteQueued(r) PROVE Polled'
  BY <1>3 DEF WriteQueued
<1>4. ASSUME NEW r \in Requests, WriteSession(r) PROVE Polled'
  BY <1>4 DEF WriteSession
<1>5. ASSUME NEW r \in Requests, Submit(r) PROVE Polled'
  BY <1>5 DEF Submit, InProgress, RunsAreSubmitted
<1>6. ASSUME NEW r \in Requests, EnterAtOnce(r) PROVE Polled'
  BY <1>6 DEF EnterAtOnce
<1>7. ASSUME NEW r \in Requests, WaitForRoom(r) PROVE Polled'
  BY <1>7 DEF WaitForRoom
<1>8. ASSUME NEW r \in Requests, EnterFromQueue(r) PROVE Polled'
  BY <1>8 DEF EnterFromQueue
<1>9. ASSUME NEW r \in Requests, ReportProgress(r) PROVE Polled'
  BY <1>9 DEF ReportProgress, NextStep
<1>10. ASSUME NEW r \in Requests, StartEngine(r) PROVE Polled'
  BY <1>10 DEF StartEngine
<1>11. ASSUME NEW r \in Requests, EngineReturns(r) PROVE Polled'
  BY <1>11 DEF EngineReturns
<1>12. ASSUME NEW r \in Requests, EngineRaises(r) PROVE Polled'
  BY <1>12 DEF EngineRaises
<1>13. ASSUME NEW r \in Requests, StoreResult(r) PROVE Polled'
  BY <1>13 DEF StoreResult
<1>14. ASSUME NEW r \in Requests, StoreMetrics(r) PROVE Polled'
  BY <1>14 DEF StoreMetrics
<1>15. ASSUME NEW r \in Requests, ReportEnd(r) PROVE Polled'
  BY <1>15 DEF ReportEnd
<1>16. ASSUME NEW r \in Requests, StoreError(r) PROVE Polled'
  BY <1>16 DEF StoreError
<1>17. ASSUME NEW r \in Requests, Exit(r) PROVE Polled'
  BY <1>17 DEF Exit
<1>18. ASSUME NEW j \in Jobs, ExpireResult(j) PROVE Polled'
  BY <1>18 DEF ExpireResult
<1>19. ASSUME NEW j \in Jobs, ExpireMetrics(j) PROVE Polled'
  BY <1>19 DEF ExpireMetrics
<1>20. CASE Shutdown
  BY <1>20 DEF Shutdown, Cancelled
<1>21. CASE UNCHANGED vars
  BY <1>21 DEF vars
<1> QED
  BY <1>1, <1>2, <1>3, <1>4, <1>5, <1>6, <1>7, <1>8, <1>9, <1>10, <1>11, <1>12,
     <1>13, <1>14, <1>15, <1>16, <1>17, <1>18, <1>19, <1>20, <1>21
     DEF Next, Handle, Work, Quiet

\* The invariant of what is read, from which the three theorems below follow.
LEMMA PollsAreSound == Spec => []Polled
<1>1. Safe => []Base
  BY TypeInit, TypeStep, PTL DEF Safe, Base
<1>2. Init => Polled
  BY DEF Init, Polled, CompleteHasResult, ResultStored, FailureHasMessage, DataWritten,
        SessionsIsolated, States, Terminal
<1>3. Safe => []Polled
  BY <1>1, <1>2, PolledStep, PTL DEF Safe
<1> QED
  BY <1>3, PTL DEF Spec

\* A job read as COMPLETE has its result, or had it until it expired
\* (worker.py:144-146, job_manager.py:202).
THEOREM ResultsAccompanyComplete == Spec => []CompleteHasResult
<1>1. Polled => CompleteHasResult
  BY DEF Polled
<1> QED
  BY <1>1, PollsAreSound, PTL

\* A job read as FAILED has its message, but between the two writes
\* (job_manager.py:113-116).
THEOREM MessagesAccompanyFailure == Spec => []FailureHasMessage
<1>1. Polled => FailureHasMessage
  BY DEF Polled
<1> QED
  BY <1>1, PollsAreSound, PTL

\* A session owns only jobs that it asked for itself (job_manager.py:90, :176).
THEOREM SessionsAreIsolated == Spec => []SessionsIsolated
<1>1. Polled => SessionsIsolated
  BY DEF Polled
<1> QED
  BY <1>1, PollsAreSound, PTL

(***************************************************************************)
(* The order of the states, with the store in use                          *)
(***************************************************************************)

\* No run, wherever it is, expects to find no state.
LEMMA BeforeType == \A step : None \notin Before(step)
  BY DEF Before, States, Progress, Terminal

\* The loop is held by the handler or run that wrote last.
LEMMA LoopStep == Base /\ NoOrphanRun /\ LoopInv /\ [Next]_vars => LoopInv'
<1> SUFFICES ASSUME Base, NoOrphanRun, LoopInv, [Next]_vars PROVE LoopInv'
  OBVIOUS
<1> USE DEF Base, TypeOK, RunsAreSubmitted, NoOrphanRun, LoopInv, HandlerHasLoop, CheckStillHolds,
        RunsInStep, ProgressIsLive, Live, Finished, Progress, Terminal, States
<1> USE DEF HandlerTo, RunTo, HasLoop, StoreCall, GoesOn, Waits, store, worker
<1>1. ASSUME NEW r \in Requests, CheckExisting(r) PROVE LoopInv'
  BY <1>1 DEF CheckExisting
<1>2. ASSUME NEW r \in Requests, WriteData(r) PROVE LoopInv'
  BY <1>2 DEF WriteData
<1>3. ASSUME NEW r \in Requests, WriteQueued(r) PROVE LoopInv'
  <2> SUFFICES ASSUME ~storeSuspends PROVE (HandlerHasLoop /\ CheckStillHolds /\ RunsInStep /\ ProgressIsLive)'
    BY <1>3 DEF WriteQueued
  <2>1. /\ turn = r /\ turn' = r /\ state[JobOf[r]] = None /\ ~stopped /\ stopped' = stopped
        /\ handler' = [handler EXCEPT ![r] = "session"] /\ run' = run
        /\ state' = [state EXCEPT ![JobOf[r]] = "QUEUED"]
    BY <1>3 DEF WriteQueued
  <2>2. HandlerHasLoop' /\ CheckStillHolds'
    <3>1. \A q \in Requests : q # r => handler[q] \in {"check", "answered"}
      BY <2>1
    <3>2. state'[JobOf[r]] # None
      BY <2>1
    <3> QED
      BY <2>1, <3>1, <3>2
  <2>3. ASSUME NEW q \in Requests, Live(q) PROVE JobOf[q] # JobOf[r]
    BY <2>1, <2>3, BeforeType
  <2>4. RunsInStep'
    BY <2>1, <2>3
  <2>5. ProgressIsLive'
    BY <2>1
  <2> QED
    BY <2>2, <2>4, <2>5
<1>4. ASSUME NEW r \in Requests, WriteSession(r) PROVE LoopInv'
  BY <1>4 DEF WriteSession
<1>5. ASSUME NEW r \in Requests, Submit(r) PROVE LoopInv'
  <2> SUFFICES ASSUME ~storeSuspends PROVE (HandlerHasLoop /\ CheckStillHolds /\ RunsInStep /\ ProgressIsLive)'
    BY <1>5 DEF Submit
  <2>1. /\ turn = r /\ turn' = None /\ state[JobOf[r]] # None /\ ~stopped /\ run[r] = "none"
        /\ handler' = [handler EXCEPT ![r] = "answered"]
        /\ state' = state /\ stopped' = stopped
    BY <1>5 DEF Submit
  <2>2. HandlerHasLoop' /\ CheckStillHolds'
    BY <2>1
  <2>3. CASE InProgress(JobOf[r])
    <3>1. run' = run
      BY <1>5, <2>3 DEF Submit
    <3> QED
      BY <2>1, <2>2, <3>1
  <2>4. CASE ~InProgress(JobOf[r])
    <3>1. run' = [run EXCEPT ![r] = "ready"]
      BY <1>5, <2>4 DEF Submit
    <3>2. state[JobOf[r]] \in {"QUEUED"} \cup Terminal
      BY <2>1, <2>4 DEF InProgress
    <3>3. RunsInStep'
      BY <2>1, <3>1, <3>2 DEF Before
    <3>4. ProgressIsLive'
      BY <2>1, <3>1
    <3> QED
      BY <2>2, <3>3, <3>4
  <2> QED
    BY <2>3, <2>4
<1>6. ASSUME NEW r \in Requests, EnterAtOnce(r) PROVE LoopInv'
  BY <1>6 DEF EnterAtOnce, Before
<1>7. ASSUME NEW r \in Requests, WaitForRoom(r) PROVE LoopInv'
  BY <1>7 DEF WaitForRoom, Before
<1>8. ASSUME NEW r \in Requests, EnterFromQueue(r) PROVE LoopInv'
  BY <1>8 DEF EnterFromQueue, Before
<1>9. ASSUME NEW r \in Requests, ReportProgress(r) PROVE LoopInv'
  <2> SUFFICES ASSUME ~storeSuspends PROVE (HandlerHasLoop /\ CheckStillHolds /\ RunsInStep /\ ProgressIsLive)'
    BY <1>9 DEF ReportProgress
  <2>1. /\ turn \in {r, None} /\ turn' = r /\ run[r] \in Progress /\ handler[r] = "answered"
        /\ handler' = handler /\ stopped' = stopped
        /\ run' = [run EXCEPT ![r] = NextStep[run[r]]]
        /\ state' = [state EXCEPT ![JobOf[r]] = run[r]]
    BY <1>9 DEF ReportProgress
  <2>2. run'[r] \notin Finished /\ run[r] \in Before(run'[r])
    BY <2>1 DEF NextStep, Before
  <2>3. \A q \in Requests : q # r => run'[q] = run[q]
    BY <2>1
  <2>4. HandlerHasLoop' /\ CheckStillHolds'
    <3>1. \A q \in Requests : handler[q] \in {"check", "answered"}
      BY <2>1
    <3> QED
      BY <2>1, <3>1
  <2>5. RunsInStep'
    BY <2>1, <2>2, <2>3
  <2>6. ProgressIsLive'
    BY <2>1, <2>2, <2>3
  <2> QED
    BY <2>4, <2>5, <2>6
<1>10. ASSUME NEW r \in Requests, StartEngine(r) PROVE LoopInv'
  BY <1>10 DEF StartEngine, Before
<1>11. ASSUME NEW r \in Requests, EngineReturns(r) PROVE LoopInv'
  BY <1>11 DEF EngineReturns, Before
<1>12. ASSUME NEW r \in Requests, EngineRaises(r) PROVE LoopInv'
  BY <1>12 DEF EngineRaises, Before
<1>13. ASSUME NEW r \in Requests, StoreResult(r) PROVE LoopInv'
  BY <1>13 DEF StoreResult, Before
<1>14. ASSUME NEW r \in Requests, StoreMetrics(r) PROVE LoopInv'
  BY <1>14 DEF StoreMetrics, Before
<1>15. ASSUME NEW r \in Requests, ReportEnd(r) PROVE LoopInv'
  <2> SUFFICES ASSUME ~storeSuspends PROVE (HandlerHasLoop /\ CheckStillHolds /\ RunsInStep /\ ProgressIsLive)'
    BY <1>15 DEF ReportEnd
  <2>1. /\ turn \in {r, None} /\ turn' = r /\ run[r] \in Terminal /\ handler[r] = "answered"
        /\ handler' = handler /\ stopped' = stopped
        /\ \E next \in {"exit", "error"} : run' = [run EXCEPT ![r] = next]
        /\ state' = [state EXCEPT ![JobOf[r]] = run[r]]
    BY <1>15 DEF ReportEnd
  <2>2. HandlerHasLoop' /\ CheckStillHolds'
    BY <2>1
  <2>3. RunsInStep'
    BY <2>1 DEF Before
  <2>4. ProgressIsLive'
    BY <2>1
  <2> QED
    BY <2>2, <2>3, <2>4
<1>16. ASSUME NEW r \in Requests, StoreError(r) PROVE LoopInv'
  BY <1>16 DEF StoreError, Before
<1>17. ASSUME NEW r \in Requests, Exit(r) PROVE LoopInv'
  <2> SUFFICES ASSUME ~storeSuspends PROVE (HandlerHasLoop /\ CheckStillHolds /\ RunsInStep /\ ProgressIsLive)'
    BY <1>17 DEF Exit
  <2>1. /\ turn \in {r, None} /\ turn' = None /\ run[r] = "exit" /\ handler[r] = "answered"
        /\ handler' = handler /\ stopped' = stopped /\ state' = state
        /\ run' = [run EXCEPT ![r] = "done"]
    BY <1>17 DEF Exit
  <2>2. state[JobOf[r]] \in Terminal
    BY <2>1 DEF Before
  <2>3. HandlerHasLoop' /\ CheckStillHolds' /\ RunsInStep'
    BY <2>1
  <2>4. ProgressIsLive'
    BY <2>1, <2>2
  <2> QED
    BY <2>3, <2>4
<1>18. ASSUME NEW j \in Jobs, ExpireResult(j) PROVE LoopInv'
  BY <1>18 DEF ExpireResult
<1>19. ASSUME NEW j \in Jobs, ExpireMetrics(j) PROVE LoopInv'
  BY <1>19 DEF ExpireMetrics
<1>20. CASE Shutdown
  BY <1>20 DEF Shutdown
<1>21. CASE UNCHANGED vars
  BY <1>21 DEF vars
<1> QED
  BY <1>1, <1>2, <1>3, <1>4, <1>5, <1>6, <1>7, <1>8, <1>9, <1>10, <1>11, <1>12,
     <1>13, <1>14, <1>15, <1>16, <1>17, <1>18, <1>19, <1>20, <1>21
     DEF Next, Handle, Work, Quiet

\* What StagesInOrder asks of a step.
StepsInOrder ==
    ~storeSuspends => \A j \in Jobs :
        state'[j] # state[j] => state'[j] \in Follows(state[j])

\* Each write of a state finds the state it follows.
LEMMA StagesStep == Base /\ NoOrphanRun /\ LoopInv /\ [Next]_vars => StepsInOrder
<1> SUFFICES ASSUME Base, NoOrphanRun, LoopInv, [Next]_vars PROVE StepsInOrder
  OBVIOUS
<1> USE DEF Base, TypeOK, RunsAreSubmitted, NoOrphanRun, LoopInv, HandlerHasLoop, CheckStillHolds,
        RunsInStep, Live, Finished, Progress, Terminal, States, StepsInOrder
<1> USE DEF HandlerTo, RunTo, HasLoop, StoreCall, GoesOn, Waits, store, worker
<1>1. ASSUME NEW r \in Requests, CheckExisting(r) PROVE StepsInOrder
  BY <1>1 DEF CheckExisting
<1>2. ASSUME NEW r \in Requests, WriteData(r) PROVE StepsInOrder
  BY <1>2 DEF WriteData
<1>3. ASSUME NEW r \in Requests, WriteQueued(r) PROVE StepsInOrder
  BY <1>3 DEF WriteQueued, Before, Follows
<1>4. ASSUME NEW r \in Requests, WriteSession(r) PROVE StepsInOrder
  BY <1>4 DEF WriteSession
<1>5. ASSUME NEW r \in Requests, Submit(r) PROVE StepsInOrder
  BY <1>5 DEF Submit
<1>6. ASSUME NEW r \in Requests, EnterAtOnce(r) PROVE StepsInOrder
  BY <1>6 DEF EnterAtOnce
<1>7. ASSUME NEW r \in Requests, WaitForRoom(r) PROVE StepsInOrder
  BY <1>7 DEF WaitForRoom
<1>8. ASSUME NEW r \in Requests, EnterFromQueue(r) PROVE StepsInOrder
  BY <1>8 DEF EnterFromQueue
<1>9. ASSUME NEW r \in Requests, ReportProgress(r) PROVE StepsInOrder
  BY <1>9 DEF ReportProgress, NextStep, Before, Follows
<1>10. ASSUME NEW r \in Requests, StartEngine(r) PROVE StepsInOrder
  BY <1>10 DEF StartEngine
<1>11. ASSUME NEW r \in Requests, EngineReturns(r) PROVE StepsInOrder
  BY <1>11 DEF EngineReturns
<1>12. ASSUME NEW r \in Requests, EngineRaises(r) PROVE StepsInOrder
  BY <1>12 DEF EngineRaises
<1>13. ASSUME NEW r \in Requests, StoreResult(r) PROVE StepsInOrder
  BY <1>13 DEF StoreResult
<1>14. ASSUME NEW r \in Requests, StoreMetrics(r) PROVE StepsInOrder
  BY <1>14 DEF StoreMetrics
<1>15. ASSUME NEW r \in Requests, ReportEnd(r) PROVE StepsInOrder
  BY <1>15 DEF ReportEnd, Before, Follows
<1>16. ASSUME NEW r \in Requests, StoreError(r) PROVE StepsInOrder
  BY <1>16 DEF StoreError
<1>17. ASSUME NEW r \in Requests, Exit(r) PROVE StepsInOrder
  BY <1>17 DEF Exit
<1>18. ASSUME NEW j \in Jobs, ExpireResult(j) PROVE StepsInOrder
  BY <1>18 DEF ExpireResult
<1>19. ASSUME NEW j \in Jobs, ExpireMetrics(j) PROVE StepsInOrder
  BY <1>19 DEF ExpireMetrics
<1>20. CASE Shutdown
  BY <1>20 DEF Shutdown
<1>21. CASE UNCHANGED vars
  BY <1>21 DEF vars
<1> QED
  BY <1>1, <1>2, <1>3, <1>4, <1>5, <1>6, <1>7, <1>8, <1>9, <1>10, <1>11, <1>12,
     <1>13, <1>14, <1>15, <1>16, <1>17, <1>18, <1>19, <1>20, <1>21
     DEF Next, Handle, Work, Quiet

\* With the store in use the states of a job follow one another in order
\* (worker.py:126-146, schemas.py:71), whatever requests arrive meanwhile.
THEOREM StagesFollowInOrder == Spec => StagesInOrder
<1>1. Safe => []Base
  BY TypeInit, TypeStep, PTL DEF Safe, Base
<1>2. Init => LoopInv
  BY DEF Init, LoopInv, HandlerHasLoop, CheckStillHolds, RunsInStep, ProgressIsLive, Live, Finished, Progress, States, Terminal
<1>3. Safe /\ []Base /\ []NoOrphanRun => []LoopInv
  BY <1>2, LoopStep, PTL DEF Safe
<1>4. Safe /\ []Base /\ []NoOrphanRun => StagesInOrder
  BY <1>3, StagesStep, PTL DEF Safe, StagesInOrder, StepsInOrder
<1> QED
  BY <1>1, <1>4, OneRunPerJob, PTL DEF Spec

(***************************************************************************)
(* The worker and the job manager implement JobService                     *)
(***************************************************************************)

Shown == [j \in Jobs |-> IF state[j] \in {None} \cup Terminal THEN state[j] ELSE "RUNNING"]
Stored == {j \in Jobs : result[j] # None}
Workers == [j \in Jobs |-> WorkerOf(j)]

\* The part of WorkerOf that one run decides.
WorkOf(step) ==
    IF step \in {"metrics", "COMPLETE"} THEN "stored"
    ELSE IF step \in Finished \cup {"error", "exit"} THEN "idle" ELSE "working"

\* A job with a run has no other, for both would be its task.
LEMMA OthersRest ==
  ASSUME NoOrphanRun, NEW r \in Requests, Live(r)
  PROVE  \A q \in Requests : q # r /\ JobOf[q] = JobOf[r] => ~Live(q)
BY DEF NoOrphanRun

StepsOf(f, j) == {f[q] : q \in {p \in Requests : JobOf[p] = j}}

Working(steps) ==
    IF steps \cap {"metrics", "COMPLETE"} # {} THEN "stored"
    ELSE IF steps \subseteq Finished \cup {"error", "exit"} THEN "idle" ELSE "working"

\* The one run of a job that is not over decides what its worker is.
LEMMA OneRunDecides ==
  ASSUME NEW f, NEW r \in Requests,
         \A q \in Requests : q # r /\ JobOf[q] = JobOf[r] => f[q] \in Finished
  PROVE  Working(StepsOf(f, JobOf[r])) = WorkOf(f[r])
<1> DEFINE steps == StepsOf(f, JobOf[r])
<1>1. f[r] \in steps /\ \A s \in steps : s = f[r] \/ s \in Finished
  BY DEF StepsOf
<1> HIDE DEF steps
<1>2. steps \cap {"metrics", "COMPLETE"} # {} <=> f[r] \in {"metrics", "COMPLETE"}
  BY <1>1 DEF Finished
<1>3. steps \subseteq Finished \cup {"error", "exit"} <=> f[r] \in Finished \cup {"error", "exit"}
  BY <1>1
<1>4. Working(steps) = WorkOf(f[r])
  BY <1>2, <1>3 DEF Working, WorkOf
<1> QED
  BY <1>4 DEF steps

\* A job whose runs are over has an idle worker.
LEMMA NoRunIsIdle ==
  ASSUME NEW f, NEW j \in Jobs, \A q \in Requests : JobOf[q] = j => f[q] \in Finished
  PROVE  Working(StepsOf(f, j)) = "idle"
<1> DEFINE steps == StepsOf(f, j)
<1>1. \A s \in steps : s \in Finished
  BY DEF StepsOf
<1> HIDE DEF steps
<1>2. steps \cap {"metrics", "COMPLETE"} = {} /\ steps \subseteq Finished \cup {"error", "exit"}
  BY <1>1 DEF Finished
<1>3. Working(steps) = "idle"
  BY <1>2 DEF Working
<1> QED
  BY <1>3 DEF steps

\* WorkerOf in these terms, in a state and in the next.
LEMMA WorkersAreWorking ==
  /\ Workers = [j \in Jobs |-> Working(StepsOf(run, j))]
  /\ Workers' = [j \in Jobs |-> Working(StepsOf(run', j))]
BY Zenon DEF Workers, WorkerOf, Working, StepsOf

\* Only the job of the run that moves has its worker changed.
LEMMA RunMoves ==
  ASSUME Base, NEW r \in Requests, NEW s,
         \A q \in Requests : q # r /\ JobOf[q] = JobOf[r] => ~Live(q),
         run' = [run EXCEPT ![r] = s]
  PROVE  Workers' = [Workers EXCEPT ![JobOf[r]] = WorkOf(s)] /\ Workers[JobOf[r]] = WorkOf(run[r])
<1>1. ASSUME NEW j \in Jobs, j # JobOf[r] PROVE StepsOf(run', j) = StepsOf(run, j)
  BY <1>1 DEF StepsOf, Base, TypeOK
<1>2. \A q \in Requests : q # r /\ JobOf[q] = JobOf[r] => run[q] \in Finished /\ run'[q] \in Finished
  BY DEF Live, Base, TypeOK
<1>3. run'[r] = s
  BY DEF Base, TypeOK
<1>4. Working(StepsOf(run', JobOf[r])) = WorkOf(run'[r])
  BY <1>2, OneRunDecides
<1>5. Working(StepsOf(run, JobOf[r])) = WorkOf(run[r])
  BY <1>2, OneRunDecides
<1>6. JobOf[r] \in Jobs
  OBVIOUS
<1> QED
  BY <1>1, <1>3, <1>4, <1>5, <1>6, WorkersAreWorking

\* A coroutine step of the run of a job leaves the worker as it was when the two steps
\* count as the same work.
LEMMA RunGoesOn ==
  ASSUME Base, NoOrphanRun, NEW r \in Requests, NEW s, Live(r),
         run' = [run EXCEPT ![r] = s], WorkOf(s) = WorkOf(run[r])
  PROVE  Workers' = Workers
<1>1. /\ Workers' = [Workers EXCEPT ![JobOf[r]] = WorkOf(s)]
      /\ Workers[JobOf[r]] = WorkOf(run[r])
  BY OthersRest, RunMoves
<1>2. Workers' = [Workers EXCEPT ![JobOf[r]] = Workers[JobOf[r]]]
  BY <1>1
<1> QED
  BY <1>2 DEF Workers

Allowed == Served!Next \/ UNCHANGED Served!vars

\* The actions of JobService in the terms of JobLifecycle.
LEMMA ServedActions ==
  /\ Shown' = Shown /\ Stored' = Stored /\ Workers' = Workers => Allowed
  /\ \A j \in Jobs :
        /\ Shown[j] = None /\ Shown' = [Shown EXCEPT ![j] = "RUNNING"]
        /\ Stored' = Stored /\ Workers' = Workers
        => Allowed
  /\ \A j \in Jobs :
        /\ Shown[j] \in {"RUNNING"} \cup Terminal /\ Workers[j] = "idle"
        /\ Workers' = [Workers EXCEPT ![j] = "working"]
        /\ Shown' = Shown /\ Stored' = Stored
        => Allowed
  /\ \A j \in Jobs :
        /\ Workers[j] = "working" /\ Shown' = [Shown EXCEPT ![j] = "RUNNING"]
        /\ Stored' = Stored /\ Workers' = Workers
        => Allowed
  /\ \A j \in Jobs :
        /\ Workers[j] = "working" /\ Shown[j] = "RUNNING" /\ Stored' = Stored \cup {j}
        /\ Workers' = [Workers EXCEPT ![j] = "stored"] /\ Shown' = Shown
        => Allowed
  /\ \A j \in Jobs :
        /\ Workers[j] = "stored" /\ Shown' = [Shown EXCEPT ![j] = "COMPLETE"]
        /\ Workers' = [Workers EXCEPT ![j] = "idle"] /\ Stored' = Stored
        => Allowed
  /\ \A j \in Jobs :
        /\ Workers[j] # "idle" /\ Shown' = [Shown EXCEPT ![j] = "FAILED"]
        /\ Workers' = [Workers EXCEPT ![j] = "idle"] /\ Stored' = Stored
        => Allowed
  /\ \A J \in SUBSET Jobs : Stored' = Stored \ J /\ Shown' = Shown /\ Workers' = Workers => Allowed
  /\ Workers' = [j \in Jobs |-> "idle"] /\ Shown' = Shown /\ Stored' = Stored => Allowed
<1> USE DEF Allowed, Served!Next
<1>1. Shown' = Shown /\ Stored' = Stored /\ Workers' = Workers => Allowed
  BY Zenon DEF Served!vars, Shown, Stored, Workers
<1>2. ASSUME NEW j \in Jobs, Shown[j] = None, Shown' = [Shown EXCEPT ![j] = "RUNNING"],
             Stored' = Stored, Workers' = Workers
      PROVE  Allowed
  BY <1>2, Zenon DEF Served!Create, Shown, Stored, Workers
<1>3. ASSUME NEW j \in Jobs, Shown[j] \in {"RUNNING"} \cup Terminal, Workers[j] = "idle",
             Workers' = [Workers EXCEPT ![j] = "working"], Shown' = Shown, Stored' = Stored
      PROVE  Allowed
  <2>1. Shown' = [Shown EXCEPT ![j] = IF Shown[j] = None THEN "RUNNING" ELSE Shown[j]]
    <3>1. Shown[j] = "RUNNING" \/ Shown[j] # None
      BY <1>3 DEF Terminal, States
    <3>2. Shown' = [Shown EXCEPT ![j] = Shown[j]]
      BY <1>3 DEF Shown
    <3> QED
      BY <3>1, <3>2
  <2>2. Workers' = [Workers EXCEPT ![j] = IF Workers[j] = "idle" THEN "working" ELSE Workers[j]]
    BY <1>3
  <2> QED
    BY <1>3, <2>1, <2>2, Zenon DEF Served!Submit, Shown, Stored, Workers
<1>4. ASSUME NEW j \in Jobs, Workers[j] = "working", Shown' = [Shown EXCEPT ![j] = "RUNNING"],
             Stored' = Stored, Workers' = Workers
      PROVE  Allowed
  BY <1>4, Zenon DEF Served!Progress, Shown, Stored, Workers
<1>5. ASSUME NEW j \in Jobs, Workers[j] = "working", Shown[j] = "RUNNING", Stored' = Stored \cup {j},
             Workers' = [Workers EXCEPT ![j] = "stored"], Shown' = Shown
      PROVE  Allowed
  BY <1>5, Zenon DEF Served!StoreResult, Shown, Stored, Workers
<1>6. ASSUME NEW j \in Jobs, Workers[j] = "stored", Shown' = [Shown EXCEPT ![j] = "COMPLETE"],
             Workers' = [Workers EXCEPT ![j] = "idle"], Stored' = Stored
      PROVE  Allowed
  BY <1>6, Zenon DEF Served!Complete, Shown, Stored, Workers
<1>7. ASSUME NEW j \in Jobs, Workers[j] # "idle", Shown' = [Shown EXCEPT ![j] = "FAILED"],
             Workers' = [Workers EXCEPT ![j] = "idle"], Stored' = Stored
      PROVE  Allowed
  BY <1>7, Zenon DEF Served!Fail, Shown, Stored, Workers
<1>8. ASSUME NEW J \in SUBSET Jobs, Stored' = Stored \ J, Shown' = Shown, Workers' = Workers
      PROVE  Allowed
  BY <1>8, Zenon DEF Served!Expire, Shown, Stored, Workers
<1>9. ASSUME Workers' = [j \in Jobs |-> "idle"], Shown' = Shown, Stored' = Stored
      PROVE  Allowed
  BY <1>9, Zenon DEF Served!Stop, Shown, Stored, Workers
<1> QED
  BY <1>1, <1>2, <1>3, <1>4, <1>5, <1>6, <1>7, <1>8, <1>9, Zenon

\* With the store in use every step is one that JobService allows.
LEMMA ServedStep == Base /\ NoOrphanRun /\ LoopInv /\ ~storeSuspends /\ [Next]_vars => Allowed
<1> SUFFICES ASSUME Base, NoOrphanRun, LoopInv, ~storeSuspends, [Next]_vars PROVE Allowed
  OBVIOUS
<1> USE DEF HandlerTo, RunTo, HasLoop, StoreCall, GoesOn, Waits, store, worker
<1>1. ASSUME NEW r \in Requests, CheckExisting(r) PROVE Allowed
  <2>1. Shown' = Shown /\ Stored' = Stored /\ Workers' = Workers
    BY <1>1 DEF CheckExisting, Shown, Stored, Workers, WorkerOf
  <2> QED
    BY <2>1, ServedActions, Zenon
<1>2. ASSUME NEW r \in Requests, WriteData(r) PROVE Allowed
  <2>1. Shown' = Shown /\ Stored' = Stored /\ Workers' = Workers
    BY <1>2 DEF WriteData, Shown, Stored, Workers, WorkerOf
  <2> QED
    BY <2>1, ServedActions, Zenon
<1>3. ASSUME NEW r \in Requests, WriteQueued(r) PROVE Allowed
  <2>1. /\ state[JobOf[r]] = None /\ JobOf[r] \in Jobs
        /\ state' = [state EXCEPT ![JobOf[r]] = "QUEUED"] /\ state \in [Jobs -> States \cup {None}]
    BY <1>3 DEF WriteQueued, Base, TypeOK, LoopInv, CheckStillHolds
  <2>2. Shown[JobOf[r]] = None /\ Shown' = [Shown EXCEPT ![JobOf[r]] = "RUNNING"]
    BY <2>1 DEF Shown, Terminal, States
  <2>3. Stored' = Stored /\ Workers' = Workers
    BY <1>3 DEF WriteQueued, Stored, Workers, WorkerOf
  <2> QED
    BY <2>1, <2>2, <2>3, ServedActions, Zenon
<1>4. ASSUME NEW r \in Requests, WriteSession(r) PROVE Allowed
  <2>1. Shown' = Shown /\ Stored' = Stored /\ Workers' = Workers
    BY <1>4 DEF WriteSession, Shown, Stored, Workers, WorkerOf
  <2> QED
    BY <2>1, ServedActions, Zenon
<1>5. ASSUME NEW r \in Requests, Submit(r) PROVE Allowed
  <2>1. /\ Shown' = Shown /\ Stored' = Stored /\ JobOf[r] \in Jobs
        /\ run[r] = "none" /\ state[JobOf[r]] # None
    BY <1>5 DEF Submit, Shown, Stored, LoopInv, CheckStillHolds, Base, RunsAreSubmitted, TypeOK
  <2>2. CASE InProgress(JobOf[r])
    <3>1. Workers' = Workers
      BY <1>5, <2>2 DEF Submit, Workers, WorkerOf
    <3> QED
      BY <2>1, <3>1, ServedActions, Zenon
  <2>3. CASE ~InProgress(JobOf[r])
    <3>1. run' = [run EXCEPT ![r] = "ready"]
      BY <1>5, <2>3 DEF Submit
    <3>2. \A q \in Requests : q # r /\ JobOf[q] = JobOf[r] => ~Live(q)
      BY <2>3 DEF InProgress, NoOrphanRun, Live
    <3>3. /\ Workers' = [Workers EXCEPT ![JobOf[r]] = WorkOf("ready")]
          /\ Workers[JobOf[r]] = WorkOf(run[r])
      BY <3>1, <3>2, RunMoves
    <3>4. WorkOf("ready") = "working" /\ WorkOf(run[r]) = "idle"
      BY <2>1 DEF WorkOf, Finished
    <3>5. Shown[JobOf[r]] \in {"RUNNING"} \cup Terminal
      BY <2>1 DEF Shown
    <3> QED
      BY <2>1, <3>3, <3>4, <3>5, ServedActions, Zenon
  <2> QED
    BY <2>2, <2>3
<1>6. ASSUME NEW r \in Requests, EnterAtOnce(r) PROVE Allowed
  <2>1. /\ Shown' = Shown /\ Stored' = Stored
        /\ run[r] = "ready"
        /\ run' = [run EXCEPT ![r] = "PARSING"]
    BY <1>6 DEF EnterAtOnce, Shown, Stored
  <2>2. Live(r) /\ WorkOf("PARSING") = WorkOf(run[r])
    BY <2>1 DEF Live, Finished, WorkOf
  <2>3. Workers' = Workers
    BY <2>1, <2>2, RunGoesOn
  <2> QED
    BY <2>1, <2>3, ServedActions, Zenon
<1>7. ASSUME NEW r \in Requests, WaitForRoom(r) PROVE Allowed
  <2>1. /\ Shown' = Shown /\ Stored' = Stored
        /\ run[r] = "ready"
        /\ run' = [run EXCEPT ![r] = "queued"]
    BY <1>7 DEF WaitForRoom, Shown, Stored
  <2>2. Live(r) /\ WorkOf("queued") = WorkOf(run[r])
    BY <2>1 DEF Live, Finished, WorkOf
  <2>3. Workers' = Workers
    BY <2>1, <2>2, RunGoesOn
  <2> QED
    BY <2>1, <2>3, ServedActions, Zenon
<1>8. ASSUME NEW r \in Requests, EnterFromQueue(r) PROVE Allowed
  <2>1. /\ Shown' = Shown /\ Stored' = Stored
        /\ run[r] = "queued"
        /\ run' = [run EXCEPT ![r] = "PARSING"]
    BY <1>8 DEF EnterFromQueue, Shown, Stored
  <2>2. Live(r) /\ WorkOf("PARSING") = WorkOf(run[r])
    BY <2>1 DEF Live, Finished, WorkOf
  <2>3. Workers' = Workers
    BY <2>1, <2>2, RunGoesOn
  <2> QED
    BY <2>1, <2>3, ServedActions, Zenon
<1>9. ASSUME NEW r \in Requests, ReportProgress(r) PROVE Allowed
  <2>1. /\ run[r] \in Progress /\ JobOf[r] \in Jobs
        /\ run' = [run EXCEPT ![r] = NextStep[run[r]]]
        /\ state' = [state EXCEPT ![JobOf[r]] = run[r]]
    BY <1>9 DEF ReportProgress
  <2>2. Live(r) /\ WorkOf(NextStep[run[r]]) = "working" /\ WorkOf(run[r]) = "working"
    BY <2>1 DEF Live, Finished, Progress, NextStep, WorkOf
  <2>3. Workers' = Workers
    BY <2>1, <2>2, RunGoesOn
  <2>4. Workers[JobOf[r]] = "working"
    BY <2>1, <2>2, OthersRest, RunMoves
  <2>5. Shown' = [Shown EXCEPT ![JobOf[r]] = "RUNNING"]
    BY <2>1 DEF Shown, Base, TypeOK, States, Progress, Terminal
  <2>6. Stored' = Stored
    BY <1>9 DEF ReportProgress, Stored
  <2> QED
    BY <2>1, <2>3, <2>4, <2>5, <2>6, ServedActions, Zenon
<1>10. ASSUME NEW r \in Requests, StartEngine(r) PROVE Allowed
  <2>1. /\ Shown' = Shown /\ Stored' = Stored
        /\ run[r] = "engine"
        /\ run' = [run EXCEPT ![r] = "analyzing"]
    BY <1>10 DEF StartEngine, Shown, Stored
  <2>2. Live(r) /\ WorkOf("analyzing") = WorkOf(run[r])
    BY <2>1 DEF Live, Finished, WorkOf
  <2>3. Workers' = Workers
    BY <2>1, <2>2, RunGoesOn
  <2> QED
    BY <2>1, <2>3, ServedActions, Zenon
<1>11. ASSUME NEW r \in Requests, EngineReturns(r) PROVE Allowed
  <2>1. /\ Shown' = Shown /\ Stored' = Stored
        /\ run[r] = "analyzing"
        /\ run' = [run EXCEPT ![r] = "VALIDATING"]
    BY <1>11 DEF EngineReturns, Shown, Stored
  <2>2. Live(r) /\ WorkOf("VALIDATING") = WorkOf(run[r])
    BY <2>1 DEF Live, Finished, WorkOf
  <2>3. Workers' = Workers
    BY <2>1, <2>2, RunGoesOn
  <2> QED
    BY <2>1, <2>3, ServedActions, Zenon
<1>12. ASSUME NEW r \in Requests, EngineRaises(r) PROVE Allowed
  <2>1. /\ Shown' = Shown /\ Stored' = Stored
        /\ run[r] = "analyzing"
        /\ run' = [run EXCEPT ![r] = "failedMetrics"]
    BY <1>12 DEF EngineRaises, Shown, Stored
  <2>2. Live(r) /\ WorkOf("failedMetrics") = WorkOf(run[r])
    BY <2>1 DEF Live, Finished, WorkOf
  <2>3. Workers' = Workers
    BY <2>1, <2>2, RunGoesOn
  <2> QED
    BY <2>1, <2>3, ServedActions, Zenon
<1>13. ASSUME NEW r \in Requests, StoreResult(r) PROVE Allowed
  <2>1. /\ run[r] = "result" /\ JobOf[r] \in Jobs
        /\ run' = [run EXCEPT ![r] = "metrics"] /\ result' = [result EXCEPT ![JobOf[r]] = r]
        /\ Shown' = Shown
    BY <1>13 DEF StoreResult, Shown
  <2>2. Live(r) /\ WorkOf("metrics") = "stored" /\ WorkOf(run[r]) = "working"
    BY <2>1 DEF Live, Finished, WorkOf
  <2>3. Workers' = [Workers EXCEPT ![JobOf[r]] = "stored"] /\ Workers[JobOf[r]] = "working"
    BY <2>1, <2>2, OthersRest, RunMoves
  <2>4. Shown[JobOf[r]] = "RUNNING"
    <3>1. state[JobOf[r]] = "VALIDATING"
      BY <2>1, <2>2 DEF LoopInv, RunsInStep, Before, Progress
    <3> QED
      BY <2>1, <3>1 DEF Shown, Terminal, States, Progress
  <2>5. Stored' = Stored \cup {JobOf[r]}
    BY <2>1 DEF Stored, Base, TypeOK
  <2> QED
    BY <2>1, <2>3, <2>4, <2>5, ServedActions, Zenon
<1>14. ASSUME NEW r \in Requests, StoreMetrics(r) PROVE Allowed
  <2>1. /\ Shown' = Shown /\ Stored' = Stored
        /\ \/ run[r] = "metrics" /\ run' = [run EXCEPT ![r] = "COMPLETE"]
           \/ run[r] = "failedMetrics" /\ run' = [run EXCEPT ![r] = "FAILED"]
    BY <1>14 DEF StoreMetrics, Shown, Stored
  <2>2. Workers' = Workers
    <3>1. CASE run[r] = "metrics" /\ run' = [run EXCEPT ![r] = "COMPLETE"]
      <4>1. Live(r) /\ WorkOf("COMPLETE") = WorkOf(run[r])
        BY <3>1 DEF Live, Finished, WorkOf
      <4> QED
        BY <3>1, <4>1, RunGoesOn
    <3>2. CASE run[r] = "failedMetrics" /\ run' = [run EXCEPT ![r] = "FAILED"]
      <4>1. Live(r) /\ WorkOf("FAILED") = WorkOf(run[r])
        BY <3>2 DEF Live, Finished, WorkOf
      <4> QED
        BY <3>2, <4>1, RunGoesOn
    <3> QED
      BY <2>1, <3>1, <3>2
  <2> QED
    BY <2>1, <2>2, ServedActions, Zenon
<1>15. ASSUME NEW r \in Requests, ReportEnd(r) PROVE Allowed
  <2>1. /\ Stored' = Stored /\ JobOf[r] \in Jobs
        /\ state' = [state EXCEPT ![JobOf[r]] = run[r]]
        /\ \/ run[r] = "COMPLETE" /\ run' = [run EXCEPT ![r] = "exit"]
           \/ run[r] = "FAILED" /\ run' = [run EXCEPT ![r] = "error"]
    BY <1>15 DEF ReportEnd, Stored, Terminal
  <2>2. Shown' = [Shown EXCEPT ![JobOf[r]] = run[r]]
    BY <2>1 DEF Shown, Base, TypeOK, Terminal
  <2>3. CASE run[r] = "COMPLETE" /\ run' = [run EXCEPT ![r] = "exit"]
    <3>1. Live(r) /\ WorkOf("exit") = "idle" /\ WorkOf(run[r]) = "stored"
      BY <2>3 DEF Live, Finished, WorkOf
    <3>2. Workers' = [Workers EXCEPT ![JobOf[r]] = "idle"] /\ Workers[JobOf[r]] = "stored"
      BY <2>3, <3>1, OthersRest, RunMoves
    <3> QED
      BY <2>1, <2>2, <2>3, <3>2, ServedActions, Zenon
  <2>4. CASE run[r] = "FAILED" /\ run' = [run EXCEPT ![r] = "error"]
    <3>1. Live(r) /\ WorkOf("error") = "idle" /\ WorkOf(run[r]) = "working"
      BY <2>4 DEF Live, Finished, WorkOf
    <3>2. Workers' = [Workers EXCEPT ![JobOf[r]] = "idle"] /\ Workers[JobOf[r]] # "idle"
      BY <2>4, <3>1, OthersRest, RunMoves
    <3> QED
      BY <2>1, <2>2, <2>4, <3>2, ServedActions, Zenon
  <2> QED
    BY <2>1, <2>3, <2>4
<1>16. ASSUME NEW r \in Requests, StoreError(r) PROVE Allowed
  <2>1. /\ Shown' = Shown /\ Stored' = Stored
        /\ run[r] = "error"
        /\ run' = [run EXCEPT ![r] = "exit"]
    BY <1>16 DEF StoreError, Shown, Stored
  <2>2. Live(r) /\ WorkOf("exit") = WorkOf(run[r])
    BY <2>1 DEF Live, Finished, WorkOf
  <2>3. Workers' = Workers
    BY <2>1, <2>2, RunGoesOn
  <2> QED
    BY <2>1, <2>3, ServedActions, Zenon
<1>17. ASSUME NEW r \in Requests, Exit(r) PROVE Allowed
  <2>1. /\ Shown' = Shown /\ Stored' = Stored
        /\ run[r] = "exit"
        /\ run' = [run EXCEPT ![r] = "done"]
    BY <1>17 DEF Exit, Shown, Stored
  <2>2. Live(r) /\ WorkOf("done") = WorkOf(run[r])
    BY <2>1 DEF Live, Finished, WorkOf
  <2>3. Workers' = Workers
    BY <2>1, <2>2, RunGoesOn
  <2> QED
    BY <2>1, <2>3, ServedActions, Zenon
<1>18. ASSUME NEW j \in Jobs, ExpireResult(j) PROVE Allowed
  <2>1. Shown' = Shown /\ Workers' = Workers
    BY <1>18 DEF ExpireResult, Shown, Workers, WorkerOf
  <2>2. Stored' = Stored \ {j} /\ {j} \in SUBSET Jobs
    BY <1>18 DEF ExpireResult, Stored, Base, TypeOK
  <2> QED
    BY <2>1, <2>2, ServedActions, Zenon
<1>19. ASSUME NEW j \in Jobs, ExpireMetrics(j) PROVE Allowed
  <2>1. Shown' = Shown /\ Stored' = Stored /\ Workers' = Workers
    BY <1>19 DEF ExpireMetrics, Shown, Stored, Workers, WorkerOf
  <2> QED
    BY <2>1, ServedActions, Zenon
<1>20. CASE Shutdown
  <2>1. Shown' = Shown /\ Stored' = Stored
    BY <1>20 DEF Shutdown, Shown, Stored
  <2>2. \A r \in Requests : run'[r] \in Finished
    <3>1. \A r \in Requests : Cancelled(r) \/ run[r] \in Finished
      BY DEF Cancelled, NoOrphanRun, Live
    <3> QED
      BY <1>20, <3>1 DEF Shutdown, Finished
  <2>3. \A j \in Jobs : Working(StepsOf(run', j)) = "idle"
    BY <2>2, NoRunIsIdle
  <2>4. Workers' = [j \in Jobs |-> "idle"]
    BY <2>3, WorkersAreWorking
  <2> QED
    BY <2>1, <2>4, ServedActions, Zenon
<1>21. CASE UNCHANGED vars
  <2>1. Shown' = Shown /\ Stored' = Stored /\ Workers' = Workers
    BY <1>21 DEF vars, Shown, Stored, Workers, WorkerOf
  <2> QED
    BY <2>1, ServedActions, Zenon
<1> QED
  BY <1>1, <1>2, <1>3, <1>4, <1>5, <1>6, <1>7, <1>8, <1>9, <1>10, <1>11, <1>12,
     <1>13, <1>14, <1>15, <1>16, <1>17, <1>18, <1>19, <1>20, <1>21
     DEF Next, Handle, Work, Quiet

\* With the store in use, whoever polls sees what JobService promises: a job on its way,
\* its end when its worker has stored a result or failed (worker.py:122-166,
\* job_manager.py:187-222).
THEOREM JobsAreServed == Spec => ImplementsJobService
<1>1. Init => Served!Init
  <2> SUFFICES ASSUME Init PROVE Served!Init
    OBVIOUS
  <2>1. Workers = [j \in Jobs |-> "idle"]
    <3>1. \A r \in Requests : run[r] \in Finished
      BY DEF Init, Finished
    <3>2. \A j \in Jobs : Working(StepsOf(run, j)) = "idle"
      BY <3>1, NoRunIsIdle
    <3> QED
      BY <3>2, WorkersAreWorking
  <2>2. Shown = [j \in Jobs |-> None] /\ Stored = {}
    BY DEF Init, Shown, Stored
  <2> QED
    BY <2>1, <2>2, Zenon DEF Served!Init, Shown, Stored, Workers
<1>2. Safe => []Base
  BY TypeInit, TypeStep, PTL DEF Safe, Base
<1>3. Init => LoopInv
  BY DEF Init, LoopInv, HandlerHasLoop, CheckStillHolds, RunsInStep, ProgressIsLive, Live, Finished, Progress, States, Terminal
<1>4. Safe /\ []Base /\ []NoOrphanRun => []LoopInv
  BY <1>3, LoopStep, PTL DEF Safe
<1>5. ~storeSuspends /\ [Next]_vars => (~storeSuspends)'
  BY DEF vars, Next, Handle, Work, Quiet, Shutdown, CheckExisting, WriteData, WriteQueued, WriteSession,
     Submit, EnterAtOnce, WaitForRoom, EnterFromQueue, ReportProgress, StartEngine, EngineReturns,
     EngineRaises, StoreResult, StoreMetrics, ReportEnd, StoreError, Exit, ExpireResult, ExpireMetrics
<1>6. Safe /\ ~storeSuspends => []~storeSuspends
  BY <1>5, PTL DEF Safe
<1>7. Base /\ NoOrphanRun /\ LoopInv /\ ~storeSuspends /\ [Next]_vars => [Served!Next]_(Served!vars)
  BY ServedStep DEF Allowed
<1>8. Safe /\ []Base /\ []NoOrphanRun /\ []LoopInv /\ ~storeSuspends => Served!Spec
  BY <1>1, <1>6, <1>7, PTL DEF Safe, Served!Spec
<1> QED
  BY <1>2, <1>4, <1>8, OneRunPerJob, PTL DEF Spec, ImplementsJobService

(***************************************************************************)
(* Nobody waits for ever, and nothing goes on for ever                      *)
(***************************************************************************)

\* A run that waits for room stands in the queue.
QueuedWait == \A r \in Requests : run[r] = "queued" => \E i \in DOMAIN waiters : waiters[i] = r

\* The handler of a request that has begun, or its run, has a step that it may take now.
MayGoOn(r) ==
    \/ handler[r] \notin {"check", "answered"}
    \/ run[r] \notin Finished \cup {"queued"}
    \/ run[r] = "queued" /\ HasRoom /\ waiters # <<>> /\ Head(waiters) = r

CanStep(r) == HasLoop(r) /\ MayGoOn(r)

\* Whoever has the event loop has something to do with it.
TurnGoesOn == turn # None => turn \in Requests /\ MayGoOn(turn)

\* While a request is being answered or a run is under way, some coroutine can go on.
NeverStuck ==
    (\E r \in Requests : handler[r] \notin {"check", "answered"} \/ Live(r)) =>
        \E r \in Requests : CanStep(r)

Waiting == QueuedWait /\ TurnGoesOn

\* Who enters the queue stands in it until it is given its place or cancelled, and the
\* loop is given up before a wait.
LEMMA WaitingStep == Base /\ NoOrphanRun /\ Waiting /\ [Next]_vars => Waiting'
<1> SUFFICES ASSUME Base, NoOrphanRun, Waiting, [Next]_vars PROVE Waiting'
  OBVIOUS
<1> USE DEF Base, TypeOK, Waiting, QueuedWait, TurnGoesOn, MayGoOn, Finished, Progress, Terminal
<1> USE DEF HandlerTo, RunTo, HasLoop, StoreCall, GoesOn, Waits, store, worker
<1>1. ASSUME NEW r \in Requests, CheckExisting(r) PROVE Waiting'
  BY <1>1 DEF CheckExisting
<1>2. ASSUME NEW r \in Requests, WriteData(r) PROVE Waiting'
  BY <1>2 DEF WriteData
<1>3. ASSUME NEW r \in Requests, WriteQueued(r) PROVE Waiting'
  BY <1>3 DEF WriteQueued
<1>4. ASSUME NEW r \in Requests, WriteSession(r) PROVE Waiting'
  BY <1>4 DEF WriteSession
<1>5. ASSUME NEW r \in Requests, Submit(r) PROVE Waiting'
  BY <1>5 DEF Submit, RunsAreSubmitted
<1>6. ASSUME NEW r \in Requests, EnterAtOnce(r) PROVE Waiting'
  BY <1>6 DEF EnterAtOnce
<1>7. ASSUME NEW r \in Requests, WaitForRoom(r) PROVE Waiting'
  <2>1. /\ waiters \in Seq(Requests) /\ waiters' = Append(waiters, r) /\ turn' = None
        /\ run' = [run EXCEPT ![r] = "queued"]
    BY <1>7 DEF WaitForRoom
  <2>2. /\ DOMAIN waiters' = DOMAIN waiters \cup {Len(waiters) + 1}
        /\ \A i \in DOMAIN waiters : waiters'[i] = waiters[i]
        /\ waiters'[Len(waiters) + 1] = r
    BY <2>1
  <2> QED
    BY <2>1, <2>2
<1>8. ASSUME NEW r \in Requests, EnterFromQueue(r) PROVE Waiting'
  <2>1. /\ waiters \in Seq(Requests) /\ waiters # <<>> /\ Head(waiters) = r
        /\ waiters' = Tail(waiters) /\ turn' = r
        /\ run' = [run EXCEPT ![r] = "PARSING"]
    BY <1>8 DEF EnterFromQueue
  <2>2. /\ DOMAIN waiters = 1..Len(waiters) /\ DOMAIN waiters' = 1..(Len(waiters) - 1)
        /\ Len(waiters) \in Nat /\ waiters[1] = r
        /\ \A i \in 1..(Len(waiters) - 1) : waiters'[i] = waiters[i + 1]
    BY <2>1
  <2>3. ASSUME NEW q \in Requests, run'[q] = "queued" PROVE \E i \in DOMAIN waiters' : waiters'[i] = q
    <3>1. q # r /\ run[q] = "queued"
      BY <2>1, <2>3
    <3>2. PICK i \in DOMAIN waiters : waiters[i] = q
      BY <3>1
    <3>3. i \in 2..Len(waiters) /\ i - 1 \in 1..(Len(waiters) - 1)
      BY <2>2, <3>1, <3>2
    <3>4. waiters'[i - 1] = waiters[(i - 1) + 1] /\ (i - 1) + 1 = i
      BY <2>2, <3>3
    <3> QED
      BY <2>2, <3>2, <3>3, <3>4
  <2> QED
    BY <2>1, <2>3
<1>9. ASSUME NEW r \in Requests, ReportProgress(r) PROVE Waiting'
  BY <1>9 DEF ReportProgress, NextStep
<1>10. ASSUME NEW r \in Requests, StartEngine(r) PROVE Waiting'
  BY <1>10 DEF StartEngine
<1>11. ASSUME NEW r \in Requests, EngineReturns(r) PROVE Waiting'
  BY <1>11 DEF EngineReturns
<1>12. ASSUME NEW r \in Requests, EngineRaises(r) PROVE Waiting'
  BY <1>12 DEF EngineRaises
<1>13. ASSUME NEW r \in Requests, StoreResult(r) PROVE Waiting'
  BY <1>13 DEF StoreResult
<1>14. ASSUME NEW r \in Requests, StoreMetrics(r) PROVE Waiting'
  BY <1>14 DEF StoreMetrics
<1>15. ASSUME NEW r \in Requests, ReportEnd(r) PROVE Waiting'
  BY <1>15 DEF ReportEnd
<1>16. ASSUME NEW r \in Requests, StoreError(r) PROVE Waiting'
  BY <1>16 DEF StoreError
<1>17. ASSUME NEW r \in Requests, Exit(r) PROVE Waiting'
  BY <1>17 DEF Exit
<1>18. ASSUME NEW j \in Jobs, ExpireResult(j) \/ ExpireMetrics(j) PROVE Waiting'
  BY <1>18 DEF ExpireResult, ExpireMetrics, HasRoom
<1>19. CASE Shutdown
  BY <1>19 DEF Shutdown, Cancelled, NoOrphanRun, Live
<1>20. CASE UNCHANGED vars
  BY <1>20 DEF vars, HasRoom
<1> QED
  BY <1>1, <1>2, <1>3, <1>4, <1>5, <1>6, <1>7, <1>8, <1>9, <1>10, <1>11, <1>12,
     <1>13, <1>14, <1>15, <1>16, <1>17, <1>18, <1>19, <1>20
     DEF Next, Handle, Work, Quiet

\* When all runs wait nobody is inside, and there is room for the head of the queue.
LEMMA SomeoneGoesOn == Base /\ RoomBounded /\ Waiting => NeverStuck
<1> SUFFICES ASSUME Base, RoomBounded, Waiting,
                    NEW r \in Requests, handler[r] \notin {"check", "answered"} \/ Live(r)
             PROVE  \E q \in Requests : CanStep(q)
  BY DEF NeverStuck
<1>1. CASE turn # None
  BY <1>1 DEF Waiting, TurnGoesOn, CanStep, HasLoop
<1>2. CASE turn = None /\ \E q \in Requests : Live(q) /\ run[q] # "queued"
  BY <1>2 DEF CanStep, HasLoop, MayGoOn, Live
<1>3. CASE turn = None /\ \A q \in Requests : Live(q) => run[q] = "queued"
  <2>1. CASE Live(r)
    <3>1. inside = {}
      BY <1>3 DEF RoomBounded, InsideSteps, Progress, Live, Finished, Base, TypeOK
    <3>2. HasRoom
      BY <3>1, FS_EmptySet DEF HasRoom
    <3>3. PICK i \in DOMAIN waiters : waiters[i] = r
      BY <1>3, <2>1 DEF Waiting, QueuedWait
    <3>4. waiters # <<>> /\ Head(waiters) = waiters[1] /\ 1 \in DOMAIN waiters /\ waiters[1] \in Requests
      BY <3>3 DEF Base, TypeOK
    <3>5. run[waiters[1]] = "queued"
      BY <3>4 DEF Base, TypeOK
    <3> QED
      BY <1>3, <3>2, <3>4, <3>5 DEF CanStep, HasLoop, MayGoOn
  <2>2. CASE ~Live(r)
    BY <1>3, <2>2 DEF CanStep, HasLoop, MayGoOn
  <2> QED
    BY <2>1, <2>2
<1> QED
  BY <1>1, <1>2, <1>3

\* The handlers and the runs never all wait for each other: neither for the event loop nor
\* for the worker's semaphore, whose places a run that waits does not hold (worker.py:122).
THEOREM NeverDeadlocked == Spec => []NeverStuck
<1>1. Safe => []Base
  BY TypeInit, TypeStep, PTL DEF Safe, Base
<1>2. Init => Waiting
  BY DEF Init, Waiting, QueuedWait, TurnGoesOn
<1>3. Safe /\ []Base /\ []NoOrphanRun => []Waiting
  BY <1>2, WaitingStep, PTL DEF Safe
<1>4. Base /\ RoomBounded /\ Waiting => NeverStuck
  BY SomeoneGoesOn
<1> QED
  BY <1>1, <1>3, <1>4, OneRunPerJob, RoomIsBounded, PTL DEF Spec

\* The steps that a request has before it, its run's included.
HandlerStage == [check |-> 20, data |-> 19, state |-> 18, session |-> 17, submit |-> 16]
RunStage == [ready |-> 15, queued |-> 14, PARSING |-> 13, INDEXING |-> 12, MATCHING |-> 11,
             ANALYZING |-> 10, engine |-> 9, analyzing |-> 8, VALIDATING |-> 7, result |-> 6,
             metrics |-> 5, failedMetrics |-> 4, COMPLETE |-> 4, FAILED |-> 3, error |-> 2,
             exit |-> 1, none |-> 0, done |-> 0, cancelled |-> 0]

StepsLeft(r) ==
    IF handler[r] = "answered" THEN RunStage[run[r]] ELSE HandlerStage[handler[r]]

\* A step of a request brings it nearer to its end, and no step of another takes it back.
StepComesNearer ==
    /\ \A r \in Requests : StepsLeft(r)' <= StepsLeft(r)
    /\ \A r \in Requests : Handle(r) \/ Work(r) => StepsLeft(r)' < StepsLeft(r)

LEMMA StepsAreNatural == TypeOK => \A r \in Requests : StepsLeft(r) \in 0..20
BY DEF TypeOK, StepsLeft, HandlerStage, RunStage, Progress, Terminal

\* A step of the handler or the run of one request, in terms of its stages.
LEMMA MoveComesNearer ==
  ASSUME Base, NEW r \in Requests, NEW h, NEW s,
         handler' = [handler EXCEPT ![r] = h], run' = [run EXCEPT ![r] = s],
         TypeOK',
         (IF h = "answered" THEN RunStage[s] ELSE HandlerStage[h]) < StepsLeft(r)
  PROVE  /\ StepsLeft(r)' < StepsLeft(r)
         /\ \A q \in Requests : StepsLeft(q)' <= StepsLeft(q)
<1>1. handler'[r] = h /\ run'[r] = s
  BY DEF Base, TypeOK
<1>2. \A q \in Requests \ {r} : handler'[q] = handler[q] /\ run'[q] = run[q]
  BY DEF Base, TypeOK
<1>3. \A q \in Requests \ {r} : StepsLeft(q)' = StepsLeft(q)
  BY <1>2 DEF StepsLeft
<1>4. StepsLeft(r)' < StepsLeft(r)
  BY <1>1 DEF StepsLeft
<1>5. \A q \in Requests : StepsLeft(q) \in Nat /\ StepsLeft(q)' \in Nat
  <2>1. \A q \in Requests : StepsLeft(q) \in 0..20
    BY StepsAreNatural DEF Base
  <2>2. \A q \in Requests : StepsLeft(q)' \in 0..20
    BY DEF TypeOK, StepsLeft, HandlerStage, RunStage, Progress, Terminal
  <2> QED
    BY <2>1, <2>2
<1> QED
  BY <1>3, <1>4, <1>5

LEMMA HandlerMoves ==
  ASSUME Base, TypeOK', NEW r \in Requests, NEW h,
         handler[r] # "answered", h # "answered", HandlerStage[h] < HandlerStage[handler[r]],
         handler' = [handler EXCEPT ![r] = h], run' = run
  PROVE  /\ StepsLeft(r)' < StepsLeft(r)
         /\ \A q \in Requests : StepsLeft(q)' <= StepsLeft(q)
<1>1. run' = [run EXCEPT ![r] = run[r]]
  BY DEF Base, TypeOK
<1>2. (IF h = "answered" THEN RunStage[run[r]] ELSE HandlerStage[h]) < StepsLeft(r)
  BY DEF StepsLeft
<1> QED
  BY <1>1, <1>2, MoveComesNearer

LEMMA RunMovesOn ==
  ASSUME Base, TypeOK', NEW r \in Requests, NEW s,
         run[r] # "none", RunStage[s] < RunStage[run[r]],
         run' = [run EXCEPT ![r] = s], handler' = handler
  PROVE  /\ StepsLeft(r)' < StepsLeft(r)
         /\ \A q \in Requests : StepsLeft(q)' <= StepsLeft(q)
<1>1. handler' = [handler EXCEPT ![r] = "answered"] /\ handler[r] = "answered"
  BY DEF Base, TypeOK, RunsAreSubmitted
<1>2. (IF "answered" = "answered" THEN RunStage[s] ELSE HandlerStage["answered"]) < StepsLeft(r)
  BY <1>1 DEF StepsLeft
<1> QED
  BY <1>1, <1>2, MoveComesNearer

\* Each step of a request is nearer to its end than the one before.
LEMMA RequestComesNearer ==
  ASSUME Base, TypeOK', NEW r \in Requests, Handle(r) \/ Work(r)
  PROVE  /\ StepsLeft(r)' < StepsLeft(r)
         /\ \A q \in Requests : StepsLeft(q)' <= StepsLeft(q)
<1> DEFINE Nearer == /\ StepsLeft(r)' < StepsLeft(r)
                     /\ \A q \in Requests : StepsLeft(q)' <= StepsLeft(q)
<1> USE DEF HandlerTo, RunTo, worker
<1>1. CASE CheckExisting(r)
  <2>1. handler[r] = "check" /\ run' = run
    BY <1>1 DEF CheckExisting
  <2>2. handler' = [handler EXCEPT ![r] = "data"] \/ handler' = [handler EXCEPT ![r] = "submit"]
    BY <1>1 DEF CheckExisting
  <2>3. HandlerStage["data"] < HandlerStage["check"] /\ HandlerStage["submit"] < HandlerStage["check"]
    BY DEF HandlerStage
  <2> QED
    BY <2>1, <2>2, <2>3, HandlerMoves
<1>2. CASE WriteData(r)
  <2>1. handler[r] = "data" /\ run' = run
    BY <1>2 DEF WriteData
  <2>2. handler' = [handler EXCEPT ![r] = "state"]
    BY <1>2 DEF WriteData
  <2>3. HandlerStage["state"] < HandlerStage["data"]
    BY DEF HandlerStage
  <2> QED
    BY <2>1, <2>2, <2>3, HandlerMoves
<1>3. CASE WriteQueued(r)
  <2>1. handler[r] = "state" /\ run' = run
    BY <1>3 DEF WriteQueued
  <2>2. handler' = [handler EXCEPT ![r] = "session"]
    BY <1>3 DEF WriteQueued
  <2>3. HandlerStage["session"] < HandlerStage["state"]
    BY DEF HandlerStage
  <2> QED
    BY <2>1, <2>2, <2>3, HandlerMoves
<1>4. CASE WriteSession(r)
  <2>1. handler[r] = "session" /\ run' = run
    BY <1>4 DEF WriteSession
  <2>2. handler' = [handler EXCEPT ![r] = "submit"]
    BY <1>4 DEF WriteSession
  <2>3. HandlerStage["submit"] < HandlerStage["session"]
    BY DEF HandlerStage
  <2> QED
    BY <2>1, <2>2, <2>3, HandlerMoves
<1>5. CASE Submit(r)
  <2>1. /\ handler[r] = "submit" /\ handler' = [handler EXCEPT ![r] = "answered"]
        /\ run[r] = "none" /\ run \in [Requests -> DOMAIN RunStage]
    BY <1>5 DEF Submit, Base, RunsAreSubmitted, TypeOK, RunStage, Progress, Terminal
  <2>2. run' = [run EXCEPT ![r] = "none"] \/ run' = [run EXCEPT ![r] = "ready"]
    BY <1>5, <2>1 DEF Submit
  <2>3. /\ (IF "answered" = "answered" THEN RunStage["none"] ELSE HandlerStage["answered"]) < StepsLeft(r)
        /\ (IF "answered" = "answered" THEN RunStage["ready"] ELSE HandlerStage["answered"]) < StepsLeft(r)
    BY <2>1 DEF StepsLeft, RunStage, HandlerStage
  <2> QED
    BY <2>1, <2>2, <2>3, MoveComesNearer
<1>6. CASE EnterAtOnce(r)
  <2>1. run[r] = "ready" /\ run' = [run EXCEPT ![r] = "PARSING"] /\ handler' = handler
    BY <1>6 DEF EnterAtOnce
  <2>2. run[r] # "none" /\ RunStage["PARSING"] < RunStage[run[r]]
    BY <2>1 DEF RunStage
  <2> QED
    BY <2>1, <2>2, RunMovesOn
<1>7. CASE WaitForRoom(r)
  <2>1. run[r] = "ready" /\ run' = [run EXCEPT ![r] = "queued"] /\ handler' = handler
    BY <1>7 DEF WaitForRoom
  <2>2. run[r] # "none" /\ RunStage["queued"] < RunStage[run[r]]
    BY <2>1 DEF RunStage
  <2> QED
    BY <2>1, <2>2, RunMovesOn
<1>8. CASE EnterFromQueue(r)
  <2>1. run[r] = "queued" /\ run' = [run EXCEPT ![r] = "PARSING"] /\ handler' = handler
    BY <1>8 DEF EnterFromQueue
  <2>2. run[r] # "none" /\ RunStage["PARSING"] < RunStage[run[r]]
    BY <2>1 DEF RunStage
  <2> QED
    BY <2>1, <2>2, RunMovesOn
<1>9. CASE ReportProgress(r)
  <2>1. /\ run[r] \in Progress /\ handler' = handler
        /\ run' = [run EXCEPT ![r] = NextStep[run[r]]]
    BY <1>9 DEF ReportProgress
  <2>2. run[r] # "none" /\ RunStage[NextStep[run[r]]] < RunStage[run[r]]
    BY <2>1 DEF Progress, NextStep, RunStage
  <2> QED
    BY <2>1, <2>2, RunMovesOn
<1>10. CASE StartEngine(r)
  <2>1. run[r] = "engine" /\ run' = [run EXCEPT ![r] = "analyzing"] /\ handler' = handler
    BY <1>10 DEF StartEngine
  <2>2. run[r] # "none" /\ RunStage["analyzing"] < RunStage[run[r]]
    BY <2>1 DEF RunStage
  <2> QED
    BY <2>1, <2>2, RunMovesOn
<1>11. CASE EngineReturns(r)
  <2>1. run[r] = "analyzing" /\ run' = [run EXCEPT ![r] = "VALIDATING"] /\ handler' = handler
    BY <1>11 DEF EngineReturns
  <2>2. run[r] # "none" /\ RunStage["VALIDATING"] < RunStage[run[r]]
    BY <2>1 DEF RunStage
  <2> QED
    BY <2>1, <2>2, RunMovesOn
<1>12. CASE EngineRaises(r)
  <2>1. run[r] = "analyzing" /\ run' = [run EXCEPT ![r] = "failedMetrics"] /\ handler' = handler
    BY <1>12 DEF EngineRaises
  <2>2. run[r] # "none" /\ RunStage["failedMetrics"] < RunStage[run[r]]
    BY <2>1 DEF RunStage
  <2> QED
    BY <2>1, <2>2, RunMovesOn
<1>13. CASE StoreResult(r)
  <2>1. run[r] = "result" /\ run' = [run EXCEPT ![r] = "metrics"] /\ handler' = handler
    BY <1>13 DEF StoreResult
  <2>2. run[r] # "none" /\ RunStage["metrics"] < RunStage[run[r]]
    BY <2>1 DEF RunStage
  <2> QED
    BY <2>1, <2>2, RunMovesOn
<1>14. CASE StoreMetrics(r)
  <2>1. handler' = handler
    BY <1>14 DEF StoreMetrics
  <2>2. \/ run[r] = "metrics" /\ run' = [run EXCEPT ![r] = "COMPLETE"]
        \/ run[r] = "failedMetrics" /\ run' = [run EXCEPT ![r] = "FAILED"]
    BY <1>14 DEF StoreMetrics, Progress, Terminal, NextStep
  <2>3. RunStage["COMPLETE"] < RunStage["metrics"] /\ RunStage["FAILED"] < RunStage["failedMetrics"]
    BY DEF RunStage
  <2> QED
    BY <2>1, <2>2, <2>3, RunMovesOn
<1>15. CASE ReportEnd(r)
  <2>1. handler' = handler
    BY <1>15 DEF ReportEnd
  <2>2. \/ run[r] = "COMPLETE" /\ run' = [run EXCEPT ![r] = "exit"]
        \/ run[r] = "FAILED" /\ run' = [run EXCEPT ![r] = "error"]
    BY <1>15 DEF ReportEnd, Progress, Terminal, NextStep
  <2>3. RunStage["exit"] < RunStage["COMPLETE"] /\ RunStage["error"] < RunStage["FAILED"]
    BY DEF RunStage
  <2> QED
    BY <2>1, <2>2, <2>3, RunMovesOn
<1>16. CASE StoreError(r)
  <2>1. run[r] = "error" /\ run' = [run EXCEPT ![r] = "exit"] /\ handler' = handler
    BY <1>16 DEF StoreError
  <2>2. run[r] # "none" /\ RunStage["exit"] < RunStage[run[r]]
    BY <2>1 DEF RunStage
  <2> QED
    BY <2>1, <2>2, RunMovesOn
<1>17. CASE Exit(r)
  <2>1. run[r] = "exit" /\ run' = [run EXCEPT ![r] = "done"] /\ handler' = handler
    BY <1>17 DEF Exit
  <2>2. run[r] # "none" /\ RunStage["done"] < RunStage[run[r]]
    BY <2>1 DEF RunStage
  <2> QED
    BY <2>1, <2>2, RunMovesOn
<1> QED
  BY <1>1, <1>2, <1>3, <1>4, <1>5, <1>6, <1>7, <1>8, <1>9, <1>10, <1>11, <1>12,
     <1>13, <1>14, <1>15, <1>16, <1>17 DEF Handle, Work

LEMMA NearerStep == Base /\ NoOrphanRun /\ [Next]_vars => StepComesNearer
<1> SUFFICES ASSUME Base, NoOrphanRun, [Next]_vars PROVE StepComesNearer
  OBVIOUS
<1>1. TypeOK'
  BY TypeStep DEF Base
<1>2. \A q \in Requests : StepsLeft(q) \in Nat
  <2>1. \A q \in Requests : StepsLeft(q) \in 0..20
    BY StepsAreNatural DEF Base
  <2> QED
    BY <2>1
<1>3. \A r \in Requests : Handle(r) \/ Work(r) =>
          StepsLeft(r)' < StepsLeft(r) /\ \A q \in Requests : StepsLeft(q)' <= StepsLeft(q)
  BY <1>1, RequestComesNearer
<1>4. CASE \E r \in Requests : Handle(r) \/ Work(r)
  BY <1>3, <1>4 DEF StepComesNearer
<1>5. CASE run' = run /\ handler' = handler
  <2>1. \A q \in Requests : StepsLeft(q)' = StepsLeft(q)
    BY <1>5 DEF StepsLeft
  <2> QED
    BY <1>2, <1>3, <2>1 DEF StepComesNearer
<1>6. CASE Shutdown
  <2>1. ASSUME NEW q \in Requests PROVE StepsLeft(q)' <= StepsLeft(q)
    <3>1. handler'[q] = handler[q] /\ run'[q] \in {run[q], "cancelled"}
      BY <1>6 DEF Shutdown
    <3>2. CASE handler[q] = "answered"
      <4>1. StepsLeft(q) = RunStage[run[q]] /\ StepsLeft(q)' \in {RunStage[run[q]], 0}
        BY <3>1, <3>2 DEF StepsLeft, RunStage
      <4> QED
        BY <1>2, <4>1
    <3>3. CASE handler[q] # "answered"
      BY <1>2, <3>1, <3>3 DEF StepsLeft
    <3> QED
      BY <3>2, <3>3
  <2> QED
    BY <1>3, <2>1 DEF StepComesNearer
<1>7. ASSUME NEW j \in Jobs, ExpireResult(j) \/ ExpireMetrics(j) PROVE run' = run /\ handler' = handler
  BY <1>7 DEF ExpireResult, ExpireMetrics
<1>8. UNCHANGED vars => run' = run /\ handler' = handler
  BY DEF vars
<1> QED
  BY <1>4, <1>5, <1>6, <1>7, <1>8 DEF Next, Quiet

\* A request and the run it creates take twenty steps at most, none of them twice: no run is
\* begun again and none goes back (worker.py:122-166).  With NeverDeadlocked only the
\* fairness of the loop is missing for SubmittedJobsEnd.
THEOREM RequestsTerminate ==
  Spec => [](\A r \in Requests : StepsLeft(r) \in 0..20) /\ [][StepComesNearer]_vars
<1>1. Safe => []Base
  BY TypeInit, TypeStep, PTL DEF Safe, Base
<1>2. Base => \A r \in Requests : StepsLeft(r) \in 0..20
  BY StepsAreNatural DEF Base
<1>3. Safe /\ []Base /\ []NoOrphanRun => [][StepComesNearer]_vars
  BY NearerStep, PTL DEF Safe
<1> QED
  BY <1>1, <1>2, <1>3, OneRunPerJob, PTL DEF Spec
====
