---- MODULE PairAnalysisProofs ----
(***************************************************************************)
(* Proofs about PairAnalysis, for any jobs, pairs, texts and limit.         *)
(***************************************************************************)
EXTENDS PairAnalysis, FiniteSetTheorems, TLAPS

USE MaxExpiriesAssumption, PairsAssumption, NoneAssumption, MaxConcurrentAssumption

\* Every step keeps the types; in particular a pair that starts to await always
\* finds the future of another pair in _in_flight.
LEMMA TypeInitLemma == Init => TypeOK
  BY DEF Init, TypeOK, Results

LEMMA TypeStepLemma == TypeOK /\ [Next]_vars => TypeOK'
<1> SUFFICES ASSUME TypeOK, [Next]_vars PROVE TypeOK'
  OBVIOUS
<1> USE DEF TypeOK, Results, Return, Release, Starting, InFlight, Cached
<1>1. ASSUME NEW j \in Jobs, BeginAnalysis(j) PROVE TypeOK'
  BY <1>1 DEF BeginAnalysis
<1>2. ASSUME NEW j \in Jobs, FinishAnalysis(j) PROVE TypeOK'
  BY <1>2 DEF FinishAnalysis
<1>3. ASSUME NEW p \in Pairs, Join(p) PROVE TypeOK'
  BY <1>3 DEF Join, AwaitCall
<1>4. ASSUME NEW p \in Pairs, HitCache(p) PROVE TypeOK'
  BY <1>4 DEF HitCache
<1>5. ASSUME NEW p \in Pairs, StartCall(p) PROVE TypeOK'
  BY <1>5 DEF StartCall, IssueCall
<1>6. ASSUME NEW p \in Pairs, Enqueue(p) PROVE TypeOK'
  BY <1>6 DEF Enqueue
<1>7. ASSUME NEW p \in Pairs, ResumeJoin(p) PROVE TypeOK'
  <2>1. waiters' \in [Jobs -> Seq(Pairs)]
    <3>1. waiters[JobOf[p]] # <<>> /\ waiters[JobOf[p]] \in Seq(Pairs)
      BY <1>7 DEF ResumeJoin, Granted
    <3>2. Tail(waiters[JobOf[p]]) \in Seq(Pairs)
      BY <3>1
    <3> QED
      BY <1>7, <3>2 DEF ResumeJoin, Granted
  <2> QED
    BY <1>7, <2>1 DEF ResumeJoin, Granted, AwaitCall
<1>8. ASSUME NEW p \in Pairs, ResumeCall(p) PROVE TypeOK'
  <2>1. waiters' \in [Jobs -> Seq(Pairs)]
    <3>1. waiters[JobOf[p]] # <<>> /\ waiters[JobOf[p]] \in Seq(Pairs)
      BY <1>8 DEF ResumeCall, Granted
    <3>2. Tail(waiters[JobOf[p]]) \in Seq(Pairs)
      BY <3>1
    <3> QED
      BY <1>8, <3>2 DEF ResumeCall, Granted
  <2> QED
    BY <1>8, <2>1 DEF ResumeCall, Granted, IssueCall
<1>9. ASSUME NEW p \in Pairs, Succeed(p) PROVE TypeOK'
  BY <1>9 DEF Succeed
<1>10. ASSUME NEW p \in Pairs, Fail(p) PROVE TypeOK'
  BY <1>10 DEF Fail
<1>11. ASSUME NEW p \in Pairs, WakeJoiner(p) PROVE TypeOK'
  BY <1>11 DEF WakeJoiner
<1>12. ASSUME NEW k \in Keys, Expire(k) PROVE TypeOK'
  BY <1>12 DEF Expire
<1>13. CASE UNCHANGED vars
  BY <1>13 DEF vars
<1> QED
  BY <1>1, <1>2, <1>3, <1>4, <1>5, <1>6, <1>7, <1>8, <1>9, <1>10, <1>11, <1>12,
     <1>13 DEF Next, AllDone

\* Type correctness of every run.
THEOREM TypeCorrect == Spec => []TypeOK
<1>1. Safe => []TypeOK
  BY TypeInitLemma, TypeStepLemma, PTL DEF Safe
<1> QED
  BY <1>1, PTL DEF Spec

\* One caller per key: a call starts only when its key is not in flight, and the
\* step that ends it takes the key out of the table.
LEMMA SingleFlightStep == Inv /\ [Next]_vars => SingleFlight'
<1> SUFFICES ASSUME Inv, [Next]_vars PROVE SingleFlight'
  OBVIOUS
<1> USE DEF Inv, TypeOK, SingleFlight
<1>1. ASSUME NEW j \in Jobs, BeginAnalysis(j) PROVE SingleFlight'
  BY <1>1 DEF BeginAnalysis
<1>2. ASSUME NEW j \in Jobs, FinishAnalysis(j) PROVE SingleFlight'
  BY <1>2 DEF FinishAnalysis
<1>3. ASSUME NEW p \in Pairs, Join(p) PROVE SingleFlight'
  BY <1>3 DEF Join, Starting, AwaitCall, InFlight
<1>4. ASSUME NEW p \in Pairs, HitCache(p) PROVE SingleFlight'
  BY <1>4 DEF HitCache, Starting, InFlight, Cached
<1>5. ASSUME NEW p \in Pairs, StartCall(p) PROVE SingleFlight'
  BY <1>5 DEF StartCall, Starting, InFlight, IssueCall
<1>6. ASSUME NEW p \in Pairs, Enqueue(p) PROVE SingleFlight'
  BY <1>6 DEF Enqueue, Starting
<1>7. ASSUME NEW p \in Pairs, ResumeJoin(p) PROVE SingleFlight'
  <2>1. pc[p] = "queued"
    BY <1>7 DEF ResumeJoin, Granted
  <2> QED
    BY <1>7, <2>1 DEF ResumeJoin, AwaitCall, InFlight
<1>8. ASSUME NEW p \in Pairs, ResumeCall(p) PROVE SingleFlight'
  <2>1. pc[p] = "queued"
    BY <1>8 DEF ResumeCall, Granted
  <2> QED
    BY <1>8, <2>1 DEF ResumeCall, InFlight, IssueCall
<1>9. ASSUME NEW p \in Pairs, Succeed(p) PROVE SingleFlight'
  BY <1>9 DEF Succeed, Return, Release
<1>10. ASSUME NEW p \in Pairs, Fail(p) PROVE SingleFlight'
  BY <1>10 DEF Fail, Return, Release
<1>11. ASSUME NEW p \in Pairs, WakeJoiner(p) PROVE SingleFlight'
  BY <1>11 DEF WakeJoiner, Release
<1>12. ASSUME NEW k \in Keys, Expire(k) PROVE SingleFlight'
  BY <1>12 DEF Expire
<1>13. CASE UNCHANGED vars
  BY <1>13 DEF vars
<1> QED
  BY <1>1, <1>2, <1>3, <1>4, <1>5, <1>6, <1>7, <1>8, <1>9, <1>10, <1>11, <1>12,
     <1>13 DEF Next, AllDone

\* Only the owner of a future makes it leave "calling", and that step resolves the
\* future too.
LEMMA JoinersAreWokenStep == Inv /\ [Next]_vars => JoinersAreWoken'
<1> SUFFICES ASSUME Inv, [Next]_vars PROVE JoinersAreWoken'
  OBVIOUS
<1> USE DEF Inv, TypeOK, SingleFlight, JoinersAreWoken, FuturesAgree, Results
<1>1. ASSUME NEW j \in Jobs, BeginAnalysis(j) PROVE JoinersAreWoken'
  BY <1>1 DEF BeginAnalysis
<1>2. ASSUME NEW j \in Jobs, FinishAnalysis(j) PROVE JoinersAreWoken'
  BY <1>2 DEF FinishAnalysis
<1>3. ASSUME NEW p \in Pairs, Join(p) PROVE JoinersAreWoken'
  BY <1>3 DEF Join, Starting, AwaitCall, InFlight
<1>4. ASSUME NEW p \in Pairs, HitCache(p) PROVE JoinersAreWoken'
  BY <1>4 DEF HitCache, Starting, InFlight, Cached
<1>5. ASSUME NEW p \in Pairs, StartCall(p) PROVE JoinersAreWoken'
  BY <1>5 DEF StartCall, Starting, InFlight, IssueCall
<1>6. ASSUME NEW p \in Pairs, Enqueue(p) PROVE JoinersAreWoken'
  BY <1>6 DEF Enqueue, Starting
<1>7. ASSUME NEW p \in Pairs, ResumeJoin(p) PROVE JoinersAreWoken'
  <2> DEFINE owner == inFlight[KeyOf[p]]
  <2>1. pc[p] = "queued"
    BY <1>7 DEF ResumeJoin, Granted
  <2>2. owner \in Pairs /\ pc[owner] = "calling" /\ KeyOf[owner] = KeyOf[p]
    BY <1>7 DEF ResumeJoin, AwaitCall, InFlight
  <2>3. /\ pc' = [pc EXCEPT ![p] = "joined"]
        /\ awaited' = [awaited EXCEPT ![p] = owner]
        /\ inFlight' = inFlight /\ future' = future
    BY <1>7 DEF ResumeJoin, AwaitCall
  <2> HIDE DEF owner
  <2>4. ASSUME NEW q \in Pairs, pc'[q] = "joined", q # p
        PROVE  /\ KeyOf[awaited'[q]] = KeyOf[q]
               /\ \/ future'[awaited'[q]] # None
                  \/ pc'[awaited'[q]] = "calling" /\ inFlight'[KeyOf[q]] = awaited'[q]
    <3>1. pc[q] = "joined" /\ awaited'[q] = awaited[q]
      BY <2>3, <2>4
    <3> QED
      BY <2>1, <2>3, <3>1
  <2> QED
    BY <2>1, <2>2, <2>3, <2>4 DEF owner
<1>8. ASSUME NEW p \in Pairs, ResumeCall(p) PROVE JoinersAreWoken'
  <2>1. pc[p] = "queued"
    BY <1>8 DEF ResumeCall, Granted
  <2> QED
    BY <1>8, <2>1 DEF ResumeCall, InFlight, IssueCall
<1>9. ASSUME NEW p \in Pairs, Succeed(p) PROVE JoinersAreWoken'
  BY <1>9 DEF Succeed, Return, Release
<1>10. ASSUME NEW p \in Pairs, Fail(p) PROVE JoinersAreWoken'
  BY <1>10 DEF Fail, Return, Release
<1>11. ASSUME NEW p \in Pairs, WakeJoiner(p) PROVE JoinersAreWoken'
  BY <1>11 DEF WakeJoiner, Release
<1>12. ASSUME NEW k \in Keys, Expire(k) PROVE JoinersAreWoken'
  BY <1>12 DEF Expire
<1>13. CASE UNCHANGED vars
  BY <1>13 DEF vars
<1> QED
  BY <1>1, <1>2, <1>3, <1>4, <1>5, <1>6, <1>7, <1>8, <1>9, <1>10, <1>11, <1>12,
     <1>13 DEF Next, AllDone

\* A pair that returns from its own call sets its future in the same step.
LEMMA FuturesAgreeStep == Inv /\ [Next]_vars => FuturesAgree'
<1> SUFFICES ASSUME Inv, [Next]_vars PROVE FuturesAgree'
  OBVIOUS
<1> USE DEF Inv, TypeOK, JoinersAreWoken, FuturesAgree, Results
<1>1. ASSUME NEW j \in Jobs, BeginAnalysis(j) PROVE FuturesAgree'
  BY <1>1 DEF BeginAnalysis
<1>2. ASSUME NEW j \in Jobs, FinishAnalysis(j) PROVE FuturesAgree'
  BY <1>2 DEF FinishAnalysis
<1>3. ASSUME NEW p \in Pairs, Join(p) PROVE FuturesAgree'
  BY <1>3 DEF Join, Starting, AwaitCall, InFlight
<1>4. ASSUME NEW p \in Pairs, HitCache(p) PROVE FuturesAgree'
  BY <1>4 DEF HitCache, Starting, InFlight, Cached
<1>5. ASSUME NEW p \in Pairs, StartCall(p) PROVE FuturesAgree'
  BY <1>5 DEF StartCall, Starting, InFlight, IssueCall
<1>6. ASSUME NEW p \in Pairs, Enqueue(p) PROVE FuturesAgree'
  BY <1>6 DEF Enqueue, Starting
<1>7. ASSUME NEW p \in Pairs, ResumeJoin(p) PROVE FuturesAgree'
  <2>1. pc[p] = "queued"
    BY <1>7 DEF ResumeJoin, Granted
  <2> QED
    BY <1>7, <2>1 DEF ResumeJoin, AwaitCall, InFlight
<1>8. ASSUME NEW p \in Pairs, ResumeCall(p) PROVE FuturesAgree'
  <2>1. pc[p] = "queued"
    BY <1>8 DEF ResumeCall, Granted
  <2> QED
    BY <1>8, <2>1 DEF ResumeCall, InFlight, IssueCall
<1>9. ASSUME NEW p \in Pairs, Succeed(p) PROVE FuturesAgree'
  BY <1>9 DEF Succeed, Return, Release
<1>10. ASSUME NEW p \in Pairs, Fail(p) PROVE FuturesAgree'
  BY <1>10 DEF Fail, Return, Release
<1>11. ASSUME NEW p \in Pairs, WakeJoiner(p) PROVE FuturesAgree'
  BY <1>11 DEF WakeJoiner, Release
<1>12. ASSUME NEW k \in Keys, Expire(k) PROVE FuturesAgree'
  BY <1>12 DEF Expire
<1>13. CASE UNCHANGED vars
  BY <1>13 DEF vars
<1> QED
  BY <1>1, <1>2, <1>3, <1>4, <1>5, <1>6, <1>7, <1>8, <1>9, <1>10, <1>11, <1>12,
     <1>13 DEF Next, AllDone

\* Giving one more pair its answer leaves the findings already given genuine, when
\* the answer is its own finding or one already made for the same texts.
LEMMA AnswerKeepsGenuine ==
  ASSUME TypeOK, FindingsAreGenuine,
         NEW p \in Pairs, outcome[p] = None,
         NEW a \in Results, outcome' = [outcome EXCEPT ![p] = a],
         a \in Pairs => KeyOf[a] = KeyOf[p] /\ (a = p \/ outcome[a] = a)
  PROVE  /\ \A q \in Pairs : outcome'[q] \in Pairs =>
              outcome'[outcome'[q]] = outcome'[q] /\ KeyOf[outcome'[q]] = KeyOf[q]
         /\ \A q \in Pairs : outcome[q] = q => outcome'[q] = q
<1> USE DEF TypeOK, FindingsAreGenuine, Results
<1>1. \A q \in Pairs : outcome[q] = q => outcome'[q] = q
  OBVIOUS
<1>2. ASSUME NEW q \in Pairs, outcome'[q] \in Pairs
      PROVE outcome'[outcome'[q]] = outcome'[q] /\ KeyOf[outcome'[q]] = KeyOf[q]
  <2>1. CASE q = p
    <3>1. outcome'[q] = a
      BY <2>1
    <3>2. CASE a = p
      BY <1>2, <2>1, <3>1, <3>2
    <3>3. CASE a # p
      BY <1>1, <1>2, <2>1, <3>1, <3>3
    <3> QED
      BY <3>2, <3>3
  <2>2. CASE q # p
    <3>1. outcome'[q] = outcome[q] /\ outcome[outcome[q]] = outcome[q]
      BY <1>2, <2>2
    <3> QED
      BY <1>1, <1>2, <3>1
  <2> QED
    BY <2>1, <2>2
<1> QED
  BY <1>1, <1>2

\* Findings pass from a call to its joiners and to the cache, and never between
\* different texts.
LEMMA FindingsAreGenuineStep == Inv /\ [Next]_vars => FindingsAreGenuine'
<1> SUFFICES ASSUME Inv, [Next]_vars PROVE FindingsAreGenuine'
  OBVIOUS
<1> USE DEF Inv, TypeOK, FuturesAgree, FindingsAreGenuine, Results
<1>1. ASSUME NEW j \in Jobs, BeginAnalysis(j) PROVE FindingsAreGenuine'
  BY <1>1 DEF BeginAnalysis
<1>2. ASSUME NEW j \in Jobs, FinishAnalysis(j) PROVE FindingsAreGenuine'
  BY <1>2 DEF FinishAnalysis
<1>3. ASSUME NEW p \in Pairs, Join(p) PROVE FindingsAreGenuine'
  BY <1>3 DEF Join, Starting, AwaitCall, InFlight
<1>4. ASSUME NEW p \in Pairs, HitCache(p) PROVE FindingsAreGenuine'
  <2>1. /\ outcome[p] = None
        /\ cache[KeyOf[p]] \in Pairs
        /\ outcome' = [outcome EXCEPT ![p] = cache[KeyOf[p]]]
        /\ cache' = cache
    BY <1>4 DEF HitCache, Starting, Cached
  <2> QED
    BY <2>1, AnswerKeepsGenuine
<1>5. ASSUME NEW p \in Pairs, StartCall(p) PROVE FindingsAreGenuine'
  BY <1>5 DEF StartCall, Starting, InFlight, IssueCall
<1>6. ASSUME NEW p \in Pairs, Enqueue(p) PROVE FindingsAreGenuine'
  BY <1>6 DEF Enqueue, Starting
<1>7. ASSUME NEW p \in Pairs, ResumeJoin(p) PROVE FindingsAreGenuine'
  <2>1. pc[p] = "queued"
    BY <1>7 DEF ResumeJoin, Granted
  <2> QED
    BY <1>7, <2>1 DEF ResumeJoin, AwaitCall, InFlight
<1>8. ASSUME NEW p \in Pairs, ResumeCall(p) PROVE FindingsAreGenuine'
  <2>1. pc[p] = "queued"
    BY <1>8 DEF ResumeCall, Granted
  <2> QED
    BY <1>8, <2>1 DEF ResumeCall, InFlight, IssueCall
<1>9. ASSUME NEW p \in Pairs, Succeed(p) PROVE FindingsAreGenuine'
  <2>1. /\ outcome[p] = None
        /\ outcome' = [outcome EXCEPT ![p] = p]
        /\ cache' = [cache EXCEPT ![KeyOf[p]] = p]
    BY <1>9 DEF Succeed, Return
  <2>2. outcome'[p] = p
    BY <2>1
  <2> QED
    BY <2>1, <2>2, AnswerKeepsGenuine
<1>10. ASSUME NEW p \in Pairs, Fail(p) PROVE FindingsAreGenuine'
  <2>1. /\ outcome[p] = None
        /\ outcome' = [outcome EXCEPT ![p] = Dropped]
        /\ cache' = cache
    BY <1>10 DEF Fail, Return
  <2> QED
    BY <2>1, AnswerKeepsGenuine
<1>11. ASSUME NEW p \in Pairs, WakeJoiner(p) PROVE FindingsAreGenuine'
  <2> DEFINE owner == awaited[p]
  <2>1. /\ outcome[p] = None
        /\ owner \in Pairs
        /\ KeyOf[owner] = KeyOf[p]
        /\ future[owner] \in {owner, Dropped}
        /\ future[owner] = outcome[owner]
        /\ outcome' = [outcome EXCEPT ![p] = future[owner]]
        /\ cache' = cache
    BY <1>11 DEF WakeJoiner, JoinersAreWoken
  <2> QED
    BY <2>1, AnswerKeepsGenuine
<1>12. ASSUME NEW k \in Keys, Expire(k) PROVE FindingsAreGenuine'
  BY <1>12 DEF Expire
<1>13. CASE UNCHANGED vars
  BY <1>13 DEF vars
<1> QED
  BY <1>1, <1>2, <1>3, <1>4, <1>5, <1>6, <1>7, <1>8, <1>9, <1>10, <1>11, <1>12,
     <1>13 DEF Next, AllDone

\* A pair starts in a running job, and the job waits for it.
LEMMA PairsRunInJobStep == Inv /\ [Next]_vars => PairsRunInJob'
<1> SUFFICES ASSUME Inv, [Next]_vars PROVE PairsRunInJob'
  OBVIOUS
<1> USE DEF Inv, TypeOK, PairsRunInJob
<1>1. ASSUME NEW j \in Jobs, BeginAnalysis(j) PROVE PairsRunInJob'
  BY <1>1 DEF BeginAnalysis
<1>2. ASSUME NEW j \in Jobs, FinishAnalysis(j) PROVE PairsRunInJob'
  BY <1>2 DEF FinishAnalysis, PairsOf
<1>3. ASSUME NEW p \in Pairs, Join(p) PROVE PairsRunInJob'
  BY <1>3 DEF Join, Starting, AwaitCall, InFlight
<1>4. ASSUME NEW p \in Pairs, HitCache(p) PROVE PairsRunInJob'
  BY <1>4 DEF HitCache, Starting, InFlight, Cached
<1>5. ASSUME NEW p \in Pairs, StartCall(p) PROVE PairsRunInJob'
  BY <1>5 DEF StartCall, Starting, InFlight, IssueCall
<1>6. ASSUME NEW p \in Pairs, Enqueue(p) PROVE PairsRunInJob'
  BY <1>6 DEF Enqueue, Starting
<1>7. ASSUME NEW p \in Pairs, ResumeJoin(p) PROVE PairsRunInJob'
  <2>1. pc[p] = "queued"
    BY <1>7 DEF ResumeJoin, Granted
  <2> QED
    BY <1>7, <2>1 DEF ResumeJoin, AwaitCall, InFlight
<1>8. ASSUME NEW p \in Pairs, ResumeCall(p) PROVE PairsRunInJob'
  <2>1. pc[p] = "queued"
    BY <1>8 DEF ResumeCall, Granted
  <2> QED
    BY <1>8, <2>1 DEF ResumeCall, InFlight, IssueCall
<1>9. ASSUME NEW p \in Pairs, Succeed(p) PROVE PairsRunInJob'
  BY <1>9 DEF Succeed, Return, Release
<1>10. ASSUME NEW p \in Pairs, Fail(p) PROVE PairsRunInJob'
  BY <1>10 DEF Fail, Return, Release
<1>11. ASSUME NEW p \in Pairs, WakeJoiner(p) PROVE PairsRunInJob'
  BY <1>11 DEF WakeJoiner, Release
<1>12. ASSUME NEW k \in Keys, Expire(k) PROVE PairsRunInJob'
  BY <1>12 DEF Expire
<1>13. CASE UNCHANGED vars
  BY <1>13 DEF vars
<1> QED
  BY <1>1, <1>2, <1>3, <1>4, <1>5, <1>6, <1>7, <1>8, <1>9, <1>10, <1>11, <1>12,
     <1>13 DEF Next, AllDone

\* A job ends only when each of its pairs has returned, and a pair returns nothing
\* only from a call that failed.
LEMMA AnswersCompleteStep == Inv /\ [Next]_vars => AnswersComplete'
<1> SUFFICES ASSUME Inv, [Next]_vars PROVE AnswersComplete'
  OBVIOUS
<1> USE DEF Inv, TypeOK, SingleFlight, FuturesAgree, AnswersComplete, Results
<1>1. ASSUME NEW j \in Jobs, BeginAnalysis(j) PROVE AnswersComplete'
  BY <1>1 DEF BeginAnalysis
<1>2. ASSUME NEW j \in Jobs, FinishAnalysis(j) PROVE AnswersComplete'
  BY <1>2 DEF FinishAnalysis, PairsOf
<1>3. ASSUME NEW p \in Pairs, Join(p) PROVE AnswersComplete'
  BY <1>3 DEF Join, Starting, AwaitCall, InFlight
<1>4. ASSUME NEW p \in Pairs, HitCache(p) PROVE AnswersComplete'
  BY <1>4 DEF HitCache, Starting, InFlight, Cached
<1>5. ASSUME NEW p \in Pairs, StartCall(p) PROVE AnswersComplete'
  BY <1>5 DEF StartCall, Starting, InFlight, IssueCall
<1>6. ASSUME NEW p \in Pairs, Enqueue(p) PROVE AnswersComplete'
  BY <1>6 DEF Enqueue, Starting
<1>7. ASSUME NEW p \in Pairs, ResumeJoin(p) PROVE AnswersComplete'
  <2>1. pc[p] = "queued"
    BY <1>7 DEF ResumeJoin, Granted
  <2> QED
    BY <1>7, <2>1 DEF ResumeJoin, AwaitCall, InFlight
<1>8. ASSUME NEW p \in Pairs, ResumeCall(p) PROVE AnswersComplete'
  <2>1. pc[p] = "queued"
    BY <1>8 DEF ResumeCall, Granted
  <2> QED
    BY <1>8, <2>1 DEF ResumeCall, InFlight, IssueCall
<1>9. ASSUME NEW p \in Pairs, Succeed(p) PROVE AnswersComplete'
  BY <1>9 DEF Succeed, Return, Release
<1>10. ASSUME NEW p \in Pairs, Fail(p) PROVE AnswersComplete'
  BY <1>10 DEF Fail, Return, Release
<1>11. ASSUME NEW p \in Pairs, WakeJoiner(p) PROVE AnswersComplete'
  BY <1>11 DEF WakeJoiner, Release
<1>12. ASSUME NEW k \in Keys, Expire(k) PROVE AnswersComplete'
  BY <1>12 DEF Expire
<1>13. CASE UNCHANGED vars
  BY <1>13 DEF vars
<1> QED
  BY <1>1, <1>2, <1>3, <1>4, <1>5, <1>6, <1>7, <1>8, <1>9, <1>10, <1>11, <1>12,
     <1>13 DEF Next, AllDone

\* Everything the engine's bookkeeping must satisfy but the counting: calls per
\* key, futures, findings and answers are consistent in every run.
THEOREM Consistent == Spec => []Inv
<1>1. Init => Inv
  BY TypeInitLemma
     DEF Init, Inv, SingleFlight, JoinersAreWoken, FuturesAgree, PairsRunInJob,
         FindingsAreGenuine, AnswersComplete
<1>2. Inv /\ [Next]_vars => Inv'
  BY TypeStepLemma, SingleFlightStep, JoinersAreWokenStep, FuturesAgreeStep,
     PairsRunInJobStep, FindingsAreGenuineStep, AnswersCompleteStep DEF Inv
<1>3. Safe => []Inv
  BY <1>1, <1>2, PTL DEF Safe
<1> QED
  BY <1>3, PTL DEF Spec

\* Single flight (consistency_engine.py:146-171, 223).
THEOREM SingleFlightHolds == Spec => []SingleFlight
<1>1. Inv => SingleFlight
  BY DEF Inv
<1> QED
  BY <1>1, Consistent, PTL

\* No pair awaits a future that nobody will resolve (:147, :166, :210, :220).
THEOREM NoLostWaiter == Spec => []JoinersAreWoken
<1>1. Inv => JoinersAreWoken
  BY DEF Inv
<1> QED
  BY <1>1, Consistent, PTL

\* Sharing findings through futures and the cache never mixes texts (:136-160).
THEOREM FindingsGenuine == Spec => []FindingsAreGenuine
<1>1. Inv => FindingsAreGenuine
  BY DEF Inv
<1> QED
  BY <1>1, Consistent, PTL

\* A job that has ended has every answer (:230-235).
THEOREM AnswersAreComplete == Spec => []AnswersComplete
<1>1. Inv => AnswersComplete
  BY DEF Inv
<1> QED
  BY <1>1, Consistent, PTL

(***************************************************************************)
(* Slots                                                                   *)
(***************************************************************************)

\* Taking a slot that is free keeps every job within its limit.
LEMMA TakeSlot ==
  ASSUME holders \subseteq Pairs,
         \A j \in Jobs : Cardinality(SlotsUsed(j)) <= MaxConcurrent,
         NEW p \in Pairs, HasFreeSlot(JobOf[p]),
         holders' = holders \cup {p}
  PROVE  \A j \in Jobs : Cardinality(SlotsUsed(j)') <= MaxConcurrent
<1> SUFFICES ASSUME NEW j \in Jobs PROVE Cardinality(SlotsUsed(j)') <= MaxConcurrent
  OBVIOUS
<1>1. IsFiniteSet(SlotsUsed(j))
  BY FS_Subset DEF SlotsUsed, PairsOf
<1>2. Cardinality(SlotsUsed(j)) \in Nat
  BY <1>1, FS_CardinalityType
<1>3. CASE JobOf[p] = j
  <2>1. SlotsUsed(j)' = SlotsUsed(j) \cup {p}
    BY <1>3 DEF SlotsUsed, PairsOf
  <2>2. Cardinality(SlotsUsed(j) \cup {p})
          \in {Cardinality(SlotsUsed(j)), Cardinality(SlotsUsed(j)) + 1}
    BY <1>1, FS_AddElement
  <2>3. Cardinality(SlotsUsed(j)) < MaxConcurrent
    BY <1>3 DEF HasFreeSlot
  <2> QED
    BY <1>2, <2>1, <2>2, <2>3
<1>4. CASE JobOf[p] # j
  <2>1. SlotsUsed(j)' = SlotsUsed(j)
    BY <1>4 DEF SlotsUsed, PairsOf
  <2> QED
    BY <2>1
<1> QED
  BY <1>3, <1>4

\* Giving a slot back, or having had none, keeps it too.
LEMMA GiveSlot ==
  ASSUME holders \subseteq Pairs,
         \A j \in Jobs : Cardinality(SlotsUsed(j)) <= MaxConcurrent,
         NEW p \in Pairs, Release(p)
  PROVE  \A j \in Jobs : Cardinality(SlotsUsed(j)') <= MaxConcurrent
<1> SUFFICES ASSUME NEW j \in Jobs PROVE Cardinality(SlotsUsed(j)') <= MaxConcurrent
  OBVIOUS
<1>1. IsFiniteSet(SlotsUsed(j))
  BY FS_Subset DEF SlotsUsed, PairsOf
<1>2. SlotsUsed(j)' \subseteq SlotsUsed(j)
  BY DEF SlotsUsed, PairsOf, Release
<1>3. /\ IsFiniteSet(SlotsUsed(j)')
      /\ Cardinality(SlotsUsed(j)') <= Cardinality(SlotsUsed(j))
  BY <1>1, <1>2, FS_Subset
<1>4. Cardinality(SlotsUsed(j)) \in Nat /\ Cardinality(SlotsUsed(j)') \in Nat
  BY <1>1, <1>3, FS_CardinalityType
<1> QED
  BY <1>3, <1>4

\* Slots are taken one at a time by pairs that then call or join, and given back
\* when the pair returns.
LEMMA SlotsBoundedStep == TypeOK /\ SlotsBounded /\ [Next]_vars => SlotsBounded'
<1> SUFFICES ASSUME TypeOK, SlotsBounded, [Next]_vars PROVE SlotsBounded'
  OBVIOUS
<1> USE DEF TypeOK
<1>1. ASSUME NEW j \in Jobs, BeginAnalysis(j) PROVE SlotsBounded'
  BY <1>1 DEF BeginAnalysis, SlotsBounded, SlotsUsed
<1>2. ASSUME NEW j \in Jobs, FinishAnalysis(j) PROVE SlotsBounded'
  BY <1>2 DEF FinishAnalysis, SlotsBounded, SlotsUsed
<1>3. ASSUME NEW p \in Pairs, Join(p) PROVE SlotsBounded'
  <2>1. /\ pc[p] = "new" /\ pc' = [pc EXCEPT ![p] = "joined"]
        /\ holders' = holders
    BY <1>3 DEF Join, Starting, AwaitCall
  <2> QED
    BY <2>1 DEF SlotsBounded, SlotsUsed
<1>4. ASSUME NEW p \in Pairs, HitCache(p) PROVE SlotsBounded'
  <2>1. /\ pc[p] = "new" /\ pc' = [pc EXCEPT ![p] = "done"]
        /\ holders' = holders
    BY <1>4 DEF HitCache, Starting
  <2> QED
    BY <2>1 DEF SlotsBounded, SlotsUsed
<1>5. ASSUME NEW p \in Pairs, StartCall(p) PROVE SlotsBounded'
  <2>1. /\ HasFreeSlot(JobOf[p])
        /\ holders' = holders \cup {p}
        /\ pc' = [pc EXCEPT ![p] = "calling"]
    BY <1>5 DEF StartCall, Starting, MustQueue, IssueCall
  <2>2. \A j \in Jobs : Cardinality(SlotsUsed(j)') <= MaxConcurrent
    BY <2>1, TakeSlot DEF SlotsBounded
  <2> QED
    BY <2>1, <2>2 DEF SlotsBounded
<1>6. ASSUME NEW p \in Pairs, Enqueue(p) PROVE SlotsBounded'
  <2>1. /\ pc[p] = "new" /\ pc' = [pc EXCEPT ![p] = "queued"]
        /\ holders' = holders
    BY <1>6 DEF Enqueue, Starting
  <2> QED
    BY <2>1 DEF SlotsBounded, SlotsUsed
<1>7. ASSUME NEW p \in Pairs, ResumeJoin(p) PROVE SlotsBounded'
  <2>1. /\ HasFreeSlot(JobOf[p])
        /\ holders' = holders \cup {p}
        /\ pc' = [pc EXCEPT ![p] = "joined"]
    BY <1>7 DEF ResumeJoin, Granted, AwaitCall
  <2>2. \A j \in Jobs : Cardinality(SlotsUsed(j)') <= MaxConcurrent
    BY <2>1, TakeSlot DEF SlotsBounded
  <2> QED
    BY <2>1, <2>2 DEF SlotsBounded
<1>8. ASSUME NEW p \in Pairs, ResumeCall(p) PROVE SlotsBounded'
  <2>1. /\ HasFreeSlot(JobOf[p])
        /\ holders' = holders \cup {p}
        /\ pc' = [pc EXCEPT ![p] = "calling"]
    BY <1>8 DEF ResumeCall, Granted, IssueCall
  <2>2. \A j \in Jobs : Cardinality(SlotsUsed(j)') <= MaxConcurrent
    BY <2>1, TakeSlot DEF SlotsBounded
  <2> QED
    BY <2>1, <2>2 DEF SlotsBounded
<1>9. ASSUME NEW p \in Pairs, Succeed(p) PROVE SlotsBounded'
  <2>1. pc' = [pc EXCEPT ![p] = "done"] /\ Release(p)
    BY <1>9 DEF Succeed, Return
  <2>2. \A j \in Jobs : Cardinality(SlotsUsed(j)') <= MaxConcurrent
    BY <2>1, GiveSlot DEF SlotsBounded
  <2> QED
    BY <2>1, <2>2 DEF SlotsBounded, Release
<1>10. ASSUME NEW p \in Pairs, Fail(p) PROVE SlotsBounded'
  <2>1. pc' = [pc EXCEPT ![p] = "done"] /\ Release(p)
    BY <1>10 DEF Fail, Return
  <2>2. \A j \in Jobs : Cardinality(SlotsUsed(j)') <= MaxConcurrent
    BY <2>1, GiveSlot DEF SlotsBounded
  <2> QED
    BY <2>1, <2>2 DEF SlotsBounded, Release
<1>11. ASSUME NEW p \in Pairs, WakeJoiner(p) PROVE SlotsBounded'
  <2>1. pc' = [pc EXCEPT ![p] = "done"] /\ Release(p)
    BY <1>11 DEF WakeJoiner
  <2>2. \A j \in Jobs : Cardinality(SlotsUsed(j)') <= MaxConcurrent
    BY <2>1, GiveSlot DEF SlotsBounded
  <2> QED
    BY <2>1, <2>2 DEF SlotsBounded, Release
<1>12. ASSUME NEW k \in Keys, Expire(k) PROVE SlotsBounded'
  BY <1>12 DEF Expire, SlotsBounded, SlotsUsed
<1>13. CASE UNCHANGED vars
  BY <1>13 DEF vars, SlotsBounded, SlotsUsed
<1> QED
  BY <1>1, <1>2, <1>3, <1>4, <1>5, <1>6, <1>7, <1>8, <1>9, <1>10, <1>11, <1>12,
     <1>13 DEF Next, AllDone

\* No job ever has more than max_concurrent_llm_calls pairs inside its semaphore
\* (:128, :163), and every pair that calls the provider is inside.
THEOREM SlotsAreBounded == Spec => []SlotsBounded
<1>1. Init => SlotsBounded
  <2>1. Init => \A j \in Jobs : SlotsUsed(j) = {}
    BY DEF Init, SlotsUsed
  <2>2. Init => \A j \in Jobs : Cardinality(SlotsUsed(j)) <= MaxConcurrent
    BY <2>1, FS_EmptySet
  <2>3. Init => holders = {} /\ \A q \in Pairs : pc[q] # "calling"
    BY DEF Init
  <2> QED
    BY <2>2, <2>3 DEF SlotsBounded
<1>2. TypeOK /\ SlotsBounded /\ [Next]_vars => SlotsBounded'
  BY SlotsBoundedStep
<1>3. Safe /\ []TypeOK => []SlotsBounded
  BY <1>1, <1>2, PTL DEF Safe
<1> QED
  BY <1>3, TypeCorrect, PTL DEF Spec

(***************************************************************************)
(* The metrics                                                             *)
(***************************************************************************)

\* The pairs of a job whose own call succeeded.
Made(j) == {p \in PairsOf(j) : future[p] = p}

\* A call that ends with anything but its finding changes no count.
LEMMA OthersFinding ==
  ASSUME TypeOK, NEW p \in Pairs, future[p] = None,
         NEW a, a # p, future' = [future EXCEPT ![p] = a]
  PROVE  \A j \in Jobs : Made(j)' = Made(j)
  BY NoneAssumption DEF TypeOK, Made, PairsOf

\* A call that ends with its finding adds one to the count of its job.
LEMMA OwnFinding ==
  ASSUME TypeOK, NEW p \in Pairs, future[p] = None,
         future' = [future EXCEPT ![p] = p]
  PROVE  \A j \in Jobs : Cardinality(Made(j)') =
            IF JobOf[p] = j THEN Cardinality(Made(j)) + 1 ELSE Cardinality(Made(j))
<1> SUFFICES ASSUME NEW j \in Jobs
             PROVE  Cardinality(Made(j)') =
                      IF JobOf[p] = j THEN Cardinality(Made(j)) + 1
                                      ELSE Cardinality(Made(j))
  OBVIOUS
<1>1. IsFiniteSet(Made(j)) /\ p \notin Made(j)
  <2>1. Made(j) \subseteq Pairs /\ p \notin Made(j)
    BY NoneAssumption DEF Made, PairsOf
  <2> QED
    BY <2>1, PairsAssumption, FS_Subset
<1>2. CASE JobOf[p] = j
  <2>1. Made(j)' = Made(j) \cup {p}
    BY <1>2 DEF Made, PairsOf, TypeOK
  <2> QED
    BY <1>1, <1>2, <2>1, FS_AddElement
<1>3. CASE JobOf[p] # j
  <2>1. Made(j)' = Made(j)
    BY <1>3 DEF Made, PairsOf, TypeOK
  <2> QED
    BY <1>3, <2>1
<1> QED
  BY <1>2, <1>3

\* What was issued is what succeeded and what is not recorded.
LEMMA IssuedIsMadeOrUnrecorded ==
  ASSUME TypeOK, FuturesAgree, NEW j \in Jobs
  PROVE  /\ Cardinality(Made(j)) \in Nat
         /\ Cardinality(Unrecorded(j)) \in Nat
         /\ Cardinality(Issued(j)) = Cardinality(Made(j)) + Cardinality(Unrecorded(j))
<1>1. /\ Issued(j) = Made(j) \cup Unrecorded(j)
      /\ Made(j) \cap Unrecorded(j) = {}
  <2>1. \A p \in Pairs : future[p] # None => future[p] \in {p, Dropped}
    BY DEF FuturesAgree
  <2> QED
    BY <2>1, NoneAssumption DEF Issued, Made, Unrecorded, PairsOf
<1>2. IsFiniteSet(Made(j)) /\ IsFiniteSet(Unrecorded(j))
  <2>1. Made(j) \subseteq Pairs /\ Unrecorded(j) \subseteq Pairs
    BY DEF Made, Unrecorded, Issued, PairsOf
  <2> QED
    BY <2>1, PairsAssumption, FS_Subset
<1>3. Cardinality(Made(j)) \in Nat /\ Cardinality(Unrecorded(j)) \in Nat
  BY <1>2, FS_CardinalityType
<1> QED
  BY <1>1, <1>2, <1>3, FS_Union, FS_EmptySet

Counted == \A j \in Jobs : llmCalls[j] = cacheHits[j] + Cardinality(Made(j))

\* Only a call that succeeds and a cache hit touch the counters, each with the count
\* of calls it is compared with.
LEMMA MetricsAgreeStep == Inv /\ Counted /\ [Next]_vars => Counted'
<1> SUFFICES ASSUME Inv, Counted, [Next]_vars PROVE Counted'
  OBVIOUS
<1> USE DEF Inv, TypeOK, Counted
<1>1. ASSUME NEW j \in Jobs, BeginAnalysis(j) PROVE Counted'
  BY <1>1 DEF BeginAnalysis, Made
<1>2. ASSUME NEW j \in Jobs, FinishAnalysis(j) PROVE Counted'
  BY <1>2 DEF FinishAnalysis, Made
<1>3. ASSUME NEW p \in Pairs, Join(p) PROVE Counted'
  BY <1>3 DEF Join, Made
<1>4. ASSUME NEW p \in Pairs, HitCache(p) PROVE Counted'
  <2>1. \A j \in Jobs : Made(j)' = Made(j)
    BY <1>4 DEF HitCache, Made
  <2>2. /\ llmCalls' = [llmCalls EXCEPT ![JobOf[p]] = @ + 1]
        /\ cacheHits' = [cacheHits EXCEPT ![JobOf[p]] = @ + 1]
    BY <1>4 DEF HitCache
  <2>3. \A j \in Jobs : Cardinality(Made(j)) \in Nat
    BY IssuedIsMadeOrUnrecorded
  <2> QED
    BY <2>1, <2>2, <2>3
<1>5. ASSUME NEW p \in Pairs, StartCall(p) PROVE Counted'
  BY <1>5 DEF StartCall, Made
<1>6. ASSUME NEW p \in Pairs, Enqueue(p) PROVE Counted'
  BY <1>6 DEF Enqueue, Made
<1>7. ASSUME NEW p \in Pairs, ResumeJoin(p) PROVE Counted'
  BY <1>7 DEF ResumeJoin, Made
<1>8. ASSUME NEW p \in Pairs, ResumeCall(p) PROVE Counted'
  BY <1>8 DEF ResumeCall, Made
<1>9. ASSUME NEW p \in Pairs, Succeed(p) PROVE Counted'
  <2>1. future[p] = None /\ future' = [future EXCEPT ![p] = p]
    BY <1>9 DEF Succeed, Return, FuturesAgree
  <2>2. \A j \in Jobs : Cardinality(Made(j)') =
           IF JobOf[p] = j THEN Cardinality(Made(j)) + 1 ELSE Cardinality(Made(j))
    BY <2>1, OwnFinding
  <2>3. llmCalls' = [llmCalls EXCEPT ![JobOf[p]] = @ + 1] /\ cacheHits' = cacheHits
    BY <1>9 DEF Succeed
  <2>4. \A j \in Jobs : Cardinality(Made(j)) \in Nat
    BY IssuedIsMadeOrUnrecorded
  <2> QED
    BY <2>2, <2>3, <2>4
<1>10. ASSUME NEW p \in Pairs, Fail(p) PROVE Counted'
  <2>1. future[p] = None /\ Dropped # p /\ future' = [future EXCEPT ![p] = Dropped]
    BY <1>10, NoneAssumption DEF Fail, Return, FuturesAgree
  <2>2. \A j \in Jobs : Made(j)' = Made(j)
    BY <2>1, OthersFinding
  <2>3. llmCalls' = llmCalls /\ cacheHits' = cacheHits
    BY <1>10 DEF Fail
  <2> QED
    BY <2>2, <2>3
<1>11. ASSUME NEW p \in Pairs, WakeJoiner(p) PROVE Counted'
  BY <1>11 DEF WakeJoiner, Made
<1>12. ASSUME NEW k \in Keys, Expire(k) PROVE Counted'
  BY <1>12 DEF Expire, Made
<1>13. CASE UNCHANGED vars
  BY <1>13 DEF vars, Made
<1> QED
  BY <1>1, <1>2, <1>3, <1>4, <1>5, <1>6, <1>7, <1>8, <1>9, <1>10, <1>11, <1>12,
     <1>13 DEF Next, AllDone

\* llm_calls_made has every hit besides the calls issued, and lacks those that have failed
\* or not ended.
THEOREM MetricsAlwaysAgree == Spec => []MetricsAgree
<1>1. Init => Counted
  <2>1. Init => \A j \in Jobs : Made(j) = {}
    BY NoneAssumption DEF Init, Made, PairsOf
  <2> QED
    <3>1. Init => \A j \in Jobs : Cardinality(Made(j)) = 0
      BY <2>1, FS_EmptySet
    <3>2. Init => \A j \in Jobs : llmCalls[j] = 0 /\ cacheHits[j] = 0
      BY DEF Init
    <3> QED
      BY <3>1, <3>2 DEF Counted
<1>2. Safe /\ []Inv => []Counted
  BY <1>1, MetricsAgreeStep, PTL DEF Safe
<1>3. Inv /\ Counted => MetricsAgree
  <2> SUFFICES ASSUME Inv, Counted, NEW j \in Jobs
               PROVE  llmCalls[j] + Cardinality(Unrecorded(j)) = cacheHits[j] + Cardinality(Issued(j))
    BY DEF MetricsAgree
  <2>1. llmCalls[j] \in Nat /\ cacheHits[j] \in Nat /\ llmCalls[j] = cacheHits[j] + Cardinality(Made(j))
    BY DEF Inv, TypeOK, Counted
  <2> QED
    BY <2>1, IssuedIsMadeOrUnrecorded DEF Inv
<1> QED
  BY <1>2, <1>3, Consistent, PTL DEF Spec

(***************************************************************************)
(* The engine implements AnalysisService.  Queueing, joining, calling and   *)
(* the expiry of a cache entry are stutters; every return is an Answer.     *)
(***************************************************************************)

\* Every step of the engine is a step of the service or leaves it unchanged.
LEMMA ServiceStep == Inv /\ [Next]_vars => [Service!Next]_(Service!vars)
<1> SUFFICES ASSUME Inv, [Next]_vars PROVE [Service!Next]_(Service!vars)
  OBVIOUS
<1>1. ASSUME NEW j \in Jobs, BeginAnalysis(j) PROVE [Service!Next]_(Service!vars)
  <2>1. Service!Begin(j)
    BY <1>1 DEF BeginAnalysis, Service!Begin
  <2> QED
    BY <2>1 DEF Service!Next
<1>2. ASSUME NEW j \in Jobs, FinishAnalysis(j) PROVE [Service!Next]_(Service!vars)
  <2>1. Service!Finish(j)
    BY <1>2 DEF FinishAnalysis, PairsOf, Inv, FuturesAgree, Service!Finish
  <2> QED
    BY <2>1 DEF Service!Next
<1>3. ASSUME NEW p \in Pairs, Join(p) PROVE [Service!Next]_(Service!vars)
  BY <1>3 DEF Join, Service!vars
<1>4. ASSUME NEW p \in Pairs, HitCache(p) PROVE [Service!Next]_(Service!vars)
  <2>1. /\ jobPc[JobOf[p]] = "analyzing" /\ outcome[p] = None
        /\ jobPc' = jobPc
    BY <1>4 DEF HitCache, Starting, Inv, FuturesAgree, PairsRunInJob
  <2>2. \E a \in {p, Dropped} \cup Service!Made(p) : outcome' = [outcome EXCEPT ![p] = a]
    <3>1. cache[KeyOf[p]] \in Service!Made(p)
      BY <1>4 DEF HitCache, Cached, Inv, TypeOK, FindingsAreGenuine, Service!Made
    <3> QED
      BY <1>4, <3>1 DEF HitCache
  <2> QED
    BY <2>1, <2>2 DEF Service!Next, Service!Answer
<1>5. ASSUME NEW p \in Pairs, StartCall(p) PROVE [Service!Next]_(Service!vars)
  BY <1>5 DEF StartCall, Service!vars
<1>6. ASSUME NEW p \in Pairs, Enqueue(p) PROVE [Service!Next]_(Service!vars)
  BY <1>6 DEF Enqueue, Service!vars
<1>7. ASSUME NEW p \in Pairs, ResumeJoin(p) PROVE [Service!Next]_(Service!vars)
  BY <1>7 DEF ResumeJoin, Service!vars
<1>8. ASSUME NEW p \in Pairs, ResumeCall(p) PROVE [Service!Next]_(Service!vars)
  BY <1>8 DEF ResumeCall, Service!vars
<1>9. ASSUME NEW p \in Pairs, Succeed(p) PROVE [Service!Next]_(Service!vars)
  <2>1. /\ jobPc[JobOf[p]] = "analyzing" /\ outcome[p] = None
        /\ jobPc' = jobPc
    BY <1>9 DEF Succeed, Inv, FuturesAgree, PairsRunInJob
  <2>2. \E a \in {p, Dropped} \cup Service!Made(p) : outcome' = [outcome EXCEPT ![p] = a]
    BY <1>9 DEF Succeed, Return
  <2> QED
    BY <2>1, <2>2 DEF Service!Next, Service!Answer
<1>10. ASSUME NEW p \in Pairs, Fail(p) PROVE [Service!Next]_(Service!vars)
  <2>1. /\ jobPc[JobOf[p]] = "analyzing" /\ outcome[p] = None
        /\ jobPc' = jobPc
    BY <1>10 DEF Fail, Inv, FuturesAgree, PairsRunInJob
  <2>2. \E a \in {p, Dropped} \cup Service!Made(p) : outcome' = [outcome EXCEPT ![p] = a]
    BY <1>10 DEF Fail, Return
  <2> QED
    BY <2>1, <2>2 DEF Service!Next, Service!Answer
<1>11. ASSUME NEW p \in Pairs, WakeJoiner(p) PROVE [Service!Next]_(Service!vars)
  <2>1. /\ jobPc[JobOf[p]] = "analyzing" /\ outcome[p] = None
        /\ jobPc' = jobPc
    BY <1>11 DEF WakeJoiner, Inv, FuturesAgree, PairsRunInJob
  <2>2. \E a \in {p, Dropped} \cup Service!Made(p) : outcome' = [outcome EXCEPT ![p] = a]
    BY <1>11 DEF WakeJoiner, Inv, TypeOK, FuturesAgree, JoinersAreWoken, Service!Made
  <2> QED
    BY <2>1, <2>2 DEF Service!Next, Service!Answer
<1>12. ASSUME NEW k \in Keys, Expire(k) PROVE [Service!Next]_(Service!vars)
  BY <1>12 DEF Expire, Service!vars
<1>13. CASE UNCHANGED vars
  BY <1>13 DEF vars, Service!vars
<1> QED
  BY <1>1, <1>2, <1>3, <1>4, <1>5, <1>6, <1>7, <1>8, <1>9, <1>10, <1>11, <1>12,
     <1>13 DEF Next, AllDone

\* Every run of the engine is one the service allows: one answer per pair, never
\* changed, shared between equal texts only, and all of them before the job ends.
THEOREM EngineImplementsService == Spec => Service!Safe
<1>1. Init => Service!Init
  BY DEF Init, Service!Init
<1>2. Safe /\ []Inv => Service!Safe
  BY <1>1, ServiceStep, PTL DEF Safe, Service!Safe
<1> QED
  BY <1>2, Consistent, PTL DEF Spec

(***************************************************************************)
(* Nobody is stuck, and every step is one ahead.  With these two, what is   *)
(* left of EveryJobEnds is fairness: there are finitely many steps to take. *)
(***************************************************************************)

\* The queue of a job's semaphore holds its queued pairs, each of them once.
QueuesHoldWaiters ==
    /\ \A j \in Jobs : \A i \in 1..Len(waiters[j]) :
          /\ JobOf[waiters[j][i]] = j /\ pc[waiters[j][i]] = "queued"
          /\ \A n \in 1..Len(waiters[j]) : waiters[j][n] = waiters[j][i] => n = i
    /\ \A p \in Pairs : pc[p] = "queued" =>
          \E i \in 1..Len(waiters[JobOf[p]]) : waiters[JobOf[p]][i] = p

\* A pair that enters a queue is at its end, and was in none.
LEMMA EnqueueKeepsQueues ==
    ASSUME TypeOK, QueuesHoldWaiters, NEW p \in Pairs, Enqueue(p)
    PROVE  QueuesHoldWaiters'
<1> DEFINE j == JobOf[p]
           q == waiters[j]
<1>1. /\ pc[p] = "new" /\ pc' = [pc EXCEPT ![p] = "queued"]
      /\ waiters' = [waiters EXCEPT ![j] = Append(q, p)]
  BY DEF Enqueue, Starting
<1>2. j \in Jobs /\ q \in Seq(Pairs) /\ Len(q) \in Nat
  BY DEF TypeOK
<1>3. /\ Len(Append(q, p)) = Len(q) + 1 /\ Append(q, p)[Len(q) + 1] = p
      /\ \A i \in 1..Len(q) : Append(q, p)[i] = q[i]
  BY <1>2
<1>4. /\ waiters'[j] = Append(q, p)
      /\ \A k \in Jobs \ {j} : waiters'[k] = waiters[k]
      /\ pc'[p] = "queued" /\ \A r \in Pairs \ {p} : pc'[r] = pc[r]
  BY <1>1, <1>2 DEF TypeOK
<1>5. \A k \in Jobs : waiters[k] \in Seq(Pairs) /\ Len(waiters[k]) \in Nat
                      /\ \A i \in 1..Len(waiters[k]) : waiters[k][i] \in Pairs /\ waiters[k][i] # p
  BY <1>1 DEF TypeOK, QueuesHoldWaiters
<1> HIDE DEF q, j
<1>6. ASSUME NEW k \in Jobs, NEW i \in 1..Len(waiters'[k])
      PROVE  /\ JobOf[waiters'[k][i]] = k /\ pc'[waiters'[k][i]] = "queued"
             /\ \A n \in 1..Len(waiters'[k]) : waiters'[k][n] = waiters'[k][i] => n = i
  <2>1. CASE k # j
    BY <1>4, <1>5, <2>1 DEF QueuesHoldWaiters
  <2>2. CASE k = j
    <3>1. \A n \in 1..Len(q) : /\ Append(q, p)[n] = q[n] /\ q[n] \in Pairs \ {p}
                               /\ JobOf[q[n]] = j /\ pc[q[n]] = "queued"
      BY <1>2, <1>3, <1>5 DEF q, QueuesHoldWaiters
    <3>2. waiters'[k] = Append(q, p) /\ i \in 1..Len(q) + 1
      BY <1>3, <1>4, <2>2
    <3>3. CASE i = Len(q) + 1
      <4>1. waiters'[k][i] = p /\ JobOf[p] = k
        BY <1>3, <2>2, <3>2, <3>3 DEF j
      <4>2. ASSUME NEW n \in 1..Len(q) + 1, waiters'[k][n] = p PROVE n = i
        BY <1>2, <3>1, <3>2, <3>3, <4>2
      <4> QED
        BY <1>3, <1>4, <3>2, <4>1, <4>2
    <3>4. CASE i # Len(q) + 1
      <4>1. i \in 1..Len(q)
        BY <1>2, <3>2, <3>4
      <4>2. waiters'[k][i] = q[i] /\ q[i] \in Pairs \ {p} /\ JobOf[q[i]] = k /\ pc[q[i]] = "queued"
        BY <2>2, <3>1, <3>2, <4>1
      <4>3. ASSUME NEW n \in 1..Len(q) + 1, waiters'[k][n] = q[i] PROVE n = i
        <5>1. n \in 1..Len(q)
          BY <1>2, <1>3, <3>2, <4>2, <4>3
        <5>2. q[n] = q[i]
          BY <3>1, <3>2, <4>3, <5>1
        <5> QED
          BY <2>2, <4>1, <5>1, <5>2 DEF QueuesHoldWaiters, q
      <4> QED
        BY <1>3, <1>4, <3>2, <4>2, <4>3
    <3> QED
      BY <3>3, <3>4
  <2> QED
    BY <2>1, <2>2
<1>7. ASSUME NEW r \in Pairs, pc'[r] = "queued"
      PROVE  \E i \in 1..Len(waiters'[JobOf[r]]) : waiters'[JobOf[r]][i] = r
  <2>1. CASE r = p
    <3>1. Len(q) + 1 \in 1..Len(q) + 1 /\ waiters'[JobOf[r]] = Append(q, p)
      BY <1>2, <1>4, <2>1 DEF j
    <3> QED
      BY <1>3, <2>1, <3>1
  <2>2. CASE r # p
    <3>1. PICK i \in 1..Len(waiters[JobOf[r]]) : waiters[JobOf[r]][i] = r
      BY <1>4, <1>7, <2>2 DEF QueuesHoldWaiters
    <3>2. CASE JobOf[r] = j
      <4>1. i \in 1..Len(q) /\ q[i] = r
        BY <3>1, <3>2 DEF q
      <4>2. i \in 1..Len(q) + 1 /\ waiters'[JobOf[r]][i] = r
        BY <1>2, <1>3, <1>4, <3>2, <4>1
      <4> QED
        BY <1>3, <1>4, <3>2, <4>2
    <3>3. CASE JobOf[r] # j
      BY <1>4, <3>1, <3>3
    <3> QED
      BY <3>2, <3>3
  <2> QED
    BY <2>1, <2>2
<1> QED
  BY <1>6, <1>7 DEF QueuesHoldWaiters

\* A pair that leaves its queue was the first of it.
LEMMA GrantKeepsQueues ==
    ASSUME TypeOK, QueuesHoldWaiters, NEW p \in Pairs, Granted(p),
           NEW x, x # "queued", pc' = [pc EXCEPT ![p] = x]
    PROVE  QueuesHoldWaiters'
<1> DEFINE j == JobOf[p]
           q == waiters[j]
<1>1. pc[p] = "queued" /\ q # <<>> /\ Head(q) = p /\ waiters' = [waiters EXCEPT ![j] = Tail(q)]
  BY DEF Granted
<1>2. j \in Jobs /\ q \in Seq(Pairs) /\ Len(q) \in Nat
  BY DEF TypeOK
<1>3. /\ Len(q) >= 1 /\ q[1] = p /\ Len(Tail(q)) = Len(q) - 1
      /\ \A i \in 1..Len(q) - 1 : Tail(q)[i] = q[i + 1] /\ i + 1 \in 1..Len(q)
  BY <1>1, <1>2
<1>4. /\ waiters'[j] = Tail(q)
      /\ \A k \in Jobs \ {j} : waiters'[k] = waiters[k]
      /\ pc'[p] # "queued" /\ \A r \in Pairs \ {p} : pc'[r] = pc[r]
  BY <1>1, <1>2 DEF TypeOK
<1>5. \A k \in Jobs : waiters[k] \in Seq(Pairs) /\ Len(waiters[k]) \in Nat
                      /\ \A i \in 1..Len(waiters[k]) : waiters[k][i] \in Pairs
  BY DEF TypeOK
<1>6. \A i \in 1..Len(q) : /\ JobOf[q[i]] = j /\ pc[q[i]] = "queued"
                           /\ \A n \in 1..Len(q) : q[n] = q[i] => n = i
  BY <1>2 DEF QueuesHoldWaiters
<1>7. \A k \in Jobs \ {j} : \A i \in 1..Len(waiters[k]) : waiters[k][i] # p
  BY DEF QueuesHoldWaiters
<1> HIDE DEF q, j
<1>8. ASSUME NEW k \in Jobs, NEW i \in 1..Len(waiters'[k])
      PROVE  /\ JobOf[waiters'[k][i]] = k /\ pc'[waiters'[k][i]] = "queued"
             /\ \A n \in 1..Len(waiters'[k]) : waiters'[k][n] = waiters'[k][i] => n = i
  <2>1. CASE k # j
    BY <1>4, <1>5, <1>7, <2>1 DEF QueuesHoldWaiters
  <2>2. CASE k = j
    <3>1. i \in 1..Len(q) - 1 /\ waiters'[k] = Tail(q)
      BY <1>3, <1>4, <2>2
    <3>2. i + 1 \in 1..Len(q) /\ waiters'[k][i] = q[i + 1] /\ i + 1 # 1
      BY <1>2, <1>3, <3>1
    <3>3. q[i + 1] # p /\ q[i + 1] \in Pairs
      <4>1. 1 \in 1..Len(q)
        BY <1>2, <1>3
      <4>2. q[i + 1] # p
        BY <1>3, <1>6, <3>2, <4>1
      <4> QED
        BY <1>2, <3>2, <4>2, <1>5 DEF q
    <3>4. JobOf[waiters'[k][i]] = k /\ pc'[waiters'[k][i]] = "queued"
      BY <1>4, <1>6, <2>2, <3>2, <3>3
    <3>5. ASSUME NEW n \in 1..Len(q) - 1, Tail(q)[n] = q[i + 1] PROVE n = i
      <4>1. n + 1 \in 1..Len(q) /\ q[n + 1] = q[i + 1]
        BY <1>3, <3>5
      <4>2. n + 1 = i + 1
        BY <1>6, <3>2, <4>1
      <4> QED
        BY <1>2, <3>1, <4>2
    <3> QED
      BY <1>3, <3>1, <3>2, <3>4, <3>5
  <2> QED
    BY <2>1, <2>2
<1>9. ASSUME NEW r \in Pairs, pc'[r] = "queued"
      PROVE  \E i \in 1..Len(waiters'[JobOf[r]]) : waiters'[JobOf[r]][i] = r
  <2>1. r # p /\ pc[r] = "queued"
    BY <1>4, <1>9
  <2>2. PICK i \in 1..Len(waiters[JobOf[r]]) : waiters[JobOf[r]][i] = r
    BY <2>1 DEF QueuesHoldWaiters
  <2>3. CASE JobOf[r] = j
    <3>1. i \in 1..Len(q) /\ q[i] = r
      BY <2>2, <2>3 DEF q
    <3>2. i # 1
      BY <1>3, <2>1, <3>1
    <3>3. i - 1 \in 1..Len(q) - 1 /\ (i - 1) + 1 = i
      BY <1>2, <3>1, <3>2
    <3>4. Tail(q)[i - 1] = r
      BY <1>3, <3>1, <3>3
    <3> QED
      BY <1>3, <1>4, <2>3, <3>3, <3>4
  <2>4. CASE JobOf[r] # j
    BY <1>4, <2>2, <2>4
  <2> QED
    BY <2>3, <2>4
<1> QED
  BY <1>8, <1>9 DEF QueuesHoldWaiters

\* The steps of pairs that are in no queue leave the queues as they are.
LEMMA OthersKeepQueues ==
    ASSUME TypeOK, QueuesHoldWaiters, UNCHANGED waiters,
           \/ UNCHANGED pc
           \/ \E p \in Pairs, x \in {"joined", "calling", "done"} :
                 pc[p] # "queued" /\ pc' = [pc EXCEPT ![p] = x]
    PROVE  QueuesHoldWaiters'
<1>1. \A p \in Pairs : pc'[p] = "queued" <=> pc[p] = "queued"
  BY DEF TypeOK
<1>2. \A k \in Jobs : \A i \in 1..Len(waiters[k]) : waiters[k][i] \in Pairs
  BY DEF TypeOK
<1> QED
  BY <1>1, <1>2 DEF QueuesHoldWaiters

LEMMA QueuesStep == TypeOK /\ QueuesHoldWaiters /\ [Next]_vars => QueuesHoldWaiters'
<1> SUFFICES ASSUME TypeOK, QueuesHoldWaiters, [Next]_vars PROVE QueuesHoldWaiters'
  OBVIOUS
<1>1. ASSUME NEW j \in Jobs, BeginAnalysis(j) \/ FinishAnalysis(j) PROVE QueuesHoldWaiters'
  BY <1>1, OthersKeepQueues DEF BeginAnalysis, FinishAnalysis
<1>2. ASSUME NEW p \in Pairs, Join(p) \/ HitCache(p) \/ StartCall(p) PROVE QueuesHoldWaiters'
  <2>1. pc[p] # "queued" /\ UNCHANGED waiters
    BY <1>2 DEF Join, HitCache, StartCall, Starting
  <2>2. \E x \in {"joined", "calling", "done"} : pc' = [pc EXCEPT ![p] = x]
    BY <1>2 DEF Join, HitCache, StartCall, AwaitCall, IssueCall
  <2> QED
    BY <2>1, <2>2, OthersKeepQueues
<1>3. ASSUME NEW p \in Pairs, Enqueue(p) PROVE QueuesHoldWaiters'
  BY <1>3, EnqueueKeepsQueues
<1>4. ASSUME NEW p \in Pairs, ResumeJoin(p) PROVE QueuesHoldWaiters'
  BY <1>4, GrantKeepsQueues DEF ResumeJoin, AwaitCall
<1>5. ASSUME NEW p \in Pairs, ResumeCall(p) PROVE QueuesHoldWaiters'
  BY <1>5, GrantKeepsQueues DEF ResumeCall, IssueCall
<1>6. ASSUME NEW p \in Pairs, Succeed(p) \/ Fail(p) \/ WakeJoiner(p) PROVE QueuesHoldWaiters'
  <2>1. pc[p] # "queued" /\ UNCHANGED waiters /\ pc' = [pc EXCEPT ![p] = "done"]
    BY <1>6 DEF Succeed, Fail, WakeJoiner, Return
  <2> QED
    BY <2>1, OthersKeepQueues
<1>7. ASSUME NEW k \in Keys, Expire(k) PROVE QueuesHoldWaiters'
  BY <1>7, OthersKeepQueues DEF Expire
<1>8. CASE UNCHANGED vars
  BY <1>8, OthersKeepQueues DEF vars
<1> QED
  BY <1>1, <1>2, <1>3, <1>4, <1>5, <1>6, <1>7, <1>8 DEF Next, AllDone

\* What a pair needs for its next step: to be started, the slot it waits for, the end of its
\* call, which comes, or the result it awaits.
CanStep(p) ==
    \/ Starting(p)
    \/ /\ pc[p] = "queued" /\ waiters[JobOf[p]] # <<>> /\ Head(waiters[JobOf[p]]) = p
       /\ HasFreeSlot(JobOf[p])
    \/ pc[p] = "calling"
    \/ pc[p] = "joined" /\ future[awaited[p]] # None

\* A job that runs is over, or one of its own pairs can go on or awaits a call that is under
\* way: no job waits for the slots of another.
RunningJobsGoOn ==
    \A j \in Jobs : jobPc[j] = "analyzing" =>
        \/ \A p \in PairsOf(j) : pc[p] = "done"
        \/ \E p \in PairsOf(j) : CanStep(p) \/ (pc[p] = "joined" /\ pc[awaited[p]] = "calling")

\* Until all jobs are done some job can begin or end, or some pair can go on.
NeverStuck ==
    \/ \A j \in Jobs : jobPc[j] = "done"
    \/ \E j \in Jobs : jobPc[j] = "waiting" /\ Cardinality(Analyzing) < MaxConcurrent
    \/ \E j \in Jobs : jobPc[j] = "analyzing" /\ \A p \in PairsOf(j) : pc[p] = "done"
    \/ \E p \in Pairs : CanStep(p)

\* Who awaits a future has it, or its owner is calling.
LEMMA JoinedGoesOn ==
    ASSUME Inv, NEW p \in Pairs, pc[p] = "joined"
    PROVE  CanStep(p) \/ pc[awaited[p]] = "calling"
BY DEF Inv, JoinersAreWoken, CanStep

\* The first of a queue has its slot, or those that hold the slots can go on.
LEMMA QueuedGoesOn ==
    ASSUME Inv, SlotsBounded, QueuesHoldWaiters, NEW p \in Pairs, pc[p] = "queued"
    PROVE  \E r \in PairsOf(JobOf[p]) : CanStep(r) \/ (pc[r] = "joined" /\ pc[awaited[r]] = "calling")
<1> DEFINE j == JobOf[p]
           q == waiters[j]
<1>1. j \in Jobs /\ q \in Seq(Pairs) /\ Len(q) \in Nat
  BY DEF Inv, TypeOK
<1>2. 1 \in 1..Len(q)
  <2>1. PICK i \in 1..Len(q) : q[i] = p
    BY DEF QueuesHoldWaiters
  <2> HIDE DEF q
  <2> QED
    BY <1>1, <2>1
<1>3. q # <<>> /\ Head(q) = q[1] /\ q[1] \in Pairs /\ JobOf[q[1]] = j /\ pc[q[1]] = "queued"
  <2>1. JobOf[q[1]] = j /\ pc[q[1]] = "queued"
    BY <1>1, <1>2 DEF QueuesHoldWaiters
  <2> HIDE DEF q
  <2> QED
    BY <1>1, <1>2, <2>1
<1>4. CASE HasFreeSlot(j)
  <2>1. CanStep(q[1]) /\ q[1] \in PairsOf(j)
    BY <1>3, <1>4 DEF CanStep, PairsOf
  <2> QED
    BY <2>1
<1>5. CASE ~HasFreeSlot(j)
  <2>1. SlotsUsed(j) # {}
    BY <1>5, FS_EmptySet DEF HasFreeSlot
  <2>2. PICK r \in PairsOf(j) : r \in holders
    BY <2>1 DEF SlotsUsed
  <2>3. r \in Pairs /\ pc[r] \in {"calling", "joined"}
    BY <2>2 DEF SlotsBounded, PairsOf
  <2> QED
    BY <2>2, <2>3, JoinedGoesOn DEF CanStep
<1> QED
  BY <1>4, <1>5

LEMMA JobsGoOn == Inv /\ SlotsBounded /\ QueuesHoldWaiters => RunningJobsGoOn
<1> SUFFICES ASSUME Inv, SlotsBounded, QueuesHoldWaiters,
                    NEW j \in Jobs, jobPc[j] = "analyzing", NEW p \in PairsOf(j), pc[p] # "done"
             PROVE  \E r \in PairsOf(j) : CanStep(r) \/ (pc[r] = "joined" /\ pc[awaited[r]] = "calling")
  BY DEF RunningJobsGoOn
<1>1. p \in Pairs /\ JobOf[p] = j /\ pc[p] \in {"new", "queued", "joined", "calling"}
  BY DEF PairsOf, Inv, TypeOK
<1>2. CASE pc[p] \in {"new", "calling"}
  BY <1>1, <1>2 DEF CanStep, Starting
<1>3. CASE pc[p] = "queued"
  BY <1>1, <1>3, QueuedGoesOn
<1>4. CASE pc[p] = "joined"
  BY <1>1, <1>4, JoinedGoesOn
<1> QED
  BY <1>1, <1>2, <1>3, <1>4

LEMMA SomebodyGoesOn == Inv /\ RunningJobsGoOn => NeverStuck
<1> SUFFICES ASSUME Inv, RunningJobsGoOn, NEW j \in Jobs, jobPc[j] # "done" PROVE NeverStuck
  BY DEF NeverStuck
<1>1. CASE Analyzing = {}
  <2>1. jobPc[j] = "waiting"
    BY <1>1 DEF Analyzing, Inv, TypeOK
  <2>2. Cardinality(Analyzing) = 0
    BY <1>1, FS_EmptySet
  <2> QED
    BY <2>1, <2>2 DEF NeverStuck
<1>2. CASE Analyzing # {}
  <2>1. PICK k \in Jobs : jobPc[k] = "analyzing"
    BY <1>2 DEF Analyzing
  <2>2. CASE \A p \in PairsOf(k) : pc[p] = "done"
    BY <2>1, <2>2 DEF NeverStuck
  <2>3. ASSUME NEW p \in PairsOf(k), CanStep(p) \/ (pc[p] = "joined" /\ pc[awaited[p]] = "calling")
        PROVE  NeverStuck
    <3>1. p \in Pairs /\ (pc[p] = "joined" => awaited[p] \in Pairs)
      BY DEF PairsOf, Inv, TypeOK
    <3> QED
      BY <2>3, <3>1 DEF NeverStuck, CanStep
  <2> QED
    BY <2>1, <2>2, <2>3 DEF RunningJobsGoOn
<1> QED
  BY <1>1, <1>2

LEMMA QueuesAlwaysHold == Spec => []QueuesHoldWaiters
<1>1. Init => QueuesHoldWaiters
  BY DEF Init, QueuesHoldWaiters
<1>2. Safe /\ []TypeOK => []QueuesHoldWaiters
  BY <1>1, QueuesStep, PTL DEF Safe
<1> QED
  BY <1>2, TypeCorrect, PTL DEF Spec

\* A job that runs is never stuck, whatever fails, expires or is shared with other jobs: one
\* of its pairs can go on or awaits a provider call.  A pair that waits for a slot while the
\* slots are held by pairs that await futures (:163-172) closes no circle.
THEOREM RunningJobsAlwaysGoOn == Spec => []RunningJobsGoOn
BY JobsGoOn, Consistent, SlotsAreBounded, QueuesAlwaysHold, PTL

\* There is no deadlock: until all jobs are done some coroutine is ready or calls.
THEOREM NeverDeadlocked == Spec => []NeverStuck
BY SomebodyGoesOn, RunningJobsAlwaysGoOn, Consistent, PTL

\* How far a pair and a job are.
PairStage == [new |-> 0, queued |-> 1, joined |-> 2, calling |-> 2, done |-> 3]
JobStage == [waiting |-> 0, analyzing |-> 1, done |-> 2]

\* The stages the pairs and the jobs have before them, and the entries that may expire.
PairsLeft == {x \in Pairs \X (1..3) : x[2] > PairStage[pc[x[1]]]}
JobsLeft == {x \in Jobs \X (1..2) : x[2] > JobStage[jobPc[x[1]]]}
StepsLeft == Cardinality(PairsLeft) + Cardinality(JobsLeft) + (MaxExpiries - expiries)

LEMMA LeftIsNatural ==
    ASSUME TypeOK
    PROVE  /\ IsFiniteSet(PairsLeft) /\ IsFiniteSet(JobsLeft)
           /\ Cardinality(PairsLeft) \in Nat /\ Cardinality(JobsLeft) \in Nat
           /\ MaxExpiries - expiries \in Nat
           /\ StepsLeft \in Nat
<1>1. IsFiniteSet(1..2) /\ IsFiniteSet(1..3)
  <2>1. 1 \in Int /\ 2 \in Int /\ 3 \in Int
    OBVIOUS
  <2> QED
    BY <2>1, FS_Interval, Zenon
<1>2. IsFiniteSet(Pairs \X (1..3)) /\ IsFiniteSet(Jobs \X (1..2))
  BY <1>1, FS_Product
<1>3. PairsLeft \in SUBSET (Pairs \X (1..3)) /\ JobsLeft \in SUBSET (Jobs \X (1..2))
  BY DEF PairsLeft, JobsLeft
<1>4. IsFiniteSet(PairsLeft) /\ IsFiniteSet(JobsLeft)
  BY <1>2, <1>3, FS_Subset
<1>5. Cardinality(PairsLeft) \in Nat /\ Cardinality(JobsLeft) \in Nat
  BY <1>4, FS_CardinalityType
<1>6. MaxExpiries - expiries \in Nat
  BY DEF TypeOK
<1> QED
  BY <1>4, <1>5, <1>6 DEF StepsLeft

LEMMA SmallerIsFewer ==
    ASSUME NEW S, IsFiniteSet(S), NEW T \in SUBSET S, NEW x \in S, x \notin T
    PROVE  Cardinality(T) < Cardinality(S)
<1>1. IsFiniteSet(T) /\ Cardinality(T) <= Cardinality(S) /\ Cardinality(T) # Cardinality(S)
  BY FS_Subset
<1>2. Cardinality(T) \in Nat /\ Cardinality(S) \in Nat
  BY <1>1, FS_CardinalityType
<1> QED
  BY <1>1, <1>2

\* A pair that goes on has fewer stages before it.
LEMMA PairGoesOn ==
    ASSUME TypeOK, NEW p \in Pairs, NEW x \in {"queued", "joined", "calling", "done"},
           pc' = [pc EXCEPT ![p] = x], PairStage[x] > PairStage[pc[p]],
           UNCHANGED <<jobPc, expiries>>
    PROVE  StepsLeft' < StepsLeft
<1>1. PairStage[pc[p]] \in 0..3 /\ PairStage[x] \in 1..3
  BY DEF TypeOK, PairStage
<1>2. PairsLeft' \in SUBSET PairsLeft
  <2> SUFFICES ASSUME NEW q \in Pairs, NEW n \in 1..3, n > PairStage[pc'[q]]
               PROVE  n > PairStage[pc[q]]
    BY DEF PairsLeft
  <2>1. CASE q = p
    <3>1. pc'[q] = x
      BY <2>1 DEF TypeOK
    <3> QED
      BY <1>1, <2>1, <3>1
  <2>2. CASE q # p
    BY <2>2 DEF TypeOK
  <2> QED
    BY <2>1, <2>2
<1>3. <<p, PairStage[x]>> \in PairsLeft /\ <<p, PairStage[x]>> \notin PairsLeft'
  <2>1. pc'[p] = x
    BY DEF TypeOK
  <2>2. ~(PairStage[x] > PairStage[x])
    BY <1>1
  <2> QED
    BY <1>1, <2>1, <2>2 DEF PairsLeft
<1>4. Cardinality(PairsLeft') < Cardinality(PairsLeft)
  BY <1>2, <1>3, LeftIsNatural, SmallerIsFewer
<1>5. IsFiniteSet(PairsLeft') /\ Cardinality(PairsLeft') \in Nat
  BY <1>2, LeftIsNatural, FS_Subset, FS_CardinalityType
<1>6. JobsLeft' = JobsLeft
  BY DEF JobsLeft
<1> QED
  BY <1>4, <1>5, <1>6, LeftIsNatural DEF StepsLeft

LEMMA JobGoesOn ==
    ASSUME TypeOK, NEW j \in Jobs, NEW x \in {"analyzing", "done"},
           jobPc' = [jobPc EXCEPT ![j] = x], JobStage[x] > JobStage[jobPc[j]],
           UNCHANGED <<pc, expiries>>
    PROVE  StepsLeft' < StepsLeft
<1>1. JobStage[jobPc[j]] \in 0..2 /\ JobStage[x] \in 1..2
  BY DEF TypeOK, JobStage
<1>2. JobsLeft' \in SUBSET JobsLeft
  <2> SUFFICES ASSUME NEW i \in Jobs, NEW n \in 1..2, n > JobStage[jobPc'[i]]
               PROVE  n > JobStage[jobPc[i]]
    BY DEF JobsLeft
  <2>1. CASE i = j
    <3>1. jobPc'[i] = x
      BY <2>1 DEF TypeOK
    <3> QED
      BY <1>1, <2>1, <3>1
  <2>2. CASE i # j
    BY <2>2 DEF TypeOK
  <2> QED
    BY <2>1, <2>2
<1>3. <<j, JobStage[x]>> \in JobsLeft /\ <<j, JobStage[x]>> \notin JobsLeft'
  <2>1. jobPc'[j] = x
    BY DEF TypeOK
  <2>2. ~(JobStage[x] > JobStage[x])
    BY <1>1
  <2> QED
    BY <1>1, <2>1, <2>2 DEF JobsLeft
<1>4. Cardinality(JobsLeft') < Cardinality(JobsLeft)
  BY <1>2, <1>3, LeftIsNatural, SmallerIsFewer
<1>5. IsFiniteSet(JobsLeft') /\ Cardinality(JobsLeft') \in Nat
  BY <1>2, LeftIsNatural, FS_Subset, FS_CardinalityType
<1>6. PairsLeft' = PairsLeft
  BY DEF PairsLeft
<1> QED
  BY <1>4, <1>5, <1>6, LeftIsNatural DEF StepsLeft

LEMMA EveryStepCounts == TypeOK /\ [Next]_vars => [StepsLeft' < StepsLeft]_vars
<1> SUFFICES ASSUME TypeOK, [Next]_vars, vars' # vars PROVE StepsLeft' < StepsLeft
  OBVIOUS
<1>0. /\ PairStage["new"] = 0 /\ PairStage["queued"] = 1 /\ PairStage["joined"] = 2
      /\ PairStage["calling"] = 2 /\ PairStage["done"] = 3
      /\ JobStage["waiting"] = 0 /\ JobStage["analyzing"] = 1 /\ JobStage["done"] = 2
  BY DEF PairStage, JobStage
<1>1. ASSUME NEW j \in Jobs, BeginAnalysis(j) PROVE StepsLeft' < StepsLeft
  <2>1. jobPc[j] = "waiting" /\ jobPc' = [jobPc EXCEPT ![j] = "analyzing"] /\ UNCHANGED <<pc, expiries>>
    BY <1>1 DEF BeginAnalysis
  <2>2. JobStage["analyzing"] > JobStage[jobPc[j]]
    BY <1>0, <2>1
  <2> QED
    BY <2>1, <2>2, JobGoesOn, Zenon
<1>2. ASSUME NEW j \in Jobs, FinishAnalysis(j) PROVE StepsLeft' < StepsLeft
  <2>1. jobPc[j] = "analyzing" /\ jobPc' = [jobPc EXCEPT ![j] = "done"] /\ UNCHANGED <<pc, expiries>>
    BY <1>2 DEF FinishAnalysis
  <2>2. JobStage["done"] > JobStage[jobPc[j]]
    BY <1>0, <2>1
  <2> QED
    BY <2>1, <2>2, JobGoesOn, Zenon
<1>3. ASSUME NEW p \in Pairs, Join(p) PROVE StepsLeft' < StepsLeft
  <2>1. pc[p] = "new" /\ pc' = [pc EXCEPT ![p] = "joined"] /\ UNCHANGED <<jobPc, expiries>>
    BY <1>3 DEF Join, Starting, AwaitCall
  <2>2. PairStage["joined"] > PairStage[pc[p]]
    BY <1>0, <2>1
  <2> QED
    BY <2>1, <2>2, PairGoesOn, Zenon
<1>4. ASSUME NEW p \in Pairs, HitCache(p) PROVE StepsLeft' < StepsLeft
  <2>1. pc[p] = "new" /\ pc' = [pc EXCEPT ![p] = "done"] /\ UNCHANGED <<jobPc, expiries>>
    BY <1>4 DEF HitCache, Starting
  <2>2. PairStage["done"] > PairStage[pc[p]]
    BY <1>0, <2>1
  <2> QED
    BY <2>1, <2>2, PairGoesOn, Zenon
<1>5. ASSUME NEW p \in Pairs, StartCall(p) PROVE StepsLeft' < StepsLeft
  <2>1. pc[p] = "new" /\ pc' = [pc EXCEPT ![p] = "calling"] /\ UNCHANGED <<jobPc, expiries>>
    BY <1>5 DEF StartCall, Starting, IssueCall
  <2>2. PairStage["calling"] > PairStage[pc[p]]
    BY <1>0, <2>1
  <2> QED
    BY <2>1, <2>2, PairGoesOn, Zenon
<1>6. ASSUME NEW p \in Pairs, Enqueue(p) PROVE StepsLeft' < StepsLeft
  <2>1. pc[p] = "new" /\ pc' = [pc EXCEPT ![p] = "queued"] /\ UNCHANGED <<jobPc, expiries>>
    BY <1>6 DEF Enqueue, Starting
  <2>2. PairStage["queued"] > PairStage[pc[p]]
    BY <1>0, <2>1
  <2> QED
    BY <2>1, <2>2, PairGoesOn, Zenon
<1>7. ASSUME NEW p \in Pairs, ResumeJoin(p) PROVE StepsLeft' < StepsLeft
  <2>1. pc[p] = "queued" /\ pc' = [pc EXCEPT ![p] = "joined"] /\ UNCHANGED <<jobPc, expiries>>
    BY <1>7 DEF ResumeJoin, Granted, AwaitCall
  <2>2. PairStage["joined"] > PairStage[pc[p]]
    BY <1>0, <2>1
  <2> QED
    BY <2>1, <2>2, PairGoesOn, Zenon
<1>8. ASSUME NEW p \in Pairs, ResumeCall(p) PROVE StepsLeft' < StepsLeft
  <2>1. pc[p] = "queued" /\ pc' = [pc EXCEPT ![p] = "calling"] /\ UNCHANGED <<jobPc, expiries>>
    BY <1>8 DEF ResumeCall, Granted, IssueCall
  <2>2. PairStage["calling"] > PairStage[pc[p]]
    BY <1>0, <2>1
  <2> QED
    BY <2>1, <2>2, PairGoesOn, Zenon
<1>9. ASSUME NEW p \in Pairs, Succeed(p) \/ Fail(p) PROVE StepsLeft' < StepsLeft
  <2>1. pc[p] = "calling" /\ pc' = [pc EXCEPT ![p] = "done"] /\ UNCHANGED <<jobPc, expiries>>
    BY <1>9 DEF Succeed, Fail, Return
  <2>2. PairStage["done"] > PairStage[pc[p]]
    BY <1>0, <2>1
  <2> QED
    BY <2>1, <2>2, PairGoesOn, Zenon
<1>10. ASSUME NEW p \in Pairs, WakeJoiner(p) PROVE StepsLeft' < StepsLeft
  <2>1. pc[p] = "joined" /\ pc' = [pc EXCEPT ![p] = "done"] /\ UNCHANGED <<jobPc, expiries>>
    BY <1>10 DEF WakeJoiner
  <2>2. PairStage["done"] > PairStage[pc[p]]
    BY <1>0, <2>1
  <2> QED
    BY <2>1, <2>2, PairGoesOn, Zenon
<1>11. ASSUME NEW k \in Keys, Expire(k) PROVE StepsLeft' < StepsLeft
  <2>1. PairsLeft' = PairsLeft /\ JobsLeft' = JobsLeft /\ expiries' = expiries + 1
    BY <1>11 DEF Expire, PairsLeft, JobsLeft
  <2> QED
    BY <2>1, LeftIsNatural DEF StepsLeft, TypeOK
<1> QED
  BY <1>1, <1>2, <1>3, <1>4, <1>5, <1>6, <1>7, <1>8, <1>9, <1>10, <1>11 DEF Next, AllDone

\* Every step leaves fewer steps to take, of a number that is natural: a run of the engine
\* is finite, and by NeverDeadlocked it ends with all jobs done.
THEOREM EngineTerminates == Spec => [](StepsLeft \in Nat) /\ [][StepsLeft' < StepsLeft]_vars
<1>1. TypeOK => StepsLeft \in Nat
  BY LeftIsNatural
<1>2. Safe /\ []TypeOK => [][StepsLeft' < StepsLeft]_vars
  BY EveryStepCounts, PTL DEF Safe
<1> QED
  BY <1>1, <1>2, TypeCorrect, PTL DEF Spec
====
