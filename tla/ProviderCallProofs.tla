---- MODULE ProviderCallProofs ----
(***************************************************************************)
(* Proofs about ProviderCall, for any number of retries.                    *)
(***************************************************************************)
EXTENDS ProviderCall, TLAPS

USE MaxRetriesAssumption, NoneAssumption

Inv ==
    /\ TypeOK /\ Trying /\ SleepsFollowBackoff
    /\ ReportedOnce /\ GivenUpOnlyWhenExhausted
    /\ Completed => Len(sleeps) = Len(attempts) - 1

LEMMA BackoffGrows ==
    /\ \A i \in Nat : Backoff(i) \in 1..8
    /\ \A i, k \in Nat : i <= k => Backoff(i) <= Backoff(k)
  BY DEF Backoff

\* An interval from 1 has one upper end.
LEMMA CountOfInterval == \A m, n \in Nat : 1..m = 1..n => m = n
<1> SUFFICES ASSUME NEW m \in Nat, NEW n \in Nat, 1..m = 1..n, m # n PROVE FALSE
  OBVIOUS
<1>1. m \in 1..n \/ m = 0
  BY m \in 1..m \/ m = 0
<1>2. n \in 1..m \/ n = 0
  BY n \in 1..n \/ n = 0
<1> QED
  BY <1>1, <1>2

\* What an attempt adds to the list of attempts, and what of it stays.
LEMMA AppendFacts ==
    ASSUME NEW S, NEW s \in Seq(S), NEW x \in S
    PROVE  /\ Append(s, x) \in Seq(S)
           /\ Len(Append(s, x)) = Len(s) + 1
           /\ Append(s, x)[Len(s) + 1] = x
           /\ \A i \in 1..Len(s) : Append(s, x)[i] = s[i]
  OBVIOUS

LEMMA InvInit == Init => Inv
<1> SUFFICES ASSUME Init PROVE Inv
  OBVIOUS
<1>1. Len(attempts) = 0 /\ Len(sleeps) = 0 /\ stage # "ended" /\ outcome \notin Outcomes
  BY DEF Init
<1>2. TypeOK
  BY DEF Init, TypeOK
<1>3. Trying /\ SleepsFollowBackoff /\ GivenUpOnlyWhenExhausted
  BY <1>1 DEF Trying, SleepsFollowBackoff, GivenUpOnlyWhenExhausted, Outcomes
<1>4. Failures = 1..retryCount
  BY <1>1 DEF Init, Failures
<1>5. ReportedOnce
  BY <1>1, <1>4 DEF Init, ReportedOnce, Completed
<1> QED
  BY <1>1, <1>2, <1>3, <1>5 DEF Inv, Completed

\* An attempt that is not worth a retry ends the call and is the only such one.
LEMMA FinalStep ==
    ASSUME Inv, stage = "posting",
           NEW kind \in Bodies \cup {"refused"}, NEW result \in {"judgment", "permanent", "unexpected"},
           NEW success \in BOOLEAN, NEW error \in {"none", "permanent"},
           success <=> kind \in Bodies,
           attempts' = Append(attempts, kind),
           Emit(success, retryCount, error),
           EndsWith(result),
           UNCHANGED <<sleeps, retryCount>>
    PROVE  Inv'
<1>1. /\ attempts' \in Seq(Attempts)
      /\ Len(attempts') = Len(attempts) + 1
      /\ attempts'[Len(attempts) + 1] = kind
      /\ \A i \in 1..Len(attempts) : attempts'[i] = attempts[i]
  BY AppendFacts DEF Inv, TypeOK, Attempts
<1>2. kind \notin Retryable
  BY DEF Bodies, Retryable
<1>3. /\ Len(attempts) \in Nat /\ Len(attempts) <= MaxRetries /\ Len(sleeps) = Len(attempts)
      /\ \A i \in 1..Len(attempts) : attempts[i] \in Retryable
  BY DEF Inv, TypeOK, Trying
<1>4. metrics = <<>>
  BY DEF Inv, ReportedOnce, Completed
<1>5. /\ metrics' = <<[success |-> success, retry_count |-> retryCount, error_type |-> error]>>
      /\ stage' = "ended" /\ outcome' = result
  BY <1>4 DEF Emit, EndsWith
<1>6. /\ metrics' \in Seq(Metric) /\ Len(metrics') = 1
      /\ metrics'[1].success = success /\ metrics'[1].error_type = error
      /\ metrics'[1].retry_count = retryCount
  BY <1>5 DEF Inv, TypeOK, Metric
<1>7. TypeOK'
  BY <1>1, <1>3, <1>5, <1>6 DEF Inv, TypeOK, Outcomes
<1>8. Failures' = 1..retryCount'
  <2>1. Failures' = Failures
    BY <1>1, <1>2, <1>3 DEF Failures
  <2> QED
    BY <2>1 DEF Inv, ReportedOnce
<1>9. ReportedOnce'
  BY <1>1, <1>3, <1>5, <1>6, <1>8 DEF ReportedOnce, Completed, Last
<1>10. GivenUpOnlyWhenExhausted'
  BY <1>1, <1>2, <1>3, <1>5 DEF GivenUpOnlyWhenExhausted, Last
<1> QED
  BY <1>1, <1>3, <1>5, <1>7, <1>9, <1>10 DEF Inv, Trying, SleepsFollowBackoff, Completed

\* A failure with retries left adds one attempt, one wait and one to the count.
LEMMA SleepStep ==
    ASSUME Inv, NEW kind \in Retryable, FailAndSleep(kind)
    PROVE  Inv'
<1>1. /\ attempts' \in Seq(Attempts)
      /\ Len(attempts') = Len(attempts) + 1
      /\ attempts'[Len(attempts) + 1] = kind
      /\ \A i \in 1..Len(attempts) : attempts'[i] = attempts[i]
  BY AppendFacts DEF Inv, TypeOK, Attempts, FailAndSleep
<1>2. /\ Len(attempts) \in Nat /\ Len(attempts) < MaxRetries /\ Len(sleeps) = Len(attempts)
      /\ \A i \in 1..Len(attempts) : attempts[i] \in Retryable
  BY DEF Inv, TypeOK, Trying, FailAndSleep, MayRetry
<1>3. /\ sleeps' \in Seq(1..8)
      /\ Len(sleeps') = Len(sleeps) + 1
      /\ sleeps'[Len(sleeps) + 1] = Backoff(Len(sleeps))
      /\ \A i \in 1..Len(sleeps) : sleeps'[i] = sleeps[i]
  BY <1>2, BackoffGrows, AppendFacts DEF Inv, TypeOK, FailAndSleep
<1>4. metrics' = <<>> /\ outcome' = None /\ stage' = "sleeping" /\ retryCount' = retryCount + 1
  BY DEF Inv, TypeOK, ReportedOnce, Completed, FailAndSleep
<1>5. TypeOK'
  BY <1>1, <1>2, <1>3, <1>4 DEF Inv, TypeOK
<1>6. retryCount = Len(attempts)
  <2>1. Failures = 1..Len(attempts) /\ Failures = 1..retryCount /\ retryCount \in Nat
    BY <1>2 DEF Inv, TypeOK, ReportedOnce, Failures
  <2> QED
    BY <1>2, <2>1, CountOfInterval
<1>7. Trying'
  BY <1>1, <1>2, <1>3 DEF Trying
<1>8. Failures' = 1..retryCount'
  BY <1>1, <1>2, <1>4, <1>6 DEF Failures
<1>9. ReportedOnce' /\ GivenUpOnlyWhenExhausted'
  BY <1>1, <1>2, <1>4, <1>8 DEF ReportedOnce, Completed, GivenUpOnlyWhenExhausted, Outcomes
<1>10. SleepsFollowBackoff'
  BY <1>2, <1>3 DEF Inv, SleepsFollowBackoff
<1> QED
  BY <1>4, <1>5, <1>7, <1>9, <1>10 DEF Inv, Completed

\* The last failure is counted and reported, and nothing is slept for it.
LEMMA LastStep ==
    ASSUME Inv, NEW kind \in Retryable, FailAtLast(kind)
    PROVE  Inv'
<1>1. /\ attempts' \in Seq(Attempts)
      /\ Len(attempts') = Len(attempts) + 1
      /\ attempts'[Len(attempts) + 1] = kind
      /\ \A i \in 1..Len(attempts) : attempts'[i] = attempts[i]
  BY AppendFacts DEF Inv, TypeOK, Attempts, FailAtLast
<1>2. /\ Len(attempts) \in Nat /\ Len(attempts) = MaxRetries /\ Len(sleeps) = Len(attempts)
      /\ \A i \in 1..Len(attempts) : attempts[i] \in Retryable
      /\ sleeps' = sleeps
  BY DEF Inv, TypeOK, Trying, FailAtLast, MayRetry
<1>3. metrics = <<>> /\ retryCount \in Nat
  BY DEF Inv, TypeOK, ReportedOnce, Completed, FailAtLast
<1>4. /\ metrics' = <<[success |-> FALSE, retry_count |-> retryCount + 1,
                       error_type |-> "retryable_exhausted"]>>
      /\ stage' = "ended" /\ outcome' = "retryable" /\ retryCount' = retryCount + 1
  BY <1>3 DEF FailAtLast, Emit, EndsWith
<1>5. /\ metrics' \in Seq(Metric) /\ Len(metrics') = 1
      /\ metrics'[1].success = FALSE /\ metrics'[1].error_type = "retryable_exhausted"
      /\ metrics'[1].retry_count = retryCount'
  BY <1>3, <1>4 DEF Metric
<1>6. TypeOK'
  BY <1>1, <1>2, <1>3, <1>4, <1>5 DEF Inv, TypeOK, Outcomes
<1>7. retryCount = Len(attempts)
  BY <1>2, <1>3 DEF Inv, ReportedOnce, Failures
<1>8. Failures' = 1..retryCount'
  BY <1>1, <1>2, <1>4, <1>7 DEF Failures
<1>9. Last' \in Retryable /\ Last' \notin Bodies
  BY <1>1 DEF Last, Retryable, Bodies
<1>10. ReportedOnce'
  BY <1>4, <1>5, <1>8, <1>9 DEF ReportedOnce, Completed
<1>11. GivenUpOnlyWhenExhausted'
  BY <1>1, <1>2, <1>4, <1>9 DEF GivenUpOnlyWhenExhausted
<1> QED
  BY <1>1, <1>2, <1>4, <1>6, <1>10, <1>11 DEF Inv, Trying, SleepsFollowBackoff, Completed

\* Waking up and being cancelled change nothing that was recorded.
LEMMA OtherStep ==
    ASSUME Inv, WakeUp \/ Cancel \/ UNCHANGED vars
    PROVE  Inv'
<1> USE DEF Inv, TypeOK, Trying, SleepsFollowBackoff, ReportedOnce, Completed, Failures,
        GivenUpOnlyWhenExhausted, Last
<1>1. CASE WakeUp
  BY <1>1 DEF WakeUp
<1>2. CASE Cancel
  BY <1>2 DEF Cancel, EndsWith, Outcomes
<1>3. CASE UNCHANGED vars
  BY <1>3 DEF vars
<1> QED
  BY <1>1, <1>2, <1>3

LEMMA Invariant == Spec => []Inv
<1>1. ASSUME Inv, [Next]_vars PROVE Inv'
  <2>1. ASSUME NEW body \in Bodies, Answer(body) PROVE Inv'
    <3>1. ResultOf(body) \in {"judgment", "permanent", "unexpected"}
      BY DEF ResultOf
    <3> QED
      BY <1>1, <2>1, <3>1, FinalStep DEF Answer
  <2>2. ASSUME Refuse PROVE Inv'
    <3>1. "refused" \notin Bodies
      BY DEF Bodies
    <3> QED
      BY <1>1, <2>2, <3>1, FinalStep DEF Refuse
  <2>3. ASSUME NEW kind \in Retryable, FailAndSleep(kind) \/ FailAtLast(kind) PROVE Inv'
    BY <1>1, <2>3, SleepStep, LastStep
  <2> QED
    BY <1>1, <2>1, <2>2, <2>3, OtherStep DEF Next, Attempt
<1> QED
  BY <1>1, InvInit, PTL DEF Spec

\* The attempts keep to the limit, for every limit, and the waits to eight seconds.
THEOREM TypeCorrect == Spec => []TypeOK
<1>1. Inv => TypeOK
  BY DEF Inv
<1> QED
  BY <1>1, Invariant, PTL

\* Every call that is not cancelled is reported once and truthfully.
THEOREM CallsAreReported == Spec => []ReportedOnce
<1>1. Inv => ReportedOnce
  BY DEF Inv
<1> QED
  BY <1>1, Invariant, PTL

\* Retrying stops at the first final answer and not before the limit otherwise.
THEOREM RetriesAreUsed == Spec => []GivenUpOnlyWhenExhausted
<1>1. Inv => GivenUpOnlyWhenExhausted
  BY DEF Inv
<1> QED
  BY <1>1, Invariant, PTL

\* Waits lie between attempts and do not get shorter.
THEOREM WaitsAreBetween == Spec => []SleepsBetweenAttempts
<1>1. Inv => SleepsBetweenAttempts
  <2> SUFFICES ASSUME Inv, NEW i \in 1..Len(sleeps), NEW k \in 1..Len(sleeps), i < k
               PROVE  sleeps[i] <= sleeps[k]
    BY DEF Inv, SleepsBetweenAttempts
  <2>1. sleeps[i] = Backoff(i - 1) /\ sleeps[k] = Backoff(k - 1)
    BY DEF Inv, SleepsFollowBackoff
  <2>2. i - 1 \in Nat /\ k - 1 \in Nat /\ i - 1 <= k - 1
    BY DEF Inv, TypeOK
  <2> QED
    BY <2>1, <2>2, BackoffGrows
<1> QED
  BY <1>1, Invariant, PTL

\* The steps a call has before it: each attempt left and the wait after it.
StepsLeft ==
    IF stage = "ended" THEN 0
    ELSE 2 * (MaxRetries + 1 - Len(attempts)) + (IF stage = "sleeping" THEN 1 ELSE 0)

LEMMA StepsAreBounded == Inv => StepsLeft \in 0..(2 * MaxRetries + 3)
<1> SUFFICES ASSUME Inv PROVE StepsLeft \in 0..(2 * MaxRetries + 3)
  OBVIOUS
<1>1. Len(attempts) \in Nat /\ (stage # "ended" => Len(attempts) <= MaxRetries)
  BY DEF Inv, TypeOK, Trying
<1> QED
  BY <1>1 DEF StepsLeft

LEMMA StepIsOneLess == Inv /\ Next => StepsLeft' < StepsLeft
<1> SUFFICES ASSUME Inv, Next PROVE StepsLeft' < StepsLeft
  OBVIOUS
<1>1. /\ Len(attempts) \in Nat /\ stage \in {"posting", "sleeping", "ended"}
      /\ stage # "ended" => Len(attempts) <= MaxRetries
  BY DEF Inv, TypeOK, Trying
<1>2. ASSUME stage # "ended", stage' = "ended" PROVE StepsLeft' < StepsLeft
  <2>1. StepsLeft' = 0
    BY <1>2 DEF StepsLeft
  <2>2. \E n \in {0, 1} : StepsLeft = 2 * (MaxRetries + 1 - Len(attempts)) + n
    BY <1>2 DEF StepsLeft
  <2>3. MaxRetries + 1 - Len(attempts) \in Nat \ {0}
    BY <1>1, <1>2
  <2> QED
    BY <2>1, <2>2, <2>3
<1>3. ASSUME NEW body \in Bodies, Answer(body) PROVE StepsLeft' < StepsLeft
  BY <1>2, <1>3 DEF Answer, EndsWith
<1>4. CASE Refuse
  BY <1>2, <1>4 DEF Refuse, EndsWith
<1>5. ASSUME NEW kind \in Retryable, FailAtLast(kind) PROVE StepsLeft' < StepsLeft
  BY <1>2, <1>5 DEF FailAtLast, EndsWith
<1>6. ASSUME NEW kind \in Retryable, FailAndSleep(kind) PROVE StepsLeft' < StepsLeft
  <2>1. stage = "posting" /\ stage' = "sleeping" /\ attempts' = Append(attempts, kind)
    BY <1>6 DEF FailAndSleep
  <2>2. Len(attempts') = Len(attempts) + 1
    BY <2>1 DEF Inv, TypeOK
  <2> QED
    BY <1>1, <2>1, <2>2 DEF StepsLeft
<1>7. CASE WakeUp
  BY <1>1, <1>7 DEF WakeUp, StepsLeft
<1>8. CASE Cancel
  BY <1>2, <1>8 DEF Cancel, EndsWith
<1> QED
  BY <1>3, <1>4, <1>5, <1>6, <1>7, <1>8 DEF Next, Attempt

\* Whatever the provider answers, each step of a call brings it nearer to its end, within a
\* number of steps that LLM_MAX_RETRIES sets (:128-214); for CallEnds only the fairness of
\* the timers is missing.
THEOREM CallTerminates ==
    Spec => [](StepsLeft \in 0..(2 * MaxRetries + 3)) /\ [][StepsLeft' < StepsLeft]_vars
<1>1. Inv /\ [Next]_vars => (StepsLeft' < StepsLeft \/ UNCHANGED vars)
  BY StepIsOneLess
<1> QED
  BY <1>1, Invariant, StepsAreBounded, PTL DEF Spec
====
