---- MODULE ProviderCall ----
(***************************************************************************)
(* One call of the Gemini provider: analyze_consistency around              *)
(* _call_gemini, with its attempts, its waits and its metric                *)
(* (providers/gemini_provider.py).  Calls share nothing but the HTTP client *)
(* so one is enough.                                                       *)
(*                                                                         *)
(* An attempt is named by how it ends.  What was asked and the text of the  *)
(* answer are left out.                                                    *)
(***************************************************************************)
EXTENDS Integers, Sequences

CONSTANTS
    MaxRetries,     \* settings.llm_max_retries
    None

ASSUME MaxRetriesAssumption == MaxRetries \in Nat

\* Statuses 429 and from 500, httpx.TimeoutException, other httpx.HTTPError.
Retryable == {"throttled", "serverError", "timeout", "networkError"}

\* Status 200: a judgment, text that is none, no candidates or parts, no JSON at all.
Bodies == {"judgment", "malformed", "empty", "notJson"}

\* "refused" is any other status.
Attempts == Retryable \cup Bodies \cup {"refused"}

Outcomes == {"judgment", "permanent", "retryable", "unexpected", "cancelled"}

ASSUME NoneAssumption == None \notin Outcomes

VARIABLES
    stage,      \* "posting" | "sleeping" | "ended"
    attempts,   \* how the attempts ended so far
    sleeps,     \* the seconds slept after each
    retryCount,
    metrics,    \* the LLMCallMetrics emitted
    outcome     \* what the caller gets, None before the end

vars == <<stage, attempts, sleeps, retryCount, metrics, outcome>>

Metric == [success : BOOLEAN, retry_count : Nat,
           error_type : {"none", "permanent", "retryable_exhausted"}]

Init ==
    /\ stage = "posting"
    /\ attempts = <<>> /\ sleeps = <<>> /\ metrics = <<>>
    /\ retryCount = 0
    /\ outcome = None

\* min(2 ** attempt, 8), for the attempt that just failed, counted from 0.
Backoff(attempt) ==
    CASE attempt = 0 -> 1 [] attempt = 1 -> 2 [] attempt = 2 -> 4 [] OTHER -> 8

EndsWith(result) == stage' = "ended" /\ outcome' = result

Emit(success, retries, error) ==
    metrics' = Append(metrics, [success |-> success, retry_count |-> retries, error_type |-> error])

\* How analyze_consistency takes a body: the call itself raises for an empty one,
\* json() for what is no JSON, model_validate for what is no judgment.
ResultOf(body) ==
    CASE body = "judgment" -> "judgment"
      [] body = "notJson" -> "unexpected"
      [] OTHER -> "permanent"

\* Mutant: the metric waits until the body has been examined and is then skipped.
AnswerUnreported(body) ==
    /\ stage = "posting"
    /\ attempts' = Append(attempts, body)
    /\ IF body = "empty" THEN UNCHANGED metrics ELSE Emit(TRUE, retryCount, "none")
    /\ EndsWith(ResultOf(body))
    /\ UNCHANGED <<sleeps, retryCount>>

Answer(body) ==
    /\ stage = "posting"
    /\ attempts' = Append(attempts, body)
    /\ Emit(TRUE, retryCount, "none")
    /\ EndsWith(ResultOf(body))
    /\ UNCHANGED <<sleeps, retryCount>>

Refuse ==
    /\ stage = "posting"
    /\ attempts' = Append(attempts, "refused")
    /\ Emit(FALSE, retryCount, "permanent")
    /\ EndsWith("permanent")
    /\ UNCHANGED <<sleeps, retryCount>>

\* Mutant: the attempts are counted from 1.
StopsShort == Len(attempts) + 1 < MaxRetries

\* Mutant: the wait is entered after the last attempt too, and one more follows.
OneAttemptMore == Len(attempts) <= MaxRetries

MayRetry == Len(attempts) < MaxRetries

FailAndSleep(kind) ==
    /\ stage = "posting" /\ MayRetry
    /\ attempts' = Append(attempts, kind)
    /\ sleeps' = Append(sleeps, Backoff(Len(attempts)))
    /\ retryCount' = retryCount + 1
    /\ stage' = "sleeping"
    /\ UNCHANGED <<metrics, outcome>>

\* Mutant: the call sleeps before it gives up.
SleepsOnceMore(kind) ==
    /\ stage = "posting" /\ ~MayRetry
    /\ attempts' = Append(attempts, kind)
    /\ sleeps' = Append(sleeps, Backoff(Len(attempts)))
    /\ retryCount' = retryCount + 1
    /\ Emit(FALSE, retryCount + 1, "retryable_exhausted")
    /\ EndsWith("retryable")

FailAtLast(kind) ==
    /\ stage = "posting" /\ ~MayRetry
    /\ attempts' = Append(attempts, kind)
    /\ retryCount' = retryCount + 1
    /\ Emit(FALSE, retryCount + 1, "retryable_exhausted")
    /\ EndsWith("retryable")
    /\ UNCHANGED sleeps

\* Mutant: the loop is left after the wait.
WakesToNothing == stage = "sleeping" /\ UNCHANGED vars

WakeUp ==
    /\ stage = "sleeping"
    /\ stage' = "posting"
    /\ UNCHANGED <<attempts, sleeps, retryCount, metrics, outcome>>

\* Shutdown cancels the task at an await; no handler here catches that.
Cancel ==
    /\ stage # "ended"
    /\ EndsWith("cancelled")
    /\ UNCHANGED <<attempts, sleeps, retryCount, metrics>>

Attempt ==
    \/ \E body \in Bodies : Answer(body)
    \/ Refuse
    \/ \E kind \in Retryable : FailAndSleep(kind) \/ FailAtLast(kind)

Next == Attempt \/ WakeUp \/ Cancel

\* The client's timeout and asyncio's timers end every wait.
Fairness == WF_vars(Attempt) /\ WF_vars(WakeUp)

Spec == Init /\ [][Next]_vars /\ Fairness

(***************************************************************************)
(* Properties                                                              *)
(***************************************************************************)

\* Types, with the bounds on attempts and waits that LLM_MAX_RETRIES promises.
TypeOK ==
    /\ stage \in {"posting", "sleeping", "ended"}
    /\ attempts \in Seq(Attempts) /\ Len(attempts) <= MaxRetries + 1
    /\ sleeps \in Seq(1..8)
    /\ retryCount \in Nat
    /\ metrics \in Seq(Metric)
    /\ outcome \in Outcomes \cup {None}
    /\ stage = "ended" <=> outcome # None

Completed == stage = "ended" /\ outcome # "cancelled"
Last == attempts[Len(attempts)]
Failures == {i \in 1..Len(attempts) : attempts[i] \in Retryable}

\* A call that was not cancelled is reported once, by whichever way it left the loop,
\* and the report tells the three ways apart and counts the failed attempts (:134,
\* :176, :217).  Before that nothing is reported.
ReportedOnce ==
    /\ ~Completed => metrics = <<>>
    /\ Completed =>
          /\ Len(metrics) = 1
          /\ metrics[1].success <=> Last \in Bodies
          /\ metrics[1].error_type = "retryable_exhausted" <=> outcome = "retryable"
          /\ metrics[1].retry_count = retryCount
    /\ Failures = 1..retryCount

\* A call is given up only when every attempt it has failed in a way that another
\* might not; an answer or a refusal is final and is the only such attempt (:128-214).
GivenUpOnlyWhenExhausted ==
    /\ outcome = "retryable" => Len(attempts) = MaxRetries + 1 /\ Last \in Retryable
    /\ outcome \in {"judgment", "permanent", "unexpected"} => Last \notin Retryable
    /\ \A i \in 1..Len(attempts) - 1 : attempts[i] \in Retryable

\* There is a wait between two attempts and none after the last, which would hold the
\* caller's slot for nothing; waits do not get shorter (:161-168, :195-213).
SleepsBetweenAttempts ==
    /\ Completed => Len(sleeps) = Len(attempts) - 1
    /\ \A i \in 1..Len(sleeps), k \in 1..Len(sleeps) : i < k => sleeps[i] <= sleeps[k]

(***************************************************************************)
(* What the proofs need besides: until it ends, a call has only failed, in  *)
(* ways worth a retry, and has slept after each failure for its backoff.    *)
(***************************************************************************)

Trying ==
    stage # "ended" =>
        /\ Len(attempts) <= MaxRetries
        /\ Len(sleeps) = Len(attempts)
        /\ \A i \in 1..Len(attempts) : attempts[i] \in Retryable

SleepsFollowBackoff == \A i \in 1..Len(sleeps) : sleeps[i] = Backoff(i - 1)

\* Every call ends, which PairAnalysis assumes of the provider.
CallEnds == <>(stage = "ended")
====
