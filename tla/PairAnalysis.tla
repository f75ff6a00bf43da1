---- MODULE PairAnalysis ----
(***************************************************************************)
(* The heart of ConsistencyEngine.analyze (services/consistency_engine.py): *)
(* every candidate clause pair of a job becomes one coroutine, and all the  *)
(* coroutines of all the running jobs share one cache and one table of      *)
(* calls in flight, while each job has a semaphore of its own.              *)
(*                                                                         *)
(* The coroutines run on one event loop, so an action is what a coroutine   *)
(* does between two points where it can really suspend: a locked semaphore, *)
(* the provider call, the future of another coroutine's call.  Awaiting the *)
(* in-process cache store does not suspend (its coroutines await nothing).  *)
(*                                                                         *)
(* A Finding is named by the pair whose provider call produced it.          *)
(***************************************************************************)
EXTENDS Naturals, Sequences, FiniteSets

CONSTANTS
    Jobs,           \* runs of ConsistencyEngine.analyze, one per started job
    Pairs,          \* candidate clause pairs left after filtering, over all jobs
    Keys,           \* cache keys
    JobOf,          \* the job a pair belongs to
    KeyOf,          \* cache key of a pair: the hashes of its two texts, sorted
    MaxConcurrent,  \* settings.max_concurrent_llm_calls
    MaxExpiries,    \* bound of the model: how many cache entries may expire
    None,           \* no entry, no future result, no answer yet
    Dropped         \* the None an analyze_pair returns when its call failed

ASSUME MaxConcurrentAssumption == MaxConcurrent \in Nat \ {0}
ASSUME MaxExpiriesAssumption == MaxExpiries \in Nat
ASSUME PairsAssumption ==
    /\ IsFiniteSet(Pairs)
    /\ IsFiniteSet(Jobs)
    /\ JobOf \in [Pairs -> Jobs]
    /\ KeyOf \in [Pairs -> Keys]
ASSUME NoneAssumption ==
    /\ None \notin Pairs
    /\ Dropped \notin Pairs
    /\ None # Dropped

VARIABLES
    jobPc,      \* job -> "waiting" | "analyzing" | "done"
    pc,         \* pair -> "new" | "queued" | "joined" | "calling" | "done"
    holders,    \* the pairs that hold a slot of their job's semaphore
    waiters,    \* job -> the FIFO queue of its semaphore
    inFlight,   \* _in_flight: key -> the pair whose call is under way
    awaited,    \* pair -> the pair whose future it awaits
    future,     \* pair -> the result set on the future it created
    cache,      \* the cache store: key -> the finding stored
    outcome,    \* pair -> what its analyze_pair returned
    llmCalls,   \* job -> metrics.llm_calls_made
    cacheHits,  \* job -> metrics.cache_hits
    expiries    \* how many entries have expired (bounded by MaxExpiries)

vars == <<jobPc, pc, holders, waiters, inFlight, awaited, future, cache,
          outcome, llmCalls, cacheHits, expiries>>

Results == Pairs \cup {Dropped}

PairsOf(j) == {p \in Pairs : JobOf[p] = j}

Init ==
    /\ jobPc = [j \in Jobs |-> "waiting"]
    /\ pc = [p \in Pairs |-> "new"]
    /\ holders = {}
    /\ waiters = [j \in Jobs |-> <<>>]
    /\ inFlight = [k \in Keys |-> None]
    /\ awaited = [p \in Pairs |-> None]
    /\ future = [p \in Pairs |-> None]
    /\ cache = [k \in Keys |-> None]
    /\ outcome = [p \in Pairs |-> None]
    /\ llmCalls = [j \in Jobs |-> 0]
    /\ cacheHits = [j \in Jobs |-> 0]
    /\ expiries = 0

(***************************************************************************)
(* The job around the pairs.                                               *)
(***************************************************************************)
Analyzing == {j \in Jobs : jobPc[j] = "analyzing"}

\* The worker's own semaphore lets a job in; analyze() then creates the job's
\* semaphore and hands every pair to asyncio.gather.
BeginAnalysis(j) ==
    /\ jobPc[j] = "waiting"
    /\ Cardinality(Analyzing) < MaxConcurrent
    /\ jobPc' = [jobPc EXCEPT ![j] = "analyzing"]
    /\ UNCHANGED <<pc, holders, waiters, inFlight, awaited, future, cache,
                   outcome, llmCalls, cacheHits, expiries>>

\* Mutant: gather lets the job go on when its first pair has returned.
FinishesEarly(j) ==
    /\ jobPc[j] = "analyzing"
    /\ \E p \in PairsOf(j) : pc[p] = "done"
    /\ jobPc' = [jobPc EXCEPT ![j] = "done"]
    /\ UNCHANGED <<pc, holders, waiters, inFlight, awaited, future, cache,
                   outcome, llmCalls, cacheHits, expiries>>

\* gather returns when every pair has; the findings are those not dropped.
FinishAnalysis(j) ==
    /\ jobPc[j] = "analyzing"
    /\ \A p \in PairsOf(j) : pc[p] = "done"
    /\ jobPc' = [jobPc EXCEPT ![j] = "done"]
    /\ UNCHANGED <<pc, holders, waiters, inFlight, awaited, future, cache,
                   outcome, llmCalls, cacheHits, expiries>>

(***************************************************************************)
(* The semaphore of a job (asyncio.Semaphore: FIFO, no barging).            *)
(***************************************************************************)
SlotsUsed(j) == holders \cap PairsOf(j)

\* Mutant: one semaphore acquisition too many is let through.
ExtraSlot(j) == Cardinality(SlotsUsed(j)) <= MaxConcurrent

HasFreeSlot(j) == Cardinality(SlotsUsed(j)) < MaxConcurrent

MustQueue(j) == ~HasFreeSlot(j) \/ waiters[j] # <<>>

\* Mutant: the slot taken by a pair is not given back.
KeepsSlot(p) == holders' = holders

Release(p) == holders' = holders \ {p}

(***************************************************************************)
(* analyze_pair.  Its first part runs without suspending and ends in one of *)
(* four ways: joined to a call in flight, answered from the cache, calling  *)
(* the provider, or queued for a slot.                                      *)
(***************************************************************************)
Starting(p) ==
    /\ pc[p] = "new"
    /\ jobPc[JobOf[p]] = "analyzing"

InFlight(p) == inFlight[KeyOf[p]] # None

Cached(p) == cache[KeyOf[p]] # None

\* Mutant: a future is awaited whether or not the key is in flight.
AwaitUnchecked(p) ==
    /\ pc' = [pc EXCEPT ![p] = "joined"]
    /\ awaited' = [awaited EXCEPT ![p] = inFlight[KeyOf[p]]]
    /\ UNCHANGED inFlight

AwaitCall(p) ==
    /\ InFlight(p)
    /\ pc' = [pc EXCEPT ![p] = "joined"]
    /\ awaited' = [awaited EXCEPT ![p] = inFlight[KeyOf[p]]]
    /\ UNCHANGED inFlight

IssueCall(p) ==
    /\ pc' = [pc EXCEPT ![p] = "calling"]
    /\ inFlight' = [inFlight EXCEPT ![KeyOf[p]] = p]
    /\ UNCHANGED awaited

\* The key is in flight: await that future, without a slot.
Join(p) ==
    /\ Starting(p)
    /\ AwaitCall(p)
    /\ UNCHANGED <<jobPc, holders, waiters, future, cache, outcome, llmCalls,
                   cacheHits, expiries>>

\* Mutant: the finding of a cache hit is returned without being counted.
HitUncounted(p) ==
    /\ Starting(p) /\ ~InFlight(p) /\ Cached(p)
    /\ pc' = [pc EXCEPT ![p] = "done"]
    /\ outcome' = [outcome EXCEPT ![p] = cache[KeyOf[p]]]
    /\ llmCalls' = [llmCalls EXCEPT ![JobOf[p]] = @ + 1]
    /\ UNCHANGED <<jobPc, holders, waiters, inFlight, awaited, future, cache,
                   cacheHits, expiries>>

\* A hit is recorded as an LLM call too (record_llm_call, cache_hit=True).
HitCache(p) ==
    /\ Starting(p) /\ ~InFlight(p) /\ Cached(p)
    /\ pc' = [pc EXCEPT ![p] = "done"]
    /\ outcome' = [outcome EXCEPT ![p] = cache[KeyOf[p]]]
    /\ llmCalls' = [llmCalls EXCEPT ![JobOf[p]] = @ + 1]
    /\ cacheHits' = [cacheHits EXCEPT ![JobOf[p]] = @ + 1]
    /\ UNCHANGED <<jobPc, holders, waiters, inFlight, awaited, future, cache,
                   expiries>>

\* A miss with a slot free: the semaphore does not suspend, so the call is
\* registered before any other coroutine runs.
StartCall(p) ==
    /\ Starting(p) /\ ~InFlight(p) /\ ~Cached(p)
    /\ ~MustQueue(JobOf[p])
    /\ IssueCall(p)
    /\ holders' = holders \cup {p}
    /\ UNCHANGED <<jobPc, waiters, future, cache, outcome, llmCalls,
                   cacheHits, expiries>>

\* A miss with no slot free: wait in the semaphore's queue.
Enqueue(p) ==
    /\ Starting(p) /\ ~InFlight(p) /\ ~Cached(p)
    /\ MustQueue(JobOf[p])
    /\ pc' = [pc EXCEPT ![p] = "queued"]
    /\ waiters' = [waiters EXCEPT ![JobOf[p]] = Append(@, p)]
    /\ UNCHANGED <<jobPc, holders, inFlight, awaited, future, cache, outcome,
                   llmCalls, cacheHits, expiries>>

(***************************************************************************)
(* A queued pair gets its slot.  The table in flight is looked at again,    *)
(* the cache is not.                                                       *)
(***************************************************************************)
Granted(p) ==
    LET queue == waiters[JobOf[p]] IN
    /\ pc[p] = "queued"
    /\ queue # <<>> /\ Head(queue) = p
    /\ HasFreeSlot(JobOf[p])
    /\ holders' = holders \cup {p}
    /\ waiters' = [waiters EXCEPT ![JobOf[p]] = Tail(@)]

\* Awaits the call in flight while it holds its slot, which nobody else of the job can use
\* meanwhile.
ResumeJoin(p) ==
    /\ Granted(p)
    /\ AwaitCall(p)
    /\ UNCHANGED <<jobPc, future, cache, outcome, llmCalls, cacheHits, expiries>>

\* Mutant: the table in flight is not looked at again after the wait.
ResumeUnchecked(p) ==
    /\ Granted(p)
    /\ IssueCall(p)
    /\ UNCHANGED <<jobPc, future, cache, outcome, llmCalls, cacheHits, expiries>>

ResumeCall(p) ==
    /\ Granted(p)
    /\ ~InFlight(p)
    /\ IssueCall(p)
    /\ UNCHANGED <<jobPc, future, cache, outcome, llmCalls, cacheHits, expiries>>

(***************************************************************************)
(* The end of a provider call, by the owner of the key.  The result is put  *)
(* on the future, the key leaves the table, the slot is given back.         *)
(***************************************************************************)

\* Mutant: the future of a call that failed is left pending.
ForgetsFailure(p, result) ==
    /\ pc' = [pc EXCEPT ![p] = "done"]
    /\ outcome' = [outcome EXCEPT ![p] = result]
    /\ future' = [future EXCEPT ![p] = IF result = Dropped THEN None ELSE result]
    /\ inFlight' = [inFlight EXCEPT ![KeyOf[p]] = None]
    /\ Release(p)

Return(p, result) ==
    /\ pc' = [pc EXCEPT ![p] = "done"]
    /\ outcome' = [outcome EXCEPT ![p] = result]
    /\ future' = [future EXCEPT ![p] = result]
    /\ inFlight' = [inFlight EXCEPT ![KeyOf[p]] = None]
    /\ Release(p)

Succeed(p) ==
    /\ pc[p] = "calling"
    /\ cache' = [cache EXCEPT ![KeyOf[p]] = p]
    /\ llmCalls' = [llmCalls EXCEPT ![JobOf[p]] = @ + 1]
    /\ Return(p, p)
    /\ UNCHANGED <<jobPc, waiters, awaited, cacheHits, expiries>>

\* Mutant: the failure of a call is cached like a finding.
CachesFailure(p) ==
    /\ pc[p] = "calling"
    /\ cache' = [cache EXCEPT ![KeyOf[p]] = p]
    /\ Return(p, Dropped)
    /\ UNCHANGED <<jobPc, waiters, awaited, llmCalls, cacheHits, expiries>>

\* The provider gave up, or what it returned could not be used.
Fail(p) ==
    /\ pc[p] = "calling"
    /\ Return(p, Dropped)
    /\ UNCHANGED <<jobPc, waiters, awaited, cache, llmCalls, cacheHits, expiries>>

\* The future awaited has its result: return it, and leave the semaphore if
\* this pair joined from inside it.
WakeJoiner(p) ==
    /\ pc[p] = "joined"
    /\ future[awaited[p]] # None
    /\ pc' = [pc EXCEPT ![p] = "done"]
    /\ outcome' = [outcome EXCEPT ![p] = future[awaited[p]]]
    /\ Release(p)
    /\ UNCHANGED <<jobPc, waiters, inFlight, awaited, future, cache, llmCalls,
                   cacheHits, expiries>>

\* The time to live of a cache entry has passed (LocalCacheStore drops it).
Expire(k) ==
    /\ cache[k] # None
    /\ expiries < MaxExpiries
    /\ cache' = [cache EXCEPT ![k] = None]
    /\ expiries' = expiries + 1
    /\ UNCHANGED <<jobPc, pc, holders, waiters, inFlight, awaited, future,
                   outcome, llmCalls, cacheHits>>

AllDone ==
    /\ \A j \in Jobs : jobPc[j] = "done"
    /\ UNCHANGED vars

Next ==
    \/ \E j \in Jobs : BeginAnalysis(j) \/ FinishAnalysis(j)
    \/ \E p \in Pairs :
          \/ Join(p) \/ HitCache(p) \/ StartCall(p) \/ Enqueue(p)
          \/ ResumeJoin(p) \/ ResumeCall(p)
          \/ Succeed(p) \/ Fail(p) \/ WakeJoiner(p)
    \/ \E k \in Keys : Expire(k)
    \/ AllDone

\* The event loop runs every coroutine that is ready, and a provider call ends:
\* its attempts and their timeouts are bounded (gemini_provider.py).
Fairness ==
    /\ \A j \in Jobs : WF_vars(BeginAnalysis(j)) /\ WF_vars(FinishAnalysis(j))
    /\ \A p \in Pairs :
          /\ WF_vars(Join(p) \/ HitCache(p) \/ StartCall(p) \/ Enqueue(p))
          /\ WF_vars(ResumeJoin(p) \/ ResumeCall(p))
          /\ WF_vars(Succeed(p) \/ Fail(p))
          /\ WF_vars(WakeJoiner(p))

Safe == Init /\ [][Next]_vars

Spec == Safe /\ Fairness

(***************************************************************************)
(* Properties                                                              *)
(***************************************************************************)

\* Every variable has its type; a pair that awaits a future awaits that of a
\* pair (the value read from _in_flight, never a missing entry).
TypeOK ==
    /\ jobPc \in [Jobs -> {"waiting", "analyzing", "done"}]
    /\ pc \in [Pairs -> {"new", "queued", "joined", "calling", "done"}]
    /\ holders \subseteq Pairs
    /\ waiters \in [Jobs -> Seq(Pairs)]
    /\ inFlight \in [Keys -> Pairs \cup {None}]
    /\ awaited \in [Pairs -> Pairs \cup {None}]
    /\ \A p \in Pairs : pc[p] = "joined" => awaited[p] \in Pairs
    /\ future \in [Pairs -> Results \cup {None}]
    /\ cache \in [Keys -> Pairs \cup {None}]
    /\ outcome \in [Pairs -> Results \cup {None}]
    /\ llmCalls \in [Jobs -> Nat]
    /\ cacheHits \in [Jobs -> Nat]
    /\ expiries \in 0..MaxExpiries

\* At any moment one pair at most calls the provider for a key, over all jobs,
\* and _in_flight names exactly the pairs that are calling (:146, :171, :223).
SingleFlight ==
    /\ \A p \in Pairs : pc[p] = "calling" => inFlight[KeyOf[p]] = p
    /\ \A k \in Keys : inFlight[k] # None =>
          pc[inFlight[k]] = "calling" /\ KeyOf[inFlight[k]] = k

\* Whoever awaits a future will be woken: the future has its result, or the pair
\* that must set it is still calling.  It never awaits a pair that itself waits
\* for a slot or a future, so slots held by joiners cannot close a cycle.
JoinersAreWoken ==
    \A p \in Pairs : pc[p] = "joined" =>
        /\ KeyOf[awaited[p]] = KeyOf[p]
        /\ \/ future[awaited[p]] # None
           \/ pc[awaited[p]] = "calling" /\ inFlight[KeyOf[p]] = awaited[p]

\* A finding, returned or cached, was made by a provider call that succeeded, for
\* a pair with the same two texts.
FindingsAreGenuine ==
    /\ \A p \in Pairs : outcome[p] \in Pairs =>
          outcome[outcome[p]] = outcome[p] /\ KeyOf[outcome[p]] = KeyOf[p]
    /\ \A k \in Keys : cache[k] # None =>
          outcome[cache[k]] = cache[k] /\ KeyOf[cache[k]] = k

\* The slots of a job: never more than max_concurrent_llm_calls in use, and no pair
\* calls without one.  Each is held by a pair that calls, or by one that found its key
\* in flight when its turn came and awaits that call from inside the semaphore
\* (:163-166).  So the slots are not what engine:162 ("ONLY for actual in-flight LLM
\* calls") and docs/ARCHITECTURE.md:41 ("only consumed for uncached, in-flight LLM
\* calls") say they are, and fewer calls than slots may be under way while pairs wait.
SlotsBounded ==
    /\ \A j \in Jobs : Cardinality(SlotsUsed(j)) <= MaxConcurrent
    /\ \A p \in holders : pc[p] \in {"calling", "joined"}
    /\ \A p \in Pairs : pc[p] = "calling" => p \in holders

\* A job ends with an answer for every pair, and a pair is dropped only when its
\* own call, or the call whose future it awaited, failed.
AnswersComplete ==
    /\ \A p \in Pairs : jobPc[JobOf[p]] = "done" => outcome[p] # None
    /\ \A p \in Pairs : outcome[p] = Dropped =>
          future[p] = Dropped \/ (awaited[p] # None /\ future[awaited[p]] = Dropped)

\* The future a pair creates is resolved when the pair returns and never before,
\* with what the pair returned: its own finding or nothing.
FuturesAgree ==
    /\ \A p \in Pairs : outcome[p] # None <=> pc[p] = "done"
    /\ \A p \in Pairs : future[p] # None =>
          pc[p] = "done" /\ future[p] = outcome[p] /\ future[p] \in {p, Dropped}

\* A pair that has started and not returned belongs to a job that is running.
PairsRunInJob ==
    \A p \in Pairs : pc[p] \in {"queued", "joined", "calling"} =>
        jobPc[JobOf[p]] = "analyzing"

\* The inductive invariant of PairAnalysisProofs, but for the counting.
Inv ==
    /\ TypeOK
    /\ SingleFlight
    /\ JoinersAreWoken
    /\ FuturesAgree
    /\ PairsRunInJob
    /\ FindingsAreGenuine
    /\ AnswersComplete

\* The pairs of a job for which the provider was called, and those of them whose call is
\* under way or failed.
Issued(j) == {p \in PairsOf(j) : pc[p] = "calling" \/ future[p] # None}
Unrecorded(j) == {p \in Issued(j) : future[p] \notin Pairs}

\* How far llm_calls_made is from the "Total LLM calls issued" that core/logging.py:120
\* calls it: it has every cache hit besides, for which no call was issued, and lacks the
\* calls that failed or have not ended, which are recorded nowhere (:152, :202, :213-221,
\* logging:222-235).  A joiner issues no call and counts for nothing.
MetricsAgree ==
    \A j \in Jobs :
        llmCalls[j] + Cardinality(Unrecorded(j)) = cacheHits[j] + Cardinality(Issued(j))

\* Every job ends, whatever fails, expires or waits for what.
EveryJobEnds == \A j \in Jobs : <>(jobPc[j] = "done")

\* The engine keeps the promise of AnalysisService: of all its state a caller sees
\* the phase of each job and the answer to each pair.
Service == INSTANCE AnalysisService
    WITH Jobs <- Jobs, Pairs <- Pairs, JobOf <- JobOf, KeyOf <- KeyOf,
         None <- None, Dropped <- Dropped, jobPc <- jobPc, outcome <- outcome

ImplementsService == Service!Spec

(***************************************************************************)
(* Claims of the documentation that the code does not keep.                *)
(***************************************************************************)
Calls(p) == pc[p] # "calling" /\ pc'[p] = "calling"

\* README.md:116, "identical documents/pairs are not reprocessed": a pair whose
\* finding is in the cache is not sent to the provider.  Not so for a pair that
\* was queued for a slot when the finding was stored: only _in_flight is looked at
\* again after the wait (:165).
CachedPairsNotReprocessed ==
    [][\A p \in Pairs : Calls(p) => cache[KeyOf[p]] = None]_vars

\* config.py:49, "Maximum simultaneous in-flight LLM calls (semaphore bound)".  The
\* semaphore of the calls belongs to one job (:128), and as many jobs run at once.
GlobalCallsBounded ==
    Cardinality({p \in Pairs : pc[p] = "calling"}) <= MaxConcurrent
====
