# ConsistencyMesh in TLA+

ConsistencyMesh takes contracts and policies, cuts them into clauses, selects the
pairs of clauses that may contradict each other, has each pair judged by a language
model, validates the evidence the model cites, and reports the findings. This
directory holds TLA+ models of the backend, the TLC configurations that check them
and proofs about them for TLAPS.

Paths and line numbers below are those of the repository; `engine:165` stands for
`backend/services/consistency_engine.py:165`, and likewise for the other files.

## 1. The system

The backend is one asyncio event loop. Two coroutines interleave only where one of
them really suspends, so the first question about each `await` is whether it does:

- `await` of the in-process stores never suspends (`state/local_store.py`: the bodies
  await nothing);
- `async with semaphore` suspends only when the semaphore is locked;
- awaiting the provider, a future or `asyncio.gather` suspends.

| component | state it keeps | operations | talks to |
|---|---|---|---|
| analysis endpoint `api/analysis.py` | none | POST creates and submits a job, GET reads status and metrics | job manager, worker |
| job manager `jobs/job_manager.py` | the keys `job:J:*` and `session:S:job:J` | `create_job`, `update_state`, `store_result`, `store_metrics`, `get_status` | state store |
| worker `jobs/worker.py` | `_active_tasks`, a semaphore over jobs | `submit_job`, `_run_job`, cleanup, `shutdown` | job manager, engine |
| engine `services/consistency_engine.py` | `_in_flight` (futures by key), a semaphore per job | `analyze`, `analyze_pair`, `_build_graph` | candidate selection, cache, provider, validator, metrics |
| stores `state/` | tables of values with expiry | get, set, delete, exists, keys | |
| candidate selection `matching/` | TF-IDF index of one analysis | generate, score, filter | |
| provider `providers/` | HTTP client | attempts with backoff, parsing of answers | Gemini |
| evidence validator `services/evidence_validator.py` | none | `validate_finding`, `validate_qa_evidence` | sanitiser |
| document service `services/document_service.py` | `doc:D:*`, `session:S:doc:D` | upload, get, list | validation, parsing, state store |
| questions `services/qa_service.py` | none | `answer` | stores of jobs and documents, retrieval, provider, validator |
| rate limiter `security/rate_limit.py` | request times per client id | `check_rate_limit`, by the upload and question endpoints | |
| metrics `core/logging.py` | counters of one job | `record_llm_call`, `to_dict` | |
| frontend `frontend/src` | page state, active job | upload, poll every 2 s, display | HTTP API |

What is hard here, and what makes each part correct:

- **Engine.** The pairs of all running jobs share the cache and `_in_flight`. A pair
  may find its key in flight (it then awaits a future, possibly while it holds a
  slot), in the cache, or nowhere; it may find something else after waiting for a
  slot; calls fail. Correct: one call per key at a time, nobody awaits a future that
  nobody will resolve, failures are not cached, each pair is answered, slots are
  neither exceeded nor lost, counters agree with what was done, every job ends.
- **Job lifecycle.** Submissions of the same documents by different sessions meet at
  any stage of an earlier run; results expire; runs fail; the server shuts down.
  Correct: one run per job, stages in order, COMPLETE only with a result, FAILED with
  a message, no session sees what it did not ask for, every submitted job ends.
- **Stores.** Entries past their time must not be seen, and rewriting renews them.
- **Provider.** A bounded number of attempts, the right class of error, one metric.
- **Validator.** No finding is `validated` without verbatim evidence from both sides.
- **Segmentation.** Sentences lie across lines; headers and page ends cut them. Correct:
  every clause is one sentence under its own header, and nothing long enough is lost.
- **Candidate selection.** The early exit may never lose a pair that passes in full, and
  every two clauses of different documents are considered once.
- **Retrieval.** Scores are boosted and punished by topic and cut off below a threshold.
  Correct: a clause on the topic is shown unless others are at least as relevant.
- **Rate limiter.** No window of the given length has more than the limit.
- **Documents, questions.** Content is shared by hash and keeps its first name and text;
  access to it is not shared. One document is got by an exact key, the list by a pattern
  made of the session's id. A question reads whatever its job's documents are now, waits
  for the model, and must cite what it showed the model and nothing else.
- **Frontend.** Answers come late, creations overlap, results expire, and leaving a page
  cancels its timer but no request. Correct: a poll that only waits ends with its component;
  one that had asked may go on, but it shows one report at most; and none outlives a
  final status whose result is there.

`PROJECT.json` lists every component with its status, and under `hazards` the places
of the code where these things could go wrong.

## 2. The modules

| module | what it is |
|---|---|
| `AnalysisService` | abstract: what a caller of `analyze` is promised |
| `PairAnalysis` | the engine's `analyze` and `analyze_pair`, all jobs together |
| `MCPairAnalysis` | instances for TLC |
| `PairAnalysisProofs` | theorems about `PairAnalysis` and its refinement of `AnalysisService` |
| `JobService` | abstract: what whoever polls a job sees of the server, and the one worker behind it |
| `JobLifecycle` | endpoint, job manager, worker and the keys they write |
| `MCJobLifecycle` | instances for TLC |
| `JobLifecycleProofs` | theorems about `JobLifecycle` and its refinement of `JobService` |
| `EvidenceValidator` | `validate_finding` and the reuse of findings through the cache |
| `MCEvidenceValidator` | an instance for TLC |
| `EvidenceProofs` | theorems about `EvidenceValidator` |
| `ProviderCall` | one call of the Gemini provider, with its attempts |
| `MCProviderCall` | an instance for TLC |
| `ProviderCallProofs` | theorems about `ProviderCall` |
| `RateLimiter` | the sliding window of `check_rate_limit` |
| `MCRateLimiter` | an instance for TLC |
| `RateLimiterProofs` | theorems about `RateLimiter` |
| `Segmenter` | from the lines of a document to its clauses |
| `MCSegmenter` | an instance for TLC |
| `SegmenterProofs` | theorems about `Segmenter` |
| `CandidateSelection` | operators: topics and the score of a pair |
| `Uploads` | operators: checks, extraction and limits of an upload (extends `CandidateSelection`) |
| `Questions` | operators: intent, relevance, sufficient evidence (extends `CandidateSelection`) |
| `Corpus` | documents, access, selection of pairs, questions (extends `Uploads` and `Questions`) |
| `MCCorpus` | an instance for TLC |
| `CorpusProofs` | theorems about `Corpus` |
| `ExpiringMap` | abstract: what a store with times to live promises |
| `ExpiringStore` | the in-process stores |
| `PollingClient` | the browser and the status it polls, read from an `ExpiringStore` (extends it) |
| `MCPollingClient` | an instance for TLC |
| `PollingProofs` | theorems about `ExpiringStore` and `PollingClient` |

### PairAnalysis

An action is what one `analyze_pair` does between two real suspension points.

| code | action or state |
|---|---|
| `engine:146-147` key in flight: await the future | `Join` (no slot held) |
| `engine:150-160` cache hit | `HitCache` |
| `engine:163` semaphore free, `:169-182` register and call | `StartCall` |
| `engine:163` semaphore locked | `Enqueue` |
| `engine:165-166` after the wait, key in flight | `ResumeJoin` (slot held) |
| `engine:165-182` after the wait, not in flight; the cache is not read again | `ResumeCall` |
| `engine:182-211, 223` the call succeeds, is cached, counted, published | `Succeed` |
| `engine:213-223` the call, its parsing or validation raises | `Fail` |
| a future has its result | `WakeJoiner` |
| `worker:122`, `engine:128-230` and `:230-256` | `BeginAnalysis`, `FinishAnalysis` |
| `local_store:59-68` | `Expire` |

`_in_flight` is `inFlight` (key to the owner of the call), the futures are `future`
(by owner), asyncio's FIFO semaphore is `holders` and `waiters`. A finding is named by
the pair whose call made it: that is all the properties need to tell findings apart.
The set of pairs and their keys is a parameter; `Corpus` has how it comes about.

`AnalysisService` keeps only what a caller sees, each job's phase and each pair's
answer: one answer per pair, made for it or for a pair with the same texts, or
nothing; a job ends exactly once and only with every pair answered. `PairAnalysis`
implements it with the identity on `jobPc` and `outcome`; the abstract `Answer` is
`HitCache`, `Succeed`, `Fail` or `WakeJoiner`, and all the other steps stutter.

### JobLifecycle

Each POST is a handler, each started task a run, both named by the request. Every
store call is a step. `turn` says who holds the event loop: with the in-process store
(`storeSuspends` false) a coroutine keeps it from one real suspension to the next, so
a whole handler or all four first state changes of a run happen without interruption;
with `storeSuspends` true any coroutine may run after each store call, which is what
the `StateStore` interface allows. The Redis store would be of that kind, but today
`main.py` always ends with the in-process stores, because `RedisCacheStore` does not
implement all abstract methods of `CacheStore`.

`run[r]` is the next thing the run will do: the state it will write, or a step in
between. The engine is one suspension (`StartEngine`, then `EngineReturns` or
`EngineRaises`), justified by `PairAnalysis!EveryJobEnds`. `EngineRaises` leaves the
semaphore before the error path runs (`worker:122` is inside the `try`). `Shutdown`
cancels every task in `_active_tasks`; that it reaches every run is `NoOrphanRun`.
`data` is the key `job:J:data`, which the question service reads for a session it has
found to own the job: `SessionsIsolated` says that it then is there.

`JobService` is what is left of all this for somebody who polls: a job is on its way,
COMPLETE or FAILED, there is a result or not, and one worker is behind it, whose step
between storing the result and reporting COMPLETE is the only moment it has of its own.
`JobLifecycle` implements it when the store does not suspend: `WorkerOf` reads the worker
off the steps of a job's runs, and the handlers' store calls, the semaphore, the engine and
the metrics are stutters. With a store that suspends it does not, for a second request
may write QUEUED over a state that was already reported. `PollingClient` has a server of
its own, small enough to be checked with a browser; it implements `JobService` too, so
that what the two modules say of the server is one thing.

### EvidenceValidator

A citation is a record of the document, clause, page and quote that the model claims;
clauses have a document, a page and a text, and `Within` says which quote occurs in
which text after normalisation. `ValidateFinding` is the method of that name as
operators: `Kept`, `HasBothDocs`, `Confidence`. The code looks at which citations there
are and not at their order, so the evidence is a set (`_build_graph` does look at the
order and is not modelled). `Judge` is a call of `analyze_pair` that succeeds: it
validates, caches and answers; `Reuse` is a pair answered from the cache or by joining.
The point of having both is that a finding may answer a pair of other documents whose
clauses read the same. `Judge` needs no free cache entry, because of finding 1 and of
expiry.

### ProviderCall

What `PairAnalysis` calls `Succeed` or `Fail` is here the loop of `_call_gemini` within
`analyze_consistency`. An attempt is named by how it ends; `attempts`, `sleeps` and
`metrics` record what happened, `retryCount` and the loop's counter (the length of
`attempts`) are the code's. One action is one attempt with all that follows it until
the next real suspension: `Answer`, `Refuse`, `FailAndSleep`, `FailAtLast`; the others
are `WakeUp` and `Cancel`. A setting of `LLM_MAX_RETRIES` below zero, which
`core/config.py` does not refuse, is left out.

### RateLimiter

A call is named, and `verdict` and `time` remember how and when each was decided, which
the code does not; `requests` is the list the code keeps per client, as the set of the
calls that appended to it, since the code only filters it and takes its length. `Tick`
moves the clock `now` by one, between calls. A client is the id that the endpoints make: the
kind of request and the session id that came with it. The code reads `time.time()`, which an
administrator may set back; the module assumes that nobody does.

### Segmenter

One action is one step of the loop over lines or of the loop in `flush_buffer`:
`ReadHeader`, `ReadBody`, `Flush`, `CutClause`, `NextPage`. A text is the set of the
numbers of its lines: a sentence boundary is a place where the last line before ends
with a full stop and the next begins with a capital or a digit, and a line with such a
place inside stands for two. What the regular expressions of `detect_section_header`
match is an attribute of the line; lengths and word counts are numbers, so that the
limits are as in the code. `ClausesAreSentences` does not mention the buffer: it compares
the clauses with the regions between headers as a reader of the whole page would see them.

### Corpus, with Uploads, Questions and CandidateSelection

The three modules of operators are the pure parts of the code; `Corpus` has the state.

| code | definition |
|---|---|
| `validation:67-97`, `:33-64` | `IsValid`, `IsSafeArchive` |
| `text_layer_extractor` | `Extract`: the library's pages, or `Unreadable`; a DOCX has a fallback |
| `document_service:115-122` | `IsWithinLimits`, after the text has been read |
| `document_service:84-149` | `RejectUpload`, `UploadAgain` (known content), `UploadNew` |
| `document_service:172-183` | `CanGet` |
| `document_service:208-220` | `Listed`, over the `KeysHeld` |
| `job_manager:67-98` | `CreateJob`: the first request's session owns the job |
| `engine:94-118` | `SelectCandidates`, with `CandidatePairs`, `NaiveCount`, `Filtered` |
| `scoring:83-123` | `ScorePair`, with its early exit |
| `intent:15-113` | `Intent` |
| `retrieval:59-100` | `Relevance`, `Relevant` |
| `qa_service:64-119` | `Ask`: ownership, reading, retrieval, refusal when too little is relevant |
| `qa_service:121-156`, `validator:149-183` | `Answer`, `ProviderFails`; `Kept`, `IsEnough` |

A content stands for its hash, and so for the id of its document. What the later steps
ask of a text is which words of their vocabularies occur in it and in its heading, its
names and dates, and whether it states a duration. The code looks for keywords as
substrings, of texts and of questions; the sets of words are the substrings found, so a
set with "terminate" may have "term" besides. Weights, similarities and the quotients of
Jaccard are whole sixtieths, which the quotients of sets of up to six elements are;
floating-point rounding at the threshold is left out. TF-IDF similarities are any values
of `Similarities`, the model's evidence is any set of at most `MaxSpans` of `Spans`.

An upload is one step: the body has been read before, and no later `await` suspends. A
question is two, `Ask` up to the call of the model and `Answer` or `ProviderFails` after
it; everything else can happen in between. A refused request changes nothing and has no
action, except that a refused upload is remembered in `tried`, the history that
`AccessIsEarned` speaks of. `query` keeps what a question has read, for the properties.
`CreateJob` has the part of `JobLifecycle` that questions depend on, the owner.

A session's id comes with the request and is not checked. `get_document` puts it into a
key, the list into a pattern (`document_service:208`), which `fnmatch` reads
(`local_store:50`); then the document's name is taken from behind the third colon of each
key that matches (`:213-215`). The model leaves out what the ids look like and keeps what
they do: `Matches` says which patterns match which keys, of documents and of jobs, and
`DocumentIn` what stands at that place. Both are any relation and function, of
which only this is assumed: between sessions whose ids are `Plain`, without colons and
characters of patterns, a pattern matches the keys of its own documents and no others.
The frontend's ids are of this kind (`api.ts:10-17`, `crypto.randomUUID`).

### ExpiringMap, ExpiringStore, PollingClient

`ExpiringStore` is the table with its expiry times, in which an entry past its time stays
until somebody looks (`local_store:18-27`); `get`, `exists` and `keys` are one action for
the set of keys looked at, `LocalCacheStore` is the same code under other names. The
refinement shows the map as a reader would see it (`Visible`): an entry vanishes from it
when the clock passes its time, not when it is deleted. The module assumes that the clock
is not set back.

`PollingClient` uses that store for the state and the result of two jobs, writes them as
the worker does, and reads them as `get_status` does. `page`, `activeJob` and `report` are
the state of `App.tsx`. A poll is one run of the effect of `AnalysisProgress.tsx`: it asks,
receives, waits two seconds and asks again; leaving the effect clears its timer and not
its request (`AnalysisProgress:50-52`), so its `onComplete` may be called after it is
gone. A request that is answered "on its way" after the cleanup sets a timer that
nobody clears any more (`:41`), so such a loop goes on: `overtaken` marks it.
`StartAnalysis` and `Created` are two steps: the button stays enabled, so that one job may
be created twice at once (`creating` counts), and the answer puts the browser on the progress page wherever the user has gone (`App:19-24`).
Handlers of React run one at a time and their state updates take effect together. Failed
requests (`RequestFails`, `CreateFails`) may happen at any time. Development mode, which
runs each effect twice, is left out.

## 3. What TLC checks

| run | instance | shows |
|---|---|---|
| `pair_analysis` | three jobs, five pairs (two pairs of one job and one of another have equal texts), two slots, one expiry | the seven invariants, `EveryJobEnds`, `ImplementsService` |
| `pair_cache_recheck` | one job, one slot, three pairs, two with equal texts | finding 1 below |
| `pair_global_bound` | as `pair_analysis` | finding 2 |
| `job_lifecycle` | three requests, two sessions, two of the requests for the same job, room for one run, both kinds of store | six invariants, `StagesInOrder`, `SubmittedJobsEnd` |
| `job_submitter_polls` | the same, in-process store | finding 3 |
| `evidence` | every judgment with at most three of eight citations, for each of two pairs with equal texts in different documents | `FindingsAreSupported`, `ConfidenceIsEarned` |
| `evidence_downgrade` | the same | finding 4 |
| `provider_call` | four retries | `ReportedOnce`, `GivenUpOnlyWhenExhausted`, `SleepsBetweenAttempts`, `CallEnds` |
| `rate_limiter` | five calls, two clients, a limit of two | `WindowBounded`, `RejectedWhenFull` |
| `segmenter` | every document with one page of at most four lines, or two of at most three and two, over six kinds of lines | `ClausesAreSentences`, `NothingIsLost` |
| `corpus` | two sessions with plain ids and two with others, three contents, three names, two uploads, one job that names a document twice, one question of two, any similarity of two per pair and clause, any two of six spans | `AccessIsEarned`, `SelectionIsExact`, `AnswersAreGrounded`, `TopicMatchesRetrieved` |
| `polling` | two jobs, two polls, two creations at once, results that expire within a second | `LateReportsWereOvertaken`, `ImplementsMap`, `PollingEnds` |

**Bounds.** Five pairs on two slots give everything a pair can meet: a queue of two,
a pair that resumes to find its key in flight (`ResumeJoin`), one that joins a pair
of another job, a hit on another job's finding, and the third job must wait for the
worker. One expiry (`MaxExpiries`) makes the same key be called twice in sequence;
nothing else counts beyond the constants. Two requests for one job are enough for
every race of create and submit, since each writes once; the third request supplies
the competition for the worker's room and a stranger to the session's jobs. Five
calls fill a window, are rejected and are admitted after it has passed. `pair_analysis`
and `job_lifecycle` are checked for deadlock: their only terminal states are `AllDone`
and `Quiet`. `evidence` is not, since it ends when the pairs have findings. Its eight
citations are four right ones and one for each check that can fail (document, page,
quote of the other side, quote of neither); three at once give evidence that covers
both sides and has a wrong citation besides. `provider_call` ends with its call; with
four retries the waits double up to their limit of eight seconds. `rate_limiter` is not, because it stops when its calls are made and its
clock reaches `MaxTime`.

The six kinds of lines of `segmenter` are a header, one that is too long to be a header,
a blank line, a sentence, the beginning of one and a short end of one; four lines
are enough for a short piece between two long ones and for a header in the middle. It ends
with its document, so deadlock is not checked. The contents of `corpus` are
a contract under a heading that none of its words repeats, an order that python-docx
cannot read but that is readable as text (the two names give it different texts, and the
one as DOCX none), and a PDF with a page too many. Of the two ids that are
not plain, one is a pattern that matches all keys of documents, and one goes on from a plain
id in such a way that the plain one's pattern matches its keys. Two uploads of the same content are enough for the second to meet the first; one
question is enough, since questions do not see each other. Of the six spans two cite one
clause, one names the wrong document and one quotes what is not there. The weights and
the threshold are sixtieths of 0.30, 0.25, 0.15, 0.30 and 0.35: the defaults of
`core/config.py` with a higher threshold, since the default of 0.10 is below the weight of
TF-IDF and with it the early exit never happens. `polling` has two polls because `Unmount` treats all
polls alike and any two of them interact as these do; `MaxCreations` is two so that the
second creation of a job may be answered after the first has led to a poll.

No run uses symmetry. The theorems of section 4 hold for every number of jobs, pairs, requests and slots.

**Fairness.** Weak fairness of each coroutine's steps: the event loop runs every
ready coroutine (its ready queue is FIFO), and asyncio's semaphore wakes its waiters
in order. Weak fairness of `Succeed \/ Fail`: a provider call ends, which
is `ProviderCall!CallEnds`; that in turn needs each attempt and each wait to end. The
client's timeout bounds the time without progress of a request, not its length: an
answer that trickles without end is assumed not to exist. In `PollingClient`, weak
fairness of the steps of each poll: a request is answered or fails (the browser or a
proxy gives it up in the end), an answer is handled, a timer fires; nothing is assumed of
the worker, of the user or of the clock. Nothing is
assumed of clients, of expiry or of shutdown, and nothing forces a call to succeed.

**Findings**, each a run that TLC must find violated:

1. `pair_cache_recheck`. `README.md:116` promises that identical pairs are not
   reprocessed. After the wait for a slot only `_in_flight` is looked at again
   (`engine:165`); a pair whose twin was answered during the wait is judged again.
2. `pair_global_bound`. `core/config.py:49` calls `max_concurrent_llm_calls` the
   maximum of simultaneous calls. The semaphore is made per job (`engine:128`), and
   as many jobs run at once (`worker:66`).
3. `job_submitter_polls`. `api/analysis.py:5-6` says that clients poll for the job id
   they were given. For an existing job, `create_job` returns before it writes the
   session's key (`job_manager:73-75, 90`), so another session's polls are refused.
4. `evidence_downgrade`. `evidence_validator.py:5-7` says that invalid citations lower
   the confidence to NOT_ESTABLISHED. When the others cover both documents, the code
   lowers STATED to INTERPRETED, leaves INTERPRETED alone and validates (`:83-87`).

One more observation holds only for a store that suspends and is therefore not a
finding about the program as it runs. Two requests pass `job_manager:72` together;
the first starts a run; the second writes QUEUED over the run's last state, and
`submit_job` then deduplicates against that run if it has not returned yet. The job
stays QUEUED. `StagesInOrder` and `SubmittedJobsEnd` are stated for the store in use;
TLC finds both violated without that condition. The other properties of
`JobLifecycle` hold for both kinds of store and are checked and proved for both.

Others are left without a run of their own; where a property is named, it states what the
code does, and holds:

- `docs/ARCHITECTURE.md:41` ("Semaphore slots are only consumed for uncached, in-flight LLM
  calls") and the comment at `engine:162`. A pair that finds its key in flight after its
  wait for a slot awaits that call inside the semaphore and keeps the slot
  (`engine:163-166`, `ResumeJoin`), so a job may have fewer calls under way than slots
  while pairs wait (`SlotsBounded` allows such holders and bounds all of them).
- `core/logging.py:120` calls `llm_calls_made` "Total LLM calls issued". Cache hits are
  added to it, for which no call is issued (`engine:152`, `logging:229`), and calls that
  fail are not (`engine:213-221`); `MetricsAgree` states the difference. `cache_misses`
  likewise is the number of calls that succeeded.
- `README.md:86` says that `generate_candidate_pairs` "only proposes pairs sharing
  overlapping topics, entities, or dates". It proposes every two clauses of different
  documents (`candidate_generator:17-26`). `core/config.py:87-90` and `README.md:212` have a
  minimum TF-IDF similarity for inclusion, `candidate_similarity_threshold`, which no code
  reads (`SelectionIsExact`: all pairs, by the composite score alone).
- `api/documents.py:99` lists "all documents uploaded by the current session", and item 4 of
  `SECURITY.md` says that `DocumentService` strictly enforces the boundaries of sessions.
  `get_document` does, for every id. The list does for plain ids only: an id
  that is a pattern is answered with documents of other sessions, one with a colon without
  its own, and the keys of the latter may add to the list of a plain id
  (`AccessIsEarned` says so of `CanGet` and of plain ids, section 2).
- `core/config.py:115` and `README.md:213` say that the rate limit is per IP. The limiter is
  given the kind of request and the session id that the client sent (`api/documents.py:55`,
  `api/qa.py:51`), and that is what the bound of `WindowBounded` is for.
- `FailureHasMessage` has FAILED without a message for the moment between two store calls
  (`job_manager:113-116`), and says nothing once the server has shut down.
- `core/logging.py:90` calls `retry_count` the retries before the final result.
  `gemini_provider:161` counts failed attempts, so a call that is given up reports one
  more than it made (`ReportedOnce` states what is counted).
- `validate_qa_evidence` says that a comparison requires "evidence from >= 2 distinct
  documents" (`evidence_validator:139`). `:169` accepts two clauses of one document, or one
  clause cited under two documents, and the document a span names is not checked
  (`AnswersAreGrounded` states what is kept to).
- `models/schemas.py:387` says "Full result if job is COMPLETE." The state does not expire
  and the result does; a browser that asks then polls for ever, which is why
  `PollingEnds` requires the result to be there.
- A known content is answered with the name and the text of its first upload
  (`document_service:99-108`), also when the second has another extension.
- A question reads documents uploaded after the analysis, if the job names them; the list
  in a result may have documents that came too late to be analysed (`engine:240-246`).
- A request that names a document twice makes its clauses compete with themselves for
  the places of the clauses shown, and lets one clause pass for the two that a comparison
  needs before the model is asked (`qa_service:105`).
- Keywords are substrings: "agreement" contains "agree" and makes a question a comparison
  (`intent:73`), and lines of digits and capitals are headers (`segmenter:26`).

## 4. What is proved

The proofs assume only what the modules state about their constants: finite sets of
jobs, pairs and requests, total functions `JobOf`, `KeyOf`, `SessionOf`, a positive
limit, and a `None` that is none of the other values. Every invariant and every action
property that a run checks is a theorem, and so are some statements that no run checks:
the refinement of `JobService` by two modules, the absence of deadlock in the engine and
in the worker, and a measure that every step of engine, worker, provider call and segmenter
brings down or moves on.

**PairAnalysis.** `Inv` is the inductive invariant: types, `SingleFlight`,
`JoinersAreWoken`, `FuturesAgree`, `PairsRunInJob`, `FindingsAreGenuine`,
`AnswersComplete`. None of the interesting parts is inductive alone. That a joiner
is woken needs `SingleFlight` (the owner it awaits is the only one calling, so the
one step that removes the key also resolves that future) and `FuturesAgree` (a future
set is never unset). That a finding is genuine needs `FuturesAgree` too: what a
joiner reads is what the owner returned. Preservation is proved one lemma per action.
`SlotsAreBounded` and `MetricsAlwaysAgree` are proved on top of `Inv`, with lemmas on
the cardinality of a set to which an element is added or from which one is taken; the
calls issued are those that succeeded and those not recorded
(`IssuedIsMadeOrUnrecorded`).
`EngineImplementsService` maps every step to a step of `AnalysisService!Next` or to a
stutter.

`RunningJobsAlwaysGoOn` is about circular waiting. A pair may hold a slot while it awaits
a future (`engine:165-166`), so all slots of a job may be held by pairs that wait. By
`JoinersAreWoken` such a future is resolved or its owner is in its provider call, and a call
waits for no slot. Whoever waits for a slot stands in the queue of its own job
(`QueuesHoldWaiters`), so the head of it can go on, or a pair of the same job that
holds a slot can. `NeverDeadlocked` adds the worker: if no job runs there is room for
one. `EngineTerminates` gives the variant, `StepsLeft`: what is left of each job and each
pair, and of the expiries, the sum of which every step makes smaller. No pair goes back to
an earlier step, not even one that is woken to find its key in flight.

**JobLifecycle.** `TypeOK`, `QueueIsSet` and `RunsAreSubmitted` carry the
bookkeeping. `OneRunPerJob` follows from `Submit` alone creating runs and the cleanup
keeping what is not done; `RoomIsBounded` adds that a run takes a place only where
there is one and leaves it on each of its ways out. `ResultsAccompanyComplete` needs
the step before: a run about to report COMPLETE has stored its result.
`StagesFollowInOrder` is the deep one. Its invariant, `LoopInv`, says that with the
store in use a handler between its first store call and its answer has the event
loop, that what it read of the job still holds, that a live run finds the state it
wrote last, and that a job shown in progress has a live run; `NoOrphanRun` makes that
run unique.

`JobsAreServed` is the refinement of `JobService`. It rests on `LoopInv`: the worker of a
job is a function of the steps of its runs, and only because one of them at most is live
does a step of that run decide what the worker does (`OneRunDecides`); and
`WriteQueued` is a `Create` only because the job that `CheckExisting` did not find is
still not there. `NeverDeadlocked` holds for both kinds of store: whoever has the
event loop can take its next step (`TurnGoesOn`); if nobody has it, a run that waits for
the worker's room is at the head of the queue with room to enter, or somebody is inside, and
`RoomIsBounded` says that whoever is inside is at work. `RequestsTerminate` numbers the steps
of a handler and of a run; each step of either makes its number smaller and leaves
those of the others, and time and shutdown make none larger.

**EvidenceValidator.** The invariant says of the cache what the properties say of the
findings, since a pair takes its finding from there. `ValidationSupports` is the
central lemma: a pair's clauses are in different documents, so citations of two
documents that name clauses of the pair cite both clauses and hence both texts of the
key, which is all another pair with that key shares. That a judgment is never replaced
(`JudgedHaveFindings`) keeps the witness of `ConfidenceIsEarned`.

**ProviderCall.** `Trying` says that a call under way has only failed so far, in ways
worth a retry, and has slept once for each failure; `SleepsFollowBackoff` that the
sleeps are those of the backoff. From these every way out of the loop is one lemma.
`CallTerminates` counts two steps for each attempt left, one more while asleep.

**RateLimiter.** The invariant adds to `WindowBounded` that the list of a client holds
all its admitted calls of the last window and no others than admitted ones: the list
forgets, but nothing that counts. That the two agree makes the decision of each call
the one the whole history would give (`NoUndueRejection`).

**Segmenter.** The properties speak of whole pages, the code sees one line at a time. The
invariant says what the buffer is: the body lines under the current header above the
current line; what `flush_buffer` still has to cut is a rest of such a region that begins
where a sentence does. `FirstChunk` of such a rest is then a sentence of the region
(`ChunkIsSentence`), which is the central lemma. For the order of the clauses it adds that
they come before all that is collected, for `NothingIsLost` that every line above the
current one is in the buffer, pending, in a clause, or in a sentence that is too short.
`SegmentationIsExact` puts the two together at the end of the document, as an equation:
the clauses are the long sentences (`LongSentences`, defined on the pages alone), and no two
clauses are the same. The boundaries of a sentence determine it, so two of them that share
a line are one. `SegmenterAdvances` says that the place in the document, and what is to be
cut there, change in one direction only.

**Corpus.** Three invariants. That access is earned goes through the history `tried`:
documents are never replaced, so the upload that made a document stays its witness. The
lists need no invariant of their own but the types of the keys (`ListsOfPlain`), with the
assumption on plain ids. For
`SelectionExact` one lemma is that the early exit is sound: a similarity is at most one,
so what is given up could not have reached the threshold, for all weights; another that the
places of two documents in a list differ, so each two clauses are paired in one direction.
The number reported is a double sum over documents, each a fold. The library's induction
theorems cannot be used here (they take an operator as a parameter), but the fold obeys an
equation (`IsSumOf`), and where what is summed are the sizes of disjoint sets a smallest set
with a wrong sum leads to a contradiction (`SumCounts`). The candidate pairs are the disjoint
union of the products that are summed (`NaiveCountIsExact`).
`AnswersGrounded` needs that a clause that was read stays as it was read while the model
is asked. `TopicShown` is about counting: the boost alone lifts a clause on the topic over
the threshold, so only its rank keeps it back, and then `TopK` others are at least as
relevant. That no more than `TopK` are shown takes the last of those shown, in the order
of score and place, whose predecessors are all the others. `NothingIsTakenBack` is the
action property beside these: no step changes a stored text, takes away access, changes a
job's owner or an answer, so that what was cited can be looked up for good. These proofs assume that the
sets of names and dates of a clause are finite, that similarities lie between zero and one, and nothing about the weights.

**ExpiringStore and PollingClient.** `StoreIsAMap` is a refinement: `Read` deletes only what
was not visible; `Tick` may make entries vanish, none of which lasts; the others are the
calls of the same name. `ClientSeesAMap` repeats it for the calls the server makes.
`LateReportsWereOvertaken` is inductive together with `TypeOK`, whose last conjuncts say that
one component is mounted at most and that it is the one for the page: so the poll that
brings a result is the mounted one, whose job is `activeJob`, or has been overtaken, and in
either case it is over. When the overtaken one sent the request that brought the result is
left open, as the code leaves it.
`ServerIsAJobService` is a refinement in which time is a step of the implementation: the
state of a job is stored without an expiry and a result with one (`StatesLast`), so a `Tick`
is an `Expire` of the results whose time has come and never takes a state.

**Only model-checked:** `EveryJobEnds`, `SubmittedJobsEnd`, `CallEnds`, `PollingEnds` and the
liveness part of `ImplementsService`, since liveness under fairness is outside what TLAPS
does. For the first three the part that does not depend on fairness is proved for all
values of the constants: each step brings the end nearer, and in the engine and the worker,
where coroutines wait for each other, one can always be taken (`NeverDeadlocked`, stated with
explicit guards in place of ENABLED, which TLAPS does not reason about either; in
`ProviderCall` every stage before the end has an action of its own). `PollingEnds` has no such theorem, since a browser polls as often as the job
takes. The other way round, `ImplementsJobService` in `JobLifecycle` and `PollingClient` is
proved and no property of a run; so are the theorems on deadlock and on steps left,
`SegmentationIsExact` and `NothingIsTakenBack`.

## 5. Not modelled

- Exceptions of the store itself: the in-process store raises none.
- Cancellation of single pairs inside the engine. Only shutdown cancels, and
  it cancels all jobs; `JobLifecycle` has it at the level of runs.
- The explanations and risk levels of findings, the graph (`_build_graph`), wall-clock
  times, latencies, percentiles and log output: nothing else depends on them.
- What regular expressions, PyMuPDF, python-docx, the XML parser and scikit-learn compute.
  Their results are inputs of the models, as free as the later steps can tell apart.
- Floating-point rounding in scores.
- `delete` and `invalidate` of the stores in a run: nobody in the code calls them, and
  `StoreIsAMap` covers them.
- The Redis store, which the application cannot construct (section 2), beyond the fact that
  its calls suspend.
- The prompts, the mock provider, the sanitising of texts, the application's assembly and
  settings, the offline scripts.
- Components of the frontend that display or upload.

## 6. What could come next

1. The graph of a result: which edges `_build_graph` draws for findings whose evidence
   names one clause first and second, or clauses of another job (hazard `engine:275`).
2. `PollingClient` over `JobLifecycle`, with all states and both sessions, in place of the
   three kinds of states it writes itself.
3. The liveness of `PollingEnds` split, as the others are, into a variant and fairness: it needs
   the end of the job as an assumption.
