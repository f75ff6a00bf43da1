---- MODULE PollingProofs ----
(***************************************************************************)
(* Proofs about ExpiringStore, for any keys, values and times to live, and  *)
(* about PollingClient, for any jobs and any number of polls.               *)
(***************************************************************************)
EXTENDS PollingClient, TLAPS

USE StoreAssumption, ClientAssumption

(***************************************************************************)
(* The store                                                               *)
(***************************************************************************)

LEMMA StoreStarts == InitStore => StoreTypeOK /\ Map!Init
BY DEF InitStore, StoreTypeOK, Map!Init, Visible, ValueIn, IsExpired

\* A read takes away only what could not be seen.
LEMMA ReadIsRead ==
    ASSUME StoreTypeOK, NEW K \in SUBSET Keys, Read(K)
    PROVE  StoreTypeOK' /\ Map!Read(K)
<1>1. table' = Cleaned(K) /\ clock' = clock /\ answer' = [k \in K |-> ValueIn(Cleaned(K), k)]
  BY DEF Read
<1>2. StoreTypeOK'
  BY <1>1 DEF StoreTypeOK, Cleaned
<1>3. ASSUME NEW k \in Keys PROVE Visible(k)' = Visible(k) /\ (k \in K => ValueIn(Cleaned(K), k) = Visible(k))
  BY <1>1 DEF StoreTypeOK, Cleaned, Visible, ValueIn, IsExpired
<1>4. ASSUME NEW k \in Keys
      PROVE  (table[k] # None /\ table[k].expiry = Never) <=> (table'[k] # None /\ table'[k].expiry = Never)
  BY <1>1 DEF StoreTypeOK, Cleaned, IsExpired
<1> QED
  BY <1>1, <1>2, <1>3, <1>4 DEF Map!Read

LEMMA SetIsSet ==
    ASSUME StoreTypeOK, NEW k \in Keys, NEW v \in Values, NEW ttl \in Ttls, Set(k, v, ttl)
    PROVE  StoreTypeOK' /\ Map!Set(k, v, ttl = None)
<1> DEFINE e == [value |-> v, expiry |-> IF ttl = None THEN Never ELSE clock + ttl]
<1>1. table' = [table EXCEPT ![k] = e] /\ clock' = clock /\ answer' = << >>
  BY DEF Set
<1>2. e \in Entry /\ e # None
  BY DEF StoreTypeOK, Entry
<1>3. StoreTypeOK'
  BY <1>1, <1>2 DEF StoreTypeOK
<1>4. \A x \in Keys \ {k} : table'[x] = table[x] /\ IsExpired(x)' = IsExpired(x) /\ Visible(x)' = Visible(x)
  BY <1>1 DEF StoreTypeOK, IsExpired, Visible, ValueIn
<1>5. table'[k] # None /\ Visible(k)' = v /\ (table'[k].expiry = Never <=> ttl = None)
  BY <1>1, <1>2 DEF StoreTypeOK, IsExpired, Visible, ValueIn
<1> QED
  BY <1>1, <1>3, <1>4, <1>5 DEF Map!Set

LEMMA DeleteIsDelete ==
    ASSUME StoreTypeOK, NEW k \in Keys, Delete(k)
    PROVE  StoreTypeOK' /\ Map!Delete(k)
<1>1. table' = [table EXCEPT ![k] = None] /\ clock' = clock /\ answer' = << >>
  BY DEF Delete
<1>2. StoreTypeOK'
  BY <1>1 DEF StoreTypeOK
<1>3. \A x \in Keys \ {k} : table'[x] = table[x] /\ Visible(x)' = Visible(x)
  BY <1>1 DEF StoreTypeOK, IsExpired, Visible, ValueIn
<1>4. table'[k] = None /\ Visible(k)' = None
  BY <1>1 DEF StoreTypeOK, IsExpired, Visible, ValueIn
<1> QED
  BY <1>1, <1>2, <1>3, <1>4 DEF Map!Delete

\* When time passes entries expire, and none comes back.
LEMMA TickIsVanish ==
    ASSUME StoreTypeOK, Tick
    PROVE  StoreTypeOK' /\ \E K \in SUBSET Keys : Map!Vanish(K)
<1>1. clock' = clock + 1 /\ table' = table /\ answer' = answer
  BY DEF Tick
<1>2. StoreTypeOK'
  BY <1>1 DEF StoreTypeOK
<1> DEFINE K == {k \in Keys : IsExpired(k)'}
<1>3. \A k \in Keys : Visible(k)' = IF k \in K THEN None ELSE Visible(k)
  BY <1>1 DEF StoreTypeOK, Entry, IsExpired, Visible, ValueIn
<1>4. K \cap {k \in Keys : table[k] # None /\ table[k].expiry = Never} = {}
  BY <1>1 DEF IsExpired
<1>5. Map!Vanish(K)
  <2> HIDE DEF K
  <2> QED
    BY <1>1, <1>3, <1>4 DEF Map!Vanish
<1> QED
  BY <1>2, <1>5

LEMMA StoreStutters ==
    ASSUME StoreTypeOK, UNCHANGED storeVars
    PROVE  StoreTypeOK' /\ UNCHANGED Map!vars
BY DEF storeVars, StoreTypeOK, Map!vars, Visible, ValueIn, IsExpired

\* Whatever is called when, an in-process store shows what a map with expiring entries
\* does (local_store:21-51).
THEOREM StoreIsAMap == StoreSpec => ImplementsMap
<1>1. InitStore => StoreTypeOK /\ Map!Init
  BY StoreStarts
<1>2. StoreTypeOK /\ [NextStore]_storeVars => StoreTypeOK' /\ [Map!Next]_(Map!vars)
  <2> SUFFICES ASSUME StoreTypeOK, [NextStore]_storeVars
               PROVE  StoreTypeOK' /\ [Map!Next]_(Map!vars)
    OBVIOUS
  <2>1. CASE \E K \in SUBSET Keys : Read(K)
    BY <2>1, ReadIsRead DEF Map!Next
  <2>2. CASE \E k \in Keys : Delete(k)
    BY <2>2, DeleteIsDelete DEF Map!Next
  <2>3. CASE \E k \in Keys, v \in Values, ttl \in Ttls : Set(k, v, ttl)
    <3>1. PICK k \in Keys, v \in Values, ttl \in Ttls : Set(k, v, ttl)
      BY <2>3
    <3>2. StoreTypeOK' /\ Map!Set(k, v, ttl = None) /\ (ttl = None) \in BOOLEAN
      BY <3>1, SetIsSet
    <3> QED
      BY <3>2 DEF Map!Next
  <2>4. CASE Tick
    BY <2>4, TickIsVanish DEF Map!Next
  <2>5. CASE UNCHANGED storeVars
    BY <2>5, StoreStutters
  <2> QED
    BY <2>1, <2>2, <2>3, <2>4, <2>5 DEF NextStore
<1> QED
  BY <1>1, <1>2, PTL DEF StoreSpec, ImplementsMap, Map!Spec

(***************************************************************************)
(* The browser                                                             *)
(***************************************************************************)

\* The client uses the store by its operations only.
LEMMA ClientUsesStore ==
    ASSUME TypeOK, [Next]_vars
    PROVE  StoreTypeOK' /\ [Map!Next]_(Map!vars)
<1> USE DEF TypeOK
<1>1. ASSUME NEW j \in Jobs, NEW v \in {"RUNNING", "COMPLETE", "FAILED"}, Set(StateOf(j), v, None)
      PROVE  StoreTypeOK' /\ [Map!Next]_(Map!vars)
  <2>1. StateOf(j) \in Keys /\ v \in Values /\ None \in Ttls /\ (None = None) \in BOOLEAN
    OBVIOUS
  <2>2. StoreTypeOK' /\ Map!Set(StateOf(j), v, None = None)
    BY <1>1, <2>1, SetIsSet
  <2> QED
    BY <2>1, <2>2 DEF Map!Next
<1>2. ASSUME NEW j \in Jobs, StoreResult(j)
      PROVE  StoreTypeOK' /\ [Map!Next]_(Map!vars)
  <2>1. ResultOf(j) \in Keys /\ j \in Values /\ ResultTtl \in Ttls /\ (ResultTtl = None) \in BOOLEAN
    OBVIOUS
  <2>2. StoreTypeOK' /\ Map!Set(ResultOf(j), j, ResultTtl = None)
    BY <1>2, <2>1, SetIsSet DEF StoreResult
  <2> QED
    BY <2>1, <2>2 DEF Map!Next
<1>3. CASE UNCHANGED storeVars
  BY <1>3, StoreStutters
<1>4. ASSUME NEW j \in Jobs, Progress(j) \/ Complete(j) \/ Fail(j)
      PROVE  StoreTypeOK' /\ [Map!Next]_(Map!vars)
  BY <1>1, <1>4 DEF Progress, Complete, Fail
<1>5. ASSUME NEW j \in Jobs, Created(j)
      PROVE  StoreTypeOK' /\ [Map!Next]_(Map!vars)
  BY <1>1, <1>3, <1>5 DEF Created
<1>6. ASSUME NEW c \in DOMAIN polls, Serve(c)
      PROVE  StoreTypeOK' /\ [Map!Next]_(Map!vars)
  <2>1. polls[c].job \in Jobs
    <3>1. polls[c] \in Poll
      OBVIOUS
    <3> QED
      BY <3>1 DEF Poll
  <2>2. \E K \in SUBSET Keys : Read(K)
    BY <1>6, <2>1 DEF Serve
  <2> QED
    BY <2>2, ReadIsRead DEF Map!Next
<1>7. CASE Tick
  BY <1>7, TickIsVanish DEF Map!Next
<1> QED
  <2>1. ASSUME NEW j \in Jobs, StartAnalysis(j) \/ CreateFails(j) PROVE UNCHANGED storeVars
    BY <2>1 DEF StartAnalysis, CreateFails
  <2>2. ASSUME NEW c \in DOMAIN polls, RequestFails(c) \/ ReceiveResult(c) \/ ReceiveOther(c) \/ TimerFires(c)
        PROVE  UNCHANGED storeVars
    BY <2>2 DEF RequestFails, ReceiveResult, ReceiveOther, TimerFires
  <2>3. Reset => UNCHANGED storeVars
    BY DEF Reset
  <2> QED
    BY <1>2, <1>3, <1>4, <1>5, <1>6, <1>7, <2>1, <2>2, <2>3 DEF Next, PollStep, vars

\* What is true of each poll: it is of a component that is mounted, or it is over, or its
\* request was under way when its component went.
WasUnderWay(p) == p.stage # "ended" /\ ~p.mounted => p.overtaken

\* Nothing is mounted afterwards.  A poll that was not is as it was.
LEMMA UnmountEndsAll ==
    ASSUME NEW ps \in Seq(Poll)
    PROVE  /\ Unmount(ps) \in Seq(Poll) /\ DOMAIN Unmount(ps) = DOMAIN ps
           /\ \A c \in DOMAIN ps :
                 /\ Unmount(ps)[c].job = ps[c].job /\ ~Unmount(ps)[c].mounted
                 /\ ~ps[c].mounted => Unmount(ps)[c] = ps[c]
                 /\ WasUnderWay(ps[c]) => WasUnderWay(Unmount(ps)[c])
<1> DEFINE u(d) == IF ps[d].mounted
                   THEN [ps[d] EXCEPT !.mounted = FALSE,
                                      !.stage = IF @ = "waiting" THEN "ended" ELSE @,
                                      !.overtaken = ps[d].stage \in {"asking", "answered"}]
                   ELSE ps[d]
<1>1. ASSUME NEW d \in DOMAIN ps
      PROVE  /\ u(d) \in Poll /\ u(d).job = ps[d].job /\ ~u(d).mounted
             /\ ~ps[d].mounted => u(d) = ps[d]
             /\ WasUnderWay(ps[d]) => WasUnderWay(u(d))
  <2>1. ps[d] \in Poll
    OBVIOUS
  <2>2. CASE ps[d].mounted
    <3> DEFINE v == [ps[d] EXCEPT !.mounted = FALSE,
                                  !.stage = IF @ = "waiting" THEN "ended" ELSE @,
                                  !.overtaken = ps[d].stage \in {"asking", "answered"}]
    <3>1. u(d) = v
      BY <2>2
    <3>2. /\ v \in Poll /\ v.job = ps[d].job /\ v.mounted = FALSE
          /\ v.stage = IF ps[d].stage = "waiting" THEN "ended" ELSE ps[d].stage
          /\ v.overtaken = (ps[d].stage \in {"asking", "answered"})
      <4> DEFINE st == IF ps[d].stage = "waiting" THEN "ended" ELSE ps[d].stage
                 under == ps[d].stage \in {"asking", "answered"}
      <4>1. st \in {"asking", "answered", "waiting", "ended"} /\ under \in BOOLEAN
        BY <2>1 DEF Poll
      <4>2. v = [ps[d] EXCEPT !.mounted = FALSE, !.stage = st, !.overtaken = under]
        BY <2>1 DEF Poll
      <4>3. v = [job |-> ps[d].job, stage |-> st, seen |-> ps[d].seen, mounted |-> FALSE, overtaken |-> under]
        <5> HIDE DEF st, under, v
        <5> QED
          BY <2>1, <4>1, <4>2 DEF Poll
      <4> HIDE DEF v, under
      <4> QED
        BY <2>1, <4>1, <4>3 DEF Poll, under
    <3>3. ps[d].stage \in {"asking", "answered", "waiting", "ended"}
      BY <2>1 DEF Poll
    <3> HIDE DEF v, u
    <3> QED
      BY <2>2, <3>1, <3>2, <3>3 DEF WasUnderWay
  <2>3. CASE ~ps[d].mounted
    BY <2>1, <2>3
  <2> QED
    BY <2>2, <2>3
<1>2. Unmount(ps) = [d \in DOMAIN ps |-> u(d)]
  BY DEF Unmount
<1> HIDE DEF u
<1>3. DOMAIN ps = 1..Len(ps) /\ Len(ps) \in Nat
  OBVIOUS
<1>4. Unmount(ps) \in [1..Len(ps) -> Poll]
  BY <1>1, <1>2, <1>3
<1>5. Unmount(ps) \in Seq(Poll)
  <2> DEFINE C == Poll
  <2>1. Len(ps) \in Nat /\ Unmount(ps) \in [1..Len(ps) -> C]
    BY <1>3, <1>4
  <2> HIDE DEF C
  <2>2. Unmount(ps) \in Seq(C)
    BY <2>1
  <2> QED
    BY <2>2 DEF C
<1> QED
  BY <1>1, <1>2, <1>5

IsMount(ps, j, qs) ==
    /\ qs \in Seq(Poll)
    /\ DOMAIN qs = DOMAIN ps \cup {Len(ps) + 1} /\ Len(ps) + 1 \notin DOMAIN ps
    /\ \A c \in DOMAIN ps : qs[c] = ps[c]
    /\ qs[Len(ps) + 1].job = j /\ WasUnderWay(qs[Len(ps) + 1])

\* A component that is mounted asks at once.
LEMMA MountIsLast ==
    ASSUME NEW ps \in Seq(Poll), NEW j \in Jobs
    PROVE  IsMount(ps, j, Mount(ps, j))
<1> DEFINE C == Poll
           p == [job |-> j, stage |-> "asking", seen |-> "pending", mounted |-> TRUE, overtaken |-> FALSE]
<1>1. p \in C /\ p.job = j /\ WasUnderWay(p)
  BY DEF Poll, WasUnderWay
<1>2. ps \in Seq(C) /\ Mount(ps, j) = Append(ps, p)
  BY DEF Mount
<1> HIDE DEF C, p
<1>3. /\ Append(ps, p) \in Seq(C)
      /\ DOMAIN Append(ps, p) = DOMAIN ps \cup {Len(ps) + 1} /\ Len(ps) + 1 \notin DOMAIN ps
      /\ \A c \in DOMAIN ps : Append(ps, p)[c] = ps[c]
      /\ Append(ps, p)[Len(ps) + 1] = p
  BY <1>1, <1>2
<1> QED
  BY <1>1, <1>2, <1>3 DEF C, IsMount

MovedOn(ps, c, st, sn) == [ps EXCEPT ![c].stage = st, ![c].seen = sn]

IsMove(ps, c, st, qs) ==
    /\ qs \in Seq(Poll) /\ DOMAIN qs = DOMAIN ps
    /\ \A d \in DOMAIN ps : /\ qs[d].job = ps[d].job /\ qs[d].mounted = ps[d].mounted
                            /\ qs[d].overtaken = ps[d].overtaken
    /\ \A d \in DOMAIN ps \ {c} : qs[d] = ps[d]
    /\ qs[c].stage = st

\* A poll moves on: only its stage changes, and what it saw.
LEMMA PollMovesOn ==
    ASSUME NEW ps \in Seq(Poll), NEW c \in DOMAIN ps,
           NEW st \in {"asking", "answered", "waiting", "ended"},
           NEW sn \in {"pending", "result", "failed", "error"},
           NEW qs, qs = MovedOn(ps, c, st, sn)
    PROVE  IsMove(ps, c, st, qs)
<1> DEFINE p == [ps[c] EXCEPT !.stage = st, !.seen = sn]
           rs == [ps EXCEPT ![c] = p]
<1>1. /\ p \in Poll /\ p.job = ps[c].job /\ p.mounted = ps[c].mounted
      /\ p.overtaken = ps[c].overtaken /\ p.stage = st
  <2>1. ps[c] \in Poll
    OBVIOUS
  <2> QED
    BY <2>1 DEF Poll
<1>2. qs = rs
  BY DEF MovedOn
<1> HIDE DEF p
<1>3. /\ rs \in Seq(Poll) /\ DOMAIN rs = DOMAIN ps /\ rs[c] = p
      /\ \A d \in DOMAIN ps \ {c} : rs[d] = ps[d]
  <2> DEFINE C == Poll
  <2>1. ps \in Seq(C) /\ p \in C
    BY <1>1
  <2> HIDE DEF C
  <2>2. rs \in Seq(C) /\ DOMAIN rs = DOMAIN ps /\ rs[c] = p /\ \A d \in DOMAIN ps \ {c} : rs[d] = ps[d]
    BY <2>1
  <2> QED
    BY <2>2 DEF C
<1> HIDE DEF rs
<1> QED
  BY <1>1, <1>2, <1>3 DEF IsMove

IInv == TypeOK /\ LateReportsWereOvertaken

AllUnderWay == \A c \in DOMAIN polls : WasUnderWay(polls[c])

\* An overtaken poll that showed the result of job j, and is over.
HasShown(p, j) == p.job = j /\ p.overtaken /\ p.stage = "ended"

\* The pages and polls of TypeOK and LateReportsWereOvertaken.
BrowserOK ==
    /\ page \in {"upload", "analyzing", "report"}
    /\ activeJob \in Jobs \cup {None} /\ report \in Jobs \cup {None}
    /\ page = "analyzing" => activeJob # None
    /\ page = "report" => report # None
    /\ creating \in [Jobs -> Nat]
    /\ polls \in Seq(Poll)
    /\ \A c \in DOMAIN polls : polls[c].mounted => page = "analyzing" /\ polls[c].job = activeJob
    /\ \A c, d \in DOMAIN polls : polls[c].mounted /\ polls[d].mounted => c = d
    /\ AllUnderWay
    /\ page = "report" =>
          report = activeJob \/ \E c \in DOMAIN polls : HasShown(polls[c], report)

ServerOK == StoreTypeOK /\ worker \in [Jobs -> {"idle", "working", "stored"}]

LEMMA InvInParts == IInv <=> ServerOK /\ BrowserOK
BY DEF IInv, TypeOK, LateReportsWereOvertaken, ServerOK, BrowserOK, AllUnderWay, WasUnderWay, HasShown, IsAlive

LEMMA PollingStarts == Init => IInv
<1>1. << >> \in Seq(Poll) /\ DOMAIN << >> = {}
  OBVIOUS
<1> SUFFICES ASSUME Init PROVE ServerOK /\ BrowserOK
  BY InvInParts
<1> QED
  BY <1>1, StoreStarts DEF Init, ServerOK, BrowserOK, AllUnderWay

\* A poll that asks, is answered, waits or fails shows nothing.
LEMMA QuietMove ==
    ASSUME BrowserOK, NEW c \in DOMAIN polls, polls[c].stage # "ended",
           NEW st \in {"asking", "answered", "waiting", "ended"},
           NEW sn \in {"pending", "result", "failed", "error"},
           polls' = MovedOn(polls, c, st, sn),
           UNCHANGED <<page, activeJob, report, creating>>
    PROVE  BrowserOK'
<1>1. /\ polls' \in Seq(Poll) /\ DOMAIN polls' = DOMAIN polls
      /\ \A d \in DOMAIN polls : /\ polls'[d].job = polls[d].job /\ polls'[d].mounted = polls[d].mounted
                                 /\ polls'[d].overtaken = polls[d].overtaken
      /\ \A d \in DOMAIN polls \ {c} : polls'[d] = polls[d]
  <2>1. polls \in Seq(Poll)
    BY DEF BrowserOK
  <2>2. IsMove(polls, c, st, polls')
    BY <2>1, PollMovesOn
  <2> QED
    BY <2>2 DEF IsMove
<1>2. AllUnderWay'
  <2> SUFFICES ASSUME NEW d \in DOMAIN polls' PROVE WasUnderWay(polls'[d])
    BY DEF AllUnderWay
  <2>1. WasUnderWay(polls[d]) /\ WasUnderWay(polls[c])
    BY <1>1 DEF BrowserOK, AllUnderWay
  <2> QED
    BY <1>1, <2>1 DEF WasUnderWay
<1>3. \A d \in DOMAIN polls : HasShown(polls[d], report) => HasShown(polls'[d], report)
  BY <1>1 DEF HasShown
<1> QED
  BY <1>1, <1>2, <1>3 DEF BrowserOK

\* The page is left.  What was not mounted goes on, or is over, as before.
LEMMA LeavingEndsAll ==
    ASSUME BrowserOK
    PROVE  /\ Unmount(polls) \in Seq(Poll) /\ DOMAIN Unmount(polls) = DOMAIN polls
           /\ \A c \in DOMAIN polls : ~Unmount(polls)[c].mounted /\ WasUnderWay(Unmount(polls)[c])
BY UnmountEndsAll DEF BrowserOK, AllUnderWay

LEMMA ShownIsOwn ==
    ASSUME BrowserOK, NEW c \in DOMAIN polls, ReceiveResult(c)
    PROVE  BrowserOK'
<1>0. PICK ps : ps = MovedOn(polls, c, "ended", "pending")
  OBVIOUS
<1>1. /\ ps \in Seq(Poll) /\ DOMAIN ps = DOMAIN polls /\ ps[c].stage = "ended"
      /\ \A d \in DOMAIN polls : /\ ps[d].job = polls[d].job /\ ps[d].mounted = polls[d].mounted
                                 /\ ps[d].overtaken = polls[d].overtaken
      /\ \A d \in DOMAIN polls \ {c} : ps[d] = polls[d]
  <2>1. polls \in Seq(Poll)
    BY DEF BrowserOK
  <2>2. IsMove(polls, c, "ended", ps)
    BY <1>0, <2>1, PollMovesOn
  <2> QED
    BY <2>2 DEF IsMove
<1>2. /\ polls' = Unmount(ps) /\ report' = polls[c].job /\ page' = "report"
      /\ activeJob' = activeJob /\ creating' = creating /\ polls[c].stage = "answered"
  BY <1>0 DEF ReceiveResult, MovedOn
<1>3. polls[c].job \in Jobs /\ polls[c].mounted \in BOOLEAN
  <2>1. polls[c] \in Poll
    BY DEF BrowserOK
  <2> QED
    BY <2>1 DEF Poll
<1>4. ASSUME NEW d \in DOMAIN polls PROVE WasUnderWay(ps[d])
  <2>1. WasUnderWay(polls[d])
    BY DEF BrowserOK, AllUnderWay
  <2> QED
    BY <1>1, <2>1 DEF WasUnderWay
<1>5. /\ polls' \in Seq(Poll) /\ DOMAIN polls' = DOMAIN polls
      /\ \A d \in DOMAIN polls : /\ ~polls'[d].mounted /\ WasUnderWay(polls'[d])
                                 /\ ~ps[d].mounted => polls'[d] = ps[d]
  BY <1>1, <1>2, <1>4, UnmountEndsAll
<1>6. CASE polls[c].mounted
  <2>1. report' = activeJob'
    BY <1>2, <1>6 DEF BrowserOK
  <2> QED
    BY <1>2, <1>3, <1>5, <2>1 DEF BrowserOK, AllUnderWay
<1>7. CASE ~polls[c].mounted
  <2>1. polls[c].overtaken
    BY <1>2, <1>7 DEF BrowserOK, AllUnderWay, WasUnderWay
  <2>2. HasShown(polls'[c], report')
    BY <1>1, <1>2, <1>5, <1>7, <2>1 DEF HasShown
  <2> QED
    BY <1>2, <1>3, <1>5, <2>2 DEF BrowserOK, AllUnderWay
<1> QED
  BY <1>6, <1>7

LEMMA CreatedIsWatched ==
    ASSUME BrowserOK, NEW j \in Jobs, Created(j)
    PROVE  BrowserOK'
<1>1. page' = "analyzing" /\ activeJob' = j /\ report' = report /\ creating' \in [Jobs -> Nat] /\ j # None
  BY DEF Created, BrowserOK
<1>2. CASE page = "analyzing" /\ activeJob = j
  <2>1. polls' = polls
    BY <1>2 DEF Created
  <2> QED
    BY <1>1, <1>2, <2>1 DEF BrowserOK, AllUnderWay
<1>3. CASE ~(page = "analyzing" /\ activeJob = j)
  <2>1. PICK us : us = Unmount(polls) /\ polls' = Mount(us, j)
    BY <1>3 DEF Created
  <2> DEFINE n == Len(us) + 1
  <2>2. /\ polls' \in Seq(Poll) /\ DOMAIN polls' = DOMAIN polls \cup {n} /\ n \notin DOMAIN polls
        /\ \A c \in DOMAIN polls : ~polls'[c].mounted /\ WasUnderWay(polls'[c])
        /\ polls'[n].job = j /\ WasUnderWay(polls'[n])
    <3>1. /\ us \in Seq(Poll) /\ DOMAIN us = DOMAIN polls
          /\ \A c \in DOMAIN polls : ~us[c].mounted /\ WasUnderWay(us[c])
      BY <2>1, LeavingEndsAll
    <3>2. /\ polls' \in Seq(Poll) /\ DOMAIN polls' = DOMAIN us \cup {n} /\ n \notin DOMAIN us
          /\ \A c \in DOMAIN us : polls'[c] = us[c]
          /\ polls'[n].job = j /\ WasUnderWay(polls'[n])
      <4>1. IsMount(us, j, polls')
        BY <2>1, <3>1, MountIsLast
      <4> QED
        BY <4>1 DEF IsMount
    <3> QED
      BY <3>1, <3>2
  <2> HIDE DEF n
  <2>3. AllUnderWay'
    BY <2>2 DEF AllUnderWay
  <2>4. \A c \in DOMAIN polls' : polls'[c].mounted => c = n
    BY <2>2
  <2> QED
    BY <1>1, <2>2, <2>3, <2>4 DEF BrowserOK
<1> QED
  BY <1>2, <1>3

LEMMA BrowserStep ==
    ASSUME BrowserOK, Next
    PROVE  BrowserOK'
<1>1. CASE UNCHANGED clientVars
  BY <1>1 DEF clientVars, BrowserOK, AllUnderWay
<1>2. ASSUME NEW j \in Jobs, StartAnalysis(j) \/ CreateFails(j) PROVE BrowserOK'
  BY <1>2 DEF StartAnalysis, CreateFails, BrowserOK, AllUnderWay
<1>3. ASSUME NEW c \in DOMAIN polls, Serve(c) PROVE BrowserOK'
  <2> DEFINE complete == Visible(StateOf(polls[c].job)) = "COMPLETE"
             sn == CASE answer'[StateOf(polls[c].job)] = None -> "error"
                     [] answer'[StateOf(polls[c].job)] = "FAILED" -> "failed"
                     [] complete /\ answer'[ResultOf(polls[c].job)] # None -> "result"
                     [] OTHER -> "pending"
  <2>0. sn \in {"pending", "result", "failed", "error"}
    <3> HIDE DEF complete
    <3> QED
      OBVIOUS
  <2>1. polls' = MovedOn(polls, c, "answered", sn)
    BY <1>3, Zenon DEF Serve, MovedOn
  <2>2. polls[c].stage = "asking" /\ UNCHANGED <<page, activeJob, report, creating>>
    BY <1>3 DEF Serve
  <2> HIDE DEF sn
  <2> QED
    BY <2>0, <2>1, <2>2, QuietMove
<1>4. ASSUME NEW c \in DOMAIN polls, RequestFails(c) PROVE BrowserOK'
  BY <1>4, QuietMove DEF RequestFails, MovedOn
<1>5. ASSUME NEW c \in DOMAIN polls, ReceiveOther(c) PROVE BrowserOK'
  <2>1. PICK st \in {"waiting", "ended"} :
            polls' = MovedOn(polls, c, st, "pending")
    BY <1>5 DEF ReceiveOther, MovedOn
  <2> QED
    BY <1>5, <2>1, QuietMove DEF ReceiveOther
<1>6. ASSUME NEW c \in DOMAIN polls, TimerFires(c) PROVE BrowserOK'
  <2>1. polls[c] \in Poll /\ polls \in Seq(Poll)
    BY DEF BrowserOK
  <2>2. polls[c].seen \in {"pending", "result", "failed", "error"}
    BY <2>1 DEF Poll
  <2>3. polls' = MovedOn(polls, c, "asking", polls[c].seen)
    BY <1>6, <2>1 DEF TimerFires, Poll, MovedOn
  <2> QED
    BY <1>6, <2>2, <2>3, QuietMove DEF TimerFires
<1>7. CASE Reset
  <2>1. page' = "upload" /\ activeJob' = None /\ report' = None /\ creating' = creating /\ polls' = Unmount(polls)
    BY <1>7 DEF Reset
  <2> QED
    BY <2>1, LeavingEndsAll DEF BrowserOK, AllUnderWay
<1>8. ASSUME NEW j \in Jobs, Progress(j) \/ StoreResult(j) \/ Complete(j) \/ Fail(j) PROVE UNCHANGED clientVars
  BY <1>8 DEF Progress, StoreResult, Complete, Fail
<1> QED
  BY <1>1, <1>2, <1>3, <1>4, <1>5, <1>6, <1>7, <1>8, ShownIsOwn, CreatedIsWatched DEF Next, PollStep

LEMMA WorkerStep ==
    ASSUME worker \in [Jobs -> {"idle", "working", "stored"}], Next
    PROVE  (worker \in [Jobs -> {"idle", "working", "stored"}])'
<1>1. ASSUME NEW j \in Jobs, Progress(j) \/ StoreResult(j) \/ Complete(j) \/ Fail(j)
                            \/ StartAnalysis(j) \/ Created(j) \/ CreateFails(j)
      PROVE  (worker \in [Jobs -> {"idle", "working", "stored"}])'
  BY <1>1 DEF Progress, StoreResult, Complete, Fail, StartAnalysis, Created, CreateFails
<1>2. ASSUME NEW c \in DOMAIN polls, PollStep(c) PROVE worker' = worker
  BY <1>2 DEF PollStep, Serve, RequestFails, ReceiveResult, ReceiveOther, TimerFires
<1>3. Reset => worker' = worker
  BY DEF Reset
<1> QED
  BY <1>1, <1>2, <1>3 DEF Next

LEMMA PollingStep == IInv /\ [Next]_vars => IInv'
<1> SUFFICES ASSUME IInv, [Next]_vars PROVE (ServerOK /\ BrowserOK)'
  BY DEF IInv, TypeOK, LateReportsWereOvertaken, ServerOK, BrowserOK, AllUnderWay, WasUnderWay, HasShown, IsAlive
<1>1. ServerOK /\ BrowserOK /\ TypeOK
  BY InvInParts DEF IInv
<1>2. StoreTypeOK'
  BY <1>1, ClientUsesStore
<1>3. CASE Next
  BY <1>1, <1>2, <1>3, BrowserStep, WorkerStep DEF ServerOK
<1>4. CASE UNCHANGED vars
  BY <1>1, <1>2, <1>4 DEF vars, clientVars, ServerOK, BrowserOK, AllUnderWay
<1> QED
  BY <1>3, <1>4

\* One progress page at most is mounted, and it polls for the job of the page.
THEOREM PollingIsTyped == Spec => []TypeOK
<1>1. Init => IInv
  BY PollingStarts
<1>2. IInv /\ [Next]_vars => IInv'
  BY PollingStep
<1>3. IInv => TypeOK
  BY DEF IInv
<1> QED
  BY <1>1, <1>2, <1>3, PTL DEF Spec

\* Only a poll that was asking when its page was left goes on without it, and a report
\* nobody waits for was shown by such a poll as the last thing it did, however often it
\* asked in between (AnalysisProgress:27-53, App:30-40).
THEOREM LateReports == Spec => []LateReportsWereOvertaken
<1>1. Init => IInv
  BY PollingStarts
<1>2. IInv /\ [Next]_vars => IInv'
  BY PollingStep
<1>3. IInv => LateReportsWereOvertaken
  BY DEF IInv
<1> QED
  BY <1>1, <1>2, <1>3, PTL DEF Spec

\* The browser and the worker see the store as such a map, whoever calls it when.
THEOREM ClientSeesAMap == Spec => ImplementsMap
<1>1. Init => Map!Init
  BY StoreStarts DEF Init
<1>2. TypeOK /\ [Next]_vars => [Map!Next]_(Map!vars)
  BY ClientUsesStore
<1> QED
  BY <1>1, <1>2, PollingIsTyped, PTL DEF Spec, ImplementsMap, Map!Spec

(***************************************************************************)
(* The server is the one of JobLifecycle: it implements JobService          *)
(***************************************************************************)

Shown == [j \in Jobs |-> Visible(StateOf(j))]
Stored == {j \in Jobs : Visible(ResultOf(j)) # None}

\* What is said of a job is said without a time to live (job_manager.py:88, :113).
StatesLast == \A j \in Jobs : table[StateOf(j)] # None => table[StateOf(j)].expiry = Never

SInv == TypeOK /\ StatesLast

LEMMA KeysDiffer ==
    \A i, j \in Jobs : /\ StateOf(i) # ResultOf(j)
                       /\ StateOf(i) = StateOf(j) => i = j
                       /\ ResultOf(i) = ResultOf(j) => i = j
BY DEF StateOf, ResultOf

\* The entry that a call of set leaves.
LEMMA SetShows ==
    ASSUME StoreTypeOK, NEW k \in Keys, NEW v \in Values, NEW ttl \in Ttls, Set(k, v, ttl)
    PROVE  /\ Visible(k)' = v /\ \A x \in Keys \ {k} : Visible(x)' = Visible(x) /\ table'[x] = table[x]
           /\ ttl = None => table'[k] # None /\ table'[k].expiry = Never
<1> DEFINE e == [value |-> v, expiry |-> IF ttl = None THEN Never ELSE clock + ttl]
<1>1. table' = [table EXCEPT ![k] = e] /\ clock' = clock
  BY DEF Set
<1>2. e \in Entry /\ e # None
  BY DEF StoreTypeOK, Entry
<1>3. \A x \in Keys \ {k} : table'[x] = table[x] /\ Visible(x)' = Visible(x)
  BY <1>1 DEF StoreTypeOK, IsExpired, Visible, ValueIn
<1>4. table'[k] # None /\ Visible(k)' = v /\ (ttl = None => table'[k].expiry = Never)
  BY <1>1, <1>2 DEF StoreTypeOK, IsExpired, Visible, ValueIn
<1> QED
  BY <1>3, <1>4

\* A state is written: the job shows it, and nothing else changes for who looks.
LEMMA StateWritten ==
    ASSUME StoreTypeOK, StatesLast, NEW j \in Jobs, NEW v \in {"RUNNING", "COMPLETE", "FAILED"},
           Set(StateOf(j), v, None)
    PROVE  Shown' = [Shown EXCEPT ![j] = v] /\ Stored' = Stored /\ StatesLast'
<1>1. StateOf(j) \in Keys /\ v \in Values /\ None \in Ttls
  OBVIOUS
<1>2. /\ Visible(StateOf(j))' = v
      /\ \A x \in Keys \ {StateOf(j)} : Visible(x)' = Visible(x) /\ table'[x] = table[x]
      /\ table'[StateOf(j)] # None /\ table'[StateOf(j)].expiry = Never
  BY <1>1, SetShows
<1>3. ASSUME NEW i \in Jobs
      PROVE  /\ i # j => Visible(StateOf(i))' = Visible(StateOf(i)) /\ table'[StateOf(i)] = table[StateOf(i)]
             /\ Visible(ResultOf(i))' = Visible(ResultOf(i))
  <2>1. ResultOf(i) \in Keys \ {StateOf(j)} /\ (i # j => StateOf(i) \in Keys \ {StateOf(j)})
    BY KeysDiffer
  <2> QED
    BY <1>2, <2>1
<1> QED
  BY <1>2, <1>3 DEF Shown, Stored, StatesLast

\* A result is stored: it can be read, and nothing else changes for who looks.
LEMMA ResultWritten ==
    ASSUME StoreTypeOK, StatesLast, NEW j \in Jobs, Set(ResultOf(j), j, ResultTtl)
    PROVE  Shown' = Shown /\ Stored' = Stored \cup {j} /\ StatesLast'
<1>1. ResultOf(j) \in Keys /\ j \in Values /\ ResultTtl \in Ttls /\ j # None
  OBVIOUS
<1>2. /\ Visible(ResultOf(j))' = j
      /\ \A x \in Keys \ {ResultOf(j)} : Visible(x)' = Visible(x) /\ table'[x] = table[x]
  BY <1>1, SetShows
<1>3. ASSUME NEW i \in Jobs
      PROVE  /\ Visible(StateOf(i))' = Visible(StateOf(i)) /\ table'[StateOf(i)] = table[StateOf(i)]
             /\ i # j => Visible(ResultOf(i))' = Visible(ResultOf(i))
  <2>1. StateOf(i) \in Keys \ {ResultOf(j)} /\ (i # j => ResultOf(i) \in Keys \ {ResultOf(j)})
    BY KeysDiffer
  <2> QED
    BY <1>2, <2>1
<1> QED
  BY <1>1, <1>2, <1>3 DEF Shown, Stored, StatesLast

\* A read shows what was there and takes away no state.
LEMMA ReadShowsAll ==
    ASSUME StoreTypeOK, StatesLast, NEW K \in SUBSET Keys, Read(K)
    PROVE  Shown' = Shown /\ Stored' = Stored /\ StatesLast'
<1>1. table' = Cleaned(K) /\ clock' = clock
  BY DEF Read
<1>2. ASSUME NEW k \in Keys PROVE Visible(k)' = Visible(k)
  BY <1>1 DEF StoreTypeOK, Cleaned, Visible, ValueIn, IsExpired
<1>3. ASSUME NEW k \in Keys PROVE table'[k] # None => table'[k] = table[k]
  BY <1>1 DEF StoreTypeOK, Cleaned
<1>4. \A j \in Jobs : StateOf(j) \in Keys /\ ResultOf(j) \in Keys
  OBVIOUS
<1>5. Shown' = Shown /\ Stored' = Stored
  BY <1>2, <1>4 DEF Shown, Stored
<1>6. StatesLast'
  BY <1>3, <1>4 DEF StatesLast
<1> QED
  BY <1>5, <1>6

\* Time takes results away, and no state.
LEMMA TimeTakesResults ==
    ASSUME StoreTypeOK, StatesLast, Tick
    PROVE  /\ Shown' = Shown /\ StatesLast'
           /\ \E J \in SUBSET Jobs : Stored' = Stored \ J
<1>1. table' = table /\ clock' = clock + 1
  BY DEF Tick
<1>2. \A j \in Jobs : StateOf(j) \in Keys /\ ResultOf(j) \in Keys
  OBVIOUS
<1>3. ASSUME NEW j \in Jobs PROVE Visible(StateOf(j))' = Visible(StateOf(j))
  BY <1>1, <1>2 DEF StatesLast, Visible, IsExpired, ValueIn
<1>4. ASSUME NEW j \in Jobs PROVE Visible(ResultOf(j))' \in {Visible(ResultOf(j)), None}
  BY <1>1, <1>2 DEF StoreTypeOK, Entry, Visible, IsExpired, ValueIn
<1>5. Stored' = Stored \ {j \in Jobs : Visible(ResultOf(j))' = None}
  BY <1>4 DEF Stored
<1>6. Shown' = Shown /\ StatesLast'
  BY <1>1, <1>3 DEF Shown, StatesLast
<1> QED
  BY <1>5, <1>6

Allowed == StatesLast' /\ (Served!Next \/ UNCHANGED Served!vars)

\* The actions of JobService in the terms of this module.
LEMMA ServedActions ==
    ASSUME StatesLast'
    PROVE
    /\ Shown' = Shown /\ Stored' = Stored /\ worker' = worker => Allowed
    /\ \A j \in Jobs :
          /\ Shown' = [Shown EXCEPT ![j] = IF Shown[j] = None THEN "RUNNING" ELSE Shown[j]]
          /\ worker' = [worker EXCEPT ![j] = IF worker[j] = "idle" THEN "working" ELSE worker[j]]
          /\ Stored' = Stored
          => Allowed
    /\ \A j \in Jobs :
          /\ worker[j] = "working" /\ Shown' = [Shown EXCEPT ![j] = "RUNNING"]
          /\ Stored' = Stored /\ worker' = worker
          => Allowed
    /\ \A j \in Jobs :
          /\ worker[j] = "working" /\ Shown[j] = "RUNNING" /\ Stored' = Stored \cup {j}
          /\ worker' = [worker EXCEPT ![j] = "stored"] /\ Shown' = Shown
          => Allowed
    /\ \A j \in Jobs :
          /\ worker[j] = "stored" /\ Shown' = [Shown EXCEPT ![j] = "COMPLETE"]
          /\ worker' = [worker EXCEPT ![j] = "idle"] /\ Stored' = Stored
          => Allowed
    /\ \A j \in Jobs :
          /\ worker[j] # "idle" /\ Shown' = [Shown EXCEPT ![j] = "FAILED"]
          /\ worker' = [worker EXCEPT ![j] = "idle"] /\ Stored' = Stored
          => Allowed
    /\ \A J \in SUBSET Jobs : Stored' = Stored \ J /\ Shown' = Shown /\ worker' = worker => Allowed
<1> USE DEF Allowed, Served!Next
<1>1. Shown' = Shown /\ Stored' = Stored /\ worker' = worker => Allowed
  BY Zenon DEF Served!vars, Shown, Stored
<1>2. ASSUME NEW j \in Jobs,
             Shown' = [Shown EXCEPT ![j] = IF Shown[j] = None THEN "RUNNING" ELSE Shown[j]],
             worker' = [worker EXCEPT ![j] = IF worker[j] = "idle" THEN "working" ELSE worker[j]],
             Stored' = Stored
      PROVE  Allowed
  BY <1>2, Zenon DEF Served!Submit, Shown, Stored
<1>3. ASSUME NEW j \in Jobs, worker[j] = "working", Shown' = [Shown EXCEPT ![j] = "RUNNING"],
             Stored' = Stored, worker' = worker
      PROVE  Allowed
  BY <1>3, Zenon DEF Served!Progress, Shown, Stored
<1>4. ASSUME NEW j \in Jobs, worker[j] = "working", Shown[j] = "RUNNING", Stored' = Stored \cup {j},
             worker' = [worker EXCEPT ![j] = "stored"], Shown' = Shown
      PROVE  Allowed
  BY <1>4, Zenon DEF Served!StoreResult, Shown, Stored
<1>5. ASSUME NEW j \in Jobs, worker[j] = "stored", Shown' = [Shown EXCEPT ![j] = "COMPLETE"],
             worker' = [worker EXCEPT ![j] = "idle"], Stored' = Stored
      PROVE  Allowed
  BY <1>5, Zenon DEF Served!Complete, Shown, Stored
<1>6. ASSUME NEW j \in Jobs, worker[j] # "idle", Shown' = [Shown EXCEPT ![j] = "FAILED"],
             worker' = [worker EXCEPT ![j] = "idle"], Stored' = Stored
      PROVE  Allowed
  BY <1>6, Zenon DEF Served!Fail, Shown, Stored
<1>7. ASSUME NEW J \in SUBSET Jobs, Stored' = Stored \ J, Shown' = Shown, worker' = worker
      PROVE  Allowed
  BY <1>7, Zenon DEF Served!Expire, Shown, Stored
<1> QED
  BY <1>1, <1>2, <1>3, <1>4, <1>5, <1>6, <1>7, Zenon

\* Every step of the server is one that JobService allows, and the browser takes none.
LEMMA ServedStep == SInv /\ [Next]_vars => Allowed
<1> SUFFICES ASSUME SInv, [Next]_vars PROVE Allowed
  OBVIOUS
<1>0. /\ TypeOK /\ StatesLast /\ StoreTypeOK
      /\ worker \in [Jobs -> {"idle", "working", "stored"}]
  BY DEF SInv, TypeOK
<1>1. ASSUME NEW j \in Jobs, Progress(j) PROVE Allowed
  <2>1. Set(StateOf(j), "RUNNING", None) /\ worker[j] = "working" /\ worker' = worker
    BY <1>1 DEF Progress
  <2>2. Shown' = [Shown EXCEPT ![j] = "RUNNING"] /\ Stored' = Stored /\ StatesLast'
    BY <1>0, <2>1, StateWritten
  <2> QED
    BY <2>1, <2>2, ServedActions, Zenon
<1>2. ASSUME NEW j \in Jobs, StoreResult(j) PROVE Allowed
  <2>1. /\ Set(ResultOf(j), j, ResultTtl) /\ worker[j] = "working"
        /\ Shown[j] = "RUNNING" /\ worker' = [worker EXCEPT ![j] = "stored"]
    BY <1>2 DEF StoreResult, Shown
  <2>2. Shown' = Shown /\ Stored' = Stored \cup {j} /\ StatesLast'
    BY <1>0, <2>1, ResultWritten
  <2> QED
    BY <2>1, <2>2, ServedActions, Zenon
<1>3. ASSUME NEW j \in Jobs, Complete(j) PROVE Allowed
  <2>1. /\ Set(StateOf(j), "COMPLETE", None) /\ worker[j] = "stored"
        /\ worker' = [worker EXCEPT ![j] = "idle"]
    BY <1>3 DEF Complete
  <2>2. Shown' = [Shown EXCEPT ![j] = "COMPLETE"] /\ Stored' = Stored /\ StatesLast'
    BY <1>0, <2>1, StateWritten
  <2> QED
    BY <2>1, <2>2, ServedActions, Zenon
<1>4. ASSUME NEW j \in Jobs, Fail(j) PROVE Allowed
  <2>1. /\ Set(StateOf(j), "FAILED", None) /\ worker[j] # "idle"
        /\ worker' = [worker EXCEPT ![j] = "idle"]
    BY <1>4 DEF Fail
  <2>2. Shown' = [Shown EXCEPT ![j] = "FAILED"] /\ Stored' = Stored /\ StatesLast'
    BY <1>0, <2>1, StateWritten
  <2> QED
    BY <2>1, <2>2, ServedActions, Zenon
<1>5. CASE UNCHANGED <<storeVars, worker>>
  <2>1. Shown' = Shown /\ Stored' = Stored /\ worker' = worker /\ StatesLast'
    BY <1>0, <1>5 DEF storeVars, Shown, Stored, StatesLast, Visible, IsExpired, ValueIn
  <2> QED
    BY <2>1, ServedActions, Zenon
<1>6. ASSUME NEW j \in Jobs, Created(j) PROVE Allowed
  <2>1. worker' = [worker EXCEPT ![j] = IF worker[j] = "idle" THEN "working" ELSE worker[j]]
    BY <1>0, <1>6 DEF Created
  <2>2. CASE Visible(StateOf(j)) = None
    <3>1. Set(StateOf(j), "RUNNING", None)
      BY <1>6, <2>2 DEF Created
    <3>2. Shown' = [Shown EXCEPT ![j] = "RUNNING"] /\ Stored' = Stored /\ StatesLast'
      BY <1>0, <3>1, StateWritten
    <3>3. Shown' = [Shown EXCEPT ![j] = IF Shown[j] = None THEN "RUNNING" ELSE Shown[j]]
      BY <2>2, <3>2 DEF Shown
    <3> QED
      BY <2>1, <3>2, <3>3, ServedActions, Zenon
  <2>3. CASE Visible(StateOf(j)) # None
    <3>1. UNCHANGED storeVars
      BY <1>6, <2>3 DEF Created
    <3>2. Shown' = Shown /\ Stored' = Stored /\ StatesLast'
      BY <1>0, <3>1 DEF storeVars, Shown, Stored, StatesLast, Visible, IsExpired, ValueIn
    <3>3. Shown[j] # None
      BY <2>3 DEF Shown
    <3>4. Shown' = [Shown EXCEPT ![j] = IF Shown[j] = None THEN "RUNNING" ELSE Shown[j]]
      BY <3>2, <3>3 DEF Shown
    <3> QED
      BY <2>1, <3>2, <3>4, ServedActions, Zenon
  <2> QED
    BY <2>2, <2>3
<1>7. ASSUME NEW c \in DOMAIN polls, Serve(c) PROVE Allowed
  <2>1. polls[c].job \in Jobs
    <3>1. polls[c] \in Poll
      BY <1>0 DEF TypeOK
    <3> QED
      BY <3>1 DEF Poll
  <2>2. PICK K \in SUBSET Keys : Read(K)
    BY <1>7, <2>1 DEF Serve
  <2>3. worker' = worker
    BY <1>7 DEF Serve
  <2>4. Shown' = Shown /\ Stored' = Stored /\ StatesLast'
    BY <1>0, <2>2, ReadShowsAll
  <2> QED
    BY <2>3, <2>4, ServedActions, Zenon
<1>8. ASSUME Tick, worker' = worker PROVE Allowed
  <2>1. /\ Shown' = Shown /\ StatesLast'
        /\ \E J \in SUBSET Jobs : Stored' = Stored \ J
    BY <1>0, <1>8, TimeTakesResults
  <2> QED
    BY <1>8, <2>1, ServedActions, Zenon
<1> QED
  <2>1. ASSUME NEW j \in Jobs, StartAnalysis(j) \/ CreateFails(j) PROVE UNCHANGED <<storeVars, worker>>
    BY <2>1 DEF StartAnalysis, CreateFails
  <2>2. ASSUME NEW c \in DOMAIN polls, RequestFails(c) \/ ReceiveResult(c) \/ ReceiveOther(c) \/ TimerFires(c)
        PROVE  UNCHANGED <<storeVars, worker>>
    BY <2>2 DEF RequestFails, ReceiveResult, ReceiveOther, TimerFires
  <2>3. Reset \/ UNCHANGED vars => UNCHANGED <<storeVars, worker>>
    BY DEF Reset, vars
  <2>4. Tick /\ UNCHANGED <<worker, clientVars>> => Allowed
    BY <1>8
  <2> QED
    BY <1>1, <1>2, <1>3, <1>4, <1>5, <1>6, <1>7, <2>1, <2>2, <2>3, <2>4 DEF Next, PollStep

\* The server that the browser polls keeps the promises of JobService, as the job manager
\* and the worker of JobLifecycle do (JobLifecycleProofs!JobsAreServed).
THEOREM ServerIsAJobService == Spec => ImplementsJobService
<1>1. Init => Served!Init /\ StatesLast
  <2> SUFFICES ASSUME Init PROVE Served!Init /\ StatesLast
    OBVIOUS
  <2>1. \A k \in Keys : table[k] = None /\ Visible(k) = None
    BY DEF Init, InitStore, Visible, IsExpired, ValueIn
  <2>2. Shown = [j \in Jobs |-> None] /\ Stored = {} /\ StatesLast
    BY <2>1 DEF Shown, Stored, StatesLast
  <2> QED
    BY <2>2, Zenon DEF Init, Served!Init, Shown, Stored
<1>2. SInv /\ [Next]_vars => StatesLast' /\ [Served!Next]_(Served!vars)
  BY ServedStep DEF Allowed
<1>3. SInv <=> TypeOK /\ StatesLast
  BY DEF SInv
<1> QED
  BY <1>1, <1>2, <1>3, PollingIsTyped, PTL DEF Spec, ImplementsJobService, Served!Spec
====
