---- MODULE RateLimiterProofs ----
(***************************************************************************)
(* Proofs about RateLimiter, for any clients, limit and window.             *)
(***************************************************************************)
EXTENDS RateLimiter, FiniteSetTheorems, TLAPS

USE CallsAssumption, LimitsAssumption

\* The inductive invariant: the limit holds because the list has all the window.
Inv == TypeOK /\ ListIsRecent /\ WindowBounded

LEMMA InvInit == Init => Inv
<1> SUFFICES ASSUME Init PROVE Inv
  OBVIOUS
<1>1. TypeOK /\ ListIsRecent
  BY DEF Init, TypeOK, ListIsRecent
<1>2. ASSUME NEW c \in Clients, NEW t \in 0..MaxTime PROVE Cardinality(AdmittedIn(c, t)) <= MaxRequests
  <2>1. AdmittedIn(c, t) = {}
    BY DEF Init, AdmittedIn
  <2> QED
    BY <2>1, FS_EmptySet
<1> QED
  BY <1>1, <1>2 DEF Inv, WindowBounded

\* The part of the list that is kept is the window that ends now.
LEMMA KeptIsWindow ==
    ASSUME Inv, NEW c \in Clients
    PROVE  /\ Kept(c) = AdmittedIn(c, now)
           /\ IsFiniteSet(Kept(c))
           /\ Cardinality(Kept(c)) \in Nat
<1>1. Kept(c) = AdmittedIn(c, now)
  BY DEF Inv, TypeOK, ListIsRecent, Kept, AdmittedIn
<1>2. Kept(c) \subseteq Calls
  BY <1>1 DEF AdmittedIn
<1>3. IsFiniteSet(Kept(c))
  BY <1>2, FS_Subset
<1> QED
  BY <1>1, <1>3, FS_CardinalityType

\* A call that is admitted is the only one added to any window, and was given room
\* in the window that ends with it, which contains what it shares with later ones.
LEMMA AdmitStep == Inv /\ (\E q \in Calls : CheckRateLimit(q) /\ Admit(q)) => Inv'
<1> SUFFICES ASSUME Inv, NEW q \in Calls, CheckRateLimit(q), Admit(q) PROVE Inv'
  OBVIOUS
<1> DEFINE c == ClientOf[q]
<1>1. /\ now' = now /\ verdict[q] = "none" /\ c \in Clients
      /\ time' = [time EXCEPT ![q] = now]
      /\ verdict' = [verdict EXCEPT ![q] = "admitted"]
      /\ requests' = [requests EXCEPT ![c] = Kept(c) \cup {q}]
      /\ Cardinality(Kept(c)) < MaxRequests
  BY DEF CheckRateLimit, Admit, HasRoom
<1>2. TypeOK'
  BY <1>1 DEF Inv, TypeOK, Kept
<1>3. ListIsRecent'
  BY <1>1 DEF Inv, TypeOK, ListIsRecent, Kept
<1>4. ASSUME NEW d \in Clients, NEW t \in 0..MaxTime
      PROVE  Cardinality(AdmittedIn(d, t)') <= MaxRequests
  <2>1. CASE d = c /\ t >= now
    <3>1. AdmittedIn(d, t)' \subseteq Kept(c) \cup {q}
      <4>1. ASSUME NEW p \in AdmittedIn(d, t)', p # q PROVE p \in Kept(c)
        <5>1. /\ p \in Calls /\ ClientOf[p] = c /\ verdict[p] = "admitted"
              /\ time[p] <= now /\ time[p] + Window > t
          BY <1>1, <2>1, <4>1 DEF AdmittedIn, Inv, TypeOK, ListIsRecent
        <5> QED
          BY <2>1, <5>1 DEF Inv, TypeOK, ListIsRecent, Kept
      <4> QED
        BY <4>1
    <3>2. /\ IsFiniteSet(Kept(c)) /\ Cardinality(Kept(c)) \in Nat
          /\ q \notin Kept(c)
      BY <1>1, KeptIsWindow DEF AdmittedIn
    <3>3. /\ IsFiniteSet(Kept(c) \cup {q})
          /\ Cardinality(Kept(c) \cup {q}) = Cardinality(Kept(c)) + 1
      BY <3>2, FS_AddElement
    <3>4. /\ Cardinality(AdmittedIn(d, t)') <= Cardinality(Kept(c) \cup {q})
          /\ Cardinality(AdmittedIn(d, t)') \in Nat
      BY <3>1, <3>3, FS_Subset, FS_CardinalityType
    <3> QED
      BY <1>1, <3>2, <3>3, <3>4
  <2>2. CASE ~(d = c /\ t >= now)
    <3>1. AdmittedIn(d, t)' = AdmittedIn(d, t)
      BY <1>1, <2>2 DEF AdmittedIn, Inv, TypeOK
    <3> QED
      BY <3>1 DEF Inv, WindowBounded
  <2> QED
    BY <2>1, <2>2
<1> QED
  BY <1>2, <1>3, <1>4 DEF Inv, WindowBounded

\* No other step admits anything.
LEMMA OtherStep ==
    Inv /\ ((\E q \in Calls : CheckRateLimit(q) /\ Reject(q)) \/ Tick \/ UNCHANGED vars) => Inv'
<1> SUFFICES ASSUME Inv,
                    (\E q \in Calls : CheckRateLimit(q) /\ Reject(q)) \/ Tick \/ UNCHANGED vars
             PROVE  Inv'
  OBVIOUS
<1>1. TypeOK' /\ ListIsRecent' /\ \A d \in Clients, t \in 0..MaxTime : AdmittedIn(d, t)' = AdmittedIn(d, t)
  <2>1. ASSUME NEW q \in Calls, CheckRateLimit(q), Reject(q)
        PROVE  TypeOK' /\ ListIsRecent' /\ \A d \in Clients, t \in 0..MaxTime : AdmittedIn(d, t)' = AdmittedIn(d, t)
    <3>1. /\ now' = now /\ verdict[q] = "none" /\ ClientOf[q] \in Clients
          /\ time' = [time EXCEPT ![q] = now]
          /\ verdict' = [verdict EXCEPT ![q] = "rejected"]
          /\ requests' = [requests EXCEPT ![ClientOf[q]] = Kept(ClientOf[q])]
      BY <2>1 DEF CheckRateLimit, Reject
    <3>2. TypeOK' /\ ListIsRecent'
      BY <3>1 DEF Inv, TypeOK, ListIsRecent, Kept
    <3>3. \A d \in Clients, t \in 0..MaxTime : AdmittedIn(d, t)' = AdmittedIn(d, t)
      BY <3>1 DEF Inv, TypeOK, AdmittedIn
    <3> QED
      BY <3>2, <3>3
  <2>2. CASE Tick
    BY <2>2 DEF Tick, Inv, TypeOK, ListIsRecent, AdmittedIn
  <2>3. CASE UNCHANGED vars
    BY <2>3 DEF vars, Inv, TypeOK, ListIsRecent, AdmittedIn
  <2> QED
    BY <2>1, <2>2, <2>3
<1> QED
  BY <1>1 DEF Inv, WindowBounded

LEMMA Invariant == Spec => []Inv
<1>1. Inv /\ [Next]_vars => Inv'
  BY AdmitStep, OtherStep DEF Next, CheckRateLimit
<1> QED
  BY <1>1, InvInit, PTL DEF Spec

\* Type correctness of the limiter.
THEOREM TypeCorrect == Spec => []TypeOK
<1>1. Inv => TypeOK
  BY DEF Inv
<1> QED
  BY <1>1, Invariant, PTL

\* The limit holds in every window of every client (rate_limit.py:27-36).
THEOREM LimitHolds == Spec => []WindowBounded
<1>1. Inv => WindowBounded
  BY DEF Inv
<1> QED
  BY <1>1, Invariant, PTL

\* Nobody is rejected but for requests admitted in the window (rate_limit.py:28-34).
THEOREM NoUndueRejection == Spec => RejectedWhenFull
<1>1. ASSUME Inv, [Next]_vars, NEW q \in Calls, Rejected(q)
      PROVE  Cardinality(AdmittedIn(ClientOf[q], now)) >= MaxRequests
  <2>1. CheckRateLimit(q) /\ Reject(q)
    BY <1>1 DEF Inv, TypeOK, Next, Rejected, CheckRateLimit, Reject, Admit, Tick, vars
  <2>2. ~(Cardinality(Kept(ClientOf[q])) < MaxRequests) /\ ClientOf[q] \in Clients
    BY <2>1 DEF Reject, HasRoom
  <2> QED
    BY <1>1, <2>2, KeptIsWindow
<1>2. Inv /\ [Next]_vars => \A q \in Calls : Rejected(q) =>
          Cardinality(AdmittedIn(ClientOf[q], now)) >= MaxRequests
  BY <1>1
<1>3. Spec => [][Next]_vars
  BY PTL DEF Spec
<1> QED
  BY <1>2, <1>3, Invariant, PTL DEF RejectedWhenFull
====
