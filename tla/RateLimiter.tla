---- MODULE RateLimiter ----
(***************************************************************************)
(* The sliding window of security/rate_limit.py.  The upload and question   *)
(* endpoints check every request under a client id, the kind of request     *)
(* and the session id it names (not its IP, as config.py:115 has it).       *)
(* check_rate_limit runs without suspending.                               *)
(*                                                                         *)
(* The list of request times of a client is the set of calls that appended  *)
(* them: neither order nor equal times matter to the code.  The clock is    *)
(* assumed not to be set back.                                             *)
(***************************************************************************)
EXTENDS Naturals, FiniteSets

CONSTANTS
    Calls,          \* the calls of check_rate_limit
    Clients,
    ClientOf,       \* call -> the client id it is made with
    MaxRequests,    \* settings.rate_limit_requests_per_minute
    Window,         \* window_seconds
    MaxTime         \* bound of the model: where the clock stops

ASSUME CallsAssumption == IsFiniteSet(Calls) /\ ClientOf \in [Calls -> Clients]
ASSUME LimitsAssumption == MaxRequests \in Nat /\ Window \in Nat \ {0} /\ MaxTime \in Nat

VARIABLES
    now,        \* time.time()
    requests,   \* client -> the calls whose times are in its list
    verdict,    \* call -> "none" | "admitted" | "rejected"
    time        \* call -> the time it was checked, 0 before

vars == <<now, requests, verdict, time>>

Init ==
    /\ now = 0
    /\ requests = [c \in Clients |-> {}]
    /\ verdict = [q \in Calls |-> "none"]
    /\ time = [q \in Calls |-> 0]

\* Mutant: what is exactly one window old is kept.
KeepsTooLong(c) == {q \in requests[c] : time[q] + Window >= now}

\* The times of a client that are younger than the window.
Kept(c) == {q \in requests[c] : time[q] + Window > now}

\* Mutant: a request too many is admitted.
RoomForOneMore(c) == Cardinality(Kept(c)) <= MaxRequests

HasRoom(c) == Cardinality(Kept(c)) < MaxRequests

\* Mutant: a rejected request is written to the list as well.
RemembersRejected(q) ==
    LET c == ClientOf[q] IN
    /\ ~HasRoom(c)
    /\ requests' = [requests EXCEPT ![c] = Kept(c) \cup {q}]
    /\ verdict' = [verdict EXCEPT ![q] = "rejected"]

Reject(q) ==
    LET c == ClientOf[q] IN
    /\ ~HasRoom(c)
    /\ requests' = [requests EXCEPT ![c] = Kept(c)]
    /\ verdict' = [verdict EXCEPT ![q] = "rejected"]

Admit(q) ==
    LET c == ClientOf[q] IN
    /\ HasRoom(c)
    /\ requests' = [requests EXCEPT ![c] = Kept(c) \cup {q}]
    /\ verdict' = [verdict EXCEPT ![q] = "admitted"]

CheckRateLimit(q) ==
    /\ verdict[q] = "none"
    /\ Reject(q) \/ Admit(q)
    /\ time' = [time EXCEPT ![q] = now]
    /\ UNCHANGED now

Tick ==
    /\ now < MaxTime
    /\ now' = now + 1
    /\ UNCHANGED <<requests, verdict, time>>

Next == (\E q \in Calls : CheckRateLimit(q)) \/ Tick

Spec == Init /\ [][Next]_vars

(***************************************************************************)
(* Properties                                                              *)
(***************************************************************************)

\* Every variable has its type; a list holds admitted calls of its own client.
TypeOK ==
    /\ now \in 0..MaxTime
    /\ requests \in [Clients -> SUBSET Calls]
    /\ verdict \in [Calls -> {"none", "admitted", "rejected"}]
    /\ time \in [Calls -> 0..MaxTime]
    /\ \A c \in Clients : \A q \in requests[c] : ClientOf[q] = c /\ verdict[q] = "admitted"

\* The calls of a client admitted in the window that ends at t.
AdmittedIn(c, t) ==
    {q \in Calls : /\ ClientOf[q] = c /\ verdict[q] = "admitted"
                   /\ time[q] <= t /\ t < time[q] + Window}

\* No window, wherever it ends, has more admitted requests of a client than the
\* limit, although the list forgets (:27-36).
WindowBounded ==
    \A c \in Clients, t \in 0..MaxTime : Cardinality(AdmittedIn(c, t)) <= MaxRequests

Rejected(q) == verdict[q] = "none" /\ verdict'[q] = "rejected"

\* A request is rejected only when the window that ends with it is full of admitted
\* requests: rejections do not count, nor does what has left the window (:28-34).
RejectedWhenFull ==
    [][\A q \in Calls : Rejected(q) =>
          Cardinality(AdmittedIn(ClientOf[q], now)) >= MaxRequests]_vars

(***************************************************************************)
(* What the proofs need besides.                                           *)
(***************************************************************************)

\* The list has all admitted calls of the window; what was checked is in the past.
ListIsRecent ==
    /\ \A q \in Calls : time[q] <= now
    /\ \A q \in Calls : verdict[q] = "admitted" /\ time[q] + Window > now =>
          q \in requests[ClientOf[q]]
====
