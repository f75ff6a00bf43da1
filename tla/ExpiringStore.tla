---- MODULE ExpiringStore ----
(***************************************************************************)
(* The in-process stores (state/local_store.py): a table of values with the *)
(* time at which they expire.  Nobody removes an expired entry until it is  *)
(* looked at.                                                              *)
(***************************************************************************)
EXTENDS Naturals, FiniteSets

CONSTANTS Keys, Values, Ttls,   \* the times to live that are asked for, or None
          MaxTime,              \* bound of the model on the clock
          None, Never

Entry == [value : Values, expiry : Nat \cup {Never}]

ASSUME StoreAssumption ==
    /\ None \notin Entry /\ None \notin Nat
    /\ Ttls \subseteq Nat \cup {None}
    /\ Never \notin Nat

VARIABLES
    table,  \* key -> Entry, or None
    clock,
    answer  \* of the last call: key -> value

storeVars == <<table, clock, answer>>

InitStore ==
    /\ table = [k \in Keys |-> None]
    /\ clock = 0
    /\ answer = << >>

IsExpired(k) == table[k] # None /\ table[k].expiry # Never /\ clock > table[k].expiry

\* _cleanup_expired for the keys K.
Cleaned(K) == [k \in Keys |-> IF k \in K /\ IsExpired(k) THEN None ELSE table[k]]

ValueIn(t, k) == IF t[k] = None THEN None ELSE t[k].value

\* Mutant: the expiry is not looked at.
ReadAnyAge(K) ==
    /\ answer' = [k \in K |-> ValueIn(table, k)]
    /\ UNCHANGED <<table, clock>>

\* get, exists and keys.
Read(K) ==
    /\ table' = Cleaned(K)
    /\ answer' = [k \in K |-> ValueIn(Cleaned(K), k)]
    /\ UNCHANGED clock

Set(k, v, ttl) ==
    /\ table' = [table EXCEPT ![k] = [value |-> v, expiry |-> IF ttl = None THEN Never ELSE clock + ttl]]
    /\ answer' = << >>
    /\ UNCHANGED clock

Delete(k) ==
    /\ table' = [table EXCEPT ![k] = None]
    /\ answer' = << >>
    /\ UNCHANGED clock

Tick ==
    /\ clock < MaxTime
    /\ clock' = clock + 1
    /\ UNCHANGED <<table, answer>>

NextStore ==
    \/ \E K \in SUBSET Keys : Read(K)
    \/ \E k \in Keys : Delete(k) \/ \E v \in Values, ttl \in Ttls : Set(k, v, ttl)
    \/ Tick

StoreSpec == InitStore /\ [][NextStore]_storeVars

\* What a reader would see.
Visible(k) == IF IsExpired(k) THEN None ELSE ValueIn(table, k)

Map == INSTANCE ExpiringMap WITH
    map <- [k \in Keys |-> Visible(k)],
    lasting <- {k \in Keys : table[k] # None /\ table[k].expiry = Never}

\* The store is a map with expiring entries: a read shows the last value written unless
\* its time is over, and an entry without a time to live stays (local_store:21-51).
ImplementsMap == Map!Spec

StoreTypeOK ==
    /\ table \in [Keys -> Entry \cup {None}]
    /\ clock \in Nat
====
