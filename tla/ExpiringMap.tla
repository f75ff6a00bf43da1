---- MODULE ExpiringMap ----
(***************************************************************************)
(* What the stores promise (state/base.py): a map whose entries may vanish  *)
(* by themselves, but only those that were set with a time to live.  When   *)
(* they do is left to the store.                                           *)
(***************************************************************************)
CONSTANTS Keys, Values, None

VARIABLES
    map,      \* key -> value, or None
    lasting,  \* the keys whose entries do not vanish
    answer    \* of the last call: key -> value

vars == <<map, lasting, answer>>

Init ==
    /\ map = [k \in Keys |-> None]
    /\ lasting = {}
    /\ answer = << >>

\* get, exists and keys, as far as they look at the keys K.
Read(K) ==
    /\ answer' = [k \in K |-> map[k]]
    /\ UNCHANGED <<map, lasting>>

Set(k, v, lasts) ==
    /\ map' = [map EXCEPT ![k] = v]
    /\ lasting' = IF lasts THEN lasting \cup {k} ELSE lasting \ {k}
    /\ answer' = << >>

Delete(k) ==
    /\ map' = [map EXCEPT ![k] = None]
    /\ lasting' = lasting \ {k}
    /\ answer' = << >>

Vanish(K) ==
    /\ K \cap lasting = {}
    /\ map' = [k \in Keys |-> IF k \in K THEN None ELSE map[k]]
    /\ UNCHANGED <<lasting, answer>>

Next ==
    \/ \E K \in SUBSET Keys : Read(K) \/ Vanish(K)
    \/ \E k \in Keys : Delete(k) \/ \E v \in Values, lasts \in BOOLEAN : Set(k, v, lasts)

Spec == Init /\ [][Next]_vars
====
