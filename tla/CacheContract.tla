--------------------------- MODULE CacheContract ---------------------------
(***************************************************************************)
(* What the handlers may rely on when they use the response cache: a       *)
(* lookup answers the last entry put under that very key, or nothing;      *)
(* entries may vanish at any time (eviction, expiry) but never come back,  *)
(* never change and never answer another key; after Clear nothing is left. *)
(***************************************************************************)
CONSTANTS
    Keys,       \* cache keys
    Values,     \* responses
    None        \* no entry

VARIABLES
    stored,     \* what a lookup of each key would answer
    last        \* the last operation and its answer

vars == <<stored, last>>

Init ==
    /\ stored = [k \in Keys |-> None]
    /\ last = <<"none">>

Put(k, v) ==
    /\ \E lost \in SUBSET (Keys \ {k}) :
          stored' = [j \in Keys |-> IF j = k THEN v ELSE IF j \in lost THEN None ELSE stored[j]]
    /\ last' = <<"put", k, v>>

Get(k) ==
    /\ last' = <<"get", k, stored[k]>>
    /\ UNCHANGED stored

Clear ==
    /\ stored' = [k \in Keys |-> None]
    /\ last' = <<"clear">>

\* Entries expire while nobody uses the cache.
Forget ==
    /\ \E lost \in SUBSET Keys :
          stored' = [j \in Keys |-> IF j \in lost THEN None ELSE stored[j]]
    /\ UNCHANGED last

\* A disabled cache drops what it is given.
Ignore(k) ==
    /\ stored = [j \in Keys |-> None]
    /\ last' = <<"ignored", k>>
    /\ UNCHANGED stored

Next ==
    \/ \E k \in Keys : (\E v \in Values : Put(k, v)) \/ Get(k) \/ Ignore(k)
    \/ Clear
    \/ Forget

Spec == Init /\ [][Next]_vars
=============================================================================
