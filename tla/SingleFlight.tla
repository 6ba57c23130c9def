---------------------------- MODULE SingleFlight ----------------------------
(***************************************************************************)
(* cache.Do (internal/cache/cache.go): callers of Do with one key share    *)
(* the result of one execution of fn.  The leader registers a call in the  *)
(* map flights, runs fn, wakes its followers (wg.Done) and only then       *)
(* deletes the call from the map, so there is a window in which a new      *)
(* caller joins a call that is already over.                               *)
(*                                                                         *)
(* A caller is one goroutine inside one call of Do.  A goroutine leads at  *)
(* most one call, so the call object it allocates is named by the caller.  *)
(***************************************************************************)
CONSTANTS
    Callers,    \* goroutines, each calling Do once
    Keys,       \* cache keys
    Vals,       \* what fn may return as its *Entry
    Errs,       \* what fn may return as its error
    ErrPanic,   \* the error Do makes of a panic of fn
    Nil         \* nil: no entry, no error, no call

ASSUME NilAssumption == Nil \notin Callers \cup Vals \cup Errs \cup {ErrPanic}

VARIABLES
    at,         \* where in Do the caller is
    key,        \* the key it passed, fixed
    flights,    \* the map flights: the leader of the registered call
    joined,     \* the call the caller is bound to (its own when it leads)
    call,       \* the call structs: result, and whether wg is released
    got         \* what Do returned to the caller

vars == <<at, key, flights, joined, call, got>>

Phases == {"idle", "wait", "fn", "landed", "signalled", "out"}

\* The leader is between registering its call and deleting it again.
Leading == {"fn", "landed", "signalled"}

Call == [val : Vals \cup {Nil}, err : Errs \cup {ErrPanic, Nil}, done : BOOLEAN]
Result == [val : Vals \cup {Nil}, err : Errs \cup {ErrPanic, Nil}]

NewCall == [val |-> Nil, err |-> Nil, done |-> FALSE]
ResultOf(c) == [val |-> call[c].val, err |-> call[c].err]

TypeOK ==
    /\ at \in [Callers -> Phases]
    /\ key \in [Callers -> Keys]
    /\ flights \in [Keys -> Callers \cup {Nil}]
    /\ joined \in [Callers -> Callers \cup {Nil}]
    /\ call \in [Callers -> Call]
    /\ got \in [Callers -> Result \cup {Nil}]

Init ==
    /\ at = [c \in Callers |-> "idle"]
    /\ key \in [Callers -> Keys]
    /\ flights = [k \in Keys |-> Nil]
    /\ joined = [c \in Callers |-> Nil]
    /\ call = [c \in Callers |-> NewCall]
    /\ got = [c \in Callers |-> Nil]

-----------------------------------------------------------------------------
(* The section under flightMu at the head of Do has two outcomes.          *)

Join(c) ==
    /\ at[c] = "idle"
    /\ flights[key[c]] # Nil
    /\ joined' = [joined EXCEPT ![c] = flights[key[c]]]
    /\ at' = [at EXCEPT ![c] = "wait"]
    /\ UNCHANGED <<key, flights, call, got>>

\* Mutated form of Lead: the lookup in flights is dropped.
LeadUnchecked(c) ==
    /\ at[c] = "idle"
    /\ flights' = [flights EXCEPT ![key[c]] = c]
    /\ joined' = [joined EXCEPT ![c] = c]
    /\ at' = [at EXCEPT ![c] = "fn"]
    /\ UNCHANGED <<key, call, got>>

Lead(c) ==
    /\ at[c] = "idle"
    /\ flights[key[c]] = Nil
    /\ flights' = [flights EXCEPT ![key[c]] = c]
    /\ joined' = [joined EXCEPT ![c] = c]
    /\ at' = [at EXCEPT ![c] = "fn"]
    /\ UNCHANGED <<key, call, got>>

Enter(c) == Join(c) \/ Lead(c)

-----------------------------------------------------------------------------
(* The end of fn: it returns an entry, returns an error, or panics and the *)
(* deferred function turns the panic into an error.                        *)

Land(c, val, err) ==
    /\ at[c] = "fn"
    /\ call' = [call EXCEPT ![c] = [val |-> val, err |-> err, done |-> @.done]]
    /\ at' = [at EXCEPT ![c] = "landed"]
    /\ UNCHANGED <<key, flights, joined, got>>

FnReturns(c, v) == Land(c, v, Nil)
FnFails(c, e) == Land(c, Nil, e)

\* Mutated form of FnPanics: the recover leaves c.err unset.
FnPanicsSilently(c) == Land(c, Nil, Nil)

FnPanics(c) == Land(c, Nil, ErrPanic)

FnEnds(c) ==
    \/ \E v \in Vals : FnReturns(c, v)
    \/ \E e \in Errs : FnFails(c, e)
    \/ FnPanics(c)

-----------------------------------------------------------------------------
(* The deferred function: wg.Done, then the deletion under flightMu.       *)

\* Mutated form of Signal: wg.Done is missing.
SignalNobody(c) ==
    /\ at[c] = "landed"
    /\ at' = [at EXCEPT ![c] = "signalled"]
    /\ UNCHANGED <<key, flights, joined, call, got>>

Signal(c) ==
    /\ at[c] = "landed"
    /\ call' = [call EXCEPT ![c] = [val |-> @.val, err |-> @.err, done |-> TRUE]]
    /\ at' = [at EXCEPT ![c] = "signalled"]
    /\ UNCHANGED <<key, flights, joined, got>>

\* Mutated form of Unlink: the call is never deleted from the map.
UnlinkNothing(c) ==
    /\ at[c] = "signalled"
    /\ got' = [got EXCEPT ![c] = ResultOf(c)]
    /\ at' = [at EXCEPT ![c] = "out"]
    /\ UNCHANGED <<key, flights, joined, call>>

Unlink(c) ==
    /\ at[c] = "signalled"
    /\ flights' = [flights EXCEPT ![key[c]] = Nil]
    /\ got' = [got EXCEPT ![c] = ResultOf(c)]
    /\ at' = [at EXCEPT ![c] = "out"]
    /\ UNCHANGED <<key, joined, call>>

\* Mutated form of Wake: the follower does not wait for the WaitGroup.
WakeUnawaited(c) ==
    /\ at[c] = "wait"
    /\ got' = [got EXCEPT ![c] = ResultOf(joined[c])]
    /\ at' = [at EXCEPT ![c] = "out"]
    /\ UNCHANGED <<key, flights, joined, call>>

Wake(c) ==
    /\ at[c] = "wait"
    /\ call[joined[c]].done
    /\ got' = [got EXCEPT ![c] = ResultOf(joined[c])]
    /\ at' = [at EXCEPT ![c] = "out"]
    /\ UNCHANGED <<key, flights, joined, call>>

Terminated ==
    /\ \A c \in Callers : at[c] = "out"
    /\ UNCHANGED vars

Next ==
    \/ \E c \in Callers : Join(c) \/ Lead(c) \/ FnEnds(c) \/ Signal(c) \/ Unlink(c) \/ Wake(c)
    \/ Terminated

Spec == Init /\ [][Next]_vars

(***************************************************************************)
(* fn ends: the upstream call in it runs under a context with a timeout.   *)
(* The other steps are those of a runnable goroutine.                      *)
(***************************************************************************)
Fairness == \A c \in Callers :
    WF_vars(Join(c) \/ Lead(c)) /\ WF_vars(FnEnds(c)) /\ WF_vars(Signal(c))
        /\ WF_vars(Unlink(c)) /\ WF_vars(Wake(c))

FairSpec == Spec /\ Fairness

-----------------------------------------------------------------------------
(***************************************************************************)
(* Two callers with one key never execute fn at the same time, in the      *)
(* window between wg.Done and the deletion either (cache.go:31-49).        *)
(***************************************************************************)
OneLeaderPerKey ==
    \A c, d \in Callers :
        at[c] \in Leading /\ at[d] \in Leading /\ key[c] = key[d] => c = d

(***************************************************************************)
(* A caller that has returned holds the result of the call it was bound    *)
(* to, a call for its own key that is over; so leader and followers agree  *)
(* and nobody reads the result before it is written (cache.go:32-36, 50).  *)
(***************************************************************************)
SharedResult ==
    \A c \in Callers : at[c] = "out" =>
        /\ key[joined[c]] = key[c]
        /\ call[joined[c]].done
        /\ got[c] = ResultOf(joined[c])

(***************************************************************************)
(* Do returns either an entry or an error, never neither: the handlers     *)
(* dereference the entry whenever the error is nil, also after fn panicked *)
(* (cache.go:43-45).                                                       *)
(***************************************************************************)
ResultDefined ==
    \A c \in Callers : at[c] = "out" => (got[c].err = Nil) # (got[c].val = Nil)

-----------------------------------------------------------------------------
(* The inductive strengthening of the three invariants above.              *)

\* The map holds calls that are not over, under the key of their leader ...
RegisteredLeads ==
    \A k \in Keys : flights[k] # Nil => key[flights[k]] = k /\ at[flights[k]] \in Leading

\* ... and every call that is not over is in the map.
LeaderRegistered ==
    \A c \in Callers : at[c] \in Leading => flights[key[c]] = c /\ joined[c] = c

\* A caller inside or past Do is bound to a call for its key, and to its leader.
Bound ==
    \A c \in Callers : at[c] # "idle" =>
        /\ joined[c] \in Callers
        /\ key[joined[c]] = key[c]
        /\ joined[joined[c]] = joined[c]
        /\ at[joined[c]] \notin {"idle", "wait"}

ReleasedWhenOver ==
    \A c \in Callers : call[c].done <=> joined[c] = c /\ at[c] \in {"signalled", "out"}

LandedDefined ==
    \A c \in Callers :
        joined[c] = c /\ at[c] \in {"landed", "signalled", "out"}
            => (call[c].err = Nil) # (call[c].val = Nil)

(***************************************************************************)
(* What cache.Do keeps true between any two of its steps: the map and the  *)
(* places of the callers describe the same calls (cache.go:30-57).         *)
(***************************************************************************)
IInv ==
    /\ TypeOK
    /\ RegisteredLeads
    /\ LeaderRegistered
    /\ Bound
    /\ ReleasedWhenOver
    /\ LandedDefined
    /\ SharedResult

-----------------------------------------------------------------------------
(***************************************************************************)
(* A caller never joins a call whose leader has already left Do: a result  *)
(* handed to a follower is never older than that (cache.go:47-49).         *)
(***************************************************************************)
JoinsLiveCall ==
    [][\A c \in Callers : at[c] = "idle" /\ at'[c] = "wait" => at[joined'[c]] # "out"]_vars

(***************************************************************************)
(* Every call of Do returns, whatever becomes of fn (cache.go:42-49).      *)
(***************************************************************************)
DoReturns == \A c \in Callers : at[c] # "idle" ~> at[c] = "out"
=============================================================================
