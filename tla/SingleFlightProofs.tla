------------------------- MODULE SingleFlightProofs -------------------------
(***************************************************************************)
(* Proofs about SingleFlight for any callers, keys, entries and errors.    *)
(* IInv is inductive; the properties of SingleFlight follow from it.       *)
(***************************************************************************)
EXTENDS SingleFlight, TLAPS

(***************************************************************************)
(* Nothing is in Do at the start.                                          *)
(***************************************************************************)
LEMMA InitIInv == Init => IInv
  BY NilAssumption
  DEF Init, IInv, TypeOK, Phases, Call, Result, NewCall, RegisteredLeads, LeaderRegistered,
      Bound, ReleasedWhenOver, LandedDefined, SharedResult, Leading

(***************************************************************************)
(* Whatever becomes of fn, it lands with an entry or with an error, never  *)
(* with both and never with neither.                                       *)
(***************************************************************************)
LEMMA FnEndsLands ==
  ASSUME NEW c \in Callers, FnEnds(c)
  PROVE  \E val \in Vals \cup {Nil}, err \in Errs \cup {ErrPanic, Nil} :
           Land(c, val, err) /\ (err = Nil) # (val = Nil)
  BY NilAssumption DEF FnEnds, FnReturns, FnFails, FnPanics

(***************************************************************************)
(* Steps of Do keep the state well typed.                                  *)
(***************************************************************************)
LEMMA TypeStep == IInv /\ [Next]_vars => TypeOK'
  <1> SUFFICES ASSUME IInv, [Next]_vars PROVE TypeOK'
    OBVIOUS
  <1> USE DEF IInv, TypeOK, Phases
  <1>1. ASSUME NEW c \in Callers, Join(c) PROVE TypeOK'
    BY <1>1 DEF Join
  <1>2. ASSUME NEW c \in Callers, Lead(c) PROVE TypeOK'
    BY <1>2 DEF Lead
  <1>3. ASSUME NEW c \in Callers, FnEnds(c) PROVE TypeOK'
    <2>1. PICK val \in Vals \cup {Nil}, err \in Errs \cup {ErrPanic, Nil} : Land(c, val, err)
      BY <1>3, FnEndsLands
    <2> QED
      BY <2>1 DEF Land, Call
  <1>4. ASSUME NEW c \in Callers, Signal(c) PROVE TypeOK'
    BY <1>4 DEF Signal, Call
  <1>5. ASSUME NEW c \in Callers, Unlink(c) PROVE TypeOK'
    BY <1>5 DEF Unlink, ResultOf, Call, Result
  <1>6. ASSUME NEW c \in Callers, Wake(c) PROVE TypeOK'
    BY <1>6 DEF Wake, ResultOf, Bound, Call, Result
  <1>7. CASE UNCHANGED vars
    BY <1>7 DEF vars
  <1> QED
    BY <1>1, <1>2, <1>3, <1>4, <1>5, <1>6, <1>7 DEF Next, Terminated

(***************************************************************************)
(* The map and the leaders keep agreeing: registration and deletion touch  *)
(* the leader's own key only, and two leaders never have the same key.     *)
(***************************************************************************)
LEMMA MapStep == IInv /\ [Next]_vars => RegisteredLeads' /\ LeaderRegistered'
  <1> SUFFICES ASSUME IInv, [Next]_vars PROVE RegisteredLeads' /\ LeaderRegistered'
    OBVIOUS
  <1> USE NilAssumption DEF IInv, TypeOK, RegisteredLeads, LeaderRegistered, Leading
  <1>1. ASSUME NEW c \in Callers, Join(c) PROVE RegisteredLeads' /\ LeaderRegistered'
    BY <1>1 DEF Join
  <1>2. ASSUME NEW c \in Callers, Lead(c) PROVE RegisteredLeads' /\ LeaderRegistered'
    BY <1>2 DEF Lead
  <1>3. ASSUME NEW c \in Callers, FnEnds(c) PROVE RegisteredLeads' /\ LeaderRegistered'
    <2>1. PICK val \in Vals \cup {Nil}, err \in Errs \cup {ErrPanic, Nil} : Land(c, val, err)
      BY <1>3, FnEndsLands
    <2> QED
      BY <2>1 DEF Land
  <1>4. ASSUME NEW c \in Callers, Signal(c) PROVE RegisteredLeads' /\ LeaderRegistered'
    BY <1>4 DEF Signal
  <1>5. ASSUME NEW c \in Callers, Unlink(c) PROVE RegisteredLeads' /\ LeaderRegistered'
    BY <1>5 DEF Unlink
  <1>6. ASSUME NEW c \in Callers, Wake(c) PROVE RegisteredLeads' /\ LeaderRegistered'
    BY <1>6 DEF Wake
  <1>7. CASE UNCHANGED vars
    BY <1>7 DEF vars
  <1> QED
    BY <1>1, <1>2, <1>3, <1>4, <1>5, <1>6, <1>7 DEF Next, Terminated

(***************************************************************************)
(* A caller stays bound to one call, and that call keeps its leader.       *)
(***************************************************************************)
LEMMA BoundStep == IInv /\ [Next]_vars => Bound'
  <1> SUFFICES ASSUME IInv, [Next]_vars PROVE Bound'
    OBVIOUS
  <1> USE NilAssumption DEF IInv, TypeOK, Bound
  <1>1. ASSUME NEW c \in Callers, Join(c) PROVE Bound'
    BY <1>1 DEF Join, RegisteredLeads, LeaderRegistered, Leading
  <1>2. ASSUME NEW c \in Callers, Lead(c) PROVE Bound'
    BY <1>2 DEF Lead
  <1>3. ASSUME NEW c \in Callers, FnEnds(c) PROVE Bound'
    <2>1. PICK val \in Vals \cup {Nil}, err \in Errs \cup {ErrPanic, Nil} : Land(c, val, err)
      BY <1>3, FnEndsLands
    <2> QED
      BY <2>1 DEF Land
  <1>4. ASSUME NEW c \in Callers, Signal(c) PROVE Bound'
    BY <1>4 DEF Signal
  <1>5. ASSUME NEW c \in Callers, Unlink(c) PROVE Bound'
    BY <1>5 DEF Unlink
  <1>6. ASSUME NEW c \in Callers, Wake(c) PROVE Bound'
    BY <1>6 DEF Wake
  <1>7. CASE UNCHANGED vars
    BY <1>7 DEF vars
  <1> QED
    BY <1>1, <1>2, <1>3, <1>4, <1>5, <1>6, <1>7 DEF Next, Terminated

(***************************************************************************)
(* Only a call that is over releases its followers, and by then its result *)
(* is written and final.                                                   *)
(***************************************************************************)
LEMMA ResultStep == IInv /\ [Next]_vars => ReleasedWhenOver' /\ LandedDefined' /\ SharedResult'
  <1> DEFINE Goal == ReleasedWhenOver' /\ LandedDefined' /\ SharedResult'
  <1> SUFFICES ASSUME IInv, [Next]_vars PROVE Goal
    OBVIOUS
  <1> USE NilAssumption
      DEF IInv, TypeOK, Bound, ReleasedWhenOver, LandedDefined, SharedResult, ResultOf, Call
  <1>1. ASSUME NEW c \in Callers, Join(c) PROVE Goal
    BY <1>1 DEF Join, RegisteredLeads, Leading
  <1>2. ASSUME NEW c \in Callers, Lead(c) PROVE Goal
    BY <1>2 DEF Lead
  <1>3. ASSUME NEW c \in Callers, FnEnds(c) PROVE Goal
    <2>1. PICK val \in Vals \cup {Nil}, err \in Errs \cup {ErrPanic, Nil} :
            Land(c, val, err) /\ (err = Nil) # (val = Nil)
      BY <1>3, FnEndsLands
    <2> QED
      BY <2>1 DEF Land
  <1>4. ASSUME NEW c \in Callers, Signal(c) PROVE Goal
    BY <1>4 DEF Signal, LeaderRegistered, Leading
  <1>5. ASSUME NEW c \in Callers, Unlink(c) PROVE Goal
    BY <1>5 DEF Unlink, LeaderRegistered, Leading
  <1>6. ASSUME NEW c \in Callers, Wake(c) PROVE Goal
    BY <1>6 DEF Wake
  <1>7. CASE UNCHANGED vars
    BY <1>7 DEF vars
  <1> QED
    BY <1>1, <1>2, <1>3, <1>4, <1>5, <1>6, <1>7 DEF Next, Terminated

(***************************************************************************)
(* The inductive invariant of cache.Do holds in every reachable state.     *)
(***************************************************************************)
THEOREM Invariance == Spec => []IInv
  <1>1. IInv /\ [Next]_vars => IInv'
    BY TypeStep, MapStep, BoundStep, ResultStep DEF IInv
  <1> QED
    BY InitIInv, <1>1, PTL DEF Spec

(***************************************************************************)
(* Type correctness of the state of cache.Do.                              *)
(***************************************************************************)
THEOREM TypeCorrect == Spec => []TypeOK
  <1>1. IInv => TypeOK
    BY DEF IInv
  <1> QED
    BY Invariance, <1>1, PTL

(***************************************************************************)
(* At most one fn runs per key: two leaders with one key would both be the *)
(* call registered under it.                                               *)
(***************************************************************************)
THEOREM LeadersExclusive == Spec => []OneLeaderPerKey
  <1>1. IInv => OneLeaderPerKey
    BY DEF IInv, LeaderRegistered, OneLeaderPerKey
  <1> QED
    BY Invariance, <1>1, PTL

(***************************************************************************)
(* Leader and followers return the same, final result of a call for their  *)
(* own key.                                                                *)
(***************************************************************************)
THEOREM ResultsShared == Spec => []SharedResult
  <1>1. IInv => SharedResult
    BY DEF IInv
  <1> QED
    BY Invariance, <1>1, PTL

(***************************************************************************)
(* Do never returns neither an entry nor an error, nor both.               *)
(***************************************************************************)
THEOREM ResultsDefined == Spec => []ResultDefined
  <1>1. IInv => ResultDefined
    <2> SUFFICES ASSUME IInv, NEW c \in Callers, at[c] = "out"
                 PROVE  (got[c].err = Nil) # (got[c].val = Nil)
      BY DEF ResultDefined
    <2>1. /\ joined[c] \in Callers
          /\ joined[joined[c]] = joined[c]
      BY DEF IInv, Bound
    <2>2. /\ at[joined[c]] \in {"signalled", "out"}
          /\ got[c] = ResultOf(joined[c])
      BY <2>1 DEF IInv, ReleasedWhenOver, SharedResult
    <2> QED
      BY <2>1, <2>2 DEF IInv, LandedDefined, ResultOf
  <1> QED
    BY Invariance, <1>1, PTL

(***************************************************************************)
(* A caller joins only calls whose leader is still inside Do.              *)
(***************************************************************************)
THEOREM LiveCallsJoined == Spec => JoinsLiveCall
  <1> DEFINE Live == \A c \in Callers : at[c] = "idle" /\ at'[c] = "wait" => at[joined'[c]] # "out"
  <1>1. IInv /\ [Next]_vars => [Live]_vars
    <2> SUFFICES ASSUME IInv, Next, NEW d \in Callers, at[d] = "idle", at'[d] = "wait"
                 PROVE  at[joined'[d]] # "out"
      BY DEF vars
    <2> USE DEF IInv, TypeOK
    <2>1. ASSUME NEW c \in Callers, Join(c) PROVE at[joined'[d]] # "out"
      BY <2>1 DEF Join, RegisteredLeads, Leading
    <2>2. ASSUME NEW c \in Callers, FnEnds(c) PROVE FALSE
      BY <2>2 DEF FnEnds, FnReturns, FnFails, FnPanics, Land
    <2>3. ASSUME NEW c \in Callers, Lead(c) \/ Signal(c) \/ Unlink(c) \/ Wake(c) PROVE FALSE
      BY <2>3 DEF Lead, Signal, Unlink, Wake
    <2>4. ASSUME UNCHANGED vars PROVE FALSE
      BY <2>4 DEF vars
    <2> QED
      BY <2>1, <2>2, <2>3, <2>4 DEF Next, Terminated
  <1> QED
    BY Invariance, <1>1, PTL DEF Spec, JoinsLiveCall
=============================================================================
