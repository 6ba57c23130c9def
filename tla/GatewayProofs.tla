--------------------------- MODULE GatewayProofs ---------------------------
(***************************************************************************)
(* The handlers use cache.Do as SingleFlight describes it, so that what is *)
(* proved of Do holds in the gateway; and on top of it, for any number of  *)
(* requests and keys, the invariants of the module Gateway.                *)
(***************************************************************************)
EXTENDS Gateway, TLAPS

SFP == INSTANCE SingleFlightProofs WITH
    Callers <- Requests, Vals <- Requests, Errs <- FlightErrors, ErrPanic <- "panic"

-----------------------------------------------------------------------------

(***************************************************************************)
(* The parameters of cache.Do that the handlers choose meet its assumption *)
(* on nil.                                                                 *)
(***************************************************************************)
LEMMA NilApart == Nil \notin Requests \cup Requests \cup FlightErrors \cup {"panic"}
  BY NamesAssumption DEF FlightErrors, Causes

(***************************************************************************)
(* A step of a request is one of the steps of the common handler.          *)
(***************************************************************************)
Common(r) == Head(r) \/ NonStream(r) \/ Stream(r) \/ WriteRow(r) \/ RowFails(r) \/ ClientLeaves(r)

LEMMA NextCases ==
  ASSUME Next
  PROVE  \/ \E r \in Requests : Common(r)
         \/ \E k \in Keys : Forget(k)
         \/ CacheClear \/ Sigterm \/ Exit \/ UNCHANGED vars
  BY DEF Next, Common, HandleResponses, ResponsesNonStream, ResponsesStream, HandleChat,
         ChatNonStream, ChatStream, HandleMessages, MessagesNonStream, MessagesStream, Terminated

(***************************************************************************)
(* Every step of the gateway is a step of cache.Do or leaves it alone.     *)
(***************************************************************************)
LEMMA FlightStep == [Next]_vars => [SF!Next]_sfvars
  <1> SUFFICES ASSUME [Next]_vars PROVE SF!Next \/ UNCHANGED sfvars
    OBVIOUS
  <1>1. ASSUME NEW r \in Requests, Head(r) PROVE UNCHANGED sfvars
    BY <1>1 DEF Head, Arrive, Reject, Hit, Miss, RecogniseOk, RecogniseFails
  <1>2. ASSUME NEW r \in Requests, Stream(r) PROVE UNCHANGED sfvars
    BY <1>2 DEF Stream, OpenFails, OpenOk, StreamLine, StreamLineGone, StreamEof, StreamBreaks
  <1>3. ASSUME NEW r \in Requests, NonStream(r) PROVE SF!Next \/ UNCHANGED sfvars
    <2>1. CASE Enter(r)
      BY <2>1 DEF Enter, SF!Next
    <2>2. CASE FetchOk(r)
      BY <2>2 DEF FetchOk, SF!Next, SF!FnEnds
    <2>3. CASE FetchFails(r)
      BY <2>3 DEF FetchFails, SF!Next, SF!FnEnds
    <2>4. CASE DoStep(r)
      BY <2>4 DEF DoStep, SF!Next
    <2>5. CASE Answer(r) \/ Direct(r) \/ DirectOk(r) \/ DirectFails(r)
      BY <2>5 DEF Answer, Direct, DirectOk, DirectFails
    <2> QED
      BY <1>3, <2>1, <2>2, <2>3, <2>4, <2>5 DEF NonStream
  <1>4. ASSUME NEW r \in Requests, WriteRow(r) \/ RowFails(r) \/ ClientLeaves(r)
        PROVE  UNCHANGED sfvars
    BY <1>4 DEF WriteRow, RowFails, RowEnds, ClientLeaves
  <1>5. ASSUME (\E k \in Keys : Forget(k)) \/ CacheClear \/ Sigterm \/ Exit \/ UNCHANGED vars
        PROVE  UNCHANGED sfvars
    BY <1>5 DEF Forget, CacheClear, Sigterm, Exit, vars
  <1> QED
    BY <1>1, <1>2, <1>3, <1>4, <1>5, NextCases DEF Common

(***************************************************************************)
(* The gateway implements the specification of cache.Do.                   *)
(***************************************************************************)
THEOREM FlightsRefined == Spec => SF!Spec
  <1>1. Init => SF!Init
    BY DEF Init
  <1> QED
    BY <1>1, FlightStep, PTL DEF Spec, SF!Spec, sfvars, SF!vars

(***************************************************************************)
(* So what is invariant in cache.Do is invariant in the gateway.           *)
(***************************************************************************)
THEOREM FlightsInvariant == Spec => []SF!IInv
  <1>1. SF!Init => SFP!Init
    BY DEF SF!Init, SFP!Init, SF!NewCall, SFP!NewCall
  <1>2. [SF!Next]_(SF!vars) => [SFP!Next]_(SFP!vars)
    BY DEF SF!Next, SFP!Next, SF!vars, SFP!vars, SF!Join, SFP!Join, SF!Lead, SFP!Lead, SF!FnEnds,
           SFP!FnEnds, SF!FnReturns, SFP!FnReturns, SF!FnFails, SFP!FnFails, SF!FnPanics,
           SFP!FnPanics, SF!Land, SFP!Land, SF!Signal, SFP!Signal, SF!Unlink, SFP!Unlink, SF!Wake,
           SFP!Wake, SF!ResultOf, SFP!ResultOf, SF!Terminated, SFP!Terminated
  <1>3. SFP!Spec => []SFP!IInv
    BY NilApart, SFP!Invariance
  <1>4. SFP!IInv => SF!IInv
    BY DEF SF!IInv, SFP!IInv, SF!TypeOK, SFP!TypeOK, SF!Phases, SFP!Phases, SF!Call, SFP!Call,
           SF!Result, SFP!Result, SF!RegisteredLeads, SFP!RegisteredLeads, SF!Leading,
           SFP!Leading, SF!LeaderRegistered, SFP!LeaderRegistered, SF!Bound, SFP!Bound,
           SF!ReleasedWhenOver, SFP!ReleasedWhenOver, SF!LandedDefined, SFP!LandedDefined,
           SF!SharedResult, SFP!SharedResult, SF!ResultOf, SFP!ResultOf
  <1> QED
    BY FlightsRefined, <1>1, <1>2, <1>3, <1>4, PTL DEF SF!Spec, SFP!Spec

-----------------------------------------------------------------------------

(***************************************************************************)
(* Calls that have ended, and images that were recognised, stay so.        *)
(***************************************************************************)
Ended == {"complete", "truncated", "failed"}
Settled ==
    /\ key' = key
    /\ \A s \in Requests : up[s] \in Ended => up'[s] = up[s]
    /\ \A s \in Requests : img[s] = "ok" => img'[s] = "ok"

LEMMA SettledStep == IInv /\ [Next]_vars => Settled
  <1> SUFFICES ASSUME IInv, [Next]_vars PROVE Settled
    OBVIOUS
  <1> USE DEF IInv, TypeOK, CallRuns, CallNone, ImagesFirst, Settled, Ended, sfvars, ends
  <1>1. ASSUME NEW r \in Requests, Head(r) PROVE Settled
    BY <1>1 DEF Head, Arrive, Reject, Hit, Miss, RecogniseOk, RecogniseFails, Go
  <1>2. ASSUME NEW r \in Requests, NonStream(r) PROVE Settled
    <2>1. CASE Enter(r) \/ Direct(r)
      BY <2>1 DEF Enter, SF!Join, SF!Lead, Direct, Go
    <2>2. CASE FetchOk(r) \/ FetchFails(r)
      BY <2>2 DEF FetchOk, FetchFails, SF!FnReturns, SF!FnFails, SF!FnPanics, SF!Land
    <2>3. CASE DoStep(r)
      BY <2>3 DEF DoStep, SF!Signal, SF!Unlink, SF!Wake
    <2>4. CASE Answer(r)
      BY <2>4 DEF Answer
    <2>5. CASE DirectOk(r) \/ DirectFails(r)
      BY <2>5 DEF DirectOk, DirectFails
    <2> QED
      BY <1>2, <2>1, <2>2, <2>3, <2>4, <2>5 DEF NonStream
  <1>3. ASSUME NEW r \in Requests, Stream(r) PROVE Settled
    BY <1>3
       DEF Stream, OpenFails, OpenOk, StreamLine, StreamLineGone, StreamEof, StreamBreaks,
           Reading, Go
  <1>4. ASSUME NEW r \in Requests, WriteRow(r) \/ RowFails(r) \/ ClientLeaves(r) PROVE Settled
    BY <1>4 DEF WriteRow, RowFails, RowEnds, ClientLeaves
  <1>5. ASSUME (\E k \in Keys : Forget(k)) \/ CacheClear \/ Sigterm \/ Exit \/ UNCHANGED vars
        PROVE  Settled
    BY <1>5 DEF Forget, CacheClear, Sigterm, Exit, vars
  <1> QED
    BY <1>1, <1>2, <1>3, <1>4, <1>5, NextCases DEF Common

(***************************************************************************)
(* The answer of a request that is over stays true: no step touches it.    *)
(***************************************************************************)
Kept(q) ==
    /\ pc[q] = "done"
    /\ UNCHANGED <<row[q], reply[q], joined[q], up[q], img[q]>>
    /\ hist'[q] # "none"

LEMMA OutcomeKept ==
  ASSUME IInv, Settled, NEW q \in Requests, Kept(q)
  PROVE  Outcome(q)'
  <1>1. /\ joined[q] \in Requests \cup {Nil}
        /\ row[q] \in Row \cup {Nil}
        /\ Outcome(q)
    BY DEF IInv, TypeOK, SF!TypeOK, AnswersMatchOutcome, Kept
  <1>2. row'[q] # Nil /\ hist'[q] # "none"
    BY <1>1 DEF Outcome, Kept
  <1>3. row'[q].hit => row'[q].success /\ up'[q] = "none" /\ img'[q] = "none"
    BY <1>1 DEF Outcome, Kept
  <1>4. row'[q].success /\ ~(row'[q].hit /\ reply'[q] = "broken") =>
          /\ reply'[q] \in Requests
          /\ key'[reply'[q]] = key'[q]
          /\ up'[reply'[q]] \in Served(reply[q])'
    BY <1>1 DEF Outcome, Kept, Settled, Ended, Served
  <1>5. ~row'[q].success =>
          /\ reply'[q] \in Causes
          /\ img'[q] = "failed" \/ up'[IF joined'[q] = Nil THEN q ELSE joined'[q]] = "failed"
    BY <1>1 DEF Outcome, Kept, Settled, Ended
  <1> QED
    BY <1>2, <1>3, <1>4, <1>5 DEF Outcome

(***************************************************************************)
(* A fetch that succeeds took what its endpoint serves.                    *)
(***************************************************************************)
LEMMA BodyServed ==
  ASSUME NEW r \in Requests, NEW body \in Body(key[r])
  PROVE  body \in Served(r) /\ body \in {"complete", "truncated"}
  BY KeysAssumption DEF Body, ResponsesBody, ChatBody, MessagesBody, Served

(***************************************************************************)
(* What Do returned to a request is what became of the call it was bound   *)
(* to, a call for its own key.                                             *)
(***************************************************************************)
LEMMA FlightOutcome ==
  ASSUME IInv, SF!IInv, NEW r \in Requests, at[r] = "out"
  PROVE  /\ joined[r] \in Requests
         /\ \/ /\ got[r].err = Nil
               /\ got[r].val = joined[r]
               /\ key[joined[r]] = key[r]
               /\ up[joined[r]] \in Served(joined[r])
            \/ /\ got[r].err \in FlightErrors \cup {"panic"}
               /\ got[r].err # Nil
               /\ up[joined[r]] = "failed"
  <1> DEFINE l == joined[r]
  <1>1. l \in Requests /\ joined[l] = l /\ key[l] = key[r]
    BY DEF SF!IInv, SF!Bound
  <1>2. call[l].done /\ got[r] = SF!ResultOf(l)
    BY DEF SF!IInv, SF!SharedResult
  <1>3. at[l] \in {"signalled", "out"}
    BY <1>1, <1>2 DEF SF!IInv, SF!ReleasedWhenOver
  <1>4. \/ call[l].err = Nil /\ call[l].val = l /\ up[l] \in Served(l)
        \/ call[l].err \in FlightErrors \cup {"panic"} /\ up[l] = "failed"
    BY <1>1, <1>3 DEF IInv, CallEnded
  <1>5. Nil \notin FlightErrors \cup {"panic"}
    BY NilApart
  <1>6. got[r].err = call[l].err /\ got[r].val = call[l].val
    BY <1>2 DEF SF!ResultOf
  <1> QED
    BY <1>1, <1>4, <1>5, <1>6

(***************************************************************************)
(* A step keeps the place of a request in its handler and its place in Do  *)
(* consistent.                                                             *)
(***************************************************************************)
LEMMA LocatedStep ==
  ASSUME IInv, SF!IInv, [Next]_vars
  PROVE  Located'
  <1> USE DEF IInv, TypeOK, PCs, Over, sfvars, ends, Located, SF!IInv, SF!TypeOK
  <1>1. ASSUME NEW r \in Requests, Head(r) PROVE Located'
    BY <1>1
       DEF Head, Arrive, Reject, Hit, Miss, RecogniseOk, RecogniseFails, Replayed, Go, Fail,
           Finish, RecordHistory
  <1>2. ASSUME NEW r \in Requests, NonStream(r) PROVE Located'
    <2>1. CASE Enter(r)
      BY <2>1 DEF Enter, SF!Join, SF!Lead
    <2>2. CASE FetchOk(r)
      BY <2>2 DEF FetchOk, SF!FnReturns, SF!Land, Put
    <2>3. CASE FetchFails(r)
      BY <2>3 DEF FetchFails, SF!FnFails, SF!FnPanics, SF!Land
    <2>4. CASE DoStep(r)
      BY <2>4 DEF DoStep, SF!Signal, SF!Unlink, SF!Wake
    <2>5. CASE Answer(r)
      BY <2>5 DEF Answer, Fail, Finish, RecordHistory
    <2>6. CASE Direct(r) \/ DirectOk(r) \/ DirectFails(r)
      BY <2>6 DEF Direct, DirectOk, DirectFails, Go, Fail, Finish, RecordHistory
    <2> QED
      BY <1>2, <2>1, <2>2, <2>3, <2>4, <2>5, <2>6 DEF NonStream
  <1>3. ASSUME NEW r \in Requests, Stream(r) PROVE Located'
    BY <1>3
       DEF Stream, OpenFails, OpenOk, StreamLine, StreamLineGone, StreamEof, StreamBreaks,
           Reading, Put, Go, Fail, Finish, RecordHistory
  <1>4. ASSUME NEW r \in Requests, WriteRow(r) \/ RowFails(r) \/ ClientLeaves(r) PROVE Located'
    BY <1>4 DEF WriteRow, RowFails, RowEnds, ClientLeaves
  <1>5. ASSUME (\E k \in Keys : Forget(k)) \/ CacheClear \/ Sigterm \/ Exit \/ UNCHANGED vars
        PROVE  Located'
    BY <1>5 DEF Forget, CacheClear, Sigterm, Exit, vars
  <1> QED
    BY <1>1, <1>2, <1>3, <1>4, <1>5, NextCases DEF Common

(***************************************************************************)
(* A call of the main model starts when the handler starts to wait for it, *)
(* and ends when the handler stops.                                        *)
(***************************************************************************)
LEMMA CallRunsStep ==
  ASSUME IInv, SF!IInv, [Next]_vars
  PROVE  CallRuns'
  <1> USE DEF IInv, TypeOK, PCs, Over, sfvars, ends, Located, CallRuns, CallNone, SF!TypeOK, SF!IInv
  <1>1. ASSUME NEW r \in Requests, Head(r) PROVE CallRuns'
    BY <1>1
       DEF Head, Arrive, Reject, Hit, Miss, RecogniseOk, RecogniseFails, Replayed, Go, Fail,
           Finish, RecordHistory
  <1>2. ASSUME NEW r \in Requests, NonStream(r) PROVE CallRuns'
    <2>1. CASE Enter(r)
      BY <2>1 DEF Enter, SF!Join, SF!Lead
    <2>2. CASE FetchOk(r)
      BY BodyServed, <2>2 DEF FetchOk, SF!FnReturns, SF!Land, Put
    <2>3. CASE FetchFails(r)
      BY <2>3 DEF FetchFails, SF!FnFails, SF!FnPanics, SF!Land
    <2>4. CASE DoStep(r)
      BY <2>4 DEF DoStep, SF!Signal, SF!Unlink, SF!Wake
    <2>5. CASE Answer(r)
      BY <2>5 DEF Answer, Fail, Finish, RecordHistory
    <2>6. CASE Direct(r) \/ DirectOk(r) \/ DirectFails(r)
      BY BodyServed, <2>6 DEF Direct, DirectOk, DirectFails, Go, Fail, Finish, RecordHistory
    <2> QED
      BY <1>2, <2>1, <2>2, <2>3, <2>4, <2>5, <2>6 DEF NonStream
  <1>3. ASSUME NEW r \in Requests, Stream(r) PROVE CallRuns'
    BY <1>3
       DEF Stream, OpenFails, OpenOk, StreamLine, StreamLineGone, StreamEof, StreamBreaks,
           Reading, Put, Go, Fail, Finish, RecordHistory
  <1>4. ASSUME NEW r \in Requests, WriteRow(r) \/ RowFails(r) \/ ClientLeaves(r) PROVE CallRuns'
    BY <1>4 DEF WriteRow, RowFails, RowEnds, ClientLeaves
  <1>5. ASSUME (\E k \in Keys : Forget(k)) \/ CacheClear \/ Sigterm \/ Exit \/ UNCHANGED vars
        PROVE  CallRuns'
    BY <1>5 DEF Forget, CacheClear, Sigterm, Exit, vars
  <1> QED
    BY <1>1, <1>2, <1>3, <1>4, <1>5, NextCases DEF Common

(***************************************************************************)
(* A follower never calls the main model, and nobody does before dispatch. *)
(***************************************************************************)
LEMMA CallNoneStep ==
  ASSUME IInv, SF!IInv, [Next]_vars
  PROVE  CallNone'
  <1> USE DEF IInv, TypeOK, PCs, Over, sfvars, ends, Located, CallRuns, CallNone, SF!TypeOK,
              SF!IInv, SF!Bound
  <1>1. ASSUME NEW r \in Requests, Head(r) PROVE CallNone'
    BY <1>1
       DEF Head, Arrive, Reject, Hit, Miss, RecogniseOk, RecogniseFails, Replayed, Go, Fail,
           Finish, RecordHistory
  <1>2. ASSUME NEW r \in Requests, NonStream(r) PROVE CallNone'
    <2>1. CASE Enter(r)
      BY <2>1 DEF Enter, SF!Join, SF!Lead
    <2>2. CASE FetchOk(r)
      BY <2>2 DEF FetchOk, SF!FnReturns, SF!Land, Put
    <2>3. CASE FetchFails(r)
      BY <2>3 DEF FetchFails, SF!FnFails, SF!FnPanics, SF!Land
    <2>4. CASE DoStep(r)
      BY <2>4 DEF DoStep, SF!Signal, SF!Unlink, SF!Wake
    <2>5. CASE Answer(r)
      BY <2>5 DEF Answer, Fail, Finish, RecordHistory
    <2>6. CASE Direct(r) \/ DirectOk(r) \/ DirectFails(r)
      BY <2>6 DEF Direct, DirectOk, DirectFails, Go, Fail, Finish, RecordHistory
    <2> QED
      BY <1>2, <2>1, <2>2, <2>3, <2>4, <2>5, <2>6 DEF NonStream
  <1>3. ASSUME NEW r \in Requests, Stream(r) PROVE CallNone'
    BY <1>3
       DEF Stream, OpenFails, OpenOk, StreamLine, StreamLineGone, StreamEof, StreamBreaks,
           Reading, Put, Go, Fail, Finish, RecordHistory
  <1>4. ASSUME NEW r \in Requests, WriteRow(r) \/ RowFails(r) \/ ClientLeaves(r) PROVE CallNone'
    BY <1>4 DEF WriteRow, RowFails, RowEnds, ClientLeaves
  <1>5. ASSUME (\E k \in Keys : Forget(k)) \/ CacheClear \/ Sigterm \/ Exit \/ UNCHANGED vars
        PROVE  CallNone'
    BY <1>5 DEF Forget, CacheClear, Sigterm, Exit, vars
  <1> QED
    BY <1>1, <1>2, <1>3, <1>4, <1>5, NextCases DEF Common

(***************************************************************************)
(* The main model is called only after the images were recognised.         *)
(***************************************************************************)
LEMMA ImagesStep ==
  ASSUME IInv, SF!IInv, [Next]_vars
  PROVE  ImagesFirst' /\ NoDowngrade'
  <1> USE DEF IInv, TypeOK, PCs, Over, sfvars, ends, Located, CallRuns, CallNone, ImagesFirst,
              NoDowngrade, SF!TypeOK, SF!IInv
  <1>1. ASSUME NEW r \in Requests, Head(r) PROVE ImagesFirst' /\ NoDowngrade'
    BY <1>1
       DEF Head, Arrive, Reject, Hit, Miss, RecogniseOk, RecogniseFails, Replayed, Go, Fail,
           Finish, RecordHistory
  <1>2. ASSUME NEW r \in Requests, NonStream(r) PROVE ImagesFirst' /\ NoDowngrade'
    <2>1. CASE Enter(r)
      BY <2>1 DEF Enter, SF!Join, SF!Lead
    <2>2. CASE FetchOk(r)
      BY <2>2 DEF FetchOk, SF!FnReturns, SF!Land, Put
    <2>3. CASE FetchFails(r)
      BY <2>3 DEF FetchFails, SF!FnFails, SF!FnPanics, SF!Land
    <2>4. CASE DoStep(r)
      BY <2>4 DEF DoStep, SF!Signal, SF!Unlink, SF!Wake
    <2>5. CASE Answer(r)
      BY <2>5 DEF Answer, Fail, Finish, RecordHistory
    <2>6. CASE Direct(r) \/ DirectOk(r) \/ DirectFails(r)
      BY <2>6 DEF Direct, DirectOk, DirectFails, Go, Fail, Finish, RecordHistory
    <2> QED
      BY <1>2, <2>1, <2>2, <2>3, <2>4, <2>5, <2>6 DEF NonStream
  <1>3. ASSUME NEW r \in Requests, Stream(r) PROVE ImagesFirst' /\ NoDowngrade'
    BY <1>3
       DEF Stream, OpenFails, OpenOk, StreamLine, StreamLineGone, StreamEof, StreamBreaks,
           Reading, Put, Go, Fail, Finish, RecordHistory
  <1>4. ASSUME NEW r \in Requests, WriteRow(r) \/ RowFails(r) \/ ClientLeaves(r)
        PROVE  ImagesFirst' /\ NoDowngrade'
    BY <1>4 DEF WriteRow, RowFails, RowEnds, ClientLeaves
  <1>5. ASSUME (\E k \in Keys : Forget(k)) \/ CacheClear \/ Sigterm \/ Exit \/ UNCHANGED vars
        PROVE  ImagesFirst' /\ NoDowngrade'
    BY <1>5 DEF Forget, CacheClear, Sigterm, Exit, vars
  <1> QED
    BY <1>1, <1>2, <1>3, <1>4, <1>5, NextCases DEF Common

(***************************************************************************)
(* When fn lands, its result says what became of the call it made.         *)
(***************************************************************************)
LEMMA EndedStep ==
  ASSUME IInv, SF!IInv, [Next]_vars
  PROVE  CallEnded'
  <1> USE DEF IInv, TypeOK, PCs, Over, sfvars, ends, Located, CallRuns, CallNone, CallEnded,
              SF!TypeOK, SF!IInv, SF!Bound, SF!LandedDefined, SF!Call, Served
  <1>1. ASSUME NEW r \in Requests, Head(r) PROVE CallEnded'
    BY <1>1
       DEF Head, Arrive, Reject, Hit, Miss, RecogniseOk, RecogniseFails, Replayed, Go, Fail,
           Finish, RecordHistory
  <1>2. ASSUME NEW r \in Requests, NonStream(r) PROVE CallEnded'
    <2>1. CASE Enter(r)
      BY <2>1 DEF Enter, SF!Join, SF!Lead
    <2>2. CASE FetchOk(r)
      BY BodyServed, <2>2 DEF FetchOk, SF!FnReturns, SF!Land, Put
    <2>3. CASE FetchFails(r)
      BY <2>3 DEF FetchFails, SF!FnFails, SF!FnPanics, SF!Land
    <2>4. CASE DoStep(r)
      BY <2>4 DEF DoStep, SF!Signal, SF!Unlink, SF!Wake
    <2>5. CASE Answer(r)
      BY <2>5 DEF Answer, Fail, Finish, RecordHistory
    <2>6. CASE Direct(r) \/ DirectOk(r) \/ DirectFails(r)
      BY <2>6 DEF Direct, DirectOk, DirectFails, Go, Fail, Finish, RecordHistory
    <2> QED
      BY <1>2, <2>1, <2>2, <2>3, <2>4, <2>5, <2>6 DEF NonStream
  <1>3. ASSUME NEW r \in Requests, Stream(r) PROVE CallEnded'
    BY <1>3
       DEF Stream, OpenFails, OpenOk, StreamLine, StreamLineGone, StreamEof, StreamBreaks,
           Reading, Put, Go, Fail, Finish, RecordHistory
  <1>4. ASSUME NEW r \in Requests, WriteRow(r) \/ RowFails(r) \/ ClientLeaves(r) PROVE CallEnded'
    BY <1>4 DEF WriteRow, RowFails, RowEnds, ClientLeaves
  <1>5. ASSUME (\E k \in Keys : Forget(k)) \/ CacheClear \/ Sigterm \/ Exit \/ UNCHANGED vars
        PROVE  CallEnded'
    BY <1>5 DEF Forget, CacheClear, Sigterm, Exit, vars
  <1> QED
    BY <1>1, <1>2, <1>3, <1>4, <1>5, NextCases DEF Common

(***************************************************************************)
(* Only a request whose own client left can end as cancelled: flights do   *)
(* not fail that way.                                                      *)
(***************************************************************************)
LEMMA LeaverStep ==
  ASSUME IInv, SF!IInv, [Next]_vars
  PROVE  LeaverHarmsNobody'
  <1> USE DEF IInv, TypeOK, PCs, Over, sfvars, ends, Located, CallEnded, FlightErrors,
              LeaverHarmsNobody, SF!TypeOK, SF!IInv, Causes
  <1>1. ASSUME NEW r \in Requests, Head(r) PROVE LeaverHarmsNobody'
    BY NamesAssumption, <1>1
       DEF Head, Arrive, Reject, Hit, Miss, RecogniseOk, RecogniseFails, Replayed, Go, Fail,
           Finish, RecordHistory
  <1>2. ASSUME NEW r \in Requests, NonStream(r) PROVE LeaverHarmsNobody'
    <2>1. CASE Enter(r)
      BY <2>1 DEF Enter, SF!Join, SF!Lead
    <2>2. CASE FetchOk(r)
      BY <2>2 DEF FetchOk, SF!FnReturns, SF!Land, Put
    <2>3. CASE FetchFails(r)
      BY <2>3 DEF FetchFails, SF!FnFails, SF!FnPanics, SF!Land
    <2>4. CASE DoStep(r)
      BY <2>4 DEF DoStep, SF!Signal, SF!Unlink, SF!Wake
    <2>5. CASE Answer(r)
      BY NamesAssumption, FlightOutcome, <2>5 DEF Answer, Fail, Finish, RecordHistory
    <2>6. CASE Direct(r) \/ DirectOk(r) \/ DirectFails(r)
      BY NamesAssumption, <2>6 DEF Direct, DirectOk, DirectFails, Go, Fail, Finish, RecordHistory
    <2> QED
      BY <1>2, <2>1, <2>2, <2>3, <2>4, <2>5, <2>6 DEF NonStream
  <1>3. ASSUME NEW r \in Requests, Stream(r) PROVE LeaverHarmsNobody'
    BY NamesAssumption, <1>3
       DEF Stream, OpenFails, OpenOk, StreamLine, StreamLineGone, StreamEof, StreamBreaks,
           Reading, Put, Go, Fail, Finish, RecordHistory
  <1>4. ASSUME NEW r \in Requests, WriteRow(r) \/ RowFails(r) \/ ClientLeaves(r)
        PROVE  LeaverHarmsNobody'
    BY <1>4 DEF WriteRow, RowFails, RowEnds, ClientLeaves
  <1>5. ASSUME (\E k \in Keys : Forget(k)) \/ CacheClear \/ Sigterm \/ Exit \/ UNCHANGED vars
        PROVE  LeaverHarmsNobody'
    BY <1>5 DEF Forget, CacheClear, Sigterm, Exit, vars
  <1> QED
    BY <1>1, <1>2, <1>3, <1>4, <1>5, NextCases DEF Common

(***************************************************************************)
(* Only a call that ended well is put into the cache, under its own key,   *)
(* and it stays as it is while it is there.                                *)
(***************************************************************************)
LEMMA CachedStep ==
  ASSUME IInv, SF!IInv, [Next]_vars
  PROVE  CachedIsWhole'
  <1> USE DEF IInv, TypeOK, PCs, Over, sfvars, ends, Located, CallRuns, CallEnded, FlightErrors,
              CachedIsWhole, ImagesFirst, Served, Settled, Ended, SF!TypeOK, SF!IInv, Body,
              ResponsesBody, ChatBody, MessagesBody
  <1>1. ASSUME NEW r \in Requests, Head(r) PROVE CachedIsWhole'
    BY SettledStep, <1>1
       DEF Head, Arrive, Reject, Hit, Miss, RecogniseOk, RecogniseFails, Replayed, Go, Fail,
           Finish, RecordHistory
  <1>2. ASSUME NEW r \in Requests, NonStream(r) PROVE CachedIsWhole'
    <2>1. CASE Enter(r)
      BY SettledStep, <2>1 DEF Enter, SF!Join, SF!Lead
    <2>2. CASE FetchOk(r)
      BY SettledStep, KeysAssumption, NamesAssumption, <2>2 DEF FetchOk, SF!FnReturns, SF!Land, Put
    <2>3. CASE FetchFails(r)
      BY SettledStep, <2>3
         DEF FetchFails, SF!FnFails, SF!FnPanics, SF!Land
    <2>4. CASE DoStep(r)
      BY SettledStep, <2>4
         DEF DoStep, SF!Signal, SF!Unlink, SF!Wake
    <2>5. CASE Answer(r)
      BY SettledStep, <2>5 DEF Answer, Fail, Finish, RecordHistory
    <2>6. CASE Direct(r) \/ DirectOk(r) \/ DirectFails(r)
      BY SettledStep, <2>6
         DEF Direct, DirectOk, DirectFails, Go, Fail, Finish, RecordHistory
    <2> QED
      BY <1>2, <2>1, <2>2, <2>3, <2>4, <2>5, <2>6 DEF NonStream
  <1>3. ASSUME NEW r \in Requests, Stream(r) PROVE CachedIsWhole'
    BY SettledStep, <1>3
       DEF Stream, OpenFails, OpenOk, StreamLine, StreamLineGone, StreamEof, StreamBreaks,
           Reading, Put, Go, Fail, Finish, RecordHistory
  <1>4. ASSUME NEW r \in Requests, WriteRow(r) \/ RowFails(r) \/ ClientLeaves(r)
        PROVE  CachedIsWhole'
    BY SettledStep, <1>4
       DEF WriteRow, RowFails, RowEnds, ClientLeaves
  <1>5. ASSUME (\E k \in Keys : Forget(k)) \/ CacheClear \/ Sigterm \/ Exit \/ UNCHANGED vars
        PROVE  CachedIsWhole'
    BY SettledStep, <1>5
       DEF Forget, CacheClear, Sigterm, Exit, vars
  <1> QED
    BY <1>1, <1>2, <1>3, <1>4, <1>5, NextCases DEF Common

(***************************************************************************)
(* A request has one of the keys.                                          *)
(***************************************************************************)
LEMMA KeyTyped ==
  ASSUME SF!TypeOK, NEW r \in Requests
  PROVE  key[r] \in Keys
  BY DEF SF!TypeOK

(***************************************************************************)
(* Finishing with a well typed answer keeps the types.                     *)
(***************************************************************************)
LEMMA FinishTypes ==
  ASSUME TypeOK, NEW r \in Requests, NEW success \in BOOLEAN, NEW hit \in BOOLEAN,
         NEW answer \in Requests \cup Causes \cup {Nil}, Finish(r, answer, success, hit)
  PROVE  /\ pc' \in [Requests -> PCs]
         /\ reply' \in [Requests -> Requests \cup Causes \cup {Nil}]
         /\ row' \in [Requests -> Row \cup {Nil}]
         /\ hist' \in [Requests -> {"none", "queued", "written", "failed"}]
  BY DEF TypeOK, Finish, RecordHistory, Row, PCs

(***************************************************************************)
(* Steps keep the state well typed.                                        *)
(***************************************************************************)
LEMMA TypeStep ==
  ASSUME IInv, SF!IInv, SF!TypeOK', [Next]_vars
  PROVE  TypeOK'
  <1> USE DEF IInv, TypeOK, PCs, Go, sfvars, ends, FlightErrors, Causes
  <1>0. TypeOK
    OBVIOUS
  <1>1. ASSUME NEW r \in Requests, Head(r) PROVE TypeOK'
    <2>1. CASE Arrive(r) \/ Reject(r) \/ Miss(r) \/ RecogniseOk(r)
      BY <2>1 DEF Arrive, Reject, Miss, RecogniseOk
    <2>2. CASE Hit(r)
      <3>1. Finish(r, Replayed(r), TRUE, TRUE) /\ Replayed(r) \in Requests \cup Causes \cup {Nil}
        BY <2>2, KeyTyped DEF Hit, Replayed
      <3> QED
        BY <1>0, <2>2, <3>1, FinishTypes DEF Hit
    <2>3. CASE RecogniseFails(r)
      <3>1. Finish(r, "image", FALSE, FALSE)
        BY <2>3 DEF RecogniseFails, Fail
      <3> QED
        BY <1>0, <2>3, <3>1, FinishTypes DEF RecogniseFails
    <2> QED
      BY <1>1, <2>1, <2>2, <2>3 DEF Head
  <1>2. ASSUME NEW r \in Requests, NonStream(r) PROVE TypeOK'
    <2>1. CASE Enter(r) \/ Direct(r)
      BY <2>1 DEF Enter, Direct
    <2>2. CASE FetchOk(r)
      <3>1. PICK body \in Body(key[r]) : up' = [up EXCEPT ![r] = body]
        BY <2>2 DEF FetchOk
      <3> QED
        BY <2>2, <3>1, BodyServed DEF FetchOk, Put
    <2>3. CASE FetchFails(r) \/ DoStep(r)
      BY <2>3 DEF FetchFails, DoStep
    <2>4. CASE Answer(r)
      <3>1. \E answer \in Requests \cup Causes \cup {Nil}, success \in BOOLEAN :
               Finish(r, answer, success, FALSE)
        BY <2>4, FlightOutcome DEF Answer, Fail
      <3> QED
        BY <1>0, <2>4, <3>1, FinishTypes DEF Answer
    <2>5. CASE DirectOk(r) \/ DirectFails(r)
      <3>1. PICK answer \in Requests \cup Causes \cup {Nil}, success \in BOOLEAN :
               Finish(r, answer, success, FALSE)
        BY <2>5 DEF DirectOk, DirectFails, Fail
      <3>2. PICK end \in {"complete", "truncated", "failed"} : up' = [up EXCEPT ![r] = end]
        <4>1. CASE DirectOk(r)
          <5>1. PICK body \in Body(key[r]) : up' = [up EXCEPT ![r] = body]
            BY <4>1 DEF DirectOk
          <5> QED
            BY <5>1, BodyServed
        <4>2. CASE DirectFails(r)
          BY <4>2 DEF DirectFails
        <4> QED
          BY <2>5, <4>1, <4>2
      <3>3. UNCHANGED <<sfvars, caching, stored, gone, img, phase>>
        BY <2>5 DEF DirectOk, DirectFails
      <3> QED
        BY <1>0, <3>1, <3>2, <3>3, FinishTypes
    <2> QED
      BY <1>2, <2>1, <2>2, <2>3, <2>4, <2>5 DEF NonStream
  <1>3. ASSUME NEW r \in Requests, Stream(r) PROVE TypeOK'
    <2>1. CASE OpenOk(r) \/ StreamLine(r)
      BY <2>1 DEF OpenOk, StreamLine, Reading
    <2>2. CASE OpenFails(r) \/ StreamLineGone(r) \/ StreamBreaks(r)
      <3>1. \E answer \in Causes : Finish(r, answer, FALSE, FALSE)
        BY <2>2 DEF OpenFails, StreamLineGone, StreamBreaks, Fail
      <3> QED
        BY <1>0, <2>2, <3>1, FinishTypes DEF OpenFails, StreamLineGone, StreamBreaks
    <2>3. CASE StreamEof(r)
      <3>1. stored' \in [Keys -> Requests \cup {Nil}]
        BY <2>3 DEF StreamEof, Put
      <3> QED
        BY <1>0, <2>3, <3>1, FinishTypes DEF StreamEof
    <2> QED
      BY <1>3, <2>1, <2>2, <2>3 DEF Stream
  <1>4. ASSUME NEW r \in Requests, WriteRow(r) \/ RowFails(r) \/ ClientLeaves(r) PROVE TypeOK'
    BY <1>4 DEF WriteRow, RowFails, RowEnds, ClientLeaves
  <1>5. ASSUME (\E k \in Keys : Forget(k)) \/ CacheClear \/ Sigterm \/ Exit \/ UNCHANGED vars
        PROVE  TypeOK'
    BY <1>5 DEF Forget, CacheClear, Sigterm, Exit, vars
  <1> QED
    BY <1>1, <1>2, <1>3, <1>4, <1>5, NextCases DEF Common

(***************************************************************************)
(* A request that finishes in this step leaves the others as they were.    *)
(***************************************************************************)
LEMMA FinishKeeps ==
  ASSUME IInv, SF!IInv, SF!TypeOK', Settled, UNCHANGED sfvars,
         NEW r \in Requests, pc[r] # "done",
         \A q \in Requests \ {r} : up'[q] = up[q] /\ img'[q] = img[q],
         NEW answer, NEW success \in BOOLEAN, NEW hit \in BOOLEAN,
         Finish(r, answer, success, hit), Outcome(r)'
  PROVE  AnswersMatchOutcome'
  <1> SUFFICES ASSUME NEW q \in Requests, pc'[q] = "done" PROVE Outcome(q)'
    BY DEF AnswersMatchOutcome
  <1>1. CASE q = r
    BY <1>1
  <1>2. CASE q # r
    <2>1. Kept(q)
      BY <1>2 DEF Kept, Finish, RecordHistory, IInv, TypeOK, AnswersMatchOutcome, Outcome, sfvars
    <2> QED
      BY <2>1, OutcomeKept
  <1> QED
    BY <1>1, <1>2

(***************************************************************************)
(* A success agrees with the response that was handed out.                 *)
(***************************************************************************)
LEMMA SuccessOutcome ==
  ASSUME TypeOK, NEW r \in Requests, NEW hit \in BOOLEAN, NEW answer,
         Finish(r, answer, TRUE, hit),
         hit => up'[r] = "none" /\ img'[r] = "none",
         \/ hit /\ answer = "broken"
         \/ answer \in Requests /\ key'[answer] = key'[r] /\ up'[answer] \in Served(answer)'
  PROVE  Outcome(r)'
  <1>1. row'[r] = [success |-> TRUE, hit |-> hit] /\ hist'[r] = "queued" /\ reply'[r] = answer
    BY DEF TypeOK, Finish, RecordHistory
  <1>2. row'[r] \in Row
    BY <1>1 DEF Row
  <1>3. row'[r] # Nil
    BY <1>2, NamesAssumption
  <1> QED
    BY <1>1, <1>3 DEF Outcome

(***************************************************************************)
(* A failure agrees with the images or the call that failed.               *)
(***************************************************************************)
LEMMA FailureOutcome ==
  ASSUME TypeOK, NEW r \in Requests, NEW cause \in Causes, Fail(r, cause),
         img'[r] = "failed" \/ up'[IF joined'[r] = Nil THEN r ELSE joined'[r]] = "failed"
  PROVE  Outcome(r)'
  <1>1. row'[r] = [success |-> FALSE, hit |-> FALSE] /\ hist'[r] = "queued" /\ reply'[r] = cause
    BY DEF TypeOK, Fail, Finish, RecordHistory
  <1>2. row'[r] \in Row
    BY <1>1 DEF Row
  <1>3. row'[r] # Nil
    BY <1>2, NamesAssumption
  <1> QED
    BY <1>1, <1>3 DEF Outcome

(***************************************************************************)
(* Whatever ends a request, its answer and its row agree with what became  *)
(* of its images and calls.                                                *)
(***************************************************************************)
LEMMA AnswersStep ==
  ASSUME IInv, SF!IInv, SF!TypeOK', [Next]_vars
  PROVE  AnswersMatchOutcome'
  <1> DEFINE Quiet == \A q \in Requests : pc'[q] = "done" => Kept(q)
  <1>0. Settled
    BY SettledStep
  <1>1. ASSUME Quiet PROVE AnswersMatchOutcome'
    BY <1>0, <1>1, OutcomeKept DEF AnswersMatchOutcome
  <1> USE DEF IInv, TypeOK, AnswersMatchOutcome, sfvars
  <1>2. ASSUME NEW r \in Requests, Head(r) PROVE AnswersMatchOutcome'
    <2>1. CASE Arrive(r) \/ Reject(r) \/ Miss(r) \/ RecogniseOk(r)
      <3>1. Quiet
        BY <2>1 DEF Arrive, Reject, Miss, RecogniseOk, Go, Kept, ends, Outcome
      <3> QED
        BY <1>1, <3>1
    <2>2. CASE Hit(r)
      <3>1. Outcome(r)'
        <4>1. /\ Replayed(r) = "broken" \/ Replayed(r) = stored[key[r]]
              /\ key[r] \in Keys /\ stored[key[r]] \in Requests
          BY <2>2, KeyTyped DEF Hit, Replayed
        <4>2. up'[r] = "none" /\ img'[r] = "none"
          BY <2>2, <1>0 DEF Hit, CallNone, ImagesFirst
        <4>3. PICK s \in Requests : s = stored[key[r]]
          BY <4>1
        <4>4. key'[s] = key'[r] /\ up'[s] \in Served(s)'
          BY <2>2, <4>1, <4>3, NamesAssumption DEF Hit, CachedIsWhole, Served
        <4> QED
          BY <2>2, <4>1, <4>2, <4>3, <4>4, SuccessOutcome DEF Hit
      <3> QED
        BY <1>0, <2>2, <3>1, FinishKeeps DEF Hit
    <2>3. CASE RecogniseFails(r)
      <3>1. Outcome(r)'
        BY <2>3, FailureOutcome DEF RecogniseFails, Causes
      <3>2. \A q \in Requests \ {r} : img'[q] = img[q]
        BY <2>3 DEF RecogniseFails
      <3> QED
        BY <1>0, <2>3, <3>1, <3>2, FinishKeeps DEF RecogniseFails, Fail
    <2> QED
      BY <1>2, <2>1, <2>2, <2>3 DEF Head
  <1>3. ASSUME NEW r \in Requests, NonStream(r) PROVE AnswersMatchOutcome'
    <2>1. CASE Enter(r) \/ Direct(r)
      <3>1. Quiet
        BY <2>1 DEF Enter, SF!Join, SF!Lead, SF!TypeOK, Direct, Go, Kept, ends, Outcome
      <3> QED
        BY <1>1, <3>1
    <2>2. CASE FetchOk(r) \/ FetchFails(r) \/ DoStep(r)
      <3>1. Quiet
        BY <2>2
           DEF FetchOk, FetchFails, SF!FnReturns, SF!FnFails, SF!FnPanics, SF!Land, DoStep,
               SF!Signal, SF!Unlink, SF!Wake, Kept, ends, Outcome
      <3> QED
        BY <1>1, <3>1
    <2>3. CASE Answer(r)
      <3>1. Outcome(r)'
        <4>1. CASE got[r].err # Nil
          <5>1. /\ Fail(r, got[r].err) /\ got[r].err \in Causes
                /\ joined[r] \in Requests /\ up[joined[r]] = "failed"
            BY <2>3, <4>1, FlightOutcome DEF Answer, FlightErrors, Causes
          <5>2. joined'[r] # Nil /\ up'[joined'[r]] = "failed"
            BY <2>3, <5>1, NamesAssumption DEF Answer
          <5> QED
            BY <5>1, <5>2, FailureOutcome
        <4>2. CASE got[r].err = Nil
          <5>1. PICK s \in Requests : /\ Finish(r, s, TRUE, FALSE)
                                     /\ key[s] = key[r] /\ up[s] \in Served(s)
            BY <2>3, <4>2, FlightOutcome DEF Answer
          <5>2. key'[s] = key'[r] /\ up'[s] \in Served(s)'
            BY <2>3, <5>1 DEF Answer, Served
          <5> QED
            BY <5>1, <5>2, SuccessOutcome
        <4> QED
          BY <4>1, <4>2
      <3> QED
        BY <1>0, <2>3, <3>1, FinishKeeps DEF Answer, Fail
    <2>4. CASE DirectOk(r)
      <3>1. Outcome(r)'
        <4>1. PICK body \in Body(key[r]) : up' = [up EXCEPT ![r] = body]
          BY <2>4 DEF DirectOk
        <4>2. up'[r] \in Served(r)'
          BY <2>4, <4>1, BodyServed DEF DirectOk, Served
        <4> QED
          BY <2>4, <4>2, SuccessOutcome DEF DirectOk
      <3> QED
        BY <1>0, <2>4, <3>1, FinishKeeps DEF DirectOk
    <2>5. CASE DirectFails(r)
      <3>1. Outcome(r)'
        <4>1. PICK e \in FlightErrors \cup {"canceled"} : Fail(r, e)
          BY <2>5 DEF DirectFails
        <4>2. joined'[r] = Nil /\ up'[r] = "failed"
          BY <2>5 DEF DirectFails, Located
        <4> QED
          BY <4>1, <4>2, FailureOutcome DEF FlightErrors, Causes
      <3> QED
        BY <1>0, <2>5, <3>1, FinishKeeps DEF DirectFails, Fail
    <2> QED
      BY <1>3, <2>1, <2>2, <2>3, <2>4, <2>5 DEF NonStream
  <1>4. ASSUME NEW r \in Requests, Stream(r) PROVE AnswersMatchOutcome'
    <2>1. CASE OpenOk(r) \/ StreamLine(r)
      <3>1. Quiet
        BY <2>1 DEF OpenOk, StreamLine, Reading, Go, Kept, ends, Outcome
      <3> QED
        BY <1>1, <3>1
    <2>2. CASE OpenFails(r) \/ StreamLineGone(r) \/ StreamBreaks(r)
      <3>1. Outcome(r)'
        <4>1. PICK e \in Causes : Fail(r, e)
          BY <2>2 DEF OpenFails, StreamLineGone, StreamBreaks, Causes
        <4>2. joined'[r] = Nil /\ up'[r] = "failed"
          BY <2>2 DEF OpenFails, StreamLineGone, StreamBreaks, Reading, Located
        <4> QED
          BY <4>1, <4>2, FailureOutcome
      <3> QED
        BY <1>0, <2>2, <3>1, FinishKeeps DEF OpenFails, StreamLineGone, StreamBreaks, Reading, Fail
    <2>3. CASE StreamEof(r)
      <3>1. Outcome(r)'
        <4>1. up'[r] \in Served(r)'
          BY <2>3 DEF StreamEof, Served
        <4> QED
          BY <2>3, <4>1, SuccessOutcome DEF StreamEof
      <3> QED
        BY <1>0, <2>3, <3>1, FinishKeeps DEF StreamEof, Reading
    <2> QED
      BY <1>4, <2>1, <2>2, <2>3 DEF Stream
  <1>5. ASSUME NEW r \in Requests, WriteRow(r) \/ RowFails(r) \/ ClientLeaves(r)
        PROVE  AnswersMatchOutcome'
    <2>1. Quiet
      BY <1>5 DEF WriteRow, RowFails, RowEnds, ClientLeaves, Kept, ends, Outcome
    <2> QED
      BY <1>1, <2>1
  <1>6. ASSUME (\E k \in Keys : Forget(k)) \/ CacheClear \/ Sigterm \/ Exit \/ UNCHANGED vars
        PROVE  AnswersMatchOutcome'
    <2>1. Quiet
      BY <1>6 DEF Forget, CacheClear, Sigterm, Exit, vars, Kept, ends, Outcome
    <2> QED
      BY <1>1, <2>1
  <1> QED
    BY <1>2, <1>3, <1>4, <1>5, <1>6, NextCases DEF Common

-----------------------------------------------------------------------------

(***************************************************************************)
(* At the start nothing is under way.                                      *)
(***************************************************************************)
LEMMA InitIInv == Init /\ SF!IInv => IInv
  BY NamesAssumption
     DEF Init, SF!Init, SF!IInv, IInv, TypeOK, PCs, Located, CallRuns, CallEnded, CallNone,
         ImagesFirst, CachedIsWhole, AnswersMatchOutcome, LeaverHarmsNobody, NoDowngrade, Causes

(***************************************************************************)
(* The places, calls, images, flights, answers and the cache of the        *)
(* gateway agree between any two steps (IInv), for any number of requests  *)
(* and keys.                                                               *)
(***************************************************************************)
THEOREM Invariance == Spec => []IInv
  <1>1. Init /\ SF!IInv => IInv
    BY InitIInv
  <1>2. IInv /\ SF!IInv /\ SF!IInv' /\ [Next]_vars => IInv'
    <2> SUFFICES ASSUME IInv, SF!IInv, SF!TypeOK', [Next]_vars PROVE IInv'
      BY DEF SF!IInv
    <2> QED
      BY TypeStep, LocatedStep, CallRunsStep, EndedStep, CallNoneStep, ImagesStep, CachedStep,
         AnswersStep, LeaverStep
         DEF IInv
  <1> QED
    BY FlightsInvariant, <1>1, <1>2, PTL DEF Spec

(***************************************************************************)
(* Every request gets and records one outcome, that of its own images,     *)
(* its own call or the call it shared (AnswersMatchOutcome).               *)
(***************************************************************************)
THEOREM AnswersRight == Spec => []AnswersMatchOutcome
  <1>1. IInv => AnswersMatchOutcome
    BY DEF IInv
  <1> QED
    BY Invariance, <1>1, PTL

(***************************************************************************)
(* The cache holds whole responses under their own keys only               *)
(* (CachedIsWhole).                                                        *)
(***************************************************************************)
THEOREM CacheRight == Spec => []CachedIsWhole
  <1>1. IInv => CachedIsWhole
    BY DEF IInv
  <1> QED
    BY Invariance, <1>1, PTL

(***************************************************************************)
(* No client is told of a cancellation it did not cause                    *)
(* (LeaverHarmsNobody).                                                    *)
(***************************************************************************)
THEOREM LeaversHarmless == Spec => []LeaverHarmsNobody
  <1>1. IInv => LeaverHarmsNobody
    BY DEF IInv
  <1> QED
    BY Invariance, <1>1, PTL

(***************************************************************************)
(* The main model is never asked without the images (NoDowngrade).         *)
(***************************************************************************)
THEOREM NeverDowngraded == Spec => []NoDowngrade
  <1>1. IInv => NoDowngrade
    BY DEF IInv
  <1> QED
    BY Invariance, <1>1, PTL

(***************************************************************************)
(* For one key, at most one call of the main model runs at a time          *)
(* (OneCallAtATime).                                                       *)
(***************************************************************************)
THEOREM OneCall == Spec => []OneCallAtATime
  <1>1. IInv /\ SF!IInv => OneCallAtATime
    <2> SUFFICES ASSUME IInv, SF!IInv, caching, NEW r \in Requests, NEW s \in Requests,
                        up[r] = "calling", up[s] = "calling", key[r] = key[s],
                        key[r] \notin StreamKeys
                 PROVE  r = s
      BY DEF OneCallAtATime
    <2>1. at[r] = "fn" /\ at[s] = "fn"
      BY DEF IInv, CallRuns, Located
    <2> QED
      BY <2>1 DEF SF!IInv, SF!LeaderRegistered, SF!Leading
  <1> QED
    BY Invariance, FlightsInvariant, <1>1, PTL
=============================================================================
