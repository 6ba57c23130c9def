------------------------------- MODULE Gateway -------------------------------
(***************************************************************************)
(* The three proxy handlers (internal/proxy: responses.go, chat.go,        *)
(* messages.go) at work on shared state: the response cache, the flights   *)
(* of cache.Do, the history and the process itself, while clients leave    *)
(* and the process is told to stop.                                        *)
(*                                                                         *)
(* A request is one run of a handler.  The fingerprint behind the cache    *)
(* key covers the endpoint, the stream flag and the content, so these are  *)
(* properties of the key.  A response is named by the request whose call   *)
(* of the main model produced it.  The cache is the one of CacheContract,  *)
(* which LruCache implements; cache.Do is the module SingleFlight.         *)
(***************************************************************************)
EXTENDS FiniteSets

CONSTANTS
    Requests,
    Keys,           \* cache keys
    ResponsesKeys, ChatKeys, MessagesKeys,  \* the keys of each endpoint
    StreamKeys,     \* keys of requests with "stream": true
    ImageKeys,      \* keys of requests with images
    Nil,
    MayForget,      \* whether entries are evicted, expire or are cleared
    MayShutdown     \* whether the process receives SIGTERM

ASSUME KeysAssumption ==
    /\ Keys = ResponsesKeys \cup ChatKeys \cup MessagesKeys
    /\ StreamKeys \subseteq Keys /\ ImageKeys \subseteq Keys
    /\ MayForget \in BOOLEAN /\ MayShutdown \in BOOLEAN

VARIABLES
    at, key, flights, joined, call, got,    \* of SingleFlight
    caching,    \* cache.Enabled(): FCI_CACHE_ENABLED, read once by cache.Init
    pc,         \* where in its handler the request is
    stored,     \* the cache: whose response a lookup of the key would answer
    gone,       \* the client has left: the request's context is cancelled
    img,        \* what became of the request's image recognition
    up,         \* what became of the request's own call of the main model
    reply,      \* what was sent: a response, or the cause of the failure
    row,        \* the outcome handed to recordHistory
    hist,       \* what became of the history row
    phase       \* of the process

\* Mutated form of FlightErrors: fn runs under the context of the leader's client.
FlightErrorsOfClient == {"status", "neterr", "canceled"}

\* How a flight can fail.  Its context is context.Background with a timeout, so a
\* client that leaves does not fail it.
FlightErrors == {"status", "neterr"}

SF == INSTANCE SingleFlight WITH
    Callers <- Requests, Vals <- Requests, Errs <- FlightErrors, ErrPanic <- "panic"

sfvars == <<at, key, flights, joined, call, got>>
ends == <<reply, row, hist>>
vars == <<sfvars, caching, pc, stored, gone, img, up, ends, phase>>

PCs == {"new", "get", "images", "main", "do", "direct", "opened", "flowing", "done", "rejected"}
Over == {"done", "rejected"}
Causes == {"status", "neterr", "panic", "canceled", "image", "broken"}
Row == [success : BOOLEAN, hit : BOOLEAN]

ASSUME NamesAssumption ==
    /\ Nil \notin Requests \cup Causes /\ Nil \notin Row
    /\ Requests \cap Causes = {}

TypeOK ==
    /\ SF!TypeOK
    /\ caching \in BOOLEAN
    /\ pc \in [Requests -> PCs]
    /\ stored \in [Keys -> Requests \cup {Nil}]
    /\ gone \in [Requests -> BOOLEAN]
    /\ img \in [Requests -> {"none", "ok", "failed"}]
    /\ up \in [Requests -> {"none", "calling", "complete", "truncated", "failed"}]
    /\ reply \in [Requests -> Requests \cup Causes \cup {Nil}]
    /\ row \in [Requests -> Row \cup {Nil}]
    /\ hist \in [Requests -> {"none", "queued", "written", "failed"}]
    /\ phase \in {"up", "draining", "exited"}

Init ==
    /\ SF!Init
    /\ caching \in BOOLEAN
    /\ pc = [r \in Requests |-> "new"]
    /\ stored = [k \in Keys |-> Nil]
    /\ gone = [r \in Requests |-> FALSE]
    /\ img = [r \in Requests |-> "none"]
    /\ up = [r \in Requests |-> "none"]
    /\ reply = [r \in Requests |-> Nil]
    /\ row = [r \in Requests |-> Nil]
    /\ hist = [r \in Requests |-> "none"]
    /\ phase = "up"

-----------------------------------------------------------------------------
(* Steps the handlers have in common.                                      *)

\* A process that has exited takes no step.
Alive == phase # "exited"

Go(r, from, to) == pc[r] = from /\ pc' = [pc EXCEPT ![r] = to]

\* Mutated form of RecordHistory: failures are not written.
RecordSuccess(r, success, hit) ==
    /\ row' = [row EXCEPT ![r] = [success |-> success, hit |-> hit]]
    /\ hist' = IF success THEN [hist EXCEPT ![r] = "queued"] ELSE hist

\* recordHistory starts a goroutine that will write the row.
RecordHistory(r, success, hit) ==
    /\ row' = [row EXCEPT ![r] = [success |-> success, hit |-> hit]]
    /\ hist' = [hist EXCEPT ![r] = "queued"]

\* The handler sends its answer, records it and returns.
Finish(r, answer, success, hit) ==
    /\ pc' = [pc EXCEPT ![r] = "done"]
    /\ reply' = [reply EXCEPT ![r] = answer]
    /\ RecordHistory(r, success, hit)

Fail(r, cause) == Finish(r, cause, FALSE, FALSE)

\* Both Put functions; they do nothing in a disabled cache.
Put(r) == stored' = IF caching THEN [stored EXCEPT ![key[r]] = r] ELSE stored

-----------------------------------------------------------------------------
(* Up to the dispatch: the head of the handler, the lookup, the images.    *)

\* A new connection, while the listener is open.
Arrive(r) ==
    /\ phase = "up"
    /\ Go(r, "new", "get")
    /\ UNCHANGED <<sfvars, caching, stored, gone, img, up, ends, phase>>

\* Bad JSON, no model, an unknown or disabled group: answered without a history row.
Reject(r) ==
    /\ phase = "up"
    /\ Go(r, "new", "rejected")
    /\ UNCHANGED <<sfvars, caching, stored, gone, img, up, ends, phase>>

\* replayCacheEntry: events are sent until the client is found to be gone.
Replayed(r) == IF key[r] \in StreamKeys /\ gone[r] THEN "broken" ELSE stored[key[r]]

Hit(r) ==
    /\ pc[r] = "get"
    /\ stored[key[r]] # Nil
    /\ Finish(r, Replayed(r), TRUE, TRUE)
    /\ UNCHANGED <<sfvars, caching, stored, gone, img, up, phase>>

\* Also the way of every request when the cache is disabled: nothing is stored then.
Miss(r) ==
    /\ stored[key[r]] = Nil
    /\ Go(r, "get", IF key[r] \in ImageKeys THEN "images" ELSE "main")
    /\ UNCHANGED <<sfvars, caching, stored, gone, img, up, ends, phase>>

RecogniseOk(r) ==
    /\ Go(r, "images", "main")
    /\ img' = [img EXCEPT ![r] = "ok"]
    /\ UNCHANGED <<sfvars, caching, stored, gone, up, ends, phase>>

\* Mutated form of RecogniseFails: the main model is called without the images.
RecogniseFailsOver(r) ==
    /\ Go(r, "images", "main")
    /\ img' = [img EXCEPT ![r] = "failed"]
    /\ UNCHANGED <<sfvars, caching, stored, gone, up, ends, phase>>

RecogniseFails(r) ==
    /\ pc[r] = "images"
    /\ img' = [img EXCEPT ![r] = "failed"]
    /\ Fail(r, "image")
    /\ UNCHANGED <<sfvars, caching, stored, gone, up, phase>>

Head(r) == Arrive(r) \/ Reject(r) \/ Hit(r) \/ Miss(r) \/ RecogniseOk(r) \/ RecogniseFails(r)

-----------------------------------------------------------------------------
(* handle*NonStream with the cache enabled: cache.Do around the fetch.     *)

\* The call of the main model starts when Do makes the request a leader.
Enter(r) ==
    /\ pc[r] = "main" /\ key[r] \notin StreamKeys /\ caching
    /\ pc' = [pc EXCEPT ![r] = "do"]
    /\ \/ SF!Join(r) /\ UNCHANGED up
       \/ SF!Lead(r) /\ up' = [up EXCEPT ![r] = "calling"]
    /\ UNCHANGED <<caching, stored, gone, img, ends, phase>>

\* What a fetch can take for the response: only the responses endpoint reads a body
\* through a LimitReader, and it does not notice that the limit was reached.
ResponsesBody == {"complete", "truncated"}
ChatBody == {"complete"}
MessagesBody == {"complete"}
Body(k) == UNION {IF k \in ResponsesKeys THEN ResponsesBody ELSE {},
                  IF k \in ChatKeys THEN ChatBody ELSE {},
                  IF k \in MessagesKeys THEN MessagesBody ELSE {}}

FetchOk(r) ==
    /\ up[r] = "calling" /\ pc[r] = "do"
    /\ SF!FnReturns(r, r)
    /\ \E body \in Body(key[r]) : up' = [up EXCEPT ![r] = body]
    /\ Put(r)
    /\ UNCHANGED <<caching, pc, gone, img, ends, phase>>

FetchFails(r) ==
    /\ up[r] = "calling" /\ pc[r] = "do"
    /\ \/ \E e \in FlightErrors : SF!FnFails(r, e) /\ (e = "canceled" => gone[r])
       \/ SF!FnPanics(r)
    /\ up' = [up EXCEPT ![r] = "failed"]
    /\ UNCHANGED <<caching, pc, stored, gone, img, ends, phase>>

\* The steps of Do that touch nothing but the call.
DoStep(r) ==
    /\ pc[r] = "do"
    /\ SF!Signal(r) \/ SF!Unlink(r) \/ SF!Wake(r)
    /\ UNCHANGED <<caching, pc, stored, gone, img, up, ends, phase>>

\* Mutated form of Answer: only the leader looks at the error.
AnswerUnchecked(r) ==
    /\ pc[r] = "do" /\ at[r] = "out"
    /\ \/ got[r].err # Nil /\ joined[r] = r /\ Fail(r, got[r].err)
       \/ ~(got[r].err # Nil /\ joined[r] = r) /\ Finish(r, got[r].val, TRUE, FALSE)
    /\ UNCHANGED <<sfvars, caching, stored, gone, img, up, phase>>

Answer(r) ==
    /\ pc[r] = "do" /\ at[r] = "out"
    /\ \/ got[r].err # Nil /\ Fail(r, got[r].err)
       \/ got[r].err = Nil /\ Finish(r, got[r].val, TRUE, FALSE)
    /\ UNCHANGED <<sfvars, caching, stored, gone, img, up, phase>>

-----------------------------------------------------------------------------
(* handle*NonStream with the cache disabled: the fetch runs under the      *)
(* request's own context.                                                  *)

Direct(r) ==
    /\ key[r] \notin StreamKeys /\ ~caching
    /\ Go(r, "main", "direct")
    /\ up' = [up EXCEPT ![r] = "calling"]
    /\ UNCHANGED <<sfvars, caching, stored, gone, img, ends, phase>>

DirectOk(r) ==
    /\ pc[r] = "direct"
    /\ \E body \in Body(key[r]) : up' = [up EXCEPT ![r] = body]
    /\ Finish(r, r, TRUE, FALSE)
    /\ UNCHANGED <<sfvars, caching, stored, gone, img, phase>>

DirectFails(r) ==
    /\ pc[r] = "direct"
    /\ up' = [up EXCEPT ![r] = "failed"]
    /\ \E e \in FlightErrors \cup {"canceled"} : (e = "canceled" => gone[r]) /\ Fail(r, e)
    /\ UNCHANGED <<sfvars, caching, stored, gone, img, phase>>

NonStream(r) ==
    \/ Enter(r) \/ FetchOk(r) \/ FetchFails(r) \/ DoStep(r) \/ Answer(r)
    \/ Direct(r) \/ DirectOk(r) \/ DirectFails(r)

-----------------------------------------------------------------------------
(* handle*Stream: lines are passed on and collected under the request's    *)
(* context.  A request is "opened" before the first line, then "flowing".  *)

OpenFails(r) ==
    /\ pc[r] = "main" /\ key[r] \in StreamKeys
    /\ up' = [up EXCEPT ![r] = "failed"]
    /\ \E e \in {"status", "neterr", "canceled"} : (e = "canceled" => gone[r]) /\ Fail(r, e)
    /\ UNCHANGED <<sfvars, caching, stored, gone, img, phase>>

OpenOk(r) ==
    /\ key[r] \in StreamKeys
    /\ Go(r, "main", "opened")
    /\ up' = [up EXCEPT ![r] = "calling"]
    /\ UNCHANGED <<sfvars, caching, stored, gone, img, ends, phase>>

Reading(r) == pc[r] \in {"opened", "flowing"}

StreamLine(r) ==
    /\ Reading(r) /\ ~gone[r]
    /\ pc' = [pc EXCEPT ![r] = "flowing"]
    /\ UNCHANGED <<sfvars, caching, stored, gone, img, up, ends, phase>>

\* Mutated form of StreamLineGone: what was collected so far is stored.
StreamLineGoneStored(r) ==
    /\ Reading(r) /\ gone[r]
    /\ up' = [up EXCEPT ![r] = "failed"]
    /\ Put(r)
    /\ Fail(r, "broken")
    /\ UNCHANGED <<sfvars, caching, gone, img, phase>>

\* clientGone after a line ends the loop.
StreamLineGone(r) ==
    /\ Reading(r) /\ gone[r]
    /\ up' = [up EXCEPT ![r] = "failed"]
    /\ Fail(r, "broken")
    /\ UNCHANGED <<sfvars, caching, stored, gone, img, phase>>

\* Any end of the body is a success, also when the client left after the last line;
\* a stream without a line is not stored.
StreamEof(r) ==
    /\ Reading(r)
    /\ up' = [up EXCEPT ![r] = "complete"]
    /\ IF pc[r] = "flowing" THEN Put(r) ELSE UNCHANGED stored
    /\ Finish(r, r, TRUE, FALSE)
    /\ UNCHANGED <<sfvars, caching, gone, img, phase>>

\* Mutated form of StreamBreaks: a read error is taken for the end of the body.
StreamBreaksUnseen(r) ==
    /\ Reading(r)
    /\ up' = [up EXCEPT ![r] = "failed"]
    /\ Put(r)
    /\ Finish(r, r, TRUE, FALSE)
    /\ UNCHANGED <<sfvars, caching, gone, img, phase>>

StreamBreaks(r) ==
    /\ Reading(r)
    /\ up' = [up EXCEPT ![r] = "failed"]
    /\ Fail(r, "broken")
    /\ UNCHANGED <<sfvars, caching, stored, gone, img, phase>>

Stream(r) ==
    \/ OpenFails(r) \/ OpenOk(r) \/ StreamLine(r) \/ StreamLineGone(r)
    \/ StreamEof(r) \/ StreamBreaks(r)

-----------------------------------------------------------------------------
(* The handlers of the three endpoints share this control flow.            *)

HandleResponses(r) == Alive /\ key[r] \in ResponsesKeys /\ Head(r)
ResponsesNonStream(r) == Alive /\ key[r] \in ResponsesKeys /\ NonStream(r)
ResponsesStream(r) == Alive /\ key[r] \in ResponsesKeys /\ Stream(r)
HandleChat(r) == Alive /\ key[r] \in ChatKeys /\ Head(r)
ChatNonStream(r) == Alive /\ key[r] \in ChatKeys /\ NonStream(r)
ChatStream(r) == Alive /\ key[r] \in ChatKeys /\ Stream(r)
HandleMessages(r) == Alive /\ key[r] \in MessagesKeys /\ Head(r)
MessagesNonStream(r) == Alive /\ key[r] \in MessagesKeys /\ NonStream(r)
MessagesStream(r) == Alive /\ key[r] \in MessagesKeys /\ Stream(r)

-----------------------------------------------------------------------------
(* The goroutine of recordHistory, the clients, the cache and the process. *)

RowEnds(r, end) ==
    /\ Alive /\ hist[r] = "queued"
    /\ hist' = [hist EXCEPT ![r] = end]
    /\ UNCHANGED <<sfvars, caching, pc, stored, gone, img, up, reply, row, phase>>

WriteRow(r) == RowEnds(r, "written")
RowFails(r) == RowEnds(r, "failed")

ClientLeaves(r) ==
    /\ Alive /\ pc[r] \notin Over \cup {"new"} /\ ~gone[r]
    /\ gone' = [gone EXCEPT ![r] = TRUE]
    /\ UNCHANGED <<sfvars, caching, pc, stored, img, up, ends, phase>>

\* Eviction and expiry.
Forget(k) ==
    /\ Alive /\ MayForget /\ stored[k] # Nil
    /\ stored' = [stored EXCEPT ![k] = Nil]
    /\ UNCHANGED <<sfvars, caching, pc, gone, img, up, ends, phase>>

\* An administrator empties the cache; the responses on their way are stored after it.
CacheClear ==
    /\ Alive /\ MayForget
    /\ stored' = [k \in Keys |-> Nil]
    /\ UNCHANGED <<sfvars, caching, pc, gone, img, up, ends, phase>>

Sigterm ==
    /\ MayShutdown /\ phase = "up"
    /\ phase' = "draining"
    /\ UNCHANGED <<sfvars, caching, pc, stored, gone, img, up, ends>>

\* Shutdown returns when the handlers are done or after 30 seconds; main returns then.
Exit ==
    /\ phase = "draining"
    /\ phase' = "exited"
    /\ UNCHANGED <<sfvars, caching, pc, stored, gone, img, up, ends>>

Terminated ==
    /\ phase = "exited" \/ \A r \in Requests : pc[r] \in Over /\ hist[r] # "queued"
    /\ UNCHANGED vars

Next ==
    \/ \E r \in Requests :
        \/ HandleResponses(r) \/ ResponsesNonStream(r) \/ ResponsesStream(r)
        \/ HandleChat(r) \/ ChatNonStream(r) \/ ChatStream(r)
        \/ HandleMessages(r) \/ MessagesNonStream(r) \/ MessagesStream(r)
        \/ WriteRow(r) \/ RowFails(r) \/ ClientLeaves(r)
    \/ \E k \in Keys : Forget(k)
    \/ CacheClear
    \/ Sigterm
    \/ Exit
    \/ Terminated

Spec == Init /\ [][Next]_vars

(***************************************************************************)
(* The steps of the server are those of runnable goroutines; each call of  *)
(* a model ends, at the latest by its timeout; a read under a cancelled    *)
(* context fails; a write to the database ends.  Nothing makes a client    *)
(* leave, an upstream end a stream, or the process exit.                   *)
(***************************************************************************)
Fairness ==
    /\ \A r \in Requests :
        /\ WF_vars(Alive /\ (Hit(r) \/ Miss(r)))
        /\ WF_vars(Alive /\ (RecogniseOk(r) \/ RecogniseFails(r)))
        /\ WF_vars(Alive /\ (Enter(r) \/ Direct(r) \/ OpenFails(r) \/ OpenOk(r)))
        /\ WF_vars(Alive /\ (FetchOk(r) \/ FetchFails(r)))
        /\ WF_vars(Alive /\ (DirectOk(r) \/ DirectFails(r)))
        /\ WF_vars(Alive /\ (DoStep(r) \/ Answer(r)))
        /\ WF_vars(Alive /\ gone[r] /\ (StreamLineGone(r) \/ StreamBreaks(r)))
        /\ WF_vars(WriteRow(r) \/ RowFails(r))

FairSpec == Spec /\ Fairness

-----------------------------------------------------------------------------
(***************************************************************************)
(* Requests that agree in everything that shapes the answer never have two *)
(* calls of the main model running at once, unless they stream or the      *)
(* cache is disabled (responses.go:226-237, cache.go:30-57).               *)
(***************************************************************************)
OneCallAtATime ==
    caching => \A r, s \in Requests :
        up[r] = "calling" /\ up[s] = "calling" /\ key[r] = key[s] /\ key[r] \notin StreamKeys
            => r = s

Served(s) == IF key[s] \in ResponsesKeys THEN {"complete", "truncated"} ELSE {"complete"}

(***************************************************************************)
(* Whatever the cache answers is the response to a request with that very  *)
(* key, read to its end (the responses endpoint alone cuts bodies at       *)
(* 10 MiB, responses.go:197), made after its images had been recognised,   *)
(* and never the part of a stream that was broken off (responses.go:       *)
(* 227-235, 323-326).                                                      *)
(***************************************************************************)
CachedIsWhole ==
    \A k \in Keys : stored[k] # Nil =>
        /\ key[stored[k]] = k
        /\ up[stored[k]] \in Served(stored[k])
        /\ k \in ImageKeys => img[stored[k]] = "ok"

Outcome(r) ==
    /\ row[r] # Nil /\ hist[r] # "none"
    /\ row[r].hit => row[r].success /\ up[r] = "none" /\ img[r] = "none"
    /\ row[r].success /\ ~(row[r].hit /\ reply[r] = "broken") =>
        /\ reply[r] \in Requests
        /\ key[reply[r]] = key[r]
        /\ up[reply[r]] \in Served(reply[r])
    /\ ~row[r].success =>
        /\ reply[r] \in Causes
        /\ img[r] = "failed" \/ up[IF joined[r] = Nil THEN r ELSE joined[r]] = "failed"

(***************************************************************************)
(* A request that is over has sent and recorded one outcome.  Either it    *)
(* was handed the response of a request with its own key, which ended      *)
(* well, and says success; or it says failure and its images, its own call *)
(* or the call it had joined failed.  A cache hit has called no model.     *)
(* A stream cut short is a success only as a replay (responses.go:61-95,   *)
(* 239-258, 323-339).                                                      *)
(***************************************************************************)
AnswersMatchOutcome == \A r \in Requests : pc[r] = "done" => Outcome(r)

(***************************************************************************)
(* A client that stays is never told that a request was cancelled: the     *)
(* departure of another client whose call it shares does not reach it      *)
(* (responses.go:228).                                                     *)
(***************************************************************************)
LeaverHarmsNobody == \A r \in Requests : reply[r] = "canceled" => gone[r]

(***************************************************************************)
(* A request whose images could not be recognised never reaches the main   *)
(* model and joins nobody who did (README.md:30, responses.go:77-86).      *)
(***************************************************************************)
NoDowngrade ==
    \A r \in Requests : img[r] = "failed" => up[r] = "none" /\ joined[r] = Nil

-----------------------------------------------------------------------------
(* The inductive strengthening of the invariants above.                    *)

\* A request is inside or past Do only if it went there from its handler.
Located ==
    \A r \in Requests :
        /\ at[r] # "idle" => pc[r] \in {"do", "done"} /\ caching /\ key[r] \notin StreamKeys
        /\ at[r] = "idle" => joined[r] = Nil
        /\ pc[r] = "do" => at[r] # "idle"
        /\ pc[r] = "done" => at[r] \in {"idle", "out"}
        /\ pc[r] \in {"opened", "flowing"} => key[r] \in StreamKeys
        /\ pc[r] = "direct" => key[r] \notin StreamKeys /\ ~caching

\* A call of the main model runs exactly while its handler waits for it ...
CallRuns ==
    \A r \in Requests :
        up[r] = "calling" <=>
            \/ pc[r] = "do" /\ at[r] = "fn"
            \/ pc[r] \in {"direct", "opened", "flowing"}

\* ... what it ended with is what its flight reports ...
CallEnded ==
    \A r \in Requests :
        joined[r] = r /\ at[r] \in {"landed", "signalled", "out"} =>
            \/ call[r].err = Nil /\ call[r].val = r /\ up[r] \in Served(r)
            \/ call[r].err \in FlightErrors \cup {"panic"} /\ up[r] = "failed"

\* ... and who has not been that far, or follows another request, makes none.
CallNone ==
    \A r \in Requests :
        /\ pc[r] \in {"new", "get", "images", "main", "rejected"} => up[r] = "none"
        /\ joined[r] \notin {r, Nil} => up[r] = "none"

\* Images come first.
ImagesFirst ==
    \A r \in Requests :
        /\ pc[r] \in {"new", "get", "images", "rejected"} => img[r] = "none"
        /\ key[r] \in ImageKeys /\ pc[r] \in {"main", "do", "direct", "opened", "flowing"}
            => img[r] = "ok"
        /\ img[r] = "failed" => pc[r] = "done"

(***************************************************************************)
(* What the handlers keep true between any two steps: the place of each    *)
(* request, its calls, its flight and its answer belong together           *)
(* (responses.go:61-95, 222-340; likewise chat.go and messages.go).        *)
(***************************************************************************)
IInv ==
    /\ TypeOK
    /\ Located
    /\ CallRuns
    /\ CallEnded
    /\ CallNone
    /\ ImagesFirst
    /\ CachedIsWhole
    /\ AnswersMatchOutcome
    /\ LeaverHarmsNobody
    /\ NoDowngrade

-----------------------------------------------------------------------------
(***************************************************************************)
(* Every request that does not stream is answered, however the model calls *)
(* it shares or makes end, and a stream ends once its client has left      *)
(* (responses.go:227-237, 285-322, types.go:79-87).                        *)
(***************************************************************************)
RequestsEnd ==
    \A r \in Requests :
        pc[r] # "new" /\ (key[r] \notin StreamKeys \/ gone[r])
            ~> pc[r] \in Over \/ phase = "exited"

(***************************************************************************)
(* Whatever a request ended with, its row is written, or the write has     *)
(* failed and that was logged: only the end of the process takes a row     *)
(* away (responses.go:536-568).                                            *)
(***************************************************************************)
RowsSettle ==
    \A r \in Requests :
        pc[r] = "done" ~> hist[r] \in {"written", "failed"} \/ phase = "exited"

-----------------------------------------------------------------------------
(* What the documentation promises and the code does not keep.             *)

(***************************************************************************)
(* README.md:208: the same request calls the upstream only once.  (Without *)
(* evictions; the code stores a response and ends its flight in two steps, *)
(* after the lookup that missed, cache.go:32 and responses.go:67.)         *)
(***************************************************************************)
OneUpstreamCall ==
    caching => \A r, s \in Requests :
        up[r] = "complete" /\ up[s] = "complete" /\ key[r] = key[s] => r = s

(***************************************************************************)
(* README.md:33: every request is recorded in the history.  (The row is    *)
(* written by a goroutine nobody waits for, responses.go:536.)             *)
(***************************************************************************)
EveryRequestRecorded ==
    phase = "exited" => \A r \in Requests : pc[r] = "done" => hist[r] # "queued"
=============================================================================
