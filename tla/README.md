# A verification of fuck-chat-img

fuck-chat-img is a gateway. A *model group* hides one main model and several image
models behind one model name. A request for that name has its images described by the
image models, its body rewritten with the descriptions, and is then answered by the main
model; answers are cached and every request is written to a history. Administrators manage
the groups in a Web UI behind a login.

This directory holds TLA+ modules of the gateway's core, configurations for TLC, and
proofs for TLAPS. The reference is the code under `src/`; line numbers such as
`cache.go:32` refer to `src/internal/cache/cache.go` and likewise for the other files.

Contents: [the system](#the-system) · [the modules](#the-modules) ·
[the runs](#the-runs) · [fairness](#fairness) · [the proofs](#the-proofs) ·
[what the code does not keep](#what-the-code-does-not-keep) ·
[what is not modelled](#what-is-not-modelled) · [the plan](#the-plan)

## The system

| component | state | operations | module |
| --- | --- | --- | --- |
| single flight, `cache.Do` (cache.go:13-57) | `flights`: key to `call` (entry, error, WaitGroup) | lead, join, end of fn (value, error, panic), signal, unlink | `SingleFlight` |
| response cache, `Store` (cache.go:59-317) | map and list of entries with expiry, one mutex | get, put, evict, clear, hourly cleanup | `LruCache`, `CacheContract` |
| proxy handlers (responses.go, chat.go, messages.go) | none of their own between requests; goroutines sharing the two above | lookup, images, dispatch, flight, direct call, stream, replay, answer, history | `Gateway` |
| history writer (`record*History`) | rows in SQLite | one goroutine per row | `Gateway` |
| process (main.go, config.go) | running, draining, exited; the secret tokens are signed with | start, SIGTERM, Shutdown with a deadline, exit, crash | `Gateway`, `Sessions` |
| cache key (normalize.go, image.go) | none, a pure walk over JSON | canonicalise, hash images, fingerprint parameters | `Content` |
| replacement of images (extract.go) | none, a walk over JSON that calls models | replace or keep and append, rebuild the body | `Content` |
| recognition (image.go, types.go) | `rrIndex`: cursor per group name | order of models, try each in turn | `ModelGroups`; its result in `Content` |
| model groups (api/modelgroup.go, model.go) | rows with soft deletion and a unique name | create, update, delete, toggle, list | `ModelGroups` |
| users and sessions (auth/, api/auth.go, setup.go, db.go) | users with a token version | setup, login, password, logout | `Sessions` |
| authentication of the proxy (auth.go) | none; one decision per request | cookie, key, token | `Sessions` |
| Web UI (api.js) | the cookie of a browser | calls, logout after a 401 | `Sessions` (these only) |
| HTTP server, history API, usage accounting, build | | | not modelled, see below |

How they interact. A handler looks a group up, computes the key and asks the cache. On a
miss it has the images recognised, under the context of its own request and outside any
flight. A request that does not stream then enters `cache.Do`, when the cache is enabled:
the leader calls the main model under a context of its own (a client that leaves does
not cancel it), stores the answer and wakes its followers. A streaming request calls the
main model itself, passes lines on under the request's context, and stores what it
collected at the end of the body. Every outcome starts a goroutine that inserts a history
row. An administrator's clear, evictions and expiry remove entries at any time; Shutdown
waits for handlers for 30 seconds and for nothing else.

A handler reads its group once, at its start. The administrator's handlers read and write
the same rows in several statements, and delete the group's cursor afterwards: what a
request or a handler has read may be out of date when it is used. The token in a cookie
names the version of its user's password and is signed with the process's secret; each
request compares both with those of now.

What is hard:

* interleavings around the end of a flight: `wg.Done` and the removal of the call from
  the map are two steps, the store and the end of the flight are two, the lookup in the
  cache and the lookup of a flight are two;
* failure: fn returns an error or panics, one image of several cannot be recognised, a
  stream breaks off, a client leaves at any point;
* the list and the map of the cache must agree through replacement, eviction at the
  limit, expiry and clear;
* two recursive walks, written separately, decide what an image is: one for the key, one
  for the rewriting. If they differ somewhere, an answer is given to the wrong request;
* the exit of a process with work in flight;
* handlers that read a row, check it and write it in separate statements, beside others
  that do the same: update against deletion, two renamings, two changes of one password,
  two first setups;
* a cursor shared by name between requests that know different versions of a group;
* answers that reach a browser late, out of order or never, and a restart between them.

What makes each part correct:

* *single flight*: one execution per key at a time; leader and followers get one result;
  an entry or an error, never neither; nobody waits for ever.
* *cache*: a lookup answers the last entry put under that key, or nothing, and never one
  past its expiry; the limit holds; eviction is by least recent use.
* *handlers*: what is cached is whole and under its own key; a request sends and records
  one outcome, and that outcome is what happened; a failed image never reaches the main
  model; another client's departure does no harm; every request ends.
* *content*: requests share a key exactly when they mean the same, and the main model
  reads a description of every image at the image's place.
* *model groups*: a name means one group; a deleted group stays deleted; the models of a
  group take turns, and all of them are tried before a recognition fails; cursors do not
  outlive their groups.
* *sessions*: whoever is logged in knows the password of now; only its holder changes it;
  the setup is open only while there is no user; a 401 turns away nothing that is valid,
  save a header that a stale cookie hides from the management.

## The modules

**`SingleFlight`** is `cache.Do`, one action per stretch between two synchronisation
points. A caller is one goroutine in one call of `Do`. `Join` and `Lead` are the two
outcomes of the locked section at its head; `FnReturns`, `FnFails` and `FnPanics` end fn;
`Signal` is `wg.Done`, `Unlink` the deletion under the lock, `Wake` the end of a
follower's wait. A goroutine leads one call at most, so a call is named by its leader.

**`CacheContract`** is what the handlers rely on: a lookup answers the last put or
nothing, entries vanish at any time but never change, never answer another key and never
come back. **`LruCache`** is the store itself: map, list, entry objects, expiry with
jitter, eviction, hourly cleanup. Each exported function holds the mutex throughout and
is one action. `LruCache` implements `CacheContract` by the mapping that counts an
expired entry as absent.

**`Gateway`** composes the handlers of the three endpoints with the cache (through its
contract), with `SingleFlight` (by `INSTANCE`, sharing its variables), with the history
goroutines, clients and the process. A request is one run of a handler; its key fixes
the endpoint, whether it streams and whether it has images, because the real key covers
all three. A response is named by the request whose call produced it, which lets the
properties say *whose* answer is in the cache or on the wire. `at` and the variables
after it belong to `cache.Do`; `pc` is the place in the handler. The three endpoints share their control
flow and differ in the bodies they accept: the responses endpoint alone cuts a body at
10 MiB without an error.

**`Content`** is the pure part: `IsImageContentItem` and `ExtractImageRef` (image.go),
`Canonical`, `ContentHash`, `ParamsFingerprint` and `Key` (normalize.go), `Processed`
and `Rebuilt` (extract.go, `rebuild*Body`). JSON values are records tagged by kind.
Strings are abstracted to the kinds the code tells apart: text, data URL with payload
and media type, link, JSON, description. A small state machine serves one request after
another. Each request carries its *meaning*: the body without volatile fields and with
`Picture(p)` for each image. No action reads it; it is the reference that the key and the
rewritten body are compared with. The walks (`Canonical`, `Processed`, and the two the
properties use, `Meaning` and `Reading`) share one recursive function, `Walk`: each is a
step from what it makes of the values directly inside. `MaxDepth` bounds the nesting of a
body; in the code Go's decoder stops at 10000 levels per JSON text, and JSON inside strings
cannot go deeper than the size of the body allows.

**`PlainContent`** says for which requests the properties of `Content` hold: bodies that are
JSON of at most that depth, only fields that the key covers, a main field, images only in
`input`, `messages` and `system` (which each endpoint walks, as far as it has them), no text
that is a data URL as an object's own `text`, and the meaning that the walk `Meaning` gives
the body. That their images are base64 is an assumption of its own, used for
`OneEntryPerMeaning` only.

**`ModelGroups`** is the table of groups, the management handlers and what a request makes
of a group. One connection serves the database, so a statement is a step; a handler keeps
what it has read in `job[a]`. An update is `UpdateRead` (modelgroup.go:142), then
`SaveUpdates`, or, when the row has been deleted meanwhile, `SaveMisses` and `SaveInserts`:
gorm's `Save` then inserts the row with its old id and overwrites `deleted_at`. A deletion
is `DeleteRead` and `DeleteRow`; both handlers end in `DeleteRRIndex` when the cursor has
to go. `LookupGroup` gives a request its `snap` of the group, `NextImageModels` moves the
cursor and fixes the order for one image, `TryOk` and `TryFails` are calls of image models,
`AllFailed` the error when none is left. `turns`, `raced`, `stray` and `off` are history:
no action reads them but to extend them.

**`Sessions`** is the table of users, the process with its secret, the cookies of browsers,
and a set of calls. A call is a request or an answer under way: the `Send` actions start
one, the handlers move its `step` statement by statement and end in an answer, `Deliver`
hands the answer to the browser (in any order), `Lose` drops it. A change of password is
`Authenticate`, `VerifyOld`, `UpdatePassword`, `ReadFresh`; a setup is two looks
(`CheckSetup`) and `CreateAdmin`; a call of `/v1` is `ProxyCookie` and `ProxyBearer`.
Calls that need a login carry the cookie, a header (a token handed out earlier, the proxy
key), both or neither. The two middlewares differ: `ProxyCookie` goes on to the header when
the cookie is not valid, `MiddlewareAuth` takes the header only when there is no cookie
(`ExtractTokenNoQuery`). `Start` takes a secret, one of an earlier start or a new one (a
secret is named by the start that had it first), and may create the administrator of the
environment; `Crash` ends every call. A password stands for its hash; a token carries, besides its claims, what its
holder knows, which only properties read.

**`MCLruCache`, `MCGateway`, `MCContent`, `MCPlainContent`, `MCModelGroups`, `MCSessions`**
instantiate modules for TLC: symmetry, the requests that `Content` is given, the forms that
administrators submit. `MCContent` builds the meaning of a request next to its body, image
by image; `MCPlainContent` adds the assumptions of `PlainContent`, so that TLC compares these
meanings with those of the walk before it starts.

**`SingleFlightProofs`, `LruCacheProofs`, `GatewayProofs`, `ModelGroupsProofs`,
`SessionsProofs`, `ContentProofs`** hold the theorems about the module each is named after;
**`WalkProofs`** is about the recursive function of `Content`, **`Induction`** about the
natural numbers.

`PROJECT.json` maps every definition to its lines. Operators commented "Mutated form
of ..." are deliberate bugs, used only to show that each property can fail.

## The runs

| run | question | bounds |
| --- | --- | --- |
| `single_flight` | are calls shared exactly, and does every call of `Do` return? | 4 callers, 2 keys; no symmetry |
| `lru_cache` | do list and map agree, is the limit kept, is it LRU, is the contract kept? | 4 keys, limit 3, 2 values, clock to 3 with a lifetime of 2 ± 1 |
| `gateway` | are calls, cache, answers and history consistent? | 3 requests, a plain key with images on responses and a streamed key on chat, cache on and off, evictions and clears |
| `gateway_live` | does every request end, and its row? | 2 requests, the other four kinds of key, SIGTERM at any time |
| `content` | do key and rewriting agree on every nesting and wrapping? | 2 requests in a row out of about 180: 7 wrappings of base64 images, paths of up to 2 of 4 frames, 3 endpoints, images replaced or kept |
| `model_groups` | are names, deletions, cursors and turns right, however handlers and requests interleave? | 2 administrators, 1 request at a time with 1 image, 2 names, 2 rows, lists of 3 and 1 models, one form turned off |
| `sessions` | do sessions follow the password, across races and restarts? | 2 calls at a time of six kinds, one of them with a header, 2 users, 2 passwords, 1 browser, 2 changes of passwords, 2 starts |
| `gateway_once`, `gateway_record`, `content_collide`, `content_formats`, `groups_default` | does the code keep what the documentation says? (no) | the smallest instances |

Why the bounds are enough. Single flight: a leader, two followers in different phases and
a late joiner need four callers, interference between keys needs two keys. LRU: with four
keys in a cache of three, eviction, replacement at the limit, hits that reorder and
expiry in the middle of the list all happen. Gateway: a leader, a follower and a third
request that meets the cache while the flight ends are three; the theorems below carry
the invariants of this run to any number. Content: a frame matters by whether it is an
array, a field or a string that holds JSON, and two nested frames give every pair of
these; a key is about two requests at a time; the depth of 8 is more than these bodies need. Model groups: a race needs two handlers, a
stray cursor a request beside one, a clash of names two rows; requests follow one another
without end, so the cursor goes round lists of both lengths. Sessions: each exception in
the properties takes two calls, a token of an older version takes one change and one of an
older secret one restart; one browser suffices, since any token it once held may be lost
to it and is still held by a call; and one header at a time, which is not
the cookie of the same call again, since two calls meet only in the table and in the cookie. The theorems carry every invariant and action property of
`lru_cache`, `model_groups` and `sessions` to any number of everything, and the invariants
of `content` to plain requests of any number and depth.

The properties, by run:

* `single_flight`: `OneLeaderPerKey`, `SharedResult`, `ResultDefined` and the inductive
  `IInv`; `JoinsLiveCall` (nobody joins a call whose leader has left); `DoReturns`.
* `lru_cache`: `ListIsMap`, `OrderIsRecency` (the list is in the order of a history of
  uses), `WithinLimit`, `EvictsLeastRecent` (an action property over that history),
  `KeepsContract` (the refinement).
* `gateway`: `OneCallAtATime`, `CachedIsWhole`, `AnswersMatchOutcome`,
  `LeaverHarmsNobody`, `NoDowngrade` and the inductive `IInv`.
* `gateway_live`: `RequestsEnd`, `RowsSettle` (a request's row is written,
  or its write has failed, unless the process has ended).
* `content`: `HitsMeanTheSame` (equal keys only for equal meanings),
  `OneEntryPerMeaning` (equal meanings only under equal keys), `MainModelReadsImages`.
* `model_groups`: `OneRowPerName`, `DeadForGood`, `CursorsOwned`, `TriesAll`, `FairTurns`.
* `sessions`: `SessionsKnowPassword`, `ChangesKnowOld`, `SetupCloses`, `ValidNotRefused`.

Some of these state what the code keeps *except in a race*, and name the race exactly.
TLC finds a counterexample as soon as the exception is dropped:

* `DeadForGood`: an update that read the row before its deletion (`raced`) brings the
  group back when it saves (modelgroup.go:174).
* `CursorsOwned`: a request that looked a group up before it was deleted or renamed moves
  its cursor again (types.go:222), and a handler that had read an older name of the row
  deletes the cursor of that one; the names are in `stray` until somebody deletes their
  cursor.
* `SessionsKnowPassword`, `ChangesKnowOld`: two changes of one password that have both
  passed the check of the old one both succeed. The first then reads the row of the second
  (auth.go:116) and is given a session of a password it does not know (`overtaken`).
* `SetupCloses`: setups sent while there was no user (`early`) may create several.
* `ValidNotRefused`: a call of the management is judged by its cookie alone when it has one,
  so a stale cookie hides a valid header (auth.go:151-162, 195); the 401 clears that cookie,
  and the next call is judged by its header. Calls of `/v1` need no such exception. An error
  of the database counts as a token that is not valid (`failed`, auth.go:91-94).

`HitsMeanTheSame` is checked on requests whose volatile field names occur in messages
only; `content_collide` shows what happens when they occur elsewhere. Likewise
`OneEntryPerMeaning` is checked on base64 images and `content_formats` adds URLs.

## Fairness

`SingleFlight` assumes that fn ends (the upstream call runs under a context with a
timeout, responses.go:228) and that runnable goroutines run. `Gateway` assumes weak
fairness of the handlers' own steps, that calls of models end (same timeouts), that a
read under a cancelled context fails, that the insertion of a row ends (a local SQLite
file, an error is logged). It does not assume that clients leave, that an upstream ends a
stream, that history goroutines get to run before the exit (`RowsSettle` therefore ends at
the exit), that anything is evicted, or that the process ever exits: requests end by their own
steps, also while it drains. That is why `RequestsEnd` promises the end of a stream only once its client has left. `ModelGroups` and
`Sessions` assume no fairness: administrators and browsers may stop anywhere.

## The proofs

All theorems hold for every value of the constants that satisfies the assumptions. Most of
these only say that `Nil`, `None`, `Key` and the names of errors differ from requests,
entries, rows and tokens, that the key sets cover `Keys`, that forms are forms and bounds
are numbers. Two say more: a cache holds at least one entry and lives longer than its jitter
(config.Load, cache.go:211-216), and the requests of `Content` are those of `PlainContent`.
TLC evaluates them in every run of the modules that state them.

Theorems about recursive definitions rest on `Induction`. The library's induction takes the
predicate as an operator parameter, which no prover here can instantiate; `CountingUp` is
about the *set* of numbers for which it holds, a value, and follows from the library's
`WFMin`. A recursive definition is the choice of a function that satisfies an equation, so
each needs first that there is one, by extending the function for n to n + 1.

*SingleFlight.* `Invariance` proves `Spec => []IInv`. The stated invariants are not
inductive: that a second leader cannot enter depends on the map holding exactly the calls
that are not over. `IInv` adds `RegisteredLeads` and `LeaderRegistered` (the map and the
leaders describe the same calls), `Bound` (whoever is inside is bound to a call for its
key that has been led), `ReleasedWhenOver` and `LandedDefined` (a released call has a
result). From it follow `LeadersExclusive`, `ResultsShared`, `ResultsDefined` and, as an
action property, `LiveCallsJoined`.

*Gateway.* `FlightsRefined` proves that every step of the gateway is a step of
`SingleFlight` or leaves its variables alone, so the invariants above hold of the
composition. `Invariance` then proves its own `IInv`, which ties the place of a request
to its flight (`Located`), says when its call of the main model runs (`CallRuns`), what
it ended with (`CallEnded`), who makes none (`CallNone`), and that images come first
(`ImagesFirst`). `OneCall`, `CacheRight`, `AnswersRight`, `LeaversHarmless` and
`NeverDowngraded` follow.

*LruCache.* `Without`, the list without some entries, is unfolded as just said. `ListIsMap` is
not inductive: nothing in it says which entry an eviction takes. `Linked` says it with
the history of uses as the pivot: `OrderIsRecency` (the list is the history, entry by entry),
every key of the history is cached, none occurs twice. It speaks of keys where `ListIsMap`
speaks of entries, so that an operation only moves or removes keys of one sequence.
`ListAndMapAgree`, `ListFollowsUse` and, with the limit beside it, `LimitHolds` follow;
`EvictionIsLeastRecent` reads from the same invariant that what is first in the list was used
before the rest. `PutIsKept`: a put never evicts its own entry, whatever the limit, nor
puts one that the jitter has already ended. `StoreKeepsContract` maps an expired entry to an absent one and shows
that each operation, with the evictions or the clean-up it includes, is a step of
`CacheContract` or leaves its answers alone.

*Content.* `WalkUnfolds` turns the recursive function into equations: `Walk` of a value is
its step on the walks of what is directly inside. It needs that the parts of a value are
shallower than the value (`PartsShallow`), or the function would not be determined. Everything
after it is induction on depth. `KeyTellsMeaning` and `MeaningTellsKey` compare two values at
once: both walks see the same kind of thing at each place (`BothSee`), an image, an object, an
array, JSON in a string or a leaf, and different kinds have different results (`SeenAlike`).
For the replacement, an object without an image must not *become* one when its fields are
processed (`NoImageAfter`: no field refers to an image that did not before, and `type` stays
what it was), an array whose images have texts beside them reads as one with the texts
in their places (`ReadPieces`, by induction along the flattened array), and depth must not
grow (`DepthKept`). `ProcessedReadsAsMeant` follows, then the same for whole requests
(`RequestKeyTellsMeaning`, `RequestMeaningTellsKey`, `RebuiltReadsAsMeant`). The state machine
adds that an entry has the key it is found under and that a key has one entry at most, none
while it is served (`OneEntryPerKey`). `HitsAreRight` and `MainModelReadsMeaning` hold for URLs
as well; `MeaningsShareEntry` needs `Base64Assumption`, as `content_formats` shows.
`Meaning` has no volatile fields at any place, so these theorems do not say that dropping them
is right: `content_collide` is about that.

*ModelGroups.* `TypeCorrect` first. `NamesUnique` is inductive as it stands, given the
types: both statements that write a name check it against all rows. `DeletionsLast` needs
`RacedInv`: an update that is to find its row deleted is in `raced`. `AllTried` needs
`Queue` (what has been tried and what is left of `order` are together the rotation of the
list), and the lemma `RotatedIsPermutation` about the arithmetic of nextImageModels.
`TurnsAreFair` needs `Rotation`: the recorded turns are consecutive positions modulo the
length of the list and the cursor names the next, from which any n of them are distinct,
for every n. `CursorsHaveOwners` shows `CursorsOwned` inductive; its one hard case is a row
that loses its name (`NameLost`), where the handler itself answers for the cursor.

*Sessions.* `TypeCorrect` includes that a handler finds in its request what it reads.
`SetupIsOnce` rests on `SetupsEarly` (a setup that can still create somebody is in `early`).
`Grown` says that rows are never deleted and that a row changes only together with its
version; `ChangesGood` says that a change past its check has seen the password in the row,
unless it is `overtaken`. `ChangesAreKnown` follows. `SessionsKnow` needs `TokensGood`: no
token anywhere is ahead of its user's version, and one level with it knows the password.
`RefusedRightly` needs `AllTurned` (what a call past its first check, or answered with a 401,
carries is not accepted where its middleware looks) and the lemma `StaleStays`: while the
process runs, a token that is not accepted never will be.

Only model-checked: liveness (`DoReturns`, `RequestsEnd`, `RowsSettle`),
which the prover does not handle under fairness, and the five counterexamples. That `Meaning`
is what a client means is not proved either: TLC compares it with meanings that `MCContent`
builds independently.

## What the code does not keep

Five runs state what the documentation says, and TLC finds the behaviour that breaks it:

* `gateway_once`: README.md:208 promises one upstream call for equal requests. A request
  that missed the cache, and reaches `Do` after the flight that stored the response has
  ended, calls again: `Do` does not look in the cache a second time.
* `gateway_record`: README.md:33 promises that every request is recorded. Nobody waits
  for the goroutine that inserts the row, so an exit loses rows.
* `content_collide`: normalize.go:121 says that different parameters or contents never
  collide. Fields called `id` or `timestamp` are dropped from tool schemas and tool
  arguments too, so two requests that differ there share one answer.
* `content_formats`: README.md:202 says that a picture makes the same key as a URL and
  as base64. The URL itself is hashed.
* `groups_default`: README.md:132 says that a group that is turned off is not listed. One
  that is *created* turned off is turned on by the default of the column (model.go:43).

Other places where documentation and code differ, without a run of their own:

* types.go:79-81 says that the check for departed clients prevents false successes in the
  history; a replay from the cache that stops for that reason is recorded as a success
  (responses.go:68-72, 434-437; `AnswersMatchOutcome` excepts it).
* README.md:208 says that recognitions are cached; they are only as part of an answer, and a
  failed main call repeats them.
* README.md:109 and Setup.jsx:142 ask for passwords of six characters; the code wants eight
  (config.go:15).
* README.md:112 gives streams twice the timeout; only the wait for their headers is limited
  (types.go:46-56). And both HTTP clients take the timeout when their package is initialised
  (types.go:25, 31), before main reads `FCI_REQUEST_TIMEOUT`: it reaches only the contexts
  of calls that do not stream, and image models keep the default.
* model.go:29 describes retries per model (`MaxRetries`), and types.go:210 says that
  failover returns one model: nothing reads the first, and all models are returned.
* auth.jsx:75 takes each 401 for a cookie that is not valid; it may belong to an older
  session or to a failed login, and api.js:25 logs out all the same.

## What is not modelled

* Token usage, latencies, summaries and the text of errors: they are recorded, and
  nothing depends on them.
* Headers and HTTP details of upstream calls. The `anthropic-version` and `anthropic-beta`
  headers of a flight are its leader's (messages.go:190-202) and not in the key.
* The counters behind the cache statistics page.
* White space around JSON strings, data URLs too short to count as images, and the loss
  of precision of large numbers in a rebuilt body.
* `Content` and `Gateway` know only that a recognition succeeds or fails; the order of the
  models is in `ModelGroups`, which knows nothing of contents and keys.
* Groups: the contents of a model's configuration, `ListGroups`, `GetGroup` and `TestGroup`
  (reads), and `CleanupRRIndex`, which nobody calls.
* Sessions: roles and the status of users (the code creates active administrators only and
  never changes either), the expiry of tokens after seven days, a process without a proxy
  key, a token in the query besides one in the header, and headers with anything but the
  proxy key or a token that a browser holds or is being sent.
* The 30 seconds that Shutdown waits (main.go:72): in `Gateway` the process may exit at any
  moment after SIGTERM, whatever is under way, and need not exit at all.
* The strength of passwords: a form that fails it changes nothing.
* A main field that is missing from a request is modelled (`Rebuilt`) but not among the
  requests checked, since nothing says what should happen. Nor are the other requests that
  `PlainContent` leaves out: parameters that the key does not cover, images in fields that
  the endpoint does not walk (those of `tools` are in the key, and go out as they are), and a
  data URL as the `text` of an item, which becomes a description without the item being an
  image.
* A client that writes itself what the gateway writes: an object `img` with the hash of a
  picture in a request, or a text that begins like a description.
* The rate limiter of login and setup (server.go:203-252): one locked section over a counter
  and a clock, whose promise at the boundary of two windows is not documented.
* Routes, CORS and static files, history API, most of the configuration, pages of the Web UI,
  usage accounting and build: see the notes in `PROJECT.json`.

## The plan

Done, in this order: `SingleFlight` and its proofs; `CacheContract` and `LruCache`;
`Gateway`, which composes them, and its proofs; `Content`; `ModelGroups` and `Sessions`, each
with its proofs; the settling of history rows in `Gateway`; the proofs of `LruCache`; the walks
of `Content` as one function, and their proofs.

What could follow:

1. The composition of `ModelGroups` with `Gateway`: answers made by a group's old main model,
   served from the cache after an update (responses.go:55), once the project states what
   should happen.
2. The rate limiter, as a module of its own: at most twice the limit in any window of its
   length.
3. The history API beside the history goroutines: rows inserted while the history is cleared.
