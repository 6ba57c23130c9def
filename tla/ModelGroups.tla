---------------------------- MODULE ModelGroups ----------------------------
(***************************************************************************)
(* Model groups: the table (internal/model), the management handlers       *)
(* (internal/api/modelgroup.go), and what requests make of a group they    *)
(* have looked up: the order in which its image models are tried, from the *)
(* round-robin cursor (internal/proxy/types.go, image.go).                 *)
(*                                                                         *)
(* One connection serves the database, so each statement is a step; a      *)
(* handler of several statements keeps what it has read in its job.        *)
(* Answers with 4xx or 5xx that have changed nothing are no steps.         *)
(* Rows are numbered from 1 and never leave the table: a deletion only     *)
(* marks them.  The models of a list are told apart by their position.     *)
(***************************************************************************)
EXTENDS Integers, Sequences, SequencesExt

CONSTANTS
    Names,      \* names of groups
    Forms,      \* what an administrator may submit
    Admins,     \* management requests that may be under way at once
    Requests,   \* proxy requests that may be under way at once
    Nil,
    MaxRows,    \* bound of the table
    MaxImages   \* bound of the images in one request

Strategies == {"round_robin", "failover"}
Form == [name : Names, enabled : BOOLEAN, models : Nat, strategy : Strategies]

ASSUME FormsAssumption == Forms \subseteq Form /\ MaxRows \in Nat /\ MaxImages \in Nat \ {0}

VARIABLES
    rows,       \* the table: row i is the group with id i
    dead,       \* ids of rows with deleted_at set
    job,        \* what each management handler has read and has still to do
    cursor,     \* rrIndex; Nil where it has no entry
    pc,         \* where each request is
    snap,       \* the group as the request looked it up
    left,       \* images it has still to recognise
    order,      \* models it has still to try for the current image
    tried,      \* models it has tried for it
    turns,      \* history: the models that came first, since the cursor last started anew
    raced,      \* history: updates under way whose row was deleted after they had read it
    stray,      \* history: names whose cursor a race has kept or put back
    off         \* history: ids of the groups an administrator turned off last

table == <<rows, dead>>
requests == <<pc, snap, left, order, tried>>
history == <<turns, raced, stray, off>>
vars == <<table, job, cursor, requests, history>>

Ids == 1 .. MaxRows
Step == {"save", "insert", "remove", "cursor"}
Job == [step : Step, id : Ids, name : Names, form : Forms \cup {Nil}]
Turns == [models : Nat, first : Seq(Nat)]

ASSUME NilApart == Nil \notin Form /\ Nil \notin Nat /\ Nil \notin Job

TypeOK ==
    /\ rows \in Seq(Form) /\ Len(rows) <= MaxRows
    /\ dead \subseteq DOMAIN rows
    /\ job \in [Admins -> Job \cup {Nil}]
    /\ \A a \in Admins : job[a] # Nil =>
        job[a].id \in DOMAIN rows /\ (job[a].step = "insert" => job[a].form # Nil)
    /\ cursor \in [Names -> Nat \cup {Nil}]
    /\ pc \in [Requests -> {"idle", "image", "trying", "done", "failed"}]
    /\ snap \in [Requests -> Form \cup {Nil}]
    /\ \A r \in Requests :
        (pc[r] # "idle" => snap[r] # Nil) /\ (pc[r] \in {"image", "trying"} => left[r] # 0)
    /\ left \in [Requests -> 0 .. MaxImages]
    /\ order \in [Requests -> Seq(Nat)]
    /\ tried \in [Requests -> Seq(Nat)]
    /\ turns \in [Names -> Turns]
    /\ raced \subseteq Admins
    /\ stray \subseteq Names
    /\ off \subseteq DOMAIN rows

NoTurns == [models |-> 0, first |-> <<>>]

Init ==
    /\ rows = <<>> /\ dead = {}
    /\ job = [a \in Admins |-> Nil]
    /\ cursor = [n \in Names |-> Nil]
    /\ pc = [r \in Requests |-> "idle"]
    /\ snap = [r \in Requests |-> Nil]
    /\ left = [r \in Requests |-> 0]
    /\ order = [r \in Requests |-> <<>>]
    /\ tried = [r \in Requests |-> <<>>]
    /\ turns = [n \in Names |-> NoTurns]
    /\ raced = {}
    /\ stray = {}
    /\ off = {}

-----------------------------------------------------------------------------
(* The table.                                                              *)

Live == {i \in DOMAIN rows : i \notin dead}
LiveNames == {rows[i].name : i \in Live}

\* The unique index on the name covers the deleted rows, too.
Taken(name, id) == \E i \in DOMAIN rows : i # id /\ rows[i].name = name

\* gorm takes a false that is about to be inserted for "not given": the default is true.
WithDefaults(f) == [f EXCEPT !.enabled = TRUE]

TurnedOff(i, b) == off' = IF b THEN off \cup {i} ELSE off \ {i}

CreateGroup(f) ==
    /\ Len(rows) < MaxRows
    /\ ~Taken(f.name, 0)
    /\ rows' = Append(rows, WithDefaults(f))
    /\ TurnedOff(Len(rows) + 1, ~f.enabled)
    /\ UNCHANGED <<dead, job, cursor, requests, turns, raced, stray>>

\* One statement: enabled = NOT enabled.  (The handler reads the row once more, to report it.)
ToggleGroup(i) ==
    /\ i \in Live
    /\ rows' = [rows EXCEPT ![i].enabled = ~@]
    /\ TurnedOff(i, rows[i].enabled)
    /\ UNCHANGED <<dead, job, cursor, requests, turns, raced, stray>>

\* The name a row loses, to a handler that had read another one.
Unseen(a) ==
    LET j == job[a] IN IF j.id \in Live /\ rows[j.id].name # j.name THEN {rows[j.id].name} ELSE {}

Starts(a, step, i) ==
    /\ job[a] = Nil /\ i \in Live
    /\ job' = [job EXCEPT ![a] = [step |-> step, id |-> i, name |-> rows[i].name, form |-> Nil]]
    /\ UNCHANGED <<table, cursor, requests, history>>

\* What a handler has still to do, with what it has read.
Todo(j, step, form) == [step |-> step, id |-> j.id, name |-> j.name, form |-> form]

At(a, step) == job[a] # Nil /\ job[a].step = step

\* Mutated form of UpdateRead: it also finds rows that are deleted.
UpdateReadUnscoped(a, i) ==
    /\ job[a] = Nil /\ i \in DOMAIN rows
    /\ job' = [job EXCEPT ![a] = [step |-> "save", id |-> i, name |-> rows[i].name, form |-> Nil]]
    /\ UNCHANGED <<table, cursor, requests, history>>

UpdateRead(a, i) == Starts(a, "save", i)

\* Mutated form of Saved: the cursor of the old name is left alone.
SavedOnly(a, f) == job' = [job EXCEPT ![a] = Nil]

\* After the save: the cursor goes when the name that was read at the start has changed.
Saved(a, f) ==
    job' = [job EXCEPT ![a] = IF @.name # f.name THEN Todo(@, "cursor", Nil) ELSE Nil]

\* DB.Save updates all columns of the row ...
SaveUpdates(a, f) ==
    /\ At(a, "save") /\ job[a].id \in Live
    /\ ~Taken(f.name, job[a].id)
    /\ stray' = stray \cup (Unseen(a) \ {f.name})
    /\ rows' = [rows EXCEPT ![job[a].id] = f]
    /\ TurnedOff(job[a].id, ~f.enabled)
    /\ Saved(a, f)
    /\ raced' = raced \ {a}
    /\ UNCHANGED <<dead, cursor, requests, turns>>

\* Mutated form of SaveMisses: the insertion is left without the values.
SaveMissesEmpty(a, f) ==
    /\ At(a, "save") /\ job[a].id \in dead
    /\ job' = [job EXCEPT ![a] = Todo(@, "insert", Nil)]
    /\ UNCHANGED <<table, cursor, requests, history>>

\* ... and when no row is left to update ...
SaveMisses(a, f) ==
    /\ At(a, "save") /\ job[a].id \in dead
    /\ job' = [job EXCEPT ![a] = Todo(@, "insert", f)]
    /\ UNCHANGED <<table, cursor, requests, history>>

\* Mutated form of SaveInserts: the insertion replaces whatever it conflicts with.
SaveInsertsAnyway(a) ==
    /\ At(a, "insert")
    /\ stray' = stray \cup (Unseen(a) \ {job[a].form.name})
    /\ rows' = [rows EXCEPT ![job[a].id] = WithDefaults(job[a].form)]
    /\ TurnedOff(job[a].id, ~job[a].form.enabled)
    /\ dead' = dead \ {job[a].id}
    /\ Saved(a, job[a].form)
    /\ raced' = raced \ {a}
    /\ UNCHANGED <<cursor, requests, turns>>

\* ... it inserts one, and on a conflict of the id overwrites the row, deleted_at included.
SaveInserts(a) ==
    /\ At(a, "insert")
    /\ ~Taken(job[a].form.name, job[a].id)
    /\ stray' = stray \cup (Unseen(a) \ {job[a].form.name})
    /\ rows' = [rows EXCEPT ![job[a].id] = WithDefaults(job[a].form)]
    /\ TurnedOff(job[a].id, ~job[a].form.enabled)
    /\ dead' = dead \ {job[a].id}
    /\ Saved(a, job[a].form)
    /\ raced' = raced \ {a}
    /\ UNCHANGED <<cursor, requests, turns>>

DeleteRead(a, i) == Starts(a, "remove", i)

\* Updates that are under way on the row now may find it deleted when they save it.
Updating(i) == {a \in Admins : job[a] # Nil /\ job[a].id = i /\ job[a].step \in {"save", "insert"}}

DeleteRow(a) ==
    LET i == job[a].id IN
    /\ At(a, "remove")
    /\ dead' = dead \cup {i}
    /\ raced' = IF i \in dead THEN raced ELSE raced \cup Updating(i)
    /\ stray' = stray \cup Unseen(a)
    /\ job' = [job EXCEPT ![a] = Todo(@, "cursor", Nil)]
    /\ UNCHANGED <<rows, cursor, requests, turns, off>>

DeleteRRIndex(a) ==
    LET n == job[a].name IN
    /\ At(a, "cursor")
    /\ cursor' = [cursor EXCEPT ![n] = Nil]
    /\ turns' = [turns EXCEPT ![n] = NoTurns]
    /\ stray' = stray \ {n}
    /\ job' = [job EXCEPT ![a] = Nil]
    /\ UNCHANGED <<table, requests, raced, off>>

\* A body that is invalid, a name that is taken, or an error of the database.
JobFails(a) ==
    /\ job[a] # Nil /\ job[a].step # "cursor"
    /\ job' = [job EXCEPT ![a] = Nil]
    /\ raced' = raced \ {a}
    /\ UNCHANGED <<table, cursor, requests, turns, stray, off>>

-----------------------------------------------------------------------------
(* A request, from its lookup of the group to its last image.              *)

LookupGroup(r) ==
    /\ pc[r] = "idle"
    /\ pc' = [pc EXCEPT ![r] = "image"]
    /\ \E i \in Live : rows[i].enabled /\ snap' = [snap EXCEPT ![r] = rows[i]]
    /\ \E n \in 1 .. MaxImages : left' = [left EXCEPT ![r] = n]
    /\ UNCHANGED <<table, job, cursor, order, tried, history>>

\* A name without a cursor starts at 0; a cursor may be that of a longer list.
Start(n, len) == (IF cursor[n] = Nil THEN 0 ELSE cursor[n]) % len

\* Mutated form of Rotated: the list is not continued at its front.
RotatedOff(start, len) == [i \in 1 .. len - start |-> start + i]

\* The positions of a list, from start on and round.
Rotated(start, len) == [i \in 1 .. len |-> 1 + ((start + i - 1) % len)]

\* The last len models that came first, as long as nothing but requests for lists of
\* that length have moved the cursor.
Extended(t, start, len) ==
    [models |-> len,
     first  |-> IF t.models # len THEN <<start>>
                ELSE Append(IF Len(t.first) < len THEN t.first ELSE Tail(t.first), start)]

\* Mutated form of CursorAfter: the cursor wraps one model too early.
CursorAfterEarly(start, len) == IF start + 2 < len THEN start + 1 ELSE 0

CursorAfter(start, len) == (start + 1) % len

\* nextImageModels, called anew for every image.
NextImageModels(r) ==
    /\ pc[r] = "image"
    /\ pc' = [pc EXCEPT ![r] = "trying"]
    /\ tried' = [tried EXCEPT ![r] = <<>>]
    /\ LET g == snap[r]
           len == g.models
       IN  \/ /\ len = 0 \/ g.strategy = "failover"
              /\ order' = [order EXCEPT ![r] = Rotated(0, len)]
              /\ UNCHANGED <<cursor, turns, stray>>
           \/ /\ len > 0 /\ g.strategy # "failover"
              /\ LET start == Start(g.name, len) IN
                  /\ order' = [order EXCEPT ![r] = Rotated(start, len)]
                  /\ cursor' = [cursor EXCEPT ![g.name] = CursorAfter(start, len)]
                  /\ turns' = [turns EXCEPT ![g.name] = Extended(@, start, len)]
              /\ stray' = stray \cup ({g.name} \ LiveNames)
    /\ UNCHANGED <<table, job, snap, left, raced, off>>

Try(r) ==
    /\ pc[r] = "trying" /\ order[r] # <<>>
    /\ tried' = [tried EXCEPT ![r] = Append(@, Head(order[r]))]

\* A description that is not empty; the request goes on to its next image.
TryOk(r) ==
    /\ Try(r)
    /\ left' = [left EXCEPT ![r] = @ - 1]
    /\ pc' = [pc EXCEPT ![r] = IF left[r] > 1 THEN "image" ELSE "done"]
    /\ UNCHANGED <<table, job, cursor, snap, order, history>>

\* An error, a timeout, or an empty description.
TryFails(r) ==
    /\ Try(r)
    /\ order' = [order EXCEPT ![r] = Tail(@)]
    /\ UNCHANGED <<table, job, cursor, pc, snap, left, history>>

\* recognizeImage fails, and the request with it, at once when there are no models.
AllFailed(r) ==
    /\ pc[r] = "trying" /\ order[r] = <<>>
    /\ pc' = [pc EXCEPT ![r] = "failed"]
    /\ UNCHANGED <<table, job, cursor, snap, left, order, tried, history>>

\* The handler returns; another request takes its place.
Return(r) ==
    /\ pc[r] \in {"done", "failed"}
    /\ pc' = [pc EXCEPT ![r] = "idle"]
    /\ snap' = [snap EXCEPT ![r] = Nil]
    /\ left' = [left EXCEPT ![r] = 0]
    /\ order' = [order EXCEPT ![r] = <<>>]
    /\ tried' = [tried EXCEPT ![r] = <<>>]
    /\ UNCHANGED <<table, job, cursor, history>>

-----------------------------------------------------------------------------
UpdateGroup(a) ==
    \/ \E i \in Ids : UpdateRead(a, i)
    \/ \E f \in Forms : SaveUpdates(a, f) \/ SaveMisses(a, f)
    \/ SaveInserts(a)

DeleteGroup(a) == (\E i \in Ids : DeleteRead(a, i)) \/ DeleteRow(a)

Request(r) ==
    \/ LookupGroup(r) \/ NextImageModels(r)
    \/ TryOk(r) \/ TryFails(r) \/ AllFailed(r) \/ Return(r)

Next ==
    \/ \E f \in Forms : CreateGroup(f)
    \/ \E i \in Ids : ToggleGroup(i)
    \/ \E a \in Admins : UpdateGroup(a) \/ DeleteGroup(a) \/ DeleteRRIndex(a) \/ JobFails(a)
    \/ \E r \in Requests : Request(r)

Spec == Init /\ [][Next]_vars

-----------------------------------------------------------------------------
(***************************************************************************)
(* No two rows have one name, deleted ones included, however creations,    *)
(* renamings and updates that bring a deleted row back are interleaved: a  *)
(* lookup by name is never ambiguous, and two groups never share a cursor  *)
(* (model.go:36, modelgroup.go:123, 174, responses.go:514).                *)
(***************************************************************************)
OneRowPerName ==
    \A i, j \in DOMAIN rows : rows[i].name = rows[j].name => i = j

(***************************************************************************)
(* A deleted group stays deleted, unless an update that was under way when *)
(* it was deleted writes the row it had read (modelgroup.go:142, 174,      *)
(* 196): no request that came later can bring it back.                     *)
(***************************************************************************)
DeadForGood ==
    [][\A i \in dead \ dead' :
          \E a \in raced : job[a].id = i /\ job[a].step = "insert" /\ job'[a] # job[a]]_vars

(***************************************************************************)
(* The cursor of a name that no group has any more is about to be deleted, *)
(* or is there because of a race: a request that had looked the group up   *)
(* used it afterwards, or a handler wrote a row that had meanwhile got     *)
(* another name (types.go:220-224, 246, modelgroup.go:178, 200).           *)
(***************************************************************************)
CursorsOwned ==
    \A n \in Names : cursor[n] # Nil =>
        \/ n \in LiveNames \cup stray
        \/ \E a \in Admins : At(a, "cursor") /\ job[a].name = n

(***************************************************************************)
(* A recognition fails only after every model of the group, as it was when *)
(* the request looked it up, has been tried, and none of them twice,       *)
(* whatever has become of the list and of the cursor since (types.go:      *)
(* 208-230, image.go:184-207).                                             *)
(***************************************************************************)
TriesAll ==
    \A r \in Requests : pc[r] = "failed" =>
        /\ IsInjective(tried[r])
        /\ ToSet(tried[r]) = 1 .. snap[r].models

(***************************************************************************)
(* While nothing but requests for one list move a cursor, of any n         *)
(* recognitions in a row, n the length of the list, each starts with       *)
(* another model, however many requests share the cursor (types.go:        *)
(* 220-224).                                                               *)
(***************************************************************************)
FairTurns == \A n \in Names : IsInjective(turns[n].first)

-----------------------------------------------------------------------------
(* What the documentation promises and the code does not keep.             *)

\* What GET /v1/models lists.
HandleModels == {rows[i].name : i \in {j \in Live : rows[j].enabled}}

(***************************************************************************)
(* README.md:132: a group that is turned off is not listed in /v1/models.  *)
(* (One that is created turned off is turned on by the default of the      *)
(* column, model.go:43.)                                                   *)
(***************************************************************************)
DisabledUnlisted == \A i \in off : rows[i].name \notin HandleModels
=============================================================================
