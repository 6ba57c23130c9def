------------------------- MODULE ModelGroupsProofs -------------------------
(***************************************************************************)
(* Proofs about ModelGroups for any names, forms, handlers and requests:   *)
(* the types, the uniqueness of names, deletions that last, the order in   *)
(* which models are tried and the turns they take.                         *)
(***************************************************************************)
EXTENDS ModelGroups, TLAPS

-----------------------------------------------------------------------------
(* The cursor's arithmetic.                                                *)

(***************************************************************************)
(* What % does in the range the cursor needs.                              *)
(***************************************************************************)
LEMMA ModInRange ==
  ASSUME NEW x \in Nat, NEW n \in Nat \ {0}
  PROVE  x % n \in 0 .. n - 1
  OBVIOUS

(***************************************************************************)
(* Below twice the length, % takes the length off at most once.            *)
(***************************************************************************)
LEMMA ModOnce ==
  ASSUME NEW x \in Nat, NEW n \in Nat \ {0}, x < n + n
  PROVE  x % n = IF x < n THEN x ELSE x - n
  OBVIOUS

(***************************************************************************)
(* The cursor after p: the next position, or the front again.              *)
(***************************************************************************)
LEMMA ModNext ==
  ASSUME NEW n \in Nat \ {0}, NEW p \in 0 .. n - 1
  PROVE  p % n = p /\ (p + 1) % n = IF p + 1 < n THEN p + 1 ELSE 0
  OBVIOUS

\* The position k places after s in a list of n models, counted from 0.
Place(s, k, n) == IF s + k < n THEN s + k ELSE s + k - n

\* A place counted from within the list is never before its front.
LEMMA PlaceRange ==
  ASSUME NEW n \in Nat, NEW s \in 0 .. n - 1, NEW k \in Nat
  PROVE  Place(s, k, n) \in Nat
  BY DEF Place

(***************************************************************************)
(* The models in the order they are tried, from start on and round.        *)
(***************************************************************************)
LEMMA RotatedAt ==
  ASSUME NEW len \in Nat \ {0}, NEW start \in 0 .. len - 1, NEW i \in 1 .. len
  PROVE  Rotated(start, len)[i] = 1 + Place(start, i - 1, len)
  <1> DEFINE x == start + i - 1
  <1>1. x \in Nat /\ x < len + len
    OBVIOUS
  <1>2. x % len = IF x < len THEN x ELSE x - len
    BY <1>1, ModOnce
  <1>3. (start + i - 1) % len = Place(start, i - 1, len)
    BY <1>2 DEF Place
  <1> QED
    BY <1>3 DEF Rotated

\* From where a list can be begun; an empty one at 0.
Begins(start, len) == start \in Nat /\ (start < len \/ start = 0)

(***************************************************************************)
(* nextImageModels orders the whole list: each model once.                 *)
(***************************************************************************)
LEMMA RotatedIsPermutation ==
  ASSUME NEW len \in Nat, NEW start, Begins(start, len)
  PROVE  /\ Rotated(start, len) \in Seq(Nat)
         /\ IsInjective(Rotated(start, len))
         /\ ToSet(Rotated(start, len)) = 1 .. len
  <1>1. CASE len = 0
    BY <1>1 DEF Rotated, IsInjective, ToSet
  <1>2. CASE len # 0
    <2> DEFINE rot == Rotated(start, len)
    <2>1. start \in 0 .. len - 1 /\ len \in Nat \ {0}
      BY <1>2 DEF Begins
    <2>2. DOMAIN rot = 1 .. len /\ \A i \in 1 .. len : rot[i] = 1 + Place(start, i - 1, len)
      BY <2>1, RotatedAt DEF Rotated
    <2>3. \A i \in 1 .. len : rot[i] \in 1 .. len
      BY <2>1, <2>2 DEF Place
    <2>4. rot \in Seq(Nat)
      BY <2>3, <2>2 DEF Rotated
    <2>5. IsInjective(rot)
      BY <2>1, <2>2 DEF IsInjective, Place
    <2>6. ASSUME NEW p \in 1 .. len PROVE \E i \in 1 .. len : rot[i] = p
      <3> DEFINE i == IF p > start THEN p - start ELSE p - start + len
      <3>1. i \in 1 .. len /\ 1 + Place(start, i - 1, len) = p
        BY <2>1 DEF Place
      <3> QED
        BY <3>1, <2>2
    <2> QED
      BY <2>2, <2>3, <2>4, <2>5, <2>6 DEF ToSet
  <1> QED
    BY <1>1, <1>2

(***************************************************************************)
(* Where a request starts lies in its list, whatever the cursor has been   *)
(* left at by a longer one.                                                *)
(***************************************************************************)
LEMMA StartInList ==
  ASSUME TypeOK, NEW n \in Names, NEW len \in Nat \ {0}
  PROVE  Start(n, len) \in 0 .. len - 1
  BY ModInRange, NilApart DEF TypeOK, Start

-----------------------------------------------------------------------------
(* Types.                                                                  *)

(***************************************************************************)
(* The table is empty and nothing runs at the start.                       *)
(***************************************************************************)
LEMMA InitType == Init => TypeOK
  BY FormsAssumption DEF Init, TypeOK, Turns, NoTurns, Ids

(***************************************************************************)
(* A form that is written makes a row, also with the defaults.             *)
(***************************************************************************)
LEMMA WrittenForm ==
  ASSUME NEW f \in Form
  PROVE  WithDefaults(f) \in Form /\ WithDefaults(f).name = f.name
  BY DEF Form, WithDefaults

(***************************************************************************)
(* The history of turns keeps its type.                                    *)
(***************************************************************************)
LEMMA ExtendedType ==
  ASSUME NEW t \in Turns, NEW start \in Nat, NEW len \in Nat \ {0}
  PROVE  Extended(t, start, len) \in Turns
  <1>1. Len(t.first) < len \/ t.first # <<>>
    BY DEF Turns
  <1> QED
    BY <1>1 DEF Extended, Turns

(***************************************************************************)
(* Every row bears a name.                                                 *)
(***************************************************************************)
LEMMA RowNames ==
  ASSUME TypeOK, NEW i \in DOMAIN rows
  PROVE  i \in Ids /\ rows[i].name \in Names
  <1>1. rows \in Seq(Form) /\ i \in 1 .. Len(rows) /\ Len(rows) <= MaxRows
    BY DEF TypeOK
  <1>2. rows[i] \in Form
    BY <1>1
  <1>3. rows[i].name \in Names
    BY <1>2 DEF Form
  <1> QED
    BY <1>1, <1>3, FormsAssumption DEF Ids

(***************************************************************************)
(* A handler under way has a job, on a row of the table.                   *)
(***************************************************************************)
LEMMA JobUnderWay ==
  ASSUME TypeOK, NEW a \in Admins, job[a] # Nil
  PROVE  job[a] \in Job /\ job[a].id \in DOMAIN rows
  BY DEF TypeOK

(***************************************************************************)
(* What is left to do of a job is on the row and the name that were read.  *)
(***************************************************************************)
LEMMA TodoType ==
  ASSUME NEW j \in Job, NEW step \in Step, NEW form \in Forms \cup {Nil}
  PROVE  /\ Todo(j, step, form) \in Job
         /\ Todo(j, step, form).step = step /\ Todo(j, step, form).form = form
         /\ Todo(j, step, form).id = j.id /\ Todo(j, step, form).name = j.name
  BY DEF Todo, Job

(***************************************************************************)
(* After a save a handler is through, or about to delete the old cursor.   *)
(***************************************************************************)
LEMMA SavedType ==
  ASSUME TypeOK, NEW a \in Admins, job[a] # Nil, NEW f \in Forms, Saved(a, f)
  PROVE  /\ job' \in [Admins -> Job \cup {Nil}]
         /\ \A b \in Admins \ {a} : job'[b] = job[b]
         /\ job'[a] = IF job[a].name # f.name THEN Todo(job[a], "cursor", Nil) ELSE Nil
         /\ job'[a] # Nil => job'[a].id \in DOMAIN rows /\ job'[a].step = "cursor"
  <1>1. job[a] \in Job /\ job[a].id \in DOMAIN rows
    BY JobUnderWay
  <1>2. Todo(job[a], "cursor", Nil) \in Job
    BY <1>1, TodoType DEF Step
  <1>3. job' = [job EXCEPT ![a] = IF job[a].name # f.name THEN Todo(job[a], "cursor", Nil) ELSE Nil]
    BY DEF Saved
  <1> QED
    BY <1>1, <1>2, <1>3, TodoType DEF TypeOK, Step

(***************************************************************************)
(* The name a row loses is one of the names.                               *)
(***************************************************************************)
LEMMA UnseenType ==
  ASSUME TypeOK, NEW a \in Admins, job[a] # Nil
  PROVE  Unseen(a) \subseteq Names
  BY RowNames DEF Unseen, Live

(***************************************************************************)
(* Steps of the handlers of the management keep the types.                 *)
(***************************************************************************)
LEMMA ManagementType ==
  ASSUME TypeOK, NEW a \in Admins, UpdateGroup(a) \/ DeleteGroup(a) \/ DeleteRRIndex(a) \/ JobFails(a)
  PROVE  TypeOK'
  <1>1. ASSUME NEW i \in Ids, NEW s \in {"save", "remove"}, Starts(a, s, i) PROVE TypeOK'
    <2> DEFINE j == [step |-> s, id |-> i, name |-> rows[i].name, form |-> Nil]
    <2>1. i \in DOMAIN rows /\ rows[i].name \in Names
      BY <1>1, RowNames DEF Starts, Live
    <2>2. j \in Job
      BY <2>1 DEF Job, Step
    <2>3. job' = [job EXCEPT ![a] = j]
      BY <1>1 DEF Starts
    <2>4. \A b \in Admins : job'[b] = IF b = a THEN j ELSE job[b]
      BY <2>3 DEF TypeOK
    <2>5. job' \in [Admins -> Job \cup {Nil}]
      BY <2>2, <2>3 DEF TypeOK
    <2>6. j.id = i /\ j.step # "insert"
      OBVIOUS
    <2> HIDE DEF j
    <2> QED
      BY <1>1, <2>1, <2>4, <2>5, <2>6 DEF Starts, TypeOK, table, requests, history
  <1>2. ASSUME NEW f \in Forms, SaveUpdates(a, f) PROVE TypeOK'
    <2>1. job[a] # Nil /\ Saved(a, f) /\ f \in Form
      BY <1>2, FormsAssumption DEF SaveUpdates, At
    <2>2. rows' \in Seq(Form) /\ DOMAIN rows' = DOMAIN rows /\ Len(rows') = Len(rows)
      BY <1>2, <2>1, JobUnderWay DEF SaveUpdates, TypeOK
    <2>3. off' \subseteq DOMAIN rows /\ stray' \subseteq Names
      BY <1>2, <2>1, JobUnderWay, UnseenType DEF SaveUpdates, TurnedOff, TypeOK
    <2> QED
      BY <1>2, <2>1, <2>2, <2>3, SavedType DEF SaveUpdates, TypeOK, requests
  <1>3. ASSUME NEW f \in Forms, SaveMisses(a, f) PROVE TypeOK'
    <2>1. job[a] \in Job /\ job[a].id \in DOMAIN rows
      BY <1>3, JobUnderWay DEF SaveMisses, At
    <2>2. Todo(job[a], "insert", f) \in Job
      <3>1. f \in Forms \cup {Nil} /\ "insert" \in Step
        BY DEF Step
      <3> QED
        BY <2>1, <3>1, TodoType
    <2>3. f # Nil
      BY FormsAssumption, NilApart
    <2>4. \A b \in Admins : job'[b] = IF b = a THEN Todo(job[a], "insert", f) ELSE job[b]
      BY <1>3 DEF SaveMisses, TypeOK
    <2>5. job' \in [Admins -> Job \cup {Nil}]
      BY <1>3, <2>2 DEF SaveMisses, TypeOK
    <2>6. /\ Todo(job[a], "insert", f).id = job[a].id
          /\ Todo(job[a], "insert", f).form = f
      BY DEF Todo
    <2> QED
      BY <1>3, <2>1, <2>3, <2>4, <2>5, <2>6 DEF SaveMisses, TypeOK, table, requests, history
  <1>4. CASE SaveInserts(a)
    <2>1. job[a] # Nil /\ Saved(a, job[a].form) /\ job[a].form \in Forms
      BY <1>4, JobUnderWay DEF SaveInserts, At, TypeOK, Job
    <2>2. WithDefaults(job[a].form) \in Form
      BY <2>1, FormsAssumption, WrittenForm
    <2>3. rows' \in Seq(Form) /\ DOMAIN rows' = DOMAIN rows /\ Len(rows') = Len(rows)
      BY <1>4, <2>1, <2>2, JobUnderWay DEF SaveInserts, TypeOK
    <2>4. off' \subseteq DOMAIN rows /\ stray' \subseteq Names
      BY <1>4, <2>1, JobUnderWay, UnseenType DEF SaveInserts, TurnedOff, TypeOK
    <2> QED
      BY <1>4, <2>1, <2>3, <2>4, SavedType DEF SaveInserts, TypeOK, requests
  <1>5. CASE DeleteRow(a)
    <2>1. job[a] \in Job /\ job[a].id \in DOMAIN rows /\ job[a] # Nil
      BY <1>5, JobUnderWay DEF DeleteRow, At
    <2>2. Todo(job[a], "cursor", Nil) \in Job
      BY <2>1, TodoType DEF Step
    <2>3. stray' \subseteq Names /\ raced' \subseteq Admins /\ dead' \subseteq DOMAIN rows
      BY <1>5, <2>1, UnseenType DEF DeleteRow, Updating, TypeOK
    <2> QED
      BY <1>5, <2>1, <2>2, <2>3, TodoType DEF DeleteRow, TypeOK, Step, requests
  <1>6. CASE DeleteRRIndex(a)
    <2>1. job[a] \in Job /\ job[a].name \in Names
      BY <1>6, JobUnderWay DEF DeleteRRIndex, At, Job
    <2>2. NoTurns \in Turns
      BY DEF NoTurns, Turns
    <2>3. cursor' \in [Names -> Nat \cup {Nil}] /\ turns' \in [Names -> Turns]
      BY <1>6, <2>1, <2>2 DEF DeleteRRIndex, TypeOK
    <2> QED
      BY <1>6, <2>3 DEF DeleteRRIndex, TypeOK, table, requests
  <1>7. CASE JobFails(a)
    BY <1>7 DEF JobFails, TypeOK, table, requests
  <1> QED
    BY <1>1, <1>2, <1>3, <1>4, <1>5, <1>6, <1>7 DEF UpdateGroup, DeleteGroup, UpdateRead, DeleteRead

(***************************************************************************)
(* Steps of the requests keep the types.                                   *)
(***************************************************************************)
LEMMA RequestType ==
  ASSUME TypeOK, NEW r \in Requests, Request(r)
  PROVE  TypeOK'
  <1>1. CASE LookupGroup(r)
    BY <1>1, NilApart, FormsAssumption DEF LookupGroup, TypeOK, Live, table, history
  <1>2. CASE NextImageModels(r)
    <2> DEFINE g == snap[r]
               len == g.models
               start == Start(g.name, len)
    <2>1. g \in Form /\ len \in Nat /\ g.name \in Names
      BY <1>2 DEF NextImageModels, TypeOK, Form
    <2>2. Rotated(0, len) \in Seq(Nat)
      BY <2>1, RotatedIsPermutation DEF Begins
    <2>3. ASSUME len > 0
          PROVE  /\ Rotated(start, len) \in Seq(Nat)
                 /\ CursorAfter(start, len) \in Nat
                 /\ Extended(turns[g.name], start, len) \in Turns
      <3>1. start \in 0 .. len - 1 /\ len \in Nat \ {0}
        BY <2>1, <2>3, StartInList
      <3>2. Begins(start, len)
        BY <3>1 DEF Begins
      <3>3. Rotated(start, len) \in Seq(Nat)
        BY <2>1, <3>2, RotatedIsPermutation
      <3>4. CursorAfter(start, len) \in Nat
        BY <3>1, ModInRange DEF CursorAfter
      <3>5. Extended(turns[g.name], start, len) \in Turns
        BY <2>1, <3>1, ExtendedType DEF TypeOK
      <3> QED
        BY <3>3, <3>4, <3>5
    <2>4. order' \in [Requests -> Seq(Nat)]
      BY <1>2, <2>1, <2>2, <2>3 DEF NextImageModels, TypeOK
    <2>5. cursor' \in [Names -> Nat \cup {Nil}] /\ turns' \in [Names -> Turns]
      <3>1. CASE UNCHANGED <<cursor, turns>>
        BY <3>1 DEF TypeOK
      <3>2. CASE /\ len > 0
                 /\ cursor' = [cursor EXCEPT ![g.name] = CursorAfter(start, len)]
                 /\ turns' = [turns EXCEPT ![g.name] = Extended(@, start, len)]
        <4> HIDE DEF start, len, g
        <4> QED
          BY <2>1, <2>3, <3>2 DEF TypeOK
      <3> QED
        BY <1>2, <3>1, <3>2 DEF NextImageModels
    <2>6. stray' \subseteq Names
      BY <1>2, <2>1 DEF NextImageModels, TypeOK
    <2> QED
      BY <1>2, <2>4, <2>5, <2>6 DEF NextImageModels, TypeOK, table
  <1>3. CASE TryOk(r) \/ TryFails(r)
    <2>1. /\ pc[r] = "trying" /\ order[r] # <<>>
          /\ tried' = [tried EXCEPT ![r] = Append(tried[r], Head(order[r]))]
      BY <1>3 DEF TryOk, TryFails, Try
    <2>2. order[r] \in Seq(Nat) /\ tried[r] \in Seq(Nat)
      BY DEF TypeOK
    <2>3. Head(order[r]) \in Nat /\ Tail(order[r]) \in Seq(Nat)
      BY <2>1, <2>2
    <2>4. tried' \in [Requests -> Seq(Nat)]
      BY <2>1, <2>2, <2>3 DEF TypeOK
    <2>5. CASE TryOk(r)
      <3>1. left[r] \in 1 .. MaxImages
        BY <2>1, FormsAssumption DEF TypeOK
      <3>2. left' \in [Requests -> 0 .. MaxImages]
        BY <2>5, <3>1, FormsAssumption DEF TryOk, TypeOK
      <3>3. /\ pc' = [pc EXCEPT ![r] = IF left[r] > 1 THEN "image" ELSE "done"]
            /\ left' = [left EXCEPT ![r] = left[r] - 1] /\ snap' = snap
        BY <2>5 DEF TryOk
      <3>4. pc' \in [Requests -> {"idle", "image", "trying", "done", "failed"}]
        BY <3>3 DEF TypeOK
      <3>5. ASSUME NEW q \in Requests
            PROVE  /\ pc'[q] # "idle" => snap'[q] # Nil
                   /\ pc'[q] \in {"image", "trying"} => left'[q] # 0
        <4>1. CASE q = r
          BY <2>1, <3>1, <3>3, <4>1 DEF TypeOK
        <4>2. CASE q # r
          BY <3>3, <4>2 DEF TypeOK
        <4> QED
          BY <4>1, <4>2
      <3> QED
        BY <2>4, <2>5, <3>2, <3>4, <3>5 DEF TryOk, TypeOK, table, history
    <2>6. CASE TryFails(r)
      BY <2>1, <2>3, <2>4, <2>6 DEF TryFails, TypeOK, table, history
    <2> QED
      BY <1>3, <2>5, <2>6
  <1>4. CASE AllFailed(r)
    BY <1>4 DEF AllFailed, TypeOK, table, history
  <1>5. CASE Return(r)
    BY <1>5, FormsAssumption DEF Return, TypeOK, table, history
  <1> QED
    BY <1>1, <1>2, <1>3, <1>4, <1>5 DEF Request

(***************************************************************************)
(* Every step of every action keeps the types.                             *)
(***************************************************************************)
LEMMA TypeStep == TypeOK /\ [Next]_vars => TypeOK'
  <1> SUFFICES ASSUME TypeOK, [Next]_vars PROVE TypeOK'
    OBVIOUS
  <1>1. ASSUME NEW f \in Forms, CreateGroup(f) PROVE TypeOK'
    <2>1. WithDefaults(f) \in Form /\ Len(rows) + 1 <= MaxRows
      BY <1>1, WrittenForm, FormsAssumption DEF CreateGroup, TypeOK
    <2>2. /\ rows' \in Seq(Form) /\ Len(rows') = Len(rows) + 1
          /\ DOMAIN rows \subseteq DOMAIN rows' /\ Len(rows) + 1 \in DOMAIN rows'
      BY <1>1, <2>1 DEF CreateGroup, TypeOK
    <2>3. off' \subseteq DOMAIN rows'
      BY <1>1, <2>2 DEF CreateGroup, TurnedOff, TypeOK
    <2> QED
      BY <1>1, <2>1, <2>2, <2>3 DEF CreateGroup, TypeOK, requests
  <1>2. ASSUME NEW i \in Ids, ToggleGroup(i) PROVE TypeOK'
    <2>1. i \in DOMAIN rows /\ rows[i] \in Form
      BY <1>2 DEF ToggleGroup, Live, TypeOK
    <2>2. [rows[i] EXCEPT !.enabled = ~rows[i].enabled] \in Form
      BY <2>1 DEF Form
    <2>3. rows' \in Seq(Form) /\ DOMAIN rows' = DOMAIN rows /\ Len(rows') = Len(rows)
      BY <1>2, <2>1, <2>2 DEF ToggleGroup, TypeOK
    <2>4. off' \subseteq DOMAIN rows
      BY <1>2, <2>1 DEF ToggleGroup, TurnedOff, TypeOK
    <2> QED
      BY <1>2, <2>3, <2>4 DEF ToggleGroup, TypeOK, requests
  <1>3. CASE UNCHANGED vars
    BY <1>3 DEF TypeOK, vars, table, requests, history
  <1> QED
    BY <1>1, <1>2, <1>3, ManagementType, RequestType DEF Next

(***************************************************************************)
(* Type correctness of every behaviour: rows, jobs and cursors that nobody *)
(* writes outside modelgroup.go and types.go:208-250.                      *)
(***************************************************************************)
THEOREM TypeCorrect == Spec => []TypeOK
  BY InitType, TypeStep, PTL DEF Spec

-----------------------------------------------------------------------------
(* The table: names, and deletions.                                        *)

(***************************************************************************)
(* What the statements of the table do to its names.  A step keeps the     *)
(* rows, adds one under a name that is not in use, or gives a row a name   *)
(* no other row has.                                                       *)
(***************************************************************************)
LEMMA NamesWritten ==
  ASSUME TypeOK, Next
  PROVE  \/ /\ DOMAIN rows' = DOMAIN rows
            /\ \A j \in DOMAIN rows : rows'[j].name = rows[j].name
         \/ \E f \in Form :
              /\ rows' = Append(rows, f)
              /\ ~Taken(f.name, 0)
         \/ \E i \in DOMAIN rows, f \in Form :
              /\ rows' = [rows EXCEPT ![i] = f]
              /\ ~Taken(f.name, i)
  <1> DEFINE Kept == /\ DOMAIN rows' = DOMAIN rows
                     /\ \A j \in DOMAIN rows : rows'[j].name = rows[j].name
             Added == \E f \in Form : rows' = Append(rows, f) /\ ~Taken(f.name, 0)
             Renamed == \E i \in DOMAIN rows, f \in Form :
                          rows' = [rows EXCEPT ![i] = f] /\ ~Taken(f.name, i)
             Goal == Kept \/ Added \/ Renamed
  <1>0. ASSUME rows' = rows PROVE Kept
    BY <1>0
  <1>1. ASSUME NEW f \in Forms, CreateGroup(f) PROVE Added
    BY <1>1, WrittenForm, FormsAssumption DEF CreateGroup
  <1>2. ASSUME NEW i \in Ids, ToggleGroup(i) PROVE Kept
    <2>1. i \in DOMAIN rows /\ rows[i] \in Form
      BY <1>2 DEF ToggleGroup, Live, TypeOK
    <2>2. [rows[i] EXCEPT !.enabled = ~rows[i].enabled].name = rows[i].name
      BY <2>1 DEF Form
    <2> QED
      BY <1>2, <2>1, <2>2 DEF ToggleGroup, TypeOK
  <1>3. ASSUME NEW a \in Admins, UpdateGroup(a) PROVE Goal
    <2>1. ASSUME NEW i \in Ids, UpdateRead(a, i) PROVE Kept
      BY <1>0, <2>1 DEF UpdateRead, Starts, table
    <2>2. ASSUME NEW f \in Forms, SaveUpdates(a, f) PROVE Renamed
      BY <2>2, FormsAssumption DEF SaveUpdates, Live
    <2>3. ASSUME NEW f \in Forms, SaveMisses(a, f) PROVE Kept
      BY <1>0, <2>3 DEF SaveMisses, table
    <2>4. ASSUME SaveInserts(a) PROVE Renamed
      <3>1. job[a] # Nil /\ job[a].step = "insert"
        BY <2>4 DEF SaveInserts, At
      <3>2. job[a].id \in DOMAIN rows /\ job[a].form \in Forms
        BY <3>1, JobUnderWay DEF TypeOK, Job
      <3> QED
        BY <2>4, <3>2, WrittenForm, FormsAssumption DEF SaveInserts
    <2> HIDE DEF Kept, Added, Renamed
    <2> QED
      BY <1>3, <2>1, <2>2, <2>3, <2>4 DEF UpdateGroup
  <1>4. ASSUME NEW a \in Admins, DeleteGroup(a) \/ DeleteRRIndex(a) \/ JobFails(a) PROVE Kept
    BY <1>0, <1>4 DEF DeleteGroup, DeleteRead, Starts, DeleteRow, DeleteRRIndex, JobFails, table
  <1>5. ASSUME NEW r \in Requests, Request(r) PROVE Kept
    BY <1>0, <1>5
    DEF Request, LookupGroup, NextImageModels, TryOk, TryFails, AllFailed, Return, table
  <1> HIDE DEF Kept, Added, Renamed
  <1> QED
    BY <1>1, <1>2, <1>3, <1>4, <1>5 DEF Next, Kept, Added, Renamed

(***************************************************************************)
(* Names stay unique.                                                      *)
(***************************************************************************)
LEMMA NameStep == TypeOK /\ OneRowPerName /\ [Next]_vars => OneRowPerName'
  <1> SUFFICES ASSUME TypeOK, OneRowPerName, [Next]_vars PROVE OneRowPerName'
    OBVIOUS
  <1>1. CASE UNCHANGED vars
    BY <1>1 DEF OneRowPerName, vars, table
  <1>2. CASE /\ DOMAIN rows' = DOMAIN rows
             /\ \A j \in DOMAIN rows : rows'[j].name = rows[j].name
    BY <1>2 DEF OneRowPerName
  <1>3. ASSUME NEW f \in Form, rows' = Append(rows, f), ~Taken(f.name, 0) PROVE OneRowPerName'
    <2>1. DOMAIN rows = 1 .. Len(rows) /\ DOMAIN rows' = 1 .. Len(rows) + 1
      BY <1>3 DEF TypeOK
    <2>2. \A j \in DOMAIN rows : rows'[j] = rows[j] /\ rows[j].name # f.name
      BY <1>3, <2>1 DEF TypeOK, Taken
    <2>3. rows'[Len(rows) + 1] = f
      BY <1>3 DEF TypeOK
    <2>4. \A j \in DOMAIN rows' : j \in DOMAIN rows \/ j = Len(rows) + 1
      BY <2>1 DEF TypeOK
    <2> QED
      BY <2>2, <2>3, <2>4 DEF OneRowPerName
  <1>4. ASSUME NEW i \in DOMAIN rows, NEW f \in Form,
               rows' = [rows EXCEPT ![i] = f], ~Taken(f.name, i)
        PROVE  OneRowPerName'
    BY <1>4 DEF OneRowPerName, Taken, TypeOK
  <1> QED
    BY <1>1, <1>2, <1>3, <1>4, NamesWritten

(***************************************************************************)
(* No two rows, live or deleted, ever have one name (modelgroup.go:123,    *)
(* 174): a lookup by name is never ambiguous.                              *)
(***************************************************************************)
THEOREM NamesUnique == Spec => []OneRowPerName
  <1>1. Init => OneRowPerName
    BY DEF Init, OneRowPerName
  <1> QED
    BY <1>1, InitType, TypeStep, NameStep, PTL DEF Spec

(***************************************************************************)
(* An update that may bring a row back had read it before its deletion.    *)
(***************************************************************************)
RacedInv ==
    \A a \in Admins :
        /\ At(a, "save") /\ job[a].id \in dead => a \in raced
        /\ At(a, "insert") => a \in raced

(***************************************************************************)
(* An update that will find its row deleted (modelgroup.go:174) was under  *)
(* way when it was deleted; it is reckoned among raced until it ends.      *)
(***************************************************************************)
LEMMA RacedStep == TypeOK /\ RacedInv /\ [Next]_vars => RacedInv'
  <1> SUFFICES ASSUME TypeOK, RacedInv, [Next]_vars PROVE RacedInv'
    OBVIOUS
  <1> USE DEF RacedInv, At
  <1>1. ASSUME UNCHANGED <<job, dead, raced>> PROVE RacedInv'
    BY <1>1
  <1>2. ASSUME NEW a \in Admins, NEW i \in Ids, NEW s \in {"save", "remove"}, Starts(a, s, i)
        PROVE  RacedInv'
    <2>1. i \notin dead /\ UNCHANGED <<dead, raced>>
      BY <1>2 DEF Starts, Live, table, history
    <2>2. \A b \in Admins \ {a} : job'[b] = job[b]
      BY <1>2 DEF Starts, TypeOK
    <2>3. job'[a].id = i /\ job'[a].step # "insert"
      BY <1>2 DEF Starts, TypeOK
    <2> QED
      BY <2>1, <2>2, <2>3
  <1>3. ASSUME NEW a \in Admins, NEW f \in Forms, job[a] # Nil, Saved(a, f),
               raced' = raced \ {a}, dead' \subseteq dead
        PROVE  RacedInv'
    BY <1>3, SavedType
  <1>4. ASSUME NEW a \in Admins, NEW f \in Forms, SaveMisses(a, f) PROVE RacedInv'
    <2>1. a \in raced /\ UNCHANGED <<dead, raced>>
      BY <1>4 DEF SaveMisses, table, history
    <2>2. \A b \in Admins \ {a} : job'[b] = job[b]
      BY <1>4 DEF SaveMisses, TypeOK
    <2> QED
      BY <2>1, <2>2
  <1>5. ASSUME NEW a \in Admins, DeleteRow(a) PROVE RacedInv'
    <2>1. dead' = dead \cup {job[a].id} /\ job[a] # Nil /\ job[a].step = "remove"
      BY <1>5 DEF DeleteRow
    <2>2. raced \subseteq raced' /\ (job[a].id \notin dead => Updating(job[a].id) \subseteq raced')
      BY <1>5 DEF DeleteRow
    <2>3. \A b \in Admins \ {a} : job'[b] = job[b]
      BY <1>5 DEF DeleteRow, TypeOK
    <2>4. job'[a] = Todo(job[a], "cursor", Nil)
      BY <1>5 DEF DeleteRow, TypeOK
    <2>5. job'[a].step = "cursor"
      BY <2>4 DEF Todo
    <2> QED
      BY <2>1, <2>2, <2>3, <2>5 DEF Updating
  <1>6. ASSUME NEW a \in Admins, DeleteRRIndex(a) \/ JobFails(a) PROVE RacedInv'
    BY <1>6 DEF DeleteRRIndex, JobFails, TypeOK, table
  <1>7. ASSUME NEW a \in Admins, UpdateGroup(a) PROVE RacedInv'
    <2>1. ASSUME NEW f \in Forms, SaveUpdates(a, f) PROVE RacedInv'
      BY <2>1, <1>3 DEF SaveUpdates
    <2>2. ASSUME SaveInserts(a) PROVE RacedInv'
      <3>1. job[a] # Nil /\ job[a].form \in Forms
        BY <2>2, JobUnderWay DEF SaveInserts, TypeOK, Job
      <3> QED
        BY <2>2, <3>1, <1>3 DEF SaveInserts
    <2> QED
      BY <1>2, <1>4, <1>7, <2>1, <2>2 DEF UpdateGroup, UpdateRead
  <1>8. ASSUME NEW a \in Admins, DeleteGroup(a) PROVE RacedInv'
    BY <1>2, <1>5, <1>8 DEF DeleteGroup, DeleteRead
  <1>9. ASSUME NEW r \in Requests, Request(r) PROVE UNCHANGED <<job, dead, raced>>
    BY <1>9 DEF Request, LookupGroup, NextImageModels, TryOk, TryFails, AllFailed, Return,
                table, history
  <1>10. ASSUME (\E f \in Forms : CreateGroup(f)) \/ (\E i \in Ids : ToggleGroup(i)) \/ UNCHANGED vars
         PROVE  UNCHANGED <<job, dead, raced>>
    BY <1>10 DEF CreateGroup, ToggleGroup, vars, table, history
  <1> QED
    BY <1>1, <1>6, <1>7, <1>8, <1>9, <1>10 DEF Next

(***************************************************************************)
(* Only the insertion of an update that was under way at its deletion      *)
(* brings a group back.                                                    *)
(***************************************************************************)
LEMMA RevivalStep ==
  ASSUME TypeOK, RacedInv, [Next]_vars, NEW i \in dead \ dead'
  PROVE  \E a \in raced : job[a].id = i /\ job[a].step = "insert" /\ job'[a] # job[a]
  <1>1. ASSUME NEW a \in Admins, SaveInserts(a)
        PROVE  \E b \in raced : job[b].id = i /\ job[b].step = "insert" /\ job'[b] # job[b]
    <2>1. job[a] # Nil /\ job[a].step = "insert" /\ a \in raced /\ job[a].id = i
      BY <1>1 DEF SaveInserts, At, RacedInv
    <2>2. job[a].form \in Forms
      BY <2>1, JobUnderWay DEF TypeOK, Job
    <2>3. job'[a] = Nil \/ job'[a].step = "cursor"
      BY <1>1, <2>1, <2>2, SavedType DEF SaveInserts
    <2> QED
      BY <2>1, <2>3
  <1>2. ASSUME NEW a \in Admins, UpdateGroup(a) \/ DeleteGroup(a) \/ DeleteRRIndex(a) \/ JobFails(a),
               ~SaveInserts(a)
        PROVE  dead \subseteq dead'
    BY <1>2 DEF UpdateGroup, DeleteGroup, UpdateRead, DeleteRead, Starts, SaveUpdates, SaveMisses,
                DeleteRow, DeleteRRIndex, JobFails, table
  <1>3. ASSUME NEW r \in Requests, Request(r) PROVE dead \subseteq dead'
    BY <1>3 DEF Request, LookupGroup, NextImageModels, TryOk, TryFails, AllFailed, Return, table
  <1>4. ASSUME (\E f \in Forms : CreateGroup(f)) \/ (\E j \in Ids : ToggleGroup(j)) \/ UNCHANGED vars
        PROVE  dead \subseteq dead'
    BY <1>4 DEF CreateGroup, ToggleGroup, vars, table
  <1> QED
    BY <1>1, <1>2, <1>3, <1>4 DEF Next

(***************************************************************************)
(* A deleted group stays deleted unless an update was under way on it      *)
(* when it was deleted (modelgroup.go:142, 174, 196).                      *)
(***************************************************************************)
THEOREM DeletionsLast == Spec => DeadForGood
  <1>1. Init => RacedInv
    BY DEF Init, RacedInv, At
  <1>2. TypeOK /\ RacedInv /\ [Next]_vars =>
          [\A i \in dead \ dead' :
             \E a \in raced : job[a].id = i /\ job[a].step = "insert" /\ job'[a] # job[a]]_vars
    BY RevivalStep
  <1> QED
    BY <1>1, <1>2, InitType, TypeStep, RacedStep, PTL DEF Spec, DeadForGood

-----------------------------------------------------------------------------
(* The order of the models.                                                *)

(***************************************************************************)
(* What has been tried and what is left make up the list, begun somewhere; *)
(* nothing is left when the recognition has failed.                        *)
(***************************************************************************)
Queue ==
    \A r \in Requests :
        /\ pc[r] \in {"trying", "failed"} =>
            \E start \in Nat : /\ Begins(start, snap[r].models)
                               /\ tried[r] \o order[r] = Rotated(start, snap[r].models)
        /\ pc[r] = "failed" => order[r] = <<>>

(***************************************************************************)
(* Trying the model at the head takes it from one list to the other.       *)
(***************************************************************************)
LEMMA HeadMoves ==
  ASSUME NEW s \in Seq(Nat), NEW t \in Seq(Nat), t # <<>>
  PROVE  Append(s, Head(t)) \o Tail(t) = s \o t
  OBVIOUS

(***************************************************************************)
(* What a request has tried and what it has still to try are, put together,*)
(* the order it was given, until a description is found.                   *)
(***************************************************************************)
LEMMA QueueStep == TypeOK /\ Queue /\ [Next]_vars => Queue'
  <1> SUFFICES ASSUME TypeOK, Queue, [Next]_vars PROVE Queue'
    OBVIOUS
  <1>1. ASSUME UNCHANGED requests PROVE Queue'
    BY <1>1 DEF Queue, requests
  <1>2. ASSUME NEW r \in Requests, Request(r) PROVE Queue'
    <2> DEFINE Fine(q) ==
                 /\ pc'[q] \in {"trying", "failed"} =>
                      \E start \in Nat : /\ Begins(start, snap'[q].models)
                                         /\ tried'[q] \o order'[q] = Rotated(start, snap'[q].models)
                 /\ pc'[q] = "failed" => order'[q] = <<>>
    <2>1. ASSUME NEW q \in Requests, q # r PROVE Fine(q)
      <3>1. /\ pc'[q] = pc[q] /\ snap'[q] = snap[q]
            /\ tried'[q] = tried[q] /\ order'[q] = order[q]
        BY <1>2, <2>1 DEF Request, LookupGroup, NextImageModels, TryOk, TryFails, Try, AllFailed,
                          Return, TypeOK
      <3> QED
        BY <3>1 DEF Queue
    <2>2. ASSUME LookupGroup(r) \/ TryOk(r) \/ Return(r) PROVE Fine(r)
      BY <2>2 DEF LookupGroup, TryOk, Return, TypeOK
    <2>3. ASSUME NextImageModels(r) PROVE Fine(r)
      <3> DEFINE len == snap[r].models
                 start == Start(snap[r].name, len)
      <3>1. snap[r] \in Form /\ len \in Nat /\ snap[r].name \in Names
        BY <2>3 DEF NextImageModels, TypeOK, Form
      <3>2. pc'[r] = "trying" /\ snap'[r] = snap[r] /\ tried'[r] = <<>>
        BY <2>3 DEF NextImageModels, TypeOK
      <3>3. order'[r] = Rotated(0, len) \/ (len > 0 /\ order'[r] = Rotated(start, len))
        <4>1. \/ order' = [order EXCEPT ![r] = Rotated(0, len)]
              \/ (len > 0 /\ order' = [order EXCEPT ![r] = Rotated(start, len)])
          BY <2>3 DEF NextImageModels
        <4> HIDE DEF len, start
        <4> QED
          BY <4>1 DEF TypeOK
      <3>4. \E s \in Nat : Begins(s, len) /\ order'[r] = Rotated(s, len)
        <4>1. len > 0 => start \in 0 .. len - 1
          BY <3>1, StartInList
        <4> QED
          BY <3>1, <3>3, <4>1 DEF Begins
      <3>5. PICK s \in Nat : Begins(s, len) /\ order'[r] = Rotated(s, len)
        BY <3>4
      <3>6. Rotated(s, len) \in Seq(Nat)
        BY <3>1, <3>5, RotatedIsPermutation
      <3>7. <<>> \o Rotated(s, len) = Rotated(s, len)
        BY <3>6
      <3> QED
        BY <3>2, <3>5, <3>7
    <2>4. ASSUME TryFails(r) PROVE Fine(r)
      <3>1. /\ pc[r] = "trying" /\ order[r] # <<>> /\ UNCHANGED <<pc, snap>>
            /\ tried'[r] = Append(tried[r], Head(order[r])) /\ order'[r] = Tail(order[r])
        BY <2>4 DEF TryFails, Try, TypeOK
      <3>2. tried[r] \in Seq(Nat) /\ order[r] \in Seq(Nat)
        BY DEF TypeOK
      <3>3. tried'[r] \o order'[r] = tried[r] \o order[r]
        BY <3>1, <3>2, HeadMoves
      <3> QED
        BY <3>1, <3>3 DEF Queue
    <2>5. ASSUME AllFailed(r) PROVE Fine(r)
      BY <2>5 DEF AllFailed, Queue, TypeOK
    <2>6. Fine(r)
      BY <1>2, <2>2, <2>3, <2>4, <2>5 DEF Request
    <2> HIDE DEF Fine
    <2>7. \A q \in Requests : Fine(q)
      BY <2>1, <2>6
    <2> QED
      BY <2>7 DEF Fine, Queue
  <1>3. ASSUME NEW a \in Admins, UpdateGroup(a) \/ DeleteGroup(a) \/ DeleteRRIndex(a) \/ JobFails(a)
        PROVE  UNCHANGED requests
    BY <1>3 DEF UpdateGroup, DeleteGroup, UpdateRead, DeleteRead, Starts, SaveUpdates, SaveMisses,
                SaveInserts, DeleteRow, DeleteRRIndex, JobFails
  <1> QED
    BY <1>1, <1>2, <1>3 DEF Next, CreateGroup, ToggleGroup, vars

(***************************************************************************)
(* A list that has been tried to its end has been tried whole, and no      *)
(* model of it twice.                                                      *)
(***************************************************************************)
LEMMA QueueTriesAll == TypeOK /\ Queue => TriesAll
  <1> SUFFICES ASSUME TypeOK, Queue, NEW r \in Requests, pc[r] = "failed"
               PROVE  IsInjective(tried[r]) /\ ToSet(tried[r]) = 1 .. snap[r].models
    BY DEF TriesAll
  <1>1. snap[r] \in Form /\ snap[r].models \in Nat /\ tried[r] \in Seq(Nat) /\ order[r] = <<>>
    BY DEF TypeOK, Queue, Form
  <1>2. PICK start \in Nat : /\ Begins(start, snap[r].models)
                             /\ tried[r] \o order[r] = Rotated(start, snap[r].models)
    BY DEF Queue
  <1>3. tried[r] = Rotated(start, snap[r].models)
    BY <1>1, <1>2
  <1> QED
    BY <1>1, <1>2, <1>3, RotatedIsPermutation

(***************************************************************************)
(* A recognition fails only after every model of the group has been tried, *)
(* each once (types.go:208-230, image.go:184-207).                         *)
(***************************************************************************)
THEOREM AllTried == Spec => []TriesAll
  <1>1. Init => Queue
    BY DEF Init, Queue
  <1> QED
    BY <1>1, InitType, TypeStep, QueueStep, QueueTriesAll, PTL DEF Spec

-----------------------------------------------------------------------------
(* The turns.                                                              *)

\* The turns t are n models in a row, and a cursor c names the one after them.
InTurn(t, c) ==
    \E start \in 0 .. t.models - 1 :
        /\ Len(t.first) <= t.models
        /\ \A i \in 1 .. Len(t.first) : t.first[i] = Place(start, i - 1, t.models)
        /\ c = Place(start, Len(t.first), t.models)

(***************************************************************************)
(* The cursor of a name goes round its list.                               *)
(***************************************************************************)
Rotation == \A n \in Names : turns[n].first # <<>> => InTurn(turns[n], cursor[n])

(***************************************************************************)
(* One place further is one place further.                                 *)
(***************************************************************************)
LEMMA PlaceNext ==
  ASSUME NEW len \in Nat \ {0}, NEW s \in 0 .. len - 1, NEW k \in 0 .. len - 1
  PROVE  /\ Place(s, k, len) \in 0 .. len - 1
         /\ Place(s, k, len) % len = Place(s, k, len)
         /\ (Place(s, k, len) + 1) % len = Place(s, k + 1, len)
  <1> DEFINE p == Place(s, k, len)
  <1>1. p \in 0 .. len - 1
    BY DEF Place
  <1>2. (IF p + 1 < len THEN p + 1 ELSE 0) = Place(s, k + 1, len)
    BY DEF Place
  <1> HIDE DEF p
  <1>3. p % len = p /\ (p + 1) % len = IF p + 1 < len THEN p + 1 ELSE 0
    BY <1>1, ModNext
  <1> QED
    BY <1>1, <1>2, <1>3 DEF p

(***************************************************************************)
(* Counting from the second place instead of the first.                    *)
(***************************************************************************)
LEMMA PlaceShift ==
  ASSUME NEW len \in Nat \ {0}, NEW s \in 0 .. len - 1, NEW k \in 1 .. len
  PROVE  /\ Place(s, 1, len) \in 0 .. len - 1
         /\ Place(Place(s, 1, len), k - 1, len) = Place(s, k, len)
  BY DEF Place

(***************************************************************************)
(* Turns taken from a place on are in turn.                                *)
(***************************************************************************)
LEMMA TurnsFrom ==
  ASSUME NEW u, NEW c, NEW len \in Nat \ {0}, NEW s \in 0 .. len - 1,
         u.models = len, Len(u.first) <= len,
         \A i \in 1 .. Len(u.first) : u.first[i] = Place(s, i - 1, len),
         c = Place(s, Len(u.first), len)
  PROVE  InTurn(u, c)
  BY DEF InTurn

(***************************************************************************)
(* The next request in turn starts where the cursor is, and moves it on.   *)
(***************************************************************************)
LEMMA ExtendedInTurn ==
  ASSUME NEW t \in Turns, NEW c \in Nat, NEW len \in Nat \ {0}, NEW start \in 0 .. len - 1,
         t.first # <<>> => InTurn(t, c),
         t.first # <<>> /\ t.models = len => start = c % len
  PROVE  InTurn(Extended(t, start, len), CursorAfter(start, len))
  <1> DEFINE u == Extended(t, start, len)
  <1>1. (start + 1) % len = Place(start, 1, len) /\ Place(start, 0, len) = start
    <2>1. (start + 1) % len = IF start + 1 < len THEN start + 1 ELSE 0
      BY ModNext
    <2> QED
      BY <2>1 DEF Place
  <1>2. t \in [models : Nat, first : Seq(Nat)]
    BY DEF Turns
  <1>3. CASE t.models # len \/ t.first = <<>>
    <2>1. u.models = len
      BY DEF Extended
    <2>2. ASSUME t.models # len PROVE Len(u.first) = 1 /\ u.first[1] = start
      BY <2>2 DEF Extended
    <2>3. ASSUME t.models = len, t.first = <<>> PROVE Len(u.first) = 1 /\ u.first[1] = start
      <3>1. Len(t.first) = 0 /\ t.first \in Seq(Nat)
        BY <1>2, <2>3
      <3>2. u.first = Append(t.first, start)
        BY <2>3, <3>1 DEF Extended
      <3> QED
        BY <3>1, <3>2
    <2>4. Len(u.first) = 1 /\ u.first[1] = start
      BY <1>3, <2>2, <2>3
    <2>5. \A i \in 1 .. Len(u.first) : u.first[i] = Place(start, i - 1, len)
      <3>1. \A i \in 1 .. Len(u.first) : i = 1
        BY <2>4
      <3>2. u.first[1] = Place(start, 1 - 1, len)
        BY <1>1, <2>4
      <3> QED
        BY <3>1, <3>2
    <2>6. CursorAfter(start, len) = Place(start, Len(u.first), len)
      BY <1>1, <2>4 DEF CursorAfter
    <2>7. Len(u.first) <= len
      BY <2>4
    <2> QED
      BY <2>1, <2>5, <2>6, <2>7, TurnsFrom
  <1>4. CASE t.models = len /\ t.first # <<>>
    <2>1. PICK s \in 0 .. len - 1 :
            /\ Len(t.first) <= len
            /\ \A i \in 1 .. Len(t.first) : t.first[i] = Place(s, i - 1, len)
            /\ c = Place(s, Len(t.first), len)
      BY <1>4 DEF InTurn
    <2> DEFINE n == Len(t.first)
    <2>2. n \in 1 .. len
      BY <1>2, <1>4, <2>1
    <2>3. CASE n < len
      <3>0. n \in 0 .. len - 1 /\ c = Place(s, n, len) /\ start = c % len
        BY <1>4, <2>1, <2>2, <2>3
      <3>1. start = Place(s, n, len) /\ (start + 1) % len = Place(s, n + 1, len)
        BY <3>0, PlaceNext
      <3>2. u.models = len /\ u.first = Append(t.first, start)
        BY <1>4, <2>3 DEF Extended
      <3>3. /\ Len(u.first) = n + 1
            /\ \A i \in 1 .. n + 1 : u.first[i] = IF i <= n THEN t.first[i] ELSE start
        BY <1>2, <3>2
      <3>4. \A i \in 1 .. n + 1 : u.first[i] = Place(s, i - 1, len)
        <4>1. ASSUME NEW i \in 1 .. n PROVE u.first[i] = Place(s, i - 1, len)
          <5>1. t.first[i] = Place(s, i - 1, len)
            BY <2>1
          <5>2. i \in 1 .. n + 1 /\ i <= n
            BY <2>2
          <5>3. u.first[i] = t.first[i]
            BY <3>3, <5>2
          <5> QED
            BY <5>1, <5>3
        <4>2. u.first[n + 1] = Place(s, (n + 1) - 1, len)
          <5>1. n + 1 \in 1 .. n + 1 /\ ~(n + 1 <= n) /\ (n + 1) - 1 = n
            BY <2>2
          <5>2. u.first[n + 1] = start
            BY <3>3, <5>1
          <5> QED
            BY <3>1, <5>1, <5>2
        <4>3. \A i \in 1 .. n + 1 : i \in 1 .. n \/ i = n + 1
          BY <2>2
        <4> QED
          BY <4>1, <4>2, <4>3
      <3>5. CursorAfter(start, len) = Place(s, Len(u.first), len)
        BY <3>1, <3>3 DEF CursorAfter
      <3>6. Len(u.first) <= len /\ 1 .. n + 1 = 1 .. Len(u.first)
        BY <2>2, <2>3, <3>3
      <3> QED
        BY <3>2, <3>4, <3>5, <3>6, TurnsFrom
    <2>4. CASE n = len
      <3> DEFINE z == Place(s, 1, len)
      <3>1. c = s
        BY <2>1, <2>4 DEF Place
      <3>2. start = s
        BY <1>4, <3>1, <2>2, ModOnce
      <3>3. u.models = len /\ u.first = Append(Tail(t.first), start)
        BY <1>4, <2>4 DEF Extended
      <3>4. /\ Len(u.first) = n
            /\ \A i \in 1 .. n : u.first[i] = IF i < n THEN t.first[i + 1] ELSE start
        BY <1>2, <1>4, <2>2, <3>3
      <3>5. z \in 0 .. len - 1 /\ Place(z, len - 1, len) = s
        BY <2>2, PlaceShift DEF Place
      <3>6. ASSUME NEW i \in 1 .. n PROVE u.first[i] = Place(z, i - 1, len)
        <4>1. CASE i < n
          <5>1. u.first[i] = Place(s, i, len)
            BY <2>1, <2>2, <3>4, <4>1
          <5> QED
            BY <2>2, <2>4, <5>1, PlaceShift
        <4>2. CASE i = n
          BY <2>4, <3>2, <3>4, <3>5, <4>2
        <4> QED
          BY <4>1, <4>2
      <3>7. (start + 1) % len = Place(z, n, len)
        BY <1>1, <2>4, <3>2, <3>5 DEF Place
      <3>8. CursorAfter(start, len) = Place(z, Len(u.first), len)
        BY <3>4, <3>7 DEF CursorAfter
      <3>9. Len(u.first) <= len /\ \A i \in 1 .. Len(u.first) : u.first[i] = Place(z, i - 1, len)
        BY <2>4, <3>4, <3>6
      <3> HIDE DEF z
      <3> QED
        BY <3>3, <3>5, <3>8, <3>9, TurnsFrom
    <2> QED
      BY <2>2, <2>3, <2>4
  <1> QED
    BY <1>3, <1>4

(***************************************************************************)
(* Only requests move a cursor, and only on; only DeleteRRIndex removes    *)
(* it, and with it the turns.                                              *)
(***************************************************************************)
LEMMA RotationStep == TypeOK /\ Rotation /\ [Next]_vars => Rotation'
  <1> SUFFICES ASSUME TypeOK, Rotation, [Next]_vars PROVE Rotation'
    OBVIOUS
  <1>1. ASSUME UNCHANGED <<cursor, turns>> PROVE Rotation'
    BY <1>1 DEF Rotation
  <1>2. ASSUME NEW r \in Requests, NextImageModels(r) PROVE Rotation'
    <2> DEFINE g == snap[r]
               len == g.models
               start == Start(g.name, len)
    <2>1. len \in Nat /\ g.name \in Names
      BY <1>2 DEF NextImageModels, TypeOK, Form
    <2>2. CASE /\ len > 0
               /\ cursor' = [cursor EXCEPT ![g.name] = CursorAfter(start, len)]
               /\ turns' = [turns EXCEPT ![g.name] = Extended(@, start, len)]
      <3>1. start \in 0 .. len - 1 /\ len \in Nat \ {0}
        BY <2>1, <2>2, StartInList
      <3> DEFINE t == turns[g.name]
                 c == IF cursor[g.name] = Nil THEN 0 ELSE cursor[g.name]
      <3>2. t \in Turns /\ c \in Nat
        BY <2>1 DEF TypeOK
      <3>3. ASSUME t.first # <<>> PROVE InTurn(t, c)
        <4>1. InTurn(t, cursor[g.name])
          BY <2>1, <3>3 DEF Rotation
        <4>2. t.models \in Nat
          BY <3>2 DEF Turns
        <4>3. PICK s \in 0 .. t.models - 1 : cursor[g.name] = Place(s, Len(t.first), t.models)
          BY <4>1 DEF InTurn
        <4>4. Len(t.first) \in Nat
          BY <3>2 DEF Turns
        <4>5. Place(s, Len(t.first), t.models) \in Nat
          BY <4>2, <4>4, PlaceRange
        <4>6. cursor[g.name] # Nil
          BY <4>3, <4>5, NilApart
        <4> QED
          BY <4>1, <4>6
      <3>4. start = c % len
        BY DEF Start
      <3>5. InTurn(Extended(t, start, len), CursorAfter(start, len))
        <4> HIDE DEF start, t, c
        <4> QED
          BY <3>1, <3>2, <3>3, <3>4, ExtendedInTurn
      <3>6. \A n \in Names : n # g.name => turns'[n] = turns[n] /\ cursor'[n] = cursor[n]
        BY <2>2 DEF TypeOK
      <3>7. turns'[g.name] = Extended(t, start, len) /\ cursor'[g.name] = CursorAfter(start, len)
        BY <2>1, <2>2 DEF TypeOK
      <3> HIDE DEF start, t, len, g
      <3> QED
        BY <3>5, <3>6, <3>7 DEF Rotation
    <2>3. CASE UNCHANGED <<cursor, turns>>
      BY <1>1, <2>3
    <2> QED
      BY <1>2, <2>2, <2>3 DEF NextImageModels
  <1>3. ASSUME NEW a \in Admins, DeleteRRIndex(a) PROVE Rotation'
    <2>1. job[a].name \in Names
      BY <1>3, JobUnderWay DEF DeleteRRIndex, At, Job
    <2>2. \A n \in Names : n # job[a].name => turns'[n] = turns[n] /\ cursor'[n] = cursor[n]
      BY <1>3 DEF DeleteRRIndex, TypeOK
    <2>3. turns'[job[a].name].first = <<>>
      BY <1>3, <2>1 DEF DeleteRRIndex, TypeOK, NoTurns
    <2> QED
      BY <2>2, <2>3 DEF Rotation
  <1>4. ASSUME NEW r \in Requests, Request(r), ~NextImageModels(r) PROVE Rotation'
    BY <1>1, <1>4 DEF Request, LookupGroup, TryOk, TryFails, AllFailed, Return, history
  <1>5. ASSUME NEW a \in Admins, UpdateGroup(a) \/ DeleteGroup(a) \/ JobFails(a) PROVE Rotation'
    BY <1>1, <1>5 DEF UpdateGroup, DeleteGroup, UpdateRead, DeleteRead, Starts, SaveUpdates,
                      SaveMisses, SaveInserts, DeleteRow, JobFails, history
  <1> QED
    BY <1>1, <1>2, <1>3, <1>4, <1>5 DEF Next, CreateGroup, ToggleGroup, vars, history

(***************************************************************************)
(* As many turns in a row as the list has models begin with different      *)
(* ones.                                                                   *)
(***************************************************************************)
LEMMA RotationIsFair == TypeOK /\ Rotation => FairTurns
  <1> SUFFICES ASSUME TypeOK, Rotation, NEW n \in Names PROVE IsInjective(turns[n].first)
    BY DEF FairTurns
  <1>1. turns[n].models \in Nat /\ turns[n].first \in Seq(Nat)
    BY DEF TypeOK, Turns
  <1>2. CASE turns[n].first = <<>>
    BY <1>2 DEF IsInjective
  <1>3. CASE turns[n].first # <<>>
    <2> DEFINE f == turns[n].first
               len == turns[n].models
    <2>1. PICK s \in 0 .. len - 1 :
            Len(f) <= len /\ \A i \in 1 .. Len(f) : f[i] = Place(s, i - 1, len)
      BY <1>3 DEF Rotation, InTurn
    <2>2. ASSUME NEW i \in 1 .. Len(f), NEW j \in 1 .. Len(f), f[i] = f[j] PROVE i = j
      <3>0. len \in Nat /\ Len(f) \in Nat /\ Len(f) <= len
        BY <1>1, <2>1
      <3> HIDE DEF len, f
      <3>1. i - 1 \in 0 .. len - 1 /\ j - 1 \in 0 .. len - 1
        BY <3>0
      <3>2. Place(s, i - 1, len) = Place(s, j - 1, len)
        BY <2>1, <2>2
      <3>3. \A k, l \in 0 .. len - 1 : Place(s, k, len) = Place(s, l, len) => k = l
        BY <3>0 DEF Place
      <3>4. i - 1 = j - 1
        BY <3>1, <3>2, <3>3
      <3>5. i \in Int /\ j \in Int
        BY <3>1
      <3> QED
        BY <3>4, <3>5
    <2>3. DOMAIN f = 1 .. Len(f)
      BY <1>1
    <2> HIDE DEF f
    <2>4. \A i, j \in DOMAIN f : f[i] = f[j] => i = j
      BY <2>2, <2>3
    <2>5. IsInjective(f)
      BY <2>4 DEF IsInjective
    <2> QED
      BY <2>5 DEF f
  <1> QED
    BY <1>2, <1>3

(***************************************************************************)
(* The image models of a group take turns, however many requests share its *)
(* cursor (types.go:220-224).                                              *)
(***************************************************************************)
THEOREM TurnsAreFair == Spec => []FairTurns
  <1>1. Init => Rotation
    BY DEF Init, Rotation, NoTurns
  <1> QED
    BY <1>1, InitType, TypeStep, RotationStep, RotationIsFair, PTL DEF Spec

-----------------------------------------------------------------------------
(* Who owns a cursor.                                                      *)

\* Somebody answers for a cursor under the name n.
Owned(n) ==
    \/ n \in LiveNames \cup stray
    \/ \E a \in Admins : At(a, "cursor") /\ job[a].name = n

(***************************************************************************)
(* A handler that writes row i under a new name, or none, answers for the  *)
(* name that is lost.                                                      *)
(***************************************************************************)
LEMMA NameLost ==
  ASSUME TypeOK, NEW a \in Admins, job[a] # Nil, NEW f \in Form,
         job[a].id \in DOMAIN rows, rows' = [rows EXCEPT ![job[a].id] = f], dead' \subseteq dead,
         stray' = stray \cup (Unseen(a) \ {f.name}),
         job[a].name # f.name => job'[a] = Todo(job[a], "cursor", Nil),
         ~At(a, "cursor"), \A b \in Admins \ {a} : job'[b] = job[b],
         job[a].id \notin dead',
         NEW n \in Names, Owned(n)
  PROVE  Owned(n)'
  <1> DEFINE i == job[a].id
  <1>1. \A j \in DOMAIN rows : j # i => rows'[j] = rows[j]
    BY DEF TypeOK
  <1>2. DOMAIN rows' = DOMAIN rows /\ rows'[i] = f
    BY DEF TypeOK
  <1>3. CASE n \in stray
    BY <1>3 DEF Owned
  <1>4. ASSUME NEW b \in Admins, At(b, "cursor"), job[b].name = n PROVE Owned(n)'
    <2>1. b # a /\ job'[b] = job[b]
      BY <1>4
    <2> QED
      BY <1>4, <2>1 DEF Owned, At
  <1>5. ASSUME NEW j \in Live, rows[j].name = n PROVE Owned(n)'
    <2>1. CASE j # i
      BY <1>1, <1>2, <1>5, <2>1 DEF Owned, LiveNames, Live
    <2>2. CASE j = i /\ f.name = n
      BY <1>2, <1>5, <2>2 DEF Owned, LiveNames, Live
    <2>3. CASE j = i /\ f.name # n /\ job[a].name # n
      <3>1. Unseen(a) = {n}
        BY <1>5, <2>3 DEF Unseen
      <3> QED
        BY <2>3, <3>1 DEF Owned
    <2>4. CASE j = i /\ f.name # n /\ job[a].name = n
      <3>1. job'[a].step = "cursor" /\ job'[a].name = n /\ job'[a] # Nil
        <4>1. Todo(job[a], "cursor", Nil) \in Job
          BY JobUnderWay, TodoType DEF Step
        <4>2. job'[a] = Todo(job[a], "cursor", Nil)
          BY <2>4
        <4>3. Todo(job[a], "cursor", Nil).step = "cursor" /\ Todo(job[a], "cursor", Nil).name = n
          BY <2>4 DEF Todo
        <4> QED
          BY <4>1, <4>2, <4>3, NilApart
      <3> QED
        BY <3>1 DEF Owned, At
    <2> QED
      BY <2>1, <2>2, <2>3, <2>4
  <1> QED
    BY <1>3, <1>4, <1>5 DEF Owned, LiveNames

(***************************************************************************)
(* A cursor set anew, or left while the rows change, has its owner.        *)
(***************************************************************************)
LEMMA OwnedStep == TypeOK /\ CursorsOwned /\ [Next]_vars => CursorsOwned'
  <1> SUFFICES ASSUME TypeOK, CursorsOwned, [Next]_vars PROVE CursorsOwned'
    OBVIOUS
  <1>0. ASSUME \A n \in Names : Owned(n) => Owned(n)', UNCHANGED cursor PROVE CursorsOwned'
    BY <1>0 DEF CursorsOwned, Owned
  <1>1. ASSUME UNCHANGED <<rows, dead, stray>>,
               \A a \in Admins : At(a, "cursor") => job'[a] = job[a], UNCHANGED cursor
        PROVE  CursorsOwned'
    <2>1. ASSUME NEW n \in Names, Owned(n) PROVE Owned(n)'
      BY <1>1, <2>1 DEF Owned, LiveNames, Live, At
    <2> QED
      BY <1>0, <1>1, <2>1
  <1>2. ASSUME NEW f \in Forms, CreateGroup(f) PROVE CursorsOwned'
    <2>1. UNCHANGED <<dead, job, stray, cursor>>
      BY <1>2 DEF CreateGroup
    <2>2. DOMAIN rows \subseteq DOMAIN rows' /\ \A j \in DOMAIN rows : rows'[j] = rows[j]
      BY <1>2 DEF CreateGroup, TypeOK
    <2>3. \A n \in Names : Owned(n) => Owned(n)'
      BY <2>1, <2>2 DEF Owned, LiveNames, Live, At
    <2> QED
      BY <1>0, <2>1, <2>3
  <1>3. ASSUME NEW i \in Ids, ToggleGroup(i) PROVE CursorsOwned'
    <2>1. UNCHANGED <<dead, job, stray, cursor>>
      BY <1>3 DEF ToggleGroup
    <2>2. i \in DOMAIN rows /\ rows[i] \in Form
      BY <1>3 DEF ToggleGroup, Live, TypeOK
    <2>3. [rows[i] EXCEPT !.enabled = ~rows[i].enabled].name = rows[i].name
      BY <2>2 DEF Form
    <2>4. DOMAIN rows' = DOMAIN rows /\ \A j \in DOMAIN rows : rows'[j].name = rows[j].name
      BY <1>3, <2>2, <2>3 DEF ToggleGroup, TypeOK
    <2>5. \A n \in Names : Owned(n) => Owned(n)'
      BY <2>1, <2>4 DEF Owned, LiveNames, Live, At
    <2> QED
      BY <1>0, <2>1, <2>5
  <1>4. ASSUME NEW a \in Admins, UpdateGroup(a) PROVE CursorsOwned'
    <2>1. ASSUME NEW i \in Ids, UpdateRead(a, i) PROVE CursorsOwned'
      BY <2>1, <1>1 DEF UpdateRead, Starts, At, TypeOK, table, history
    <2>2. ASSUME NEW f \in Forms, SaveUpdates(a, f) PROVE CursorsOwned'
      <3>1. /\ job[a] # Nil /\ Saved(a, f) /\ f \in Form /\ ~At(a, "cursor")
            /\ job[a].id \in DOMAIN rows /\ job[a].id \notin dead'
            /\ rows' = [rows EXCEPT ![job[a].id] = f] /\ dead' \subseteq dead
            /\ stray' = stray \cup (Unseen(a) \ {f.name}) /\ UNCHANGED cursor
        BY <2>2, FormsAssumption DEF SaveUpdates, At, Live
      <3>2. /\ job[a].name # f.name => job'[a] = Todo(job[a], "cursor", Nil)
            /\ \A b \in Admins \ {a} : job'[b] = job[b]
        BY <3>1, SavedType
      <3>3. \A n \in Names : Owned(n) => Owned(n)'
        BY <3>1, <3>2, NameLost
      <3> QED
        BY <1>0, <3>1, <3>3
    <2>3. ASSUME NEW f \in Forms, SaveMisses(a, f) PROVE CursorsOwned'
      BY <2>3, <1>1 DEF SaveMisses, At, TypeOK, table, history
    <2>4. ASSUME SaveInserts(a) PROVE CursorsOwned'
      <3> DEFINE f == WithDefaults(job[a].form)
      <3>1. job[a] # Nil /\ job[a].form \in Forms /\ job[a].id \in DOMAIN rows
        BY <2>4, JobUnderWay DEF SaveInserts, At, TypeOK, Job
      <3>2. f \in Form /\ f.name = job[a].form.name
        BY <3>1, FormsAssumption, WrittenForm
      <3>3. /\ Saved(a, job[a].form) /\ ~At(a, "cursor") /\ job[a].id \notin dead'
            /\ rows' = [rows EXCEPT ![job[a].id] = f] /\ dead' \subseteq dead
            /\ stray' = stray \cup (Unseen(a) \ {f.name}) /\ UNCHANGED cursor
        BY <2>4, <3>2 DEF SaveInserts, At
      <3>4. /\ job[a].name # f.name => job'[a] = Todo(job[a], "cursor", Nil)
            /\ \A b \in Admins \ {a} : job'[b] = job[b]
        BY <3>1, <3>2, <3>3, SavedType
      <3>5. \A n \in Names : Owned(n) => Owned(n)'
        <4> HIDE DEF f
        <4> QED
          BY <3>1, <3>2, <3>3, <3>4, NameLost
      <3> QED
        BY <1>0, <3>3, <3>5
    <2> QED
      BY <1>4, <2>1, <2>2, <2>3, <2>4 DEF UpdateGroup
  <1>5. ASSUME NEW a \in Admins, DeleteRow(a) PROVE CursorsOwned'
    <2>1. /\ job[a] # Nil /\ job[a] \in Job /\ ~At(a, "cursor")
          /\ dead' = dead \cup {job[a].id} /\ stray' = stray \cup Unseen(a)
          /\ UNCHANGED <<rows, cursor>>
      BY <1>5, JobUnderWay DEF DeleteRow, At
    <2>2. /\ job'[a] = Todo(job[a], "cursor", Nil)
          /\ \A b \in Admins \ {a} : job'[b] = job[b]
      BY <1>5 DEF DeleteRow, TypeOK
    <2>3. Todo(job[a], "cursor", Nil) \in Job
      BY <2>1, TodoType DEF Step
    <2>4. At(a, "cursor")' /\ job'[a].name = job[a].name
      BY <2>2, <2>3, NilApart DEF At, Todo
    <2>5. ASSUME NEW n \in Names, Owned(n) PROVE Owned(n)'
      <3>1. CASE n \in stray
        BY <2>1, <3>1 DEF Owned
      <3>2. ASSUME NEW b \in Admins, At(b, "cursor"), job[b].name = n PROVE Owned(n)'
        BY <2>1, <2>2, <3>2 DEF Owned, At
      <3>3. ASSUME NEW j \in Live, rows[j].name = n PROVE Owned(n)'
        <4>1. CASE j # job[a].id
          BY <2>1, <3>3, <4>1 DEF Owned, LiveNames, Live
        <4>2. CASE j = job[a].id /\ job[a].name = n
          BY <2>4, <4>2 DEF Owned
        <4>3. CASE j = job[a].id /\ job[a].name # n
          BY <2>1, <3>3, <4>3 DEF Owned, Unseen
        <4> QED
          BY <4>1, <4>2, <4>3
      <3> QED
        BY <2>5, <3>1, <3>2, <3>3 DEF Owned, LiveNames
    <2> QED
      BY <1>0, <2>1, <2>5
  <1>6. ASSUME NEW a \in Admins, DeleteRRIndex(a) PROVE CursorsOwned'
    <2>1. job[a] \in Job /\ job[a].name \in Names /\ job[a] # Nil
      BY <1>6, JobUnderWay DEF DeleteRRIndex, At, Job
    <2>2. /\ cursor'[job[a].name] = Nil /\ UNCHANGED <<rows, dead>>
          /\ stray' = stray \ {job[a].name}
          /\ \A n \in Names : n # job[a].name => cursor'[n] = cursor[n]
          /\ \A b \in Admins \ {a} : job'[b] = job[b]
      BY <1>6, <2>1 DEF DeleteRRIndex, TypeOK, table
    <2>3. ASSUME NEW n \in Names, n # job[a].name, Owned(n) PROVE Owned(n)'
      BY <2>2, <2>3 DEF Owned, LiveNames, Live, At
    <2> QED
      BY <2>2, <2>3 DEF CursorsOwned, Owned
  <1>7. ASSUME NEW a \in Admins, JobFails(a) PROVE CursorsOwned'
    BY <1>7, <1>1 DEF JobFails, At, TypeOK, table
  <1>8. ASSUME NEW a \in Admins, DeleteGroup(a) PROVE CursorsOwned'
    <2>1. ASSUME NEW i \in Ids, DeleteRead(a, i) PROVE CursorsOwned'
      BY <2>1, <1>1 DEF DeleteRead, Starts, At, TypeOK, table, history
    <2> QED
      BY <1>5, <1>8, <2>1 DEF DeleteGroup
  <1>9. ASSUME NEW r \in Requests, NextImageModels(r) PROVE CursorsOwned'
    <2>1. UNCHANGED <<rows, dead, job>> /\ stray \subseteq stray'
      BY <1>9 DEF NextImageModels, table
    <2>2. ASSUME NEW n \in Names, Owned(n) PROVE Owned(n)'
      BY <2>1, <2>2 DEF Owned, LiveNames, Live, At
    <2>3. ASSUME NEW n \in Names, cursor'[n] # cursor[n] PROVE Owned(n)'
      <3>1. snap[r].name = n /\ n \in stray' \cup LiveNames
        BY <1>9, <2>3 DEF NextImageModels, TypeOK
      <3> QED
        BY <2>1, <3>1 DEF Owned, LiveNames, Live
    <2> QED
      BY <2>2, <2>3 DEF CursorsOwned, Owned
  <1>10. ASSUME NEW r \in Requests, Request(r), ~NextImageModels(r) PROVE CursorsOwned'
    BY <1>1, <1>10 DEF Request, LookupGroup, TryOk, TryFails, AllFailed, Return, table, history
  <1>11. CASE UNCHANGED vars
    BY <1>1, <1>11 DEF vars, table, history
  <1> QED
    BY <1>2, <1>3, <1>4, <1>6, <1>7, <1>8, <1>9, <1>10, <1>11 DEF Next

(***************************************************************************)
(* A cursor outlives its group only through a race (types.go:246,          *)
(* modelgroup.go:178, 200).                                                *)
(***************************************************************************)
THEOREM CursorsHaveOwners == Spec => []CursorsOwned
  <1>1. Init => CursorsOwned
    BY DEF Init, CursorsOwned
  <1> QED
    BY <1>1, InitType, TypeStep, OwnedStep, PTL DEF Spec

=============================================================================
