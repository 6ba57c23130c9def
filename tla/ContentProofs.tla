---------------------------- MODULE ContentProofs ----------------------------
(***************************************************************************)
(* Proofs about Content for any plain requests: the types, that requests   *)
(* with one key mean the same and requests that mean the same have one     *)
(* key, and that the main model reads what the client meant.               *)
(***************************************************************************)
EXTENDS WalkProofs, SequenceTheorems

-----------------------------------------------------------------------------
(* The recursive function behind FlattenSeq.                               *)

Upto(p, n) == [i \in 1 .. n |-> p[i]]

\* f joins the first n sequences of p, one by one.
Joins(f, p, n) == f = [i \in 1 .. n |-> IF i = 1 THEN p[i] ELSE f[i - 1] \o p[i]]

LEMMA JoinsSome ==
  ASSUME NEW p
  PROVE  \A n \in Nat : \E f : Joins(f, p, n)
  <1> DEFINE S == {n \in Nat : \E f : Joins(f, p, n)}
  <1>1. 0 \in S
    <2>1. Joins([i \in 1 .. 0 |-> 0], p, 0)
      BY DEF Joins
    <2> QED
      BY <2>1
  <1>2. ASSUME NEW n \in Nat, n \in S PROVE n + 1 \in S
    <2>1. PICK f : Joins(f, p, n)
      BY <1>2
    <2> DEFINE last1 == IF n = 0 THEN p[1] ELSE f[n] \o p[n + 1]
               g == [i \in 1 .. n + 1 |-> IF i = n + 1 THEN last1 ELSE f[i]]
    <2>2. \A i \in 1 .. n : f[i] = IF i = 1 THEN p[i] ELSE f[i - 1] \o p[i]
      BY <2>1 DEF Joins
    <2>3. ASSUME NEW i \in 1 .. n + 1 PROVE g[i] = IF i = 1 THEN p[i] ELSE g[i - 1] \o p[i]
      <3>1. CASE i = n + 1
        <4>1. g[i] = last1 /\ (n # 0 => g[n] = f[n]) /\ i - 1 = n
          BY <3>1
        <4> HIDE DEF g
        <4> QED
          BY <3>1, <4>1
      <3>2. CASE i \in 1 .. n
        <4>1. g[i] = f[i] /\ (i # 1 => g[i - 1] = f[i - 1])
          BY <3>2
        <4> HIDE DEF g
        <4> QED
          BY <2>2, <3>2, <4>1
      <3> QED
        BY <3>1, <3>2
    <2>4. Joins(g, p, n + 1)
      BY <2>3 DEF Joins
    <2> QED
      BY <2>4
  <1> HIDE DEF S
  <1>3. \A n \in Nat : n \in S
    BY <1>1, <1>2, CountingUp
  <1> QED
    BY <1>3 DEF S

LEMMA JoinsAgree ==
  ASSUME NEW p, NEW n \in Nat, NEW k \in Nat, NEW f, NEW g, Joins(f, p, n), Joins(g, p, k)
  PROVE  \A m \in 1 .. n : m <= k => f[m] = g[m]
  <1> DEFINE S == {m \in Nat : m + 1 <= n /\ m + 1 <= k => f[m + 1] = g[m + 1]}
  <1>1. /\ \A i \in 1 .. n : f[i] = IF i = 1 THEN p[i] ELSE f[i - 1] \o p[i]
        /\ \A i \in 1 .. k : g[i] = IF i = 1 THEN p[i] ELSE g[i - 1] \o p[i]
    BY DEF Joins
  <1>2. 0 \in S
    BY <1>1
  <1>3. ASSUME NEW m \in Nat, m \in S PROVE m + 1 \in S
    <2> SUFFICES ASSUME (m + 1) + 1 <= n, (m + 1) + 1 <= k
                 PROVE  f[(m + 1) + 1] = g[(m + 1) + 1]
      OBVIOUS
    <2>1. f[m + 1] = g[m + 1]
      BY <1>3
    <2>2. /\ (m + 1) + 1 \in 1 .. n /\ (m + 1) + 1 \in 1 .. k
          /\ (m + 1) + 1 # 1 /\ ((m + 1) + 1) - 1 = m + 1
      OBVIOUS
    <2> QED
      BY <1>1, <2>1, <2>2
  <1> HIDE DEF S
  <1>4. \A m \in Nat : m \in S
    BY <1>2, <1>3, CountingUp
  <1> TAKE m \in 1 .. n
  <1>5. m - 1 \in S /\ (m - 1) + 1 = m
    BY <1>4
  <1> QED
    BY <1>5 DEF S

\* FlattenSeq is the last value of such a function.
LEMMA FlattenJoins ==
  ASSUME NEW p, NEW n \in Nat, n # 0, NEW f, Joins(f, p, n)
  PROVE  FlattenSeq(Upto(p, n)) = f[n]
  <1> DEFINE s == Upto(p, n)
             g == CHOOSE h : Joins(h, s, n)
  <1>1. Len(s) = n /\ \A i \in 1 .. n : s[i] = p[i]
    BY DEF Upto
  <1>2. Joins(g, s, n)
    BY JoinsSome
  <1>3. FlattenSeq(s) = g[n]
    <2> HIDE DEF s
    <2> QED
      BY <1>1 DEF FlattenSeq, Joins
  <1> HIDE DEF g
  <1>4. Joins(g, p, n)
    <2>1. [i \in 1 .. n |-> IF i = 1 THEN s[i] ELSE g[i - 1] \o s[i]]
            = [i \in 1 .. n |-> IF i = 1 THEN p[i] ELSE g[i - 1] \o p[i]]
      BY <1>1
    <2> QED
      BY <1>2, <2>1 DEF Joins
  <1>5. g[n] = f[n]
    BY <1>4, JoinsAgree
  <1> QED
    BY <1>3, <1>5

(***************************************************************************)
(* Flattening goes on from what has been flattened.                        *)
(***************************************************************************)
LEMMA FlattenNone ==
  ASSUME NEW p
  PROVE  FlattenSeq(Upto(p, 0)) = <<>>
  <1>1. Upto(p, 0) = <<>>
    BY DEF Upto
  <1> QED
    BY <1>1 DEF FlattenSeq

LEMMA FlattenNext ==
  ASSUME NEW U, NEW p, NEW n \in Nat, \A i \in 1 .. n + 1 : p[i] \in Seq(U)
  PROVE  FlattenSeq(Upto(p, n + 1)) = FlattenSeq(Upto(p, n)) \o p[n + 1]
  <1>0. n + 1 \in Nat /\ n + 1 # 0 /\ (n + 1) - 1 = n /\ n + 1 \in 1 .. n + 1
    OBVIOUS
  <1>1. PICK f : Joins(f, p, n + 1)
    BY <1>0, JoinsSome
  <1>2. FlattenSeq(Upto(p, n + 1)) = f[n + 1]
    BY <1>0, <1>1, FlattenJoins
  <1>3. \A i \in 1 .. n + 1 : f[i] = IF i = 1 THEN p[i] ELSE f[i - 1] \o p[i]
    BY <1>1 DEF Joins
  <1>4. CASE n = 0
    <2>1. f[1] = p[1] /\ p[1] \in Seq(U)
      BY <1>3, <1>4
    <2>2. <<>> \o p[1] = p[1]
      BY <2>1
    <2> QED
      BY <1>2, <1>4, <2>1, <2>2, FlattenNone
  <1>5. CASE n # 0
    <2>1. PICK g : Joins(g, p, n)
      BY JoinsSome
    <2>2. FlattenSeq(Upto(p, n)) = g[n]
      BY <1>5, <2>1, FlattenJoins
    <2>3. n \in 1 .. n + 1 /\ n <= n /\ n + 1 \in Nat
      BY <1>5
    <2>4. f[n] = g[n]
      BY <1>1, <2>1, <2>3, JoinsAgree
    <2>5. f[n + 1] = f[n] \o p[n + 1]
      <3> DEFINE k == n + 1
      <3>1. k \in 1 .. k /\ k # 1 /\ k - 1 = n
        BY <1>5
      <3> HIDE DEF k
      <3>2. f[k] = IF k = 1 THEN p[k] ELSE f[k - 1] \o p[k]
        BY <1>3, <3>1 DEF k
      <3>3. f[k] = f[n] \o p[k]
        BY <3>1, <3>2
      <3> QED
        BY <3>3 DEF k
    <2> QED
      BY <1>2, <2>2, <2>4, <2>5
  <1> QED
    BY <1>4, <1>5

\* What is joined holds the elements of the sequences only.
LEMMA FlattenType ==
  ASSUME NEW U, NEW p, NEW n \in Nat, \A i \in 1 .. n : p[i] \in Seq(U)
  PROVE  \A k \in Nat : k <= n => FlattenSeq(Upto(p, k)) \in Seq(U)
  <1> DEFINE S == {k \in Nat : k <= n => FlattenSeq(Upto(p, k)) \in Seq(U)}
  <1>1. 0 \in S
    <2>1. FlattenSeq(Upto(p, 0)) = <<>>
      BY FlattenNone
    <2> QED
      BY <2>1, EmptySeq
  <1>2. ASSUME NEW k \in Nat, k \in S PROVE k + 1 \in S
    <2> SUFFICES ASSUME k + 1 <= n PROVE FlattenSeq(Upto(p, k + 1)) \in Seq(U)
      OBVIOUS
    <2>1. FlattenSeq(Upto(p, k)) \in Seq(U) /\ p[k + 1] \in Seq(U)
      BY <1>2
    <2>2. \A i \in 1 .. k + 1 : p[i] \in Seq(U)
      OBVIOUS
    <2>3. FlattenSeq(Upto(p, k + 1)) = FlattenSeq(Upto(p, k)) \o p[k + 1]
      BY <2>2, FlattenNext
    <2> HIDE DEF S
    <2> QED
      BY <2>1, <2>3, ConcatProperties
  <1> HIDE DEF S
  <1>3. \A k \in Nat : k \in S
    BY <1>1, <1>2, CountingUp
  <1> QED
    BY <1>3 DEF S

-----------------------------------------------------------------------------
(* The kinds of values.                                                    *)

LEMMA TextIs ==
  ASSUME NEW s
  PROVE  Text(s).text = s /\ \A k : Is(k, Text(s)) <=> k = "text"
  BY DEF Text, Is

LEMMA LinkIs ==
  ASSUME NEW s
  PROVE  Link(s).link = s /\ \A k : Is(k, Link(s)) <=> k = "link"
  BY DEF Link, Is

LEMMA DescIs ==
  ASSUME NEW s
  PROVE  Desc(s).desc = s /\ \A k : Is(k, Desc(s)) <=> k = "desc"
  BY DEF Desc, Is

LEMMA DataUrlIs ==
  ASSUME NEW s, NEW m
  PROVE  DataUrl(s, m).dataurl = s /\ \A k : Is(k, DataUrl(s, m)) <=> k \in {"dataurl", "media"}
  BY DEF DataUrl, Is

LEMMA JsonIs ==
  ASSUME NEW s
  PROVE  Json(s).json = s /\ \A k : Is(k, Json(s)) <=> k = "json"
  BY DEF Json, Is

LEMMA ObjIs ==
  ASSUME NEW s
  PROVE  Obj(s).obj = s /\ \A k : Is(k, Obj(s)) <=> k = "obj"
  BY DEF Obj, Is

LEMMA ArrIs ==
  ASSUME NEW s
  PROVE  Arr(s).arr = s /\ \A k : Is(k, Arr(s)) <=> k = "arr"
  BY DEF Arr, Is

LEMMA PictureIs ==
  ASSUME NEW s
  PROVE  Picture(s).picture = s /\ \A k : Is(k, Picture(s)) <=> k = "picture"
  BY DEF Picture, Is

LEMMA ContentHashIs ==
  ASSUME NEW s
  PROVE  \A k : Is(k, ContentHash(s)) <=> k = "img"
  BY DEF ContentHash, Is

LEMMA ComponentsAre ==
  /\ \A f : Components(Obj(f)) = {f[k] : k \in DOMAIN f}
  /\ \A s : Components(Arr(s)) = {s[i] : i \in DOMAIN s}
  /\ \A w : Components(Json(w)) = {w}
  /\ \A s : Components(Text(s)) = {} /\ Components(Link(s)) = {} /\ Components(Desc(s)) = {}
  /\ \A s, m : Components(DataUrl(s, m)) = {}
  <1>1. \A f : Components(Obj(f)) = {f[k] : k \in DOMAIN f}
    BY ObjIs DEF Components
  <1>2. \A s : Components(Arr(s)) = {s[i] : i \in DOMAIN s}
    BY ArrIs DEF Components
  <1>3. \A w : Components(Json(w)) = {w}
    BY JsonIs DEF Components
  <1>4. \A s : Components(Text(s)) = {} /\ Components(Link(s)) = {} /\ Components(Desc(s)) = {}
    BY TextIs, LinkIs, DescIs DEF Components
  <1>5. \A s, m : Components(DataUrl(s, m)) = {}
    BY DataUrlIs DEF Components
  <1> QED
    BY <1>1, <1>2, <1>3, <1>4, <1>5

-----------------------------------------------------------------------------
(* What each walk makes of each kind of value.                             *)

LEMMA WalksAre ==
  ASSUME NEW v, Shallow(v, MaxDepth)
  PROVE  /\ Canonical(v) = CanonicalStep(v, [c \in Components(v) |-> Canonical(c)])
         /\ Meaning(v) = MeaningStep(v, [c \in Components(v) |-> Meaning(c)])
         /\ Reading(v) = ReadingStep(v, [c \in Components(v) |-> Reading(c)])
         /\ \A r, t : Processed(v, r, t)
                        = ProcessedStep(v, [c \in Components(v) |-> Processed(c, r, t)], r, t)
  <1>1. Canonical(v) = CanonicalStep(v, [c \in Components(v) |-> Canonical(c)])
    BY WalkUnfolds DEF Canonical, Step
  <1>2. Meaning(v) = MeaningStep(v, [c \in Components(v) |-> Meaning(c)])
    BY WalkUnfolds DEF Meaning, Step
  <1>3. Reading(v) = ReadingStep(v, [c \in Components(v) |-> Reading(c)])
    BY WalkUnfolds DEF Reading, Step
  <1>4. ASSUME NEW r, NEW t
        PROVE  Processed(v, r, t) = ProcessedStep(v, [c \in Components(v) |-> Processed(c, r, t)], r, t)
    <2> DEFINE walk == [to |-> "processed", replace |-> r, type |-> t]
    <2>1. Walk(walk, v) = Step(walk, v, [c \in Components(v) |-> Walk(walk, c)])
      BY WalkUnfolds
    <2>2. walk.to = "processed" /\ walk.replace = r /\ walk.type = t
      OBVIOUS
    <2>3. \A u, of : Step(walk, u, of) = ProcessedStep(u, of, r, t)
      <3> HIDE DEF walk
      <3> QED
        BY <2>2 DEF Step
    <2>4. \A u : Processed(u, r, t) = Walk(walk, u)
      BY DEF Processed
    <2> HIDE DEF walk
    <2>5. [c \in Components(v) |-> Walk(walk, c)] = [c \in Components(v) |-> Processed(c, r, t)]
      BY <2>4
    <2> QED
      BY <2>1, <2>3, <2>4, <2>5
  <1> QED
    BY <1>1, <1>2, <1>3, <1>4

\* The fields of an object after the processing of each.
After(f, r, t) == [k \in DOMAIN f |-> Processed(f[k], r, t)]

LEMMA WalkObj ==
  ASSUME NEW f, Shallow(Obj(f), MaxDepth), ~IsImage(Obj(f))
  PROVE  /\ Canonical(Obj(f)) = Obj([k \in DOMAIN f \ VolatileKeys |-> Canonical(f[k])])
         /\ Meaning(Obj(f)) = Obj([k \in DOMAIN f \ VolatileKeys |-> Meaning(f[k])])
         /\ \A r, t : Processed(Obj(f), r, t) = Obj(After(f, r, t))
  <1>1. Obj(f).obj = f /\ \A k : Is(k, Obj(f)) <=> k = "obj"
    BY ObjIs
  <1>2. Components(Obj(f)) = {f[k] : k \in DOMAIN f}
    BY ComponentsAre
  <1>3. Canonical(Obj(f)) = Obj([k \in DOMAIN f \ VolatileKeys |-> Canonical(f[k])])
    <2> DEFINE of == [c \in Components(Obj(f)) |-> Canonical(c)]
    <2>1. Canonical(Obj(f)) = CanonicalStep(Obj(f), of)
      BY WalksAre
    <2>2. \A k \in DOMAIN f : of[f[k]] = Canonical(f[k])
      BY <1>2
    <2> HIDE DEF of
    <2>3. CanonicalStep(Obj(f), of) = Obj([k \in DOMAIN f \ VolatileKeys |-> of[f[k]]])
      BY <1>1 DEF CanonicalStep
    <2>4. [k \in DOMAIN f \ VolatileKeys |-> of[f[k]]] = [k \in DOMAIN f \ VolatileKeys |-> Canonical(f[k])]
      BY <2>2
    <2> QED
      BY <2>1, <2>3, <2>4
  <1>4. Meaning(Obj(f)) = Obj([k \in DOMAIN f \ VolatileKeys |-> Meaning(f[k])])
    <2> DEFINE of == [c \in Components(Obj(f)) |-> Meaning(c)]
    <2>1. Meaning(Obj(f)) = MeaningStep(Obj(f), of)
      BY WalksAre
    <2>2. \A k \in DOMAIN f : of[f[k]] = Meaning(f[k])
      BY <1>2
    <2> HIDE DEF of
    <2>3. MeaningStep(Obj(f), of) = Obj([k \in DOMAIN f \ VolatileKeys |-> of[f[k]]])
      BY <1>1 DEF MeaningStep
    <2>4. [k \in DOMAIN f \ VolatileKeys |-> of[f[k]]] = [k \in DOMAIN f \ VolatileKeys |-> Meaning(f[k])]
      BY <2>2
    <2> QED
      BY <2>1, <2>3, <2>4
  <1>5. ASSUME NEW r, NEW t
        PROVE  Processed(Obj(f), r, t) = Obj(After(f, r, t))
    <2> DEFINE of == [c \in Components(Obj(f)) |-> Processed(c, r, t)]
    <2>1. Processed(Obj(f), r, t) = ProcessedStep(Obj(f), of, r, t)
      BY WalksAre
    <2>2. \A k \in DOMAIN f : of[f[k]] = Processed(f[k], r, t)
      BY <1>2
    <2> HIDE DEF of
    <2>3. ProcessedStep(Obj(f), of, r, t) = Obj([k \in DOMAIN f |-> of[f[k]]])
      BY <1>1 DEF ProcessedStep
    <2>4. [k \in DOMAIN f |-> of[f[k]]] = After(f, r, t)
      BY <2>2 DEF After
    <2> QED
      BY <2>1, <2>3, <2>4
  <1> QED
    BY <1>3, <1>4, <1>5

LEMMA WalkImage ==
  ASSUME NEW f, Shallow(Obj(f), MaxDepth), IsImage(Obj(f))
  PROVE  /\ Canonical(Obj(f)) = ContentHash(RefOf(Obj(f)))
         /\ Meaning(Obj(f)) = Picture(PictureOf(RefOf(Obj(f))))
         /\ \A r, t : Processed(Obj(f), r, t) = TextItem(Obj(f), t)
  <1>1. \A k : Is(k, Obj(f)) <=> k = "obj"
    BY ObjIs
  <1>2. \A of : CanonicalStep(Obj(f), of) = ContentHash(RefOf(Obj(f)))
    BY <1>1 DEF CanonicalStep
  <1>3. \A of : MeaningStep(Obj(f), of) = Picture(PictureOf(RefOf(Obj(f))))
    BY <1>1 DEF MeaningStep
  <1>4. \A of, r, t : ProcessedStep(Obj(f), of, r, t) = TextItem(Obj(f), t)
    BY <1>1 DEF ProcessedStep
  <1> QED
    BY <1>2, <1>3, <1>4, WalksAre

LEMMA WalkJson ==
  ASSUME NEW w, Shallow(Json(w), MaxDepth)
  PROVE  /\ Canonical(Json(w)) = Json(Canonical(w))
         /\ Meaning(Json(w)) = Json(Meaning(w))
         /\ Reading(Json(w)) = Json(Reading(w))
         /\ \A r, t : Processed(Json(w), r, t) = Json(Processed(w, r, t))
  <1>1. Json(w).json = w /\ \A k : Is(k, Json(w)) <=> k = "json"
    BY JsonIs
  <1>2. ~IsImage(Json(w))
    BY <1>1 DEF IsImage
  <1>3. w \in Components(Json(w))
    BY ComponentsAre
  <1>4. \A of : /\ CanonicalStep(Json(w), of) = Json(of[w])
                /\ MeaningStep(Json(w), of) = Json(of[w])
                /\ ReadingStep(Json(w), of) = Json(of[w])
    BY <1>1, <1>2 DEF CanonicalStep, MeaningStep, ReadingStep
  <1>5. \A of, r, t : ProcessedStep(Json(w), of, r, t) = Json(of[w])
    BY <1>1, <1>2 DEF ProcessedStep
  <1>6. Canonical(Json(w)) = Json(Canonical(w))
    <2>1. Canonical(Json(w)) = CanonicalStep(Json(w), [c \in Components(Json(w)) |-> Canonical(c)])
      BY WalksAre
    <2> QED
      BY <1>3, <1>4, <2>1
  <1>7. Meaning(Json(w)) = Json(Meaning(w))
    <2>1. Meaning(Json(w)) = MeaningStep(Json(w), [c \in Components(Json(w)) |-> Meaning(c)])
      BY WalksAre
    <2> QED
      BY <1>3, <1>4, <2>1
  <1>8. Reading(Json(w)) = Json(Reading(w))
    <2>1. Reading(Json(w)) = ReadingStep(Json(w), [c \in Components(Json(w)) |-> Reading(c)])
      BY WalksAre
    <2> QED
      BY <1>3, <1>4, <2>1
  <1>9. ASSUME NEW r, NEW t PROVE Processed(Json(w), r, t) = Json(Processed(w, r, t))
    <2>1. Processed(Json(w), r, t)
            = ProcessedStep(Json(w), [c \in Components(Json(w)) |-> Processed(c, r, t)], r, t)
      BY WalksAre
    <2> QED
      BY <1>3, <1>5, <2>1
  <1> QED
    BY <1>6, <1>7, <1>8, <1>9

LEMMA WalkDataUrl ==
  ASSUME NEW s, NEW m
  PROVE  /\ Canonical(DataUrl(s, m)) = ContentHash([b64 |-> DataUrl(s, m)])
         /\ Meaning(DataUrl(s, m)) = Picture(PictureOf([b64 |-> DataUrl(s, m)]))
         /\ \A r, t : Processed(DataUrl(s, m), r, t) = Recognised([b64 |-> DataUrl(s, m)])
  <1> DEFINE v == DataUrl(s, m)
  <1>1. \A k : Is(k, v) <=> k \in {"dataurl", "media"}
    BY DataUrlIs
  <1>2. Shallow(v, MaxDepth)
    BY ComponentsAre, ShallowLeaf, ShallowMore, BoundsAssumption
  <1> HIDE DEF v
  <1>3. ~IsImage(v)
    BY <1>1 DEF IsImage
  <1>4. \A of : /\ CanonicalStep(v, of) = ContentHash([b64 |-> v])
                /\ MeaningStep(v, of) = Picture(PictureOf([b64 |-> v]))
    BY <1>1, <1>3 DEF CanonicalStep, MeaningStep
  <1>5. \A of, r, t : ProcessedStep(v, of, r, t) = Recognised([b64 |-> v])
    BY <1>1, <1>3 DEF ProcessedStep
  <1>6. /\ Canonical(v) = ContentHash([b64 |-> v])
        /\ Meaning(v) = Picture(PictureOf([b64 |-> v]))
        /\ \A r, t : Processed(v, r, t) = Recognised([b64 |-> v])
    BY <1>2, <1>4, <1>5, WalksAre
  <1> QED
    BY <1>6 DEF v

\* Texts and links are left as they are.
LEMMA WalkLeaf ==
  ASSUME NEW v, \A k : Is(k, v) => k \in {"text", "link"}
  PROVE  /\ Canonical(v) = v /\ Meaning(v) = v /\ Reading(v) = v
         /\ \A r, t : Processed(v, r, t) = v
  <1>1. ~IsImage(v)
    BY DEF IsImage
  <1>2. Components(v) = {}
    BY DEF Components
  <1>3. Shallow(v, MaxDepth)
    BY <1>2, ShallowLeaf, ShallowMore, BoundsAssumption
  <1>4. \A of : CanonicalStep(v, of) = v /\ MeaningStep(v, of) = v /\ ReadingStep(v, of) = v
    BY <1>1 DEF CanonicalStep, MeaningStep, ReadingStep
  <1>5. \A of, r, t : ProcessedStep(v, of, r, t) = v
    BY <1>1 DEF ProcessedStep
  <1>6. Canonical(v) = v /\ Meaning(v) = v /\ Reading(v) = v
    <2>1. /\ Canonical(v) = CanonicalStep(v, [c \in Components(v) |-> Canonical(c)])
          /\ Meaning(v) = MeaningStep(v, [c \in Components(v) |-> Meaning(c)])
          /\ Reading(v) = ReadingStep(v, [c \in Components(v) |-> Reading(c)])
      BY <1>3, WalksAre
    <2> QED
      BY <1>4, <2>1
  <1>7. ASSUME NEW r, NEW t PROVE Processed(v, r, t) = v
    <2>1. Processed(v, r, t) = ProcessedStep(v, [c \in Components(v) |-> Processed(c, r, t)], r, t)
      BY <1>3, WalksAre
    <2> QED
      BY <1>5, <2>1
  <1> QED
    BY <1>6, <1>7

\* An array, with the pieces that make up the processed one.
Piece(e, r, t) == IF IsImage(e) /\ ~r THEN <<e, TextItem(e, t)>> ELSE <<Processed(e, r, t)>>

LEMMA WalkArr ==
  ASSUME NEW s, Shallow(Arr(s), MaxDepth)
  PROVE  /\ Canonical(Arr(s)) = Arr([i \in DOMAIN s |-> Canonical(s[i])])
         /\ Meaning(Arr(s)) = Arr([i \in DOMAIN s |-> Meaning(s[i])])
         /\ \A r, t : Processed(Arr(s), r, t) = Arr(FlattenSeq([i \in DOMAIN s |-> Piece(s[i], r, t)]))
  <1>1. Arr(s).arr = s /\ \A k : Is(k, Arr(s)) <=> k = "arr"
    BY ArrIs
  <1>2. Components(Arr(s)) = {s[i] : i \in DOMAIN s}
    BY ComponentsAre
  <1>3. ~IsImage(Arr(s))
    BY <1>1 DEF IsImage
  <1>4. Canonical(Arr(s)) = Arr([i \in DOMAIN s |-> Canonical(s[i])])
    <2> DEFINE of == [c \in Components(Arr(s)) |-> Canonical(c)]
    <2>1. Canonical(Arr(s)) = CanonicalStep(Arr(s), of)
      BY WalksAre
    <2>2. \A i \in DOMAIN s : of[s[i]] = Canonical(s[i])
      BY <1>2
    <2> HIDE DEF of
    <2>3. CanonicalStep(Arr(s), of) = Arr([i \in DOMAIN s |-> of[s[i]]])
      BY <1>1, <1>3 DEF CanonicalStep
    <2>4. [i \in DOMAIN s |-> of[s[i]]] = [i \in DOMAIN s |-> Canonical(s[i])]
      BY <2>2
    <2> QED
      BY <2>1, <2>3, <2>4
  <1>5. Meaning(Arr(s)) = Arr([i \in DOMAIN s |-> Meaning(s[i])])
    <2> DEFINE of == [c \in Components(Arr(s)) |-> Meaning(c)]
    <2>1. Meaning(Arr(s)) = MeaningStep(Arr(s), of)
      BY WalksAre
    <2>2. \A i \in DOMAIN s : of[s[i]] = Meaning(s[i])
      BY <1>2
    <2> HIDE DEF of
    <2>3. MeaningStep(Arr(s), of) = Arr([i \in DOMAIN s |-> of[s[i]]])
      BY <1>1, <1>3 DEF MeaningStep
    <2>4. [i \in DOMAIN s |-> of[s[i]]] = [i \in DOMAIN s |-> Meaning(s[i])]
      BY <2>2
    <2> QED
      BY <2>1, <2>3, <2>4
  <1>6. ASSUME NEW r, NEW t
        PROVE  Processed(Arr(s), r, t) = Arr(FlattenSeq([i \in DOMAIN s |-> Piece(s[i], r, t)]))
    <2> DEFINE of == [c \in Components(Arr(s)) |-> Processed(c, r, t)]
    <2>1. Processed(Arr(s), r, t) = ProcessedStep(Arr(s), of, r, t)
      BY WalksAre
    <2>2. \A i \in DOMAIN s : of[s[i]] = Processed(s[i], r, t)
      BY <1>2
    <2> HIDE DEF of
    <2>3. ProcessedStep(Arr(s), of, r, t)
            = Arr(FlattenSeq([i \in DOMAIN s |->
                 IF IsImage(s[i]) /\ ~r THEN <<s[i], TextItem(s[i], t)>> ELSE <<of[s[i]]>>]))
      BY <1>1, <1>3 DEF ProcessedStep
    <2>4. [i \in DOMAIN s |->
             IF IsImage(s[i]) /\ ~r THEN <<s[i], TextItem(s[i], t)>> ELSE <<of[s[i]]>>]
            = [i \in DOMAIN s |-> Piece(s[i], r, t)]
      BY <2>2 DEF Piece
    <2> QED
      BY <2>1, <2>3, <2>4
  <1> QED
    BY <1>4, <1>5, <1>6

\* What the main model reads of an object, an item with a description, an array, a description.
LEMMA ReadObj ==
  ASSUME NEW f, Shallow(Obj(f), MaxDepth), \A x \in Field(f, "text") : ~Is("desc", x)
  PROVE  Reading(Obj(f)) = Obj([k \in DOMAIN f \ VolatileKeys |-> Reading(f[k])])
  <1> DEFINE of == [c \in Components(Obj(f)) |-> Reading(c)]
  <1>1. Obj(f).obj = f /\ \A k : Is(k, Obj(f)) <=> k = "obj"
    BY ObjIs
  <1>2. Reading(Obj(f)) = ReadingStep(Obj(f), of)
    BY WalksAre
  <1>3. \A k \in DOMAIN f : of[f[k]] = Reading(f[k])
    BY ComponentsAre
  <1> HIDE DEF of
  <1>4. ReadingStep(Obj(f), of) = Obj([k \in DOMAIN f \ VolatileKeys |-> of[f[k]]])
    BY <1>1 DEF ReadingStep
  <1>5. [k \in DOMAIN f \ VolatileKeys |-> of[f[k]]] = [k \in DOMAIN f \ VolatileKeys |-> Reading(f[k])]
    BY <1>3
  <1> QED
    BY <1>2, <1>4, <1>5

LEMMA ReadDesc ==
  ASSUME NEW p
  PROVE  Reading(Desc(p)) = Picture(p)
  <1>1. Desc(p).desc = p /\ \A k : Is(k, Desc(p)) <=> k = "desc"
    BY DescIs
  <1>2. Shallow(Desc(p), MaxDepth)
    BY ComponentsAre, ShallowLeaf, ShallowMore, BoundsAssumption
  <1>3. \A of : ReadingStep(Desc(p), of) = Picture(p)
    BY <1>1 DEF ReadingStep
  <1> QED
    BY <1>2, <1>3, WalksAre

LEMMA ReadItem ==
  ASSUME NEW v, NEW t
  PROVE  /\ Shallow(TextItem(v, t), 1)
         /\ Reading(TextItem(v, t)) = Picture(PictureOf(RefOf(v)))
  <1> DEFINE f == [type |-> Text(t), text |-> Recognised(RefOf(v))]
             of == [c \in Components(Obj(f)) |-> Reading(c)]
  <1>1. Obj(f).obj = f /\ \A k : Is(k, Obj(f)) <=> k = "obj"
    BY ObjIs
  <1>2. DOMAIN f = {"type", "text"} /\ f["type"] = Text(t) /\ f["text"] = Desc(PictureOf(RefOf(v)))
    BY DEF Recognised
  <1> HIDE DEF f
  <1>3. Components(Obj(f)) = {Text(t), Desc(PictureOf(RefOf(v)))}
    BY <1>2, ComponentsAre
  <1>4. Shallow(Obj(f), 0 + 1)
    <2>1. \A c \in Components(Obj(f)) : Shallow(c, 0)
      BY <1>3, ComponentsAre, ShallowLeaf
    <2> QED
      BY <2>1, ShallowInside
  <1>5. Shallow(Obj(f), MaxDepth)
    BY <1>4, ShallowMore, BoundsAssumption
  <1>6. Reading(Obj(f)) = ReadingStep(Obj(f), of)
    BY <1>5, WalksAre
  <1>7. of[f["text"]] = Picture(PictureOf(RefOf(v)))
    BY <1>2, <1>3, ReadDesc
  <1> HIDE DEF of
  <1>8. \E x \in Field(f, "text") : Is("desc", x)
    BY <1>2, DescIs DEF Field
  <1>9. ReadingStep(Obj(f), of) = of[f["text"]]
    BY <1>1, <1>8 DEF ReadingStep
  <1>10. TextItem(v, t) = Obj(f)
    BY DEF TextItem, f
  <1> QED
    BY <1>4, <1>6, <1>7, <1>9, <1>10

Read(e) == IF IsImage(e) THEN <<>> ELSE <<Reading(e)>>
ReadList(s) == FlattenSeq([i \in DOMAIN s |-> Read(s[i])])

LEMMA ReadArr ==
  ASSUME NEW s, Shallow(Arr(s), MaxDepth)
  PROVE  Reading(Arr(s)) = Arr(ReadList(s))
  <1> DEFINE of == [c \in Components(Arr(s)) |-> Reading(c)]
  <1>1. Arr(s).arr = s /\ \A k : Is(k, Arr(s)) <=> k = "arr"
    BY ArrIs
  <1>2. Reading(Arr(s)) = ReadingStep(Arr(s), of)
    BY WalksAre
  <1>3. \A i \in DOMAIN s : of[s[i]] = Reading(s[i])
    BY ComponentsAre
  <1> HIDE DEF of
  <1>4. ReadingStep(Arr(s), of)
          = Arr(FlattenSeq([i \in DOMAIN s |-> IF IsImage(s[i]) THEN <<>> ELSE <<of[s[i]]>>]))
    BY <1>1 DEF ReadingStep
  <1>5. [i \in DOMAIN s |-> IF IsImage(s[i]) THEN <<>> ELSE <<of[s[i]]>>] = [i \in DOMAIN s |-> Read(s[i])]
    BY <1>3 DEF Read
  <1> QED
    BY <1>2, <1>4, <1>5 DEF ReadList

-----------------------------------------------------------------------------
(* What the main model reads of an array whose images have their texts     *)
(* beside them or in their place.                                          *)

LEMMA ReadListAppend ==
  ASSUME NEW U, NEW s \in Seq(U), NEW x \in U
  PROVE  ReadList(Append(s, x)) = ReadList(s) \o Read(x)
  <1> DEFINE n == Len(s)
             p == [i \in 1 .. n + 1 |-> Read(Append(s, x)[i])]
             R == {Reading(e) : e \in U}
  <1>1. /\ n \in Nat /\ DOMAIN s = 1 .. n /\ DOMAIN Append(s, x) = 1 .. n + 1
        /\ \A i \in 1 .. n : Append(s, x)[i] = s[i] /\ s[i] \in U
        /\ Append(s, x)[n + 1] = x
    OBVIOUS
  <1>2. ASSUME NEW e \in U PROVE Read(e) \in Seq(R)
    <2>1. Reading(e) \in R
      OBVIOUS
    <2> HIDE DEF R
    <2> QED
      BY <2>1 DEF Read
  <1> HIDE DEF R, n
  <1>3. \A i \in 1 .. n + 1 : p[i] \in Seq(R)
    BY <1>1, <1>2
  <1>4. FlattenSeq(Upto(p, n + 1)) = FlattenSeq(Upto(p, n)) \o p[n + 1]
    <2> HIDE DEF p
    <2> QED
      BY <1>1, <1>3, FlattenNext
  <1>5. p[n + 1] = Read(x)
    BY <1>1
  <1>6. ReadList(Append(s, x)) = FlattenSeq(Upto(p, n + 1))
    <2>1. Upto(p, n + 1) = [i \in DOMAIN Append(s, x) |-> Read(Append(s, x)[i])]
      BY <1>1 DEF Upto
    <2> QED
      BY <2>1 DEF ReadList
  <1>7. ReadList(s) = FlattenSeq(Upto(p, n))
    <2>1. Upto(p, n) = [i \in DOMAIN s |-> Read(s[i])]
      BY <1>1 DEF Upto
    <2> QED
      BY <2>1 DEF ReadList
  <1> QED
    BY <1>4, <1>5, <1>6, <1>7

\* Each piece is a text or what is read as such, alone or after an image.
Beside(piece, x) ==
    /\ ~IsImage(x)
    /\ piece = <<x>> \/ \E e : IsImage(e) /\ piece = <<e, x>>

LEMMA ReadPieces ==
  ASSUME NEW p, NEW x, NEW n \in Nat, \A i \in 1 .. n : Beside(p[i], x[i])
  PROVE  ReadList(FlattenSeq(Upto(p, n))) = [i \in 1 .. n |-> Reading(x[i])]
  <1> DEFINE U == {p[i][1] : i \in 1 .. n} \cup {x[i] : i \in 1 .. n}
             all(k) == FlattenSeq(Upto(p, k))
             S == {k \in Nat : k <= n => ReadList(all(k)) = [i \in 1 .. k |-> Reading(x[i])]}
  <1>1. \A i \in 1 .. n : p[i] \in Seq(U) /\ x[i] \in U
    <2> TAKE i \in 1 .. n
    <2>1. x[i] \in U /\ p[i][1] \in U
      OBVIOUS
    <2> HIDE DEF U
    <2>2. CASE p[i] = <<x[i]>>
      BY <2>1, <2>2
    <2>3. CASE \E e : p[i] = <<e, x[i]>>
      <3>1. PICK e : p[i] = <<e, x[i]>>
        BY <2>3
      <3>2. e = p[i][1]
        BY <3>1
      <3> QED
        BY <2>1, <3>1, <3>2
    <2> QED
      BY <2>1, <2>2, <2>3 DEF Beside
  <1>2. \A k \in Nat : k <= n => all(k) \in Seq(U)
    <2> HIDE DEF U
    <2> QED
      BY <1>1, FlattenType
  <1>3. 0 \in S
    <2>1. all(0) = <<>>
      BY FlattenNone
    <2>2. ReadList(<<>>) = <<>>
      <3>1. [i \in DOMAIN <<>> |-> Read(<<>>[i])] = Upto(<<>>, 0)
        BY DEF Upto
      <3> QED
        BY <3>1, FlattenNone DEF ReadList
    <2>3. <<>> = [i \in 1 .. 0 |-> Reading(x[i])]
      OBVIOUS
    <2> QED
      BY <2>1, <2>2, <2>3
  <1>4. ASSUME NEW k \in Nat, k \in S PROVE k + 1 \in S
    <2> SUFFICES ASSUME k + 1 <= n
                 PROVE  ReadList(all(k + 1)) = [i \in 1 .. k + 1 |-> Reading(x[i])]
      OBVIOUS
    <2>1. k + 1 \in 1 .. n /\ k <= n
      OBVIOUS
    <2> DEFINE s == all(k)
               y == x[k + 1]
    <2>2. s \in Seq(U) /\ y \in U /\ ReadList(s) = [i \in 1 .. k |-> Reading(x[i])]
      BY <1>1, <1>2, <1>4, <2>1
    <2>3. all(k + 1) = s \o p[k + 1]
      <3> HIDE DEF U
      <3>1. \A i \in 1 .. k + 1 : p[i] \in Seq(U)
        BY <1>1, <2>1
      <3> QED
        BY <3>1, FlattenNext
    <2>4. ~IsImage(y) /\ Read(y) = <<Reading(y)>>
      BY <2>1 DEF Beside, Read
    <2> HIDE DEF s, y, all, S
    <2>5. ReadList(all(k + 1)) = ReadList(s) \o <<Reading(y)>>
      <3>1. CASE p[k + 1] = <<y>>
        <4> HIDE DEF U
        <4>1. all(k + 1) = Append(s, y)
          BY <2>2, <2>3, <3>1
        <4> QED
          BY <2>2, <2>4, <4>1, ReadListAppend
      <3>2. CASE \E e : IsImage(e) /\ p[k + 1] = <<e, y>>
        <4>1. PICK e : IsImage(e) /\ p[k + 1] = <<e, y>>
          BY <3>2
        <4>2. e \in U
          <5>1. e = p[k + 1][1]
            BY <4>1
          <5> QED
            BY <2>1, <5>1
        <4> HIDE DEF U
        <4>3. Append(s, e) \in Seq(U) /\ all(k + 1) = Append(Append(s, e), y)
          BY <2>2, <2>3, <4>1, <4>2
        <4>4. ReadList(all(k + 1)) = ReadList(Append(s, e)) \o <<Reading(y)>>
          BY <2>2, <2>4, <4>3, ReadListAppend
        <4>5. ReadList(Append(s, e)) = ReadList(s) \o <<>>
          BY <2>2, <4>1, <4>2, ReadListAppend DEF Read
        <4>6. ReadList(s) \o <<>> = ReadList(s)
          BY <2>2
        <4> QED
          BY <4>4, <4>5, <4>6
      <3> QED
        BY <2>1, <3>1, <3>2 DEF Beside, y
    <2>6. [i \in 1 .. k |-> Reading(x[i])] \o <<Reading(y)>> = [i \in 1 .. k + 1 |-> Reading(x[i])]
      BY DEF y
    <2> QED
      BY <2>2, <2>5, <2>6
  <1> HIDE DEF S
  <1>5. \A k \in Nat : k \in S
    BY <1>3, <1>4, CountingUp
  <1> QED
    BY <1>5 DEF S

-----------------------------------------------------------------------------
(* Plain values.                                                           *)

Good(v) == Shallow(v, MaxDepth) /\ \A w \in Parts(v) : Plain(w)

LEMMA GoodInside ==
  ASSUME NEW v, Good(v)
  PROVE  Plain(v) /\ \A c \in Components(v) : Good(c)
  <1>1. Plain(v)
    BY PartsSelf DEF Good
  <1>2. ASSUME NEW c \in Components(v) PROVE Good(c)
    <2>1. MaxDepth - 1 \in Nat /\ (MaxDepth - 1) + 1 = MaxDepth /\ MaxDepth \in Nat /\ MaxDepth - 1 <= MaxDepth
      BY BoundsAssumption
    <2>2. Shallow(c, MaxDepth - 1)
      BY <2>1, ShallowInside DEF Good
    <2>3. Shallow(c, MaxDepth)
      BY <2>1, <2>2, ShallowMore
    <2> QED
      BY <2>3, PartsInside DEF Good
  <1> QED
    BY <1>1, <1>2

LEMMA ImageIsObj ==
  ASSUME NEW v, Plain(v), IsImage(v)
  PROVE  v = Obj(v.obj)
  BY TextIs, LinkIs, DataUrlIs, JsonIs, ArrIs DEF Plain, IsImage

\* Processing keeps strings and objects apart, and every text as it is.
LEMMA ProcessedKinds ==
  ASSUME NEW v, Plain(v), Shallow(v, MaxDepth), NEW r, NEW t
  PROVE  /\ IsString(Processed(v, r, t)) <=> IsString(v)
         /\ Is("obj", Processed(v, r, t)) <=> Is("obj", v)
         /\ Is("desc", Processed(v, r, t)) <=> Is("dataurl", v)
         /\ \A s : Processed(v, r, t) = Text(s) <=> v = Text(s)
  <1> DEFINE w == Processed(v, r, t)
  <1>1. CASE v = Text(v.text) \/ v = Link(v.link)
    <2>1. /\ \A k : Is(k, v) => k \in {"text", "link"}
          /\ IsString(v)
      BY <1>1, TextIs, LinkIs DEF IsString
    <2>2. w = v
      BY <2>1, WalkLeaf
    <2> QED
      BY <2>1, <2>2
  <1>2. CASE v = DataUrl(v.dataurl, v.media)
    <2>1. w = Desc(PictureOf([b64 |-> v]))
      BY <1>2, WalkDataUrl DEF Recognised
    <2>2. \A k : Is(k, v) <=> k \in {"dataurl", "media"}
      BY <1>2, DataUrlIs
    <2> QED
      BY <2>1, <2>2, DescIs, TextIs DEF IsString
  <1>3. CASE v = Json(v.json)
    <2>1. w = Json(Processed(v.json, r, t))
      BY <1>3, WalkJson
    <2>2. \A k : Is(k, v) <=> k = "json"
      BY <1>3, JsonIs
    <2> QED
      BY <2>1, <2>2, JsonIs, TextIs DEF IsString
  <1>4. CASE v = Arr(v.arr)
    <2>1. PICK s : w = Arr(s)
      <3>1. Shallow(Arr(v.arr), MaxDepth)
        BY <1>4
      <3>2. Processed(Arr(v.arr), r, t) = Arr(FlattenSeq([i \in DOMAIN v.arr |-> Piece(v.arr[i], r, t)]))
        BY <3>1, WalkArr
      <3> QED
        BY <1>4, <3>2
    <2>2. \A k : Is(k, v) <=> k = "arr"
      BY <1>4, ArrIs
    <2> QED
      BY <2>1, <2>2, ArrIs, TextIs DEF IsString
  <1>5. CASE v = Obj(v.obj)
    <2>1. PICK f : w = Obj(f)
      <3>1. CASE IsImage(v)
        <4>1. w = TextItem(v, t)
          BY <1>5, <3>1, WalkImage
        <4> QED
          BY <4>1 DEF TextItem
      <3>2. CASE ~IsImage(v)
        <4>1. Shallow(Obj(v.obj), MaxDepth) /\ ~IsImage(Obj(v.obj))
          BY <1>5, <3>2
        <4>2. Processed(Obj(v.obj), r, t) = Obj(After(v.obj, r, t))
          BY <4>1, WalkObj
        <4> QED
          BY <1>5, <4>2
      <3> QED
        BY <3>1, <3>2
    <2>2. \A k : Is(k, v) <=> k = "obj"
      BY <1>5, ObjIs
    <2> QED
      BY <2>1, <2>2, ObjIs, TextIs DEF IsString
  <1> QED
    BY <1>1, <1>2, <1>3, <1>4, <1>5 DEF Plain

-----------------------------------------------------------------------------
(* Processing makes no new images.                                         *)

LEMMA RefPlaces ==
  ASSUME NEW f
  PROVE  ExtractImageRef(f) = {} <=>
           /\ Strings(f, "image_url") = {}
           /\ \A o \in Objects(f, "image_url") : Strings(o, "url") = {}
           /\ Strings(f, "url") = {}
           /\ Strings(f, "data") = {}
           /\ Strings(f, "image") = {}
           /\ \A o \in Objects(f, "source") : SourceRefs(o) = {}
  <1> DEFINE p1 == {UrlRef(s) : s \in Strings(f, "image_url")
                                       \cup UNION {Strings(o, "url") : o \in Objects(f, "image_url")}}
             p2 == {UrlRef(s) : s \in Strings(f, "url")}
             p3 == {DataRef(s) : s \in Strings(f, "data")}
             p4 == {DataRef(s) : s \in Strings(f, "image")}
             p5 == UNION {SourceRefs(o) : o \in Objects(f, "source")}
             places == <<p1, p2, p3, p4, p5>>
  <1>1. ExtractImageRef(f) = UNION {places[i] : i \in {j \in 1 .. 5 : \A h \in 1 .. j - 1 : places[h] = {}}}
    BY DEF ExtractImageRef
  <1>2. /\ p1 = {} <=> /\ Strings(f, "image_url") = {}
                       /\ \A o \in Objects(f, "image_url") : Strings(o, "url") = {}
        /\ p2 = {} <=> Strings(f, "url") = {}
        /\ p3 = {} <=> Strings(f, "data") = {}
        /\ p4 = {} <=> Strings(f, "image") = {}
        /\ p5 = {} <=> \A o \in Objects(f, "source") : SourceRefs(o) = {}
    OBVIOUS
  <1> HIDE DEF p1, p2, p3, p4, p5
  <1>3. places[1] = p1 /\ places[2] = p2 /\ places[3] = p3 /\ places[4] = p4 /\ places[5] = p5
    OBVIOUS
  <1> HIDE DEF places
  <1>4. ASSUME NEW i \in 1 .. 5, places[i] # {}, \A h \in 1 .. i - 1 : places[h] = {}
        PROVE  ExtractImageRef(f) # {}
    BY <1>1, <1>4
  <1>5. (\A i \in 1 .. 5 : places[i] = {}) => ExtractImageRef(f) = {}
    BY <1>1
  <1>6. ExtractImageRef(f) = {} => places[1] = {}
    BY <1>4
  <1>7. ExtractImageRef(f) = {} => places[2] = {}
    BY <1>4, <1>6
  <1>8. ExtractImageRef(f) = {} => places[3] = {}
    BY <1>4, <1>6, <1>7
  <1>9. ExtractImageRef(f) = {} => places[4] = {}
    BY <1>4, <1>6, <1>7, <1>8
  <1>10. ExtractImageRef(f) = {} => places[5] = {}
    BY <1>4, <1>6, <1>7, <1>8, <1>9
  <1>11. ExtractImageRef(f) = {} <=> p1 = {} /\ p2 = {} /\ p3 = {} /\ p4 = {} /\ p5 = {}
    BY <1>3, <1>5, <1>6, <1>7, <1>8, <1>9, <1>10
  <1> QED
    BY <1>2, <1>11

LEMMA StringsAfter ==
  ASSUME NEW f, NEW r, NEW t, \A k \in DOMAIN f : Good(f[k]), NEW k
  PROVE  /\ Strings(After(f, r, t), k) = {} <=> Strings(f, k) = {}
         /\ \A s : Text(s) \in Strings(After(f, r, t), k) <=> Text(s) \in Strings(f, k)
         /\ \A s : Strings(After(f, r, t), k) = {Text(s)} <=> Strings(f, k) = {Text(s)}
         /\ \A o \in Objects(After(f, r, t), k) :
               \E w \in Field(f, k) : Is("obj", w) /\ o = Processed(w, r, t).obj
  <1> DEFINE g == After(f, r, t)
  <1>1. DOMAIN g = DOMAIN f
    BY DEF After
  <1>2. CASE k \notin DOMAIN f
    BY <1>1, <1>2 DEF Strings, Objects, Field
  <1>3. CASE k \in DOMAIN f
    <2> DEFINE v == f[k]
               w == Processed(v, r, t)
    <2>1. g[k] = w
      BY <1>3 DEF After
    <2>2. Field(f, k) = {v} /\ Field(g, k) = {w}
      BY <1>1, <1>3, <2>1 DEF Field
    <2>3. Plain(v) /\ Shallow(v, MaxDepth)
      BY <1>3, GoodInside DEF Good
    <2>4. /\ IsString(w) <=> IsString(v)
          /\ Is("obj", w) <=> Is("obj", v)
          /\ \A s : w = Text(s) <=> v = Text(s)
      BY <2>3, ProcessedKinds
    <2>5. \A s : IsString(Text(s))
      BY TextIs DEF IsString
    <2> HIDE DEF g, v
    <2>6. /\ Strings(f, k) = IF IsString(v) THEN {v} ELSE {}
          /\ Strings(g, k) = IF IsString(w) THEN {w} ELSE {}
      BY <2>2 DEF Strings
    <2>7. \A o \in Objects(g, k) : Is("obj", w) /\ o = w.obj
      BY <2>2 DEF Objects
    <2> HIDE DEF w
    <2>8. /\ Strings(g, k) = {} <=> Strings(f, k) = {}
          /\ \A s : Text(s) \in Strings(g, k) <=> Text(s) \in Strings(f, k)
          /\ \A s : Strings(g, k) = {Text(s)} <=> Strings(f, k) = {Text(s)}
      <3>1. CASE IsString(v)
        BY <2>4, <2>5, <2>6, <3>1
      <3>2. CASE ~IsString(v)
        BY <2>4, <2>5, <2>6, <3>2
      <3> QED
        BY <3>1, <3>2
    <2>9. \A o \in Objects(g, k) : v \in Field(f, k) /\ Is("obj", v) /\ o = Processed(v, r, t).obj
      BY <2>2, <2>4, <2>7 DEF w
    <2> QED
      BY <2>8, <2>9 DEF g
  <1> QED
    BY <1>2, <1>3

TextTypes == {"text", "input_text"}

\* An object inside, which refers to no image as a source or an image_url, does not afterwards.
LEMMA NoRefsAfter ==
  ASSUME NEW w, Good(w), Is("obj", w), NEW r, NEW t \in TextTypes
  PROVE  /\ Strings(w.obj, "url") = {} => Strings(Processed(w, r, t).obj, "url") = {}
         /\ SourceRefs(w.obj) = {} => SourceRefs(Processed(w, r, t).obj) = {}
  <1> DEFINE h == w.obj
             o == Processed(w, r, t).obj
  <1>1. w = Obj(h) /\ Shallow(Obj(h), MaxDepth)
    <2>1. Plain(w)
      BY GoodInside
    <2>2. w = Obj(h)
      BY <2>1, TextIs, LinkIs, DataUrlIs, JsonIs, ArrIs DEF Plain
    <2> QED
      BY <2>2 DEF Good
  <1>2. CASE IsImage(Obj(h))
    <2>1. Processed(Obj(h), r, t) = TextItem(Obj(h), t)
      BY <1>1, <1>2, WalkImage
    <2>2. o = [type |-> Text(t), text |-> Recognised(RefOf(Obj(h)))]
      BY <1>1, <2>1, ObjIs DEF TextItem
    <2> HIDE DEF o, h
    <2>3. Strings(o, "url") = {}
      BY <2>2 DEF Strings, Field
    <2>4. Strings(o, "type") = {Text(t)}
      BY <2>2, TextIs DEF Strings, Field, IsString
    <2>5. Text(t) # Text("base64") /\ Text(t) # Text("url")
      BY DEF Text, TextTypes
    <2>6. SourceRefs(o) = {}
      BY <2>4, <2>5 DEF SourceRefs
    <2> QED
      BY <2>3, <2>6 DEF o
  <1>3. CASE ~IsImage(Obj(h))
    <2>1. Processed(Obj(h), r, t) = Obj(After(h, r, t))
      BY <1>1, <1>3, WalkObj
    <2>2. o = After(h, r, t)
      BY <1>1, <2>1, ObjIs
    <2>3. \A k \in DOMAIN h : Good(h[k])
      <3>1. \A c \in Components(Obj(h)) : Good(c)
        BY <1>1, GoodInside
      <3> QED
        BY <3>1, ComponentsAre
    <2> HIDE DEF o, h
    <2>4. \A k : /\ Strings(o, k) = {} <=> Strings(h, k) = {}
                 /\ \A s : Strings(o, k) = {Text(s)} <=> Strings(h, k) = {Text(s)}
      BY <2>2, <2>3, StringsAfter
    <2>5. Text("base64") # Text("url")
      BY DEF Text
    <2>6. ASSUME SourceRefs(h) = {} PROVE SourceRefs(o) = {}
      <3>1. CASE Strings(h, "type") = {Text("base64")}
        <4>1. Strings(o, "type") = {Text("base64")}
          BY <2>4, <3>1
        <4>2. Strings(h, "data") = {}
          <5> SUFFICES ASSUME NEW s \in Strings(h, "data") PROVE FALSE
            OBVIOUS
          <5>1. SourceRefs(h) = {[b64 |-> DataUrl(x, "given")] : x \in Strings(h, "data")}
            BY <3>1, <2>5 DEF SourceRefs
          <5>2. [b64 |-> DataUrl(s, "given")] \in {[b64 |-> DataUrl(x, "given")] : x \in Strings(h, "data")}
            OBVIOUS
          <5> QED
            BY <2>6, <5>1, <5>2
        <4>3. Strings(o, "data") = {}
          BY <2>4, <4>2
        <4> QED
          BY <2>5, <4>1, <4>3 DEF SourceRefs
      <3>2. CASE Strings(h, "type") = {Text("url")}
        <4>1. Strings(o, "type") = {Text("url")}
          BY <2>4, <3>2
        <4>2. Strings(h, "url") = {}
          <5> SUFFICES ASSUME NEW s \in Strings(h, "url") PROVE FALSE
            OBVIOUS
          <5>1. [url |-> s] \in SourceRefs(h)
            BY <2>5, <3>2 DEF SourceRefs
          <5> QED
            BY <2>6, <5>1
        <4>3. Strings(o, "url") = {}
          BY <2>4, <4>2
        <4> QED
          BY <2>5, <4>1, <4>3 DEF SourceRefs
      <3>3. CASE Strings(h, "type") # {Text("base64")} /\ Strings(h, "type") # {Text("url")}
        <4>1. Strings(o, "type") # {Text("base64")} /\ Strings(o, "type") # {Text("url")}
          BY <2>4, <3>3
        <4> QED
          BY <4>1 DEF SourceRefs
      <3> QED
        BY <3>1, <3>2, <3>3
    <2>7. Strings(h, "url") = {} => Strings(o, "url") = {}
      BY <2>4
    <2> QED
      BY <2>6, <2>7 DEF o, h
  <1> QED
    BY <1>2, <1>3

(***************************************************************************)
(* What was no image is none afterwards.                                   *)
(***************************************************************************)
LEMMA NoImageAfter ==
  ASSUME NEW v, Good(v), ~IsImage(v), NEW r, NEW t \in TextTypes
  PROVE  ~IsImage(Processed(v, r, t))
  <1>1. Plain(v) /\ Shallow(v, MaxDepth)
    BY GoodInside DEF Good
  <1>2. CASE ~Is("obj", v)
    BY <1>1, <1>2, ProcessedKinds DEF IsImage
  <1>3. CASE Is("obj", v)
    <2> DEFINE f == v.obj
               g == After(f, r, t)
    <2>1. v = Obj(f)
      BY <1>1, <1>3, TextIs, LinkIs, DataUrlIs, JsonIs, ArrIs DEF Plain
    <2>2. \A k \in DOMAIN f : Good(f[k])
      BY <2>1, GoodInside, ComponentsAre
    <2>3. Processed(v, r, t) = Obj(g)
      <3>1. Shallow(Obj(f), MaxDepth) /\ ~IsImage(Obj(f))
        BY <1>1, <2>1
      <3>2. Processed(Obj(f), r, t) = Obj(g)
        BY <3>1, WalkObj
      <3> QED
        BY <2>1, <3>2
    <2>4. ~IsImageContentItem(f) \/ ExtractImageRef(f) = {}
      BY <1>3 DEF IsImage
    <2>5. DOMAIN g = DOMAIN f
      BY DEF After
    <2>6. IsImage(Obj(g)) <=> IsImageContentItem(g) /\ ExtractImageRef(g) # {}
      BY ObjIs DEF IsImage
    <2>7. \A w, k : w \in Field(f, k) => Good(w)
      BY <2>2 DEF Field
    <2> HIDE DEF f
    <2>8. \A k : /\ Strings(g, k) = {} <=> Strings(f, k) = {}
                 /\ \A s : Text(s) \in Strings(g, k) <=> Text(s) \in Strings(f, k)
                 /\ \A o \in Objects(g, k) :
                       \E w \in Field(f, k) : Is("obj", w) /\ o = Processed(w, r, t).obj
      BY <2>2, StringsAfter
    <2> HIDE DEF g
    <2>9. IsImageContentItem(g) => IsImageContentItem(f)
      BY <2>5, <2>8 DEF IsImageContentItem
    <2>10. ASSUME ExtractImageRef(f) = {} PROVE ExtractImageRef(g) = {}
      <3>1. /\ Strings(g, "image_url") = {} /\ Strings(g, "url") = {}
            /\ Strings(g, "data") = {} /\ Strings(g, "image") = {}
        BY <2>8, <2>10, RefPlaces
      <3>2. ASSUME NEW o \in Objects(g, "image_url") PROVE Strings(o, "url") = {}
        <4>1. PICK w \in Field(f, "image_url") : Is("obj", w) /\ o = Processed(w, r, t).obj
          BY <2>8
        <4>2. w.obj \in Objects(f, "image_url")
          BY <4>1 DEF Objects
        <4>3. Strings(w.obj, "url") = {}
          BY <2>10, <4>2, RefPlaces
        <4> QED
          BY <2>7, <4>1, <4>3, NoRefsAfter
      <3>3. ASSUME NEW o \in Objects(g, "source") PROVE SourceRefs(o) = {}
        <4>1. PICK w \in Field(f, "source") : Is("obj", w) /\ o = Processed(w, r, t).obj
          BY <2>8
        <4>2. w.obj \in Objects(f, "source")
          BY <4>1 DEF Objects
        <4>3. SourceRefs(w.obj) = {}
          BY <2>10, <4>2, RefPlaces
        <4> QED
          BY <2>7, <4>1, <4>3, NoRefsAfter
      <3> QED
        BY <3>1, <3>2, <3>3, RefPlaces
    <2> QED
      BY <2>3, <2>4, <2>6, <2>9, <2>10
  <1> QED
    BY <1>2, <1>3

-----------------------------------------------------------------------------
(* Key and meaning: what is the same for one of the walks is the same for  *)
(* the other.                                                              *)

CanonicalAt(f) == [k \in DOMAIN f \ VolatileKeys |-> Canonical(f[k])]
MeaningAt(f) == [k \in DOMAIN f \ VolatileKeys |-> Meaning(f[k])]
CanonicalAll(s) == [i \in DOMAIN s |-> Canonical(s[i])]
MeaningAll(s) == [i \in DOMAIN s |-> Meaning(s[i])]

\* The two walks see the same: an image, an object, an array, JSON in a string, or a leaf.
AsPicture(v) ==
    /\ Pictured(v)
    /\ Canonical(v) = ContentHash(SourceOf(v)) /\ Meaning(v) = Picture(PictureOf(SourceOf(v)))
AsObject(v) ==
    /\ ~Pictured(v) /\ v = Obj(v.obj)
    /\ Canonical(v) = Obj(CanonicalAt(v.obj)) /\ Meaning(v) = Obj(MeaningAt(v.obj))
AsArray(v) ==
    /\ ~Pictured(v) /\ v = Arr(v.arr)
    /\ Canonical(v) = Arr(CanonicalAll(v.arr)) /\ Meaning(v) = Arr(MeaningAll(v.arr))
AsJson(v) ==
    /\ ~Pictured(v) /\ v = Json(v.json)
    /\ Canonical(v) = Json(Canonical(v.json)) /\ Meaning(v) = Json(Meaning(v.json))
AsLeaf(v) ==
    /\ ~Pictured(v) /\ (v = Text(v.text) \/ v = Link(v.link))
    /\ Canonical(v) = v /\ Meaning(v) = v

LEMMA BothSee ==
  ASSUME NEW v, Good(v)
  PROVE  AsPicture(v) \/ AsObject(v) \/ AsArray(v) \/ AsJson(v) \/ AsLeaf(v)
  <1>1. Plain(v) /\ Shallow(v, MaxDepth)
    BY GoodInside DEF Good
  <1>2. CASE v = Text(v.text) \/ v = Link(v.link)
    <2>1. \A k : Is(k, v) => k \in {"text", "link"}
      BY <1>2, TextIs, LinkIs
    <2>2. ~Pictured(v)
      BY <2>1 DEF Pictured, IsImage
    <2> QED
      BY <1>2, <2>1, <2>2, WalkLeaf DEF AsLeaf
  <1>3. CASE v = DataUrl(v.dataurl, v.media)
    <2>1. \A k : Is(k, v) <=> k \in {"dataurl", "media"}
      BY <1>3, DataUrlIs
    <2>2. Pictured(v) /\ SourceOf(v) = [b64 |-> v]
      BY <2>1 DEF Pictured, SourceOf, IsImage
    <2>3. Canonical(v) = ContentHash([b64 |-> v]) /\ Meaning(v) = Picture(PictureOf([b64 |-> v]))
      BY <1>3, WalkDataUrl
    <2> QED
      BY <2>2, <2>3 DEF AsPicture
  <1>4. CASE v = Json(v.json)
    <2>1. \A k : Is(k, v) <=> k = "json"
      BY <1>4, JsonIs
    <2>2. ~Pictured(v)
      BY <2>1 DEF Pictured, IsImage
    <2> QED
      BY <1>1, <1>4, <2>2, WalkJson DEF AsJson
  <1>5. CASE v = Arr(v.arr)
    <2>1. \A k : Is(k, v) <=> k = "arr"
      BY <1>5, ArrIs
    <2>2. ~Pictured(v)
      BY <2>1 DEF Pictured, IsImage
    <2>3. Shallow(Arr(v.arr), MaxDepth)
      BY <1>1, <1>5
    <2>4. Canonical(Arr(v.arr)) = Arr(CanonicalAll(v.arr)) /\ Meaning(Arr(v.arr)) = Arr(MeaningAll(v.arr))
      BY <2>3, WalkArr DEF CanonicalAll, MeaningAll
    <2> QED
      BY <1>5, <2>2, <2>4 DEF AsArray
  <1>6. CASE v = Obj(v.obj)
    <2>1. \A k : Is(k, v) <=> k = "obj"
      BY <1>6, ObjIs
    <2>2. Shallow(Obj(v.obj), MaxDepth)
      BY <1>1, <1>6
    <2>3. CASE IsImage(v)
      <3>1. Pictured(v) /\ SourceOf(v) = RefOf(v)
        BY <2>3 DEF Pictured, SourceOf
      <3>2. IsImage(Obj(v.obj))
        BY <1>6, <2>3
      <3>3. /\ Canonical(Obj(v.obj)) = ContentHash(RefOf(Obj(v.obj)))
            /\ Meaning(Obj(v.obj)) = Picture(PictureOf(RefOf(Obj(v.obj))))
        BY <2>2, <3>2, WalkImage
      <3> QED
        BY <1>6, <3>1, <3>3 DEF AsPicture
    <2>4. CASE ~IsImage(v)
      <3>1. ~Pictured(v)
        BY <2>1, <2>4 DEF Pictured
      <3>2. ~IsImage(Obj(v.obj))
        BY <1>6, <2>4
      <3>3. Canonical(Obj(v.obj)) = Obj(CanonicalAt(v.obj)) /\ Meaning(Obj(v.obj)) = Obj(MeaningAt(v.obj))
        BY <2>2, <3>2, WalkObj DEF CanonicalAt, MeaningAt
      <3> QED
        BY <1>6, <3>1, <3>3 DEF AsObject
    <2> QED
      BY <2>3, <2>4
  <1> QED
    BY <1>1, <1>2, <1>3, <1>4, <1>5, <1>6 DEF Plain

\* One hash is of one picture.
LEMMA HashNamesPicture ==
  ASSUME NEW a, NEW b, ContentHash(a) = ContentHash(b)
  PROVE  PictureOf(a) = PictureOf(b)
  <1> DEFINE hash(ref) == IF "b64" \in DOMAIN ref THEN [b64 |-> StripDataURLPrefix(ref.b64)] ELSE ref
  <1>1. hash(a) = hash(b)
    <2>1. ContentHash(a).img = hash(a) /\ ContentHash(b).img = hash(b)
      BY DEF ContentHash
    <2> QED
      BY <2>1
  <1>2. CASE "b64" \in DOMAIN a /\ "b64" \in DOMAIN b
    <2>1. hash(a).b64 = StripDataURLPrefix(a.b64) /\ hash(b).b64 = StripDataURLPrefix(b.b64)
      BY <1>2
    <2>2. StripDataURLPrefix(a.b64) = StripDataURLPrefix(b.b64)
      BY <1>1, <2>1
    <2> QED
      BY <1>2, <2>2 DEF PictureOf, PictureAt
  <1>3. CASE "b64" \notin DOMAIN a /\ "b64" \notin DOMAIN b
    BY <1>1, <1>3
  <1>4. CASE "b64" \in DOMAIN a /\ "b64" \notin DOMAIN b
    <2>1. "b64" \in DOMAIN hash(a)
      BY <1>4
    <2> QED
      BY <1>1, <1>4, <2>1
  <1>5. CASE "b64" \notin DOMAIN a /\ "b64" \in DOMAIN b
    <2>1. "b64" \in DOMAIN hash(b)
      BY <1>5
    <2> QED
      BY <1>1, <1>5, <2>1
  <1> QED
    BY <1>2, <1>3, <1>4, <1>5

\* As long as the payload names the picture, one picture has one hash.
LEMMA PictureNamesHash ==
  ASSUME NEW a, NEW b, IsBase64(a), IsBase64(b), PictureOf(a) = PictureOf(b)
  PROVE  ContentHash(a) = ContentHash(b)
  BY DEF IsBase64, ContentHash

\* Two values that are seen differently differ for both walks.
LEMMA SeenAlike ==
  ASSUME NEW v, NEW w, Good(v), Good(w), Canonical(v) = Canonical(w) \/ Meaning(v) = Meaning(w)
  PROVE  \/ AsPicture(v) /\ AsPicture(w)
         \/ AsObject(v) /\ AsObject(w)
         \/ AsArray(v) /\ AsArray(w)
         \/ AsJson(v) /\ AsJson(w)
         \/ AsLeaf(v) /\ AsLeaf(w)
  <1> DEFINE Kinds == {"pic", "obj", "arr", "json", "leaf"}
             Seen(u) == CASE Is("img", Canonical(u)) -> "pic"
                          [] Is("obj", Canonical(u)) -> "obj"
                          [] Is("arr", Canonical(u)) -> "arr"
                          [] Is("json", Canonical(u)) -> "json"
                          [] OTHER -> "leaf"
             Meant(u) == CASE Is("picture", Meaning(u)) -> "pic"
                          [] Is("obj", Meaning(u)) -> "obj"
                          [] Is("arr", Meaning(u)) -> "arr"
                          [] Is("json", Meaning(u)) -> "json"
                          [] OTHER -> "leaf"
             As(u, kind) == CASE kind = "pic" -> AsPicture(u)
                              [] kind = "obj" -> AsObject(u)
                              [] kind = "arr" -> AsArray(u)
                              [] kind = "json" -> AsJson(u)
                              [] kind = "leaf" -> AsLeaf(u)
  <1>1. ASSUME NEW u, Good(u)
        PROVE  \E kind \in Kinds : As(u, kind) /\ Seen(u) = kind /\ Meant(u) = kind
    <2>1. CASE AsPicture(u)
      <3>1. /\ \A k : Is(k, Canonical(u)) <=> k = "img"
            /\ \A k : Is(k, Meaning(u)) <=> k = "picture"
        BY <2>1, ContentHashIs, PictureIs DEF AsPicture
      <3>2. Seen(u) = "pic" /\ Meant(u) = "pic"
        BY <3>1
      <3> QED
        BY <2>1, <3>2
    <2>2. CASE AsObject(u)
      <3>1. /\ \A k : Is(k, Canonical(u)) <=> k = "obj"
            /\ \A k : Is(k, Meaning(u)) <=> k = "obj"
        BY <2>2, ObjIs DEF AsObject
      <3>2. Seen(u) = "obj" /\ Meant(u) = "obj"
        BY <3>1
      <3> QED
        BY <2>2, <3>2
    <2>3. CASE AsArray(u)
      <3>1. /\ \A k : Is(k, Canonical(u)) <=> k = "arr"
            /\ \A k : Is(k, Meaning(u)) <=> k = "arr"
        BY <2>3, ArrIs DEF AsArray
      <3>2. Seen(u) = "arr" /\ Meant(u) = "arr"
        BY <3>1
      <3> QED
        BY <2>3, <3>2
    <2>4. CASE AsJson(u)
      <3>1. /\ \A k : Is(k, Canonical(u)) <=> k = "json"
            /\ \A k : Is(k, Meaning(u)) <=> k = "json"
        BY <2>4, JsonIs DEF AsJson
      <3>2. Seen(u) = "json" /\ Meant(u) = "json"
        BY <3>1
      <3> QED
        BY <2>4, <3>2
    <2>5. CASE AsLeaf(u)
      <3>1. /\ \A k : Is(k, Canonical(u)) => k \in {"text", "link"}
            /\ \A k : Is(k, Meaning(u)) => k \in {"text", "link"}
        BY <2>5, TextIs, LinkIs DEF AsLeaf
      <3>2. Seen(u) = "leaf" /\ Meant(u) = "leaf"
        BY <3>1
      <3> QED
        BY <2>5, <3>2
    <2> QED
      BY <1>1, <2>1, <2>2, <2>3, <2>4, <2>5, BothSee
  <1>2. PICK kv \in Kinds : As(v, kv) /\ Seen(v) = kv /\ Meant(v) = kv
    BY <1>1
  <1>3. PICK kw \in Kinds : As(w, kw) /\ Seen(w) = kw /\ Meant(w) = kw
    BY <1>1
  <1>4. kv = kw
    <2>1. CASE Canonical(v) = Canonical(w)
      BY <1>2, <1>3, <2>1
    <2>2. CASE Meaning(v) = Meaning(w)
      BY <1>2, <1>3, <2>2
    <2> QED
      BY <2>1, <2>2
  <1> HIDE DEF Seen, Meant
  <1> QED
    BY <1>2, <1>3, <1>4

\* From what is directly inside to the whole: equal keys, equal meanings.
LEMMA KeyStep ==
  ASSUME NEW v, NEW w, Good(v), Good(w), Canonical(v) = Canonical(w),
         \A c \in Components(v) : \A d : Good(d) /\ Canonical(c) = Canonical(d) => Meaning(c) = Meaning(d)
  PROVE  Meaning(v) = Meaning(w)
  <1>1. \A d \in Components(w) : Good(d)
    BY GoodInside
  <1>2. CASE AsPicture(v) /\ AsPicture(w)
    BY <1>2, HashNamesPicture DEF AsPicture
  <1>3. CASE AsObject(v) /\ AsObject(w)
    <2> DEFINE f == v.obj
               g == w.obj
    <2>1. CanonicalAt(f) = CanonicalAt(g)
      BY <1>3, ObjIs DEF AsObject
    <2>2. \A k \in DOMAIN f : f[k] \in Components(v)
      <3>1. Components(Obj(f)) = {f[k] : k \in DOMAIN f}
        BY ComponentsAre
      <3> QED
        BY <1>3, <3>1 DEF AsObject
    <2>3. \A k \in DOMAIN g : g[k] \in Components(w)
      <3>1. Components(Obj(g)) = {g[k] : k \in DOMAIN g}
        BY ComponentsAre
      <3> QED
        BY <1>3, <3>1 DEF AsObject
    <2> HIDE DEF f, g
    <2>4. DOMAIN f \ VolatileKeys = DOMAIN g \ VolatileKeys
      BY <2>1 DEF CanonicalAt
    <2>5. ASSUME NEW k \in DOMAIN f \ VolatileKeys PROVE Meaning(f[k]) = Meaning(g[k])
      <3>1. CanonicalAt(f)[k] = Canonical(f[k]) /\ CanonicalAt(g)[k] = Canonical(g[k])
        BY <2>4 DEF CanonicalAt
      <3> QED
        BY <1>1, <2>1, <2>2, <2>3, <2>4, <3>1
    <2>6. MeaningAt(f) = MeaningAt(g)
      BY <2>4, <2>5 DEF MeaningAt
    <2> QED
      BY <1>3, <2>6 DEF AsObject, f, g
  <1>4. CASE AsArray(v) /\ AsArray(w)
    <2> DEFINE f == v.arr
               g == w.arr
    <2>1. CanonicalAll(f) = CanonicalAll(g)
      BY <1>4, ArrIs DEF AsArray
    <2>2. \A k \in DOMAIN f : f[k] \in Components(v)
      <3>1. Components(Arr(f)) = {f[k] : k \in DOMAIN f}
        BY ComponentsAre
      <3> QED
        BY <1>4, <3>1 DEF AsArray
    <2>3. \A k \in DOMAIN g : g[k] \in Components(w)
      <3>1. Components(Arr(g)) = {g[k] : k \in DOMAIN g}
        BY ComponentsAre
      <3> QED
        BY <1>4, <3>1 DEF AsArray
    <2> HIDE DEF f, g
    <2>4. DOMAIN f = DOMAIN g
      BY <2>1 DEF CanonicalAll
    <2>5. ASSUME NEW k \in DOMAIN f PROVE Meaning(f[k]) = Meaning(g[k])
      <3>1. CanonicalAll(f)[k] = Canonical(f[k]) /\ CanonicalAll(g)[k] = Canonical(g[k])
        BY <2>4 DEF CanonicalAll
      <3> QED
        BY <1>1, <2>1, <2>2, <2>3, <2>4, <3>1
    <2>6. MeaningAll(f) = MeaningAll(g)
      BY <2>4, <2>5 DEF MeaningAll
    <2> QED
      BY <1>4, <2>6 DEF AsArray, f, g
  <1>5. CASE AsJson(v) /\ AsJson(w)
    <2>1. Canonical(v.json) = Canonical(w.json)
      BY <1>5, JsonIs DEF AsJson
    <2>2. v.json \in Components(v) /\ w.json \in Components(w)
      <3>1. v.json \in Components(Json(v.json)) /\ w.json \in Components(Json(w.json))
        BY ComponentsAre
      <3> QED
        BY <1>5, <3>1 DEF AsJson
    <2>3. Meaning(v.json) = Meaning(w.json)
      BY <1>1, <2>1, <2>2
    <2> QED
      BY <1>5, <2>3 DEF AsJson
  <1>6. CASE AsLeaf(v) /\ AsLeaf(w)
    BY <1>6 DEF AsLeaf
  <1> QED
    BY <1>2, <1>3, <1>4, <1>5, <1>6, SeenAlike

(***************************************************************************)
(* Values with one canonical form mean the same (normalize.go:35-36).      *)
(***************************************************************************)
THEOREM KeyTellsMeaning ==
  ASSUME NEW v, NEW w, Good(v), Good(w), Canonical(v) = Canonical(w)
  PROVE  Meaning(v) = Meaning(w)
  <1> DEFINE P(a) == \A b : Good(b) /\ Canonical(a) = Canonical(b) => Meaning(a) = Meaning(b)
             S == {n \in Nat : \A a : Good(a) /\ Shallow(a, n) => P(a)}
  <1>1. ASSUME NEW a, Good(a), \A c \in Components(a) : P(c) PROVE P(a)
    BY <1>1, KeyStep
  <1> HIDE DEF P
  <1>2. 0 \in S
    BY <1>1, ShallowLeaf
  <1>3. ASSUME NEW n \in Nat, n \in S PROVE n + 1 \in S
    <2> SUFFICES ASSUME NEW a, Good(a), Shallow(a, n + 1) PROVE P(a)
      OBVIOUS
    <2>1. \A c \in Components(a) : Good(c) /\ Shallow(c, n)
      BY GoodInside, ShallowInside
    <2> QED
      BY <1>1, <1>3, <2>1
  <1> HIDE DEF S
  <1>4. MaxDepth \in S
    BY <1>2, <1>3, CountingUp, BoundsAssumption
  <1>5. P(v)
    BY <1>4 DEF S, Good
  <1> QED
    BY <1>5 DEF P

\* A plain value whose images are base64.
Payloads(v) == Good(v) /\ \A w \in Parts(v) : Pictured(w) => IsBase64(SourceOf(w))

LEMMA PayloadsInside ==
  ASSUME NEW v, Payloads(v)
  PROVE  \A c \in Components(v) : Payloads(c)
  BY GoodInside, PartsInside DEF Payloads, Good

\* From what is directly inside to the whole: equal meanings of base64 images, equal keys.
LEMMA KeyStepBack ==
  ASSUME NEW v, NEW w, Payloads(v), Payloads(w), Meaning(v) = Meaning(w),
         \A c \in Components(v) : \A d : Payloads(d) /\ Meaning(c) = Meaning(d) => Canonical(c) = Canonical(d)
  PROVE  Canonical(v) = Canonical(w)
  <1>1. \A d \in Components(w) : Payloads(d)
    BY PayloadsInside
  <1>2. CASE AsPicture(v) /\ AsPicture(w)
    <2>1. IsBase64(SourceOf(v)) /\ IsBase64(SourceOf(w))
      BY <1>2, PartsSelf DEF AsPicture, Payloads
    <2>2. PictureOf(SourceOf(v)) = PictureOf(SourceOf(w))
      <3>1. Picture(PictureOf(SourceOf(v))) = Picture(PictureOf(SourceOf(w)))
        BY <1>2 DEF AsPicture
      <3> QED
        BY <3>1, PictureIs
    <2> QED
      BY <1>2, <2>1, <2>2, PictureNamesHash DEF AsPicture
  <1>3. CASE AsObject(v) /\ AsObject(w)
    <2> DEFINE f == v.obj
               g == w.obj
    <2>1. MeaningAt(f) = MeaningAt(g)
      BY <1>3, ObjIs DEF AsObject
    <2>2. \A k \in DOMAIN f : f[k] \in Components(v)
      <3>1. Components(Obj(f)) = {f[k] : k \in DOMAIN f}
        BY ComponentsAre
      <3> QED
        BY <1>3, <3>1 DEF AsObject
    <2>3. \A k \in DOMAIN g : g[k] \in Components(w)
      <3>1. Components(Obj(g)) = {g[k] : k \in DOMAIN g}
        BY ComponentsAre
      <3> QED
        BY <1>3, <3>1 DEF AsObject
    <2> HIDE DEF f, g
    <2>4. DOMAIN f \ VolatileKeys = DOMAIN g \ VolatileKeys
      BY <2>1 DEF MeaningAt
    <2>5. ASSUME NEW k \in DOMAIN f \ VolatileKeys PROVE Canonical(f[k]) = Canonical(g[k])
      <3>1. MeaningAt(f)[k] = Meaning(f[k]) /\ MeaningAt(g)[k] = Meaning(g[k])
        BY <2>4 DEF MeaningAt
      <3> QED
        BY <1>1, <2>1, <2>2, <2>3, <2>4, <3>1
    <2>6. CanonicalAt(f) = CanonicalAt(g)
      BY <2>4, <2>5 DEF CanonicalAt
    <2> QED
      BY <1>3, <2>6 DEF AsObject, f, g
  <1>4. CASE AsArray(v) /\ AsArray(w)
    <2> DEFINE f == v.arr
               g == w.arr
    <2>1. MeaningAll(f) = MeaningAll(g)
      BY <1>4, ArrIs DEF AsArray
    <2>2. \A k \in DOMAIN f : f[k] \in Components(v)
      <3>1. Components(Arr(f)) = {f[k] : k \in DOMAIN f}
        BY ComponentsAre
      <3> QED
        BY <1>4, <3>1 DEF AsArray
    <2>3. \A k \in DOMAIN g : g[k] \in Components(w)
      <3>1. Components(Arr(g)) = {g[k] : k \in DOMAIN g}
        BY ComponentsAre
      <3> QED
        BY <1>4, <3>1 DEF AsArray
    <2> HIDE DEF f, g
    <2>4. DOMAIN f = DOMAIN g
      BY <2>1 DEF MeaningAll
    <2>5. ASSUME NEW k \in DOMAIN f PROVE Canonical(f[k]) = Canonical(g[k])
      <3>1. MeaningAll(f)[k] = Meaning(f[k]) /\ MeaningAll(g)[k] = Meaning(g[k])
        BY <2>4 DEF MeaningAll
      <3> QED
        BY <1>1, <2>1, <2>2, <2>3, <2>4, <3>1
    <2>6. CanonicalAll(f) = CanonicalAll(g)
      BY <2>4, <2>5 DEF CanonicalAll
    <2> QED
      BY <1>4, <2>6 DEF AsArray, f, g
  <1>5. CASE AsJson(v) /\ AsJson(w)
    <2>1. Meaning(v.json) = Meaning(w.json)
      BY <1>5, JsonIs DEF AsJson
    <2>2. v.json \in Components(v) /\ w.json \in Components(w)
      <3>1. v.json \in Components(Json(v.json)) /\ w.json \in Components(Json(w.json))
        BY ComponentsAre
      <3> QED
        BY <1>5, <3>1 DEF AsJson
    <2>3. Canonical(v.json) = Canonical(w.json)
      BY <1>1, <2>1, <2>2
    <2> QED
      BY <1>5, <2>3 DEF AsJson
  <1>6. CASE AsLeaf(v) /\ AsLeaf(w)
    BY <1>6 DEF AsLeaf
  <1> QED
    BY <1>2, <1>3, <1>4, <1>5, <1>6, SeenAlike DEF Payloads

(***************************************************************************)
(* Values that mean the same have one canonical form, however their images *)
(* are wrapped, as long as they are base64 (normalize.go:16-19).           *)
(***************************************************************************)
THEOREM MeaningTellsKey ==
  ASSUME NEW v, NEW w, Payloads(v), Payloads(w), Meaning(v) = Meaning(w)
  PROVE  Canonical(v) = Canonical(w)
  <1> DEFINE P(a) == \A b : Payloads(b) /\ Meaning(a) = Meaning(b) => Canonical(a) = Canonical(b)
             S == {n \in Nat : \A a : Payloads(a) /\ Shallow(a, n) => P(a)}
  <1>1. ASSUME NEW a, Payloads(a), \A c \in Components(a) : P(c) PROVE P(a)
    BY <1>1, KeyStepBack
  <1> HIDE DEF P
  <1>2. 0 \in S
    BY <1>1, ShallowLeaf
  <1>3. ASSUME NEW n \in Nat, n \in S PROVE n + 1 \in S
    <2> SUFFICES ASSUME NEW a, Payloads(a), Shallow(a, n + 1) PROVE P(a)
      OBVIOUS
    <2>1. \A c \in Components(a) : Payloads(c) /\ Shallow(c, n)
      BY PayloadsInside, ShallowInside
    <2> QED
      BY <1>1, <1>3, <2>1
  <1> HIDE DEF S
  <1>4. MaxDepth \in S
    BY <1>2, <1>3, CountingUp, BoundsAssumption
  <1>5. P(v)
    BY <1>4 DEF S, Payloads, Good
  <1> QED
    BY <1>5 DEF P

-----------------------------------------------------------------------------
(* What the main model reads of a processed value is what it means.        *)

\* What is directly inside a processed array is a piece's first element or its text.
Text2(e, r, t) == IF IsImage(e) /\ ~r THEN TextItem(e, t) ELSE Processed(e, r, t)

LEMMA PiecesAre ==
  ASSUME NEW n \in Nat, NEW s, DOMAIN s = 1 .. n, \A i \in 1 .. n : Good(s[i]),
         NEW r, NEW t \in TextTypes
  PROVE  LET p == [i \in 1 .. n |-> Piece(s[i], r, t)]
         IN  /\ FlattenSeq([i \in DOMAIN s |-> Piece(s[i], r, t)]) = FlattenSeq(Upto(p, n))
             /\ \A i \in 1 .. n : Beside(p[i], Text2(s[i], r, t))
  <1> DEFINE p == [i \in 1 .. n |-> Piece(s[i], r, t)]
  <1>1. Upto(p, n) = [i \in DOMAIN s |-> Piece(s[i], r, t)]
    BY DEF Upto
  <1>2. ASSUME NEW e, NEW v PROVE ~IsImage(TextItem(v, t))
    <2> DEFINE f == [type |-> Text(t), text |-> Recognised(RefOf(v))]
    <2>1. Strings(f, "type") = {Text(t)}
      BY TextIs DEF Strings, Field, IsString
    <2>2. Text(t) \notin {Text("image_url"), Text("input_image"), Text("image")}
      BY DEF Text, TextTypes
    <2> HIDE DEF f
    <2>3. ~IsImageContentItem(f)
      BY <2>1, <2>2 DEF IsImageContentItem
    <2>4. TextItem(v, t) = Obj(f)
      BY DEF TextItem, f
    <2> QED
      BY <2>3, <2>4, ObjIs DEF IsImage
  <1>3. ASSUME NEW e, Good(e) PROVE Beside(Piece(e, r, t), Text2(e, r, t))
    <2>1. CASE IsImage(e) /\ ~r
      BY <1>2, <2>1 DEF Beside, Piece, Text2
    <2>2. CASE ~(IsImage(e) /\ ~r)
      <3>1. ~IsImage(Processed(e, r, t))
        <4>1. CASE IsImage(e)
          <5>1. e = Obj(e.obj) /\ Shallow(e, MaxDepth)
            BY <1>3, <4>1, GoodInside, ImageIsObj DEF Good
          <5>2. Shallow(Obj(e.obj), MaxDepth) /\ IsImage(Obj(e.obj))
            BY <4>1, <5>1
          <5>3. Processed(Obj(e.obj), r, t) = TextItem(Obj(e.obj), t)
            BY <5>2, WalkImage
          <5> QED
            BY <1>2, <5>1, <5>3
        <4>2. CASE ~IsImage(e)
          BY <1>3, <4>2, NoImageAfter
        <4> QED
          BY <4>1, <4>2
      <3> QED
        BY <2>2, <3>1 DEF Beside, Piece, Text2
    <2> QED
      BY <2>1, <2>2
  <1> QED
    BY <1>1, <1>3

LEMMA ShallowFrom ==
  ASSUME NEW v, NEW n \in Nat, \A c \in Components(v) : n # 0 /\ Shallow(c, n - 1)
  PROVE  Shallow(v, n)
  <1>1. CASE n = 0
    <2>1. Components(v) = {}
      BY <1>1
    <2> QED
      BY <1>1, <2>1, ShallowLeaf
  <1>2. CASE n # 0
    <2>1. n - 1 \in Nat /\ (n - 1) + 1 = n
      BY <1>2
    <2>2. Shallow(v, (n - 1) + 1)
      BY <2>1, ShallowInside
    <2> QED
      BY <2>1, <2>2
  <1> QED
    BY <1>1, <1>2

\* An image has a field at least, its text item holds two leaves.
LEMMA ItemShallow ==
  ASSUME NEW v, Plain(v), IsImage(v), NEW n \in Nat, Shallow(v, n), NEW t
  PROVE  Shallow(TextItem(v, t), n)
  <1>1. v = Obj(v.obj)
    BY ImageIsObj
  <1>2. IsImageContentItem(v.obj)
    BY DEF IsImage
  <1>3. DOMAIN v.obj # {}
    BY <1>2 DEF IsImageContentItem, Strings, Field
  <1>4. Components(v) # {}
    <2>1. Components(Obj(v.obj)) = {v.obj[k] : k \in DOMAIN v.obj}
      BY ComponentsAre
    <2> QED
      BY <1>1, <1>3, <2>1
  <1>5. n # 0
    BY <1>4, ShallowLeaf
  <1> QED
    BY <1>5, ReadItem, ShallowMore

\* From what is directly inside to the whole: processing makes nothing deeper.
LEMMA DepthStep ==
  ASSUME NEW v, Good(v), NEW r, NEW t \in TextTypes, NEW n \in Nat, Shallow(v, n),
         \A c \in Components(v) : n # 0 /\ Shallow(c, n - 1) /\ Shallow(Processed(c, r, t), n - 1)
  PROVE  Shallow(Processed(v, r, t), n)
  <1>1. Plain(v) /\ Shallow(v, MaxDepth) /\ \A c \in Components(v) : Good(c)
    BY GoodInside DEF Good
  <1>2. CASE v = Text(v.text) \/ v = Link(v.link)
    <2>1. \A k : Is(k, v) => k \in {"text", "link"}
      BY <1>2, TextIs, LinkIs
    <2>2. Processed(v, r, t) = v
      BY <2>1, WalkLeaf
    <2> QED
      BY <2>2
  <1>3. CASE v = DataUrl(v.dataurl, v.media)
    <2>1. Processed(v, r, t) = Desc(PictureOf([b64 |-> v]))
      BY <1>3, WalkDataUrl DEF Recognised
    <2>2. Components(Desc(PictureOf([b64 |-> v]))) = {}
      BY ComponentsAre
    <2> QED
      BY <2>1, <2>2, ShallowFrom
  <1>4. CASE v = Json(v.json)
    <2>1. Processed(v, r, t) = Json(Processed(v.json, r, t))
      <3>1. Shallow(Json(v.json), MaxDepth)
        BY <1>1, <1>4
      <3>2. Processed(Json(v.json), r, t) = Json(Processed(v.json, r, t))
        BY <3>1, WalkJson
      <3> QED
        BY <1>4, <3>2
    <2>2. v.json \in Components(v)
      <3>1. v.json \in Components(Json(v.json))
        BY ComponentsAre
      <3> QED
        BY <1>4, <3>1
    <2>3. Components(Processed(v, r, t)) = {Processed(v.json, r, t)}
      BY <2>1, ComponentsAre
    <2> QED
      BY <2>2, <2>3, ShallowFrom
  <1>5. CASE v = Obj(v.obj)
    <2> DEFINE f == v.obj
    <2>1. Shallow(Obj(f), MaxDepth)
      BY <1>1, <1>5
    <2>2. CASE IsImage(v)
      <3>1. Processed(Obj(f), r, t) = TextItem(Obj(f), t)
        BY <1>5, <2>1, <2>2, WalkImage
      <3>2. Processed(v, r, t) = TextItem(v, t)
        BY <1>5, <3>1
      <3> QED
        BY <1>1, <2>2, <3>2, ItemShallow
    <2>3. CASE ~IsImage(v)
      <3>1. Processed(Obj(f), r, t) = Obj(After(f, r, t))
        BY <1>5, <2>1, <2>3, WalkObj
      <3>2. Processed(v, r, t) = Obj(After(f, r, t))
        BY <1>5, <3>1
      <3>3. Components(Obj(After(f, r, t))) = {After(f, r, t)[k] : k \in DOMAIN After(f, r, t)}
        BY ComponentsAre
      <3>4. \A k \in DOMAIN f : f[k] \in Components(v)
        <4>1. Components(Obj(f)) = {f[k] : k \in DOMAIN f}
          BY ComponentsAre
        <4> QED
          BY <1>5, <4>1
      <3> HIDE DEF f
      <3>5. \A d \in Components(Obj(After(f, r, t))) : \E k \in DOMAIN f : d = Processed(f[k], r, t)
        BY <3>3 DEF After
      <3>6. \A d \in Components(Obj(After(f, r, t))) : n # 0 /\ Shallow(d, n - 1)
        BY <3>4, <3>5
      <3> QED
        BY <3>2, <3>6, ShallowFrom
    <2> QED
      BY <2>2, <2>3
  <1>6. CASE v = Arr(v.arr) /\ v.arr \in Seq(Components(v))
    <2> DEFINE s == v.arr
               m == Len(s)
               p == [i \in 1 .. m |-> Piece(s[i], r, t)]
               U == {s[i] : i \in 1 .. m} \cup {Text2(s[i], r, t) : i \in 1 .. m}
    <2>1. m \in Nat /\ DOMAIN s = 1 .. m /\ \A i \in 1 .. m : s[i] \in Components(v)
      BY <1>6
    <2>2. Processed(v, r, t) = Arr(FlattenSeq([i \in DOMAIN s |-> Piece(s[i], r, t)]))
      <3>1. Shallow(Arr(s), MaxDepth)
        BY <1>1, <1>6
      <3>2. Processed(Arr(s), r, t) = Arr(FlattenSeq([i \in DOMAIN s |-> Piece(s[i], r, t)]))
        BY <3>1, WalkArr
      <3> QED
        BY <1>6, <3>2
    <2> HIDE DEF s, m
    <2>3. FlattenSeq([i \in DOMAIN s |-> Piece(s[i], r, t)]) = FlattenSeq(Upto(p, m))
      BY <1>1, <2>1, PiecesAre
    <2>4. \A i \in 1 .. m : p[i] \in Seq(U)
      <3> TAKE i \in 1 .. m
      <3>1. s[i] \in U /\ Text2(s[i], r, t) \in U
        OBVIOUS
      <3>2. p[i] = Piece(s[i], r, t)
        OBVIOUS
      <3> HIDE DEF U, p
      <3> QED
        BY <3>1, <3>2 DEF Piece, Text2
    <2>5. FlattenSeq(Upto(p, m)) \in Seq(U)
      <3> HIDE DEF U, p
      <3>1. \A k \in Nat : k <= m => FlattenSeq(Upto(p, k)) \in Seq(U)
        BY <2>1, <2>4, FlattenType
      <3> QED
        BY <2>1, <3>1
    <2>6. ASSUME NEW d \in U PROVE n # 0 /\ Shallow(d, n - 1)
      <3>1. PICK i \in 1 .. m : d = s[i] \/ d = Text2(s[i], r, t)
        OBVIOUS
      <3> DEFINE e == s[i]
      <3>2. /\ n # 0 /\ n - 1 \in Nat /\ Shallow(e, n - 1) /\ Shallow(Processed(e, r, t), n - 1)
            /\ Good(e)
        BY <1>1, <2>1
      <3> HIDE DEF e
      <3>3. CASE IsImage(e) /\ ~r
        <4>1. Shallow(TextItem(e, t), n - 1)
          BY <3>2, <3>3, GoodInside, ItemShallow
        <4> QED
          BY <3>1, <3>2, <3>3, <4>1 DEF Text2, e
      <3>4. CASE ~(IsImage(e) /\ ~r)
        BY <3>1, <3>2, <3>4 DEF Text2, e
      <3> QED
        BY <3>3, <3>4
    <2> DEFINE F == FlattenSeq(Upto(p, m))
    <2>7. Processed(v, r, t) = Arr(F)
      BY <2>2, <2>3
    <2>8. F \in Seq(U)
      BY <2>5
    <2> HIDE DEF F, U, p
    <2>9. \A d \in Components(Arr(F)) : d \in U
      <3>1. Components(Arr(F)) = {F[i] : i \in DOMAIN F}
        BY ComponentsAre
      <3> QED
        BY <2>8, <3>1
    <2> QED
      BY <2>6, <2>7, <2>9, ShallowFrom
  <1> QED
    BY <1>1, <1>2, <1>3, <1>4, <1>5, <1>6 DEF Plain

LEMMA DepthKept ==
  ASSUME NEW v, Good(v), NEW r, NEW t \in TextTypes, NEW n \in Nat, Shallow(v, n)
  PROVE  Shallow(Processed(v, r, t), n)
  <1> DEFINE S == {k \in Nat : \A a : Good(a) /\ Shallow(a, k) => Shallow(Processed(a, r, t), k)}
  <1>1. 0 \in S
    <2> SUFFICES ASSUME NEW a, Good(a), Shallow(a, 0) PROVE Shallow(Processed(a, r, t), 0)
      OBVIOUS
    <2>1. Components(a) = {}
      BY ShallowLeaf
    <2> QED
      BY <2>1, DepthStep
  <1>2. ASSUME NEW k \in Nat, k \in S PROVE k + 1 \in S
    <2> SUFFICES ASSUME NEW a, Good(a), Shallow(a, k + 1) PROVE Shallow(Processed(a, r, t), k + 1)
      OBVIOUS
    <2>1. k + 1 \in Nat /\ k + 1 # 0 /\ (k + 1) - 1 = k
      OBVIOUS
    <2>2. \A c \in Components(a) : Shallow(c, k) /\ Shallow(Processed(c, r, t), k)
      BY <1>2, GoodInside, ShallowInside
    <2> HIDE DEF S
    <2> QED
      BY <2>1, <2>2, DepthStep
  <1> HIDE DEF S
  <1>3. \A k \in Nat : k \in S
    BY <1>1, <1>2, CountingUp
  <1> QED
    BY <1>3 DEF S

\* From what is directly inside to the whole.
LEMMA ReadStep ==
  ASSUME NEW v, Good(v), NEW r, NEW t \in TextTypes,
         \A c \in Components(v) : Reading(Processed(c, r, t)) = Meaning(c)
  PROVE  Reading(Processed(v, r, t)) = Meaning(v)
  <1>1. Plain(v) /\ Shallow(v, MaxDepth) /\ \A c \in Components(v) : Good(c)
    BY GoodInside DEF Good
  <1>2. Shallow(Processed(v, r, t), MaxDepth)
    BY <1>1, DepthKept, BoundsAssumption
  <1>3. CASE v = Text(v.text) \/ v = Link(v.link)
    <2>1. \A k : Is(k, v) => k \in {"text", "link"}
      BY <1>3, TextIs, LinkIs
    <2>2. Processed(v, r, t) = v /\ Reading(v) = v /\ Meaning(v) = v
      BY <2>1, WalkLeaf
    <2> QED
      BY <2>2
  <1>4. CASE v = DataUrl(v.dataurl, v.media)
    <2> DEFINE p == PictureOf([b64 |-> v])
    <2>1. Processed(v, r, t) = Desc(p) /\ Meaning(v) = Picture(p)
      BY <1>4, WalkDataUrl DEF Recognised
    <2> QED
      BY <2>1, ReadDesc
  <1>5. CASE v = Json(v.json)
    <2>1. Processed(v, r, t) = Json(Processed(v.json, r, t)) /\ Meaning(v) = Json(Meaning(v.json))
      <3>1. Shallow(Json(v.json), MaxDepth)
        BY <1>1, <1>5
      <3>2. /\ Processed(Json(v.json), r, t) = Json(Processed(v.json, r, t))
            /\ Meaning(Json(v.json)) = Json(Meaning(v.json))
        BY <3>1, WalkJson
      <3> QED
        BY <1>5, <3>2
    <2>2. v.json \in Components(v)
      <3>1. v.json \in Components(Json(v.json))
        BY ComponentsAre
      <3> QED
        BY <1>5, <3>1
    <2>3. Reading(Json(Processed(v.json, r, t))) = Json(Reading(Processed(v.json, r, t)))
      <3>1. Shallow(Json(Processed(v.json, r, t)), MaxDepth)
        BY <1>2, <2>1
      <3> QED
        BY <3>1, WalkJson
    <2> QED
      BY <2>1, <2>2, <2>3
  <1>6. CASE v = Obj(v.obj) /\ \A x \in Field(v.obj, "text") : ~Is("dataurl", x)
    <2> DEFINE f == v.obj
               g == After(f, r, t)
    <2>1. Shallow(Obj(f), MaxDepth)
      BY <1>1, <1>6
    <2>2. CASE IsImage(v)
      <3>1. /\ Processed(Obj(f), r, t) = TextItem(Obj(f), t)
            /\ Meaning(Obj(f)) = Picture(PictureOf(RefOf(Obj(f))))
        BY <1>6, <2>1, <2>2, WalkImage
      <3> QED
        BY <1>6, <3>1, ReadItem
    <2>3. CASE ~IsImage(v)
      <3>1. Processed(Obj(f), r, t) = Obj(g) /\ Meaning(Obj(f)) = Obj(MeaningAt(f))
        BY <1>6, <2>1, <2>3, WalkObj DEF MeaningAt
      <3>2. Shallow(Obj(g), MaxDepth)
        BY <1>2, <1>6, <3>1
      <3>3. \A k \in DOMAIN f : f[k] \in Components(v)
        <4>1. Components(Obj(f)) = {f[k] : k \in DOMAIN f}
          BY ComponentsAre
        <4> QED
          BY <1>6, <4>1
      <3>4. DOMAIN g = DOMAIN f /\ \A k \in DOMAIN f : g[k] = Processed(f[k], r, t)
        BY DEF After
      <3>5. v = Obj(f) /\ \A x \in Field(f, "text") : ~Is("dataurl", x)
        BY <1>6
      <3> HIDE DEF f, g
      <3>6. ASSUME NEW x \in Field(g, "text") PROVE ~Is("desc", x)
        <4>1. "text" \in DOMAIN f /\ x = Processed(f["text"], r, t) /\ f["text"] \in Field(f, "text")
          BY <3>4 DEF Field
        <4>2. Good(f["text"])
          BY <1>1, <3>3, <4>1
        <4>3. Plain(f["text"]) /\ Shallow(f["text"], MaxDepth)
          BY <4>2, GoodInside DEF Good
        <4> QED
          BY <3>5, <4>1, <4>3, ProcessedKinds
      <3>7. Reading(Obj(g)) = Obj([k \in DOMAIN g \ VolatileKeys |-> Reading(g[k])])
        BY <3>2, <3>6, ReadObj
      <3>8. [k \in DOMAIN g \ VolatileKeys |-> Reading(g[k])] = MeaningAt(f)
        BY <3>3, <3>4 DEF MeaningAt
      <3> QED
        BY <3>1, <3>5, <3>7, <3>8
    <2> QED
      BY <2>2, <2>3
  <1>7. CASE v = Arr(v.arr) /\ v.arr \in Seq(Components(v))
    <2> DEFINE s == v.arr
               m == Len(s)
               p == [i \in 1 .. m |-> Piece(s[i], r, t)]
               x == [i \in 1 .. m |-> Text2(s[i], r, t)]
    <2>1. m \in Nat /\ DOMAIN s = 1 .. m /\ \A i \in 1 .. m : s[i] \in Components(v)
      BY <1>7
    <2>2. /\ Processed(v, r, t) = Arr(FlattenSeq([i \in DOMAIN s |-> Piece(s[i], r, t)]))
          /\ Meaning(v) = Arr(MeaningAll(s))
      <3>1. Shallow(Arr(s), MaxDepth)
        BY <1>1, <1>7
      <3>2. v = Arr(s)
        BY <1>7
      <3> HIDE DEF s, m, p, x
      <3>3. \A q, u : Processed(Arr(s), q, u) = Arr(FlattenSeq([i \in DOMAIN s |-> Piece(s[i], q, u)]))
        BY <3>1, WalkArr
      <3>4. Meaning(Arr(s)) = Arr([i \in DOMAIN s |-> Meaning(s[i])])
        BY <3>1, WalkArr
      <3>5. Meaning(Arr(s)) = Arr(MeaningAll(s))
        BY <3>4 DEF MeaningAll
      <3> QED
        BY <3>2, <3>3, <3>5
    <2> HIDE DEF s, m
    <2>3. /\ FlattenSeq([i \in DOMAIN s |-> Piece(s[i], r, t)]) = FlattenSeq(Upto(p, m))
          /\ \A i \in 1 .. m : Beside(p[i], Text2(s[i], r, t))
      BY <1>1, <2>1, PiecesAre
    <2>4. \A i \in 1 .. m : Beside(p[i], x[i])
      BY <2>3
    <2>5. ASSUME NEW i \in 1 .. m PROVE Reading(Text2(s[i], r, t)) = Meaning(s[i])
      <3> DEFINE e == s[i]
      <3>1. e \in Components(v) /\ Good(e)
        BY <1>1, <2>1
      <3> HIDE DEF e
      <3>2. CASE IsImage(e) /\ ~r
        <4>1. e = Obj(e.obj) /\ Shallow(e, MaxDepth)
          BY <3>1, <3>2, GoodInside, ImageIsObj DEF Good
        <4>2. Shallow(Obj(e.obj), MaxDepth) /\ IsImage(Obj(e.obj))
          BY <3>2, <4>1
        <4>3. Meaning(Obj(e.obj)) = Picture(PictureOf(RefOf(Obj(e.obj))))
          BY <4>2, WalkImage
        <4>4. Reading(TextItem(e, t)) = Picture(PictureOf(RefOf(e)))
          BY ReadItem
        <4> QED
          BY <3>2, <4>1, <4>3, <4>4 DEF Text2, e
      <3>3. CASE ~(IsImage(e) /\ ~r)
        BY <3>1, <3>3 DEF Text2, e
      <3> QED
        BY <3>2, <3>3
    <2>6. [i \in 1 .. m |-> Reading(x[i])] = MeaningAll(s)
      <3>1. \A i \in 1 .. m : Reading(x[i]) = Meaning(s[i])
        BY <2>5
      <3> HIDE DEF x
      <3> QED
        BY <2>1, <3>1 DEF MeaningAll
    <2> DEFINE F == FlattenSeq(Upto(p, m))
    <2>7. ReadList(F) = [i \in 1 .. m |-> Reading(x[i])]
      <3> HIDE DEF p, x
      <3> QED
        BY <2>1, <2>4, ReadPieces
    <2>8. Processed(v, r, t) = Arr(F)
      BY <2>2, <2>3
    <2> HIDE DEF F, p, x
    <2>9. Reading(Arr(F)) = Arr(ReadList(F))
      BY <1>2, <2>8, ReadArr
    <2> QED
      BY <2>2, <2>6, <2>7, <2>8, <2>9
  <1> QED
    BY <1>1, <1>3, <1>4, <1>5, <1>6, <1>7 DEF Plain

(***************************************************************************)
(* What the main model reads of a processed value is what the client meant *)
(* by it, whether images are replaced or kept (extract.go:36-165).         *)
(***************************************************************************)
THEOREM ProcessedReadsAsMeant ==
  ASSUME NEW v, Good(v), NEW r, NEW t \in TextTypes
  PROVE  Reading(Processed(v, r, t)) = Meaning(v)
  <1> DEFINE P(a) == Reading(Processed(a, r, t)) = Meaning(a)
             S == {n \in Nat : \A a : Good(a) /\ Shallow(a, n) => P(a)}
  <1>1. ASSUME NEW a, Good(a), \A c \in Components(a) : P(c) PROVE P(a)
    BY <1>1, ReadStep
  <1> HIDE DEF P
  <1>2. 0 \in S
    BY <1>1, ShallowLeaf
  <1>3. ASSUME NEW n \in Nat, n \in S PROVE n + 1 \in S
    <2> SUFFICES ASSUME NEW a, Good(a), Shallow(a, n + 1) PROVE P(a)
      OBVIOUS
    <2>1. \A c \in Components(a) : Good(c) /\ Shallow(c, n)
      BY GoodInside, ShallowInside
    <2> QED
      BY <1>1, <1>3, <2>1
  <1> HIDE DEF S
  <1>4. MaxDepth \in S
    BY <1>2, <1>3, CountingUp, BoundsAssumption
  <1>5. P(v)
    BY <1>4 DEF S, Good
  <1> QED
    BY <1>5 DEF P

-----------------------------------------------------------------------------
(* A value without pictures, which is not walked, is read as it is.        *)

LEMMA FlattenSingles ==
  ASSUME NEW U, NEW s \in Seq(U)
  PROVE  FlattenSeq(Upto([i \in 1 .. Len(s) |-> <<s[i]>>], Len(s))) = s
  <1> DEFINE n == Len(s)
             p == [i \in 1 .. n |-> <<s[i]>>]
             S == {k \in Nat : k <= n => FlattenSeq(Upto(p, k)) = [i \in 1 .. k |-> s[i]]}
  <1>1. n \in Nat /\ s = [i \in 1 .. n |-> s[i]] /\ \A i \in 1 .. n : p[i] = <<s[i]>> /\ p[i] \in Seq(U)
    OBVIOUS
  <1> HIDE DEF n, p
  <1>2. 0 \in S
    <2>1. <<>> = [i \in 1 .. 0 |-> s[i]]
      OBVIOUS
    <2> QED
      BY <2>1, FlattenNone
  <1>3. ASSUME NEW k \in Nat, k \in S PROVE k + 1 \in S
    <2> SUFFICES ASSUME k + 1 <= n
                 PROVE  FlattenSeq(Upto(p, k + 1)) = [i \in 1 .. k + 1 |-> s[i]]
      OBVIOUS
    <2>1. k + 1 \in 1 .. n /\ k <= n
      BY <1>1
    <2>2. \A i \in 1 .. k + 1 : p[i] \in Seq(U)
      BY <1>1
    <2>3. FlattenSeq(Upto(p, k + 1)) = FlattenSeq(Upto(p, k)) \o p[k + 1]
      BY <2>2, FlattenNext
    <2>4. FlattenSeq(Upto(p, k)) = [i \in 1 .. k |-> s[i]]
      BY <1>3, <2>1
    <2>5. p[k + 1] = <<s[k + 1]>>
      BY <1>1, <2>1
    <2> HIDE DEF S
    <2>6. [i \in 1 .. k |-> s[i]] \o <<s[k + 1]>> = [i \in 1 .. k + 1 |-> s[i]]
      OBVIOUS
    <2> QED
      BY <2>3, <2>4, <2>5, <2>6
  <1> HIDE DEF S
  <1>4. n \in S
    BY <1>1, <1>2, <1>3, CountingUp
  <1>5. FlattenSeq(Upto(p, n)) = s
    BY <1>1, <1>4 DEF S
  <1> QED
    BY <1>5 DEF p, n

Pictureless(v) == Good(v) /\ \A w \in Parts(v) : ~Pictured(w)

LEMMA PicturelessInside ==
  ASSUME NEW v, Pictureless(v)
  PROVE  \A c \in Components(v) : Pictureless(c)
  BY GoodInside, PartsInside DEF Pictureless, Good

\* From what is directly inside to the whole.
LEMMA ReadAsIsStep ==
  ASSUME NEW v, Pictureless(v), \A c \in Components(v) : Reading(c) = Meaning(c)
  PROVE  Reading(v) = Meaning(v)
  <1>1. /\ Plain(v) /\ Shallow(v, MaxDepth) /\ ~IsImage(v) /\ ~Is("dataurl", v)
        /\ \A c \in Components(v) : Pictureless(c)
    BY GoodInside, PartsSelf, PicturelessInside DEF Pictureless, Pictured, Good
  <1>2. CASE v = Text(v.text) \/ v = Link(v.link)
    <2>1. \A k : Is(k, v) => k \in {"text", "link"}
      BY <1>2, TextIs, LinkIs
    <2> QED
      BY <2>1, WalkLeaf
  <1>3. CASE v = Json(v.json)
    <2>1. Shallow(Json(v.json), MaxDepth)
      BY <1>1, <1>3
    <2>2. Reading(Json(v.json)) = Json(Reading(v.json)) /\ Meaning(Json(v.json)) = Json(Meaning(v.json))
      BY <2>1, WalkJson
    <2>3. v.json \in Components(v)
      <3>1. v.json \in Components(Json(v.json))
        BY ComponentsAre
      <3> QED
        BY <1>3, <3>1
    <2> QED
      BY <1>3, <2>2, <2>3
  <1>4. CASE v = Obj(v.obj) /\ \A x \in Field(v.obj, "text") : ~Is("dataurl", x)
    <2> DEFINE f == v.obj
    <2>1. Shallow(Obj(f), MaxDepth) /\ ~IsImage(Obj(f))
      BY <1>1, <1>4
    <2>2. \A k \in DOMAIN f : f[k] \in Components(v)
      <3>1. Components(Obj(f)) = {f[k] : k \in DOMAIN f}
        BY ComponentsAre
      <3> QED
        BY <1>4, <3>1
    <2>3. v = Obj(f)
      BY <1>4
    <2> HIDE DEF f
    <2>4. ASSUME NEW x \in Field(f, "text") PROVE ~Is("desc", x)
      <3>1. x \in Components(v)
        BY <2>2 DEF Field
      <3>2. Plain(x)
        BY <1>1, <3>1, GoodInside DEF Pictureless
      <3> QED
        BY <3>2, TextIs, LinkIs, DataUrlIs, JsonIs, ObjIs, ArrIs DEF Plain
    <2>5. Reading(Obj(f)) = Obj([k \in DOMAIN f \ VolatileKeys |-> Reading(f[k])])
      BY <2>1, <2>4, ReadObj
    <2>6. Meaning(Obj(f)) = Obj(MeaningAt(f))
      BY <2>1, WalkObj DEF MeaningAt
    <2>7. [k \in DOMAIN f \ VolatileKeys |-> Reading(f[k])] = MeaningAt(f)
      BY <2>2 DEF MeaningAt
    <2> QED
      BY <2>3, <2>5, <2>6, <2>7
  <1>5. CASE v = Arr(v.arr) /\ v.arr \in Seq(Components(v))
    <2> DEFINE s == v.arr
               n == Len(s)
               p == [i \in 1 .. n |-> <<s[i]>>]
    <2>1. n \in Nat /\ DOMAIN s = 1 .. n /\ \A i \in 1 .. n : s[i] \in Components(v)
      BY <1>5
    <2>2. v = Arr(s) /\ s \in Seq(Components(v)) /\ Shallow(Arr(s), MaxDepth)
      BY <1>1, <1>5
    <2>3. FlattenSeq(Upto(p, n)) = s
      BY <2>2, FlattenSingles
    <2>4. \A i \in 1 .. n : p[i] = <<s[i]>>
      OBVIOUS
    <2> HIDE DEF s, n, p
    <2>5. \A i \in 1 .. n : Beside(p[i], s[i])
      BY <1>1, <2>1, <2>4, PartsSelf DEF Beside, Pictureless, Pictured
    <2>6. ReadList(s) = [i \in 1 .. n |-> Reading(s[i])]
      <3>1. ReadList(FlattenSeq(Upto(p, n))) = [i \in 1 .. n |-> Reading(s[i])]
        BY <2>1, <2>5, ReadPieces
      <3> QED
        BY <2>3, <3>1
    <2>7. [i \in 1 .. n |-> Reading(s[i])] = MeaningAll(s)
      BY <2>1 DEF MeaningAll
    <2>8. Reading(Arr(s)) = Arr(ReadList(s))
      BY <2>2, ReadArr
    <2>9. Meaning(Arr(s)) = Arr([i \in DOMAIN s |-> Meaning(s[i])])
      BY <2>2, WalkArr
    <2> QED
      BY <2>2, <2>6, <2>7, <2>8, <2>9 DEF MeaningAll
  <1> QED
    BY <1>1, <1>2, <1>3, <1>4, <1>5, DataUrlIs DEF Plain

LEMMA ReadAsIs ==
  ASSUME NEW v, Pictureless(v)
  PROVE  Reading(v) = Meaning(v)
  <1> DEFINE P(a) == Reading(a) = Meaning(a)
             S == {n \in Nat : \A a : Pictureless(a) /\ Shallow(a, n) => P(a)}
  <1>1. ASSUME NEW a, Pictureless(a), \A c \in Components(a) : P(c) PROVE P(a)
    BY <1>1, ReadAsIsStep
  <1> HIDE DEF P
  <1>2. 0 \in S
    BY <1>1, ShallowLeaf
  <1>3. ASSUME NEW n \in Nat, n \in S PROVE n + 1 \in S
    <2> SUFFICES ASSUME NEW a, Pictureless(a), Shallow(a, n + 1) PROVE P(a)
      OBVIOUS
    <2>1. \A c \in Components(a) : Pictureless(c) /\ Shallow(c, n)
      BY PicturelessInside, ShallowInside
    <2> QED
      BY <1>1, <1>3, <2>1
  <1> HIDE DEF S
  <1>4. MaxDepth \in S
    BY <1>2, <1>3, CountingUp, BoundsAssumption
  <1>5. P(v)
    BY <1>4 DEF S, Pictureless, Good
  <1> QED
    BY <1>5 DEF P

-----------------------------------------------------------------------------
(* Requests.                                                               *)

LEMMA FieldsAre ==
  ASSUME NEW r, PlainRequest(r)
  PROVE  /\ \A k \in Given(r) : Good(r.body[k]) /\ Shallow(r.body[k], MaxDepth - 1)
         /\ "text" \notin Given(r) /\ Given(r) \cap VolatileKeys = {}
         /\ Given(r) = (DOMAIN r.body \cap OutputAffectingKeys)
                          \cup (DOMAIN r.body \cap KeyedFields(r.endpoint))
  <1>1. MaxDepth - 1 \in Nat /\ MaxDepth \in Nat /\ MaxDepth - 1 <= MaxDepth
    BY BoundsAssumption
  <1>2. \A k \in Given(r) : Good(r.body[k]) /\ Shallow(r.body[k], MaxDepth - 1)
    BY <1>1, ShallowMore DEF PlainRequest, PlainValue, Good
  <1>3. /\ "text" \notin OutputAffectingKeys /\ "model" \notin OutputAffectingKeys
        /\ OutputAffectingKeys \cap VolatileKeys = {}
    BY DEF OutputAffectingKeys, VolatileKeys
  <1>4. /\ "text" \notin KeyedFields(r.endpoint) /\ "model" \notin KeyedFields(r.endpoint)
        /\ KeyedFields(r.endpoint) \cap VolatileKeys = {}
    BY DEF PlainRequest, KeyedFields, VolatileKeys
  <1> QED
    BY <1>2, <1>3, <1>4 DEF PlainRequest, Given

\* The keyed fields of requests with equal keys are the same and have equal canonical forms.
LEMMA FieldsAgree ==
  ASSUME NEW f, NEW g, NEW K, CanonicalFields(f, K) = CanonicalFields(g, K)
  PROVE  /\ DOMAIN f \cap K = DOMAIN g \cap K
         /\ \A k \in DOMAIN f \cap K : Canonical(f[k]) = Canonical(g[k])
  <1>1. /\ DOMAIN CanonicalFields(f, K) = DOMAIN f \cap K
        /\ \A k \in DOMAIN f \cap K : CanonicalFields(f, K)[k] = Canonical(f[k])
    BY DEF CanonicalFields
  <1>2. /\ DOMAIN CanonicalFields(g, K) = DOMAIN g \cap K
        /\ \A k \in DOMAIN g \cap K : CanonicalFields(g, K)[k] = Canonical(g[k])
    BY DEF CanonicalFields
  <1> QED
    BY <1>1, <1>2

(***************************************************************************)
(* Plain requests with one key are for one endpoint and mean the same      *)
(* (normalize.go:35-36, 120-121).                                          *)
(***************************************************************************)
THEOREM RequestKeyTellsMeaning ==
  ASSUME NEW r, NEW s, PlainRequest(r), PlainRequest(s), Key(r) = Key(s)
  PROVE  r.endpoint = s.endpoint /\ r.means = s.means
  <1>1. /\ r.endpoint = s.endpoint
        /\ CanonicalFields(r.body, OutputAffectingKeys) = CanonicalFields(s.body, OutputAffectingKeys)
        /\ CanonicalFields(r.body, KeyedFields(r.endpoint)) = CanonicalFields(s.body, KeyedFields(r.endpoint))
    BY DEF Key, ParamsFingerprint
  <1>2. Given(r) = Given(s) /\ \A k \in Given(r) : Canonical(r.body[k]) = Canonical(s.body[k])
    <2> DEFINE O == OutputAffectingKeys
               K == KeyedFields(r.endpoint)
               f == r.body
               g == s.body
    <2>1. Given(r) = (DOMAIN f \cap O) \cup (DOMAIN f \cap K)
      BY FieldsAre
    <2>2. Given(s) = (DOMAIN g \cap O) \cup (DOMAIN g \cap K)
      BY <1>1, FieldsAre
    <2>3. CanonicalFields(f, O) = CanonicalFields(g, O) /\ CanonicalFields(f, K) = CanonicalFields(g, K)
      BY <1>1
    <2> HIDE DEF O, K, f, g
    <2>4. DOMAIN f \cap O = DOMAIN g \cap O /\ \A k \in DOMAIN f \cap O : Canonical(f[k]) = Canonical(g[k])
      BY <2>3, FieldsAgree
    <2>5. DOMAIN f \cap K = DOMAIN g \cap K /\ \A k \in DOMAIN f \cap K : Canonical(f[k]) = Canonical(g[k])
      BY <2>3, FieldsAgree
    <2>6. Given(r) = Given(s) /\ \A k \in Given(r) : Canonical(f[k]) = Canonical(g[k])
      BY <2>1, <2>2, <2>4, <2>5
    <2> QED
      BY <2>6 DEF f, g
  <1>3. \A k \in Given(r) : Meaning(r.body[k]) = Meaning(s.body[k])
    BY <1>2, FieldsAre, KeyTellsMeaning
  <1>4. [k \in Given(r) |-> Meaning(r.body[k])] = [k \in Given(s) |-> Meaning(s.body[k])]
    BY <1>2, <1>3
  <1> QED
    BY <1>1, <1>4 DEF PlainRequest

(***************************************************************************)
(* Plain requests for one endpoint that mean the same have one key, if     *)
(* their images are base64 (normalize.go:16-19).                           *)
(***************************************************************************)
THEOREM RequestMeaningTellsKey ==
  ASSUME NEW r, NEW s, PlainRequest(r), PlainRequest(s), Base64Request(r), Base64Request(s),
         r.endpoint = s.endpoint, r.means = s.means
  PROVE  Key(r) = Key(s)
  <1> DEFINE M(q) == [k \in Given(q) |-> Meaning(q.body[k])]
  <1>1. M(r) = M(s)
    <2>1. Obj(M(r)) = Obj(M(s))
      BY DEF PlainRequest
    <2> HIDE DEF M
    <2> QED
      BY <2>1, ObjIs
  <1>2. /\ DOMAIN M(r) = Given(r) /\ DOMAIN M(s) = Given(s)
        /\ \A k \in Given(r) : M(r)[k] = Meaning(r.body[k])
        /\ \A k \in Given(s) : M(s)[k] = Meaning(s.body[k])
    OBVIOUS
  <1> HIDE DEF M
  <1>3. Given(r) = Given(s) /\ \A k \in Given(r) : Meaning(r.body[k]) = Meaning(s.body[k])
    BY <1>1, <1>2
  <1>4. \A k \in Given(r) : Payloads(r.body[k]) /\ Payloads(s.body[k])
    BY <1>3, FieldsAre DEF Base64Request, Payloads
  <1>5. \A k \in Given(r) : Canonical(r.body[k]) = Canonical(s.body[k])
    BY <1>3, <1>4, MeaningTellsKey
  <1>6. ASSUME NEW K, "model" \notin K PROVE CanonicalFields(r.body, K) = CanonicalFields(s.body, K)
    <2>1. DOMAIN r.body \cap K = DOMAIN s.body \cap K /\ DOMAIN r.body \cap K \subseteq Given(r)
      BY <1>3, <1>6 DEF Given
    <2> QED
      BY <1>5, <2>1 DEF CanonicalFields
  <1>7. "model" \notin OutputAffectingKeys
    BY DEF OutputAffectingKeys
  <1>8. "model" \notin KeyedFields(r.endpoint)
    BY DEF PlainRequest, KeyedFields
  <1> QED
    BY <1>6, <1>7, <1>8 DEF Key, ParamsFingerprint

(***************************************************************************)
(* What the main model reads of the body that is sent on is what the       *)
(* client meant by the request (responses.go:123-170).                     *)
(***************************************************************************)
THEOREM RebuiltReadsAsMeant ==
  ASSUME NEW r, PlainRequest(r), NEW b
  PROVE  LET body == Rebuilt(r, b)
         IN  Reading(Obj([k \in DOMAIN body \ {"model"} |-> body[k]])) = r.means
  <1> DEFINE body == Rebuilt(r, b)
             t == TextType(r.endpoint)
             g == [k \in DOMAIN body \ {"model"} |-> body[k]]
  <1>1. t \in TextTypes
    BY DEF TextType, TextTypes
  <1> HIDE DEF t
  <1>2. /\ DOMAIN body = DOMAIN r.body
        /\ \A k \in Given(r) : body[k] = IF k \in WalkedFields(r.endpoint) THEN Processed(r.body[k], b, t)
                                         ELSE r.body[k]
    <2>1. MainField(r.endpoint) \in DOMAIN r.body
      BY DEF PlainRequest, Given
    <2>2. Rebuilt(r, b) = [k \in DOMAIN r.body |->
                              CASE k = "model" -> Text(MainModel)
                                [] k \in WalkedFields(r.endpoint) -> Processed(r.body[k], b, t)
                                [] OTHER -> r.body[k]]
      BY <2>1 DEF Rebuilt, t
    <2>3. "model" \notin WalkedFields(r.endpoint)
      BY DEF WalkedFields, MainField
    <2> QED
      BY <2>2, <2>3 DEF Given
  <1> HIDE DEF body
  <1>3. DOMAIN g = Given(r) /\ \A k \in Given(r) : g[k] = body[k]
    BY <1>2 DEF Given
  <1> HIDE DEF g
  <1>4. ASSUME NEW k \in Given(r)
        PROVE  Reading(g[k]) = Meaning(r.body[k]) /\ Shallow(g[k], MaxDepth - 1)
    <2>1. Good(r.body[k]) /\ Shallow(r.body[k], MaxDepth - 1) /\ MaxDepth - 1 \in Nat
      BY FieldsAre, BoundsAssumption
    <2>2. CASE k \in WalkedFields(r.endpoint)
      <3>1. g[k] = Processed(r.body[k], b, t)
        BY <1>2, <1>3, <2>2
      <3>2. Reading(Processed(r.body[k], b, t)) = Meaning(r.body[k])
        BY <1>1, <2>1, ProcessedReadsAsMeant
      <3>3. Shallow(Processed(r.body[k], b, t), MaxDepth - 1)
        BY <1>1, <2>1, DepthKept
      <3> QED
        BY <3>1, <3>2, <3>3
    <2>3. CASE k \notin WalkedFields(r.endpoint)
      <3>1. Pictureless(r.body[k])
        <4>1. k \notin PictureFields
          <5>1. k \in OutputAffectingKeys \cup KeyedFields(r.endpoint)
            BY DEF PlainRequest
          <5>2. PictureFields \cap OutputAffectingKeys = {}
            BY DEF PictureFields, OutputAffectingKeys
          <5>3. PictureFields \cap KeyedFields(r.endpoint) \subseteq WalkedFields(r.endpoint)
            BY DEF PlainRequest, PictureFields, KeyedFields, WalkedFields, MainField
          <5> QED
            BY <2>3, <5>1, <5>2, <5>3
        <4> QED
          BY <2>1, <4>1 DEF Pictureless, PlainRequest
      <3> QED
        BY <1>2, <1>3, <2>1, <2>3, <3>1, ReadAsIs
    <2> QED
      BY <2>2, <2>3
  <1>5. Shallow(Obj(g), MaxDepth)
    <2>1. \A c \in Components(Obj(g)) : Shallow(c, MaxDepth - 1)
      BY <1>3, <1>4, ComponentsAre
    <2> QED
      BY <2>1, ShallowFrom, BoundsAssumption
  <1>6. "text" \notin DOMAIN g /\ DOMAIN g \ VolatileKeys = Given(r)
    BY <1>3, FieldsAre
  <1>7. Reading(Obj(g)) = Obj([k \in DOMAIN g \ VolatileKeys |-> Reading(g[k])])
    BY <1>5, <1>6, ReadObj DEF Field
  <1>8. [k \in DOMAIN g \ VolatileKeys |-> Reading(g[k])] = [k \in Given(r) |-> Meaning(r.body[k])]
    BY <1>4, <1>6
  <1>9. Reading(Obj(g)) = r.means
    BY <1>7, <1>8 DEF PlainRequest
  <1> QED
    BY <1>9 DEF g, body

-----------------------------------------------------------------------------
(* The behaviours.                                                         *)

\* A response comes from an entry with the key of the request.
HitsKeyed == answer # Nil => KeyOf[answer.req] = KeyOf[answer.from]

\* A key has one entry at most, and none while a request with it is served.
OneEntryPerKey ==
    /\ \A e, f \in cache : KeyOf[e] = KeyOf[f] => e = f
    /\ req # Nil => Entries(req) = {}

SentIsRebuilt == sent # Nil => \E b \in BOOLEAN : sent.body = Rebuilt(Requests[sent.req], b)

IInv == TypeOK /\ HitsKeyed /\ OneEntryPerKey /\ SentIsRebuilt

LEMMA InitHolds == Init => IInv
  BY BoundsAssumption DEF Init, IInv, TypeOK, HitsKeyed, OneEntryPerKey, SentIsRebuilt

LEMMA StepHolds == IInv /\ [Next]_vars => IInv'
  <1> SUFFICES ASSUME IInv, [Next]_vars PROVE IInv'
    OBVIOUS
  <1> USE DEF IInv
  <1>1. ASSUME NEW r \in DOMAIN Requests, Hit(r) PROVE IInv'
    <2>1. PICK e \in Entries(r) : answer' = [req |-> r, from |-> e]
      BY <1>1 DEF Hit
    <2>2. e \in cache /\ KeyOf[e] = KeyOf[r]
      BY <2>1 DEF Entries
    <2>3. req' = req /\ cache' = cache /\ replaceImage' = replaceImage /\ sent' = Nil /\ req = Nil
          /\ left' \in 0 .. MaxRequests
      BY <1>1, BoundsAssumption DEF Hit, Arrive, TypeOK
    <2>4. TypeOK'
      BY <2>1, <2>2, <2>3 DEF TypeOK
    <2>5. HitsKeyed' /\ OneEntryPerKey' /\ SentIsRebuilt'
      BY <2>1, <2>2, <2>3 DEF HitsKeyed, OneEntryPerKey, SentIsRebuilt, Entries
    <2> QED
      BY <2>4, <2>5
  <1>2. ASSUME NEW r \in DOMAIN Requests, Miss(r) PROVE IInv'
    <2>1. req' = r /\ Entries(r) = {} /\ cache' = cache /\ replaceImage' = replaceImage
          /\ sent' = Nil /\ answer' = Nil /\ left' \in 0 .. MaxRequests
      BY <1>2, BoundsAssumption DEF Miss, Arrive, TypeOK
    <2>2. TypeOK'
      BY <2>1 DEF TypeOK
    <2>3. HitsKeyed' /\ OneEntryPerKey' /\ SentIsRebuilt'
      BY <2>1 DEF HitsKeyed, OneEntryPerKey, SentIsRebuilt, Entries
    <2> QED
      BY <2>2, <2>3
  <1>3. CASE RecogniseFails
    BY <1>3 DEF RecogniseFails, TypeOK, HitsKeyed, OneEntryPerKey, SentIsRebuilt
  <1>4. ASSUME Forward
        PROVE  /\ req \in DOMAIN Requests /\ req # Nil /\ req' = Nil /\ left' = left
               /\ replaceImage' = replaceImage
               /\ SentIsRebuilt' /\ (sent = Nil \/ sent.req \in DOMAIN Requests)'
    BY <1>4 DEF Forward, TypeOK, SentIsRebuilt
  <1>5. CASE MainFails
    <2>1. cache' = cache /\ answer' = answer
      BY <1>5 DEF MainFails
    <2> QED
      BY <1>4, <1>5, <2>1 DEF MainFails, TypeOK, HitsKeyed, OneEntryPerKey
  <1>6. CASE MainAnswers
    <2>1. cache' = cache \cup {req} /\ answer' = [req |-> req, from |-> req] /\ Forward
      BY <1>6 DEF MainAnswers
    <2>2. TypeOK'
      BY <1>4, <2>1 DEF TypeOK
    <2>3. HitsKeyed'
      BY <2>1 DEF HitsKeyed
    <2>4. OneEntryPerKey'
      BY <1>4, <2>1 DEF OneEntryPerKey, Entries
    <2> QED
      BY <1>4, <2>1, <2>2, <2>3, <2>4
  <1>7. CASE UNCHANGED vars
    BY <1>7 DEF vars, TypeOK, HitsKeyed, OneEntryPerKey, SentIsRebuilt, Entries
  <1> QED
    BY <1>1, <1>2, <1>3, <1>5, <1>6, <1>7 DEF Next, Terminated

LEMMA InvariantHolds == Spec => []IInv
  BY InitHolds, StepHolds, PTL DEF Spec

(***************************************************************************)
(* Type correctness, whatever the requests are.                            *)
(***************************************************************************)
THEOREM TypeCorrect == Spec => []TypeOK
  <1>1. IInv => TypeOK
    BY DEF IInv
  <1> QED
    BY <1>1, InvariantHolds, PTL

(***************************************************************************)
(* No request is ever answered from the cache with the response to a       *)
(* request that meant something else.                                      *)
(***************************************************************************)
THEOREM HitsAreRight == Spec => []HitsMeanTheSame
  <1>1. IInv => HitsMeanTheSame
    <2> SUFFICES ASSUME IInv, answer # Nil PROVE SameMeaning(answer.req, answer.from)
      BY DEF HitsMeanTheSame
    <2>1. /\ answer.req \in DOMAIN Requests /\ answer.from \in DOMAIN Requests
          /\ KeyOf[answer.req] = KeyOf[answer.from]
      BY DEF IInv, TypeOK, HitsKeyed
    <2>2. Key(Requests[answer.req]) = Key(Requests[answer.from])
      BY <2>1 DEF KeyOf
    <2> QED
      BY <2>1, <2>2, RequestKeyTellsMeaning, RequestsAssumption DEF SameMeaning
  <1> QED
    BY <1>1, InvariantHolds, PTL

(***************************************************************************)
(* The cache never holds two entries for requests that mean the same, when *)
(* all images are base64.                                                  *)
(***************************************************************************)
THEOREM MeaningsShareEntry == Spec => []OneEntryPerMeaning
  <1>1. IInv => OneEntryPerMeaning
    <2> SUFFICES ASSUME IInv, NEW e \in cache, NEW f \in cache, SameMeaning(e, f) PROVE e = f
      BY DEF OneEntryPerMeaning
    <2>1. e \in DOMAIN Requests /\ f \in DOMAIN Requests
      BY DEF IInv, TypeOK
    <2>2. Key(Requests[e]) = Key(Requests[f])
      BY <2>1, RequestMeaningTellsKey, RequestsAssumption, Base64Assumption DEF SameMeaning
    <2>3. KeyOf[e] = KeyOf[f]
      BY <2>1, <2>2 DEF KeyOf
    <2> QED
      BY <2>3 DEF IInv, OneEntryPerKey
  <1> QED
    BY <1>1, InvariantHolds, PTL

(***************************************************************************)
(* The main model reads what the client meant in every body that is sent.  *)
(***************************************************************************)
THEOREM MainModelReadsMeaning == Spec => []MainModelReadsImages
  <1>1. IInv => MainModelReadsImages
    <2> SUFFICES ASSUME IInv, sent # Nil
                 PROVE  Reading(Obj([k \in DOMAIN sent.body \ {"model"} |-> sent.body[k]]))
                            = Requests[sent.req].means
      BY DEF MainModelReadsImages
    <2>1. PICK b \in BOOLEAN : sent.body = Rebuilt(Requests[sent.req], b)
      BY DEF IInv, SentIsRebuilt
    <2>2. PlainRequest(Requests[sent.req])
      BY RequestsAssumption DEF IInv, TypeOK
    <2> QED
      BY <2>1, <2>2, RebuiltReadsAsMeant
  <1> QED
    BY <1>1, InvariantHolds, PTL

=============================================================================
