----------------------------- MODULE WalkProofs -----------------------------
(***************************************************************************)
(* What a walk over a value is: the recursive functions behind Level and   *)
(* Walk exist, so that a walk makes of a value what its step makes of what *)
(* the walk makes of the values directly inside.                           *)
(***************************************************************************)
EXTENDS PlainContent, Induction

-----------------------------------------------------------------------------
(* The recursive function behind Level.                                    *)

Inside(S) == UNION {Components(w) : w \in S}

\* f gives the first levels of v, down to n.
LevelsTo(f, v, n) == f = [m \in 0 .. n |-> IF m = 0 THEN {v} ELSE Inside(f[m - 1])]

LEMMA LevelsToSome ==
  ASSUME NEW v
  PROVE  \A n \in Nat : \E f : LevelsTo(f, v, n)
  <1> DEFINE S == {n \in Nat : \E f : LevelsTo(f, v, n)}
  <1>1. 0 \in S
    <2>1. LevelsTo([m \in 0 .. 0 |-> {v}], v, 0)
      BY DEF LevelsTo
    <2> QED
      BY <2>1
  <1>2. ASSUME NEW n \in Nat, n \in S PROVE n + 1 \in S
    <2>1. PICK f : LevelsTo(f, v, n)
      BY <1>2
    <2> DEFINE g == [m \in 0 .. n + 1 |-> IF m = n + 1 THEN Inside(f[n]) ELSE f[m]]
    <2>2. \A m \in 0 .. n : f[m] = IF m = 0 THEN {v} ELSE Inside(f[m - 1])
      BY <2>1 DEF LevelsTo
    <2>3. \A m \in 0 .. n + 1 : g[m] = IF m = 0 THEN {v} ELSE Inside(g[m - 1])
      <3> TAKE m \in 0 .. n + 1
      <3>1. CASE m = n + 1
        <4>1. g[m] = Inside(f[n]) /\ g[n] = f[n] /\ m # 0 /\ m - 1 = n
          BY <3>1
        <4> QED
          BY <4>1
      <3>2. CASE m \in 0 .. n
        <4>1. g[m] = f[m] /\ (m # 0 => g[m - 1] = f[m - 1])
          BY <3>2
        <4> HIDE DEF g
        <4> QED
          BY <4>1, <2>2, <3>2
      <3> QED
        BY <3>1, <3>2
    <2>4. LevelsTo(g, v, n + 1)
      BY <2>3 DEF LevelsTo
    <2> QED
      BY <2>4
  <1> HIDE DEF S
  <1>3. \A n \in Nat : n \in S
    BY <1>1, <1>2, CountingUp
  <1> QED
    BY <1>3 DEF S

\* Two such functions agree where both are defined.
LEMMA LevelsToAgree ==
  ASSUME NEW v, NEW n \in Nat, NEW k \in Nat, NEW f, NEW g, LevelsTo(f, v, n), LevelsTo(g, v, k)
  PROVE  \A m \in Nat : m <= n /\ m <= k => f[m] = g[m]
  <1> DEFINE S == {m \in Nat : m <= n /\ m <= k => f[m] = g[m]}
  <1>1. /\ \A m \in 0 .. n : f[m] = IF m = 0 THEN {v} ELSE Inside(f[m - 1])
        /\ \A m \in 0 .. k : g[m] = IF m = 0 THEN {v} ELSE Inside(g[m - 1])
    BY DEF LevelsTo
  <1>2. 0 \in S
    BY <1>1
  <1>3. ASSUME NEW m \in Nat, m \in S PROVE m + 1 \in S
    BY <1>1, <1>3
  <1> HIDE DEF S
  <1>4. \A m \in Nat : m \in S
    BY <1>2, <1>3, CountingUp
  <1> QED
    BY <1>4 DEF S

Levels(f, v) == f = [m \in Nat |-> IF m = 0 THEN {v} ELSE Inside(f[m - 1])]

LEMMA LevelsSome ==
  ASSUME NEW v
  PROVE  \E f : Levels(f, v)
  <1> DEFINE to(n) == CHOOSE f : LevelsTo(f, v, n)
             g == [m \in Nat |-> to(m)[m]]
  <1>1. \A n \in Nat : LevelsTo(to(n), v, n)
    BY LevelsToSome
  <1> HIDE DEF to
  <1>2. ASSUME NEW m \in Nat PROVE g[m] = IF m = 0 THEN {v} ELSE Inside(g[m - 1])
    <2>1. to(m)[m] = IF m = 0 THEN {v} ELSE Inside(to(m)[m - 1])
      <3> DEFINE f == to(m)
      <3>1. LevelsTo(f, v, m) /\ m \in 0 .. m
        BY <1>1
      <3> HIDE DEF f
      <3>2. f[m] = IF m = 0 THEN {v} ELSE Inside(f[m - 1])
        BY <3>1 DEF LevelsTo
      <3> QED
        BY <3>2 DEF f
    <2>2. CASE m = 0
      BY <2>1, <2>2
    <2>3. CASE m # 0
      <3>1. m - 1 \in Nat /\ m - 1 <= m
        BY <2>3
      <3>2. to(m)[m - 1] = to(m - 1)[m - 1]
        BY <1>1, <3>1, LevelsToAgree
      <3> QED
        BY <2>1, <2>3, <3>1, <3>2
    <2> QED
      BY <2>2, <2>3
  <1>3. Levels(g, v)
    BY <1>2 DEF Levels
  <1> QED
    BY <1>3

(***************************************************************************)
(* The levels of a value, one after the other.                             *)
(***************************************************************************)
LEMMA LevelIs ==
  ASSUME NEW v
  PROVE  /\ Level(v, 0) = {v}
         /\ \A n \in Nat : Level(v, n + 1) = Inside(Level(v, n))
  <1> DEFINE at == CHOOSE f : Levels(f, v)
  <1>1. Levels(at, v)
    BY LevelsSome
  <1>2. \A n : Level(v, n) = at[n]
    BY DEF Level, Levels, Inside
  <1> HIDE DEF at
  <1>3. \A m \in Nat : at[m] = IF m = 0 THEN {v} ELSE Inside(at[m - 1])
    BY <1>1 DEF Levels
  <1> QED
    BY <1>2, <1>3

LEMMA LevelNext ==
  ASSUME NEW v, NEW n \in Nat
  PROVE  Level(v, n + 1) = Inside(Level(v, n))
  BY LevelIs

-----------------------------------------------------------------------------
(* Depth.                                                                  *)

\* What is n levels inside a value j levels inside v is j + n levels inside v.
LEMMA LevelsAdd ==
  ASSUME NEW v, NEW j \in Nat, NEW w \in Level(v, j)
  PROVE  \A n \in Nat : Level(w, n) \subseteq Level(v, j + n)
  <1> DEFINE S == {n \in Nat : Level(w, n) \subseteq Level(v, j + n)}
  <1>1. 0 \in S
    BY LevelIs
  <1>2. ASSUME NEW n \in Nat, n \in S PROVE n + 1 \in S
    <2>1. Level(w, n) \subseteq Level(v, j + n)
      BY <1>2
    <2>2. j + n \in Nat /\ j + (n + 1) = (j + n) + 1
      OBVIOUS
    <2>3. Level(w, n + 1) = Inside(Level(w, n)) /\ Level(v, (j + n) + 1) = Inside(Level(v, j + n))
      BY <2>2, LevelIs
    <2>4. Inside(Level(w, n)) \subseteq Inside(Level(v, j + n))
      BY <2>1 DEF Inside
    <2> QED
      BY <2>2, <2>3, <2>4
  <1> HIDE DEF S
  <1>3. \A n \in Nat : n \in S
    BY <1>1, <1>2, CountingUp
  <1> QED
    BY <1>3 DEF S

LEMMA FirstLevel ==
  ASSUME NEW v
  PROVE  Level(v, 1) = Components(v)
  <1>1. Level(v, 0 + 1) = Inside({v})
    BY LevelIs
  <1> QED
    BY <1>1 DEF Inside

\* What is n + 1 levels inside a value is n levels inside something directly inside it.
LEMMA LevelsSplit ==
  ASSUME NEW v
  PROVE  \A n \in Nat : \A w \in Level(v, n + 1) : \E c \in Components(v) : w \in Level(c, n)
  <1> DEFINE S == {n \in Nat : \A w \in Level(v, n + 1) : \E c \in Components(v) : w \in Level(c, n)}
  <1>1. 0 \in S
    BY LevelIs, FirstLevel
  <1>2. ASSUME NEW n \in Nat, n \in S PROVE n + 1 \in S
    <2>1. ASSUME NEW w \in Level(v, (n + 1) + 1)
          PROVE  \E c \in Components(v) : w \in Level(c, n + 1)
      <3>1. w \in Inside(Level(v, n + 1))
        <4>1. n + 1 \in Nat
          OBVIOUS
        <4>2. Level(v, (n + 1) + 1) = Inside(Level(v, n + 1))
          BY <4>1, LevelNext
        <4> QED
          BY <4>2
      <3>2. PICK u \in Level(v, n + 1) : w \in Components(u)
        BY <3>1 DEF Inside
      <3>3. PICK c \in Components(v) : u \in Level(c, n)
        BY <1>2, <3>2
      <3>4. w \in Inside(Level(c, n))
        BY <3>2, <3>3 DEF Inside
      <3> QED
        BY <3>3, <3>4, LevelIs
    <2> QED
      BY <2>1
  <1> HIDE DEF S
  <1>3. \A n \in Nat : n \in S
    BY <1>1, <1>2, CountingUp
  <1> QED
    BY <1>3 DEF S

\* Below a level that is empty there is nothing.
LEMMA LevelsEnd ==
  ASSUME NEW v, NEW n \in Nat, Level(v, n) = {}
  PROVE  \A m \in Nat : n <= m => Level(v, m) = {}
  <1> DEFINE S == {k \in Nat : Level(v, n + k) = {}}
  <1>1. 0 \in S
    OBVIOUS
  <1>2. ASSUME NEW k \in Nat, k \in S PROVE k + 1 \in S
    <2>1. n + k \in Nat /\ n + (k + 1) = (n + k) + 1
      OBVIOUS
    <2>2. Level(v, (n + k) + 1) = Inside(Level(v, n + k))
      BY <2>1, LevelNext
    <2> QED
      BY <1>2, <2>1, <2>2 DEF Inside
  <1> HIDE DEF S
  <1>3. \A k \in Nat : k \in S
    BY <1>1, <1>2, CountingUp
  <1> TAKE m \in Nat
  <1> HAVE n <= m
  <1>4. m - n \in S /\ n + (m - n) = m
    BY <1>3
  <1> QED
    BY <1>4 DEF S

(***************************************************************************)
(* A value is as shallow as what is directly inside, and one more.         *)
(***************************************************************************)
LEMMA ShallowLeaf ==
  ASSUME NEW v
  PROVE  Shallow(v, 0) <=> Components(v) = {}
  BY FirstLevel DEF Shallow

LEMMA ShallowInside ==
  ASSUME NEW v, NEW n \in Nat
  PROVE  Shallow(v, n + 1) <=> \A c \in Components(v) : Shallow(c, n)
  <1>1. ASSUME Shallow(v, n + 1), NEW c \in Components(v) PROVE Shallow(c, n)
    <2>1. c \in Level(v, 1) /\ n + 1 \in Nat /\ 1 + (n + 1) = (n + 1) + 1
      BY FirstLevel
    <2>2. Level(c, n + 1) \subseteq Level(v, 1 + (n + 1))
      BY <2>1, LevelsAdd
    <2> QED
      BY <1>1, <2>1, <2>2 DEF Shallow
  <1>2. ASSUME \A c \in Components(v) : Shallow(c, n) PROVE Shallow(v, n + 1)
    <2>1. n + 1 \in Nat
      OBVIOUS
    <2>2. \A w \in Level(v, (n + 1) + 1) : \E c \in Components(v) : w \in Level(c, n + 1)
      BY <2>1, LevelsSplit
    <2> QED
      BY <1>2, <2>2 DEF Shallow
  <1> QED
    BY <1>1, <1>2

LEMMA ShallowMore ==
  ASSUME NEW v, NEW n \in Nat, Shallow(v, n), NEW m \in Nat, n <= m
  PROVE  Shallow(v, m)
  <1>1. n + 1 \in Nat /\ m + 1 \in Nat /\ n + 1 <= m + 1
    OBVIOUS
  <1> QED
    BY <1>1, LevelsEnd DEF Shallow

-----------------------------------------------------------------------------
(* Parts.                                                                  *)

LEMMA PartsSelf ==
  ASSUME NEW v
  PROVE  v \in Parts(v)
  <1>1. 0 \in 0 .. MaxDepth
    BY BoundsAssumption
  <1>2. v \in Level(v, 0)
    BY LevelIs
  <1> QED
    BY <1>1, <1>2 DEF Parts

\* What is inside a part of a value is a part of it.
LEMMA PartsClosed ==
  ASSUME NEW v, Shallow(v, MaxDepth), NEW w \in Parts(v), NEW c \in Components(w)
  PROVE  c \in Parts(v)
  <1>1. PICK j \in 0 .. MaxDepth : w \in Level(v, j)
    BY DEF Parts
  <1>2. j \in Nat /\ MaxDepth \in Nat
    BY BoundsAssumption
  <1>3. c \in Level(v, j + 1)
    <2>1. Level(v, j + 1) = Inside(Level(v, j))
      BY <1>2, LevelNext
    <2> QED
      BY <1>1, <2>1 DEF Inside
  <1>4. j # MaxDepth
    BY <1>3 DEF Shallow
  <1>5. j + 1 \in 0 .. MaxDepth
    BY <1>2, <1>4
  <1> QED
    BY <1>3, <1>5 DEF Parts

\* The parts of what is directly inside a value are parts of it.
LEMMA PartsInside ==
  ASSUME NEW v, Shallow(v, MaxDepth), NEW c \in Components(v)
  PROVE  Parts(c) \subseteq Parts(v)
  <1> SUFFICES ASSUME NEW w \in Parts(c) PROVE w \in Parts(v)
    OBVIOUS
  <1>1. PICK j \in 0 .. MaxDepth : w \in Level(c, j)
    BY DEF Parts
  <1>2. j \in Nat /\ MaxDepth \in Nat /\ 1 + j = j + 1 /\ c \in Level(v, 1)
    BY BoundsAssumption, FirstLevel
  <1>3. w \in Level(v, j + 1)
    <2>1. Level(c, j) \subseteq Level(v, 1 + j)
      BY <1>2, LevelsAdd
    <2> QED
      BY <1>1, <1>2, <2>1
  <1>4. j # MaxDepth
    BY <1>3 DEF Shallow
  <1>5. j + 1 \in 0 .. MaxDepth
    BY <1>2, <1>4
  <1> QED
    BY <1>3, <1>5 DEF Parts

\* A part is as shallow as the whole, and shallower when it is not the whole.
LEMMA PartsShallow ==
  ASSUME NEW v, NEW n \in Nat, Shallow(v, n), NEW w \in Parts(v)
  PROVE  Shallow(w, n) /\ (w # v => n # 0 /\ Shallow(w, n - 1))
  <1>1. PICK j \in 0 .. MaxDepth : w \in Level(v, j)
    BY DEF Parts
  <1>2. j \in Nat /\ MaxDepth \in Nat /\ n + 1 \in Nat
    BY BoundsAssumption
  <1>3. \A m \in Nat : n + 1 <= m => Level(v, m) = {}
    BY <1>2, LevelsEnd DEF Shallow
  <1>4. \A m \in Nat : Level(w, m) \subseteq Level(v, j + m)
    BY <1>1, <1>2, LevelsAdd
  <1>5. Shallow(w, n)
    <2>1. j + (n + 1) \in Nat /\ n + 1 <= j + (n + 1)
      BY <1>2
    <2>2. Level(w, n + 1) \subseteq Level(v, j + (n + 1))
      BY <1>2, <1>4
    <2> QED
      BY <1>3, <2>1, <2>2 DEF Shallow
  <1>6. ASSUME w # v PROVE n # 0 /\ Shallow(w, n - 1)
    <2>1. j # 0
      BY <1>1, <1>6, LevelIs
    <2>2. ~ (n + 1 <= j)
      BY <1>1, <1>2, <1>3
    <2>3. n # 0 /\ (n - 1) + 1 = n /\ j + n \in Nat /\ n + 1 <= j + n
      BY <1>2, <2>1, <2>2
    <2>4. Level(w, n) \subseteq Level(v, j + n)
      BY <1>4
    <2> QED
      BY <1>3, <2>3, <2>4 DEF Shallow
  <1> QED
    BY <1>5, <1>6

-----------------------------------------------------------------------------
(* The recursive function behind Walk.                                     *)

Solves(f, walk, v) == f = [w \in Parts(v) |-> Step(walk, w, [c \in Components(w) |-> f[c]])]

\* What the step of a walk makes of v, from what the walk makes of its components.
Made(walk, v) == Step(walk, v, [c \in Components(v) |-> Walk(walk, c)])

\* Two solutions agree: on the leaves, and then from level to level.
LEMMA SolutionsAgree ==
  ASSUME NEW walk, NEW v, Shallow(v, MaxDepth), NEW f, NEW g, Solves(f, walk, v), Solves(g, walk, v)
  PROVE  \A w \in Parts(v) : f[w] = g[w]
  <1> DEFINE S == {n \in Nat : \A w \in Parts(v) : Shallow(w, n) => f[w] = g[w]}
  <1>1. ASSUME NEW w \in Parts(v), \A c \in Components(w) : f[c] = g[c]
        PROVE  f[w] = g[w]
    <2>1. [c \in Components(w) |-> f[c]] = [c \in Components(w) |-> g[c]]
      BY <1>1
    <2>2. /\ f[w] = Step(walk, w, [c \in Components(w) |-> f[c]])
          /\ g[w] = Step(walk, w, [c \in Components(w) |-> g[c]])
      BY DEF Solves
    <2> QED
      BY <2>1, <2>2
  <1>2. 0 \in S
    BY <1>1, ShallowLeaf
  <1>3. ASSUME NEW n \in Nat, n \in S PROVE n + 1 \in S
    <2> SUFFICES ASSUME NEW w \in Parts(v), Shallow(w, n + 1) PROVE f[w] = g[w]
      OBVIOUS
    <2>1. \A c \in Components(w) : c \in Parts(v) /\ Shallow(c, n)
      BY PartsClosed, ShallowInside
    <2> QED
      BY <1>1, <1>3, <2>1
  <1> HIDE DEF S
  <1>4. \A n \in Nat : n \in S
    BY <1>2, <1>3, CountingUp
  <1>5. MaxDepth \in S /\ \A w \in Parts(v) : Shallow(w, MaxDepth)
    BY <1>4, BoundsAssumption, PartsShallow
  <1> QED
    BY <1>5 DEF S

\* A walk is the value of a solution, when there is one.
LEMMA WalkIsSolution ==
  ASSUME NEW walk, NEW v, Shallow(v, MaxDepth), NEW g, Solves(g, walk, v)
  PROVE  Walk(walk, v) = g[v]
  <1> DEFINE of == CHOOSE f : Solves(f, walk, v)
  <1>1. Solves(of, walk, v)
    OBVIOUS
  <1>2. Walk(walk, v) = of[v]
    BY DEF Walk, Solves
  <1> HIDE DEF of
  <1> QED
    BY <1>1, <1>2, SolutionsAgree, PartsSelf

(***************************************************************************)
(* A walk over v is made of the walks over what is directly inside v.  The *)
(* recursive function behind it takes the value v on the walks over all    *)
(* other parts of v, which are shallower.                                  *)
(***************************************************************************)
THEOREM WalkUnfolds ==
  ASSUME NEW walk, NEW v, Shallow(v, MaxDepth)
  PROVE  Walk(walk, v) = Step(walk, v, [c \in Components(v) |-> Walk(walk, c)])
  <1> DEFINE Unfolds(w) == Walk(walk, w) = Made(walk, w)
             S == {n \in Nat : n <= MaxDepth => \A w : Shallow(w, n) => Unfolds(w)}
  <1> MaxDepth \in Nat
    BY BoundsAssumption
  <1>1. ASSUME NEW n \in Nat, n <= MaxDepth, NEW u, Shallow(u, n),
               \A w \in Parts(u) : w # u => Unfolds(w) /\ u \notin Components(w),
               u \notin Components(u)
        PROVE  Unfolds(u)
    <2> DEFINE g == [w \in Parts(u) |-> IF w = u THEN Made(walk, u) ELSE Walk(walk, w)]
    <2>1. Shallow(u, MaxDepth)
      BY <1>1, ShallowMore
    <2>2. ASSUME NEW w \in Parts(u)
          PROVE  g[w] = Step(walk, w, [c \in Components(w) |-> g[c]])
      <3>1. \A c \in Components(w) : c \in Parts(u) /\ c # u
        BY <1>1, <2>1, PartsClosed
      <3>2. [c \in Components(w) |-> g[c]] = [c \in Components(w) |-> Walk(walk, c)]
        BY <3>1
      <3>3. g[w] = Made(walk, w)
        BY <1>1
      <3> HIDE DEF g
      <3> QED
        BY <3>2, <3>3 DEF Made
    <2>3. Solves(g, walk, u)
      BY <2>2 DEF Solves
    <2>4. Walk(walk, u) = g[u]
      BY <2>1, <2>3, WalkIsSolution
    <2>5. g[u] = Made(walk, u)
      BY PartsSelf
    <2> QED
      BY <2>4, <2>5
  <1>2. 0 \in S
    <2> SUFFICES ASSUME NEW u, Shallow(u, 0) PROVE Unfolds(u)
      OBVIOUS
    <2>1. Components(u) = {}
      BY ShallowLeaf
    <2>2. \A w \in Parts(u) : w = u
      BY PartsShallow
    <2> QED
      BY <1>1, <2>1, <2>2
  <1>3. ASSUME NEW n \in Nat, n \in S PROVE n + 1 \in S
    <2> SUFFICES ASSUME n + 1 <= MaxDepth, NEW u, Shallow(u, n + 1) PROVE Unfolds(u)
      OBVIOUS
    <2>0. n <= MaxDepth /\ n + 1 \in Nat /\ (n + 1) - 1 = n
      OBVIOUS
    <2>1. CASE Shallow(u, n)
      BY <1>3, <2>0, <2>1
    <2>2. CASE ~ Shallow(u, n)
      <3>1. ASSUME NEW w \in Parts(u), w # u PROVE Shallow(w, n)
        BY <2>0, <3>1, PartsShallow
      <3>2. ASSUME NEW w, Shallow(w, n), u \in Components(w) PROVE FALSE
        <4>1. CASE n = 0
          BY <3>2, <4>1, ShallowLeaf
        <4>2. CASE n # 0
          <5>1. n - 1 \in Nat /\ (n - 1) + 1 = n /\ n - 1 <= n
            BY <4>2
          <5>2. Shallow(u, n - 1)
            BY <3>2, <5>1, ShallowInside
          <5> QED
            BY <2>2, <5>1, <5>2, ShallowMore
        <4> QED
          BY <4>1, <4>2
      <3>3. u \notin Components(u)
        BY <2>2, ShallowInside
      <3>4. \A w \in Parts(u) : w # u => Unfolds(w) /\ u \notin Components(w)
        BY <1>3, <2>0, <3>1, <3>2
      <3> QED
        BY <1>1, <2>0, <3>3, <3>4
    <2> QED
      BY <2>1, <2>2
  <1> HIDE DEF S
  <1>4. \A n \in Nat : n \in S
    BY <1>2, <1>3, CountingUp
  <1> QED
    BY <1>4 DEF S, Made

=============================================================================
