--------------------------- MODULE LruCacheProofs ---------------------------
(***************************************************************************)
(* Proofs about LruCache for any keys, responses, limit and lifetime: the  *)
(* types, that list and map agree, the limit, the order of eviction, and   *)
(* that the store implements CacheContract.                                *)
(***************************************************************************)
EXTENDS LruCache, Induction, SequenceTheorems

-----------------------------------------------------------------------------
(* The recursive function behind Without.                                  *)

\* f is the list of what is kept of the first i elements of s, for i up to n.
Keeps(f, n, s, gone) ==
    f = [i \in 0 .. n |->
            IF i = 0 THEN <<>>
            ELSE IF s[i] \in gone THEN f[i - 1] ELSE Append(f[i - 1], s[i])]

(***************************************************************************)
(* There is such a function for every n: one for n - 1 is extended.        *)
(***************************************************************************)
LEMMA KeepsSome ==
  ASSUME NEW s, NEW gone
  PROVE  \A n \in Nat : \E f : Keeps(f, n, s, gone)
  <1> DEFINE S == {n \in Nat : \E f : Keeps(f, n, s, gone)}
  <1>1. 0 \in S
    <2>1. Keeps([i \in 0 .. 0 |-> <<>>], 0, s, gone)
      BY DEF Keeps
    <2> QED
      BY <2>1
  <1>2. ASSUME NEW n \in Nat, n \in S PROVE n + 1 \in S
    <2>1. PICK f : Keeps(f, n, s, gone)
      BY <1>2
    <2> DEFINE last1 == IF s[n + 1] \in gone THEN f[n] ELSE Append(f[n], s[n + 1])
               g == [i \in 0 .. n + 1 |-> IF i = n + 1 THEN last1 ELSE f[i]]
    <2>2. \A i \in 0 .. n :
             f[i] = IF i = 0 THEN <<>> ELSE IF s[i] \in gone THEN f[i - 1] ELSE Append(f[i - 1], s[i])
      BY <2>1 DEF Keeps
    <2>3. \A i \in 0 .. n + 1 :
             g[i] = IF i = 0 THEN <<>> ELSE IF s[i] \in gone THEN g[i - 1] ELSE Append(g[i - 1], s[i])
      BY <2>2
    <2>4. Keeps(g, n + 1, s, gone)
      BY <2>3 DEF Keeps
    <2> QED
      BY <2>4
  <1> HIDE DEF S
  <1>3. \A n \in Nat : n \in S
    BY <1>1, <1>2, CountingUp
  <1> QED
    BY <1>3 DEF S

(***************************************************************************)
(* Without(s, gone) is the last value of such a function.                  *)
(***************************************************************************)
LEMMA WithoutKeeps ==
  ASSUME NEW s, NEW gone, Len(s) \in Nat
  PROVE  \E f : /\ Without(s, gone) = f[Len(s)]
                /\ f[0] = <<>>
                /\ \A i \in 1 .. Len(s) :
                      f[i] = IF s[i] \in gone THEN f[i - 1] ELSE Append(f[i - 1], s[i])
  <1> DEFINE kept == CHOOSE f : Keeps(f, Len(s), s, gone)
  <1>1. Keeps(kept, Len(s), s, gone)
    BY KeepsSome
  <1>2. Without(s, gone) = kept[Len(s)]
    BY DEF Without, Keeps
  <1> HIDE DEF kept
  <1>3. \A i \in 0 .. Len(s) :
           kept[i] = IF i = 0 THEN <<>>
                     ELSE IF s[i] \in gone THEN kept[i - 1] ELSE Append(kept[i - 1], s[i])
    BY <1>1 DEF Keeps
  <1> QED
    BY <1>2, <1>3

-----------------------------------------------------------------------------
(* What Without leaves of a list.                                          *)

\* h names, in order, the positions of the first n of s that are kept in t.
Picks(h, t, s, n, gone) ==
    /\ h \in [1 .. Len(t) -> 1 .. n]
    /\ \A i, j \in 1 .. Len(t) : i < j => h[i] < h[j]
    /\ \A i \in 1 .. Len(t) : t[i] = s[h[i]] /\ s[h[i]] \notin gone
    /\ \A p \in 1 .. n : s[p] \notin gone => \E i \in 1 .. Len(t) : h[i] = p

(***************************************************************************)
(* One more element of the list: it is either gone or appended.            *)
(***************************************************************************)
LEMMA PicksNext ==
  ASSUME NEW S, NEW s \in Seq(S), NEW n \in Nat, n + 1 <= Len(s), NEW gone,
         NEW t \in Seq(S), NEW h, Picks(h, t, s, n, gone)
  PROVE  /\ s[n + 1] \in gone => Picks(h, t, s, n + 1, gone)
         /\ s[n + 1] \notin gone =>
               Picks([i \in 1 .. Len(t) + 1 |-> IF i = Len(t) + 1 THEN n + 1 ELSE h[i]],
                     Append(t, s[n + 1]), s, n + 1, gone)
  <1>1. CASE s[n + 1] \in gone
    BY <1>1 DEF Picks
  <1>2. CASE s[n + 1] \notin gone
    <2> DEFINE g == [i \in 1 .. Len(t) + 1 |-> IF i = Len(t) + 1 THEN n + 1 ELSE h[i]]
               u == Append(t, s[n + 1])
    <2>1. /\ Len(u) = Len(t) + 1 /\ u[Len(t) + 1] = s[n + 1]
          /\ \A i \in 1 .. Len(t) : u[i] = t[i]
      OBVIOUS
    <2>2. /\ g[Len(t) + 1] = n + 1 /\ \A i \in 1 .. Len(t) : g[i] = h[i]
          /\ g \in [1 .. Len(u) -> 1 .. n + 1]
      BY <2>1 DEF Picks
    <2> HIDE DEF g, u
    <2>3. \A i, j \in 1 .. Len(u) : i < j => g[i] < g[j]
      <3> TAKE i, j \in 1 .. Len(u)
      <3> HAVE i < j
      <3>1. Len(t) \in Nat /\ i \in 1 .. Len(t) /\ j \in 1 .. Len(t) + 1
        BY <2>1
      <3>2. g[i] = h[i] /\ h[i] \in 1 .. n
        BY <2>2, <3>1 DEF Picks
      <3>3. CASE j = Len(t) + 1
        BY <2>2, <3>2, <3>3
      <3>4. CASE j \in 1 .. Len(t)
        BY <2>2, <3>1, <3>4 DEF Picks
      <3> QED
        BY <3>1, <3>3, <3>4
    <2>4. \A i \in 1 .. Len(u) : u[i] = s[g[i]] /\ s[g[i]] \notin gone
      BY <1>2, <2>1, <2>2 DEF Picks
    <2>5. \A p \in 1 .. n + 1 : s[p] \notin gone => \E i \in 1 .. Len(u) : g[i] = p
      <3> TAKE p \in 1 .. n + 1
      <3> HAVE s[p] \notin gone
      <3>1. CASE p = n + 1
        BY <3>1, <2>1, <2>2
      <3>2. CASE p \in 1 .. n
        <4>1. PICK i \in 1 .. Len(t) : h[i] = p
          BY <3>2 DEF Picks
        <4> QED
          BY <4>1, <2>1, <2>2
      <3> QED
        BY <3>1, <3>2
    <2>6. Picks(g, u, s, n + 1, gone)
      BY <2>2, <2>3, <2>4, <2>5 DEF Picks
    <2> QED
      BY <1>2, <2>6 DEF g, u
  <1> QED
    BY <1>1, <1>2

(***************************************************************************)
(* From two lists of the same length that lose the same positions, the     *)
(* same positions are kept, in their order.                                *)
(***************************************************************************)
LEMMA WithoutTwice ==
  ASSUME NEW S, NEW s \in Seq(S), NEW gone, NEW T, NEW t \in Seq(T), NEW lost,
         Len(s) = Len(t), \A i \in 1 .. Len(s) : s[i] \in gone <=> t[i] \in lost
  PROVE  /\ Without(s, gone) \in Seq(S) /\ Without(t, lost) \in Seq(T)
         /\ Len(Without(s, gone)) = Len(Without(t, lost))
         /\ Len(Without(s, gone)) <= Len(s)
         /\ (\E i \in 1 .. Len(s) : s[i] \in gone) => Len(Without(s, gone)) < Len(s)
         /\ \E h : /\ Picks(h, Without(s, gone), s, Len(s), gone)
                   /\ Picks(h, Without(t, lost), t, Len(s), lost)
  <1> DEFINE m == Len(s)
  <1>0. m \in Nat
    OBVIOUS
  <1>1. PICK f : /\ Without(s, gone) = f[m] /\ f[0] = <<>>
                 /\ \A i \in 1 .. m : f[i] = IF s[i] \in gone THEN f[i - 1] ELSE Append(f[i - 1], s[i])
    BY WithoutKeeps
  <1>2. PICK g : /\ Without(t, lost) = g[m] /\ g[0] = <<>>
                 /\ \A i \in 1 .. m : g[i] = IF t[i] \in lost THEN g[i - 1] ELSE Append(g[i - 1], t[i])
    BY WithoutKeeps
  <1> DEFINE Alike(n) ==
                /\ f[n] \in Seq(S) /\ g[n] \in Seq(T)
                /\ Len(f[n]) = Len(g[n]) /\ Len(f[n]) <= n
                /\ (\E i \in 1 .. n : s[i] \in gone) => Len(f[n]) < n
                /\ \E h : Picks(h, f[n], s, n, gone) /\ Picks(h, g[n], t, n, lost)
             N == {n \in Nat : n <= m => Alike(n)}
  <1>3. 0 \in N
    <2>1. Picks(<<>>, <<>>, s, 0, gone) /\ Picks(<<>>, <<>>, t, 0, lost)
      BY DEF Picks
    <2>2. /\ <<>> \in Seq(S) /\ <<>> \in Seq(T) /\ Len(<<>>) = 0
      OBVIOUS
    <2>3. Alike(0)
      BY <1>1, <1>2, <2>1, <2>2
    <2> QED
      BY <2>3
  <1>4. ASSUME NEW n \in Nat, n \in N PROVE n + 1 \in N
    <2> SUFFICES ASSUME n + 1 <= m PROVE Alike(n + 1)
      OBVIOUS
    <2>1. PICK h : Picks(h, f[n], s, n, gone) /\ Picks(h, g[n], t, n, lost)
      BY <1>4, <1>0
    <2>2. /\ f[n] \in Seq(S) /\ g[n] \in Seq(T) /\ Len(f[n]) = Len(g[n]) /\ Len(f[n]) <= n
          /\ (\E i \in 1 .. n : s[i] \in gone) => Len(f[n]) < n
      BY <1>4, <1>0
    <2>3. n + 1 \in 1 .. m /\ (n + 1) - 1 = n
      BY <1>0
    <2>4. /\ f[n + 1] = IF s[n + 1] \in gone THEN f[n] ELSE Append(f[n], s[n + 1])
          /\ g[n + 1] = IF t[n + 1] \in lost THEN g[n] ELSE Append(g[n], t[n + 1])
          /\ s[n + 1] \in gone <=> t[n + 1] \in lost
          /\ s[n + 1] \in S /\ t[n + 1] \in T
      BY <1>1, <1>2, <2>3
    <2> DEFINE k == [i \in 1 .. Len(f[n]) + 1 |-> IF i = Len(f[n]) + 1 THEN n + 1 ELSE h[i]]
    <2>5. /\ s[n + 1] \in gone => Picks(h, f[n], s, n + 1, gone)
          /\ s[n + 1] \notin gone => Picks(k, Append(f[n], s[n + 1]), s, n + 1, gone)
      BY <2>1, <2>2, PicksNext
    <2>6. /\ t[n + 1] \in lost => Picks(h, g[n], t, n + 1, lost)
          /\ t[n + 1] \notin lost => Picks(k, Append(g[n], t[n + 1]), t, n + 1, lost)
      <3> DEFINE l == [i \in 1 .. Len(g[n]) + 1 |-> IF i = Len(g[n]) + 1 THEN n + 1 ELSE h[i]]
      <3>1. l = k
        BY <2>2
      <3>2. /\ t[n + 1] \in lost => Picks(h, g[n], t, n + 1, lost)
            /\ t[n + 1] \notin lost => Picks(l, Append(g[n], t[n + 1]), t, n + 1, lost)
        BY <2>1, <2>2, PicksNext
      <3> HIDE DEF k, l
      <3> QED
        BY <3>1, <3>2
    <2> HIDE DEF k
    <2>7. CASE s[n + 1] \in gone
      BY <2>2, <2>4, <2>5, <2>6, <2>7
    <2>8. CASE s[n + 1] \notin gone
      <3>1. /\ Append(f[n], s[n + 1]) \in Seq(S) /\ Append(g[n], t[n + 1]) \in Seq(T)
            /\ Len(Append(f[n], s[n + 1])) = Len(f[n]) + 1
            /\ Len(Append(g[n], t[n + 1])) = Len(g[n]) + 1
        BY <2>2, <2>4
      <3> QED
        BY <2>2, <2>4, <2>5, <2>6, <2>8, <3>1
    <2> QED
      BY <2>7, <2>8
  <1> HIDE DEF N
  <1>5. \A n \in Nat : n \in N
    BY <1>3, <1>4, CountingUp
  <1>6. Alike(m)
    BY <1>0, <1>5 DEF N
  <1> QED
    BY <1>1, <1>2, <1>6

(***************************************************************************)
(* A list without some elements: it is no longer than before and has the   *)
(* others, in their order.                                                 *)
(***************************************************************************)
LEMMA WithoutPicks ==
  ASSUME NEW S, NEW s \in Seq(S), NEW gone
  PROVE  /\ Without(s, gone) \in Seq(S)
         /\ Len(Without(s, gone)) <= Len(s)
         /\ \E h : Picks(h, Without(s, gone), s, Len(s), gone)
  BY WithoutTwice

\* Of s exactly the first m elements are gone.
FrontGone(s, gone, m) ==
    /\ m \in 0 .. Len(s)
    /\ \A i \in 1 .. Len(s) : s[i] \in gone <=> i <= m

\* t is s without its first m elements.
MovedUp(t, s, m) ==
    /\ Len(t) = Len(s) - m
    /\ \A j \in 1 .. Len(s) - m : t[j] = s[m + j]

(***************************************************************************)
(* When what is gone is the first m elements, the rest moves up by m.      *)
(***************************************************************************)
LEMMA WithoutFront ==
  ASSUME NEW S, NEW s \in Seq(S), NEW gone, NEW m, FrontGone(s, gone, m)
  PROVE  Without(s, gone) \in Seq(S) /\ MovedUp(Without(s, gone), s, m)
  <1>0. /\ m \in Nat /\ m <= Len(s) /\ Len(s) \in Nat
        /\ \A i \in 1 .. Len(s) : s[i] \in gone <=> i <= m
    BY DEF FrontGone
  <1>1. PICK f : /\ Without(s, gone) = f[Len(s)] /\ f[0] = <<>>
                 /\ \A i \in 1 .. Len(s) : f[i] = IF s[i] \in gone THEN f[i - 1] ELSE Append(f[i - 1], s[i])
    BY <1>0, WithoutKeeps
  <1> DEFINE Size(n) == IF n <= m THEN 0 ELSE n - m
             Moved(n) == f[n] \in Seq(S) /\ Len(f[n]) = Size(n) /\ \A j \in 1 .. Size(n) : f[n][j] = s[m + j]
             N == {n \in Nat : n <= Len(s) => Moved(n)}
  <1>2. 0 \in N
    <2>1. <<>> \in Seq(S) /\ Len(<<>>) = 0 /\ Size(0) = 0
      BY <1>0
    <2>2. Moved(0)
      BY <1>1, <2>1
    <2> QED
      BY <2>2
  <1>3. ASSUME NEW n \in Nat, n \in N PROVE n + 1 \in N
    <2> SUFFICES ASSUME n + 1 <= Len(s) PROVE Moved(n + 1)
      OBVIOUS
    <2>1. Moved(n) /\ n + 1 \in 1 .. Len(s) /\ s[n + 1] \in S
      BY <1>0, <1>3
    <2>2. f[n + 1] = IF n + 1 <= m THEN f[n] ELSE Append(f[n], s[n + 1])
      BY <1>0, <1>1, <2>1
    <2>3. CASE n + 1 <= m
      BY <1>0, <2>1, <2>2, <2>3
    <2>4. CASE ~(n + 1 <= m)
      <3>1. /\ Size(n + 1) = Size(n) + 1 /\ Size(n) \in Nat /\ m + (Size(n) + 1) = n + 1
        BY <1>0, <2>4
      <3> HIDE DEF Size
      <3>2. /\ f[n + 1] \in Seq(S) /\ Len(f[n + 1]) = Size(n) + 1 /\ f[n + 1][Size(n) + 1] = s[n + 1]
            /\ \A j \in 1 .. Size(n) : f[n + 1][j] = f[n][j]
        BY <2>1, <2>2, <2>4, <3>1
      <3>3. \A j \in 1 .. Size(n) + 1 : f[n + 1][j] = s[m + j]
        <4> TAKE j \in 1 .. Size(n) + 1
        <4>1. CASE j \in 1 .. Size(n)
          BY <2>1, <3>2, <4>1
        <4>2. CASE j = Size(n) + 1
          BY <3>1, <3>2, <4>2
        <4> QED
          BY <3>1, <4>1, <4>2
      <3> QED
        BY <3>1, <3>2, <3>3
    <2> QED
      BY <2>3, <2>4
  <1> HIDE DEF N
  <1>4. \A n \in Nat : n \in N
    BY <1>2, <1>3, CountingUp
  <1>5. Moved(Len(s)) /\ Size(Len(s)) = Len(s) - m
    BY <1>0, <1>4 DEF N
  <1> QED
    BY <1>1, <1>5 DEF MovedUp

(***************************************************************************)
(* When nothing of the list is gone it stays as it is.                     *)
(***************************************************************************)
LEMMA WithoutNothing ==
  ASSUME NEW S, NEW s \in Seq(S), NEW gone, \A i \in 1 .. Len(s) : s[i] \notin gone
  PROVE  Without(s, gone) = s
  <1>1. FrontGone(s, gone, 0)
    BY DEF FrontGone
  <1> DEFINE t == Without(s, gone)
  <1>2. t \in Seq(S) /\ MovedUp(t, s, 0)
    BY <1>1, WithoutFront
  <1> HIDE DEF t
  <1>3. Len(t) = Len(s) /\ \A j \in 1 .. Len(s) : t[j] = s[j]
    BY <1>2 DEF MovedUp
  <1>4. t = s
    BY <1>2, <1>3, SeqEqual
  <1> QED
    BY <1>4 DEF t

-----------------------------------------------------------------------------
(* Types.                                                                  *)

(***************************************************************************)
(* Dropping entries and collecting what nothing refers to keep the types.  *)
(***************************************************************************)
LEMMA DropTypes ==
  ASSUME TypeOK, NEW gone, Drop(gone)
  PROVE  /\ items' \in [Keys -> Ids \cup {None}] /\ order' \in Seq(Ids)
         /\ entry' \in [Ids -> Entry \cup {None}]
  <1>1. order' \in Seq(Ids)
    BY WithoutPicks DEF TypeOK, Drop
  <1>2. items' \in [Keys -> Ids \cup {None}]
    BY DEF TypeOK, Drop, Unmapped
  <1>3. entry' \in [Ids -> Entry \cup {None}]
    BY DEF TypeOK, Drop, Reachable
  <1> QED
    BY <1>1, <1>2, <1>3

(***************************************************************************)
(* The history of uses remains one of keys.                                *)
(***************************************************************************)
LEMMA UsesTypes ==
  ASSUME TypeOK
  PROVE  /\ Used(recency) \in Seq(Keys)
         /\ \A k \in Keys : Touch(k) => recency' \in Seq(Keys)
  <1>1. \A s \in Seq(Keys) : Used(s) \in Seq(Keys)
    BY WithoutPicks DEF Used
  <1>2. recency \in Seq(Keys)
    BY DEF TypeOK
  <1>3. \A k \in Keys : Without(recency, {k}) \in Seq(Keys)
    BY <1>2, WithoutPicks
  <1>4. \A k \in Keys : Append(Used(Without(recency, {k})), k) \in Seq(Keys)
    BY <1>1, <1>3, AppendProperties
  <1> QED
    BY <1>1, <1>2, <1>4 DEF Touch

(***************************************************************************)
(* The expiry of a new entry is a time, and after now: the jitter is less  *)
(* than the lifetime.                                                      *)
(***************************************************************************)
LEMMA ExpiryIsLater ==
  ASSUME now \in Nat
  PROVE  \A exp \in JitterExpiry : exp \in Nat /\ exp > now
  BY BoundsAssumption DEF JitterExpiry

LEMMA TypeInit == Init => TypeOK
  BY BoundsAssumption DEF Init, TypeOK

(***************************************************************************)
(* Every operation keeps the types; an entry is put only with an expiry.   *)
(***************************************************************************)
LEMMA TypeStep == TypeOK /\ [Next]_vars => TypeOK'
  <1> SUFFICES ASSUME TypeOK, [Next]_vars PROVE TypeOK'
    OBVIOUS
  <1>0. now \in Nat
    BY BoundsAssumption DEF TypeOK
  <1>1. ASSUME NEW k \in Keys, GetMiss(k) \/ PutIgnored(k) PROVE TypeOK'
    BY <1>1 DEF TypeOK, GetMiss, PutIgnored
  <1>2. ASSUME NEW k \in Keys, GetExpired(k) PROVE TypeOK'
    BY <1>2, DropTypes, UsesTypes DEF GetExpired, TypeOK
  <1>3. ASSUME NEW k \in Keys, GetHit(k) PROVE TypeOK'
    <2>1. MovedToBack(items[k]) \in Seq(Ids)
      <3>1. items[k] \in Ids /\ order \in Seq(Ids)
        BY <1>3 DEF GetHit, Hit, TypeOK
      <3>2. Without(order, {items[k]}) \in Seq(Ids)
        BY <3>1, WithoutPicks
      <3> QED
        BY <3>1, <3>2, AppendProperties DEF MovedToBack
    <2>2. recency' \in Seq(Keys)
      BY <1>3, UsesTypes DEF GetHit, Hit
    <2> QED
      BY <1>3, <2>1, <2>2 DEF GetHit, Hit, TypeOK
  <1>4. ASSUME NEW k \in Keys, NEW v \in Values, PutEntry(k, v) PROVE TypeOK'
    <2>1. PICK e \in Free, exp \in JitterExpiry :
             LET made == [entry EXCEPT ![e] = [key |-> k, val |-> v, exp |-> exp]]
                 pushed == Append(Without(order, Replaced(k)), e)
                 gone == Evicted(pushed)
             IN  /\ order' = Without(pushed, gone)
                 /\ items' = Unmapped([items EXCEPT ![k] = e], made, gone)
                 /\ entry' = Reachable(made)
      BY <1>4 DEF PutEntry
    <2> DEFINE made == [entry EXCEPT ![e] = [key |-> k, val |-> v, exp |-> exp]]
               pushed == Append(Without(order, Replaced(k)), e)
               gone == Evicted(pushed)
    <2>2. e \in Ids /\ exp \in Nat
      BY <1>0, <2>1, ExpiryIsLater DEF Free
    <2>3. [items EXCEPT ![k] = e] \in [Keys -> Ids \cup {None}] /\ made \in [Ids -> Entry \cup {None}]
      BY <2>2 DEF TypeOK, Entry
    <2>4. pushed \in Seq(Ids)
      <3>1. Without(order, Replaced(k)) \in Seq(Ids)
        BY WithoutPicks DEF TypeOK
      <3> QED
        BY <2>2, <3>1, AppendProperties
    <2>5. order' = Without(pushed, gone) /\ items' = Unmapped([items EXCEPT ![k] = e], made, gone)
          /\ entry' = Reachable(made)
      BY <2>1
    <2> HIDE DEF made, pushed, gone
    <2>6. order' \in Seq(Ids)
      BY <2>4, <2>5, WithoutPicks
    <2>7. items' \in [Keys -> Ids \cup {None}] /\ entry' \in [Ids -> Entry \cup {None}]
      BY <2>3, <2>5 DEF Unmapped, Reachable
    <2>8. recency' \in Seq(Keys) /\ UNCHANGED <<enabled, now>>
      BY <1>4, UsesTypes DEF PutEntry
    <2> QED
      BY <2>6, <2>7, <2>8 DEF TypeOK
  <1>5. CASE Clear
    <2>1. entry' \in [Ids -> Entry \cup {None}]
      BY <1>5 DEF Clear, Reachable, TypeOK
    <2> QED
      BY <1>5, <2>1 DEF Clear, TypeOK
  <1>6. CASE CleanupExpired
    BY <1>6, DropTypes, UsesTypes DEF CleanupExpired, TypeOK
  <1>7. CASE Tick
    BY <1>7, BoundsAssumption DEF Tick, TypeOK
  <1>8. CASE UNCHANGED vars
    BY <1>8 DEF vars, TypeOK
  <1> QED
    BY <1>1, <1>2, <1>3, <1>4, <1>5, <1>6, <1>7, <1>8 DEF Next

(***************************************************************************)
(* Type correctness of the response cache (cache.go:59-317).               *)
(***************************************************************************)
THEOREM TypeCorrect == Spec => []TypeOK
  BY TypeInit, TypeStep, PTL DEF Spec

-----------------------------------------------------------------------------
(* The inductive invariant: list, map, entries and history of uses.        *)

(***************************************************************************)
(* The list follows the history of uses, which names each cached key once; *)
(* a cached key has an entry of its own; a disabled store is empty.  The   *)
(* keys and not the entries are what a step is followed by: an operation   *)
(* takes keys out of the history, and out of the list what they map to.    *)
(***************************************************************************)
Linked ==
    /\ OrderIsRecency
    /\ \A i \in 1 .. Len(recency) : recency[i] \in Cached
    /\ \A i, j \in 1 .. Len(recency) : recency[i] = recency[j] => i = j
    /\ \A k \in Cached : \E i \in 1 .. Len(recency) : recency[i] = k
    /\ \A k \in Cached : entry[items[k]] # None /\ entry[items[k]].key = k
    /\ ~enabled => Cached = {}

(***************************************************************************)
(* Two cached keys have different entries, and the list holds exactly      *)
(* those: what ListIsMap says follows.                                     *)
(***************************************************************************)
LEMMA LinkedIsListIsMap == TypeOK /\ Linked => ListIsMap
  <1> SUFFICES ASSUME TypeOK, Linked PROVE ListIsMap
    OBVIOUS
  <1>0. DOMAIN order = 1 .. Len(order) /\ Len(order) = Len(recency)
    BY DEF TypeOK, Linked, OrderIsRecency
  <1>1. \A i \in 1 .. Len(order) : recency[i] \in Cached /\ order[i] = items[recency[i]]
    BY <1>0 DEF Linked, OrderIsRecency
  <1>2. \A k \in Cached : \E i \in 1 .. Len(order) : order[i] = items[k]
    BY <1>0, <1>1 DEF Linked
  <1>3. ToSet(order) = {items[k] : k \in Cached}
    BY <1>0, <1>1, <1>2 DEF ToSet
  <1>4. \A i, j \in 1 .. Len(order) : order[i] = order[j] => i = j
    <2>1. \A j, k \in Cached : items[j] = items[k] => j = k
      BY DEF Linked
    <2> QED
      BY <1>0, <1>1, <2>1 DEF Linked
  <1> QED
    BY <1>0, <1>3, <1>4 DEF ListIsMap, IsInjective, Linked

\* The list R follows the history r, which has the keys of ks once each and in the order of use.
StayInStep(R, r, ks) ==
    /\ R \in Seq(Ids) /\ r \in Seq(Keys)
    /\ Len(R) = Len(r) /\ Len(R) <= Len(order)
    /\ \A i \in 1 .. Len(r) : r[i] \in ks /\ R[i] = items[r[i]]
    /\ \A i, j \in 1 .. Len(r) : r[i] = r[j] => i = j
    /\ \A k \in ks : \E i \in 1 .. Len(r) : r[i] = k
    /\ \A i, j \in 1 .. Len(r) : i < j => Position(r[i]) < Position(r[j])

(***************************************************************************)
(* Taking out of the history some keys, and out of the list their entries, *)
(* leaves the one in step with the other.                                  *)
(***************************************************************************)
LEMMA Removing ==
  ASSUME TypeOK, Linked, NEW gone, NEW lost,
         \A k \in Cached : items[k] \in gone <=> k \in lost
  PROVE  StayInStep(Without(order, gone), Without(recency, lost), Cached \ lost)
  <1> DEFINE R == Without(order, gone)
             r == Without(recency, lost)
  <1>0. /\ order \in Seq(Ids) /\ recency \in Seq(Keys) /\ Len(order) = Len(recency)
        /\ Len(order) \in Nat
    BY DEF TypeOK, Linked, OrderIsRecency
  <1>1. \A i \in 1 .. Len(order) : order[i] \in gone <=> recency[i] \in lost
    BY <1>0 DEF Linked, OrderIsRecency
  <1>2. /\ R \in Seq(Ids) /\ r \in Seq(Keys) /\ Len(R) = Len(r) /\ Len(R) <= Len(order)
    BY <1>0, <1>1, WithoutTwice
  <1>3. PICK h : Picks(h, R, order, Len(order), gone) /\ Picks(h, r, recency, Len(order), lost)
    BY <1>0, <1>1, WithoutTwice
  <1>4. \A i \in 1 .. Len(r) :
           /\ h[i] \in 1 .. Len(order) /\ r[i] = recency[h[i]] /\ r[i] \notin lost
           /\ R[i] = order[h[i]]
    BY <1>2, <1>3 DEF Picks
  <1>5. \A i \in 1 .. Len(r) : r[i] \in Cached \ lost /\ R[i] = items[r[i]]
    BY <1>0, <1>4 DEF Linked, OrderIsRecency
  <1>6. \A i, j \in 1 .. Len(r) : i < j => h[i] < h[j]
    BY <1>3 DEF Picks
  <1>7. \A i, j \in 1 .. Len(r) : r[i] = r[j] => i = j
    <2> SUFFICES ASSUME NEW i \in 1 .. Len(r), NEW j \in 1 .. Len(r), r[i] = r[j] PROVE i = j
      OBVIOUS
    <2>1. h[i] = h[j] /\ h[i] \in Nat /\ Len(r) \in Nat
      BY <1>0, <1>2, <1>4 DEF Linked
    <2>2. ~(i < j) /\ ~(j < i)
      BY <1>6, <2>1
    <2> QED
      BY <2>1, <2>2
  <1>8. \A k \in Cached \ lost : \E i \in 1 .. Len(r) : r[i] = k
    <2> TAKE k \in Cached \ lost
    <2>1. PICK p \in 1 .. Len(order) : recency[p] = k
      BY <1>0 DEF Linked
    <2>2. PICK i \in 1 .. Len(r) : h[i] = p
      BY <1>3, <2>1 DEF Picks
    <2> QED
      BY <1>4, <2>1, <2>2
  <1>9. \A i \in 1 .. Len(r) : Position(r[i]) = h[i]
    <2> TAKE i \in 1 .. Len(r)
    <2>1. h[i] \in DOMAIN recency /\ recency[h[i]] = r[i]
      BY <1>0, <1>4
    <2>2. \A p \in DOMAIN recency : recency[p] = r[i] => p = h[i]
      BY <1>0, <2>1 DEF Linked
    <2> QED
      BY <2>1, <2>2 DEF Position
  <1> QED
    BY <1>2, <1>5, <1>6, <1>7, <1>8, <1>9 DEF StayInStep

(***************************************************************************)
(* Taking out the entry of a cached key makes the list shorter.            *)
(***************************************************************************)
LEMMA RemovingOne ==
  ASSUME TypeOK, Linked, NEW k \in Cached
  PROVE  Len(Without(order, {items[k]})) < Len(order)
  <1>1. \E i \in 1 .. Len(order) : order[i] \in {items[k]}
    BY DEF Linked, OrderIsRecency
  <1>2. order \in Seq(Ids)
    BY DEF TypeOK
  <1> QED
    BY <1>1, <1>2, WithoutTwice

(***************************************************************************)
(* removeElementLocked, for a set of listed entries: the keys they are     *)
(* cached under vanish, the other ones keep their entries, and the list    *)
(* still follows the history.                                              *)
(***************************************************************************)
LEMMA DropIs ==
  ASSUME TypeOK, Linked, NEW gone, gone \subseteq {items[k] : k \in Cached},
         Drop(gone), recency' = Used(recency), UNCHANGED enabled
  PROVE  /\ \A k \in Keys : items'[k] = IF k \in Cached /\ items[k] \notin gone THEN items[k] ELSE None
         /\ \A k \in Cached' : items'[k] = items[k] /\ entry'[items[k]] = entry[items[k]]
         /\ Len(order') <= Len(order)
         /\ Linked'
  <1>1. \A k \in Keys : items'[k] = IF k \in Cached /\ items[k] \notin gone THEN items[k] ELSE None
    <2> TAKE k \in Keys
    <2>1. items' = Unmapped(items, entry, gone)
      BY DEF Drop
    <2>2. CASE k \in Cached /\ items[k] \in gone
      BY <2>1, <2>2 DEF Unmapped, Linked
    <2>3. CASE k \in Cached /\ items[k] \notin gone
      <3>1. ~ \E e \in gone : entry[e].key = k
        BY <2>3 DEF Linked
      <3> QED
        BY <2>1, <2>3, <3>1 DEF Unmapped
    <2>4. CASE k \notin Cached
      BY <2>1, <2>4 DEF Unmapped, Cached
    <2> QED
      BY <2>2, <2>3, <2>4
  <1>2. Cached' = {k \in Cached : items[k] \notin gone}
    BY <1>1 DEF Cached
  <1>3. \A k \in Cached' : items'[k] = items[k] /\ entry'[items[k]] = entry[items[k]]
    <2> TAKE k \in Cached'
    <2>1. items'[k] = items[k] /\ items[k] \in Ids /\ k \in Keys
      BY <1>1, <1>2 DEF TypeOK, Cached
    <2>2. entry' = Reachable(entry)
      BY DEF Drop
    <2> QED
      BY <2>1, <2>2 DEF Reachable
  <1> DEFINE lost == {k \in Keys : items'[k] = None}
  <1>4. \A k \in Cached : items[k] \in gone <=> k \in lost
    BY <1>1 DEF Cached
  <1>5. order' = Without(order, gone) /\ recency' = Without(recency, lost)
    BY DEF Drop, Used
  <1>6. Cached' = Cached \ lost
    BY <1>2, <1>4 DEF Cached
  <1> HIDE DEF lost
  <1>7. /\ order' \in Seq(Ids) /\ recency' \in Seq(Keys)
        /\ Len(order') = Len(recency') /\ Len(order') <= Len(order)
        /\ \A i \in 1 .. Len(recency') : recency'[i] \in Cached' /\ order'[i] = items[recency'[i]]
        /\ \A i, j \in 1 .. Len(recency') : recency'[i] = recency'[j] => i = j
        /\ \A k \in Cached' : \E i \in 1 .. Len(recency') : recency'[i] = k
    <2>1. StayInStep(order', recency', Cached')
      BY <1>4, <1>5, <1>6, Removing
    <2> QED
      BY <2>1 DEF StayInStep
  <1>8. OrderIsRecency'
    BY <1>3, <1>7 DEF OrderIsRecency
  <1>9. \A k \in Cached' : entry'[items'[k]] # None /\ entry'[items'[k]].key = k
    BY <1>2, <1>3 DEF Linked
  <1>10. ~enabled' => Cached' = {}
    BY <1>2 DEF Linked
  <1>11. Linked'
    BY <1>7, <1>8, <1>9, <1>10 DEF Linked
  <1> QED
    BY <1>1, <1>3, <1>7, <1>11

(***************************************************************************)
(* A key used now goes to the end of the history and its entry to the end  *)
(* of the list; before them, in step, are the n others.                    *)
(***************************************************************************)
LEMMA UsedLast ==
  ASSUME NEW k \in Cached', NEW n \in Nat,
         Len(order') = n + 1, Len(recency') = n + 1,
         order'[n + 1] = items'[k], recency'[n + 1] = k,
         \A i \in 1 .. n : recency'[i] \in Cached' \ {k} /\ order'[i] = items'[recency'[i]],
         \A i, j \in 1 .. n : recency'[i] = recency'[j] => i = j,
         \A j \in Cached' \ {k} : \E i \in 1 .. n : recency'[i] = j,
         \A j \in Cached' : entry'[items'[j]] # None /\ entry'[items'[j]].key = j,
         enabled'
  PROVE  Linked'
  <1>1. \A i \in 1 .. n + 1 : i = n + 1 \/ i \in 1 .. n
    OBVIOUS
  <1>2. OrderIsRecency'
    BY <1>1 DEF OrderIsRecency
  <1>3. \A i \in 1 .. n + 1 : recency'[i] \in Cached'
    BY <1>1
  <1>4. \A i, j \in 1 .. n + 1 : recency'[i] = recency'[j] => i = j
    BY <1>1
  <1>5. \A j \in Cached' : \E i \in 1 .. n + 1 : recency'[i] = j
    <2> TAKE j \in Cached'
    <2>1. CASE j = k
      <3>1. n + 1 \in 1 .. n + 1
        OBVIOUS
      <3> QED
        BY <2>1, <3>1
    <2>2. CASE j # k
      BY <2>2
    <2> QED
      BY <2>1, <2>2
  <1> QED
    BY <1>2, <1>3, <1>4, <1>5 DEF Linked

(***************************************************************************)
(* A hit moves the key to the end of the history and its entry to the end  *)
(* of the list.                                                            *)
(***************************************************************************)
LEMMA HitIs ==
  ASSUME TypeOK, Linked, NEW k \in Keys, GetHit(k)
  PROVE  Linked' /\ Len(order') <= Len(order)
  <1> DEFINE R == Without(order, {items[k]})
             r == Without(recency, {k})
             lost == {j \in Keys : items'[j] = None}
  <1>1. /\ k \in Cached /\ items[k] \in Ids /\ items' = items /\ entry' = entry
        /\ enabled /\ enabled' = enabled /\ Cached' = Cached
    BY DEF GetHit, Hit, Cached, TypeOK
  <1>2. \A j \in Cached : items[j] \in {items[k]} <=> j \in {k}
    BY <1>1 DEF Linked
  <1>3. /\ R \in Seq(Ids) /\ r \in Seq(Keys) /\ Len(R) = Len(r)
        /\ \A i \in 1 .. Len(r) : r[i] \in Cached \ {k} /\ R[i] = items[r[i]]
        /\ \A i, j \in 1 .. Len(r) : r[i] = r[j] => i = j
        /\ \A j \in Cached \ {k} : \E i \in 1 .. Len(r) : r[i] = j
    <2>1. StayInStep(R, r, Cached \ {k})
      BY <1>2, Removing
    <2> QED
      BY <2>1 DEF StayInStep
  <1>4. order' = Append(R, items[k])
    <2>1. items[k] \in ToSet(order)
      BY <1>1, LinkedIsListIsMap DEF ListIsMap
    <2> QED
      BY <2>1 DEF GetHit, MovedToBack
  <1>5. \A j \in lost : j \notin Cached
    BY <1>1 DEF Cached
  <1>6. recency' = Append(Without(r, lost), k)
    BY DEF GetHit, Hit, Touch, Used
  <1> HIDE DEF R, r, lost
  <1>7. Without(r, lost) = r
    BY <1>3, <1>5, WithoutNothing
  <1>8. /\ Len(order') = Len(r) + 1 /\ order'[Len(r) + 1] = items'[k]
        /\ \A i \in 1 .. Len(r) : order'[i] = R[i]
        /\ Len(recency') = Len(r) + 1 /\ recency'[Len(r) + 1] = k
        /\ \A i \in 1 .. Len(r) : recency'[i] = r[i]
        /\ Len(r) \in Nat
    BY <1>1, <1>3, <1>4, <1>6, <1>7, AppendProperties
  <1>9. /\ \A i \in 1 .. Len(r) : recency'[i] \in Cached' \ {k} /\ order'[i] = items'[recency'[i]]
        /\ \A i, j \in 1 .. Len(r) : recency'[i] = recency'[j] => i = j
        /\ \A j \in Cached' \ {k} : \E i \in 1 .. Len(r) : recency'[i] = j
    BY <1>1, <1>3, <1>8
  <1>10. \A j \in Cached' : entry'[items'[j]] # None /\ entry'[items'[j]].key = j
    BY <1>1 DEF Linked
  <1>11. Linked'
    BY <1>1, <1>8, <1>9, <1>10, UsedLast
  <1>12. Len(order') <= Len(order)
    <2>1. Len(R) < Len(order)
      BY <1>1, RemovingOne DEF R
    <2> QED
      BY <1>3, <1>8, <2>1 DEF TypeOK
  <1> QED
    BY <1>11, <1>12

\* While putEntry(k) runs: the list and the history without k, and the list with the new entry.
ListRest(k) == Without(order, Replaced(k))
UseRest(k) == Without(recency, {k})
Pushed(k, e) == Append(ListRest(k), e)

(***************************************************************************)
(* putEntry before the eviction: the entry under k is out of the list, and *)
(* the list still follows the history.                                     *)
(***************************************************************************)
LEMMA RestIs ==
  ASSUME TypeOK, Linked, NEW k \in Keys
  PROVE  StayInStep(ListRest(k), UseRest(k), Cached \ {k})
  <1>1. \A j \in Cached : items[j] \in Replaced(k) <=> j \in {k}
    <2>1. ToSet(order) = {items[j] : j \in Cached}
      BY LinkedIsListIsMap DEF ListIsMap
    <2>2. \A j \in Cached : items[j] = items[k] => j = k
      <3> SUFFICES ASSUME NEW j \in Cached, items[j] = items[k] PROVE j = k
        OBVIOUS
      <3>1. k \in Cached
        BY DEF Cached
      <3> QED
        BY <3>1 DEF Linked
    <2> QED
      BY <2>1, <2>2 DEF Replaced
  <1> QED
    BY <1>1, Removing DEF ListRest, UseRest

(***************************************************************************)
(* The new entry is at the end of the list, and different from all others. *)
(***************************************************************************)
LEMMA PushedIs ==
  ASSUME TypeOK, Linked, NEW k \in Keys, NEW e \in Free
  PROVE  /\ Pushed(k, e) \in Seq(Ids) /\ Len(Pushed(k, e)) = Len(UseRest(k)) + 1
         /\ Pushed(k, e)[Len(UseRest(k)) + 1] = e
         /\ \A i \in 1 .. Len(UseRest(k)) : Pushed(k, e)[i] = items[UseRest(k)[i]]
         /\ \A i, j \in 1 .. Len(UseRest(k)) + 1 : Pushed(k, e)[i] = Pushed(k, e)[j] => i = j
  <1> DEFINE P == Pushed(k, e)
             r == UseRest(k)
  <1>0. StayInStep(ListRest(k), r, Cached \ {k})
    BY RestIs
  <1>1. e \in Ids /\ entry[e] = None
    BY DEF Free
  <1>2. /\ P \in Seq(Ids) /\ Len(P) = Len(r) + 1 /\ P[Len(r) + 1] = e
        /\ \A i \in 1 .. Len(r) : P[i] = ListRest(k)[i]
    BY <1>0, <1>1, AppendProperties DEF Pushed, StayInStep
  <1>3. /\ \A i \in 1 .. Len(r) : r[i] \in Cached /\ P[i] = items[r[i]]
        /\ \A i, j \in 1 .. Len(r) : r[i] = r[j] => i = j
        /\ Len(r) \in Nat
    BY <1>0, <1>2 DEF StayInStep
  <1> HIDE DEF P, r
  <1>4. \A i \in 1 .. Len(r) : P[i] # e
    BY <1>1, <1>3 DEF Linked
  <1>5. \A i, j \in 1 .. Len(r) : P[i] = P[j] => i = j
    <2>1. \A j, l \in Cached : items[j] = items[l] => j = l
      BY DEF Linked
    <2> QED
      BY <1>3, <2>1
  <1>6. \A i \in 1 .. Len(r) + 1 : i = Len(r) + 1 \/ i \in 1 .. Len(r)
    BY <1>3
  <1>7. \A i, j \in 1 .. Len(r) + 1 : P[i] = P[j] => i = j
    BY <1>2, <1>4, <1>5, <1>6
  <1> QED
    BY <1>2, <1>3, <1>7 DEF P, r

(***************************************************************************)
(* putEntry: what evictLocked takes is the front of the list, the n keys   *)
(* used longest ago; k is not among them, and every other cached key keeps *)
(* its entry.                                                              *)
(***************************************************************************)
LEMMA PutIs ==
  ASSUME TypeOK, Linked, WithinLimit, NEW k \in Keys, NEW v \in Values, PutEntry(k, v)
  PROVE  /\ k \in Cached' /\ entry'[items'[k]] \in Entry
         /\ entry'[items'[k]].val = v /\ entry'[items'[k]].exp > now
         /\ \A j \in Cached' \ {k} : j \in Cached /\ items'[j] = items[j] /\ entry'[items[j]] = entry[items[j]]
         /\ \A j \in Cached \ {k} : items'[j] = None =>
               /\ Len(order') = MaxItems
               /\ \A i \in Cached \ {k} : items'[i] # None => Position(j) < Position(i)
         /\ WithinLimit'
         /\ Linked'
  <1>1. PICK e \in Free, exp \in JitterExpiry :
           LET made == [entry EXCEPT ![e] = [key |-> k, val |-> v, exp |-> exp]]
               pushed == Append(Without(order, Replaced(k)), e)
               gone == Evicted(pushed)
           IN  /\ order' = Without(pushed, gone)
               /\ items' = Unmapped([items EXCEPT ![k] = e], made, gone)
               /\ entry' = Reachable(made)
    BY DEF PutEntry
  <1> DEFINE made == [entry EXCEPT ![e] = [key |-> k, val |-> v, exp |-> exp]]
             P == Pushed(k, e)
             gone == Evicted(P)
             r == UseRest(k)
             lost == {j \in Keys : items'[j] = None}
  <1>2. /\ order' = Without(P, gone) /\ items' = Unmapped([items EXCEPT ![k] = e], made, gone)
        /\ entry' = Reachable(made)
    BY <1>1 DEF Pushed, ListRest
  <1>3. /\ enabled /\ enabled' = enabled /\ recency' = Append(Without(r, lost), k)
    BY DEF PutEntry, Touch, Used, UseRest
  <1>4. e \in Ids /\ entry[e] = None /\ exp \in Nat /\ exp > now
    BY <1>1, ExpiryIsLater, BoundsAssumption DEF Free, TypeOK
  <1>5. /\ r \in Seq(Keys) /\ Len(r) \in Nat
        /\ \A i \in 1 .. Len(r) : r[i] \in Cached \ {k}
        /\ \A i, j \in 1 .. Len(r) : r[i] = r[j] => i = j
        /\ \A j \in Cached \ {k} : \E i \in 1 .. Len(r) : r[i] = j
        /\ \A i, j \in 1 .. Len(r) : i < j => Position(r[i]) < Position(r[j])
    BY RestIs DEF StayInStep
  <1>6. /\ P \in Seq(Ids) /\ Len(P) = Len(r) + 1 /\ P[Len(r) + 1] = e
        /\ \A i \in 1 .. Len(r) : P[i] = items[r[i]]
        /\ \A i, j \in 1 .. Len(r) + 1 : P[i] = P[j] => i = j
    BY <1>1, PushedIs
  <1>7. /\ made[e] = [key |-> k, val |-> v, exp |-> exp]
        /\ \A j \in Cached : items[j] \in Ids /\ items[j] # e /\ made[items[j]] = entry[items[j]]
    BY <1>4 DEF TypeOK, Linked, Cached
  <1> DEFINE n == IF Len(P) > MaxItems THEN Len(P) - MaxItems ELSE 0
  <1>8. /\ n \in 0 .. Len(r) /\ n \in Nat /\ Len(r) \in Nat
        /\ n > 0 => Len(r) + 1 - n = MaxItems
        /\ Len(r) + 1 - n <= MaxItems
    BY <1>5, <1>6, BoundsAssumption
  <1>9. gone = {P[i] : i \in 1 .. n}
    <2>1. 1 .. n = 1 .. Len(P) - MaxItems
      BY <1>5, <1>6, BoundsAssumption
    <2> QED
      BY <2>1 DEF Evicted
  <1> HIDE DEF made, P, gone, r, lost, n
  <1>10. \A i \in 1 .. Len(P) : P[i] \in gone <=> i <= n
    BY <1>5, <1>6, <1>8, <1>9
  <1>11. \A i \in 1 .. n : i \in 1 .. Len(r) /\ P[i] \in gone /\ made[P[i]].key = r[i]
    <2> TAKE i \in 1 .. n
    <2>1. i \in 1 .. Len(r) /\ P[i] \in gone
      BY <1>8, <1>9
    <2>2. P[i] = items[r[i]] /\ r[i] \in Cached
      BY <1>5, <1>6, <2>1
    <2>3. made[P[i]].key = r[i]
      BY <1>7, <2>2 DEF Linked
    <2> QED
      BY <2>1, <2>3
  <1>12. items'[k] = e
    <2>1. ~ \E g \in gone : made[g].key = k
      BY <1>5, <1>9, <1>11
    <2> QED
      BY <1>2, <2>1 DEF TypeOK, Unmapped
  <1>13. \A j \in Keys \ {k} : items'[j] = IF \E i \in 1 .. n : r[i] = j THEN None ELSE items[j]
    <2> TAKE j \in Keys \ {k}
    <2>1. (\E g \in gone : made[g].key = j) <=> \E i \in 1 .. n : r[i] = j
      BY <1>9, <1>11
    <2> QED
      BY <1>2, <2>1 DEF TypeOK, Unmapped
  <1>14. \A i \in 1 .. Len(r) : r[i] \in lost <=> i <= n
    <2> TAKE i \in 1 .. Len(r)
    <2>1. r[i] \in Keys \ {k} /\ items[r[i]] # None
      BY <1>5 DEF Cached
    <2>2. (\E j \in 1 .. n : r[j] = r[i]) <=> i <= n
      BY <1>5, <1>8
    <2> QED
      BY <1>13, <2>1, <2>2 DEF lost
  <1>15. Cached' = {k} \cup {r[i] : i \in n + 1 .. Len(r)}
    <2>1. e # None
      BY <1>4, NoneAssumption
    <2>2. \A j \in Keys \ {k} : items'[j] # None <=> \E i \in n + 1 .. Len(r) : r[i] = j
      <3> TAKE j \in Keys \ {k}
      <3>1. CASE j \in Cached
        <4>1. PICK i \in 1 .. Len(r) : r[i] = j
          BY <1>5, <3>1
        <4>2. items'[j] = None <=> i <= n
          BY <1>14, <4>1 DEF lost
        <4> QED
          BY <1>5, <1>8, <4>1, <4>2
      <3>2. CASE j \notin Cached
        <4>1. \A i \in 1 .. Len(r) : r[i] # j
          BY <1>5, <3>2
        <4>2. items[j] = None
          BY <3>2 DEF Cached
        <4> QED
          BY <1>8, <1>13, <4>1, <4>2
      <3> QED
        BY <3>1, <3>2
    <2>3. \A i \in n + 1 .. Len(r) : r[i] \in Keys \ {k}
      BY <1>5, <1>8 DEF Cached
    <2> QED
      BY <1>12, <2>1, <2>2, <2>3 DEF Cached
  <1>16. \A j \in Cached' \ {k} : j \in Cached /\ items'[j] = items[j] /\ entry'[items[j]] = entry[items[j]]
    <2> TAKE j \in Cached' \ {k}
    <2>1. j \in Cached /\ j \in Keys
      BY <1>5, <1>8, <1>15 DEF Cached
    <2>2. items'[j] = items[j]
      BY <1>13, <2>1 DEF Cached
    <2>3. entry'[items[j]] = made[items[j]]
      BY <1>2, <1>7, <2>1, <2>2 DEF Reachable
    <2> QED
      BY <1>7, <2>1, <2>2, <2>3
  <1>17. k \in Cached' /\ entry'[items'[k]] = [key |-> k, val |-> v, exp |-> exp]
    BY <1>2, <1>4, <1>7, <1>12, <1>15 DEF Reachable
  <1>18. /\ Without(r, lost) \in Seq(Keys) /\ Len(Without(r, lost)) = Len(r) - n
         /\ \A i \in 1 .. Len(r) - n : Without(r, lost)[i] = r[n + i]
    <2>1. FrontGone(r, lost, n)
      BY <1>8, <1>14 DEF FrontGone
    <2> QED
      BY <1>5, <2>1, WithoutFront DEF MovedUp
  <1>19. /\ Len(order') = Len(P) - n
         /\ \A i \in 1 .. Len(P) - n : order'[i] = P[n + i]
    <2>1. FrontGone(P, gone, n)
      BY <1>6, <1>8, <1>10 DEF FrontGone
    <2>2. MovedUp(order', P, n)
      BY <1>2, <1>6, <2>1, WithoutFront
    <2> QED
      BY <2>2 DEF MovedUp
  <1> DEFINE m == Len(r) - n
  <1>20. /\ Len(recency') = m + 1 /\ recency'[m + 1] = k /\ m \in Nat
         /\ \A i \in 1 .. m : recency'[i] = r[n + i]
    BY <1>3, <1>8, <1>18, AppendProperties
  <1>21. /\ \A i \in 1 .. m : n + i \in 1 .. Len(r) /\ n + i \in n + 1 .. Len(r)
         /\ \A p \in n + 1 .. Len(r) : p - n \in 1 .. m /\ n + (p - n) = p
    BY <1>8
  <1>22. /\ Len(order') = m + 1 /\ order'[m + 1] = items'[k]
         /\ \A i \in 1 .. m : order'[i] = items[r[n + i]]
    <2>1. /\ Len(P) - n = m + 1 /\ m + 1 \in 1 .. Len(P) - n /\ n + (m + 1) = Len(r) + 1
          /\ \A i \in 1 .. m : i \in 1 .. Len(P) - n
      BY <1>6, <1>8, <1>20
    <2>2. order'[m + 1] = P[n + (m + 1)] /\ \A i \in 1 .. m : order'[i] = P[n + i]
      BY <1>19, <2>1
    <2> HIDE DEF m
    <2>3. order'[m + 1] = items'[k]
      BY <1>6, <1>12, <2>1, <2>2
    <2>4. \A i \in 1 .. m : order'[i] = items[r[n + i]]
      BY <1>6, <1>21, <2>2
    <2> QED
      BY <1>19, <2>1, <2>3, <2>4
  <1> HIDE DEF m
  <1>23. \A i \in 1 .. m : recency'[i] \in Cached' \ {k} /\ order'[i] = items'[recency'[i]]
    <2> TAKE i \in 1 .. m
    <2>1. recency'[i] = r[n + i] /\ order'[i] = items[r[n + i]]
      BY <1>20, <1>22
    <2>2. r[n + i] \in Cached' \ {k}
      BY <1>5, <1>15, <1>21
    <2> QED
      BY <1>16, <2>1, <2>2
  <1>24. \A i, j \in 1 .. m : recency'[i] = recency'[j] => i = j
    BY <1>5, <1>8, <1>20, <1>21
  <1>25. \A j \in Cached' \ {k} : \E i \in 1 .. m : recency'[i] = j
    <2> TAKE j \in Cached' \ {k}
    <2>1. PICK p \in n + 1 .. Len(r) : r[p] = j
      BY <1>15
    <2> QED
      BY <1>20, <1>21, <2>1
  <1>26. \A j \in Cached' : entry'[items'[j]] # None /\ entry'[items'[j]].key = j
    <2> TAKE j \in Cached'
    <2>1. CASE j = k
      <3>1. entry'[items'[k]] \in Entry /\ entry'[items'[k]].key = k
        BY <1>17, <1>4 DEF Entry
      <3> QED
        BY <2>1, <3>1, NoneAssumption
    <2>2. CASE j # k
      BY <1>16, <2>2 DEF Linked
    <2> QED
      BY <2>1, <2>2
  <1>27. Linked'
    BY <1>3, <1>17, <1>20, <1>22, <1>23, <1>24, <1>25, <1>26, UsedLast
  <1>28. WithinLimit'
    BY <1>8, <1>22 DEF WithinLimit, m
  <1>29. ASSUME NEW j \in Cached \ {k}, items'[j] = None
         PROVE  /\ Len(order') = MaxItems
                /\ \A i \in Cached \ {k} : items'[i] # None => Position(j) < Position(i)
    <2>1. PICK p \in 1 .. Len(r) : r[p] = j
      BY <1>5
    <2>2. p <= n
      BY <1>14, <1>29, <2>1 DEF lost, Cached
    <2>3. Len(order') = MaxItems
      BY <1>8, <1>22, <2>2 DEF m
    <2>4. ASSUME NEW i \in Cached \ {k}, items'[i] # None PROVE Position(j) < Position(i)
      <3>1. PICK q \in 1 .. Len(r) : r[q] = i
        BY <1>5
      <3>2. n < q
        BY <1>8, <1>14, <2>4, <3>1 DEF lost
      <3>3. p < q
        BY <1>8, <2>2, <3>2
      <3> QED
        BY <1>5, <2>1, <3>1, <3>3
    <2> QED
      BY <2>3, <2>4
  <1>30. entry'[items'[k]] \in Entry /\ entry'[items'[k]].val = v /\ entry'[items'[k]].exp > now
    BY <1>4, <1>17 DEF Entry
  <1> QED
    BY <1>16, <1>17, <1>27, <1>28, <1>29, <1>30

-----------------------------------------------------------------------------
(* The invariants.                                                         *)

IInv == TypeOK /\ Linked /\ WithinLimit

LEMMA IInvInit == Init => IInv
  <1> SUFFICES ASSUME Init PROVE IInv
    OBVIOUS
  <1>1. TypeOK
    BY TypeInit
  <1>2. Cached = {} /\ Len(recency) = 0 /\ Len(order) = 0
    BY DEF Init, Cached
  <1>3. Linked
    BY <1>2 DEF Linked, OrderIsRecency
  <1>4. WithinLimit
    BY <1>2, BoundsAssumption DEF WithinLimit
  <1> QED
    BY <1>1, <1>3, <1>4 DEF IInv

(***************************************************************************)
(* Expired entries that a lookup or the hourly cleanup meets are cached    *)
(* ones, so what they drop is in the list and in the map.                  *)
(***************************************************************************)
LEMMA ExpiredIsCached ==
  ASSUME IInv
  PROVE  /\ \A k \in Keys : items[k] # None => {items[k]} \subseteq {items[j] : j \in Cached}
         /\ {e \in ToSet(order) : ~Live(e)} \subseteq {items[j] : j \in Cached}
  <1>1. ToSet(order) = {items[j] : j \in Cached}
    BY LinkedIsListIsMap DEF IInv, ListIsMap
  <1> QED
    BY <1>1 DEF Cached

LEMMA IInvStep == IInv /\ [Next]_vars => IInv'
  <1> SUFFICES ASSUME IInv, [Next]_vars, TypeOK' PROVE (Linked /\ WithinLimit)'
    BY TypeStep DEF IInv
  <1> USE DEF IInv
  <1>1. ASSUME UNCHANGED <<enabled, items, order, entry, recency>> PROVE (Linked /\ WithinLimit)'
    BY <1>1 DEF Linked, WithinLimit, OrderIsRecency, Cached
  <1>2. ASSUME NEW k \in Keys, GetExpired(k) PROVE (Linked /\ WithinLimit)'
    <2>1. Linked' /\ Len(order') <= Len(order)
      BY <1>2, ExpiredIsCached, DropIs DEF GetExpired
    <2> QED
      BY <2>1, BoundsAssumption DEF WithinLimit, TypeOK
  <1>3. ASSUME NEW k \in Keys, GetHit(k) PROVE (Linked /\ WithinLimit)'
    <2>1. Linked' /\ Len(order') <= Len(order)
      BY <1>3, HitIs
    <2> QED
      BY <2>1, BoundsAssumption DEF WithinLimit, TypeOK
  <1>4. ASSUME NEW k \in Keys, NEW v \in Values, PutEntry(k, v) PROVE (Linked /\ WithinLimit)'
    BY <1>4, PutIs
  <1>5. CASE Clear
    <2>1. Cached' = {} /\ Len(recency') = 0 /\ Len(order') = 0
      BY <1>5 DEF Clear, Cached
    <2> QED
      BY <2>1, BoundsAssumption DEF Linked, OrderIsRecency, WithinLimit
  <1>6. CASE CleanupExpired
    <2>1. Linked' /\ Len(order') <= Len(order)
      BY <1>6, ExpiredIsCached, DropIs DEF CleanupExpired
    <2> QED
      BY <2>1, BoundsAssumption DEF WithinLimit, TypeOK
  <1>7. ASSUME NEW k \in Keys, GetMiss(k) \/ PutIgnored(k) PROVE (Linked /\ WithinLimit)'
    BY <1>1, <1>7 DEF GetMiss, PutIgnored
  <1>8. CASE Tick
    BY <1>1, <1>8 DEF Tick
  <1>9. CASE UNCHANGED vars
    BY <1>1, <1>9 DEF vars
  <1> QED
    BY <1>2, <1>3, <1>4, <1>5, <1>6, <1>7, <1>8, <1>9 DEF Next

THEOREM Invariant == Spec => []IInv
  BY IInvInit, IInvStep, PTL DEF Spec

(***************************************************************************)
(* List and map hold the same entries, each once and under its own key,    *)
(* whatever is put, read, cleared or expires (cache.go:198-209, 254-260,   *)
(* 306-317).                                                               *)
(***************************************************************************)
THEOREM ListAndMapAgree == Spec => []ListIsMap
  <1>1. IInv => ListIsMap
    BY LinkedIsListIsMap DEF IInv
  <1> QED
    BY <1>1, Invariant, PTL

(***************************************************************************)
(* The list is in the order of use (cache.go:193, 198-202, 258).           *)
(***************************************************************************)
THEOREM ListFollowsUse == Spec => []OrderIsRecency
  <1>1. IInv => OrderIsRecency
    BY DEF IInv, Linked
  <1> QED
    BY <1>1, Invariant, PTL

(***************************************************************************)
(* The cache never exceeds its limit, for every limit (cache.go:264).      *)
(***************************************************************************)
THEOREM LimitHolds == Spec => []WithinLimit
  <1>1. IInv => WithinLimit
    BY DEF IInv
  <1> QED
    BY <1>1, Invariant, PTL

-----------------------------------------------------------------------------
(* What a put pushes out.                                                  *)

(***************************************************************************)
(* Only a put gives a key a new entry; the others keep or drop entries.    *)
(***************************************************************************)
LEMMA OnlyPutRenews ==
  ASSUME IInv, [Next]_vars, NEW k \in Keys, items'[k] \notin {None, items[k]}
  PROVE  \E j \in Keys, v \in Values : PutEntry(j, v)
  <1> USE DEF IInv
  <1>1. ASSUME NEW j \in Keys, GetExpired(j) PROVE FALSE
    BY <1>1, ExpiredIsCached, DropIs DEF GetExpired
  <1>2. CASE CleanupExpired
    BY <1>2, ExpiredIsCached, DropIs DEF CleanupExpired
  <1> QED
    BY <1>1, <1>2 DEF Next, GetMiss, GetHit, Hit, PutIgnored, Clear, Tick, vars

(***************************************************************************)
(* Storing a response pushes out other keys only when the cache is full,   *)
(* and then the ones put or hit the longest ago (cache.go:193, 259-271).   *)
(***************************************************************************)
THEOREM EvictionIsLeastRecent == Spec => EvictsLeastRecent
  <1> DEFINE Least ==
        \A k \in Keys : \A j \in Cached \ {k} :
           last'[1] = "put" /\ last'[2] = k /\ items'[k] \notin {None, items[k]} /\ items'[j] = None =>
             /\ Len(order') = MaxItems
             /\ \A i \in Cached \ {k} : items'[i] # None => Position(j) < Position(i)
  <1>1. IInv /\ [Next]_vars => Least
    <2> SUFFICES ASSUME IInv, [Next]_vars, NEW k \in Keys, NEW j \in Cached \ {k},
                        last'[1] = "put", last'[2] = k,
                        items'[k] \notin {None, items[k]}, items'[j] = None
                 PROVE  /\ Len(order') = MaxItems
                        /\ \A i \in Cached \ {k} : items'[i] # None => Position(j) < Position(i)
      OBVIOUS
    <2>1. PICK l \in Keys, v \in Values : PutEntry(l, v)
      BY OnlyPutRenews
    <2>2. l = k
      BY <2>1 DEF PutEntry
    <2> QED
      BY <2>1, <2>2, PutIs DEF IInv
  <1>2. IInv /\ [Next]_vars => [Least]_vars
    BY <1>1
  <1>3. Spec => [][Least]_vars
    BY <1>2, Invariant, PTL DEF Spec
  <1> QED
    BY <1>3 DEF EvictsLeastRecent

(***************************************************************************)
(* What has been put is there when putEntry returns: its own eviction      *)
(* takes others, for every limit, and no jitter makes it expire before     *)
(* now, for every lifetime (cache.go:211-217, 254-262).                    *)
(***************************************************************************)
THEOREM PutIsKept ==
  Spec => [][\A k \in Keys, v \in Values : PutEntry(k, v) =>
               items'[k] # None /\ entry'[items'[k]].val = v /\ Live(items[k])']_vars
  <1> DEFINE Kept ==
        \A k \in Keys, v \in Values : PutEntry(k, v) =>
            items'[k] # None /\ entry'[items'[k]].val = v /\ Live(items[k])'
  <1>1. IInv => Kept
    <2> SUFFICES ASSUME IInv, NEW k \in Keys, NEW v \in Values, PutEntry(k, v)
                 PROVE  items'[k] # None /\ entry'[items'[k]].val = v /\ Live(items[k])'
      OBVIOUS
    <2>1. /\ k \in Cached' /\ entry'[items'[k]] \in Entry
          /\ entry'[items'[k]].val = v /\ entry'[items'[k]].exp > now
      BY PutIs DEF IInv
    <2>2. entry'[items'[k]].exp \in Nat /\ now \in Nat /\ now' = now
      BY <2>1 DEF Entry, PutEntry, IInv, TypeOK
    <2> QED
      BY <2>1, <2>2 DEF Cached, Live
  <1>2. IInv /\ [Next]_vars => [Kept]_vars
    BY <1>1
  <1> QED
    BY <1>2, Invariant, PTL DEF Spec

-----------------------------------------------------------------------------
(* The store implements CacheContract.                                     *)

\* What a lookup of each key would answer: the mapping of Contract.
Answers == [k \in Keys |-> IF items[k] # None /\ Live(items[k]) THEN entry[items[k]].val ELSE None]

(***************************************************************************)
(* When entries are dropped, what is not dropped answers as before; when   *)
(* those dropped had expired, nothing changes for the caller.              *)
(***************************************************************************)
LEMMA DropAnswers ==
  ASSUME IInv, NEW gone, gone \subseteq {items[k] : k \in Cached}, \A e \in gone : ~Live(e),
         Drop(gone), recency' = Used(recency), UNCHANGED <<enabled, now>>
  PROVE  Answers' = Answers
  <1>1. /\ \A k \in Keys : items'[k] = IF k \in Cached /\ items[k] \notin gone THEN items[k] ELSE None
        /\ \A k \in Cached' : items'[k] = items[k] /\ entry'[items[k]] = entry[items[k]]
    BY DropIs DEF IInv
  <1>2. ASSUME NEW k \in Keys PROVE Answers'[k] = Answers[k]
    <2>1. CASE k \in Cached'
      BY <1>1, <2>1 DEF Answers, Live, Cached
    <2>2. CASE k \notin Cached'
      BY <1>1, <2>2 DEF Answers, Live, Cached
    <2> QED
      BY <2>1, <2>2
  <1> QED
    BY <1>2 DEF Answers

(***************************************************************************)
(* A put answers from now on under its key; another key answers as before  *)
(* or, evicted, no longer.                                                 *)
(***************************************************************************)
LEMMA PutAnswers ==
  ASSUME IInv, NEW k \in Keys, NEW v \in Values, PutEntry(k, v)
  PROVE  \E lost \in SUBSET (Keys \ {k}) :
            Answers' = [j \in Keys |-> IF j = k THEN v ELSE IF j \in lost THEN None ELSE Answers[j]]
  <1> DEFINE lost == {j \in Keys \ {k} : j \notin Cached'}
  <1>1. /\ k \in Cached' /\ entry'[items'[k]].val = v
        /\ entry'[items'[k]] \in Entry /\ entry'[items'[k]].exp > now
        /\ \A j \in Cached' \ {k} : j \in Cached /\ items'[j] = items[j] /\ entry'[items[j]] = entry[items[j]]
    BY PutIs DEF IInv
  <1>2. now' = now /\ now \in Nat
    BY BoundsAssumption DEF PutEntry, IInv, TypeOK
  <1>3. Answers'[k] = v
    BY <1>1, <1>2 DEF Answers, Live, Cached, Entry
  <1>4. ASSUME NEW j \in Keys \ {k}
        PROVE  Answers'[j] = IF j \in lost THEN None ELSE Answers[j]
    <2>1. CASE j \in Cached'
      BY <1>1, <1>2, <2>1 DEF Answers, Live, Cached
    <2>2. CASE j \notin Cached'
      BY <2>2 DEF Answers, Cached
    <2> QED
      BY <2>1, <2>2
  <1>5. Answers' = [j \in Keys |-> IF j = k THEN v ELSE IF j \in lost THEN None ELSE Answers[j]]
    BY <1>3, <1>4 DEF Answers
  <1> QED
    BY <1>5

(***************************************************************************)
(* Every operation is one of the contract, or changes nothing of it.       *)
(***************************************************************************)
LEMMA ContractStep == IInv /\ [Next]_vars => [Contract!Next]_(Contract!vars)
  <1> SUFFICES ASSUME IInv, [Next]_vars PROVE Contract!Next \/ UNCHANGED <<Answers, last>>
    BY DEF Contract!vars, Answers
  <1>1. ASSUME NEW k \in Keys, GetMiss(k) PROVE Contract!Get(k)
    <2>1. Answers' = Answers /\ Answers[k] = None
      BY <1>1 DEF GetMiss, Answers, Live, IInv, Linked, Cached
    <2> QED
      BY <1>1, <2>1 DEF GetMiss, Contract!Get, Answers
  <1>2. ASSUME NEW k \in Keys, GetExpired(k) PROVE Contract!Get(k)
    <2>1. Answers' = Answers
      BY <1>2, ExpiredIsCached, DropAnswers DEF GetExpired
    <2>2. Answers[k] = None
      BY <1>2 DEF GetExpired, Answers
    <2> QED
      BY <1>2, <2>1, <2>2 DEF GetExpired, Contract!Get, Answers
  <1>3. ASSUME NEW k \in Keys, GetHit(k) PROVE Contract!Get(k)
    <2>1. Answers' = Answers /\ Answers[k] = entry[items[k]].val
      BY <1>3 DEF GetHit, Hit, Answers, Live
    <2> QED
      BY <1>3, <2>1 DEF GetHit, Hit, Contract!Get, Answers
  <1>4. ASSUME NEW k \in Keys, PutIgnored(k) PROVE Contract!Ignore(k)
    <2>1. Answers' = Answers /\ Answers = [j \in Keys |-> None]
      BY <1>4 DEF PutIgnored, Answers, Live, IInv, Linked, Cached
    <2> QED
      BY <1>4, <2>1 DEF PutIgnored, Contract!Ignore, Answers
  <1>5. ASSUME NEW k \in Keys, NEW v \in Values, PutEntry(k, v) PROVE Contract!Put(k, v)
    BY <1>5, PutAnswers DEF PutEntry, Contract!Put, Answers
  <1>6. ASSUME Clear PROVE Contract!Clear
    <2>1. Answers' = [k \in Keys |-> None]
      BY <1>6 DEF Clear, Answers
    <2> QED
      BY <1>6, <2>1 DEF Clear, Contract!Clear, Answers
  <1>7. ASSUME CleanupExpired PROVE UNCHANGED <<Answers, last>>
    BY <1>7, ExpiredIsCached, DropAnswers DEF CleanupExpired
  <1>8. ASSUME Tick PROVE Contract!Forget
    <2> DEFINE lost == {k \in Keys : items[k] # None /\ entry[items[k]].exp < now + 1}
    <2>1. now' = now + 1 /\ now \in Nat /\ items' = items /\ entry' = entry /\ last' = last
      BY <1>8, BoundsAssumption DEF Tick, IInv, TypeOK
    <2>2. ASSUME NEW k \in Keys PROVE Answers'[k] = IF k \in lost THEN None ELSE Answers[k]
      <3>1. CASE items[k] = None
        BY <2>1, <3>1 DEF Answers
      <3>2. CASE items[k] # None
        <4>1. entry[items[k]].exp \in Nat
          BY <3>2 DEF IInv, TypeOK, Linked, Cached, Entry
        <4> QED
          BY <2>1, <3>2, <4>1 DEF Answers, Live
      <3> QED
        BY <3>1, <3>2
    <2>3. Answers' = [k \in Keys |-> IF k \in lost THEN None ELSE Answers[k]]
      BY <2>2 DEF Answers
    <2> QED
      BY <2>1, <2>3 DEF Contract!Forget, Answers
  <1>9. CASE UNCHANGED vars
    BY <1>9 DEF vars, Answers, Live
  <1> QED
    BY <1>1, <1>2, <1>3, <1>4, <1>5, <1>6, <1>7, <1>8, <1>9 DEF Next, Contract!Next

(***************************************************************************)
(* The cache keeps the contract the handlers rely on, for any number of    *)
(* keys, limit and lifetime (cache.go:174-196, 245-271): a lookup answers  *)
(* the last response put under that very key, or nothing.                  *)
(***************************************************************************)
THEOREM StoreKeepsContract == Spec => KeepsContract
  <1>1. Init => Contract!Init
    BY DEF Init, Contract!Init, Live
  <1> QED
    BY <1>1, Invariant, ContractStep, PTL DEF Spec, KeepsContract, Contract!Spec

=============================================================================
