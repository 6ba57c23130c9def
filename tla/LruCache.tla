------------------------------ MODULE LruCache ------------------------------
(***************************************************************************)
(* The response cache (internal/cache/cache.go, type Store): a map from    *)
(* keys to entries and a list of the same entries, least recently used     *)
(* first, both under one mutex, so that each exported function is one      *)
(* step.  An entry is an object of its own to which both refer; that its   *)
(* field element is set is modelled as its being in the list.              *)
(*                                                                         *)
(* The payload of an entry is a value.  The hit and miss counters, which   *)
(* only the statistics page reads, are left out.  Time is counted in ticks.*)
(***************************************************************************)
EXTENDS Integers, Sequences, SequencesExt

CONSTANTS
    Keys,       \* cache keys
    Values,     \* responses
    Ids,        \* entry objects
    None,       \* nil
    MaxItems,   \* Store.maxItems, from FCI_CACHE_MAX
    Ttl,        \* Store.ttl in ticks
    Jitter,     \* a tenth of it, in ticks
    MaxTime     \* bound of the clock

ASSUME BoundsAssumption ==
    /\ MaxItems \in Nat \ {0}   \* config.Load accepts only positive values
    /\ Ttl \in Nat \ {0} /\ Jitter \in 0 .. Ttl - 1
    /\ MaxTime \in Nat
VARIABLES
    enabled,    \* Store.enabled, fixed at Init
    items,      \* the map: key to entry
    order,      \* the list: entries, least recently used first
    entry,      \* the entry objects; None once nothing refers to them
    now,        \* the clock
    recency,    \* history: the cached keys, most recently put or hit last
    last        \* history: the last operation and its answer

vars == <<enabled, items, order, entry, now, recency, last>>

Entry == [key : Keys, val : Values, exp : Nat]

ASSUME NoneAssumption == None \notin Ids \cup Values \cup Entry

TypeOK ==
    /\ enabled \in BOOLEAN
    /\ items \in [Keys -> Ids \cup {None}]
    /\ order \in Seq(Ids)
    /\ entry \in [Ids -> Entry \cup {None}]
    /\ now \in 0 .. MaxTime
    /\ recency \in Seq(Keys)

Init ==
    /\ enabled \in BOOLEAN
    /\ items = [k \in Keys |-> None]
    /\ order = <<>>
    /\ entry = [e \in Ids |-> None]
    /\ now = 0
    /\ recency = <<>>
    /\ last = <<"none">>

-----------------------------------------------------------------------------
(* Helpers on the list and the map.                                        *)

\* The list s without the elements in gone.  A recursive function, which can be
\* reasoned about, in place of SelectSeq, which tlapm cannot expand.
Without(s, gone) ==
    LET kept[i \in 0 .. Len(s)] ==
            IF i = 0 THEN <<>>
            ELSE IF s[i] \in gone THEN kept[i - 1] ELSE Append(kept[i - 1], s[i])
    IN  kept[Len(s)]

Cached == {k \in Keys : items[k] # None}
Live(e) == now <= entry[e].exp

\* Objects nothing refers to, which an allocation may use.
Free == {e \in Ids : entry[e] = None}

\* The entries f that the new list and map still reach; the collector frees the others.
Reachable(f) ==
    [e \in Ids |-> IF e \in ToSet(order') \cup {items'[k] : k \in Keys} THEN f[e] ELSE None]

\* removeElementLocked, for a set of entries: out of the list, and out of the map
\* under the key each of them carries.
Unmapped(its, f, gone) == [k \in Keys |-> IF \E e \in gone : f[e].key = k THEN None ELSE its[k]]
Drop(gone) ==
    /\ order' = Without(order, gone)
    /\ items' = Unmapped(items, entry, gone)
    /\ entry' = Reachable(entry)

\* Mutated form of JitterExpiry: the lifetime is subtracted.
JitterExpiryReversed == {now - Ttl + j : j \in -Jitter .. Jitter}

\* jitterExpiry: the lifetime, up to a tenth more or less.
JitterExpiry == {now + Ttl + j : j \in -Jitter .. Jitter}

Used(seq) == Without(seq, {j \in Keys : items'[j] = None})
Touch(k) == recency' = Append(Used(Without(recency, {k})), k)

-----------------------------------------------------------------------------
(* Get *)

GetMiss(k) ==
    /\ ~enabled \/ items[k] = None
    /\ last' = <<"get", k, None>>
    /\ UNCHANGED <<enabled, items, order, entry, now, recency>>

GetExpired(k) ==
    /\ enabled
    /\ items[k] # None
    /\ ~Live(items[k])
    /\ Drop({items[k]})
    /\ recency' = Used(recency)
    /\ last' = <<"get", k, None>>
    /\ UNCHANGED <<enabled, now>>

\* Mutated form of MovedToBack: the entry goes to the other end of the list.
MovedToFront(e) == IF e \in ToSet(order) THEN <<e>> \o Without(order, {e}) ELSE order

\* moveToBackLocked
MovedToBack(e) == IF e \in ToSet(order) THEN Append(Without(order, {e}), e) ELSE order

Hit(k) ==
    /\ enabled
    /\ items[k] # None
    /\ UNCHANGED <<enabled, items, entry, now>>
    /\ Touch(k)
    /\ last' = <<"get", k, entry[items[k]].val>>

\* Mutated forms of GetHit: without the expiry test, and without moveToBackLocked.
GetHitStale(k) == Hit(k) /\ order' = MovedToBack(items[k])
GetHitUnmoved(k) == Hit(k) /\ Live(items[k]) /\ UNCHANGED order

GetHit(k) == Hit(k) /\ Live(items[k]) /\ order' = MovedToBack(items[k])

-----------------------------------------------------------------------------
(* putEntry *)

PutIgnored(k) ==
    /\ ~enabled
    /\ last' = <<"ignored", k>>
    /\ UNCHANGED <<enabled, items, order, entry, now, recency>>

\* Mutated form of Replaced: an entry already under the key is not removed.
ReplacedNever(k) == {}

\* The entry already under k is removed before the new one goes in.
Replaced(k) == {items[k]} \cap ToSet(order)

\* Mutated form of Evicted: the limit is exceeded by one.
EvictedLate(s) == {s[i] : i \in 1 .. Len(s) - MaxItems - 1}

\* evictLocked takes entries off the front while the list is too long.
Evicted(s) == {s[i] : i \in 1 .. Len(s) - MaxItems}

PutEntry(k, v) ==
    /\ enabled
    /\ \E e \in Free, exp \in JitterExpiry :
        LET made == [entry EXCEPT ![e] = [key |-> k, val |-> v, exp |-> exp]]
            pushed == Append(Without(order, Replaced(k)), e)
            gone == Evicted(pushed)
        IN  /\ order' = Without(pushed, gone)
            /\ items' = Unmapped([items EXCEPT ![k] = e], made, gone)
            /\ entry' = Reachable(made)
    /\ Touch(k)
    /\ last' = <<"put", k, v>>
    /\ UNCHANGED <<enabled, now>>

-----------------------------------------------------------------------------
(* Clear, the hourly cleanup and the clock *)

\* Mutated form of Clear: only the map is renewed.
ClearMapOnly ==
    /\ items' = [k \in Keys |-> None]
    /\ recency' = <<>>
    /\ last' = <<"clear">>
    /\ UNCHANGED <<enabled, order, entry, now>>

Clear ==
    /\ items' = [k \in Keys |-> None]
    /\ order' = <<>>
    /\ entry' = Reachable(entry)
    /\ recency' = <<>>
    /\ last' = <<"clear">>
    /\ UNCHANGED <<enabled, now>>

\* cleanupLoop runs in an enabled store only.
CleanupExpired ==
    /\ enabled
    /\ Drop({e \in ToSet(order) : ~Live(e)})
    /\ recency' = Used(recency)
    /\ UNCHANGED <<enabled, now, last>>

Tick ==
    /\ now < MaxTime
    /\ now' = now + 1
    /\ UNCHANGED <<enabled, items, order, entry, recency, last>>

Next ==
    \/ \E k \in Keys : GetMiss(k) \/ GetExpired(k) \/ GetHit(k) \/ PutIgnored(k)
    \/ \E k \in Keys, v \in Values : PutEntry(k, v)
    \/ Clear
    \/ CleanupExpired
    \/ Tick

Spec == Init /\ [][Next]_vars

-----------------------------------------------------------------------------
(***************************************************************************)
(* List and map hold the same entries, each once and under its own key; an *)
(* entry in one of them only would never be evicted, or be evicted under   *)
(* the key of a live one (cache.go:198-209, 254-260, 306-317).             *)
(***************************************************************************)
ListIsMap ==
    /\ ToSet(order) = {items[k] : k \in Cached}
    /\ IsInjective(order)
    /\ \A k \in Cached : entry[items[k]].key = k

(***************************************************************************)
(* The list is in the order of use: its n-th entry is that of the key used *)
(* n-th.  A hit that did not move its entry, or moved it without the list  *)
(* knowing, would make the next eviction take a key still in use           *)
(* (cache.go:193, 198-202, 258).                                           *)
(***************************************************************************)
OrderIsRecency ==
    /\ Len(order) = Len(recency)
    /\ \A i \in 1 .. Len(order) : order[i] = items[recency[i]]

(***************************************************************************)
(* The cache never holds more than FCI_CACHE_MAX entries (cache.go:264).   *)
(***************************************************************************)
WithinLimit == Len(order) <= MaxItems

(***************************************************************************)
(* Storing a response pushes out other keys only when the cache is full,   *)
(* and then the ones that were put or hit the longest ago: this is an LRU  *)
(* and not a FIFO cache (cache.go:193, 259-271).                           *)
(***************************************************************************)
Position(k) == CHOOSE i \in DOMAIN recency : recency[i] = k

EvictsLeastRecent ==
    [][\A k \in Keys : \A j \in Cached \ {k} :
          last'[1] = "put" /\ last'[2] = k /\ items'[k] \notin {None, items[k]} /\ items'[j] = None =>
            /\ Len(order') = MaxItems
            /\ \A i \in Cached \ {k} : items'[i] # None => Position(j) < Position(i)]_vars

(***************************************************************************)
(* The cache keeps the contract the handlers rely on: an entry past its    *)
(* expiry counts as absent although it is still in the map.                *)
(***************************************************************************)
Contract == INSTANCE CacheContract WITH
    stored <- [k \in Keys |-> IF items[k] # None /\ Live(items[k]) THEN entry[items[k]].val
                              ELSE None]

KeepsContract == Contract!Spec
=============================================================================
