------------------------------ MODULE LruCache ------------------------------
(***************************************************************************)
(* The in-memory store of internal/cache/cache.go: a map, a list in order  *)
(* of recency, a mutex, and a goroutine that sweeps expired entries.  Set  *)
(* and deleteExpired read the clock before they take the mutex, so each is *)
(* two steps; Get and Delete are one critical section.                     *)
(***************************************************************************)
EXTENDS Integers, Sequences, FiniteSets, Functions

CONSTANTS
    Keys,
    Writes,         \* what callers set: a value and a lifetime, 0 for ever
    Callers,        \* goroutines that call Set
    MaxEntries,     \* maxEntries, 0 when there is no cap
    MaxTime         \* bound: the clock

\* A cap or a lifetime below 0 is like 0.
ASSUME CacheAssumption ==
    (\A w \in Writes : w.ttl \in Int) /\ MaxEntries \in Int /\ MaxTime \in Nat \ {0}

Values == {w.value : w \in Writes}
Expiries == {0} \cup {t + w.ttl : t \in 1 .. MaxTime, w \in {u \in Writes : u.ttl > 0}}
Elements == [key : Keys, value : Values, expiry : Expiries]
Idle == [st |-> "idle"]
NoGet == [op |-> "none"]
Hit(k, v) == [op |-> "hit", key |-> k, value |-> v]
Miss(k) == [op |-> "miss", key |-> k]

VARIABLES
    items,      \* the keys of the map
    lru,        \* the list, most recently used first
    now,        \* the clock
    set,        \* set[c]: the element c computed before it takes the mutex
    cutoff,     \* the time deleteExpired read, 0 when it is not running
    stopped,    \* cleanupLoop has returned
    got,        \* what the latest step returned, if it was a Get
    touched     \* keys by latest use, the most recent first (history)

vars == <<items, lru, now, set, cutoff, stopped, got, touched>>

TypeOK ==
    /\ items \subseteq Keys
    /\ lru \in Seq(Elements)
    /\ now \in 1 .. MaxTime
    /\ set \in [Callers -> {Idle} \cup [st : {"locking"}, el : Elements]]
    /\ cutoff \in 0 .. MaxTime
    /\ stopped \in BOOLEAN
    /\ got \in {NoGet} \cup [op : {"hit"}, key : Keys, value : Values] \cup [op : {"miss"}, key : Keys]
    /\ touched \in Seq(Keys)

Init ==
    /\ items = {} /\ lru = <<>>
    /\ now = 1
    /\ set = [c \in Callers |-> Idle]
    /\ cutoff = 0
    /\ stopped = FALSE
    /\ got = NoGet
    /\ touched = <<>>

-----------------------------------------------------------------------------
\* container/list.
PushFront(el, s) == <<el>> \o s
Back(s) == s[Len(s)]

\* The element the map holds for k.
element(k) == CHOOSE el \in Range(lru) : el.key = k

\* What is left of a list when only the elements at the places I stay.
Stays(s, I) ==
    LET upTo[i \in 0 .. Len(s)] ==
            IF i = 0 THEN <<>> ELSE IF i \in I THEN Append(upTo[i-1], s[i]) ELSE upTo[i-1]
    IN  upTo[Len(s)]

\* The list without the elements of the keys ks.
Without(ks) == Stays(lru, {i \in DOMAIN lru : lru[i].key \notin ks})
Untouched(ks) == Stays(touched, {i \in DOMAIN touched : touched[i] \notin ks})

\* Evaluated once items' is known: the keys that leave the map are forgotten.
Touch(k) == touched' = PushFront(k, Untouched({k} \cup (items \ items')))

\* The zero expiry means never.
expired(el, t) == el.expiry # 0 /\ el.expiry < t

removeElements(ks) ==
    /\ lru' = Without(ks)
    /\ items' = items \ ks
    /\ touched' = Untouched(ks)

\* Faulty variant: the expiry is left to the sweep.
GetStale(k) ==
    /\ k \in items
    /\ got' = Hit(k, element(k).value)
    /\ lru' = PushFront(element(k), Without({k}))
    /\ UNCHANGED items
    /\ Touch(k)
    /\ UNCHANGED <<now, set, cutoff, stopped>>

Get(k) ==
    /\ \/ /\ k \notin items
          /\ got' = Miss(k)
          /\ UNCHANGED <<items, lru, touched>>
       \/ /\ k \in items /\ expired(element(k), now)
          /\ removeElements({k})
          /\ got' = Miss(k)
       \/ /\ k \in items /\ ~expired(element(k), now)
          /\ got' = Hit(k, element(k).value)
          /\ lru' = PushFront(element(k), Without({k}))
          /\ UNCHANGED items
          /\ Touch(k)
    /\ UNCHANGED <<now, set, cutoff, stopped>>

\* Set computes the expiry, then waits for the mutex.
SetExpiry(c, k, w) ==
    /\ set[c] = Idle
    /\ set' = [set EXCEPT ![c] = [st |-> "locking",
                  el |-> [key |-> k, value |-> w.value, expiry |-> IF w.ttl > 0 THEN now + w.ttl ELSE 0]]]
    /\ got' = NoGet
    /\ UNCHANGED <<items, lru, now, cutoff, stopped, touched>>

\* Faulty variant: the cap lets one entry too many in.
evictsLate == IF MaxEntries > 0 /\ Len(lru) > MaxEntries THEN {Back(lru).key} ELSE {}

\* Faulty variant: the wrong end of the list goes.
evictsFront == IF MaxEntries > 0 /\ Len(lru) >= MaxEntries THEN {Head(lru).key} ELSE {}

\* What evictLRU removes to make room for a new key.
evicts == IF MaxEntries > 0 /\ Len(lru) >= MaxEntries THEN {Back(lru).key} ELSE {}

SetStore(c) ==
    /\ set[c] # Idle
    /\ LET el == set[c].el IN
          /\ IF el.key \in items
             THEN /\ lru' = PushFront(el, Without({el.key}))
                  /\ UNCHANGED items
             ELSE /\ lru' = PushFront(el, Without(evicts))
                  /\ items' = (items \ evicts) \cup {el.key}
          /\ Touch(el.key)
    /\ set' = [set EXCEPT ![c] = Idle]
    /\ got' = NoGet
    /\ UNCHANGED <<now, cutoff, stopped>>

Delete(k) ==
    /\ k \in items
    /\ removeElements({k})
    /\ got' = NoGet
    /\ UNCHANGED <<now, set, cutoff, stopped>>

\* cleanupLoop: the ticker fires and deleteExpired reads the clock.
SweepStart ==
    /\ cutoff = 0 /\ ~stopped
    /\ cutoff' = now
    /\ got' = NoGet
    /\ UNCHANGED <<items, lru, now, set, stopped, touched>>

\* Faulty variant: only the least recently used entry is looked at.
sweepsLast == {k \in items : k = Back(lru).key /\ expired(element(k), cutoff)}

sweeps == {k \in items : expired(element(k), cutoff)}

SweepStore ==
    /\ cutoff # 0
    /\ removeElements(sweeps)
    /\ cutoff' = 0
    /\ got' = NoGet
    /\ UNCHANGED <<now, set, stopped>>

\* The context of NewCache is done and the select of cleanupLoop sees it.
CleanupReturns ==
    /\ cutoff = 0 /\ ~stopped
    /\ stopped' = TRUE
    /\ got' = NoGet
    /\ UNCHANGED <<items, lru, now, set, cutoff, touched>>

Pass ==
    /\ now < MaxTime
    /\ now' = now + 1
    /\ got' = NoGet
    /\ UNCHANGED <<items, lru, set, cutoff, stopped, touched>>

Next ==
    \/ \E k \in Keys : Get(k) \/ Delete(k)
    \/ \E c \in Callers, k \in Keys, w \in Writes : SetExpiry(c, k, w)
    \/ \E c \in Callers : SetStore(c)
    \/ SweepStart \/ SweepStore \/ CleanupReturns
    \/ Pass

\* The ticker of cleanupLoop keeps firing and the mutex is always released.
Spec == Init /\ [][Next]_vars /\ WF_vars(SweepStart) /\ WF_vars(SweepStore)

-----------------------------------------------------------------------------
\* The map and the list hold the same keys, each once with a well-formed entry, and
\* never more of them than maxEntries, whatever Set, eviction, expiry and sweep do
\* between them.
MapMatchesList ==
    /\ TypeOK
    /\ items = {el.key : el \in Range(lru)}
    /\ Cardinality(items) = Len(lru)
    /\ MaxEntries > 0 => Len(lru) <= MaxEntries

\* k is in use least recently of all the keys in the map.
LeastRecent(k) ==
    LET age(j) == CHOOSE i \in DOMAIN touched : touched[i] = j
    IN  \A j \in items \ {k} : age(j) < age(k)

\* An entry leaves only for a reason: it has expired by now, it is deleted, or a
\* new key needs its place in a full cache and it is the least recently used.  A
\* sweep whose clock is old never takes an entry that was refreshed meanwhile.
EntriesLeaveForAReason ==
    [][\A k \in items \ items' :
          \/ expired(element(k), now)
          \/ Delete(k)
          \/ items' \ items # {} /\ Len(lru) = MaxEntries /\ LeastRecent(k)]_vars

\* The cache does what a store promises: a hit carries the value last set for
\* the key, and not an expired one; a miss means there is none.
Promise == INSTANCE Store WITH
    Remote <- FALSE,
    MaxEntries <- IF MaxEntries > 0 THEN MaxEntries ELSE 0,
    Entries <- [value : Values, expiry : Expiries],
    store <- [k \in items |-> [value |-> element(k).value, expiry |-> element(k).expiry]]

\* Every behaviour of the cache is one of the abstract store.
ImplementsStore == Promise!Spec

\* An expired entry does not stay in memory while cleanupLoop runs, even if no
\* one asks for it.
ExpiredAreSwept ==
    \A k \in Keys :
        (k \in items /\ expired(element(k), now))
            ~> (k \notin items \/ ~expired(element(k), now) \/ stopped)
=============================================================================
