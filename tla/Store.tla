------------------------------- MODULE Store --------------------------------
(***************************************************************************)
(* What a cache store promises (internal/cache/store.go as the handler     *)
(* uses it): a hit returns the value last set for the key, unexpired; a    *)
(* miss says there is no such value, or that the store was out of reach    *)
(* where it can be; the store may forget, and must forget enough to stay   *)
(* within its capacity.                                                    *)
(***************************************************************************)
EXTENDS Naturals, FiniteSets, Functions

CONSTANTS
    Keys,
    Entries,        \* records with a value and an expiry, 0 for never
    MaxEntries,     \* capacity, 0 when there is none
    Remote          \* the store may be out of reach

VARIABLES
    now, store,
    got             \* what the latest step returned, if it was a Get
vars == <<now, store, got>>

NoGet == [op |-> "none"]
Hit(k, v) == [op |-> "hit", key |-> k, value |-> v]
Miss(k) == [op |-> "miss", key |-> k]

Live(k) == k \in DOMAIN store /\ (store[k].expiry = 0 \/ store[k].expiry >= now)
Fits(s) == MaxEntries = 0 \/ Cardinality(DOMAIN s) <= MaxEntries

Init == now = 1 /\ store = [k \in {} |-> k] /\ got = NoGet

\* The new store holds an entry for k and nothing that was not there before.
Set(k) ==
    /\ k \in DOMAIN store' /\ store'[k] \in Entries
    /\ DOMAIN store' \subseteq DOMAIN store \cup {k}
    /\ \A j \in DOMAIN store' \ {k} : store'[j] = store[j]
    /\ Fits(store')
    /\ got' = NoGet
    /\ UNCHANGED now

Get(k) ==
    \/ /\ Live(k)
       /\ got' = Hit(k, store[k].value)
       /\ UNCHANGED <<now, store>>
    \/ /\ ~Live(k)
       /\ got' = Miss(k)
       /\ store' = Restrict(store, DOMAIN store \ {k})
       /\ UNCHANGED now
    \/ /\ Remote
       /\ got' = Miss(k)
       /\ UNCHANGED <<now, store>>

Forget ==
    /\ store' = Restrict(store, DOMAIN store')
    /\ DOMAIN store' \subseteq DOMAIN store
    /\ got' = NoGet
    /\ UNCHANGED now

Pass == now' = now + 1 /\ got' = NoGet /\ UNCHANGED store

Next ==
    \/ \E k \in Keys : Get(k) \/ Set(k)
    \/ Forget
    \/ Pass

Spec == Init /\ [][Next]_vars
=============================================================================
