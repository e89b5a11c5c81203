------------------------------ MODULE WaiterMap ------------------------------
(***************************************************************************)
(* waiterMap of impl.go: a sync.Map of the callers waiting for a reply and *)
(* a separate atomic count of them, which rx compares with 1000 to decide  *)
(* whether to reap.  Each access to the map or to the count is a step; who *)
(* takes them is in Dispatch.                                              *)
(***************************************************************************)
EXTENDS Integers, FiniteSets

CONSTANTS
    Key,      \* sequence numbers of the requests; also the tx of each, which adds and may remove it
    Reaper,   \* rxers, which remove waiters and reap
    None

ASSUME WaiterMapAssumption == None \notin Key /\ Key \cap Reaper = {}

VARIABLES
    m,         \* the keys in the sync.Map
    size,      \* the atomic count
    expired,   \* the keys whose ttlMs has passed
    adding,    \* the keys that AddWaiter has stored and not yet counted
    removing,  \* who is in RemoveWaiter and has deleted a key and not yet counted that
    reaper,    \* reapExpired: "idle", "range"
    todo,      \* the keys its Range has still to show
    target,    \* the expired key it is about to delete
    counted,   \* <<r, k>>: the deleteCount of r counts k, which Range shows it once
    clearing   \* clear: "no", "zeroed" or "done"

reaperVars == <<reaper, todo, target, counted>>
vars == <<m, size, expired, adding, removing, reaperVars, clearing>>

TypeOK ==
    /\ m \in SUBSET Key
    /\ size \in Int
    /\ expired \in SUBSET Key
    /\ adding \in SUBSET Key
    /\ removing \in SUBSET (Key \cup Reaper)
    /\ reaper \in [Reaper -> {"idle", "range"}]
    /\ todo \in [Reaper -> SUBSET Key]
    /\ target \in [Reaper -> Key \cup {None}]
    /\ counted \in SUBSET (Reaper \X Key)
    /\ clearing \in {"no", "zeroed", "done"}

Init ==
    /\ m = {}
    /\ size = 0
    /\ expired = {}
    /\ adding = {}
    /\ removing = {}
    /\ reaper = [r \in Reaper |-> "idle"]
    /\ todo = [r \in Reaper |-> {}]
    /\ target = [r \in Reaper |-> None]
    /\ counted = {}
    /\ clearing = "no"

-----------------------------------------------------------------------------
\* AddWaiter stores the waiter, then counts it.
Store(k) ==
    /\ m' = m \cup {k}
    /\ adding' = adding \cup {k}
    /\ UNCHANGED <<size, expired, removing, reaperVars, clearing>>

CountStored(k) ==
    /\ k \in adding
    /\ size' = size + 1
    /\ adding' = adding \ {k}
    /\ UNCHANGED <<m, expired, removing, reaperVars, clearing>>

\* RemoveWaiter: only who deleted the key counts it.
LoadAndDelete(g, k) ==
    /\ m' = m \ {k}
    /\ removing' = IF k \in m THEN removing \cup {g} ELSE removing
    /\ UNCHANGED <<size, expired, adding, reaperVars, clearing>>

CountDeleted(g) ==
    /\ g \in removing
    /\ size' = size - 1
    /\ removing' = removing \ {g}
    /\ UNCHANGED <<m, expired, adding, reaperVars, clearing>>

Expire(k) ==
    /\ expired' = expired \cup {k}
    /\ UNCHANGED <<m, size, adding, removing, reaperVars, clearing>>

-----------------------------------------------------------------------------
\* reapExpired.  Range shows each key that stays in the map once; a key stored after it began
\* has just got its ttl, so whether it is shown makes no difference.
ReapBegin(r) ==
    /\ reaper[r] = "idle"
    /\ reaper' = [reaper EXCEPT ![r] = "range"]
    /\ todo' = [todo EXCEPT ![r] = m]
    /\ UNCHANGED <<m, size, expired, adding, removing, target, counted, clearing>>

Reapable(k) == k \in expired

Visit(r, k) ==
    /\ target[r] = None
    /\ k \in todo[r]
    /\ todo' = [todo EXCEPT ![r] = @ \ {k}]
    /\ target' = [target EXCEPT ![r] = IF k \in m /\ Reapable(k) THEN k ELSE None]
    /\ UNCHANGED <<m, size, expired, adding, removing, reaper, counted, clearing>>

\* Delete does not tell whether the key was still there: it is counted anyway.
DeleteUncounted(r) == counted
DeleteCounted(r) == counted \cup {<<r, target[r]>>}

Delete(r) ==
    /\ target[r] # None
    /\ m' = m \ {target[r]}
    /\ counted' = DeleteCounted(r)
    /\ target' = [target EXCEPT ![r] = None]
    /\ UNCHANGED <<size, expired, adding, removing, reaper, todo, clearing>>

SizeAfterReap(n) == size - n

ReapEnd(r) ==
    /\ reaper[r] = "range" /\ target[r] = None /\ todo[r] = {}
    /\ size' = SizeAfterReap(Cardinality(counted \cap ({r} \X Key)))
    /\ reaper' = [reaper EXCEPT ![r] = "idle"]
    /\ counted' = counted \ ({r} \X Key)
    /\ UNCHANGED <<m, expired, adding, removing, todo, target, clearing>>

-----------------------------------------------------------------------------
\* clear, called once by Close.
Zero ==
    /\ clearing = "no"
    /\ size' = 0
    /\ clearing' = "zeroed"
    /\ UNCHANGED <<m, expired, adding, removing, reaperVars>>

Clear ==
    /\ clearing = "zeroed"
    /\ m' = {}
    /\ clearing' = "done"
    /\ UNCHANGED <<size, expired, adding, removing, reaperVars>>

-----------------------------------------------------------------------------
(* Properties *)

\* Until Close clears the map the count never exceeds the waiters in it, operations under way
\* apart: rx's "Size() > 1000" never reaps a map that is not that full.
CountNeverAbove ==
    clearing = "no" =>
        size + Cardinality(adding) <= Cardinality(m) + Cardinality(removing) + Cardinality(counted)
=============================================================================
