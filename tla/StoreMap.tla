------------------------------- MODULE StoreMap -------------------------------
(***************************************************************************)
(* What the health and quota tables promise: two maps from scope to the    *)
(* latest observation of that scope.  No rows, NULLs, statements or        *)
(* indexes: a process that is up makes observations, what was observed     *)
(* last is what is known, and going down and coming up change none of it.  *)
(***************************************************************************)
EXTENDS StateStore

CONSTANTS
    HealthValues,  \* the health observations that are made
    QuotaValues    \* the quota observations that are made

VARIABLES
    st,  \* a store of module StateStore
    up   \* TRUE: the process is up

vars == <<st, up>>

Init == st = EmptyStore /\ up \in BOOLEAN

ObserveHealth ==
    \E p \in Providers, m \in Models \cup {NoModel}, v \in HealthValues :
       st' = SetHealth(st, p, m, v.state, v.left)

ObserveQuota ==
    \E p \in Providers, k \in Keys \cup {NoKey}, m \in Models \cup {NoModel}, v \in QuotaValues :
       st' = SetQuota(st, p, k, m, v.state, v.left)

Next ==
    \/ up /\ (ObserveHealth \/ ObserveQuota) /\ UNCHANGED up
    \/ up' = ~up /\ UNCHANGED st

Spec == Init /\ [][Next]_vars

=============================================================================
