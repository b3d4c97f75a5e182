------------------------------ MODULE StateStore ------------------------------
(***************************************************************************)
(* The runtime state store (gateway/state/sqlite.py): three tables keyed   *)
(* by scope, read most-specific row first.  This module has no variables:  *)
(* a store is a value, and each operation of SqliteStateStore a function   *)
(* of it.  Every method holds the store's lock and runs in a transaction   *)
(* of its own, so each is one atomic step of the modules that use it.      *)
(*                                                                         *)
(* A cooldown is kept as the number of ticks it still has to run, so       *)
(* `cooldown > now` in the code is `left > 0` here.                        *)
(***************************************************************************)
EXTENDS Naturals

CONSTANTS
    Providers,  \* provider ids
    Keys,       \* credential ids
    Models,     \* concrete model ids
    NoKey,      \* the NULL / '' credential component of a scope
    NoModel     \* the NULL / '' model component of a scope

ASSUME ScopeAssumption ==
    /\ NoKey \notin Keys
    /\ NoModel \notin Models

HealthState     == {"UNKNOWN", "HEALTHY", "DEGRADED", "DOWN"}
QuotaState      == {"UNKNOWN", "AVAILABLE", "LOW", "RATE_LIMITED", "EXHAUSTED"}
CredentialState == {"ENABLED", "RESERVE", "DISABLED", "AUTH_ERROR"}

NoRow == [state |-> "no row", left |-> 0]

HealthRow == [state : HealthState, left : Nat] \cup {NoRow}
QuotaRow  == [state : QuotaState, left : Nat] \cup {NoRow}

HealthScope == Providers \X (Models \cup {NoModel})
QuotaScope  == Providers \X (Keys \cup {NoKey}) \X (Models \cup {NoModel})

Store == [health     : [HealthScope -> HealthRow],
          quota      : [QuotaScope -> QuotaRow],
          credential : [Providers \X Keys -> CredentialState]]

EmptyStore == [health     |-> [h \in HealthScope |-> NoRow],
               quota      |-> [q \in QuotaScope |-> NoRow],
               credential |-> [c \in Providers \X Keys |-> "ENABLED"]]

-----------------------------------------------------------------------------
(* Lookups.  A row in a narrower scope hides every row in a wider one.      *)

\* The health row that answers for provider p and model m.
HealthRowOf(st, p, m) ==
    IF st.health[<<p, m>>] # NoRow THEN st.health[<<p, m>>] ELSE st.health[<<p, NoModel>>]

\* The quota row that answers for provider p, key k and model m.
QuotaRowOf(st, p, k, m) ==
    IF st.quota[<<p, k, m>>] # NoRow THEN st.quota[<<p, k, m>>]
    ELSE IF st.quota[<<p, k, NoModel>>] # NoRow THEN st.quota[<<p, k, NoModel>>]
    ELSE st.quota[<<p, NoKey, NoModel>>]

GetHealth(st, p, m) ==
    LET row == HealthRowOf(st, p, m) IN
    IF row = NoRow THEN "UNKNOWN" ELSE row.state

GetQuota(st, p, k, m) ==
    LET row == QuotaRowOf(st, p, k, m) IN
    IF row = NoRow THEN "UNKNOWN" ELSE row.state

\* A NULL credential id matches no row of credential_state.
GetCredential(st, p, k) ==
    IF k = NoKey THEN "ENABLED" ELSE st.credential[<<p, k>>]

\* Ticks until both chosen rows are out of cooldown (0: no cooldown).
GetCooldown(st, p, k, m) ==
    LET h == HealthRowOf(st, p, m).left
        q == QuotaRowOf(st, p, k, m).left
    IN  IF h > q THEN h ELSE q

-----------------------------------------------------------------------------
(* Upserts: the whole row, cooldown included, is replaced.                  *)

SetHealth(st, p, m, state, ticks) ==
    [st EXCEPT !.health[<<p, m>>] = [state |-> state, left |-> ticks]]

\* Mutant of SetQuota: the key and the model of the scope are dropped.
SetQuotaOfProvider(st, p, k, m, state, ticks) ==
    [st EXCEPT !.quota[<<p, NoKey, NoModel>>] = [state |-> state, left |-> ticks]]

SetQuota(st, p, k, m, state, ticks) ==
    [st EXCEPT !.quota[<<p, k, m>>] = [state |-> state, left |-> ticks]]

SetCredential(st, p, k, state) ==
    [st EXCEPT !.credential[<<p, k>>] = state]

-----------------------------------------------------------------------------
(* One tick of the wall clock: every running cooldown gets shorter.         *)

\* Mutant of Older: a cooldown that has ended goes on being counted down.
OlderPastZero(row) == [row EXCEPT !.left = @ - 1]

\* Mutant of Older: rows are pruned when they are not in cooldown any more.
OlderPruned(row) == IF row.left > 1 THEN [row EXCEPT !.left = @ - 1] ELSE NoRow

Older(row) == IF row.left > 0 THEN [row EXCEPT !.left = @ - 1] ELSE row

Age(st) == [st EXCEPT !.health = [h \in HealthScope |-> Older(st.health[h])],
                      !.quota  = [q \in QuotaScope |-> Older(st.quota[q])]]

=============================================================================
