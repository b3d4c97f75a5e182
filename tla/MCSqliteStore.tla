---------------------------- MODULE MCSqliteStore ----------------------------
(***************************************************************************)
(* An instance of SqliteStore for TLC: a provider with a key, an executor, *)
(* and one model.                                                          *)
(***************************************************************************)
EXTENDS SqliteStore

CONSTANTS p1, x1, k1, m1

KeyedAndExecutor == {p1, x1}
ExecutorOnly     == {x1}
OneKey           == {k1}
OneModel         == {m1}

HealthObserved == {[state |-> "DEGRADED", left |-> 1], [state |-> "HEALTHY", left |-> 0]}
QuotaObserved  == {[state |-> "RATE_LIMITED", left |-> 1], [state |-> "EXHAUSTED", left |-> 0]}
=============================================================================
