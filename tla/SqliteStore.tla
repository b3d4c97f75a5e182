----------------------------- MODULE SqliteStore -----------------------------
(***************************************************************************)
(* The tables behind StateStore: rows, the schema that every start of the  *)
(* process sets up and migrates statement by statement, and the SQL of the *)
(* upserts and lookups (gateway/state/sqlite.py), with the in-memory store *)
(* of the tests (gateway/state/store.py) beside it.                        *)
(*                                                                         *)
(* executescript commits each statement by itself, so the process may die  *)
(* between any two.  There is no clock here: the instant a cooldown ends   *)
(* is kept as it was written, and `left` is only a tag for it.  The        *)
(* credential table has no optional scope and takes no part.               *)
(***************************************************************************)
EXTENDS StateStore, FiniteSets, Sequences

CONSTANTS
    Executors,     \* providers whose candidates have no key
    Null,          \* SQL NULL, which older versions wrote for an absent component
    HealthValues,  \* the health observations that are written
    QuotaValues,   \* the quota observations that are written
    MaxRows        \* bound on the rows of both tables together

ASSUME SqliteAssumption ==
    /\ Executors \subseteq Providers
    /\ Null \notin Models \cup Keys \cup {NoModel, NoKey}
    /\ HealthValues \subseteq HealthRow \ {NoRow}
    /\ QuotaValues \subseteq QuotaRow \ {NoRow}
    /\ MaxRows \in Nat

VARIABLES
    mode,    \* what the process is doing
    step,    \* the statement of _init_schema that is next, while starting
    health,  \* provider_health, a set of rows
    quota,   \* quota_state, a set of rows
    indexed  \* the tables whose unique index on the normalised scope exists

vars == <<mode, step, health, quota, indexed>>

\* "legacy": a version from before the migration; "failed": __init__ has raised.
Mode == {"legacy", "stopped", "starting", "serving", "failed"}

\* The statements that touch rows or indexes, in the order of _init_schema.
Statement == <<"dedup health", "normalise health", "dedup quota", "normalise quota",
               "index health", "index quota">>

-----------------------------------------------------------------------------
(* Tables.  NoKey and NoModel stand for the empty string.                   *)

\* provider_health has no column for the key, which is NoKey in its rows.
HealthTableRow == [rowid    : Nat,
                   provider : Providers,
                   key      : {NoKey},
                   model    : Models \cup {NoModel, Null},
                   value    : HealthValues]

QuotaTableRow == [rowid    : Nat,
                  provider : Providers,
                  key      : Keys \cup {NoKey, Null},
                  model    : Models \cup {NoModel, Null},
                  value    : QuotaValues]

Coalesce(component, empty) == IF component = Null THEN empty ELSE component

\* The scope that a row is about: GROUP BY of the migration, and unique index.
ScopeOf(row) == <<row.provider, Coalesce(row.key, NoKey), Coalesce(row.model, NoModel)>>

\* No other row about the same scope has a greater rowid.
IsNewest(row, table) ==
    \A other \in table : ScopeOf(other) = ScopeOf(row) => other.rowid <= row.rowid

UniqueScopes(table) == \A row, other \in table : ScopeOf(row) = ScopeOf(other) => row = other

UniqueIds(table) == \A row, other \in table : row.rowid = other.rowid => row = other

\* Mutant of NextId: rows are numbered by their count.
NextIdByCount(table) == 1 + Cardinality(table)

\* INSERT takes the next rowid.
NextId(table) ==
    LET ids == {0} \cup {row.rowid : row \in table} IN
    1 + CHOOSE last \in ids : \A id \in ids : id <= last

\* Equal in the primary key, in which NULL equals nothing.
SameKey(old, row) ==
    /\ row.key # Null /\ row.model # Null
    /\ <<old.provider, old.key, old.model>> = <<row.provider, row.key, row.model>>

\* INSERT ... ON CONFLICT DO UPDATE of a row, whose rowid does not count.
Upserted(table, row) ==
    LET hit == {old \in table : SameKey(old, row)} IN
    IF hit = {} THEN table \cup {[row EXCEPT !.rowid = NextId(table)]}
    ELSE (table \ hit) \cup {[row EXCEPT !.rowid = old.rowid] : old \in hit}

-----------------------------------------------------------------------------
(* Writes.  empty stands for an absent component: '' now, NULL formerly.    *)

RoomForRows == Cardinality(health') + Cardinality(quota') <= MaxRows

\* The scopes that the engine writes: of a provider, and of one of its models.
WriteHealth(emptyModel) ==
    \E p \in Providers, m \in Models \cup {emptyModel}, v \in HealthValues :
       /\ health' = Upserted(health, [rowid |-> 0, provider |-> p, key |-> NoKey, model |-> m,
                                      value |-> v])
       /\ UNCHANGED <<mode, step, quota, indexed>>
       /\ RoomForRows

\* Of a key, and of a key and a model; an executor's candidate has no key.
WriteQuota(emptyKey, emptyModel) ==
    \E p \in Providers, m \in Models \cup {emptyModel}, v \in QuotaValues :
       /\ \E k \in IF p \in Executors THEN {emptyKey} ELSE Keys :
             quota' = Upserted(quota, [rowid |-> 0, provider |-> p, key |-> k, model |-> m,
                                       value |-> v])
       /\ UNCHANGED <<mode, step, health, indexed>>
       /\ RoomForRows

\* set_health and set_quota of this version.
Set ==
    /\ mode = "serving"
    /\ WriteHealth(NoModel) \/ WriteQuota(NoKey, NoModel)

\* The same calls of an older version, as the migration's comment has them.
SetInLegacy ==
    /\ mode = "legacy"
    /\ WriteHealth(Null) \/ WriteQuota(Null, Null)

-----------------------------------------------------------------------------
(* _init_schema.                                                            *)

\* Mutant of Deduped: nothing is deleted.
NotDeduped(table) == table

\* Mutant of Deduped: the oldest row of a scope is kept.
DedupedToOldest(table) ==
    {row \in table : \A other \in table : ScopeOf(other) = ScopeOf(row) => row.rowid <= other.rowid}

\* DELETE ... WHERE rowid NOT IN (SELECT MAX(rowid) ... GROUP BY the scope).
Deduped(table) == {row \in table : IsNewest(row, table)}

\* Mutant of Normalised: the key is forgotten.
NormalisedModel(table) == {[row EXCEPT !.model = Coalesce(@, NoModel)] : row \in table}

\* UPDATE ... SET: an absent component becomes the empty string.
Normalised(table) ==
    {[row EXCEPT !.key = Coalesce(@, NoKey), !.model = Coalesce(@, NoModel)] : row \in table}

\* The primary key or a unique index refuses two rows about one scope.
Refused(statement) ==
    \/ statement \in {"normalise health", "index health"} /\ ~UniqueScopes(health)
    \/ statement \in {"normalise quota", "index quota"} /\ ~UniqueScopes(quota)

\* CREATE TABLE IF NOT EXISTS changes no table that is there.
Start ==
    /\ mode = "stopped"
    /\ mode' = "starting"
    /\ step' = 1
    /\ UNCHANGED <<health, quota, indexed>>

\* The next statement; a refused one raises, and __init__ with it.
Execute ==
    /\ mode = "starting"
    /\ LET statement == IF Refused(Statement[step]) THEN "none" ELSE Statement[step] IN
       /\ health' = CASE statement = "dedup health" -> Deduped(health)
                      [] statement = "normalise health" -> Normalised(health)
                      [] OTHER -> health
       /\ quota' = CASE statement = "dedup quota" -> Deduped(quota)
                     [] statement = "normalise quota" -> Normalised(quota)
                     [] OTHER -> quota
       /\ indexed' = CASE statement = "index health" -> indexed \cup {"health"}
                       [] statement = "index quota" -> indexed \cup {"quota"}
                       [] OTHER -> indexed
       /\ mode' = CASE statement = "none" -> "failed"
                    [] statement = "index quota" -> "serving"
                    [] OTHER -> "starting"
    /\ step' = IF mode' = "starting" THEN step + 1 ELSE 0

\* close, a crash, a kill before a restart, the replacement of an older version.
Stop ==
    /\ mode # "stopped"
    /\ mode' = "stopped"
    /\ step' = 0
    /\ UNCHANGED <<health, quota, indexed>>

Init ==
    /\ mode \in {"legacy", "stopped"}
    /\ step = 0
    /\ health = {}
    /\ quota = {}
    /\ indexed = {}

Next == Set \/ SetInLegacy \/ Start \/ Execute \/ Stop

Spec == Init /\ [][Next]_vars

-----------------------------------------------------------------------------
(* Lookups, in SQL and in the in-memory store.  A subject is a provider, a  *)
(* key or NoKey, and a model or NoModel.                                    *)

\* SELECT ... WHERE model = ?, then WHERE model = ''.
HealthRowsFor(p, m) ==
    LET at(model) == {row \in health : row.provider = p /\ row.model = model} IN
    IF at(m) # {} THEN at(m) ELSE at(NoModel)

\* Mutant of QuotaRowsFor: the model of any key comes before the key.
QuotaRowsForModel(p, k, m) ==
    LET at(key, model) == {row \in quota : row.provider = p /\ row.key = key /\ row.model = model} IN
    IF at(k, m) # {} THEN at(k, m)
    ELSE IF at(NoKey, m) # {} THEN at(NoKey, m)
    ELSE at(NoKey, NoModel)

\* The key and the model, the key, the provider.
QuotaRowsFor(p, k, m) ==
    LET at(key, model) == {row \in quota : row.provider = p /\ row.key = key /\ row.model = model} IN
    IF at(k, m) # {} THEN at(k, m)
    ELSE IF at(k, NoModel) # {} THEN at(k, NoModel)
    ELSE at(NoKey, NoModel)

\* fetchone: the values a lookup may return.
Fetched(rows) == IF rows = {} THEN {NoRow} ELSE {row.value : row \in rows}

\* What is known of a scope is its newest row.
Known(table, scope) ==
    LET newest == {row \in table : ScopeOf(row) = scope /\ IsNewest(row, table)} IN
    IF newest = {} THEN NoRow ELSE (CHOOSE row \in newest : TRUE).value

\* The store of module StateStore that the tables stand for.
View == [EmptyStore EXCEPT
            !.health = [h \in HealthScope |-> Known(health, <<h[1], NoKey, h[2]>>)],
            !.quota  = [q \in QuotaScope |-> Known(quota, q)]]

\* Mutant of InMemoryQuota: the model of any key is looked at last.
InMemoryQuotaModelLast(p, k, m) ==
    LET at(key, model) == View.quota[<<p, key, model>>] IN
    IF at(k, NoModel) # NoRow THEN at(k, NoModel) ELSE at(k, m)

\* InMemoryStateStore._fallback_get over the quota observations: the key and the
\* model, the model under any key, the key, the provider.
InMemoryQuota(p, k, m) ==
    LET at(key, model) == View.quota[<<p, key, model>>] IN
    IF at(k, m) # NoRow THEN at(k, m)
    ELSE IF at(NoKey, m) # NoRow THEN at(NoKey, m)
    ELSE IF at(k, NoModel) # NoRow THEN at(k, NoModel)
    ELSE at(NoKey, NoModel)

-----------------------------------------------------------------------------
(* Properties.                                                              *)

\* The types; a table's rowids are its own, and only a start has a next statement.
TypeOK ==
    /\ mode \in Mode
    /\ step \in IF mode = "starting" THEN DOMAIN Statement ELSE {0}
    /\ health \subseteq HealthTableRow
    /\ quota \subseteq QuotaTableRow
    /\ indexed \subseteq {"health", "quota"}
    /\ UniqueIds(health)
    /\ UniqueIds(quota)

\* Whatever an older version left behind, and wherever earlier starts were cut
\* off, no statement of a start is refused: the gateway comes up.
StartsAlways == mode # "failed"

\* While the gateway serves, no NULL is left, each scope has one row, so that
\* upserts replace it and the status endpoint shows it once, and both indexes
\* are there to keep it so.
Migrated ==
    mode = "serving" =>
       /\ UniqueScopes(health) /\ UniqueScopes(quota)
       /\ \A row \in health : row.model # Null
       /\ \A row \in quota : row.key # Null /\ row.model # Null
       /\ indexed = {"health", "quota"}

\* While the gateway serves, each lookup in SQL finds what the latest observations
\* say, those written before the upgrade included: the row that module StateStore
\* chooses, and the state and the cooldown come from the same one.
LookupsAgree ==
    mode = "serving" =>
       \A p \in Providers, m \in Models \cup {NoModel} :
          /\ Fetched(HealthRowsFor(p, m)) = {HealthRowOf(View, p, m)}
          /\ \A k \in Keys \cup {NoKey} :
                Fetched(QuotaRowsFor(p, k, m)) = {QuotaRowOf(View, p, k, m)}

\* The store that most tests run on answers as the real one does, although it
\* looks scopes up in another order: for every scope that the engine writes.
DoubleAgrees ==
    \A p \in Providers, m \in Models : \A k \in IF p \in Executors THEN {NoKey} ELSE Keys :
       InMemoryQuota(p, k, m) = QuotaRowOf(View, p, k, m)

Map == INSTANCE StoreMap WITH st <- View, up <- mode \in {"legacy", "serving"}

\* Refinement: a start, a migration that is cut off and begun again, and a crash
\* change nothing that is known; only observations do, each its own scope.
KeepsObservations == Map!Spec

=============================================================================
