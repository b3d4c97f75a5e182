--------------------------- MODULE SqliteStoreProofs ---------------------------
(***************************************************************************)
(* For any number of rows, of providers, keys and models, and wherever     *)
(* starts are cut off: every start of the gateway succeeds, and what it    *)
(* then serves from is migrated.  The inductive invariant says how far     *)
(* each statement that has been executed has brought its table; nothing of *)
(* it is left when a start is cut off, and nothing is needed.              *)
(***************************************************************************)
EXTENDS SqliteStore, WellFoundedInduction, TLAPS

-----------------------------------------------------------------------------
(* Tables.                                                                  *)

\* A row of either table.
Row == [rowid    : Nat,
        provider : Providers,
        key      : Keys \cup {NoKey, Null},
        model    : Models \cup {NoModel, Null},
        value    : HealthValues \cup QuotaValues]

\* The rowids of a table have a bound, as those of a finite table have.
Bounded(table) == \E bound \in Nat : \A row \in table : row.rowid <= bound

\* No component of a scope is NULL.
NoNulls(table) == \A row \in table : row.key # Null /\ row.model # Null

\* The next rowid is greater than all that are there.
LEMMA NextIdIsNew ==
    ASSUME NEW table \in SUBSET Row, Bounded(table)
    PROVE  NextId(table) \in Nat /\ \A row \in table : row.rowid < NextId(table)
  <1> DEFINE ids == {0} \cup {row.rowid : row \in table}
             bounds == {b \in Nat : \A id \in ids : id <= b}
  <1>1. ids \subseteq Nat /\ 0 \in ids
    BY DEF Row
  <1>2. bounds # {}
    <2>1. PICK bound \in Nat : \A row \in table : row.rowid <= bound
      BY DEF Bounded
    <2>2. \A id \in ids : id <= bound
      BY <2>1
    <2> QED  BY <2>1, <2>2
  <1>3. PICK last \in bounds : \A b \in bounds : last <= b
    <2> DEFINE less == OpToRel(<, Nat)
    <2>1. bounds \subseteq Nat
      OBVIOUS
    <2> HIDE DEF bounds
    <2>2. PICK last \in bounds : \A b \in bounds : ~ (<<b, last>> \in less)
      <3>1. IsWellFoundedOn(less, Nat)
        BY NatLessThanWellFounded
      <3> HIDE DEF less
      <3> QED  BY <1>2, <2>1, <3>1, WFMin
    <2>3. \A b \in bounds : ~ (b < last)
      BY <2>1, <2>2 DEF OpToRel
    <2>4. \A b \in bounds : last <= b
      BY <2>1, <2>3
    <2> QED  BY <2>4
  <1>4. last \in ids
    <2> SUFFICES ASSUME last \notin ids PROVE FALSE
      OBVIOUS
    <2> HIDE DEF ids
    <2>1. last \in Nat /\ \A id \in ids : id <= last
      BY <1>3
    <2>2. last # 0 /\ last - 1 \in Nat
      BY <1>1, <2>1
    <2>3. \A id \in ids : id <= last - 1
      BY <1>1, <2>1
    <2>4. last - 1 \in bounds
      BY <2>2, <2>3
    <2> QED  BY <1>3, <2>1, <2>4
  <1>5. \E max \in ids : \A id \in ids : id <= max
    BY <1>3, <1>4
  <1> DEFINE max == CHOOSE m \in ids : \A id \in ids : id <= m
  <1>6. max \in ids /\ \A id \in ids : id <= max
    BY <1>5
  <1>7. NextId(table) = 1 + max
    BY DEF NextId
  <1>8. \A row \in table : row.rowid \in ids
    OBVIOUS
  <1> HIDE DEF max, ids
  <1>9. max \in Nat /\ \A row \in table : row.rowid <= max
    BY <1>1, <1>6, <1>8
  <1>10. \A row \in table : row.rowid \in Nat
    BY DEF Row
  <1> QED  BY <1>7, <1>9, <1>10

\* Scopes do not tell an absent component by its encoding.
LEMMA NormalisedRow ==
    ASSUME NEW row \in Row
    PROVE  LET new == [row EXCEPT !.key = Coalesce(@, NoKey), !.model = Coalesce(@, NoModel)]
           IN  /\ new \in Row
               /\ new.rowid = row.rowid
               /\ ScopeOf(new) = ScopeOf(row)
               /\ new.key # Null /\ new.model # Null
  BY SqliteAssumption DEF Row, Coalesce, ScopeOf

\* Normalising a table changes neither its rowids nor its scopes.
LEMMA NormalisedTable ==
    ASSUME NEW table \in SUBSET Row
    PROVE  /\ Normalised(table) \subseteq Row
           /\ NoNulls(Normalised(table))
           /\ Bounded(table) => Bounded(Normalised(table))
           /\ UniqueIds(table) => UniqueIds(Normalised(table))
           /\ UniqueScopes(table) => UniqueScopes(Normalised(table))
  <1> DEFINE new(row) == [row EXCEPT !.key = Coalesce(@, NoKey), !.model = Coalesce(@, NoModel)]
  <1>1. \A row \in table : /\ new(row) \in Row
                           /\ new(row).rowid = row.rowid
                           /\ ScopeOf(new(row)) = ScopeOf(row)
                           /\ new(row).key # Null /\ new(row).model # Null
    BY NormalisedRow
  <1>2. Normalised(table) = {new(row) : row \in table}
    BY DEF Normalised
  <1> HIDE DEF new
  <1>3. Normalised(table) \subseteq Row /\ NoNulls(Normalised(table))
    BY <1>1, <1>2 DEF NoNulls
  <1>4. Bounded(table) => Bounded(Normalised(table))
    BY <1>1, <1>2 DEF Bounded
  <1>5. UniqueIds(table) => UniqueIds(Normalised(table))
    BY <1>1, <1>2 DEF UniqueIds
  <1>6. UniqueScopes(table) => UniqueScopes(Normalised(table))
    BY <1>1, <1>2 DEF UniqueScopes
  <1> QED  BY <1>3, <1>4, <1>5, <1>6

\* Of each scope, the DELETE leaves one row.
LEMMA DedupedTable ==
    ASSUME NEW table \in SUBSET Row, UniqueIds(table)
    PROVE  /\ Deduped(table) \subseteq table
           /\ UniqueScopes(Deduped(table))
           /\ UniqueIds(Deduped(table))
           /\ Bounded(table) => Bounded(Deduped(table))
  <1>1. Deduped(table) \subseteq table
    BY DEF Deduped
  <1>2. UniqueScopes(Deduped(table))
    <2> SUFFICES ASSUME NEW row \in Deduped(table), NEW other \in Deduped(table),
                        ScopeOf(row) = ScopeOf(other)
                 PROVE  row = other
      BY DEF UniqueScopes
    <2>1. row \in table /\ other \in table
      BY DEF Deduped
    <2>2. other.rowid <= row.rowid /\ row.rowid <= other.rowid
      BY <2>1 DEF Deduped, IsNewest
    <2>3. row.rowid \in Nat /\ other.rowid \in Nat
      BY <2>1 DEF Row
    <2>4. row.rowid = other.rowid
      BY <2>2, <2>3
    <2> QED  BY <2>1, <2>4 DEF UniqueIds
  <1> QED  BY <1>1, <1>2 DEF UniqueIds, Bounded

\* An upsert keeps rowids apart; without NULLs it keeps scopes apart, too.
LEMMA UpsertedTable ==
    ASSUME NEW table \in SUBSET Row, NEW row \in Row, UniqueIds(table), Bounded(table)
    PROVE  /\ Upserted(table, row) \subseteq Row
           /\ UniqueIds(Upserted(table, row))
           /\ Bounded(Upserted(table, row))
           /\ (NoNulls(table \cup {row}) /\ UniqueScopes(table))
                 => NoNulls(Upserted(table, row)) /\ UniqueScopes(Upserted(table, row))
  <1> DEFINE hit == {old \in table : SameKey(old, row)}
             next == [row EXCEPT !.rowid = NextId(table)]
             over(old) == [row EXCEPT !.rowid = old.rowid]
  <1>1. NextId(table) \in Nat /\ \A old \in table : old.rowid < NextId(table)
    BY NextIdIsNew
  <1>2. /\ next \in Row /\ next.rowid = NextId(table) /\ ScopeOf(next) = ScopeOf(row)
        /\ next.key = row.key /\ next.model = row.model
    BY <1>1 DEF Row, ScopeOf
  <1>3. \A old \in table : /\ over(old) \in Row
                           /\ over(old).rowid = old.rowid
                           /\ ScopeOf(over(old)) = ScopeOf(row)
                           /\ over(old).key = row.key /\ over(old).model = row.model
    BY DEF Row, ScopeOf
  <1>4. NoNulls(table \cup {row}) =>
           \A old \in table : SameKey(old, row) <=> ScopeOf(old) = ScopeOf(row)
    BY DEF NoNulls, SameKey, ScopeOf, Coalesce
  <1>5. \A old \in table : old \in Row /\ old.rowid \in Nat
    BY DEF Row
  <1>6. \A old \in table : over(old).value = row.value
    BY DEF Row
  <1>7. CASE hit = {}
    <2>1. Upserted(table, row) = table \cup {next}
      BY <1>7 DEF Upserted
    <2> HIDE DEF next, over
    <2>2. Upserted(table, row) \subseteq Row
      BY <2>1, <1>2
    <2>3. UniqueIds(Upserted(table, row))
      BY <2>1, <1>1, <1>2, <1>5 DEF UniqueIds
    <2>4. Bounded(Upserted(table, row))
      <3>1. \A other \in Upserted(table, row) : other.rowid <= NextId(table)
        BY <2>1, <1>1, <1>2, <1>5
      <3> QED  BY <3>1, <1>1 DEF Bounded
    <2>5. ASSUME NoNulls(table \cup {row}), UniqueScopes(table)
          PROVE  NoNulls(Upserted(table, row)) /\ UniqueScopes(Upserted(table, row))
      <3>1. \A old \in table : ScopeOf(old) # ScopeOf(row)
        BY <1>4, <1>7, <2>5
      <3> QED  BY <2>1, <2>5, <3>1, <1>2 DEF NoNulls, UniqueScopes
    <2> QED  BY <2>2, <2>3, <2>4, <2>5
  <1>8. CASE hit # {}
    <2>1. Upserted(table, row) = (table \ hit) \cup {over(old) : old \in hit}
      BY <1>8 DEF Upserted
    <2>2. hit \subseteq table
      OBVIOUS
    <2>3. \A a, b \in hit : (NoNulls(table \cup {row}) /\ UniqueScopes(table)) => a = b
      BY <1>4 DEF UniqueScopes
    <2>4. \A old \in table : (NoNulls(table \cup {row}) /\ ScopeOf(old) = ScopeOf(row)) => old \in hit
      BY <1>4
    <2> HIDE DEF next, over, hit
    <2>5. Upserted(table, row) \subseteq Row
      BY <2>1, <2>2, <1>3
    <2>6. UniqueIds(Upserted(table, row))
      BY <2>1, <2>2, <1>3 DEF UniqueIds
    <2>7. Bounded(Upserted(table, row))
      BY <2>1, <2>2, <1>3 DEF Bounded
    <2>8. ASSUME NoNulls(table \cup {row}), UniqueScopes(table)
          PROVE  NoNulls(Upserted(table, row)) /\ UniqueScopes(Upserted(table, row))
      <3>1. NoNulls(Upserted(table, row))
        BY <2>1, <2>2, <2>8, <1>3 DEF NoNulls
      <3>2. UniqueScopes(Upserted(table, row))
        <4> SUFFICES ASSUME NEW x \in Upserted(table, row), NEW y \in Upserted(table, row),
                            ScopeOf(x) = ScopeOf(y)
                     PROVE  x = y
          BY DEF UniqueScopes
        <4>1. \A z \in table \ hit : ScopeOf(z) # ScopeOf(row)
          BY <2>4, <2>8
        <4>2. CASE x \in table \ hit
          <5>1. y \in table \ hit
            BY <2>1, <2>2, <1>3, <4>1, <4>2
          <5> QED  BY <2>8, <4>2, <5>1 DEF UniqueScopes
        <4>3. CASE x \notin table \ hit
          <5>1. PICK a \in hit : x = over(a)
            BY <2>1, <4>3
          <5>2. ScopeOf(x) = ScopeOf(row)
            BY <2>2, <1>3, <5>1
          <5>3. PICK b \in hit : y = over(b)
            BY <2>1, <4>1, <5>2
          <5>4. a = b
            BY <2>3, <2>8
          <5> QED  BY <5>1, <5>3, <5>4
        <4> QED  BY <4>2, <4>3
      <3> QED  BY <3>1, <3>2
    <2> QED  BY <2>5, <2>6, <2>7, <2>8
  <1> QED  BY <1>7, <1>8

\* What is written to a table has the type of its rows.
LEMMA UpsertedType ==
    ASSUME NEW Rows, Rows \in {HealthTableRow, QuotaTableRow},
           NEW table \in SUBSET Rows, NEW row \in Rows, Bounded(table)
    PROVE  Upserted(table, row) \subseteq Rows
  <1>1. Rows \subseteq Row
    <2>1. HealthTableRow \subseteq Row
      BY DEF HealthTableRow, Row
    <2>2. QuotaTableRow \subseteq Row
      BY DEF QuotaTableRow, Row
    <2> QED  BY <2>1, <2>2
  <1>2. NextId(table) \in Nat
    BY <1>1, NextIdIsNew
  <1>3. \A id \in Nat : [row EXCEPT !.rowid = id] \in Rows
    <2>1. CASE Rows = HealthTableRow
      BY <2>1 DEF HealthTableRow
    <2>2. CASE Rows = QuotaTableRow
      BY <2>2 DEF QuotaTableRow
    <2> QED  BY <2>1, <2>2
  <1>4. \A old \in table : old.rowid \in Nat
    BY <1>1 DEF Row
  <1>5. CASE {old \in table : SameKey(old, row)} = {}
    BY <1>2, <1>3, <1>5 DEF Upserted
  <1>6. CASE {old \in table : SameKey(old, row)} # {}
    BY <1>3, <1>4, <1>6 DEF Upserted
  <1> QED  BY <1>5, <1>6

\* A normalised row still has the type of its table.
LEMMA NormalisedType ==
    ASSUME NEW Rows, Rows \in {HealthTableRow, QuotaTableRow}, NEW table \in SUBSET Rows
    PROVE  Normalised(table) \subseteq Rows
  <1>1. \A row \in Rows :
           [row EXCEPT !.key = Coalesce(@, NoKey), !.model = Coalesce(@, NoModel)] \in Rows
    <2>1. CASE Rows = HealthTableRow
      BY <2>1 DEF HealthTableRow, Coalesce
    <2>2. CASE Rows = QuotaTableRow
      BY <2>2 DEF QuotaTableRow, Coalesce
    <2> QED  BY <2>1, <2>2
  <1> QED  BY <1>1 DEF Normalised

-----------------------------------------------------------------------------
(* The inductive invariant.                                                 *)

\* This start has executed statement n, or has executed them all.
Done(n) == mode = "serving" \/ (mode = "starting" /\ step > n)

\* What each statement has established, as long as nothing was cut off since.
Progress ==
    /\ Done(1) => UniqueScopes(health)
    /\ Done(2) => NoNulls(health)
    /\ Done(3) => UniqueScopes(quota)
    /\ Done(4) => NoNulls(quota)
    /\ Done(5) => "health" \in indexed
    /\ Done(6) => "quota" \in indexed

IInv ==
    /\ TypeOK
    /\ Bounded(health)
    /\ Bounded(quota)
    /\ mode # "failed"
    /\ Progress

LEMMA TablesAreRows ==
    ASSUME TypeOK
    PROVE  health \in SUBSET Row /\ quota \in SUBSET Row
  BY DEF TypeOK, HealthTableRow, QuotaTableRow, Row

LEMMA InitOK == Init => IInv
  <1> SUFFICES ASSUME Init PROVE IInv
    OBVIOUS
  <1>1. TypeOK
    BY DEF Init, TypeOK, Mode, UniqueIds
  <1>2. Bounded(health) /\ Bounded(quota)
    <2>1. 0 \in Nat
      OBVIOUS
    <2> QED  BY <2>1 DEF Init, Bounded
  <1>3. mode # "failed" /\ Progress
    BY DEF Init, Progress, Done
  <1> QED  BY <1>1, <1>2, <1>3 DEF IInv

\* An upsert of a health row, by a version whose empty component may be NULL only
\* where no start of this version has been.
LEMMA WriteHealthOK ==
    ASSUME IInv, NEW empty \in {NoModel, Null}, WriteHealth(empty),
           mode \in {"legacy", "serving"}, mode = "serving" => empty = NoModel
    PROVE  IInv'
  <1>1. PICK p \in Providers, m \in Models \cup {empty}, v \in HealthValues :
           health' = Upserted(health, [rowid |-> 0, provider |-> p, key |-> NoKey,
                                       model |-> m, value |-> v])
    BY DEF WriteHealth
  <1> DEFINE row == [rowid |-> 0, provider |-> p, key |-> NoKey, model |-> m, value |-> v]
  <1>2. /\ mode' = mode /\ step' = step /\ quota' = quota /\ indexed' = indexed
    BY DEF WriteHealth
  <1>3. row \in HealthTableRow
    BY DEF HealthTableRow
  <1>4. row \in Row
    BY DEF Row
  <1>5. mode = "serving" => row.key # Null /\ row.model # Null
    BY SqliteAssumption
  <1>6. health' = Upserted(health, row)
    BY <1>1
  <1> HIDE DEF row
  <1>7. health' \subseteq HealthTableRow
    BY <1>3, <1>6, UpsertedType DEF IInv, TypeOK
  <1>8. UniqueIds(health') /\ Bounded(health')
    BY <1>4, <1>6, TablesAreRows, UpsertedTable DEF IInv, TypeOK
  <1>9. mode = "serving" => NoNulls(health') /\ UniqueScopes(health')
    <2> SUFFICES ASSUME mode = "serving" PROVE NoNulls(health') /\ UniqueScopes(health')
      OBVIOUS
    <2>1. NoNulls(health \cup {row}) /\ UniqueScopes(health)
      BY <1>5 DEF IInv, Progress, Done, NoNulls
    <2> QED  BY <1>4, <1>6, <2>1, TablesAreRows, UpsertedTable DEF IInv, TypeOK
  <1>10. TypeOK'
    BY <1>2, <1>7, <1>8 DEF IInv, TypeOK, UniqueIds
  <1>11. Bounded(health)' /\ Bounded(quota)' /\ (mode # "failed")'
    BY <1>2, <1>8 DEF IInv, Bounded
  <1>12. Progress'
    BY <1>2, <1>9 DEF IInv, Progress, Done, NoNulls, UniqueScopes
  <1> QED  BY <1>10, <1>11, <1>12 DEF IInv

\* The same for a quota row.
LEMMA WriteQuotaOK ==
    ASSUME IInv, NEW emptyKey \in {NoKey, Null}, NEW emptyModel \in {NoModel, Null},
           WriteQuota(emptyKey, emptyModel), mode \in {"legacy", "serving"},
           mode = "serving" => emptyKey = NoKey /\ emptyModel = NoModel
    PROVE  IInv'
  <1>1. PICK p \in Providers, m \in Models \cup {emptyModel}, v \in QuotaValues :
           \E k \in IF p \in Executors THEN {emptyKey} ELSE Keys :
              quota' = Upserted(quota, [rowid |-> 0, provider |-> p, key |-> k,
                                        model |-> m, value |-> v])
    BY DEF WriteQuota
  <1>2. PICK k \in Keys \cup {emptyKey} :
           quota' = Upserted(quota, [rowid |-> 0, provider |-> p, key |-> k,
                                     model |-> m, value |-> v])
    BY <1>1
  <1> DEFINE row == [rowid |-> 0, provider |-> p, key |-> k, model |-> m, value |-> v]
  <1>3. /\ mode' = mode /\ step' = step /\ health' = health /\ indexed' = indexed
    BY DEF WriteQuota
  <1>4. row \in QuotaTableRow
    BY DEF QuotaTableRow
  <1>5. row \in Row
    BY DEF Row
  <1>6. mode = "serving" => row.key # Null /\ row.model # Null
    BY SqliteAssumption
  <1>7. quota' = Upserted(quota, row)
    BY <1>2
  <1> HIDE DEF row
  <1>8. quota' \subseteq QuotaTableRow
    BY <1>4, <1>7, UpsertedType DEF IInv, TypeOK
  <1>9. UniqueIds(quota') /\ Bounded(quota')
    BY <1>5, <1>7, TablesAreRows, UpsertedTable DEF IInv, TypeOK
  <1>10. mode = "serving" => NoNulls(quota') /\ UniqueScopes(quota')
    <2> SUFFICES ASSUME mode = "serving" PROVE NoNulls(quota') /\ UniqueScopes(quota')
      OBVIOUS
    <2>1. NoNulls(quota \cup {row}) /\ UniqueScopes(quota)
      BY <1>6 DEF IInv, Progress, Done, NoNulls
    <2> QED  BY <1>5, <1>7, <2>1, TablesAreRows, UpsertedTable DEF IInv, TypeOK
  <1>11. TypeOK'
    BY <1>3, <1>8, <1>9 DEF IInv, TypeOK, UniqueIds
  <1>12. Bounded(health)' /\ Bounded(quota)' /\ (mode # "failed")'
    BY <1>3, <1>9 DEF IInv, Bounded
  <1>13. Progress'
    BY <1>3, <1>10 DEF IInv, Progress, Done, NoNulls, UniqueScopes
  <1> QED  BY <1>11, <1>12, <1>13 DEF IInv

\* What the next statement does, once nothing refuses it.
LEMMA StatementDoes ==
    ASSUME IInv, Execute
    PROVE  /\ mode = "starting" /\ step \in 1..6
           /\ step = 1 => /\ health' = Deduped(health) /\ quota' = quota
                          /\ indexed' = indexed /\ mode' = "starting" /\ step' = 2
           /\ step = 2 => /\ health' = Normalised(health) /\ quota' = quota
                          /\ indexed' = indexed /\ mode' = "starting" /\ step' = 3
           /\ step = 3 => /\ health' = health /\ quota' = Deduped(quota)
                          /\ indexed' = indexed /\ mode' = "starting" /\ step' = 4
           /\ step = 4 => /\ health' = health /\ quota' = Normalised(quota)
                          /\ indexed' = indexed /\ mode' = "starting" /\ step' = 5
           /\ step = 5 => /\ health' = health /\ quota' = quota
                          /\ indexed' = indexed \cup {"health"}
                          /\ mode' = "starting" /\ step' = 6
           /\ step = 6 => /\ health' = health /\ quota' = quota
                          /\ indexed' = indexed \cup {"quota"}
                          /\ mode' = "serving" /\ step' = 0
  <1> DEFINE statement == IF Refused(Statement[step]) THEN "none" ELSE Statement[step]
  <1>1. mode = "starting"
    BY DEF Execute
  <1>2. step \in 1..6
    BY <1>1 DEF IInv, TypeOK, Statement
  <1>3. /\ step > 1 => UniqueScopes(health)
        /\ step > 3 => UniqueScopes(quota)
    BY <1>1, <1>2 DEF IInv, Progress, Done
  <1>4. ~ Refused(Statement[step])
    <2>1. /\ Refused(Statement[step]) =>
                \/ /\ Statement[step] \in {"normalise health", "index health"}
                   /\ ~ UniqueScopes(health)
                \/ /\ Statement[step] \in {"normalise quota", "index quota"}
                   /\ ~ UniqueScopes(quota)
      BY DEF Refused
    <2>2. /\ Statement[1] = "dedup health" /\ Statement[2] = "normalise health"
          /\ Statement[3] = "dedup quota"  /\ Statement[4] = "normalise quota"
          /\ Statement[5] = "index health" /\ Statement[6] = "index quota"
      BY DEF Statement
    <2>3. step \in {1, 2, 3, 4, 5, 6}
      BY <1>2
    <2> HIDE DEF Statement
    <2>4. Statement[step] \in {"normalise health", "index health"} => step \in {2, 5}
      BY <2>2, <2>3
    <2>5. Statement[step] \in {"normalise quota", "index quota"} => step \in {4, 6}
      BY <2>2, <2>3
    <2>6. step \in {2, 5} => UniqueScopes(health)
      BY <1>3
    <2>7. step \in {4, 6} => UniqueScopes(quota)
      BY <1>3
    <2> QED  BY <2>1, <2>4, <2>5, <2>6, <2>7
  <1>5. statement = Statement[step]
    BY <1>4
  <1>6. /\ health' = CASE statement = "dedup health" -> Deduped(health)
                       [] statement = "normalise health" -> Normalised(health)
                       [] OTHER -> health
        /\ quota' = CASE statement = "dedup quota" -> Deduped(quota)
                      [] statement = "normalise quota" -> Normalised(quota)
                      [] OTHER -> quota
        /\ indexed' = CASE statement = "index health" -> indexed \cup {"health"}
                        [] statement = "index quota" -> indexed \cup {"quota"}
                        [] OTHER -> indexed
        /\ mode' = CASE statement = "none" -> "failed"
                     [] statement = "index quota" -> "serving"
                     [] OTHER -> "starting"
    BY DEF Execute
  <1>7. step' = IF mode' = "starting" THEN step + 1 ELSE 0
    BY DEF Execute
  <1> HIDE DEF statement
  <1>8. CASE step = 1
    <2>1. statement = "dedup health"
      BY <1>5, <1>8 DEF Statement
    <2>2. health' = Deduped(health) /\ quota' = quota /\ indexed' = indexed /\ mode' = "starting"
      BY <1>6, <2>1, Zenon
    <2> QED  BY <1>1, <1>7, <1>8, <2>2
  <1>9. CASE step = 2
    <2>1. statement = "normalise health"
      BY <1>5, <1>9 DEF Statement
    <2>2. health' = Normalised(health) /\ quota' = quota /\ indexed' = indexed /\ mode' = "starting"
      BY <1>6, <2>1, Zenon
    <2> QED  BY <1>1, <1>7, <1>9, <2>2
  <1>10. CASE step = 3
    <2>1. statement = "dedup quota"
      BY <1>5, <1>10 DEF Statement
    <2>2. health' = health /\ quota' = Deduped(quota) /\ indexed' = indexed /\ mode' = "starting"
      BY <1>6, <2>1, Zenon
    <2> QED  BY <1>1, <1>7, <1>10, <2>2
  <1>11. CASE step = 4
    <2>1. statement = "normalise quota"
      BY <1>5, <1>11 DEF Statement
    <2>2. health' = health /\ quota' = Normalised(quota) /\ indexed' = indexed /\ mode' = "starting"
      BY <1>6, <2>1, Zenon
    <2> QED  BY <1>1, <1>7, <1>11, <2>2
  <1>12. CASE step = 5
    <2>1. statement = "index health"
      BY <1>5, <1>12 DEF Statement
    <2>2. /\ health' = health /\ quota' = quota /\ indexed' = indexed \cup {"health"}
          /\ mode' = "starting"
      BY <1>6, <2>1, Zenon
    <2> QED  BY <1>1, <1>7, <1>12, <2>2
  <1>13. CASE step = 6
    <2>1. statement = "index quota"
      BY <1>5, <1>13 DEF Statement
    <2>2. /\ health' = health /\ quota' = quota /\ indexed' = indexed \cup {"quota"}
          /\ mode' = "serving"
      BY <1>6, <2>1, Zenon
    <2> QED  BY <1>1, <1>7, <1>13, <2>2
  <1> QED  BY <1>2, <1>8, <1>9, <1>10, <1>11, <1>12, <1>13

\* Each statement brings its table as far as Progress says.
LEMMA ExecuteOK ==
    ASSUME IInv, Execute
    PROVE  IInv'
  <1>1. mode = "starting" /\ step \in 1..6
    BY StatementDoes
  <1>2. /\ health \in SUBSET Row /\ UniqueIds(health) /\ Bounded(health)
        /\ quota \in SUBSET Row /\ UniqueIds(quota) /\ Bounded(quota)
        /\ health \subseteq HealthTableRow /\ quota \subseteq QuotaTableRow
        /\ indexed \subseteq {"health", "quota"}
    BY TablesAreRows DEF IInv, TypeOK
  <1>3. /\ step > 1 => UniqueScopes(health)
        /\ step > 2 => NoNulls(health)
        /\ step > 3 => UniqueScopes(quota)
        /\ step > 4 => NoNulls(quota)
        /\ step > 5 => "health" \in indexed
    BY <1>1 DEF IInv, Progress, Done
  <1>4. /\ health' \in {health, Deduped(health), Normalised(health)}
        /\ quota' \in {quota, Deduped(quota), Normalised(quota)}
        /\ indexed' \subseteq indexed \cup {"health", "quota"}
    BY <1>1, StatementDoes
  <1>5. UniqueIds(health') /\ Bounded(health') /\ health' \subseteq HealthTableRow
    <2>1. UniqueIds(Deduped(health)) /\ Bounded(Deduped(health)) /\ Deduped(health) \subseteq health
      BY <1>2, DedupedTable
    <2>2. UniqueIds(Normalised(health)) /\ Bounded(Normalised(health))
      BY <1>2, NormalisedTable
    <2>3. Normalised(health) \subseteq HealthTableRow
      BY <1>2, NormalisedType
    <2> QED  BY <1>2, <1>4, <2>1, <2>2, <2>3
  <1>6. UniqueIds(quota') /\ Bounded(quota') /\ quota' \subseteq QuotaTableRow
    <2>1. UniqueIds(Deduped(quota)) /\ Bounded(Deduped(quota)) /\ Deduped(quota) \subseteq quota
      BY <1>2, DedupedTable
    <2>2. UniqueIds(Normalised(quota)) /\ Bounded(Normalised(quota))
      BY <1>2, NormalisedTable
    <2>3. Normalised(quota) \subseteq QuotaTableRow
      BY <1>2, NormalisedType
    <2> QED  BY <1>2, <1>4, <2>1, <2>2, <2>3
  <1>7. TypeOK'
    <2>1. /\ mode' \in Mode
          /\ step' \in IF mode' = "starting" THEN DOMAIN Statement ELSE {0}
      BY <1>1, StatementDoes DEF Mode, Statement
    <2> QED  BY <1>2, <1>4, <1>5, <1>6, <2>1 DEF TypeOK, UniqueIds
  <1>8. Bounded(health)' /\ Bounded(quota)'
    BY <1>5, <1>6 DEF Bounded
  <1>9. (mode # "failed")'
    BY <1>1, StatementDoes
  <1>10. Progress'
    <2>1. CASE step = 1
      <3>1. health' = Deduped(health) /\ mode' = "starting" /\ step' = 2
        BY <2>1, StatementDoes
      <3>2. UniqueScopes(Deduped(health))
        BY <1>2, DedupedTable
      <3> QED  BY <3>1, <3>2 DEF Progress, Done, UniqueScopes
    <2>2. CASE step = 2
      <3>1. health' = Normalised(health) /\ mode' = "starting" /\ step' = 3
        BY <2>2, StatementDoes
      <3>2. UniqueScopes(Normalised(health)) /\ NoNulls(Normalised(health))
        BY <1>2, <1>3, <2>2, NormalisedTable
      <3> QED  BY <3>1, <3>2 DEF Progress, Done, UniqueScopes, NoNulls
    <2>3. CASE step = 3
      <3>1. health' = health /\ quota' = Deduped(quota) /\ mode' = "starting" /\ step' = 4
        BY <2>3, StatementDoes
      <3>2. UniqueScopes(Deduped(quota))
        BY <1>2, DedupedTable
      <3> QED  BY <1>3, <2>3, <3>1, <3>2 DEF Progress, Done, UniqueScopes, NoNulls
    <2>4. CASE step = 4
      <3>1. health' = health /\ quota' = Normalised(quota) /\ mode' = "starting" /\ step' = 5
        BY <2>4, StatementDoes
      <3>2. UniqueScopes(Normalised(quota)) /\ NoNulls(Normalised(quota))
        BY <1>2, <1>3, <2>4, NormalisedTable
      <3> QED  BY <1>3, <2>4, <3>1, <3>2 DEF Progress, Done, UniqueScopes, NoNulls
    <2>5. CASE step = 5
      <3>1. /\ health' = health /\ quota' = quota /\ indexed' = indexed \cup {"health"}
            /\ mode' = "starting" /\ step' = 6
        BY <2>5, StatementDoes
      <3> QED  BY <1>3, <2>5, <3>1 DEF Progress, Done, UniqueScopes, NoNulls
    <2>6. CASE step = 6
      <3>1. /\ health' = health /\ quota' = quota /\ indexed' = indexed \cup {"quota"}
            /\ mode' = "serving"
        BY <2>6, StatementDoes
      <3> QED  BY <1>3, <2>6, <3>1 DEF Progress, Done, UniqueScopes, NoNulls
    <2> QED  BY <1>1, <2>1, <2>2, <2>3, <2>4, <2>5, <2>6
  <1> QED  BY <1>7, <1>8, <1>9, <1>10 DEF IInv

\* Starting and stopping leave the tables as they are.
LEMMA StartStopOK ==
    ASSUME IInv, Start \/ Stop
    PROVE  IInv'
  <1>1. /\ health' = health /\ quota' = quota /\ indexed' = indexed
        /\ \/ mode' = "starting" /\ step' = 1
           \/ mode' = "stopped" /\ step' = 0
    BY DEF Start, Stop
  <1>2. TypeOK'
    BY <1>1 DEF IInv, TypeOK, Mode, Statement, UniqueIds
  <1>3. Bounded(health)' /\ Bounded(quota)' /\ (mode # "failed")'
    BY <1>1 DEF IInv, Bounded
  <1>4. Progress'
    BY <1>1 DEF Progress, Done
  <1> QED  BY <1>2, <1>3, <1>4 DEF IInv

\* The invariant is inductive.
LEMMA StepOK == IInv /\ [Next]_vars => IInv'
  <1> SUFFICES ASSUME IInv, [Next]_vars PROVE IInv'
    OBVIOUS
  <1>1. CASE UNCHANGED vars
    BY <1>1 DEF vars, IInv, TypeOK, Progress, Done, Bounded, UniqueIds, UniqueScopes, NoNulls
  <1>2. CASE Set
    <2>1. mode = "serving"
      BY <1>2 DEF Set
    <2>2. CASE WriteHealth(NoModel)
      BY <2>1, <2>2, WriteHealthOK
    <2>3. CASE WriteQuota(NoKey, NoModel)
      BY <2>1, <2>3, WriteQuotaOK
    <2> QED  BY <1>2, <2>2, <2>3 DEF Set
  <1>3. CASE SetInLegacy
    <2>1. mode = "legacy"
      BY <1>3 DEF SetInLegacy
    <2>2. CASE WriteHealth(Null)
      BY <2>1, <2>2, WriteHealthOK
    <2>3. CASE WriteQuota(Null, Null)
      BY <2>1, <2>3, WriteQuotaOK
    <2> QED  BY <1>3, <2>2, <2>3 DEF SetInLegacy
  <1>4. CASE Execute
    BY <1>4, ExecuteOK
  <1>5. CASE Start \/ Stop
    BY <1>5, StartStopOK
  <1> QED  BY <1>1, <1>2, <1>3, <1>4, <1>5 DEF Next

-----------------------------------------------------------------------------

\* The rows have the types of their tables, and rowids stay apart, however many
\* rows there are.
THEOREM TypeCorrect == Spec => []TypeOK
  <1>1. IInv => TypeOK
    BY DEF IInv
  <1> QED  BY InitOK, StepOK, <1>1, PTL DEF Spec

\* No legacy table and no sequence of starts that were cut off keeps the gateway
\* from coming up.
THEOREM EveryStartSucceeds == Spec => []StartsAlways
  <1>1. IInv => StartsAlways
    BY DEF IInv, StartsAlways
  <1> QED  BY InitOK, StepOK, <1>1, PTL DEF Spec

\* What the gateway serves from is migrated, and stays so under its own writes.
THEOREM ServesMigrated == Spec => []Migrated
  <1>1. IInv => Migrated
    BY DEF IInv, TypeOK, Progress, Done, Migrated, NoNulls
  <1> QED  BY InitOK, StepOK, <1>1, PTL DEF Spec

-----------------------------------------------------------------------------
(* Refinement of StoreMap, for any number of rows: migrating, being cut off *)
(* and starting again change nothing that is known, and a write changes its *)
(* own scope only.  Beside IInv this needs that one version encodes an      *)
(* absent component in one way: a write then meets every row of its scope.  *)

\* The newest row of a scope says what is known of it.
LEMMA KnownIs ==
    ASSUME NEW table \in SUBSET Row, UniqueIds(table), NEW row \in table, IsNewest(row, table)
    PROVE  Known(table, ScopeOf(row)) = row.value
  <1> DEFINE newest == {r \in table : ScopeOf(r) = ScopeOf(row) /\ IsNewest(r, table)}
  <1>1. row \in newest
    OBVIOUS
  <1>2. \A r \in newest : r = row
    <2> SUFFICES ASSUME NEW r \in newest PROVE r = row
      OBVIOUS
    <2>1. r \in table /\ r.rowid <= row.rowid /\ row.rowid <= r.rowid
      BY DEF IsNewest
    <2>2. r.rowid \in Nat /\ row.rowid \in Nat
      BY DEF Row
    <2>3. r.rowid = row.rowid
      BY <2>1, <2>2
    <2> QED  BY <2>1, <2>3 DEF UniqueIds
  <1>3. Known(table, ScopeOf(row)) = (CHOOSE r \in newest : TRUE).value
    BY <1>1 DEF Known
  <1> HIDE DEF newest
  <1>4. (CHOOSE r \in newest : TRUE) = row
    BY <1>1, <1>2
  <1> QED  BY <1>3, <1>4

\* A scope without a newest row is not known.
LEMMA KnownNot ==
    ASSUME NEW table, NEW scope,
           \A row \in table : ~ (ScopeOf(row) = scope /\ IsNewest(row, table))
    PROVE  Known(table, scope) = NoRow
  BY DEF Known

\* Two tables in which the rows about a scope are the same know the same of it.
LEMMA KnownFromSameRows ==
    ASSUME NEW table, NEW other, NEW scope,
           \A row : (row \in table /\ ScopeOf(row) = scope)
                       <=> (row \in other /\ ScopeOf(row) = scope)
    PROVE  Known(table, scope) = Known(other, scope)
  <1> DEFINE here  == {row \in table : ScopeOf(row) = scope /\ IsNewest(row, table)}
             there == {row \in other : ScopeOf(row) = scope /\ IsNewest(row, other)}
  <1>1. here = there
    BY DEF IsNewest
  <1>2. Known(table, scope) = IF here = {} THEN NoRow ELSE (CHOOSE row \in here : TRUE).value
    BY DEF Known
  <1>3. Known(other, scope) = IF there = {} THEN NoRow ELSE (CHOOSE row \in there : TRUE).value
    BY DEF Known
  <1> HIDE DEF here, there
  <1> QED  BY <1>1, <1>2, <1>3

\* If a table has a row about a scope, one of them is the newest.
LEMMA NewestExists ==
    ASSUME NEW table \in SUBSET Row, Bounded(table), NEW row \in table
    PROVE  \E newest \in table : ScopeOf(newest) = ScopeOf(row) /\ IsNewest(newest, table)
  <1> DEFINE same == {r \in table : ScopeOf(r) = ScopeOf(row)}
             bounds == {b \in Nat : \A r \in same : r.rowid <= b}
             less == OpToRel(<, Nat)
  <1>1. \A r \in table : r.rowid \in Nat
    BY DEF Row
  <1>2. bounds # {} /\ bounds \subseteq Nat
    BY DEF Bounded
  <1>3. PICK last \in bounds : \A b \in bounds : ~ (<<b, last>> \in less)
    <2>1. IsWellFoundedOn(less, Nat)
      BY NatLessThanWellFounded
    <2> HIDE DEF less, bounds
    <2> QED  BY <1>2, <2>1, WFMin
  <1>4. \A b \in bounds : last <= b
    <2>1. \A b \in bounds : ~ (b < last)
      BY <1>2, <1>3 DEF OpToRel
    <2>2. last \in bounds /\ bounds \subseteq Nat
      BY <1>3
    <2> HIDE DEF bounds
    <2> QED  BY <2>1, <2>2
  <1>5. \E r \in same : r.rowid = last
    <2> SUFFICES ASSUME \A r \in same : r.rowid # last PROVE FALSE
      OBVIOUS
    <2>1. row \in same /\ row.rowid <= last /\ last \in Nat
      BY <1>3
    <2>2. last - 1 \in Nat
      BY <1>1, <2>1
    <2>3. \A r \in same : r.rowid <= last - 1
      <3> SUFFICES ASSUME NEW r \in same PROVE r.rowid <= last - 1
        OBVIOUS
      <3>1. r.rowid \in Nat /\ r.rowid <= last /\ r.rowid # last
        BY <1>1, <1>3
      <3> QED  BY <2>1, <3>1
    <2>4. last - 1 \in bounds
      BY <2>2, <2>3
    <2> QED  BY <1>4, <2>1, <2>4
  <1>6. PICK newest \in same : newest.rowid = last
    BY <1>5
  <1>7. \A r \in same : r.rowid <= newest.rowid
    BY <1>3, <1>6
  <1> QED  BY <1>6, <1>7 DEF IsNewest

-----------------------------------------------------------------------------
(* What the statements and the upserts do to what is known.                 *)

\* The DELETE keeps the newest row of every scope.
LEMMA KnownDeduped ==
    ASSUME NEW table, NEW scope
    PROVE  Known(Deduped(table), scope) = Known(table, scope)
  <1> DEFINE kept == Deduped(table)
             here  == {row \in kept : ScopeOf(row) = scope /\ IsNewest(row, kept)}
             there == {row \in table : ScopeOf(row) = scope /\ IsNewest(row, table)}
  <1>1. here = there
    BY DEF Deduped, IsNewest
  <1>2. Known(kept, scope) = IF here = {} THEN NoRow ELSE (CHOOSE row \in here : TRUE).value
    BY DEF Known
  <1>3. Known(table, scope) = IF there = {} THEN NoRow ELSE (CHOOSE row \in there : TRUE).value
    BY DEF Known
  <1> HIDE DEF here, there
  <1> QED  BY <1>1, <1>2, <1>3

\* The UPDATE changes neither a scope nor the order of the rows about it.
LEMMA KnownNormalised ==
    ASSUME NEW table \in SUBSET Row, UniqueIds(table), NEW scope
    PROVE  Known(Normalised(table), scope) = Known(table, scope)
  <1> DEFINE new(row) == [row EXCEPT !.key = Coalesce(@, NoKey), !.model = Coalesce(@, NoModel)]
  <1>1. \A row \in table : /\ new(row) \in Row
                           /\ new(row).rowid = row.rowid
                           /\ ScopeOf(new(row)) = ScopeOf(row)
                           /\ new(row).value = row.value
    <2>1. \A row \in table : new(row).value = row.value
      BY DEF Row
    <2> QED  BY <2>1, NormalisedRow
  <1>2. Normalised(table) = {new(row) : row \in table}
    BY DEF Normalised
  <1>3. Normalised(table) \in SUBSET Row /\ UniqueIds(Normalised(table))
    BY NormalisedTable
  <1> HIDE DEF new
  <1>4. \A row \in table : IsNewest(new(row), Normalised(table)) <=> IsNewest(row, table)
    BY <1>1, <1>2 DEF IsNewest
  <1>5. CASE \E row \in table : ScopeOf(row) = scope /\ IsNewest(row, table)
    <2>1. PICK row \in table : ScopeOf(row) = scope /\ IsNewest(row, table)
      BY <1>5
    <2>2. Known(table, scope) = row.value
      BY <2>1, KnownIs
    <2>3. new(row) \in Normalised(table) /\ IsNewest(new(row), Normalised(table))
      BY <1>2, <1>4, <2>1
    <2>4. Known(Normalised(table), ScopeOf(new(row))) = new(row).value
      BY <1>3, <2>3, KnownIs
    <2> QED  BY <1>1, <2>1, <2>2, <2>4
  <1>6. CASE ~ \E row \in table : ScopeOf(row) = scope /\ IsNewest(row, table)
    <2>1. Known(table, scope) = NoRow
      BY <1>6, KnownNot
    <2>2. \A row \in Normalised(table) : ~ (ScopeOf(row) = scope /\ IsNewest(row, Normalised(table)))
      BY <1>1, <1>2, <1>4, <1>6
    <2>3. Known(Normalised(table), scope) = NoRow
      BY <2>2, KnownNot
    <2> QED  BY <2>1, <2>3
  <1> QED  BY <1>5, <1>6

\* Where rows about one scope are encoded alike, an upsert makes its row the one
\* that is known, and touches no other scope.
LEMMA KnownUpserted ==
    ASSUME NEW table \in SUBSET Row, UniqueIds(table), Bounded(table), NEW row \in Row,
           \A old \in table : ScopeOf(old) = ScopeOf(row) => old.key = row.key /\ old.model = row.model,
           NEW scope
    PROVE  Known(Upserted(table, row), scope)
              = IF scope = ScopeOf(row) THEN row.value ELSE Known(table, scope)
  <1> DEFINE hit == {old \in table : SameKey(old, row)}
             next == [row EXCEPT !.rowid = NextId(table)]
             over(old) == [row EXCEPT !.rowid = old.rowid]
             after == Upserted(table, row)
  <1>1. NextId(table) \in Nat /\ \A old \in table : old.rowid < NextId(table)
    BY NextIdIsNew
  <1>2. next.rowid = NextId(table) /\ ScopeOf(next) = ScopeOf(row) /\ next.value = row.value
    BY DEF Row, ScopeOf
  <1>3. \A old \in table : ScopeOf(over(old)) = ScopeOf(row) /\ over(old).value = row.value
    BY DEF Row, ScopeOf
  <1>4. after \in SUBSET Row /\ UniqueIds(after) /\ Bounded(after)
    BY UpsertedTable
  <1>5. hit = {} => after = table \cup {next}
    BY DEF Upserted
  <1>6. hit # {} => after = (table \ hit) \cup {over(old) : old \in hit}
    BY DEF Upserted
  <1>7. \A old \in hit : old \in table /\ ScopeOf(old) = ScopeOf(row)
    BY DEF SameKey, ScopeOf
  <1>8. hit # {} => \A old \in table : ScopeOf(old) = ScopeOf(row) => old \in hit
    BY DEF SameKey, ScopeOf
  <1>9. \A old \in table : old.rowid \in Nat
    BY DEF Row
  <1> HIDE DEF hit, next, over, after
  <1>10. CASE scope # ScopeOf(row)
    <2>1. \A r : (r \in after /\ ScopeOf(r) = scope) <=> (r \in table /\ ScopeOf(r) = scope)
      BY <1>2, <1>3, <1>5, <1>6, <1>7, <1>10
    <2>2. Known(after, scope) = Known(table, scope)
      BY <2>1, KnownFromSameRows
    <2> QED  BY <1>10, <2>2 DEF after
  <1>11. CASE scope = ScopeOf(row)
    <2>1. \E r \in after : ScopeOf(r) = scope
      BY <1>2, <1>3, <1>5, <1>6, <1>7, <1>11
    <2>2. PICK newest \in after : ScopeOf(newest) = scope /\ IsNewest(newest, after)
      BY <1>4, <2>1, NewestExists
    <2>3. newest.value = row.value
      <3>1. CASE hit = {}
        <4>1. next.rowid <= newest.rowid
          BY <1>2, <1>5, <1>11, <2>2, <3>1 DEF IsNewest
        <4>2. newest \notin table
          BY <1>1, <1>2, <1>9, <4>1
        <4> QED  BY <1>2, <1>5, <2>2, <3>1, <4>2
      <3>2. CASE hit # {}
        <4>1. newest \notin table \ hit
          BY <1>8, <1>11, <2>2, <3>2
        <4> QED  BY <1>3, <1>6, <1>7, <2>2, <3>2, <4>1
      <3> QED  BY <3>1, <3>2
    <2>4. Known(after, scope) = newest.value
      BY <1>4, <2>2, KnownIs
    <2> QED  BY <1>11, <2>3, <2>4 DEF after
  <1> QED  BY <1>10, <1>11

-----------------------------------------------------------------------------
(* One version, one encoding of an absent component.                        *)

OneEncoding ==
    mode = "legacy" =>
       /\ \A row \in health : row.model # NoModel
       /\ \A row \in quota : row.key # NoKey /\ row.model # NoModel

RInv == IInv /\ OneEncoding

\* An upsert writes no encoding that its row has not, and keeps those of the others.
LEMMA UpsertedEncoding ==
    ASSUME NEW table \in SUBSET Row, NEW row \in Row,
           NEW new \in Upserted(table, row)
    PROVE  new \in table \/ (/\ new.provider = row.provider
                              /\ new.key = row.key
                              /\ new.model = row.model)
  <1>1. CASE {old \in table : SameKey(old, row)} = {}
    BY <1>1 DEF Upserted, Row
  <1>2. CASE {old \in table : SameKey(old, row)} # {}
    <2>1. CASE new \notin table
      <3>1. PICK old \in table : new = [row EXCEPT !.rowid = old.rowid]
        BY <1>2, <2>1 DEF Upserted
      <3> QED  BY <3>1 DEF Row
    <2> QED  BY <2>1
  <1> QED  BY <1>1, <1>2

LEMMA RInvInit == Init => RInv
  <1>1. Init => OneEncoding
    BY DEF Init, OneEncoding
  <1> QED  BY <1>1, InitOK DEF RInv

LEMMA RInvStep == RInv /\ [Next]_vars => RInv'
  <1> SUFFICES ASSUME RInv, [Next]_vars PROVE OneEncoding'
    BY StepOK DEF RInv
  <1>1. CASE UNCHANGED vars
    BY <1>1 DEF vars, RInv, OneEncoding
  <1>2. CASE SetInLegacy
    <2>1. mode' = mode /\ mode = "legacy" /\ IInv /\ OneEncoding
      BY <1>2 DEF SetInLegacy, WriteHealth, WriteQuota, RInv
    <2>2. health \in SUBSET Row /\ quota \in SUBSET Row
      BY <2>1, TablesAreRows DEF IInv
    <2>3. CASE WriteHealth(Null)
      <3>1. PICK p \in Providers, m \in Models \cup {Null}, v \in HealthValues :
               health' = Upserted(health, [rowid |-> 0, provider |-> p, key |-> NoKey,
                                           model |-> m, value |-> v])
        BY <2>3 DEF WriteHealth
      <3> DEFINE row == [rowid |-> 0, provider |-> p, key |-> NoKey, model |-> m, value |-> v]
      <3>2. row \in Row /\ row.model # NoModel
        BY ScopeAssumption, SqliteAssumption DEF Row
      <3>3. health' = Upserted(health, row) /\ quota' = quota
        BY <2>3, <3>1 DEF WriteHealth
      <3> HIDE DEF row
      <3>4. \A new \in health' : new.model # NoModel
        BY <2>1, <2>2, <3>2, <3>3, UpsertedEncoding DEF OneEncoding
      <3> QED  BY <2>1, <3>3, <3>4 DEF OneEncoding
    <2>4. CASE WriteQuota(Null, Null)
      <3>1. PICK p \in Providers, m \in Models \cup {Null}, v \in QuotaValues :
               \E k \in IF p \in Executors THEN {Null} ELSE Keys :
                  quota' = Upserted(quota, [rowid |-> 0, provider |-> p, key |-> k,
                                            model |-> m, value |-> v])
        BY <2>4 DEF WriteQuota
      <3>2. PICK k \in Keys \cup {Null} :
               quota' = Upserted(quota, [rowid |-> 0, provider |-> p, key |-> k,
                                         model |-> m, value |-> v])
        BY <3>1
      <3> DEFINE row == [rowid |-> 0, provider |-> p, key |-> k, model |-> m, value |-> v]
      <3>3. row \in Row /\ row.key # NoKey /\ row.model # NoModel
        BY ScopeAssumption, SqliteAssumption DEF Row
      <3>4. quota' = Upserted(quota, row) /\ health' = health
        BY <2>4, <3>2 DEF WriteQuota
      <3> HIDE DEF row
      <3>5. \A new \in quota' : new.key # NoKey /\ new.model # NoModel
        BY <2>1, <2>2, <3>3, <3>4, UpsertedEncoding DEF OneEncoding
      <3> QED  BY <2>1, <3>4, <3>5 DEF OneEncoding
    <2> QED  BY <1>2, <2>3, <2>4 DEF SetInLegacy
  <1>3. CASE Set
    <2>1. mode' = "serving"
      BY <1>3 DEF Set, WriteHealth, WriteQuota
    <2> QED  BY <2>1 DEF OneEncoding
  <1>4. CASE Start \/ Stop
    <2>1. mode' \in {"starting", "stopped"}
      BY <1>4 DEF Start, Stop
    <2> QED  BY <2>1 DEF OneEncoding
  <1>5. CASE Execute
    <2>1. mode' \in {"starting", "serving"}
      BY <1>5, StatementDoes DEF RInv
    <2> QED  BY <2>1 DEF OneEncoding
  <1> QED  BY <1>1, <1>2, <1>3, <1>4, <1>5 DEF Next

-----------------------------------------------------------------------------
(* The refinement mapping.                                                  *)

Up == mode \in {"legacy", "serving"}

HealthMap == [h \in HealthScope |-> Known(health, <<h[1], NoKey, h[2]>>)]

QuotaMap == [q \in QuotaScope |-> Known(quota, q)]

LEMMA ViewIs ==
    /\ View = [health |-> HealthMap, quota |-> QuotaMap, credential |-> EmptyStore.credential]
    /\ View' = [health |-> HealthMap', quota |-> QuotaMap', credential |-> EmptyStore.credential]
  <1>1. EmptyStore = [health |-> EmptyStore.health, quota |-> EmptyStore.quota,
                      credential |-> EmptyStore.credential]
    BY DEF EmptyStore
  <1>2. /\ View = [EmptyStore EXCEPT !.health = HealthMap, !.quota = QuotaMap]
        /\ View' = [EmptyStore EXCEPT !.health = HealthMap', !.quota = QuotaMap']
    BY DEF View, HealthMap, QuotaMap
  <1> QED  BY <1>1, <1>2

\* StoreMap has the definitions of module StateStore under the same constants.
LEMMA SameDefinitions ==
    /\ Map!EmptyStore = EmptyStore
    /\ \A st, p, m, state, ticks :
          Map!SetHealth(st, p, m, state, ticks) = SetHealth(st, p, m, state, ticks)
    /\ \A st, p, k, m, state, ticks :
          Map!SetQuota(st, p, k, m, state, ticks) = SetQuota(st, p, k, m, state, ticks)
  <1>1. Map!EmptyStore = EmptyStore
    BY DEF Map!EmptyStore, EmptyStore, Map!HealthScope, HealthScope, Map!QuotaScope, QuotaScope,
           Map!NoRow, NoRow
  <1>2. \A st, p, m, state, ticks :
           Map!SetHealth(st, p, m, state, ticks) = SetHealth(st, p, m, state, ticks)
    BY DEF Map!SetHealth, SetHealth
  <1>3. \A st, p, k, m, state, ticks :
           Map!SetQuota(st, p, k, m, state, ticks) = SetQuota(st, p, k, m, state, ticks)
    BY DEF Map!SetQuota, SetQuota
  <1> QED  BY <1>1, <1>2, <1>3

LEMMA InitMaps == Init => Map!Init
  <1> SUFFICES ASSUME Init PROVE View = EmptyStore /\ Up \in BOOLEAN
    BY SameDefinitions DEF Map!Init, Up
  <1>1. \A scope : Known({}, scope) = NoRow
    BY KnownNot
  <1>2. HealthMap = EmptyStore.health /\ QuotaMap = EmptyStore.quota
    BY <1>1 DEF Init, HealthMap, QuotaMap, EmptyStore
  <1>3. View = EmptyStore
    BY <1>2, ViewIs DEF EmptyStore
  <1> QED  BY <1>3 DEF Up

\* A write of a health row is one observation of its scope.
LEMMA WriteHealthMaps ==
    ASSUME RInv, NEW empty \in {NoModel, Null}, WriteHealth(empty),
           mode \in {"legacy", "serving"},
           mode = "serving" => empty = NoModel, mode = "legacy" => empty = Null
    PROVE  \E p \in Providers, m \in Models \cup {NoModel}, v \in HealthValues :
              View' = SetHealth(View, p, m, v.state, v.left)
  <1>1. PICK p \in Providers, m \in Models \cup {empty}, v \in HealthValues :
           health' = Upserted(health, [rowid |-> 0, provider |-> p, key |-> NoKey,
                                       model |-> m, value |-> v])
    BY DEF WriteHealth
  <1> DEFINE row == [rowid |-> 0, provider |-> p, key |-> NoKey, model |-> m, value |-> v]
             model == Coalesce(m, NoModel)
  <1>2. row \in Row /\ row.value = v
    BY DEF Row
  <1>3. model \in Models \cup {NoModel}
    BY DEF Coalesce
  <1>4. ScopeOf(row) = <<p, NoKey, model>>
    BY SqliteAssumption DEF ScopeOf, Coalesce
  <1>5. /\ health \in SUBSET Row /\ UniqueIds(health) /\ Bounded(health)
        /\ health \subseteq HealthTableRow
    BY TablesAreRows DEF RInv, IInv, TypeOK
  <1>6. \A old \in health : ScopeOf(old) = ScopeOf(row) => old.key = row.key /\ old.model = row.model
    <2> SUFFICES ASSUME NEW old \in health, ScopeOf(old) = ScopeOf(row)
                 PROVE  old.key = row.key /\ old.model = row.model
      OBVIOUS
    <2>1. old.key = NoKey /\ old.model \in Models \cup {NoModel, Null}
      BY <1>5 DEF HealthTableRow
    <2>2. Coalesce(old.model, NoModel) = Coalesce(m, NoModel)
      BY DEF ScopeOf
    <2>3. CASE mode = "serving"
      <3>1. old.model # Null /\ m # Null
        BY <2>3, SqliteAssumption DEF RInv, IInv, Progress, Done, NoNulls
      <3> QED  BY <2>1, <2>2, <3>1 DEF Coalesce
    <2>4. CASE mode = "legacy"
      <3>1. old.model # NoModel /\ m # NoModel
        BY <2>4, ScopeAssumption, SqliteAssumption DEF RInv, OneEncoding
      <3> QED  BY <2>1, <2>2, <3>1 DEF Coalesce
    <2> QED  BY <2>3, <2>4
  <1>7. health' = Upserted(health, row) /\ quota' = quota
    BY <1>1 DEF WriteHealth
  <1> HIDE DEF row, model
  <1>8. \A scope : Known(health', scope)
                      = IF scope = <<p, NoKey, model>> THEN v ELSE Known(health, scope)
    BY <1>2, <1>4, <1>5, <1>6, <1>7, KnownUpserted
  <1>9. v = [state |-> v.state, left |-> v.left]
    BY SqliteAssumption DEF HealthRow
  <1>10. HealthMap' = [HealthMap EXCEPT ![<<p, model>>] = v]
    <2>1. \A h \in HealthScope : Known(health', <<h[1], NoKey, h[2]>>)
                 = IF h = <<p, model>> THEN v ELSE Known(health, <<h[1], NoKey, h[2]>>)
      BY <1>8 DEF HealthScope
    <2> QED  BY <2>1, <1>3 DEF HealthMap, HealthScope
  <1>11. QuotaMap' = QuotaMap
    BY <1>7 DEF QuotaMap
  <1>12. View' = SetHealth(View, p, model, v.state, v.left)
    <2>1. SetHealth(View, p, model, v.state, v.left)
             = [health |-> [HealthMap EXCEPT ![<<p, model>>] = v], quota |-> QuotaMap,
                credential |-> EmptyStore.credential]
      BY ViewIs, <1>9 DEF SetHealth
    <2> QED  BY <2>1, <1>10, <1>11, ViewIs
  <1> QED  BY <1>3, <1>12

\* A write of a quota row is one observation of its scope.
LEMMA WriteQuotaMaps ==
    ASSUME RInv, NEW emptyKey \in {NoKey, Null}, NEW emptyModel \in {NoModel, Null},
           WriteQuota(emptyKey, emptyModel), mode \in {"legacy", "serving"},
           mode = "serving" => emptyKey = NoKey /\ emptyModel = NoModel,
           mode = "legacy" => emptyKey = Null /\ emptyModel = Null
    PROVE  \E p \in Providers, k \in Keys \cup {NoKey}, m \in Models \cup {NoModel},
              v \in QuotaValues : View' = SetQuota(View, p, k, m, v.state, v.left)
  <1>1. PICK p \in Providers, m \in Models \cup {emptyModel}, v \in QuotaValues :
           \E k \in IF p \in Executors THEN {emptyKey} ELSE Keys :
              quota' = Upserted(quota, [rowid |-> 0, provider |-> p, key |-> k,
                                        model |-> m, value |-> v])
    BY DEF WriteQuota
  <1>2. PICK k \in Keys \cup {emptyKey} :
           quota' = Upserted(quota, [rowid |-> 0, provider |-> p, key |-> k,
                                     model |-> m, value |-> v])
    BY <1>1
  <1> DEFINE row == [rowid |-> 0, provider |-> p, key |-> k, model |-> m, value |-> v]
             key == Coalesce(k, NoKey)
             model == Coalesce(m, NoModel)
  <1>3. row \in Row /\ row.value = v
    BY DEF Row
  <1>4. key \in Keys \cup {NoKey} /\ model \in Models \cup {NoModel}
    BY DEF Coalesce
  <1>5. ScopeOf(row) = <<p, key, model>>
    BY DEF ScopeOf
  <1>6. /\ quota \in SUBSET Row /\ UniqueIds(quota) /\ Bounded(quota)
        /\ quota \subseteq QuotaTableRow
    BY TablesAreRows DEF RInv, IInv, TypeOK
  <1>7. \A old \in quota : ScopeOf(old) = ScopeOf(row) => old.key = row.key /\ old.model = row.model
    <2> SUFFICES ASSUME NEW old \in quota, ScopeOf(old) = ScopeOf(row)
                 PROVE  old.key = row.key /\ old.model = row.model
      OBVIOUS
    <2>1. old.key \in Keys \cup {NoKey, Null} /\ old.model \in Models \cup {NoModel, Null}
      BY <1>6 DEF QuotaTableRow
    <2>2. /\ Coalesce(old.key, NoKey) = Coalesce(k, NoKey)
          /\ Coalesce(old.model, NoModel) = Coalesce(m, NoModel)
      BY DEF ScopeOf
    <2>3. CASE mode = "serving"
      <3>1. old.key # Null /\ old.model # Null /\ k # Null /\ m # Null
        BY <2>3, SqliteAssumption DEF RInv, IInv, Progress, Done, NoNulls
      <3> QED  BY <2>1, <2>2, <3>1 DEF Coalesce
    <2>4. CASE mode = "legacy"
      <3>1. old.key # NoKey /\ old.model # NoModel /\ k # NoKey /\ m # NoModel
        BY <2>4, ScopeAssumption, SqliteAssumption DEF RInv, OneEncoding
      <3> QED  BY <2>1, <2>2, <3>1 DEF Coalesce
    <2> QED  BY <2>3, <2>4
  <1>8. quota' = Upserted(quota, row) /\ health' = health
    BY <1>2 DEF WriteQuota
  <1> HIDE DEF row, key, model
  <1>9. \A scope : Known(quota', scope)
                      = IF scope = <<p, key, model>> THEN v ELSE Known(quota, scope)
    BY <1>3, <1>5, <1>6, <1>7, <1>8, KnownUpserted
  <1>10. v = [state |-> v.state, left |-> v.left]
    BY SqliteAssumption DEF QuotaRow
  <1>11. QuotaMap' = [QuotaMap EXCEPT ![<<p, key, model>>] = v]
    BY <1>4, <1>9 DEF QuotaMap, QuotaScope
  <1>12. HealthMap' = HealthMap
    BY <1>8 DEF HealthMap
  <1>13. View' = SetQuota(View, p, key, model, v.state, v.left)
    <2>1. SetQuota(View, p, key, model, v.state, v.left)
             = [health |-> HealthMap, quota |-> [QuotaMap EXCEPT ![<<p, key, model>>] = v],
                credential |-> EmptyStore.credential]
      BY ViewIs, <1>10 DEF SetQuota
    <2> QED  BY <2>1, <1>11, <1>12, ViewIs
  <1> QED  BY <1>4, <1>13

\* A statement of a start changes nothing that is known.
LEMMA ExecuteMaps ==
    ASSUME RInv, Execute
    PROVE  View' = View
  <1>1. IInv
    BY DEF RInv
  <1>2. /\ health' \in {health, Deduped(health), Normalised(health)}
        /\ quota' \in {quota, Deduped(quota), Normalised(quota)}
    BY <1>1, StatementDoes
  <1>3. health \in SUBSET Row /\ UniqueIds(health) /\ quota \in SUBSET Row /\ UniqueIds(quota)
    BY <1>1, TablesAreRows DEF IInv, TypeOK
  <1>4. \A scope : Known(health', scope) = Known(health, scope)
    BY <1>2, <1>3, KnownDeduped, KnownNormalised
  <1>5. \A scope : Known(quota', scope) = Known(quota, scope)
    BY <1>2, <1>3, KnownDeduped, KnownNormalised
  <1>6. HealthMap' = HealthMap /\ QuotaMap' = QuotaMap
    BY <1>4, <1>5 DEF HealthMap, QuotaMap
  <1> QED  BY <1>6, ViewIs

\* Every step of the tables is a step of the maps, or none.
LEMMA StepMaps == RInv /\ [Next]_vars => [Map!Next]_(Map!vars)
  <1> SUFFICES ASSUME RInv, [Next]_vars
               PROVE  \/ View' = View /\ Up' = Up
                      \/ View' = View /\ Up' = ~Up
                      \/ /\ Up /\ Up' = Up
                         /\ \/ \E p \in Providers, m \in Models \cup {NoModel}, v \in HealthValues :
                                  View' = SetHealth(View, p, m, v.state, v.left)
                            \/ \E p \in Providers, k \in Keys \cup {NoKey},
                                   m \in Models \cup {NoModel}, v \in QuotaValues :
                                  View' = SetQuota(View, p, k, m, v.state, v.left)
    BY SameDefinitions DEF Map!Next, Map!vars, Map!ObserveHealth, Map!ObserveQuota, Up
  <1>1. Up \in BOOLEAN /\ Up' \in BOOLEAN
    BY DEF Up
  <1>2. CASE UNCHANGED vars
    <2>1. HealthMap' = HealthMap /\ QuotaMap' = QuotaMap /\ Up' = Up
      BY <1>2 DEF vars, HealthMap, QuotaMap, Up
    <2> QED  BY <2>1, ViewIs
  <1>3. CASE Set
    <2>1. mode = "serving" /\ mode' = mode
      BY <1>3 DEF Set, WriteHealth, WriteQuota
    <2>2. Up /\ Up' = Up
      BY <2>1 DEF Up
    <2>3. CASE WriteHealth(NoModel)
      BY <2>1, <2>2, <2>3, WriteHealthMaps
    <2>4. CASE WriteQuota(NoKey, NoModel)
      BY <2>1, <2>2, <2>4, WriteQuotaMaps
    <2> QED  BY <1>3, <2>3, <2>4 DEF Set
  <1>4. CASE SetInLegacy
    <2>1. mode = "legacy" /\ mode' = mode
      BY <1>4 DEF SetInLegacy, WriteHealth, WriteQuota
    <2>2. Up /\ Up' = Up
      BY <2>1 DEF Up
    <2>3. CASE WriteHealth(Null)
      BY <2>1, <2>2, <2>3, WriteHealthMaps
    <2>4. CASE WriteQuota(Null, Null)
      BY <2>1, <2>2, <2>4, WriteQuotaMaps
    <2> QED  BY <1>4, <2>3, <2>4 DEF SetInLegacy
  <1>5. CASE Start \/ Stop
    <2>1. HealthMap' = HealthMap /\ QuotaMap' = QuotaMap
      BY <1>5 DEF Start, Stop, HealthMap, QuotaMap
    <2> QED  BY <1>1, <2>1, ViewIs
  <1>6. CASE Execute
    BY <1>1, <1>6, ExecuteMaps
  <1> QED  BY <1>2, <1>3, <1>4, <1>5, <1>6 DEF Next

\* Migrations, crashes and restarts change nothing that is known; writes change
\* their own scope: the tables implement the two maps.
THEOREM TablesAreMaps == Spec => KeepsObservations
  <1> QED  BY RInvInit, RInvStep, InitMaps, StepMaps, PTL DEF Spec, KeepsObservations, Map!Spec

-----------------------------------------------------------------------------
(* The lookups in SQL find what module StateStore chooses.                  *)

\* In a migrated table, the rows about a scope are one, the one that is known, or
\* none.
LEMMA FetchesKnown ==
    ASSUME NEW table \in SUBSET Row, UniqueIds(table), UniqueScopes(table),
           \A row \in table : row.value # NoRow,
           NEW scope, NEW rows, rows = {row \in table : ScopeOf(row) = scope}
    PROVE  /\ Fetched(rows) = {Known(table, scope)}
           /\ rows # {} <=> Known(table, scope) # NoRow
  <1>1. CASE rows = {}
    <2>1. Known(table, scope) = NoRow
      BY <1>1, KnownNot
    <2> QED  BY <1>1, <2>1 DEF Fetched
  <1>2. CASE rows # {}
    <2>1. PICK row \in table : row \in rows /\ ScopeOf(row) = scope
      BY <1>2
    <2>2. rows = {row}
      BY <2>1 DEF UniqueScopes
    <2>3. IsNewest(row, table)
      <3>1. row.rowid <= row.rowid
        BY <2>1 DEF Row
      <3> QED  BY <3>1 DEF IsNewest, UniqueScopes
    <2>4. Known(table, scope) = row.value
      BY <2>1, <2>3, KnownIs
    <2>5. Fetched(rows) = {row.value}
      BY <2>2 DEF Fetched
    <2> QED  BY <1>2, <2>1, <2>4, <2>5
  <1> QED  BY <1>1, <1>2

\* A row without NULLs is about the scope that its columns name.
LEMMA ScopeOfColumns ==
    ASSUME NEW row, row.key # Null, row.model # Null
    PROVE  ScopeOf(row) = <<row.provider, row.key, row.model>>
  BY DEF ScopeOf, Coalesce

\* What the view shows of the tables.
LEMMA ViewTables == View.health = HealthMap /\ View.quota = QuotaMap
  BY ViewIs

\* The health lookup.
LEMMA HealthLookup ==
    ASSUME IInv, mode = "serving", NEW p \in Providers, NEW m \in Models \cup {NoModel}
    PROVE  Fetched(HealthRowsFor(p, m)) = {HealthRowOf(View, p, m)}
  <1> DEFINE at(model) == {row \in health : row.provider = p /\ row.model = model}
             is(model) == Known(health, <<p, NoKey, model>>)
  <1>1. /\ health \in SUBSET Row /\ UniqueIds(health) /\ UniqueScopes(health)
        /\ \A row \in health : row.key = NoKey /\ row.model # Null /\ row.value # NoRow
    BY TablesAreRows, SqliteAssumption
       DEF IInv, TypeOK, Progress, Done, NoNulls, HealthTableRow
  <1>2. NoKey # Null
    BY SqliteAssumption
  <1>3. ASSUME NEW model
        PROVE  at(model) = {row \in health : ScopeOf(row) = <<p, NoKey, model>>}
    BY <1>1, <1>2, ScopeOfColumns
  <1>4. ASSUME NEW model
        PROVE  Fetched(at(model)) = {is(model)} /\ (at(model) # {} <=> is(model) # NoRow)
    <2>1. at(model) = {row \in health : ScopeOf(row) = <<p, NoKey, model>>}
      BY <1>3
    <2> HIDE DEF at
    <2> QED  BY <1>1, <2>1, FetchesKnown
  <1>5. HealthRowsFor(p, m) = IF at(m) # {} THEN at(m) ELSE at(NoModel)
    BY DEF HealthRowsFor
  <1>6. View.health[<<p, m>>] = is(m) /\ View.health[<<p, NoModel>>] = is(NoModel)
    BY ViewTables DEF HealthMap, HealthScope
  <1> HIDE DEF at, is
  <1>7. HealthRowOf(View, p, m) = IF is(m) # NoRow THEN is(m) ELSE is(NoModel)
    BY <1>6 DEF HealthRowOf
  <1> QED  BY <1>4, <1>5, <1>7

\* The quota lookup.
LEMMA QuotaLookup ==
    ASSUME IInv, mode = "serving", NEW p \in Providers, NEW k \in Keys \cup {NoKey},
           NEW m \in Models \cup {NoModel}
    PROVE  Fetched(QuotaRowsFor(p, k, m)) = {QuotaRowOf(View, p, k, m)}
  <1> DEFINE at(key, model) == {row \in quota : /\ row.provider = p
                                                /\ row.key = key
                                                /\ row.model = model}
             is(key, model) == Known(quota, <<p, key, model>>)
  <1>1. /\ quota \in SUBSET Row /\ UniqueIds(quota) /\ UniqueScopes(quota)
        /\ \A row \in quota : row.key # Null /\ row.model # Null /\ row.value # NoRow
    BY TablesAreRows, SqliteAssumption
       DEF IInv, TypeOK, Progress, Done, NoNulls, QuotaTableRow
  <1>2. ASSUME NEW key, NEW model
        PROVE  at(key, model) = {row \in quota : ScopeOf(row) = <<p, key, model>>}
    BY <1>1, ScopeOfColumns
  <1>3. ASSUME NEW key, NEW model
        PROVE  /\ Fetched(at(key, model)) = {is(key, model)}
               /\ at(key, model) # {} <=> is(key, model) # NoRow
    <2>1. at(key, model) = {row \in quota : ScopeOf(row) = <<p, key, model>>}
      BY <1>2
    <2> HIDE DEF at
    <2> QED  BY <1>1, <2>1, FetchesKnown
  <1>4. QuotaRowsFor(p, k, m) = IF at(k, m) # {} THEN at(k, m)
                                ELSE IF at(k, NoModel) # {} THEN at(k, NoModel)
                                ELSE at(NoKey, NoModel)
    BY DEF QuotaRowsFor
  <1>5. /\ View.quota[<<p, k, m>>] = is(k, m)
        /\ View.quota[<<p, k, NoModel>>] = is(k, NoModel)
        /\ View.quota[<<p, NoKey, NoModel>>] = is(NoKey, NoModel)
    BY ViewTables DEF QuotaMap, QuotaScope
  <1> HIDE DEF at, is
  <1>6. QuotaRowOf(View, p, k, m) = IF is(k, m) # NoRow THEN is(k, m)
                                    ELSE IF is(k, NoModel) # NoRow THEN is(k, NoModel)
                                    ELSE is(NoKey, NoModel)
    BY <1>5 DEF QuotaRowOf
  <1> QED  BY <1>3, <1>4, <1>6

\* The SQL of the lookups and the model that the routing is proved about agree, in
\* every migrated database: the engine's checks are made of the latest observations.
THEOREM LookupsFindTheLatest == Spec => []LookupsAgree
  <1>1. IInv => LookupsAgree
    BY HealthLookup, QuotaLookup DEF LookupsAgree
  <1> QED  BY InitOK, StepOK, <1>1, PTL DEF Spec

-----------------------------------------------------------------------------
(* The test double agrees, because a provider has keys or it has none.      *)

\* Only an executor has rows without a key.
ExecutorsHaveNoKeys == \A row \in quota : row.key \in {NoKey, Null} => row.provider \in Executors

\* The rows keep to that.
LEMMA NoKeysStep == IInv /\ ExecutorsHaveNoKeys /\ [Next]_vars => ExecutorsHaveNoKeys'
  <1> SUFFICES ASSUME IInv, ExecutorsHaveNoKeys, [Next]_vars PROVE ExecutorsHaveNoKeys'
    OBVIOUS
  <1>0. quota \in SUBSET Row
    BY TablesAreRows DEF IInv
  <1>1. CASE quota' = quota
    BY <1>1 DEF ExecutorsHaveNoKeys
  <1>2. ASSUME NEW emptyKey \in {NoKey, Null}, NEW emptyModel \in {NoModel, Null},
               WriteQuota(emptyKey, emptyModel)
        PROVE  ExecutorsHaveNoKeys'
    <2>1. PICK p \in Providers, m \in Models \cup {emptyModel}, v \in QuotaValues :
             \E k \in IF p \in Executors THEN {emptyKey} ELSE Keys :
                quota' = Upserted(quota, [rowid |-> 0, provider |-> p, key |-> k,
                                          model |-> m, value |-> v])
      BY <1>2 DEF WriteQuota
    <2>2. PICK k \in Keys \cup {emptyKey} :
             /\ p \notin Executors => k \in Keys
             /\ quota' = Upserted(quota, [rowid |-> 0, provider |-> p, key |-> k,
                                          model |-> m, value |-> v])
      BY <2>1
    <2> DEFINE row == [rowid |-> 0, provider |-> p, key |-> k, model |-> m, value |-> v]
    <2>3. row \in Row /\ row.provider = p /\ row.key = k
      BY DEF Row
    <2>4. quota' = Upserted(quota, row)
      BY <2>2
    <2>5. k \in {NoKey, Null} => p \in Executors
      BY <2>2, ScopeAssumption, SqliteAssumption
    <2> HIDE DEF row
    <2>6. \A new \in quota' : new \in quota \/ (new.provider = p /\ new.key = k)
      BY <1>0, <2>3, <2>4, UpsertedEncoding
    <2> QED  BY <2>5, <2>6 DEF ExecutorsHaveNoKeys
  <1>3. CASE quota' = Deduped(quota)
    BY <1>3 DEF Deduped, ExecutorsHaveNoKeys
  <1>4. CASE quota' = Normalised(quota)
    <2>1. ASSUME NEW new \in quota'
          PROVE  \E row \in quota : new.provider = row.provider /\ new.key = Coalesce(row.key, NoKey)
      <3>1. PICK row \in quota :
               new = [row EXCEPT !.key = Coalesce(@, NoKey), !.model = Coalesce(@, NoModel)]
        BY <1>4 DEF Normalised
      <3> QED  BY <1>0, <3>1 DEF Row
    <2> QED  BY <2>1 DEF ExecutorsHaveNoKeys, Coalesce
  <1>5. CASE Execute
    BY <1>1, <1>3, <1>4, <1>5, StatementDoes
  <1>6. CASE Set \/ SetInLegacy
    BY <1>1, <1>2, <1>6 DEF Set, SetInLegacy, WriteHealth
  <1>7. CASE Start \/ Stop \/ UNCHANGED vars
    BY <1>1, <1>7 DEF Start, Stop, vars
  <1> QED  BY <1>5, <1>6, <1>7 DEF Next

\* Of a provider with keys nothing is known without a key.
LEMMA KeylessUnknown ==
    ASSUME ExecutorsHaveNoKeys, NEW p \in Providers, p \notin Executors,
           NEW m \in Models \cup {NoModel}
    PROVE  View.quota[<<p, NoKey, m>>] = NoRow
  <1>1. \A row \in quota : ScopeOf(row) # <<p, NoKey, m>>
    BY DEF ExecutorsHaveNoKeys, ScopeOf, Coalesce
  <1>2. Known(quota, <<p, NoKey, m>>) = NoRow
    BY <1>1, KnownNot
  <1> QED  BY <1>2, ViewTables DEF QuotaMap, QuotaScope

\* The two orders differ in where the model of any key comes, and there is none.
LEMMA SameAnswer ==
    ASSUME ExecutorsHaveNoKeys
    PROVE  DoubleAgrees
  <1> SUFFICES ASSUME NEW p \in Providers, NEW m \in Models,
                      NEW k \in IF p \in Executors THEN {NoKey} ELSE Keys
               PROVE  InMemoryQuota(p, k, m) = QuotaRowOf(View, p, k, m)
    BY DEF DoubleAgrees
  <1>1. CASE k = NoKey
    BY <1>1 DEF InMemoryQuota, QuotaRowOf
  <1>2. CASE p \notin Executors
    BY <1>2, KeylessUnknown DEF InMemoryQuota, QuotaRowOf
  <1> QED  BY <1>1, <1>2

\* What the tests that run on the in-memory store show of quota lookups carries
\* over to the tables, in every scope that the engine asks for.
THEOREM DoubleIsFaithful == Spec => []DoubleAgrees
  <1>1. Init => ExecutorsHaveNoKeys
    BY DEF Init, ExecutorsHaveNoKeys
  <1> QED  BY <1>1, NoKeysStep, SameAnswer, InitOK, StepOK, PTL DEF Spec

=============================================================================
