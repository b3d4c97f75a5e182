---------------------------- MODULE RoutingProofs ----------------------------
(***************************************************************************)
(* Lemmas for the proofs about the modules that use Routing: numbers, the  *)
(* operations on the store and the state written after an attempt.         *)
(***************************************************************************)
EXTENDS Routing, WellFoundedInduction, TLAPS

-----------------------------------------------------------------------------
(* Numbers.                                                                 *)

\* A set of numbers that is not empty has a least member.
LEMMA LeastNumber ==
    ASSUME NEW numbers \in SUBSET Nat, numbers # {}
    PROVE  \E least \in numbers : \A n \in numbers : least <= n
  <1> DEFINE less == OpToRel(<, Nat)
  <1>1. IsWellFoundedOn(less, Nat)
    BY NatLessThanWellFounded
  <1>2. PICK least \in numbers : \A n \in numbers : ~ (<<n, least>> \in less)
    <2> HIDE DEF less
    <2> QED  BY <1>1, WFMin
  <1>3. \A n \in numbers : ~ (n < least)
    BY <1>2 DEF OpToRel
  <1>4. \A n \in numbers : least <= n
    BY <1>3
  <1> QED  BY <1>4

\* A set of numbers that is bounded and not empty has a greatest member.
LEMMA GreatestNumber ==
    ASSUME NEW numbers \in SUBSET Nat, numbers # {},
           NEW bound \in Nat, \A n \in numbers : n <= bound
    PROVE  \E greatest \in numbers : \A n \in numbers : n <= greatest
  <1> DEFINE bounds == {b \in Nat : \A n \in numbers : n <= b}
  <1>1. bounds \in SUBSET Nat /\ bounds # {}
    OBVIOUS
  <1>2. PICK least \in bounds : \A b \in bounds : least <= b
    <2> HIDE DEF bounds
    <2> QED  BY <1>1, LeastNumber
  <1>3. ASSUME least \notin numbers PROVE FALSE
    <2>1. least \in Nat /\ \A n \in numbers : n < least
      BY <1>2, <1>3
    <2> HIDE DEF bounds
    <2>2. least # 0
      <3>1. PICK n \in numbers : n < least
        BY <2>1
      <3>2. n \in Nat
        OBVIOUS
      <3> QED  BY <2>1, <3>1, <3>2
    <2>3. least - 1 \in Nat /\ \A n \in numbers : n \in Nat /\ n <= least - 1
      BY <2>1, <2>2
    <2>4. least - 1 \in bounds
      BY <2>3 DEF bounds
    <2>5. least <= least - 1
      BY <1>2, <2>4
    <2> QED  BY <2>1, <2>5
  <1> QED  BY <1>2, <1>3

-----------------------------------------------------------------------------
(* The store's operations keep its type.                                    *)

\* A store without rows is a store.
LEMMA EmptyStoreType == EmptyStore \in Store
  BY DEF EmptyStore, Store, HealthRow, QuotaRow, CredentialState, NoRow

\* Replacing one health row gives a store.
LEMMA SetHealthType ==
    ASSUME NEW st \in Store, NEW p \in Providers, NEW m \in Models \cup {NoModel},
           NEW state \in HealthState, NEW ticks \in Nat
    PROVE  SetHealth(st, p, m, state, ticks) \in Store
  BY DEF SetHealth, Store, HealthRow, HealthScope

\* Replacing one quota row gives a store.
LEMMA SetQuotaType ==
    ASSUME NEW st \in Store, NEW p \in Providers, NEW k \in Keys \cup {NoKey},
           NEW m \in Models \cup {NoModel}, NEW state \in QuotaState, NEW ticks \in Nat
    PROVE  SetQuota(st, p, k, m, state, ticks) \in Store
  BY DEF SetQuota, Store, QuotaRow, QuotaScope

\* Replacing one credential row gives a store.
LEMMA SetCredentialType ==
    ASSUME NEW st \in Store, NEW p \in Providers, NEW k \in Keys,
           NEW state \in CredentialState
    PROVE  SetCredential(st, p, k, state) \in Store
  BY DEF SetCredential, Store

\* The clock keeps a row a row.
LEMMA OlderType ==
    ASSUME NEW S, NEW row \in [state : S, left : Nat] \cup {NoRow}
    PROVE  Older(row) \in [state : S, left : Nat] \cup {NoRow}
  <1>1. CASE row = NoRow
    <2>1. row.left = 0
      BY <1>1 DEF NoRow
    <2>2. ~(row.left > 0)
      BY <2>1
    <2> QED  BY <1>1, <2>2 DEF Older
  <1>2. CASE row \in [state : S, left : Nat]
    <2>1. row.left \in Nat
      BY <1>2
    <2>2. CASE row.left > 0
      <3>1. row.left - 1 \in Nat
        BY <2>1, <2>2
      <3>2. [row EXCEPT !.left = @ - 1] \in [state : S, left : Nat]
        BY <1>2, <3>1
      <3> QED  BY <2>2, <3>2 DEF Older
    <2>3. CASE ~(row.left > 0)
      BY <1>2, <2>3 DEF Older
    <2> QED  BY <2>2, <2>3
  <1> QED  BY <1>1, <1>2

\* The clock keeps the store a store.
LEMMA AgeType == ASSUME NEW st \in Store PROVE Age(st) \in Store
  <1>1. \A h \in HealthScope : st.health[h] \in HealthRow
    BY DEF Store
  <1>2. \A q \in QuotaScope : st.quota[q] \in QuotaRow
    BY DEF Store
  <1>3. \A h \in HealthScope : Older(st.health[h]) \in HealthRow
    BY <1>1, OlderType DEF HealthRow
  <1>4. \A q \in QuotaScope : Older(st.quota[q]) \in QuotaRow
    BY <1>2, OlderType DEF QuotaRow
  <1> QED  BY <1>3, <1>4 DEF Age, Store

\* Whatever an attempt ends in, the state written is a store.  A candidate
\* without a key never ends in auth (see EngineAssumption).
LEMMA ApplyFailureType ==
    ASSUME NEW st \in Store, NEW c \in Candidate, NEW class \in ErrorClass,
           c.key = NoKey => class # "auth"
    PROVE  ApplyFailure(st, c, class) \in Store
  <1>1. c.provider \in Providers /\ c.key \in Keys \cup {NoKey} /\ c.model \in Models
    BY DEF Candidate
  <1>2. CASE class = "auth"
    BY <1>1, <1>2, SetCredentialType DEF ApplyFailure, CredentialState
  <1>3. CASE class = "quota"
    BY <1>1, <1>3, SetQuotaType DEF ApplyFailure, QuotaState
  <1>4. CASE class = "rate_limit"
    BY <1>1, <1>4, SetQuotaType, PolicyAssumption DEF ApplyFailure, QuotaState
  <1>5. CASE class = "model_not_found"
    BY <1>1, <1>5, SetHealthType DEF ApplyFailure, HealthState
  <1>6. CASE class = "network"
    BY <1>1, <1>6, SetHealthType, PolicyAssumption DEF ApplyFailure, HealthState
  <1>7. CASE class = "server"
    BY <1>1, <1>7, SetHealthType, PolicyAssumption DEF ApplyFailure, HealthState
  <1>8. CASE class \in {"token_limit", "unknown"}
    BY <1>8 DEF ApplyFailure
  <1> QED  BY <1>2, <1>3, <1>4, <1>5, <1>6, <1>7, <1>8 DEF ErrorClass

\* The state written after a success is a store.
LEMMA ApplySuccessType ==
    ASSUME NEW st \in Store, NEW c \in Candidate
    PROVE  ApplySuccess(st, c) \in Store
  BY SetHealthType DEF ApplySuccess, Candidate, HealthState

-----------------------------------------------------------------------------
(* The rows that count for a candidate.                                     *)

\* A row has a number of ticks left, and is no NoRow when it has a state.
LEMMA RowType ==
    ASSUME NEW row \in HealthRow \cup QuotaRow
    PROVE  /\ row.left \in Nat
           /\ row # NoRow => row.state \in HealthState \cup QuotaState
  <1>1. CASE row = NoRow
    BY <1>1 DEF NoRow
  <1>2. CASE row \in [state : HealthState \cup QuotaState, left : Nat]
    BY <1>2
  <1> QED  BY <1>1, <1>2 DEF HealthRow, QuotaRow

\* No row is not the row of any state.
LEMMA NoRowState == NoRow.state \notin HealthState \cup QuotaState
  BY DEF NoRow, HealthState, QuotaState

\* The rows that decide whether candidate d is eligible.
LEMMA RowsOf ==
    ASSUME NEW st \in Store, NEW d \in Candidate
    PROVE  /\ HealthRowOf(st, d.provider, d.model) \in HealthRow
           /\ QuotaRowOf(st, d.provider, d.key, d.model) \in QuotaRow
  <1>1. d.provider \in Providers /\ d.key \in Keys \cup {NoKey} /\ d.model \in Models
    BY DEF Candidate
  <1>2. \A h \in HealthScope : st.health[h] \in HealthRow
    BY DEF Store
  <1>3. \A q \in QuotaScope : st.quota[q] \in QuotaRow
    BY DEF Store
  <1>4. /\ <<d.provider, d.model>> \in HealthScope
        /\ <<d.provider, NoModel>> \in HealthScope
    BY <1>1 DEF HealthScope
  <1>5. /\ <<d.provider, d.key, d.model>> \in QuotaScope
        /\ <<d.provider, d.key, NoModel>> \in QuotaScope
        /\ <<d.provider, NoKey, NoModel>> \in QuotaScope
    BY <1>1 DEF QuotaScope
  <1> QED  BY <1>2, <1>3, <1>4, <1>5 DEF HealthRowOf, QuotaRowOf

\* How the rows that count for a candidate decide whether it is usable.
LEMMA UsableByRows ==
    ASSUME NEW st \in Store, NEW d \in Candidate
    PROVE  Usable(st, d) <=>
              /\ HealthRowOf(st, d.provider, d.model).state # "DOWN"
              /\ QuotaRowOf(st, d.provider, d.key, d.model).state # "EXHAUSTED"
              /\ GetCredential(st, d.provider, d.key) \notin {"DISABLED", "AUTH_ERROR"}
  <1>1. NoRow.state # "DOWN" /\ NoRow.state # "EXHAUSTED"
    BY NoRowState DEF HealthState, QuotaState
  <1> QED  BY <1>1 DEF Usable, GetHealth, GetQuota

\* A cooldown of a provider makes no candidate unusable.
LEMMA DegradedStaysUsable ==
    ASSUME NEW st \in Store, NEW p \in Providers, NEW ticks \in Nat,
           NEW d \in Candidate, Usable(st, d)
    PROVE  Usable(SetHealth(st, p, NoModel, "DEGRADED", ticks), d)
  <1> DEFINE row == [state |-> "DEGRADED", left |-> ticks]
             st2 == SetHealth(st, p, NoModel, "DEGRADED", ticks)
  <1>1. d.provider \in Providers /\ d.key \in Keys \cup {NoKey} /\ d.model \in Models
    BY DEF Candidate
  <1>2. st2 \in Store
    BY SetHealthType DEF HealthState
  <1>3. st2 = [st EXCEPT !.health[<<p, NoModel>>] = row]
    BY DEF SetHealth
  <1>4. row.state # "DOWN"
    OBVIOUS
  <1> HIDE DEF row
  <1>5. st2.quota = st.quota /\ st2.credential = st.credential
    BY <1>3 DEF Store
  <1>6. \A h \in HealthScope : \/ st2.health[h] = st.health[h]
                               \/ h = <<p, NoModel>> /\ st2.health[h] = row
    BY <1>3 DEF Store
  <1> HIDE DEF st2
  <1>7. /\ st2.health[<<d.provider, d.model>>] = st.health[<<d.provider, d.model>>]
        /\ \/ st2.health[<<d.provider, NoModel>>] = st.health[<<d.provider, NoModel>>]
           \/ st2.health[<<d.provider, NoModel>>] = row
    BY <1>1, <1>6, ScopeAssumption DEF HealthScope
  <1>8. \/ HealthRowOf(st2, d.provider, d.model) = HealthRowOf(st, d.provider, d.model)
        \/ HealthRowOf(st2, d.provider, d.model) = row
    BY <1>7 DEF HealthRowOf
  <1>9. /\ QuotaRowOf(st2, d.provider, d.key, d.model) = QuotaRowOf(st, d.provider, d.key, d.model)
        /\ GetCredential(st2, d.provider, d.key) = GetCredential(st, d.provider, d.key)
    BY <1>5 DEF QuotaRowOf, GetCredential
  <1>10. Usable(st2, d)
    BY <1>2, <1>4, <1>8, <1>9, UsableByRows
  <1> QED  BY <1>10 DEF st2

\* A rate limit leaves the candidate it is about usable.
LEMMA LimitedStaysUsable ==
    ASSUME NEW st \in Store, NEW d \in Candidate, NEW ticks \in Nat, Usable(st, d)
    PROVE  Usable(SetQuota(st, d.provider, d.key, d.model, "RATE_LIMITED", ticks), d)
  <1> DEFINE row == [state |-> "RATE_LIMITED", left |-> ticks]
             st2 == SetQuota(st, d.provider, d.key, d.model, "RATE_LIMITED", ticks)
  <1>1. d.provider \in Providers /\ d.key \in Keys \cup {NoKey} /\ d.model \in Models
    BY DEF Candidate
  <1>2. st2 \in Store
    BY <1>1, SetQuotaType DEF QuotaState
  <1>3. st2.health = st.health /\ st2.credential = st.credential
    BY DEF SetQuota, Store
  <1>4. row # NoRow /\ row.state # "EXHAUSTED"
    BY NoRowState DEF QuotaState
  <1>5. st2.quota[<<d.provider, d.key, d.model>>] = row
    BY <1>1 DEF SetQuota, Store, QuotaScope
  <1> HIDE DEF st2, row
  <1>6. QuotaRowOf(st2, d.provider, d.key, d.model) = row
    BY <1>4, <1>5 DEF QuotaRowOf
  <1>7. /\ HealthRowOf(st2, d.provider, d.model) = HealthRowOf(st, d.provider, d.model)
        /\ GetCredential(st2, d.provider, d.key) = GetCredential(st, d.provider, d.key)
    BY <1>3 DEF HealthRowOf, GetCredential
  <1>8. Usable(st2, d)
    BY <1>2, <1>4, <1>6, <1>7, UsableByRows
  <1> QED  BY <1>8 DEF st2

=============================================================================
