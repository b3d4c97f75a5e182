------------------------- MODULE ErrorClassifierProofs -------------------------
(***************************************************************************)
(* For every route, every set of statuses and every set of bodies: what    *)
(* takes a candidate out for good is what an upstream said of its own key  *)
(* or of its own model.  The argument goes through the rows of the store:  *)
(* each row that no cooldown ends stands for a statement about its scope.  *)
(***************************************************************************)
EXTENDS ErrorClassifier, RoutingProofs

-----------------------------------------------------------------------------
(* What a class of failure says.                                            *)

\* Where a body holds a family, the least place found is one of the six.
LEMMA FirstFound ==
    ASSUME NEW body, Found(body) # {}
    PROVE  (CHOOSE n \in Found(body) : \A other \in Found(body) : n <= other) \in Found(body)
  <1>1. \E n \in Found(body) : \A other \in Found(body) : n <= other
    <2> DEFINE F == Found(body)
    <2>1. F \subseteq 1..6 /\ F # {}
      BY DEF Found
    <2> HIDE DEF F
    <2>2. \E n \in F : \A other \in F : n <= other
      <3>1. CASE 1 \in F
        BY <2>1, <3>1
      <3>2. CASE 1 \notin F /\ 2 \in F
        BY <2>1, <3>2
      <3>3. CASE 1 \notin F /\ 2 \notin F /\ 3 \in F
        BY <2>1, <3>3
      <3>4. CASE 1 \notin F /\ 2 \notin F /\ 3 \notin F /\ 4 \in F
        BY <2>1, <3>4
      <3>5. CASE 1 \notin F /\ 2 \notin F /\ 3 \notin F /\ 4 \notin F /\ 5 \in F
        BY <2>1, <3>5
      <3>6. CASE F \subseteq {6}
        <4>1. 6 \in F /\ \A other \in F : other = 6
          BY <2>1, <3>6
        <4> QED  BY <4>1
      <3>7. F \cap {1, 2, 3, 4, 5} # {} \/ F \subseteq {6}
        BY <2>1
      <3> QED  BY <3>1, <3>2, <3>3, <3>4, <3>5, <3>6, <3>7
    <2> QED  BY <2>2 DEF F
  <1> QED  BY <1>1

\* A class read from a body is one of its families.
LEMMA FamilyOfBody ==
    ASSUME NEW status, NEW body, Found(body) # {}
    PROVE  /\ ClassifyError(status, body) \in body
           /\ ClassifyError(status, body) \in ErrorClass
  <1> DEFINE n == CHOOSE n \in Found(body) : \A other \in Found(body) : n <= other
  <1>1. n \in Found(body)
    BY FirstFound
  <1>2. ClassifyError(status, body) = Precedence[n]
    BY DEF ClassifyError
  <1> HIDE DEF n
  <1>3. n \in 1..6 /\ Precedence[n] \in body
    BY <1>1 DEF Found
  <1>4. \A i \in 1..6 : Precedence[i] \in ErrorClass
    BY DEF Precedence, ErrorClass
  <1> QED  BY <1>2, <1>3, <1>4

\* A class read from a status: the status says it, or one of the two loose words.
LEMMA ClassOfStatus ==
    ASSUME NEW failure
    PROVE  /\ ByStatus(failure.status, failure.body) \in ErrorClass
           /\ ByStatus(failure.status, failure.body) = "auth" => SaysBadKey(failure)
           /\ ByStatus(failure.status, failure.body) = "quota" => SaysExhausted(failure)
           /\ ByStatus(failure.status, failure.body) = "model_not_found" => SaysNoModel(failure)
  <1> DEFINE status == failure.status
             body   == failure.body
  <1>1. CASE status \in {401, 403}
    <2>1. ByStatus(status, body) = "auth"
      BY <1>1 DEF ByStatus
    <2> QED  BY <1>1, <2>1 DEF ErrorClass, SaysBadKey
  <1>2. CASE status = 404
    <2>1. ByStatus(status, body) = "model_not_found"
      BY <1>2 DEF ByStatus
    <2> QED  BY <1>2, <2>1 DEF ErrorClass, SaysNoModel
  <1>3. CASE status = 429
    <2>1. ByStatus(status, body) = "rate_limit"
      BY <1>3 DEF ByStatus
    <2> QED  BY <2>1 DEF ErrorClass
  <1>4. CASE status \notin {401, 403, 404, 429}
    <2> DEFINE rest == IF Loose(status, body) THEN "quota"
                       ELSE IF status = NoStatus THEN "network"
                       ELSE IF status >= 500 THEN "server" ELSE "unknown"
    <2>1. ByStatus(status, body) = rest
      BY <1>4, Zenon DEF ByStatus
    <2>2. rest \in {"quota", "network", "server", "unknown"}
      OBVIOUS
    <2>3. rest = "quota" => Loose(status, body)
      OBVIOUS
    <2>4. Loose(status, body) => SaysExhausted(failure)
      <3>1. CASE status = 402
        BY <3>1 DEF SaysExhausted
      <3>2. CASE "loose quota" \in body
        BY <3>2 DEF SaysExhausted
      <3> QED  BY <3>1, <3>2 DEF Loose
    <2> HIDE DEF rest
    <2> QED  BY <2>1, <2>2, <2>3, <2>4 DEF ErrorClass
  <1> QED  BY <1>1, <1>2, <1>3, <1>4

\* Whatever the failure, its class is one the engine knows, and one that costs a
\* key or a model for good was said by the status or by the body.
LEMMA ClassIsSaid ==
    ASSUME NEW failure
    PROVE  /\ CandidateFailure(failure) \in ErrorClass
           /\ CandidateFailure(failure) = "auth" => SaysBadKey(failure)
           /\ CandidateFailure(failure) = "quota" => SaysExhausted(failure)
           /\ CandidateFailure(failure) = "model_not_found" => SaysNoModel(failure)
  <1>1. CASE failure.kind = "other"
    <2>1. CandidateFailure(failure) = "server"
      BY <1>1 DEF CandidateFailure
    <2> QED  BY <2>1 DEF ErrorClass
  <1>2. CASE failure.kind # "other" /\ Found(failure.body) # {}
    <2>1. CandidateFailure(failure) = ClassifyError(failure.status, failure.body)
      BY <1>2 DEF CandidateFailure
    <2>2. /\ CandidateFailure(failure) \in failure.body
          /\ CandidateFailure(failure) \in ErrorClass
      BY <1>2, <2>1, FamilyOfBody
    <2> QED  BY <2>2 DEF SaysBadKey, SaysExhausted, SaysNoModel
  <1>3. CASE failure.kind # "other" /\ Found(failure.body) = {}
    <2>1. CandidateFailure(failure) = ByStatus(failure.status, failure.body)
      BY <1>3 DEF CandidateFailure, ClassifyError
    <2> QED  BY <2>1, ClassOfStatus
  <1> QED  BY <1>1, <1>2, <1>3

-----------------------------------------------------------------------------
(* The inductive invariant: every lasting row was told.                     *)

ToldModels ==
    \A p \in Providers, m \in Models \cup {NoModel} :
       store.health[<<p, m>>].state = "DOWN" => <<"no model", p, m>> \in told

ToldQuotas ==
    \A p \in Providers, k \in Keys \cup {NoKey}, m \in Models \cup {NoModel} :
       store.quota[<<p, k, m>>].state = "EXHAUSTED" => <<"exhausted", p, k>> \in told

ToldKeys ==
    \A p \in Providers, k \in Keys :
       store.credential[<<p, k>>] # "ENABLED" => <<"bad key", p, k>> \in told

IInv == TypeOK /\ ToldModels /\ ToldQuotas /\ ToldKeys

\* What is attempted is a candidate with a key.
LEMMA RouteType ==
    ASSUME NEW i \in DOMAIN Route
    PROVE  /\ Route[i] \in Candidate
           /\ Route[i].provider \in Providers
           /\ Route[i].key \in Keys
           /\ Route[i].model \in Models
  <1>1. Route[i] \in Candidate
    BY ErrorAssumption
  <1>2. Route[i].key # NoKey
    BY ErrorAssumption
  <1> QED  BY <1>1, <1>2 DEF Candidate

\* What is said of a candidate is of its own key or model.
LEMMA StatementsType ==
    ASSUME NEW c \in Candidate, c.key \in Keys, NEW failure
    PROVE  Statements(c, failure) \subseteq ({"bad key", "exhausted"} \X Providers \X Keys)
                                                \cup ({"no model"} \X Providers \X Models)
  <1>1. BadKey(c) \in {"bad key", "exhausted"} \X Providers \X Keys
    BY DEF BadKey, Candidate
  <1>2. Exhausted(c) \in {"bad key", "exhausted"} \X Providers \X Keys
    BY DEF Exhausted, Candidate
  <1>3. NoSuchModel(c) \in {"no model"} \X Providers \X Models
    BY DEF NoSuchModel, Candidate
  <1> QED  BY <1>1, <1>2, <1>3 DEF Statements

\* The initial states: no rows, no statements.
LEMMA InitOK == Init => IInv
  <1> SUFFICES ASSUME Init PROVE IInv
    OBVIOUS
  <1>1. TypeOK
    BY EmptyStoreType DEF Init, TypeOK
  <1>2. ToldModels
    BY DEF Init, ToldModels, EmptyStore, HealthScope, NoRow
  <1>3. ToldQuotas
    BY DEF Init, ToldQuotas, EmptyStore, QuotaScope, NoRow
  <1>4. ToldKeys
    BY DEF Init, ToldKeys, EmptyStore
  <1> QED  BY <1>1, <1>2, <1>3, <1>4 DEF IInv

\* A failed attempt: each row it writes for good comes with its statement.
LEMMA FailOK ==
    ASSUME IInv, NEW i \in DOMAIN Route, Fail(i)
    PROVE  IInv'
  <1> DEFINE c == Route[i]
  <1>1. /\ c \in Candidate
        /\ c.provider \in Providers
        /\ c.key \in Keys
        /\ c.model \in Models
    BY RouteType
  <1>2. PICK failure \in FailuresOf(c) :
           /\ store' = After(c, failure)
           /\ told' = told \cup Statements(c, failure)
    BY DEF Fail
  <1> DEFINE class == CandidateFailure(failure)
  <1>3. /\ class \in ErrorClass
        /\ class = "auth" => BadKey(c) \in told'
        /\ class = "quota" => Exhausted(c) \in told'
        /\ class = "model_not_found" => NoSuchModel(c) \in told'
    BY <1>2, ClassIsSaid DEF Statements
  <1>4. store' = ApplyFailure(store, c, class)
    BY <1>2 DEF After
  <1>5. store \in Store /\ told \subseteq told'
    BY <1>2 DEF IInv, TypeOK
  <1>6. /\ Statements(c, failure) \subseteq ({"bad key", "exhausted"} \X Providers \X Keys)
                                               \cup ({"no model"} \X Providers \X Models)
    BY <1>1, StatementsType
  <1>7. adapter' = adapter
    BY DEF Fail
  <1> HIDE DEF c, class
  <1>8. TypeOK'
    <2>1. c.key # NoKey
      BY <1>1, ScopeAssumption
    <2>2. ApplyFailure(store, c, class) \in Store
      BY <1>1, <1>3, <1>5, <2>1, ApplyFailureType
    <2> QED  BY <2>2, <1>2, <1>4, <1>6, <1>7 DEF IInv, TypeOK
  <1>9. /\ \A h \in HealthScope : store'.health[h].state = "DOWN" =>
              \/ store'.health[h] = store.health[h]
              \/ h = <<c.provider, c.model>> /\ class = "model_not_found"
        /\ \A q \in QuotaScope : store'.quota[q].state = "EXHAUSTED" =>
              \/ store'.quota[q] = store.quota[q]
              \/ q = <<c.provider, c.key, NoModel>> /\ class = "quota"
        /\ \A k \in Providers \X Keys :
              \/ store'.credential[k] = store.credential[k]
              \/ k = <<c.provider, c.key>> /\ class = "auth"
    <2>1. CASE class = "auth"
      BY <1>1, <1>4, <1>5, <2>1 DEF ApplyFailure, SetCredential, Store
    <2>2. CASE class = "quota"
      BY <1>1, <1>4, <1>5, <2>2 DEF ApplyFailure, SetQuota, Store
    <2>3. CASE class = "rate_limit"
      BY <1>1, <1>4, <1>5, <2>3 DEF ApplyFailure, SetQuota, Store
    <2>4. CASE class = "model_not_found"
      BY <1>1, <1>4, <1>5, <2>4 DEF ApplyFailure, SetHealth, Store
    <2>5. CASE class = "network"
      BY <1>1, <1>4, <1>5, <2>5 DEF ApplyFailure, SetHealth, Store
    <2>6. CASE class = "server"
      BY <1>1, <1>4, <1>5, <2>6 DEF ApplyFailure, SetHealth, Store
    <2>7. CASE class \in {"token_limit", "unknown"}
      <3>1. store' = store
        BY <1>4, <2>7, Zenon DEF ApplyFailure
      <3> QED  BY <3>1
    <2> QED  BY <1>3, <2>1, <2>2, <2>3, <2>4, <2>5, <2>6, <2>7 DEF ErrorClass
  <1>10. ToldModels'
    <2> SUFFICES ASSUME NEW p \in Providers, NEW m \in Models \cup {NoModel},
                        store'.health[<<p, m>>].state = "DOWN"
                 PROVE  <<"no model", p, m>> \in told'
      BY DEF ToldModels
    <2>1. CASE store'.health[<<p, m>>] = store.health[<<p, m>>]
      BY <1>5, <2>1 DEF IInv, ToldModels
    <2>2. CASE p = c.provider /\ m = c.model /\ class = "model_not_found"
      BY <1>3, <2>2 DEF NoSuchModel
    <2>3. <<p, m>> \in HealthScope
      BY DEF HealthScope
    <2> QED  BY <1>9, <2>1, <2>2, <2>3
  <1>11. ToldQuotas'
    <2> SUFFICES ASSUME NEW p \in Providers, NEW k \in Keys \cup {NoKey},
                        NEW m \in Models \cup {NoModel},
                        store'.quota[<<p, k, m>>].state = "EXHAUSTED"
                 PROVE  <<"exhausted", p, k>> \in told'
      BY DEF ToldQuotas
    <2>1. CASE store'.quota[<<p, k, m>>] = store.quota[<<p, k, m>>]
      BY <1>5, <2>1 DEF IInv, ToldQuotas
    <2>2. CASE p = c.provider /\ k = c.key /\ class = "quota"
      BY <1>3, <2>2 DEF Exhausted
    <2>3. <<p, k, m>> \in QuotaScope
      BY DEF QuotaScope
    <2> QED  BY <1>9, <2>1, <2>2, <2>3
  <1>12. ToldKeys'
    <2> SUFFICES ASSUME NEW p \in Providers, NEW k \in Keys,
                        store'.credential[<<p, k>>] # "ENABLED"
                 PROVE  <<"bad key", p, k>> \in told'
      BY DEF ToldKeys
    <2>1. CASE store'.credential[<<p, k>>] = store.credential[<<p, k>>]
      BY <1>5, <2>1 DEF IInv, ToldKeys
    <2>2. CASE p = c.provider /\ k = c.key /\ class = "auth"
      BY <1>3, <2>2 DEF BadKey
    <2>3. <<p, k>> \in Providers \X Keys
      OBVIOUS
    <2> QED  BY <1>9, <2>1, <2>2, <2>3
  <1> QED  BY <1>8, <1>10, <1>11, <1>12 DEF IInv

\* A success writes a row that is not lasting.
LEMMA SucceedOK ==
    ASSUME IInv, NEW i \in DOMAIN Route, Succeed(i)
    PROVE  IInv'
  <1> DEFINE c == Route[i]
  <1>1. c \in Candidate /\ c.provider \in Providers /\ c.model \in Models
    BY RouteType
  <1>2. store' = ApplySuccess(store, c) /\ told' = told /\ adapter' = adapter
    BY DEF Succeed
  <1>3. store \in Store
    BY DEF IInv, TypeOK
  <1> HIDE DEF c
  <1>4. TypeOK'
    <2>1. store' \in Store
      BY <1>1, <1>2, <1>3, ApplySuccessType
    <2> QED  BY <2>1, <1>2 DEF IInv, TypeOK
  <1>5. /\ \A h \in HealthScope : store'.health[h].state = "DOWN" =>
              store'.health[h] = store.health[h]
        /\ store'.quota = store.quota
        /\ store'.credential = store.credential
    BY <1>1, <1>2, <1>3 DEF ApplySuccess, SetHealth, Store
  <1>6. ToldModels'
    BY <1>2, <1>5 DEF IInv, ToldModels, HealthScope
  <1>7. ToldQuotas' /\ ToldKeys'
    BY <1>2, <1>5 DEF IInv, ToldQuotas, ToldKeys
  <1> QED  BY <1>4, <1>6, <1>7 DEF IInv

\* The clock changes no state column.
LEMMA TickOK ==
    ASSUME IInv, Tick
    PROVE  IInv'
  <1>1. store' = Age(store) /\ told' = told /\ adapter' = adapter
    BY DEF Tick
  <1>2. store \in Store
    BY DEF IInv, TypeOK
  <1>3. TypeOK'
    <2>1. store' \in Store
      BY <1>1, <1>2, AgeType
    <2> QED  BY <2>1, <1>1 DEF IInv, TypeOK
  <1>4. /\ store'.health = [h \in HealthScope |-> Older(store.health[h])]
        /\ store'.quota = [q \in QuotaScope |-> Older(store.quota[q])]
        /\ store'.credential = store.credential
    BY <1>1, <1>2 DEF Age, Store
  <1>5. \A S : \A row \in [state : S, left : Nat] \cup {NoRow} : Older(row).state = row.state
    <2> SUFFICES ASSUME NEW S, NEW row \in [state : S, left : Nat] \cup {NoRow}
                 PROVE  Older(row).state = row.state
      OBVIOUS
    <2>1. CASE row = NoRow
      BY <2>1 DEF Older, NoRow
    <2>2. CASE row \in [state : S, left : Nat]
      BY <2>2 DEF Older
    <2> QED  BY <2>1, <2>2
  <1>6. \A h \in HealthScope : store'.health[h].state = store.health[h].state
    BY <1>2, <1>4, <1>5 DEF Store, HealthRow
  <1>7. \A q \in QuotaScope : store'.quota[q].state = store.quota[q].state
    BY <1>2, <1>4, <1>5 DEF Store, QuotaRow
  <1>8. ToldModels'
    BY <1>1, <1>6 DEF IInv, ToldModels, HealthScope
  <1>9. ToldQuotas'
    BY <1>1, <1>7 DEF IInv, ToldQuotas, QuotaScope
  <1>10. ToldKeys'
    BY <1>1, <1>4 DEF IInv, ToldKeys
  <1> QED  BY <1>3, <1>8, <1>9, <1>10 DEF IInv

\* The invariant is inductive.
LEMMA StepOK == IInv /\ [Next]_vars => IInv'
  <1> SUFFICES ASSUME IInv, [Next]_vars PROVE IInv'
    OBVIOUS
  <1>1. CASE UNCHANGED vars
    BY <1>1 DEF vars, IInv, TypeOK, ToldModels, ToldQuotas, ToldKeys
  <1>2. ASSUME NEW i \in DOMAIN Route, Fail(i) PROVE IInv'
    BY <1>2, FailOK
  <1>3. ASSUME NEW i \in DOMAIN Route, Succeed(i) PROVE IInv'
    BY <1>3, SucceedOK
  <1>4. CASE Tick
    BY <1>4, TickOK
  <1> QED  BY <1>1, <1>2, <1>3, <1>4 DEF Next

\* The invariant says what the property says: a candidate is not usable because of
\* a row that answers for it, and each such row was told of its own key or model.
LEMMA InvariantImplies == IInv => OutForGoodWasTold
  <1> SUFFICES ASSUME IInv, NEW i \in DOMAIN Route, ~Usable(store, Route[i])
               PROVE  {BadKey(Route[i]), Exhausted(Route[i]), NoSuchModel(Route[i])}
                         \cap told # {}
    BY DEF OutForGoodWasTold
  <1> DEFINE c == Route[i]
             health == HealthRowOf(store, c.provider, c.model)
             quota == QuotaRowOf(store, c.provider, c.key, c.model)
  <1>1. c.provider \in Providers /\ c.key \in Keys /\ c.model \in Models
    BY RouteType
  <1>2. \/ health # NoRow /\ health.state = "DOWN"
        \/ quota # NoRow /\ quota.state = "EXHAUSTED"
        \/ GetCredential(store, c.provider, c.key) \in {"DISABLED", "AUTH_ERROR"}
    BY DEF Usable, GetHealth, GetQuota
  <1>3. CASE health # NoRow /\ health.state = "DOWN"
    <2>1. CASE health = store.health[<<c.provider, c.model>>]
      <3>1. NoSuchModel(c) \in told
        BY <1>1, <1>3, <2>1 DEF IInv, ToldModels, NoSuchModel
      <3> QED  BY <3>1
    <2>2. CASE health = store.health[<<c.provider, NoModel>>]
      <3>1. <<"no model", c.provider, NoModel>> \in told
        BY <1>1, <1>3, <2>2 DEF IInv, ToldModels
      <3>2. FALSE
        BY <3>1, ScopeAssumption DEF IInv, TypeOK
      <3> QED  BY <3>2
    <2> QED  BY <2>1, <2>2 DEF HealthRowOf
  <1>4. CASE quota # NoRow /\ quota.state = "EXHAUSTED"
    <2>1. CASE quota = store.quota[<<c.provider, c.key, c.model>>]
               \/ quota = store.quota[<<c.provider, c.key, NoModel>>]
      <3>1. Exhausted(c) \in told
        BY <1>1, <1>4, <2>1 DEF IInv, ToldQuotas, Exhausted
      <3> QED  BY <3>1
    <2>2. CASE quota = store.quota[<<c.provider, NoKey, NoModel>>]
      <3>1. <<"exhausted", c.provider, NoKey>> \in told
        BY <1>1, <1>4, <2>2 DEF IInv, ToldQuotas
      <3>2. FALSE
        BY <3>1, ScopeAssumption DEF IInv, TypeOK
      <3> QED  BY <3>2
    <2> QED  BY <2>1, <2>2 DEF QuotaRowOf
  <1>5. CASE GetCredential(store, c.provider, c.key) \in {"DISABLED", "AUTH_ERROR"}
    <2>1. store.credential[<<c.provider, c.key>>] # "ENABLED"
      BY <1>1, <1>5, ScopeAssumption DEF GetCredential
    <2>2. BadKey(c) \in told
      BY <1>1, <2>1 DEF IInv, ToldKeys, BadKey
    <2> QED  BY <2>2
  <1> QED  BY <1>2, <1>3, <1>4, <1>5

-----------------------------------------------------------------------------

\* The store, the adapters and the statements keep their types.
THEOREM TypeCorrect == Spec => []TypeOK
  <1>1. IInv => TypeOK
    BY DEF IInv
  <1> QED  BY InitOK, StepOK, <1>1, PTL DEF Spec

\* Nothing is lost for good by guesswork, for every route, status and body: no
\* order of failures and successes takes a key or a model out unsaid.
THEOREM NothingLostUnsaid == Spec => []OutForGoodWasTold
  <1> QED  BY InitOK, StepOK, InvariantImplies, PTL DEF Spec

-----------------------------------------------------------------------------
(* What one failure costs.                                                  *)

\* Only an error response has a status, and what is no response has no body.
LEMMA FailureForms ==
    ASSUME NEW c \in Candidate, NEW f \in FailuresOf(c)
    PROVE  \/ f.kind = "http" /\ f.status \in Statuses
           \/ f.kind = "adapter" /\ f.status = NoStatus
           \/ f.kind = "other" /\ f.status = NoStatus /\ f.body = {}
  <1>1. PICK u \in Upstream :
           f = [kind |-> Kind(adapter[c.provider], u), status |-> u.status, body |-> u.body]
    BY DEF FailuresOf
  <1>2. CASE u.did = "error response"
    <2>1. Kind(adapter[c.provider], u) = "http"
      BY <1>2 DEF Kind
    <2>2. u.status \in Statuses
      BY <1>2 DEF Upstream
    <2> QED  BY <1>1, <2>1, <2>2
  <1>3. CASE u.did # "error response"
    <2>1. u.did \in {"no response", "not JSON", "odd JSON", "image"}
      BY <1>3 DEF Upstream
    <2>2. Kind(adapter[c.provider], u) \in {"adapter", "other"}
      <3>1. CASE u.did = "no response"
        BY <3>1 DEF Kind
      <3>2. CASE u.did = "not JSON"
        BY <3>2 DEF Kind
      <3>3. CASE u.did = "odd JSON"
        BY <3>3 DEF Kind
      <3>4. CASE u.did = "image"
        BY <3>4 DEF Kind
      <3> QED  BY <2>1, <3>1, <3>2, <3>3, <3>4
    <2>3. u.status = NoStatus
      BY <1>3 DEF Upstream
    <2>4. CASE u.did = "no response"
      <3>1. Kind(adapter[c.provider], u) = "adapter"
        BY <2>4 DEF Kind
      <3> QED  BY <1>1, <2>3, <3>1
    <2>5. CASE u.did # "no response"
      <3>1. u.body = {}
        BY <1>3, <2>5 DEF Upstream
      <3> QED  BY <1>1, <2>2, <2>3, <3>1
    <2> QED  BY <2>4, <2>5
  <1> QED  BY <1>2, <1>3

\* The family that is found at the least place is the class.
LEMMA FirstFamily ==
    ASSUME NEW status, NEW body, NEW n \in Found(body), \A other \in Found(body) : n <= other
    PROVE  ClassifyError(status, body) = Precedence[n]
  <1> DEFINE first == CHOOSE m \in Found(body) : \A other \in Found(body) : m <= other
  <1>1. first \in Found(body) /\ \A other \in Found(body) : first <= other
    OBVIOUS
  <1>2. Found(body) # {} /\ Found(body) \subseteq 1..6
    BY DEF Found
  <1>3. first = n
    <2> HIDE DEF first
    <2>1. first \in 1..6 /\ n \in 1..6 /\ first <= n /\ n <= first
      BY <1>1, <1>2
    <2> QED  BY <2>1
  <1>4. ClassifyError(status, body) = Precedence[first]
    BY <1>2 DEF ClassifyError
  <1> QED  BY <1>3, <1>4

\* Where no family that takes precedence is found, words of a used-up quota decide;
\* where those are not found either, what says throttled is a rate limit or a cooldown
\* of the provider.
LEMMA ThrottlingClass ==
    ASSUME NEW c \in Candidate, NEW f \in FailuresOf(c),
           f.body \cap {"token_limit", "auth", "model_not_found"} = {}
    PROVE  /\ "quota" \in f.body => CandidateFailure(f) = "quota"
           /\ SaysThrottled(f) /\ "quota" \notin f.body
                 => CandidateFailure(f) \in {"rate_limit", "network"}
  <1> DEFINE body == f.body
  <1>0. /\ Precedence[1] = "token_limit" /\ Precedence[2] = "auth"
        /\ Precedence[3] = "model_not_found" /\ Precedence[4] = "quota"
        /\ Precedence[5] = "rate_limit" /\ Precedence[6] = "network"
    BY DEF Precedence
  <1>1. Found(body) \subseteq {4, 5, 6}
    BY <1>0 DEF Found
  <1>2. /\ 4 \in Found(body) <=> "quota" \in body
        /\ 5 \in Found(body) <=> "rate_limit" \in body
        /\ 6 \in Found(body) <=> "network" \in body
    BY <1>0 DEF Found
  <1>3. ASSUME "quota" \in body \/ SaysThrottled(f)
        PROVE  f.kind # "other"
    BY <1>3, FailureForms DEF SaysThrottled, NoStatus
  <1>4. ASSUME "quota" \in body \/ SaysThrottled(f)
        PROVE  CandidateFailure(f) = ClassifyError(f.status, body)
    BY <1>3, <1>4 DEF CandidateFailure
  <1>5. ASSUME "quota" \in body PROVE CandidateFailure(f) = "quota"
    <2>1. 4 \in Found(body) /\ \A other \in Found(body) : 4 <= other
      BY <1>1, <1>2, <1>5
    <2> QED  BY <1>0, <1>4, <1>5, <2>1, FirstFamily
  <1>6. ASSUME SaysThrottled(f), "quota" \notin body
        PROVE  CandidateFailure(f) \in {"rate_limit", "network"}
    <2>1. CASE "rate_limit" \in body
      <3>1. 5 \in Found(body) /\ \A other \in Found(body) : 5 <= other
        BY <1>1, <1>2, <1>6, <2>1
      <3> QED  BY <1>0, <1>4, <1>6, <3>1, FirstFamily
    <2>2. CASE "rate_limit" \notin body /\ "network" \in body
      <3>1. 6 \in Found(body) /\ \A other \in Found(body) : 6 <= other
        BY <1>1, <1>2, <1>6, <2>2
      <3> QED  BY <1>0, <1>4, <1>6, <3>1, FirstFamily
    <2>3. CASE "rate_limit" \notin body /\ "network" \notin body
      <3>1. Found(body) = {} /\ f.status = 429
        BY <1>1, <1>2, <1>6, <2>3 DEF SaysThrottled
      <3>2. ClassifyError(f.status, body) = ByStatus(f.status, body)
        BY <3>1 DEF ClassifyError
      <3>3. ByStatus(f.status, body) = "rate_limit"
        BY <3>1 DEF ByStatus
      <3> QED  BY <1>4, <1>6, <3>2, <3>3
    <2> QED  BY <2>1, <2>2, <2>3
  <1> QED  BY <1>5, <1>6

\* Without an error response, and without words, the class is one of the provider's.
LEMMA SilentClass ==
    ASSUME NEW c \in Candidate, NEW f \in FailuresOf(c), f.status = NoStatus,
           f.body \subseteq {"network"}
    PROVE  CandidateFailure(f) \in {"network", "server"}
  <1>1. f.kind \in {"adapter", "other"} /\ f.body \subseteq {"network"}
    BY FailureForms, ErrorAssumption DEF NoStatus
  <1>2. CASE f.kind = "other"
    BY <1>2 DEF CandidateFailure
  <1>3. CASE f.kind = "adapter" /\ "network" \in f.body
    <2>1. /\ Precedence[1] = "token_limit" /\ Precedence[2] = "auth"
          /\ Precedence[3] = "model_not_found" /\ Precedence[4] = "quota"
          /\ Precedence[5] = "rate_limit" /\ Precedence[6] = "network"
      BY DEF Precedence
    <2>2. Found(f.body) = {6}
      BY <1>1, <1>3, <2>1 DEF Found
    <2>3. 6 \in Found(f.body) /\ \A other \in Found(f.body) : 6 <= other
      BY <2>2
    <2>4. ClassifyError(f.status, f.body) = "network"
      BY <2>1, <2>3, FirstFamily
    <2> QED  BY <1>3, <2>4 DEF CandidateFailure
  <1>4. CASE f.kind = "adapter" /\ "network" \notin f.body
    <2>1. f.body = {}
      BY <1>1, <1>4
    <2>2. Found(f.body) = {}
      BY <2>1 DEF Found
    <2>3. ClassifyError(f.status, f.body) = ByStatus(f.status, f.body)
      BY <2>2 DEF ClassifyError
    <2>4. ~Loose(f.status, f.body)
      BY <2>1 DEF Loose, NoStatus
    <2>5. f.status \notin {401, 403, 404, 429}
      BY DEF NoStatus
    <2>6. ByStatus(f.status, f.body) = "network"
      BY <2>4, <2>5 DEF ByStatus
    <2> QED  BY <1>4, <2>3, <2>6 DEF CandidateFailure
  <1> QED  BY <1>1, <1>2, <1>3, <1>4

\* Throttling and exhaustion are told apart in the rows that are written.
LEMMA ThrottledOK == IInv => ThrottledIsNotExhausted
  <1> SUFFICES ASSUME IInv, NEW i \in DOMAIN Route, NEW f \in FailuresOf(Route[i]),
                      Eligible(store, Route[i]),
                      f.body \cap {"token_limit", "auth", "model_not_found"} = {}
               PROVE  LET key == <<Route[i].provider, Route[i].key, NoModel>> IN
                      /\ "quota" \in f.body => After(Route[i], f).quota[key].state = "EXHAUSTED"
                      /\ (SaysThrottled(f) /\ "quota" \notin f.body)
                            => /\ After(Route[i], f).quota[key] = store.quota[key]
                               /\ Usable(After(Route[i], f), Route[i])
    BY DEF ThrottledIsNotExhausted
  <1> DEFINE c == Route[i]
             key == <<c.provider, c.key, NoModel>>
             class == CandidateFailure(f)
             after == After(c, f)
  <1>1. /\ c \in Candidate
        /\ c.provider \in Providers /\ c.key \in Keys /\ c.model \in Models
    BY RouteType
  <1>2. store \in Store /\ Usable(store, c)
    BY DEF IInv, TypeOK, Eligible
  <1>3. /\ "quota" \in f.body => class = "quota"
        /\ SaysThrottled(f) /\ "quota" \notin f.body => class \in {"rate_limit", "network"}
    BY <1>1, ThrottlingClass
  <1>4. after = ApplyFailure(store, c, class)
    BY DEF After
  <1>5. key \in QuotaScope /\ key # <<c.provider, c.key, c.model>>
    BY <1>1, ScopeAssumption DEF QuotaScope
  <1> HIDE DEF c, key, class, after
  <1>6. CASE class = "quota"
    <2>1. after = [store EXCEPT !.quota[key] = [state |-> "EXHAUSTED", left |-> 0]]
      BY <1>4, <1>6 DEF ApplyFailure, SetQuota, key
    <2>2. after.quota[key].state = "EXHAUSTED"
      BY <1>2, <1>5, <2>1 DEF Store
    <2> QED  BY <1>3, <1>6, <2>2 DEF after, key, c
  <1>7. CASE class = "rate_limit"
    <2>1. after = SetQuota(store, c.provider, c.key, c.model, "RATE_LIMITED", RateLimitCooldown)
      BY <1>4, <1>7 DEF ApplyFailure
    <2>2. after.quota[key] = store.quota[key]
      BY <1>2, <1>5, <2>1 DEF SetQuota, Store
    <2>3. Usable(after, c)
      BY <1>1, <1>2, <2>1, LimitedStaysUsable, PolicyAssumption
    <2> QED  BY <1>3, <1>7, <2>2, <2>3 DEF after, key, c
  <1>8. CASE class = "network"
    <2>1. after = SetHealth(store, c.provider, NoModel, "DEGRADED", NetworkCooldown)
      BY <1>4, <1>8 DEF ApplyFailure
    <2>2. after.quota[key] = store.quota[key]
      BY <1>2, <2>1 DEF SetHealth, Store
    <2>3. Usable(after, c)
      BY <1>1, <1>2, <2>1, DegradedStaysUsable, PolicyAssumption
    <2> QED  BY <1>3, <1>8, <2>2, <2>3 DEF after, key, c
  <1> QED  BY <1>3, <1>6, <1>7, <1>8 DEF after, key, c

\* A failure that says nothing costs the provider a cooldown and nothing else.
LEMMA SilenceOK ==
    ASSUME NetworkCooldown > 0, ServerCooldown > 0, IInv
    PROVE  SilenceIsNotBlamed
  <1> SUFFICES ASSUME NEW i \in DOMAIN Route, NEW f \in FailuresOf(Route[i]),
                      f.status = NoStatus, f.body \subseteq {"network"}
               PROVE  PutDownToProvider(Route[i], f)
    BY DEF SilenceIsNotBlamed
  <1> DEFINE c == Route[i]
             after == After(c, f)
  <1>1. c \in Candidate /\ c.provider \in Providers /\ store \in Store
    BY RouteType DEF IInv, TypeOK
  <1>2. CandidateFailure(f) \in {"network", "server"}
    BY <1>1, SilentClass
  <1>3. after = ApplyFailure(store, c, CandidateFailure(f))
    BY DEF After
  <1>4. PICK ticks \in Nat :
           ticks > 0 /\ after = SetHealth(store, c.provider, NoModel, "DEGRADED", ticks)
    <2>1. CASE CandidateFailure(f) = "network"
      BY <1>3, <2>1, PolicyAssumption DEF ApplyFailure
    <2>2. CASE CandidateFailure(f) = "server"
      BY <1>3, <2>2, PolicyAssumption DEF ApplyFailure
    <2> QED  BY <1>2, <2>1, <2>2
  <1> HIDE DEF c, after
  <1>5. /\ after.health[<<c.provider, NoModel>>] = [state |-> "DEGRADED", left |-> ticks]
        /\ after.quota = store.quota /\ after.credential = store.credential
    BY <1>1, <1>4 DEF SetHealth, Store, HealthScope
  <1>6. \A j \in DOMAIN Route : Usable(store, Route[j]) => Usable(after, Route[j])
    BY <1>1, <1>4, RouteType, DegradedStaysUsable
  <1>7. /\ after.health[<<c.provider, NoModel>>].state = "DEGRADED"
        /\ after.health[<<c.provider, NoModel>>].left > 0
    BY <1>4, <1>5
  <1> QED  BY <1>5, <1>6, <1>7 DEF PutDownToProvider, after, c

\* Throttling and exhaustion are told apart for every status and every mix of
\* words, not only for the bodies that were tried: the precedence decides.
THEOREM ThrottlingToldApart == Spec => []ThrottledIsNotExhausted
  BY InitOK, StepOK, ThrottledOK, PTL DEF Spec

\* Nothing is put down to a key or a model where no error response came back and the
\* text of the failure names at most the network, as long as the policy has any
\* cooldown for networks and servers at all.
THEOREM SilencePutDownToProvider ==
    ASSUME NetworkCooldown > 0, ServerCooldown > 0
    PROVE  Spec => []SilenceIsNotBlamed
  BY InitOK, StepOK, SilenceOK, PTL DEF Spec

=============================================================================
