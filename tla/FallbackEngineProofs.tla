------------------------- MODULE FallbackEngineProofs -------------------------
(***************************************************************************)
(* Theorems about the fallback engine, for every number of slots, every    *)
(* set of routes and every policy: its counters and its effects on the     *)
(* store (TypeInv, BudgetInv), then the order in which a request goes      *)
(* through its route (StoryInv): no candidate is given up, spent early,    *)
(* called unchecked or called twice.                                       *)
(***************************************************************************)
EXTENDS FallbackEngine, RoutingProofs, FiniteSetTheorems, TLAPS

-----------------------------------------------------------------------------
(* Type correctness.                                                        *)

\* Requests whose positions are positions of their route.
SoundRequest ==
    {r \in Request : /\ r.pending \subseteq DOMAIN r.route
                     /\ r.phase = "attempting" => r.current \in DOMAIN r.route}

\* The type invariant, with TypeOK's condition on slots as a set of requests.
TypeInv ==
    /\ store \in Store
    /\ req \in [Slots -> SoundRequest]
    /\ hist \in [Slots -> History]

\* TypeInv is TypeOK.
LEMMA TypeInvIsTypeOK == TypeInv => TypeOK
  BY DEF TypeInv, TypeOK, SoundRequest

\* A route is a sequence of candidates, whose positions are numbers.
LEMMA RouteType ==
    ASSUME NEW route \in Routes \cup {<<>>}
    PROVE  /\ DOMAIN route \subseteq Nat
           /\ \A i \in DOMAIN route : route[i] \in Candidate
  <1>1. CASE route \in Routes
    <2>1. route \in Seq(Candidate)
      BY <1>1, ServingAssumption
    <2> QED  BY <2>1
  <1>2. CASE route = <<>>
    BY <1>2
  <1> QED  BY <1>1, <1>2

\* A request that ends is sound.
LEMMA FinishType ==
    ASSUME NEW s \in Slots, NEW r \in Request, NEW phase \in Phase \ {"attempting"},
           req \in [Slots -> SoundRequest], Finish(s, r, phase)
    PROVE  req' \in [Slots -> SoundRequest]
  <1> DEFINE r2 == [r EXCEPT !.phase = phase, !.pending = {}]
  <1>1. r2 \in Request
    BY DEF Request
  <1>2. r2.pending = {} /\ r2.phase # "attempting"
    BY DEF Request
  <1>3. r2 \in SoundRequest
    BY <1>1, <1>2 DEF SoundRequest
  <1>4. req' = [req EXCEPT ![s] = r2]
    BY DEF Finish
  <1> HIDE DEF r2
  <1> QED  BY <1>3, <1>4

\* A request that makes an attempt, or runs into the ceiling, is sound.
LEMMA AttemptType ==
    ASSUME NEW s \in Slots, NEW r \in Request,
           r.current \in DOMAIN r.route, r.pending \subseteq DOMAIN r.route,
           req \in [Slots -> SoundRequest], Attempt(s, r)
    PROVE  req' \in [Slots -> SoundRequest]
  <1> DEFINE r2 == [r EXCEPT !.phase = "attempting", !.attempts = @ + 1]
  <1>1. CASE req' = [req EXCEPT ![s] = r2]
    <2>1. r.attempts + 1 \in Nat
      BY DEF Request
    <2>2. r2 \in Request
      BY <2>1 DEF Request, Phase
    <2>3. r2.route = r.route /\ r2.current = r.current /\ r2.pending = r.pending
      BY DEF Request
    <2>4. r2 \in SoundRequest
      BY <2>2, <2>3 DEF SoundRequest
    <2> HIDE DEF r2
    <2> QED  BY <1>1, <2>4
  <1>2. CASE Finish(s, r, "hard_attempt_ceiling")
    BY <1>2, FinishType DEF Phase
  <1> QED  BY <1>1, <1>2 DEF Attempt

\* The for loop keeps requests sound.
LEMMA MoveOnType ==
    ASSUME NEW s \in Slots, NEW r \in Request, NEW st,
           r.pending \subseteq DOMAIN r.route,
           req \in [Slots -> SoundRequest], MoveOn(s, r, st)
    PROVE  req' \in [Slots -> SoundRequest]
  <1>1. CASE Finish(s, r, "no_eligible_candidate")
    BY <1>1, FinishType DEF Phase
  <1>2. ASSUME NEW i \in r.pending,
               Attempt(s, [r EXCEPT !.current = i,
                                    !.retries = 0,
                                    !.pending = {j \in @ : Precedes(r.route, i, j)}])
        PROVE  req' \in [Slots -> SoundRequest]
    <2> DEFINE left == {j \in r.pending : Precedes(r.route, i, j)}
               r2 == [r EXCEPT !.current = i, !.retries = 0, !.pending = left]
    <2>1. i \in Nat /\ left \in SUBSET Nat
      BY DEF Request
    <2>2. r2 \in Request
      BY <2>1 DEF Request
    <2>3. r2.route = r.route /\ r2.current = i /\ r2.pending = left
      BY DEF Request
    <2>4. left \subseteq DOMAIN r.route /\ i \in DOMAIN r.route
      OBVIOUS
    <2>5. Attempt(s, r2)
      BY <1>2
    <2> HIDE DEF r2, left
    <2> QED  BY <2>2, <2>3, <2>4, <2>5, AttemptType
  <1> QED  BY <1>1, <1>2 DEF MoveOn

\* So does what follows a failure.
LEMMA NextCandidateType ==
    ASSUME NEW s \in Slots, NEW r \in Request, NEW st,
           r.pending \subseteq DOMAIN r.route,
           req \in [Slots -> SoundRequest], NextCandidate(s, r, st)
    PROVE  req' \in [Slots -> SoundRequest]
  <1> DEFINE after == [r EXCEPT !.fallbacks = @ + 1]
  <1>1. r.fallbacks + 1 \in Nat
    BY DEF Request
  <1>2. after \in Request /\ after.route = r.route /\ after.pending = r.pending
    BY <1>1 DEF Request
  <1>3. Finish(s, after, "no_eligible_candidate") \/ MoveOn(s, after, st)
    BY DEF NextCandidate
  <1> HIDE DEF after
  <1> QED  BY <1>2, <1>3, FinishType, MoveOnType DEF Phase

\* The history kept of a sound request is a pair of sets of positions.
LEMMA ObserveType ==
    ASSUME NEW s \in Slots, NEW was \in History, hist \in [Slots -> History],
           req' \in [Slots -> SoundRequest], Observe(s, was)
    PROVE  hist' \in [Slots -> History]
  <1>1. req'[s] \in Request
    BY DEF SoundRequest
  <1>2. DOMAIN req'[s].route \subseteq Nat /\ req'[s].current \in Nat
    BY <1>1, RouteType DEF Request
  <1>3. was.tried \subseteq Nat /\ was.barred \subseteq Nat
    BY DEF History
  <1> DEFINE tried  == was.tried \cup (IF req'[s].phase = "attempting"
                                       THEN {req'[s].current} ELSE {})
             barred == was.barred \cup {i \in DOMAIN req'[s].route :
                                          ~Eligible(store', req'[s].route[i])}
  <1>4. [tried |-> tried, barred |-> barred] \in History
    BY <1>2, <1>3 DEF History
  <1>5. hist' = [hist EXCEPT ![s] = [tried |-> tried, barred |-> barred]]
    BY DEF Observe
  <1> HIDE DEF tried, barred
  <1> QED  BY <1>4, <1>5

\* The candidate in hand is one, and a keyless one does not end in auth.
LEMMA EndsInType ==
    ASSUME TypeInv, NEW s \in Slots, NEW outcome, EndsIn(s, outcome)
    PROVE  /\ req[s] \in Request
           /\ req[s].phase = "attempting"
           /\ req[s].pending \subseteq DOMAIN req[s].route
           /\ req[s].current \in DOMAIN req[s].route
           /\ Current(req[s]) \in Candidate
           /\ Current(req[s]).key = NoKey => outcome # "auth"
  <1>1. req[s] \in SoundRequest /\ req[s].phase = "attempting"
    BY DEF TypeInv, EndsIn
  <1>2. req[s] \in Request /\ req[s].current \in DOMAIN req[s].route
        /\ req[s].pending \subseteq DOMAIN req[s].route
    BY <1>1 DEF SoundRequest
  <1>3. Current(req[s]) \in Candidate
    BY <1>2, RouteType DEF Request, Current
  <1>4. Current(req[s]).key = NoKey => outcome # "auth"
    BY EngineAssumption DEF EndsIn
  <1> QED  BY <1>1, <1>2, <1>3, <1>4

\* Writing a route event changes nothing else in the request.
LEMMA LoggedType ==
    ASSUME NEW r \in Request
    PROVE  /\ Logged(r) \in Request
           /\ Logged(r) = [r EXCEPT !.logged = r.logged + 1]
           /\ Logged(r).route = r.route
           /\ Logged(r).pending = r.pending
           /\ Logged(r).current = r.current
           /\ Logged(r).retries = r.retries
  <1>1. r.logged + 1 \in Nat
    BY DEF Request
  <1> QED  BY <1>1 DEF Request, Logged

\* Another answer, another retry or another fallback keeps a request one.
LEMMA CountersType ==
    ASSUME NEW r \in Request
    PROVE  /\ [r EXCEPT !.answers = @ + 1] \in Request
           /\ [r EXCEPT !.retries = @ + 1] \in Request
           /\ [r EXCEPT !.fallbacks = @ + 1] \in Request
           /\ [r EXCEPT !.fallbacks = @ + 1, !.answers = @ + 1] \in Request
           /\ [r EXCEPT !.fallbacks = @ + 1].pending = r.pending
           /\ [r EXCEPT !.fallbacks = @ + 1].route = r.route
           /\ [r EXCEPT !.retries = @ + 1].pending = r.pending
           /\ [r EXCEPT !.retries = @ + 1].route = r.route
           /\ [r EXCEPT !.retries = @ + 1].current = r.current
           /\ [r EXCEPT !.answers = @ + 1].pending = r.pending
           /\ [r EXCEPT !.answers = @ + 1].route = r.route
  <1>1. r.answers + 1 \in Nat /\ r.retries + 1 \in Nat /\ r.fallbacks + 1 \in Nat
    BY DEF Request
  <1> QED  BY <1>1 DEF Request

\* The initial state has the types.
LEMMA InitType == Init => TypeInv
  <1> SUFFICES ASSUME Init PROVE TypeInv
    OBVIOUS
  <1>1. Idle \in SoundRequest
    BY DEF Idle, SoundRequest, Request, Phase
  <1>2. NoHistory \in History
    BY DEF NoHistory, History
  <1> QED  BY <1>1, <1>2, EmptyStoreType DEF Init, TypeInv

\* A slot that goes idle, or is rejected, has the types.
LEMMA IdleType ==
    ASSUME NEW phase \in Phase \ {"attempting"}
    PROVE  [Idle EXCEPT !.phase = phase] \in SoundRequest
  BY DEF Idle, SoundRequest, Request, Phase

\* The types are kept by the arrival of a request.
LEMMA ArrivalType ==
    ASSUME TypeInv, NEW s \in Slots, Reject(s) \/ Start(s)
    PROVE  TypeInv'
  <1>1. CASE Reject(s)
    <2>1. PICK phase \in {"unknown_virtual_model", "request_validation"} :
             req' = [req EXCEPT ![s] = [Idle EXCEPT !.phase = phase]]
      BY <1>1 DEF Reject
    <2>2. [Idle EXCEPT !.phase = phase] \in SoundRequest
      BY IdleType DEF Phase
    <2>3. req' \in [Slots -> SoundRequest]
      BY <2>1, <2>2 DEF TypeInv
    <2>4. store' \in Store /\ hist' \in [Slots -> History]
      BY <1>1 DEF Reject, TypeInv, NoHistory, History
    <2> QED  BY <2>3, <2>4 DEF TypeInv
  <1>2. CASE Start(s)
    <2>1. PICK route \in Routes, need \in Needs :
             /\ store' = store
             /\ MoveOn(s, [Idle EXCEPT !.route = route,
                                       !.pending = {i \in Gate(route, need) :
                                                      Usable(store, route[i])}], store)
             /\ Observe(s, [NoHistory EXCEPT !.barred = DOMAIN route \ Gate(route, need)])
      BY <1>2 DEF Start
    <2> DEFINE open == {i \in Gate(route, need) : Usable(store, route[i])}
               r == [Idle EXCEPT !.route = route, !.pending = open]
               was == [NoHistory EXCEPT !.barred = DOMAIN route \ Gate(route, need)]
    <2>2. open \subseteq DOMAIN route /\ DOMAIN route \subseteq Nat
      BY RouteType DEF Gate
    <2>3. r \in Request /\ r.pending = open /\ r.route = route
      BY <2>2 DEF Idle, Request, Phase
    <2>4. was \in History
      BY <2>2 DEF NoHistory, History
    <2>5. MoveOn(s, r, store) /\ Observe(s, was)
      BY <2>1
    <2> HIDE DEF r, open, was
    <2>6. req' \in [Slots -> SoundRequest]
      BY <2>2, <2>3, <2>5, MoveOnType DEF TypeInv
    <2>7. hist' \in [Slots -> History]
      BY <2>4, <2>5, <2>6, ObserveType DEF TypeInv
    <2> QED  BY <2>1, <2>6, <2>7 DEF TypeInv
  <1> QED  BY <1>1, <1>2

\* The types are kept by the end of an attempt.
LEMMA ResponseType ==
    ASSUME TypeInv, NEW s \in Slots, Respond(s)
    PROVE  TypeInv'
  <1> DEFINE r == req[s]
             c == Current(req[s])
  <1>0. req \in [Slots -> SoundRequest] /\ hist[s] \in History /\ hist \in [Slots -> History]
        /\ store \in Store
    BY DEF TypeInv
  <1>1. SUFFICES store' \in Store /\ req' \in [Slots -> SoundRequest] /\ Observe(s, hist[s])
    BY <1>0, ObserveType DEF TypeInv
  <1>2. CASE Succeed(s)
    <2>1. EndsIn(s, "success")
      BY <1>2 DEF Succeed
    <2>2. r \in Request /\ c \in Candidate
      BY <2>1, EndsInType
    <2>3. [Logged(r) EXCEPT !.answers = @ + 1] \in Request
      BY <2>2, LoggedType, CountersType
    <2>4. req' \in [Slots -> SoundRequest]
      BY <1>0, <1>2, <2>3, FinishType DEF Succeed, Phase
    <2> QED  BY <1>0, <1>2, <2>2, <2>4, ApplySuccessType DEF Succeed
  <1>3. CASE FailCommitted(s)
    <2>1. EndsIn(s, "committed")
      BY <1>3 DEF FailCommitted
    <2>2. r \in Request
      BY <2>1, EndsInType
    <2>3. req' \in [Slots -> SoundRequest]
      BY <1>0, <1>3, <2>2, LoggedType, FinishType DEF FailCommitted, Phase
    <2> QED  BY <1>0, <1>3, <2>3 DEF FailCommitted
  <1>4. CASE Retry(s)
    <2>1. EndsIn(s, "token_limit")
      BY <1>4 DEF Retry
    <2>2. r \in Request /\ c \in Candidate /\ r.pending \subseteq DOMAIN r.route
          /\ r.current \in DOMAIN r.route /\ (c.key = NoKey => "token_limit" # "auth")
      BY <2>1, EndsInType
    <2> DEFINE logged == Logged(r)
               r2 == [logged EXCEPT !.retries = @ + 1]
    <2>3. logged \in Request /\ logged.pending = r.pending /\ logged.route = r.route
          /\ logged.current = r.current
      BY <2>2, LoggedType
    <2>4. r2 \in Request /\ r2.pending = r.pending /\ r2.route = r.route /\ r2.current = r.current
      <3> HIDE DEF logged
      <3> QED  BY <2>3, CountersType
    <2>5. Attempt(s, r2)
      BY <1>4 DEF Retry
    <2> HIDE DEF r2
    <2>6. req' \in [Slots -> SoundRequest]
      BY <1>0, <2>2, <2>4, <2>5, AttemptType
    <2> QED  BY <1>0, <1>4, <2>2, <2>6, ApplyFailureType DEF Retry, ErrorClass
  <1>5. CASE Fallback(s)
    <2>1. PICK class \in ErrorClass :
             /\ EndsIn(s, class)
             /\ store' = ApplyFailure(store, c, class)
             /\ NextCandidate(s, Logged(r), store')
             /\ Observe(s, hist[s])
      BY <1>5 DEF Fallback
    <2>2. r \in Request /\ c \in Candidate /\ r.pending \subseteq DOMAIN r.route
          /\ (c.key = NoKey => class # "auth")
      BY <2>1, EndsInType
    <2>3. req' \in [Slots -> SoundRequest]
      BY <1>0, <2>1, <2>2, LoggedType, NextCandidateType
    <2> QED  BY <1>0, <2>1, <2>2, <2>3, ApplyFailureType
  <1>6. CASE Breach(s)
    <2>1. EndsIn(s, "breach")
      BY <1>6 DEF Breach
    <2>2. r \in Request /\ c \in Candidate /\ r.pending \subseteq DOMAIN r.route
      BY <2>1, EndsInType
    <2> DEFINE logged == Logged(r)
               r2 == [logged EXCEPT !.fallbacks = @ + 1]
    <2>3. logged \in Request /\ logged.pending = r.pending /\ logged.route = r.route
      BY <2>2, LoggedType
    <2>4. r2 \in Request /\ r2.pending = r.pending /\ r2.route = r.route
      <3> HIDE DEF logged
      <3> QED  BY <2>3, CountersType
    <2>5. MoveOn(s, r2, store')
      BY <1>6 DEF Breach
    <2> HIDE DEF r2
    <2>6. req' \in [Slots -> SoundRequest]
      BY <1>0, <2>2, <2>4, <2>5, MoveOnType
    <2> QED  BY <1>0, <1>6, <2>2, <2>6, ApplyFailureType DEF Breach, ErrorClass
  <1>7. CASE SuccessUnrecorded(s)
    <2>1. EndsIn(s, "success") /\ Observe(s, hist[s])
      BY <1>7 DEF SuccessUnrecorded
    <2>2. r \in Request /\ c \in Candidate /\ r.pending \subseteq DOMAIN r.route
      BY <2>1, EndsInType
    <2> DEFINE answered == [r EXCEPT !.answers = @ + 1]
               r2 == [Logged(answered) EXCEPT !.fallbacks = @ + 1]
    <2>3. answered \in Request /\ answered.pending = r.pending /\ answered.route = r.route
      BY <2>2, CountersType
    <2>4. r2 \in Request /\ r2.pending = r.pending /\ r2.route = r.route
      <3> HIDE DEF answered
      <3> QED  BY <2>3, LoggedType, CountersType
    <2>5. PICK st \in {store, ApplySuccess(store, c)} :
             \/ /\ store' = ApplyFailure(st, c, "server")
                /\ MoveOn(s, r2, store')
             \/ /\ store' \in {st, ApplyFailure(st, c, "server")}
                /\ Finish(s, answered, "internal_error")
      BY <1>7 DEF SuccessUnrecorded
    <2>6. st \in Store /\ ApplyFailure(st, c, "server") \in Store
      BY <1>0, <2>2, ApplySuccessType, ApplyFailureType DEF ErrorClass
    <2> HIDE DEF answered, r2
    <2>7. CASE MoveOn(s, r2, store') /\ store' = ApplyFailure(st, c, "server")
      BY <1>0, <2>1, <2>2, <2>4, <2>6, <2>7, MoveOnType
    <2>8. CASE Finish(s, answered, "internal_error") /\ store' \in {st, ApplyFailure(st, c, "server")}
      BY <1>0, <2>1, <2>3, <2>6, <2>8, FinishType DEF Phase
    <2> QED  BY <2>5, <2>7, <2>8
  <1>8. CASE FailureUnrecorded(s)
    <2>1. PICK outcome \in ErrorClass \cup {"committed", "breach"} : EndsIn(s, outcome)
      BY <1>8 DEF FailureUnrecorded
    <2>2. r \in Request /\ c \in Candidate
      BY <2>1, EndsInType
    <2>3. req' \in [Slots -> SoundRequest]
      BY <1>0, <1>8, <2>2, FinishType DEF FailureUnrecorded, Phase
    <2>4. store' \in Store
      <3>1. ASSUME NEW class \in ErrorClass, EndsIn(s, class),
                   store' \in {store, ApplyFailure(store, c, class)}
            PROVE  store' \in Store
        BY <1>0, <2>2, <3>1, EndsInType, ApplyFailureType
      <3>2. CASE store' \in {store, ApplyFailure(store, c, "server")}
        BY <1>0, <2>2, <3>2, ApplyFailureType DEF ErrorClass
      <3>3. CASE store' = store
        BY <1>0, <3>3
      <3> QED  BY <1>8, <3>1, <3>2, <3>3 DEF FailureUnrecorded
    <2> QED  BY <1>8, <2>3, <2>4 DEF FailureUnrecorded
  <1> QED  BY <1>2, <1>3, <1>4, <1>5, <1>6, <1>7, <1>8 DEF Respond

\* The types are kept by the environment: crashes, and the clock.
LEMMA EnvironmentType ==
    ASSUME TypeInv, Crash \/ Tick \/ \E s \in Slots : CrashAfterWrite(s)
    PROVE  TypeInv'
  <1>1. Idle \in SoundRequest /\ NoHistory \in History
    BY DEF Idle, SoundRequest, Request, Phase, NoHistory, History
  <1>2. CASE Crash
    BY <1>1, <1>2 DEF Crash, TypeInv
  <1>3. CASE Tick
    BY <1>3, AgeType DEF Tick, TypeInv
  <1>4. ASSUME NEW s \in Slots, CrashAfterWrite(s) PROVE TypeInv'
    <2>1. CASE EndsIn(s, "success") /\ store' = ApplySuccess(store, Current(req[s]))
      BY <2>1, EndsInType, ApplySuccessType, <1>1, <1>4 DEF CrashAfterWrite, TypeInv
    <2>2. ASSUME NEW class \in ErrorClass, EndsIn(s, class),
                 store' = ApplyFailure(store, Current(req[s]), class)
          PROVE  TypeInv'
      BY <2>2, EndsInType, ApplyFailureType, <1>1, <1>4 DEF CrashAfterWrite, TypeInv
    <2> QED  BY <1>4, <2>1, <2>2 DEF CrashAfterWrite
  <1> QED  BY <1>2, <1>3, <1>4

\* TypeInv is an invariant of every step.
LEMMA TypeInvStep == TypeInv /\ [Next]_vars => TypeInv'
  <1> SUFFICES ASSUME TypeInv, [Next]_vars PROVE TypeInv'
    OBVIOUS
  <1>1. CASE UNCHANGED vars
    BY <1>1 DEF vars, TypeInv
  <1>2. CASE Next
    BY <1>2, ArrivalType, ResponseType, EnvironmentType DEF Next
  <1> QED  BY <1>1, <1>2

\* Type correctness: in every behaviour the store, the requests and their
\* history keep their types, and the candidate in hand is one of the route.
THEOREM TypeCorrect == Spec => []TypeOK
  <1>1. Spec => []TypeInv
    BY InitType, TypeInvStep, PTL DEF Spec
  <1> QED  BY <1>1, TypeInvIsTypeOK, PTL

-----------------------------------------------------------------------------
(* The attempt budget.  Budget bounds attempts by whole candidates; what a  *)
(* step keeps is finer: while a candidate is attempted, its retries count.  *)

OpenAttempt(r) == r.phase \in {"attempting", "internal_error"}

\* What holds of a request between any two of its steps.
WithinBudget(r) ==
    /\ r.attempts <= HardCeiling
    /\ r.retries <= RetryLimit
    /\ r.phase = "attempting" => r.attempts <= r.fallbacks * (1 + RetryLimit) + r.retries + 1
    /\ r.attempts <= (r.fallbacks + 1) * (1 + RetryLimit)
    /\ r.attempts = r.logged + (IF OpenAttempt(r) THEN 1 ELSE 0)

\* What holds of it when it is about to make one more attempt.
ReadyForMore(r) ==
    /\ r.attempts <= HardCeiling
    /\ r.retries <= RetryLimit
    /\ r.attempts <= r.fallbacks * (1 + RetryLimit) + r.retries
    /\ r.attempts = r.logged

BudgetInv == \A s \in Slots : WithinBudget(req[s])

\* One more fallback buys one more attempt and its retries.
LEMMA OneMoreFallback ==
    ASSUME NEW f \in Nat
    PROVE  /\ f * (1 + RetryLimit) \in Nat
           /\ (f + 1) * (1 + RetryLimit) = f * (1 + RetryLimit) + 1 + RetryLimit
  BY PolicyAssumption

\* A request that ends between two attempts is within budget.
LEMMA FinishBudget ==
    ASSUME NEW s \in Slots, NEW r \in Request,
           NEW phase \in Phase \ {"attempting", "internal_error"},
           req \in [Slots -> SoundRequest], BudgetInv, Finish(s, r, phase),
           r.attempts <= HardCeiling, r.retries <= RetryLimit, r.attempts = r.logged,
           r.attempts <= (r.fallbacks + 1) * (1 + RetryLimit)
    PROVE  BudgetInv'
  <1> DEFINE r2 == [r EXCEPT !.phase = phase, !.pending = {}]
  <1>1. /\ r2.phase = phase /\ r2.attempts = r.attempts /\ r2.retries = r.retries
        /\ r2.fallbacks = r.fallbacks /\ r2.logged = r.logged
    BY DEF Request
  <1>2. req' = [req EXCEPT ![s] = r2]
    BY DEF Finish
  <1>3. r.attempts \in Nat /\ r.logged \in Nat
    BY DEF Request
  <1> HIDE DEF r2
  <1>4. WithinBudget(r2)
    BY <1>1, <1>3 DEF WithinBudget, OpenAttempt
  <1> QED  BY <1>2, <1>4 DEF BudgetInv

\* One more attempt, or the ceiling, keeps a request within budget.
LEMMA AttemptBudget ==
    ASSUME NEW s \in Slots, NEW r \in Request, ReadyForMore(r),
           req \in [Slots -> SoundRequest], BudgetInv, Attempt(s, r)
    PROVE  BudgetInv'
  <1>1. /\ r.attempts \in Nat /\ r.logged \in Nat /\ r.fallbacks \in Nat /\ r.retries \in Nat
        /\ HardCeiling \in Nat /\ RetryLimit \in Nat
    BY PolicyAssumption DEF Request
  <1>2. r.attempts + 1 <= (r.fallbacks + 1) * (1 + RetryLimit)
    BY <1>1, OneMoreFallback DEF ReadyForMore
  <1> DEFINE r2 == [r EXCEPT !.phase = "attempting", !.attempts = @ + 1]
  <1>3. CASE r.attempts < HardCeiling /\ req' = [req EXCEPT ![s] = r2]
    <2>1. /\ r2.phase = "attempting" /\ r2.attempts = r.attempts + 1 /\ r2.retries = r.retries
          /\ r2.fallbacks = r.fallbacks /\ r2.logged = r.logged
      BY DEF Request
    <2> HIDE DEF r2
    <2>2. r.attempts + 1 <= r.fallbacks * (1 + RetryLimit) + r.retries + 1
      BY <1>1, OneMoreFallback DEF ReadyForMore
    <2>3. WithinBudget(r2)
      BY <1>1, <1>2, <1>3, <2>1, <2>2 DEF WithinBudget, OpenAttempt, ReadyForMore
    <2> QED  BY <1>3, <2>3 DEF BudgetInv
  <1>4. CASE Finish(s, r, "hard_attempt_ceiling")
    <2>1. r.attempts <= (r.fallbacks + 1) * (1 + RetryLimit)
      BY <1>1, <1>2, OneMoreFallback
    <2> QED  BY <1>4, <2>1, FinishBudget DEF Phase, ReadyForMore
  <1> QED  BY <1>3, <1>4 DEF Attempt

\* So does the for loop, entered with whole candidates behind it.
LEMMA MoveOnBudget ==
    ASSUME NEW s \in Slots, NEW r \in Request, NEW st,
           r.attempts <= HardCeiling, r.retries <= RetryLimit, r.attempts = r.logged,
           r.attempts <= r.fallbacks * (1 + RetryLimit),
           req \in [Slots -> SoundRequest], BudgetInv, MoveOn(s, r, st)
    PROVE  BudgetInv'
  <1>0. r.fallbacks \in Nat /\ r.attempts \in Nat /\ RetryLimit \in Nat
    BY PolicyAssumption DEF Request
  <1>1. CASE Finish(s, r, "no_eligible_candidate")
    <2>1. r.attempts <= (r.fallbacks + 1) * (1 + RetryLimit)
      BY <1>0, OneMoreFallback
    <2> QED  BY <1>1, <2>1, FinishBudget DEF Phase
  <1>2. ASSUME NEW i \in r.pending,
               Attempt(s, [r EXCEPT !.current = i,
                                    !.retries = 0,
                                    !.pending = {j \in @ : Precedes(r.route, i, j)}])
        PROVE  BudgetInv'
    <2> DEFINE left == {j \in r.pending : Precedes(r.route, i, j)}
               r2 == [r EXCEPT !.current = i, !.retries = 0, !.pending = left]
    <2>1. i \in Nat /\ left \in SUBSET Nat
      BY DEF Request
    <2>2. r2 \in Request
      BY <2>1 DEF Request
    <2>3. /\ r2.attempts = r.attempts /\ r2.retries = 0
          /\ r2.fallbacks = r.fallbacks /\ r2.logged = r.logged
      BY DEF Request
    <2>4. Attempt(s, r2)
      BY <1>2
    <2> HIDE DEF r2, left
    <2>5. r2.attempts <= r2.fallbacks * (1 + RetryLimit) + r2.retries
      BY <1>0, <2>3, OneMoreFallback
    <2>6. ReadyForMore(r2)
      BY <1>0, <2>3, <2>5 DEF ReadyForMore
    <2> QED  BY <2>2, <2>4, <2>6, AttemptBudget
  <1> QED  BY <1>1, <1>2 DEF MoveOn

\* What a request within budget looks like once its attempt is over and logged.
LEMMA LoggedBudget ==
    ASSUME TypeInv, BudgetInv, NEW s \in Slots, NEW outcome, EndsIn(s, outcome),
           NEW r, r = Logged(req[s])
    PROVE  /\ r \in Request
           /\ r.attempts <= HardCeiling
           /\ r.retries <= RetryLimit
           /\ r.retries = req[s].retries
           /\ r.attempts = r.logged
           /\ r.attempts <= r.fallbacks * (1 + RetryLimit) + r.retries + 1
           /\ r.attempts <= (r.fallbacks + 1) * (1 + RetryLimit)
  <1>1. req[s] \in Request /\ req[s].phase = "attempting"
    BY EndsInType
  <1>2. req[s].attempts \in Nat /\ req[s].logged \in Nat
    BY <1>1 DEF Request
  <1>3. WithinBudget(req[s])
    BY DEF BudgetInv
  <1>4. req[s].attempts = req[s].logged + 1
    BY <1>1, <1>2, <1>3 DEF WithinBudget, OpenAttempt
  <1>5. r \in Request /\ r = [req[s] EXCEPT !.logged = req[s].logged + 1]
    BY <1>1, LoggedType
  <1>6. /\ r.attempts = req[s].attempts /\ r.retries = req[s].retries
        /\ r.fallbacks = req[s].fallbacks /\ r.logged = req[s].logged + 1
    BY <1>1, <1>5 DEF Request
  <1> QED  BY <1>1, <1>3, <1>4, <1>5, <1>6 DEF WithinBudget

\* One more fallback, with or without an answer, after an attempt that is over.
LEMMA FallbackBudget ==
    ASSUME NEW r \in Request, NEW r2, r.retries <= RetryLimit,
           r.attempts <= r.fallbacks * (1 + RetryLimit) + r.retries + 1,
           \/ r2 = [r EXCEPT !.fallbacks = @ + 1]
           \/ r2 = [r EXCEPT !.fallbacks = @ + 1, !.answers = @ + 1]
    PROVE  /\ r2 \in Request
           /\ r2.attempts = r.attempts
           /\ r2.retries = r.retries
           /\ r2.logged = r.logged
           /\ r2.attempts <= r2.fallbacks * (1 + RetryLimit)
           /\ r2.attempts <= (r2.fallbacks + 1) * (1 + RetryLimit)
  <1>1. r2 \in Request
    BY CountersType
  <1>2. /\ r2.attempts = r.attempts /\ r2.retries = r.retries
        /\ r2.logged = r.logged /\ r2.fallbacks = r.fallbacks + 1
    BY DEF Request
  <1>3. r.fallbacks \in Nat /\ r.attempts \in Nat /\ r.retries \in Nat /\ RetryLimit \in Nat
    BY PolicyAssumption DEF Request
  <1>4. r2.attempts <= r2.fallbacks * (1 + RetryLimit)
    BY <1>2, <1>3, OneMoreFallback
  <1>5. r2.attempts <= (r2.fallbacks + 1) * (1 + RetryLimit)
    BY <1>2, <1>3, <1>4, OneMoreFallback
  <1> QED  BY <1>1, <1>2, <1>4, <1>5

\* An attempt that stays unlogged because a write raised.
LEMMA UnloggedBudget ==
    ASSUME TypeInv, BudgetInv, NEW s \in Slots, NEW outcome, EndsIn(s, outcome),
           NEW r, r = req[s] \/ r = [req[s] EXCEPT !.answers = @ + 1],
           Finish(s, r, "internal_error")
    PROVE  BudgetInv'
  <1>1. req[s] \in Request /\ req[s].phase = "attempting" /\ req \in [Slots -> SoundRequest]
    BY EndsInType DEF TypeInv
  <1> DEFINE r2 == [r EXCEPT !.phase = "internal_error", !.pending = {}]
  <1>2. /\ r2.phase = "internal_error" /\ r2.attempts = req[s].attempts
        /\ r2.retries = req[s].retries /\ r2.fallbacks = req[s].fallbacks
        /\ r2.logged = req[s].logged
    BY <1>1 DEF Request
  <1>3. req' = [req EXCEPT ![s] = r2]
    BY DEF Finish
  <1> HIDE DEF r2
  <1>4. WithinBudget(r2)
    BY <1>1, <1>2 DEF WithinBudget, OpenAttempt, BudgetInv
  <1> QED  BY <1>1, <1>3, <1>4 DEF BudgetInv

\* The end of an attempt keeps every request within budget.
LEMMA ResponseBudget ==
    ASSUME TypeInv, BudgetInv, NEW s \in Slots, Respond(s)
    PROVE  BudgetInv'
  <1> DEFINE r == Logged(req[s])
  <1>0. req \in [Slots -> SoundRequest]
    BY DEF TypeInv
  <1>1. CASE Succeed(s)
    <2> DEFINE r2 == [r EXCEPT !.answers = @ + 1]
    <2>1. EndsIn(s, "success") /\ Finish(s, r2, "success")
      BY <1>1 DEF Succeed
    <2>2. /\ r \in Request /\ r.attempts <= HardCeiling /\ r.retries <= RetryLimit
          /\ r.attempts = r.logged /\ r.attempts <= (r.fallbacks + 1) * (1 + RetryLimit)
      BY <2>1, LoggedBudget
    <2> HIDE DEF r
    <2>3. r2 \in Request
      BY <2>2, CountersType
    <2>4. /\ r2.attempts = r.attempts /\ r2.retries = r.retries
          /\ r2.logged = r.logged /\ r2.fallbacks = r.fallbacks
      BY <2>2 DEF Request
    <2> HIDE DEF r2
    <2> QED  BY <1>0, <2>1, <2>2, <2>3, <2>4, FinishBudget DEF Phase
  <1>2. CASE FailCommitted(s)
    <2>1. EndsIn(s, "committed") /\ Finish(s, r, "partial_stream_failure")
      BY <1>2 DEF FailCommitted
    <2>2. /\ r \in Request /\ r.attempts <= HardCeiling /\ r.retries <= RetryLimit
          /\ r.attempts = r.logged /\ r.attempts <= (r.fallbacks + 1) * (1 + RetryLimit)
      BY <2>1, LoggedBudget
    <2> HIDE DEF r
    <2> QED  BY <1>0, <2>1, <2>2, FinishBudget DEF Phase
  <1>3. CASE Retry(s)
    <2> DEFINE r2 == [r EXCEPT !.retries = @ + 1]
    <2>1. EndsIn(s, "token_limit") /\ Attempt(s, r2) /\ req[s].retries < RetryLimit
      BY <1>3 DEF Retry, RetriesSame
    <2>2. /\ r \in Request /\ r.attempts <= HardCeiling /\ r.retries < RetryLimit
          /\ r.attempts = r.logged
          /\ r.attempts <= r.fallbacks * (1 + RetryLimit) + r.retries + 1
      BY <2>1, LoggedBudget
    <2> HIDE DEF r
    <2>3. r2 \in Request
      BY <2>2, CountersType
    <2>4. /\ r2.attempts = r.attempts /\ r2.retries = r.retries + 1
          /\ r2.logged = r.logged /\ r2.fallbacks = r.fallbacks
      BY <2>2 DEF Request
    <2>5. r.fallbacks \in Nat /\ r.retries \in Nat /\ r.attempts \in Nat /\ RetryLimit \in Nat
      BY <2>2, PolicyAssumption DEF Request
    <2> HIDE DEF r2
    <2>6. r2.attempts <= r2.fallbacks * (1 + RetryLimit) + r2.retries
      BY <2>2, <2>4, <2>5, OneMoreFallback
    <2>7. ReadyForMore(r2)
      BY <2>2, <2>4, <2>5, <2>6 DEF ReadyForMore
    <2> QED  BY <1>0, <2>1, <2>3, <2>7, AttemptBudget
  <1>4. CASE Fallback(s)
    <2>1. PICK class \in ErrorClass : EndsIn(s, class) /\ NextCandidate(s, r, store')
      BY <1>4 DEF Fallback
    <2>2. /\ r \in Request /\ r.attempts <= HardCeiling /\ r.retries <= RetryLimit
          /\ r.attempts = r.logged
          /\ r.attempts <= r.fallbacks * (1 + RetryLimit) + r.retries + 1
      BY <2>1, LoggedBudget
    <2> HIDE DEF r
    <2> DEFINE after == [r EXCEPT !.fallbacks = @ + 1]
    <2>3. Finish(s, after, "no_eligible_candidate") \/ MoveOn(s, after, store')
      BY <2>1 DEF NextCandidate
    <2>4. /\ after \in Request /\ after.attempts = r.attempts
          /\ after.retries = r.retries /\ after.logged = r.logged
          /\ after.attempts <= after.fallbacks * (1 + RetryLimit)
          /\ after.attempts <= (after.fallbacks + 1) * (1 + RetryLimit)
      BY <2>2, FallbackBudget
    <2> HIDE DEF after
    <2> QED  BY <1>0, <2>2, <2>3, <2>4, FinishBudget, MoveOnBudget DEF Phase
  <1>5. CASE Breach(s)
    <2> DEFINE r2 == [r EXCEPT !.fallbacks = @ + 1]
    <2>1. EndsIn(s, "breach") /\ MoveOn(s, r2, store')
      BY <1>5 DEF Breach
    <2>2. /\ r \in Request /\ r.attempts <= HardCeiling /\ r.retries <= RetryLimit
          /\ r.attempts = r.logged
          /\ r.attempts <= r.fallbacks * (1 + RetryLimit) + r.retries + 1
      BY <2>1, LoggedBudget
    <2> HIDE DEF r
    <2>3. /\ r2 \in Request /\ r2.attempts = r.attempts
          /\ r2.retries = r.retries /\ r2.logged = r.logged
          /\ r2.attempts <= r2.fallbacks * (1 + RetryLimit)
      BY <2>2, FallbackBudget
    <2> HIDE DEF r2
    <2> QED  BY <1>0, <2>1, <2>2, <2>3, MoveOnBudget
  <1>6. CASE SuccessUnrecorded(s)
    <2> DEFINE answered == [req[s] EXCEPT !.answers = @ + 1]
               r2 == [Logged(answered) EXCEPT !.fallbacks = @ + 1]
    <2>1. EndsIn(s, "success")
      BY <1>6 DEF SuccessUnrecorded
    <2>2. MoveOn(s, r2, store') \/ Finish(s, answered, "internal_error")
      BY <1>6 DEF SuccessUnrecorded
    <2>3. /\ r \in Request /\ r.attempts <= HardCeiling /\ r.retries <= RetryLimit
          /\ r.attempts = r.logged
          /\ r.attempts <= r.fallbacks * (1 + RetryLimit) + r.retries + 1
      BY <2>1, LoggedBudget
    <2>4. req[s] \in Request
      BY <2>1, EndsInType
    <2>5. r2 = [r EXCEPT !.fallbacks = @ + 1, !.answers = @ + 1]
      BY <2>4 DEF Logged, Request
    <2> HIDE DEF r, r2
    <2>6. /\ r2 \in Request /\ r2.attempts = r.attempts
          /\ r2.retries = r.retries /\ r2.logged = r.logged
          /\ r2.attempts <= r2.fallbacks * (1 + RetryLimit)
      BY <2>3, <2>5, FallbackBudget
    <2>7. CASE MoveOn(s, r2, store')
      BY <1>0, <2>3, <2>6, <2>7, MoveOnBudget
    <2>8. CASE Finish(s, answered, "internal_error")
      BY <2>1, <2>8, UnloggedBudget
    <2> QED  BY <2>2, <2>7, <2>8
  <1>7. CASE FailureUnrecorded(s)
    <2>1. PICK outcome \in ErrorClass \cup {"committed", "breach"} : EndsIn(s, outcome)
      BY <1>7 DEF FailureUnrecorded
    <2>2. Finish(s, req[s], "internal_error")
      BY <1>7 DEF FailureUnrecorded
    <2> QED  BY <2>1, <2>2, UnloggedBudget
  <1> QED  BY <1>1, <1>2, <1>3, <1>4, <1>5, <1>6, <1>7 DEF Respond

\* A slot that is idle has spent nothing.
LEMMA IdleBudget == WithinBudget(Idle)
  BY PolicyAssumption DEF Idle, WithinBudget, OpenAttempt

\* Neither has one whose request was rejected.
LEMMA RejectedBudget ==
    ASSUME NEW phase \in Phase \ {"attempting", "internal_error"}
    PROVE  WithinBudget([Idle EXCEPT !.phase = phase])
  BY PolicyAssumption DEF Idle, WithinBudget, OpenAttempt

\* Every step keeps every request within budget.
LEMMA BudgetStep == TypeInv /\ BudgetInv /\ [Next]_vars => BudgetInv'
  <1> SUFFICES ASSUME TypeInv, BudgetInv, [Next]_vars PROVE BudgetInv'
    OBVIOUS
  <1>1. req \in [Slots -> SoundRequest]
    BY DEF TypeInv
  <1>2. CASE UNCHANGED vars \/ Tick
    BY <1>2 DEF vars, Tick, BudgetInv
  <1>3. CASE Crash \/ \E s \in Slots : CrashAfterWrite(s)
    <2>1. req' = [s \in Slots |-> Idle]
      BY <1>3 DEF Crash, CrashAfterWrite
    <2> QED  BY <2>1, IdleBudget DEF BudgetInv
  <1>4. ASSUME NEW s \in Slots, Reject(s) PROVE BudgetInv'
    <2>1. PICK phase \in {"unknown_virtual_model", "request_validation"} :
             req' = [req EXCEPT ![s] = [Idle EXCEPT !.phase = phase]]
      BY <1>4 DEF Reject
    <2>2. WithinBudget([Idle EXCEPT !.phase = phase])
      BY RejectedBudget DEF Phase
    <2> QED  BY <1>1, <2>1, <2>2 DEF BudgetInv
  <1>5. ASSUME NEW s \in Slots, Start(s) PROVE BudgetInv'
    <2>1. PICK route \in Routes, need \in Needs :
             MoveOn(s, [Idle EXCEPT !.route = route,
                                    !.pending = {i \in Gate(route, need) :
                                                   Usable(store, route[i])}], store)
      BY <1>5 DEF Start
    <2> DEFINE open == {i \in Gate(route, need) : Usable(store, route[i])}
               r == [Idle EXCEPT !.route = route, !.pending = open]
    <2>2. open \subseteq Nat
      BY RouteType DEF Gate
    <2>3. /\ r \in Request /\ r.attempts = 0 /\ r.retries = 0 /\ r.logged = 0
          /\ r.fallbacks = 0
      BY <2>2 DEF Idle, Request, Phase
    <2>4. MoveOn(s, r, store)
      BY <2>1
    <2> HIDE DEF r, open
    <2>5. r.attempts <= HardCeiling /\ r.retries <= RetryLimit
          /\ r.attempts <= r.fallbacks * (1 + RetryLimit)
      BY <2>3, OneMoreFallback, PolicyAssumption
    <2> QED  BY <1>1, <2>3, <2>4, <2>5, MoveOnBudget
  <1> QED  BY <1>2, <1>3, <1>4, <1>5, ResponseBudget DEF Next

\* The attempt budget is a part of its strengthening.
LEMMA BudgetInvIsBudget == BudgetInv => Budget
  BY DEF BudgetInv, Budget, WithinBudget, OpenAttempt

\* The attempt budget holds in every behaviour, whatever the policy's numbers,
\* the interleaving, the crashes and the faults of the store.
THEOREM BudgetKept == Spec => []Budget
  <1>1. Init => BudgetInv
    BY IdleBudget DEF Init, BudgetInv
  <1> QED  BY <1>1, BudgetInvIsBudget, InitType, TypeInvStep, BudgetStep, PTL DEF Spec

-----------------------------------------------------------------------------
(* Isolation of scopes.                                                     *)

\* Eligibility depends on the chosen rows and the key's credential only.
LEMMA SameRowsSameEligibility ==
    ASSUME NEW st \in Store, NEW st2 \in Store, NEW d \in Candidate, Eligible(st, d),
           HealthRowOf(st2, d.provider, d.model) = HealthRowOf(st, d.provider, d.model),
           QuotaRowOf(st2, d.provider, d.key, d.model)
              = QuotaRowOf(st, d.provider, d.key, d.model),
           d.key # NoKey => st2.credential[<<d.provider, d.key>>] = st.credential[<<d.provider, d.key>>]
    PROVE  Eligible(st2, d)
  BY DEF Eligible, Usable, GetHealth, GetQuota, GetCredential, GetCooldown

\* A write to the health table of one provider leaves the others eligible.
LEMMA SetHealthRadius ==
    ASSUME NEW st \in Store, NEW p \in Providers, NEW m \in Models \cup {NoModel},
           NEW state \in HealthState, NEW ticks \in Nat,
           NEW d \in Candidate, Eligible(st, d), d.provider # p
    PROVE  Eligible(SetHealth(st, p, m, state, ticks), d)
  <1> DEFINE st2 == SetHealth(st, p, m, state, ticks)
  <1>1. d.provider \in Providers /\ d.model \in Models
    BY DEF Candidate
  <1>2. \A h \in HealthScope : h # <<p, m>> => st2.health[h] = st.health[h]
    BY DEF SetHealth, Store
  <1>3. /\ st2.health[<<d.provider, d.model>>] = st.health[<<d.provider, d.model>>]
        /\ st2.health[<<d.provider, NoModel>>] = st.health[<<d.provider, NoModel>>]
    BY <1>1, <1>2 DEF HealthScope
  <1>4. st2.quota = st.quota /\ st2.credential = st.credential
    BY DEF SetHealth, Store
  <1>5. st2 \in Store
    BY SetHealthType
  <1>6. SUFFICES Eligible(st2, d)
    OBVIOUS
  <1> HIDE DEF st2
  <1>7. /\ HealthRowOf(st2, d.provider, d.model) = HealthRowOf(st, d.provider, d.model)
        /\ QuotaRowOf(st2, d.provider, d.key, d.model)
              = QuotaRowOf(st, d.provider, d.key, d.model)
    BY <1>3, <1>4 DEF HealthRowOf, QuotaRowOf
  <1> QED  BY <1>4, <1>5, <1>7, SameRowsSameEligibility

\* A write to the quota table for a key leaves every other key eligible.
LEMMA SetQuotaRadius ==
    ASSUME NEW st \in Store, NEW p \in Providers, NEW k \in Keys \cup {NoKey},
           NEW m \in Models \cup {NoModel},
           NEW state \in QuotaState, NEW ticks \in Nat,
           NEW d \in Candidate, Eligible(st, d),
           d.provider # p \/ (d.key # k /\ k # NoKey)
    PROVE  Eligible(SetQuota(st, p, k, m, state, ticks), d)
  <1> DEFINE st2 == SetQuota(st, p, k, m, state, ticks)
  <1>1. d.provider \in Providers /\ d.key \in Keys \cup {NoKey} /\ d.model \in Models
    BY DEF Candidate
  <1>2. \A q \in QuotaScope : q # <<p, k, m>> => st2.quota[q] = st.quota[q]
    BY DEF SetQuota, Store
  <1>3. /\ st2.quota[<<d.provider, d.key, d.model>>] = st.quota[<<d.provider, d.key, d.model>>]
        /\ st2.quota[<<d.provider, d.key, NoModel>>] = st.quota[<<d.provider, d.key, NoModel>>]
        /\ st2.quota[<<d.provider, NoKey, NoModel>>] = st.quota[<<d.provider, NoKey, NoModel>>]
    BY <1>1, <1>2 DEF QuotaScope
  <1>4. st2.health = st.health /\ st2.credential = st.credential
    BY DEF SetQuota, Store
  <1>5. st2 \in Store
    BY SetQuotaType
  <1>6. SUFFICES Eligible(st2, d)
    OBVIOUS
  <1> HIDE DEF st2
  <1>7. /\ HealthRowOf(st2, d.provider, d.model) = HealthRowOf(st, d.provider, d.model)
        /\ QuotaRowOf(st2, d.provider, d.key, d.model)
              = QuotaRowOf(st, d.provider, d.key, d.model)
    BY <1>3, <1>4 DEF HealthRowOf, QuotaRowOf
  <1> QED  BY <1>4, <1>5, <1>7, SameRowsSameEligibility

\* A write to one credential leaves every other key eligible.
LEMMA SetCredentialRadius ==
    ASSUME NEW st \in Store, NEW p \in Providers, NEW k \in Keys,
           NEW state \in CredentialState,
           NEW d \in Candidate, Eligible(st, d), ~(d.provider = p /\ d.key = k)
    PROVE  Eligible(SetCredential(st, p, k, state), d)
  <1> DEFINE st2 == SetCredential(st, p, k, state)
  <1>1. d.provider \in Providers /\ d.key \in Keys \cup {NoKey}
    BY DEF Candidate
  <1>2. \A q \in Providers \X Keys : q # <<p, k>> => st2.credential[q] = st.credential[q]
    BY DEF SetCredential, Store
  <1>3. d.key # NoKey
           => st2.credential[<<d.provider, d.key>>] = st.credential[<<d.provider, d.key>>]
    BY <1>1, <1>2
  <1>4. st2.health = st.health /\ st2.quota = st.quota
    BY DEF SetCredential, Store
  <1>5. st2 \in Store
    BY SetCredentialType
  <1>6. SUFFICES Eligible(st2, d)
    OBVIOUS
  <1> HIDE DEF st2
  <1>7. /\ HealthRowOf(st2, d.provider, d.model) = HealthRowOf(st, d.provider, d.model)
        /\ QuotaRowOf(st2, d.provider, d.key, d.model)
              = QuotaRowOf(st, d.provider, d.key, d.model)
    BY <1>4 DEF HealthRowOf, QuotaRowOf
  <1> QED  BY <1>3, <1>5, <1>7, SameRowsSameEligibility

\* A success never takes eligibility away: the row it writes is healthy.
LEMMA SuccessKeepsEligible ==
    ASSUME NEW st \in Store, NEW c \in Candidate, NEW d \in Candidate, Eligible(st, d)
    PROVE  Eligible(ApplySuccess(st, c), d)
  <1>1. c.provider \in Providers /\ c.model \in Models
        /\ d.provider \in Providers /\ d.model \in Models
    BY DEF Candidate
  <1> DEFINE st2 == ApplySuccess(st, c)
  <1>2. st2 = [st EXCEPT !.health[<<c.provider, c.model>>] = [state |-> "HEALTHY", left |-> 0]]
    BY DEF ApplySuccess, SetHealth
  <1>3. st2 \in Store
    BY ApplySuccessType
  <1>4. st2.quota = st.quota /\ st2.credential = st.credential
    BY <1>2 DEF Store
  <1>5. \A h \in HealthScope : h # <<c.provider, c.model>> => st2.health[h] = st.health[h]
    BY <1>2 DEF Store
  <1>6. st2.health[<<c.provider, c.model>>] = [state |-> "HEALTHY", left |-> 0]
    BY <1>1, <1>2 DEF Store, HealthScope
  <1>7. SUFFICES Eligible(st2, d)
    OBVIOUS
  <1> HIDE DEF st2
  <1>8. QuotaRowOf(st2, d.provider, d.key, d.model) = QuotaRowOf(st, d.provider, d.key, d.model)
    BY <1>4 DEF QuotaRowOf
  <1>9. CASE d.provider = c.provider /\ d.model = c.model
    <2> DEFINE row == [state |-> "HEALTHY", left |-> 0]
    <2>0. row.state = "HEALTHY" /\ row # NoRow
      BY NoRowState DEF HealthState
    <2>1. HealthRowOf(st2, d.provider, d.model) = row
      BY <1>6, <1>9, <2>0 DEF HealthRowOf
    <2>2. GetHealth(st2, d.provider, d.model) # "DOWN"
      BY <2>1 DEF GetHealth
    <2>3. /\ HealthRowOf(st, d.provider, d.model).left \in Nat
          /\ QuotaRowOf(st, d.provider, d.key, d.model).left \in Nat
      BY RowsOf, RowType
    <2>4. HealthRowOf(st2, d.provider, d.model).left = 0
      BY <2>1
    <2>5. GetCooldown(st2, d.provider, d.key, d.model) = 0
      BY <1>8, <2>3, <2>4 DEF GetCooldown, Eligible
    <2> QED  BY <1>4, <1>8, <2>2, <2>5 DEF Eligible, Usable, GetQuota, GetCredential
  <1>10. CASE ~(d.provider = c.provider /\ d.model = c.model)
    <2>1. <<d.provider, d.model>> # <<c.provider, c.model>>
          /\ <<d.provider, NoModel>> # <<c.provider, c.model>>
      BY <1>1, <1>10, ScopeAssumption
    <2>2. HealthRowOf(st2, d.provider, d.model) = HealthRowOf(st, d.provider, d.model)
      BY <1>1, <1>5, <2>1 DEF HealthRowOf, HealthScope
    <2> QED  BY <1>3, <1>4, <1>8, <2>2, SameRowsSameEligibility
  <1> QED  BY <1>9, <1>10

\* The clock keeps the state of a row, and all of a row that is not in cooldown.
LEMMA OlderRow ==
    ASSUME NEW row \in HealthRow \cup QuotaRow
    PROVE  /\ Older(row) = NoRow <=> row = NoRow
           /\ row # NoRow => Older(row).state = row.state
           /\ row.left = 0 => Older(row) = row
  <1>1. CASE row = NoRow
    <2>1. row.left = 0
      BY <1>1 DEF NoRow
    <2>2. Older(row) = row
      BY <2>1 DEF Older
    <2> QED  BY <1>1, <2>2
  <1>2. CASE row # NoRow
    <2>1. row \in [state : HealthState \cup QuotaState, left : Nat]
      BY <1>2 DEF HealthRow, QuotaRow
    <2>2. Older(row).state = row.state
      BY <2>1 DEF Older
    <2>3. Older(row) # NoRow
      BY <1>2, <2>2, RowType, NoRowState
    <2>4. row.left = 0 => Older(row) = row
      BY DEF Older
    <2> QED  BY <1>2, <2>2, <2>3, <2>4
  <1> QED  BY <1>1, <1>2

\* The clock changes no answer to which row is the one that counts.
LEMMA AgeRows ==
    ASSUME NEW st \in Store, NEW d \in Candidate
    PROVE  /\ HealthRowOf(Age(st), d.provider, d.model) = Older(HealthRowOf(st, d.provider, d.model))
           /\ QuotaRowOf(Age(st), d.provider, d.key, d.model)
                 = Older(QuotaRowOf(st, d.provider, d.key, d.model))
           /\ Age(st).credential = st.credential
  <1>1. d.provider \in Providers /\ d.key \in Keys \cup {NoKey} /\ d.model \in Models
    BY DEF Candidate
  <1>2. \A h \in HealthScope : st.health[h] \in HealthRow /\ Age(st).health[h] = Older(st.health[h])
    BY DEF Store, Age
  <1>3. \A q \in QuotaScope : st.quota[q] \in QuotaRow /\ Age(st).quota[q] = Older(st.quota[q])
    BY DEF Store, Age
  <1>4. Age(st).credential = st.credential
    BY DEF Store, Age
  <1>5. HealthRowOf(Age(st), d.provider, d.model) = Older(HealthRowOf(st, d.provider, d.model))
    BY <1>1, <1>2, OlderRow DEF HealthRowOf, HealthScope
  <1>6. QuotaRowOf(Age(st), d.provider, d.key, d.model)
          = Older(QuotaRowOf(st, d.provider, d.key, d.model))
    BY <1>1, <1>3, OlderRow DEF QuotaRowOf, QuotaScope
  <1> QED  BY <1>4, <1>5, <1>6

\* The clock never takes eligibility away: cooldowns only get shorter.
LEMMA AgeKeepsEligible ==
    ASSUME NEW st \in Store, NEW d \in Candidate, Eligible(st, d)
    PROVE  Eligible(Age(st), d)
  <1>1. /\ HealthRowOf(st, d.provider, d.model) \in HealthRow
        /\ QuotaRowOf(st, d.provider, d.key, d.model) \in QuotaRow
    BY RowsOf
  <1>2. /\ HealthRowOf(st, d.provider, d.model).left \in Nat
        /\ QuotaRowOf(st, d.provider, d.key, d.model).left \in Nat
    BY <1>1, RowType
  <1>3. /\ HealthRowOf(st, d.provider, d.model).left = 0
        /\ QuotaRowOf(st, d.provider, d.key, d.model).left = 0
    BY <1>2 DEF Eligible, GetCooldown
  <1>4. /\ HealthRowOf(Age(st), d.provider, d.model) = HealthRowOf(st, d.provider, d.model)
        /\ QuotaRowOf(Age(st), d.provider, d.key, d.model)
              = QuotaRowOf(st, d.provider, d.key, d.model)
    BY <1>1, <1>3, AgeRows, OlderRow
  <1> QED  BY <1>4, AgeRows, AgeType, SameRowsSameEligibility

\* A write to the health table that leaves it as it was leaves all eligible.
LEMMA SameTablesSameEligibility ==
    ASSUME NEW st \in Store, NEW st2 \in Store, NEW d \in Candidate, Eligible(st, d),
           st2.health = st.health, st2.quota = st.quota, st2.credential = st.credential
    PROVE  Eligible(st2, d)
  <1>1. /\ HealthRowOf(st2, d.provider, d.model) = HealthRowOf(st, d.provider, d.model)
        /\ QuotaRowOf(st2, d.provider, d.key, d.model)
              = QuotaRowOf(st, d.provider, d.key, d.model)
    BY DEF HealthRowOf, QuotaRowOf
  <1> QED  BY <1>1, SameRowsSameEligibility

\* Network, server and model_not_found failures write the health table only.
LEMMA HealthClassesWriteHealth ==
    ASSUME NEW st \in Store, NEW c \in Candidate,
           NEW class \in {"network", "server", "model_not_found"}
    PROVE  /\ ApplyFailure(st, c, class).quota = st.quota
           /\ ApplyFailure(st, c, class).credential = st.credential
           /\ \A d \in Candidate : Eligible(st, d) /\ d.provider # c.provider
                 => Eligible(ApplyFailure(st, c, class), d)
  <1>1. c.provider \in Providers /\ c.model \in Models
    BY DEF Candidate
  <1>2. PICK m \in Models \cup {NoModel}, state \in HealthState, ticks \in Nat :
           ApplyFailure(st, c, class) = SetHealth(st, c.provider, m, state, ticks)
    <2>1. CASE class = "network"
      BY <2>1, PolicyAssumption DEF ApplyFailure, HealthState
    <2>2. CASE class = "server"
      BY <2>2, PolicyAssumption DEF ApplyFailure, HealthState
    <2>3. CASE class = "model_not_found"
      BY <1>1, <2>3 DEF ApplyFailure, HealthState
    <2> QED  BY <2>1, <2>2, <2>3
  <1>3. /\ SetHealth(st, c.provider, m, state, ticks).quota = st.quota
        /\ SetHealth(st, c.provider, m, state, ticks).credential = st.credential
    BY DEF SetHealth, Store
  <1> QED  BY <1>1, <1>2, <1>3, SetHealthRadius

\* A failure of candidate c costs candidate d its eligibility only on the same
\* provider, and only on the same key when the health table stays as it was.
LEMMA ApplyFailureRadius ==
    ASSUME NEW st \in Store, NEW c \in Candidate, NEW d \in Candidate,
           NEW class \in ErrorClass, c.key = NoKey => class # "auth",
           c.provider = d.provider => (c.key = NoKey <=> d.key = NoKey),
           Eligible(st, d), ~Eligible(ApplyFailure(st, c, class), d)
    PROVE  /\ d.provider = c.provider
           /\ ApplyFailure(st, c, class).health = st.health => d.key = c.key
  <1>1. c.provider \in Providers /\ c.key \in Keys \cup {NoKey} /\ c.model \in Models
    BY DEF Candidate
  <1>2. CASE class = "auth"
    <2>1. ApplyFailure(st, c, class) = SetCredential(st, c.provider, c.key, "AUTH_ERROR")
      BY <1>2 DEF ApplyFailure
    <2>2. d.provider = c.provider /\ d.key = c.key
      BY <1>1, <1>2, <2>1, SetCredentialRadius DEF CredentialState
    <2> QED  BY <2>2
  <1>3. CASE class \in {"quota", "rate_limit"}
    <2>1. PICK m \in Models \cup {NoModel}, state \in QuotaState, ticks \in Nat :
             ApplyFailure(st, c, class) = SetQuota(st, c.provider, c.key, m, state, ticks)
      <3>1. CASE class = "quota"
        BY <3>1 DEF ApplyFailure, QuotaState
      <3>2. CASE class = "rate_limit"
        BY <1>1, <3>2, PolicyAssumption DEF ApplyFailure, QuotaState
      <3> QED  BY <1>3, <3>1, <3>2
    <2>2. d.provider = c.provider /\ (d.key = c.key \/ c.key = NoKey)
      <3>1. ASSUME d.provider # c.provider \/ (d.key # c.key /\ c.key # NoKey)
            PROVE  FALSE
        <4>1. Eligible(SetQuota(st, c.provider, c.key, m, state, ticks), d)
          BY <1>1, <3>1, SetQuotaRadius
        <4> QED  BY <2>1, <4>1
      <3> QED  BY <3>1
    <2> QED  BY <2>2
  <1>4. CASE class \in {"network", "server", "model_not_found"}
    <2>1. d.provider = c.provider
      BY <1>4, HealthClassesWriteHealth
    <2>2. ApplyFailure(st, c, class) \in Store
      BY ApplyFailureType
    <2>3. ApplyFailure(st, c, class).health # st.health
      BY <1>4, <2>2, HealthClassesWriteHealth, SameTablesSameEligibility
    <2> QED  BY <2>1, <2>3
  <1>5. CASE class \in {"token_limit", "unknown"}
    BY <1>5 DEF ApplyFailure
  <1> QED  BY <1>2, <1>3, <1>4, <1>5 DEF ErrorClass

\* A step in which candidate d loses its eligibility ends an attempt on a
\* candidate of d's provider - on d's key, unless it wrote the health table.
LossExplained(d) ==
    \E s \in Slots, c \in Routed :
       /\ Attempted(s, c)
       /\ c.provider = d.provider
       /\ store'.health = store.health => c.key = d.key

\* The candidate an ending attempt was made on is one of a route.
LEMMA EndsInRouted ==
    ASSUME TypeInv, NEW s \in Slots, NEW outcome, EndsIn(s, outcome)
    PROVE  Current(req[s]) \in Routed /\ Attempted(s, Current(req[s]))
  <1>1. req[s] \in Request /\ req[s].phase = "attempting"
        /\ req[s].current \in DOMAIN req[s].route
    BY EndsInType
  <1>2. req[s].route \in Routes
    BY <1>1 DEF Request
  <1> QED  BY <1>1, <1>2 DEF Routed, Current, Attempted

\* The candidates of routes are candidates.
LEMMA RoutedType == Routed \subseteq Candidate
  BY RouteType DEF Routed

\* A failure write, alone or after a success write, explains every loss.
LEMMA FailureExplained ==
    ASSUME TypeInv, NEW s \in Slots, NEW outcome, EndsIn(s, outcome),
           NEW class \in ErrorClass, Current(req[s]).key = NoKey => class # "auth",
           store' = ApplyFailure(store, Current(req[s]), class),
           NEW d \in Routed, Eligible(store, d), ~Eligible(store', d)
    PROVE  LossExplained(d)
  <1> DEFINE c == Current(req[s])
  <1>1. c \in Routed /\ Attempted(s, c) /\ c \in Candidate /\ d \in Candidate /\ store \in Store
    BY EndsInRouted, RoutedType DEF TypeInv
  <1>2. c.provider = d.provider => (c.key = NoKey <=> d.key = NoKey)
    BY <1>1, ProviderTypeAssumption
  <1>3. d.provider = c.provider /\ (store'.health = store.health => d.key = c.key)
    BY <1>1, <1>2, ApplyFailureRadius
  <1> HIDE DEF c
  <1> QED  BY <1>1, <1>3 DEF LossExplained

\* An answered attempt that a raising write turns into a server failure.
LEMMA UnrecordedExplained ==
    ASSUME TypeInv, NEW s \in Slots, SuccessUnrecorded(s),
           NEW d \in Routed, Eligible(store, d), ~Eligible(store', d)
    PROVE  LossExplained(d)
  <1> DEFINE c == Current(req[s])
  <1>1. EndsIn(s, "success")
    BY DEF SuccessUnrecorded
  <1>2. c \in Routed /\ Attempted(s, c) /\ c \in Candidate /\ d \in Candidate /\ store \in Store
    BY <1>1, EndsInRouted, RoutedType DEF TypeInv
  <1>3. PICK st \in {store, ApplySuccess(store, c)} :
           store' \in {st, ApplyFailure(st, c, "server")}
    BY DEF SuccessUnrecorded
  <1> HIDE DEF c
  <1>4. /\ st \in Store /\ Eligible(st, d)
        /\ st.quota = store.quota /\ st.credential = store.credential
    <2>1. ApplySuccess(store, c) \in Store /\ Eligible(ApplySuccess(store, c), d)
      BY <1>2, ApplySuccessType, SuccessKeepsEligible
    <2>2. /\ ApplySuccess(store, c).quota = store.quota
          /\ ApplySuccess(store, c).credential = store.credential
      BY <1>2 DEF ApplySuccess, SetHealth, Store
    <2> QED  BY <1>2, <2>1, <2>2
  <1>5. store' = ApplyFailure(st, c, "server")
    BY <1>3, <1>4
  <1>6. store' \in Store
    BY <1>2, <1>4, <1>5, ApplyFailureType DEF ErrorClass
  <1>7. /\ store'.quota = store.quota /\ store'.credential = store.credential
        /\ d.provider = c.provider
    BY <1>2, <1>4, <1>5, HealthClassesWriteHealth
  <1>8. store'.health # store.health
    BY <1>2, <1>6, <1>7, SameTablesSameEligibility
  <1> QED  BY <1>2, <1>7, <1>8 DEF LossExplained

\* Every loss of eligibility is explained by the step it happens in.
LEMMA LossStep ==
    ASSUME TypeInv, Next, NEW d \in Routed, Eligible(store, d), ~Eligible(store', d)
    PROVE  LossExplained(d)
  <1>1. store \in Store /\ d \in Candidate /\ store' # store
    BY RoutedType DEF TypeInv
  <1>2. CASE Tick
    BY <1>1, <1>2, AgeKeepsEligible DEF Tick
  <1>3. CASE Crash
    BY <1>1, <1>3 DEF Crash
  <1>4. ASSUME NEW s \in Slots, Reject(s) \/ Start(s) \/ FailCommitted(s) \/ Retry(s)
        PROVE  FALSE
    BY <1>1, <1>4 DEF Reject, Start, FailCommitted, Retry, ApplyFailure
  <1>5. ASSUME NEW s \in Slots, Succeed(s) PROVE FALSE
    <2>1. EndsIn(s, "success") /\ store' = ApplySuccess(store, Current(req[s]))
      BY <1>5 DEF Succeed
    <2> QED  BY <1>1, <2>1, EndsInType, SuccessKeepsEligible
  <1>6. ASSUME NEW s \in Slots, Fallback(s) PROVE LossExplained(d)
    <2>1. PICK class \in ErrorClass :
             EndsIn(s, class) /\ store' = ApplyFailure(store, Current(req[s]), class)
      BY <1>6 DEF Fallback
    <2> QED  BY <2>1, EndsInType, FailureExplained
  <1>7. ASSUME NEW s \in Slots, Breach(s) PROVE LossExplained(d)
    <2>1. EndsIn(s, "breach") /\ store' = ApplyFailure(store, Current(req[s]), "server")
      BY <1>7 DEF Breach
    <2> QED  BY <2>1, FailureExplained DEF ErrorClass
  <1>8. ASSUME NEW s \in Slots, SuccessUnrecorded(s) PROVE LossExplained(d)
    BY <1>8, UnrecordedExplained
  <1>9. ASSUME NEW s \in Slots, FailureUnrecorded(s) PROVE LossExplained(d)
    <2>1. \/ \E class \in ErrorClass :
                EndsIn(s, class) /\ store' = ApplyFailure(store, Current(req[s]), class)
          \/ EndsIn(s, "breach") /\ store' = ApplyFailure(store, Current(req[s]), "server")
      BY <1>1, <1>9 DEF FailureUnrecorded
    <2>2. ASSUME NEW class \in ErrorClass, EndsIn(s, class),
                 store' = ApplyFailure(store, Current(req[s]), class)
          PROVE  LossExplained(d)
      BY <2>2, EndsInType, FailureExplained
    <2>3. CASE EndsIn(s, "breach") /\ store' = ApplyFailure(store, Current(req[s]), "server")
      BY <2>3, FailureExplained DEF ErrorClass
    <2> QED  BY <2>1, <2>2, <2>3
  <1>10. ASSUME NEW s \in Slots, CrashAfterWrite(s) PROVE LossExplained(d)
    <2>1. CASE EndsIn(s, "success") /\ store' = ApplySuccess(store, Current(req[s]))
      BY <1>1, <2>1, EndsInType, SuccessKeepsEligible
    <2>2. ASSUME NEW class \in ErrorClass, EndsIn(s, class),
                 store' = ApplyFailure(store, Current(req[s]), class)
          PROVE  LossExplained(d)
      BY <2>2, EndsInType, FailureExplained
    <2> QED  BY <1>10, <2>1, <2>2 DEF CrashAfterWrite
  <1> QED  BY <1>2, <1>3, <1>4, <1>5, <1>6, <1>7, <1>8, <1>9, <1>10 DEF Next, Respond

\* Isolation of scopes, for every set of providers, keys, models and routes: a
\* candidate is lost only to an attempt on its provider, and when the attempt
\* ended in auth, quota or rate limit, only to an attempt on its own key.
THEOREM ScopesIsolated == Spec => BlastRadius
  <1>1. TypeInv /\ [Next]_vars =>
          [\A d \in Routed : Eligible(store, d) /\ ~Eligible(store', d) =>
              LossExplained(d)]_vars
    BY LossStep
  <1>2. (\A d \in Routed : Eligible(store, d) /\ ~Eligible(store', d) => LossExplained(d))
        <=> (\A c \in Routed : Eligible(store, c) /\ ~Eligible(store', c) =>
                \E s \in Slots, d \in Routed :
                   /\ Attempted(s, d)
                   /\ d.provider = c.provider
                   /\ store'.health = store.health => d.key = c.key)
    BY DEF LossExplained
  <1> QED  BY <1>1, <1>2, InitType, TypeInvStep, PTL DEF Spec, BlastRadius

-----------------------------------------------------------------------------
(* What one step makes of the request in slot s.                            *)

\* The loop has gone on from r to r2: it ran into the ceiling, found nothing
\* eligible, or calls the first position that is eligible in st.
GoesOn(r, r2, st) ==
    /\ r2.route = r.route
    /\ r2.fallbacks = r.fallbacks
    /\ \/ /\ r2.phase = "hard_attempt_ceiling"
          /\ r.attempts >= HardCeiling
          /\ r.pending # {}
       \/ /\ r2.phase = "no_eligible_candidate"
          /\ \A j \in r.pending : ~Eligible(st, r.route[j])
       \/ /\ r2.phase = "attempting"
          /\ r2.retries = 0
          /\ r2.current \in r.pending
          /\ Eligible(st, r.route[r2.current])
          /\ r2.pending = {j \in r.pending : Precedes(r.route, r2.current, j)}
          /\ \A j \in r.pending :
                j = r2.current \/ j \in r2.pending \/ ~Eligible(st, r.route[j])

\* The candidate in hand has failed, and the loop has gone on.
FallsBack(r, r2, st) ==
    \E after \in SoundRequest :
       /\ after.route = r.route /\ after.pending = r.pending
       /\ after.attempts = r.attempts /\ after.fallbacks = r.fallbacks + 1
       /\ GoesOn(after, r2, st)

\* The request has ended for another reason, the candidate limit and the ceiling
\* in front of a retry among them.
Ended(r, r2) ==
    /\ r2.route = r.route
    /\ r2.phase \notin {"idle", "attempting"}
    /\ r2.phase = "no_eligible_candidate"
          => RouteCandidateLimit # 0 /\ r.fallbacks + 1 >= RouteCandidateLimit
    /\ r2.phase = "hard_attempt_ceiling"
          => r.attempts >= HardCeiling /\ r.retries < RetryLimit

\* The candidate in hand is called again.
CalledAgain(r, r2) ==
    /\ r2.route = r.route /\ r2.current = r.current /\ r2.pending = r.pending
    /\ r2.fallbacks = r.fallbacks
    /\ r2.phase = "attempting"
    /\ r.retries < RetryLimit
    /\ r2.retries = r.retries + 1

\* A request that finishes keeps its route and changes no other slot.
LEMMA FinishOutcome ==
    ASSUME NEW s \in Slots, NEW r \in Request, NEW phase \in Phase,
           req \in [Slots -> SoundRequest], Finish(s, r, phase)
    PROVE  /\ req' = [req EXCEPT ![s] = req'[s]]
           /\ req'[s].route = r.route
           /\ req'[s].fallbacks = r.fallbacks
           /\ req'[s].phase = phase
  BY DEF Finish, Request

\* An attempt is made on the candidate in hand, or the ceiling has been reached.
LEMMA AttemptOutcome ==
    ASSUME NEW s \in Slots, NEW r \in Request,
           req \in [Slots -> SoundRequest], Attempt(s, r)
    PROVE  /\ req' = [req EXCEPT ![s] = req'[s]]
           /\ req'[s].route = r.route
           /\ req'[s].fallbacks = r.fallbacks
           /\ \/ req'[s].phase = "hard_attempt_ceiling" /\ r.attempts >= HardCeiling
              \/ /\ req'[s].phase = "attempting"
                 /\ req'[s].current = r.current
                 /\ req'[s].pending = r.pending
                 /\ req'[s].retries = r.retries
  <1>1. CASE req' = [req EXCEPT ![s] = [r EXCEPT !.phase = "attempting", !.attempts = @ + 1]]
    BY <1>1 DEF Request
  <1>2. CASE Finish(s, r, "hard_attempt_ceiling") /\ r.attempts >= HardCeiling
    BY <1>2, FinishOutcome DEF Phase
  <1> QED  BY <1>1, <1>2 DEF Attempt

\* The for loop goes on as GoesOn has it.
LEMMA MoveOnOutcome ==
    ASSUME NEW s \in Slots, NEW r \in Request, NEW st,
           r.pending \subseteq DOMAIN r.route,
           req \in [Slots -> SoundRequest], MoveOn(s, r, st)
    PROVE  req' = [req EXCEPT ![s] = req'[s]] /\ GoesOn(r, req'[s], st)
  <1> DEFINE ready == {i \in r.pending : Eligible(st, r.route[i])}
  <1>1. CASE ready = {} /\ Finish(s, r, "no_eligible_candidate")
    <2>1. \A j \in r.pending : ~Eligible(st, r.route[j])
      BY <1>1
    <2>2. /\ req' = [req EXCEPT ![s] = req'[s]]
          /\ req'[s].route = r.route
          /\ req'[s].fallbacks = r.fallbacks
          /\ req'[s].phase = "no_eligible_candidate"
      BY <1>1, FinishOutcome DEF Phase
    <2> QED  BY <2>1, <2>2 DEF GoesOn
  <1>2. ASSUME NEW i \in ready,
               \A j \in ready \ {i} : Precedes(r.route, i, j),
               Attempt(s, [r EXCEPT !.current = i,
                                    !.retries = 0,
                                    !.pending = {j \in @ : Precedes(r.route, i, j)}])
        PROVE  req' = [req EXCEPT ![s] = req'[s]] /\ GoesOn(r, req'[s], st)
    <2> DEFINE left == {j \in r.pending : Precedes(r.route, i, j)}
               r2 == [r EXCEPT !.current = i, !.retries = 0, !.pending = left]
    <2>1. i \in r.pending /\ Eligible(st, r.route[i])
      OBVIOUS
    <2>2. i \in Nat /\ left \in SUBSET Nat
      BY <2>1 DEF Request
    <2>3. r2 \in Request /\ r2.route = r.route /\ r2.current = i /\ r2.pending = left
          /\ r2.retries = 0 /\ r2.attempts = r.attempts /\ r2.fallbacks = r.fallbacks
      BY <2>2 DEF Request
    <2>4. Attempt(s, r2)
      BY <1>2
    <2>5. \A j \in r.pending : j = i \/ j \in left \/ ~Eligible(st, r.route[j])
      BY <1>2
    <2> HIDE DEF r2
    <2>6. /\ req' = [req EXCEPT ![s] = req'[s]]
          /\ req'[s].route = r.route
          /\ req'[s].fallbacks = r.fallbacks
          /\ \/ req'[s].phase = "hard_attempt_ceiling" /\ r.attempts >= HardCeiling
             \/ /\ req'[s].phase = "attempting"
                /\ req'[s].current = i
                /\ req'[s].pending = left
                /\ req'[s].retries = 0
      BY <2>3, <2>4, AttemptOutcome
    <2> QED  BY <2>1, <2>5, <2>6 DEF GoesOn
  <1> QED  BY <1>1, <1>2 DEF MoveOn

\* A request one fallback on falls back when it goes on.
LEMMA FallingBack ==
    ASSUME NEW r \in SoundRequest, NEW r1 \in Request, NEW r2, NEW st,
           r1.route = r.route, r1.pending = r.pending, r1.attempts = r.attempts,
           r1.fallbacks = r.fallbacks + 1, r1.phase = r.phase, r1.current = r.current,
           GoesOn(r1, r2, st)
    PROVE  FallsBack(r, r2, st)
  BY DEF FallsBack, SoundRequest

\* After a failure the loop goes on, or the candidate limit ends the request.
LEMMA NextCandidateOutcome ==
    ASSUME NEW s \in Slots, NEW r \in SoundRequest, NEW st,
           req \in [Slots -> SoundRequest], NextCandidate(s, r, st)
    PROVE  /\ req' = [req EXCEPT ![s] = req'[s]]
           /\ FallsBack(r, req'[s], st) \/ Ended(r, req'[s])
  <1> DEFINE after == [r EXCEPT !.fallbacks = @ + 1]
  <1>0. r \in Request /\ r.pending \subseteq DOMAIN r.route
    BY DEF SoundRequest
  <1>1. after \in Request /\ after.route = r.route /\ after.pending = r.pending
    BY <1>0, CountersType
  <1>2. after.attempts = r.attempts /\ after.fallbacks = r.fallbacks + 1
        /\ after.phase = r.phase /\ after.current = r.current
    BY <1>0 DEF Request
  <1>3. \/ /\ RouteCandidateLimit # 0 /\ after.fallbacks >= RouteCandidateLimit
           /\ Finish(s, after, "no_eligible_candidate")
        \/ MoveOn(s, after, st)
    BY DEF NextCandidate
  <1> HIDE DEF after
  <1>4. CASE /\ RouteCandidateLimit # 0 /\ after.fallbacks >= RouteCandidateLimit
             /\ Finish(s, after, "no_eligible_candidate")
    <2>1. /\ req' = [req EXCEPT ![s] = req'[s]]
          /\ req'[s].route = r.route
          /\ req'[s].phase = "no_eligible_candidate"
      BY <1>1, <1>4, FinishOutcome DEF Phase
    <2> QED  BY <1>2, <1>4, <2>1 DEF Ended
  <1>5. CASE MoveOn(s, after, st)
    BY <1>0, <1>1, <1>2, <1>5, MoveOnOutcome, FallingBack
  <1> QED  BY <1>3, <1>4, <1>5

\* A request that finishes otherwise has Ended.
LEMMA FinishEnds ==
    ASSUME NEW s \in Slots, NEW r, NEW r1 \in Request, r1.route = r.route,
           NEW phase \in Phase \ {"idle", "attempting", "no_eligible_candidate",
                                  "hard_attempt_ceiling"},
           req \in [Slots -> SoundRequest], Finish(s, r1, phase)
    PROVE  req' = [req EXCEPT ![s] = req'[s]] /\ Ended(r, req'[s])
  BY FinishOutcome DEF Ended

\* The end of an upstream call: the loop goes on in the store as the call has
\* left it, the candidate is called again, or the request has ended.
LEMMA ResponseOutcome ==
    ASSUME TypeInv, NEW s \in Slots, Respond(s)
    PROVE  /\ req[s] \in SoundRequest /\ req[s].phase = "attempting"
           /\ req' = [req EXCEPT ![s] = req'[s]]
           /\ Observe(s, hist[s])
           /\ \/ FallsBack(req[s], req'[s], store')
              \/ Ended(req[s], req'[s])
              \/ CalledAgain(req[s], req'[s])
  <1> DEFINE r == req[s]
  <1>0. req \in [Slots -> SoundRequest]
    BY DEF TypeInv
  <1>1. PICK outcome : EndsIn(s, outcome)
    BY DEF Respond, Succeed, FailCommitted, Retry, Fallback, Breach, SuccessUnrecorded,
           FailureUnrecorded
  <1>2. r \in Request /\ r \in SoundRequest /\ r.phase = "attempting"
        /\ r.pending \subseteq DOMAIN r.route
    BY <1>0, <1>1, EndsInType
  <1>3. Observe(s, hist[s])
    BY DEF Respond, Succeed, FailCommitted, Retry, Fallback, Breach, SuccessUnrecorded,
           FailureUnrecorded
  <1> DEFINE logged == Logged(r)
             answered == [r EXCEPT !.answers = @ + 1]
  <1>4. /\ logged \in Request /\ logged.route = r.route /\ logged.pending = r.pending
        /\ logged.current = r.current /\ logged.retries = r.retries
    BY <1>2, LoggedType
  <1>5. /\ logged.attempts = r.attempts /\ logged.fallbacks = r.fallbacks
        /\ logged.phase = r.phase
    BY <1>2 DEF Logged, Request
  <1>6. answered \in Request /\ answered.route = r.route
    BY <1>2, CountersType
  <1>7. SUFFICES /\ req' = [req EXCEPT ![s] = req'[s]]
                 /\ \/ FallsBack(r, req'[s], store')
                    \/ Ended(r, req'[s])
                    \/ CalledAgain(r, req'[s])
    BY <1>0, <1>2, <1>3
  <1>8. CASE Succeed(s)
    <2> DEFINE r1 == [logged EXCEPT !.answers = @ + 1]
    <2>1. r1 \in Request /\ r1.route = r.route
      <3> HIDE DEF logged
      <3> QED  BY <1>4, CountersType
    <2>2. Finish(s, r1, "success")
      BY <1>8 DEF Succeed
    <2> HIDE DEF r1
    <2> QED  BY <1>0, <2>1, <2>2, FinishEnds DEF Phase
  <1>9. CASE FailCommitted(s)
    <2>1. Finish(s, logged, "partial_stream_failure")
      BY <1>9 DEF FailCommitted
    <2> HIDE DEF logged
    <2> QED  BY <1>0, <1>4, <2>1, FinishEnds DEF Phase
  <1>10. CASE Retry(s)
    <2> DEFINE r1 == [logged EXCEPT !.retries = @ + 1]
    <2>1. /\ r1 \in Request /\ r1.route = r.route /\ r1.pending = r.pending
          /\ r1.current = r.current
      <3> HIDE DEF logged
      <3> QED  BY <1>4, CountersType
    <2>2. r1.retries = r.retries + 1 /\ r1.attempts = r.attempts /\ r1.fallbacks = r.fallbacks
      <3> HIDE DEF logged
      <3> QED  BY <1>4, <1>5 DEF Request
    <2>3. Attempt(s, r1) /\ r.retries < RetryLimit
      BY <1>10 DEF Retry, RetriesSame
    <2> HIDE DEF r1
    <2>4. /\ req' = [req EXCEPT ![s] = req'[s]]
          /\ req'[s].route = r.route
          /\ req'[s].fallbacks = r.fallbacks
          /\ \/ req'[s].phase = "hard_attempt_ceiling" /\ r.attempts >= HardCeiling
             \/ /\ req'[s].phase = "attempting"
                /\ req'[s].current = r.current
                /\ req'[s].pending = r.pending
                /\ req'[s].retries = r.retries + 1
      BY <1>0, <2>1, <2>2, <2>3, AttemptOutcome
    <2> QED  BY <2>3, <2>4 DEF CalledAgain, Ended
  <1>11. CASE Fallback(s)
    <2>1. NextCandidate(s, logged, store')
      BY <1>11 DEF Fallback
    <2>2. logged \in SoundRequest
      BY <1>2, <1>4, <1>5 DEF SoundRequest
    <2> HIDE DEF logged
    <2>3. /\ req' = [req EXCEPT ![s] = req'[s]]
          /\ FallsBack(logged, req'[s], store') \/ Ended(logged, req'[s])
      BY <1>0, <2>1, <2>2, NextCandidateOutcome
    <2> QED  BY <1>4, <1>5, <2>3 DEF FallsBack, Ended
  <1>12. CASE Breach(s)
    <2> DEFINE r1 == [logged EXCEPT !.fallbacks = @ + 1]
    <2>1. r1 \in Request /\ r1.route = r.route /\ r1.pending = r.pending
      <3> HIDE DEF logged
      <3> QED  BY <1>4, CountersType
    <2>2. /\ r1.attempts = r.attempts /\ r1.fallbacks = r.fallbacks + 1
          /\ r1.phase = r.phase /\ r1.current = r.current
      <3> HIDE DEF logged
      <3> QED  BY <1>4, <1>5 DEF Request
    <2>3. MoveOn(s, r1, store')
      BY <1>12 DEF Breach
    <2> HIDE DEF r1
    <2> QED  BY <1>0, <1>2, <2>1, <2>2, <2>3, MoveOnOutcome, FallingBack
  <1>13. CASE SuccessUnrecorded(s)
    <2> DEFINE r1 == [Logged(answered) EXCEPT !.fallbacks = @ + 1]
    <2>1. r1 = [r EXCEPT !.logged = @ + 1, !.answers = @ + 1, !.fallbacks = @ + 1]
      BY <1>2 DEF Logged, Request
    <2>2. r.logged + 1 \in Nat /\ r.answers + 1 \in Nat /\ r.fallbacks + 1 \in Nat
      BY <1>2 DEF Request
    <2>3. r1 \in Request
      BY <1>2, <2>1, <2>2 DEF Request
    <2>4. /\ r1.route = r.route /\ r1.pending = r.pending
          /\ r1.attempts = r.attempts /\ r1.fallbacks = r.fallbacks + 1
          /\ r1.phase = r.phase /\ r1.current = r.current
      BY <1>2, <2>1 DEF Request
    <2>5. MoveOn(s, r1, store') \/ Finish(s, answered, "internal_error")
      BY <1>13 DEF SuccessUnrecorded
    <2> HIDE DEF answered, r1
    <2>6. CASE MoveOn(s, r1, store')
      BY <1>0, <1>2, <2>3, <2>4, <2>6, MoveOnOutcome, FallingBack
    <2>7. CASE Finish(s, answered, "internal_error")
      BY <1>0, <1>6, <2>7, FinishEnds DEF Phase
    <2> QED  BY <2>5, <2>6, <2>7
  <1>14. CASE FailureUnrecorded(s)
    <2>1. Finish(s, r, "internal_error")
      BY <1>14 DEF FailureUnrecorded
    <2> QED  BY <1>0, <1>2, <2>1, FinishEnds DEF Phase
  <1> QED  BY <1>8, <1>9, <1>10, <1>11, <1>12, <1>13, <1>14 DEF Respond

\* A request that starts has, in the loop, those of its route that are gated in
\* and usable; the others are barred.
LEMMA StartOutcome ==
    ASSUME TypeInv, NEW s \in Slots, Start(s)
    PROVE  \E r \in SoundRequest, was \in History :
              /\ store' = store
              /\ req' = [req EXCEPT ![s] = req'[s]]
              /\ GoesOn(r, req'[s], store')
              /\ Observe(s, was)
              /\ was.tried = {}
              /\ r.route \in Routes
              /\ r.fallbacks = 0 /\ r.attempts = 0
              /\ \A i \in DOMAIN r.route :
                    i \in was.barred \/ i \in r.pending \/ ~Eligible(store', r.route[i])
  <1>1. PICK route \in Routes, need \in Needs :
           /\ store' = store
           /\ MoveOn(s, [Idle EXCEPT !.route = route,
                                     !.pending = {i \in Gate(route, need) :
                                                    Usable(store, route[i])}], store)
           /\ Observe(s, [NoHistory EXCEPT !.barred = DOMAIN route \ Gate(route, need)])
    BY DEF Start
  <1> DEFINE open == {i \in Gate(route, need) : Usable(store, route[i])}
             r == [Idle EXCEPT !.route = route, !.pending = open]
             was == [NoHistory EXCEPT !.barred = DOMAIN route \ Gate(route, need)]
  <1>2. open \subseteq DOMAIN route /\ DOMAIN route \subseteq Nat
    BY RouteType DEF Gate
  <1>3. r \in Request /\ r.pending = open /\ r.route = route /\ r.phase = "idle"
        /\ r.fallbacks = 0 /\ r.attempts = 0
    BY <1>2 DEF Idle, Request, Phase
  <1>4. was \in History /\ was.tried = {} /\ was.barred = DOMAIN route \ Gate(route, need)
    BY <1>2 DEF NoHistory, History
  <1>5. \A i \in DOMAIN route : i \in was.barred \/ i \in open \/ ~Eligible(store, route[i])
    BY <1>4 DEF Eligible
  <1>6. MoveOn(s, r, store) /\ Observe(s, was) /\ store' = store
    BY <1>1
  <1>7. r \in SoundRequest
    BY <1>2, <1>3 DEF SoundRequest
  <1> HIDE DEF r, was, open
  <1>8. req' = [req EXCEPT ![s] = req'[s]] /\ GoesOn(r, req'[s], store)
    BY <1>2, <1>3, <1>6, MoveOnOutcome DEF TypeInv
  <1> QED  BY <1>3, <1>4, <1>5, <1>6, <1>7, <1>8

-----------------------------------------------------------------------------
(* The invariant: what a request in flight has behind it and before it.     *)

\* Of the route, each position has been tried, is barred or is still pending;
\* what is pending is neither tried nor ahead of the candidate in hand; and there
\* has been one fallback for each candidate tried before the one in hand.
OnItsWay(r, h) ==
    /\ r.route \in Routes
    /\ h.tried \subseteq DOMAIN r.route
    /\ DOMAIN r.route \subseteq h.tried \cup h.barred \cup r.pending
    /\ h.tried \cap r.pending = {}
    /\ r.current \in h.tried
    /\ \A j \in r.pending : Precedes(r.route, r.current, j)
    /\ r.retries <= RetryLimit
    /\ Cardinality(h.tried) = r.fallbacks + 1

\* The candidate limit is none, or no lower than the length of the route.
Unlimited(route) == RouteCandidateLimit = 0 \/ Len(route) <= RouteCandidateLimit

\* A request in flight is on its way; one that was refused has been all the way,
\* unless the candidate limit stopped it.
Story(r, h) ==
    /\ r.phase = "attempting" => OnItsWay(r, h)
    /\ r.phase = "no_eligible_candidate" /\ Unlimited(r.route) =>
          DOMAIN r.route \subseteq h.tried \cup h.barred

StoryInv == \A s \in Slots : Story(req[s], hist[s])

\* What Observe makes of the history of its slot.
LEMMA ObserveOutcome ==
    ASSUME NEW s \in Slots, NEW was, hist \in [Slots -> History], Observe(s, was)
    PROVE  /\ hist' = [hist EXCEPT ![s] = hist'[s]]
           /\ hist'[s].tried = was.tried \cup (IF req'[s].phase = "attempting"
                                               THEN {req'[s].current} ELSE {})
           /\ hist'[s].barred = was.barred \cup {i \in DOMAIN req'[s].route :
                                                   ~Eligible(store', req'[s].route[i])}
  BY DEF Observe

\* A route's positions are finitely many, and so are those tried of them.
LEMMA TriedCount ==
    ASSUME NEW route \in Routes, NEW tried, tried \subseteq DOMAIN route
    PROVE  /\ IsFiniteSet(tried)
           /\ Cardinality(tried) \in Nat
           /\ Cardinality(tried) <= Len(route)
           /\ Cardinality(tried) = Len(route) => tried = DOMAIN route
           /\ tried # DOMAIN route => Cardinality(tried) < Len(route)
  <1>1. DOMAIN route = 1..Len(route) /\ Len(route) \in Nat
    BY ServingAssumption
  <1>2. IsFiniteSet(DOMAIN route) /\ Cardinality(DOMAIN route) = Len(route)
    BY <1>1, FS_Interval
  <1>3. /\ IsFiniteSet(tried)
        /\ Cardinality(tried) <= Cardinality(DOMAIN route)
        /\ Cardinality(DOMAIN route) = Cardinality(tried) => DOMAIN route = tried
    BY <1>2, FS_Subset
  <1>4. Cardinality(tried) \in Nat
    BY <1>3, FS_CardinalityType
  <1> QED  BY <1>1, <1>2, <1>3, <1>4

\* A loop that goes on from a request whose positions are tried, barred,
\* pending or not eligible now keeps the story.
LEMMA GoesOnStory ==
    ASSUME NEW r \in SoundRequest, NEW r2, NEW was, NEW h2, NEW st,
           r.route \in Routes,
           was.tried \subseteq DOMAIN r.route,
           was.tried \cap r.pending = {},
           Cardinality(was.tried) = r.fallbacks,
           \A i \in DOMAIN r.route : \/ i \in was.tried \cup was.barred \cup r.pending
                                     \/ ~Eligible(st, r.route[i]),
           GoesOn(r, r2, st),
           h2.tried = was.tried \cup (IF r2.phase = "attempting" THEN {r2.current} ELSE {}),
           h2.barred = was.barred \cup {i \in DOMAIN r2.route : ~Eligible(st, r2.route[i])}
    PROVE  Story(r2, h2)
  <1>1. r.pending \subseteq DOMAIN r.route /\ DOMAIN r.route \subseteq Nat
    BY RouteType DEF SoundRequest
  <1>2. r2.route = r.route /\ r2.fallbacks = r.fallbacks
    BY DEF GoesOn
  <1>3. CASE r2.phase = "hard_attempt_ceiling"
    BY <1>3 DEF Story
  <1>4. CASE /\ r2.phase = "no_eligible_candidate"
             /\ \A j \in r.pending : ~Eligible(st, r.route[j])
    <2>1. DOMAIN r2.route \subseteq h2.tried \cup h2.barred
      BY <1>2, <1>4
    <2> QED  BY <1>4, <2>1 DEF Story
  <1>5. CASE /\ r2.phase = "attempting"
             /\ r2.retries = 0
             /\ r2.current \in r.pending
             /\ r2.pending = {j \in r.pending : Precedes(r.route, r2.current, j)}
             /\ \A j \in r.pending :
                   j = r2.current \/ j \in r2.pending \/ ~Eligible(st, r.route[j])
    <2>1. h2.tried = was.tried \cup {r2.current}
      BY <1>5
    <2>2. h2.tried \subseteq DOMAIN r2.route
      BY <1>1, <1>2, <1>5, <2>1
    <2>3. DOMAIN r2.route \subseteq h2.tried \cup h2.barred \cup r2.pending
      BY <1>2, <1>5, <2>1
    <2>4. ~Precedes(r.route, r2.current, r2.current)
      BY <1>1, <1>5 DEF Precedes
    <2>5. h2.tried \cap r2.pending = {}
      BY <1>5, <2>1, <2>4
    <2>6. r2.current \in h2.tried /\ \A j \in r2.pending : Precedes(r2.route, r2.current, j)
      BY <1>2, <1>5, <2>1
    <2>7. r2.retries <= RetryLimit
      BY <1>5, PolicyAssumption
    <2>8. Cardinality(h2.tried) = r2.fallbacks + 1
      <3>1. IsFiniteSet(was.tried)
        BY TriedCount
      <3>2. r2.current \notin was.tried
        BY <1>5
      <3>3. Cardinality(was.tried \cup {r2.current}) = Cardinality(was.tried) + 1
        BY <3>1, <3>2, FS_AddElement
      <3> QED  BY <1>2, <2>1, <3>3
    <2> QED  BY <1>2, <1>5, <2>2, <2>3, <2>5, <2>6, <2>7, <2>8 DEF Story, OnItsWay
  <1> QED  BY <1>3, <1>4, <1>5 DEF GoesOn

\* One fallback on, a request that was on its way keeps the story.
LEMMA FallsBackStory ==
    ASSUME NEW r, NEW r2, NEW h, NEW h2, NEW st,
           OnItsWay(r, h), FallsBack(r, r2, st),
           h2.tried = h.tried \cup (IF r2.phase = "attempting" THEN {r2.current} ELSE {}),
           h2.barred = h.barred \cup {i \in DOMAIN r2.route : ~Eligible(st, r2.route[i])}
    PROVE  Story(r2, h2)
  <1>1. PICK after \in SoundRequest :
           /\ after.route = r.route /\ after.pending = r.pending
           /\ after.fallbacks = r.fallbacks + 1
           /\ GoesOn(after, r2, st)
    BY DEF FallsBack
  <1>2. /\ after.route \in Routes
        /\ h.tried \subseteq DOMAIN after.route
        /\ h.tried \cap after.pending = {}
        /\ DOMAIN after.route \subseteq h.tried \cup h.barred \cup after.pending
        /\ Cardinality(h.tried) = after.fallbacks
    BY <1>1 DEF OnItsWay
  <1> QED  BY <1>1, <1>2, GoesOnStory

\* A request that ends has no more story, unless the candidate limit ended it:
\* with a limit that covers the route, it has been all the way by then.
LEMMA EndedStory ==
    ASSUME NEW r \in SoundRequest, NEW r2, NEW h, NEW h2,
           OnItsWay(r, h), Ended(r, r2), h.tried \subseteq h2.tried
    PROVE  Story(r2, h2)
  <1> SUFFICES ASSUME r2.phase = "no_eligible_candidate", Unlimited(r2.route)
               PROVE  DOMAIN r2.route \subseteq h2.tried \cup h2.barred
    BY DEF Ended, Story
  <1>1. r2.route = r.route /\ RouteCandidateLimit # 0 /\ r.fallbacks + 1 >= RouteCandidateLimit
    BY DEF Ended
  <1>2. Len(r.route) <= RouteCandidateLimit
    BY <1>1 DEF Unlimited
  <1>3. r.route \in Routes /\ h.tried \subseteq DOMAIN r.route
        /\ Cardinality(h.tried) = r.fallbacks + 1
    BY DEF OnItsWay
  <1>4. Len(r.route) \in Nat /\ RouteCandidateLimit \in Nat
    BY <1>3, ServingAssumption, PolicyAssumption
  <1>5. ~(Cardinality(h.tried) < Len(r.route))
    BY <1>1, <1>2, <1>3, <1>4, TriedCount
  <1>6. h.tried = DOMAIN r.route
    BY <1>3, <1>5, TriedCount
  <1> QED  BY <1>1, <1>6

\* A candidate that is called again was tried before.
LEMMA CalledAgainStory ==
    ASSUME NEW r \in SoundRequest, NEW r2, NEW h, NEW h2,
           r.phase = "attempting", Story(r, h), CalledAgain(r, r2),
           h2.tried = h.tried \cup (IF r2.phase = "attempting" THEN {r2.current} ELSE {}),
           h.barred \subseteq h2.barred
    PROVE  Story(r2, h2) /\ h2.tried = h.tried
  <1>1. OnItsWay(r, h)
    BY DEF Story
  <1>2. h2.tried = h.tried
    BY <1>1 DEF CalledAgain, OnItsWay
  <1>3. r2.retries <= RetryLimit
    <2>1. r.retries \in Nat
      BY DEF SoundRequest, Request
    <2> QED  BY <2>1, PolicyAssumption DEF CalledAgain
  <1>4. OnItsWay(r2, h2)
    BY <1>1, <1>2, <1>3 DEF CalledAgain, OnItsWay
  <1> QED  BY <1>2, <1>4 DEF Story, CalledAgain

\* A slot that is idle or was rejected has no story.
LEMMA IdleStory ==
    ASSUME NEW r, NEW h, r.phase \notin {"attempting", "no_eligible_candidate"}
    PROVE  Story(r, h)
  BY DEF Story

\* The story of a slot that takes a step of its own.
LEMMA SlotStory ==
    ASSUME TypeInv, StoryInv, NEW s \in Slots, Reject(s) \/ Start(s) \/ Respond(s)
    PROVE  /\ req' = [req EXCEPT ![s] = req'[s]]
           /\ hist' = [hist EXCEPT ![s] = hist'[s]]
           /\ Story(req'[s], hist'[s])
  <1>0. hist \in [Slots -> History] /\ req \in [Slots -> SoundRequest]
    BY DEF TypeInv
  <1>1. CASE Reject(s)
    <2>1. PICK phase \in {"unknown_virtual_model", "request_validation"} :
             req' = [req EXCEPT ![s] = [Idle EXCEPT !.phase = phase]]
      BY <1>1 DEF Reject
    <2>2. hist' = [hist EXCEPT ![s] = NoHistory]
      BY <1>1 DEF Reject
    <2>3. [Idle EXCEPT !.phase = phase].phase = phase
      BY DEF Idle
    <2>4. Story(req'[s], hist'[s])
      BY <1>0, <2>1, <2>3, IdleStory
    <2> QED  BY <1>0, <2>1, <2>2, <2>4
  <1>2. CASE Start(s)
    <2>1. PICK r \in SoundRequest, was \in History :
             /\ store' = store
             /\ req' = [req EXCEPT ![s] = req'[s]]
             /\ GoesOn(r, req'[s], store')
             /\ Observe(s, was)
             /\ was.tried = {}
             /\ r.route \in Routes
             /\ r.fallbacks = 0
             /\ \A i \in DOMAIN r.route :
                   i \in was.barred \/ i \in r.pending \/ ~Eligible(store', r.route[i])
      BY <1>2, StartOutcome
    <2>2. /\ hist' = [hist EXCEPT ![s] = hist'[s]]
          /\ hist'[s].tried = was.tried \cup (IF req'[s].phase = "attempting"
                                              THEN {req'[s].current} ELSE {})
          /\ hist'[s].barred = was.barred \cup {i \in DOMAIN req'[s].route :
                                                  ~Eligible(store', req'[s].route[i])}
      BY <1>0, <2>1, ObserveOutcome
    <2>3. Cardinality(was.tried) = r.fallbacks
      BY <2>1, FS_EmptySet
    <2>4. /\ r.route \in Routes
          /\ GoesOn(r, req'[s], store')
          /\ was.tried \subseteq DOMAIN r.route
          /\ was.tried \cap r.pending = {}
          /\ \A i \in DOMAIN r.route : \/ i \in was.tried \cup was.barred \cup r.pending
                                        \/ ~Eligible(store', r.route[i])
      BY <2>1
    <2>5. Story(req'[s], hist'[s])
      BY <2>2, <2>3, <2>4, GoesOnStory
    <2> QED  BY <2>1, <2>2, <2>5
  <1>3. CASE Respond(s)
    <2>1. /\ req[s] \in SoundRequest /\ req[s].phase = "attempting"
          /\ req' = [req EXCEPT ![s] = req'[s]]
          /\ Observe(s, hist[s])
          /\ \/ FallsBack(req[s], req'[s], store')
             \/ Ended(req[s], req'[s])
             \/ CalledAgain(req[s], req'[s])
      BY <1>3, ResponseOutcome
    <2>2. /\ hist' = [hist EXCEPT ![s] = hist'[s]]
          /\ hist'[s].tried = hist[s].tried \cup (IF req'[s].phase = "attempting"
                                                  THEN {req'[s].current} ELSE {})
          /\ hist'[s].barred = hist[s].barred \cup {i \in DOMAIN req'[s].route :
                                                      ~Eligible(store', req'[s].route[i])}
      BY <1>0, <2>1, ObserveOutcome
    <2>3. Story(req[s], hist[s]) /\ OnItsWay(req[s], hist[s])
      BY <2>1 DEF StoryInv, Story
    <2>4. CASE FallsBack(req[s], req'[s], store')
      <3>1. Story(req'[s], hist'[s])
        BY <2>2, <2>3, <2>4, FallsBackStory
      <3> QED  BY <2>1, <2>2, <3>1
    <2>5. CASE Ended(req[s], req'[s])
      <3>1. Story(req'[s], hist'[s])
        BY <2>1, <2>2, <2>3, <2>5, EndedStory
      <3> QED  BY <2>1, <2>2, <3>1
    <2>6. CASE CalledAgain(req[s], req'[s])
      <3>1. Story(req'[s], hist'[s])
        BY <2>1, <2>2, <2>3, <2>6, CalledAgainStory
      <3> QED  BY <2>1, <2>2, <3>1
    <2> QED  BY <2>1, <2>4, <2>5, <2>6
  <1> QED  BY <1>1, <1>2, <1>3

\* StoryInv is an invariant of every step.
LEMMA StoryStep == TypeInv /\ StoryInv /\ [Next]_vars => StoryInv'
  <1> SUFFICES ASSUME TypeInv, StoryInv, [Next]_vars PROVE StoryInv'
    OBVIOUS
  <1>0. req \in [Slots -> SoundRequest] /\ hist \in [Slots -> History]
    BY DEF TypeInv
  <1>1. ASSUME NEW s \in Slots, Reject(s) \/ Start(s) \/ Respond(s) PROVE StoryInv'
    <2>1. /\ req' = [req EXCEPT ![s] = req'[s]]
          /\ hist' = [hist EXCEPT ![s] = hist'[s]]
          /\ Story(req'[s], hist'[s])
      BY <1>1, SlotStory
    <2>2. ASSUME NEW t \in Slots PROVE Story(req'[t], hist'[t])
      <3>1. CASE t = s
        BY <2>1, <3>1
      <3>2. CASE t # s
        <4>1. req'[t] = req[t] /\ hist'[t] = hist[t]
          BY <1>0, <2>1, <3>2
        <4> QED  BY <4>1 DEF StoryInv
      <3> QED  BY <3>1, <3>2
    <2> QED  BY <2>2 DEF StoryInv
  <1>2. ASSUME req' = [s \in Slots |-> Idle] PROVE StoryInv'
    <2>1. Idle.phase = "idle"
      BY DEF Idle
    <2>2. \A h : Story(Idle, h)
      BY <2>1, IdleStory
    <2> QED  BY <1>2, <2>2 DEF StoryInv
  <1>3. CASE Tick \/ UNCHANGED vars
    BY <1>3 DEF Tick, vars, StoryInv
  <1>4. CASE Crash \/ \E s \in Slots : CrashAfterWrite(s)
    BY <1>2, <1>4 DEF Crash, CrashAfterWrite
  <1> QED  BY <1>1, <1>3, <1>4 DEF Next

\* At the start no request is in flight.
LEMMA InitStory == Init => StoryInv
  <1>1. Idle.phase = "idle"
    BY DEF Idle
  <1>2. \A h : Story(Idle, h)
    BY <1>1, IdleStory
  <1> QED  BY <1>2 DEF Init, StoryInv

\* The invariants together, in every behaviour.
LEMMA StoryKept == Spec => [](TypeInv /\ StoryInv)
  BY InitType, TypeInvStep, InitStory, StoryStep, PTL DEF Spec

\* What a request that gave up has seen of its route follows from its story.
LEMMA NobodyLeftOut ==
    ASSUME \A route \in Routes : Unlimited(route), TypeInv, StoryInv
    PROVE  NobodyForgotten
  <1> SUFFICES ASSUME NEW s \in Slots, req[s].phase = "no_eligible_candidate"
               PROVE  DOMAIN req[s].route \subseteq hist[s].tried \cup hist[s].barred
    BY DEF NobodyForgotten
  <1>1. req[s].route \in Routes \cup {<<>>}
    BY DEF TypeInv, SoundRequest, Request
  <1>2. CASE req[s].route = <<>>
    BY <1>2
  <1>3. CASE req[s].route \in Routes
    BY <1>3 DEF StoryInv, Story
  <1> QED  BY <1>1, <1>2, <1>3

\* With a candidate limit that cuts no route short, a request that is refused with
\* 502 has attempted every candidate of its route that was gated in and that it did
\* not see ineligible, however others write the store, and with crashes and faults.
THEOREM NothingGivenUpUntried ==
    ASSUME \A route \in Routes : Unlimited(route)
    PROVE  Spec => []NobodyForgotten
  BY NobodyLeftOut, StoryKept, PTL

\* A reserve key is attempted only after each regular candidate of the route has
\* been attempted or was barred, for every route and order of keys in it.
THEOREM ReserveSpentLast == Spec => []ReserveLast
  <1>1. TypeInv /\ StoryInv => ReserveLast
    <2> SUFFICES ASSUME TypeInv, StoryInv, NEW s \in Slots,
                        req[s].phase = "attempting", Current(req[s]).reserve,
                        NEW i \in DOMAIN req[s].route, ~req[s].route[i].reserve
                 PROVE  i \in hist[s].tried \cup hist[s].barred
      BY DEF ReserveLast
    <2>1. OnItsWay(req[s], hist[s])
      BY DEF StoryInv, Story
    <2>2. i \notin req[s].pending
      BY <2>1 DEF OnItsWay, Precedes, Current
    <2> QED  BY <2>1, <2>2 DEF OnItsWay
  <1> QED  BY <1>1, StoryKept, PTL

-----------------------------------------------------------------------------
(* What has answered is not asked again.                                    *)

\* Of request r a step makes r2, which counts at most one answer more; when it is
\* still in flight, an answer more is a fallback more.
CountsAnswers(r, r2) ==
    /\ r2.answers \in {r.answers, r.answers + 1}
    /\ r2.phase = "attempting" =>
          r2.answers - r.answers \in 0..(r2.fallbacks - r.fallbacks)

\* Ending a request, or calling its candidate, counts neither answers nor fallbacks.
LEMMA FinishCounts ==
    ASSUME NEW s \in Slots, NEW r \in Request, NEW phase \in Phase,
           req \in [Slots -> SoundRequest], Finish(s, r, phase)
    PROVE  /\ req'[s].answers = r.answers /\ req'[s].fallbacks = r.fallbacks
           /\ req'[s].phase = phase
  BY DEF Finish, Request

LEMMA AttemptCounts ==
    ASSUME NEW s \in Slots, NEW r \in Request,
           req \in [Slots -> SoundRequest], Attempt(s, r)
    PROVE  req'[s].answers = r.answers /\ req'[s].fallbacks = r.fallbacks
  <1>1. CASE req' = [req EXCEPT ![s] = [r EXCEPT !.phase = "attempting", !.attempts = @ + 1]]
    BY <1>1 DEF Request
  <1>2. CASE Finish(s, r, "hard_attempt_ceiling")
    BY <1>2, FinishCounts DEF Phase
  <1> QED  BY <1>1, <1>2 DEF Attempt

\* Nor does the search for the next candidate.
LEMMA MoveOnCounts ==
    ASSUME NEW s \in Slots, NEW r \in Request, NEW st,
           req \in [Slots -> SoundRequest], MoveOn(s, r, st)
    PROVE  req'[s].answers = r.answers /\ req'[s].fallbacks = r.fallbacks
  <1>1. CASE Finish(s, r, "no_eligible_candidate")
    BY <1>1, FinishCounts DEF Phase
  <1>2. ASSUME NEW i \in r.pending,
               Attempt(s, [r EXCEPT !.current = i,
                                    !.retries = 0,
                                    !.pending = {j \in @ : Precedes(r.route, i, j)}])
        PROVE  req'[s].answers = r.answers /\ req'[s].fallbacks = r.fallbacks
    <2> DEFINE left == {j \in r.pending : Precedes(r.route, i, j)}
               r2 == [r EXCEPT !.current = i, !.retries = 0, !.pending = left]
    <2>1. i \in Nat /\ left \in SUBSET Nat
      BY DEF Request
    <2>2. r2 \in Request /\ r2.answers = r.answers /\ r2.fallbacks = r.fallbacks
      BY <2>1 DEF Request
    <2>3. Attempt(s, r2)
      BY <1>2
    <2> HIDE DEF r2
    <2> QED  BY <2>2, <2>3, AttemptCounts
  <1> QED  BY <1>1, <1>2 DEF MoveOn

\* How the end of an upstream call counts.
LEMMA ResponseCounts ==
    ASSUME TypeInv, NEW s \in Slots, Respond(s)
    PROVE  CountsAnswers(req[s], req'[s])
  <1> DEFINE r == req[s]
             logged == Logged(r)
             answered == [r EXCEPT !.answers = @ + 1]
  <1>0. req \in [Slots -> SoundRequest] /\ r \in Request
    BY DEF TypeInv, SoundRequest
  <1>1. logged \in Request /\ logged.answers = r.answers /\ logged.fallbacks = r.fallbacks
    BY <1>0, LoggedType DEF Logged, Request
  <1>2. answered \in Request /\ answered.answers = r.answers + 1
    BY <1>0, CountersType DEF Request
  <1>3. r.answers \in Nat /\ r.fallbacks \in Nat
    BY <1>0 DEF Request
  <1>4. CASE Succeed(s)
    <2> DEFINE r1 == [logged EXCEPT !.answers = @ + 1]
    <2>1. Finish(s, r1, "success")
      BY <1>4 DEF Succeed
    <2> HIDE DEF logged
    <2>2. r1 \in Request /\ r1.answers = r.answers + 1
      BY <1>1, CountersType DEF Request
    <2> HIDE DEF r1
    <2>3. req'[s].answers = r.answers + 1 /\ req'[s].phase = "success"
      BY <1>0, <2>1, <2>2, FinishCounts DEF Phase
    <2> QED  BY <2>3 DEF CountsAnswers
  <1>5. CASE FailCommitted(s)
    <2>1. Finish(s, logged, "partial_stream_failure")
      BY <1>5 DEF FailCommitted
    <2> HIDE DEF logged
    <2>2. req'[s].answers = r.answers /\ req'[s].phase = "partial_stream_failure"
      BY <1>0, <1>1, <2>1, FinishCounts DEF Phase
    <2> QED  BY <2>2 DEF CountsAnswers
  <1>6. CASE Retry(s)
    <2> DEFINE r1 == [logged EXCEPT !.retries = @ + 1]
    <2>1. Attempt(s, r1)
      BY <1>6 DEF Retry
    <2> HIDE DEF logged
    <2>2. r1 \in Request /\ r1.answers = r.answers /\ r1.fallbacks = r.fallbacks
      BY <1>1, CountersType DEF Request
    <2> HIDE DEF r1
    <2>3. req'[s].answers = r.answers /\ req'[s].fallbacks = r.fallbacks
      BY <1>0, <2>1, <2>2, AttemptCounts
    <2> QED  BY <1>3, <2>3 DEF CountsAnswers
  <1>7. CASE Fallback(s)
    <2> DEFINE after == [logged EXCEPT !.fallbacks = @ + 1]
    <2>1. Finish(s, after, "no_eligible_candidate") \/ MoveOn(s, after, store')
      BY <1>7 DEF Fallback, NextCandidate
    <2> HIDE DEF logged
    <2>2. after \in Request /\ after.answers = r.answers /\ after.fallbacks = r.fallbacks + 1
      BY <1>1, CountersType DEF Request
    <2> HIDE DEF after
    <2>3. req'[s].answers = r.answers /\ req'[s].fallbacks = r.fallbacks + 1
      BY <1>0, <2>1, <2>2, FinishCounts, MoveOnCounts DEF Phase
    <2> QED  BY <1>3, <2>3 DEF CountsAnswers
  <1>8. CASE Breach(s)
    <2> DEFINE r1 == [logged EXCEPT !.fallbacks = @ + 1]
    <2>1. MoveOn(s, r1, store')
      BY <1>8 DEF Breach
    <2> HIDE DEF logged
    <2>2. r1 \in Request /\ r1.answers = r.answers /\ r1.fallbacks = r.fallbacks + 1
      BY <1>1, CountersType DEF Request
    <2> HIDE DEF r1
    <2>3. req'[s].answers = r.answers /\ req'[s].fallbacks = r.fallbacks + 1
      BY <1>0, <2>1, <2>2, MoveOnCounts
    <2> QED  BY <1>3, <2>3 DEF CountsAnswers
  <1>9. CASE SuccessUnrecorded(s)
    <2> DEFINE r1 == [Logged(answered) EXCEPT !.fallbacks = @ + 1]
    <2>1. MoveOn(s, r1, store') \/ Finish(s, answered, "internal_error")
      BY <1>9 DEF SuccessUnrecorded
    <2>2. r1 = [r EXCEPT !.logged = @ + 1, !.answers = @ + 1, !.fallbacks = @ + 1]
      BY <1>0 DEF Logged, Request
    <2>3. r.logged + 1 \in Nat /\ r.answers + 1 \in Nat /\ r.fallbacks + 1 \in Nat
      BY <1>0 DEF Request
    <2>4. r1 \in Request /\ r1.answers = r.answers + 1 /\ r1.fallbacks = r.fallbacks + 1
      BY <1>0, <2>2, <2>3 DEF Request
    <2> HIDE DEF r1, answered
    <2>5. CASE MoveOn(s, r1, store')
      <3>1. req'[s].answers = r.answers + 1 /\ req'[s].fallbacks = r.fallbacks + 1
        BY <1>0, <2>4, <2>5, MoveOnCounts
      <3> QED  BY <1>3, <3>1 DEF CountsAnswers
    <2>6. CASE Finish(s, answered, "internal_error")
      <3>1. req'[s].answers = r.answers + 1 /\ req'[s].phase = "internal_error"
        BY <1>0, <1>2, <2>6, FinishCounts DEF Phase
      <3> QED  BY <3>1 DEF CountsAnswers
    <2> QED  BY <2>1, <2>5, <2>6
  <1>10. CASE FailureUnrecorded(s)
    <2>1. Finish(s, r, "internal_error")
      BY <1>10 DEF FailureUnrecorded
    <2>2. req'[s].answers = r.answers /\ req'[s].phase = "internal_error"
      BY <1>0, <2>1, FinishCounts DEF Phase
    <2> QED  BY <2>2 DEF CountsAnswers
  <1> QED  BY <1>4, <1>5, <1>6, <1>7, <1>8, <1>9, <1>10 DEF Respond

\* The invariant: in a request in flight each answer has cost a fallback, so that
\* the candidate in hand has not answered; at any time no more have answered than
\* have been tried.
AnswersInv ==
    \A s \in Slots :
       /\ req[s].phase = "attempting" => req[s].answers <= req[s].fallbacks
       /\ req[s].answers <= Cardinality(hist[s].tried)

\* A slot at rest has no answers.
LEMMA IdleAnswers ==
    ASSUME NEW phase \in Phase
    PROVE  /\ [Idle EXCEPT !.phase = phase].answers = 0
           /\ Idle.answers = 0 /\ Idle.phase = "idle"
           /\ 0 <= Cardinality(NoHistory.tried)
  BY FS_EmptySet DEF Idle, NoHistory

\* A slot that takes a step of its own keeps the invariant.
LEMMA SlotAnswers ==
    ASSUME TypeInv, StoryInv, StoryInv', AnswersInv,
           NEW s \in Slots, Reject(s) \/ Start(s) \/ Respond(s)
    PROVE  /\ req'[s].phase = "attempting" => req'[s].answers <= req'[s].fallbacks
           /\ req'[s].answers <= Cardinality(hist'[s].tried)
  <1>0. req \in [Slots -> SoundRequest] /\ hist \in [Slots -> History]
    BY DEF TypeInv
  <1>1. CASE Reject(s)
    <2>1. PICK phase \in {"unknown_virtual_model", "request_validation"} :
             req' = [req EXCEPT ![s] = [Idle EXCEPT !.phase = phase]]
      BY <1>1 DEF Reject
    <2>2. hist'[s] = NoHistory
      BY <1>0, <1>1 DEF Reject
    <2>3. req'[s].answers = 0 /\ req'[s].phase = phase
      BY <1>0, <2>1 DEF Idle
    <2> QED  BY <2>2, <2>3, IdleAnswers DEF Phase
  <1>2. \/ req'[s].phase # "attempting"
        \/ /\ Cardinality(hist'[s].tried) = req'[s].fallbacks + 1
           /\ req'[s].fallbacks \in Nat
    <2>1. CASE req'[s].phase = "attempting"
      <3>1. OnItsWay(req[s], hist[s])'
        BY <2>1 DEF StoryInv, Story
      <3>2. req'[s].fallbacks \in Nat
        BY TypeInvStep DEF Next, TypeInv, SoundRequest, Request
      <3> QED  BY <3>1, <3>2 DEF OnItsWay
    <2> QED  BY <2>1
  <1>3. CASE Start(s)
    <2>1. PICK route \in Routes, need \in Needs, was \in History :
             /\ was.tried = {}
             /\ MoveOn(s, [Idle EXCEPT !.route = route,
                                       !.pending = {i \in Gate(route, need) :
                                                      Usable(store, route[i])}], store)
             /\ Observe(s, was)
      <3>1. PICK route \in Routes, need \in Needs :
               /\ MoveOn(s, [Idle EXCEPT !.route = route,
                                         !.pending = {i \in Gate(route, need) :
                                                        Usable(store, route[i])}], store)
               /\ Observe(s, [NoHistory EXCEPT !.barred = DOMAIN route \ Gate(route, need)])
        BY <1>3 DEF Start
      <3>2. DOMAIN route \in SUBSET Nat
        BY RouteType
      <3>3. /\ [NoHistory EXCEPT !.barred = DOMAIN route \ Gate(route, need)] \in History
            /\ [NoHistory EXCEPT !.barred = DOMAIN route \ Gate(route, need)].tried = {}
        BY <3>2 DEF NoHistory, History
      <3> QED  BY <3>1, <3>3
    <2> DEFINE r == [Idle EXCEPT !.route = route,
                                 !.pending = {i \in Gate(route, need) : Usable(store, route[i])}]
    <2>2. r \in Request /\ r.answers = 0 /\ r.fallbacks = 0
      <3>1. DOMAIN route \subseteq Nat
        BY RouteType
      <3> QED  BY <3>1 DEF Idle, Request, Phase, Gate
    <2>3. MoveOn(s, r, store)
      BY <2>1
    <2> HIDE DEF r
    <2>4. req'[s].answers = 0 /\ req'[s].fallbacks = 0
      BY <1>0, <2>2, <2>3, MoveOnCounts
    <2>5. req'[s].phase # "attempting" => hist'[s].tried = {}
      BY <1>0, <2>1, ObserveOutcome
    <2>6. Cardinality({}) = 0
      BY FS_EmptySet
    <2> QED  BY <1>2, <2>4, <2>5, <2>6
  <1>4. CASE Respond(s)
    <2>1. req[s] \in SoundRequest /\ req[s].phase = "attempting" /\ Observe(s, hist[s])
      BY <1>4, ResponseOutcome
    <2>2. CountsAnswers(req[s], req'[s])
      BY <1>4, ResponseCounts
    <2>3. OnItsWay(req[s], hist[s])
      BY <2>1 DEF StoryInv, Story
    <2>4. /\ req[s].answers \in Nat /\ req[s].fallbacks \in Nat
          /\ req[s].answers <= req[s].fallbacks
          /\ Cardinality(hist[s].tried) = req[s].fallbacks + 1
      BY <2>1, <2>3 DEF AnswersInv, OnItsWay, SoundRequest, Request
    <2>5. CASE req'[s].phase = "attempting"
      BY <1>2, <2>2, <2>4, <2>5 DEF CountsAnswers
    <2>6. CASE req'[s].phase # "attempting"
      <3>1. hist'[s].tried = hist[s].tried \cup (IF req'[s].phase = "attempting"
                                                  THEN {req'[s].current} ELSE {})
        BY <1>0, <2>1, ObserveOutcome
      <3>2. hist'[s].tried = hist[s].tried
        BY <2>6, <3>1
      <3>3. req'[s].answers \in {req[s].answers, req[s].answers + 1}
        BY <2>2 DEF CountsAnswers
      <3> QED  BY <2>4, <2>6, <3>2, <3>3
    <2> QED  BY <2>5, <2>6
  <1> QED  BY <1>1, <1>3, <1>4

\* AnswersInv is an invariant of every step.
LEMMA AnswersStep == TypeInv /\ StoryInv /\ AnswersInv /\ [Next]_vars => AnswersInv'
  <1> SUFFICES ASSUME TypeInv, StoryInv, AnswersInv, [Next]_vars PROVE AnswersInv'
    OBVIOUS
  <1>0. req \in [Slots -> SoundRequest] /\ hist \in [Slots -> History] /\ StoryInv'
    BY StoryStep DEF TypeInv
  <1>1. ASSUME NEW s \in Slots, Reject(s) \/ Start(s) \/ Respond(s) PROVE AnswersInv'
    <2>1. /\ req' = [req EXCEPT ![s] = req'[s]]
          /\ hist' = [hist EXCEPT ![s] = hist'[s]]
      BY <1>1, SlotStory
    <2>2. /\ req'[s].phase = "attempting" => req'[s].answers <= req'[s].fallbacks
          /\ req'[s].answers <= Cardinality(hist'[s].tried)
      BY <1>0, <1>1, SlotAnswers
    <2>3. \A t \in Slots \ {s} : req'[t] = req[t] /\ hist'[t] = hist[t]
      BY <1>0, <2>1
    <2> QED  BY <2>2, <2>3 DEF AnswersInv
  <1>2. CASE Crash \/ \E s \in Slots : CrashAfterWrite(s)
    BY <1>2, IdleAnswers DEF Crash, CrashAfterWrite, AnswersInv, Phase
  <1>3. CASE Tick \/ UNCHANGED vars
    BY <1>3 DEF Tick, vars, AnswersInv
  <1> QED  BY <1>1, <1>2, <1>3 DEF Next

\* No upstream answers a request twice, though answered attempts may be gone on
\* from as failures, for any policy, interleaving, raising writes and crashes.
THEOREM AnswersFromEachOnce == Spec => []OneAnswerEach
  <1>1. Init => AnswersInv
    BY IdleAnswers DEF Init, AnswersInv, Phase
  <1>2. AnswersInv => OneAnswerEach
    BY DEF AnswersInv, OneAnswerEach
  <1> QED  BY <1>1, <1>2, InitType, TypeInvStep, InitStory, StoryStep, AnswersStep, PTL DEF Spec

-----------------------------------------------------------------------------
(* The ceiling is a safety valve.                                           *)

\* No request has run into the hard ceiling.
CeilingUntouched == \A s \in Slots : req[s].phase # "hard_attempt_ceiling"

\* Fewer candidates take no more attempts.
LEMMA FewerCandidates ==
    ASSUME NEW f \in Nat, NEW n \in Nat, f < n
    PROVE  (f + 1) * (1 + RetryLimit) <= n * (1 + RetryLimit)
  <1>1. PICK d \in Nat : n = (f + 1) + d
    <2>1. n - (f + 1) \in Nat /\ n = (f + 1) + (n - (f + 1))
      OBVIOUS
    <2> QED  BY <2>1
  <1>2. /\ (f + 1) * (1 + RetryLimit) \in Nat
        /\ d * (1 + RetryLimit) \in Nat
        /\ n * (1 + RetryLimit) = (f + 1) * (1 + RetryLimit) + d * (1 + RetryLimit)
    BY <1>1, PolicyAssumption
  <1> QED  BY <1>2

\* A request within budget, with f fallbacks behind it on a route of more than f
\* candidates, is under a ceiling that leaves each candidate its retries.
LEMMA UnderCeiling ==
    ASSUME NEW r \in Request, WithinBudget(r), r.phase = "attempting",
           NEW n \in Nat, n * (1 + RetryLimit) <= HardCeiling
    PROVE  /\ r.fallbacks + 1 < n => r.attempts < HardCeiling
           /\ r.fallbacks < n /\ r.retries < RetryLimit => r.attempts < HardCeiling
  <1>1. /\ r.attempts \in Nat /\ r.fallbacks \in Nat /\ r.retries \in Nat
        /\ HardCeiling \in Nat /\ RetryLimit \in Nat
    BY PolicyAssumption DEF Request
  <1>2. /\ r.fallbacks * (1 + RetryLimit) \in Nat
        /\ (r.fallbacks + 1) * (1 + RetryLimit) = r.fallbacks * (1 + RetryLimit) + 1 + RetryLimit
        /\ (r.fallbacks + 1) * (1 + RetryLimit) \in Nat
        /\ (r.fallbacks + 1 + 1) * (1 + RetryLimit)
              = (r.fallbacks + 1) * (1 + RetryLimit) + 1 + RetryLimit
    <2>1. r.fallbacks + 1 \in Nat
      BY <1>1
    <2> QED  BY <1>1, <2>1, OneMoreFallback
  <1>3. n * (1 + RetryLimit) \in Nat
    BY <1>1
  <1>4. /\ r.attempts <= r.fallbacks * (1 + RetryLimit) + r.retries + 1
        /\ r.attempts <= (r.fallbacks + 1) * (1 + RetryLimit)
    BY DEF WithinBudget
  <1>5. ASSUME r.fallbacks + 1 < n PROVE r.attempts < HardCeiling
    <2>1. (r.fallbacks + 1 + 1) * (1 + RetryLimit) <= n * (1 + RetryLimit)
      BY <1>1, <1>5, FewerCandidates
    <2> QED  BY <1>1, <1>2, <1>3, <1>4, <2>1
  <1>6. ASSUME r.fallbacks < n, r.retries < RetryLimit PROVE r.attempts < HardCeiling
    <2>1. (r.fallbacks + 1) * (1 + RetryLimit) <= n * (1 + RetryLimit)
      BY <1>1, <1>6, FewerCandidates
    <2> QED  BY <1>1, <1>2, <1>3, <1>4, <1>6, <2>1
  <1> QED  BY <1>5, <1>6

\* A ceiling that leaves some candidate an attempt is not zero.
LEMMA SomeCeiling ==
    ASSUME NEW n \in Nat, n # 0, n * (1 + RetryLimit) <= HardCeiling
    PROVE  ~(HardCeiling <= 0)
  <1>1. (0 + 1) * (1 + RetryLimit) <= n * (1 + RetryLimit)
    BY FewerCandidates
  <1>2. (0 + 1) * (1 + RetryLimit) = 0 * (1 + RetryLimit) + 1 + RetryLimit
        /\ 0 * (1 + RetryLimit) \in Nat
    BY OneMoreFallback
  <1>3. n * (1 + RetryLimit) \in Nat /\ HardCeiling \in Nat /\ RetryLimit \in Nat
    BY PolicyAssumption
  <1> QED  BY <1>1, <1>2, <1>3

\* No step takes a request to a ceiling that leaves each candidate its retries.
LEMMA CeilingStep ==
    ASSUME \A route \in Routes : Len(route) * (1 + RetryLimit) <= HardCeiling,
           TypeInv, BudgetInv, StoryInv, CeilingUntouched, [Next]_vars
    PROVE  CeilingUntouched'
  <1>0. req \in [Slots -> SoundRequest]
    BY DEF TypeInv
  <1>1. ASSUME NEW s \in Slots, Reject(s) PROVE CeilingUntouched'
    <2>1. PICK phase \in {"unknown_virtual_model", "request_validation"} :
             req' = [req EXCEPT ![s] = [Idle EXCEPT !.phase = phase]]
      BY <1>1 DEF Reject
    <2>2. [Idle EXCEPT !.phase = phase].phase = phase
      BY DEF Idle
    <2> HIDE DEF Idle
    <2> QED  BY <1>0, <2>1, <2>2 DEF CeilingUntouched
  <1>2. ASSUME NEW s \in Slots, Start(s) PROVE CeilingUntouched'
    <2>1. PICK r \in SoundRequest : /\ req' = [req EXCEPT ![s] = req'[s]]
                                    /\ GoesOn(r, req'[s], store')
                                    /\ r.route \in Routes
                                    /\ r.attempts = 0
      BY <1>2, StartOutcome
    <2>2. ASSUME req'[s].phase = "hard_attempt_ceiling" PROVE FALSE
      <3>1. HardCeiling <= 0 /\ r.pending # {}
        BY <2>1, <2>2, PolicyAssumption DEF GoesOn
      <3>2. DOMAIN r.route # {}
        BY <3>1 DEF SoundRequest
      <3>3. Len(r.route) \in Nat /\ Len(r.route) # 0 /\ 0 < Len(r.route)
        BY <2>1, <3>2, ServingAssumption
      <3>4. ~(HardCeiling <= 0)
        BY <2>1, <3>3, SomeCeiling
      <3> QED  BY <3>1, <3>4
    <2> QED  BY <1>0, <2>1, <2>2 DEF CeilingUntouched
  <1>3. ASSUME NEW s \in Slots, Respond(s) PROVE CeilingUntouched'
    <2>1. /\ req[s] \in SoundRequest /\ req[s].phase = "attempting"
          /\ req' = [req EXCEPT ![s] = req'[s]]
          /\ \/ FallsBack(req[s], req'[s], store')
             \/ Ended(req[s], req'[s])
             \/ CalledAgain(req[s], req'[s])
      BY <1>3, ResponseOutcome
    <2>2. OnItsWay(req[s], hist[s]) /\ WithinBudget(req[s])
      BY <2>1 DEF StoryInv, Story, BudgetInv
    <2> DEFINE n == Len(req[s].route)
    <2>3. /\ req[s].route \in Routes /\ req[s] \in Request
          /\ n \in Nat /\ n * (1 + RetryLimit) <= HardCeiling
      BY <2>1, <2>2, ServingAssumption DEF OnItsWay, SoundRequest
    <2>4. /\ hist[s].tried \subseteq DOMAIN req[s].route
          /\ Cardinality(hist[s].tried) = req[s].fallbacks + 1
          /\ req[s].fallbacks \in Nat /\ req[s].attempts \in Nat /\ HardCeiling \in Nat
      BY <2>2, <2>3, PolicyAssumption DEF OnItsWay, Request
    <2>5. req[s].fallbacks < n
      BY <2>3, <2>4, TriedCount
    <2>6. ASSUME req'[s].phase = "hard_attempt_ceiling" PROVE FALSE
      <3>1. CASE FallsBack(req[s], req'[s], store')
        <4>1. req[s].pending # {} /\ req[s].attempts >= HardCeiling
          BY <2>6, <3>1 DEF FallsBack, GoesOn
        <4>2. hist[s].tried # DOMAIN req[s].route
          BY <2>1, <2>2, <4>1 DEF OnItsWay, SoundRequest
        <4>3. req[s].fallbacks + 1 < n
          BY <2>3, <2>4, <4>2, TriedCount
        <4>4. req[s].attempts < HardCeiling
          BY <2>1, <2>2, <2>3, <4>3, UnderCeiling
        <4> QED  BY <2>4, <4>1, <4>4
      <3>2. CASE Ended(req[s], req'[s])
        <4>1. req[s].attempts >= HardCeiling /\ req[s].retries < RetryLimit
          BY <2>6, <3>2 DEF Ended
        <4>2. req[s].attempts < HardCeiling
          BY <2>1, <2>2, <2>3, <2>5, <4>1, UnderCeiling
        <4> QED  BY <2>4, <4>1, <4>2
      <3> QED  BY <2>1, <2>6, <3>1, <3>2 DEF CalledAgain
    <2> QED  BY <1>0, <2>1, <2>6 DEF CeilingUntouched
  <1>4. CASE Crash \/ \E s \in Slots : CrashAfterWrite(s)
    BY <1>4 DEF Crash, CrashAfterWrite, CeilingUntouched, Idle
  <1>5. CASE Tick \/ UNCHANGED vars
    BY <1>5 DEF Tick, vars, CeilingUntouched
  <1> QED  BY <1>1, <1>2, <1>3, <1>4, <1>5 DEF Next

\* The hard ceiling is a safety valve (gateway/policy/retry_policy.py): when it
\* leaves each candidate of a route one attempt and its retries - with the defaults,
\* 50 and 2, on routes of up to 16 candidates - no request ever runs into it.
THEOREM CeilingCutsNothing ==
    ASSUME \A route \in Routes : Len(route) * (1 + RetryLimit) <= HardCeiling
    PROVE  Spec => []CeilingUntouched
  <1>1. Init => BudgetInv /\ CeilingUntouched
    BY IdleBudget DEF Init, BudgetInv, CeilingUntouched, Idle
  <1>2. TypeInv /\ BudgetInv /\ StoryInv /\ CeilingUntouched /\ [Next]_vars => CeilingUntouched'
    BY CeilingStep
  <1> QED  BY <1>1, <1>2, InitType, TypeInvStep, BudgetStep, InitStory, StoryStep, PTL DEF Spec

-----------------------------------------------------------------------------
(* First attempts are checked.                                              *)

\* Whoever calls a candidate for the first time has just seen it eligible.
LEMMA FreshStep ==
    ASSUME TypeInv, [Next]_vars, NEW s \in Slots,
           req'[s] # req[s], req'[s].phase = "attempting", req'[s].retries = 0
    PROVE  Eligible(store', Current(req'[s]))
  <1>0. req \in [Slots -> SoundRequest]
    BY DEF TypeInv
  <1>1. ASSUME NEW r, GoesOn(r, req'[s], store')
        PROVE  Eligible(store', Current(req'[s]))
    BY <1>1 DEF GoesOn, Current
  <1>2. ASSUME NEW t \in Slots, req' = [req EXCEPT ![t] = req'[t]]
        PROVE  t = s
    BY <1>0, <1>2
  <1>3. ASSUME NEW t \in Slots, Reject(t) PROVE FALSE
    <2>1. PICK phase \in {"unknown_virtual_model", "request_validation"} :
             req' = [req EXCEPT ![t] = [Idle EXCEPT !.phase = phase]]
      BY <1>3 DEF Reject
    <2>2. [Idle EXCEPT !.phase = phase].phase = phase
      BY DEF Idle
    <2> HIDE DEF Idle
    <2> QED  BY <1>0, <2>1, <2>2
  <1>4. ASSUME NEW t \in Slots, Start(t) PROVE Eligible(store', Current(req'[s]))
    <2>1. PICK r \in SoundRequest : /\ req' = [req EXCEPT ![t] = req'[t]]
                                    /\ GoesOn(r, req'[t], store')
      BY <1>4, StartOutcome
    <2> QED  BY <1>1, <1>2, <2>1
  <1>5. ASSUME NEW t \in Slots, Respond(t) PROVE Eligible(store', Current(req'[s]))
    <2>1. /\ req[t] \in SoundRequest
          /\ req' = [req EXCEPT ![t] = req'[t]]
          /\ \/ FallsBack(req[t], req'[t], store')
             \/ Ended(req[t], req'[t])
             \/ CalledAgain(req[t], req'[t])
      BY <1>5, ResponseOutcome
    <2>2. t = s
      BY <1>2, <2>1
    <2>3. ~Ended(req[s], req'[s])
      BY DEF Ended
    <2>4. ~CalledAgain(req[s], req'[s])
      <3>1. req[s].retries \in Nat
        BY <1>0 DEF SoundRequest, Request
      <3> QED  BY <3>1 DEF CalledAgain
    <2>5. PICK after : GoesOn(after, req'[s], store')
      BY <2>1, <2>2, <2>3, <2>4 DEF FallsBack
    <2> QED  BY <1>1, <2>5
  <1>6. ~(Tick \/ UNCHANGED vars)
    BY DEF Tick, vars
  <1>7. ~(Crash \/ \E t \in Slots : CrashAfterWrite(t))
    BY DEF Crash, CrashAfterWrite, Idle
  <1> QED  BY <1>3, <1>4, <1>5, <1>6, <1>7 DEF Next

\* A first attempt is never made on a candidate that is out: the check holds in
\* the store as all requests have left it, not as it was when it was scored.
THEOREM FirstCallsAreChecked == Spec => FreshIsEligible
  <1>1. TypeInv /\ [Next]_vars =>
           \A s \in Slots : (req'[s] # req[s] /\ req'[s].phase = "attempting" /\ req'[s].retries = 0)
                               => Eligible(store', Current(req'[s]))
    BY FreshStep
  <1>2. Spec => []TypeInv
    BY InitType, TypeInvStep, PTL DEF Spec
  <1>3. TypeInv /\ [Next]_vars =>
           [\A s \in Slots : LET r == req'[s] IN
               (r # req[s] /\ r.phase = "attempting" /\ r.retries = 0)
                  => Eligible(store', Current(r))]_vars
    BY <1>1
  <1> QED  BY <1>2, <1>3, PTL DEF Spec, FreshIsEligible

-----------------------------------------------------------------------------
(* Refinement: the engine keeps RequestPromise.                             *)

\* What the abstract specification is given for its variable and positions.
Seen == [s \in Slots |-> ViewOf(s)]

Position == UNION {DOMAIN route : route \in Routes}

Snapshot(verdict, called, now, again) ==
    [verdict |-> verdict, called |-> called, now |-> now, again |-> again]

\* The steps of the promise, one alternative for each of its actions.
LEMMA PromisedMoves ==
    ASSUME NEW s \in Slots, NEW called, NEW now \in Nat, NEW again \in Nat,
           \/ /\ Seen[s].verdict # "open"
              /\ \/ \E i \in Position : ViewOf(s)' = Snapshot("open", {i}, i, 0)
                 \/ ViewOf(s)' = Snapshot("failed", {}, 0, 0)
           \/ /\ Seen[s] = Snapshot("open", called, now, again)
              /\ \/ \E i \in Position \ called :
                       ViewOf(s)' = Snapshot("open", called \cup {i}, i, 0)
                 \/ /\ again < RetryLimit
                    /\ ViewOf(s)' = Snapshot("open", called, now, again + 1)
                 \/ \E verdict \in {"answered", "failed"} :
                       ViewOf(s)' = Snapshot(verdict, called, 0, 0),
           Seen' = [Seen EXCEPT ![s] = ViewOf(s)']
    PROVE  Promise!Next
  <1>2. CASE /\ Seen[s].verdict # "open"
             /\ \E i \in Position : ViewOf(s)' = Snapshot("open", {i}, i, 0)
    <2>1. PICK i \in Position : Seen' = [Seen EXCEPT ![s] = Snapshot("open", {i}, i, 0)]
      BY <1>2
    <2>2. Promise!Calling(Promise!Nothing, i) = Snapshot("open", {i}, i, 0)
      BY DEF Promise!Calling, Promise!Nothing, Snapshot
    <2>3. Promise!Ask(s)
      BY <1>2, <2>1, <2>2 DEF Promise!Ask, Promise!IsOpen, Seen, Position
    <2> QED  BY <2>3 DEF Promise!Next
  <1>3. CASE Seen[s].verdict # "open" /\ ViewOf(s)' = Snapshot("failed", {}, 0, 0)
    <2>1. Seen' = [Seen EXCEPT ![s] = Snapshot("failed", {}, 0, 0)]
      BY <1>3
    <2>2. [Promise!Nothing EXCEPT !.verdict = "failed"] = Snapshot("failed", {}, 0, 0)
      BY DEF Promise!Nothing, Snapshot
    <2>3. Promise!Ask(s)
      BY <1>3, <2>1, <2>2 DEF Promise!Ask, Promise!IsOpen, Seen
    <2> QED  BY <2>3 DEF Promise!Next
  <1>4. ASSUME Seen[s] = Snapshot("open", called, now, again) PROVE Promise!IsOpen(s)
    BY <1>4 DEF Promise!IsOpen, Seen, Snapshot
  <1>5. CASE /\ Seen[s] = Snapshot("open", called, now, again)
             /\ \E i \in Position \ called :
                   ViewOf(s)' = Snapshot("open", called \cup {i}, i, 0)
    <2>1. PICK i \in Position \ called :
             Seen' = [Seen EXCEPT ![s] = Snapshot("open", called \cup {i}, i, 0)]
      BY <1>5
    <2>2. Seen[s].called = called
      BY <1>5 DEF Snapshot
    <2>3. Promise!Calling(Seen[s], i) = Snapshot("open", called \cup {i}, i, 0)
      BY <2>2 DEF Promise!Calling, Snapshot
    <2>4. Promise!CallOther(s)
      BY <1>4, <1>5, <2>1, <2>2, <2>3 DEF Promise!CallOther, Seen, Position
    <2> QED  BY <2>4 DEF Promise!Next
  <1>6. CASE /\ Seen[s] = Snapshot("open", called, now, again)
             /\ again < RetryLimit
             /\ ViewOf(s)' = Snapshot("open", called, now, again + 1)
    <2>1. Seen' = [Seen EXCEPT ![s] = Snapshot("open", called, now, again + 1)]
      BY <1>6
    <2>2. Seen[s].again = again
      BY <1>6 DEF Snapshot
    <2>3. [Seen[s] EXCEPT !.again = Seen[s].again + 1] = Snapshot("open", called, now, again + 1)
      BY <1>6 DEF Snapshot
    <2>4. Promise!CallAgain(s)
      BY <1>4, <1>6, <2>1, <2>2, <2>3 DEF Promise!CallAgain, Seen
    <2> QED  BY <2>4 DEF Promise!Next
  <1>7. CASE /\ Seen[s] = Snapshot("open", called, now, again)
             /\ \E verdict \in {"answered", "failed"} :
                   ViewOf(s)' = Snapshot(verdict, called, 0, 0)
    <2>1. PICK verdict \in {"answered", "failed"} :
             Seen' = [Seen EXCEPT ![s] = Snapshot(verdict, called, 0, 0)]
      BY <1>7
    <2>2. [Snapshot("open", called, now, again) EXCEPT !.verdict = verdict, !.now = 0, !.again = 0]
             = Snapshot(verdict, called, 0, 0)
      <3> DEFINE s1 == Snapshot(verdict, called, now, again)
                 s2 == Snapshot(verdict, called, 0, again)
      <3>1. [Snapshot("open", called, now, again) EXCEPT !.verdict = verdict] = s1
        BY DEF Snapshot
      <3>2. [s1 EXCEPT !.now = 0] = s2
        BY DEF Snapshot
      <3>3. [s2 EXCEPT !.again = 0] = Snapshot(verdict, called, 0, 0)
        BY DEF Snapshot
      <3> HIDE DEF s1, s2
      <3> QED  BY <3>1, <3>2, <3>3
    <2>3. [Seen[s] EXCEPT !.verdict = verdict, !.now = 0, !.again = 0]
             = Snapshot(verdict, called, 0, 0)
      BY <1>7, <2>2
    <2>4. Promise!End(s)
      BY <1>4, <1>7, <2>1, <2>3 DEF Promise!End, Seen
    <2> QED  BY <2>4 DEF Promise!Next
  <1> QED  BY <1>2, <1>3, <1>5, <1>6, <1>7

\* The snapshot of a slot in each phase, before and after a step.
LEMMA ViewIs ==
    ASSUME NEW s \in Slots
    PROVE  /\ req[s].phase = "attempting" =>
                 ViewOf(s) = Snapshot("open", hist[s].tried, req[s].current, req[s].retries)
           /\ req'[s].phase = "attempting" =>
                 ViewOf(s)' = Snapshot("open", hist'[s].tried, req'[s].current, req'[s].retries)
           /\ req[s].phase # "attempting" => ViewOf(s).verdict # "open"
           /\ req'[s].phase \notin {"attempting", "idle"} =>
                 \E verdict \in {"answered", "failed"} :
                    ViewOf(s)' = Snapshot(verdict, hist'[s].tried, 0, 0)
           /\ req'[s].phase \notin {"attempting", "idle", "success"} =>
                 ViewOf(s)' = Snapshot("failed", hist'[s].tried, 0, 0)
  BY Zenon DEF ViewOf, Snapshot

\* When one slot takes a step, the client of no other sees anything.
LEMMA OneSlotSeen ==
    ASSUME TypeInv, NEW s \in Slots,
           req' = [req EXCEPT ![s] = req'[s]], hist' = [hist EXCEPT ![s] = hist'[s]]
    PROVE  Seen' = [Seen EXCEPT ![s] = ViewOf(s)']
  <1>1. ASSUME NEW t \in Slots, t # s PROVE ViewOf(t)' = ViewOf(t)
    <2>1. req'[t] = req[t] /\ hist'[t] = hist[t]
      BY <1>1 DEF TypeInv
    <2> QED  BY <2>1 DEF ViewOf
  <1> QED  BY <1>1 DEF Seen

\* A step of a slot is a step of the promise.
LEMMA SlotPromise ==
    ASSUME TypeInv, StoryInv, NEW s \in Slots, Reject(s) \/ Start(s) \/ Respond(s)
    PROVE  Promise!Next
  <1> DEFINE tried == hist[s].tried
  <1>0. /\ req' = [req EXCEPT ![s] = req'[s]]
        /\ hist' = [hist EXCEPT ![s] = hist'[s]]
        /\ Story(req'[s], hist'[s])
        /\ hist \in [Slots -> History] /\ req \in [Slots -> SoundRequest]
    BY SlotStory DEF TypeInv
  <1>1. Seen' = [Seen EXCEPT ![s] = ViewOf(s)']
    BY <1>0, OneSlotSeen
  <1>2. Seen[s] = ViewOf(s)
    BY DEF Seen
  <1>3. ASSUME req'[s].phase = "attempting" PROVE req'[s].current \in Position
    <2>1. OnItsWay(req'[s], hist'[s])
      BY <1>0, <1>3 DEF Story
    <2> QED  BY <2>1 DEF OnItsWay, Position
  <1>4. CASE Reject(s)
    <2>1. PICK phase \in {"unknown_virtual_model", "request_validation"} :
             req' = [req EXCEPT ![s] = [Idle EXCEPT !.phase = phase]]
      BY <1>4 DEF Reject
    <2>2. hist'[s].tried = {}
      BY <1>0, <1>4 DEF Reject, NoHistory
    <2>3. [Idle EXCEPT !.phase = phase].phase = phase
      BY DEF Idle
    <2>4. req'[s].phase = phase /\ phase \notin {"attempting", "idle", "success"}
      BY <1>0, <2>1, <2>3
    <2>5. ViewOf(s)' = Snapshot("failed", {}, 0, 0)
      BY <2>2, <2>4, ViewIs
    <2>6. Seen[s].verdict # "open"
      BY <1>2, <1>4, ViewIs DEF Reject, Free
    <2> QED  BY <1>1, <2>5, <2>6, PromisedMoves
  <1>5. CASE Start(s)
    <2>1. PICK r \in SoundRequest, was \in History :
             /\ GoesOn(r, req'[s], store')
             /\ Observe(s, was)
             /\ was.tried = {}
      BY <1>5, StartOutcome
    <2>2. hist'[s].tried = IF req'[s].phase = "attempting" THEN {req'[s].current} ELSE {}
      BY <1>0, <2>1, ObserveOutcome
    <2>3. Seen[s].verdict # "open"
      BY <1>2, <1>5, ViewIs DEF Start, Free
    <2>4. CASE req'[s].phase = "attempting"
      <3>1. req'[s].retries = 0
        BY <2>1, <2>4 DEF GoesOn
      <3>2. ViewOf(s)' = Snapshot("open", {req'[s].current}, req'[s].current, 0)
        BY <2>2, <2>4, <3>1, ViewIs
      <3> QED  BY <1>1, <1>3, <2>3, <2>4, <3>2, PromisedMoves
    <2>5. CASE req'[s].phase # "attempting"
      <3>1. req'[s].phase \notin {"attempting", "idle", "success"}
        BY <2>1, <2>5 DEF GoesOn
      <3>2. ViewOf(s)' = Snapshot("failed", {}, 0, 0)
        BY <2>2, <2>5, <3>1, ViewIs
      <3> QED  BY <1>1, <2>3, <3>2, PromisedMoves
    <2> QED  BY <2>4, <2>5
  <1>6. CASE Respond(s)
    <2>1. /\ req[s] \in SoundRequest /\ req[s].phase = "attempting"
          /\ Observe(s, hist[s])
          /\ \/ FallsBack(req[s], req'[s], store')
             \/ Ended(req[s], req'[s])
             \/ CalledAgain(req[s], req'[s])
      BY <1>6, ResponseOutcome
    <2>2. hist'[s].tried = tried \cup (IF req'[s].phase = "attempting" THEN {req'[s].current} ELSE {})
      BY <1>0, <2>1, ObserveOutcome
    <2>3. OnItsWay(req[s], hist[s])
      BY <2>1 DEF StoryInv, Story
    <2>4. /\ Seen[s] = Snapshot("open", tried, req[s].current, req[s].retries)
          /\ req[s].current \in Nat /\ req[s].retries \in Nat
      BY <1>2, <2>1, ViewIs DEF SoundRequest, Request
    <2>5. CASE req'[s].phase # "attempting"
      <3>1. req'[s].phase \notin {"attempting", "idle"}
        BY <2>1, <2>5 DEF FallsBack, GoesOn, Ended, CalledAgain
      <3>2. hist'[s].tried = tried
        BY <2>2, <2>5
      <3>3. \E verdict \in {"answered", "failed"} :
               ViewOf(s)' = Snapshot(verdict, hist'[s].tried, 0, 0)
        BY <3>1, ViewIs
      <3>4. \E verdict \in {"answered", "failed"} : ViewOf(s)' = Snapshot(verdict, tried, 0, 0)
        <4> HIDE DEF tried
        <4> QED  BY <3>2, <3>3
      <3> QED  BY <1>1, <2>4, <3>4, PromisedMoves
    <2>6. CASE FallsBack(req[s], req'[s], store') /\ req'[s].phase = "attempting"
      <3>1. req'[s].retries = 0 /\ req'[s].current \notin tried
        BY <2>3, <2>6 DEF FallsBack, GoesOn, OnItsWay
      <3>2. ViewOf(s)' = Snapshot("open", tried \cup {req'[s].current}, req'[s].current, 0)
        BY <2>2, <2>6, <3>1, ViewIs
      <3>3. \E i \in Position \ tried : ViewOf(s)' = Snapshot("open", tried \cup {i}, i, 0)
        BY <1>3, <2>6, <3>1, <3>2
      <3> QED  BY <1>1, <2>4, <3>3, PromisedMoves
    <2>7. CASE CalledAgain(req[s], req'[s])
      <3>1. hist'[s].tried = tried
        BY <2>2, <2>3, <2>7 DEF CalledAgain, OnItsWay
      <3>2. ViewOf(s)' = Snapshot("open", tried, req[s].current, req[s].retries + 1)
        BY <2>7, <3>1, ViewIs DEF CalledAgain
      <3>3. req[s].retries < RetryLimit
        BY <2>7 DEF CalledAgain
      <3> QED  BY <1>1, <2>4, <3>2, <3>3, PromisedMoves
    <2> QED  BY <2>1, <2>5, <2>6, <2>7 DEF Ended
  <1> QED  BY <1>4, <1>5, <1>6

\* The view of an idle slot is that of a client that has asked nothing.
LEMMA NothingSeen == Idle.phase = "idle" /\ NoHistory.tried = {}
  BY DEF Idle, NoHistory

\* When the process dies, all that clients see is lost.
LEMMA CrashPromise ==
    ASSUME req' = [s \in Slots |-> Idle], hist' = [s \in Slots |-> NoHistory]
    PROVE  Promise!Next
  <1>1. ASSUME NEW s \in Slots PROVE ViewOf(s)' = Promise!Nothing
    <2>1. req'[s].phase = "idle" /\ hist'[s].tried = {}
      BY NothingSeen
    <2>2. ViewOf(s)' = Snapshot("none", {}, 0, 0)
      BY <2>1, Zenon DEF ViewOf, Snapshot
    <2> QED  BY <2>2 DEF Snapshot, Promise!Nothing
  <1>2. Promise!Lost
    BY <1>1 DEF Promise!Lost
  <1> QED  BY <1>2 DEF Promise!Next

\* The initial states map to initial states.
LEMMA InitPromise == Init => Promise!Init
  <1> SUFFICES ASSUME Init PROVE Promise!Init
    OBVIOUS
  <1>1. ASSUME NEW s \in Slots PROVE ViewOf(s) = Promise!Nothing
    <2>1. req[s].phase = "idle" /\ hist[s].tried = {}
      BY NothingSeen DEF Init
    <2>2. ViewOf(s) = Snapshot("none", {}, 0, 0)
      BY <2>1, Zenon DEF ViewOf, Snapshot
    <2> QED  BY <2>2 DEF Snapshot, Promise!Nothing
  <1> QED  BY <1>1 DEF Promise!Init

\* Every step of the engine is a step of the promise, or is not seen.
LEMMA PromiseStep ==
    TypeInv /\ StoryInv /\ [Next]_vars => [Promise!Next]_([s \in Slots |-> ViewOf(s)])
  <1> SUFFICES ASSUME TypeInv, StoryInv, [Next]_vars
               PROVE  Promise!Next \/ Seen' = Seen
    BY DEF Seen
  <1>1. ASSUME NEW s \in Slots, Reject(s) \/ Start(s) \/ Respond(s) PROVE Promise!Next
    BY <1>1, SlotPromise
  <1>2. CASE Crash \/ \E s \in Slots : CrashAfterWrite(s)
    BY <1>2, CrashPromise DEF Crash, CrashAfterWrite
  <1>3. CASE Tick \/ UNCHANGED vars
    BY <1>3 DEF Tick, vars, Seen, ViewOf
  <1> QED  BY <1>1, <1>2, <1>3 DEF Next

\* The engine implements the promise of a request: with all its state writes,
\* checks, limits, faults and crashes, it calls a candidate anew only if it has not
\* left it before, at most RetryLimit times in succession, and none after the end.
THEOREM ServedAsPromised == Spec => KeepsRequestPromise
  BY StoryKept, InitPromise, PromiseStep, PTL DEF Spec, KeepsRequestPromise, Promise!Spec
=============================================================================
