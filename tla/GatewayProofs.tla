----------------------------- MODULE GatewayProofs -----------------------------
(***************************************************************************)
(* Theorems about the gateway as a whole: what the fallback engine and the *)
(* streams keep on their own they also keep around each other, and what    *)
(* is lost and comes back in the store they share is due to open calls.    *)
(***************************************************************************)
EXTENDS Gateway, FallbackEngineProofs, ChatStreamProofs

-----------------------------------------------------------------------------
(* The invariant, and the three kinds of steps.                             *)

\* No row of a whole provider says DOWN: only a model is ever marked so.
DownIsOfAModel(st) == \A p \in Providers : st.health[<<p, NoModel>>].state # "DOWN"

GatewayInv == TypeInv /\ BudgetInv /\ StoryInv /\ StreamInv /\ DownIsOfAModel(store)

\* Each step is one of the engine, with the streams at rest or lost, or one of a
\* stream, or the crash of the process inside a stream's failure handler.
LEMMA StepKinds ==
    ASSUME [GatewayNext]_gatewayVars
    PROVE  \/ [Next]_vars /\ (stream' = stream \/ StreamsLost)
           \/ \E s \in StreamSlots :
                 /\ OpenStream(s) \/ Refuse(s) \/ Disconnect(s) \/ Proceed(s)
                 /\ UNCHANGED <<req, hist>>
           \/ \E s \in StreamSlots : CrashInStream(s)
  <1>1. ASSUME NEW s \in Slots, ChatStep(s) PROVE Next /\ stream' = stream
    BY <1>1 DEF ChatStep, Next
  <1>2. CASE GatewayCrash
    BY <1>2 DEF GatewayCrash, Next
  <1>3. CASE GatewayTick
    BY <1>3 DEF GatewayTick, Next
  <1>4. CASE UNCHANGED gatewayVars
    BY <1>4 DEF gatewayVars, vars
  <1> QED  BY <1>1, <1>2, <1>3, <1>4 DEF GatewayNext, StreamStep

\* A stream that is not in use satisfies every condition.
LEMMA QuietFine == Fine(Quiet)
  <1>1. /\ Quiet.phase = "idle" /\ Quiet.pending = {} /\ Quiet.log = <<>> /\ Quiet.attempts = 0
        /\ Quiet.sent = <<>>
    BY DEF Quiet
  <1>2. Quiet \in Sound
    BY <1>1, QuietType DEF Sound, Open
  <1> QED  BY <1>1, <1>2 DEF Fine, Numbered, Fed, Covered, OneUpstream, Open

\* When the process dies, its streams are not in use.
LEMMA LostStreamsInv ==
    ASSUME store' \in Store, StreamsLost
    PROVE  StreamInv'
  <1>1. \A s \in StreamSlots : stream'[s] = Quiet /\ Fine(stream'[s])
    BY QuietFine DEF StreamsLost
  <1>2. stream' \in [StreamSlots -> Sound]
    BY <1>1 DEF StreamsLost, Fine
  <1> QED  BY <1>1, <1>2 DEF StreamInv, StreamTypeInv

\* What a stream's step does to the store: nothing, or the state write after the
\* failure of the candidate it is at.
LEMMA StreamWrites ==
    ASSUME StreamInv, NEW s \in StreamSlots,
           OpenStream(s) \/ Refuse(s) \/ Disconnect(s) \/ Proceed(s) \/ CrashInStream(s)
    PROVE  \/ store' = store
           \/ /\ Selecting(s)
              /\ \E class \in ErrorClass : store' = ApplyFailure(store, Current(stream[s]), class)
  <1>1. CASE OpenStream(s) \/ Refuse(s) \/ Disconnect(s)
    BY <1>1 DEF OpenStream, Refuse, Disconnect
  <1>2. CASE Buffer(s) \/ CloseEarly(s) \/ Replay(s) \/ Relay(s) \/ CloseLate(s) \/ FailLate(s) \/ SuccessRaises(s)
    BY <1>2 DEF Buffer, CloseEarly, Replay, Relay, CloseLate, FailLate, SuccessRaises
  <1>3. CASE FailEarly(s) \/ HandlerRaises(s) \/ CrashInStream(s)
    BY <1>3, StreamAssumption DEF FailEarly, HandlerRaises, CrashInStream
  <1> QED  BY <1>1, <1>2, <1>3 DEF Proceed

\* The candidate a stream is at is of a route, and has a key.
LEMMA SelectingRouted ==
    ASSUME StreamInv, NEW s \in StreamSlots, Selecting(s)
    PROVE  Current(stream[s]) \in Routed /\ Current(stream[s]).key # NoKey
  <1>1. Fine(stream[s]) /\ stream[s].phase \in Open
    BY DEF StreamInv, Selecting, Open
  <1>2. stream[s].route \in Routes /\ stream[s].current \in DOMAIN stream[s].route
    BY <1>1 DEF Fine, Covered, Sound
  <1> QED  BY <1>1, <1>2 DEF Fine, Sound, Current, Routed

\* What an engine's step does to the store.
LEMMA EngineWrites ==
    ASSUME TypeInv, [Next]_vars
    PROVE  \/ store' = store
           \/ store' = Age(store)
           \/ \E s \in Slots, c \in Routed :
                 /\ Attempted(s, c)
                 /\ \/ store' = ApplySuccess(store, c)
                    \/ \E class \in ErrorClass :
                          /\ c.key = NoKey => class # "auth"
                          /\ store' = ApplyFailure(store, c, class)
                    \/ store' = ApplyFailure(ApplySuccess(store, c), c, "server")
  <1> DEFINE Writes(s, c) ==
               \/ store' = ApplySuccess(store, c)
               \/ \E class \in ErrorClass :
                     /\ c.key = NoKey => class # "auth"
                     /\ store' = ApplyFailure(store, c, class)
               \/ store' = ApplyFailure(ApplySuccess(store, c), c, "server")
  <1>1. ASSUME NEW s \in Slots, NEW outcome, EndsIn(s, outcome),
               store' = store \/ Writes(s, Current(req[s]))
        PROVE  store' = store \/ \E c \in Routed : Attempted(s, c) /\ Writes(s, c)
    BY <1>1, EndsInRouted
  <1>2. ASSUME NEW s \in Slots, NEW class \in ErrorClass, EndsIn(s, class),
               store' = ApplyFailure(store, Current(req[s]), class)
        PROVE  Writes(s, Current(req[s]))
    BY <1>2, EndsInType
  <1>3. ASSUME NEW s \in Slots, Reject(s) \/ Start(s)
        PROVE  store' = store
    BY <1>3 DEF Reject, Start
  <1>4. ASSUME NEW s \in Slots, Respond(s) \/ CrashAfterWrite(s)
        PROVE  \E outcome : EndsIn(s, outcome) /\ (store' = store \/ Writes(s, Current(req[s])))
    <2> DEFINE c == Current(req[s])
    <2>0. "server" \in ErrorClass /\ "token_limit" \in ErrorClass /\ "server" # "auth"
      BY DEF ErrorClass
    <2>1. CASE Succeed(s) \/ FailCommitted(s) \/ Retry(s)
      BY <1>2, <2>0, <2>1 DEF Succeed, FailCommitted, Retry
    <2>2. CASE Fallback(s)
      BY <1>2, <2>2 DEF Fallback
    <2>3. CASE Breach(s)
      BY <2>0, <2>3 DEF Breach
    <2>4. CASE SuccessUnrecorded(s)
      BY <2>0, <2>4 DEF SuccessUnrecorded
    <2>5. CASE FailureUnrecorded(s)
      BY <1>2, <2>0, <2>5 DEF FailureUnrecorded
    <2>6. CASE CrashAfterWrite(s)
      BY <1>2, <2>6 DEF CrashAfterWrite
    <2> QED  BY <1>4, <2>1, <2>2, <2>3, <2>4, <2>5, <2>6 DEF Respond
  <1>5. ASSUME NEW s \in Slots, Respond(s) \/ CrashAfterWrite(s)
        PROVE  store' = store \/ \E c \in Routed : Attempted(s, c) /\ Writes(s, c)
    <2> HIDE DEF Writes
    <2> QED  BY <1>1, <1>4, <1>5
  <1>6. CASE Crash \/ Tick \/ UNCHANGED vars
    BY <1>6 DEF Crash, Tick, vars
  <1> QED  BY <1>3, <1>5, <1>6 DEF Next

-----------------------------------------------------------------------------
(* What the writes do to the mark DOWN.                                     *)

\* A failure marks a whole provider as degraded, never as DOWN.
LEMMA FailureMarksModels ==
    ASSUME NEW st \in Store, DownIsOfAModel(st), NEW c \in Candidate, NEW class \in ErrorClass
    PROVE  DownIsOfAModel(ApplyFailure(st, c, class))
  <1>1. c.provider \in Providers /\ c.model \in Models /\ c.model # NoModel
    BY ScopeAssumption DEF Candidate
  <1>2. CASE class \in {"network", "server"}
    <2>0. /\ class = "network" => ApplyFailure(st, c, class)
                                  = SetHealth(st, c.provider, NoModel, "DEGRADED", NetworkCooldown)
          /\ class = "server" => ApplyFailure(st, c, class)
                                  = SetHealth(st, c.provider, NoModel, "DEGRADED", ServerCooldown)
      BY DEF ApplyFailure
    <2>1. PICK ticks \in Nat : ApplyFailure(st, c, class)
                                 = SetHealth(st, c.provider, NoModel, "DEGRADED", ticks)
      BY <1>2, <2>0, PolicyAssumption
    <2> DEFINE row == [state |-> "DEGRADED", left |-> ticks]
               st2 == [st EXCEPT !.health[<<c.provider, NoModel>>] = row]
    <2>2. row.state # "DOWN" /\ ApplyFailure(st, c, class) = st2
      BY <2>1 DEF SetHealth
    <2> HIDE DEF row
    <2>3. \A p \in Providers : \/ st2.health[<<p, NoModel>>] = row
                               \/ st2.health[<<p, NoModel>>] = st.health[<<p, NoModel>>]
      BY <1>1 DEF Store, HealthScope
    <2> HIDE DEF st2
    <2> QED  BY <2>2, <2>3 DEF DownIsOfAModel
  <1>3. CASE class = "model_not_found"
    <2>1. ApplyFailure(st, c, class) = SetHealth(st, c.provider, c.model, "DOWN", 0)
      BY <1>3 DEF ApplyFailure
    <2>2. \A p \in Providers : SetHealth(st, c.provider, c.model, "DOWN", 0).health[<<p, NoModel>>]
             = st.health[<<p, NoModel>>]
      BY <1>1 DEF SetHealth, Store, HealthScope
    <2> QED  BY <2>1, <2>2 DEF DownIsOfAModel
  <1>4. CASE class \notin {"network", "server", "model_not_found"}
    <2>1. ApplyFailure(st, c, class).health = st.health
      BY <1>4 DEF ApplyFailure, ErrorClass, SetQuota, SetCredential, Store
    <2> QED  BY <2>1 DEF DownIsOfAModel
  <1> QED  BY <1>2, <1>3, <1>4

\* A success writes the row of a model.
LEMMA SuccessMarksModels ==
    ASSUME NEW st \in Store, DownIsOfAModel(st), NEW c \in Candidate
    PROVE  DownIsOfAModel(ApplySuccess(st, c))
  <1>1. c.model # NoModel
    BY ScopeAssumption DEF Candidate
  <1>2. \A p \in Providers : ApplySuccess(st, c).health[<<p, NoModel>>] = st.health[<<p, NoModel>>]
    BY <1>1 DEF ApplySuccess, SetHealth, Store, HealthScope
  <1> QED  BY <1>2 DEF DownIsOfAModel

\* The clock marks nothing.
LEMMA AgeMarksNothing ==
    ASSUME NEW st \in Store, DownIsOfAModel(st)
    PROVE  DownIsOfAModel(Age(st))
  <1> SUFFICES ASSUME NEW p \in Providers PROVE Age(st).health[<<p, NoModel>>].state # "DOWN"
    BY DEF DownIsOfAModel
  <1> DEFINE row == st.health[<<p, NoModel>>]
  <1>1. Age(st).health[<<p, NoModel>>] = Older(row) /\ row \in HealthRow /\ row.state # "DOWN"
    BY DEF Age, Store, HealthScope, DownIsOfAModel
  <1> HIDE DEF row
  <1>2. CASE row = NoRow
    BY <1>1, <1>2, OlderRow
  <1>3. CASE row # NoRow
    BY <1>1, <1>3, OlderRow
  <1> QED  BY <1>1, <1>2, <1>3

\* The mark stays one of a model, whoever writes.
LEMMA EngineMarksModels ==
    ASSUME TypeInv, DownIsOfAModel(store), [Next]_vars
    PROVE  DownIsOfAModel(store')
  <1>1. store \in Store
    BY DEF TypeInv
  <1>2. ASSUME NEW c \in Routed,
               \/ store' = ApplySuccess(store, c)
               \/ \E class \in ErrorClass : store' = ApplyFailure(store, c, class)
               \/ store' = ApplyFailure(ApplySuccess(store, c), c, "server")
        PROVE  DownIsOfAModel(store')
    <2>1. c \in Candidate /\ "server" \in ErrorClass
      BY RoutedType DEF ErrorClass
    <2> QED  BY <1>1, <1>2, <2>1, FailureMarksModels, SuccessMarksModels, ApplySuccessType
  <1> QED  BY <1>1, <1>2, EngineWrites, AgeMarksNothing

-----------------------------------------------------------------------------
(* The invariant is inductive.                                              *)

LEMMA InitGatewayInv == GatewayInit => GatewayInv
  <1>1. ASSUME Init PROVE BudgetInv
    BY <1>1, IdleBudget DEF Init, BudgetInv
  <1>2. ASSUME Init PROVE DownIsOfAModel(store)
    BY <1>2, NoRowState DEF Init, EmptyStore, DownIsOfAModel, HealthScope, HealthState
  <1> QED  BY <1>1, <1>2, InitType, InitStory, InitStreamInv DEF GatewayInit, GatewayInv

\* A step of the engine, with the streams at rest or lost.
LEMMA EngineKeepsAll ==
    ASSUME GatewayInv, [Next]_vars, stream' = stream \/ StreamsLost
    PROVE  GatewayInv'
  <1>1. TypeInv' /\ BudgetInv' /\ StoryInv' /\ DownIsOfAModel(store')
    BY TypeInvStep, BudgetStep, StoryStep, EngineMarksModels DEF GatewayInv
  <1>2. store' \in Store
    BY <1>1 DEF TypeInv
  <1>3. StreamInv'
    BY <1>2, StoreMayChange, LostStreamsInv DEF GatewayInv
  <1> QED  BY <1>1, <1>3 DEF GatewayInv

\* What a stream writes is a store that marks only models.
LEMMA StreamWritesStore ==
    ASSUME StreamInv, DownIsOfAModel(store), NEW s \in StreamSlots,
           OpenStream(s) \/ Refuse(s) \/ Disconnect(s) \/ Proceed(s) \/ CrashInStream(s)
    PROVE  store' \in Store /\ DownIsOfAModel(store')
  <1>1. store \in Store
    BY DEF StreamInv, StreamTypeInv
  <1>2. CASE store' = store
    BY <1>1, <1>2
  <1>3. ASSUME NEW class \in ErrorClass, Selecting(s),
               store' = ApplyFailure(store, Current(stream[s]), class)
        PROVE  store' \in Store /\ DownIsOfAModel(store')
    <2>1. Current(stream[s]) \in Candidate /\ Current(stream[s]).key # NoKey
      BY <1>3, SelectingRouted, RoutedType
    <2> QED  BY <1>1, <1>3, <2>1, ApplyFailureType, FailureMarksModels
  <1> QED  BY <1>2, <1>3, StreamWrites

\* A step of a stream leaves the requests alone.
LEMMA StreamKeepsAll ==
    ASSUME GatewayInv, NEW s \in StreamSlots,
           OpenStream(s) \/ Refuse(s) \/ Disconnect(s) \/ Proceed(s), UNCHANGED <<req, hist>>
    PROVE  GatewayInv'
  <1>1. store' \in Store /\ DownIsOfAModel(store')
    BY StreamWritesStore DEF GatewayInv
  <1>2. StreamInv'
    BY EveryStepAdvances, AdvanceKeeps DEF GatewayInv
  <1>3. TypeInv' /\ BudgetInv' /\ StoryInv'
    BY <1>1 DEF GatewayInv, TypeInv, BudgetInv, StoryInv
  <1> QED  BY <1>1, <1>2, <1>3 DEF GatewayInv

\* A crash in a failure handler of a stream leaves nothing but the store.
LEMMA CrashKeepsAll ==
    ASSUME GatewayInv, NEW s \in StreamSlots, CrashInStream(s)
    PROVE  GatewayInv'
  <1>1. store' \in Store /\ DownIsOfAModel(store')
    BY StreamWritesStore DEF GatewayInv
  <1>2. StreamInv'
    BY <1>1, LostStreamsInv DEF CrashInStream
  <1>3. req' = [t \in Slots |-> Idle] /\ hist' = [t \in Slots |-> NoHistory]
    BY DEF CrashInStream
  <1>4. Idle \in SoundRequest /\ NoHistory \in History /\ Idle.phase = "idle"
    BY DEF Idle, SoundRequest, Request, Phase, NoHistory, History
  <1>5. TypeInv'
    BY <1>1, <1>3, <1>4 DEF TypeInv
  <1>6. BudgetInv'
    BY <1>3, IdleBudget DEF BudgetInv
  <1>7. StoryInv'
    BY <1>3, <1>4, IdleStory DEF StoryInv
  <1> QED  BY <1>1, <1>2, <1>5, <1>6, <1>7 DEF GatewayInv

\* GatewayInv is inductive.
LEMMA GatewayInvStep == GatewayInv /\ [GatewayNext]_gatewayVars => GatewayInv'
  BY StepKinds, EngineKeepsAll, StreamKeepsAll, CrashKeepsAll

LEMMA GatewayInvKept == GatewaySpec => []GatewayInv
  BY InitGatewayInv, GatewayInvStep, PTL DEF GatewaySpec

-----------------------------------------------------------------------------
(* What each path keeps, it keeps around the other.                         *)

\* The types of both paths, over one store.
THEOREM GatewayTypes == GatewaySpec => [](TypeOK /\ StreamTypeOK)
  <1>1. GatewayInv => TypeOK /\ StreamTypeOK
    BY TypeInvIsTypeOK, StreamsTyped DEF GatewayInv
  <1> QED  BY <1>1, GatewayInvKept, PTL

\* The attempt budget of plain requests, with streams that write the same rows.
THEOREM BudgetKeptInGateway == GatewaySpec => []Budget
  <1>1. GatewayInv => Budget
    BY BudgetInvIsBudget DEF GatewayInv
  <1> QED  BY <1>1, GatewayInvKept, PTL

\* What a client of a stream is given is what one upstream sent, whatever the
\* plain requests do to the store meanwhile.
THEOREM ClientsGetWhatWasSentInGateway == GatewaySpec => []ClientSeesOneUpstream
  <1>1. GatewayInv => ClientSeesOneUpstream
    BY DEF GatewayInv, StreamInv, Fine, ClientSeesOneUpstream
  <1> QED  BY <1>1, GatewayInvKept, PTL

\* Each attempt of a stream leaves its one event, around requests and crashes.
THEOREM AttemptsAreLoggedInGateway == GatewaySpec => []EventPerAttempt
  <1>1. GatewayInv => EventPerAttempt
    BY LoggedInOrder DEF GatewayInv
  <1> QED  BY <1>1, GatewayInvKept, PTL

\* Neither path gives up early, as long as no limit on fallbacks cuts a route.
THEOREM NothingGivenUpUntriedInGateway ==
    ASSUME \A route \in Routes : Unlimited(route)
    PROVE  GatewaySpec => []NothingGivenUpEarly
  <1>1. GatewayInv => NothingGivenUpEarly
    BY NobodyLeftOut, AllTheWay DEF GatewayInv, NothingGivenUpEarly
  <1> QED  BY <1>1, GatewayInvKept, PTL

-----------------------------------------------------------------------------
(* First calls, by either path.                                             *)

FreshChecked ==
    \A s \in Slots : LET r == req'[s] IN
       (r # req[s] /\ r.phase = "attempting" /\ r.retries = 0) => Eligible(store', Current(r))

CallsChecked ==
    \A s \in StreamSlots : LET r == stream'[s] IN
       (/\ r.phase = "selecting"
        /\ stream[s].phase # "selecting" \/ r.current # stream[s].current)
          => Eligible(store', Current(r))

\* A step of either path calls only what it has just seen eligible, and makes
\* no call for the other.
LEMMA CallsStep ==
    ASSUME GatewayInv, [GatewayNext]_gatewayVars
    PROVE  FreshChecked /\ CallsChecked
  <1>1. CASE [Next]_vars /\ stream' = stream
    BY <1>1, FreshStep DEF GatewayInv, FreshChecked, CallsChecked
  <1>2. CASE [Next]_vars /\ StreamsLost
    <2>1. FreshChecked
      BY <1>2, FreshStep DEF GatewayInv, FreshChecked
    <2>2. \A s \in StreamSlots : stream'[s].phase # "selecting"
      BY <1>2 DEF StreamsLost, Quiet
    <2> QED  BY <2>1, <2>2 DEF CallsChecked
  <1>3. ASSUME NEW s \in StreamSlots, UNCHANGED <<req, hist>>,
               OpenStream(s) \/ Refuse(s) \/ Disconnect(s) \/ Proceed(s)
        PROVE  FreshChecked /\ CallsChecked
    <2>1. FreshChecked
      BY <1>3 DEF FreshChecked
    <2>2. StreamInv /\ Advances(s)
      BY <1>3, EveryStepAdvances DEF GatewayInv
    <2>3. CallsChecked
      BY <2>2, AdvanceCallsEligible DEF CallsChecked
    <2> QED  BY <2>1, <2>3
  <1>4. ASSUME NEW s \in StreamSlots, CrashInStream(s)
        PROVE  FreshChecked /\ CallsChecked
    <2>1. /\ \A t \in Slots : req'[t].phase # "attempting"
          /\ \A t \in StreamSlots : stream'[t].phase # "selecting"
      BY <1>4 DEF CrashInStream, StreamsLost, Idle, Quiet
    <2> QED  BY <2>1 DEF FreshChecked, CallsChecked
  <1> QED  BY <1>1, <1>2, <1>3, <1>4, StepKinds

\* Each first call is checked against the store as both paths have left it.
THEOREM FirstCallsAreCheckedInGateway == GatewaySpec => FirstCallsAreEligible
  <1>1. GatewayInv /\ [GatewayNext]_gatewayVars => [FreshChecked]_vars /\ [CallsChecked]_streamVars
    BY CallsStep
  <1>2. GatewaySpec => [][FreshChecked]_vars /\ [][CallsChecked]_streamVars
    BY <1>1, GatewayInvKept, PTL DEF GatewaySpec
  <1> QED  BY <1>2 DEF FirstCallsAreEligible, FreshIsEligible, CallsAreEligible, FreshChecked, CallsChecked

-----------------------------------------------------------------------------
(* What is lost is lost to an open call.                                    *)

\* The candidate a stream is at counts as in flight.
LEMMA SelectingInFlight ==
    ASSUME StreamInv, NEW s \in StreamSlots, Selecting(s)
    PROVE  Current(stream[s]) \in InFlight
  BY SelectingRouted DEF InFlight

\* A loss has an open call to account for it.
LEMMA GatewayLossStep ==
    ASSUME GatewayInv, [GatewayNext]_gatewayVars,
           NEW c \in Routed, Eligible(store, c), ~Eligible(store', c)
    PROVE  \E d \in InFlight : /\ d.provider = c.provider
                               /\ store'.health = store.health => d.key = c.key
  <1>0. store \in Store /\ c \in Candidate /\ store' # store
    BY RoutedType DEF GatewayInv, TypeInv
  <1>1. CASE [Next]_vars
    <2>1. Next
      BY <1>0, <1>1 DEF vars
    <2>2. LossExplained(c)
      BY <2>1, LossStep DEF GatewayInv
    <2> QED  BY <2>2 DEF LossExplained, InFlight
  <1>2. ASSUME NEW s \in StreamSlots,
               OpenStream(s) \/ Refuse(s) \/ Disconnect(s) \/ Proceed(s) \/ CrashInStream(s)
        PROVE  \E d \in InFlight : /\ d.provider = c.provider
                                   /\ store'.health = store.health => d.key = c.key
    <2>1. PICK class \in ErrorClass :
             Selecting(s) /\ store' = ApplyFailure(store, Current(stream[s]), class)
      BY <1>0, <1>2, StreamWrites DEF GatewayInv
    <2> DEFINE d == Current(stream[s])
    <2>2. d \in InFlight /\ d \in Routed /\ d.key # NoKey
      BY <2>1, SelectingInFlight, SelectingRouted DEF GatewayInv
    <2>3. d \in Candidate /\ (d.provider = c.provider => (d.key = NoKey <=> c.key = NoKey))
      BY <2>2, RoutedType, ProviderTypeAssumption
    <2>4. store' = ApplyFailure(store, d, class)
      BY <2>1
    <2> HIDE DEF d
    <2>5. /\ c.provider = d.provider
          /\ ApplyFailure(store, d, class).health = store.health => c.key = d.key
      BY <1>0, <2>2, <2>3, <2>4, ApplyFailureRadius
    <2> QED  BY <2>2, <2>4, <2>5
  <1> QED  BY <1>1, <1>2, StepKinds

\* Isolation of scopes between requests and streams, for all routes and all
\* numbers of either: the store they share lets neither lose a candidate of a
\* provider that nobody is calling, nor a key to the auth, quota or rate limit of
\* another.
THEOREM LossesAreLocal == GatewaySpec => LossIsLocal
  <1>1. GatewayInv /\ [GatewayNext]_gatewayVars =>
           [\A c \in Routed : Eligible(store, c) /\ ~Eligible(store', c) =>
              \E d \in InFlight :
                 /\ d.provider = c.provider
                 /\ store'.health = store.health => d.key = c.key]_gatewayVars
    BY GatewayLossStep
  <1> QED  BY <1>1, GatewayInvKept, PTL DEF GatewaySpec, LossIsLocal

-----------------------------------------------------------------------------
(* What comes back comes back through an open call.                         *)

\* A write to health changes whether d is usable only through the health row that
\* counts for it.
LEMMA HealthWriteUse ==
    ASSUME NEW st \in Store, NEW st2 \in Store, NEW d \in Candidate,
           st2.quota = st.quota, st2.credential = st.credential,
           \/ HealthRowOf(st2, d.provider, d.model) = HealthRowOf(st, d.provider, d.model)
           \/ HealthRowOf(st, d.provider, d.model).state # "DOWN"
           \/ HealthRowOf(st2, d.provider, d.model).state = "DOWN",
           Usable(st2, d)
    PROVE  Usable(st, d)
  <1>1. QuotaRowOf(st2, d.provider, d.key, d.model) = QuotaRowOf(st, d.provider, d.key, d.model)
    BY DEF QuotaRowOf
  <1>2. GetCredential(st2, d.provider, d.key) = GetCredential(st, d.provider, d.key)
    BY DEF GetCredential
  <1> QED  BY <1>1, <1>2, UsableByRows

\* A success makes nothing usable but its own model.
LEMMA SuccessBringsBack ==
    ASSUME NEW st \in Store, NEW c \in Candidate, NEW d \in Candidate,
           ~Usable(st, d), Usable(ApplySuccess(st, c), d)
    PROVE  /\ c.provider = d.provider /\ c.model = d.model
           /\ ApplySuccess(st, c).quota = st.quota
  <1> DEFINE st2 == ApplySuccess(st, c)
  <1>1. /\ c.provider \in Providers /\ c.model \in Models
        /\ d.provider \in Providers /\ d.model \in Models
    BY DEF Candidate
  <1>2. st2 = [st EXCEPT !.health[<<c.provider, c.model>>] = [state |-> "HEALTHY", left |-> 0]]
    BY DEF ApplySuccess, SetHealth
  <1>3. st2 \in Store
    BY ApplySuccessType
  <1>4. st2.quota = st.quota /\ st2.credential = st.credential
    BY <1>2 DEF Store
  <1>5. \A h \in HealthScope : h # <<c.provider, c.model>> => st2.health[h] = st.health[h]
    BY <1>2 DEF Store
  <1> HIDE DEF st2
  <1>6. CASE ~(c.provider = d.provider /\ c.model = d.model)
    <2>1. <<d.provider, d.model>> # <<c.provider, c.model>>
          /\ <<d.provider, NoModel>> # <<c.provider, c.model>>
      BY <1>1, <1>6, ScopeAssumption
    <2>2. HealthRowOf(st2, d.provider, d.model) = HealthRowOf(st, d.provider, d.model)
      BY <1>1, <1>5, <2>1 DEF HealthRowOf, HealthScope
    <2>3. Usable(st2, d) => Usable(st, d)
      BY <1>3, <1>4, <2>2, HealthWriteUse
    <2> QED  BY <2>3 DEF st2
  <1> QED  BY <1>4, <1>6 DEF st2

\* A write to quota, likewise.
LEMMA QuotaWriteUse ==
    ASSUME NEW st \in Store, NEW st2 \in Store, NEW d \in Candidate,
           st2.health = st.health, st2.credential = st.credential,
           \/ QuotaRowOf(st2, d.provider, d.key, d.model) = QuotaRowOf(st, d.provider, d.key, d.model)
           \/ QuotaRowOf(st2, d.provider, d.key, d.model).state = "EXHAUSTED",
           Usable(st2, d)
    PROVE  Usable(st, d)
  <1>1. HealthRowOf(st2, d.provider, d.model) = HealthRowOf(st, d.provider, d.model)
    BY DEF HealthRowOf
  <1>2. GetCredential(st2, d.provider, d.key) = GetCredential(st, d.provider, d.key)
    BY DEF GetCredential
  <1> QED  BY <1>1, <1>2, UsableByRows

\* An invalid key is not usable: the mark brings nothing back.
LEMMA AuthBringsNothingBack ==
    ASSUME NEW st \in Store, NEW c \in Candidate, c.key # NoKey, NEW d \in Candidate,
           Usable(SetCredential(st, c.provider, c.key, "AUTH_ERROR"), d)
    PROVE  Usable(st, d)
  <1> DEFINE st2 == SetCredential(st, c.provider, c.key, "AUTH_ERROR")
  <1>1. c.provider \in Providers /\ c.key \in Keys /\ d.provider \in Providers
        /\ d.key \in Keys \cup {NoKey}
    BY DEF Candidate
  <1>2. st2 \in Store
    BY <1>1, SetCredentialType DEF CredentialState
  <1>3. st2.health = st.health /\ st2.quota = st.quota
    BY DEF SetCredential, Store
  <1>4. \A p \in Providers, k \in Keys : \/ st2.credential[<<p, k>>] = st.credential[<<p, k>>]
                                         \/ st2.credential[<<p, k>>] = "AUTH_ERROR"
    BY <1>1 DEF SetCredential, Store
  <1> HIDE DEF st2
  <1>5. GetCredential(st2, d.provider, d.key) \notin {"DISABLED", "AUTH_ERROR"}
    BY DEF Usable, st2
  <1>6. GetCredential(st, d.provider, d.key) = GetCredential(st2, d.provider, d.key)
    BY <1>1, <1>4, <1>5 DEF GetCredential
  <1>7. /\ HealthRowOf(st2, d.provider, d.model) = HealthRowOf(st, d.provider, d.model)
        /\ QuotaRowOf(st2, d.provider, d.key, d.model) = QuotaRowOf(st, d.provider, d.key, d.model)
    BY <1>3 DEF HealthRowOf, QuotaRowOf
  <1>8. Usable(st2, d)
    BY DEF st2
  <1> QED  BY <1>2, <1>6, <1>7, <1>8, UsableByRows

\* The row of a key without a model, when it says EXHAUSTED, brings nothing back.
LEMMA ExhaustedBringsNothingBack ==
    ASSUME NEW st \in Store, NEW c \in Candidate, NEW d \in Candidate,
           Usable(SetQuota(st, c.provider, c.key, NoModel, "EXHAUSTED", 0), d)
    PROVE  Usable(st, d)
  <1> DEFINE row == [state |-> "EXHAUSTED", left |-> 0]
             scope == <<c.provider, c.key, NoModel>>
             st2 == SetQuota(st, c.provider, c.key, NoModel, "EXHAUSTED", 0)
  <1>1. /\ c.provider \in Providers /\ c.key \in Keys \cup {NoKey}
        /\ d.provider \in Providers /\ d.key \in Keys \cup {NoKey} /\ d.model \in Models
    BY DEF Candidate
  <1>2. st2 \in Store
    BY <1>1, SetQuotaType DEF QuotaState
  <1>3. st2 = [st EXCEPT !.quota[scope] = row]
    BY DEF SetQuota
  <1>4. row # NoRow /\ row.state = "EXHAUSTED"
    BY NoRowState DEF QuotaState
  <1> HIDE DEF row
  <1>5. st2.health = st.health /\ st2.credential = st.credential
    BY <1>3 DEF Store
  <1>6. /\ scope \in QuotaScope => st2.quota[scope] = row
        /\ \A q \in QuotaScope : q # scope => st2.quota[q] = st.quota[q]
    BY <1>3 DEF Store
  <1> HIDE DEF st2
  <1>7. \/ QuotaRowOf(st2, d.provider, d.key, d.model) = QuotaRowOf(st, d.provider, d.key, d.model)
        \/ QuotaRowOf(st2, d.provider, d.key, d.model) = row
    <2> DEFINE own == <<d.provider, d.key, d.model>>
               key == <<d.provider, d.key, NoModel>>
               all == <<d.provider, NoKey, NoModel>>
    <2>1. own \in QuotaScope /\ key \in QuotaScope /\ all \in QuotaScope /\ own # scope
      BY <1>1, ScopeAssumption DEF QuotaScope
    <2>2. \A q \in {own, key, all} : st2.quota[q] = st.quota[q] \/ (q = scope /\ st2.quota[q] = row)
      BY <1>6, <2>1
    <2>3. st2.quota[own] = st.quota[own]
      BY <2>1, <2>2
    <2> HIDE DEF own, key, all, scope
    <2>4. \A t \in {st, st2} : QuotaRowOf(t, d.provider, d.key, d.model)
             = IF t.quota[own] # NoRow THEN t.quota[own]
               ELSE IF t.quota[key] # NoRow THEN t.quota[key] ELSE t.quota[all]
      BY DEF QuotaRowOf, own, key, all
    <2> QED  BY <1>4, <2>2, <2>3, <2>4
  <1>8. Usable(st2, d)
    BY DEF st2
  <1> QED  BY <1>2, <1>4, <1>5, <1>7, <1>8, QuotaWriteUse

\* A rate limit hides the mark of its own key and model only.
LEMMA RateLimitBringsBack ==
    ASSUME NEW st \in Store, NEW c \in Candidate, NEW d \in Candidate, NEW ticks \in Nat,
           ~Usable(st, d), Usable(SetQuota(st, c.provider, c.key, c.model, "RATE_LIMITED", ticks), d)
    PROVE  c.provider = d.provider /\ c.key = d.key /\ c.model = d.model
  <1> DEFINE scope == <<c.provider, c.key, c.model>>
             st2 == SetQuota(st, c.provider, c.key, c.model, "RATE_LIMITED", ticks)
  <1>1. /\ c.provider \in Providers /\ c.key \in Keys \cup {NoKey} /\ c.model \in Models
        /\ d.provider \in Providers /\ d.key \in Keys \cup {NoKey} /\ d.model \in Models
    BY DEF Candidate
  <1>2. st2 \in Store
    BY <1>1, SetQuotaType DEF QuotaState
  <1>3. st2.health = st.health /\ st2.credential = st.credential
    BY DEF SetQuota, Store
  <1>4. \A q \in QuotaScope : q # scope => st2.quota[q] = st.quota[q]
    BY DEF SetQuota, Store
  <1>5. Usable(st2, d)
    OBVIOUS
  <1> HIDE DEF st2
  <1>6. CASE ~(c.provider = d.provider /\ c.key = d.key /\ c.model = d.model)
    <2>1. /\ <<d.provider, d.key, d.model>> # scope
          /\ <<d.provider, d.key, NoModel>> # scope
          /\ <<d.provider, NoKey, NoModel>> # scope
      BY <1>1, <1>6, ScopeAssumption
    <2>2. /\ <<d.provider, d.key, d.model>> \in QuotaScope
          /\ <<d.provider, d.key, NoModel>> \in QuotaScope
          /\ <<d.provider, NoKey, NoModel>> \in QuotaScope
      BY <1>1 DEF QuotaScope
    <2>3. QuotaRowOf(st2, d.provider, d.key, d.model) = QuotaRowOf(st, d.provider, d.key, d.model)
      BY <1>4, <2>1, <2>2 DEF QuotaRowOf
    <2> QED  BY <1>2, <1>3, <1>5, <2>3, QuotaWriteUse
  <1> QED  BY <1>6

\* A write to health after a failure brings nothing back: the row of a model it
\* writes is DOWN, and the row of a provider it replaces was not.
LEMMA HealthFailureBringsNothingBack ==
    ASSUME NEW st \in Store, DownIsOfAModel(st), NEW c \in Candidate, NEW d \in Candidate,
           NEW m \in Models \cup {NoModel}, NEW state \in HealthState, NEW ticks \in Nat,
           m = NoModel \/ state = "DOWN",
           Usable(SetHealth(st, c.provider, m, state, ticks), d)
    PROVE  Usable(st, d)
  <1> DEFINE row == [state |-> state, left |-> ticks]
             scope == <<c.provider, m>>
             st2 == SetHealth(st, c.provider, m, state, ticks)
  <1>1. c.provider \in Providers /\ d.provider \in Providers /\ d.model \in Models
    BY DEF Candidate
  <1>2. st2 \in Store
    BY <1>1, SetHealthType
  <1>3. st2 = [st EXCEPT !.health[scope] = row]
    BY DEF SetHealth
  <1>4. row # NoRow /\ (row.state = "DOWN" \/ m = NoModel)
    BY NoRowState
  <1> HIDE DEF row
  <1>5. st2.quota = st.quota /\ st2.credential = st.credential
    BY <1>3 DEF Store
  <1>6. /\ scope \in HealthScope => st2.health[scope] = row
        /\ \A h \in HealthScope : h # scope => st2.health[h] = st.health[h]
    BY <1>3 DEF Store
  <1>7. Usable(st2, d)
    OBVIOUS
  <1> HIDE DEF st2
  <1> DEFINE own == <<d.provider, d.model>>
             all == <<d.provider, NoModel>>
  <1>8. /\ own \in HealthScope /\ all \in HealthScope
        /\ own # all
        /\ scope = own => m # NoModel
        /\ st.health[all].state # "DOWN"
    BY <1>1, ScopeAssumption DEF HealthScope, DownIsOfAModel
  <1>9. \A h \in {own, all} : st2.health[h] = st.health[h] \/ (h = scope /\ st2.health[h] = row)
    BY <1>6, <1>8
  <1> HIDE DEF own, all, scope
  <1>10. \A t \in {st, st2} : HealthRowOf(t, d.provider, d.model)
            = IF t.health[own] # NoRow THEN t.health[own] ELSE t.health[all]
    BY DEF HealthRowOf, own, all
  <1>11. \/ HealthRowOf(st2, d.provider, d.model) = HealthRowOf(st, d.provider, d.model)
         \/ HealthRowOf(st, d.provider, d.model).state # "DOWN"
         \/ HealthRowOf(st2, d.provider, d.model).state = "DOWN"
    BY <1>4, <1>8, <1>9, <1>10
  <1> QED  BY <1>2, <1>5, <1>7, <1>11, HealthWriteUse

\* A failure makes nothing usable but, as a late rate limit, its own key and model.
LEMMA FailureBringsBack ==
    ASSUME NEW st \in Store, DownIsOfAModel(st), NEW c \in Candidate, NEW d \in Candidate,
           NEW class \in ErrorClass, c.key = NoKey => class # "auth",
           ~Usable(st, d), Usable(ApplyFailure(st, c, class), d)
    PROVE  c.provider = d.provider /\ c.model = d.model /\ c.key = d.key
  <1>1. c.model \in Models
    BY DEF Candidate
  <1>2. CASE class = "auth"
    BY <1>2, AuthBringsNothingBack DEF ApplyFailure
  <1>3. CASE class = "quota"
    BY <1>3, ExhaustedBringsNothingBack DEF ApplyFailure
  <1>4. CASE class = "rate_limit"
    BY <1>4, RateLimitBringsBack, PolicyAssumption DEF ApplyFailure
  <1>5. CASE class = "model_not_found"
    BY <1>1, <1>5, HealthFailureBringsNothingBack DEF ApplyFailure, HealthState
  <1>6. CASE class = "network"
    BY <1>6, HealthFailureBringsNothingBack, PolicyAssumption DEF ApplyFailure, HealthState
  <1>7. CASE class = "server"
    BY <1>7, HealthFailureBringsNothingBack, PolicyAssumption DEF ApplyFailure, HealthState
  <1>8. CASE class \in {"token_limit", "unknown"}
    BY <1>8 DEF ApplyFailure
  <1> QED  BY <1>2, <1>3, <1>4, <1>5, <1>6, <1>7, <1>8 DEF ErrorClass

\* The clock makes nothing usable.
LEMMA AgeBringsNothingBack ==
    ASSUME NEW st \in Store, NEW d \in Candidate, Usable(Age(st), d)
    PROVE  Usable(st, d)
  <1> DEFINE h == HealthRowOf(st, d.provider, d.model)
             q == QuotaRowOf(st, d.provider, d.key, d.model)
  <1>1. h \in HealthRow /\ q \in QuotaRow
    BY RowsOf
  <1>2. /\ HealthRowOf(Age(st), d.provider, d.model) = Older(h)
        /\ QuotaRowOf(Age(st), d.provider, d.key, d.model) = Older(q)
        /\ Age(st).credential = st.credential
    BY AgeRows
  <1>3. /\ Older(h).state # "DOWN"
        /\ Older(q).state # "EXHAUSTED"
        /\ GetCredential(Age(st), d.provider, d.key) \notin {"DISABLED", "AUTH_ERROR"}
    BY <1>2, AgeType, UsableByRows
  <1>4. GetCredential(Age(st), d.provider, d.key) = GetCredential(st, d.provider, d.key)
    BY <1>2 DEF GetCredential
  <1> HIDE DEF h, q
  <1>5. \A row \in HealthRow \cup QuotaRow : Older(row).state = row.state
    BY OlderRow
  <1>6. h.state # "DOWN" /\ q.state # "EXHAUSTED"
    BY <1>1, <1>3, <1>5
  <1> QED  BY <1>3, <1>4, <1>6, UsableByRows DEF h, q

\* What comes back has an open call to account for it.
LEMMA ComesBackStep ==
    ASSUME GatewayInv, [GatewayNext]_gatewayVars,
           NEW c \in Routed, ~Usable(store, c), Usable(store', c)
    PROVE  \E d \in InFlight : /\ d.provider = c.provider
                               /\ d.model = c.model
                               /\ store'.quota # store.quota => d.key = c.key
  <1>0. store \in Store /\ DownIsOfAModel(store) /\ c \in Candidate /\ "server" \in ErrorClass
    BY RoutedType DEF GatewayInv, TypeInv, ErrorClass
  <1> DEFINE Explains(d) == /\ d.provider = c.provider
                            /\ d.model = c.model
                            /\ store'.quota # store.quota => d.key = c.key
  <1>1. ASSUME NEW d \in Candidate, store' = ApplySuccess(store, d) PROVE Explains(d)
    BY <1>0, <1>1, SuccessBringsBack
  <1>2. ASSUME NEW d \in Candidate, NEW class \in ErrorClass, d.key = NoKey => class # "auth",
               store' = ApplyFailure(store, d, class)
        PROVE  Explains(d)
    BY <1>0, <1>2, FailureBringsBack
  <1>3. ASSUME NEW d \in Candidate, store' = ApplyFailure(ApplySuccess(store, d), d, "server")
        PROVE  Explains(d)
    <2> DEFINE st == ApplySuccess(store, d)
    <2>1. st \in Store /\ DownIsOfAModel(st)
      BY <1>0, ApplySuccessType, SuccessMarksModels
    <2>2. CASE Usable(st, c)
      <3>1. d.provider = c.provider /\ d.model = c.model /\ st.quota = store.quota
        BY <1>0, <2>2, SuccessBringsBack
      <3> HIDE DEF st
      <3>2. ApplyFailure(st, d, "server").quota = st.quota
        BY <1>0, <2>1, HealthClassesWriteHealth
      <3>3. store' = ApplyFailure(st, d, "server")
        BY <1>3 DEF st
      <3> QED  BY <3>1, <3>2, <3>3
    <2>3. CASE ~Usable(st, c)
      <3>1. store' = ApplyFailure(st, d, "server")
        BY <1>3
      <3> HIDE DEF st
      <3> QED  BY <1>0, <2>1, <2>3, <3>1, FailureBringsBack
    <2> QED  BY <2>2, <2>3
  <1> HIDE DEF Explains
  <1>4. CASE [Next]_vars
    <2>1. store' # store /\ store' # Age(store)
      BY <1>0, AgeBringsNothingBack
    <2>2. PICK s \in Slots, d \in Routed :
             /\ Attempted(s, d)
             /\ \/ store' = ApplySuccess(store, d)
                \/ \E class \in ErrorClass :
                      /\ d.key = NoKey => class # "auth"
                      /\ store' = ApplyFailure(store, d, class)
                \/ store' = ApplyFailure(ApplySuccess(store, d), d, "server")
      BY <1>4, <2>1, EngineWrites DEF GatewayInv
    <2>3. Explains(d)
      BY <1>1, <1>2, <1>3, <2>2, RoutedType
    <2>4. d \in InFlight
      BY <2>2 DEF InFlight
    <2> QED  BY <2>3, <2>4 DEF Explains
  <1>5. ASSUME NEW s \in StreamSlots,
               OpenStream(s) \/ Refuse(s) \/ Disconnect(s) \/ Proceed(s) \/ CrashInStream(s)
        PROVE  \E d \in InFlight : Explains(d)
    <2>1. store' # store
      OBVIOUS
    <2>2. PICK class \in ErrorClass :
             Selecting(s) /\ store' = ApplyFailure(store, Current(stream[s]), class)
      BY <1>5, <2>1, StreamWrites DEF GatewayInv
    <2> DEFINE d == Current(stream[s])
    <2>3. d \in InFlight /\ d \in Candidate /\ d.key # NoKey
      BY <2>2, SelectingInFlight, SelectingRouted, RoutedType DEF GatewayInv
    <2>4. store' = ApplyFailure(store, d, class)
      BY <2>2
    <2> HIDE DEF d
    <2> QED  BY <1>2, <2>3, <2>4
  <1> QED  BY <1>4, <1>5, StepKinds DEF Explains

\* Nothing comes back by itself: neither the clock nor a restart, nor a call on
\* another provider or model, takes a mark away, for any number of requests,
\* streams, routes, keys and models.
THEOREM NothingComesBackByItself == GatewaySpec => ComesBack
  <1>1. GatewayInv /\ [GatewayNext]_gatewayVars =>
           [\A c \in Routed : ~Usable(store, c) /\ Usable(store', c) =>
              \E d \in InFlight :
                 /\ d.provider = c.provider
                 /\ d.model = c.model
                 /\ store'.quota # store.quota => d.key = c.key]_gatewayVars
    BY ComesBackStep
  <1> QED  BY <1>1, GatewayInvKept, PTL DEF GatewaySpec, ComesBack

=============================================================================
