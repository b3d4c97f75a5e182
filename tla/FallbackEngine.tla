---------------------------- MODULE FallbackEngine ----------------------------
(***************************************************************************)
(* Non-stream requests through the fallback engine: GatewayService.chat    *)
(* and FallbackEngine.run, for requests that overlap on one event loop and *)
(* share one state store.                                                  *)
(*                                                                         *)
(* The loop runs a request without interruption from one await to the      *)
(* next, and the only await is the upstream call.  One action is therefore *)
(* everything that happens from the answer to one upstream call to the     *)
(* start of the next: the state writes, the route event, the policy's      *)
(* decision, the search for the next candidate.  Between two of them any   *)
(* other request may act, the clock may tick, the process may crash.       *)
(***************************************************************************)
EXTENDS Serving, FiniteSets

CONSTANTS
    Slots,        \* requests in flight at the same time; a slot is reused
    ApiOutcomes,  \* what an attempt on an HTTP provider may end in
    CliOutcomes,  \* what an attempt on a CLI executor may end in
    Crashes       \* TRUE: the process may crash and restart

Outcome == ErrorClass \cup {"success", "committed", "breach"}

ASSUME EngineAssumption ==
    /\ ApiOutcomes \subseteq Outcome
    /\ CliOutcomes \subseteq Outcome \ {"auth"}
    /\ Crashes \in BOOLEAN

\* The candidates that requests may be routed to.
Routed == UNION {{route[i] : i \in DOMAIN route} : route \in Routes}

\* A provider is an executor, whose one candidate has no key, or it is not.
ASSUME ProviderTypeAssumption ==
    \A c, d \in Routed : c.provider = d.provider => (c.key = NoKey <=> d.key = NoKey)

VARIABLES
    req,    \* req[s]: the local state of the request in slot s
    hist    \* history, read by properties only: the positions tried, and those
            \* not gated in or ineligible at one of the request's steps

vars == <<store, req, hist>>

Phase == {"idle", "attempting", "success", "partial_stream_failure",
          "no_eligible_candidate", "hard_attempt_ceiling", "internal_error",
          "unknown_virtual_model", "request_validation"}

Idle == [phase |-> "idle", route |-> <<>>, current |-> 0, pending |-> {},
         attempts |-> 0, retries |-> 0, fallbacks |-> 0, logged |-> 0, answers |-> 0]

NoHistory == [tried |-> {}, barred |-> {}]

Request == [phase     : Phase,
            route     : Routes \cup {<<>>},
            current   : Nat,         \* position being attempted, 0 before the first
            pending   : SUBSET Nat,  \* positions the for loop has yet to reach
            attempts  : Nat,
            retries   : Nat,         \* per_candidate_retries
            fallbacks : Nat,         \* fallback_count
            logged    : Nat,         \* route events written
            answers   : Nat]         \* upstream calls that came back successful

History == [tried : SUBSET Nat, barred : SUBSET Nat]

Init ==
    /\ store = EmptyStore
    /\ req = [s \in Slots |-> Idle]
    /\ hist = [s \in Slots |-> NoHistory]

-----------------------------------------------------------------------------
(* Steps of the for loop.  r is the request as it stands, st the store.     *)

\* The request ends; 200, 400, 404, 500 or 502 follows from the phase.
Finish(s, r, phase) ==
    req' = [req EXCEPT ![s] = [r EXCEPT !.phase = phase, !.pending = {}]]

\* Top of the while loop: the ceiling is checked before every attempt.
Attempt(s, r) ==
    \/ /\ r.attempts < HardCeiling
       /\ req' = [req EXCEPT ![s] = [r EXCEPT !.phase = "attempting", !.attempts = @ + 1]]
    \/ /\ r.attempts >= HardCeiling
       /\ Finish(s, r, "hard_attempt_ceiling")

\* Mutant of MoveOn: a failed provider takes its other keys with it.
MoveOnToOtherProvider(s, r, st) ==
    LET ready == {i \in r.pending : Eligible(st, r.route[i])} IN
    \/ ready = {} /\ Finish(s, r, "no_eligible_candidate")
    \/ \E i \in ready :
          /\ \A j \in ready \ {i} : Precedes(r.route, i, j)
          /\ Attempt(s, [r EXCEPT !.current = i,
                                  !.retries = 0,
                                  !.pending = {j \in @ : /\ Precedes(r.route, i, j)
                                                         /\ r.route[j].provider # r.route[i].provider}])

\* Mutant of MoveOn: eligibility is not looked at again after scoring.
MoveOnUnchecked(s, r, st) ==
    \/ r.pending = {} /\ Finish(s, r, "no_eligible_candidate")
    \/ \E i \in r.pending :
          /\ \A j \in r.pending \ {i} : Precedes(r.route, i, j)
          /\ Attempt(s, [r EXCEPT !.current = i, !.retries = 0, !.pending = @ \ {i}])

\* Mutant of MoveOn: the request calls its candidate again until another is free.
MoveOnPatiently(s, r, st) ==
    LET ready == {i \in r.pending : Eligible(st, r.route[i])} IN
    \/ r.pending = {} /\ Finish(s, r, "no_eligible_candidate")
    \/ r.pending # {} /\ ready = {} /\ req' = req
    \/ \E i \in ready : Attempt(s, [r EXCEPT !.current = i, !.retries = 0, !.pending = @ \ {i}])

\* Mutant of MoveOn: all gated candidates are looked at anew after a failure.
MoveOnFromTop(s, r, st) ==
    LET ready == {i \in r.pending : Eligible(st, r.route[i])} IN
    \/ /\ ready = {}
       /\ Finish(s, r, "no_eligible_candidate")
    \/ \E i \in ready :
          /\ \A j \in ready \ {i} : Precedes(r.route, i, j)
          /\ Attempt(s, [r EXCEPT !.current = i, !.retries = 0])

\* The for loop goes on: skip what is not eligible now, attempt the next.
MoveOn(s, r, st) ==
    LET ready == {i \in r.pending : Eligible(st, r.route[i])} IN
    \/ /\ ready = {}
       /\ Finish(s, r, "no_eligible_candidate")
    \/ \E i \in ready :
          /\ \A j \in ready \ {i} : Precedes(r.route, i, j)
          /\ Attempt(s, [r EXCEPT !.current = i,
                                  !.retries = 0,
                                  !.pending = {j \in @ : Precedes(r.route, i, j)}])

\* After a failure that is not retried, within the route's candidate limit.
NextCandidate(s, r, st) ==
    LET after == [r EXCEPT !.fallbacks = @ + 1] IN
    IF RouteCandidateLimit # 0 /\ after.fallbacks >= RouteCandidateLimit
    THEN Finish(s, after, "no_eligible_candidate")
    ELSE MoveOn(s, after, st)

\* record_route_event for the attempt in hand.
Logged(r) == [r EXCEPT !.logged = @ + 1]

\* History of the request in slot s, brought up to date; was is its old value.
Observe(s, was) ==
    LET r == req'[s] IN
    hist' = [hist EXCEPT ![s] =
        [tried  |-> was.tried \cup (IF r.phase = "attempting" THEN {r.current} ELSE {}),
         barred |-> was.barred \cup {i \in DOMAIN r.route : ~Eligible(store', r.route[i])}]]

-----------------------------------------------------------------------------
(* A request arrives.                                                       *)

Free(s) == req[s].phase # "attempting"

\* An unknown model, or no candidate covers the capabilities needed.
Reject(s) ==
    /\ Free(s)
    /\ \E phase \in {"unknown_virtual_model", "request_validation"} :
          /\ phase = "request_validation" =>
                \E route \in Routes, need \in Needs : Gate(route, need) = {}
          /\ req' = [req EXCEPT ![s] = [Idle EXCEPT !.phase = phase]]
    /\ hist' = [hist EXCEPT ![s] = NoHistory]
    /\ UNCHANGED store

\* Gate and score the candidates once, then enter the for loop.
Start(s) ==
    /\ Free(s)
    /\ \E route \in Routes, need \in Needs :
          LET gated == Gate(route, need) IN
          /\ gated # {}
          /\ store' = store
          /\ MoveOn(s, [Idle EXCEPT !.route = route,
                                    !.pending = {i \in gated : Usable(store, route[i])}],
                    store)
          /\ Observe(s, [NoHistory EXCEPT !.barred = DOMAIN route \ gated])

-----------------------------------------------------------------------------
(* The attempt in flight ends.                                              *)

EndsIn(s, outcome) ==
    /\ req[s].phase = "attempting"
    /\ outcome \in IF Current(req[s]).key = NoKey THEN CliOutcomes ELSE ApiOutcomes

Succeed(s) ==
    /\ EndsIn(s, "success")
    /\ store' = ApplySuccess(store, Current(req[s]))
    /\ Finish(s, [Logged(req[s]) EXCEPT !.answers = @ + 1], "success")
    /\ Observe(s, hist[s])

\* Failure after the first downstream chunk: no state write, no other candidate.
FailCommitted(s) ==
    /\ EndsIn(s, "committed")
    /\ store' = store
    /\ Finish(s, Logged(req[s]), "partial_stream_failure")
    /\ Observe(s, hist[s])

\* A token_limit failure under the retry limit: same candidate, not rechecked.
Retry(s) ==
    /\ EndsIn(s, "token_limit")
    /\ RetriesSame("token_limit", req[s].retries)
    /\ store' = ApplyFailure(store, Current(req[s]), "token_limit")
    /\ Attempt(s, [Logged(req[s]) EXCEPT !.retries = @ + 1])
    /\ Observe(s, hist[s])

\* Every other classified failure: write its state, go to the next candidate.
Fallback(s) ==
    \E class \in ErrorClass :
       /\ EndsIn(s, class)
       /\ ~RetriesSame(class, req[s].retries)
       /\ store' = ApplyFailure(store, Current(req[s]), class)
       /\ NextCandidate(s, Logged(req[s]), store')
       /\ Observe(s, hist[s])

\* Mutant of Breach: the handler writes no route event.
BreachUnlogged(s) ==
    /\ EndsIn(s, "breach")
    /\ store' = ApplyFailure(store, Current(req[s]), "server")
    /\ MoveOn(s, [req[s] EXCEPT !.fallbacks = @ + 1], store')
    /\ Observe(s, hist[s])

\* The generic handler: any other exception of the attempt counts as a server
\* failure, and route_candidate_limit is not looked at.
Breach(s) ==
    /\ EndsIn(s, "breach")
    /\ store' = ApplyFailure(store, Current(req[s]), "server")
    /\ MoveOn(s, [Logged(req[s]) EXCEPT !.fallbacks = @ + 1], store')
    /\ Observe(s, hist[s])

\* Mutant of SuccessUnrecorded: the candidate is called again.
SuccessUnrecordedRetried(s) ==
    /\ StoreFaults
    /\ EndsIn(s, "success")
    /\ store' = store
    /\ Attempt(s, Logged([req[s] EXCEPT !.answers = @ + 1]))
    /\ Observe(s, hist[s])

\* The upstream answered, but the state write or the event write raised: the
\* generic handler takes the answered attempt for a server failure.  When one
\* of the handler's own writes raises too, the exception leaves run().
SuccessUnrecorded(s) ==
    /\ StoreFaults
    /\ EndsIn(s, "success")
    /\ LET answered == [req[s] EXCEPT !.answers = @ + 1] IN
       \E st \in {store, ApplySuccess(store, Current(req[s]))} :
          \/ /\ store' = ApplyFailure(st, Current(req[s]), "server")
             /\ MoveOn(s, [Logged(answered) EXCEPT !.fallbacks = @ + 1], store')
          \/ /\ store' \in {st, ApplyFailure(st, Current(req[s]), "server")}
             /\ Finish(s, answered, "internal_error")
    /\ Observe(s, hist[s])

\* A write raises inside a failure handler: the exception leaves run().
FailureUnrecorded(s) ==
    /\ StoreFaults
    /\ \/ \E class \in ErrorClass :
             /\ EndsIn(s, class)
             /\ store' \in {store, ApplyFailure(store, Current(req[s]), class)}
       \/ /\ EndsIn(s, "committed")
          /\ store' = store
       \/ /\ EndsIn(s, "breach")
          /\ store' \in {store, ApplyFailure(store, Current(req[s]), "server")}
    /\ Finish(s, req[s], "internal_error")
    /\ Observe(s, hist[s])

-----------------------------------------------------------------------------
(* The environment.                                                         *)

\* The process dies: requests in flight are gone, the store is what it was.
Crash ==
    /\ Crashes
    /\ req' = [s \in Slots |-> Idle]
    /\ hist' = [s \in Slots |-> NoHistory]
    /\ UNCHANGED store

\* The process dies after the state write of an outcome, before its event.
CrashAfterWrite(s) ==
    /\ Crashes
    /\ \/ EndsIn(s, "success") /\ store' = ApplySuccess(store, Current(req[s]))
       \/ \E class \in ErrorClass :
             EndsIn(s, class) /\ store' = ApplyFailure(store, Current(req[s]), class)
    /\ req' = [t \in Slots |-> Idle]
    /\ hist' = [t \in Slots |-> NoHistory]

Tick ==
    /\ store' = Age(store)
    /\ UNCHANGED <<req, hist>>

Respond(s) ==
    \/ Succeed(s)
    \/ FailCommitted(s)
    \/ Retry(s)
    \/ Fallback(s)
    \/ Breach(s)
    \/ SuccessUnrecorded(s)
    \/ FailureUnrecorded(s)

Next ==
    \/ \E s \in Slots :
          \/ Reject(s)
          \/ Start(s)
          \/ Respond(s)
          \/ CrashAfterWrite(s)
    \/ Crash
    \/ Tick

Spec == Init /\ [][Next]_vars

\* Every upstream call ends: the HTTP clients have timeouts, for each operation on
\* the connection (an answer that trickled in for ever is left out), and the executor
\* has one for the call.  The clock goes on.  Nothing obliges a client to send a request.
FairSpec == Spec /\ WF_vars(Tick) /\ \A s \in Slots : WF_vars(Respond(s))

-----------------------------------------------------------------------------
(* Properties.                                                              *)

\* Every variable has its type, and a request in flight has a current
\* candidate in its route, with later positions of the route pending.
TypeOK ==
    /\ store \in Store
    /\ req \in [Slots -> Request]
    /\ hist \in [Slots -> History]
    /\ \A s \in Slots :
          /\ req[s].pending \subseteq DOMAIN req[s].route
          /\ req[s].phase = "attempting" => req[s].current \in DOMAIN req[s].route

\* The attempt budget: a request never exceeds the ceiling, nor one attempt and
\* RetryLimit retries on each candidate it has gone through, and every attempt
\* that has ended has left exactly one route event - unless a write raised.
Budget ==
    \A s \in Slots : LET r == req[s] IN
       /\ r.attempts <= HardCeiling
       /\ r.attempts <= (r.fallbacks + 1) * (1 + RetryLimit)
       /\ r.attempts = r.logged + (IF r.phase \in {"attempting", "internal_error"} THEN 1 ELSE 0)

\* No candidate is asked again once it has answered: each answer of a request is
\* another candidate's, also where recording it raises and the answered attempt goes
\* on as a failure (fallback.py:195).  An upstream never answers a request twice.
OneAnswerEach ==
    \A s \in Slots : req[s].answers <= Cardinality(hist[s].tried)

\* 502 is not given up early: every candidate of the route was attempted, or was
\* not gated in, or was ineligible when this request took one of its steps.
NobodyForgotten ==
    \A s \in Slots : req[s].phase = "no_eligible_candidate" =>
       DOMAIN req[s].route \subseteq hist[s].tried \cup hist[s].barred

\* A reserve key is spent only once every regular candidate of the route has
\* been attempted or was seen ineligible.
ReserveLast ==
    \A s \in Slots : LET r == req[s] IN
       (r.phase = "attempting" /\ Current(r).reserve) =>
          \A i \in DOMAIN r.route :
             r.route[i].reserve \/ i \in hist[s].tried \cup hist[s].barred

\* The candidate that answered slot s in this step is d.
Attempted(s, d) == req[s].phase = "attempting" /\ Current(req[s]) = d

\* Isolation of scopes: a candidate becomes ineligible only when an attempt on
\* its own provider ends; if that leaves the health rows alone (auth, quota,
\* rate limit), only the attempted key is lost, and all its siblings stay.
BlastRadius ==
    [][\A c \in Routed : Eligible(store, c) /\ ~Eligible(store', c) =>
          \E s \in Slots, d \in Routed :
             /\ Attempted(s, d)
             /\ d.provider = c.provider
             /\ store'.health = store.health => d.key = c.key
      ]_vars

\* A candidate is first attempted only when it is eligible at that moment, in
\* the store as the request's own failure and all other requests left it.
FreshIsEligible ==
    [][\A s \in Slots : LET r == req'[s] IN
          (r # req[s] /\ r.phase = "attempting" /\ r.retries = 0)
             => Eligible(store', Current(r))]_vars

\* What the abstract specification sees of the request in slot s.
ViewOf(s) ==
    LET open == req[s].phase = "attempting" IN
    [verdict |-> CASE open -> "open"
                   [] req[s].phase = "idle" -> "none"
                   [] req[s].phase = "success" -> "answered"
                   [] OTHER -> "failed",
     called  |-> hist[s].tried,
     now     |-> IF open THEN req[s].current ELSE 0,
     again   |-> IF open THEN req[s].retries ELSE 0]

Promise == INSTANCE RequestPromise WITH
              Clients   <- Slots,
              Positions <- UNION {DOMAIN route : route \in Routes},
              view      <- [s \in Slots |-> ViewOf(s)]

\* Refinement: with all its state writes, checks and limits the engine calls each
\* candidate at most once, and again only in immediate succession, up to the limit.
KeepsRequestPromise == Promise!Spec

\* A request that has been accepted is answered, whatever the others do.
Terminates ==
    \A s \in Slots : req[s].phase = "attempting" ~> req[s].phase # "attempting"

\* A rate limit is short-term: however many requests are in flight, they cannot
\* keep its cooldown running for ever.
RateLimitEnds ==
    \A q \in QuotaScope : []<>(store.quota[q].left = 0)

=============================================================================
