# AutoRoute Gateway in TLA+

The gateway takes OpenAI-style chat requests for *virtual models* and sends each to one of
several *candidates* (provider × credential × concrete model). It learns from failures which
candidates to leave alone, keeps that knowledge in SQLite, and falls back to the next candidate
until one answers. This directory holds TLA+ modules for the parts of it that decide, TLC
configurations that check them on small instances, and proofs of the properties that matter most
for every value of the parameters. Paths below are relative to `src/`.

## 1. The system

| Component | State | Operations | Talks to |
| --- | --- | --- | --- |
| **StateStore** `gateway/state/sqlite.py` | health per (p) or (p,m); quota per (p), (p,k) or (p,k,m); credential per (p,k); cooldowns; route events; usage counters | `get_*` with fallback from narrow to wide scope, `set_*` upserts, `record_route_event`, schema set-up and migration at start | called by everything; one lock, one transaction per call |
| **CapabilityGate, Scorer** `gateway/routing/` | none | keep candidates that cover the request; mark them usable and order them, reserve keys last | read the store once per request |
| **FallbackEngine** `gateway/routing/fallback.py`, `gateway/policy/retry_policy.py` | per request: attempts, retries, fallbacks | `run`: check eligibility, attempt, write state and event, retry, go on or stop | awaits the upstream; reads and writes the store |
| **ErrorClassifier** `gateway/policy/error_classifier.py` | none | status and body to one of eight classes | its class decides what `_apply_failure` writes |
| **GatewayService.chat** `gateway/service.py` | adapters, executors | gate, score, `run` with an `attempt` for API or CLI candidates | engine, adapters, executor |
| **GatewayService.chat_stream, StreamHandle, SSE generator** `gateway/service.py`, `gateway/api/openai.py` | per stream: buffer, committed flag, attempts | select by buffering a prefix, replay it, relay, end | store and adapters directly: it does **not** use `FallbackEngine.run` |
| **Provider adapters** `gateway/providers/` | HTTP client | one JSON call, one SSE call | upstreams; timeouts of the HTTP client |
| **Codex executor** `gateway/executors/codex.py` | a subprocess per call | run the CLI, parse its JSONL, time out | operating system |
| **CandidateBuilder** `gateway/routing/candidate_builder.py` | `_RR_COUNTER`, process-wide | enumerate a route, order and rotate key pools | configuration |
| **Configuration** `gateway/config/`, `tools/run_gateway.py` | read once | parse, default, validate, apply the capability matrix, resolve secrets | everything |
| **HTTP surface, middleware, status** `gateway/api/`, `gateway/app.py` | none | authenticate, map errors to status codes, read-only views | service |
| **Traffic capture, tools** `gateway/capture/`, `tools/`, `restart-gateway-launcher.py` | files | development and start-up helpers | – |

Everything runs on one asyncio event loop: between two `await`s a request is not interrupted,
and the store's calls are synchronous. What is hard:

* requests overlap at every upstream call and share the store, so what a request knew when it
  scored its candidates is stale when it attempts them;
* a failure observed by one request decides what all others may use, at a scope that must be
  neither too wide (one bad key takes its provider along) nor too narrow;
* the state write, the event write and the decision after an upstream answer are separate
  transactions of which any may raise, and the process may die between two;
* the tables are migrated statement by statement on every start, and a start may be cut off anywhere;
* a subprocess may outlive its call, or the gateway;
* a stream may change provider only until the first substantive chunk has been handed over;
* three counters (attempts, retries per candidate, fallbacks) bound one loop together;
* the streaming path repeats the failure handling of the engine by hand.

What makes each component correct:

* **Store**: the narrowest row answers; an upsert changes one scope only; whatever a start finds, it
  succeeds and loses no observation.
* **Engine**: no attempt beyond the budget; no upstream answers a request twice; nothing attempted that is known to
  be out; nothing given up untried; a failure costs only its own scope; a request ends.
* **Stream**: the client sees exactly one upstream, unaltered; one event per attempt; after the
  commit the stream ends truncated, before it the next candidate is tried.
* **Classifier and adapters**: throttling costs a cooldown, silence costs a cooldown, only explicit evidence
  costs a key or a model.
* **Codex executor**: the events decide what is an answer, not the exit status; every call ends; the
  executor is never out for good.
* **CandidateBuilder**: a build lists the whole pool; each regular key of a rotating pool leads.

## 2. Modules

```
StateStore <- Routing <-+- Serving <-+- FallbackEngine <- EngineClaims <- MCFallbackEngine
     ^                  |            |        |  refines  RequestPromise
     |                  |            +- ChatStream <- StreamClaims <- MCChatStream
     |                  |            |        |  refines  StreamPromise
     |                  |            +- Gateway (EXTENDS FallbackEngine, ChatStream) <- MCGateway
     |                  +- ErrorClassifier <- MCErrorClassifier
     |                  +- CodexExecutor <- MCCodexExecutor
     +- SqliteStore <- MCSqliteStore
           |  refines  StoreMap
CandidateBuilder <- MCCandidateBuilder

proofs: RoutingProofs <-+- FallbackEngineProofs <-+- GatewayProofs
                        +- ChatStreamProofs <-----+
                        +- CodexExecutorProofs
                        +- ErrorClassifierProofs
        SqliteStoreProofs
        CandidateBuilderProofs
```

**StateStore** has no variables: a store is a record of three functions from scope to row, and
`GetHealth`, `SetQuota`, ... are functions of it, since every method of `SqliteStateStore` is atomic.
A cooldown is the number of ticks left (`Age` is one tick of the clock), which makes
`cooldown_until > now` into `left > 0` and keeps the state space finite.

**SqliteStore** is the same store one level down: rows with rowids, NULL as older versions wrote it for an
absent component, and the six statements of `_init_schema` that touch rows or indexes. `Execute` is one
statement, committed by itself as `executescript` does; it is *refused* when the primary key or a unique
index would be violated, and then `__init__` raises (`mode = "failed"`). `Stop` is every way a process
ends, at any statement. `Set` is the SQL upsert of this version, `SetInLegacy` that of an older one, as the
comment of the migration describes it. `HealthRowsFor` and `QuotaRowsFor` are the sequences of `SELECT`s;
`InMemoryQuota` is the lookup of the store that most tests run on. `View` is the store of module StateStore
that the tables stand for.

**StoreMap** is the abstract specification of these tables: a map from scope to latest observation, which
nothing but an observation changes. `SqliteStore!KeepsObservations` says that they implement it.

**Routing** holds what gateway code decides from a store: `Gate`, `Usable` and `Precedes` (the scorer),
`Eligible`, `ApplyFailure` and `ApplySuccess` (the engine), `RetriesSame` (the policy). The numeric
score is not modelled: the code computes it, and orders by reserve flag and position only.

**Serving** declares what the two paths of one process share: the store, the candidate lists of the
configuration, and whether writes may raise.

**FallbackEngine** models `GatewayService.chat` and `FallbackEngine.run`. Each request in a slot of
`req` is a record of `run`'s local variables; `pending` is what the `for` loop has left. The only
`await` is the upstream call, so an action is everything from one answer to the next call:

| Action | Code |
| --- | --- |
| `Reject`, `Start` | `service.py:193-203`: unknown model, gate, score, enter the loop |
| `Succeed` | `fallback.py:194-201` |
| `FailCommitted` | `fallback.py:204-212` |
| `Retry`, `Fallback` | `fallback.py:213-227` |
| `Breach` | `fallback.py:228-236`, e.g. a missing secret, or an executor that reports `ok: False` |
| `SuccessUnrecorded`, `FailureUnrecorded` | a store call inside the handlers raises |
| `Crash`, `CrashAfterWrite` | the process dies between, or in the middle of, two steps |
| `Tick` | the clock |

`Start` and `MoveOn` share the search for the next candidate, with the ceiling check of `Attempt`.
`hist` is history for the properties only: positions tried, and positions that were not gated in
or were ineligible at a step of the request.

**RequestPromise** is what the engine promises of one plain request, without store, classes or counters:
candidates are called one after the other, one that was left is never called again, the one in hand at
most `RetryLimit` times more, none after the end. `FallbackEngine!KeepsRequestPromise` is the refinement.

**ChatStream** models `chat_stream`, `StreamHandle` and the SSE generator as one machine per slot,
since they run as nested generators in one task: *selecting* (pull into `buffered` until a
substantive chunk or `[DONE]`), *relaying* (replay, then pull and hand over), and the ends. An
action is one pull or one hand-over. `Disconnect` may cancel the task anywhere; `HandlerRaises` and
`SuccessRaises` are the writes that fail. `produced`, `tried` and `barred` are history.

**StreamPromise** is the abstract specification of the commit semantics (`docs/SPEC.md`, section 3): a
client sees events of at most one attempt, an error event only before the first text, truncation only
after it. An error event may follow metadata: a stream of role and `[DONE]` alone is selected, and when its
success cannot be recorded it ends in an error event. An exception of the gateway itself breaks the
response off (`Break`). `ChatStream!KeepsPromise` is the refinement.

**Gateway** composes the two paths: it extends FallbackEngine and ChatStream, whose variables other than
`store` have names of their own; each step of the one leaves the requests of the other alone, and a crash - at rest, after the
state write of a plain request, or after that of a stream (`CrashInStream`) - takes all of them and leaves
the store. This is where a mark that one path makes has to bind the other, which has its own copy of the
checks.

**ErrorClassifier** begins with what an upstream did (`Upstream`), goes through what either adapter raises of
it (`Kind`) to a class: a body is the set of token families it contains, looked at in the code's order and
before the status. Where there was no response, the text of the client library's exception stands for the
body, and may hold every family: a proxy's refusal reads "407 Proxy Authentication Required". Failures then go
through `ApplyFailure`, so that the properties are about what a failure *costs*. `told` is history: what
failures have said of keys and models.

**CodexExecutor** has one record per call of the CLI: `Start` makes a workspace and a subprocess, `Emit` is one
line of its JSONL that counts, `Exit` and `TimeOut` end the call, each through `Leave`, where the removal of the
workspace may fail and replace the result by its exception; `NotStarted` is every way not to get that far.
Nothing kills a subprocess that has timed out: it is one of `strays` from then on. `OutcomesOf` is what
`chat` may make of a result, and `Applied` what the engine writes of it: an answer whose usage is not an object
of numbers cannot be wrapped and counts as a failure, and the configured home path, which one `AdapterError`
quotes, is taken to hold none of the classifier's words.

**CandidateBuilder** goes from a file (with entries left out) through defaults, validation and the
capability matrix to the candidate lists of successive requests, with the shared rotation counter. A step may
name a model, none, or a blank one (`Blank`), which validation and enumeration read differently.
Its results are the constant `Routes` of the request modules.

**EngineClaims** and **StreamClaims** hold statements of the documentation that the code does not
keep; the one about rotation, `KeysShareFairly`, stands at the end of CandidateBuilder. The **MC**
modules hold values for the constants, nothing else. Definitions commented `Mutant of X` are plausible bugs: each property is known to fail when X is replaced by one.

## 3. Runs

| Run | Instance | Shows |
| --- | --- | --- |
| `engine_failover` | 1 request, a key, a reserve key and a CLI executor; every kind of outcome; 2 retries, ceiling 5; crashes, raising writes | `TypeOK`, `Budget`, `OneAnswerEach`, `NobodyForgotten`, `ReserveLast`, `KeepsRequestPromise` (refinement) |
| `engine_liveness` | 2 overlapping requests, 2 keys of one provider, cooldowns of 1 and 2 ticks, raising writes, fair scheduling | `NobodyForgotten`, `BlastRadius`, `FreshIsEligible` between requests; `Terminates`, `RateLimitEnds` |
| `gateway_overlap` | a plain request and a stream on 2 keys of one provider, route limit 2, raising writes, crashes anywhere | `Budget`, `EventPerAttempt`, `NothingGivenUpEarly`, `FirstCallsAreEligible`, `LossIsLocal`, `ComesBack` between the paths |
| `stream_relay` | 1 stream, 3 candidates, a reserve key without a secret, 3 events per attempt, ceiling 2, raising writes | `StreamTypeOK`, `ClientSeesOneUpstream`, `EventPerAttempt`, `KeepsPromise` (refinement) |
| `sqlite_store` | a provider with a key and an executor, 1 model, 3 rows, 2 values per table, legacy rows, starts cut off anywhere | `TypeOK`, `StartsAlways`, `Migrated`, `LookupsAgree`, `DoubleAgrees`, `KeepsObservations` (refinement) |
| `codex_executor` | 2 calls at a time, 2 events each, 2 strays, crashes | `TypeOK`, `VerdictFollowsEvents`, `ExecutorStaysUsable`, `CallsEnd` |
| `key_pool` | 14 files: right ones with pools of 3 and 4 keys, with blank models, and every mistake `_validate` rejects | `TypeOK`, `PoolComplete`, `ValidatedServes`, `EveryKeyLeads` |
| `error_classes` | 2 candidates of one provider of either type; 6 statuses, 12 bodies, transport failures with the same 12 texts, bad answers | `TypeOK`, `OutForGoodWasTold`, `ThrottledIsNotExhausted`, `SilenceIsNotBlamed` |
| `claim_provider_cooldown` | 2 models of one provider | violates `ProviderCooldownVisible` |
| `claim_stream_secret` | 2 providers, one key without a secret | violates `AbortsOnlyAtTheEnd` |
| `claim_stream_gemini` | a provider that answers in completed messages | violates `TextIsDelivered` |
| `claim_key_pool` | two rotating pools of two keys on one route, with or without the matrix | violates `KeysShareFairly` |

**Bounds.** `Slots` (1 or 2): requests interact only through the store, one row at a time, so two show
every race between an observation and its use; in `gateway_overlap` one on each path. Routes of 2 or 3
candidates: two for "this one and another", three to have a reserve key between others. Cooldowns of 1 or
2 ticks: only their order matters. `RetryLimit` 1 or 2 (2 in production), `HardCeiling` 2 to 5 (50), so that both
are reached in every order. `MaxEvents`: 3 in `stream_relay` (metadata, text, the end), 2 in `codex_executor` (two
messages, or a message and a failure, whose order matters), 1 in `gateway_overlap`, where what a stream relays
does not matter and what it marks does. `MaxRows` 3: two rows about one scope and one about another, in either
table. `MaxStrays` 2: a process left behind while another runs. `CounterPeriod` 12: the counter is only used
modulo pool sizes, and 12 is a multiple of 3 and 4. `Window` 4: the longest pool. No run uses symmetry. TLC
deadlocks in no run: there is always a step to take.

**Fairness.** `FallbackEngine!FairSpec`: weak fairness of `Tick`, since time passes, and of `Respond(s)`: an
upstream call ends, because the HTTP clients are built with a timeout, the executor's `communicate` is under
`wait_for`, and the event loop resumes whoever is ready. For HTTP this is slightly more than the code
guarantees: the timeout of httpx is one per operation (connect, write, each read), so an upstream that sends
its answer a byte at a time, each just in time, is assumed to come to an end. `Start` is not fair: nobody has to send requests.
`CodexExecutor!FairSpec`: weak fairness of `TimeOut(s)` alone, the timer of `wait_for`; a subprocess may hang
before its first line or after its last. No liveness is claimed for streams: an upstream may go on sending
metadata, and a client may stop reading, for ever, and the code limits neither.

## 4. What the runs found

Each disagreement below is a run that expects a counterexample.

1. **A success hides its provider's cooldown** (`claim_provider_cooldown`). Health is read from the (p,m)
   row if there is one, and each success writes one. From then on a network or server failure, written
   at (p), no longer stops that model from being called, against `docs/SPEC.md:108`. Quota has the same
   shape: an old RATE_LIMITED row of (p,k,m) hides a later EXHAUSTED mark of (p,k). `ComesBack` says exactly in
   which ways a candidate may come back.
2. **A missing secret aborts a stream** (`claim_stream_secret`). `adapter_for` and `_secret` are outside the
   `try` of the selection loop (`service.py:262-263`); `chat` falls back in the same case.
3. **Gemini streams are never delivered** (`claim_stream_gemini`). The adapter yields `message` where
   `_is_valid_chunk` looks for `delta`.
4. **A declared rotation does not happen** (`claim_key_pool`), for either of two reasons, of which each suffices:
   `apply_capability_matrix` drops `key_pool_strategy` (the shipped `gateway.yaml` names a matrix, and declares at
   line 89 that the keys are rotated); and all pools advance one counter, so that each of two
   pools on a route sees every second value, and with an even number of keys half of them never lead.

Other disagreements met while modelling, which the models contain (the actions do what the code does)
without a run of their own:

* a write that raises after an upstream answer (`fallback.py:195-197`) is caught as a failure of the call: the
  answered request goes to the next candidate, or ends with the error that says that all were tried "without
  success" (`fallback.py:28`). `SuccessUnrecorded` is this step; `OneAnswerEach` says what remains true;
* the generic handler (`fallback.py:228-236`) does not look at `route_candidate_limit`, "how many distinct
  candidates a route may try" (`retry_policy.py:5`): action `Breach`;
* an `AdapterError` is "treated as server-class" (`base.py:31`), but a transport failure quotes the exception
  (`openai_compatible.py:92`, `gemini.py:108`) and its text is classified like a body: a proxy's 407 becomes
  AUTH_ERROR, for good, with nothing said by the upstream;
* a blank model passes validation: `loader.py:101` tests the truth of the name, `schema.py:64` whether it is
  `None`. Such a step is valid and contributes nothing, although a model that its provider does not have is
  rejected at start otherwise (`loader.py:102`);
* an EXHAUSTED key never recovers; `error_classifier.py:138` says its scope is probed;
* a candidate skipped in cooldown is not looked at again even if its cooldown ends while the request is
  still busy; `retry_policy.py:11` says "stop only when no eligible candidate remains";
* the ceiling counts retries, so 17 candidates that answer token_limit reach the default of 50, though
  `fallback.py:40` says it is not a policy cap;
* streams: an unsatisfiable request breaks the response instead of a 400; token_limit is not retried;
  an upstream that closes early is logged as a server failure but keeps its health; a stream that ends
  without `[DONE]` leaves no event;
* `Retry-After` is parsed nowhere: `retry_after_seconds` is never set;
* with a reserve key in a rotating pool the regular key after it leads twice per round;
* in a model list the first entry is the default unless it says otherwise, even when a later one says that
  it is (`config/schema.py:143`);
* an `AdapterError` whose text names no family is `network` instead of server-class, which has another
  cooldown; only the OpenAI adapter catches an answer that is not JSON, so the
  same answer through Gemini is `server`;
* results of the executor that are not ok reach the engine unclassified (`service.py:213`): their `error_class`
  is dropped, and the empty prompt of one client puts the executor in cooldown for everybody;
* nothing kills a subprocess that has timed out, and a workspace whose removal fails turns an answer into a
  failure;
* the store of the tests looks up the model of any key before the key (`state/store.py:65`), the real one the
  other way round. `DoubleAgrees` shows that this makes no difference for the scopes that the engine writes.

## 5. Proofs

All theorems hold for every value of the constants that satisfies the assumptions of the modules: the
constants have their types, `NoKey` and `NoModel` are no real ids, a provider either has keys or is an
executor, and executors do not end in `auth` (their exceptions carry no such words; the code would then
write a credential row whose id is NULL, which the table refuses, and the error would leave `run`). Three
theorems assume more, and say so in their statements:

* `NothingGivenUpUntried` and its counterpart in Gateway need a `route_candidate_limit` that is none (0 in the
  models, the default in the code) or no lower than the length of any route: a lower one gives candidates up on
  purpose.
* `CeilingCutsNothing` needs `Len(route) * (1 + RetryLimit) <= HardCeiling`; the default of 50 does for routes
  of up to 16 candidates.
* `SilencePutDownToProvider` needs positive cooldowns for networks and servers (30 seconds in the code): a
  cooldown of no time is over when it is written.

Every invariant and every action property that a passing run checks, and every refinement, is stated by a
theorem. Only liveness is left to TLC.

`RoutingProofs` has the lemmas about the store that the others cite: each operation yields a store. It also
shows that a set of numbers has a least member, and a bounded one a greatest.

### FallbackEngineProofs

* `TypeCorrect`: `Spec => []TypeOK`. The inductive invariant `TypeInv` says the same with the condition on
  positions folded into a set of requests (`SoundRequest`). One lemma per helper (`MoveOnType`,
  `AttemptType`, ...) carries it through each action.
* `BudgetKept`: `Spec => []Budget`. `Budget` is not inductive: it says nothing of how many retries the
  candidate in hand has used. `BudgetInv` adds `attempts <= fallbacks * (1 + RetryLimit) + 1 + retries` and
  `retries <= RetryLimit` while an attempt is open; the helpers of the loop get a precondition
  (`ReadyForMore`), and the non-linear step is isolated in `OneMoreFallback`.
* `AnswersFromEachOnce`: `Spec => []OneAnswerEach`. A raising write lets an answered attempt go on as a failure,
  so a request may collect several answers. `AnswersInv` adds that in flight each has cost a fallback, which
  `StoryInv` (below) counts among the positions tried, with the one in hand besides.
* `ScopesIsolated`: `Spec => BlastRadius`. A lemma per store operation says whom it can make ineligible
  (`SetHealthRadius`, `SetQuotaRadius`, `SetCredentialRadius`), that a success and a tick make nobody so, and
  `LossStep` goes through the actions.
* The history of a request. Every action makes one of three things of it (`GoesOn`, `CalledAgain`, `Ended`), and
  `StoryInv` is carried through them: each position of the route has been tried, was barred or is pending; what
  is pending has not been tried; what is in hand was tried, precedes all that is pending, and was retried at
  most `RetryLimit` times; the fallbacks count the positions tried. From it follow `NothingGivenUpUntried`
  (`NobodyForgotten`), `ReserveSpentLast`, `FirstCallsAreChecked`, `ServedAsPromised`, the refinement of
  RequestPromise, and with the budget `CeilingCutsNothing`.

### ChatStreamProofs

Each stream is `Fine`, which no step of another stream can change: it is *Sound* (types), *Numbered* (all events
but the last have gone on to the next candidate), *Fed* (events in hand are of the last attempt; before
selection the client has nothing, and a stream being relayed has given text or has text or `[DONE]` in its
buffer) and *Covered* (each position tried, barred or pending). A lemma per helper says what it makes of a
stream, one per action that the result is `Fine` and moves the client's view in one of the ways of
StreamPromise (`StepOf`). The last part of *Fed* is what makes the end of an upstream without `[DONE]` a complete
answer, and a failure after the buffer a truncation. It gives `StreamTypes`, `AttemptsAreLogged`,
`StreamForgetsNobody`, `StreamCallsAreChecked` and the refinement `StreamsKeepPromise`.

`ClientsGetWhatWasSent` (`ClientSeesOneUpstream`) needs in addition that what the client was given, followed by
what is still buffered, is what the last attempt has sent, but for framing: an equation between `SelectSeq`s,
carried one event at a time.

### GatewayProofs

`GatewayInv` is the conjunction of the invariants of both paths and of one about the store they share. Each step
is one of the engine, of a stream, or a crash inside a stream's failure handler (`StepKinds`). The lemmas above
ask nothing of the store after a step but its type, so each path keeps its invariant whatever the other
writes. `BudgetKeptInGateway`, `ClientsGetWhatWasSentInGateway`, `AttemptsAreLoggedInGateway`,
`NothingGivenUpUntriedInGateway` and `FirstCallsAreCheckedInGateway` follow.

`LossesAreLocal` and `NothingComesBackByItself` are about the store itself. A lemma per write says which candidates
it can make unusable or usable again. The second needs `DownIsOfAModel`, that no row of a whole provider says
DOWN: if one did, any first success of a model would hide it, and candidates of that model with other keys
would come back with it. The code marks only models DOWN.

### ErrorClassifierProofs

`NothingLostUnsaid` (`OutForGoodWasTold`) rests on the invariant that each row no cooldown ends stands for a statement
in `told` about its scope; whose statement it was, the upstream's or a proxy's, the code does not know, and the
theorem does not say. `ThrottlingToldApart` and `SilencePutDownToProvider` hold in every store of the right type,
and follow from the order in which `classify_error` looks at tokens and status. The latter is about failures without
a response whose text names at most the network: for other texts it is false of the code (section 4).

### CodexExecutorProofs

`ExecutorNeverOut` (`ExecutorStaysUsable`): the invariant speaks of every row that the executor's scopes fall back
to; the outcomes of a call write none that lasts. `EventsDecide` (`VerdictFollowsEvents`): the invariant `Judged` adds
that a running call has no exit status yet, since a timeout leaves the events of a call as they are; `TextIsLast`
says what `parse_jsonl` has in `text` after any number of events.

### SqliteStoreProofs

`EveryStartSucceeds` and `ServesMigrated`: the invariant says what each executed statement has established of its
table (one row per scope after deduplication, no NULL after normalisation) while a start is at a later one; a
start that is cut off leaves nothing of it and needs nothing. Rowids have a bound, so that `NextId` is new.
`TablesAreMaps`, the refinement of StoreMap, adds that one version encodes an absent component in one way, so
that an upsert meets every row about its scope. `LookupsFindTheLatest` (`LookupsAgree`) uses that a store that
serves has at most one row per scope, which then is the one `View` shows. `DoubleIsFaithful` (`DoubleAgrees`) needs
`ExecutorsHaveNoKeys`: the two lookup orders differ only if rows of a provider exist both with and without a
key, and only executors have the latter.

### CandidateBuilderProofs

Orders and rotations are functions over positions, and the concatenation of a route's lists is `FlattenSeq`, a
recursive function, so this module first shows what these compute: `Ranked` puts each key in one place
(its place is the number of keys that outrank it), `Rotated` permutes them, and `FlattenSeq` holds each entry of each
list once. The last is an induction, made as a least counterexample (`WFMin`), which needs no theorem
with an operator parameter.

* `TypeCorrect`: a configuration in force has its type and is valid while it serves; the matrix keeps validity.
* `ValidRoutesServe` (`ValidatedServes`): each step of a valid route whose provider is enabled and has a
  model contributes at least one entry, unless it leaves its own model blank (section 4).
* `PoolsAreComplete` (`PoolComplete`): occurrences of a key are counted through ranking (`RankedCopies`), rotation
  (`RotatedCopies`), steps and concatenation (`OccurrencesGathered`). It is stated for providers with keys, since a
  step of an executor has one candidate and no pool, and with the multiplicity of a key id in the pool, since
  nothing forbids to list one twice.
* `KeysTakeTurns` (`EveryKeyLeads`): `RotationInv` says which key led each of a route's last builds: the one in `n`-th
  place led `d` builds ago if `n - 1 + d` and the counter agree modulo the size of the pool. `n - 1` moves on by one
  with each build, so that as many builds as keys meet every residue. That also holds across the wrap
  of the counter because `CounterPeriod` is a multiple of all pool sizes (`PoolsDivide`; the code's counter has no
  bound, so any such period is exact).

Left to TLC: `Terminates`, `RateLimitEnds` and `CallsEnd`. They are liveness properties under weak fairness, whose
proofs need ENABLED. RECURSIVE operators are not used; recursive functions of the library (`SelectSeq`, `FlattenSeq`)
are reasoned about through what one more element changes.

## 6. Not modelled

* Usage counters: `add_usage` is called by nothing (it would insert a new row each time for an absent key, NULL
  being distinct from NULL in its primary key). `snapshot` only reads.
* HTTP parsing, error wording, YAML and `.env` parsing, access middleware, status endpoints: stateless.
* Traffic capture and tools: output to files, no state that the gateway reads.
* `probe` and `quota_info` of the adapters: only `tools/smoke_test.py` calls the first, nothing the second.
* The text of prompts and answers of the Codex CLI, and stderr: no decision reads them but through
  `parse_jsonl`.

## 7. What is left

* Liveness by proof.
* Usage accounting and the traffic capture, if the gateway comes to depend on either.
