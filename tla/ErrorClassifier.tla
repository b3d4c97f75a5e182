--------------------------- MODULE ErrorClassifier ---------------------------
(***************************************************************************)
(* From what an upstream did, through what its adapter raised              *)
(* (gateway/providers/{openai_compatible,gemini}.py), to the error class   *)
(* that the fallback engine acts on (gateway/policy/error_classifier.py,   *)
(* and _candidate_failure of gateway/service.py), and, through             *)
(* ApplyFailure, to what it costs which candidate.  FallbackEngine takes   *)
(* every class as a possible outcome; this module says which failures have *)
(* which.                                                                  *)
(*                                                                         *)
(* A body is the set of the token families found in it.  Attempts come one *)
(* after the other here: what a class does to the store does not depend on *)
(* what else is in flight.                                                 *)
(***************************************************************************)
EXTENDS Routing

CONSTANTS
    Route,     \* the candidates that are attempted
    Statuses,  \* the HTTP statuses of failed responses
    Bodies     \* the sets of token families that bodies may hold

NoStatus == 0

\* Mutant of Precedence: throttling words are looked for before quota words.
PrecedenceThrottleFirst ==
    <<"token_limit", "auth", "model_not_found", "rate_limit", "quota", "network">>

\* The six token families in the order they are looked for, each named for its class.
Precedence == <<"token_limit", "auth", "model_not_found", "quota", "rate_limit", "network">>

\* The families, and the two single words looked for after most statuses.
Signals == {"token_limit", "auth", "model_not_found", "quota", "rate_limit", "network", "loose quota"}

ASSUME ErrorAssumption ==
    /\ Route \in Seq(Candidate)
    /\ \A i \in DOMAIN Route : Route[i].key # NoKey
    /\ Statuses \subseteq 400..599
    /\ Bodies \subseteq SUBSET Signals

\* What may go wrong with a call: an error response, no response at all, a response
\* that is not JSON or has not the expected shape, and a request that holds an
\* image.  Without a response the body is the text of httpx's exception, and may say
\* anything that a body says: a proxy's refusal reads "407 Proxy Authentication
\* Required", a broken connection names the network.  The other texts are the
\* adapter's own, around a provider id that names no family.
Upstream == [did : {"error response"}, status : Statuses, body : Bodies]
               \cup [did : {"no response"}, status : {NoStatus}, body : Bodies]
               \cup [did : {"not JSON", "odd JSON", "image"}, status : {NoStatus}, body : {{}}]

\* UpstreamHttpError, AdapterError (no status), and every other exception.
Failure == [kind : {"http", "adapter", "other"}, status : Statuses \cup {NoStatus}, body : Bodies]

AdapterType == {"openai_compatible", "gemini"}

VARIABLES
    adapter,  \* for each provider, the type of its adapter (configuration)
    store,    \* the state store
    told      \* history: what failures said of keys and models, as <<statement, provider, id>>

vars == <<adapter, store, told>>

-----------------------------------------------------------------------------
(* The adapters.                                                            *)

\* What the adapter of a type raises of it.  Only the OpenAI adapter catches a
\* body that is not JSON.  Only the Gemini adapter converts requests and answers,
\* and refuses images; what the other relays in an odd shape, chat() trips over.
Kind(type, u) ==
    CASE u.did = "error response" -> "http"
      [] u.did = "no response"    -> "adapter"
      [] u.did = "not JSON"       -> IF type = "openai_compatible" THEN "adapter" ELSE "other"
      [] u.did = "odd JSON"       -> "other"
      [] u.did = "image"          -> "adapter"

\* The failures of candidate c.
FailuresOf(c) ==
    LET type == adapter[c.provider] IN
    {[kind |-> Kind(type, u), status |-> u.status, body |-> u.body] :
        u \in {v \in Upstream : v.did = "image" => type = "gemini"}}

-----------------------------------------------------------------------------
(* classify_error.                                                          *)

\* Two words that count only when the status names no class of its own.
Loose(status, body) == status = 402 \/ "loose quota" \in body

\* Mutant of ByStatus: payment and throttling are mixed up.
ByStatusMixedUp(status, body) ==
    CASE status \in {401, 403} -> "auth"
      [] status = 404 -> "model_not_found"
      [] status = 429 \/ "loose quota" \in body -> "quota"
      [] OTHER -> IF status = NoStatus THEN "network"
                  ELSE IF status >= 500 THEN "server" ELSE "unknown"

\* Mutant of ByStatus: nothing is said of failures without a status.
ByStatusNoDefault(status, body) ==
    CASE status \in {401, 403} -> "auth"
      [] status = 404 -> "model_not_found"
      [] status = 429 -> "rate_limit"
      [] OTHER -> IF Loose(status, body) THEN "quota"
                  ELSE IF status >= 500 THEN "server" ELSE "unknown"

\* A body without a family: the status decides, but for two loose words.
ByStatus(status, body) ==
    CASE status \in {401, 403} -> "auth"
      [] status = 404 -> "model_not_found"
      [] status = 429 -> "rate_limit"
      [] OTHER -> IF Loose(status, body) THEN "quota"
                  ELSE IF status = NoStatus THEN "network"
                  ELSE IF status >= 500 THEN "server" ELSE "unknown"

\* The places in the precedence whose families are found in a body.
Found(body) == {n \in 1..6 : Precedence[n] \in body}

\* The family that is looked for first decides.
ClassifyError(status, body) ==
    IF Found(body) # {}
    THEN Precedence[CHOOSE n \in Found(body) : \A other \in Found(body) : n <= other]
    ELSE ByStatus(status, body)

\* _candidate_failure: anything but the two error types counts as a server failure.
CandidateFailure(failure) ==
    IF failure.kind = "other" THEN "server" ELSE ClassifyError(failure.status, failure.body)

-----------------------------------------------------------------------------
(* What a failure says, whatever the order in which it is looked at.        *)

SaysBadKey(failure)    == failure.status \in {401, 403} \/ "auth" \in failure.body
SaysExhausted(failure) == failure.status = 402 \/ failure.body \cap {"quota", "loose quota"} # {}
SaysNoModel(failure)   == failure.status = 404 \/ "model_not_found" \in failure.body
SaysThrottled(failure) == failure.status = 429 \/ "rate_limit" \in failure.body

\* What may be said of candidate c that would be lasting.
BadKey(c)      == <<"bad key", c.provider, c.key>>
Exhausted(c)   == <<"exhausted", c.provider, c.key>>
NoSuchModel(c) == <<"no model", c.provider, c.model>>

\* What a failure of candidate c says of it.
Statements(c, failure) ==
    {said \in {BadKey(c), Exhausted(c), NoSuchModel(c)} :
        \/ said = BadKey(c) /\ SaysBadKey(failure)
        \/ said = Exhausted(c) /\ SaysExhausted(failure)
        \/ said = NoSuchModel(c) /\ SaysNoModel(failure)}

-----------------------------------------------------------------------------
(* Steps.                                                                   *)

Init ==
    /\ adapter \in [Providers -> AdapterType]
    /\ store = EmptyStore
    /\ told = {}

\* The store after candidate c has failed.
After(c, failure) == ApplyFailure(store, c, CandidateFailure(failure))

\* An attempt on an eligible candidate fails.
Fail(i) ==
    /\ Eligible(store, Route[i])
    /\ \E failure \in FailuresOf(Route[i]) :
          /\ store' = After(Route[i], failure)
          /\ told' = told \cup Statements(Route[i], failure)
    /\ UNCHANGED adapter

\* An attempt on an eligible candidate succeeds.
Succeed(i) ==
    /\ Eligible(store, Route[i])
    /\ store' = ApplySuccess(store, Route[i])
    /\ UNCHANGED <<adapter, told>>

Tick ==
    /\ store' = Age(store)
    /\ UNCHANGED <<adapter, told>>

Next ==
    \/ \E i \in DOMAIN Route : Fail(i) \/ Succeed(i)
    \/ Tick

Spec == Init /\ [][Next]_vars

-----------------------------------------------------------------------------
(* Properties.                                                              *)

\* The types of the variables.
TypeOK ==
    /\ adapter \in [Providers -> AdapterType]
    /\ store \in Store
    /\ told \subseteq ({"bad key", "exhausted"} \X Providers \X Keys)
                        \cup ({"no model"} \X Providers \X Models)

\* Nothing is lost for good by guesswork: a candidate that no cooldown will bring
\* back is out because a failure of a call with its own key or its own model said
\* that the key is bad or exhausted, or the model unknown: an error response in its
\* status or body, or the text of a transport failure, whoever it came from.
\* Throttling, a failing server and a connection that just breaks never do that,
\* in whatever order they come.
OutForGoodWasTold ==
    \A i \in DOMAIN Route : ~Usable(store, Route[i]) =>
       {BadKey(Route[i]), Exhausted(Route[i]), NoSuchModel(Route[i])} \cap told # {}

\* error_classifier.py:4: throttling and exhaustion are told apart.  Whatever has
\* happened before, a failure that says throttled (429, or in words), and not in
\* words that a quota is used up, leaves the quota of the key as a whole alone;
\* one that says that in words marks the key EXHAUSTED, unless its words point at
\* the request, the key or the model, which take precedence.
ThrottledIsNotExhausted ==
    \A i \in DOMAIN Route : \A f \in FailuresOf(Route[i]) :
       LET key == <<Route[i].provider, Route[i].key, NoModel>> IN
       (Eligible(store, Route[i]) /\ f.body \cap {"token_limit", "auth", "model_not_found"} = {}) =>
          /\ "quota" \in f.body => After(Route[i], f).quota[key].state = "EXHAUSTED"
          /\ (SaysThrottled(f) /\ "quota" \notin f.body)
                => /\ After(Route[i], f).quota[key] = store.quota[key]
                   /\ Usable(After(Route[i], f), Route[i])

\* A failure of candidate c is put down to its provider: that goes into a cooldown,
\* and no candidate of the route loses more.
PutDownToProvider(c, f) ==
    LET after == After(c, f) IN
    /\ after.health[<<c.provider, NoModel>>].state = "DEGRADED"
    /\ after.health[<<c.provider, NoModel>>].left > 0
    /\ after.quota = store.quota /\ after.credential = store.credential
    /\ \A j \in DOMAIN Route : Usable(store, Route[j]) => Usable(after, Route[j])

\* Where no error response came back and the text names at most the network, nobody
\* said anything of a key or a model: a broken connection, a mangled answer or an
\* image for Gemini is put down to the provider, for a time.  Whatever has happened
\* before, it leaves every credential, quota and model row alone.
SilenceIsNotBlamed ==
    \A i \in DOMAIN Route : \A f \in FailuresOf(Route[i]) :
       (Eligible(store, Route[i]) /\ f.status = NoStatus /\ f.body \subseteq {"network"})
          => PutDownToProvider(Route[i], f)

=============================================================================
