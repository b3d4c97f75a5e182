------------------------------- MODULE Routing -------------------------------
(***************************************************************************)
(* What the router and the fallback engine decide from a store: the        *)
(* capability gate, the scorer's usability and order, eligibility, and the *)
(* state written after each outcome of an attempt                          *)
(* (gateway/routing/{capability_gate,scorer,fallback}.py and               *)
(* gateway/policy/retry_policy.py).  Constant-level, like StateStore.      *)
(***************************************************************************)
EXTENDS StateStore, Sequences

CONSTANTS
    Capabilities,        \* what a candidate may offer and a request may need
    RateLimitCooldown,   \* rate_limit_cooldown_seconds, in ticks
    NetworkCooldown,     \* network_cooldown_seconds, in ticks
    ServerCooldown,      \* server_cooldown_seconds, in ticks
    RetryLimit,          \* per_candidate_retry_limit
    RouteCandidateLimit, \* route_candidate_limit; 0 stands for None
    HardCeiling          \* hard_attempt_ceiling

ASSUME PolicyAssumption ==
    /\ RateLimitCooldown \in Nat
    /\ NetworkCooldown \in Nat
    /\ ServerCooldown \in Nat
    /\ RetryLimit \in Nat
    /\ RouteCandidateLimit \in Nat
    /\ HardCeiling \in Nat

ErrorClass == {"auth", "token_limit", "rate_limit", "quota",
               "model_not_found", "network", "server", "unknown"}

\* A route candidate; the key of a CLI executor's candidate is NoKey.
Candidate == [provider : Providers,
              key      : Keys \cup {NoKey},
              model    : Models,
              reserve  : BOOLEAN,
              caps     : SUBSET Capabilities]

\* capability_gate: the positions of a route that cover what is needed.
Gate(route, need) == {i \in DOMAIN route : need \subseteq route[i].caps}

-----------------------------------------------------------------------------
(* Reading the store for one candidate.                                     *)

\* Scorer: no dimension scores below zero.  Cooldowns do not count here.
Usable(st, c) ==
    /\ GetHealth(st, c.provider, c.model) # "DOWN"
    /\ GetQuota(st, c.provider, c.key, c.model) # "EXHAUSTED"
    /\ GetCredential(st, c.provider, c.key) \notin {"DISABLED", "AUTH_ERROR"}

\* Mutant of Eligible: the engine trusts the scorer, which knows no cooldowns.
EligibleAsScored(st, c) == Usable(st, c)

\* Engine: the same three dimensions, and no cooldown still running.
Eligible(st, c) ==
    /\ Usable(st, c)
    /\ GetCooldown(st, c.provider, c.key, c.model) = 0

\* Mutant of Precedes: the reserve flag plays no part in the order.
PrecedesInRoute(route, i, j) == i < j

\* Scorer's order: regular before reserve, then the configured order.
Precedes(route, i, j) ==
    \/ ~route[i].reserve /\ route[j].reserve
    \/ route[i].reserve = route[j].reserve /\ i < j

-----------------------------------------------------------------------------
(* Writing the store after an attempt on candidate c.                       *)

ApplyFailure(st, c, class) ==
    CASE class = "auth" ->
            SetCredential(st, c.provider, c.key, "AUTH_ERROR")
      [] class = "quota" ->
            SetQuota(st, c.provider, c.key, NoModel, "EXHAUSTED", 0)
      [] class = "rate_limit" ->
            SetQuota(st, c.provider, c.key, c.model, "RATE_LIMITED", RateLimitCooldown)
      [] class = "model_not_found" ->
            SetHealth(st, c.provider, c.model, "DOWN", 0)
      [] class = "network" ->
            SetHealth(st, c.provider, NoModel, "DEGRADED", NetworkCooldown)
      [] class = "server" ->
            SetHealth(st, c.provider, NoModel, "DEGRADED", ServerCooldown)
      [] OTHER -> st

ApplySuccess(st, c) == SetHealth(st, c.provider, c.model, "HEALTHY", 0)

\* Mutant of RetriesSame: off by one.
RetriesOnceMore(class, retries) == class = "token_limit" /\ retries <= RetryLimit

\* next_action: only token_limit retries, and only under the limit.
RetriesSame(class, retries) == class = "token_limit" /\ retries < RetryLimit

=============================================================================
