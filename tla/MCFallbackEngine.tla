--------------------------- MODULE MCFallbackEngine ---------------------------
(***************************************************************************)
(* Instances of FallbackEngine for TLC: model values, candidate lists and  *)
(* outcome sets that the configurations pick from.                         *)
(***************************************************************************)
EXTENDS EngineClaims

CONSTANTS p1, p2, k1, k2, m1, m2, s1, s2

TwoProviders == {p1, p2}
TwoKeys      == {k1, k2}
OneModel     == {m1}
TwoModels    == {m1, m2}
OneSlot      == {s1}
TwoSlots     == {s1, s2}

Api(p, k, m)     == [provider |-> p, key |-> k, model |-> m, reserve |-> FALSE, caps |-> {"text"}]
Reserve(p, k, m) == [Api(p, k, m) EXCEPT !.reserve = TRUE]
Cli(p, m)        == Api(p, NoKey, m)

\* A provider with a reserve key in front of the CLI executor.
ReserveRoutes == {<<Api(p1, k1, m1), Reserve(p1, k2, m1), Cli(p2, m1)>>}

\* Two keys of one provider.
PairRoutes == {<<Api(p1, k1, m1), Api(p1, k2, m1)>>}

\* One key that serves two models, and a spare behind it.
SharedKeyRoutes ==
    {<<Api(p1, k1, m1), Api(p1, k2, m2)>>,
     <<Api(p1, k1, m2), Api(p1, k2, m2)>>}

TextOrTools  == {{"text"}, {"text", "tools"}}
TextTools    == {"text", "tools"}

FailoverOutcomes == {"success", "token_limit", "rate_limit", "quota",
                     "model_not_found", "server", "committed", "breach"}
OverlapOutcomes  == {"success", "rate_limit", "server"}
ExecOutcomes     == {"success", "network", "server", "breach"}
ClaimOutcomes    == {"success", "server"}
NoOutcomes       == {}
=============================================================================
