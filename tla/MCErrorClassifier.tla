-------------------------- MODULE MCErrorClassifier --------------------------
(***************************************************************************)
(* An instance of ErrorClassifier for TLC: one provider, two candidates    *)
(* that share neither key nor model; a status for every branch.            *)
(***************************************************************************)
EXTENDS ErrorClassifier

CONSTANTS p1, k1, k2, m1, m2

OneProvider == {p1}
TwoKeys     == {k1, k2}
TwoModels   == {m1, m2}
TextOnly    == {"text"}

Api(k, m) == [provider |-> p1, key |-> k, model |-> m, reserve |-> FALSE, caps |-> TextOnly]

KeysAndModels == <<Api(k1, m1), Api(k2, m2)>>

EveryBranch == {400, 402, 403, 404, 429, 503}

\* No family, each by itself, and the pairs whose order decides between a mark
\* that lasts and a cooldown.
DecidingBodies ==
    {{}} \cup {{signal} : signal \in Signals}
       \cup {{"quota", "rate_limit"}, {"loose quota", "rate_limit"}, {"auth", "quota"}, {"model_not_found", "network"}}
=============================================================================
