------------------------------ MODULE MCGateway ------------------------------
(***************************************************************************)
(* An instance of Gateway for TLC: one plain request and one stream over   *)
(* two keys of one provider.                                               *)
(***************************************************************************)
EXTENDS Gateway

CONSTANTS p1, k1, k2, m1, s1, s2

OneProvider == {p1}
TwoKeys     == {k1, k2}
OneModel    == {m1}
OneChat     == {s1}
OneStream   == {s2}
TextStream  == {"text", "stream"}

Api(k, m) == [provider |-> p1, key |-> k, model |-> m, reserve |-> FALSE, caps |-> TextStream]

PairRoutes == {<<Api(k1, m1), Api(k2, m1)>>}

TextOnly == {{"text"}}

ChatOutcomes  == {"success", "quota", "breach"}
StreamClasses == {"rate_limit", "model_not_found"}
None          == {}
=============================================================================
