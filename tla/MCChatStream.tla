----------------------------- MODULE MCChatStream -----------------------------
(***************************************************************************)
(* Instances of ChatStream for TLC: model values, candidate lists and      *)
(* error sets that the configurations pick from.                           *)
(***************************************************************************)
EXTENDS StreamClaims

CONSTANTS p1, p2, k1, k2, k3, m1, s1

TwoProviders == {p1, p2}
SecondOnly   == {p2}
TwoKeys      == {k1, k2}
ThreeKeys    == {k1, k2, k3}
AllButReserve == {k1, k3}
OneModel     == {m1}
OneSlot      == {s1}

TextStream      == {"text", "stream"}
TextStreamTools == {"text", "stream", "tools"}

Api(p, k)     == [provider |-> p, key |-> k, model |-> m1, reserve |-> FALSE, caps |-> TextStream]
Reserve(p, k) == [Api(p, k) EXCEPT !.reserve = TRUE]

\* A reserve key in front of another provider, which some instances let answer
\* in completed messages.
ReserveRoutes == {<<Api(p1, k1), Reserve(p1, k2), Api(p2, k3)>>}

\* The same with the other provider in front.
ReverseRoutes == {<<Api(p2, k3), Api(p1, k1)>>}

TextOnly    == {{"text"}}
TextOrTools == {{"text"}, {"text", "tools"}}

RelayErrors == {"server", "rate_limit", "auth"}
None        == {}
=============================================================================
