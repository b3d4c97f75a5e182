--------------------------- MODULE MCCodexExecutor ---------------------------
(***************************************************************************)
(* An instance of CodexExecutor for TLC: the executor's one candidate.     *)
(***************************************************************************)
EXTENDS CodexExecutor

CONSTANTS x1, m1, s1, s2

OneProvider == {x1}
NoKeys      == {}
OneModel    == {m1}
TwoSlots    == {s1, s2}
TextOnly    == {"text"}
Codex       == [provider |-> x1, key |-> NoKey, model |-> m1, reserve |-> FALSE, caps |-> TextOnly]
=============================================================================
