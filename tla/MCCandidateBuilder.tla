-------------------------- MODULE MCCandidateBuilder --------------------------
(***************************************************************************)
(* Configurations for CandidateBuilder: the shape of gateway.yaml with two *)
(* routes, and the mistakes that _validate is there for.                   *)
(***************************************************************************)
EXTENDS CandidateBuilder

TextStream  == {"text", "stream"}
SomeKeys    == {"a1", "a2", "a3", "g1", "g2", "g3", "g4"}
SomeModels  == {"flash", "pro", "vision", "codex", "ghost", ""}
SomeIds     == {"main", "pool", "codex", "ghost"}

Key(id, priority, reserve) == [id |-> id, priority |-> priority, reserve |-> reserve]
Model(id, default)         == [id |-> id, default |-> default, caps |-> TextStream]
Step(p, m)                 == [provider |-> p, model |-> m]

Api(models, keys) == [type |-> Unset, enabled |-> Unset, url |-> TRUE, models |-> models,
                      keys |-> keys, strategy |-> Unset]

\* The main provider: a reserve key in the middle of the order.
Main == Api(<<Model("flash", FALSE), Model("pro", TRUE)>>,
            <<Key("a1", 50, Unset), Key("a2", Unset, TRUE), Key("a3", 100, Unset)>>)

\* A pool that rotates, without and with a reserve key.
Pool == [Api(<<Model("vision", Unset)>>,
             <<Key("g1", 100, Unset), Key("g2", 90, Unset), Key("g3", 80, Unset)>>)
         EXCEPT !.strategy = "round_robin"]
PoolWithReserve == [Pool EXCEPT !.keys = Append(@, Key("g4", 60, TRUE))]

Codex == [Api(<<Model("codex", Unset)>>, <<>>) EXCEPT !.type = "executor", !.url = FALSE]

Base == [routes    |-> [deep |-> <<Step("main", "flash"), Step("codex", NoModel)>>,
                        eyes |-> <<Step("pool", NoModel), Step("main", "pro")>>],
         providers |-> [main |-> Main, pool |-> Pool, codex |-> Codex],
         codex     |-> TRUE]

Reserved  == [Base EXCEPT !.providers.pool = PoolWithReserve]
SleepyCli == [Base EXCEPT !.providers.codex.enabled = FALSE]
TwoPools  == [Base EXCEPT !.providers.main.strategy = "round_robin"]
Modelless == [Base EXCEPT !.providers.pool.models = <<>>]

\* A step that leaves its model blank, alone on its route and beside another.
BlankModel  == [Base EXCEPT !.routes.deep = <<Step("main", "")>>]
BlankModels == [Base EXCEPT !.routes.deep = <<Step("main", ""), Step("codex", "codex")>>,
                            !.routes.eyes = <<Step("pool", ""), Step("main", "pro")>>]

Mistakes == {
    [Base EXCEPT !.routes.deep = <<>>],
    [Base EXCEPT !.routes.deep = <<Step("ghost", NoModel)>>],
    [Base EXCEPT !.routes.deep = <<Step("main", "ghost")>>],
    [Base EXCEPT !.providers.pool.keys = <<>>],
    [Base EXCEPT !.providers.main.url = FALSE],
    [Base EXCEPT !.providers.main.enabled = FALSE],
    [Base EXCEPT !.codex = FALSE]}

AllFiles     == {Base, Reserved, SleepyCli, TwoPools, Modelless, BlankModel, BlankModels} \cup Mistakes
RoutesOfBase == {"deep", "eyes"}
ProbedMatrix == <<"main", "pro">> :> {"text"}

\* Two pools of two keys that both rotate, one behind the other on a route.
EvenPools == [TwoPools EXCEPT !.providers.main.keys = <<Key("a1", Unset, Unset), Key("a2", Unset, Unset)>>,
                              !.providers.pool.keys = <<Key("g1", Unset, Unset), Key("g2", Unset, Unset)>>]
EvenFile  == {EvenPools}
=============================================================================
