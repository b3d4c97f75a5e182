--------------------------- MODULE CandidateBuilder ---------------------------
(***************************************************************************)
(* From gateway.yaml to the candidates of one request: the configuration   *)
(* with its defaults, its validation and the capability matrix             *)
(* (gateway/config/{schema,loader}.py), enumeration and the rotation of    *)
(* key pools (gateway/routing/candidate_builder.py).  The configuration is *)
(* read once; the one thing that changes from request to request is the    *)
(* rotation counter, one for the whole process.                            *)
(***************************************************************************)
EXTENDS SequencesExt

CONSTANTS
    VirtualModels,  \* route names
    ProviderIds,    \* provider ids, those of no provider included
    KeyIds,         \* credential ids
    ModelIds,       \* concrete model ids, the blank one and those of no model included
    Capabilities,   \* what models may be declared capable of
    Files,          \* what gateway.yaml may say
    Matrix,         \* the conformance matrix: <<provider, model>> to capabilities
    Unset,          \* an entry that gateway.yaml leaves out
    NoModel,        \* a step without a model, or an unresolved one
    Blank,          \* the empty string, where a step names its model
    NoKey,          \* the missing credential of an executor
    CounterPeriod,  \* the counter is kept modulo this multiple of all pool sizes
    Window          \* how many builds of each route the history keeps

-----------------------------------------------------------------------------
(* The configuration.                                                       *)

KeyConfig == [id : KeyIds, priority : Nat, reserve : BOOLEAN]

ModelConfig == [id : ModelIds, default : BOOLEAN, caps : SUBSET Capabilities]

\* url: whether base_url is set.
ProviderConfig == [type     : {"api", "executor"},
                   url      : BOOLEAN,
                   models   : Seq(ModelConfig),
                   keys     : Seq(KeyConfig),
                   enabled  : BOOLEAN,
                   strategy : {"priority", "round_robin"}]

RouteStep == [provider : ProviderIds, model : ModelIds \cup {NoModel}]

\* codex: codex_enabled.
IsGatewayConfig(c) ==
    /\ DOMAIN c = {"routes", "providers", "codex"}
    /\ DOMAIN c.routes \subseteq VirtualModels
    /\ \A v \in DOMAIN c.routes : c.routes[v] \in Seq(RouteStep)
    /\ DOMAIN c.providers \subseteq ProviderIds
    /\ \A p \in DOMAIN c.providers : c.providers[p] \in ProviderConfig
    /\ c.codex \in BOOLEAN

Or(entry, default) == IF entry = Unset THEN default ELSE entry

\* _provider: entries left out get their defaults.  The first model is the default
\* one unless it says that it is not, whatever later models say.
WithDefaults(raw) ==
    [raw EXCEPT
        !.type     = Or(@, "api"),
        !.enabled  = Or(@, TRUE),
        !.strategy = Or(@, "priority"),
        !.models   = [i \in DOMAIN @ |-> [@[i] EXCEPT !.default = Or(@, i = 1)]],
        !.keys     = [i \in DOMAIN @ |-> [@[i] EXCEPT !.priority = Or(@, 100), !.reserve = Or(@, FALSE)]]]

\* gateway_config_from_dict.
ConfigOf(file) ==
    [file EXCEPT !.providers = [p \in DOMAIN @ |-> WithDefaults(@[p])]]

\* The size of each pool divides a number.
PoolsDivide(number, c) ==
    \A p \in DOMAIN c.providers :
       c.providers[p].keys # <<>> => number % Len(c.providers[p].keys) = 0

ASSUME BuilderAssumption ==
    /\ NoModel \notin ModelIds /\ Blank \in ModelIds
    /\ NoKey \notin KeyIds
    /\ \A file \in Files : IsGatewayConfig(ConfigOf(file))
    /\ \A scope \in DOMAIN Matrix : Matrix[scope] \subseteq Capabilities
    /\ CounterPeriod \in Nat \ {0}
    /\ Window \in Nat
    /\ \A file \in Files : PoolsDivide(CounterPeriod, ConfigOf(file))

VARIABLES
    phase,    \* "starting", "serving", or "rejected" by _validate
    declared, \* what gateway.yaml says, with the defaults of what it leaves out
    config,   \* the configuration in force
    counter,  \* _RR_COUNTER
    built,    \* the last result of build_candidates, and for which route
    leaders   \* history: the first regular key of each route's last builds

vars == <<phase, declared, config, counter, built, leaders>>

-----------------------------------------------------------------------------
(* Validation and the matrix.                                               *)

IsExecutor(conf) == conf.type = "executor"

\* ProviderConfig.model: the named model; without a name the first that is
\* marked default, or else the first.  NoModel when there is none.
ModelOf(conf, name) ==
    LET models    == conf.models
        preferred == {i \in DOMAIN models : models[i].default}
        matching  == IF name # NoModel THEN {i \in DOMAIN models : models[i].id = name}
                     ELSE IF preferred # {} THEN preferred
                     ELSE DOMAIN models
    IN  IF matching = {} THEN [id |-> NoModel, default |-> FALSE, caps |-> {}]
        ELSE models[Min(matching)]

\* Mutant of ValidStep: an empty key pool is let through.
ValidStepWithoutKeys(c, step) ==
    /\ step.provider \in DOMAIN c.providers
    /\ LET conf == c.providers[step.provider] IN
       IF IsExecutor(conf) THEN c.codex
       ELSE /\ conf.enabled /\ conf.url
            /\ step.model \notin {NoModel, Blank} => ModelOf(conf, step.model).id # NoModel

\* A blank name is not looked up here (loader.py:101 asks whether there is one), but
\* is by ProviderConfig.model, which takes None alone for no name.
ValidStep(c, step) ==
    /\ step.provider \in DOMAIN c.providers
    /\ LET conf == c.providers[step.provider] IN
       /\ IF IsExecutor(conf) THEN c.codex
          ELSE conf.enabled /\ conf.url /\ conf.keys # <<>>
       /\ step.model \notin {NoModel, Blank} => ModelOf(conf, step.model).id # NoModel

Valid(c) ==
    \A v \in DOMAIN c.routes :
       /\ c.routes[v] # <<>>
       /\ \A k \in DOMAIN c.routes[v] : ValidStep(c, c.routes[v][k])

\* The capabilities of listed models are replaced.  The provider is built anew
\* without its key_pool_strategy, which so is "priority".
ProviderWithMatrix(p, conf) ==
    LET WithCaps(model) ==
           IF <<p, model.id>> \in DOMAIN Matrix THEN [model EXCEPT !.caps = Matrix[<<p, model.id>>]]
           ELSE model
    IN  [conf EXCEPT !.strategy = "priority",
                     !.models   = [i \in DOMAIN @ |-> WithCaps(@[i])]]

\* apply_capability_matrix.
WithMatrix(c) ==
    [c EXCEPT !.providers = [p \in DOMAIN @ |-> ProviderWithMatrix(p, @[p])]]

-----------------------------------------------------------------------------
(* Enumeration.                                                             *)

\* _order_keys sorts by (-priority, reserve), and the sort is stable.
Outranks(keys, i, j) ==
    \/ keys[i].priority > keys[j].priority
    \/ /\ keys[i].priority = keys[j].priority
       /\ \/ ~keys[i].reserve /\ keys[j].reserve
          \/ keys[i].reserve = keys[j].reserve /\ i < j

Ranked(keys) ==
    [n \in DOMAIN keys |->
        keys[CHOOSE i \in DOMAIN keys :
                Cardinality({j \in DOMAIN keys : Outranks(keys, j, i)}) = n - 1]]

\* Mutant of Rotated: the part moved to the end is cut one key short.
RotatedShort(keys, offset) ==
    LET shift == offset % Len(keys)
    IN  SubSeq(keys, shift + 1, Len(keys)) \o SubSeq(keys, 1, shift - 1)

Rotated(keys, offset) ==
    [n \in DOMAIN keys |-> keys[((n - 1 + offset) % Len(keys)) + 1]]

\* Mutant of OrderKeys: the modulus is one short.
OrderKeysModuloLess(conf, count) ==
    IF conf.strategy = "round_robin" /\ Len(conf.keys) > 1
    THEN Rotated(Ranked(conf.keys), count % (Len(conf.keys) - 1))
    ELSE Ranked(conf.keys)

OrderKeys(conf, count) ==
    IF conf.strategy = "round_robin"
    THEN Rotated(Ranked(conf.keys), count)
    ELSE Ranked(conf.keys)

\* A step that build_candidates does not skip.
Resolves(step) ==
    /\ step.provider \in DOMAIN config.providers
    /\ LET conf == config.providers[step.provider] IN
       /\ conf.enabled
       /\ IsExecutor(conf) => config.codex
       /\ ModelOf(conf, step.model).id # NoModel

\* A step that moves the counter on.
Rotates(step) ==
    /\ Resolves(step)
    /\ ~IsExecutor(config.providers[step.provider])
    /\ config.providers[step.provider].strategy = "round_robin"

CandidateOf(step, key, reserve) ==
    LET model == ModelOf(config.providers[step.provider], step.model) IN
    [provider |-> step.provider, key |-> key, model |-> model.id,
     reserve |-> reserve, caps |-> model.caps]

CandidatesOf(step, count) ==
    IF ~Resolves(step) THEN <<>>
    ELSE IF IsExecutor(config.providers[step.provider])
    THEN <<CandidateOf(step, NoKey, FALSE)>>
    ELSE LET keys == OrderKeys(config.providers[step.provider], count)
         IN  [n \in DOMAIN keys |-> CandidateOf(step, keys[n].id, keys[n].reserve)]

\* Steps of a route up to the k-th that have moved the counter.
Turns(steps, k) == Cardinality({j \in 1..k : Rotates(steps[j])})

BuildCandidates(steps) ==
    FlattenSeq([k \in DOMAIN steps |-> CandidatesOf(steps[k], counter + Turns(steps, k))])

-----------------------------------------------------------------------------
(* Steps.                                                                   *)

NotBuilt == [route |-> "none", candidates |-> <<>>]

Init ==
    /\ phase = "starting"
    /\ declared \in {ConfigOf(file) : file \in Files}
    /\ config = declared
    /\ counter = 0
    /\ built = NotBuilt
    /\ leaders = [v \in VirtualModels |-> <<>>]

\* Mutant of Load: what _validate raises is logged and passed over.
LoadAnyway ==
    /\ phase = "starting"
    /\ phase' = "serving"
    /\ config' \in {declared, WithMatrix(declared)}
    /\ UNCHANGED <<declared, counter, built, leaders>>

\* load_gateway_config, then the matrix when there is a path to one.
Load ==
    /\ phase = "starting"
    /\ \/ /\ ~Valid(declared)
          /\ phase' = "rejected"
          /\ config' = declared
       \/ /\ Valid(declared)
          /\ phase' = "serving"
          /\ config' \in {declared, WithMatrix(declared)}
    /\ UNCHANGED <<declared, counter, built, leaders>>

\* The key of the first candidate that is not in reserve: the scorer keeps the
\* order of the others, so this is the one a request attempts first.
Leader(candidates) ==
    LET regular == {i \in DOMAIN candidates : ~candidates[i].reserve} IN
    IF regular = {} THEN NoKey ELSE candidates[Min(regular)].key

LastOf(seq, n) == SubSeq(seq, IF Len(seq) > n THEN Len(seq) - n + 1 ELSE 1, Len(seq))

\* One request for virtual model v.
Build(v) ==
    /\ phase = "serving"
    /\ v \in DOMAIN config.routes
    /\ LET steps      == config.routes[v]
           candidates == BuildCandidates(steps)
       IN  /\ built' = [route |-> v, candidates |-> candidates]
           /\ counter' = (counter + Turns(steps, Len(steps))) % CounterPeriod
           /\ leaders' = [leaders EXCEPT ![v] = LastOf(Append(@, Leader(candidates)), Window)]
    /\ UNCHANGED <<phase, declared, config>>

\* The process is started again, with a configuration that may be another.
Restart ==
    /\ phase \in {"serving", "rejected"}
    /\ phase' = "starting"
    /\ declared' \in {ConfigOf(file) : file \in Files}
    /\ config' = declared'
    /\ counter' = 0
    /\ built' = NotBuilt
    /\ leaders' = [v \in VirtualModels |-> <<>>]

Next ==
    \/ Load
    \/ \E v \in VirtualModels : Build(v)
    \/ Restart

Spec == Init /\ [][Next]_vars

-----------------------------------------------------------------------------
(* Properties.                                                              *)

\* The types of the variables; a configuration in force is a valid one.
TypeOK ==
    /\ phase \in {"starting", "serving", "rejected"}
    /\ counter \in 0..(CounterPeriod - 1)
    /\ IsGatewayConfig(declared) /\ IsGatewayConfig(config)
    /\ phase = "serving" => Valid(config)
    /\ built.route \in VirtualModels \cup {"none"}
    /\ \A v \in VirtualModels : Len(leaders[v]) <= Window

\* Positions of the list last built that belong to provider p.
PositionsOf(p) == {n \in DOMAIN built.candidates : built.candidates[n].provider = p}

\* The whole pool: whatever the counter says, each key of each provider that the
\* route names is in the list as often as the route names the provider - and twice
\* as often if the pool lists it twice, which nothing forbids.
PoolComplete ==
    built.route # "none" =>
       \A p \in {q \in DOMAIN config.providers : ~IsExecutor(config.providers[q])} :
          LET steps == {k \in DOMAIN config.routes[built.route] :
                          /\ config.routes[built.route][k].provider = p
                          /\ Resolves(config.routes[built.route][k])}
              keys  == config.providers[p].keys
          IN  \A i \in DOMAIN keys :
                 Cardinality({n \in PositionsOf(p) : built.candidates[n].key = keys[i].id})
                    = Cardinality(steps) * Cardinality({j \in DOMAIN keys : keys[j].id = keys[i].id})

\* A route that passed validation serves: every step contributes a candidate, but
\* that of a disabled executor, of a provider without models, or with a blank model.
ValidatedServes ==
    built.route # "none" =>
       \A k \in DOMAIN config.routes[built.route] :
          LET step == config.routes[built.route][k]
              conf == config.providers[step.provider]
          IN  (conf.enabled /\ conf.models # <<>> /\ step.model # Blank)
                 => PositionsOf(step.provider) # {}

\* The pool of route v's first step in configuration c, as a set of regular keys.
RegularKeys(c, v) ==
    LET keys == c.providers[c.routes[v][1].provider].keys
    IN  {keys[i].id : i \in {j \in DOMAIN keys : ~keys[j].reserve}}

\* The first step of route v has a pool that rotates in configuration c.
Rotating(c, v) ==
    LET conf == c.providers[c.routes[v][1].provider] IN
    /\ ~IsExecutor(conf) /\ conf.strategy = "round_robin"
    /\ conf.models # <<>> /\ c.routes[v][1].model # Blank

\* No step but the first of route v moves the counter in configuration c.
TurnsAlone(c, v) ==
    \A w \in DOMAIN c.routes : \A k \in DOMAIN c.routes[w] :
       c.providers[c.routes[w][k].provider].strategy = "round_robin" => w = v /\ k = 1

\* The rotation of route v's first pool in c has come round: among as many builds
\* in a row as it has keys, each regular key was the first to be attempted.
ComesRound(c, v) ==
    LET conf == c.providers[c.routes[v][1].provider]
        last == LastOf(leaders[v], Len(conf.keys))
    IN  (/\ phase = "serving"
         /\ Rotating(c, v) /\ TurnsAlone(c, v)
         /\ Len(last) = Len(conf.keys))
           => RegularKeys(c, v) \subseteq {last[n] : n \in DOMAIN last}

\* A pool that rotates lets every regular key lead, in every stretch of requests,
\* also across the wrap of the counter and past the keys in reserve.
EveryKeyLeads == \A v \in DOMAIN config.routes : ComesRound(config, v)

\* candidate_builder.py:91-93 and gateway.yaml:89: a pool declared round_robin gives
\* every key "a fair share of requests", whatever else is configured: of twice as many
\* requests in a row as it has keys, each regular key was the first choice of one.
KeysShareFairly ==
    \A v \in DOMAIN declared.routes :
       LET keys == declared.providers[declared.routes[v][1].provider].keys IN
       (phase = "serving" /\ Rotating(declared, v) /\ Len(leaders[v]) >= 2 * Len(keys))
          => RegularKeys(declared, v) \subseteq {leaders[v][n] : n \in DOMAIN leaders[v]}

=============================================================================
