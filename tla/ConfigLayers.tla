---------------------------- MODULE ConfigLayers ----------------------------
(***************************************************************************)
(* How one configuration is made of several files                          *)
(* (internal/app/config: LoadWithOptions, applyYAMLDataWithOptions,        *)
(* finalizeConfigLoad, ModelChain): the layers are the default Home, the   *)
(* instance Home, the Workspace, the Agent and an explicit --config file,  *)
(* each with its imports, above them the .env file and the inherited       *)
(* environment.  While a load runs another process may register the Agent  *)
(* the load meant to create.                                               *)
(***************************************************************************)
EXTENDS Naturals, Sequences, FiniteSets, SequencesExt

CONSTANTS
    LayerFiles,        \* the files a layer may be
    Overlays,          \* the files an Agent overlay may be
    Dotenvs,           \* what the Workspace's .env may define
    InheritedEnvs,     \* the environments the process may be started with
    Overrides,         \* the model chains --models may name, <<>> for none
    Installed,         \* the shells that are installed
    None               \* a value that is not set

VARIABLES
    cfg,               \* the Config under construction
    loadStep,                \* the next thing the load does
    layers,            \* the layers applied so far (ghost)
    agent,             \* the registered Agent's overlay, or None
    given,             \* what the process was started with: explicit, models, environment
    loaded             \* the finished configuration

clvars == <<cfg, loadStep, layers, agent, given, loaded>>

Scopes == <<"default", "instance", "workspace", "agent", "explicit">>

(* fileConfig with nothing set.                                            *)
BlankFile == [models |-> None, providers |-> <<>>, env |-> None, dotenv |-> None, hooks |-> <<>>, blocked |-> <<>>,
              allow |-> None, fleet |-> None, preset |-> None, modules |-> <<>>, shell |-> None,
              bad |-> FALSE, imports |-> <<>>]

(* The Config loadUserConfigForWorkDir starts from.                        *)
Defaults == [models |-> <<>>, providers |-> <<>>, envLayers |-> <<>>, dotenv |-> TRUE, decls |-> <<>>, blocked |-> <<>>,
             allow |-> None, fleet |-> "default", preset |-> "standard", modules |-> <<>>, shell |-> "auto"]

-----------------------------------------------------------------------------
(* One document: applyYAMLDataWithOptions *)

Set(old, new) == IF new = None THEN old ELSE new
Overlay(base, over) == [k \in DOMAIN base \cup DOMAIN over |-> IF k \in DOMAIN over THEN over[k] ELSE base[k]]

(* mergeStringMap: an empty value deletes the key.                         *)
MergeStringMap(base, over) ==
    LET all == Overlay(base, over) IN [k \in {x \in DOMAIN all : all[x] # ""} |-> all[k]]

(* mergeProviderModelConfigs: a known model is amended in place, a new one *)
(* goes to the end.                                                        *)
MergeModels(base, over) ==
    FoldLeft(LAMBDA ms, m :
                 LET known == {i \in DOMAIN ms : ms[i].id = m.id} IN
                 IF known = {} THEN Append(ms, m)
                 ELSE [i \in DOMAIN ms |-> IF i \in known /\ m.window > 0 THEN m ELSE ms[i]],
             base, over)

NoProvider == [key |-> None, headers |-> <<>>, models |-> <<>>]
MergeProvider(base, over) ==
    [key |-> Set(base.key, over.key), headers |-> MergeStringMap(base.headers, over.headers),
     models |-> MergeModels(base.models, over.models)]
MergeProviders(base, over) ==
    [id \in DOMAIN base \cup DOMAIN over |->
        IF id \notin DOMAIN over THEN base[id]
        ELSE MergeProvider(IF id \in DOMAIN base THEN base[id] ELSE NoProvider, over[id])]

EnvironmentSource(scope) == IF scope \in {"default", "instance"} THEN "user" ELSE scope

(* Only Home files speak of the Fleet, and an explicit file does not widen *)
(* the extension policy.                                                   *)
FileRefused(file, scope, replay) ==
    \/ file.bad
    \/ file.fleet # None /\ scope \notin {"default", "instance"}
    \/ file.allow # None /\ scope = "explicit" /\ ~replay

(* A replayed file keeps its append-only values and policy out.            *)
ApplyYAMLData(c, file, scope, replay) ==
    [models |-> Set(c.models, file.models), providers |-> MergeProviders(c.providers, file.providers),
     envLayers |-> IF file.env = None THEN c.envLayers
                   ELSE Append(c.envLayers, [source |-> IF replay THEN "explicit" ELSE EnvironmentSource(scope),
                                             values |-> file.env]),
     dotenv |-> Set(c.dotenv, file.dotenv),
     decls |-> IF replay THEN c.decls ELSE c.decls \o file.hooks,
     blocked |-> IF replay THEN c.blocked ELSE c.blocked \o file.blocked,
     allow |-> IF replay THEN c.allow ELSE Set(c.allow, file.allow),
     fleet |-> Set(c.fleet, file.fleet), preset |-> Set(c.preset, file.preset),
     modules |-> Overlay(c.modules, file.modules), shell |-> Set(c.shell, file.shell)]

(* The imports of a file come before it; all are applied to a copy.        *)
Documents(file) == Append(file.imports, file)
ApplyFile(c, file, scope, replay) ==
    FoldLeft(LAMBDA d, doc : ApplyYAMLData(d, doc, scope, replay), c, Documents(file))
RefuseLoad(file, scope, replay) == \E i \in DOMAIN Documents(file) : FileRefused(Documents(file)[i], scope, replay)

-----------------------------------------------------------------------------
(* The layers of one load *)

Layer(scope, file, replay) == [scope |-> scope, file |-> file, replay |-> replay]
Loads(scope, file, replay, next) ==
    IF RefuseLoad(file, scope, replay)
    THEN loadStep' = "failed" /\ UNCHANGED <<cfg, layers>>
    ELSE /\ cfg' = ApplyFile(cfg, file, scope, replay)
         /\ layers' = Append(layers, Layer(scope, file, replay))
         /\ loadStep' = next

LoadHome ==
    /\ loadStep = "default"
    /\ \E file \in LayerFiles : Loads("default", file, FALSE, "instance")
    /\ UNCHANGED <<agent, given, loaded>>

(* resolveHomeConfigSources: an instance Home of its own, or the default.  *)
LoadInstanceHome ==
    /\ loadStep = "instance"
    /\ \/ \E file \in LayerFiles : Loads("instance", file, FALSE, "workspace")
       \/ loadStep' = "workspace" /\ UNCHANGED <<cfg, layers>>
    /\ UNCHANGED <<agent, given, loaded>>

LoadWorkspace ==
    /\ loadStep = "workspace"
    /\ \E file \in LayerFiles : Loads("workspace", file, FALSE, "agent")
    /\ UNCHANGED <<agent, given, loaded>>

(* An Agent that exists lends its overlay; otherwise the load will mint.   *)
LoadAgent ==
    /\ loadStep = "agent"
    /\ IF agent = None THEN loadStep' = "explicit" /\ UNCHANGED <<cfg, layers>> ELSE Loads("agent", agent, FALSE, "explicit")
    /\ UNCHANGED <<agent, given, loaded>>

(* applyExplicitYAMLFile: a file of its own, or one of the layers again    *)
(* above all of them, unless that is the Agent's.                          *)
LayersOf(scope) == {i \in DOMAIN layers : layers[i].scope = scope}
LoadExplicit ==
    /\ loadStep = "explicit"
    /\ CASE given.explicit = None -> loadStep' = "finalize" /\ UNCHANGED <<cfg, layers>>
         [] given.explicit = "own" -> \E file \in LayerFiles : Loads("explicit", file, FALSE, "finalize")
         [] OTHER -> IF given.explicit = "agent" \/ LayersOf(given.explicit) = {}
                     THEN loadStep' = "finalize" /\ UNCHANGED <<cfg, layers>>
                     ELSE LET l == layers[CHOOSE i \in LayersOf(given.explicit) : TRUE]
                          IN  Loads(l.scope, l.file, TRUE, "finalize")
    /\ UNCHANGED <<agent, given, loaded>>

-----------------------------------------------------------------------------
(* finalizeConfigLoad *)

(* resolveRuntimeEnvironment: the Home's variables, the .env, the other    *)
(* layers, the inherited environment.                                      *)
LayersFrom(c, sources) == SelectSeq(c.envLayers, LAMBDA l : l.source \in sources)
EnvironmentOf(c, dotenv, inherited) ==
    LET file == IF c.dotenv THEN <<[source |-> "dotenv", values |-> dotenv]>> ELSE <<>>
        all == LayersFrom(c, {"user"}) \o file \o LayersFrom(c, {"workspace", "agent", "explicit"})
    IN  Overlay(FoldLeft(LAMBDA e, l : Overlay(e, l.values), <<>>, all), inherited)

Lookup(env, key) == IF key \in DOMAIN env THEN env[key] ELSE None

(* validateConfiguredModels *)
ModelsOf(c, provider) == {c.providers[provider].models[i].id : i \in DOMAIN c.providers[provider].models}
KnownRef(c, ref) == ref.provider \in DOMAIN c.providers /\ ref.model \in ModelsOf(c, ref.provider)
ModelsValid(c, refs) == IsInjective(refs) /\ \A i \in DOMAIN refs : KnownRef(c, refs[i])

(* resolveSelectedProviderRef *)
WindowOf(c, ref) ==
    LET ms == c.providers[ref.provider].models
        w == ms[CHOOSE i \in DOMAIN ms : ms[i].id = ref.model].window
    IN  IF w > 0 THEN w ELSE 1
Selection(c, ref) ==
    [provider |-> ref.provider, model |-> ref.model, key |-> c.providers[ref.provider].key,
     headers |-> c.providers[ref.provider].headers, window |-> WindowOf(c, ref)]
NoSelection == [provider |-> None, model |-> None, key |-> None, headers |-> <<>>, window |-> 1]

(* applyOSEnvExcept: the selectors are left out for an explicit chain and  *)
(* for every fallback.                                                     *)
WithEnvironment(sel, env, selectors) ==
    [sel EXCEPT !.key = Set(@, Lookup(env, "KEY")),
                !.provider = IF selectors THEN Set(@, Lookup(env, "ID")) ELSE @,
                !.model = IF selectors THEN Set(@, Lookup(env, "MODEL")) ELSE @]

ModelRefOf(sel) == [provider |-> sel.provider, model |-> sel.model]

(* ModelChain: the effective primary, then the configured fallbacks.       *)
ModelChain(c, refs, primary, env) ==
    LET rest == IF refs = <<>> THEN <<>> ELSE Tail(refs)
        others == SelectSeq(rest, LAMBDA r : r # ModelRefOf(primary))
    IN  <<primary>> \o [i \in DOMAIN others |-> WithEnvironment(Selection(c, others[i]), env, FALSE)]

(* Config.ModuleEnabled *)
ModuleEnabled(c, module) ==
    IF module \in DOMAIN c.modules THEN c.modules[module] ELSE c.preset = "standard"

(* resolveModuleDeclarations waits for the effective switches.             *)
HooksOf(c) == IF ModuleEnabled(c, "hooks") THEN c.decls ELSE <<>>

(* ResolveShellProfile: what is asked for and nothing else, or for "auto"  *)
(* the shell of the environment and then the first that is installed.      *)
AutoShells == <<"bash", "sh">>
ShellFor(c, env) ==
    LET wished == IF Lookup(env, "SHELL") \in Installed THEN <<Lookup(env, "SHELL")>> ELSE <<>>
        found == SelectSeq(wished \o AutoShells, LAMBDA s : s \in Installed) IN
    CASE c.shell # "auto" -> IF c.shell \in Installed THEN c.shell ELSE None
      [] found = <<>> -> None
      [] OTHER -> Head(found)

Finalized(c, dotenv) ==
    LET env == EnvironmentOf(c, dotenv, given.inherited)
        refs == IF given.models # <<>> THEN given.models ELSE c.models
        chosen == IF refs = <<>> THEN NoSelection ELSE Selection(c, Head(refs))
        primary == WithEnvironment(chosen, env, given.models = <<>>)
    IN  [refs |-> refs, env |-> env, primary |-> primary, hooks |-> HooksOf(c), shell |-> ShellFor(c, env),
         chain |-> IF ModelRefOf(primary) = [provider |-> None, model |-> None] THEN <<>> ELSE ModelChain(c, refs, primary, env)]

Finalize ==
    /\ loadStep = "finalize"
    /\ \E dotenv \in Dotenvs :
          LET refs == IF given.models # <<>> THEN given.models ELSE cfg.models IN
          IF ~ModelsValid(cfg, refs) \/ ShellFor(cfg, EnvironmentOf(cfg, dotenv, given.inherited)) = None
          THEN loadStep' = "failed" /\ UNCHANGED loaded
          ELSE /\ loaded' = [Finalized(cfg, dotenv) EXCEPT !.env = [values |-> @, dotenv |-> dotenv]]
               /\ loadStep' = IF LayersOf("agent") = {} THEN "mint" ELSE "loaded"
    /\ UNCHANGED <<cfg, layers, agent, given>>

Reload == loadStep' = "default" /\ cfg' = Defaults /\ layers' = <<>> /\ loaded' = None /\ UNCHANGED agent
Mint ==
    /\ loadStep = "mint"
    /\ IF agent = None THEN loadStep' = "loaded" /\ agent' = BlankFile /\ UNCHANGED <<cfg, layers, loaded>> ELSE Reload
    /\ UNCHANGED given

-----------------------------------------------------------------------------
(* Another process registers the Workspace's Agent.                        *)
RegisterElsewhere ==
    /\ agent = None /\ loadStep \notin {"loaded", "failed"}
    /\ agent' \in Overlays
    /\ UNCHANGED <<cfg, loadStep, layers, given, loaded>>

CLInit ==
    /\ cfg = Defaults /\ loadStep = "default" /\ layers = <<>> /\ loaded = None
    /\ agent \in {None} \cup Overlays
    /\ given \in [explicit : {None, "own", "default", "instance", "workspace", "agent"},
                  models : Overrides, inherited : InheritedEnvs]

CLNext ==
    \/ LoadHome \/ LoadInstanceHome \/ LoadWorkspace \/ LoadAgent \/ LoadExplicit \/ Finalize \/ Mint
    \/ RegisterElsewhere

CLSpec == CLInit /\ [][CLNext]_clvars

-----------------------------------------------------------------------------
(* Type correctness of a load.                                             *)
CLTypeOK ==
    /\ loadStep \in {Scopes[i] : i \in DOMAIN Scopes} \cup {"finalize", "mint", "loaded", "failed"}
    /\ DOMAIN cfg = DOMAIN Defaults
    /\ \A i \in DOMAIN layers : layers[i].replay \in BOOLEAN

(* The documents of all layers in the order of their precedence, each with *)
(* the layer it came through.                                              *)
Applied ==
    FlattenSeq([i \in DOMAIN layers |->
                   [d \in DOMAIN Documents(layers[i].file) |->
                       [layers[i] EXCEPT !.file = Documents(layers[i].file)[d]]]])
Once == SelectSeq(Applied, LAMBDA a : ~a.replay)
LastSetting(docs, Sets(_)) ==
    LET S == {i \in DOMAIN docs : Sets(docs[i])} IN IF S = {} THEN 0 ELSE CHOOSE i \in S : \A j \in S : j <= i
Effective(docs, field, default) ==
    LET i == LastSetting(docs, LAMBDA a : a.file[field] # None) IN IF i = 0 THEN default ELSE docs[i].file[field]

(* applyExplicitYAMLFile's "replay overwrite-style values above every      *)
(* persistent layer" while "append-only hooks/sandbox paths, durable       *)
(* Extension policy [...] remain single-instance": a value is what the     *)
(* last document to set it says, a provider is amended key by key and a    *)
(* list that only grows has every file's part exactly once, whichever      *)
(* layers exist, whatever they import and whichever of them failed.        *)
LayersRespected ==
    LET mention(p, h) == LastSetting(Applied, LAMBDA a : p \in DOMAIN a.file.providers
                                                         /\ h \in DOMAIN a.file.providers[p].headers) IN
    /\ \A f \in {"models", "dotenv", "fleet", "preset", "shell"} : cfg[f] = Effective(Applied, f, Defaults[f])
    /\ cfg.allow = Effective(Once, "allow", None)
    /\ cfg.blocked = FlattenSeq([i \in DOMAIN Once |-> Once[i].file.blocked])
    /\ cfg.decls = FlattenSeq([i \in DOMAIN Once |-> Once[i].file.hooks])
    /\ \A p \in DOMAIN cfg.providers :
          /\ \A h \in DOMAIN cfg.providers[p].headers :
                mention(p, h) # 0 /\ cfg.providers[p].headers[h] = Applied[mention(p, h)].file.providers[p].headers[h]
          /\ \A i \in DOMAIN Applied : p \in DOMAIN Applied[i].file.providers =>
                \A h \in DOMAIN Applied[i].file.providers[p].headers :
                    h \in DOMAIN cfg.providers[p].headers
                    \/ Applied[mention(p, h)].file.providers[p].headers[h] = ""
          /\ ModelsOf(cfg, p) = UNION {{Applied[i].file.providers[p].models[m].id :
                                            m \in DOMAIN Applied[i].file.providers[p].models} :
                                        i \in {j \in DOMAIN Applied : p \in DOMAIN Applied[j].file.providers}}

(* The runtime environment: an inherited variable always wins, then the    *)
(* layers above the Home's, then the .env file, then the Home's.           *)
EnvironmentRespected ==
    loadStep \in {"mint", "loaded"} =>
        LET env == loaded.env.values
            last(scopes, v) == LastSetting(Applied, LAMBDA a : a.file.env # None /\ v \in DOMAIN a.file.env
                                                               /\ (IF a.replay THEN "explicit" ELSE a.scope) \in scopes)
            high(v) == last({"workspace", "agent", "explicit"}, v)  low(v) == last({"default", "instance"}, v) IN
        \A v \in DOMAIN env :
            env[v] = CASE v \in DOMAIN given.inherited -> given.inherited[v]
                       [] OTHER -> IF high(v) # 0 THEN Applied[high(v)].file.env[v]
                                   ELSE IF cfg.dotenv /\ v \in DOMAIN loaded.env.dotenv THEN loaded.env.dotenv[v]
                                   ELSE Applied[low(v)].file.env[v]

(* The chain a Thread serves its requests with: the effective primary, no  *)
(* model twice, every fallback a configured one with its own provider's    *)
(* settings, and a --models chain is not redirected by the environment.    *)
ChainSound ==
    loadStep \in {"mint", "loaded"} /\ loaded.chain # <<>> =>
        LET chain == loaded.chain IN
        /\ IsInjective([i \in DOMAIN chain |-> ModelRefOf(chain[i])])
        /\ \A i \in DOMAIN chain : i > 1 =>
              /\ \E r \in DOMAIN loaded.refs : r > 1 /\ loaded.refs[r] = ModelRefOf(chain[i])
              /\ chain[i].window = WindowOf(cfg, ModelRefOf(chain[i]))
              /\ chain[i].headers = cfg.providers[chain[i].provider].headers
        /\ given.models # <<>> => [i \in DOMAIN chain |-> ModelRefOf(chain[i])] = given.models

(* A configuration that is used belongs to the Agent it will run as: the   *)
(* overlay of an Agent that somebody else registered while this load was   *)
(* going on is part of it (LoadWithOptions, "reload").                     *)
OverlayIncluded ==
    loadStep = "loaded" => \/ agent = BlankFile /\ LayersOf("agent") = {}
                     \/ \E i \in LayersOf("agent") : layers[i].file = agent

(* What a load promises.                                                   *)
LayersSafe == LayersRespected /\ EnvironmentRespected /\ ChainSound /\ OverlayIncluded
=============================================================================
