------------------------------- MODULE MCAgent ------------------------------
(***************************************************************************)
(* The work of an Agent around its Threads and the configuration it is     *)
(* composed from, checked in one run: the first state chooses the          *)
(* component that takes steps, the others stay as they start.              *)
(***************************************************************************)
EXTENDS AgentClose, WorkerThreads, TurnPolicies, ToolProtocol, ModelFallback, ProviderStreams,
        MCPServers, ConfigPublication, ConfigLayers

CONSTANTS m1, m2  \* two model references, the first is preferred

VARIABLE subject

MCChain == <<m1, m2>>
MCSummaryChain == <<m2, m1>>

(* Policies: no hook, one required hook at every point, an optional and a  *)
(* required hook on Tools, and two hooks at the end of a Turn              *)
Hook(events, tools, required) == [events |-> events, tools |-> tools, required |-> required]
Setup(hooks, calls, finishes) == [hooks |-> hooks, calls |-> calls, finishes |-> finishes]
MCSetups ==
    {Setup(<<>>, 2, 0),
     Setup(<<Hook(Points, {}, TRUE)>>, 1, 0),
     Setup(<<Hook(Points, {}, TRUE)>>, 0, 1),
     Setup(<<Hook({"tool_before"}, {"write"}, FALSE),
             Hook({"tool_before", "tool_after"}, {}, TRUE)>>, 1, 0),
     Setup(<<Hook({"thread_start", "finish"}, {}, FALSE), Hook({"finish"}, {}, TRUE)>>, 0, 2)}

(* Providers: every protocol and transport with the requests and the       *)
(* faults that reach its paths                                             *)
Provider(id, protocol, transport, headers, overrides, requests, faults) ==
    [id |-> id, protocol |-> protocol, transport |-> transport, headers |-> headers,
     overrides |-> overrides, fallback |-> transport = "",
     sharers |-> {CHOOSE t \in Threads : TRUE}, requests |-> requests, faults |-> faults]
AsGiven == [x \in {} |-> TRUE]
MCConfigs ==
    {Provider("codex", "", "auto", "fixed", AsGiven, 2, 1),
     [Provider("codex", "", "websocket-cached", "generation", AsGiven, 2, 0) EXCEPT !.sharers = Threads],
     Provider("codex", "", "auto", "thread", AsGiven, 3, 1),
     Provider("codex", "", "websocket", "thread", AsGiven, 2, 1),
     Provider("codex", "", "", "fixed", AsGiven, 1, 3),
     Provider("openai", "openai/responses", "", "fixed", AsGiven, 1, 3),
     Provider("openai", "openai/responses", "", "fixed", [vision |-> TRUE], 3, 0),
     Provider("deepseek", "", "", "fixed", [vision |-> TRUE], 3, 0),
     Provider("mine", "openai/chat", "", "fixed", [streaming |-> FALSE, tools |-> FALSE], 2, 1),
     Provider("mine", "", "", "fixed", AsGiven, 1, 3),
     Provider("anthropic", "anthropic/messages", "", "thread", [replay |-> FALSE], 2, 1)}
MCAnswers == {<<"reasoning", "text">>, <<"call", "call">>, <<>>}

(* MCP servers: every shape of a configuration, arguments and environment  *)
(* set or left out together                                                *)
MCSpecs == {s \in AllSpecs : s.args = "absent" <=> s.env = "absent"}

(* Config files: providers and models that are replaced or extended, an    *)
(* import of two files, and one that is refused                            *)
Ref(m) == [provider |-> "p", model |-> m]
Model(m, window) == [id |-> m, window |-> window]
Providers(key, headers, models) == "p" :> [key |-> key, headers |-> headers, models |-> models]
Home ==
    [BlankFile EXCEPT !.providers = Providers("k1", "h" :> "1", <<Model("a", 0), Model("b", 3)>>),
                      !.models = <<Ref("a"), Ref("b")>>, !.blocked = <<"x">>, !.env = "v" :> "1"]
Local ==
    [BlankFile EXCEPT !.providers = Providers(None, "h" :> "", <<Model("a", 2), Model("c", 0)>>),
                      !.hooks = <<"h1">>, !.dotenv = FALSE, !.modules = "hooks" :> TRUE]
Minimal ==
    [BlankFile EXCEPT !.models = <<Ref("b"), Ref("a")>>, !.env = "v" :> "2", !.preset = "minimal",
                      !.allow = {"e"}]
Importing ==
    [BlankFile EXCEPT !.imports = <<Home, [Minimal EXCEPT !.fleet = "addr"]>>, !.shell = "sh",
                      !.hooks = <<"h2">>]
Broken == [BlankFile EXCEPT !.imports = <<Local>>, !.bad = TRUE]
MCFiles == {Home, Local, Minimal, Importing, Broken}
MCOverlays == {Local}
MCDotenvs == {"v" :> "3"}
MCInherited == {<<>>, ("SHELL" :> "zsh") @@ ("v" :> "4") @@ ("MODEL" :> "b")}
MCOverrides == {<<>>, <<Ref("b"), Ref("a")>>}
MCInstalled == {"sh", "zsh"}

(* The variables of the components with faults, without the fault counters *)
policyVars == <<setup, closed, turn, cancelled, point, call, ledger, history, task, deferring,
                taskGate, queuedContext, used>>
protocolVars == <<transcript, provenance, engine, batch, invoked, committed, accepted, made, shrinks>>
publicationVars == <<disk, pubJournal, pubLock, loading, remote, revisions, loads, generations>>

vars == <<subject, cvars, wvars, policyVars, protocolVars, faultVars, mhvars, psvars, mcpvars,
          publicationVars, clvars>>

Init ==
    /\ subject \in {"close", "workers", "policies", "protocol", "models", "providers", "mcp",
                    "publication", "layers"}
    /\ subject # "policies" => setup = Setup(<<>>, 2, 0)
    /\ subject # "providers" =>
          profile = ResolveProfile(Provider("deepseek", "", "", "fixed", [vision |-> TRUE], 3, 0))
    /\ subject # "mcp" =>
          /\ owner = "process"
          /\ server = [given |-> CHOOSE s \in Specs : TRUE, spec |-> CHOOSE s \in Specs : TRUE,
                       at |-> "none", stage |-> "none", session |-> FALSE, tools |-> FALSE]
    /\ subject # "layers" =>
          agent = None /\ given = [explicit |-> None, models |-> <<>>, inherited |-> <<>>]
    /\ CInit /\ WInit /\ PInit /\ TPInit /\ MHInit /\ PSInit /\ MCPInit /\ CPInit /\ CLInit

Next ==
    /\ UNCHANGED subject
    /\ \/ /\ subject = "close" /\ CNext
          /\ UNCHANGED <<wvars, policyVars, protocolVars, mhvars, psvars, mcpvars, publicationVars,
                         clvars, faultVars>>
       \/ /\ subject = "workers" /\ WNext
          /\ UNCHANGED <<cvars, policyVars, protocolVars, mhvars, psvars, mcpvars, publicationVars,
                         clvars, faultVars>>
       \/ /\ subject = "policies" /\ PNext
          /\ UNCHANGED <<cvars, wvars, protocolVars, mhvars, psvars, mcpvars, publicationVars, clvars>>
       \/ /\ subject = "protocol" /\ TPNext
          /\ UNCHANGED <<cvars, wvars, policyVars, mhvars, psvars, mcpvars, publicationVars, clvars>>
       \/ /\ subject = "models" /\ MHNext
          /\ UNCHANGED <<cvars, wvars, policyVars, protocolVars, psvars, mcpvars, publicationVars,
                         clvars, faultVars>>
       \/ /\ subject = "providers" /\ PSNext
          /\ UNCHANGED <<cvars, wvars, policyVars, protocolVars, mhvars, mcpvars, publicationVars,
                         clvars, faultVars>>
       \/ /\ subject = "mcp" /\ MCPNext
          /\ UNCHANGED <<cvars, wvars, policyVars, protocolVars, mhvars, psvars, publicationVars,
                         clvars, faultVars>>
       \/ /\ subject = "publication" /\ CPNext
          /\ UNCHANGED <<cvars, wvars, policyVars, protocolVars, mhvars, psvars, mcpvars, clvars>>
       \/ /\ subject = "layers" /\ CLNext
          /\ UNCHANGED <<cvars, wvars, policyVars, protocolVars, mhvars, psvars, mcpvars,
                         publicationVars, faultVars>>

Spec == Init /\ [][Next]_vars

-----------------------------------------------------------------------------
(* Properties: each is the one of the component's module, for the runs in  *)
(* which that component takes steps.                                       *)

(* The state of the component that takes steps has its type.               *)
AgentTypesOK ==
    /\ subject = "close" => CTypeOK
    /\ subject = "workers" => WTypeOK
    /\ subject = "policies" => PTypeOK
    /\ subject = "protocol" => TPTypeOK
    /\ subject = "models" => MHTypeOK
    /\ subject = "providers" => PSTypeOK
    /\ subject = "mcp" => MCPTypeOK
    /\ subject = "publication" => CPTypeOK
    /\ subject = "layers" => CLTypeOK

(* AgentClose: nobody closes what a callback still uses (agent.go,         *)
(* module/lifecycle.go), and nothing is left running.                      *)
AgentCloses == subject = "close" => CloseSafe

(* WorkerThreads: results reach the parent while it can take them, and     *)
(* nobody opens a runtime of a Worker that a creation or a reuse has       *)
(* reserved (worker_threads.go).                                           *)
WorkersHandOff == subject = "workers" => WorkersSafe

(* TurnPolicies: denials hold, effects and outcomes are recorded, and      *)
(* continuations are fenced (policy.go, turn_lifecycle.go, tool_failure.go). *)
PoliciesHold == subject = "policies" => PoliciesSafe

(* ToolProtocol: what the provider is sent obeys the tool protocol, tells  *)
(* the truth and keeps the newest input, across compaction, failure and    *)
(* restart (protocol_repair.go, contextbudget).                            *)
ProtocolHolds == subject = "protocol" => ProtocolSafe

(* ModelFallback: one owner for each probe, and an outcome does not undo a *)
(* newer one (model_health.go).  ProviderStreams: each request carries its *)
(* Thread's context and is answered once (the clients of foundation/llm).  *)
ModelsAnswer ==
    /\ subject = "models" => ModelHealthSafe
    /\ subject = "providers" => ProvidersSafe

(* MCPServers: readiness, sessions, notifications and requests of the MCP  *)
(* servers (process_services.go, notification_gate.go).                    *)
MCPServes == subject = "mcp" => MCPSafe


=============================================================================
