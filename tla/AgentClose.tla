----------------------------- MODULE AgentClose -----------------------------
(***************************************************************************)
(* How an Agent's runtime Modules are started, activated, quiesced and     *)
(* closed: the Set of internal/framework/module (lifecycle.go,             *)
(* activation.go), the Agent's cleanup list (framework/agent/agent.go,     *)
(* execution.go), the notification gate of the MCP Module                  *)
(* (features/mcp/notification_gate.go) and the Observables Module, whose   *)
(* Close waits for its deliveries.  A callback of either Module may call   *)
(* Agent.Close.  An actor is a goroutine; the callback of a Module bears   *)
(* the Module's name.                                                      *)
(***************************************************************************)
EXTENDS Naturals, Sequences, FiniteSets

CONSTANTS
    ClosingCallbacks,   \* the Modules whose callbacks may call Agent.Close
    MaxInputs           \* bound: inputs one Module's producers send

ASSUME InputBound == MaxInputs \in Nat

Modules == <<"observables", "mcp">>     \* in registration order
Producers == {"observables", "mcp"}
Owners == {"opener", "owner"}           \* they call CloseAndWait
Actors == Owners \cup Producers \cup {"begin"}

VARIABLES
    opening,    \* where App.New and RestoreAndActivate are
    up,         \* Modules that are started and not closed
    set,        \* Set.state
    setLock,    \* who holds Set.lifecycleMu
    pass,       \* the quiesce pass of the holder: next Module and what is deferred
    mcpGate,       \* the notification gate: active, closed, pending, who drains
    manager,    \* the Observables manager: off, on, closing, closed
    inflight,   \* observations submitted for delivery and not yet in the callback
    step,       \* where each actor is
    deferral,   \* what an owner waits for
    agentCancelled,  \* a.ctx has been cancelled by BeginClose
    closeRun,   \* a.closeRunning: who runs Close
    cleanup,    \* a.cleanupIndex
    inputs      \* inputs each producer has sent

cvars == <<opening, up, set, setLock, pass, mcpGate, manager, inflight, step, deferral, agentCancelled,
           closeRun, cleanup, inputs>>

NoPass == [next |-> 0, deferred |-> "none"]
GateShut == [active |-> FALSE, closed |-> FALSE, pending |-> 0, drainer |-> "none"]

(* The cleanup list of agent.New: quiesce the Modules, end pending-input   *)
(* work, detach observability, close the event sink, close the Thread,     *)
(* close the Modules.                                                      *)
Quiescing == 0
Closing == 5
CleanedUp == 6

CallbackActive(p) == step[p] # "idle"
Draining == mcpGate.drainer # "none"
At(x, where) == step' = [step EXCEPT ![x] = where]
OnlyStep == UNCHANGED <<opening, up, set, setLock, pass, mcpGate, manager, inflight, deferral,
                        agentCancelled, closeRun, cleanup, inputs>>

-----------------------------------------------------------------------------
(* App.New and RestoreAndActivate *)

Started == opening.started
RollBackLast ==
    opening' = [opening EXCEPT !.at = "failed"] /\ up' = up \ {Modules[Started]}
RollBack == opening' = [opening EXCEPT !.at = "failed"] /\ up' = {}

(* BuildAndStartRuntimeSet: a Module that does not start, or a Tool        *)
(* catalog that cannot be built, closes the Modules started so far.        *)
StartRuntime ==
    /\ opening.at = "start" /\ Started < Len(Modules)
    /\ \/ /\ opening' = [opening EXCEPT !.started = @ + 1]
          /\ up' = up \cup {Modules[Started + 1]} /\ UNCHANGED set
       \/ RollBack /\ set' = [set EXCEPT !.closed = TRUE]
    /\ UNCHANGED <<setLock, pass, mcpGate, manager, inflight, step, deferral, agentCancelled, closeRun,
                   cleanup, inputs>>

MaterializeToolCatalog ==
    /\ opening.at = "start" /\ Started = Len(Modules)
    /\ \/ opening' = [opening EXCEPT !.at = "restore"] /\ UNCHANGED <<up, set>>
       \/ RollBack /\ set' = [set EXCEPT !.closed = TRUE]
    /\ UNCHANGED <<setLock, pass, mcpGate, manager, inflight, step, deferral, agentCancelled, closeRun,
                   cleanup, inputs>>

(* Restoring the Thread fails: New closes the Agent. *)
FailOpening == opening' = [opening EXCEPT !.at = "failing"] /\ At("opener", "enter")

Restore ==
    /\ opening.at = "restore"
    /\ \/ opening' = [opening EXCEPT !.at = "activate"] /\ UNCHANGED step
       \/ FailOpening
    /\ UNCHANGED <<up, set, setLock, pass, mcpGate, manager, inflight, deferral, agentCancelled, closeRun,
                   cleanup, inputs>>

(* Set.ActivateRuntime *)
BeginActivation ==
    /\ opening.at = "activate" /\ setLock = "free"
    /\ IF set.closed \/ set.quiesced \/ set.stopping
         THEN FailOpening /\ UNCHANGED set
         ELSE /\ set' = [set EXCEPT !.activation = "running"]
              /\ opening' = [opening EXCEPT !.at = "activating", !.module = 1]
              /\ UNCHANGED step
    /\ UNCHANGED <<up, setLock, pass, mcpGate, manager, inflight, deferral, agentCancelled, closeRun,
                   cleanup, inputs>>

ActivationCancelled == set.cancel \/ agentCancelled

EndActivation(ok) ==
    /\ set' = [set EXCEPT !.activation = "done"]
    /\ IF ok THEN opening' = [opening EXCEPT !.at = "serving"] /\ UNCHANGED step
             ELSE FailOpening

(* The Modules in registration order.  The gate hands over what arrived    *)
(* before, in the opener's own goroutine; observables are started.         *)
ActivateModule ==
    /\ opening.at = "activating" /\ mcpGate.drainer # "opener"
    /\ IF opening.module > Len(Modules) \/ ActivationCancelled
         THEN EndActivation(~ActivationCancelled) /\ UNCHANGED <<mcpGate, manager>>
         ELSE \/ /\ Modules[opening.module] = "mcp"
                 /\ IF mcpGate.closed
                      THEN EndActivation(FALSE) /\ UNCHANGED mcpGate
                      ELSE /\ mcpGate' = [mcpGate EXCEPT !.active = TRUE,
                                         !.drainer = IF ~Draining /\ mcpGate.pending > 0
                                                     THEN "opener" ELSE @]
                           /\ opening' = [opening EXCEPT !.module = @ + 1]
                           /\ UNCHANGED <<set, step>>
                 /\ UNCHANGED manager
              \/ /\ Modules[opening.module] = "observables"
                 /\ manager' = IF manager = "off" THEN "on" ELSE manager
                 /\ opening' = [opening EXCEPT !.module = @ + 1]
                 /\ UNCHANGED <<set, step, mcpGate>>
    /\ UNCHANGED <<up, setLock, pass, inflight, deferral, agentCancelled, closeRun, cleanup, inputs>>

-----------------------------------------------------------------------------
(* The notification gate *)

SendInput(p) == inputs[p] < MaxInputs /\ inputs' = [inputs EXCEPT ![p] = @ + 1]
OnlyGate == UNCHANGED <<opening, up, set, setLock, pass, manager, inflight, step, deferral,
                        agentCancelled, closeRun, cleanup>>

(* Enqueue, from the goroutine of a notification *)
EnqueueNotification ==
    /\ "mcp" \in up /\ SendInput("mcp")
    /\ mcpGate' = IF mcpGate.closed THEN mcpGate
               ELSE [mcpGate EXCEPT !.pending = @ + 1,
                                 !.drainer = IF mcpGate.active /\ ~Draining THEN "enqueuer" ELSE @]
    /\ OnlyGate

(* drain: one notification at a time; Activate's context may be cancelled. *)
DrainNotification ==
    /\ Draining /\ ~CallbackActive("mcp")
    /\ IF mcpGate.closed \/ mcpGate.pending = 0 \/ (mcpGate.drainer = "opener" /\ ActivationCancelled)
         THEN mcpGate' = [mcpGate EXCEPT !.drainer = "none"] /\ UNCHANGED step
         ELSE mcpGate' = [mcpGate EXCEPT !.pending = @ - 1] /\ At("mcp", "running")
    /\ UNCHANGED <<opening, up, set, setLock, pass, manager, inflight, deferral, agentCancelled,
                   closeRun, cleanup, inputs>>

-----------------------------------------------------------------------------
(* The Observables manager *)

(* Runs submit observations until their goroutines have returned. *)
SubmitDelivery ==
    /\ manager \in {"on", "closing"} /\ SendInput("observables")
    /\ inflight' = inflight + 1
    /\ UNCHANGED <<opening, up, set, setLock, pass, mcpGate, manager, step, deferral, agentCancelled,
                   closeRun, cleanup>>

DeliverObservation ==
    /\ inflight > 0 /\ ~CallbackActive("observables")
    /\ inflight' = inflight - 1 /\ At("observables", "running")
    /\ UNCHANGED <<opening, up, set, setLock, pass, mcpGate, manager, deferral, agentCancelled, closeRun,
                   cleanup, inputs>>

(* The close attempt has waited for every delivery. *)
Delivered == inflight = 0 /\ ~CallbackActive("observables")
CloseAttemptDone ==
    /\ manager = "closing" /\ Delivered
    /\ manager' = "closed"
    /\ UNCHANGED <<opening, up, set, setLock, pass, mcpGate, inflight, step, deferral, agentCancelled,
                   closeRun, cleanup, inputs>>

-----------------------------------------------------------------------------
(* Callbacks *)

CallbackReturns(p) ==
    /\ step[p] \in {"running", "returning"}
    /\ At(p, "idle") /\ OnlyStep

CallbackCloses(p) ==
    /\ p \in ClosingCallbacks /\ step[p] = "running"
    /\ At(p, "enter") /\ OnlyStep

-----------------------------------------------------------------------------
(* Agent.Close *)

(* What Close's caller does once Close has returned *)
Return(x, d) ==
    IF x \in Owners THEN IF d = "none" THEN "closed" ELSE "wait"
    ELSE IF x = "begin" THEN "over" ELSE "returning"

(* The server begins to close the Agent, or only cancels it. *)
OwnerCloses ==
    /\ opening.at = "serving" /\ step["owner"] = "idle"
    /\ At("owner", "enter") /\ OnlyStep

BeginClose(x, next) ==
    /\ agentCancelled' = TRUE
    /\ step' = [step EXCEPT ![x] = next,
                            !["begin"] = IF ~agentCancelled THEN "lock" ELSE @]

ServerBeginsClose ==
    /\ opening.at = "serving" /\ ~agentCancelled
    /\ BeginClose("begin", "lock")
    /\ UNCHANGED <<opening, up, set, setLock, pass, mcpGate, manager, inflight, deferral, closeRun,
                   cleanup, inputs>>

EnterClose(x) ==
    /\ step[x] = "enter"
    /\ IF closeRun # "none"
         THEN /\ At(x, Return(x, "close"))
              /\ deferral' = [deferral EXCEPT ![x] = "close"]
              /\ UNCHANGED <<closeRun, agentCancelled>>
         ELSE /\ closeRun' = x /\ BeginClose(x, "clean") /\ UNCHANGED deferral
    /\ UNCHANGED <<opening, up, set, setLock, pass, mcpGate, manager, inflight, cleanup, inputs>>

(* The next function of the cleanup list that does not need Set's lock *)
Clean(x) ==
    /\ step[x] = "clean"
    /\ \/ /\ cleanup \in {Quiescing, Closing}
          /\ At(x, "lock") /\ UNCHANGED <<cleanup, closeRun, deferral>>
       \/ /\ cleanup \in (Quiescing + 1)..(Closing - 1)
          /\ cleanup' = cleanup + 1 /\ UNCHANGED <<step, closeRun, deferral>>
       \/ /\ cleanup = CleanedUp
          /\ closeRun' = "none" /\ At(x, Return(x, "none"))
          /\ deferral' = [deferral EXCEPT ![x] = "none"] /\ UNCHANGED cleanup
    /\ UNCHANGED <<opening, up, set, setLock, pass, mcpGate, manager, inflight, agentCancelled, inputs>>

(* quiesceRuntime under Set.lifecycleMu, up to its pass over the Modules *)
LockSet(x) ==
    /\ step[x] = "lock" /\ setLock = "free"
    /\ setLock' = x /\ At(x, "pass")
    /\ set' = [set EXCEPT !.stopping = TRUE, !.cancel = (set.activation # "none")]
    /\ pass' = IF set.activation = "running" THEN [next |-> 0, deferred |-> "activation"]
               ELSE [next |-> IF set.closed \/ set.quiesced THEN 0 ELSE Started,
                     deferred |-> "none"]
    /\ UNCHANGED <<opening, up, mcpGate, manager, inflight, deferral, agentCancelled, closeRun, cleanup,
                   inputs>>

Passed(d) ==
    pass' = [next |-> pass.next - 1,
             deferred |-> IF pass.deferred = "none" THEN d ELSE pass.deferred]

(* QuiesceRuntime of one Module.  The gate defers while it drains; the     *)
(* Observables manager defers while a callback is active and otherwise     *)
(* waits, with Set's lock held.                                            *)
QuiesceModule(x) ==
    /\ setLock = x /\ step[x] = "pass" /\ pass.next > 0
    /\ \/ /\ Modules[pass.next] = "mcp"
          /\ mcpGate' = [mcpGate EXCEPT !.closed = TRUE, !.pending = 0]
          /\ Passed(IF Draining THEN "mcp" ELSE "none")
          /\ up' = IF Draining THEN up ELSE up \ {"mcp"}
          /\ UNCHANGED <<manager, step>>
       \/ /\ Modules[pass.next] = "observables"
          /\ manager' = IF manager \in {"off", "closed"} THEN "closed" ELSE "closing"
          /\ IF CallbackActive("observables") /\ manager # "closed"
               THEN Passed("observables") /\ UNCHANGED step
               ELSE At(x, "blocked") /\ UNCHANGED pass
          /\ UNCHANGED <<mcpGate, up>>
    /\ UNCHANGED <<opening, set, setLock, inflight, deferral, agentCancelled, closeRun, cleanup,
                   inputs>>

ManagerClosed(x) ==
    /\ step[x] = "blocked" /\ manager = "closed"
    /\ Passed("none") /\ At(x, "pass")
    /\ up' = up \ {"observables"}
    /\ UNCHANGED <<opening, set, setLock, mcpGate, manager, inflight, deferral, agentCancelled, closeRun,
                   cleanup, inputs>>

(* What a deferred pass leaves for the next one: nothing is cached, the    *)
(* cleanup list does not advance and Close returns.                        *)
CompletedAnyway(x, d) == TRUE
PassCompleted(x, d) == d = "none"

EndPass(x) ==
    LET d == pass.deferred IN
    /\ setLock = x /\ step[x] = "pass" /\ pass.next = 0
    /\ setLock' = "free" /\ pass' = NoPass
    /\ IF PassCompleted(x, d)
         THEN /\ set' = [set EXCEPT !.quiesced = TRUE,
                                    !.closed = @ \/ (x # "begin" /\ cleanup = Closing)]
              /\ cleanup' = IF x = "begin" THEN cleanup ELSE cleanup + 1
              /\ At(x, IF x = "begin" THEN "over" ELSE "clean")
              /\ UNCHANGED <<closeRun, deferral>>
         ELSE /\ At(x, Return(x, d)) /\ deferral' = [deferral EXCEPT ![x] = d]
              /\ closeRun' = IF x = "begin" THEN closeRun ELSE "none"
              /\ UNCHANGED <<set, cleanup>>
    /\ UNCHANGED <<opening, up, mcpGate, manager, inflight, agentCancelled, inputs>>

(* CloseAndWait: the deferral has ended, Close is called again.            *)
Ended(d) ==
    CASE d = "activation" -> set.activation # "running"
      [] d = "mcp" -> ~Draining
      [] d = "observables" -> manager = "closed"
      [] d = "close" -> closeRun = "none"
      [] OTHER -> TRUE
WaitDeferred(x) ==
    /\ step[x] = "wait" /\ Ended(deferral[x])
    /\ At(x, "enter") /\ OnlyStep

-----------------------------------------------------------------------------
CInit ==
    /\ opening = [at |-> "start", started |-> 0, module |-> 0] /\ up = {}
    /\ set = [activation |-> "none", cancel |-> FALSE, stopping |-> FALSE, quiesced |-> FALSE,
              closed |-> FALSE]
    /\ setLock = "free" /\ pass = NoPass
    /\ mcpGate = GateShut /\ manager = "off" /\ inflight = 0
    /\ step = [x \in Actors |-> "idle"] /\ deferral = [x \in Actors |-> "none"]
    /\ agentCancelled = FALSE /\ closeRun = "none" /\ cleanup = Quiescing
    /\ inputs = [p \in Producers |-> 0]

CloseStep(x) ==
    \/ EnterClose(x) \/ Clean(x) \/ LockSet(x) \/ QuiesceModule(x) \/ ManagerClosed(x)
    \/ EndPass(x) \/ WaitDeferred(x)

CNext ==
    \/ StartRuntime \/ MaterializeToolCatalog \/ Restore \/ BeginActivation \/ ActivateModule
    \/ EnqueueNotification \/ DrainNotification \/ SubmitDelivery \/ DeliverObservation \/ CloseAttemptDone
    \/ \E p \in Producers : CallbackReturns(p) \/ CallbackCloses(p)
    \/ OwnerCloses \/ ServerBeginsClose
    \/ \E x \in Actors : CloseStep(x)

CSpec == CInit /\ [][CNext]_cvars

-----------------------------------------------------------------------------
(* The state of the Agent's shutdown has the shape the code gives it. *)
CTypeOK ==
    /\ opening.at \in {"start", "restore", "activate", "activating", "serving", "failing",
                       "failed"}
    /\ up \subseteq Producers
    /\ setLock \in Actors \cup {"free"} /\ closeRun \in Actors \cup {"none"}
    /\ manager \in {"off", "on", "closing", "closed"}
    /\ cleanup \in Quiescing..CleanedUp
    /\ \A x \in Actors : deferral[x] \in {"none", "activation", "mcp", "observables", "close"}

(* External input reaches the Agent only between the activation of its     *)
(* Modules, after the recovery barrier is published, and the first entry   *)
(* of the cleanup list: once the pending-input work, the event sink and    *)
(* the Thread are being closed no callback is running and none can start,  *)
(* whoever began to close and however often that was deferred.  In between *)
(* a notification the gate holds is not forgotten: somebody drains it.     *)
InputWindow ==
    /\ set.activation = "none" => \A p \in Producers : ~CallbackActive(p)
    /\ cleanup > Quiescing =>
         /\ \A p \in Producers : ~CallbackActive(p)
         /\ ~Draining /\ inflight = 0
    /\ mcpGate.active /\ ~mcpGate.closed /\ mcpGate.pending > 0 => Draining \/ ActivationCancelled

(* A start that failed, and a Close that has completed, leave no Module    *)
(* with its processes and connections running.                             *)
NothingLeftRunning ==
    opening.at = "failed" \/ cleanup = CleanedUp => up = {} /\ manager \in {"off", "closed"}

(* "A deferred result leaves later resources untouched so callback callers *)
(* can return safely" (agent.go): a callback of the Observables that has   *)
(* called Close never waits for the deliveries it belongs to, and finds    *)
(* nobody with Set's lock who does, but the pass of BeginClose: that one   *)
(* is not told of by closeRunning, and a delivery that begins after it has *)
(* looked for callbacks makes both wait for ever.                          *)
CallbacksReturn ==
    /\ step["observables"] # "blocked"
    /\ step["observables"] = "lock" /\ setLock # "free" /\ step[setLock] = "blocked" =>
          setLock = "begin"

(* The start and the end of an Agent's Modules (Agent.Close, Set.Quiesce,  *)
(* Set.Close) whoever closes                                               *)
CloseSafe == InputWindow /\ NothingLeftRunning /\ CallbacksReturn

=============================================================================
