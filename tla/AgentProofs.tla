----------------------------- MODULE AgentProofs ----------------------------
(***************************************************************************)
(* Proofs about the work of an Agent around its Threads, for every bound   *)
(* of the specifications: nobody closes what a callback still uses         *)
(* (AgentClose), the results of Workers are not forgotten and nobody opens *)
(* a runtime where a creation or a reuse is at work (WorkerThreads), the   *)
(* MCP servers serve one call at a time and leave no session behind        *)
(* (MCPServers), every probe of a model's health has one owner             *)
(* (ModelFallback), and no policy of a Turn is passed by (TurnPolicies).   *)
(*                                                                         *)
(* The promises of a close are not inductive: they need who holds the lock *)
(* of the Module Set, which goroutine runs the cleanup list, and what a    *)
(* pass over the Modules has found closed when it has deferred nothing.    *)
(* Those of the Workers need what a creation or a reuse may still find at  *)
(* each of its steps, that a Worker's only runtime is the last one that    *)
(* was opened, and that each Turn has one run or one handoff.  Those of    *)
(* the servers need what each caller of a start knows of it, and where a   *)
(* notification can be when the gate is closed; those of the models, what  *)
(* a ticket still tells of the health of its model, and that two attempts  *)
(* never hold one token; those of the policies, what a call has become in  *)
(* each phase of it, and that a candidate of the gate is the task as it    *)
(* is until a Worker comes in between.                                     *)
(***************************************************************************)
EXTENDS MCAgent, FiniteSetTheorems, TLAPS

-----------------------------------------------------------------------------

(* Agent.Close: the inductive invariant *)

CloseSteps == {"idle", "running", "returning", "enter", "clean", "lock", "pass", "blocked",
               "wait", "over", "closed"}
Closers == Actors \ {"begin"}
InClose == {"clean", "lock", "pass", "blocked"}

OpeningStates ==
    [at : {"start", "restore", "activate", "activating", "serving", "failing", "failed"},
     started : 0 .. 2, module : Nat]
SetStates ==
    [activation : {"none", "running", "done"}, cancel : BOOLEAN, stopping : BOOLEAN,
     quiesced : BOOLEAN, closed : BOOLEAN]
Passes == [next : 0 .. 2, deferred : {"none", "activation", "mcp", "observables"}]
Gates ==
    [active : BOOLEAN, closed : BOOLEAN, pending : Nat, drainer : {"none", "opener", "enqueuer"}]

(* The variables of a close have their shapes.                             *)
CloseTyped ==
    /\ opening \in OpeningStates
    /\ up \subseteq Producers
    /\ set \in SetStates
    /\ setLock \in Actors \cup {"free"} /\ closeRun \in Actors \cup {"none"}
    /\ pass \in Passes
    /\ mcpGate \in Gates
    /\ manager \in {"off", "on", "closing", "closed"}
    /\ inflight \in Nat /\ cleanup \in 0 .. 6
    /\ step \in [Actors -> CloseSteps] /\ agentCancelled \in BOOLEAN
    /\ deferral \in [Actors -> {"none", "activation", "mcp", "observables", "close"}]

(* Before every Module is started, and after a start that failed, nobody   *)
(* closes and nothing works; activation runs while the opener activates.   *)
OpeningKnows ==
    /\ opening.at \in {"start", "failed"} =>
          /\ \A x \in Actors : step[x] = "idle"
          /\ setLock = "free" /\ cleanup = 0 /\ manager = "off" /\ ~set.quiesced
    /\ opening.at \in {"start", "restore", "activate"} => set.activation = "none"
    /\ opening.at = "activating" => set.activation = "running"
    /\ opening.at = "failed" => set.activation = "none" /\ up = {}
    /\ opening.at \in {"start", "restore", "activate", "activating", "serving"} => step["opener"] = "idle"
    /\ opening.at \notin {"start", "failed"} => opening.started = 2
    /\ set.closed => set.quiesced \/ opening.at = "failed"

(* Callbacks need a Module that was activated; a manager that is off or    *)
(* closed has no delivery left.                                            *)
ModulesKnow ==
    /\ set.activation = "none" => ~mcpGate.active /\ manager \in {"off", "closed"}
    /\ set.cancel => set.activation # "none"
    /\ Draining => mcpGate.active
    /\ CallbackActive("mcp") => Draining
    /\ manager \in {"off", "closed"} => inflight = 0 /\ ~CallbackActive("observables")
    /\ mcpGate.active /\ ~mcpGate.closed /\ mcpGate.pending > 0 => Draining \/ ActivationCancelled

(* One goroutine runs the cleanup list, one holds the lock of the Set.     *)
CloserKnows ==
    /\ \A x \in Actors : step[x] \in {"pass", "blocked"} <=> setLock = x
    /\ \A x \in Closers : step[x] \in InClose <=> closeRun = x
    /\ closeRun # "begin" /\ step["begin"] \in {"idle", "lock", "pass", "blocked", "over"}
    /\ ~agentCancelled => step["begin"] = "idle"
    /\ \A x \in Closers : step[x] \in {"lock", "pass", "blocked"} => cleanup \in {0, 5}

McpDone == mcpGate.closed /\ ~Draining /\ "mcp" \notin up
ObservablesDone == manager = "closed" /\ "observables" \notin up

(* A pass that defers nothing has quiesced the Modules it has passed, and  *)
(* once the cleanup list is past its first entry both are.                 *)
PassKnows ==
    /\ setLock # "free" /\ pass.deferred = "none" =>
          /\ pass.next < 2 => McpDone
          /\ pass.next < 1 => ObservablesDone
    /\ setLock # "free" /\ step[setLock] = "blocked" => pass.next = 1
    /\ set.quiesced \/ cleanup > 0 => McpDone /\ ObservablesDone

CloseInv == CloseTyped /\ OpeningKnows /\ ModulesKnow /\ CloserKnows /\ PassKnows

(* The Modules that have callbacks, in the order they are started.         *)
LEMMA TheModules == Modules[1] = "observables" /\ Modules[2] = "mcp" /\ Len(Modules) = 2
BY DEF Modules

(* StartRuntime starts the Modules in order, and takes them back when one  *)
(* fails.                                                                  *)
LEMMA StartRuntimeCloses ==
    ASSUME CloseInv, StartRuntime
    PROVE  CloseInv'
<1> USE TheModules DEF CloseInv, CloseTyped, StartRuntime, RollBack, RollBackLast, Draining,
       Started, Actors, Owners, Producers, CloseSteps, OpeningStates, SetStates, Passes, Gates
<1>1. CloseTyped'
  <2>1. opening' \in OpeningStates
    OBVIOUS
  <2>2. up' \subseteq Producers
    OBVIOUS
  <2>3. set' \in SetStates
    BY ZenonT(40)
  <2>4. setLock' \in Actors \cup {"free"} /\ closeRun' \in Actors \cup {"none"}
    OBVIOUS
  <2>5. pass' \in Passes
    OBVIOUS
  <2>6. mcpGate' \in Gates
    OBVIOUS
  <2>7. manager' \in {"off", "on", "closing", "closed"}
    OBVIOUS
  <2>8. inflight' \in Nat /\ cleanup' \in 0 .. 6
    OBVIOUS
  <2>9. step' \in [Actors -> CloseSteps] /\ agentCancelled' \in BOOLEAN
    OBVIOUS
  <2>10. deferral' \in [Actors -> {"none", "activation", "mcp", "observables", "close"}]
    OBVIOUS
  <2>11. QED
    BY <2>1, <2>2, <2>3, <2>4, <2>5, <2>6, <2>7, <2>8, <2>9, <2>10 DEF CloseTyped
<1>2. OpeningKnows'
  BY DEF OpeningKnows, ModulesKnow, CloserKnows, PassKnows, CallbackActive, ActivationCancelled,
     McpDone, ObservablesDone, Closers, InClose
<1>3. ModulesKnow'
  BY DEF OpeningKnows, ModulesKnow, CloserKnows, PassKnows, CallbackActive, ActivationCancelled,
     McpDone, ObservablesDone, Closers, InClose
<1>4. CloserKnows'
  BY DEF OpeningKnows, ModulesKnow, CloserKnows, PassKnows, CallbackActive, ActivationCancelled,
     McpDone, ObservablesDone, Closers, InClose
<1>5. PassKnows'
  BY DEF OpeningKnows, ModulesKnow, CloserKnows, PassKnows, CallbackActive, ActivationCancelled,
     McpDone, ObservablesDone, Closers, InClose
<1>6. QED
  BY <1>1, <1>2, <1>3, <1>4, <1>5 DEF CloseInv

(* The Tools of the Modules are collected, or the Agent is closed again.   *)
LEMMA MaterializeToolCatalogCloses ==
    ASSUME CloseInv, MaterializeToolCatalog
    PROVE  CloseInv'
<1> USE TheModules DEF CloseInv, CloseTyped, MaterializeToolCatalog, RollBack, Draining,
       Started, Actors, Owners, Producers, CloseSteps, OpeningStates, SetStates, Passes, Gates
<1>1. CloseTyped'
  <2>1. opening' \in OpeningStates
    OBVIOUS
  <2>2. up' \subseteq Producers
    OBVIOUS
  <2>3. set' \in SetStates
    BY ZenonT(40)
  <2>4. setLock' \in Actors \cup {"free"} /\ closeRun' \in Actors \cup {"none"}
    OBVIOUS
  <2>5. pass' \in Passes
    OBVIOUS
  <2>6. mcpGate' \in Gates
    OBVIOUS
  <2>7. manager' \in {"off", "on", "closing", "closed"}
    OBVIOUS
  <2>8. inflight' \in Nat /\ cleanup' \in 0 .. 6
    OBVIOUS
  <2>9. step' \in [Actors -> CloseSteps] /\ agentCancelled' \in BOOLEAN
    OBVIOUS
  <2>10. deferral' \in [Actors -> {"none", "activation", "mcp", "observables", "close"}]
    OBVIOUS
  <2>11. QED
    BY <2>1, <2>2, <2>3, <2>4, <2>5, <2>6, <2>7, <2>8, <2>9, <2>10 DEF CloseTyped
<1>2. OpeningKnows'
  BY DEF OpeningKnows, ModulesKnow, CloserKnows, PassKnows, CallbackActive, ActivationCancelled,
     McpDone, ObservablesDone, Closers, InClose
<1>3. ModulesKnow'
  BY DEF OpeningKnows, ModulesKnow, CloserKnows, PassKnows, CallbackActive, ActivationCancelled,
     McpDone, ObservablesDone, Closers, InClose
<1>4. CloserKnows'
  BY DEF OpeningKnows, ModulesKnow, CloserKnows, PassKnows, CallbackActive, ActivationCancelled,
     McpDone, ObservablesDone, Closers, InClose
<1>5. PassKnows'
  BY DEF OpeningKnows, ModulesKnow, CloserKnows, PassKnows, CallbackActive, ActivationCancelled,
     McpDone, ObservablesDone, Closers, InClose
<1>6. QED
  BY <1>1, <1>2, <1>3, <1>4, <1>5 DEF CloseInv

(* The Thread is restored, or the Agent is closed again.                   *)
LEMMA RestoreCloses ==
    ASSUME CloseInv, Restore
    PROVE  CloseInv'
<1> USE TheModules DEF CloseInv, CloseTyped, OpeningStates, SetStates, Passes, Gates, Restore,
       FailOpening, At, Draining, Started, Actors, Owners, Producers, CloseSteps
<1>1. CloseTyped'
  OBVIOUS
<1>2. OpeningKnows'
  BY DEF OpeningKnows, ModulesKnow, CloserKnows, PassKnows, CallbackActive, ActivationCancelled,
     McpDone, ObservablesDone, Closers, InClose
<1>3. ModulesKnow'
  BY DEF OpeningKnows, ModulesKnow, CloserKnows, PassKnows, CallbackActive, ActivationCancelled,
     McpDone, ObservablesDone, Closers, InClose
<1>4. CloserKnows'
  BY DEF OpeningKnows, ModulesKnow, CloserKnows, PassKnows, CallbackActive, ActivationCancelled,
     McpDone, ObservablesDone, Closers, InClose
<1>5. PassKnows'
  BY DEF OpeningKnows, ModulesKnow, CloserKnows, PassKnows, CallbackActive, ActivationCancelled,
     McpDone, ObservablesDone, Closers, InClose
<1>6. QED
  BY <1>1, <1>2, <1>3, <1>4, <1>5 DEF CloseInv

(* Activation begins once the Set can be locked.                           *)
LEMMA BeginActivationCloses ==
    ASSUME CloseInv, BeginActivation
    PROVE  CloseInv'
<1>1. CloseTyped'
  <2>1. opening' \in OpeningStates
    <3>1. CASE set.closed \/ set.quiesced \/ set.stopping
      BY <3>1 DEF CloseInv, CloseTyped, BeginActivation, FailOpening, OpeningStates
    <3>2. CASE ~(set.closed \/ set.quiesced \/ set.stopping)
      <4>1. opening' = [opening EXCEPT !.at = "activating", !.module = 1]
        BY <3>2 DEF BeginActivation
      <4>2. opening \in OpeningStates
        BY DEF CloseInv, CloseTyped
      <4>3. QED
        BY <4>1, <4>2 DEF OpeningStates
    <3>3. QED
      BY <3>1, <3>2
  <2>2. up' \subseteq Producers
    BY TheModules DEF CloseInv, CloseTyped, BeginActivation, FailOpening, At, Draining,
       Started, Actors, Owners, Producers, CloseSteps, OpeningStates, SetStates, Passes, Gates
  <2>3. set' \in SetStates
    BY TheModules DEF CloseInv, CloseTyped, BeginActivation, FailOpening, At, Draining,
       Started, Actors, Owners, Producers, CloseSteps, OpeningStates, SetStates, Passes, Gates
  <2>4. setLock' \in Actors \cup {"free"} /\ closeRun' \in Actors \cup {"none"}
    BY TheModules DEF CloseInv, CloseTyped, BeginActivation, FailOpening, At, Draining,
       Started, Actors, Owners, Producers, CloseSteps, OpeningStates, SetStates, Passes, Gates
  <2>5. pass' \in Passes
    BY TheModules DEF CloseInv, CloseTyped, BeginActivation, FailOpening, At, Draining,
       Started, Actors, Owners, Producers, CloseSteps, OpeningStates, SetStates, Passes, Gates
  <2>6. mcpGate' \in Gates
    BY TheModules DEF CloseInv, CloseTyped, BeginActivation, FailOpening, At, Draining,
       Started, Actors, Owners, Producers, CloseSteps, OpeningStates, SetStates, Passes, Gates
  <2>7. manager' \in {"off", "on", "closing", "closed"}
    BY TheModules DEF CloseInv, CloseTyped, BeginActivation, FailOpening, At, Draining,
       Started, Actors, Owners, Producers, CloseSteps, OpeningStates, SetStates, Passes, Gates
  <2>8. inflight' \in Nat /\ cleanup' \in 0 .. 6
    BY TheModules DEF CloseInv, CloseTyped, BeginActivation, FailOpening, At, Draining,
       Started, Actors, Owners, Producers, CloseSteps, OpeningStates, SetStates, Passes, Gates
  <2>9. step' \in [Actors -> CloseSteps] /\ agentCancelled' \in BOOLEAN
    BY TheModules DEF CloseInv, CloseTyped, BeginActivation, FailOpening, At, Draining,
       Started, Actors, Owners, Producers, CloseSteps, OpeningStates, SetStates, Passes, Gates
  <2>10. deferral' \in [Actors -> {"none", "activation", "mcp", "observables", "close"}]
    BY TheModules DEF CloseInv, CloseTyped, BeginActivation, FailOpening, At, Draining,
       Started, Actors, Owners, Producers, CloseSteps, OpeningStates, SetStates, Passes, Gates
  <2>11. QED
    BY <2>1, <2>2, <2>3, <2>4, <2>5, <2>6, <2>7, <2>8, <2>9, <2>10 DEF CloseTyped
<1>2. OpeningKnows'
  <2>1. CASE set.closed \/ set.quiesced \/ set.stopping
    BY <2>1 DEF CloseInv, CloseTyped, OpeningStates, OpeningKnows, BeginActivation, FailOpening, At, Actors, Owners, Producers
  <2>2. CASE ~(set.closed \/ set.quiesced \/ set.stopping)
    <3>1. /\ opening' = [opening EXCEPT !.at = "activating", !.module = 1]
          /\ set' = [set EXCEPT !.activation = "running"]
          /\ opening.at = "activate" /\ UNCHANGED <<step, up>>
      BY <2>2 DEF BeginActivation
    <3>2. /\ opening'.at = "activating" /\ opening'.started = opening.started
          /\ set'.closed = set.closed /\ set'.quiesced = set.quiesced
      BY <3>1 DEF CloseInv, CloseTyped, OpeningStates, SetStates
    <3>3. QED
      BY <3>1, <3>2, <2>2 DEF CloseInv, OpeningKnows
  <2>3. QED
    BY <2>1, <2>2
<1>3. ModulesKnow'
  BY TheModules DEF CloseInv, CloseTyped, OpeningStates, SetStates, Passes, Gates,
     OpeningKnows, ModulesKnow, CloserKnows, PassKnows, BeginActivation, FailOpening, At,
     Draining, CallbackActive, ActivationCancelled, McpDone, ObservablesDone, Started, Actors, Owners, Producers, Closers, CloseSteps, InClose
<1>4. CloserKnows'
  BY TheModules DEF CloseInv, CloseTyped, OpeningStates, SetStates, Passes, Gates,
     OpeningKnows, ModulesKnow, CloserKnows, PassKnows, BeginActivation, FailOpening, At,
     Draining, CallbackActive, ActivationCancelled, McpDone, ObservablesDone, Started, Actors, Owners, Producers, Closers, CloseSteps, InClose
<1>5. PassKnows'
  BY TheModules DEF CloseInv, CloseTyped, OpeningStates, SetStates, Passes, Gates,
     OpeningKnows, ModulesKnow, CloserKnows, PassKnows, BeginActivation, FailOpening, At,
     Draining, CallbackActive, ActivationCancelled, McpDone, ObservablesDone, Started, Actors, Owners, Producers, Closers, CloseSteps, InClose
<1>6. QED
  BY <1>1, <1>2, <1>3, <1>4, <1>5 DEF CloseInv

(* One Module is activated, or activation fails or is cancelled.           *)
LEMMA ActivateModuleCloses ==
    ASSUME CloseInv, ActivateModule
    PROVE  CloseInv'
<1>1. CloseTyped'
  <2>1. opening' \in OpeningStates
    BY TheModules DEF CloseInv, CloseTyped, ActivateModule, EndActivation, FailOpening, At, Draining,
       Started, Actors, Owners, Producers, CloseSteps, OpeningStates, SetStates, Passes, Gates
  <2>2. up' \subseteq Producers
    BY TheModules DEF CloseInv, CloseTyped, ActivateModule, EndActivation, FailOpening, At, Draining,
       Started, Actors, Owners, Producers, CloseSteps, OpeningStates, SetStates, Passes, Gates
  <2>3. set' \in SetStates
    BY TheModules DEF CloseInv, CloseTyped, ActivateModule, EndActivation, FailOpening, At, Draining,
       Started, Actors, Owners, Producers, CloseSteps, OpeningStates, SetStates, Passes, Gates
  <2>4. setLock' \in Actors \cup {"free"} /\ closeRun' \in Actors \cup {"none"}
    BY TheModules DEF CloseInv, CloseTyped, ActivateModule, EndActivation, FailOpening, At, Draining,
       Started, Actors, Owners, Producers, CloseSteps, OpeningStates, SetStates, Passes, Gates
  <2>5. pass' \in Passes
    BY TheModules DEF CloseInv, CloseTyped, ActivateModule, EndActivation, FailOpening, At, Draining,
       Started, Actors, Owners, Producers, CloseSteps, OpeningStates, SetStates, Passes, Gates
  <2>6. mcpGate' \in Gates
    <3>1. \/ mcpGate' = mcpGate
          \/ mcpGate' = [mcpGate EXCEPT !.active = TRUE, !.drainer = "opener"]
          \/ mcpGate' = [mcpGate EXCEPT !.active = TRUE, !.drainer = mcpGate.drainer]
      BY DEF ActivateModule
    <3>2. mcpGate \in Gates
      BY DEF CloseInv, CloseTyped
    <3>3. QED
      BY <3>1, <3>2 DEF Gates
  <2>7. manager' \in {"off", "on", "closing", "closed"}
    BY TheModules DEF CloseInv, CloseTyped, ActivateModule, EndActivation, FailOpening, At, Draining,
       Started, Actors, Owners, Producers, CloseSteps, OpeningStates, SetStates, Passes, Gates
  <2>8. inflight' \in Nat /\ cleanup' \in 0 .. 6
    BY TheModules DEF CloseInv, CloseTyped, ActivateModule, EndActivation, FailOpening, At, Draining,
       Started, Actors, Owners, Producers, CloseSteps, OpeningStates, SetStates, Passes, Gates
  <2>9. step' \in [Actors -> CloseSteps] /\ agentCancelled' \in BOOLEAN
    BY TheModules DEF CloseInv, CloseTyped, ActivateModule, EndActivation, FailOpening, At, Draining,
       Started, Actors, Owners, Producers, CloseSteps, OpeningStates, SetStates, Passes, Gates
  <2>10. deferral' \in [Actors -> {"none", "activation", "mcp", "observables", "close"}]
    BY TheModules DEF CloseInv, CloseTyped, ActivateModule, EndActivation, FailOpening, At, Draining,
       Started, Actors, Owners, Producers, CloseSteps, OpeningStates, SetStates, Passes, Gates
  <2>11. QED
    BY <2>1, <2>2, <2>3, <2>4, <2>5, <2>6, <2>7, <2>8, <2>9, <2>10 DEF CloseTyped
<1>2. OpeningKnows'
  BY TheModules DEF CloseInv, CloseTyped, OpeningStates, SetStates, Passes, Gates,
     OpeningKnows, ModulesKnow, CloserKnows, PassKnows, ActivateModule, EndActivation, FailOpening, At,
     Draining, CallbackActive, ActivationCancelled, McpDone, ObservablesDone, Started, Actors, Owners, Producers, Closers, CloseSteps, InClose
<1>3. ModulesKnow'
  <2>1. CASE mcpGate' = mcpGate
    <3>1. /\ manager' \in {manager, "on"} /\ opening.at = "activating"
          /\ set' = set \/ set' = [set EXCEPT !.activation = "done"]
          /\ UNCHANGED <<inflight, agentCancelled>>
          /\ manager = "closed" => manager' = "closed"
      BY <2>1 DEF ActivateModule, EndActivation
    <3>2. set'.activation # "none" /\ set'.cancel = set.cancel /\ set.activation # "none"
      BY <3>1 DEF CloseInv, CloseTyped, SetStates, OpeningKnows
    <3>3. step'["mcp"] = step["mcp"] /\ step'["observables"] = step["observables"]
      BY DEF CloseInv, CloseTyped, ActivateModule, EndActivation, FailOpening, At, Actors, Producers, Owners
    <3>4. manager' \in {"off", "closed"} => manager' = manager
      BY <3>1
    <3>5. QED
      BY <2>1, <3>1, <3>2, <3>3, <3>4 DEF CloseInv, ModulesKnow, Draining, CallbackActive, ActivationCancelled
  <2>2. CASE mcpGate' # mcpGate
    <3>1. /\ mcpGate' = [mcpGate EXCEPT !.active = TRUE,
                                        !.drainer = IF ~Draining /\ mcpGate.pending > 0 THEN "opener" ELSE @]
          /\ UNCHANGED <<set, step, manager, inflight, agentCancelled>> /\ opening.at = "activating"
      BY <2>2 DEF ActivateModule
    <3>2. /\ mcpGate'.active /\ mcpGate'.pending = mcpGate.pending /\ mcpGate'.closed = mcpGate.closed
          /\ mcpGate'.drainer = IF ~Draining /\ mcpGate.pending > 0 THEN "opener" ELSE mcpGate.drainer
      BY <3>1 DEF CloseInv, CloseTyped, Gates
    <3>3. set.activation # "none"
      BY <3>1, <2>2, TheModules DEF CloseInv, OpeningKnows, ActivateModule, BeginActivation
    <3>4. QED
      BY <3>1, <3>2, <3>3 DEF CloseInv, ModulesKnow, Draining, CallbackActive, ActivationCancelled
  <2>3. QED
    BY <2>1, <2>2
<1>4. CloserKnows'
  BY TheModules DEF CloseInv, CloseTyped, OpeningStates, SetStates, Passes, Gates,
     OpeningKnows, ModulesKnow, CloserKnows, PassKnows, ActivateModule, EndActivation, FailOpening, At,
     Draining, CallbackActive, ActivationCancelled, McpDone, ObservablesDone, Started, Actors, Owners, Producers, Closers, CloseSteps, InClose
<1>5. PassKnows'
  BY TheModules DEF CloseInv, CloseTyped, OpeningStates, SetStates, Passes, Gates,
     OpeningKnows, ModulesKnow, CloserKnows, PassKnows, ActivateModule, EndActivation, FailOpening, At,
     Draining, CallbackActive, ActivationCancelled, McpDone, ObservablesDone, Started, Actors, Owners, Producers, Closers, CloseSteps, InClose
<1>6. QED
  BY <1>1, <1>2, <1>3, <1>4, <1>5 DEF CloseInv

(* An MCP notification is queued unless the gate is closed.                *)
LEMMA EnqueueNotificationCloses ==
    ASSUME CloseInv, EnqueueNotification
    PROVE  CloseInv'
<1>1. CloseTyped'
  <2>1. opening' \in OpeningStates
    BY TheModules DEF CloseInv, CloseTyped, EnqueueNotification, SendInput, OnlyGate, Draining,
       Started, Actors, Owners, Producers, CloseSteps, OpeningStates, SetStates, Passes, Gates
  <2>2. up' \subseteq Producers
    BY TheModules DEF CloseInv, CloseTyped, EnqueueNotification, SendInput, OnlyGate, Draining,
       Started, Actors, Owners, Producers, CloseSteps, OpeningStates, SetStates, Passes, Gates
  <2>3. set' \in SetStates
    BY TheModules DEF CloseInv, CloseTyped, EnqueueNotification, SendInput, OnlyGate, Draining,
       Started, Actors, Owners, Producers, CloseSteps, OpeningStates, SetStates, Passes, Gates
  <2>4. setLock' \in Actors \cup {"free"} /\ closeRun' \in Actors \cup {"none"}
    BY TheModules DEF CloseInv, CloseTyped, EnqueueNotification, SendInput, OnlyGate, Draining,
       Started, Actors, Owners, Producers, CloseSteps, OpeningStates, SetStates, Passes, Gates
  <2>5. pass' \in Passes
    BY TheModules DEF CloseInv, CloseTyped, EnqueueNotification, SendInput, OnlyGate, Draining,
       Started, Actors, Owners, Producers, CloseSteps, OpeningStates, SetStates, Passes, Gates
  <2>6. mcpGate' \in Gates
    <3>1. \/ mcpGate' = mcpGate
          \/ mcpGate' = [mcpGate EXCEPT !.pending = mcpGate.pending + 1, !.drainer = "enqueuer"]
          \/ mcpGate' = [mcpGate EXCEPT !.pending = mcpGate.pending + 1, !.drainer = mcpGate.drainer]
      BY DEF EnqueueNotification
    <3>2. mcpGate \in Gates /\ mcpGate.pending + 1 \in Nat
      BY DEF CloseInv, CloseTyped, Gates
    <3>3. mcpGate.drainer \in {"none", "opener", "enqueuer"} 
      BY <3>2 DEF Gates
    <3> DEFINE n == mcpGate.pending + 1
               d == mcpGate.drainer
    <3>4. n \in Nat /\ d \in {"none", "opener", "enqueuer"}
      BY <3>2, <3>3
    <3>5. \/ mcpGate' = mcpGate
          \/ mcpGate' = [mcpGate EXCEPT !.pending = n, !.drainer = "enqueuer"]
          \/ mcpGate' = [mcpGate EXCEPT !.pending = n, !.drainer = d]
      BY <3>1
    <3> HIDE DEF n, d
    <3>6. QED
      BY <3>2, <3>4, <3>5 DEF Gates
  <2>7. manager' \in {"off", "on", "closing", "closed"}
    BY TheModules DEF CloseInv, CloseTyped, EnqueueNotification, SendInput, OnlyGate, Draining,
       Started, Actors, Owners, Producers, CloseSteps, OpeningStates, SetStates, Passes, Gates
  <2>8. inflight' \in Nat /\ cleanup' \in 0 .. 6
    BY TheModules DEF CloseInv, CloseTyped, EnqueueNotification, SendInput, OnlyGate, Draining,
       Started, Actors, Owners, Producers, CloseSteps, OpeningStates, SetStates, Passes, Gates
  <2>9. step' \in [Actors -> CloseSteps] /\ agentCancelled' \in BOOLEAN
    BY TheModules DEF CloseInv, CloseTyped, EnqueueNotification, SendInput, OnlyGate, Draining,
       Started, Actors, Owners, Producers, CloseSteps, OpeningStates, SetStates, Passes, Gates
  <2>10. deferral' \in [Actors -> {"none", "activation", "mcp", "observables", "close"}]
    BY TheModules DEF CloseInv, CloseTyped, EnqueueNotification, SendInput, OnlyGate, Draining,
       Started, Actors, Owners, Producers, CloseSteps, OpeningStates, SetStates, Passes, Gates
  <2>11. QED
    BY <2>1, <2>2, <2>3, <2>4, <2>5, <2>6, <2>7, <2>8, <2>9, <2>10 DEF CloseTyped
<1>2. OpeningKnows'
  BY TheModules DEF CloseInv, CloseTyped, OpeningStates, SetStates, Passes, Gates,
     OpeningKnows, ModulesKnow, CloserKnows, PassKnows, EnqueueNotification, SendInput, OnlyGate,
     Draining, CallbackActive, ActivationCancelled, McpDone, ObservablesDone, Started, Actors, Owners, Producers, Closers, CloseSteps, InClose
<1>3. ModulesKnow'
  BY TheModules DEF CloseInv, CloseTyped, OpeningStates, SetStates, Passes, Gates,
     OpeningKnows, ModulesKnow, CloserKnows, PassKnows, EnqueueNotification, SendInput, OnlyGate,
     Draining, CallbackActive, ActivationCancelled, McpDone, ObservablesDone, Started, Actors, Owners, Producers, Closers, CloseSteps, InClose
<1>4. CloserKnows'
  BY TheModules DEF CloseInv, CloseTyped, OpeningStates, SetStates, Passes, Gates,
     OpeningKnows, ModulesKnow, CloserKnows, PassKnows, EnqueueNotification, SendInput, OnlyGate,
     Draining, CallbackActive, ActivationCancelled, McpDone, ObservablesDone, Started, Actors, Owners, Producers, Closers, CloseSteps, InClose
<1>5. PassKnows'
  BY TheModules DEF CloseInv, CloseTyped, OpeningStates, SetStates, Passes, Gates,
     OpeningKnows, ModulesKnow, CloserKnows, PassKnows, EnqueueNotification, SendInput, OnlyGate,
     Draining, CallbackActive, ActivationCancelled, McpDone, ObservablesDone, Started, Actors, Owners, Producers, Closers, CloseSteps, InClose
<1>6. QED
  BY <1>1, <1>2, <1>3, <1>4, <1>5 DEF CloseInv

(* The drainer takes the next notification, or stops.                      *)
LEMMA DrainNotificationCloses ==
    ASSUME CloseInv, DrainNotification
    PROVE  CloseInv'
<1> USE TheModules DEF CloseInv, CloseTyped, OpeningStates, SetStates, Passes, Gates,
       DrainNotification, At, Draining, Started, Actors, Owners, Producers, CloseSteps
<1>1. CloseTyped'
  OBVIOUS
<1>2. OpeningKnows'
  BY DEF OpeningKnows, ModulesKnow, CloserKnows, PassKnows, CallbackActive, ActivationCancelled,
     McpDone, ObservablesDone, Closers, InClose
<1>3. ModulesKnow'
  BY DEF OpeningKnows, ModulesKnow, CloserKnows, PassKnows, CallbackActive, ActivationCancelled,
     McpDone, ObservablesDone, Closers, InClose
<1>4. CloserKnows'
  BY DEF OpeningKnows, ModulesKnow, CloserKnows, PassKnows, CallbackActive, ActivationCancelled,
     McpDone, ObservablesDone, Closers, InClose
<1>5. PassKnows'
  BY DEF OpeningKnows, ModulesKnow, CloserKnows, PassKnows, CallbackActive, ActivationCancelled,
     McpDone, ObservablesDone, Closers, InClose
<1>6. QED
  BY <1>1, <1>2, <1>3, <1>4, <1>5 DEF CloseInv

(* The Observables manager submits an observation.                         *)
LEMMA SubmitDeliveryCloses ==
    ASSUME CloseInv, SubmitDelivery
    PROVE  CloseInv'
<1> USE TheModules DEF CloseInv, CloseTyped, OpeningStates, SetStates, Passes, Gates,
       SubmitDelivery, SendInput, Draining, Started, Actors, Owners, Producers, CloseSteps
<1>1. CloseTyped'
  OBVIOUS
<1>2. OpeningKnows'
  BY DEF OpeningKnows, ModulesKnow, CloserKnows, PassKnows, CallbackActive, ActivationCancelled,
     McpDone, ObservablesDone, Closers, InClose
<1>3. ModulesKnow'
  BY DEF OpeningKnows, ModulesKnow, CloserKnows, PassKnows, CallbackActive, ActivationCancelled,
     McpDone, ObservablesDone, Closers, InClose
<1>4. CloserKnows'
  BY DEF OpeningKnows, ModulesKnow, CloserKnows, PassKnows, CallbackActive, ActivationCancelled,
     McpDone, ObservablesDone, Closers, InClose
<1>5. PassKnows'
  BY DEF OpeningKnows, ModulesKnow, CloserKnows, PassKnows, CallbackActive, ActivationCancelled,
     McpDone, ObservablesDone, Closers, InClose
<1>6. QED
  BY <1>1, <1>2, <1>3, <1>4, <1>5 DEF CloseInv

(* An observation is delivered.                                            *)
LEMMA DeliverObservationCloses ==
    ASSUME CloseInv, DeliverObservation
    PROVE  CloseInv'
<1> USE TheModules DEF CloseInv, CloseTyped, OpeningStates, SetStates, Passes, Gates,
       DeliverObservation, At, Draining, Started, Actors, Owners, Producers, CloseSteps
<1>1. CloseTyped'
  OBVIOUS
<1>2. OpeningKnows'
  BY DEF OpeningKnows, ModulesKnow, CloserKnows, PassKnows, CallbackActive, ActivationCancelled,
     McpDone, ObservablesDone, Closers, InClose
<1>3. ModulesKnow'
  BY DEF OpeningKnows, ModulesKnow, CloserKnows, PassKnows, CallbackActive, ActivationCancelled,
     McpDone, ObservablesDone, Closers, InClose
<1>4. CloserKnows'
  BY DEF OpeningKnows, ModulesKnow, CloserKnows, PassKnows, CallbackActive, ActivationCancelled,
     McpDone, ObservablesDone, Closers, InClose
<1>5. PassKnows'
  BY DEF OpeningKnows, ModulesKnow, CloserKnows, PassKnows, CallbackActive, ActivationCancelled,
     McpDone, ObservablesDone, Closers, InClose
<1>6. QED
  BY <1>1, <1>2, <1>3, <1>4, <1>5 DEF CloseInv

(* An attempt of a close is over.                                          *)
LEMMA CloseAttemptDoneCloses ==
    ASSUME CloseInv, CloseAttemptDone
    PROVE  CloseInv'
<1> USE TheModules DEF CloseInv, CloseTyped, OpeningStates, SetStates, Passes, Gates,
       CloseAttemptDone, Delivered, Draining, Started, Actors, Owners, Producers, CloseSteps
<1>1. CloseTyped'
  OBVIOUS
<1>2. OpeningKnows'
  BY DEF OpeningKnows, ModulesKnow, CloserKnows, PassKnows, CallbackActive, ActivationCancelled,
     McpDone, ObservablesDone, Closers, InClose
<1>3. ModulesKnow'
  BY DEF OpeningKnows, ModulesKnow, CloserKnows, PassKnows, CallbackActive, ActivationCancelled,
     McpDone, ObservablesDone, Closers, InClose
<1>4. CloserKnows'
  BY DEF OpeningKnows, ModulesKnow, CloserKnows, PassKnows, CallbackActive, ActivationCancelled,
     McpDone, ObservablesDone, Closers, InClose
<1>5. PassKnows'
  BY DEF OpeningKnows, ModulesKnow, CloserKnows, PassKnows, CallbackActive, ActivationCancelled,
     McpDone, ObservablesDone, Closers, InClose
<1>6. QED
  BY <1>1, <1>2, <1>3, <1>4, <1>5 DEF CloseInv

(* A callback returns to its Module.                                       *)
LEMMA CallbackReturnsCloses ==
    ASSUME NEW p \in Producers, CloseInv, CallbackReturns(p)
    PROVE  CloseInv'
<1> USE TheModules DEF CloseInv, CloseTyped, OpeningStates, SetStates, Passes, Gates,
       CallbackReturns, At, OnlyStep, Draining, Started, Actors, Owners, Producers, CloseSteps
<1>1. CloseTyped'
  OBVIOUS
<1>2. OpeningKnows'
  BY DEF OpeningKnows, ModulesKnow, CloserKnows, PassKnows, CallbackActive, ActivationCancelled,
     McpDone, ObservablesDone, Closers, InClose
<1>3. ModulesKnow'
  BY DEF OpeningKnows, ModulesKnow, CloserKnows, PassKnows, CallbackActive, ActivationCancelled,
     McpDone, ObservablesDone, Closers, InClose
<1>4. CloserKnows'
  BY DEF OpeningKnows, ModulesKnow, CloserKnows, PassKnows, CallbackActive, ActivationCancelled,
     McpDone, ObservablesDone, Closers, InClose
<1>5. PassKnows'
  BY DEF OpeningKnows, ModulesKnow, CloserKnows, PassKnows, CallbackActive, ActivationCancelled,
     McpDone, ObservablesDone, Closers, InClose
<1>6. QED
  BY <1>1, <1>2, <1>3, <1>4, <1>5 DEF CloseInv

(* A callback closes the Agent.                                            *)
LEMMA CallbackClosesCloses ==
    ASSUME NEW p \in Producers, CloseInv, CallbackCloses(p)
    PROVE  CloseInv'
<1> USE TheModules DEF CloseInv, CloseTyped, OpeningStates, SetStates, Passes, Gates,
       CallbackCloses, At, OnlyStep, Draining, Started, Actors, Owners, Producers, CloseSteps
<1>1. CloseTyped'
  OBVIOUS
<1>2. OpeningKnows'
  BY DEF OpeningKnows, ModulesKnow, CloserKnows, PassKnows, CallbackActive, ActivationCancelled,
     McpDone, ObservablesDone, Closers, InClose
<1>3. ModulesKnow'
  BY DEF OpeningKnows, ModulesKnow, CloserKnows, PassKnows, CallbackActive, ActivationCancelled,
     McpDone, ObservablesDone, Closers, InClose
<1>4. CloserKnows'
  BY DEF OpeningKnows, ModulesKnow, CloserKnows, PassKnows, CallbackActive, ActivationCancelled,
     McpDone, ObservablesDone, Closers, InClose
<1>5. PassKnows'
  BY DEF OpeningKnows, ModulesKnow, CloserKnows, PassKnows, CallbackActive, ActivationCancelled,
     McpDone, ObservablesDone, Closers, InClose
<1>6. QED
  BY <1>1, <1>2, <1>3, <1>4, <1>5 DEF CloseInv

(* The owner of the Agent closes it.                                       *)
LEMMA OwnerClosesCloses ==
    ASSUME CloseInv, OwnerCloses
    PROVE  CloseInv'
<1> USE TheModules DEF CloseInv, CloseTyped, OpeningStates, SetStates, Passes, Gates,
       OwnerCloses, At, OnlyStep, Draining, Started, Actors, Owners, Producers, CloseSteps
<1>1. CloseTyped'
  OBVIOUS
<1>2. OpeningKnows'
  BY DEF OpeningKnows, ModulesKnow, CloserKnows, PassKnows, CallbackActive, ActivationCancelled,
     McpDone, ObservablesDone, Closers, InClose
<1>3. ModulesKnow'
  BY DEF OpeningKnows, ModulesKnow, CloserKnows, PassKnows, CallbackActive, ActivationCancelled,
     McpDone, ObservablesDone, Closers, InClose
<1>4. CloserKnows'
  BY DEF OpeningKnows, ModulesKnow, CloserKnows, PassKnows, CallbackActive, ActivationCancelled,
     McpDone, ObservablesDone, Closers, InClose
<1>5. PassKnows'
  BY DEF OpeningKnows, ModulesKnow, CloserKnows, PassKnows, CallbackActive, ActivationCancelled,
     McpDone, ObservablesDone, Closers, InClose
<1>6. QED
  BY <1>1, <1>2, <1>3, <1>4, <1>5 DEF CloseInv

(* The server begins the close before it waits for it.                     *)
LEMMA ServerBeginsCloseCloses ==
    ASSUME CloseInv, ServerBeginsClose
    PROVE  CloseInv'
<1> USE TheModules DEF CloseInv, CloseTyped, OpeningStates, SetStates, Passes, Gates,
       ServerBeginsClose, BeginClose, Draining, Started, Actors, Owners, Producers, CloseSteps
<1>1. CloseTyped'
  OBVIOUS
<1>2. OpeningKnows'
  BY DEF OpeningKnows, ModulesKnow, CloserKnows, PassKnows, CallbackActive, ActivationCancelled,
     McpDone, ObservablesDone, Closers, InClose
<1>3. ModulesKnow'
  BY DEF OpeningKnows, ModulesKnow, CloserKnows, PassKnows, CallbackActive, ActivationCancelled,
     McpDone, ObservablesDone, Closers, InClose
<1>4. CloserKnows'
  BY DEF OpeningKnows, ModulesKnow, CloserKnows, PassKnows, CallbackActive, ActivationCancelled,
     McpDone, ObservablesDone, Closers, InClose
<1>5. PassKnows'
  BY DEF OpeningKnows, ModulesKnow, CloserKnows, PassKnows, CallbackActive, ActivationCancelled,
     McpDone, ObservablesDone, Closers, InClose
<1>6. QED
  BY <1>1, <1>2, <1>3, <1>4, <1>5 DEF CloseInv

(* A closer becomes the one that cleans up, or waits for it.               *)
LEMMA EnterCloseCloses ==
    ASSUME NEW x \in Actors, CloseInv, EnterClose(x)
    PROVE  CloseInv'
<1>1. CloseTyped'
  <2>1. opening' \in OpeningStates
    BY TheModules DEF CloseInv, CloseTyped, EnterClose, At, Return, BeginClose, Draining,
       Started, Actors, Owners, Producers, CloseSteps, OpeningStates, SetStates, Passes, Gates
  <2>2. up' \subseteq Producers
    BY TheModules DEF CloseInv, CloseTyped, EnterClose, At, Return, BeginClose, Draining,
       Started, Actors, Owners, Producers, CloseSteps, OpeningStates, SetStates, Passes, Gates
  <2>3. set' \in SetStates
    BY TheModules DEF CloseInv, CloseTyped, EnterClose, At, Return, BeginClose, Draining,
       Started, Actors, Owners, Producers, CloseSteps, OpeningStates, SetStates, Passes, Gates
  <2>4. setLock' \in Actors \cup {"free"} /\ closeRun' \in Actors \cup {"none"}
    BY TheModules DEF CloseInv, CloseTyped, EnterClose, At, Return, BeginClose, Draining,
       Started, Actors, Owners, Producers, CloseSteps, OpeningStates, SetStates, Passes, Gates
  <2>5. pass' \in Passes
    BY TheModules DEF CloseInv, CloseTyped, EnterClose, At, Return, BeginClose, Draining,
       Started, Actors, Owners, Producers, CloseSteps, OpeningStates, SetStates, Passes, Gates
  <2>6. mcpGate' \in Gates
    BY TheModules DEF CloseInv, CloseTyped, EnterClose, At, Return, BeginClose, Draining,
       Started, Actors, Owners, Producers, CloseSteps, OpeningStates, SetStates, Passes, Gates
  <2>7. manager' \in {"off", "on", "closing", "closed"}
    BY TheModules DEF CloseInv, CloseTyped, EnterClose, At, Return, BeginClose, Draining,
       Started, Actors, Owners, Producers, CloseSteps, OpeningStates, SetStates, Passes, Gates
  <2>8. inflight' \in Nat /\ cleanup' \in 0 .. 6
    BY TheModules DEF CloseInv, CloseTyped, EnterClose, At, Return, BeginClose, Draining,
       Started, Actors, Owners, Producers, CloseSteps, OpeningStates, SetStates, Passes, Gates
  <2>9. step' \in [Actors -> CloseSteps] /\ agentCancelled' \in BOOLEAN
    <3>1. CASE closeRun # "none"
      BY <3>1 DEF CloseInv, CloseTyped, EnterClose, At, Return, CloseSteps
    <3>2. CASE closeRun = "none"
      BY <3>2 DEF CloseInv, CloseTyped, EnterClose, BeginClose, CloseSteps, Actors
    <3>3. QED
      BY <3>1, <3>2
  <2>10. deferral' \in [Actors -> {"none", "activation", "mcp", "observables", "close"}]
    BY TheModules DEF CloseInv, CloseTyped, EnterClose, At, Return, BeginClose, Draining,
       Started, Actors, Owners, Producers, CloseSteps, OpeningStates, SetStates, Passes, Gates
  <2>11. QED
    BY <2>1, <2>2, <2>3, <2>4, <2>5, <2>6, <2>7, <2>8, <2>9, <2>10 DEF CloseTyped
<1>2. OpeningKnows'
  BY TheModules DEF CloseInv, CloseTyped, OpeningStates, SetStates, Passes, Gates,
     OpeningKnows, ModulesKnow, CloserKnows, PassKnows, EnterClose, At, Return, BeginClose,
     Draining, CallbackActive, ActivationCancelled, McpDone, ObservablesDone, Started, Actors, Owners, Producers, Closers, CloseSteps, InClose
<1>3. ModulesKnow'
  BY TheModules DEF CloseInv, CloseTyped, OpeningStates, SetStates, Passes, Gates,
     OpeningKnows, ModulesKnow, CloserKnows, PassKnows, EnterClose, At, Return, BeginClose,
     Draining, CallbackActive, ActivationCancelled, McpDone, ObservablesDone, Started, Actors, Owners, Producers, Closers, CloseSteps, InClose
<1>4. CloserKnows'
  BY TheModules DEF CloseInv, CloseTyped, OpeningStates, SetStates, Passes, Gates,
     OpeningKnows, ModulesKnow, CloserKnows, PassKnows, EnterClose, At, Return, BeginClose,
     Draining, CallbackActive, ActivationCancelled, McpDone, ObservablesDone, Started, Actors, Owners, Producers, Closers, CloseSteps, InClose
<1>5. PassKnows'
  BY TheModules DEF CloseInv, CloseTyped, OpeningStates, SetStates, Passes, Gates,
     OpeningKnows, ModulesKnow, CloserKnows, PassKnows, EnterClose, At, Return, BeginClose,
     Draining, CallbackActive, ActivationCancelled, McpDone, ObservablesDone, Started, Actors, Owners, Producers, Closers, CloseSteps, InClose
<1>6. QED
  BY <1>1, <1>2, <1>3, <1>4, <1>5 DEF CloseInv

(* The next entry of the cleanup list is done.                             *)
LEMMA CleanCloses ==
    ASSUME NEW x \in Actors, CloseInv, Clean(x)
    PROVE  CloseInv'
<1> USE TheModules DEF CloseInv, CloseTyped, OpeningStates, SetStates, Passes, Gates, Clean, At,
       Return, Quiescing, Closing, CleanedUp, Draining, Started, Actors, Owners, Producers,
       CloseSteps
<1>1. CloseTyped'
  OBVIOUS
<1>2. OpeningKnows'
  BY DEF OpeningKnows, ModulesKnow, CloserKnows, PassKnows, CallbackActive, ActivationCancelled,
     McpDone, ObservablesDone, Closers, InClose
<1>3. ModulesKnow'
  BY DEF OpeningKnows, ModulesKnow, CloserKnows, PassKnows, CallbackActive, ActivationCancelled,
     McpDone, ObservablesDone, Closers, InClose
<1>4. CloserKnows'
  BY DEF OpeningKnows, ModulesKnow, CloserKnows, PassKnows, CallbackActive, ActivationCancelled,
     McpDone, ObservablesDone, Closers, InClose
<1>5. PassKnows'
  BY DEF OpeningKnows, ModulesKnow, CloserKnows, PassKnows, CallbackActive, ActivationCancelled,
     McpDone, ObservablesDone, Closers, InClose
<1>6. QED
  BY <1>1, <1>2, <1>3, <1>4, <1>5 DEF CloseInv

(* A closer of the Modules has the lock of the Set.                        *)
LEMMA LockSetCloses ==
    ASSUME NEW x \in Actors, CloseInv, LockSet(x)
    PROVE  CloseInv'
<1> USE TheModules DEF CloseInv, CloseTyped, LockSet, At, Draining, Started, Actors, Owners,
       Producers, CloseSteps, OpeningStates, SetStates, Passes, Gates
<1>1. CloseTyped'
  <2>1. opening' \in OpeningStates
    OBVIOUS
  <2>2. up' \subseteq Producers
    OBVIOUS
  <2>3. set' \in SetStates
    OBVIOUS
  <2>4. setLock' \in Actors \cup {"free"} /\ closeRun' \in Actors \cup {"none"}
    OBVIOUS
  <2>5. pass' \in Passes
    OBVIOUS
  <2>6. mcpGate' \in Gates
    OBVIOUS
  <2>7. manager' \in {"off", "on", "closing", "closed"}
    OBVIOUS
  <2>8. inflight' \in Nat /\ cleanup' \in 0 .. 6
    OBVIOUS
  <2>9. step' \in [Actors -> CloseSteps] /\ agentCancelled' \in BOOLEAN
    OBVIOUS
  <2>10. deferral' \in [Actors -> {"none", "activation", "mcp", "observables", "close"}]
    OBVIOUS
  <2>11. QED
    BY <2>1, <2>2, <2>3, <2>4, <2>5, <2>6, <2>7, <2>8, <2>9, <2>10 DEF CloseTyped
<1>2. OpeningKnows'
  BY DEF OpeningKnows, ModulesKnow, CloserKnows, PassKnows, CallbackActive, ActivationCancelled,
     McpDone, ObservablesDone, Closers, InClose
<1>3. ModulesKnow'
  BY DEF OpeningKnows, ModulesKnow, CloserKnows, PassKnows, CallbackActive, ActivationCancelled,
     McpDone, ObservablesDone, Closers, InClose
<1>4. CloserKnows'
  BY DEF OpeningKnows, ModulesKnow, CloserKnows, PassKnows, CallbackActive, ActivationCancelled,
     McpDone, ObservablesDone, Closers, InClose
<1>5. PassKnows'
  BY DEF OpeningKnows, ModulesKnow, CloserKnows, PassKnows, CallbackActive, ActivationCancelled,
     McpDone, ObservablesDone, Closers, InClose
<1>6. QED
  BY <1>1, <1>2, <1>3, <1>4, <1>5 DEF CloseInv

(* The next Module is quiesced, waited for or deferred.                    *)
LEMMA QuiesceModuleCloses ==
    ASSUME NEW x \in Actors, CloseInv, QuiesceModule(x)
    PROVE  CloseInv'
<1>1. CloseTyped'
  <2>1. opening' \in OpeningStates
    BY TheModules DEF CloseInv, CloseTyped, QuiesceModule, At, Passed, Draining,
       Started, Actors, Owners, Producers, CloseSteps, OpeningStates, SetStates, Passes, Gates
  <2>2. up' \subseteq Producers
    BY TheModules DEF CloseInv, CloseTyped, QuiesceModule, At, Passed, Draining,
       Started, Actors, Owners, Producers, CloseSteps, OpeningStates, SetStates, Passes, Gates
  <2>3. set' \in SetStates
    BY TheModules DEF CloseInv, CloseTyped, QuiesceModule, At, Passed, Draining,
       Started, Actors, Owners, Producers, CloseSteps, OpeningStates, SetStates, Passes, Gates
  <2>4. setLock' \in Actors \cup {"free"} /\ closeRun' \in Actors \cup {"none"}
    BY TheModules DEF CloseInv, CloseTyped, QuiesceModule, At, Passed, Draining,
       Started, Actors, Owners, Producers, CloseSteps, OpeningStates, SetStates, Passes, Gates
  <2>5. pass' \in Passes
    BY TheModules DEF CloseInv, CloseTyped, QuiesceModule, At, Passed, Draining,
       Started, Actors, Owners, Producers, CloseSteps, OpeningStates, SetStates, Passes, Gates
  <2>6. mcpGate' \in Gates
    <3>1. mcpGate' = mcpGate \/ mcpGate' = [mcpGate EXCEPT !.closed = TRUE, !.pending = 0]
      BY DEF QuiesceModule
    <3>2. mcpGate \in Gates
      BY DEF CloseInv, CloseTyped
    <3>3. CASE mcpGate' = [mcpGate EXCEPT !.closed = TRUE, !.pending = 0]
      BY <3>2, <3>3 DEF Gates
    <3>4. QED
      BY <3>1, <3>2, <3>3
  <2>7. manager' \in {"off", "on", "closing", "closed"}
    BY TheModules DEF CloseInv, CloseTyped, QuiesceModule, At, Passed, Draining,
       Started, Actors, Owners, Producers, CloseSteps, OpeningStates, SetStates, Passes, Gates
  <2>8. inflight' \in Nat /\ cleanup' \in 0 .. 6
    BY TheModules DEF CloseInv, CloseTyped, QuiesceModule, At, Passed, Draining,
       Started, Actors, Owners, Producers, CloseSteps, OpeningStates, SetStates, Passes, Gates
  <2>9. step' \in [Actors -> CloseSteps] /\ agentCancelled' \in BOOLEAN
    BY TheModules DEF CloseInv, CloseTyped, QuiesceModule, At, Passed, Draining,
       Started, Actors, Owners, Producers, CloseSteps, OpeningStates, SetStates, Passes, Gates
  <2>10. deferral' \in [Actors -> {"none", "activation", "mcp", "observables", "close"}]
    BY TheModules DEF CloseInv, CloseTyped, QuiesceModule, At, Passed, Draining,
       Started, Actors, Owners, Producers, CloseSteps, OpeningStates, SetStates, Passes, Gates
  <2>11. QED
    BY <2>1, <2>2, <2>3, <2>4, <2>5, <2>6, <2>7, <2>8, <2>9, <2>10 DEF CloseTyped
<1>2. OpeningKnows'
  BY TheModules DEF CloseInv, CloseTyped, OpeningStates, SetStates, Passes, Gates,
     OpeningKnows, ModulesKnow, CloserKnows, PassKnows, QuiesceModule, At, Passed,
     Draining, CallbackActive, ActivationCancelled, McpDone, ObservablesDone, Started, Actors, Owners, Producers, Closers, CloseSteps, InClose
<1>3. ModulesKnow'
  <2>1. CASE Modules[pass.next] = "mcp"
    <3>1. /\ mcpGate' = [mcpGate EXCEPT !.closed = TRUE, !.pending = 0]
          /\ UNCHANGED <<manager, step, set, inflight, agentCancelled>>
      BY <2>1 DEF QuiesceModule
    <3>2. mcpGate'.closed /\ mcpGate'.active = mcpGate.active /\ mcpGate'.drainer = mcpGate.drainer
      BY <3>1 DEF CloseInv, CloseTyped, Gates
    <3>3. QED
      BY <3>1, <3>2 DEF CloseInv, ModulesKnow, Draining, CallbackActive, ActivationCancelled
  <2>2. CASE Modules[pass.next] # "mcp"
    BY <2>2 DEF CloseInv, CloseTyped, ModulesKnow, OpeningKnows, CloserKnows, QuiesceModule, At, Draining, CallbackActive, ActivationCancelled, Actors, Owners, Producers
  <2>3. QED
    BY <2>1, <2>2
<1>4. CloserKnows'
  BY TheModules DEF CloseInv, CloseTyped, OpeningStates, SetStates, Passes, Gates,
     OpeningKnows, ModulesKnow, CloserKnows, PassKnows, QuiesceModule, At, Passed,
     Draining, CallbackActive, ActivationCancelled, McpDone, ObservablesDone, Started, Actors, Owners, Producers, Closers, CloseSteps, InClose
<1>5. PassKnows'
  <2>1. CASE Modules[pass.next] = "mcp"
    <3>1. /\ mcpGate' = [mcpGate EXCEPT !.closed = TRUE, !.pending = 0]
          /\ UNCHANGED <<manager, step, set, cleanup, setLock>>
          /\ up' = IF Draining THEN up ELSE up \ {"mcp"}
          /\ Passed(IF Draining THEN "mcp" ELSE "none") /\ setLock = x /\ step[x] = "pass"
      BY <2>1 DEF QuiesceModule
    <3>2. mcpGate'.closed /\ mcpGate'.active = mcpGate.active /\ mcpGate'.drainer = mcpGate.drainer
      BY <3>1 DEF CloseInv, CloseTyped, Gates
    <3>3. pass.next = 2
      BY <2>1, TheModules DEF CloseInv, CloseTyped, Passes, QuiesceModule
    <3>4. /\ pass'.next = 1
          /\ pass'.deferred = "none" => ~Draining
      BY <3>1, <3>3 DEF Passed
    <3>5. QED
      BY <3>1, <3>2, <3>4 DEF CloseInv, PassKnows, Draining, McpDone, ObservablesDone
  <2>2. CASE Modules[pass.next] # "mcp"
    BY <2>2, TheModules DEF CloseInv, CloseTyped, Passes, ModulesKnow, OpeningKnows, CloserKnows, PassKnows, QuiesceModule, Passed, At, Draining, CallbackActive,
       McpDone, ObservablesDone
  <2>3. QED
    BY <2>1, <2>2
<1>6. QED
  BY <1>1, <1>2, <1>3, <1>4, <1>5 DEF CloseInv

(* The Observables manager has closed with its last delivery.              *)
LEMMA ManagerClosedCloses ==
    ASSUME NEW x \in Actors, CloseInv, ManagerClosed(x)
    PROVE  CloseInv'
<1>1. CloseTyped'
  <2>1. opening' \in OpeningStates
    BY TheModules DEF CloseInv, CloseTyped, ManagerClosed, At, Passed, Draining,
       Started, Actors, Owners, Producers, CloseSteps, OpeningStates, SetStates, Passes, Gates
  <2>2. up' \subseteq Producers
    BY TheModules DEF CloseInv, CloseTyped, ManagerClosed, At, Passed, Draining,
       Started, Actors, Owners, Producers, CloseSteps, OpeningStates, SetStates, Passes, Gates
  <2>3. set' \in SetStates
    BY TheModules DEF CloseInv, CloseTyped, ManagerClosed, At, Passed, Draining,
       Started, Actors, Owners, Producers, CloseSteps, OpeningStates, SetStates, Passes, Gates
  <2>4. setLock' \in Actors \cup {"free"} /\ closeRun' \in Actors \cup {"none"}
    BY TheModules DEF CloseInv, CloseTyped, ManagerClosed, At, Passed, Draining,
       Started, Actors, Owners, Producers, CloseSteps, OpeningStates, SetStates, Passes, Gates
  <2>5. pass' \in Passes
    <3>1. pass \in Passes /\ pass.next = 1
      BY DEF CloseInv, CloseTyped, CloserKnows, PassKnows, ManagerClosed, Actors, Owners, Producers
    <3>2. QED
      BY <3>1 DEF ManagerClosed, Passed, Passes
  <2>6. mcpGate' \in Gates
    BY TheModules DEF CloseInv, CloseTyped, ManagerClosed, At, Passed, Draining,
       Started, Actors, Owners, Producers, CloseSteps, OpeningStates, SetStates, Passes, Gates
  <2>7. manager' \in {"off", "on", "closing", "closed"}
    BY TheModules DEF CloseInv, CloseTyped, ManagerClosed, At, Passed, Draining,
       Started, Actors, Owners, Producers, CloseSteps, OpeningStates, SetStates, Passes, Gates
  <2>8. inflight' \in Nat /\ cleanup' \in 0 .. 6
    BY TheModules DEF CloseInv, CloseTyped, ManagerClosed, At, Passed, Draining,
       Started, Actors, Owners, Producers, CloseSteps, OpeningStates, SetStates, Passes, Gates
  <2>9. step' \in [Actors -> CloseSteps] /\ agentCancelled' \in BOOLEAN
    BY TheModules DEF CloseInv, CloseTyped, ManagerClosed, At, Passed, Draining,
       Started, Actors, Owners, Producers, CloseSteps, OpeningStates, SetStates, Passes, Gates
  <2>10. deferral' \in [Actors -> {"none", "activation", "mcp", "observables", "close"}]
    BY TheModules DEF CloseInv, CloseTyped, ManagerClosed, At, Passed, Draining,
       Started, Actors, Owners, Producers, CloseSteps, OpeningStates, SetStates, Passes, Gates
  <2>11. QED
    BY <2>1, <2>2, <2>3, <2>4, <2>5, <2>6, <2>7, <2>8, <2>9, <2>10 DEF CloseTyped
<1>2. OpeningKnows'
  BY TheModules DEF CloseInv, CloseTyped, OpeningStates, SetStates, Passes, Gates,
     OpeningKnows, ModulesKnow, CloserKnows, PassKnows, ManagerClosed, At, Passed,
     Draining, CallbackActive, ActivationCancelled, McpDone, ObservablesDone, Started, Actors, Owners, Producers, Closers, CloseSteps, InClose
<1>3. ModulesKnow'
  BY TheModules DEF CloseInv, CloseTyped, OpeningStates, SetStates, Passes, Gates,
     OpeningKnows, ModulesKnow, CloserKnows, PassKnows, ManagerClosed, At, Passed,
     Draining, CallbackActive, ActivationCancelled, McpDone, ObservablesDone, Started, Actors, Owners, Producers, Closers, CloseSteps, InClose
<1>4. CloserKnows'
  BY TheModules DEF CloseInv, CloseTyped, OpeningStates, SetStates, Passes, Gates,
     OpeningKnows, ModulesKnow, CloserKnows, PassKnows, ManagerClosed, At, Passed,
     Draining, CallbackActive, ActivationCancelled, McpDone, ObservablesDone, Started, Actors, Owners, Producers, Closers, CloseSteps, InClose
<1>5. PassKnows'
  BY TheModules DEF CloseInv, CloseTyped, OpeningStates, SetStates, Passes, Gates,
     OpeningKnows, ModulesKnow, CloserKnows, PassKnows, ManagerClosed, At, Passed,
     Draining, CallbackActive, ActivationCancelled, McpDone, ObservablesDone, Started, Actors, Owners, Producers, Closers, CloseSteps, InClose
<1>6. QED
  BY <1>1, <1>2, <1>3, <1>4, <1>5 DEF CloseInv

(* A pass over the Modules ends with or without something deferred.        *)
LEMMA EndPassCloses ==
    ASSUME NEW x \in Actors, CloseInv, EndPass(x)
    PROVE  CloseInv'
<1>1. CloseTyped'
  <2>1. opening' \in OpeningStates
    BY TheModules DEF CloseInv, CloseTyped, EndPass, At, Return, PassCompleted, NoPass, Closing, Draining,
       Started, Actors, Owners, Producers, CloseSteps, OpeningStates, SetStates, Passes, Gates
  <2>2. up' \subseteq Producers
    BY TheModules DEF CloseInv, CloseTyped, EndPass, At, Return, PassCompleted, NoPass, Closing, Draining,
       Started, Actors, Owners, Producers, CloseSteps, OpeningStates, SetStates, Passes, Gates
  <2>3. set' \in SetStates
    <3>1. \/ set' = set
          \/ set' = [set EXCEPT !.quiesced = TRUE,
                                !.closed = set.closed \/ (x # "begin" /\ cleanup = Closing)]
      BY DEF EndPass
    <3>2. set \in SetStates
      BY DEF CloseInv, CloseTyped
    <3>3. QED
      BY <3>1, <3>2 DEF SetStates
  <2>4. setLock' \in Actors \cup {"free"} /\ closeRun' \in Actors \cup {"none"}
    BY TheModules DEF CloseInv, CloseTyped, EndPass, At, Return, PassCompleted, NoPass, Closing, Draining,
       Started, Actors, Owners, Producers, CloseSteps, OpeningStates, SetStates, Passes, Gates
  <2>5. pass' \in Passes
    BY TheModules DEF CloseInv, CloseTyped, EndPass, At, Return, PassCompleted, NoPass, Closing, Draining,
       Started, Actors, Owners, Producers, CloseSteps, OpeningStates, SetStates, Passes, Gates
  <2>6. mcpGate' \in Gates
    BY TheModules DEF CloseInv, CloseTyped, EndPass, At, Return, PassCompleted, NoPass, Closing, Draining,
       Started, Actors, Owners, Producers, CloseSteps, OpeningStates, SetStates, Passes, Gates
  <2>7. manager' \in {"off", "on", "closing", "closed"}
    BY TheModules DEF CloseInv, CloseTyped, EndPass, At, Return, PassCompleted, NoPass, Closing, Draining,
       Started, Actors, Owners, Producers, CloseSteps, OpeningStates, SetStates, Passes, Gates
  <2>8. inflight' \in Nat /\ cleanup' \in 0 .. 6
    BY DEF CloseInv, CloseTyped, CloserKnows, EndPass, Closers, PassCompleted
  <2>9. step' \in [Actors -> CloseSteps] /\ agentCancelled' \in BOOLEAN
    BY TheModules DEF CloseInv, CloseTyped, EndPass, At, Return, PassCompleted, NoPass, Closing, Draining,
       Started, Actors, Owners, Producers, CloseSteps, OpeningStates, SetStates, Passes, Gates
  <2>10. deferral' \in [Actors -> {"none", "activation", "mcp", "observables", "close"}]
    BY TheModules DEF CloseInv, CloseTyped, EndPass, At, Return, PassCompleted, NoPass, Closing, Draining,
       Started, Actors, Owners, Producers, CloseSteps, OpeningStates, SetStates, Passes, Gates
  <2>11. QED
    BY <2>1, <2>2, <2>3, <2>4, <2>5, <2>6, <2>7, <2>8, <2>9, <2>10 DEF CloseTyped
<1>2. OpeningKnows'
  <2>1. step[x] = "pass" /\ UNCHANGED <<opening, up, manager>>
    BY DEF EndPass
  <2>2. opening.at \notin {"start", "failed"}
    BY <2>1 DEF CloseInv, OpeningKnows
  <2>3. x = "opener" => opening.at \notin {"restore", "activate", "activating", "serving"}
    BY <2>1 DEF CloseInv, OpeningKnows
  <2>4. /\ set'.activation = set.activation
        /\ set'.closed => set.closed \/ set'.quiesced
        /\ set.quiesced => set'.quiesced
    BY DEF CloseInv, CloseTyped, SetStates, EndPass
  <2>5. x # "opener" => step'["opener"] = step["opener"]
    BY DEF CloseInv, CloseTyped, EndPass, At, Actors, Owners
  <2>6. QED
    BY <2>1, <2>2, <2>3, <2>4, <2>5 DEF CloseInv, OpeningKnows
<1>3. ModulesKnow'
  <2>1. UNCHANGED <<mcpGate, manager, inflight, agentCancelled>>
    BY DEF EndPass
  <2>2. set'.activation = set.activation /\ set'.cancel = set.cancel
    BY DEF CloseInv, CloseTyped, SetStates, EndPass
  <2>3. \A p \in Producers : CallbackActive(p)' => CallbackActive(p)
    BY DEF CloseInv, CloseTyped, EndPass, At, Actors, Producers, CallbackActive
  <2>4. QED
    BY <2>1, <2>2, <2>3 DEF CloseInv, ModulesKnow, Draining, CallbackActive, ActivationCancelled, Producers
<1>4. CloserKnows'
  BY TheModules DEF CloseInv, CloseTyped, OpeningStates, SetStates, Passes, Gates,
     OpeningKnows, ModulesKnow, CloserKnows, PassKnows, EndPass, At, Return, PassCompleted, NoPass, Closing,
     Draining, CallbackActive, ActivationCancelled, McpDone, ObservablesDone, Started, Actors, Owners, Producers, Closers, CloseSteps, InClose
<1>5. PassKnows'
  BY TheModules DEF CloseInv, CloseTyped, OpeningStates, SetStates, Passes, Gates,
     OpeningKnows, ModulesKnow, CloserKnows, PassKnows, EndPass, At, Return, PassCompleted, NoPass, Closing,
     Draining, CallbackActive, ActivationCancelled, McpDone, ObservablesDone, Started, Actors, Owners, Producers, Closers, CloseSteps, InClose
<1>6. QED
  BY <1>1, <1>2, <1>3, <1>4, <1>5 DEF CloseInv

(* A closer goes round again when what was deferred has ended.             *)
LEMMA WaitDeferredCloses ==
    ASSUME NEW x \in Actors, CloseInv, WaitDeferred(x)
    PROVE  CloseInv'
<1> USE TheModules DEF CloseInv, CloseTyped, OpeningStates, SetStates, Passes, Gates,
       WaitDeferred, At, OnlyStep, Draining, Started, Actors, Owners, Producers, CloseSteps
<1>1. CloseTyped'
  OBVIOUS
<1>2. OpeningKnows'
  BY DEF OpeningKnows, ModulesKnow, CloserKnows, PassKnows, CallbackActive, ActivationCancelled,
     McpDone, ObservablesDone, Closers, InClose
<1>3. ModulesKnow'
  BY DEF OpeningKnows, ModulesKnow, CloserKnows, PassKnows, CallbackActive, ActivationCancelled,
     McpDone, ObservablesDone, Closers, InClose
<1>4. CloserKnows'
  BY DEF OpeningKnows, ModulesKnow, CloserKnows, PassKnows, CallbackActive, ActivationCancelled,
     McpDone, ObservablesDone, Closers, InClose
<1>5. PassKnows'
  BY DEF OpeningKnows, ModulesKnow, CloserKnows, PassKnows, CallbackActive, ActivationCancelled,
     McpDone, ObservablesDone, Closers, InClose
<1>6. QED
  BY <1>1, <1>2, <1>3, <1>4, <1>5 DEF CloseInv


(* An Agent that is opened satisfies the invariant.                        *)
LEMMA CloseStarts == CInit => CloseInv
<1> SUFFICES ASSUME CInit
             PROVE  CloseInv
  OBVIOUS
<1>1. CloseTyped
  <2>1. opening \in OpeningStates /\ set \in SetStates
    BY DEF CInit, OpeningStates, SetStates
  <2>2. pass \in Passes /\ mcpGate \in Gates
    BY DEF CInit, Passes, Gates, NoPass, GateShut
  <2>3. step \in [Actors -> CloseSteps]
    BY DEF CInit, CloseSteps
  <2>4. deferral \in [Actors -> {"none", "activation", "mcp", "observables", "close"}]
    BY DEF CInit
  <2>5. inflight \in Nat /\ cleanup \in 0 .. 6
    BY DEF CInit, Quiescing
  <2>6. QED
    BY <2>1, <2>2, <2>3, <2>4, <2>5 DEF CInit, CloseTyped
<1>2. OpeningKnows
  BY DEF CInit, OpeningKnows, Quiescing, Actors, Owners
<1>3. ModulesKnow
  BY DEF CInit, ModulesKnow, GateShut, Draining, CallbackActive, Actors, Producers
<1>4. CloserKnows
  BY DEF CInit, CloserKnows, Actors, Owners, Producers, Closers, InClose
<1>5. PassKnows
  BY DEF CInit, PassKnows, Quiescing
<1>6. QED
  BY <1>1, <1>2, <1>3, <1>4, <1>5 DEF CloseInv

(* Every step of opening, callbacks and closing keeps the invariant.       *)
LEMMA CloseKeeps == CloseInv /\ [CNext]_cvars => CloseInv'
<1> SUFFICES ASSUME CloseInv, [CNext]_cvars
             PROVE  CloseInv'
  OBVIOUS
<1>1. CASE UNCHANGED cvars
  BY <1>1 DEF cvars, CloseInv, CloseTyped, OpeningKnows, ModulesKnow, CloserKnows, PassKnows,
     Draining, CallbackActive, ActivationCancelled, McpDone, ObservablesDone
<1>2. ASSUME NEW p \in Producers, CallbackReturns(p) \/ CallbackCloses(p)
      PROVE  CloseInv'
  BY <1>2, CallbackReturnsCloses, CallbackClosesCloses
<1>3. ASSUME NEW x \in Actors, CloseStep(x)
      PROVE  CloseInv'
  BY <1>3, EnterCloseCloses, CleanCloses, LockSetCloses, QuiesceModuleCloses, ManagerClosedCloses,
     EndPassCloses, WaitDeferredCloses DEF CloseStep
<1>4. QED
  BY <1>1, <1>2, <1>3, StartRuntimeCloses, MaterializeToolCatalogCloses, RestoreCloses,
     BeginActivationCloses, ActivateModuleCloses, EnqueueNotificationCloses,
     DrainNotificationCloses, SubmitDeliveryCloses, DeliverObservationCloses,
     CloseAttemptDoneCloses, OwnerClosesCloses, ServerBeginsCloseCloses DEF CNext

(* What the invariant says of inputs and of what is left running.          *)
LEMMA CloseIsSafe == CloseInv => CTypeOK /\ InputWindow /\ NothingLeftRunning
<1> SUFFICES ASSUME CloseInv
             PROVE  CTypeOK /\ InputWindow /\ NothingLeftRunning
  OBVIOUS
<1>1. CTypeOK
  BY DEF CloseInv, CloseTyped, CTypeOK, OpeningStates, Quiescing, CleanedUp
<1>2. InputWindow
  BY DEF CloseInv, CloseTyped, ModulesKnow, PassKnows, InputWindow, McpDone, ObservablesDone,
     Producers, Quiescing
<1>3. NothingLeftRunning
  BY DEF CloseInv, CloseTyped, OpeningKnows, PassKnows, NothingLeftRunning, McpDone,
     ObservablesDone, Producers, CleanedUp
<1>4. QED
  BY <1>1, <1>2, <1>3

ObservablesDefer == step["observables"] # "blocked"

(* A pass that a callback of the Observables runs is deferred by them.     *)
LEMMA ObservablesStayDeferred ==
    ASSUME CloseInv, ObservablesDefer, [CNext]_cvars
    PROVE  ObservablesDefer'
<1> USE DEF ObservablesDefer, At, CloseInv, CloseTyped
<1>1. ASSUME NEW x \in Actors, CloseStep(x)
      PROVE  ObservablesDefer'
  <2>1. "observables" \in Actors /\ "observables" # "begin" /\ "observables" \notin Owners
    BY DEF Actors, Owners, Producers
  <2>2. CASE EnterClose(x)
    BY <2>1, <2>2 DEF EnterClose, BeginClose, Return
  <2>3. CASE Clean(x) \/ LockSet(x)
    BY <2>1, <2>3 DEF Clean, LockSet, Return
  <2>4. CASE QuiesceModule(x)
    <3>1. CASE x = "observables"
      <4>1. CallbackActive("observables") /\ manager # "closed"
        BY <2>4, <3>1 DEF QuiesceModule, CallbackActive, ModulesKnow
      <4>2. QED
        BY <2>4, <3>1, <4>1 DEF QuiesceModule
    <3>2. CASE x # "observables"
      BY <2>1, <2>4, <3>2 DEF QuiesceModule
    <3> QED BY <3>1, <3>2
  <2>5. CASE ManagerClosed(x)
    BY <2>1, <2>5 DEF ManagerClosed
  <2>6. CASE EndPass(x) \/ WaitDeferred(x)
    BY <2>1, <2>6 DEF EndPass, WaitDeferred, Return
  <2>7. QED
    BY <1>1, <2>2, <2>3, <2>4, <2>5, <2>6 DEF CloseStep
<1>2. ASSUME NEW p \in Producers, CallbackReturns(p) \/ CallbackCloses(p)
      PROVE  ObservablesDefer'
  BY <1>2 DEF CallbackReturns, CallbackCloses, Producers, Actors
<1>3. QED
  BY <1>1, <1>2 DEF CNext, cvars, StartRuntime, MaterializeToolCatalog, Restore, BeginActivation, FailOpening,
     ActivateModule, EndActivation, EnqueueNotification, OnlyGate, DrainNotification, SubmitDelivery,
     DeliverObservation, CloseAttemptDone, OwnerCloses, ServerBeginsClose, BeginClose, Actors, Owners, Producers

(* Two goroutines are never inside Close: who else holds Set's lock runs   *)
(* the pass of BeginClose.                                                 *)
LEMMA CallbacksAreLetGo == CloseInv /\ ObservablesDefer => CallbacksReturn
<1> SUFFICES ASSUME CloseInv, ObservablesDefer, step["observables"] = "lock", setLock # "free",
                    step[setLock] = "blocked"
             PROVE  setLock = "begin"
  BY DEF ObservablesDefer, CallbacksReturn
<1>1. setLock \in Actors /\ setLock # "observables"
  BY DEF CloseInv, CloseTyped
<1>2. "observables" \in Closers /\ closeRun = "observables"
  BY DEF CloseInv, CloserKnows, Closers, InClose, Actors, Owners, Producers
<1>3. setLock \notin Closers
  BY <1>1, <1>2 DEF CloseInv, CloserKnows, InClose
<1> QED BY <1>1, <1>3 DEF Closers, Actors, Owners, Producers

-----------------------------------------------------------------------------
(* Worker Threads: the inductive invariant *)

WorkerStates ==
    [app : 0 .. MaxApps, state : {"none", "running", "idle", "failed"}, subscribed : BOOLEAN,
     handoffs : Int, turn : 0 .. MaxRuns]
CreationSteps == {"none", "drain", "open", "abandoned", "register", "admit", "start", "undo",
                  "handedOver"}
Creations == [step : CreationSteps, reuse : BOOLEAN, subscribe : BOOLEAN]
DrainReasons == {"stop", "archive", "nobody", "reuse", "creation", "cleanup"}
Handoffs == [id : WorkerIds, app : 1 .. MaxApps, turn : 1 .. MaxRuns]

(* The variables of the manager have their shapes.                         *)
WorkersTyped ==
    /\ worker \in [WorkerIds -> WorkerStates]
    /\ creation \in [WorkerIds -> Creations]
    /\ apps \in [WorkerIds -> 0 .. MaxApps] /\ turns \in [WorkerIds -> 0 .. MaxRuns]
    /\ reserved \subseteq WorkerIds /\ onDisk \subseteq WorkerIds /\ http \subseteq WorkerIds
    /\ alive \subseteq WorkerIds \X (1 .. MaxApps)
    /\ drains \subseteq [id : WorkerIds, app : 1 .. MaxApps, for : DrainReasons]
    /\ runs \subseteq [id : WorkerIds, app : 1 .. MaxApps, turn : 1 .. MaxRuns,
                       step : {"executing", "returned"}]
    /\ results \subseteq Handoffs /\ IsFiniteSet(results)
    /\ closing \in {"open", "closing", "released"}

(* What a creation or a reuse knows at its step.                           *)
CreationKnows(id) ==
    /\ id \in reserved <=> creation[id].step # "none"
    /\ creation[id].step = "none" => creation[id] = NoCreation
    /\ creation[id].step \in {"drain", "open", "abandoned"} => apps[id] < MaxApps
    /\ creation[id].step \in {"register", "admit", "start", "undo"} => apps[id] > 0
    /\ creation[id].step \in {"drain", "open", "register", "abandoned", "handedOver"} => ~Manages(id)
    /\ creation[id].step \in {"open", "register", "abandoned"} => \A d \in drains : d.id # id
    /\ creation[id].step \in {"open", "abandoned"} => \A a \in alive : a[1] # id
    /\ creation[id].step = "register" => \A h \in results : ~(h.id = id /\ h.app = apps[id])
    /\ id \in onDisk => creation[id].step # "none" \/ apps[id] > 0
    /\ creation[id].reuse => apps[id] > 0
    /\ closing # "open" => creation[id].step \in {"none", "abandoned", "handedOver"} /\ ~Manages(id)

(* A Worker has at most one runtime, the last one that was opened, and it  *)
(* is managed, reserved or being stopped.                                  *)
RuntimesKnown ==
    /\ \A id \in WorkerIds : worker[id].app \in {0, apps[id]}
    /\ \A a \in alive : a[2] = apps[a[1]]
    /\ \A d \in drains :
          /\ d.app = apps[d.id] /\ ~Manages(d.id)
          /\ d.for = "creation" => creation[d.id].step = "undo"
          /\ d.for = "reuse" <=> creation[d.id].step = "drain"
          /\ d.for = "cleanup" <=> creation[d.id].step = "handedOver"
    /\ \A a \in alive :
          \/ Manages(a[1]) \/ a[1] \in reserved
          \/ \E d \in drains : d.id = a[1] /\ d.for \in {"stop", "archive", "nobody"}
    /\ \A id \in http : id \notin reserved /\ ~Manages(id) /\ apps[id] > 0

(* Each run and each handoff is one Turn of its Worker.                    *)
RunsCounted ==
    /\ \A r \in runs : r.turn <= turns[r.id]
    /\ \A r, q \in runs : r.id = q.id /\ r.turn = q.turn => r = q
    /\ \A h \in results : h.app <= apps[h.id] /\ h.turn <= turns[h.id]
    /\ \A h \in results, r \in runs : ~(h.id = r.id /\ h.turn = r.turn)

(* The results of one runtime that are on the books.                       *)
BookedOf(books, id, app) == {h \in books : h.id = id /\ h.app = app}
Booked(books, id, app) == Cardinality(BookedOf(books, id, app))

(* Every handoff on the books is still under way, and each Worker's count  *)
(* is that of the books.                                                   *)
BooksAgree ==
    /\ \A h \in results : h \in deliveries \cup queued
    /\ \A id \in WorkerIds : Manages(id) =>
          worker[id].handoffs = Booked(results, id, worker[id].app)

WorkersInv ==
    /\ WorkersTyped
    /\ \A id \in WorkerIds : CreationKnows(id)
    /\ RuntimesKnown /\ RunsCounted
    /\ BooksAgree /\ ParentReleased

(* What the run checks of the handoffs is what the invariant says.         *)
LEMMA BooksAreBacked == BooksAgree <=> HandoffsBacked
BY DEF BooksAgree, HandoffsBacked, Booked, BookedOf

(* Books that agree on a runtime have the same count of it.                *)
LEMMA BookedSame ==
    ASSUME NEW S, NEW T, NEW id, NEW app,
           \A h \in S \cup T : h.id = id /\ h.app = app => (h \in S <=> h \in T)
    PROVE  Booked(S, id, app) = Booked(T, id, app)
<1>1. BookedOf(S, id, app) = BookedOf(T, id, app)
  BY DEF BookedOf
<1>2. QED
  BY <1>1 DEF Booked

(* Books without a result of a runtime count none.                         *)
LEMMA BookedNone ==
    ASSUME NEW S, NEW id, NEW app, \A h \in S : ~(h.id = id /\ h.app = app)
    PROVE  Booked(S, id, app) = 0
<1>1. BookedOf(S, id, app) = {}
  BY DEF BookedOf
<1>2. QED
  BY <1>1, FS_EmptySet DEF Booked

(* The results of a runtime are as finite as the books.                    *)
LEMMA BookedFinite ==
    ASSUME NEW S, IsFiniteSet(S), NEW id, NEW app
    PROVE  IsFiniteSet(BookedOf(S, id, app)) /\ Booked(S, id, app) \in Nat
<1>1. BookedOf(S, id, app) \subseteq S
  BY DEF BookedOf
<1>2. QED
  BY <1>1, FS_Subset, FS_CardinalityType DEF Booked

(* A result that is put on the books is counted for its runtime.           *)
LEMMA BookedOne ==
    ASSUME NEW S, IsFiniteSet(S), NEW h, h \notin S
    PROVE  Booked(S \cup {h}, h.id, h.app) = Booked(S, h.id, h.app) + 1
<1>1. BookedOf(S \cup {h}, h.id, h.app) = BookedOf(S, h.id, h.app) \cup {h}
  BY DEF BookedOf
<1>2. h \notin BookedOf(S, h.id, h.app)
  BY DEF BookedOf
<1>3. QED
  BY <1>1, <1>2, BookedFinite, FS_AddElement DEF Booked

(* A result that is taken off the books is not counted any more.           *)
LEMMA BookedLess ==
    ASSUME NEW S, IsFiniteSet(S), NEW h \in S
    PROVE  Booked(S \ {h}, h.id, h.app) = Booked(S, h.id, h.app) - 1
<1>1. BookedOf(S \ {h}, h.id, h.app) = BookedOf(S, h.id, h.app) \ {h}
  BY DEF BookedOf
<1>2. h \in BookedOf(S, h.id, h.app)
  BY DEF BookedOf
<1>3. Booked(S \ {h}, h.id, h.app) = Booked(S, h.id, h.app) - 1
  <2>1. IsFiniteSet(BookedOf(S, h.id, h.app))
    BY BookedFinite
  <2>2. QED
    BY <1>1, <1>2, <2>1, FS_RemoveElement DEF Booked
<1>4. QED
  BY <1>3

-----------------------------------------------------------------------------
(* What the procedures of the manager change *)

(* removeCurrent: one Worker is not managed any more, and its results are  *)
(* off the books.                                                          *)
LEMMA WorkerRemoved ==
    ASSUME WorkersTyped, NEW id \in WorkerIds, RemoveWorker(id)
    PROVE  /\ worker' \in [WorkerIds -> WorkerStates]
           /\ worker'[id] = NotManaged
           /\ \A k \in WorkerIds : k # id => worker'[k] = worker[k]
           /\ results' \subseteq results /\ IsFiniteSet(results')
           /\ \A h \in results : h.id # id => h \in results'
           /\ \A h \in results' : ~(h.id = id /\ h.app = worker[id].app)
<1>1. NotManaged \in WorkerStates
  BY WorkerBounds DEF NotManaged, WorkerStates
<1>2. results' \subseteq results
  BY DEF RemoveWorker
<1>3. IsFiniteSet(results')
  BY <1>2, FS_Subset DEF WorkersTyped
<1>4. QED
  BY <1>1, <1>2, <1>3 DEF WorkersTyped, RemoveWorker

(* Advance changes the step of one creation.                               *)
LEMMA CreationAdvanced ==
    ASSUME WorkersTyped, NEW id \in WorkerIds, NEW at \in CreationSteps, Advance(id, at)
    PROVE  /\ creation' \in [WorkerIds -> Creations]
           /\ creation'[id].step = at /\ creation'[id].reuse = creation[id].reuse
           /\ \A k \in WorkerIds : k # id => creation'[k] = creation[k]
<1> DEFINE c == [creation[id] EXCEPT !.step = at]
<1>1. creation[id] \in Creations
  BY DEF WorkersTyped
<1>2. c \in Creations /\ c.step = at /\ c.reuse = creation[id].reuse
  BY <1>1 DEF Creations
<1>3. creation' = [creation EXCEPT ![id] = c]
  BY DEF Advance
<1> HIDE DEF c
<1>4. QED
  BY <1>2, <1>3 DEF WorkersTyped

(* The end of a creation gives its reservation back.                       *)
LEMMA CreationEnded ==
    ASSUME WorkersTyped, NEW id \in WorkerIds, EndCreation(id)
    PROVE  /\ creation' \in [WorkerIds -> Creations]
           /\ creation'[id] = NoCreation /\ creation'[id].step = "none"
           /\ creation'[id].reuse = FALSE
           /\ \A k \in WorkerIds : k # id => creation'[k] = creation[k]
           /\ reserved' = reserved \ {id}
<1>1. NoCreation \in Creations /\ NoCreation.step = "none" /\ NoCreation.reuse = FALSE
  BY DEF NoCreation, Creations, CreationSteps
<1>2. QED
  BY <1>1 DEF EndCreation, WorkersTyped

(* startRun counts one more Turn of a Worker and keeps its runtime and its *)
(* handoffs.                                                               *)
LEMMA RunStarted ==
    ASSUME WorkersTyped, NEW id \in WorkerIds, turns[id] < MaxRuns, Manages(id), StartRun(id)
    PROVE  /\ worker' \in [WorkerIds -> WorkerStates]
           /\ worker'[id].app = worker[id].app /\ worker'[id].handoffs = worker[id].handoffs
           /\ \A k \in WorkerIds : k # id => worker'[k] = worker[k]
           /\ turns' \in [WorkerIds -> 0 .. MaxRuns] /\ turns'[id] = turns[id] + 1
           /\ \A k \in WorkerIds : k # id => turns'[k] = turns[k]
           /\ RunOf(id, worker[id].app, turns[id] + 1, "executing") \in
                 [id : WorkerIds, app : 1 .. MaxApps, turn : 1 .. MaxRuns,
                  step : {"executing", "returned"}]
<1> DEFINE n == turns[id] + 1
           w == [worker[id] EXCEPT !.turn = n, !.state = "running"]
<1>1. worker[id] \in WorkerStates /\ n \in 1 .. MaxRuns /\ n \in 0 .. MaxRuns
  BY WorkerBounds DEF WorkersTyped
<1> HIDE DEF n
<1>2. w \in WorkerStates /\ w.app = worker[id].app /\ w.handoffs = worker[id].handoffs
  BY <1>1 DEF WorkerStates
<1>3. worker' = [worker EXCEPT ![id] = w]
  BY DEF StartRun, WorkersTyped, n
<1> HIDE DEF w
<1>4. turns' = [turns EXCEPT ![id] = n]
  BY DEF StartRun, n
<1>5. worker[id].app \in 1 .. MaxApps
  BY <1>1, WorkerBounds DEF WorkerStates, Manages
<1>6. RunOf(id, worker[id].app, n, "executing") \in
         [id : WorkerIds, app : 1 .. MaxApps, turn : 1 .. MaxRuns, step : {"executing", "returned"}]
  BY <1>1, <1>5 DEF RunOf
<1>7. QED
  BY <1>1, <1>2, <1>3, <1>4, <1>6, WorkerBounds DEF WorkersTyped, n

-----------------------------------------------------------------------------
(* Every operation keeps the invariant *)

(* A creation that is given up takes its Worker back and stops it.         *)
LEMMA CreationGivenUp ==
    ASSUME WorkersInv, NEW id \in WorkerIds, creation[id].step \in {"register", "admit", "start"}, GiveUp(id),
           UNCHANGED <<reserved, results, closing, alive, runs, deliveries, queued, onDisk, http,
                       apps, turns>>
    PROVE  WorkersInv'
<1> DEFINE d == Drain(id, apps[id], "creation")
<1>1. WorkersTyped /\ CreationKnows(id) /\ RuntimesKnown
  BY DEF WorkersInv
<1>2. /\ creation' \in [WorkerIds -> Creations] /\ creation'[id].step = "undo"
      /\ creation'[id].reuse = creation[id].reuse
      /\ \A k \in WorkerIds : k # id => creation'[k] = creation[k]
  BY <1>1, CreationAdvanced DEF GiveUp, CreationSteps
<1>3. /\ worker' \in [WorkerIds -> WorkerStates] /\ worker'[id].app = 0
      /\ \A k \in WorkerIds : k # id => worker'[k] = worker[k]
  <2>1. NotManaged \in WorkerStates /\ NotManaged.app = 0
    BY WorkerBounds DEF NotManaged, WorkerStates
  <2>2. CASE worker[id].app = apps[id]
    BY <1>1, <2>1, <2>2 DEF GiveUp, WorkersTyped
  <2>3. CASE worker[id].app # apps[id]
    BY <1>1, <2>3 DEF GiveUp, WorkersTyped, RuntimesKnown
  <2>4. QED
    BY <2>2, <2>3
<1>4. /\ d.id = id /\ d.app = apps[id] /\ d.for = "creation" /\ drains' = drains \cup {d}
      /\ d \in [id : WorkerIds, app : 1 .. MaxApps, for : DrainReasons]
  BY <1>1, WorkerBounds DEF GiveUp, Drain, DrainReasons, CreationKnows, WorkersTyped
<1> HIDE DEF d
<1>5. WorkersTyped'
  BY <1>1, <1>2, <1>3, <1>4 DEF WorkersTyped
<1>6. \A k \in WorkerIds : CreationKnows(k)'
  BY <1>2, <1>3, <1>4 DEF WorkersInv, CreationKnows, Manages
<1>7. RuntimesKnown'
  <2>1. \A k \in WorkerIds : worker'[k].app \in {0, apps[k]}
    BY <1>1, <1>3 DEF RuntimesKnown
  <2>2. \A e \in drains' : /\ e.app = apps[e.id] /\ ~Manages(e.id)'
                           /\ e.for = "creation" => creation'[e.id].step = "undo"
                           /\ e.for = "reuse" <=> creation'[e.id].step = "drain"
                           /\ e.for = "cleanup" <=> creation'[e.id].step = "handedOver"
    BY <1>1, <1>2, <1>3, <1>4 DEF RuntimesKnown, WorkersTyped, Manages
  <2>3. \A a \in alive : \/ Manages(a[1])' \/ a[1] \in reserved
                         \/ \E e \in drains' : e.id = a[1] /\ e.for \in {"stop", "archive", "nobody"}
    BY <1>1, <1>3, <1>4 DEF RuntimesKnown, WorkersTyped, Manages, CreationKnows
  <2>4. \A k \in http : k \notin reserved /\ ~Manages(k)' /\ apps[k] > 0
    BY <1>1, <1>3 DEF RuntimesKnown, WorkersTyped, Manages
  <2>5. QED
    BY <1>1, <2>1, <2>2, <2>3, <2>4 DEF RuntimesKnown
<1>8. RunsCounted' /\ BooksAgree' /\ ParentReleased'
  BY <1>3 DEF WorkersInv, RunsCounted, BooksAgree, ParentReleased, Manages
<1>9. QED
  BY <1>5, <1>6, <1>7, <1>8 DEF WorkersInv

(* The next Turn of a managed Worker starts.                               *)
LEMMA RunAdded ==
    ASSUME WorkersInv, NEW id \in WorkerIds, Manages(id), turns[id] < MaxRuns, StartRun(id),
           \/ UNCHANGED <<creation, reserved>>
           \/ creation[id].step = "start" /\ EndCreation(id),
           UNCHANGED <<results, closing, drains, alive, deliveries, queued, onDisk, http, apps>>
    PROVE  WorkersInv'
<1> DEFINE r == RunOf(id, worker[id].app, turns[id] + 1, "executing")
<1>1. WorkersTyped /\ CreationKnows(id) /\ RuntimesKnown /\ RunsCounted
  BY DEF WorkersInv
<1>2. /\ worker' \in [WorkerIds -> WorkerStates]
      /\ worker'[id].app = worker[id].app /\ worker'[id].handoffs = worker[id].handoffs
      /\ \A k \in WorkerIds : k # id => worker'[k] = worker[k]
      /\ turns' \in [WorkerIds -> 0 .. MaxRuns] /\ turns'[id] = turns[id] + 1
      /\ \A k \in WorkerIds : k # id => turns'[k] = turns[k]
      /\ r \in [id : WorkerIds, app : 1 .. MaxApps, turn : 1 .. MaxRuns,
                step : {"executing", "returned"}]
  BY <1>1, RunStarted
<1>3. runs' = runs \cup {r} /\ r.id = id /\ r.turn = turns[id] + 1
  BY DEF StartRun, RunOf
<1> HIDE DEF r
<1>4. /\ creation' \in [WorkerIds -> Creations]
      /\ \A k \in WorkerIds : k # id => creation'[k] = creation[k] /\ (k \in reserved' <=> k \in reserved)
      /\ \/ creation' = creation /\ reserved' = reserved
         \/ /\ creation'[id] = NoCreation /\ creation'[id].step = "none" /\ id \notin reserved'
            /\ creation[id].step = "start" /\ creation'[id].reuse = FALSE
      /\ reserved' \subseteq reserved
  <2>1. CASE UNCHANGED <<creation, reserved>>
    <3>1. creation' = creation /\ reserved' = reserved
      BY <2>1
    <3>2. creation \in [WorkerIds -> Creations]
      BY <1>1 DEF WorkersTyped
    <3>3. creation' \in [WorkerIds -> Creations]
      BY <3>1, <3>2
    <3>4. \A k \in WorkerIds : creation'[k] = creation[k] /\ (k \in reserved' <=> k \in reserved)
      BY <3>1
    <3>5. QED
      BY <3>1, <3>3, <3>4
  <2>2. CASE creation[id].step = "start" /\ EndCreation(id)
    <3>1. /\ creation' \in [WorkerIds -> Creations]
          /\ creation'[id] = NoCreation /\ creation'[id].step = "none"
          /\ creation'[id].reuse = FALSE
          /\ \A k \in WorkerIds : k # id => creation'[k] = creation[k]
          /\ reserved' = reserved \ {id}
      BY <1>1, <2>2, CreationEnded
    <3>2. QED
      BY <2>2, <3>1
  <2>3. QED
    BY <2>1, <2>2
<1>5. WorkersTyped'
  BY <1>1, <1>2, <1>3, <1>4 DEF WorkersTyped
<1>6. \A k \in WorkerIds : worker'[k].app = worker[k].app /\ worker'[k].handoffs = worker[k].handoffs
  BY <1>2
<1>7. \A k \in WorkerIds : CreationKnows(k)'
  <2>1. \A k \in WorkerIds : k # id => CreationKnows(k)'
    BY <1>4, <1>6 DEF WorkersInv, CreationKnows, Manages
  <2>2. CreationKnows(id)'
    BY <1>1, <1>4, <1>6 DEF CreationKnows, Manages, RuntimesKnown
  <2>3. QED
    BY <2>1, <2>2
<1>8. RuntimesKnown'
  BY <1>1, <1>4, <1>6 DEF WorkersTyped, RuntimesKnown, Manages
<1>9. RunsCounted'
  <2>1. \A k \in WorkerIds : turns[k] \in Nat /\ turns'[k] \in Nat /\ turns[k] <= turns'[k]
    BY <1>1, <1>2, WorkerBounds DEF WorkersTyped
  <2>2. \A q \in runs : q.id \in WorkerIds /\ q.turn \in Nat /\ q.turn <= turns[q.id]
    BY <1>1, WorkerBounds DEF WorkersTyped, RunsCounted
  <2>3. \A h \in results : h.id \in WorkerIds /\ h.turn \in Nat /\ h.turn <= turns[h.id]
    BY <1>1, WorkerBounds DEF WorkersTyped, Handoffs, RunsCounted
  <2>4. \A q \in runs : ~(q.id = r.id /\ q.turn = r.turn)
    BY <1>3, <2>1, <2>2
  <2>5. \A h \in results : ~(h.id = r.id /\ h.turn = r.turn)
    BY <1>3, <2>1, <2>3
  <2>6. \A q \in runs' : q.turn <= turns'[q.id]
    BY <1>2, <1>3, <2>1, <2>2
  <2>7. \A h \in results' : h.app <= apps'[h.id] /\ h.turn <= turns'[h.id]
    BY <1>1, <2>1, <2>3 DEF RunsCounted
  <2>8. QED
    BY <1>1, <1>3, <2>4, <2>5, <2>6, <2>7 DEF RunsCounted
<1>10. BooksAgree' /\ ParentReleased'
  BY <1>6 DEF WorkersInv, BooksAgree, ParentReleased, Manages
<1>11. QED
  BY <1>5, <1>7, <1>8, <1>9, <1>10 DEF WorkersInv

(* A Worker is taken out of the books to be stopped for a reason.          *)
LEMMA WorkerStopped ==
    ASSUME WorkersInv, NEW id \in WorkerIds, NEW why \in DrainReasons, Manages(id), RemoveWorker(id),
           drains' = drains \cup {Drain(id, worker[id].app, why)},
           \/ why \in {"stop", "archive"} /\ UNCHANGED <<creation, reserved>>
           \/ /\ why = "reuse" /\ creation[id] = NoCreation /\ reserved' = reserved \cup {id}
              /\ creation' = [creation EXCEPT ![id] = [NoCreation EXCEPT !.step = "drain", !.reuse = TRUE]]
              /\ apps[id] < MaxApps,
           closing = "open",
           UNCHANGED <<closing, alive, runs, deliveries, queued, onDisk, http, apps, turns>>
    PROVE  WorkersInv'
<1> DEFINE d == Drain(id, worker[id].app, why)
<1>1. WorkersTyped /\ CreationKnows(id) /\ RuntimesKnown /\ RunsCounted /\ BooksAgree
  BY DEF WorkersInv
<1>2. /\ worker' \in [WorkerIds -> WorkerStates]
      /\ worker'[id] = NotManaged
      /\ \A k \in WorkerIds : k # id => worker'[k] = worker[k]
      /\ results' \subseteq results /\ IsFiniteSet(results')
      /\ \A h \in results : h.id # id => h \in results'
  BY <1>1, WorkerRemoved
<1>3. worker'[id].app = 0 /\ worker[id].app = apps[id] /\ apps[id] \in 1 .. MaxApps
  BY <1>1, <1>2, WorkerBounds DEF NotManaged, Manages, RuntimesKnown, WorkersTyped
<1>4. /\ d.id = id /\ d.app = apps[id] /\ d.for = why /\ drains' = drains \cup {d}
      /\ d \in [id : WorkerIds, app : 1 .. MaxApps, for : DrainReasons]
  BY <1>3 DEF Drain
<1> HIDE DEF d
<1>5. /\ creation' \in [WorkerIds -> Creations]
      /\ \A k \in WorkerIds : k # id => creation'[k] = creation[k] /\ (k \in reserved' <=> k \in reserved)
      /\ reserved' \subseteq WorkerIds
      /\ \/ why \in {"stop", "archive"} /\ UNCHANGED <<creation, reserved>>
         \/ why = "reuse" /\ creation[id].step = "none" /\ creation'[id].step = "drain"
            /\ id \in reserved' /\ apps[id] < MaxApps
  <2>1. CASE why \in {"stop", "archive"}
    BY <1>1, <2>1 DEF WorkersTyped
  <2>2. CASE why = "reuse"
    <3> DEFINE c == [NoCreation EXCEPT !.step = "drain", !.reuse = TRUE]
    <3>1. c \in Creations /\ c.step = "drain" /\ NoCreation.step = "none"
      BY DEF NoCreation, Creations, CreationSteps
    <3>2. creation' = [creation EXCEPT ![id] = c]
      BY <2>2
    <3> HIDE DEF c
    <3>3. QED
      BY <1>1, <2>2, <3>1, <3>2 DEF WorkersTyped
  <2>3. QED
    BY <2>1, <2>2
<1>6. WorkersTyped'
  BY <1>1, <1>2, <1>4, <1>5 DEF WorkersTyped
<1>7. \A k \in WorkerIds : CreationKnows(k)'
  <2>1. \A k \in WorkerIds : k # id => CreationKnows(k)'
    BY <1>2, <1>4, <1>5 DEF WorkersInv, CreationKnows, Manages
  <2>2. CreationKnows(id)'
    BY <1>1, <1>2, <1>3, <1>4, <1>5 DEF WorkersTyped, CreationKnows, Manages
  <2>3. QED
    BY <2>1, <2>2
<1>8. RuntimesKnown'
  <2>1. \A e \in drains : e.id # id
    BY <1>1 DEF RuntimesKnown, Manages
  <2>2. \A k \in WorkerIds : worker'[k].app \in {0, apps[k]}
    BY <1>1, <1>2, <1>3 DEF RuntimesKnown
  <2>3. \A e \in drains' : /\ e.app = apps[e.id] /\ ~Manages(e.id)'
                           /\ e.for = "creation" => creation'[e.id].step = "undo"
                           /\ e.for = "reuse" <=> creation'[e.id].step = "drain"
                           /\ e.for = "cleanup" <=> creation'[e.id].step = "handedOver"
    BY <1>1, <1>2, <1>3, <1>4, <1>5, <2>1 DEF RuntimesKnown, WorkersTyped, Manages, CreationKnows
  <2>4. \A a \in alive : \/ Manages(a[1])' \/ a[1] \in reserved'
                         \/ \E e \in drains' : e.id = a[1] /\ e.for \in {"stop", "archive", "nobody"}
    <3> SUFFICES ASSUME NEW a \in alive
                 PROVE  \/ Manages(a[1])' \/ a[1] \in reserved'
                        \/ \E e \in drains' : e.id = a[1] /\ e.for \in {"stop", "archive", "nobody"}
      OBVIOUS
    <3>1. CASE a[1] = id
      BY <3>1, <1>4, <1>5
    <3>2. CASE a[1] # id
      BY <3>2, <1>1, <1>2, <1>4, <1>5 DEF RuntimesKnown, WorkersTyped, Manages
    <3>3. QED
      BY <3>1, <3>2
  <2>5. \A k \in http : k \notin reserved' /\ ~Manages(k)' /\ apps[k] > 0
    BY <1>1, <1>2, <1>3, <1>5 DEF RuntimesKnown, WorkersTyped, Manages
  <2>6. QED
    BY <1>1, <2>2, <2>3, <2>4, <2>5 DEF RuntimesKnown
<1>9. RunsCounted'
  BY <1>1, <1>2 DEF RunsCounted
<1>10. BooksAgree'
  <2>1. \A k \in WorkerIds : Manages(k)' => k # id /\ Manages(k)
    BY <1>2, <1>3 DEF Manages
  <2>2. ASSUME NEW k \in WorkerIds, Manages(k)'
        PROVE  worker'[k].handoffs = Booked(results', k, worker'[k].app)
    <3>1. k # id /\ Manages(k) /\ worker'[k] = worker[k]
      BY <2>1, <2>2, <1>2
    <3>2. Booked(results', k, worker[k].app) = Booked(results, k, worker[k].app)
      BY <1>2, <3>1, BookedSame
    <3>3. QED
      BY <1>1, <3>1, <3>2 DEF BooksAgree
  <2>3. QED
    BY <1>1, <1>2, <2>2 DEF BooksAgree
<1>11. ParentReleased'
  BY DEF WorkersInv, ParentReleased
<1>12. QED
  BY <1>6, <1>7, <1>8, <1>9, <1>10, <1>11 DEF WorkersInv

(* A creation ends and leaves no runtime of its Worker behind.             *)
LEMMA CreationLeft ==
    ASSUME WorkersInv, NEW id \in WorkerIds, EndCreation(id), ~Manages(id),
           onDisk' = Undone(id) \/ (onDisk' = onDisk /\ apps[id] > 0),
           alive' \subseteq alive, \A a \in alive' : a[1] # id,
           drains' \subseteq drains, \A e \in drains : e.id # id => e \in drains',
           \A e \in drains' : e.id = id => e.for \in {"stop", "archive", "nobody"},
           UNCHANGED <<worker, results, closing, runs, deliveries, queued, http, apps, turns>>
    PROVE  WorkersInv'
<1>1. WorkersTyped /\ CreationKnows(id) /\ RuntimesKnown /\ RunsCounted /\ BooksAgree
  BY DEF WorkersInv
<1>2. /\ creation' \in [WorkerIds -> Creations] /\ creation'[id] = NoCreation
      /\ creation'[id].step = "none" /\ creation'[id].reuse = FALSE
      /\ \A k \in WorkerIds : k # id => creation'[k] = creation[k]
      /\ reserved' = reserved \ {id}
  BY <1>1, CreationEnded
<1>3. onDisk' \subseteq onDisk /\ (id \in onDisk' => apps[id] > 0)
      /\ \A k \in WorkerIds : k # id => (k \in onDisk' => k \in onDisk)
  BY <1>1 DEF Undone, CreationKnows
<1>4. WorkersTyped'
  BY <1>1, <1>2, <1>3 DEF WorkersTyped
<1>5. \A k \in WorkerIds : CreationKnows(k)'
  <2>1. \A k \in WorkerIds : k # id => CreationKnows(k)'
    BY <1>2, <1>3 DEF WorkersInv, CreationKnows, Manages
  <2>2. CreationKnows(id)'
    BY <1>1, <1>2, <1>3 DEF CreationKnows, Manages
  <2>3. QED
    BY <2>1, <2>2
<1>6. RuntimesKnown'
  <2>1. \A e \in drains' : /\ e.app = apps[e.id] /\ ~Manages(e.id)'
                           /\ e.for = "creation" => creation'[e.id].step = "undo"
                           /\ e.for = "reuse" <=> creation'[e.id].step = "drain"
                           /\ e.for = "cleanup" <=> creation'[e.id].step = "handedOver"
    BY <1>1, <1>2 DEF RuntimesKnown, WorkersTyped, Manages
  <2>2. \A a \in alive' : \/ Manages(a[1])' \/ a[1] \in reserved'
                          \/ \E e \in drains' : e.id = a[1] /\ e.for \in {"stop", "archive", "nobody"}
    BY <1>1, <1>2 DEF RuntimesKnown, WorkersTyped, Manages
  <2>3. \A k \in http : k \notin reserved' /\ ~Manages(k)' /\ apps[k] > 0
    BY <1>1, <1>2 DEF RuntimesKnown, Manages
  <2>4. QED
    BY <1>1, <2>1, <2>2, <2>3 DEF RuntimesKnown
<1>7. RunsCounted' /\ BooksAgree' /\ ParentReleased'
  BY DEF WorkersInv, RunsCounted, BooksAgree, ParentReleased, Manages
<1>8. QED
  BY <1>4, <1>5, <1>6, <1>7 DEF WorkersInv

(* A new Worker is reserved before its runtime is opened.                  *)
LEMMA ReserveWorkerWorks ==
    ASSUME NEW id \in WorkerIds, NEW b \in BOOLEAN, WorkersInv, ReserveWorker(id, b)
    PROVE  WorkersInv'
<1> DEFINE c == [step |-> "open", reuse |-> FALSE, subscribe |-> b]
<1>1. WorkersTyped /\ CreationKnows(id) /\ RuntimesKnown
  BY DEF WorkersInv
<1>2. /\ c \in Creations /\ c.step = "open" /\ c.reuse = FALSE
      /\ NoCreation.step = "none"
  BY DEF Creations, CreationSteps, NoCreation
<1>3. creation' = [creation EXCEPT ![id] = c]
  BY DEF ReserveWorker
<1> HIDE DEF c
<1>4. /\ creation' \in [WorkerIds -> Creations] /\ creation'[id] = c /\ creation[id].step = "none"
      /\ \A k \in WorkerIds : k # id => creation'[k] = creation[k]
  BY <1>1, <1>2, <1>3 DEF WorkersTyped, ReserveWorker
<1>5. /\ apps[id] = 0 /\ closing = "open" /\ worker[id].app = 0
      /\ onDisk' = onDisk \cup {id} /\ reserved' = reserved \cup {id}
  BY <1>1 DEF ReserveWorker, Open, RuntimesKnown
<1>6. (\A e \in drains : e.id # id) /\ (\A a \in alive : a[1] # id)
  BY <1>1, <1>5, WorkerBounds DEF WorkersTyped, RuntimesKnown
<1>7. UNCHANGED <<worker, results, closing, drains, alive, runs, deliveries, queued, http, apps, turns>>
  BY DEF ReserveWorker
<1>8. WorkersTyped'
  BY <1>1, <1>4, <1>5, <1>7 DEF WorkersTyped
<1>9. \A k \in WorkerIds : CreationKnows(k)'
  <2>1. \A k \in WorkerIds : k # id => CreationKnows(k)'
    BY <1>4, <1>5, <1>7 DEF WorkersInv, CreationKnows, Manages
  <2>2. CreationKnows(id)'
    BY <1>1, <1>2, <1>4, <1>5, <1>6, <1>7, WorkerBounds DEF CreationKnows, Manages
  <2>3. QED
    BY <2>1, <2>2
<1>10. RuntimesKnown'
  <2>1. \A e \in drains : /\ e.app = apps[e.id] /\ ~Manages(e.id)
                          /\ e.for = "creation" => creation'[e.id].step = "undo"
                          /\ e.for = "reuse" <=> creation'[e.id].step = "drain"
                          /\ e.for = "cleanup" <=> creation'[e.id].step = "handedOver"
    BY <1>1, <1>4, <1>6 DEF RuntimesKnown, WorkersTyped
  <2>2. \A k \in http : k \notin reserved' /\ ~Manages(k) /\ apps[k] > 0
    BY <1>1, <1>5 DEF RuntimesKnown
  <2>3. QED
    BY <1>1, <1>5, <1>7, <2>1, <2>2 DEF RuntimesKnown, Manages
<1>11. RunsCounted' /\ BooksAgree' /\ ParentReleased'
  BY <1>7 DEF WorkersInv, RunsCounted, BooksAgree, ParentReleased, Manages
<1>12. QED
  BY <1>8, <1>9, <1>10, <1>11 DEF WorkersInv

(* A settled Worker is reserved for its reuse and its runtime is stopped.  *)
LEMMA ReserveReusableWorks ==
    ASSUME NEW id \in WorkerIds, WorkersInv, ReserveReusable(id)
    PROVE  WorkersInv'
<1>1. "reuse" \in DrainReasons
  BY DEF DrainReasons
<1>2. QED
  BY <1>1, WorkerStopped DEF ReserveReusable, Open

(* The child runtime is there, or could not be opened.                     *)
LEMMA ChildOpenedWorks ==
    ASSUME NEW id \in WorkerIds, WorkersInv, ChildOpened(id)
    PROVE  WorkersInv'
<1>1. WorkersTyped /\ CreationKnows(id) /\ RuntimesKnown /\ RunsCounted /\ BooksAgree
  BY DEF WorkersInv
<1>2. /\ creation[id].step = "open" /\ ~Manages(id) /\ id \in reserved /\ apps[id] < MaxApps
      /\ worker[id].app = 0 /\ closing = "open"
      /\ (\A e \in drains : e.id # id) /\ (\A a \in alive : a[1] # id)
  BY <1>1 DEF ChildOpened, CreationKnows, Manages, WorkersTyped
<1>3. UNCHANGED <<worker, results, closing, drains, runs, deliveries, queued, http, turns>>
  BY DEF ChildOpened
<1>4. CASE onDisk' = Undone(id) /\ EndCreation(id) /\ UNCHANGED <<apps, alive>>
  BY <1>2, <1>3, <1>4, CreationLeft
<1>5. CASE /\ apps' = [apps EXCEPT ![id] = @ + 1]
           /\ alive' = alive \cup {<<id, apps[id] + 1>>}
           /\ Advance(id, "register") /\ UNCHANGED <<reserved, onDisk>>
  <2> DEFINE n == apps[id] + 1
  <2>1. n \in 1 .. MaxApps /\ n \in 0 .. MaxApps /\ n > apps[id]
    BY <1>1, <1>2, WorkerBounds DEF WorkersTyped
  <2>2. apps' = [apps EXCEPT ![id] = n] /\ alive' = alive \cup {<<id, n>>}
    BY <1>5
  <2> HIDE DEF n
  <2>3. /\ apps' \in [WorkerIds -> 0 .. MaxApps] /\ apps'[id] = n
        /\ \A k \in WorkerIds : k # id => apps'[k] = apps[k]
    BY <1>1, <2>1, <2>2 DEF WorkersTyped
  <2>4. /\ creation' \in [WorkerIds -> Creations] /\ creation'[id].step = "register"
        /\ \A k \in WorkerIds : k # id => creation'[k] = creation[k]
    BY <1>1, <1>5, CreationAdvanced DEF CreationSteps
  <2>5. <<id, n>> \in WorkerIds \X (1 .. MaxApps) /\ <<id, n>>[1] = id /\ <<id, n>>[2] = n
    BY <2>1
  <2>6. WorkersTyped'
    BY <1>1, <1>3, <1>5, <2>2, <2>3, <2>4, <2>5 DEF WorkersTyped
  <2>7. \A h \in results : ~(h.id = id /\ h.app = n)
    BY <1>1, <2>1, WorkerBounds DEF WorkersTyped, Handoffs, RunsCounted
  <2>8. \A k \in WorkerIds : CreationKnows(k)'
    <3>1. \A k \in WorkerIds : k # id => CreationKnows(k)'
      BY <1>3, <1>5, <2>2, <2>3, <2>4, <2>5 DEF WorkersInv, CreationKnows, Manages
    <3>2. CreationKnows(id)'
      BY <1>1, <1>2, <1>3, <1>5, <2>1, <2>3, <2>4, <2>7 DEF CreationKnows, Manages
    <3>3. QED
      BY <3>1, <3>2
  <2>9. RuntimesKnown'
    <3>1. \A a \in alive' : a[2] = apps'[a[1]]
      BY <1>1, <1>2, <2>2, <2>3, <2>5 DEF RuntimesKnown, WorkersTyped
    <3>2. \A e \in drains : /\ e.app = apps'[e.id] /\ ~Manages(e.id)
                            /\ e.for = "creation" => creation'[e.id].step = "undo"
                            /\ e.for = "reuse" <=> creation'[e.id].step = "drain"
                            /\ e.for = "cleanup" <=> creation'[e.id].step = "handedOver"
      BY <1>1, <1>2, <2>3, <2>4 DEF RuntimesKnown, WorkersTyped
    <3>3. \A a \in alive' : \/ Manages(a[1]) \/ a[1] \in reserved
                            \/ \E e \in drains : e.id = a[1] /\ e.for \in {"stop", "archive", "nobody"}
      BY <1>1, <1>2, <2>2, <2>5 DEF RuntimesKnown
    <3>4. \A k \in WorkerIds : worker[k].app \in {0, apps'[k]}
      BY <1>1, <1>2, <2>3 DEF RuntimesKnown
    <3>5. \A k \in http : k \notin reserved /\ ~Manages(k) /\ apps'[k] > 0
      BY <1>1, <1>2, <2>3 DEF RuntimesKnown, WorkersTyped
    <3>6. QED
      BY <1>3, <1>5, <3>1, <3>2, <3>3, <3>4, <3>5 DEF RuntimesKnown, Manages
  <2>10. RunsCounted'
    <3>1. \A h \in results : h.app <= apps'[h.id]
      BY <1>1, <2>1, <2>3, WorkerBounds DEF RunsCounted, WorkersTyped, Handoffs
    <3>2. QED
      BY <1>1, <1>3, <3>1 DEF RunsCounted
  <2>11. BooksAgree' /\ ParentReleased'
    BY <1>3 DEF WorkersInv, BooksAgree, ParentReleased, Manages
  <2>12. QED
    BY <2>6, <2>8, <2>9, <2>10, <2>11 DEF WorkersInv
<1>6. QED
  BY <1>4, <1>5 DEF ChildOpened

(* The step of one creation changes and nothing else does.                 *)
LEMMA CreationCancelledWorks ==
    ASSUME NEW id \in WorkerIds, WorkersInv, CreationCancelled(id)
    PROVE  WorkersInv'
<1>1. WorkersTyped /\ CreationKnows(id) /\ RuntimesKnown
  BY DEF WorkersInv
<1>2. /\ creation' \in [WorkerIds -> Creations] /\ creation'[id].step = "abandoned"
      /\ creation'[id].reuse = creation[id].reuse
      /\ \A k \in WorkerIds : k # id => creation'[k] = creation[k]
  BY <1>1, CreationAdvanced DEF CreationCancelled, CreationSteps
<1>3. creation[id].step = "open"
  BY DEF CreationCancelled
<1>4. UNCHANGED <<worker, reserved, results, closing, drains, alive, runs, deliveries, queued,
                  onDisk, http, apps, turns>>
  BY DEF CreationCancelled
<1>5. WorkersTyped'
  BY <1>1, <1>2, <1>4 DEF WorkersTyped
<1>6. \A k \in WorkerIds : CreationKnows(k)'
  <2>1. \A k \in WorkerIds : k # id => CreationKnows(k)'
    BY <1>2, <1>4 DEF WorkersInv, CreationKnows, Manages
  <2>2. CreationKnows(id)'
    BY <1>1, <1>2, <1>3, <1>4 DEF CreationKnows, Manages
  <2>3. QED
    BY <2>1, <2>2
<1>7. RuntimesKnown'
  <2>1. \A e \in drains : /\ e.app = apps[e.id] /\ ~Manages(e.id)
                          /\ e.for = "creation" => creation'[e.id].step = "undo"
                          /\ e.for = "reuse" <=> creation'[e.id].step = "drain"
                          /\ e.for = "cleanup" <=> creation'[e.id].step = "handedOver"
    BY <1>1, <1>2, <1>3 DEF RuntimesKnown, WorkersTyped
  <2>2. QED
    BY <1>1, <1>4, <2>1 DEF RuntimesKnown, Manages
<1>8. RunsCounted' /\ BooksAgree' /\ ParentReleased'
  BY <1>4 DEF WorkersInv, RunsCounted, BooksAgree, ParentReleased, Manages
<1>9. QED
  BY <1>5, <1>6, <1>7, <1>8 DEF WorkersInv

(* The factory has returned to nobody: its child is handed to a drain.     *)
LEMMA AbandonedChildOpenedWorks ==
    ASSUME NEW id \in WorkerIds, WorkersInv, AbandonedChildOpened(id)
    PROVE  WorkersInv'
<1>1. WorkersTyped /\ CreationKnows(id) /\ RuntimesKnown /\ RunsCounted /\ BooksAgree
  BY DEF WorkersInv
<1>2. /\ creation[id].step = "abandoned" /\ ~Manages(id) /\ id \in reserved /\ apps[id] < MaxApps
      /\ worker[id].app = 0
      /\ (\A e \in drains : e.id # id) /\ (\A a \in alive : a[1] # id)
  BY <1>1 DEF AbandonedChildOpened, CreationKnows, Manages, WorkersTyped
<1>3. UNCHANGED <<worker, results, closing, runs, deliveries, queued, http, turns>>
  BY DEF AbandonedChildOpened
<1>4. CASE onDisk' = Undone(id) /\ EndCreation(id) /\ UNCHANGED <<apps, alive, drains>>
  BY <1>2, <1>3, <1>4, CreationLeft
<1>5. CASE /\ apps' = [apps EXCEPT ![id] = @ + 1]
           /\ alive' = alive \cup {<<id, apps[id] + 1>>}
           /\ drains' = drains \cup {Drain(id, apps[id] + 1, "cleanup")}
           /\ Advance(id, "handedOver") /\ UNCHANGED <<reserved, onDisk>>
  <2> DEFINE n == apps[id] + 1
             d == Drain(id, n, "cleanup")
  <2>1. n \in 1 .. MaxApps /\ n \in 0 .. MaxApps /\ n > apps[id]
    BY <1>1, <1>2, WorkerBounds DEF WorkersTyped
  <2>2. /\ apps' = [apps EXCEPT ![id] = n] /\ alive' = alive \cup {<<id, n>>}
        /\ drains' = drains \cup {d}
    BY <1>5
  <2>0. d \in [id : WorkerIds, app : 1 .. MaxApps, for : DrainReasons]
        /\ d.id = id /\ d.app = n /\ d.for = "cleanup"
    BY <2>1 DEF Drain, DrainReasons
  <2> HIDE DEF n, d
  <2>3. /\ apps' \in [WorkerIds -> 0 .. MaxApps] /\ apps'[id] = n
        /\ \A k \in WorkerIds : k # id => apps'[k] = apps[k]
    BY <1>1, <2>1, <2>2 DEF WorkersTyped
  <2>4. /\ creation' \in [WorkerIds -> Creations] /\ creation'[id].step = "handedOver"
        /\ \A k \in WorkerIds : k # id => creation'[k] = creation[k]
    BY <1>1, <1>5, CreationAdvanced DEF CreationSteps
  <2>5. <<id, n>> \in WorkerIds \X (1 .. MaxApps) /\ <<id, n>>[1] = id /\ <<id, n>>[2] = n
    BY <2>1
  <2>6. WorkersTyped'
    BY <1>1, <1>3, <1>5, <2>0, <2>2, <2>3, <2>4, <2>5 DEF WorkersTyped
  <2>8. \A k \in WorkerIds : CreationKnows(k)'
    <3>1. \A k \in WorkerIds : k # id => CreationKnows(k)'
      BY <1>3, <1>5, <2>0, <2>2, <2>3, <2>4, <2>5 DEF WorkersInv, CreationKnows, Manages
    <3>2. CreationKnows(id)'
      BY <1>1, <1>2, <1>3, <1>5, <2>1, <2>3, <2>4 DEF CreationKnows, Manages
    <3>3. QED
      BY <3>1, <3>2
  <2>9. RuntimesKnown'
    <3>1. \A a \in alive' : a[2] = apps'[a[1]]
      BY <1>1, <1>2, <2>2, <2>3, <2>5 DEF RuntimesKnown, WorkersTyped
    <3>2. \A e \in drains' : /\ e.app = apps'[e.id] /\ ~Manages(e.id)
                             /\ e.for = "creation" => creation'[e.id].step = "undo"
                             /\ e.for = "reuse" <=> creation'[e.id].step = "drain"
                             /\ e.for = "cleanup" <=> creation'[e.id].step = "handedOver"
      BY <1>1, <1>2, <2>0, <2>2, <2>3, <2>4 DEF RuntimesKnown, WorkersTyped
    <3>3. \A a \in alive' : \/ Manages(a[1]) \/ a[1] \in reserved
                            \/ \E e \in drains' : e.id = a[1] /\ e.for \in {"stop", "archive", "nobody"}
      BY <1>1, <1>2, <2>2, <2>5 DEF RuntimesKnown
    <3>4. \A k \in WorkerIds : worker[k].app \in {0, apps'[k]}
      BY <1>1, <1>2, <2>3 DEF RuntimesKnown
    <3>5. \A k \in http : k \notin reserved /\ ~Manages(k) /\ apps'[k] > 0
      BY <1>1, <1>2, <2>3 DEF RuntimesKnown, WorkersTyped
    <3>6. QED
      BY <1>3, <1>5, <3>1, <3>2, <3>3, <3>4, <3>5 DEF RuntimesKnown, Manages
  <2>10. RunsCounted'
    <3>1. \A h \in results : h.app <= apps'[h.id]
      BY <1>1, <2>1, <2>3, WorkerBounds DEF RunsCounted, WorkersTyped, Handoffs
    <3>2. QED
      BY <1>1, <1>3, <3>1 DEF RunsCounted
  <2>11. BooksAgree' /\ ParentReleased'
    BY <1>3 DEF WorkersInv, BooksAgree, ParentReleased, Manages
  <2>12. QED
    BY <2>6, <2>8, <2>9, <2>10, <2>11 DEF WorkersInv
<1>6. QED
  BY <1>4, <1>5 DEF AbandonedChildOpened

(* The child is managed from here, or given up.                            *)
LEMMA RegisterWorks ==
    ASSUME NEW id \in WorkerIds, WorkersInv, Register(id)
    PROVE  WorkersInv'
<1>1. WorkersTyped /\ CreationKnows(id) /\ RuntimesKnown /\ RunsCounted /\ BooksAgree
  BY DEF WorkersInv
<1>2. /\ creation[id].step = "register" /\ id \in reserved /\ apps[id] \in 1 .. MaxApps
      /\ worker[id].app = 0 /\ ~Manages(id) /\ closing = "open"
      /\ (\A e \in drains : e.id # id) /\ (\A h \in results : ~(h.id = id /\ h.app = apps[id]))
  BY <1>1, WorkerBounds DEF Register, CreationKnows, Manages, WorkersTyped
<1>3. UNCHANGED <<reserved, results, closing, alive, runs, deliveries, queued, onDisk, http,
                  apps, turns>>
  BY DEF Register
<1>4. CASE /\ drains' = drains \cup {Drain(id, apps[id], "creation")}
           /\ Advance(id, "undo") /\ UNCHANGED worker
  <2>1. GiveUp(id)
    BY <1>2, <1>4 DEF GiveUp
  <2>2. QED
    BY <1>2, <1>3, <2>1, CreationGivenUp
<1>5. CASE /\ worker' = [worker EXCEPT ![id] =
                            [NotManaged EXCEPT !.app = apps[id], !.state = "running",
                                               !.subscribed = creation[id].subscribe]]
           /\ Advance(id, "admit") /\ UNCHANGED <<drains>>
  <2> DEFINE w == [NotManaged EXCEPT !.app = apps[id], !.state = "running",
                                     !.subscribed = creation[id].subscribe]
  <2>1. creation[id] \in Creations /\ apps[id] \in 0 .. MaxApps /\ 0 \in 0 .. MaxRuns
    BY <1>1, WorkerBounds DEF WorkersTyped
  <2>2. w \in WorkerStates /\ w.app = apps[id] /\ w.handoffs = 0
    <3>1. creation[id].subscribe \in BOOLEAN
      BY <2>1 DEF Creations
    <3>2. NotManaged \in WorkerStates /\ NotManaged.handoffs = 0
      BY <2>1, WorkerBounds DEF NotManaged, WorkerStates
    <3>3. QED
      BY <2>1, <3>1, <3>2 DEF WorkerStates
  <2>3. worker' = [worker EXCEPT ![id] = w]
    BY <1>5
  <2> HIDE DEF w
  <2>4. /\ worker' \in [WorkerIds -> WorkerStates] /\ worker'[id] = w
        /\ \A k \in WorkerIds : k # id => worker'[k] = worker[k]
    BY <1>1, <2>2, <2>3 DEF WorkersTyped
  <2>5. /\ creation' \in [WorkerIds -> Creations] /\ creation'[id].step = "admit"
        /\ creation'[id].reuse = creation[id].reuse
        /\ \A k \in WorkerIds : k # id => creation'[k] = creation[k]
    BY <1>1, <1>5, CreationAdvanced DEF CreationSteps
  <2>6. WorkersTyped'
    BY <1>1, <1>3, <1>5, <2>4, <2>5 DEF WorkersTyped
  <2>7. \A k \in WorkerIds : CreationKnows(k)'
    <3>1. \A k \in WorkerIds : k # id => CreationKnows(k)'
      BY <1>3, <1>5, <2>4, <2>5 DEF WorkersInv, CreationKnows, Manages
    <3>2. CreationKnows(id)'
      BY <1>1, <1>2, <1>3, <2>4, <2>5 DEF CreationKnows
    <3>3. QED
      BY <3>1, <3>2
  <2>8. RuntimesKnown'
    <3>1. \A k \in WorkerIds : worker'[k].app \in {0, apps[k]}
      BY <1>1, <2>2, <2>4 DEF RuntimesKnown
    <3>2. \A e \in drains : /\ e.app = apps[e.id] /\ ~Manages(e.id)'
                            /\ e.for = "creation" => creation'[e.id].step = "undo"
                            /\ e.for = "reuse" <=> creation'[e.id].step = "drain"
                            /\ e.for = "cleanup" <=> creation'[e.id].step = "handedOver"
      BY <1>1, <1>2, <2>4, <2>5 DEF RuntimesKnown, WorkersTyped, Manages
    <3>3. \A a \in alive : \/ Manages(a[1])' \/ a[1] \in reserved
                           \/ \E e \in drains : e.id = a[1] /\ e.for \in {"stop", "archive", "nobody"}
      BY <1>1, <1>2, <2>4 DEF RuntimesKnown, WorkersTyped, Manages
    <3>4. \A k \in http : k \notin reserved /\ ~Manages(k)' /\ apps[k] > 0
      BY <1>1, <1>2, <2>4 DEF RuntimesKnown, WorkersTyped, Manages
    <3>5. QED
      BY <1>1, <1>3, <1>5, <3>1, <3>2, <3>3, <3>4 DEF RuntimesKnown
  <2>9. RunsCounted' /\ ParentReleased'
    BY <1>3 DEF WorkersInv, RunsCounted, ParentReleased
  <2>10. BooksAgree'
    <3>1. Booked(results, id, apps[id]) = 0
      BY <1>2, BookedNone
    <3>2. \A k \in WorkerIds : Manages(k)' =>
             worker'[k].handoffs = Booked(results, k, worker'[k].app)
      BY <1>1, <2>2, <2>4, <3>1 DEF BooksAgree, Manages
    <3>3. QED
      BY <1>1, <1>3, <3>2 DEF BooksAgree
  <2>11. QED
    BY <2>6, <2>7, <2>8, <2>9, <2>10 DEF WorkersInv
<1>6. QED
  BY <1>4, <1>5 DEF Register

(* One creation moves on from its admission.                               *)
LEMMA AdmitQueryWorks ==
    ASSUME NEW id \in WorkerIds, WorkersInv, AdmitQuery(id)
    PROVE  WorkersInv'
<1>1. WorkersTyped /\ CreationKnows(id) /\ RuntimesKnown
  BY DEF WorkersInv
<1>2. creation[id].step = "admit"
  BY DEF AdmitQuery
<1>3. UNCHANGED <<reserved, results, closing, alive, runs, deliveries, queued, onDisk, http,
                  apps, turns>>
  BY DEF AdmitQuery
<1>4. CASE GiveUp(id)
  BY <1>2, <1>3, <1>4, CreationGivenUp
<1>5. CASE Advance(id, "start") /\ UNCHANGED <<worker, drains>>
  <2>1. /\ creation' \in [WorkerIds -> Creations] /\ creation'[id].step = "start"
        /\ creation'[id].reuse = creation[id].reuse
        /\ \A k \in WorkerIds : k # id => creation'[k] = creation[k]
    BY <1>1, <1>5, CreationAdvanced DEF CreationSteps
  <2>2. WorkersTyped'
    BY <1>1, <1>3, <1>5, <2>1 DEF WorkersTyped
  <2>3. \A k \in WorkerIds : CreationKnows(k)'
    <3>1. \A k \in WorkerIds : k # id => CreationKnows(k)'
      BY <1>3, <1>5, <2>1 DEF WorkersInv, CreationKnows, Manages
    <3>2. CreationKnows(id)'
      BY <1>1, <1>2, <1>3, <1>5, <2>1 DEF CreationKnows, Manages
    <3>3. QED
      BY <3>1, <3>2
  <2>4. RuntimesKnown'
    <3>1. \A e \in drains : /\ e.app = apps[e.id] /\ ~Manages(e.id)
                            /\ e.for = "creation" => creation'[e.id].step = "undo"
                            /\ e.for = "reuse" <=> creation'[e.id].step = "drain"
                            /\ e.for = "cleanup" <=> creation'[e.id].step = "handedOver"
      BY <1>1, <1>2, <2>1 DEF RuntimesKnown, WorkersTyped
    <3>2. QED
      BY <1>1, <1>3, <1>5, <3>1 DEF RuntimesKnown, Manages
  <2>5. RunsCounted' /\ BooksAgree' /\ ParentReleased'
    BY <1>3, <1>5 DEF WorkersInv, RunsCounted, BooksAgree, ParentReleased, Manages
  <2>6. QED
    BY <2>2, <2>3, <2>4, <2>5 DEF WorkersInv
<1>6. QED
  BY <1>4, <1>5 DEF AdmitQuery

(* The created Worker starts its Turn, or is given up.                     *)
LEMMA FinishCreationWorks ==
    ASSUME NEW id \in WorkerIds, WorkersInv, FinishCreation(id)
    PROVE  WorkersInv'
<1>1. CASE /\ worker[id].app = apps[id] /\ turns[id] < MaxRuns /\ StartRun(id)
           /\ EndCreation(id) /\ UNCHANGED drains
  <2>1. apps[id] > 0 /\ apps[id] \in 0 .. MaxApps
    BY DEF WorkersInv, CreationKnows, FinishCreation, WorkersTyped
  <2>2. Manages(id)
    BY <1>1, <2>1, WorkerBounds DEF Manages
  <2>3. QED
    BY <1>1, <2>2, RunAdded DEF FinishCreation
<1>2. CASE GiveUp(id) /\ UNCHANGED <<runs, turns, reserved>>
  BY <1>2, CreationGivenUp DEF FinishCreation
<1>3. QED
  BY <1>1, <1>2 DEF FinishCreation

(* A message starts the next Turn of an idle Worker.                       *)
LEMMA SendWorks ==
    ASSUME NEW id \in WorkerIds, WorkersInv, Send(id)
    PROVE  WorkersInv'
BY RunAdded DEF Send

(* Stop and Archive take a Worker out of the books.                        *)
LEMMA StopWorks ==
    ASSUME NEW id \in WorkerIds, WorkersInv, Stop(id) \/ ArchiveWorker(id)
    PROVE  WorkersInv'
<1>1. "stop" \in DrainReasons /\ "archive" \in DrainReasons
  BY DEF DrainReasons
<1>2. CASE Stop(id)
  BY <1>1, <1>2, WorkerStopped DEF Stop, Open
<1>3. CASE ArchiveWorker(id)
  BY <1>1, <1>3, WorkerStopped DEF ArchiveWorker, Open
<1>4. QED
  BY <1>2, <1>3

(* What changes no runtime and no count of any Worker keeps the invariant. *)
LEMMA SubscriptionsOnly ==
    ASSUME WorkersInv, worker' \in [WorkerIds -> WorkerStates],
           \A k \in WorkerIds : worker'[k].app = worker[k].app /\ worker'[k].handoffs = worker[k].handoffs,
           UNCHANGED <<reserved, results, closing, creation, drains, alive, runs, deliveries,
                       queued, onDisk, http, apps, turns>>
    PROVE  WorkersInv'
<1>1. WorkersTyped'
  BY DEF WorkersInv, WorkersTyped
<1>2. \A k \in WorkerIds : CreationKnows(k)'
  BY DEF WorkersInv, CreationKnows, Manages
<1>3. RuntimesKnown'
  BY DEF WorkersInv, WorkersTyped, RuntimesKnown, Manages
<1>4. RunsCounted' /\ BooksAgree' /\ ParentReleased'
  BY DEF WorkersInv, RunsCounted, BooksAgree, ParentReleased, Manages
<1>5. QED
  BY <1>1, <1>2, <1>3, <1>4 DEF WorkersInv

(* Subscribe and ClearSubscriptions change only subscriptions.             *)
LEMMA SubscribeWorks ==
    ASSUME NEW id \in WorkerIds, NEW b \in BOOLEAN, WorkersInv, Subscribe(id, b)
    PROVE  WorkersInv'
<1> DEFINE w == [worker[id] EXCEPT !.subscribed = b]
<1>1. worker[id] \in WorkerStates /\ worker \in [WorkerIds -> WorkerStates]
  BY DEF WorkersInv, WorkersTyped
<1>2. w \in WorkerStates /\ w.app = worker[id].app /\ w.handoffs = worker[id].handoffs
  BY <1>1 DEF WorkerStates
<1>3. worker' = [worker EXCEPT ![id] = w]
  BY DEF Subscribe
<1> HIDE DEF w
<1>4. /\ worker' \in [WorkerIds -> WorkerStates]
      /\ \A k \in WorkerIds : worker'[k].app = worker[k].app /\ worker'[k].handoffs = worker[k].handoffs
  BY <1>1, <1>2, <1>3
<1>5. QED
  BY <1>4, SubscriptionsOnly DEF Subscribe

(* Every subscription ends.                                                *)
LEMMA ClearSubscriptionsWorks == WorkersInv /\ ClearSubscriptions => WorkersInv'
<1> SUFFICES ASSUME WorkersInv, ClearSubscriptions PROVE WorkersInv'
  OBVIOUS
<1> DEFINE W(k) == [worker[k] EXCEPT !.subscribed = FALSE]
<1>1. ASSUME NEW k \in WorkerIds
      PROVE  W(k) \in WorkerStates /\ W(k).app = worker[k].app /\ W(k).handoffs = worker[k].handoffs
  <2>1. worker[k] \in WorkerStates
    BY DEF WorkersInv, WorkersTyped
  <2>2. QED
    BY <2>1 DEF WorkerStates
<1>2. worker' = [k \in WorkerIds |-> W(k)]
  BY DEF ClearSubscriptions
<1> HIDE DEF W
<1>3. /\ worker' \in [WorkerIds -> WorkerStates]
      /\ \A k \in WorkerIds : worker'[k].app = worker[k].app /\ worker'[k].handoffs = worker[k].handoffs
  BY <1>1, <1>2
<1>4. QED
  BY <1>3, SubscriptionsOnly DEF ClearSubscriptions

(* The HTTP server opens a runtime only where nobody manages or reserves.  *)
LEMMA HttpOpensWorks ==
    ASSUME NEW id \in WorkerIds, WorkersInv, HttpOpens(id)
    PROVE  WorkersInv'
<1>1. WorkersTyped /\ CreationKnows(id) /\ RuntimesKnown
  BY DEF WorkersInv
<1>2. WorkersTyped'
  BY <1>1 DEF WorkersTyped, HttpOpens
<1>3. \A k \in WorkerIds : CreationKnows(k)'
  BY DEF WorkersInv, CreationKnows, Manages, HttpOpens
<1>4. apps[id] > 0
  BY <1>1 DEF CreationKnows, HttpOpens
<1>5. RuntimesKnown'
  BY <1>1, <1>4 DEF RuntimesKnown, Manages, HttpOpens
<1>6. RunsCounted' /\ BooksAgree' /\ ParentReleased'
  BY DEF WorkersInv, RunsCounted, BooksAgree, ParentReleased, Manages, HttpOpens
<1>7. QED
  BY <1>2, <1>3, <1>5, <1>6 DEF WorkersInv

(* A runtime has been closed, and whoever waited for it goes on.           *)
LEMMA DrainedWorks ==
    ASSUME NEW d \in drains, WorkersInv, Drained(d)
    PROVE  WorkersInv'
<1> DEFINE id == d.id
<1>1. WorkersTyped /\ RuntimesKnown /\ RunsCounted /\ BooksAgree
  BY DEF WorkersInv
<1>2. /\ id \in WorkerIds /\ d.app = apps[id] /\ apps[id] > 0 /\ ~Manages(id)
      /\ d \in [id : WorkerIds, app : 1 .. MaxApps, for : DrainReasons]
  BY <1>1, WorkerBounds DEF WorkersTyped, RuntimesKnown
<1>3. CreationKnows(id)
  BY <1>2 DEF WorkersInv
<1>4. /\ drains' = drains \ {d} /\ alive' = alive \ {<<d.id, d.app>>}
      /\ UNCHANGED <<worker, results, closing, runs, deliveries, queued, http, apps, turns>>
  BY DEF Drained
<1>5. \A a \in alive' : a[1] # id
  BY <1>1, <1>2, <1>4 DEF WorkersTyped, RuntimesKnown
<1>6. \A e \in drains' : e.id = id => e.for # d.for
  BY <1>1, <1>2, <1>4 DEF WorkersTyped, RuntimesKnown
<1>7. /\ d.for = "creation" => creation[id].step = "undo"
      /\ d.for = "reuse" => creation[id].step = "drain"
      /\ d.for = "cleanup" => creation[id].step = "handedOver"
  BY <1>1 DEF RuntimesKnown
<1>8. CASE d.for = "creation"
  <2>1. onDisk' = Undone(id) /\ EndCreation(id)
    BY <1>8 DEF Drained
  <2>2. \A e \in drains' : e.id = id => e.for \in {"stop", "archive", "nobody"}
    BY <1>1, <1>4, <1>6, <1>7, <1>8 DEF RuntimesKnown, WorkersTyped, DrainReasons
  <2>3. QED
    BY <1>2, <1>4, <1>5, <2>1, <2>2, CreationLeft
<1>9. CASE d.for = "cleanup"
  <2>1. onDisk' = Undone(id) /\ EndCreation(id)
    BY <1>9 DEF Drained
  <2>2. \A e \in drains' : e.id = id => e.for \in {"stop", "archive", "nobody"}
    BY <1>1, <1>4, <1>6, <1>7, <1>9 DEF RuntimesKnown, WorkersTyped, DrainReasons
  <2>3. QED
    BY <1>2, <1>4, <1>5, <2>1, <2>2, CreationLeft
<1>10. CASE d.for = "reuse"
  <2>1. UNCHANGED <<reserved, onDisk>> /\ Advance(id, "open")
    BY <1>10 DEF Drained
  <2>2. /\ creation' \in [WorkerIds -> Creations] /\ creation'[id].step = "open"
        /\ creation'[id].reuse = creation[id].reuse
        /\ \A k \in WorkerIds : k # id => creation'[k] = creation[k]
    BY <1>1, <1>2, <2>1, CreationAdvanced DEF CreationSteps
  <2>3. creation[id].step = "drain" /\ id \in reserved
    BY <1>3, <1>7, <1>10 DEF CreationKnows
  <2>4. WorkersTyped'
    BY <1>1, <1>4, <2>1, <2>2 DEF WorkersTyped
  <2>5. \A k \in WorkerIds : CreationKnows(k)'
    <3>1. \A k \in WorkerIds : k # id => CreationKnows(k)'
      BY <1>4, <2>1, <2>2 DEF WorkersInv, CreationKnows, Manages
    <3>2. \A e \in drains' : e.id # id
      <4>1. closing = "open"
        BY <1>3, <2>3 DEF CreationKnows, WorkersTyped
      <4>2. QED
        BY <1>1, <1>3, <1>4, <1>6, <1>10, <2>3 DEF WorkersTyped, RuntimesKnown, DrainReasons, CreationKnows
    <3>3. CreationKnows(id)'
      BY <1>2, <1>3, <1>4, <1>5, <2>1, <2>2, <2>3, <3>2 DEF CreationKnows, Manages
    <3>4. QED
      BY <3>1, <3>3
  <2>6. RuntimesKnown'
    <3>1. \A e \in drains' : /\ e.app = apps[e.id] /\ ~Manages(e.id)
                             /\ e.for = "creation" => creation'[e.id].step = "undo"
                             /\ e.for = "reuse" <=> creation'[e.id].step = "drain"
                             /\ e.for = "cleanup" <=> creation'[e.id].step = "handedOver"
      BY <1>1, <1>4, <1>6, <1>10, <2>2, <2>3 DEF RuntimesKnown, WorkersTyped
    <3>2. \A a \in alive' : \/ Manages(a[1]) \/ a[1] \in reserved
                            \/ \E e \in drains' : e.id = a[1] /\ e.for \in {"stop", "archive", "nobody"}
      BY <1>1, <1>4, <1>5 DEF RuntimesKnown
    <3>3. QED
      BY <1>1, <1>4, <2>1, <3>1, <3>2 DEF RuntimesKnown, Manages
  <2>7. RunsCounted' /\ BooksAgree' /\ ParentReleased'
    BY <1>4 DEF WorkersInv, RunsCounted, BooksAgree, ParentReleased, Manages
  <2>8. QED
    BY <2>4, <2>5, <2>6, <2>7 DEF WorkersInv
<1>11. CASE d.for \in {"stop", "archive", "nobody"}
  <2>1. onDisk' \subseteq onDisk /\ UNCHANGED <<creation, reserved>>
    BY <1>11 DEF Drained
  <2>2. WorkersTyped'
    BY <1>1, <1>4, <2>1 DEF WorkersTyped
  <2>3. \A k \in WorkerIds : CreationKnows(k)'
    BY <1>4, <2>1 DEF WorkersInv, CreationKnows, Manages
  <2>4. RuntimesKnown'
    <3>1. \A a \in alive' : \/ Manages(a[1]) \/ a[1] \in reserved
                            \/ \E e \in drains' : e.id = a[1] /\ e.for \in {"stop", "archive", "nobody"}
      BY <1>1, <1>4, <1>5 DEF RuntimesKnown
    <3>2. QED
      BY <1>1, <1>4, <2>1, <3>1 DEF RuntimesKnown, Manages
  <2>5. RunsCounted' /\ BooksAgree' /\ ParentReleased'
    BY <1>4 DEF WorkersInv, RunsCounted, BooksAgree, ParentReleased, Manages
  <2>6. QED
    BY <2>2, <2>3, <2>4, <2>5 DEF WorkersInv
<1>12. QED
  BY <1>2, <1>8, <1>9, <1>10, <1>11 DEF DrainReasons

(* The rest of a stop is left to a goroutine.                              *)
LEMMA DrainCancelledWorks ==
    ASSUME NEW d \in drains, WorkersInv, DrainCancelled(d)
    PROVE  WorkersInv'
<1> DEFINE id == d.id
<1>1. WorkersTyped /\ RuntimesKnown /\ RunsCounted /\ BooksAgree
  BY DEF WorkersInv
<1>2. /\ id \in WorkerIds /\ d.app = apps[id] /\ ~Manages(id)
      /\ d \in [id : WorkerIds, app : 1 .. MaxApps, for : DrainReasons]
  BY <1>1 DEF WorkersTyped, RuntimesKnown
<1>3. CreationKnows(id)
  BY <1>2 DEF WorkersInv
<1>4. UNCHANGED <<worker, reserved, results, closing, alive, runs, deliveries, queued, onDisk,
                  http, apps, turns>>
  BY DEF DrainCancelled
<1>5. PICK why \in {"nobody", "cleanup"} :
         /\ drains' = (drains \ {d}) \cup {[d EXCEPT !.for = why]}
         /\ \/ why = "nobody" /\ d.for \in {"stop", "archive"} /\ UNCHANGED creation
            \/ why = "cleanup" /\ d.for = "reuse" /\ Advance(id, "handedOver")
  BY DEF DrainCancelled
<1> DEFINE n == [d EXCEPT !.for = why]
<1>6. n.id = id /\ n.app = d.app /\ n.for = why
      /\ n \in [id : WorkerIds, app : 1 .. MaxApps, for : DrainReasons]
  BY <1>2, <1>5 DEF DrainReasons
<1>7. drains' = (drains \ {d}) \cup {n}
  BY <1>5
<1> HIDE DEF n
<1>8. /\ creation' \in [WorkerIds -> Creations] /\ creation'[id].reuse = creation[id].reuse
      /\ \A k \in WorkerIds : k # id => creation'[k] = creation[k]
      /\ \/ why = "nobody" /\ d.for \in {"stop", "archive"} /\ creation' = creation
         \/ /\ why = "cleanup" /\ d.for = "reuse"
            /\ creation[id].step = "drain" /\ creation'[id].step = "handedOver"
  <2>1. CASE why = "nobody"
    BY <1>1, <1>5, <2>1 DEF WorkersTyped
  <2>2. CASE why = "cleanup"
    <3>1. Advance(id, "handedOver") /\ d.for = "reuse"
      BY <1>5, <2>2
    <3>2. creation[id].step = "drain"
      BY <1>1, <3>1 DEF RuntimesKnown
    <3>3. /\ creation' \in [WorkerIds -> Creations] /\ creation'[id].step = "handedOver"
          /\ creation'[id].reuse = creation[id].reuse
          /\ \A k \in WorkerIds : k # id => creation'[k] = creation[k]
      BY <1>1, <1>2, <3>1, CreationAdvanced DEF CreationSteps
    <3>4. QED
      BY <2>2, <3>1, <3>2, <3>3
  <2>3. QED
    BY <1>5, <2>1, <2>2
<1>9. \A e \in drains : e.id = id /\ e.for = "reuse" => e = d \/ d.for # "reuse"
  BY <1>1, <1>2 DEF WorkersTyped, RuntimesKnown
<1>10. WorkersTyped'
  BY <1>1, <1>4, <1>6, <1>7, <1>8 DEF WorkersTyped
<1>11. \A k \in WorkerIds : CreationKnows(k)'
  <2>1. \A k \in WorkerIds : k # id => CreationKnows(k)'
    BY <1>4, <1>6, <1>7, <1>8 DEF WorkersInv, CreationKnows, Manages
  <2>2. CreationKnows(id)'
    BY <1>2, <1>3, <1>4, <1>6, <1>7, <1>8 DEF CreationKnows, Manages
  <2>3. QED
    BY <2>1, <2>2
<1>12. RuntimesKnown'
  <2>1. \A e \in drains' : /\ e.app = apps[e.id] /\ ~Manages(e.id)
                           /\ e.for = "creation" => creation'[e.id].step = "undo"
                           /\ e.for = "reuse" <=> creation'[e.id].step = "drain"
                           /\ e.for = "cleanup" <=> creation'[e.id].step = "handedOver"
    <3>1. CASE why = "nobody"
      BY <3>1, <1>1, <1>2, <1>6, <1>7, <1>8 DEF RuntimesKnown
    <3>2. CASE why = "cleanup"
      BY <3>2, <1>1, <1>2, <1>6, <1>7, <1>8, <1>9 DEF RuntimesKnown, WorkersTyped
    <3>3. QED
      BY <3>1, <3>2
  <2>2. \A a \in alive : \/ Manages(a[1]) \/ a[1] \in reserved
                         \/ \E e \in drains' : e.id = a[1] /\ e.for \in {"stop", "archive", "nobody"}
    BY <1>1, <1>3, <1>6, <1>7, <1>8 DEF RuntimesKnown, CreationKnows
  <2>3. QED
    BY <1>1, <1>4, <2>1, <2>2 DEF RuntimesKnown, Manages
<1>13. RunsCounted' /\ BooksAgree' /\ ParentReleased'
  BY <1>4 DEF WorkersInv, RunsCounted, BooksAgree, ParentReleased, Manages
<1>14. QED
  BY <1>10, <1>11, <1>12, <1>13 DEF WorkersInv

(* What changes only runs, results, deliveries and counts of handoffs      *)
(* keeps who owns which runtime.                                           *)
LEMMA RuntimesKept ==
    ASSUME WorkersInv, \A k \in WorkerIds : worker'[k].app = worker[k].app, results' \subseteq results
              \/ \A h \in results' : h \in results \/ (h.id \in WorkerIds /\ worker[h.id].app = h.app),
           UNCHANGED <<reserved, closing, creation, drains, alive, onDisk, http, apps>>
    PROVE  (\A k \in WorkerIds : CreationKnows(k)') /\ RuntimesKnown'
<1>1. ASSUME NEW k \in WorkerIds
      PROVE  CreationKnows(k)'
  <2>1. creation[k].step = "register" => \A h \in results' : ~(h.id = k /\ h.app = apps[k])
    <3> SUFFICES ASSUME creation[k].step = "register", NEW h \in results', h.id = k, h.app = apps[k]
                 PROVE  FALSE
      OBVIOUS
    <3>1. worker[k].app = 0 /\ apps[k] > 0 /\ h \notin results
      BY DEF WorkersInv, CreationKnows, Manages
    <3>2. QED
      BY <3>1
  <2>2. QED
    BY <2>1 DEF WorkersInv, CreationKnows, Manages
<1>2. RuntimesKnown'
  BY DEF WorkersInv, WorkersTyped, RuntimesKnown, Manages
<1>3. QED
  BY <1>1, <1>2

(* A Turn of a Worker returns.                                             *)
LEMMA TurnReturnsWorks ==
    ASSUME NEW r \in runs, WorkersInv, TurnReturns(r)
    PROVE  WorkersInv'
<1> DEFINE n == [r EXCEPT !.step = "returned"]
<1>1. WorkersTyped /\ RunsCounted
  BY DEF WorkersInv
<1>2. UNCHANGED <<worker, reserved, results, closing, creation, drains, alive, deliveries,
                  queued, onDisk, http, apps, turns>>
  BY DEF TurnReturns
<1>3. r \in [id : WorkerIds, app : 1 .. MaxApps, turn : 1 .. MaxRuns,
             step : {"executing", "returned"}]
  BY <1>1 DEF WorkersTyped
<1>4. /\ n.id = r.id /\ n.turn = r.turn
      /\ n \in [id : WorkerIds, app : 1 .. MaxApps, turn : 1 .. MaxRuns,
                step : {"executing", "returned"}]
  BY <1>3
<1>5. runs' = (runs \ {r}) \cup {n}
  BY DEF TurnReturns
<1> HIDE DEF n
<1>6. WorkersTyped'
  BY <1>1, <1>2, <1>4, <1>5 DEF WorkersTyped
<1>7. (\A k \in WorkerIds : CreationKnows(k)') /\ RuntimesKnown'
  BY <1>2, RuntimesKept
<1>8. RunsCounted'
  <2>1. \A q \in runs' : \E p \in runs : q.id = p.id /\ q.turn = p.turn
    <3>1. \A q \in runs' : q \in runs \/ q = n
      BY <1>5
    <3>2. QED
      BY <1>4, <3>1
  <2>2. \A q \in runs' : q.turn <= turns[q.id]
    BY <1>1, <2>1 DEF RunsCounted
  <2>3. \A q, p \in runs' : q.id = p.id /\ q.turn = p.turn => q = p
    BY <1>1, <1>4, <1>5 DEF RunsCounted
  <2>4. \A h \in results, q \in runs' : ~(h.id = q.id /\ h.turn = q.turn)
    BY <1>1, <2>1 DEF RunsCounted
  <2>5. QED
    BY <1>1, <1>2, <2>2, <2>3, <2>4 DEF RunsCounted
<1>9. BooksAgree' /\ ParentReleased'
  BY <1>2 DEF WorkersInv, BooksAgree, ParentReleased, Manages
<1>10. QED
  BY <1>6, <1>7, <1>8, <1>9 DEF WorkersInv

(* The result of a Turn goes on the books if its runtime is still managed  *)
(* and its Worker is subscribed.                                           *)
LEMMA RecordResultWorks ==
    ASSUME NEW r \in runs, NEW at \in {"idle", "failed"}, WorkersInv, RecordResult(r, at)
    PROVE  WorkersInv'
<1> DEFINE w == worker[r.id]
           h == Handoff(r)
<1>1. WorkersTyped /\ RuntimesKnown /\ RunsCounted /\ BooksAgree
  BY DEF WorkersInv
<1>2. UNCHANGED <<reserved, closing, creation, drains, alive, queued, onDisk, http, apps, turns>>
      /\ runs' = runs \ {r}
  BY DEF RecordResult
<1>3. r \in [id : WorkerIds, app : 1 .. MaxApps, turn : 1 .. MaxRuns,
             step : {"executing", "returned"}]
  BY <1>1 DEF WorkersTyped
<1>4. w \in WorkerStates
  BY <1>1, <1>3 DEF WorkersTyped
<1>5. \A p, q \in runs' : p.id = q.id /\ p.turn = q.turn => p = q
  BY <1>1, <1>2 DEF RunsCounted
<1>6. CASE UNCHANGED <<worker, results, deliveries>>
  <2>1. WorkersTyped'
    BY <1>1, <1>2, <1>6 DEF WorkersTyped
  <2>2. (\A k \in WorkerIds : CreationKnows(k)') /\ RuntimesKnown'
    BY <1>2, <1>6, RuntimesKept
  <2>3. RunsCounted'
    BY <1>1, <1>2, <1>6 DEF RunsCounted
  <2>4. BooksAgree' /\ ParentReleased'
    BY <1>2, <1>6 DEF WorkersInv, BooksAgree, ParentReleased, Manages
  <2>5. QED
    BY <2>1, <2>2, <2>3, <2>4 DEF WorkersInv
<1>7. CASE worker' = [worker EXCEPT ![r.id].state = at] /\ UNCHANGED <<results, deliveries>>
  <2> DEFINE v == [w EXCEPT !.state = at]
  <2>1. v \in WorkerStates /\ v.app = w.app /\ v.handoffs = w.handoffs
    BY <1>4 DEF WorkerStates
  <2>2. worker' = [worker EXCEPT ![r.id] = v]
    BY <1>7
  <2> HIDE DEF v
  <2>3. /\ worker' \in [WorkerIds -> WorkerStates]
        /\ \A k \in WorkerIds : worker'[k].app = worker[k].app /\ worker'[k].handoffs = worker[k].handoffs
    BY <1>1, <2>1, <2>2 DEF WorkersTyped
  <2>4. WorkersTyped'
    BY <1>1, <1>2, <1>7, <2>3 DEF WorkersTyped
  <2>5. (\A k \in WorkerIds : CreationKnows(k)') /\ RuntimesKnown'
    BY <1>2, <1>7, <2>3, RuntimesKept
  <2>6. RunsCounted'
    BY <1>1, <1>2, <1>7 DEF RunsCounted
  <2>7. BooksAgree' /\ ParentReleased'
    BY <1>2, <1>7, <2>3 DEF WorkersInv, BooksAgree, ParentReleased, Manages
  <2>8. QED
    BY <2>4, <2>5, <2>6, <2>7 DEF WorkersInv
<1>8. CASE /\ w.app = r.app /\ closing = "open"
           /\ worker' = [worker EXCEPT ![r.id].state = at, ![r.id].handoffs = @ + 1]
           /\ results' = results \cup {h} /\ deliveries' = deliveries \cup {h}
  <2> DEFINE n == w.handoffs + 1
             v == [w EXCEPT !.state = at, !.handoffs = n]
  <2>1. n \in Int
    BY <1>4 DEF WorkerStates
  <2> HIDE DEF n
  <2>2. v \in WorkerStates /\ v.app = w.app /\ v.handoffs = n
    BY <1>4, <2>1 DEF WorkerStates
  <2>3. worker' = [worker EXCEPT ![r.id] = v]
    BY <1>1, <1>3, <1>8 DEF WorkersTyped, n
  <2> HIDE DEF v
  <2>4. /\ worker' \in [WorkerIds -> WorkerStates] /\ worker'[r.id] = v
        /\ \A k \in WorkerIds : k # r.id => worker'[k] = worker[k]
        /\ \A k \in WorkerIds : worker'[k].app = worker[k].app
    BY <1>1, <1>3, <2>2, <2>3 DEF WorkersTyped
  <2>5. /\ h \in Handoffs /\ h.id = r.id /\ h.app = r.app /\ h.turn = r.turn
        /\ h \notin results
    BY <1>1, <1>3 DEF Handoff, Handoffs, RunsCounted
  <2> HIDE DEF h
  <2>6. IsFiniteSet(results')
    BY <1>1, <1>8, <2>5, FS_AddElement DEF WorkersTyped
  <2>7. WorkersTyped'
    BY <1>1, <1>2, <1>8, <2>4, <2>5, <2>6 DEF WorkersTyped
  <2>8. (\A k \in WorkerIds : CreationKnows(k)') /\ RuntimesKnown'
    <3>1. \A g \in results' : g \in results \/ (g.id \in WorkerIds /\ worker[g.id].app = g.app)
      BY <1>3, <1>8, <2>5
    <3>2. QED
      BY <1>2, <2>4, <3>1, RuntimesKept
  <2>9. RunsCounted'
    <3>1. h.app <= apps[h.id] /\ h.turn <= turns[h.id]
      BY <1>1, <1>3, <1>8, <2>5, WorkerBounds DEF RunsCounted, RuntimesKnown, WorkersTyped
    <3>2. \A q \in runs' : ~(h.id = q.id /\ h.turn = q.turn)
      BY <1>1, <1>2, <2>5 DEF RunsCounted
    <3>3. QED
      BY <1>1, <1>2, <1>5, <1>8, <3>1, <3>2 DEF RunsCounted
  <2>10. BooksAgree'
    <3>1. Booked(results', r.id, r.app) = Booked(results, r.id, r.app) + 1
      BY ZenonT(40), <1>1, <1>8, <2>5, BookedOne DEF WorkersTyped
    <3>2. Manages(r.id) /\ worker'[r.id].handoffs = Booked(results', r.id, worker'[r.id].app)
      BY <1>1, <1>3, <1>8, <2>2, <2>4, <3>1 DEF BooksAgree, Manages, n
    <3>3. ASSUME NEW k \in WorkerIds, Manages(k)', k # r.id
          PROVE  worker'[k].handoffs = Booked(results', k, worker'[k].app)
      <4>1. Booked(results', k, worker[k].app) = Booked(results, k, worker[k].app)
        BY <1>8, <2>5, <3>3, BookedSame
      <4>2. QED
        BY <1>1, <2>4, <3>3, <4>1 DEF BooksAgree, Manages
    <3>4. \A g \in results' : g \in deliveries' \cup queued'
      BY <1>1, <1>2, <1>8 DEF BooksAgree
    <3>5. QED
      BY <3>2, <3>3, <3>4 DEF BooksAgree
  <2>11. ParentReleased'
    BY <1>2, <1>8 DEF ParentReleased
  <2>12. QED
    BY <2>7, <2>8, <2>9, <2>10, <2>11 DEF WorkersInv
<1>9. w.app = r.app => closing = "open"
  <2>1. r.app # 0 /\ CreationKnows(r.id)
    BY <1>3 DEF WorkersInv
  <2>2. QED
    BY <1>1, <2>1 DEF CreationKnows, Manages
<1>10. QED
  BY <1>6, <1>7, <1>8, <1>9 DEF RecordResult

(* A handoff is taken off the books, and the count of its runtime follows. *)
LEMMA HandoffFinished ==
    ASSUME NEW h, h \in deliveries \cup queued, WorkersInv, Finished(h),
           \A g \in deliveries \cup queued : g = h \/ g \in deliveries' \cup queued',
           deliveries' \subseteq deliveries,
           UNCHANGED <<reserved, closing, creation, drains, alive, runs, onDisk, http, apps, turns>>
    PROVE  WorkersInv'
<1>1. WorkersTyped /\ RuntimesKnown /\ RunsCounted /\ BooksAgree /\ ParentReleased
  BY DEF WorkersInv
<1>2. results' = results \ {h} /\ results' \subseteq results /\ IsFiniteSet(results')
  <2>1. results' = results \ {h}
    BY DEF Finished
  <2>2. QED
    BY <1>1, <2>1, FS_Subset DEF WorkersTyped
<1>3. \A g \in results' : g \in deliveries' \cup queued'
  BY <1>1, <1>2 DEF BooksAgree
<1>4. RunsCounted' /\ ParentReleased'
  BY <1>1, <1>2 DEF RunsCounted, ParentReleased
<1>5. CASE h \in results /\ worker[h.id].app = h.app
  <2> DEFINE id == h.id
             v == [worker[id] EXCEPT !.handoffs = worker[id].handoffs - 1]
  <2>1. id \in WorkerIds /\ worker[id] \in WorkerStates /\ worker[id].app # 0
    BY <1>1, <1>5 DEF WorkersTyped, Handoffs
  <2>2. worker[id].handoffs \in Int
    BY <2>1 DEF WorkerStates
  <2>3. v \in WorkerStates /\ v.app = worker[id].app /\ v.handoffs = worker[id].handoffs - 1
    BY <2>1, <2>2 DEF WorkerStates
  <2>4. worker' = [worker EXCEPT ![id] = v]
    BY <1>1, <1>5, <2>1 DEF Finished, WorkersTyped
  <2> HIDE DEF v
  <2>5. /\ worker' \in [WorkerIds -> WorkerStates] /\ worker'[id] = v
        /\ \A k \in WorkerIds : k # id => worker'[k] = worker[k]
        /\ \A k \in WorkerIds : worker'[k].app = worker[k].app
    BY <1>1, <2>1, <2>3, <2>4 DEF WorkersTyped
  <2>6. WorkersTyped'
    BY <1>1, <1>2, <2>5 DEF WorkersTyped
  <2>7. (\A k \in WorkerIds : CreationKnows(k)') /\ RuntimesKnown'
    BY <1>2, <2>5, RuntimesKept
  <2>8. Booked(results', id, h.app) = Booked(results, id, h.app) - 1
    BY <1>1, <1>2, <1>5, BookedLess DEF WorkersTyped
  <2>9. worker'[id].handoffs = Booked(results', id, worker'[id].app)
    BY <1>1, <1>5, <2>1, <2>3, <2>5, <2>8 DEF BooksAgree, Manages
  <2>10. ASSUME NEW k \in WorkerIds, Manages(k)', k # id
         PROVE  worker'[k].handoffs = Booked(results', k, worker'[k].app)
    <3>1. Booked(results', k, worker[k].app) = Booked(results, k, worker[k].app)
      BY <1>2, <2>10, BookedSame
    <3>2. QED
      BY <1>1, <2>5, <2>10, <3>1 DEF BooksAgree, Manages
  <2>11. BooksAgree'
    BY <1>3, <2>9, <2>10 DEF BooksAgree
  <2>12. QED
    BY <1>4, <2>6, <2>7, <2>11 DEF WorkersInv
<1>6. CASE ~(h \in results /\ worker[h.id].app = h.app)
  <2>1. worker' = worker
    BY <1>6 DEF Finished
  <2>2. WorkersTyped'
    BY <1>1, <1>2, <2>1 DEF WorkersTyped
  <2>3. (\A k \in WorkerIds : CreationKnows(k)') /\ RuntimesKnown'
    BY <1>2, <2>1, RuntimesKept
  <2>4. ASSUME NEW k \in WorkerIds, Manages(k)
        PROVE  worker[k].handoffs = Booked(results', k, worker[k].app)
    <3>1. Booked(results', k, worker[k].app) = Booked(results, k, worker[k].app)
      BY <1>2, <1>6, BookedSame
    <3>2. QED
      BY <1>1, <2>4, <3>1 DEF BooksAgree
  <2>5. BooksAgree'
    BY <1>3, <2>1, <2>4 DEF BooksAgree, Manages
  <2>6. QED
    BY <1>4, <2>2, <2>3, <2>5 DEF WorkersInv
<1>7. QED
  BY <1>5, <1>6

(* A result is queued as an Input of the parent, or is done with.          *)
LEMMA DeliverResultWorks ==
    ASSUME NEW h \in deliveries, WorkersInv, DeliverResult(h)
    PROVE  WorkersInv'
<1>1. CASE Finished(h) /\ UNCHANGED queued
  BY <1>1, HandoffFinished DEF DeliverResult
<1>2. CASE Open /\ queued' = queued \cup {h} /\ UNCHANGED <<results, worker>>
  <2>1. UNCHANGED <<worker, results, reserved, closing, creation, drains, alive, runs, onDisk,
                    http, apps, turns>>
    BY <1>2 DEF DeliverResult
  <2>2. WorkersTyped'
    BY <2>1 DEF WorkersInv, WorkersTyped
  <2>3. (\A k \in WorkerIds : CreationKnows(k)') /\ RuntimesKnown'
    BY <2>1, RuntimesKept
  <2>4. RunsCounted'
    BY <2>1 DEF WorkersInv, RunsCounted
  <2>5. \A g \in results : g \in deliveries' \cup queued'
    BY <1>2 DEF WorkersInv, BooksAgree, DeliverResult
  <2>6. BooksAgree' /\ ParentReleased'
    BY <1>2, <2>1, <2>5 DEF WorkersInv, BooksAgree, ParentReleased, Manages, Open
  <2>7. QED
    BY <2>2, <2>3, <2>4, <2>6 DEF WorkersInv
<1>3. QED
  BY <1>1, <1>2 DEF DeliverResult

(* A Turn of the parent has taken a result.                                *)
LEMMA InputAdmittedWorks ==
    ASSUME NEW h \in queued, WorkersInv, InputAdmitted(h)
    PROVE  WorkersInv'
BY HandoffFinished DEF InputAdmitted

(* Every managed runtime is stopped when the parent closes.                *)
LEMMA StartCloseWorks == WorkersInv /\ StartClose => WorkersInv'
<1> SUFFICES ASSUME WorkersInv, StartClose PROVE WorkersInv'
  OBVIOUS
<1> DEFINE D(k) == Drain(k, worker[k].app, "nobody")
           new == {D(k) : k \in {i \in WorkerIds : Manages(i)}}
<1>1. WorkersTyped /\ RuntimesKnown /\ RunsCounted /\ BooksAgree
  BY DEF WorkersInv
<1>2. UNCHANGED <<reserved, creation, alive, runs, deliveries, queued, onDisk, http, apps, turns>>
      /\ closing' = "closing" /\ results' = {} /\ drains' = drains \cup new
  BY DEF StartClose
<1>3. /\ worker' \in [WorkerIds -> WorkerStates]
      /\ \A k \in WorkerIds : worker'[k].app = 0
  <2>1. NotManaged \in WorkerStates /\ NotManaged.app = 0
    BY WorkerBounds DEF NotManaged, WorkerStates
  <2>2. QED
    BY <2>1 DEF StartClose
<1>4. \A k \in WorkerIds : creation[k].step \in {"none", "abandoned", "handedOver"}
  BY <1>1 DEF StartClose, CallsInProgress, WorkersTyped
<1>5. ASSUME NEW k \in WorkerIds
      PROVE  /\ D(k).id = k /\ D(k).app = worker[k].app /\ D(k).for = "nobody"
             /\ Manages(k) => /\ D(k).app = apps[k]
                              /\ D(k) \in [id : WorkerIds, app : 1 .. MaxApps, for : DrainReasons]
  BY <1>1, WorkerBounds DEF Drain, Manages, RuntimesKnown, WorkersTyped, DrainReasons
<1> HIDE DEF D
<1>6. /\ \A e \in drains' : e \in drains \/ \E k \in WorkerIds : Manages(k) /\ e = D(k)
      /\ \A k \in WorkerIds : Manages(k) => D(k) \in drains'
      /\ drains \subseteq drains'
  BY <1>2
<1> HIDE DEF new
<1>7. WorkersTyped'
  <2>1. drains' \subseteq [id : WorkerIds, app : 1 .. MaxApps, for : DrainReasons]
    BY <1>1, <1>5, <1>6 DEF WorkersTyped
  <2>2. IsFiniteSet(results')
    BY <1>2, FS_EmptySet
  <2>3. QED
    BY <1>1, <1>2, <1>3, <2>1, <2>2 DEF WorkersTyped
<1>8. \A k \in WorkerIds : CreationKnows(k)'
  <2> SUFFICES ASSUME NEW k \in WorkerIds PROVE CreationKnows(k)'
    OBVIOUS
  <2>1. CreationKnows(k)
    BY DEF WorkersInv
  <2>2. creation[k].step = "abandoned" => \A e \in drains' : e.id # k
    <3> SUFFICES ASSUME creation[k].step = "abandoned", NEW e \in drains', e.id = k PROVE FALSE
      OBVIOUS
    <3>1. ~Manages(k) /\ e \notin drains
      BY <2>1 DEF CreationKnows
    <3>2. QED
      BY <1>5, <1>6, <3>1
  <2>3. QED
    BY <1>2, <1>3, <1>4, <2>1, <2>2 DEF CreationKnows, Manages
<1>9. RuntimesKnown'
  <2>1. \A e \in drains' : /\ e.app = apps[e.id] /\ ~Manages(e.id)'
                           /\ e.for = "creation" => creation[e.id].step = "undo"
                           /\ e.for = "reuse" <=> creation[e.id].step = "drain"
                           /\ e.for = "cleanup" <=> creation[e.id].step = "handedOver"
    <3> SUFFICES ASSUME NEW e \in drains'
                 PROVE  /\ e.app = apps[e.id] /\ ~Manages(e.id)'
                        /\ e.for = "creation" => creation[e.id].step = "undo"
                        /\ e.for = "reuse" <=> creation[e.id].step = "drain"
                        /\ e.for = "cleanup" <=> creation[e.id].step = "handedOver"
      OBVIOUS
    <3>1. CASE e \in drains
      BY <1>1, <1>3, <3>1 DEF RuntimesKnown, WorkersTyped, Manages
    <3>2. CASE e \notin drains
      <4>1. PICK k \in WorkerIds : Manages(k) /\ e = D(k)
        BY <1>6, <3>2
      <4>2. CreationKnows(k)
        BY DEF WorkersInv
      <4>3. creation[k].step # "handedOver"
        BY <4>1, <4>2 DEF CreationKnows
      <4>4. QED
        BY <1>3, <1>4, <1>5, <4>1, <4>3 DEF Manages
    <3>3. QED
      BY <3>1, <3>2
  <2>2. \A a \in alive : \/ Manages(a[1])' \/ a[1] \in reserved
                         \/ \E e \in drains' : e.id = a[1] /\ e.for \in {"stop", "archive", "nobody"}
    BY <1>1, <1>5, <1>6 DEF RuntimesKnown, WorkersTyped
  <2>3. \A k \in http : k \notin reserved /\ ~Manages(k)' /\ apps[k] > 0
    BY <1>1, <1>3 DEF RuntimesKnown, WorkersTyped, Manages
  <2>4. QED
    BY <1>1, <1>2, <1>3, <2>1, <2>2, <2>3 DEF RuntimesKnown
<1>10. RunsCounted' /\ ParentReleased'
  BY <1>1, <1>2 DEF RunsCounted, ParentReleased
<1>11. BooksAgree'
  BY <1>2, <1>3 DEF BooksAgree, Manages
<1>12. QED
  BY <1>7, <1>8, <1>9, <1>10, <1>11 DEF WorkersInv

(* The last delivery has ended.                                            *)
LEMMA WritersDoneWorks == WorkersInv /\ WritersDone => WorkersInv'
<1> SUFFICES ASSUME WorkersInv, WritersDone PROVE WorkersInv'
  OBVIOUS
<1>1. WorkersTyped'
  BY DEF WorkersInv, WorkersTyped, WritersDone
<1>2. \A k \in WorkerIds : CreationKnows(k)'
  BY DEF WorkersInv, CreationKnows, WritersDone, Manages
<1>3. RuntimesKnown'
  BY DEF WorkersInv, RuntimesKnown, WritersDone, Manages
<1>4. RunsCounted' /\ BooksAgree' /\ ParentReleased'
  BY DEF WorkersInv, RunsCounted, BooksAgree, ParentReleased, WritersDone, Manages
<1>5. QED
  BY <1>1, <1>2, <1>3, <1>4 DEF WorkersInv

(* A manager that starts has no Worker.                                    *)
LEMMA WorkersStart == WInit => WorkersInv
<1> SUFFICES ASSUME WInit PROVE WorkersInv
  OBVIOUS
<1>1. NotManaged \in WorkerStates /\ NotManaged.app = 0
  BY WorkerBounds DEF NotManaged, WorkerStates
<1>2. NoCreation \in Creations /\ NoCreation.step = "none" /\ NoCreation.reuse = FALSE
  BY DEF NoCreation, Creations, CreationSteps
<1>3. WorkersTyped
  BY <1>1, <1>2, FS_EmptySet, WorkerBounds DEF WInit, WorkersTyped
<1>4. \A k \in WorkerIds : CreationKnows(k)
  BY <1>1, <1>2 DEF WInit, CreationKnows, Manages
<1>5. RuntimesKnown /\ RunsCounted
  BY <1>1 DEF WInit, RuntimesKnown, RunsCounted
<1>6. BooksAgree /\ ParentReleased
  BY <1>1 DEF WInit, BooksAgree, ParentReleased, Manages
<1>7. QED
  BY <1>3, <1>4, <1>5, <1>6 DEF WorkersInv

(* Every step of the manager keeps the invariant.                          *)
LEMMA WorkersKeep == WorkersInv /\ [WNext]_wvars => WorkersInv'
<1> SUFFICES ASSUME WorkersInv, [WNext]_wvars PROVE WorkersInv'
  OBVIOUS
<1>1. ASSUME NEW id \in WorkerIds, NEW b \in BOOLEAN, ReserveWorker(id, b) \/ Subscribe(id, b)
      PROVE  WorkersInv'
  BY <1>1, ReserveWorkerWorks, SubscribeWorks
<1>2. ASSUME NEW id \in WorkerIds,
             \/ ReserveReusable(id) \/ ChildOpened(id) \/ CreationCancelled(id)
             \/ AbandonedChildOpened(id) \/ Register(id) \/ AdmitQuery(id) \/ FinishCreation(id)
      PROVE  WorkersInv'
  BY <1>2, ReserveReusableWorks, ChildOpenedWorks, CreationCancelledWorks,
     AbandonedChildOpenedWorks, RegisterWorks, AdmitQueryWorks, FinishCreationWorks
<1>3. ASSUME NEW id \in WorkerIds, Send(id) \/ Stop(id) \/ ArchiveWorker(id) \/ HttpOpens(id)
      PROVE  WorkersInv'
  BY <1>3, SendWorks, StopWorks, HttpOpensWorks
<1>4. ASSUME NEW d \in drains, Drained(d) \/ DrainCancelled(d)
      PROVE  WorkersInv'
  BY <1>4, DrainedWorks, DrainCancelledWorks
<1>5. ASSUME NEW r \in runs, TurnReturns(r)
      PROVE  WorkersInv'
  BY <1>5, TurnReturnsWorks
<1>6. ASSUME NEW r \in runs, NEW at \in {"idle", "failed"}, RecordResult(r, at)
      PROVE  WorkersInv'
  BY <1>6, RecordResultWorks
<1>7. ASSUME NEW h \in deliveries, DeliverResult(h)
      PROVE  WorkersInv'
  BY <1>7, DeliverResultWorks
<1>8. ASSUME NEW h \in queued, InputAdmitted(h)
      PROVE  WorkersInv'
  BY <1>8, InputAdmittedWorks
<1>9. CASE ClearSubscriptions \/ StartClose \/ WritersDone
  BY <1>9, ClearSubscriptionsWorks, StartCloseWorks, WritersDoneWorks
<1>10. CASE UNCHANGED wvars
  <2>1. WorkersTyped'
    BY <1>10 DEF WorkersInv, WorkersTyped, wvars
  <2>2. \A k \in WorkerIds : CreationKnows(k)'
    BY <1>10 DEF WorkersInv, CreationKnows, Manages, wvars
  <2>3. RuntimesKnown'
    BY <1>10 DEF WorkersInv, RuntimesKnown, Manages, wvars
  <2>4. RunsCounted' /\ BooksAgree' /\ ParentReleased'
    BY <1>10 DEF WorkersInv, RunsCounted, BooksAgree, ParentReleased, Manages, wvars
  <2>5. QED
    BY <2>1, <2>2, <2>3, <2>4 DEF WorkersInv
<1>11. ASSUME NEW id \in WorkerIds,
             \/ \E b \in BOOLEAN : ReserveWorker(id, b)
             \/ ReserveReusable(id) \/ ChildOpened(id) \/ CreationCancelled(id)
             \/ AbandonedChildOpened(id) \/ Register(id) \/ AdmitQuery(id) \/ FinishCreation(id)
             \/ Send(id) \/ (\E b \in BOOLEAN : Subscribe(id, b))
             \/ Stop(id) \/ ArchiveWorker(id) \/ HttpOpens(id)
      PROVE  WorkersInv'
  BY <1>1, <1>2, <1>3, <1>11
<1>12. CASE WNext
  BY <1>4, <1>5, <1>7, <1>9, <1>11, <1>12, <1>6, <1>8 DEF WNext
<1>13. QED
  BY <1>10, <1>12

(* What the invariant says of the handoffs and of the runtimes.            *)
LEMMA WorkersAreSafe == WorkersInv => WTypeOK /\ WorkersSafe
<1> SUFFICES ASSUME WorkersInv PROVE WTypeOK /\ WorkersSafe
  OBVIOUS
<1>1. WTypeOK
  <2>1. \A id \in WorkerIds : worker[id] \in WorkerStates
    BY DEF WorkersInv, WorkersTyped
  <2>2. QED
    BY <2>1 DEF WorkersInv, WorkersTyped, WorkerStates, WTypeOK
<1>2. HandoffsBacked
  BY BooksAreBacked DEF WorkersInv
<1>3. ASSUME NEW id \in WorkerIds
      PROVE  /\ Cardinality(RuntimesOf(id)) <= 1
             /\ id \in http /\ RuntimesOf(id) # {} =>
                   \E d \in drains : d.id = id /\ d.for \in {"stop", "archive", "nobody"}
  <2>1. \A a \in RuntimesOf(id) : a = <<id, apps[id]>>
    BY DEF WorkersInv, WorkersTyped, RuntimesKnown, RuntimesOf
  <2>2. Cardinality(RuntimesOf(id)) <= 1
    <3>1. RuntimesOf(id) \subseteq {<<id, apps[id]>>}
      BY <2>1
    <3>2. IsFiniteSet({<<id, apps[id]>>}) /\ Cardinality({<<id, apps[id]>>}) = 1
      BY FS_Singleton
    <3>3. /\ IsFiniteSet(RuntimesOf(id))
          /\ Cardinality(RuntimesOf(id)) <= Cardinality({<<id, apps[id]>>})
      BY <3>1, <3>2, FS_Subset
    <3>4. QED
      BY <3>2, <3>3
  <2>3. ASSUME id \in http, NEW a \in RuntimesOf(id)
        PROVE  \E d \in drains : d.id = id /\ d.for \in {"stop", "archive", "nobody"}
    BY <2>3 DEF WorkersInv, RuntimesKnown, RuntimesOf
  <2>4. QED
    BY <2>2, <2>3
<1>4. QED
  BY <1>1, <1>2, <1>3 DEF WorkersInv, WorkersSafe, ReservedAlone

-----------------------------------------------------------------------------
(* MCP servers: the inductive invariant *)

ServerStates ==
    [given : AllSpecs, spec : AllSpecs,
     at : {"none", "load", "refused", "check", "connect", "list", "ready", "error", "closed"},
     stage : {"none", "connect", "tools/list"}, session : BOOLEAN, tools : BOOLEAN]
ServicesStates ==
    [started : BOOLEAN, starting : Nat, round : Nat, err : BOOLEAN, manager : BOOLEAN,
     closed : BOOLEAN, ready : BOOLEAN, awaited : [Starters -> Nat], late : SUBSET Notes]
GateStates ==
    [active : BOOLEAN, draining : BOOLEAN, closed : BOOLEAN, drainers : {0, 1}, calls : {0, 1},
     order : Seq(Notes), under : {"nobody", "activation", "notification"}]
RequestStates == [at : {"none", "written", "closed"}, entry : BOOLEAN, closes : {0, 1}]

(* The variables of the owner, its server and its callers have their       *)
(* shapes.                                                                 *)
MCPTyped ==
    /\ owner \in {"process", "module"}
    /\ server \in ServerStates /\ svc \in ServicesStates
    /\ caller \in [Starters -> {"idle", "starts", "waits", "published", "drains", "delivers",
                                "ok", "failed"}]
    /\ note \in [Notes -> {"none", "arrived", "unready", "queued", "delivering", "delivered",
                           "dropped"}]
    /\ queue \in Seq(Notes)
    /\ gate \in GateStates /\ toolCall \in RequestStates

(* A connection is tried with a valid specification only, and a session is *)
(* open only while its tools are listed or after that.                     *)
ServerKnows ==
    /\ server.at = "check" => ValidSpec(server.spec)
    /\ server.at \notin {"list", "ready"} => ~server.session
    /\ server.at = "list" => server.session
    /\ server.tools => server.session /\ server.at = "ready"

(* The start in progress has one caller; the manager is published by it,   *)
(* not after Close, and the queue is its own until it has emptied it.      *)
StartKnows ==
    /\ owner = "module" =>
          /\ svc.starting = 0 /\ ~svc.closed /\ ~svc.ready
          /\ \A c \in Starters : caller[c] = "idle"
    /\ owner = "process" /\ ~svc.started =>
          /\ svc.starting = 0 /\ ~svc.manager /\ server.at = "none"
    /\ \A c \in Starters : caller[c] \in {"starts", "published"} => svc.starting # 0
    /\ \A c, d \in Starters :
          caller[c] \in {"starts", "published"} /\ caller[d] \in {"starts", "published"} => c = d
    /\ \A c \in Starters : caller[c] = "starts" => ~svc.manager
    /\ \A c \in Starters : caller[c] \in {"drains", "delivers"} => svc.starting = 0 /\ svc.started
    /\ owner = "process" /\ server.session =>
          svc.manager \/ \E c \in Starters : caller[c] = "starts"
    /\ svc.manager => ~svc.closed
    /\ svc.ready => svc.started /\ svc.starting = 0

(* Once the starting caller has taken the queue, nothing is queued, or     *)
(* about to be, but what was held up before the queue then.  Only the end  *)
(* of an activation's context leaves notifications in an active gate.      *)
QueueKnows ==
    /\ svc.ready =>
          \/ \E c \in Starters : caller[c] = "drains"
          \/ /\ \A i \in DOMAIN queue : queue[i] \in svc.late
             /\ \A n \in Notes : note[n] = "unready" => n \in svc.late
    /\ owner = "module" => \A n \in Notes : note[n] # "unready"
    /\ gate.active /\ ~gate.closed /\ ~gate.draining => queue = <<>> \/ gate.under = "activation"

(* The gate has a drainer exactly while it is draining, which hands over   *)
(* one notification at a time.                                             *)
GateKnows ==
    /\ owner = "process" => ~gate.active /\ ~gate.draining
    /\ gate.draining <=> gate.drainers = 1
    /\ gate.calls <= gate.drainers
    /\ owner = "module" => \A n \in Notes : note[n] = "delivering" => gate.calls = 1
    /\ owner = "module" =>
          \A n, k \in Notes : note[n] = "delivering" /\ note[k] = "delivering" => n = k
    /\ owner = "module" /\ server.at = "closed" => gate.closed /\ ~gate.draining

(* The channel of a request is open exactly as long as its entry exists.   *)
RequestKnows ==
    /\ toolCall.at = "none" => ~toolCall.entry /\ toolCall.closes = 0
    /\ toolCall.at = "written" => (toolCall.entry <=> toolCall.closes = 0)
    /\ toolCall.at = "closed" => ~toolCall.entry /\ toolCall.closes = 1

MCPInv == MCPTyped /\ ServerKnows /\ StartKnows /\ QueueKnows /\ GateKnows /\ RequestKnows

-----------------------------------------------------------------------------
(* How the server, the services and the gate change *)

(* The queue is left to its head and its tail, or grows by one.            *)
LEMMA QueueSteps ==
    ASSUME NEW q \in Seq(Notes)
    PROVE  /\ \A n \in Notes : Append(q, n) \in Seq(Notes)
           /\ q # <<>> => Head(q) \in Notes /\ Tail(q) \in Seq(Notes)
           /\ <<>> \in Seq(Notes)
OBVIOUS

(* The start goes on to its next step.                                     *)
LEMMA ServerMoves ==
    ASSUME server \in ServerStates, NEW at, ServerAt(at),
           at \in {"none", "load", "refused", "check", "connect", "list", "ready", "error", "closed"}
    PROVE  /\ server' \in ServerStates /\ server'.at = at
           /\ server'.session = server.session /\ server'.tools = server.tools
           /\ server'.spec = server.spec
BY DEF ServerStates, ServerAt

(* A failure leaves no session.                                            *)
LEMMA ServerStops ==
    ASSUME server \in ServerStates, NEW stage \in {"connect", "tools/list"}, ServerFails(stage)
    PROVE  /\ server' \in ServerStates /\ server'.at = "error"
           /\ ~server'.session /\ server'.tools = server.tools
BY DEF ServerStates, ServerFails

(* A start begins with what the file gave.                                 *)
LEMMA ServerLoads ==
    ASSUME server \in ServerStates,
           server' = [server EXCEPT !.at = "load", !.spec = server.given]
    PROVE  /\ server' \in ServerStates /\ server'.at = "load"
           /\ server'.session = server.session /\ server'.tools = server.tools
BY DEF ServerStates

(* Manager.Close leaves neither a session nor Tools.                       *)
LEMMA ServerShuts ==
    ASSUME server \in ServerStates, server' = Shut
    PROVE  /\ server' \in ServerStates /\ server'.at = "closed"
           /\ ~server'.session /\ ~server'.tools
BY DEF ServerStates, Shut

(* A start is begun, is over, or has published the manager.                *)
LEMMA ServicesBegin ==
    ASSUME svc \in ServicesStates,
           svc' = [svc EXCEPT !.started = TRUE, !.starting = svc.round + 1, !.round = @ + 1, !.err = FALSE]
    PROVE  /\ svc' \in ServicesStates /\ svc'.started /\ svc'.starting # 0
           /\ svc'.manager = svc.manager /\ svc'.closed = svc.closed /\ svc'.ready = svc.ready /\ svc'.late = svc.late
<1>1. svc.round + 1 \in Nat /\ svc.round + 1 # 0
  BY DEF ServicesStates
<1>2. PICK r \in Nat : r = svc.round + 1
  BY <1>1
<1>3. svc' = [svc EXCEPT !.started = TRUE, !.starting = r, !.round = r, !.err = FALSE] /\ r # 0
  BY <1>1, <1>2
<1>4. QED
  BY <1>3 DEF ServicesStates

(* A caller waits for the start that is under way.                         *)
LEMMA ServicesAwait ==
    ASSUME svc \in ServicesStates, NEW c \in Starters,
           svc' = [svc EXCEPT !.awaited[c] = svc.starting]
    PROVE  /\ svc' \in ServicesStates /\ svc'.started = svc.started /\ svc'.starting = svc.starting
           /\ svc'.manager = svc.manager /\ svc'.closed = svc.closed /\ svc'.ready = svc.ready /\ svc'.late = svc.late
<1>1. [svc.awaited EXCEPT ![c] = svc.starting] \in [Starters -> Nat]
  BY DEF ServicesStates
<1>2. PICK w \in [Starters -> Nat] : w = [svc.awaited EXCEPT ![c] = svc.starting]
  BY <1>1
<1>3. svc' = [svc EXCEPT !.awaited = w]
  BY <1>2
<1>4. QED
  BY <1>3 DEF ServicesStates

(* A start is over, and may be tried again when it failed.                 *)
LEMMA ServicesEnd ==
    ASSUME svc \in ServicesStates, NEW err \in BOOLEAN, svc' = StartupFinished(svc, err)
    PROVE  /\ svc' \in ServicesStates /\ svc'.started = ~err /\ svc'.starting = 0
           /\ svc'.manager = svc.manager /\ svc'.closed = svc.closed /\ svc'.ready = svc.ready /\ svc'.late = svc.late
BY DEF ServicesStates, StartupFinished

(* Everyone who waits for the start is let go.                             *)
LEMMA ServicesRelease ==
    ASSUME svc \in ServicesStates, svc' = Released(svc)
    PROVE  /\ svc' \in ServicesStates /\ svc'.started /\ svc'.starting = 0 /\ svc'.ready
           /\ svc'.manager = svc.manager /\ svc'.closed = svc.closed
<1>1. svc' = [svc EXCEPT !.ready = TRUE, !.started = TRUE, !.err = FALSE, !.starting = 0]
  BY DEF Released, StartupFinished, ServicesStates
<1>2. svc' \in ServicesStates
  <2>1. svc' = [started |-> TRUE, starting |-> 0, round |-> svc.round, err |-> FALSE,
                manager |-> svc.manager, closed |-> svc.closed, ready |-> TRUE,
                awaited |-> svc.awaited, late |-> svc.late]
    BY <1>1 DEF ServicesStates
  <2>2. QED
    BY <2>1 DEF ServicesStates
<1>3. svc'.started = TRUE /\ svc'.starting = 0 /\ svc'.ready = TRUE
  BY <1>1 DEF ServicesStates
<1>4. svc'.manager = svc.manager /\ svc'.closed = svc.closed
  BY <1>1 DEF ServicesStates
<1>5. QED
  BY <1>2, <1>3, <1>4

(* The manager of a start is published.                                    *)
LEMMA ServicesPublish ==
    ASSUME svc \in ServicesStates, svc' = [svc EXCEPT !.manager = TRUE]
    PROVE  /\ svc' \in ServicesStates /\ svc'.started = svc.started /\ svc'.starting = svc.starting
           /\ svc'.manager /\ svc'.closed = svc.closed /\ svc'.ready = svc.ready /\ svc'.late = svc.late
BY DEF ServicesStates

(* The services are closed, and their manager with them.                   *)
LEMMA ServicesShut ==
    ASSUME svc \in ServicesStates, svc' = [svc EXCEPT !.closed = TRUE, !.manager = FALSE]
    PROVE  /\ svc' \in ServicesStates /\ svc'.started = svc.started /\ svc'.starting = svc.starting
           /\ ~svc'.manager /\ svc'.closed /\ svc'.ready = svc.ready /\ svc'.late = svc.late
BY DEF ServicesStates

(* A gate that an activation drains.                                       *)
LEMMA ActivatedGate ==
    ASSUME NEW c \in BOOLEAN, NEW k \in {0, 1}, NEW o \in Seq(Notes)
    PROVE  [active |-> TRUE, draining |-> TRUE, closed |-> c, drainers |-> 1, calls |-> k,
            order |-> o, under |-> "activation"] \in GateStates
BY DEF GateStates

(* The gate gets its drainer, calls it, or loses it.                       *)
LEMMA GateDrains ==
    ASSUME gate \in GateStates, gate.drainers = 0, gate' = [Drains("activation") EXCEPT !.active = TRUE]
    PROVE  /\ gate' \in GateStates /\ gate'.active /\ gate'.draining /\ gate'.drainers = 1
           /\ gate'.closed = gate.closed /\ gate'.calls = gate.calls
<1>1. Drains("activation") = [gate EXCEPT !.draining = TRUE, !.drainers = 1, !.under = "activation"]
  <2>1. gate.drainers + 1 = 1
    OBVIOUS
  <2>2. Drains("activation")
          = [gate EXCEPT !.draining = TRUE, !.drainers = gate.drainers + 1, !.under = "activation"]
    BY Zenon DEF Drains
  <2> QED BY <2>1, <2>2
<1>2. gate' = [active |-> TRUE, draining |-> TRUE, closed |-> gate.closed, drainers |-> 1,
               calls |-> gate.calls, order |-> gate.order, under |-> "activation"]
  BY <1>1 DEF GateStates
<1>3. gate.closed \in BOOLEAN /\ gate.calls \in {0, 1} /\ gate.order \in Seq(Notes)
  BY DEF GateStates
<1>4. gate' \in GateStates
  <2>1. [active |-> TRUE, draining |-> TRUE, closed |-> gate.closed, drainers |-> 1,
         calls |-> gate.calls, order |-> gate.order, under |-> "activation"] \in GateStates
    BY <1>3, ActivatedGate
  <2> QED BY <1>2, <2>1
<1>5. QED
  BY <1>2, <1>4

(* The drainer calls the handler once at a time.                           *)
LEMMA GateCalls ==
    ASSUME gate \in GateStates, gate.calls = 0, gate' = [gate EXCEPT !.calls = @ + 1]
    PROVE  /\ gate' \in GateStates /\ gate'.calls = 1 /\ gate'.drainers = gate.drainers
           /\ gate'.closed = gate.closed /\ gate'.active = gate.active
           /\ gate'.draining = gate.draining /\ gate'.under = gate.under
BY DEF GateStates

(* The handler is back, and its notification is in the order.              *)
LEMMA GateReturns ==
    ASSUME gate \in GateStates, NEW n \in Notes, gate.calls = 1,
           gate' = [gate EXCEPT !.calls = @ - 1, !.order = Append(@, n)]
    PROVE  /\ gate' \in GateStates /\ gate'.calls = 0 /\ gate'.drainers = gate.drainers
           /\ gate'.closed = gate.closed /\ gate'.active = gate.active
           /\ gate'.draining = gate.draining /\ gate'.under = gate.under
<1>1. gate.order \in Seq(Notes)
  BY DEF GateStates
<1>2. PICK order \in Seq(Notes) : order = Append(gate.order, n)
  BY <1>1, QueueSteps
<1>3. gate' = [gate EXCEPT !.calls = 0, !.order = order]
  BY <1>2
<1>4. QED
  BY <1>3 DEF GateStates

(* The drainer stops.                                                      *)
LEMMA GateEnds ==
    ASSUME gate \in GateStates, gate.drainers = 1,
           gate' = [gate EXCEPT !.draining = FALSE, !.drainers = @ - 1]
    PROVE  /\ gate' \in GateStates /\ ~gate'.draining /\ gate'.drainers = 0
           /\ gate'.closed = gate.closed /\ gate'.active = gate.active /\ gate'.calls = gate.calls
           /\ gate'.under = gate.under
<1>1. gate' = [gate EXCEPT !.draining = FALSE, !.drainers = 0]
  OBVIOUS
<1>2. QED
  BY <1>1 DEF GateStates

(* The gate is activated, held or closed.                                  *)
LEMMA GateFlags ==
    ASSUME gate \in GateStates, NEW on \in BOOLEAN, NEW over \in BOOLEAN,
           gate' = [gate EXCEPT !.active = on, !.closed = over]
    PROVE  /\ gate' \in GateStates /\ gate'.active = on /\ gate'.closed = over
           /\ gate'.draining = gate.draining /\ gate'.drainers = gate.drainers
           /\ gate'.calls = gate.calls /\ gate'.under = gate.under
BY DEF GateStates

(* A caller goes on to its next step.                                      *)
LEMMA CallerMoves ==
    ASSUME MCPTyped, NEW c \in Starters,
           NEW at \in {"idle", "starts", "waits", "published", "drains", "delivers", "ok", "failed"},
           CallerAt(c, at)
    PROVE  /\ caller' \in [Starters -> {"idle", "starts", "waits", "published", "drains",
                                        "delivers", "ok", "failed"}]
           /\ caller'[c] = at /\ \A d \in Starters : d # c => caller'[d] = caller[d]
BY DEF MCPTyped, CallerAt

(* A notification goes on to its next step.                                *)
LEMMA NoteMoves ==
    ASSUME MCPTyped, NEW n \in Notes,
           NEW at \in {"none", "arrived", "unready", "queued", "delivering", "delivered", "dropped"},
           note' = [note EXCEPT ![n] = at]
    PROVE  /\ note' \in [Notes -> {"none", "arrived", "unready", "queued", "delivering",
                                   "delivered", "dropped"}]
           /\ note'[n] = at /\ \A k \in Notes : k # n => note'[k] = note[k]
BY DEF MCPTyped

(* A specification that was prepared has the shape of one.                 *)
LEMMA PreparedSpec ==
    ASSUME NEW s \in AllSpecs, NEW value PROVE Prepared(s, value) \in AllSpecs
BY ZenonT(40) DEF Prepared, AllSpecs

(* ReadinessAgrees: a valid specification that names a URL passes both     *)
(* checks that are made again at connection.                               *)
LEMMA ValidIsReady ==
    ASSUME NEW s \in AllSpecs, ValidSpec(s), s.url # "absent"
    PROVE  RemoteSelectionOk(s) /\ RemoteCredentialsOk(s)
BY DEF ValidSpec, SelectionOk, CredentialsOk, RemoteSelectionOk, RemoteCredentialsOk, Transport,
       AllSpecs

(* One step of a start leaves the server in its shape; it never closes it. *)
LEMMA ManagerSteps ==
    ASSUME server \in ServerStates, ServerKnows, Manager
    PROVE  /\ server' \in ServerStates /\ ServerKnows'
           /\ server.at \notin {"none", "closed"} /\ server'.at \notin {"none", "closed"}
<1>1. CASE Load
  <2>1. CASE ServerAt("refused")
    BY <1>1, <2>1, ServerMoves DEF Load, ServerKnows
  <2>2. CASE \E value \in {"set", "missing", "bad"} :
                /\ ValidSpec(Prepared(server.spec, value))
                /\ server' = [server EXCEPT !.at = "check", !.spec = Prepared(server.spec, value)]
    <3>1. PICK value \in {"set", "missing", "bad"} :
                /\ ValidSpec(Prepared(server.spec, value))
                /\ server' = [server EXCEPT !.at = "check", !.spec = Prepared(server.spec, value)]
      BY <2>2
    <3>2. server.spec \in AllSpecs
      BY DEF ServerStates
    <3>3. PICK p \in AllSpecs : p = Prepared(server.spec, value)
      BY <3>2, PreparedSpec
    <3>4. server' = [server EXCEPT !.at = "check", !.spec = p] /\ ValidSpec(p)
      BY <3>1, <3>3
    <3>5. server' \in ServerStates /\ server'.at = "check" /\ server'.spec = p
             /\ server'.session = server.session /\ server'.tools = server.tools
      BY <3>4 DEF ServerStates
    <3>6. server.at = "load"
      BY <1>1 DEF Load
    <3>7. QED
      BY <3>4, <3>5, <3>6 DEF ServerKnows
  <2>3. QED
    BY <1>1, <2>1, <2>2 DEF Load
<1>2. CASE Check
  <2>1. CASE ServerAt("connect")
    BY <1>2, <2>1, ServerMoves DEF Check, ServerKnows
  <2>2. server.at = "check" /\ server.spec \in AllSpecs /\ ValidSpec(server.spec)
    BY <1>2 DEF Check, ServerKnows, ServerStates
  <2>3. QED
    BY <1>2, <2>1, <2>2, ValidIsReady DEF Check
<1>3. CASE Connect
  <2>1. CASE server' = [server EXCEPT !.at = "list", !.session = TRUE]
    <3>1. server' \in ServerStates /\ server'.at = "list" /\ server'.session
             /\ server'.tools = server.tools
      BY <2>1 DEF ServerStates
    <3>2. QED
      BY <1>3, <3>1 DEF Connect, ServerKnows
  <2>2. CASE ServerFails("connect")
    BY <1>3, <2>2, ServerStops DEF Connect, ServerKnows
  <2>3. QED
    BY <1>3, <2>1, <2>2 DEF Connect
<1>4. CASE ListTools
  <2>1. CASE server' = [server EXCEPT !.at = "ready", !.tools = TRUE]
    <3>1. server' \in ServerStates /\ server'.at = "ready"
             /\ server'.session = server.session
      BY <2>1 DEF ServerStates
    <3>2. server.session
      BY <1>4 DEF ListTools, ServerKnows
    <3>3. QED
      BY <1>4, <3>1, <3>2 DEF ListTools, ServerKnows
  <2>2. CASE ServerFails("tools/list")
    BY <1>4, <2>2, ServerStops DEF ListTools, ServerKnows
  <2>3. QED
    BY <1>4, <2>1, <2>2 DEF ListTools
<1>5. QED
  BY <1>1, <1>2, <1>3, <1>4 DEF Manager

-----------------------------------------------------------------------------
(* Each step keeps the invariant *)
(* A caller finds the start done, under way, or begins it.                 *)
LEMMA EnsureServes ==
    ASSUME MCPInv, NEW c \in Starters, Ensure(c) PROVE MCPInv'
<1> USE DEF MCPInv
<1>1. CASE svc.started
  <2>1. UNCHANGED <<owner, server, note, queue, gate, toolCall>>
    BY <1>1 DEF Ensure
  <2>2. svc' \in ServicesStates /\ svc'.started = svc.started /\ svc'.starting = svc.starting
     /\ svc'.manager = svc.manager /\ svc'.closed = svc.closed /\ svc'.ready = svc.ready /\ svc'.late = svc.late
    BY <1>1, ServicesAwait DEF Ensure, MCPTyped
  <2>3. caller' \in [Starters -> {"idle", "starts", "waits", "published", "drains", "delivers",
                             "ok", "failed"}]
     /\ caller'[c] \in {"ok", "waits"} /\ \A d \in Starters : d # c => caller'[d] = caller[d]
    BY <1>1, CallerMoves DEF Ensure
  <2>4. MCPTyped'
    BY <1>1, <2>1, <2>2, <2>3 DEF MCPTyped
  <2>5. ServerKnows'
    BY <2>1 DEF ServerKnows
  <2>6. StartKnows'
    BY <1>1, <2>1, <2>2, <2>3 DEF StartKnows, ServerKnows, QueueKnows, MCPTyped, Ensure
  <2>7. QueueKnows'
    BY <1>1, <2>1, <2>2, <2>3 DEF QueueKnows, StartKnows, GateKnows, MCPTyped, Ensure
  <2>8. GateKnows'
    BY <2>1 DEF GateKnows
  <2>9. RequestKnows'
    BY <2>1 DEF RequestKnows
  <2> QED BY <2>4, <2>5, <2>6, <2>7, <2>8, <2>9
<1>2. CASE ~svc.started
  <2>1. UNCHANGED <<owner, note, queue, gate, toolCall>>
    BY <1>2 DEF Ensure
  <2>2. svc' \in ServicesStates /\ svc'.started /\ svc'.starting # 0
     /\ svc'.manager = svc.manager /\ svc'.closed = svc.closed /\ svc'.ready = svc.ready /\ svc'.late = svc.late
    BY <1>2, ServicesBegin DEF Ensure, MCPTyped
  <2>3. caller' \in [Starters -> {"idle", "starts", "waits", "published", "drains", "delivers",
                             "ok", "failed"}]
     /\ caller'[c] = "starts" /\ \A d \in Starters : d # c => caller'[d] = caller[d]
    BY <1>2, CallerMoves DEF Ensure
  <2>4. server' \in ServerStates /\ server'.at = "load" /\ server'.session = server.session
     /\ server'.tools = server.tools
    BY <1>2, ServerLoads DEF Ensure, MCPTyped
  <2>5. MCPTyped'
    BY <1>2, <2>1, <2>2, <2>3, <2>4 DEF MCPTyped
  <2>6. ServerKnows'
    BY <1>2, <2>1, <2>2, <2>3, <2>4 DEF ServerKnows, StartKnows, MCPTyped, Ensure
  <2>7. StartKnows'
    BY <1>2, <2>1, <2>2, <2>3, <2>4 DEF StartKnows, ServerKnows, QueueKnows, MCPTyped, Ensure
  <2>8. QueueKnows'
    BY <1>2, <2>1, <2>2, <2>3, <2>4 DEF QueueKnows, StartKnows, GateKnows, MCPTyped, Ensure
  <2>9. GateKnows'
    BY <1>2, <2>1, <2>2, <2>3, <2>4 DEF GateKnows, StartKnows, GateStates, MCPTyped, Ensure
  <2>10. RequestKnows'
    BY <2>1 DEF RequestKnows
  <2> QED BY <2>5, <2>6, <2>7, <2>8, <2>9, <2>10
<1> QED BY <1>1, <1>2 DEF Ensure, MCPTyped

(* A caller that waited is told how the start ended.                       *)
LEMMA WokenServes ==
    ASSUME MCPInv, NEW c \in Starters, Woken(c) PROVE MCPInv'
<1> USE DEF MCPInv
<1>1. UNCHANGED <<owner, server, svc, note, queue, gate, toolCall>>
  BY DEF Woken
<1>2. caller' \in [Starters -> {"idle", "starts", "waits", "published", "drains", "delivers",
                           "ok", "failed"}]
   /\ caller'[c] \in {"ok", "failed"} /\ \A d \in Starters : d # c => caller'[d] = caller[d]
  BY CallerMoves DEF Woken
<1>3. MCPTyped'
  BY <1>1, <1>2 DEF MCPTyped
<1>4. ServerKnows'
  BY <1>1 DEF ServerKnows
<1>5. StartKnows'
  BY <1>1, <1>2 DEF StartKnows, ServerKnows, QueueKnows, MCPTyped, Woken
<1>6. QueueKnows'
  BY <1>1, <1>2 DEF QueueKnows, StartKnows, GateKnows, MCPTyped, Woken
<1>7. GateKnows'
  BY <1>1 DEF GateKnows
<1>8. RequestKnows'
  BY <1>1 DEF RequestKnows
<1> QED BY <1>3, <1>4, <1>5, <1>6, <1>7, <1>8

(* A caller that waited gives up.                                          *)
LEMMA GivesUpServes ==
    ASSUME MCPInv, NEW c \in Starters, GivesUp(c) PROVE MCPInv'
<1> USE DEF MCPInv
<1>1. UNCHANGED <<owner, server, svc, note, queue, gate, toolCall>>
  BY DEF GivesUp
<1>2. caller' \in [Starters -> {"idle", "starts", "waits", "published", "drains", "delivers",
                           "ok", "failed"}]
   /\ caller'[c] = "failed" /\ \A d \in Starters : d # c => caller'[d] = caller[d]
  BY CallerMoves DEF GivesUp
<1>3. MCPTyped'
  BY <1>1, <1>2 DEF MCPTyped
<1>4. ServerKnows'
  BY <1>1 DEF ServerKnows
<1>5. StartKnows'
  BY <1>1, <1>2 DEF StartKnows, ServerKnows, QueueKnows, MCPTyped, GivesUp
<1>6. QueueKnows'
  BY <1>1, <1>2 DEF QueueKnows, StartKnows, GateKnows, MCPTyped, GivesUp
<1>7. GateKnows'
  BY <1>1 DEF GateKnows
<1>8. RequestKnows'
  BY <1>1 DEF RequestKnows
<1> QED BY <1>3, <1>4, <1>5, <1>6, <1>7, <1>8

(* The starting caller takes a step of the start.                          *)
LEMMA StartingServes ==
    ASSUME MCPInv, NEW c \in Starters, Starting(c) PROVE MCPInv'
<1> USE DEF MCPInv
<1>1. UNCHANGED <<owner, svc, caller, note, queue, gate, toolCall>>
  BY DEF Starting
<1>2. server' \in ServerStates /\ ServerKnows' /\ server.at # "none"
   /\ server'.at \notin {"none", "closed"}
  BY ManagerSteps DEF Starting, MCPTyped
<1>3. MCPTyped'
  BY <1>1, <1>2 DEF MCPTyped
<1>4. ServerKnows'
  BY <1>1, <1>2 DEF ServerKnows, StartKnows, MCPTyped, Starting
<1>5. StartKnows'
  BY <1>1, <1>2 DEF StartKnows, ServerKnows, QueueKnows, MCPTyped, Starting
<1>6. QueueKnows'
  BY <1>1 DEF QueueKnows
<1>7. GateKnows'
  BY <1>1, <1>2 DEF GateKnows, StartKnows, GateStates, MCPTyped, Starting
<1>8. RequestKnows'
  BY <1>1 DEF RequestKnows
<1> QED BY <1>3, <1>4, <1>5, <1>6, <1>7, <1>8

(* The start fails.                                                        *)
LEMMA StartFailsServes ==
    ASSUME MCPInv, NEW c \in Starters, StartFails(c) PROVE MCPInv'
<1> USE DEF MCPInv
<1>1. UNCHANGED <<owner, note, queue, gate, toolCall>>
  BY DEF StartFails
<1>2. svc' \in ServicesStates /\ ~svc'.started /\ svc'.starting = 0
   /\ svc'.manager = svc.manager /\ svc'.closed = svc.closed /\ svc'.ready = svc.ready /\ svc'.late = svc.late
  BY ServicesEnd DEF StartFails, MCPTyped
<1>3. caller' \in [Starters -> {"idle", "starts", "waits", "published", "drains", "delivers",
                           "ok", "failed"}]
   /\ caller'[c] = "failed" /\ \A d \in Starters : d # c => caller'[d] = caller[d]
  BY CallerMoves DEF StartFails
<1>4. server' \in ServerStates /\ server'.at = "none" /\ server'.session = server.session
   /\ server'.tools = server.tools
  BY ServerMoves DEF StartFails, MCPTyped
<1>5. MCPTyped'
  BY <1>1, <1>2, <1>3, <1>4 DEF MCPTyped
<1>6. ServerKnows'
  BY <1>1, <1>2, <1>3, <1>4 DEF ServerKnows, StartKnows, MCPTyped, StartFails
<1>7. StartKnows'
  BY <1>1, <1>2, <1>3, <1>4 DEF StartKnows, ServerKnows, QueueKnows, MCPTyped, StartFails
<1>8. QueueKnows'
  BY <1>1, <1>2, <1>3, <1>4 DEF QueueKnows, StartKnows, GateKnows, MCPTyped, StartFails
<1>9. GateKnows'
  BY <1>1, <1>2, <1>3, <1>4 DEF GateKnows, StartKnows, GateStates, MCPTyped, StartFails
<1>10. RequestKnows'
  BY <1>1 DEF RequestKnows
<1> QED BY <1>5, <1>6, <1>7, <1>8, <1>9, <1>10

(* The manager is published, or closed when Close came first.              *)
LEMMA PublishServes ==
    ASSUME MCPInv, NEW c \in Starters, Publish(c) PROVE MCPInv'
<1> USE DEF MCPInv
<1>1. CASE svc.closed
  <2>1. UNCHANGED <<owner, note, queue, gate, toolCall>>
    BY <1>1 DEF Publish
  <2>2. svc' \in ServicesStates /\ svc'.started /\ svc'.starting = 0
     /\ svc'.manager = svc.manager /\ svc'.closed = svc.closed /\ svc'.ready = svc.ready /\ svc'.late = svc.late
    BY <1>1, ServicesEnd DEF Publish, MCPTyped
  <2>3. caller' \in [Starters -> {"idle", "starts", "waits", "published", "drains", "delivers",
                             "ok", "failed"}]
     /\ caller'[c] = "ok" /\ \A d \in Starters : d # c => caller'[d] = caller[d]
    BY <1>1, CallerMoves DEF Publish
  <2>4. server' \in ServerStates /\ server'.at = "closed" /\ ~server'.session /\ ~server'.tools
    BY <1>1, ServerShuts DEF Publish, MCPTyped
  <2>5. MCPTyped'
    BY <1>1, <2>1, <2>2, <2>3, <2>4 DEF MCPTyped
  <2>6. ServerKnows'
    BY <1>1, <2>1, <2>2, <2>3, <2>4 DEF ServerKnows, StartKnows, MCPTyped, Publish
  <2>7. StartKnows'
    BY <1>1, <2>1, <2>2, <2>3, <2>4 DEF StartKnows, ServerKnows, QueueKnows, MCPTyped, Publish
  <2>8. QueueKnows'
    BY <1>1, <2>1, <2>2, <2>3, <2>4 DEF QueueKnows, StartKnows, GateKnows, MCPTyped, Publish
  <2>9. GateKnows'
    BY <1>1, <2>1, <2>2, <2>3, <2>4 DEF GateKnows, StartKnows, GateStates, MCPTyped, Publish
  <2>10. RequestKnows'
    BY <2>1 DEF RequestKnows
  <2> QED BY <2>5, <2>6, <2>7, <2>8, <2>9, <2>10
<1>2. CASE ~svc.closed
  <2>1. UNCHANGED <<owner, server, note, queue, gate, toolCall>>
    BY <1>2 DEF Publish
  <2>2. svc' \in ServicesStates /\ svc'.started = svc.started /\ svc'.starting = svc.starting
     /\ svc'.manager /\ svc'.closed = svc.closed /\ svc'.ready = svc.ready /\ svc'.late = svc.late
    BY <1>2, ServicesPublish DEF Publish, MCPTyped
  <2>3. caller' \in [Starters -> {"idle", "starts", "waits", "published", "drains", "delivers",
                             "ok", "failed"}]
     /\ caller'[c] = "published" /\ \A d \in Starters : d # c => caller'[d] = caller[d]
    BY <1>2, CallerMoves DEF Publish
  <2>4. MCPTyped'
    BY <1>2, <2>1, <2>2, <2>3 DEF MCPTyped
  <2>5. ServerKnows'
    BY <2>1 DEF ServerKnows
  <2>6. StartKnows'
    BY <1>2, <2>1, <2>2, <2>3, SMTT(60) DEF StartKnows, MCPTyped, Publish
  <2>7. QueueKnows'
    BY <1>2, <2>1, <2>2, <2>3 DEF QueueKnows, StartKnows, GateKnows, MCPTyped, Publish
  <2>8. GateKnows'
    BY <2>1 DEF GateKnows
  <2>9. RequestKnows'
    BY <2>1 DEF RequestKnows
  <2> QED BY <2>4, <2>5, <2>6, <2>7, <2>8, <2>9
<1> QED BY <1>1, <1>2 DEF Publish, MCPTyped

(* The waiters are released.                                               *)
LEMMA ReleaseServes ==
    ASSUME MCPInv, NEW c \in Starters, Release(c) PROVE MCPInv'
<1> USE DEF MCPInv
<1>1. UNCHANGED <<owner, server, note, queue, gate, toolCall>>
  BY DEF Release
<1>2. svc' \in ServicesStates /\ svc'.started /\ svc'.starting = 0
   /\ svc'.manager = svc.manager /\ svc'.closed = svc.closed /\ svc'.ready
  BY ServicesRelease DEF Release, MCPTyped
<1>3. caller' \in [Starters -> {"idle", "starts", "waits", "published", "drains", "delivers",
                           "ok", "failed"}]
   /\ caller'[c] = "drains" /\ \A d \in Starters : d # c => caller'[d] = caller[d]
  BY CallerMoves DEF Release
<1>4. MCPTyped'
  BY <1>1, <1>2, <1>3 DEF MCPTyped
<1>5. ServerKnows'
  BY <1>1 DEF ServerKnows
<1>6. StartKnows'
  BY <1>1, <1>2, <1>3 DEF StartKnows, ServerKnows, QueueKnows, MCPTyped, Release
<1>7. QueueKnows'
  BY <1>1, <1>2, <1>3 DEF QueueKnows, StartKnows, GateKnows, MCPTyped, Release
<1>8. GateKnows'
  BY <1>1 DEF GateKnows
<1>9. RequestKnows'
  BY <1>1 DEF RequestKnows
<1> QED BY <1>4, <1>5, <1>6, <1>7, <1>8, <1>9

(* The starting caller takes the queue.                                    *)
LEMMA TakeQueueServes ==
    ASSUME MCPInv, NEW c \in Starters, TakeQueue(c) PROVE MCPInv'
<1> USE DEF MCPInv
<1>1. /\ UNCHANGED <<owner, server, gate, toolCall>>
      /\ svc' = [svc EXCEPT !.late = {n \in Notes : note[n] = "unready"}]
      /\ svc' \in ServicesStates /\ svc'.late = {n \in Notes : note[n] = "unready"}
      /\ svc'.started = svc.started /\ svc'.starting = svc.starting /\ svc'.manager = svc.manager
      /\ svc'.closed = svc.closed /\ svc'.ready = svc.ready
  BY DEF TakeQueue, MCPTyped, ServicesStates
<1>2. caller' \in [Starters -> {"idle", "starts", "waits", "published", "drains", "delivers",
                           "ok", "failed"}]
   /\ caller'[c] = "delivers" /\ \A d \in Starters : d # c => caller'[d] = caller[d]
  BY CallerMoves DEF TakeQueue
<1>3. note' \in [Notes -> {"none", "arrived", "unready", "queued", "delivering", "delivered",
                       "dropped"}]
   /\ \A n \in Notes : note'[n] \in {"delivering", note[n]}
  BY DEF TakeQueue, MCPTyped
<1>4. queue' = <<>> /\ queue' \in Seq(Notes)
  BY QueueSteps DEF TakeQueue
<1>5. DOMAIN queue' = {} /\ \A n \in Notes : note'[n] = "unready" => n \in svc'.late
  BY <1>1, <1>3, <1>4
<1>6. owner # "module"
  BY DEF TakeQueue, StartKnows
<1>7. MCPTyped'
  BY <1>1, <1>2, <1>3, <1>4, <1>5, <1>6 DEF MCPTyped
<1>8. ServerKnows'
  BY <1>1 DEF ServerKnows
<1>9. StartKnows'
  BY <1>1, <1>2, <1>3, <1>4, <1>5, <1>6 DEF StartKnows, ServerKnows, QueueKnows, MCPTyped, TakeQueue
<1>10. QueueKnows'
  BY <1>1, <1>2, <1>3, <1>4, <1>5, <1>6 DEF QueueKnows, StartKnows, GateKnows, MCPTyped, TakeQueue
<1>11. GateKnows'
  BY <1>1, <1>2, <1>3, <1>4, <1>5, <1>6 DEF GateKnows, StartKnows, GateStates, MCPTyped, TakeQueue
<1>12. RequestKnows'
  BY <1>1 DEF RequestKnows
<1> QED BY <1>7, <1>8, <1>9, <1>10, <1>11, <1>12

(* The early notifications have been handled.                              *)
LEMMA EarlyDeliveredServes ==
    ASSUME MCPInv, NEW c \in Starters, EarlyDelivered(c) PROVE MCPInv'
<1> USE DEF MCPInv
<1>1. UNCHANGED <<owner, server, svc, note, queue, gate, toolCall>>
  BY DEF EarlyDelivered
<1>2. caller' \in [Starters -> {"idle", "starts", "waits", "published", "drains", "delivers",
                           "ok", "failed"}]
   /\ caller'[c] = "ok" /\ \A d \in Starters : d # c => caller'[d] = caller[d]
  BY CallerMoves DEF EarlyDelivered
<1>3. MCPTyped'
  BY <1>1, <1>2 DEF MCPTyped
<1>4. ServerKnows'
  BY <1>1 DEF ServerKnows
<1>5. StartKnows'
  BY <1>1, <1>2 DEF StartKnows, ServerKnows, QueueKnows, MCPTyped, EarlyDelivered
<1>6. QueueKnows'
  BY <1>1, <1>2 DEF QueueKnows, StartKnows, GateKnows, MCPTyped, EarlyDelivered
<1>7. GateKnows'
  BY <1>1 DEF GateKnows
<1>8. RequestKnows'
  BY <1>1 DEF RequestKnows
<1> QED BY <1>3, <1>4, <1>5, <1>6, <1>7, <1>8

(* The services close.                                                     *)
LEMMA CloseServicesServes ==
    ASSUME MCPInv, CloseServices PROVE MCPInv'
<1> USE DEF MCPInv
<1>1. CASE svc.manager
  <2>1. UNCHANGED <<owner, caller, note, queue, gate, toolCall>>
    BY <1>1 DEF CloseServices
  <2>2. svc' \in ServicesStates /\ svc'.started = svc.started /\ svc'.starting = svc.starting
     /\ ~svc'.manager /\ svc'.closed /\ svc'.ready = svc.ready /\ svc'.late = svc.late
    BY <1>1, ServicesShut DEF CloseServices, MCPTyped
  <2>3. server' \in ServerStates /\ server'.at = "closed" /\ ~server'.session /\ ~server'.tools
    BY <1>1, ServerShuts DEF CloseServices, MCPTyped
  <2>4. MCPTyped'
    BY <1>1, <2>1, <2>2, <2>3 DEF MCPTyped
  <2>5. ServerKnows'
    BY <1>1, <2>1, <2>2, <2>3 DEF ServerKnows, StartKnows, MCPTyped, CloseServices
  <2>6. StartKnows'
    BY <1>1, <2>1, <2>2, <2>3 DEF StartKnows, ServerKnows, QueueKnows, MCPTyped, CloseServices
  <2>7. QueueKnows'
    BY <1>1, <2>1, <2>2, <2>3 DEF QueueKnows, StartKnows, GateKnows, MCPTyped, CloseServices
  <2>8. GateKnows'
    BY <1>1, <2>1, <2>2, <2>3 DEF GateKnows, StartKnows, GateStates, MCPTyped, CloseServices
  <2>9. RequestKnows'
    BY <2>1 DEF RequestKnows
  <2> QED BY <2>4, <2>5, <2>6, <2>7, <2>8, <2>9
<1>2. CASE ~svc.manager
  <2>1. UNCHANGED <<owner, server, caller, note, queue, gate, toolCall>>
    BY <1>2 DEF CloseServices
  <2>2. svc' \in ServicesStates /\ svc'.started = svc.started /\ svc'.starting = svc.starting
     /\ ~svc'.manager /\ svc'.closed /\ svc'.ready = svc.ready /\ svc'.late = svc.late
    BY <1>2, ServicesShut DEF CloseServices, MCPTyped
  <2>3. MCPTyped'
    BY <1>2, <2>1, <2>2 DEF MCPTyped
  <2>4. ServerKnows'
    BY <2>1 DEF ServerKnows
  <2>5. StartKnows'
    BY <1>2, <2>1, <2>2 DEF StartKnows, ServerKnows, QueueKnows, MCPTyped, CloseServices
  <2>6. QueueKnows'
    BY <1>2, <2>1, <2>2 DEF QueueKnows, StartKnows, GateKnows, MCPTyped, CloseServices
  <2>7. GateKnows'
    BY <2>1 DEF GateKnows
  <2>8. RequestKnows'
    BY <2>1 DEF RequestKnows
  <2> QED BY <2>3, <2>4, <2>5, <2>6, <2>7, <2>8
<1> QED BY <1>1, <1>2 DEF CloseServices, MCPTyped

(* A notification arrives.                                                 *)
LEMMA DispatchServes ==
    ASSUME MCPInv, NEW n \in Notes, Dispatch(n) PROVE MCPInv'
<1> USE DEF MCPInv
<1>1. UNCHANGED <<owner, server, svc, caller, queue, gate, toolCall>>
  BY DEF Dispatch
<1>2. note' \in [Notes -> {"none", "arrived", "unready", "queued", "delivering", "delivered",
                       "dropped"}]
   /\ note'[n] = "arrived" /\ \A k \in Notes : k # n => note'[k] = note[k]
  BY NoteMoves DEF Dispatch
<1>3. MCPTyped'
  BY <1>1, <1>2 DEF MCPTyped
<1>4. ServerKnows'
  BY <1>1 DEF ServerKnows
<1>5. StartKnows'
  BY <1>1 DEF StartKnows
<1>6. QueueKnows'
  BY <1>1, <1>2 DEF QueueKnows, StartKnows, GateKnows, MCPTyped, Dispatch
<1>7. GateKnows'
  BY <1>1, <1>2 DEF GateKnows, StartKnows, GateStates, MCPTyped, Dispatch
<1>8. RequestKnows'
  BY <1>1 DEF RequestKnows
<1> QED BY <1>3, <1>4, <1>5, <1>6, <1>7, <1>8

(* A notification finds the services ready or not.                         *)
LEMMA TestReadyServes ==
    ASSUME MCPInv, NEW n \in Notes, TestReady(n) PROVE MCPInv'
<1> USE DEF MCPInv
<1>1. CASE svc.ready
  <2>1. UNCHANGED <<owner, server, svc, caller, queue, gate, toolCall>>
    BY <1>1 DEF TestReady
  <2>2. note' \in [Notes -> {"none", "arrived", "unready", "queued", "delivering", "delivered",
                         "dropped"}]
     /\ note'[n] = "delivering" /\ \A k \in Notes : k # n => note'[k] = note[k]
    BY <1>1, NoteMoves DEF TestReady
  <2>3. MCPTyped'
    BY <1>1, <2>1, <2>2 DEF MCPTyped
  <2>4. ServerKnows'
    BY <2>1 DEF ServerKnows
  <2>5. StartKnows'
    BY <2>1 DEF StartKnows
  <2>6. QueueKnows'
    BY <1>1, <2>1, <2>2 DEF QueueKnows, StartKnows, GateKnows, MCPTyped, TestReady
  <2>7. GateKnows'
    BY <1>1, <2>1, <2>2 DEF GateKnows, StartKnows, GateStates, MCPTyped, TestReady
  <2>8. RequestKnows'
    BY <2>1 DEF RequestKnows
  <2> QED BY <2>3, <2>4, <2>5, <2>6, <2>7, <2>8
<1>2. CASE ~svc.ready
  <2>1. UNCHANGED <<owner, server, svc, caller, queue, gate, toolCall>>
    BY <1>2 DEF TestReady
  <2>2. note' \in [Notes -> {"none", "arrived", "unready", "queued", "delivering", "delivered",
                         "dropped"}]
     /\ note'[n] = "unready" /\ \A k \in Notes : k # n => note'[k] = note[k]
    BY <1>2, NoteMoves DEF TestReady
  <2>3. MCPTyped'
    BY <1>2, <2>1, <2>2 DEF MCPTyped
  <2>4. ServerKnows'
    BY <2>1 DEF ServerKnows
  <2>5. StartKnows'
    BY <2>1 DEF StartKnows
  <2>6. QueueKnows'
    BY <1>2, <2>1, <2>2 DEF QueueKnows, StartKnows, GateKnows, MCPTyped, TestReady
  <2>7. GateKnows'
    BY <1>2, <2>1, <2>2 DEF GateKnows, StartKnows, GateStates, MCPTyped, TestReady
  <2>8. RequestKnows'
    BY <2>1 DEF RequestKnows
  <2> QED BY <2>3, <2>4, <2>5, <2>6, <2>7, <2>8
<1> QED BY <1>1, <1>2 DEF TestReady, MCPTyped

(* A notification that came early is queued.                               *)
LEMMA QueueServes ==
    ASSUME MCPInv, NEW n \in Notes, Queue(n) PROVE MCPInv'
<1> USE DEF MCPInv
<1>1. UNCHANGED <<owner, server, svc, caller, gate, toolCall>>
  BY DEF Queue
<1>2. note' \in [Notes -> {"none", "arrived", "unready", "queued", "delivering", "delivered",
                       "dropped"}]
   /\ note'[n] = "queued" /\ \A k \in Notes : k # n => note'[k] = note[k]
  BY NoteMoves DEF Queue
<1>3. queue' \in Seq(Notes)
  BY QueueSteps DEF Queue, MCPTyped
<1>4. MCPTyped'
  BY <1>1, <1>2, <1>3 DEF MCPTyped
<1>5. ServerKnows'
  BY <1>1 DEF ServerKnows
<1>6. StartKnows'
  BY <1>1 DEF StartKnows
<1>7. QueueKnows'
  BY <1>1, <1>2, <1>3 DEF QueueKnows, StartKnows, GateKnows, MCPTyped, Queue
<1>8. GateKnows'
  BY <1>1, <1>2, <1>3 DEF GateKnows, StartKnows, GateStates, MCPTyped, Queue
<1>9. RequestKnows'
  BY <1>1 DEF RequestKnows
<1> QED BY <1>4, <1>5, <1>6, <1>7, <1>8, <1>9

(* A notification is handed to Main.                                       *)
LEMMA DeliverServes ==
    ASSUME MCPInv, NEW n \in Notes, Deliver(n) PROVE MCPInv'
<1> USE DEF MCPInv
<1>1. UNCHANGED <<owner, server, svc, caller, queue, gate, toolCall>>
  BY DEF Deliver
<1>2. note' \in [Notes -> {"none", "arrived", "unready", "queued", "delivering", "delivered",
                       "dropped"}]
   /\ note'[n] \in {"dropped", "delivered"} /\ \A k \in Notes : k # n => note'[k] = note[k]
  BY NoteMoves DEF Deliver
<1>3. MCPTyped'
  BY <1>1, <1>2 DEF MCPTyped
<1>4. ServerKnows'
  BY <1>1 DEF ServerKnows
<1>5. StartKnows'
  BY <1>1 DEF StartKnows
<1>6. QueueKnows'
  BY <1>1, <1>2 DEF QueueKnows, StartKnows, GateKnows, MCPTyped, Deliver
<1>7. GateKnows'
  BY <1>1, <1>2 DEF GateKnows, StartKnows, GateStates, MCPTyped, Deliver
<1>8. RequestKnows'
  BY <1>1 DEF RequestKnows
<1> QED BY <1>3, <1>4, <1>5, <1>6, <1>7, <1>8

(* A notification enters the gate.                                         *)
LEMMA EnqueueServes ==
    ASSUME MCPInv, NEW n \in Notes, Enqueue(n) PROVE MCPInv'
<1> USE DEF MCPInv
<1>1. CASE gate.closed
  <2>1. UNCHANGED <<owner, server, svc, caller, queue, gate, toolCall>>
    BY <1>1 DEF Enqueue
  <2>2. note' \in [Notes -> {"none", "arrived", "unready", "queued", "delivering", "delivered",
                         "dropped"}]
     /\ note'[n] = "dropped" /\ \A k \in Notes : k # n => note'[k] = note[k]
    BY <1>1, NoteMoves DEF Enqueue
  <2>3. MCPTyped'
    BY <1>1, <2>1, <2>2 DEF MCPTyped
  <2>4. ServerKnows'
    BY <2>1 DEF ServerKnows
  <2>5. StartKnows'
    BY <2>1 DEF StartKnows
  <2>6. QueueKnows'
    BY <1>1, <2>1, <2>2 DEF QueueKnows, StartKnows, GateKnows, MCPTyped, Enqueue
  <2>7. GateKnows'
    BY <1>1, <2>1, <2>2 DEF GateKnows, StartKnows, GateStates, MCPTyped, Enqueue
  <2>8. RequestKnows'
    BY <2>1 DEF RequestKnows
  <2> QED BY <2>3, <2>4, <2>5, <2>6, <2>7, <2>8
<1>2. CASE ~gate.closed /\ Holds(gate)
  <2>1. UNCHANGED <<owner, server, svc, caller, gate, toolCall>>
    BY <1>2 DEF Enqueue
  <2>2. note' \in [Notes -> {"none", "arrived", "unready", "queued", "delivering", "delivered",
                         "dropped"}]
     /\ note'[n] = "queued" /\ \A k \in Notes : k # n => note'[k] = note[k]
    BY <1>2, NoteMoves DEF Enqueue
  <2>3. queue' \in Seq(Notes)
    BY <1>2, QueueSteps DEF Enqueue, MCPTyped
  <2>4. ~gate.active \/ gate.draining
    BY <1>2 DEF Holds
  <2>5. MCPTyped'
    BY <1>2, <2>1, <2>2, <2>3, <2>4 DEF MCPTyped
  <2>6. ServerKnows'
    BY <2>1 DEF ServerKnows
  <2>7. StartKnows'
    BY <2>1 DEF StartKnows
  <2>8. QueueKnows'
    BY <1>2, <2>1, <2>2, <2>3, <2>4 DEF QueueKnows, StartKnows, GateKnows, MCPTyped, Enqueue
  <2>9. GateKnows'
    BY <1>2, <2>1, <2>2, <2>3, <2>4 DEF GateKnows, StartKnows, GateStates, MCPTyped, Enqueue
  <2>10. RequestKnows'
    BY <2>1 DEF RequestKnows
  <2> QED BY <2>5, <2>6, <2>7, <2>8, <2>9, <2>10
<1>3. CASE ~gate.closed /\ ~Holds(gate)
  <2>1. UNCHANGED <<owner, server, svc, caller, toolCall>>
    BY <1>3 DEF Enqueue
  <2>2. note' \in [Notes -> {"none", "arrived", "unready", "queued", "delivering", "delivered",
                         "dropped"}]
     /\ note'[n] = "queued" /\ \A k \in Notes : k # n => note'[k] = note[k]
    BY <1>3, NoteMoves DEF Enqueue
  <2>3. queue' \in Seq(Notes)
    BY <1>3, QueueSteps DEF Enqueue, MCPTyped
  <2>4. gate.active /\ ~gate.draining /\ gate.drainers = 0
    BY <1>3 DEF Holds, GateKnows, MCPTyped, GateStates
  <2>5. gate' = [gate EXCEPT !.draining = TRUE, !.drainers = 1, !.under = "notification"]
    BY <1>3, <2>4 DEF Enqueue, Drains
  <2>6. gate' \in GateStates /\ gate'.active = gate.active /\ gate'.draining
     /\ gate'.closed = gate.closed /\ gate'.drainers = 1 /\ gate'.calls = gate.calls
    BY <2>5 DEF MCPTyped, GateStates
  <2>7. MCPTyped'
    BY <1>3, <2>1, <2>2, <2>3, <2>4, <2>5, <2>6 DEF MCPTyped
  <2>8. ServerKnows'
    BY <2>1 DEF ServerKnows
  <2>9. StartKnows'
    BY <2>1 DEF StartKnows
  <2>10. QueueKnows'
    BY <1>3, <2>1, <2>2, <2>3, <2>4, <2>5, <2>6 DEF QueueKnows, StartKnows, GateKnows, MCPTyped, Enqueue
  <2>11. GateKnows'
    BY <1>3, <2>1, <2>2, <2>3, <2>4, <2>5, <2>6 DEF GateKnows, StartKnows, GateStates, MCPTyped, Enqueue
  <2>12. RequestKnows'
    BY <2>1 DEF RequestKnows
  <2> QED BY <2>7, <2>8, <2>9, <2>10, <2>11, <2>12
<1> QED BY <1>1, <1>2, <1>3 DEF Enqueue, MCPTyped

(* The call with a notification returns.                                   *)
LEMMA DrainReturnsServes ==
    ASSUME MCPInv, NEW n \in Notes, DrainReturns(n) PROVE MCPInv'
<1> USE DEF MCPInv
<1>1. UNCHANGED <<owner, server, svc, caller, queue, toolCall>>
  BY DEF DrainReturns
<1>2. note' \in [Notes -> {"none", "arrived", "unready", "queued", "delivering", "delivered",
                       "dropped"}]
   /\ note'[n] = "delivered" /\ \A k \in Notes : k # n => note'[k] = note[k]
  BY NoteMoves DEF DrainReturns
<1>3. gate.calls = 1
  BY DEF DrainReturns, GateKnows
<1>4. gate' \in GateStates /\ gate'.active = gate.active /\ gate'.draining = gate.draining
   /\ gate'.closed = gate.closed /\ gate'.drainers = gate.drainers /\ gate'.calls = 0
  BY <1>3, GateReturns DEF DrainReturns, MCPTyped
<1>5. MCPTyped'
  BY <1>1, <1>2, <1>3, <1>4 DEF MCPTyped
<1>6. ServerKnows'
  BY <1>1 DEF ServerKnows
<1>7. StartKnows'
  BY <1>1 DEF StartKnows
<1>8. QueueKnows'
  BY <1>1, <1>2, <1>3, <1>4 DEF QueueKnows, StartKnows, GateKnows, MCPTyped, DrainReturns
<1>9. GateKnows'
  BY <1>1, <1>2, <1>3, <1>4 DEF GateKnows, StartKnows, GateStates, MCPTyped, DrainReturns
<1>10. RequestKnows'
  BY <1>1 DEF RequestKnows
<1> QED BY <1>5, <1>6, <1>7, <1>8, <1>9, <1>10

(* The Module starts its server.                                           *)
LEMMA ModuleStartsServes ==
    ASSUME MCPInv, ModuleStarts PROVE MCPInv'
<1> USE DEF MCPInv
<1>1. CASE server.at = "none" /\ server' = [server EXCEPT !.at = "load", !.spec = server.given]
  <2>1. UNCHANGED <<owner, svc, caller, note, queue, gate, toolCall>>
    BY <1>1 DEF ModuleStarts
  <2>2. server' \in ServerStates /\ server'.at = "load" /\ server'.session = server.session
     /\ server'.tools = server.tools
    BY <1>1, ServerLoads DEF MCPTyped
  <2>3. MCPTyped'
    BY <1>1, <2>1, <2>2 DEF MCPTyped
  <2>4. ServerKnows'
    BY <1>1, <2>1, <2>2 DEF ServerKnows, StartKnows, MCPTyped, ModuleStarts
  <2>5. StartKnows'
    BY <1>1, <2>1, <2>2 DEF StartKnows, ServerKnows, QueueKnows, MCPTyped, ModuleStarts
  <2>6. QueueKnows'
    BY <2>1 DEF QueueKnows
  <2>7. GateKnows'
    BY <1>1, <2>1, <2>2 DEF GateKnows, StartKnows, GateStates, MCPTyped, ModuleStarts
  <2>8. RequestKnows'
    BY <2>1 DEF RequestKnows
  <2> QED BY <2>3, <2>4, <2>5, <2>6, <2>7, <2>8
<1>2. CASE Manager
  <2>1. UNCHANGED <<owner, svc, caller, note, queue, gate, toolCall>>
    BY <1>2 DEF ModuleStarts
  <2>2. server' \in ServerStates /\ ServerKnows' /\ server'.at \notin {"none", "closed"}
    BY <1>2, ManagerSteps DEF MCPTyped
  <2>3. MCPTyped'
    BY <1>2, <2>1, <2>2 DEF MCPTyped
  <2>4. ServerKnows'
    BY <1>2, <2>1, <2>2 DEF ServerKnows, StartKnows, MCPTyped, ModuleStarts
  <2>5. StartKnows'
    BY <1>2, <2>1, <2>2 DEF StartKnows, ServerKnows, QueueKnows, MCPTyped, ModuleStarts
  <2>6. QueueKnows'
    BY <2>1 DEF QueueKnows
  <2>7. GateKnows'
    BY <1>2, <2>1, <2>2 DEF GateKnows, StartKnows, GateStates, MCPTyped, ModuleStarts
  <2>8. RequestKnows'
    BY <2>1 DEF RequestKnows
  <2> QED BY <2>3, <2>4, <2>5, <2>6, <2>7, <2>8
<1> QED BY <1>1, <1>2 DEF ModuleStarts, MCPTyped

(* The gate is activated.                                                  *)
LEMMA ActivateServes ==
    ASSUME MCPInv, Activate PROVE MCPInv'
<1> USE DEF MCPInv
<1>1. CASE gate.draining \/ queue = <<>>
  <2>1. UNCHANGED <<owner, server, svc, caller, note, queue, toolCall>>
    BY <1>1 DEF Activate
  <2>2. gate' = [gate EXCEPT !.active = TRUE, !.closed = FALSE]
    BY <1>1 DEF Activate, MCPTyped, GateStates
  <2>3. gate' \in GateStates /\ gate'.active /\ gate'.draining = gate.draining
     /\ ~gate'.closed /\ gate'.drainers = gate.drainers /\ gate'.calls = gate.calls
    BY <2>2, GateFlags DEF MCPTyped
  <2>4. MCPTyped'
    BY <1>1, <2>1, <2>2, <2>3 DEF MCPTyped
  <2>5. ServerKnows'
    BY <2>1 DEF ServerKnows
  <2>6. StartKnows'
    BY <2>1 DEF StartKnows
  <2>7. QueueKnows'
    BY <1>1, <2>1, <2>2, <2>3 DEF QueueKnows, StartKnows, GateKnows, MCPTyped, Activate
  <2>8. GateKnows'
    BY <1>1, <2>1, <2>2, <2>3 DEF GateKnows, StartKnows, GateStates, MCPTyped, Activate
  <2>9. RequestKnows'
    BY <2>1 DEF RequestKnows
  <2> QED BY <2>4, <2>5, <2>6, <2>7, <2>8, <2>9
<1>2. CASE ~(gate.draining \/ queue = <<>>)
  <2>1. UNCHANGED <<owner, server, svc, caller, note, queue, toolCall>>
    BY <1>2 DEF Activate
  <2>2. gate.drainers = 0
    BY <1>2 DEF GateKnows, MCPTyped, GateStates
  <2>3. gate' \in GateStates /\ gate'.active /\ gate'.draining
     /\ gate'.closed = gate.closed /\ gate'.drainers = 1 /\ gate'.calls = gate.calls
    BY <1>2, <2>2, GateDrains DEF Activate, MCPTyped
  <2>4. MCPTyped'
    BY <1>2, <2>1, <2>2, <2>3 DEF MCPTyped
  <2>5. ServerKnows'
    BY <2>1 DEF ServerKnows
  <2>6. StartKnows'
    BY <2>1 DEF StartKnows
  <2>7. QueueKnows'
    BY <1>2, <2>1, <2>2, <2>3 DEF QueueKnows, StartKnows, GateKnows, MCPTyped, Activate
  <2>8. GateKnows'
    BY <1>2, <2>1, <2>2, <2>3 DEF GateKnows, StartKnows, GateStates, MCPTyped, Activate
  <2>9. RequestKnows'
    BY <2>1 DEF RequestKnows
  <2> QED BY <2>4, <2>5, <2>6, <2>7, <2>8, <2>9
<1> QED BY <1>1, <1>2 DEF Activate, MCPTyped

(* The drainer calls Main with the next notification.                      *)
LEMMA DrainNextServes ==
    ASSUME MCPInv, DrainNext PROVE MCPInv'
<1> USE DEF MCPInv
<1>1. UNCHANGED <<owner, server, svc, caller, toolCall>>
  BY DEF DrainNext
<1>2. Head(queue) \in Notes /\ queue' \in Seq(Notes)
  BY QueueSteps DEF DrainNext, MCPTyped
<1>3. PICK n \in Notes : n = Head(queue)
  BY <1>2
<1>4. note' \in [Notes -> {"none", "arrived", "unready", "queued", "delivering", "delivered",
                       "dropped"}]
   /\ note'[n] = "delivering" /\ \A k \in Notes : k # n => note'[k] = note[k]
  BY <1>3, NoteMoves DEF DrainNext
<1>5. gate.calls = 0 /\ gate.drainers = 1
  BY DEF DrainNext, MCPTyped, GateStates
<1>6. gate' \in GateStates /\ gate'.active = gate.active /\ gate'.draining = gate.draining
   /\ gate'.closed = gate.closed /\ gate'.drainers = gate.drainers /\ gate'.calls = 1
  BY <1>5, GateCalls DEF DrainNext, MCPTyped
<1>7. gate.draining
  BY <1>5 DEF GateKnows
<1>8. MCPTyped'
  BY <1>1, <1>2, <1>3, <1>4, <1>5, <1>6, <1>7 DEF MCPTyped
<1>9. ServerKnows'
  BY <1>1 DEF ServerKnows
<1>10. StartKnows'
  BY <1>1 DEF StartKnows
<1>11. QueueKnows'
  BY <1>1, <1>2, <1>3, <1>4, <1>5, <1>6, <1>7 DEF QueueKnows, StartKnows, GateKnows, MCPTyped, DrainNext
<1>12. GateKnows'
  BY <1>1, <1>2, <1>3, <1>4, <1>5, <1>6, <1>7 DEF GateKnows, StartKnows, GateStates, MCPTyped, DrainNext
<1>13. RequestKnows'
  BY <1>1 DEF RequestKnows
<1> QED BY <1>8, <1>9, <1>10, <1>11, <1>12, <1>13

(* The drainer ends.                                                       *)
LEMMA DrainEndsServes ==
    ASSUME MCPInv, DrainEnds PROVE MCPInv'
<1> USE DEF MCPInv
<1>1. UNCHANGED <<owner, server, svc, caller, note, queue, toolCall>>
  BY DEF DrainEnds
<1>2. gate.calls = 0 /\ gate.drainers = 1
  BY DEF DrainEnds, MCPTyped, GateStates
<1>3. gate' \in GateStates /\ gate'.active = gate.active /\ ~gate'.draining
   /\ gate'.closed = gate.closed /\ gate'.drainers = 0 /\ gate'.calls = gate.calls
   /\ gate'.under = gate.under
  BY <1>2, GateEnds DEF DrainEnds, MCPTyped
<1>4. MCPTyped'
  BY <1>1, <1>2, <1>3 DEF MCPTyped
<1>5. ServerKnows'
  BY <1>1 DEF ServerKnows
<1>6. StartKnows'
  BY <1>1 DEF StartKnows
<1>7. QueueKnows'
  BY <1>1, <1>2, <1>3 DEF QueueKnows, StartKnows, GateKnows, MCPTyped, DrainEnds
<1>8. GateKnows'
  BY <1>1, <1>2, <1>3 DEF GateKnows, StartKnows, GateStates, MCPTyped, DrainEnds
<1>9. RequestKnows'
  BY <1>1 DEF RequestKnows
<1> QED BY <1>4, <1>5, <1>6, <1>7, <1>8, <1>9

(* The gate is quiesced.                                                   *)
LEMMA QuiesceServes ==
    ASSUME MCPInv, Quiesce PROVE MCPInv'
<1> USE DEF MCPInv
<1>1. UNCHANGED <<owner, server, svc, caller, toolCall>>
  BY DEF Quiesce
<1>2. gate' = [gate EXCEPT !.active = gate.active, !.closed = TRUE]
  BY DEF Quiesce, MCPTyped, GateStates
<1>3. gate.active \in BOOLEAN
  BY DEF MCPTyped, GateStates
<1>4. gate' \in GateStates /\ gate'.active = gate.active /\ gate'.draining = gate.draining
   /\ gate'.closed /\ gate'.drainers = gate.drainers /\ gate'.calls = gate.calls
  BY <1>2, <1>3, GateFlags DEF MCPTyped
<1>5. queue' = <<>> /\ queue' \in Seq(Notes)
  BY QueueSteps DEF Quiesce
<1>6. note' \in [Notes -> {"none", "arrived", "unready", "queued", "delivering", "delivered",
                       "dropped"}]
   /\ \A n \in Notes : note'[n] = note[n] \/ note'[n] = "dropped"
  BY DEF Quiesce, MCPTyped
<1>7. MCPTyped'
  BY <1>1, <1>2, <1>3, <1>4, <1>5, <1>6 DEF MCPTyped
<1>8. ServerKnows'
  BY <1>1 DEF ServerKnows
<1>9. StartKnows'
  BY <1>1 DEF StartKnows
<1>10. QueueKnows'
  BY <1>1, <1>2, <1>3, <1>4, <1>5, <1>6 DEF QueueKnows, StartKnows, GateKnows, MCPTyped, Quiesce
<1>11. GateKnows'
  BY <1>1, <1>2, <1>3, <1>4, <1>5, <1>6 DEF GateKnows, StartKnows, GateStates, MCPTyped, Quiesce
<1>12. RequestKnows'
  BY <1>1 DEF RequestKnows
<1> QED BY <1>7, <1>8, <1>9, <1>10, <1>11, <1>12

(* The Module closes its manager.                                          *)
LEMMA CloseOwnedServes ==
    ASSUME MCPInv, CloseOwned PROVE MCPInv'
<1> USE DEF MCPInv
<1>1. UNCHANGED <<owner, svc, caller, note, queue, gate, toolCall>>
  BY DEF CloseOwned
<1>2. server' \in ServerStates /\ server'.at = "closed" /\ ~server'.session /\ ~server'.tools
  BY ServerShuts DEF CloseOwned, MCPTyped
<1>3. MCPTyped'
  BY <1>1, <1>2 DEF MCPTyped
<1>4. ServerKnows'
  BY <1>1, <1>2 DEF ServerKnows, StartKnows, MCPTyped, CloseOwned
<1>5. StartKnows'
  BY <1>1, <1>2 DEF StartKnows, ServerKnows, QueueKnows, MCPTyped, CloseOwned
<1>6. QueueKnows'
  BY <1>1 DEF QueueKnows
<1>7. GateKnows'
  BY <1>1, <1>2 DEF GateKnows, StartKnows, GateStates, MCPTyped, CloseOwned
<1>8. RequestKnows'
  BY <1>1 DEF RequestKnows
<1> QED BY <1>3, <1>4, <1>5, <1>6, <1>7, <1>8

(* A request is written.                                                   *)
LEMMA RequestWritesServes ==
    ASSUME MCPInv, RequestWrites PROVE MCPInv'
<1> USE DEF MCPInv
<1>1. UNCHANGED <<owner, server, svc, caller, note, queue, gate>>
  BY DEF RequestWrites, RequestKept
<1>2. toolCall' \in RequestStates /\ toolCall'.at = "written" /\ toolCall'.entry
   /\ toolCall'.closes = toolCall.closes
  BY DEF RequestWrites, MCPTyped, RequestStates
<1>3. MCPTyped'
  BY <1>1, <1>2 DEF MCPTyped
<1>4. ServerKnows'
  BY <1>1 DEF ServerKnows
<1>5. StartKnows'
  BY <1>1 DEF StartKnows
<1>6. QueueKnows'
  BY <1>1 DEF QueueKnows
<1>7. GateKnows'
  BY <1>1 DEF GateKnows
<1>8. RequestKnows'
  BY <1>1, <1>2 DEF RequestKnows, MCPTyped, RequestWrites
<1> QED BY <1>3, <1>4, <1>5, <1>6, <1>7, <1>8

(* The entry of a request is taken.                                        *)
LEMMA RequestTakenServes ==
    ASSUME MCPInv, RequestTaken PROVE MCPInv'
<1> USE DEF MCPInv
<1>1. UNCHANGED <<owner, server, svc, caller, note, queue, gate>>
  BY DEF RequestTaken, RequestKept
<1>2. toolCall.closes = 0
  BY DEF RequestTaken, RequestKnows
<1>3. toolCall' = [toolCall EXCEPT !.entry = FALSE, !.closes = 1]
  BY <1>2 DEF RequestTaken, Takes
<1>4. toolCall' \in RequestStates /\ toolCall'.at = "written" /\ ~toolCall'.entry
   /\ toolCall'.closes = 1
  BY <1>3 DEF RequestTaken, MCPTyped, RequestStates
<1>5. MCPTyped'
  BY <1>1, <1>2, <1>3, <1>4 DEF MCPTyped
<1>6. ServerKnows'
  BY <1>1 DEF ServerKnows
<1>7. StartKnows'
  BY <1>1 DEF StartKnows
<1>8. QueueKnows'
  BY <1>1 DEF QueueKnows
<1>9. GateKnows'
  BY <1>1 DEF GateKnows
<1>10. RequestKnows'
  BY <1>1, <1>2, <1>3, <1>4 DEF RequestKnows, MCPTyped, RequestTaken
<1> QED BY <1>5, <1>6, <1>7, <1>8, <1>9, <1>10

(* The connection closes and takes the entry that is left.                 *)
LEMMA ConnectionClosesServes ==
    ASSUME MCPInv, ConnectionCloses PROVE MCPInv'
<1> USE DEF MCPInv
<1>1. CASE toolCall.entry
  <2>1. UNCHANGED <<owner, server, svc, caller, note, queue, gate>>
    BY <1>1 DEF ConnectionCloses, RequestKept
  <2>2. toolCall.closes = 0
    BY <1>1 DEF ConnectionCloses, RequestKnows
  <2>3. toolCall' = [toolCall EXCEPT !.entry = FALSE, !.closes = 1, !.at = "closed"]
    BY <1>1, <2>2 DEF ConnectionCloses, Takes, MCPTyped, RequestStates
  <2>4. toolCall' \in RequestStates /\ toolCall'.at = "closed" /\ ~toolCall'.entry
     /\ toolCall'.closes = 1
    BY <2>3 DEF MCPTyped, RequestStates
  <2>5. MCPTyped'
    BY <1>1, <2>1, <2>2, <2>3, <2>4 DEF MCPTyped
  <2>6. ServerKnows'
    BY <2>1 DEF ServerKnows
  <2>7. StartKnows'
    BY <2>1 DEF StartKnows
  <2>8. QueueKnows'
    BY <2>1 DEF QueueKnows
  <2>9. GateKnows'
    BY <2>1 DEF GateKnows
  <2>10. RequestKnows'
    BY <1>1, <2>1, <2>2, <2>3, <2>4 DEF RequestKnows, MCPTyped, ConnectionCloses
  <2> QED BY <2>5, <2>6, <2>7, <2>8, <2>9, <2>10
<1>2. CASE ~toolCall.entry
  <2>1. UNCHANGED <<owner, server, svc, caller, note, queue, gate>>
    BY <1>2 DEF ConnectionCloses, RequestKept
  <2>2. toolCall.closes = 1
    BY <1>2 DEF ConnectionCloses, RequestKnows, MCPTyped, RequestStates
  <2>3. toolCall' = [toolCall EXCEPT !.at = "closed"]
    BY <1>2 DEF ConnectionCloses
  <2>4. toolCall' \in RequestStates /\ toolCall'.at = "closed" /\ ~toolCall'.entry
     /\ toolCall'.closes = 1
    BY <1>2, <2>2, <2>3 DEF MCPTyped, RequestStates
  <2>5. MCPTyped'
    BY <1>2, <2>1, <2>2, <2>3, <2>4 DEF MCPTyped
  <2>6. ServerKnows'
    BY <2>1 DEF ServerKnows
  <2>7. StartKnows'
    BY <2>1 DEF StartKnows
  <2>8. QueueKnows'
    BY <2>1 DEF QueueKnows
  <2>9. GateKnows'
    BY <2>1 DEF GateKnows
  <2>10. RequestKnows'
    BY <1>2, <2>1, <2>2, <2>3, <2>4 DEF RequestKnows, MCPTyped, ConnectionCloses
  <2> QED BY <2>5, <2>6, <2>7, <2>8, <2>9, <2>10
<1> QED BY <1>1, <1>2 DEF ConnectionCloses, MCPTyped

-----------------------------------------------------------------------------
(* The first states satisfy the invariant.                                 *)
LEMMA ServersStart == MCPInit => MCPInv
<1> SUFFICES ASSUME MCPInit PROVE MCPInv
  OBVIOUS
<1>1. PICK s \in Specs : server = [given |-> s, spec |-> s, at |-> "none", stage |-> "none",
                                   session |-> FALSE, tools |-> FALSE]
  BY DEF MCPInit
<1>2. s \in AllSpecs
  BY MCPSpecsKnown
<1>3. server \in ServerStates /\ server.at = "none" /\ ~server.session /\ ~server.tools
  BY <1>1, <1>2 DEF ServerStates
<1>4. svc \in ServicesStates /\ ~svc.started /\ svc.starting = 0 /\ ~svc.manager /\ ~svc.closed
         /\ ~svc.ready
  BY DEF MCPInit, ServicesStates
<1>5. gate \in GateStates /\ ~gate.active /\ ~gate.draining /\ gate.drainers = 0 /\ gate.calls = 0
  BY QueueSteps DEF MCPInit, GateStates
<1>6. toolCall \in RequestStates /\ toolCall.at = "none" /\ ~toolCall.entry /\ toolCall.closes = 0
  BY DEF MCPInit, RequestStates
<1>7. MCPTyped
  BY <1>3, <1>4, <1>5, <1>6, QueueSteps DEF MCPInit, MCPTyped
<1>8. ServerKnows /\ RequestKnows
  BY <1>3, <1>6 DEF ServerKnows, RequestKnows
<1>9. StartKnows /\ QueueKnows /\ GateKnows
  BY <1>3, <1>4, <1>5 DEF StartKnows, QueueKnows, GateKnows, MCPInit
<1> QED BY <1>7, <1>8, <1>9 DEF MCPInv

(* Every step of a start, a notification, a request or a close keeps it.   *)
LEMMA ServersKeep == MCPInv /\ [MCPNext]_mcpvars => MCPInv'
<1> SUFFICES ASSUME MCPInv, [MCPNext]_mcpvars PROVE MCPInv'
  OBVIOUS
<1>1. ASSUME NEW c \in Starters,
             \/ Ensure(c) \/ Woken(c) \/ GivesUp(c) \/ Starting(c) \/ StartFails(c) \/ Publish(c)
             \/ Release(c) \/ TakeQueue(c) \/ EarlyDelivered(c)
      PROVE  MCPInv'
  BY <1>1, EnsureServes, WokenServes, GivesUpServes, StartingServes, StartFailsServes,
     PublishServes, ReleaseServes, TakeQueueServes, EarlyDeliveredServes
<1>2. ASSUME NEW n \in Notes,
             \/ Dispatch(n) \/ TestReady(n) \/ Queue(n) \/ Deliver(n) \/ Enqueue(n) \/ DrainReturns(n)
      PROVE  MCPInv'
  BY <1>2, DispatchServes, TestReadyServes, QueueServes, DeliverServes, EnqueueServes,
     DrainReturnsServes
<1>3. ASSUME \/ CloseServices \/ ModuleStarts \/ Activate \/ DrainNext \/ DrainEnds \/ Quiesce
             \/ CloseOwned \/ RequestWrites \/ RequestTaken \/ ConnectionCloses
      PROVE  MCPInv'
  BY <1>3, CloseServicesServes, ModuleStartsServes, ActivateServes, DrainNextServes, DrainEndsServes,
     QuiesceServes, CloseOwnedServes, RequestWritesServes, RequestTakenServes, ConnectionClosesServes
<1>4. CASE UNCHANGED mcpvars
  BY <1>4 DEF mcpvars, MCPInv, MCPTyped, ServerKnows, StartKnows, QueueKnows, GateKnows, RequestKnows
<1> QED BY <1>1, <1>2, <1>3, <1>4 DEF MCPNext

(* What the invariant says of starts, sessions, notifications and requests.*)
LEMMA ServersAreSafe ==
    MCPInv => ReadinessAgrees /\ SessionsClosed /\ NotesHandled /\ GateSerial /\ RequestReleased
<1> SUFFICES ASSUME MCPInv
    PROVE  ReadinessAgrees /\ SessionsClosed /\ NotesHandled /\ GateSerial /\ RequestReleased
  OBVIOUS
<1> USE DEF MCPInv
<1>1. ReadinessAgrees
  BY DEF ReadinessAgrees, MCPTyped, ServerStates
<1>2. SessionsClosed
  BY DEF SessionsClosed, ServerKnows, StartKnows, MCPTyped
<1>3. NotesHandled
  BY DEF NotesHandled, StartKnows, QueueKnows, MCPTyped
<1>4. gate.calls \in {0, 1} /\ gate.drainers \in {0, 1}
  BY DEF MCPTyped, GateStates
<1>5. GateSerial
  BY <1>4 DEF GateSerial, GateKnows
<1>6. RequestReleased
  BY DEF RequestReleased, RequestKnows, MCPTyped, RequestStates
<1> QED BY <1>1, <1>2, <1>3, <1>5, <1>6

-----------------------------------------------------------------------------
(* Model health: the inductive invariant *)

HealthStates ==
    [generation : 0..MaxCompletions, failures : 0..MaxCompletions, cooling : BOOLEAN,
     token : 0..MaxProbes, successes : 0..MaxCompletions]
TicketStates ==
    [ref : Models \cup {NoModel}, generation : 0..MaxCompletions, token : 0..MaxProbes,
     seen : 0..MaxCompletions]

(* The tickets a Thread holds: of its request and of its summary.          *)
Holders == {"request", "summary"}
Held(t, k) == IF k = "request" THEN request[t].ticket ELSE summary[t].ticket

(* The variables have their shapes, an attempt without a candidate has no  *)
(* ticket, and a summary is generated while no request is or for one that  *)
(* waits for it.                                                           *)
ModelsTyped ==
    /\ health \in [Models -> HealthStates] /\ tokens \in 0..MaxProbes
    /\ request \in [Requesters -> Attempts] /\ summary \in [Requesters -> Attempts]
    /\ \A t \in Requesters :
          /\ request[t].at \in {"idle", "next"} => request[t].ticket = NoTicket
          /\ summary[t].at \in {"idle", "next"} => summary[t].ticket = NoTicket
          /\ summary[t].at # "idle" => request[t].at \in {"idle", "preflight"}

(* Each change of a model's health begins a generation.                    *)
GenerationsCount ==
    \A m \in Models : /\ health[m].failures <= health[m].generation
                      /\ health[m].successes <= health[m].generation

(* A ticket knows the successes of its generation, as long as that lasts.  *)
TicketsKnow ==
    \A t \in Requesters, k \in Holders :
        /\ Held(t, k).ref = NoModel => Held(t, k).token = 0
        /\ Held(t, k).ref # NoModel =>
              /\ Held(t, k).generation <= health[Held(t, k).ref].generation
              /\ Held(t, k).generation = health[Held(t, k).ref].generation =>
                    Held(t, k).seen = health[Held(t, k).ref].successes

(* The token of each probe is new, and one attempt holds it.               *)
TokensUnique ==
    /\ \A m \in Models : health[m].token <= tokens
    /\ \A t \in Requesters, k \in Holders : Held(t, k).token <= tokens
    /\ \A t, u \in Requesters, k, l \in Holders :
          Held(t, k).token # 0 /\ Held(t, k).token = Held(u, l).token => t = u /\ k = l

Probes(t, k, m) ==
    /\ Held(t, k).ref = m /\ Held(t, k).token = health[m].token
    /\ Held(t, k).generation = health[m].generation
ProbesHeld ==
    \A m \in Models : ProbeInFlight(m) => \E t \in Requesters, k \in Holders : Probes(t, k, m)

TicketsRight == GenerationsCount /\ TicketsKnow /\ TokensUnique /\ ProbesHeld

ModelsInv == ModelsTyped /\ TicketsRight /\ misjudged = {}

-----------------------------------------------------------------------------
(* Every set of naturals that is not empty has a smallest element.         *)
LEMMA SmallestExists ==
    ASSUME NEW S, S \subseteq Nat, S # {}
    PROVE  Min(S) \in S
<1> DEFINE less == {ss \in Nat \X Nat : ss[1] < ss[2]}
<1>1. IsWellFoundedOn(less, Nat)
  BY NatLessThanWellFounded DEF OpToRel
<1>2. PICK x \in S : \A y \in S : <<y, x>> \notin less
  <2> HIDE DEF less
  <2> QED BY <1>1, WFMin
<1>3. ASSUME NEW y \in S PROVE x <= y
  <2>1. x \in Nat /\ y \in Nat
    OBVIOUS
  <2>2. ~(y < x)
    BY <1>2, <2>1
  <2>3. QED
    BY <2>1, <2>2
<1>4. QED
  BY <1>3 DEF Min

(* The first usable candidate of a chain and the ones before it are models.*)
LEMMA CandidateKnown ==
    ASSUME NEW chain \in Seq(Models), NEW tried
    PROVE  /\ Skipped(chain, tried) \subseteq Models
           /\ Found(chain, tried) => chain[Index(chain, tried)] \in Models
<1>1. \A i \in DOMAIN chain : chain[i] \in Models /\ i \in Nat
  OBVIOUS
<1>2. Selectable(chain, tried) \subseteq DOMAIN chain
  BY DEF Selectable, Untried
<1>3. Skipped(chain, tried) \subseteq Models
  BY <1>1 DEF Skipped, Untried
<1>4. ASSUME Found(chain, tried) PROVE chain[Index(chain, tried)] \in Models
  <2>1. Index(chain, tried) \in DOMAIN chain
    BY <1>1, <1>2, <1>4, SmallestExists DEF Found, Index
  <2>2. QED
    BY <1>1, <2>1
<1>5. QED
  BY <1>3, <1>4

(* A ticket that is held, and the empty one, have the shape of a ticket.   *)
LEMMA HeldTyped ==
    ASSUME ModelsTyped, NEW t \in Requesters, NEW k \in Holders
    PROVE  Held(t, k) \in TicketStates
<1>1. request[t] \in Attempts /\ summary[t] \in Attempts
  BY DEF ModelsTyped
<1>2. QED
  BY <1>1 DEF Held, Attempts, TicketStates

(* An attempt that has no ticket holds none.                               *)
LEMMA NothingHeld ==
    /\ NoTicket \in TicketStates /\ NoTicket.ref = NoModel /\ NoTicket.token = 0
    /\ NoAttempt \in Attempts /\ NoAttempt.at = "idle" /\ NoAttempt.ticket = NoTicket
BY ModelAssumption DEF NoTicket, NoAttempt, TicketStates, Attempts

(* An attempt goes on with the ticket it has, or gives it up.              *)
LEMMA AttemptMoves ==
    ASSUME NEW a \in Attempts,
           NEW at \in {"idle", "next", "prepare", "preflight", "ready", "failed", "sent", "surplus"},
           NEW b, b = [a EXCEPT !.at = at]
    PROVE  b \in Attempts /\ b.at = at /\ b.ticket = a.ticket
BY DEF Attempts

(* An attempt gives its ticket up.                                         *)
LEMMA AttemptDrops ==
    ASSUME NEW a \in Attempts, NEW b,
           b = [a EXCEPT !.at = "next", !.ticket = NoTicket, !.model = NoModel]
    PROVE  b \in Attempts /\ b.at = "next" /\ b.ticket = NoTicket
<1>1. NoTicket \in TicketStates
  BY NothingHeld
<1>2. QED
  BY <1>1 DEF Attempts, TicketStates

(* An attempt goes on with the ticket it has.                              *)
LEMMA AttemptReturns ==
    ASSUME NEW a \in Attempts, NEW b, b = [a EXCEPT !.at = "sent", !.ticket = NoTicket]
    PROVE  b \in Attempts /\ b.at = "sent" /\ b.ticket = NoTicket
<1>1. NoTicket \in TicketStates
  BY NothingHeld
<1>2. QED
  BY <1>1 DEF Attempts, TicketStates

(* The attempts of one Thread change, the others stay.                     *)
LEMMA AttemptsSet ==
    ASSUME ModelsTyped, NEW t \in Requesters, NEW r \in Attempts, NEW s \in Attempts,
           request' = [request EXCEPT ![t] = r], summary' = [summary EXCEPT ![t] = s],
           r.at \in {"idle", "next"} => r.ticket = NoTicket,
           s.at \in {"idle", "next"} => s.ticket = NoTicket,
           s.at # "idle" => r.at \in {"idle", "preflight"},
           health' \in [Models -> HealthStates], tokens' \in 0..MaxProbes
    PROVE  /\ ModelsTyped'
           /\ Held(t, "request")' = r.ticket /\ Held(t, "summary")' = s.ticket
           /\ \A u \in Requesters, k \in Holders : u # t => Held(u, k)' = Held(u, k)
<1>1. request' \in [Requesters -> Attempts] /\ summary' \in [Requesters -> Attempts]
  BY DEF ModelsTyped
<1>2. /\ request'[t] = r /\ summary'[t] = s
      /\ \A u \in Requesters : u # t => request'[u] = request[u] /\ summary'[u] = summary[u]
  BY DEF ModelsTyped
<1>3. QED
  BY <1>1, <1>2 DEF ModelsTyped, Held

(* Two slots of a Thread are all it has.                                   *)
OthersKeep(t, k) ==
    \A u \in Requesters, l \in Holders : u # t \/ l # k => Held(u, l)' = Held(u, l)

(* A request takes another ticket or none.                                 *)
LEMMA RequestSet ==
    ASSUME ModelsTyped, NEW t \in Requesters, NEW r \in Attempts, SetRequest(t, r),
           UNCHANGED summary, r.at \in {"idle", "next"} => r.ticket = NoTicket,
           summary[t].at # "idle" => r.at \in {"idle", "preflight"},
           health' \in [Models -> HealthStates], tokens' \in 0..MaxProbes
    PROVE  ModelsTyped' /\ Held(t, "request")' = r.ticket /\ OthersKeep(t, "request")
<1>1. PICK s \in Attempts : s = summary[t]
  BY DEF ModelsTyped
<1>2. summary' = [summary EXCEPT ![t] = s]
  BY <1>1 DEF ModelsTyped
<1>3. /\ s.at \in {"idle", "next"} => s.ticket = NoTicket
      /\ s.at # "idle" => r.at \in {"idle", "preflight"}
  BY <1>1 DEF ModelsTyped
<1>4. Held(t, "summary") = s.ticket
  BY <1>1 DEF Held
<1>5. QED
  BY ZenonT(40), <1>2, <1>3, <1>4, AttemptsSet DEF SetRequest, OthersKeep, Holders

(* A summary takes another ticket or none.                                 *)
LEMMA SummarySet ==
    ASSUME ModelsTyped, NEW t \in Requesters, NEW s \in Attempts, SetSummary(t, s),
           UNCHANGED request, s.at \in {"idle", "next"} => s.ticket = NoTicket,
           s.at # "idle" => request[t].at \in {"idle", "preflight"},
           health' \in [Models -> HealthStates], tokens' \in 0..MaxProbes
    PROVE  ModelsTyped' /\ Held(t, "summary")' = s.ticket /\ OthersKeep(t, "summary")
<1>1. PICK r \in Attempts : r = request[t]
  BY DEF ModelsTyped
<1>2. request' = [request EXCEPT ![t] = r]
  BY <1>1 DEF ModelsTyped
<1>3. /\ r.at \in {"idle", "next"} => r.ticket = NoTicket
      /\ s.at # "idle" => r.at \in {"idle", "preflight"}
  BY <1>1 DEF ModelsTyped
<1>4. Held(t, "request") = r.ticket
  BY <1>1 DEF Held
<1>5. QED
  BY <1>2, <1>3, <1>4, AttemptsSet DEF SetSummary, OthersKeep, Holders

(* SummaryEnds: the request keeps the ticket it reserved.                  *)
LEMMA SummaryOver ==
    ASSUME ModelsTyped, NEW t \in Requesters, NEW next \in {"ready", "failed"}, SummaryEnds(t, next),
           health' \in [Models -> HealthStates], tokens' \in 0..MaxProbes
    PROVE  ModelsTyped' /\ Held(t, "summary")' = NoTicket /\ OthersKeep(t, "summary")
<1>1. CASE request[t].at # "preflight"
  BY <1>1, SummarySet, NothingHeld DEF SummaryEnds
<1>2. CASE request[t].at = "preflight"
  <2>1. request[t] \in Attempts
    BY DEF ModelsTyped
  <2>2. PICK r : r = [request[t] EXCEPT !.at = next]
    OBVIOUS
  <2>3. r \in Attempts /\ r.at = next /\ r.ticket = request[t].ticket
    BY <2>1, <2>2, AttemptMoves
  <2>4. Held(t, "request") = r.ticket
    BY <2>3 DEF Held
  <2>5. PICK s \in Attempts : s = NoAttempt
    BY NothingHeld
  <2>6. request' = [request EXCEPT ![t] = r] /\ summary' = [summary EXCEPT ![t] = s]
    BY <1>2, <2>2, <2>5 DEF SummaryEnds, SetRequest, SetSummary
  <2>7. /\ r.at \in {"idle", "next"} => r.ticket = NoTicket
        /\ s.at \in {"idle", "next"} => s.ticket = NoTicket
        /\ s.ticket = NoTicket /\ s.at = "idle"
    BY <2>3, <2>5, NothingHeld
  <2>8. QED
    BY <2>3, <2>4, <2>6, <2>7, AttemptsSet DEF OthersKeep, Holders
<1>3. QED
  BY <1>1, <1>2

-----------------------------------------------------------------------------
(* What a completion and an issue do to the health of a model *)

HealthKept(m) ==
    /\ health'[m].generation = health[m].generation /\ health'[m].successes = health[m].successes
    /\ health'[m].failures = health[m].failures
OnlyHealthOf(m) ==
    /\ health' \in [Models -> HealthStates] /\ \A n \in Models : n # m => health'[n] = health[n]

(* A probe is put down under a new token.                                  *)
LEMMA TokenSet ==
    ASSUME ModelsTyped, NEW m \in Models, NEW v \in 0..MaxProbes,
           health' = [health EXCEPT ![m].token = v]
    PROVE  OnlyHealthOf(m) /\ HealthKept(m) /\ health'[m].token = v
<1>1. health[m] \in HealthStates
  BY DEF ModelsTyped
<1>2. PICK h : h = [health[m] EXCEPT !.token = v]
  OBVIOUS
<1>3. /\ h \in HealthStates /\ h.generation = health[m].generation /\ h.token = v
      /\ h.successes = health[m].successes /\ h.failures = health[m].failures
  BY <1>1, <1>2 DEF HealthStates
<1>4. health' = [health EXCEPT ![m] = h]
  BY <1>2
<1>5. QED
  BY <1>3, <1>4 DEF ModelsTyped, OnlyHealthOf, HealthKept

(* The health of a model after an outcome that counts has its shape and a  *)
(* later generation.                                                       *)
LEMMA CompletedSet ==
    ASSUME ModelsTyped, GenerationsCount, NEW ticket, ticket.ref \in Models,
           NEW outcome \in {"success", "failure"},
           health[ticket.ref].generation < MaxCompletions,
           health' = [health EXCEPT ![ticket.ref] = Completed(ticket, outcome)]
    PROVE  /\ OnlyHealthOf(ticket.ref) /\ health'[ticket.ref].token = 0
           /\ health'[ticket.ref].generation > health[ticket.ref].generation
           /\ health'[ticket.ref].failures <= health'[ticket.ref].generation
           /\ health'[ticket.ref].successes <= health'[ticket.ref].generation
<1>1. PICK m \in Models : m = ticket.ref
  OBVIOUS
<1>2. PICK old \in HealthStates : old = health[m]
  BY DEF ModelsTyped
<1>3. PICK h : h = Completed(ticket, outcome)
  OBVIOUS
<1>4. old.failures <= old.generation /\ old.successes <= old.generation /\ old.generation < MaxCompletions
  BY <1>1, <1>2 DEF GenerationsCount
<1>5. old.generation \in Nat /\ old.failures \in Nat /\ old.successes \in Nat /\ MaxCompletions \in Nat
      /\ MaxProbes \in Nat
  BY <1>2, ModelAssumption DEF HealthStates
<1>6. /\ old.generation + 1 \in 0..MaxCompletions /\ 0 \in 0..MaxProbes
      /\ (IF outcome = "failure" THEN old.failures + 1 ELSE 0) \in 0..MaxCompletions
      /\ (IF outcome = "success" THEN old.successes + 1 ELSE old.successes) \in 0..MaxCompletions
  BY <1>4, <1>5
<1>7. PICK g \in 0..MaxCompletions : g = old.generation + 1
  BY <1>6
<1>8. PICK f \in 0..MaxCompletions : f = IF outcome = "failure" THEN old.failures + 1 ELSE 0
  BY <1>6
<1>13. PICK s \in 0..MaxCompletions :
          s = IF outcome = "success" THEN old.successes + 1 ELSE old.successes
  BY <1>6
<1>14. PICK c \in BOOLEAN : c = (outcome = "failure")
  OBVIOUS
<1>15. h = [old EXCEPT !.generation = g, !.failures = f, !.cooling = c, !.token = 0, !.successes = s]
  BY <1>1, <1>2, <1>3, <1>7, <1>8, <1>13, <1>14 DEF Completed
<1>16. h \in HealthStates /\ h.generation = g /\ h.failures = f /\ h.token = 0 /\ h.successes = s
  BY <1>6, <1>15 DEF HealthStates
<1>9. health' = [health EXCEPT ![m] = h]
  BY <1>1, <1>3
<1>10. OnlyHealthOf(m) /\ health'[m] = h
  BY <1>9, <1>16 DEF ModelsTyped, OnlyHealthOf
<1>11. g > old.generation /\ f <= g /\ s <= g
  BY <1>4, <1>5, <1>7, <1>8, <1>13
<1>12. QED
  BY <1>1, <1>2, <1>10, <1>11, <1>16

(* A ticket is handed back, and what it says of the model's health holds   *)
(* for the others: the model's probe is over, or was not this ticket's.    *)
LEMMA HealthCompletes ==
    ASSUME ModelsInv, NEW t \in Requesters, NEW k \in Holders,
           NEW outcome \in {"success", "failure", "neutral"}, Complete(Held(t, k), outcome)
    PROVE  /\ misjudged' = {}
           /\ \/ UNCHANGED health /\ \A m \in Models : ProbeInFlight(m) => ~Probes(t, k, m)
              \/ /\ Held(t, k).ref \in Models /\ OnlyHealthOf(Held(t, k).ref)
                 /\ health'[Held(t, k).ref].token = 0
                 /\ \/ HealthKept(Held(t, k).ref)
                    \/ /\ health'[Held(t, k).ref].generation > health[Held(t, k).ref].generation
                       /\ health'[Held(t, k).ref].failures <= health'[Held(t, k).ref].generation
                       /\ health'[Held(t, k).ref].successes <= health'[Held(t, k).ref].generation
<1> DEFINE ticket == Held(t, k)
<1> USE DEF ModelsInv, TicketsRight
<1>1. ticket \in TicketStates
  BY HeldTyped
<1>2. CASE ticket.ref = NoModel \/ Stale(ticket)
  <2>1. UNCHANGED <<health, misjudged>>
    BY <1>2 DEF Complete
  <2>2. ASSUME NEW m \in Models, ProbeInFlight(m), Probes(t, k, m) PROVE FALSE
    BY <1>2, <2>2, ModelAssumption DEF Probes, Stale
  <2>3. QED
    BY <2>1, <2>2
<1>3. CASE ticket.ref # NoModel /\ ~Stale(ticket)
  <2>1. ticket.ref \in Models
    BY <1>1, <1>3 DEF TicketStates
  <2>2. ticket.generation = health[ticket.ref].generation
    BY <1>3 DEF Stale
  <2>3. ticket.seen = health[ticket.ref].successes
    BY <1>3, <2>2 DEF TicketsKnow
  <2>4. ~(ticket.seen < health[ticket.ref].successes)
    <3>1. ticket.seen \in Nat
      BY <1>1 DEF TicketStates
    <3>2. QED
      BY <2>3, <3>1
  <2>5. misjudged' = {}
    BY <1>3, <2>4 DEF Complete
  <2>6. CASE outcome = "neutral" /\ ticket.token # 0
    <3>1. health' = [health EXCEPT ![ticket.ref].token = 0]
      BY <1>3, <2>6 DEF Complete
    <3>2. 0 \in 0..MaxProbes
      BY ModelAssumption
    <3>3. OnlyHealthOf(ticket.ref) /\ HealthKept(ticket.ref) /\ health'[ticket.ref].token = 0
      <4>1. PICK m \in Models : m = ticket.ref
        BY <2>1
      <4>2. health' = [health EXCEPT ![m].token = 0]
        BY <3>1, <4>1
      <4>3. QED
        BY <3>2, <4>1, <4>2, TokenSet
    <3>4. QED
      BY <2>1, <2>5, <3>3
  <2>7. CASE outcome = "neutral" /\ ticket.token = 0
    <3>1. UNCHANGED health
      BY <1>3, <2>7 DEF Complete
    <3>2. ASSUME NEW m \in Models, ProbeInFlight(m), Probes(t, k, m) PROVE FALSE
      BY <2>7, <3>2 DEF Probes, ProbeInFlight
    <3>3. QED
      BY <2>5, <3>1, <3>2
  <2>8. CASE outcome # "neutral"
    <3>1. /\ health[ticket.ref].generation < MaxCompletions
          /\ health' = [health EXCEPT ![ticket.ref] = Completed(ticket, outcome)]
      BY <1>3, <2>8 DEF Complete
    <3> HIDE DEF ticket
    <3>2. /\ OnlyHealthOf(ticket.ref) /\ health'[ticket.ref].token = 0
          /\ health'[ticket.ref].generation > health[ticket.ref].generation
          /\ health'[ticket.ref].failures <= health'[ticket.ref].generation
          /\ health'[ticket.ref].successes <= health'[ticket.ref].generation
      BY <2>1, <2>8, <3>1, CompletedSet
    <3>3. QED
      BY <2>1, <2>5, <3>2 DEF ticket
  <2>9. QED
    BY <2>6, <2>7, <2>8
<1>4. QED
  BY <1>2, <1>3

(* A ticket that was handed back is given up: the others are still right.  *)
LEMMA CompletionKeeps ==
    ASSUME ModelsInv, NEW t \in Requesters, NEW k \in Holders,
           NEW outcome \in {"success", "failure", "neutral"}, Complete(Held(t, k), outcome),
           UNCHANGED tokens, Held(t, k)' = NoTicket, OthersKeep(t, k)
    PROVE  TicketsRight' /\ misjudged' = {} /\ health' \in [Models -> HealthStates]
<1> USE DEF ModelsInv, TicketsRight
<1>0. /\ \A u \in Requesters, l \in Holders : Held(u, l) \in TicketStates
      /\ \A m \in Models : health[m] \in HealthStates
      /\ MaxCompletions \in Nat /\ MaxProbes \in Nat /\ tokens \in Nat
  BY HeldTyped, ModelAssumption DEF ModelsTyped
<1>1. /\ Held(t, k)'.ref = NoModel /\ Held(t, k)'.token = 0
  BY NothingHeld
<1>2. misjudged' = {}
  BY HealthCompletes
<1>3. CASE UNCHANGED health /\ \A m \in Models : ProbeInFlight(m) => ~Probes(t, k, m)
  <2>1. GenerationsCount'
    BY <1>3 DEF GenerationsCount
  <2>2. TicketsKnow'
    BY <1>1, <1>3 DEF TicketsKnow, OthersKeep
  <2>3. TokensUnique'
    BY <1>0, <1>1, <1>3 DEF TokensUnique, OthersKeep
  <2>4. ProbesHeld'
    BY <1>3 DEF ProbesHeld, OthersKeep, Probes, ProbeInFlight
  <2>5. QED
    BY <1>2, <1>3, <2>1, <2>2, <2>3, <2>4 DEF ModelsTyped
<1>4. ASSUME NEW m \in Models, m = Held(t, k).ref, OnlyHealthOf(m), health'[m].token = 0,
             \/ HealthKept(m)
             \/ /\ health'[m].generation > health[m].generation
                /\ health'[m].failures <= health'[m].generation
                /\ health'[m].successes <= health'[m].generation
      PROVE  TicketsRight' /\ health' \in [Models -> HealthStates]
  <2>0. \A n \in Models : health'[n] \in HealthStates
    BY <1>4 DEF OnlyHealthOf
  <2>1. GenerationsCount'
    BY <1>4 DEF GenerationsCount, OnlyHealthOf, HealthKept
  <2>2. TicketsKnow'
    <3> SUFFICES ASSUME NEW u \in Requesters, NEW l \in Holders, u # t \/ l # k,
                        Held(u, l).ref # NoModel
        PROVE  /\ Held(u, l).generation <= health'[Held(u, l).ref].generation
               /\ Held(u, l).generation = health'[Held(u, l).ref].generation =>
                     Held(u, l).seen = health'[Held(u, l).ref].successes
      BY <1>1 DEF TicketsKnow, OthersKeep
    <3>1. Held(u, l).ref \in Models /\ Held(u, l).generation \in Nat
      BY <1>0 DEF TicketStates
    <3>2. CASE Held(u, l).ref # m
      BY <1>4, <3>1, <3>2 DEF TicketsKnow, OnlyHealthOf
    <3>3. CASE Held(u, l).ref = m
      <4>1. health[m].generation \in Nat /\ health'[m].generation \in Nat
        BY <1>0, <2>0 DEF HealthStates
      <4>2. QED
        BY <1>4, <3>1, <3>3, <4>1 DEF TicketsKnow, HealthKept
    <3>4. QED
      BY <3>2, <3>3
  <2>3. TokensUnique'
    BY <1>0, <1>1, <1>4 DEF TokensUnique, OthersKeep, OnlyHealthOf
  <2>4. ProbesHeld'
    <3> SUFFICES ASSUME NEW n \in Models, ProbeInFlight(n)'
        PROVE  \E u \in Requesters, l \in Holders : Probes(u, l, n)'
      BY DEF ProbesHeld
    <3>1. n # m
      BY <1>4 DEF ProbeInFlight
    <3>2. health'[n] = health[n]
      BY <1>4, <3>1 DEF OnlyHealthOf
    <3>3. PICK u \in Requesters, l \in Holders : Probes(u, l, n)
      BY <3>2 DEF ProbesHeld, ProbeInFlight
    <3>4. u # t \/ l # k
      BY <1>4, <3>1, <3>3 DEF Probes
    <3>5. QED
      BY <3>2, <3>3, <3>4 DEF Probes, OthersKeep
  <2>5. QED
    BY <1>4, <2>1, <2>2, <2>3, <2>4 DEF OnlyHealthOf
<1>5. QED
  BY <1>2, <1>3, <1>4, HealthCompletes

(* A candidate's ticket is that of its health, with a new token for a probe.*)
LEMMA IssueTyped ==
    ASSUME ModelsTyped, NEW m \in Models, Issue(m)
    PROVE  /\ health' \in [Models -> HealthStates] /\ tokens' \in 0..MaxProbes
           /\ OnlyHealthOf(m) /\ HealthKept(m) /\ TicketFor(m) \in TicketStates
           /\ \/ UNCHANGED <<health, tokens>> /\ TicketFor(m).token = 0
              \/ /\ tokens' = tokens + 1 /\ health'[m].token = tokens + 1
                 /\ TicketFor(m).token = tokens + 1
<1>1. health[m] \in HealthStates /\ tokens \in Nat /\ MaxProbes \in Nat
  BY ModelAssumption DEF ModelsTyped
<1>2. CASE health[m].failures > 0
  <2>1. tokens + 1 \in 0..MaxProbes /\ tokens' = tokens + 1
    BY <1>1, <1>2 DEF Issue
  <2>2. PICK v \in 0..MaxProbes : v = tokens + 1
    BY <2>1
  <2>3. health' = [health EXCEPT ![m].token = v]
    BY <1>2, <2>2 DEF Issue
  <2>4. OnlyHealthOf(m) /\ HealthKept(m) /\ health'[m].token = v
    BY <2>3, TokenSet
  <2>5. TicketFor(m) \in TicketStates /\ TicketFor(m).token = v
    BY <1>1, <1>2, <2>2 DEF TicketFor, TicketStates, HealthStates
  <2>6. QED
    BY <2>1, <2>2, <2>4, <2>5 DEF OnlyHealthOf
<1>3. CASE ~(health[m].failures > 0)
  <2>1. UNCHANGED <<health, tokens>>
    BY <1>3 DEF Issue
  <2>2. 0 \in 0..MaxProbes
    BY <1>1
  <2>3. TicketFor(m) \in TicketStates /\ TicketFor(m).token = 0
    BY <1>1, <1>3, <2>2 DEF TicketFor, TicketStates, HealthStates
  <2>4. QED
    BY <2>1, <2>3 DEF ModelsTyped, OnlyHealthOf, HealthKept
<1>4. QED
  BY <1>2, <1>3

(* The slot without a ticket that gets a candidate's is its only holder.   *)
LEMMA IssueKeeps ==
    ASSUME ModelsInv, NEW t \in Requesters, NEW k \in Holders, NEW m \in Models, Issue(m),
           Held(t, k) = NoTicket, Held(t, k)' = TicketFor(m), OthersKeep(t, k)
    PROVE  TicketsRight'
<1> USE DEF ModelsInv, TicketsRight
<1>0. /\ \A u \in Requesters, l \in Holders : Held(u, l) \in TicketStates
      /\ \A n \in Models : health[n] \in HealthStates
      /\ MaxProbes \in Nat /\ tokens \in Nat /\ NoModel \notin Models
  BY HeldTyped, ModelAssumption DEF ModelsTyped
<1>1. Held(t, k).token = 0 /\ Held(t, k).ref = NoModel
  BY NothingHeld
<1>2. PICK x \in TicketStates : x = TicketFor(m)
  BY IssueTyped
<1>3. /\ Held(t, k)' = x /\ x.ref = m /\ x.generation = health[m].generation
      /\ x.seen = health[m].successes
  BY <1>2 DEF TicketFor
<1>4. /\ \A n \in Models : n # m => health'[n] = health[n]
      /\ HealthKept(m)
      /\ \/ UNCHANGED <<health, tokens>> /\ x.token = 0
         \/ tokens' = tokens + 1 /\ health'[m].token = tokens + 1 /\ x.token = tokens + 1
  BY <1>2, IssueTyped DEF OnlyHealthOf
<1>5. \A n \in Models : /\ health'[n].generation = health[n].generation
                        /\ health'[n].successes = health[n].successes
                        /\ health'[n].failures = health[n].failures
  BY <1>4 DEF HealthKept
<1>6. GenerationsCount'
  BY <1>5 DEF GenerationsCount
<1>7. TicketsKnow'
  <2> SUFFICES ASSUME NEW u \in Requesters, NEW l \in Holders
      PROVE  (/\ Held(u, l).ref = NoModel => Held(u, l).token = 0
              /\ Held(u, l).ref # NoModel =>
                    /\ Held(u, l).generation <= health[Held(u, l).ref].generation
                    /\ Held(u, l).generation = health[Held(u, l).ref].generation =>
                          Held(u, l).seen = health[Held(u, l).ref].successes)'
    BY DEF TicketsKnow
  <2>1. CASE u = t /\ l = k
    <3>1. health[m].generation \in Nat
      BY <1>0 DEF HealthStates
    <3>2. QED
      BY <1>0, <1>3, <1>5, <2>1, <3>1
  <2>2. CASE u # t \/ l # k
    <3>1. Held(u, l)' = Held(u, l) /\ Held(u, l).ref \in Models \cup {NoModel}
      BY <1>0, <2>2 DEF OthersKeep, TicketStates
    <3>2. QED
      BY <1>5, <3>1 DEF TicketsKnow
  <2>3. QED
    BY <2>1, <2>2
<1>8. TokensUnique'
  <2>1. /\ \A u \in Requesters, l \in Holders : Held(u, l).token \in Nat
        /\ \A n \in Models : health[n].token \in Nat
    BY <1>0 DEF TicketStates, HealthStates
  <2>2. \A n \in Models : health'[n].token <= tokens'
    BY <1>0, <1>4, <2>1 DEF TokensUnique
  <2>3. \A u \in Requesters, l \in Holders : Held(u, l)'.token <= tokens'
    BY <1>0, <1>3, <1>4, <2>1 DEF TokensUnique, OthersKeep
  <2>4. \A u, w \in Requesters, l, j \in Holders :
           Held(u, l)'.token # 0 /\ Held(u, l)'.token = Held(w, j)'.token => u = w /\ l = j
    BY <1>0, <1>3, <1>4, <2>1 DEF TokensUnique, OthersKeep
  <2>5. QED
    BY <2>2, <2>3, <2>4 DEF TokensUnique
<1>9. ProbesHeld'
  <2> SUFFICES ASSUME NEW n \in Models, ProbeInFlight(n)'
      PROVE  \E u \in Requesters, l \in Holders : Probes(u, l, n)'
    BY DEF ProbesHeld
  <2>1. CASE n = m /\ health'[m].token = tokens + 1 /\ x.token = tokens + 1
    BY <1>3, <1>5, <2>1 DEF Probes
  <2>2. CASE health'[n] = health[n]
    <3>1. PICK u \in Requesters, l \in Holders : Probes(u, l, n)
      BY <2>2 DEF ProbesHeld, ProbeInFlight
    <3>2. u # t \/ l # k
      BY <1>0, <1>1, <3>1 DEF Probes
    <3>3. QED
      BY <2>2, <3>1, <3>2 DEF Probes, OthersKeep
  <2>3. QED
    BY <1>4, <2>1, <2>2
<1>10. QED
  BY <1>6, <1>7, <1>8, <1>9

(* Attempts that move on with their tickets keep them right.               *)
LEMMA TicketsKept ==
    ASSUME ModelsInv, UNCHANGED tokens,
           \A m \in Models : HealthKept(m) /\ health'[m].token = health[m].token,
           \A u \in Requesters, l \in Holders : Held(u, l)' = Held(u, l)
    PROVE  TicketsRight'
<1> USE DEF ModelsInv, TicketsRight
<1>0. NoModel \notin Models /\ \A u \in Requesters, l \in Holders : Held(u, l) \in TicketStates
  BY HeldTyped, ModelAssumption
<1>1. GenerationsCount'
  BY DEF GenerationsCount, HealthKept
<1>2. TicketsKnow'
  <2>1. \A u \in Requesters, l \in Holders : Held(u, l).ref \in Models \cup {NoModel}
    BY <1>0 DEF TicketStates
  <2>2. QED
    BY <2>1 DEF TicketsKnow, HealthKept
<1>3. TokensUnique'
  BY DEF TokensUnique
<1>4. ProbesHeld'
  BY DEF ProbesHeld, Probes, ProbeInFlight, HealthKept
<1>5. QED
  BY <1>1, <1>2, <1>3, <1>4

(* A slot without a ticket stays without one.                              *)
LEMMA NothingChanges ==
    ASSUME ModelsInv, NEW t \in Requesters, NEW k \in Holders, UNCHANGED <<health, tokens>>,
           Held(t, k)' = Held(t, k), OthersKeep(t, k)
    PROVE  TicketsRight'
<1>1. \A u \in Requesters, l \in Holders : Held(u, l)' = Held(u, l)
  BY DEF OthersKeep
<1>2. \A m \in Models : HealthKept(m) /\ health'[m].token = health[m].token
  BY DEF HealthKept
<1>3. QED
  BY <1>1, <1>2, TicketsKept

-----------------------------------------------------------------------------
(* Each step keeps the invariant *)

(* A failed model cools down.                                              *)
LEMMA CoolsDownAnswers ==
    ASSUME ModelsInv, NEW m \in Models, CoolsDown(m) PROVE ModelsInv'
<1> USE DEF ModelsInv
<1>1. health[m] \in HealthStates /\ health \in [Models -> HealthStates]
  BY DEF ModelsTyped
<1>2. PICK h : h = [health[m] EXCEPT !.cooling = FALSE]
  OBVIOUS
<1>3. /\ h \in HealthStates /\ h.generation = health[m].generation /\ h.token = health[m].token
      /\ h.successes = health[m].successes /\ h.failures = health[m].failures
  BY <1>1, <1>2 DEF HealthStates
<1>4. health' = [health EXCEPT ![m] = h]
  BY <1>2 DEF CoolsDown
<1>5. /\ health' \in [Models -> HealthStates]
      /\ \A n \in Models : HealthKept(n) /\ health'[n].token = health[n].token
  BY <1>1, <1>3, <1>4 DEF HealthKept
<1>6. UNCHANGED <<tokens, request, summary, misjudged>>
  BY DEF CoolsDown
<1>7. \A u \in Requesters, l \in Holders : Held(u, l)' = Held(u, l)
  BY <1>6 DEF Held
<1>8. TicketsRight'
  BY <1>5, <1>6, <1>7, TicketsKept
<1>9. QED
  BY <1>5, <1>6, <1>8 DEF ModelsTyped

(* A candidate for a request.                                              *)
LEMMA AcquireCandidateAnswers ==
    ASSUME ModelsInv, NEW t \in Requesters, AcquireCandidate(t) PROVE ModelsInv'
<1> USE DEF ModelsInv
<1>1. UNCHANGED <<summary, misjudged>>
  BY DEF AcquireCandidate, EndsRequest
<1>2. Held(t, "request") = NoTicket /\ request[t] \in Attempts /\ summary[t].at = "idle"
  BY DEF AcquireCandidate, ModelsTyped, Held
<1>3. CASE Found(Chain, request[t].tried)
  <2> DEFINE m0 == Chain[Index(Chain, request[t].tried)]
             skips0 == Skipped(Chain, request[t].tried)
  <2>1. m0 \in Models /\ skips0 \subseteq Models
    BY <1>3, CandidateKnown, ModelAssumption
  <2>2. PICK m \in Models, tried \in SUBSET Models :
           m = m0 /\ tried = request[t].tried \cup skips0 \cup {m0}
    BY <1>2, <2>1 DEF Attempts
  <2>3. /\ Issue(m)
        /\ SetRequest(t, [at |-> "prepare", ticket |-> TicketFor(m), model |-> m, tried |-> tried])
    BY <1>3, <2>2 DEF AcquireCandidate
  <2>4. PICK x \in TicketStates : x = TicketFor(m)
    BY <2>3, IssueTyped
  <2>5. PICK r \in Attempts : r = [at |-> "prepare", ticket |-> x, model |-> m, tried |-> tried]
    BY DEF Attempts, TicketStates
  <2>6. SetRequest(t, r) /\ r.at = "prepare" /\ r.ticket = TicketFor(m)
    BY <2>3, <2>4, <2>5
  <2>7. ModelsTyped' /\ Held(t, "request")' = TicketFor(m) /\ OthersKeep(t, "request")
    BY <1>1, <1>2, <2>3, <2>6, IssueTyped, RequestSet
  <2>8. TicketsRight'
    BY <1>2, <2>3, <2>7, IssueKeeps DEF Holders
  <2>9. QED
    BY <1>1, <2>7, <2>8
<1>4. CASE ~Found(Chain, request[t].tried)
  <2>1. SetRequest(t, NoAttempt) /\ UNCHANGED <<health, tokens>>
    BY <1>4 DEF AcquireCandidate, EndsRequest
  <2>2. ModelsTyped' /\ Held(t, "request")' = NoTicket /\ OthersKeep(t, "request")
    BY <1>1, <1>2, <2>1, NothingHeld, RequestSet DEF ModelsTyped
  <2>3. TicketsRight'
    BY <1>2, <2>1, <2>2, NothingChanges DEF Holders
  <2>4. QED
    BY <1>1, <2>2, <2>3
<1>5. QED
  BY <1>3, <1>4

(* A candidate compacts first, with its ticket reserved.                   *)
LEMMA PreflightAnswers ==
    ASSUME ModelsInv, NEW t \in Requesters, Preflight(t) PROVE ModelsInv'
<1> USE DEF ModelsInv
<1>1. request[t] \in Attempts /\ summary[t] \in Attempts
  BY DEF ModelsTyped
<1>2. PICK r : r = [request[t] EXCEPT !.at = "preflight"]
  OBVIOUS
<1>3. r \in Attempts /\ r.at = "preflight" /\ r.ticket = request[t].ticket
  BY <1>1, <1>2, AttemptMoves
<1>4. PICK s : s = [NoAttempt EXCEPT !.at = "next"]
  OBVIOUS
<1>5. s \in Attempts /\ s.at = "next" /\ s.ticket = NoTicket
  BY <1>4, NothingHeld, AttemptMoves
<1>6. /\ request' = [request EXCEPT ![t] = r] /\ summary' = [summary EXCEPT ![t] = s]
      /\ UNCHANGED <<health, tokens, misjudged>>
  BY <1>2, <1>4 DEF Preflight, SetRequest, SetSummary
<1>7. /\ r.at \in {"idle", "next"} => r.ticket = NoTicket
      /\ s.at \in {"idle", "next"} => s.ticket = NoTicket
      /\ s.at # "idle" => r.at \in {"idle", "preflight"}
      /\ health' \in [Models -> HealthStates] /\ tokens' \in 0..MaxProbes
  BY <1>3, <1>5, <1>6 DEF ModelsTyped
<1>8. /\ ModelsTyped' /\ Held(t, "request")' = r.ticket /\ Held(t, "summary")' = s.ticket
      /\ \A u \in Requesters, k \in Holders : u # t => Held(u, k)' = Held(u, k)
  BY <1>3, <1>5, <1>6, <1>7, AttemptsSet
<1>9. Held(t, "request") = r.ticket /\ Held(t, "summary") = s.ticket
  BY <1>3, <1>5 DEF Held, ModelsTyped, Preflight
<1>10. Held(t, "request")' = Held(t, "request") /\ OthersKeep(t, "request")
  BY <1>8, <1>9 DEF OthersKeep, Holders
<1>11. TicketsRight'
  BY <1>6, <1>10, NothingChanges DEF Holders
<1>12. QED
  BY <1>6, <1>8, <1>11
(* The ticket of a request is handed back as it ends or falls back.        *)
LEMMA RequestCompletes ==
    ASSUME ModelsInv, NEW t \in Requesters, NEW outcome \in {"success", "failure", "neutral"},
           Complete(request[t].ticket, outcome), NEW r \in Attempts, SetRequest(t, r),
           UNCHANGED <<tokens, summary>>, r.ticket = NoTicket,
           request[t].at \in {"prepare", "ready", "failed", "sent"}
    PROVE  ModelsInv'
<1> USE DEF ModelsInv
<1>1. Complete(Held(t, "request"), outcome) /\ summary[t].at = "idle"
  BY DEF Held, ModelsTyped
<1>2. "request" \in Holders
  BY DEF Holders
<1>3. health' \in [Models -> HealthStates]
  BY <1>1, <1>2, HealthCompletes DEF ModelsTyped, OnlyHealthOf
<1>4. tokens' \in 0..MaxProbes
  BY DEF ModelsTyped
<1>5. ModelsTyped' /\ Held(t, "request")' = NoTicket /\ OthersKeep(t, "request")
  BY <1>1, <1>3, <1>4, RequestSet
<1>6. TicketsRight' /\ misjudged' = {}
  BY <1>1, <1>2, <1>5, CompletionKeeps
<1>7. QED
  BY <1>5, <1>6

(* That of a summary is, too, as it ends or goes on to another model.      *)
LEMMA SummaryCompletes ==
    ASSUME ModelsInv, NEW t \in Requesters, NEW outcome \in {"success", "failure", "neutral"},
           Complete(summary[t].ticket, outcome), UNCHANGED tokens, summary[t].at # "idle",
           \/ \E next \in {"ready", "failed"} : SummaryEnds(t, next)
           \/ /\ UNCHANGED request
              /\ \E s \in Attempts : SetSummary(t, s) /\ s.ticket = NoTicket
    PROVE  ModelsInv'
<1> USE DEF ModelsInv
<1>1. Complete(Held(t, "summary"), outcome) /\ request[t].at \in {"idle", "preflight"}
  BY DEF Held, ModelsTyped
<1>2. "summary" \in Holders
  BY DEF Holders
<1>3. health' \in [Models -> HealthStates]
  BY <1>1, <1>2, HealthCompletes DEF ModelsTyped, OnlyHealthOf
<1>4. tokens' \in 0..MaxProbes
  BY DEF ModelsTyped
<1>5. ModelsTyped' /\ Held(t, "summary")' = NoTicket /\ OthersKeep(t, "summary")
  BY <1>1, <1>3, <1>4, SummarySet, SummaryOver
<1>6. TicketsRight' /\ misjudged' = {}
  BY <1>1, <1>2, <1>5, CompletionKeeps
<1>7. QED
  BY <1>5, <1>6

(* A request is given up, answered, or falls back to the next candidate.   *)
LEMMA RequestEnds ==
    ASSUME ModelsInv, NEW t \in Requesters, GiveUpRequest(t) \/ Answered(t) \/ FallsBack(t)
    PROVE  ModelsInv'
<1>1. NoAttempt \in Attempts /\ NoAttempt.ticket = NoTicket
  BY NothingHeld
<1>2. CASE GiveUpRequest(t)
  BY <1>1, <1>2, RequestCompletes DEF GiveUpRequest, EndsRequest
<1>3. CASE Answered(t)
  BY <1>1, <1>3, RequestCompletes DEF Answered, EndsRequest
<1>4. CASE FallsBack(t)
  <2>1. request[t] \in Attempts
    BY DEF ModelsInv, ModelsTyped
  <2>2. PICK r : r = [request[t] EXCEPT !.at = "next", !.ticket = NoTicket, !.model = NoModel]
    OBVIOUS
  <2>3. r \in Attempts /\ r.ticket = NoTicket
    BY <2>1, <2>2, AttemptDrops
  <2>4. SetRequest(t, r) /\ Complete(request[t].ticket, "failure") /\ request[t].at = "sent"
           /\ UNCHANGED <<tokens, summary>>
    BY <1>4, <2>2 DEF FallsBack
  <2>5. QED
    BY <2>3, <2>4, RequestCompletes
<1>5. QED
  BY <1>2, <1>3, <1>4

(* A request is sent with the ticket it has.                               *)
LEMMA SendRequestAnswers ==
    ASSUME ModelsInv, NEW t \in Requesters, SendRequest(t) PROVE ModelsInv'
<1> USE DEF ModelsInv
<1>1. request[t] \in Attempts /\ summary[t].at = "idle"
  BY DEF ModelsTyped, SendRequest
<1>2. PICK r : r = [request[t] EXCEPT !.at = "sent"]
  OBVIOUS
<1>3. r \in Attempts /\ r.at = "sent" /\ r.ticket = Held(t, "request")
  BY <1>1, <1>2, AttemptMoves DEF Held
<1>4. SetRequest(t, r) /\ UNCHANGED <<health, tokens, summary, misjudged>>
  BY <1>2 DEF SendRequest
<1>5. ModelsTyped' /\ Held(t, "request")' = Held(t, "request") /\ OthersKeep(t, "request")
  BY <1>1, <1>3, <1>4, RequestSet DEF ModelsTyped
<1>6. TicketsRight'
  BY <1>4, <1>5, NothingChanges DEF Holders
<1>7. QED
  BY <1>4, <1>5, <1>6

(* A summary is asked for, or no candidate for it is left.                 *)
LEMMA SummarizeAnswers ==
    ASSUME ModelsInv, NEW t \in Requesters, Summarize(t) \/ SummaryExhausted(t) PROVE ModelsInv'
<1> USE DEF ModelsInv
<1>1. UNCHANGED <<health, tokens, misjudged>> /\ Held(t, "summary") = NoTicket
  BY DEF Summarize, SummaryExhausted, ModelsTyped, Held
<1>2. CASE Summarize(t)
  <2>1. PICK s : s = [NoAttempt EXCEPT !.at = "next"]
    OBVIOUS
  <2>2. s \in Attempts /\ s.at = "next" /\ s.ticket = NoTicket
    BY <2>1, NothingHeld, AttemptMoves
  <2>3. SetSummary(t, s) /\ UNCHANGED request /\ request[t].at = "idle"
    BY <1>2, <2>1 DEF Summarize
  <2>4. ModelsTyped' /\ Held(t, "summary")' = NoTicket /\ OthersKeep(t, "summary")
    BY <1>1, <2>2, <2>3, SummarySet DEF ModelsTyped
  <2>5. TicketsRight'
    BY <1>1, <2>4, NothingChanges DEF Holders
  <2>6. QED
    BY <1>1, <2>4, <2>5
<1>3. CASE SummaryExhausted(t)
  <2>1. ModelsTyped' /\ Held(t, "summary")' = NoTicket /\ OthersKeep(t, "summary")
    BY <1>1, <1>3, SummaryOver DEF SummaryExhausted, ModelsTyped
  <2>2. TicketsRight'
    BY <1>1, <2>1, NothingChanges DEF Holders
  <2>3. QED
    BY <1>1, <2>1, <2>2
<1>4. QED
  BY <1>2, <1>3

(* A candidate for the summary: one of the chain with its own ticket, or   *)
(* the one that the request has reserved.                                  *)
LEMMA AcquireSummaryCandidateAnswers ==
    ASSUME ModelsInv, NEW t \in Requesters, AcquireSummaryCandidate(t) PROVE ModelsInv'
<1> USE DEF ModelsInv
<1> DEFINE tried0 == summary[t].tried
           m0 == SummaryChain[Index(SummaryChain, tried0)]
           skips0 == Skipped(SummaryChain, tried0)
           earlier0 == {s \in skips0 : \E i \in 1..ReservedIndex(t) - 1 : SummaryChain[i] = s}
<1>1. /\ UNCHANGED <<request, misjudged>> /\ Held(t, "summary") = NoTicket
      /\ tried0 \subseteq Models /\ request[t].at \in {"idle", "preflight"}
  BY DEF AcquireSummaryCandidate, ModelsTyped, Held, Attempts
<1>2. /\ skips0 \subseteq Models /\ earlier0 \subseteq Models
      /\ Found(SummaryChain, tried0) => m0 \in Models
  BY CandidateKnown, ModelAssumption
<1>3. Reserved(t) \in Models \cup {NoModel} /\ NoModel \notin Models
  BY ModelAssumption DEF Reserved, ModelsTyped, Attempts
<1>4. UsesReservation(t) => Reserved(t) \in Models
  <2>1. Range(SummaryChain) \subseteq Models
    BY ModelAssumption DEF Range
  <2>2. QED
    BY <2>1 DEF UsesReservation, ReservedIndex
<1>5. ASSUME NEW at \in {"sent", "surplus"}, NEW x \in TicketStates, NEW m \in Models,
             NEW skips \in SUBSET Models, Attempting(t, at, x, m, skips),
             health' \in [Models -> HealthStates], tokens' \in 0..MaxProbes
      PROVE  ModelsTyped' /\ Held(t, "summary")' = x /\ OthersKeep(t, "summary")
  <2>1. PICK tried \in SUBSET Models : tried = tried0 \cup skips \cup {m}
    BY <1>1
  <2>2. PICK s \in Attempts : s = [at |-> at, ticket |-> x, model |-> m, tried |-> tried]
    BY DEF Attempts, TicketStates
  <2>3. SetSummary(t, s) /\ s.at = at /\ s.ticket = x
    BY <1>5, <2>1, <2>2 DEF Attempting
  <2>4. QED
    BY <1>1, <1>5, <2>3, SummarySet
<1>6. CASE Found(SummaryChain, tried0)
  <2>1. PICK m \in Models : m = m0
    BY <1>2, <1>6
  <2>2. Issue(m)
    BY <1>6, <2>1 DEF AcquireSummaryCandidate
  <2>3. PICK x \in TicketStates : x = TicketFor(m)
    BY <2>2, IssueTyped
  <2>4. health' \in [Models -> HealthStates] /\ tokens' \in 0..MaxProbes
    BY <2>2, IssueTyped
  <2>5. PICK skips \in SUBSET Models, earlier \in SUBSET Models : skips = skips0 /\ earlier = earlier0
    BY <1>2
  <2>6. \/ Attempting(t, "surplus", x, Reserved(t), earlier) /\ Reserved(t) \in Models
        \/ Attempting(t, "sent", x, m, skips)
    BY <1>4, <1>6, <2>1, <2>3, <2>5 DEF AcquireSummaryCandidate
  <2>7. ModelsTyped' /\ Held(t, "summary")' = x /\ OthersKeep(t, "summary")
    BY <1>5, <2>4, <2>6
  <2>8. TicketsRight'
    BY <1>1, <2>2, <2>3, <2>7, IssueKeeps DEF Holders
  <2>9. QED
    BY <1>1, <2>7, <2>8
<1>7. CASE ~Found(SummaryChain, tried0)
  <2>1. UsesReservation(t) /\ Attempting(t, "sent", NoTicket, Reserved(t), earlier0)
           /\ UNCHANGED <<health, tokens>>
    BY <1>7 DEF AcquireSummaryCandidate
  <2>2. PICK earlier \in SUBSET Models : earlier = earlier0
    BY <1>2
  <2>3. ModelsTyped' /\ Held(t, "summary")' = NoTicket /\ OthersKeep(t, "summary")
    BY <1>4, <1>5, <2>1, <2>2, NothingHeld DEF ModelsTyped
  <2>4. TicketsRight'
    BY <1>1, <2>1, <2>3, NothingChanges DEF Holders
  <2>5. QED
    BY <1>1, <2>3, <2>4
<1>8. QED
  BY <1>6, <1>7

(* A summary gives back what it acquired beyond its reservation, is        *)
(* accepted, refused or aborted.                                           *)
LEMMA SummaryGoesOn ==
    ASSUME ModelsInv, NEW t \in Requesters,
           ReturnSurplus(t) \/ SummaryAccepted(t) \/ SummaryRefused(t) \/ SummaryAborted(t)
    PROVE  ModelsInv'
<1>1. summary[t] \in Attempts
  BY DEF ModelsInv, ModelsTyped
<1>2. CASE ReturnSurplus(t)
  <2>1. PICK s : s = [summary[t] EXCEPT !.at = "sent", !.ticket = NoTicket]
    OBVIOUS
  <2>2. s \in Attempts /\ s.ticket = NoTicket /\ SetSummary(t, s)
    BY <1>1, <1>2, <2>1, AttemptReturns DEF ReturnSurplus
  <2>3. QED
    BY <1>2, <2>2, SummaryCompletes DEF ReturnSurplus
<1>3. CASE SummaryAccepted(t)
  BY <1>3, SummaryCompletes DEF SummaryAccepted
<1>4. CASE SummaryRefused(t)
  <2>1. PICK s : s = [summary[t] EXCEPT !.at = "next", !.ticket = NoTicket, !.model = NoModel]
    OBVIOUS
  <2>2. s \in Attempts /\ s.ticket = NoTicket /\ SetSummary(t, s)
    BY <1>1, <1>4, <2>1, AttemptDrops DEF SummaryRefused
  <2>3. QED
    BY <1>4, <2>2, SummaryCompletes DEF SummaryRefused
<1>5. CASE SummaryAborted(t)
  BY <1>5, SummaryCompletes DEF SummaryAborted
<1>6. QED
  BY <1>2, <1>3, <1>4, <1>5

-----------------------------------------------------------------------------
(* The first states satisfy the invariant.                                 *)
LEMMA ModelsStart == MHInit => ModelsInv
<1> SUFFICES ASSUME MHInit PROVE ModelsInv
  OBVIOUS
<1>1. MaxCompletions \in Nat /\ MaxProbes \in Nat
  BY ModelAssumption
<1>2. Healthy \in HealthStates
  BY <1>1 DEF Healthy, HealthStates
<1>3. ModelsTyped
  BY <1>1, <1>2, NothingHeld DEF MHInit, ModelsTyped
<1>4. \A t \in Requesters, k \in Holders : Held(t, k).ref = NoModel /\ Held(t, k).token = 0
  BY NothingHeld DEF MHInit, Held
<1>5. \A m \in Models : /\ health[m].failures = 0 /\ health[m].successes = 0
                        /\ health[m].generation = 0 /\ health[m].token = 0
  BY DEF MHInit, Healthy
<1>6. TicketsRight
  BY <1>4, <1>5 DEF TicketsRight, GenerationsCount, TicketsKnow, TokensUnique, ProbesHeld,
     ProbeInFlight, MHInit
<1>7. QED
  BY <1>3, <1>6 DEF ModelsInv, MHInit

(* Every step of a request, a summary or a cooling model keeps it.         *)
LEMMA ModelsKeep == ModelsInv /\ [MHNext]_mhvars => ModelsInv'
<1> SUFFICES ASSUME ModelsInv, [MHNext]_mhvars PROVE ModelsInv'
  OBVIOUS
<1>1. ASSUME NEW m \in Models, CoolsDown(m) PROVE ModelsInv'
  BY <1>1, CoolsDownAnswers
<1>2. ASSUME NEW t \in Requesters,
             \/ AcquireCandidate(t) \/ Preflight(t) \/ GiveUpRequest(t) \/ SendRequest(t) \/ Answered(t)
             \/ FallsBack(t) \/ Summarize(t) \/ AcquireSummaryCandidate(t) \/ ReturnSurplus(t)
             \/ SummaryExhausted(t) \/ SummaryAccepted(t) \/ SummaryRefused(t) \/ SummaryAborted(t)
      PROVE  ModelsInv'
  BY <1>2, AcquireCandidateAnswers, PreflightAnswers, RequestEnds, SendRequestAnswers, SummarizeAnswers,
     AcquireSummaryCandidateAnswers, SummaryGoesOn
<1>3. CASE UNCHANGED mhvars
  BY <1>3 DEF mhvars, ModelsInv, ModelsTyped, TicketsRight, GenerationsCount, TicketsKnow, TokensUnique,
     ProbesHeld, Probes, ProbeInFlight, Held
<1>4. QED
  BY <1>1, <1>2, <1>3 DEF MHNext

(* A probe in flight has its one holder, and no failure was misjudged.     *)
LEMMA ModelsAreSafe == ModelsInv => MHTypeOK /\ ModelHealthSafe
<1> SUFFICES ASSUME ModelsInv PROVE MHTypeOK /\ ModelHealthSafe
  OBVIOUS
<1> USE DEF ModelsInv, TicketsRight
<1>1. MHTypeOK
  BY DEF MHTypeOK, ModelsTyped, HealthStates
<1>2. ASSUME NEW m \in Models, ProbeInFlight(m)
      PROVE  Cardinality({t \in Requesters : \E k \in Tickets(t) :
                            k.ref = m /\ k.token = health[m].token /\ ~Stale(k)}) = 1
  <2> DEFINE holders == {t \in Requesters : \E k \in Tickets(t) :
                            k.ref = m /\ k.token = health[m].token /\ ~Stale(k)}
  <2>1. PICK u \in Requesters, l \in Holders : Probes(u, l, m)
    BY <1>2 DEF ProbesHeld
  <2>2. Held(u, l) \in Tickets(u)
    BY DEF Held, Tickets
  <2>3. u \in holders
    BY <2>1, <2>2 DEF Probes, Stale
  <2>4. ASSUME NEW t \in holders PROVE t = u
    <3>1. PICK k \in Tickets(t) : k.ref = m /\ k.token = health[m].token
      OBVIOUS
    <3>2. PICK j \in Holders : k = Held(t, j)
      BY <3>1 DEF Tickets, Held, Holders
    <3>3. QED
      BY <1>2, <2>1, <3>1, <3>2 DEF TokensUnique, Probes, ProbeInFlight
  <2>5. holders = {u}
    BY <2>3, <2>4
  <2>6. QED
    BY <2>5, FS_Singleton
<1>3. ProbeOwned
  BY <1>2 DEF ProbeOwned
<1>4. QED
  BY <1>1, <1>3 DEF ModelHealthSafe, NewerSuccessWins

-----------------------------------------------------------------------------
(* Turn policies: the inductive invariant *)

InputSets == SUBSET (1..2)
CallStates ==
    [tool : ToolNames \cup {"none"}, input : 0..2, recorded : 0..2, ran : InputSets,
     refused : BOOLEAN, objected : BOOLEAN, outcome : {"none", "refused", "ok", "bad"},
     error : BOOLEAN, raw : BOOLEAN, replaced : BOOLEAN, class : Classes \cup {"none", "ok"}]
LedgerStates ==
    [status : {"none", "unresolved", "stale", "resolved"}, count : Nat, stuck : BOOLEAN]
Outcomes == [tool : ToolNames, class : Classes \cup {"ok"}]
TaskStates == [status : {"todo", "doing", "done", "pending", "deleted"}, rev : Nat, count : Nat]
GateFields ==
    [candidates : Seq([by : {"tasks", "hooks"}, task : TaskStates]), open : BOOLEAN,
     by : {"none", "tasks", "hooks"}, applied : Seq(Nat), told : Nat]
UsedCounts == [finishes : Nat, edits : Nat, compactions : Nat, shifts : Nat]

(* The variables of a Turn have their shapes, and the policy point that is *)
(* being evaluated is that of the phase.                                   *)
PoliciesTyped ==
    /\ setup \in Setups /\ closed \in BOOLEAN /\ cancelled \in BOOLEAN /\ deferring \in BOOLEAN
    /\ turn \in Phases /\ "at" \in DOMAIN point
    /\ point.at \in Points \cup {"none"} /\ point.at \in {"none", PointOf(turn)}
    /\ call \in CallStates /\ ledger \in [ToolNames \X Classes -> LedgerStates]
    /\ history \in Seq(Outcomes) /\ task \in TaskStates /\ taskGate \in GateFields
    /\ queuedContext \subseteq Durable /\ used \in UsedCounts

(* What is known of the call in each phase of it.                          *)
CallKnows ==
    /\ turn \in {"before", "run"} =>
          /\ call.tool \in ToolNames /\ call.ran = {} /\ call.input = call.recorded /\ call.input # 0
          /\ ~call.refused /\ ~call.objected /\ ~call.replaced
    /\ turn \in {"after", "record"} =>
          /\ call.tool \in ToolNames
          /\ call.error => call.class \in Classes
    /\ turn = "after" =>
          /\ ~call.refused /\ ~call.objected /\ ~call.replaced
          /\ call.error <=> call.outcome # "ok"
          /\ call.ran # {} => call.raw
    /\ EffectsRecorded /\ DenialsHold /\ OutcomeTold

(* Each continuation was counted for a revision of its own, and is told    *)
(* once; while no Worker came in between, a gate that saw a live task has  *)
(* its candidate still to be committed.                                    *)
GateFenced ==
    /\ Len(taskGate.applied) = task.count
    /\ \A i \in DOMAIN taskGate.applied : taskGate.applied[i] < task.rev
    /\ \A i, j \in DOMAIN taskGate.applied : i # j => taskGate.applied[i] # taskGate.applied[j]
    /\ taskGate.told <= task.count
    /\ turn = "enqueue" /\ taskGate.by = "tasks" => taskGate.told < task.count
    /\ turn = "commit" /\ taskGate.open /\ used.shifts = 0 =>
          /\ taskGate.candidates # <<>>
          /\ Head(taskGate.candidates).by = "tasks" /\ Selected(Head(taskGate.candidates))
    /\ turn = "done" => ~(taskGate.open /\ used.shifts = 0)

PoliciesInv == PoliciesTyped /\ CallKnows /\ LedgerAgrees /\ GateFenced

-----------------------------------------------------------------------------
(* No policy is evaluated in a phase that has none.                        *)
LEMMA NoPolicyPoint ==
    ASSUME PoliciesTyped, turn \in {"new", "ask", "run", "record", "commit", "enqueue", "done",
                                    "failed", "rejected"}
    PROVE  point.at = "none"
BY DEF PoliciesTyped, PointOf

(* The point that is decided is the phase's.                               *)
LEMMA PolicyPhase ==
    ASSUME PoliciesTyped, NEW where \in Points, PolicyEnds(where)
    PROVE  /\ where = "thread_start" => turn = "starting"
           /\ where = "turn_input" => turn = "input"
           /\ where = "tool_before" => turn = "before"
           /\ where = "tool_after" => turn = "after"
           /\ where = "finish" => turn = "finish"
           /\ where = "compaction_before" => turn = "compact"
           /\ where = "compaction_after" => turn = "compacted"
           /\ "at" \in DOMAIN point' /\ point'.at = "none"
BY DEF PoliciesTyped, PointOf, PolicyEnds, Points, NoPoint

-----------------------------------------------------------------------------
(* Sequences of candidates and revisions *)

(* The head and the tail of what is not empty, and one element more.       *)
LEMMA QueueMoves ==
    ASSUME NEW S, NEW q \in Seq(S)
    PROVE  /\ q # <<>> => Head(q) \in S /\ Tail(q) \in Seq(S)
           /\ \A x \in S : Append(q, x) \in Seq(S)
OBVIOUS

(* Two sequences one after the other begin with the first of the first.    *)
LEMMA QueuesJoin ==
    ASSUME NEW S, NEW p \in Seq(S), NEW q \in Seq(S)
    PROVE  /\ p \o q \in Seq(S)
           /\ p # <<>> => p \o q # <<>> /\ Head(p \o q) = Head(p)
OBVIOUS

(* A sequence of one element.                                              *)
LEMMA QueueOfOne ==
    ASSUME NEW S, NEW x \in S
    PROVE  <<x>> \in Seq(S) /\ <<>> \in Seq(S) /\ <<x>> # <<>> /\ Head(<<x>>) = x
OBVIOUS

-----------------------------------------------------------------------------
(* The records of a Turn *)

(* A call that has not begun.                                              *)
LEMMA NoCallKnown == NoCall \in CallStates /\ NoCall.ran = {} /\ ~NoCall.refused
BY DEF NoCall, CallStates, InputSets

(* A call begins with the input the provider gave.                         *)
LEMMA CallBegins ==
    ASSUME NEW tool \in ToolNames, call' = [NoCall EXCEPT !.tool = tool, !.input = 1, !.recorded = 1]
    PROVE  /\ call' \in CallStates /\ call'.tool = tool /\ call'.ran = {} /\ call'.input = 1
           /\ call'.recorded = 1 /\ ~call'.refused /\ ~call'.objected /\ ~call'.replaced
<1>1. PICK r \in InputSets : r = {}
  BY DEF InputSets
<1>2. PICK b \in BOOLEAN : b = FALSE
  OBVIOUS
<1>3. PICK i \in 0..2 : i = 1
  OBVIOUS
<1>4. PICK none \in {"none"} : none = "none"
  OBVIOUS
<1>5. call' = [tool |-> tool, input |-> i, recorded |-> i, ran |-> r, refused |-> b,
               objected |-> b, outcome |-> none, error |-> b, raw |-> b, replaced |-> b,
               class |-> none]
  BY <1>1, <1>2, <1>3, <1>4 DEF NoCall
<1>6. call' \in CallStates
  BY <1>5 DEF CallStates
<1>7. /\ call'.tool = tool /\ call'.ran = r /\ call'.input = i /\ call'.recorded = i
      /\ call'.refused = b /\ call'.objected = b /\ call'.replaced = b
  BY <1>1, <1>2, <1>3 DEF NoCall
<1>8. QED
  BY <1>1, <1>2, <1>3, <1>6, <1>7

(* A policy replaces the input of a call.                                  *)
LEMMA CallTransformed ==
    ASSUME call \in CallStates, call' = Transformed
    PROVE  /\ call' \in CallStates /\ call'.tool = call.tool /\ call'.ran = call.ran /\ call'.input = 2
           /\ call'.recorded = 2 /\ call'.refused = call.refused
           /\ call'.objected = call.objected /\ call'.replaced = call.replaced
<1>1. call' = [tool |-> call.tool, input |-> 2, recorded |-> 2, ran |-> call.ran,
               refused |-> call.refused, objected |-> call.objected, outcome |-> call.outcome,
               error |-> call.error, raw |-> call.raw, replaced |-> call.replaced,
               class |-> call.class]
  BY DEF Transformed, CallStates
<1>2. call' \in CallStates
  BY <1>1 DEF CallStates
<1>3. QED
  BY <1>1, <1>2

(* A policy refuses a call.                                                *)
LEMMA CallRefused ==
    ASSUME call \in CallStates, call' = Refused
    PROVE  /\ call' \in CallStates /\ call'.tool = call.tool /\ call'.ran = call.ran
           /\ call'.error /\ call'.class = "recoverable" /\ call'.outcome = "refused"
           /\ call'.objected = call.objected /\ call'.replaced = call.replaced
BY DEF Refused, CallStates, Classes

(* The registry answers a call without running it.                         *)
LEMMA CallAnswered ==
    ASSUME call \in CallStates, NEW class \in Classes,
           call' = [call EXCEPT !.outcome = "refused", !.error = TRUE, !.class = class]
    PROVE  /\ call' \in CallStates /\ call'.tool = call.tool /\ call'.ran = call.ran
           /\ call'.recorded = call.recorded /\ call'.refused = call.refused
           /\ call'.objected = call.objected /\ call'.replaced = call.replaced
           /\ call'.error = TRUE /\ call'.class = class /\ call'.outcome = "refused"
BY DEF CallStates

(* A handler runs with the input of its call.                              *)
LEMMA CallRuns ==
    ASSUME call \in CallStates, call.input # 0, NEW error \in Classes \cup {"ok"},
           NEW fails \in BOOLEAN, NEW outcome \in {"ok", "bad"},
           call' = [call EXCEPT !.ran = {call.input}, !.raw = TRUE, !.error = fails, !.class = error,
                                !.outcome = outcome]
    PROVE  /\ call' \in CallStates /\ call'.tool = call.tool /\ call'.ran = {call.input}
           /\ call'.recorded = call.recorded /\ call'.refused = call.refused
           /\ call'.objected = call.objected /\ call'.replaced = call.replaced
           /\ call'.error = fails /\ call'.class = error /\ call'.outcome = outcome
           /\ call'.raw = TRUE
<1>1. {call.input} \in InputSets
  BY DEF CallStates, InputSets
<1>2. PICK r \in InputSets : r = {call.input}
  BY <1>1
<1>3. call' = [call EXCEPT !.ran = r, !.raw = TRUE, !.error = fails, !.class = error,
                           !.outcome = outcome]
  BY <1>2
<1>4. PICK b \in BOOLEAN : b = TRUE
  OBVIOUS
<1>5. call' = [tool |-> call.tool, input |-> call.input, recorded |-> call.recorded, ran |-> r,
               refused |-> call.refused, objected |-> call.objected, outcome |-> outcome,
               error |-> fails, raw |-> b, replaced |-> call.replaced, class |-> error]
  BY <1>3, <1>4 DEF CallStates
<1>6. call' \in CallStates
  BY <1>5 DEF CallStates
<1>7. QED
  BY <1>2, <1>5, <1>6, <1>4

-----------------------------------------------------------------------------
(* What an outcome adds to the repetitions of a failure *)

(* The outcomes after the last one that settled a failure grow with each   *)
(* outcome that does not settle it.                                        *)
LEMMA SinceGrows ==
    ASSUME history \in Seq(Outcomes), NEW e \in Outcomes, history' = Append(history, e), NEW key
    PROVE  /\ Settles(e, key) => Since(key)' = {}
           /\ ~Settles(e, key) => Since(key)' = Since(key) \cup {Len(history) + 1}
<1>1. PICK n \in Nat : n = Len(history)
  OBVIOUS
<1>2. /\ Len(history') = n + 1 /\ DOMAIN history' = 1..(n + 1) /\ DOMAIN history = 1..n
      /\ history'[n + 1] = e /\ \A i \in 1..n : history'[i] = history[i]
  BY <1>1
<1>3. Since(key)' = {i \in 1..(n + 1) : \A j \in i..(n + 1) : ~Settles(history'[j], key)}
  BY <1>2 DEF Since
<1>4. Since(key) = {i \in 1..n : \A j \in i..n : ~Settles(history[j], key)}
  BY <1>1, <1>2 DEF Since
<1>5. ASSUME NEW i \in 1..n
      PROVE  (\A j \in i..(n + 1) : ~Settles(history'[j], key)) <=>
                (\A j \in i..n : ~Settles(history[j], key)) /\ ~Settles(e, key)
  <2>1. (n + 1) \in i..(n + 1) /\ \A j \in i..n : j \in i..(n + 1) /\ j \in 1..n
    OBVIOUS
  <2>2. \A j \in i..(n + 1) : j = n + 1 \/ j \in i..n
    OBVIOUS
  <2>3. QED
    BY <1>2, <2>1, <2>2
<1>6. (\A j \in (n + 1)..(n + 1) : ~Settles(history'[j], key)) <=> ~Settles(e, key)
  BY <1>2
<1>7. \A i \in 1..(n + 1) : i = n + 1 \/ i \in 1..n
  OBVIOUS
<1>8. ASSUME Settles(e, key) PROVE Since(key)' = {}
  BY <1>3, <1>5, <1>6, <1>7, <1>8
<1>9. ASSUME ~Settles(e, key) PROVE Since(key)' = Since(key) \cup {n + 1}
  <2>1. ASSUME NEW i PROVE i \in Since(key)' <=> i \in Since(key) \/ i = n + 1
    <3>1. i = n + 1 \/ i \in 1..n \/ i \notin 1..(n + 1)
      BY <1>7
    <3>2. n + 1 \in 1..(n + 1) /\ \A j \in 1..n : j \in 1..(n + 1)
      OBVIOUS
    <3>3. QED
      BY <1>3, <1>4, <1>5, <1>6, <1>9, <3>1, <3>2
  <2>2. QED
    BY <2>1
<1>10. QED
  BY <1>1, <1>8, <1>9

(* A failure is repeated by an outcome of its kind and by no other, and    *)
(* settled by a success of its Tool or a write.                            *)
LEMMA RepeatsCount ==
    ASSUME history \in Seq(Outcomes), NEW e \in Outcomes, history' = Append(history, e), NEW key
    PROVE  /\ Repeats(key) \in Nat
           /\ Settles(e, key) => Repeats(key)' = 0
           /\ ~Settles(e, key) /\ e.tool = key[1] /\ e.class = key[2] =>
                 Repeats(key)' = Repeats(key) + 1
           /\ ~Settles(e, key) /\ ~(e.tool = key[1] /\ e.class = key[2]) =>
                 Repeats(key)' = Repeats(key)
<1> DEFINE Same == {i \in Since(key) : history[i].tool = key[1] /\ history[i].class = key[2]}
           Next1 == {i \in Since(key)' : history'[i].tool = key[1] /\ history'[i].class = key[2]}
<1>1. PICK n \in Nat : n = Len(history)
  OBVIOUS
<1>2. /\ Since(key) \subseteq 1..n /\ history'[n + 1] = e
      /\ \A i \in 1..n : history'[i] = history[i]
  BY <1>1 DEF Since
<1>3. Repeats(key) = Cardinality(Same) /\ Repeats(key)' = Cardinality(Next1)
  BY DEF Repeats
<1>4. IsFiniteSet(Same) /\ Cardinality(Same) \in Nat
  <2>1. Same \subseteq 1..n
    BY <1>2
  <2>2. IsFiniteSet(1..n)
    BY FS_Interval
  <2>3. QED
    BY <2>1, <2>2, FS_Subset, FS_CardinalityType
<1>5. ASSUME Settles(e, key) PROVE Repeats(key)' = 0
  <2>1. Next1 = {}
    BY <1>5, SinceGrows
  <2>2. QED
    BY <1>3, <2>1, FS_EmptySet
<1>6. ASSUME ~Settles(e, key) PROVE Since(key)' = Since(key) \cup {n + 1}
  BY <1>1, <1>6, SinceGrows
<1>7. n + 1 \notin Since(key)
  BY <1>2
<1>8. ASSUME ~Settles(e, key), e.tool = key[1] /\ e.class = key[2]
      PROVE  Repeats(key)' = Repeats(key) + 1
  <2>1. Next1 = Same \cup {n + 1}
    BY <1>2, <1>6, <1>8
  <2>2. n + 1 \notin Same
    BY <1>7
  <2>3. QED
    BY <1>3, <1>4, <2>1, <2>2, FS_AddElement
<1>9. ASSUME ~Settles(e, key), ~(e.tool = key[1] /\ e.class = key[2])
      PROVE  Repeats(key)' = Repeats(key)
  <2>1. Next1 = Same
    BY <1>2, <1>6, <1>9
  <2>2. QED
    BY <1>3, <2>1
<1>10. QED
  BY <1>3, <1>4, <1>5, <1>8, <1>9

(* The ledger of a failure knows one repetition more, and the others what  *)
(* they knew.                                                              *)
LEMMA FailureAgrees ==
    ASSUME history \in Seq(Outcomes), ledger \in [ToolNames \X Classes -> LedgerStates], LedgerAgrees,
           NEW tool \in ToolNames, NEW class \in Classes,
           history' = Append(history, [tool |-> tool, class |-> class]),
           ledger' = RecordFailure(tool, class)
    PROVE  ledger' \in [ToolNames \X Classes -> LedgerStates] /\ LedgerAgrees'
<1>1. PICK e \in Outcomes : e = [tool |-> tool, class |-> class]
  BY DEF Outcomes
<1>2. class # "ok" /\ e.tool = tool /\ e.class = class /\ history' = Append(history, e)
  BY <1>1 DEF Classes
<1>3. PICK k \in ToolNames \X Classes : k = <<tool, class>>
  OBVIOUS
<1>4. k[1] = tool /\ k[2] = class
  BY <1>3
<1>5. PICK old \in LedgerStates : old = ledger[k]
  OBVIOUS
<1>6. /\ old.status = "unresolved" <=> Repeats(k) > 0
      /\ old.status = "unresolved" => old.count = Repeats(k)
  BY <1>5 DEF LedgerAgrees
<1>7. \A key \in ToolNames \X Classes : ~Settles(e, key)
  BY <1>2 DEF Settles
<1>8. Repeats(k) \in Nat /\ Repeats(k)' = Repeats(k) + 1
  BY <1>2, <1>4, <1>7, RepeatsCount
<1>9. (IF old.status = "unresolved" THEN old.count + 1 ELSE 1) = Repeats(k) + 1
  BY <1>6, <1>8
<1>10. PICK c \in Nat : c = Repeats(k) + 1
  BY <1>8
<1>11. PICK s \in BOOLEAN : s = (Blocking(class) /\ c >= 2)
  BY <1>10
<1>12. ledger' = [ledger EXCEPT ![k] = [status |-> "unresolved", count |-> c, stuck |-> s]]
  BY <1>3, <1>5, <1>9, <1>10, <1>11 DEF RecordFailure
<1>13. PICK new \in LedgerStates : new = [status |-> "unresolved", count |-> c, stuck |-> s]
  BY DEF LedgerStates
<1>14. /\ ledger' \in [ToolNames \X Classes -> LedgerStates] /\ ledger'[k] = new
       /\ \A key \in ToolNames \X Classes : key # k => ledger'[key] = ledger[key]
  BY <1>12, <1>13
<1>15. ASSUME NEW key \in ToolNames \X Classes
       PROVE  /\ (ledger'[key].status = "unresolved") <=> (Repeats(key)' > 0)
              /\ ledger'[key].status = "unresolved" => ledger'[key].count = Repeats(key)'
              /\ ledger'[key].stuck => ledger'[key].count >= 2
  <2>1. CASE key = k
    <3>1. new.status = "unresolved" /\ new.count = c /\ (new.stuck => c >= 2)
      BY <1>11, <1>13
    <3>2. Repeats(key)' = c /\ c > 0
      BY <1>8, <1>10, <2>1
    <3>3. QED
      BY <1>14, <2>1, <3>1, <3>2
  <2>2. CASE key # k
    <3>1. ~(e.tool = key[1] /\ e.class = key[2])
      BY <1>2, <1>3, <2>2
    <3>2. Repeats(key)' = Repeats(key)
      BY <1>2, <1>7, <3>1, RepeatsCount
    <3>3. ledger'[key] = ledger[key]
      BY <1>14, <2>2
    <3>4. QED
      BY <3>2, <3>3 DEF LedgerAgrees
  <2>3. QED
    BY <2>1, <2>2
<1>16. DOMAIN ledger' = ToolNames \X Classes
  BY <1>14
<1>17. QED
  BY <1>14, <1>15, <1>16 DEF LedgerAgrees

(* A success settles the failures of its Tool, and those of a path that is *)
(* written; the others stay.                                               *)
LEMMA SuccessAgrees ==
    ASSUME history \in Seq(Outcomes), ledger \in [ToolNames \X Classes -> LedgerStates], LedgerAgrees,
           NEW tool \in ToolNames,
           history' = Append(history, [tool |-> tool, class |-> "ok"]),
           ledger' = RecordSuccess(tool)
    PROVE  ledger' \in [ToolNames \X Classes -> LedgerStates] /\ LedgerAgrees'
<1>1. PICK e \in Outcomes : e = [tool |-> tool, class |-> "ok"]
  BY DEF Outcomes
<1>2. e.tool = tool /\ e.class = "ok" /\ history' = Append(history, e)
  BY <1>1
<1>3. DOMAIN ledger' = ToolNames \X Classes
  BY DEF RecordSuccess
<1>4. ASSUME NEW key \in ToolNames \X Classes
      PROVE  /\ ledger'[key] \in LedgerStates
             /\ ledger'[key].count = ledger[key].count /\ ledger'[key].stuck = ledger[key].stuck
             /\ tool = "write" \/ tool = key[1] => ledger'[key].status # "unresolved"
             /\ ~(tool = "write" \/ tool = key[1]) => ledger'[key].status = ledger[key].status
  <2>1. PICK old \in LedgerStates : old = ledger[key]
    OBVIOUS
  <2>2. ledger'[key] = IF old.status # "unresolved" THEN old
                       ELSE IF tool = "write" THEN [old EXCEPT !.status = "stale"]
                       ELSE IF key[1] = tool THEN [old EXCEPT !.status = "resolved"] ELSE old
    BY <2>1 DEF RecordSuccess
  <2>3. QED
    BY <2>1, <2>2 DEF LedgerStates
<1>5. ASSUME NEW key \in ToolNames \X Classes
      PROVE  /\ (ledger'[key].status = "unresolved") <=> (Repeats(key)' > 0)
             /\ ledger'[key].status = "unresolved" => ledger'[key].count = Repeats(key)'
             /\ ledger'[key].stuck => ledger'[key].count >= 2
  <2>1. key[2] # "ok"
    BY DEF Classes
  <2>2. Settles(e, key) <=> (tool = "write" \/ tool = key[1])
    BY <1>2 DEF Settles
  <2>3. ~(e.tool = key[1] /\ e.class = key[2])
    BY <1>2, <2>1
  <2>4. Repeats(key)' = IF Settles(e, key) THEN 0 ELSE Repeats(key)
    BY <1>2, <2>3, RepeatsCount
  <2>5. CASE Settles(e, key)
    BY <1>4, <2>2, <2>4, <2>5 DEF LedgerAgrees
  <2>6. CASE ~Settles(e, key)
    BY <1>4, <2>2, <2>4, <2>6 DEF LedgerAgrees
  <2>7. QED
    BY <2>5, <2>6
<1>6. ledger' \in [ToolNames \X Classes -> LedgerStates]
  <2>1. ledger' = [key \in ToolNames \X Classes |-> ledger'[key]]
    BY DEF RecordSuccess
  <2>2. QED
    BY <1>4, <2>1
<1>7. QED
  BY <1>3, <1>5, <1>6 DEF LedgerAgrees

-----------------------------------------------------------------------------
(* The steps of a Turn *)

(* A policy point is entered.                                              *)
LEMMA EnterPointAllowed ==
    ASSUME PoliciesInv, EnterPoint PROVE PoliciesInv'
<1> USE DEF PoliciesInv
<1>1. PICK where \in Points : where = PointOf(turn)
  BY DEF EnterPoint, PoliciesTyped, PointOf, Phases, Points
<1>2. "at" \in DOMAIN point' /\ point'.at = where
  BY <1>1 DEF EnterPoint, NoPoint
<1>3. UNCHANGED <<setup, closed, turn, cancelled, deferring, queuedContext, used, call, ledger,
                  history, task, taskGate>>
  BY DEF EnterPoint, CallStays, TasksStay, RestStays
<1>4. PoliciesTyped'
  BY <1>1, <1>2, <1>3 DEF PoliciesTyped
<1>5. CallKnows'
  BY DEF PoliciesTyped, CallKnows, EffectsRecorded, DenialsHold, OutcomeTold, EnterPoint,
     CallStays, TasksStay, RestStays
<1>6. LedgerAgrees'
  BY DEF LedgerAgrees, Repeats, Since, EnterPoint, CallStays, TasksStay, RestStays
<1>7. GateFenced'
  BY DEF PoliciesTyped, GateFenced, Selected, EnterPoint, CallStays, TasksStay, RestStays
<1> QED BY <1>4, <1>5, <1>6, <1>7

(* A hook's command returns.                                               *)
LEMMA RunHookAllowed ==
    ASSUME PoliciesInv, RunHook PROVE PoliciesInv'
<1> USE DEF PoliciesInv
<1>1. PoliciesTyped'
  BY NoPolicyPoint DEF PoliciesTyped, RunHook, CallStays, TasksStay, RestStays, Phases, Points
<1>2. CallKnows'
  BY DEF PoliciesTyped, CallKnows, EffectsRecorded, DenialsHold, OutcomeTold, RunHook,
     CallStays, TasksStay, RestStays
<1>3. LedgerAgrees'
  BY DEF LedgerAgrees, Repeats, Since, RunHook, CallStays, TasksStay, RestStays
<1>4. GateFenced'
  BY DEF PoliciesTyped, GateFenced, Selected, RunHook, CallStays, TasksStay, RestStays
<1> QED BY <1>1, <1>2, <1>3, <1>4

(* The Turn starts.                                                        *)
LEMMA OpensAllowed ==
    ASSUME PoliciesInv, Opens PROVE PoliciesInv'
<1> USE DEF PoliciesInv
<1>1. PoliciesTyped'
  BY NoPolicyPoint DEF PoliciesTyped, Opens, GoesTo, CallStays, TasksStay, RestStays, Phases,
     Points
<1>2. CallKnows'
  BY DEF PoliciesTyped, CallKnows, EffectsRecorded, DenialsHold, OutcomeTold, Opens, GoesTo,
     CallStays, TasksStay, RestStays
<1>3. LedgerAgrees'
  BY DEF LedgerAgrees, Repeats, Since, Opens, GoesTo, CallStays, TasksStay, RestStays
<1>4. GateFenced'
  BY DEF PoliciesTyped, GateFenced, Selected, Opens, GoesTo, CallStays, TasksStay, RestStays
<1> QED BY <1>1, <1>2, <1>3, <1>4

(* The start of the Thread is decided.                                     *)
LEMMA StartDecidedAllowed ==
    ASSUME PoliciesInv, StartDecided PROVE PoliciesInv'
<1> USE DEF PoliciesInv
<1>1. turn = "starting" /\ "at" \in DOMAIN point' /\ point'.at = "none"
  BY PolicyPhase DEF StartDecided, Points
<1>2. PoliciesTyped'
  BY <1>1 DEF PoliciesTyped, StartDecided, GoesTo, CallStays, TasksStay, Queues, Phases, Points,
     Durable
<1>3. CallKnows'
  BY <1>1 DEF PoliciesTyped, CallKnows, EffectsRecorded, DenialsHold, OutcomeTold, StartDecided,
     GoesTo, CallStays, TasksStay, Queues
<1>4. LedgerAgrees'
  BY DEF LedgerAgrees, Repeats, Since, StartDecided, GoesTo, CallStays, TasksStay, Queues
<1>5. GateFenced'
  BY <1>1 DEF PoliciesTyped, GateFenced, Selected, StartDecided, GoesTo, CallStays, TasksStay,
     Queues
<1> QED BY <1>2, <1>3, <1>4, <1>5

(* The Turn's input is decided.                                            *)
LEMMA InputDecidedAllowed ==
    ASSUME PoliciesInv, InputDecided PROVE PoliciesInv'
<1> USE DEF PoliciesInv
<1>1. turn = "input" /\ "at" \in DOMAIN point' /\ point'.at = "none"
  BY PolicyPhase DEF InputDecided, Points
<1>2. PoliciesTyped'
  BY <1>1 DEF PoliciesTyped, InputDecided, GoesTo, CallStays, TasksStay, RestStays, Phases, Points
<1>3. CallKnows'
  BY <1>1 DEF PoliciesTyped, CallKnows, EffectsRecorded, DenialsHold, OutcomeTold, InputDecided,
     GoesTo, CallStays, TasksStay, RestStays
<1>4. LedgerAgrees'
  BY DEF LedgerAgrees, Repeats, Since, InputDecided, GoesTo, CallStays, TasksStay, RestStays
<1>5. GateFenced'
  BY <1>1 DEF PoliciesTyped, GateFenced, Selected, InputDecided, GoesTo, CallStays, TasksStay,
     RestStays
<1> QED BY <1>2, <1>3, <1>4, <1>5

(* A compaction begins.                                                    *)
LEMMA BeginCompactionAllowed ==
    ASSUME PoliciesInv, BeginCompaction PROVE PoliciesInv'
<1> USE DEF PoliciesInv
<1>1. PoliciesTyped'
  <2>1. used' \in UsedCounts
    BY DEF PoliciesTyped, BeginCompaction, UsedCounts
  <2>2. QED
    BY <2>1, NoPolicyPoint DEF PoliciesTyped, BeginCompaction, GoesTo, CallStays, TasksStay,
       Phases
<1>2. CallKnows'
  BY DEF PoliciesTyped, CallKnows, EffectsRecorded, DenialsHold, OutcomeTold, BeginCompaction,
     GoesTo, CallStays, TasksStay
<1>3. LedgerAgrees'
  BY DEF LedgerAgrees, Repeats, Since, BeginCompaction, GoesTo, CallStays, TasksStay
<1>4. GateFenced'
  BY DEF PoliciesTyped, GateFenced, Selected, BeginCompaction, GoesTo, CallStays, TasksStay
<1> QED BY <1>1, <1>2, <1>3, <1>4

(* A compaction is decided.                                                *)
LEMMA CompactDecidedAllowed ==
    ASSUME PoliciesInv, CompactDecided PROVE PoliciesInv'
<1> USE DEF PoliciesInv
<1>1. turn = "compact" /\ "at" \in DOMAIN point' /\ point'.at = "none"
  BY PolicyPhase DEF CompactDecided, Points
<1>2. PoliciesTyped'
  BY <1>1 DEF PoliciesTyped, CompactDecided, GoesTo, CallStays, TasksStay, RestStays, Phases,
     Points
<1>3. CallKnows'
  BY <1>1 DEF PoliciesTyped, CallKnows, EffectsRecorded, DenialsHold, OutcomeTold,
     CompactDecided, GoesTo, CallStays, TasksStay, RestStays
<1>4. LedgerAgrees'
  BY DEF LedgerAgrees, Repeats, Since, CompactDecided, GoesTo, CallStays, TasksStay, RestStays
<1>5. GateFenced'
  BY <1>1 DEF PoliciesTyped, GateFenced, Selected, CompactDecided, GoesTo, CallStays, TasksStay,
     RestStays
<1> QED BY <1>2, <1>3, <1>4, <1>5

(* What follows a compaction is decided.                                   *)
LEMMA CompactedDecidedAllowed ==
    ASSUME PoliciesInv, CompactedDecided PROVE PoliciesInv'
<1> USE DEF PoliciesInv
<1>1. turn = "compacted" /\ "at" \in DOMAIN point' /\ point'.at = "none"
  BY PolicyPhase DEF CompactedDecided, Points
<1>2. PoliciesTyped'
  BY <1>1 DEF PoliciesTyped, CompactedDecided, GoesTo, CallStays, TasksStay, Queues, Phases,
     Points, Durable
<1>3. CallKnows'
  BY <1>1 DEF PoliciesTyped, CallKnows, EffectsRecorded, DenialsHold, OutcomeTold,
     CompactedDecided, GoesTo, CallStays, TasksStay, Queues
<1>4. LedgerAgrees'
  BY DEF LedgerAgrees, Repeats, Since, CompactedDecided, GoesTo, CallStays, TasksStay, Queues
<1>5. GateFenced'
  BY <1>1 DEF PoliciesTyped, GateFenced, Selected, CompactedDecided, GoesTo, CallStays,
     TasksStay, Queues
<1> QED BY <1>2, <1>3, <1>4, <1>5

(* A Tool call is recorded as running.                                     *)
LEMMA RunToolAllowed ==
    ASSUME PoliciesInv, RunTool PROVE PoliciesInv'
<1> USE DEF PoliciesInv
<1>1. /\ turn = "ask" /\ UNCHANGED <<setup, closed, cancelled, deferring, queuedContext, used, ledger,
                                    history, task, taskGate, point>>
  BY DEF RunTool, TasksStay, RestStays
<1>2. ASSUME turn' = "before", call' \in CallStates, call'.tool \in ToolNames, call'.ran = {},
             call'.input = 1, call'.recorded = 1, ~call'.refused, ~call'.objected, ~call'.replaced
      PROVE  PoliciesTyped' /\ CallKnows'
  <2>1. PoliciesTyped'
    BY <1>1, <1>2, NoPolicyPoint DEF PoliciesTyped, Phases
  <2>2. CallKnows'
    BY <1>2 DEF CallKnows, EffectsRecorded, DenialsHold, OutcomeTold
  <2>3. QED
    BY <2>1, <2>2
<1>3. ASSUME turn' = "failed", call' = NoCall
      PROVE  PoliciesTyped' /\ CallKnows'
  <2>1. PoliciesTyped'
    BY <1>1, <1>3, NoPolicyPoint, NoCallKnown DEF PoliciesTyped, Phases
  <2>2. CallKnows'
    BY <1>3, NoCallKnown DEF CallKnows, EffectsRecorded, DenialsHold, OutcomeTold
  <2>3. QED
    BY <2>1, <2>2
<1>4. PoliciesTyped' /\ CallKnows'
  <2>1. ASSUME NEW tool \in ToolNames, GoesTo("before"),
               call' = [NoCall EXCEPT !.tool = tool, !.input = 1, !.recorded = 1]
        PROVE  PoliciesTyped' /\ CallKnows'
    BY <1>2, <2>1, CallBegins DEF GoesTo
  <2>2. QED
    BY <1>3, <2>1 DEF RunTool, GoesTo
<1>5. PoliciesTyped'
  BY <1>4
<1>6. CallKnows'
  BY <1>4
<1>7. LedgerAgrees'
  BY DEF LedgerAgrees, Repeats, Since, RunTool, GoesTo, TasksStay, RestStays
<1>8. GateFenced'
  BY DEF PoliciesTyped, GateFenced, Selected, RunTool, GoesTo, TasksStay, RestStays
<1> QED BY <1>5, <1>6, <1>7, <1>8

(* A call is decided before it runs.                                       *)
LEMMA BeforeDecidedAllowed ==
    ASSUME PoliciesInv, BeforeDecided PROVE PoliciesInv'
<1> USE DEF PoliciesInv
<1>1. turn = "before" /\ "at" \in DOMAIN point' /\ point'.at = "none"
  BY PolicyPhase DEF BeforeDecided, Points
<1>2. UNCHANGED <<setup, closed, cancelled, deferring, queuedContext, used, ledger, history, task,
                  taskGate>>
  BY DEF BeforeDecided, TasksStay, RestStays
<1>3. /\ call \in CallStates /\ call.tool \in ToolNames /\ call.ran = {} /\ call.input = call.recorded
      /\ call.input # 0 /\ ~call.refused /\ ~call.objected /\ ~call.replaced
  BY PolicyPhase DEF PoliciesTyped, CallKnows, BeforeDecided, Points
<1>4. ASSUME NEW verdict, DecideBefore(verdict)
      PROVE  /\ turn' \in {"run", "failed", "record"} /\ call' \in CallStates
             /\ turn' = "run" => /\ call'.tool \in ToolNames /\ call'.ran = {}
                                 /\ call'.input = call'.recorded /\ call'.input # 0
                                 /\ ~call'.refused /\ ~call'.objected /\ ~call'.replaced
             /\ turn' = "record" => /\ call'.tool \in ToolNames /\ call'.error
                                    /\ call'.class \in Classes /\ call'.outcome # "ok"
             /\ call'.ran = {}
  <2>1. CASE verdict = "transform"
    BY <1>3, <1>4, <2>1, CallTransformed DEF DecideBefore, Resolved, GoesTo
  <2>2. CASE verdict \in {"allow", "checkpoint"}
    BY <1>3, <1>4, <2>2 DEF DecideBefore, GoesTo
  <2>3. CASE verdict \notin {"transform", "allow", "checkpoint"}
    BY <1>3, <1>4, <2>3, CallRefused DEF DecideBefore, GoesTo, Classes
  <2>4. QED
    BY <2>1, <2>2, <2>3
<1>5. PICK verdict : DecideBefore(verdict)
  BY DEF BeforeDecided
<1>6. PoliciesTyped'
  BY <1>1, <1>2, <1>4, <1>5 DEF PoliciesTyped, Phases
<1>7. CallKnows'
  BY <1>4, <1>5 DEF CallKnows, EffectsRecorded, DenialsHold, OutcomeTold
<1>8. LedgerAgrees'
  BY <1>2 DEF LedgerAgrees, Repeats, Since
<1>9. GateFenced'
  <2>1. turn' \in {"run", "failed", "record"}
    BY <1>4, <1>5
  <2>2. QED
    BY <1>2, <2>1 DEF GateFenced
<1> QED BY <1>6, <1>7, <1>8, <1>9

(* The registry answers or runs the Tool.                                  *)
LEMMA InvokeAllowed ==
    ASSUME PoliciesInv, Invoke PROVE PoliciesInv'
<1> USE DEF PoliciesInv
<1>1. /\ turn = "run" /\ turn' = "after"
      /\ UNCHANGED <<setup, closed, cancelled, deferring, queuedContext, used, ledger, history, task,
                     taskGate, point>>
  BY DEF Invoke, TasksStay, RestStays, GoesTo
<1>2. /\ call \in CallStates /\ call.tool \in ToolNames /\ call.ran = {} /\ call.input = call.recorded
      /\ call.input # 0 /\ ~call.refused /\ ~call.objected /\ ~call.replaced
  BY <1>1 DEF PoliciesTyped, CallKnows
<1>3. /\ call' \in CallStates /\ call'.tool = call.tool /\ call'.recorded = call.recorded
      /\ ~call'.refused /\ ~call'.objected /\ ~call'.replaced
      /\ call'.ran \subseteq {call.recorded} /\ (call'.ran # {} => call'.raw)
      /\ (call'.error => call'.class \in Classes) /\ (call'.error <=> call'.outcome # "ok")
  <2>1. ASSUME NEW class \in Classes,
               call' = [call EXCEPT !.outcome = "refused", !.error = TRUE, !.class = class]
        PROVE  /\ call' \in CallStates /\ call'.tool = call.tool /\ call'.recorded = call.recorded
               /\ ~call'.refused /\ ~call'.objected /\ ~call'.replaced
               /\ call'.ran \subseteq {call.recorded} /\ (call'.ran # {} => call'.raw)
               /\ (call'.error => call'.class \in Classes) /\ (call'.error <=> call'.outcome # "ok")
    BY <1>2, <2>1, CallAnswered
  <2>2. CASE call' = [call EXCEPT !.outcome = "refused", !.error = TRUE, !.class = "fatal"]
    BY <2>1, <2>2 DEF Classes
  <2>3. CASE call' = [call EXCEPT !.outcome = "refused", !.error = TRUE, !.class = "recoverable"]
    BY <2>1, <2>3 DEF Classes
  <2>4. ASSUME NEW h \in Handled,
               call' = [call EXCEPT !.ran = {call.input}, !.raw = TRUE,
                                    !.error = CallError(call.tool, h) # "ok",
                                    !.class = CallError(call.tool, h),
                                    !.outcome = IF CallError(call.tool, h) = "ok" THEN "ok" ELSE "bad"]
        PROVE  /\ call' \in CallStates /\ call'.tool = call.tool /\ call'.recorded = call.recorded
               /\ ~call'.refused /\ ~call'.objected /\ ~call'.replaced
               /\ call'.ran \subseteq {call.recorded} /\ (call'.ran # {} => call'.raw)
               /\ (call'.error => call'.class \in Classes) /\ (call'.error <=> call'.outcome # "ok")
    <3>1. CallError(call.tool, h) \in Classes \cup {"ok"}
      BY DEF CallError, Classes
    <3>2. PICK error \in Classes \cup {"ok"} : error = CallError(call.tool, h)
      BY <3>1
    <3>3. PICK fails \in BOOLEAN : fails = (error # "ok")
      OBVIOUS
    <3>4. PICK outcome \in {"ok", "bad"} : outcome = IF error = "ok" THEN "ok" ELSE "bad"
      OBVIOUS
    <3>5. call' = [call EXCEPT !.ran = {call.input}, !.raw = TRUE, !.error = fails, !.class = error,
                               !.outcome = outcome]
      BY <2>4, <3>2, <3>3, <3>4
    <3>6. QED
      BY <1>2, <3>3, <3>4, <3>5, CallRuns
  <2>5. QED
    BY <2>2, <2>3, <2>4 DEF Invoke
<1>4. PoliciesTyped'
  BY <1>1, <1>3, NoPolicyPoint DEF PoliciesTyped, Phases
<1>5. CallKnows'
  BY <1>1, <1>2, <1>3 DEF CallKnows, EffectsRecorded, DenialsHold, OutcomeTold
<1>6. LedgerAgrees'
  BY <1>1 DEF LedgerAgrees, Repeats, Since
<1>7. GateFenced'
  BY <1>1 DEF GateFenced, Selected
<1> QED BY <1>4, <1>5, <1>6, <1>7

(* A call is decided after it ran.                                         *)
LEMMA AfterDecidedAllowed ==
    ASSUME PoliciesInv, AfterDecided PROVE PoliciesInv'
<1> USE DEF PoliciesInv
<1>1. turn = "after" /\ "at" \in DOMAIN point' /\ point'.at = "none"
  BY PolicyPhase DEF AfterDecided, Points
<1>2. UNCHANGED <<setup, closed, cancelled, deferring, queuedContext, used, ledger, history, task,
                  taskGate>>
  BY DEF AfterDecided, TasksStay, RestStays
<1>3. /\ call \in CallStates /\ call.tool \in ToolNames /\ call.ran \subseteq {call.recorded}
      /\ ~call.refused /\ ~call.objected /\ ~call.replaced
      /\ (call.ran # {} => call.raw) /\ (call.error => call.class \in Classes)
      /\ (call.error <=> call.outcome # "ok")
  BY <1>1 DEF PoliciesTyped, CallKnows, EffectsRecorded
<1> DEFINE Verdict(answer) == RuntimeAnswer(IF closed THEN "error" ELSE answer)
<1>4. PICK answer \in RuntimeVerdicts, bad \in BOOLEAN :
         LET replaced == Verdict(answer) = "transform"
             failed == Verdict(answer) \notin {"allow", "transform", "checkpoint"}
         IN /\ call' = [call EXCEPT !.replaced = replaced, !.raw = @ /\ ~replaced,
                           !.error = failed \/ (IF replaced THEN bad ELSE @),
                           !.class = IF failed THEN "recoverable"
                                     ELSE IF replaced THEN (IF bad THEN "recoverable" ELSE "ok") ELSE @,
                           !.objected = failed]
            /\ GoesTo(IF Verdict(answer) = "checkpoint" THEN "failed" ELSE "record")
  BY Zenon DEF AfterDecided
<1>5. PICK verdict : verdict = Verdict(answer)
  OBVIOUS
<1> HIDE DEF Verdict
<1>6. LET replaced == verdict = "transform"
          failed == verdict \notin {"allow", "transform", "checkpoint"}
      IN    /\ call' = [call EXCEPT !.replaced = replaced, !.raw = @ /\ ~replaced,
                           !.error = failed \/ (IF replaced THEN bad ELSE @),
                           !.class = IF failed THEN "recoverable"
                                     ELSE IF replaced THEN (IF bad THEN "recoverable" ELSE "ok") ELSE @,
                           !.objected = failed]
            /\ GoesTo(IF verdict = "checkpoint" THEN "failed" ELSE "record")
  BY <1>4, <1>5
<1>7. turn' \in {"failed", "record"}
  BY <1>6 DEF GoesTo
<1>8. PICK replaced \in BOOLEAN : replaced = (verdict = "transform")
  OBVIOUS
<1>9. PICK failed \in BOOLEAN : failed = (verdict \notin {"allow", "transform", "checkpoint"})
  OBVIOUS
<1>10. call.raw \in BOOLEAN /\ call.error \in BOOLEAN /\ call.class \in Classes \cup {"none", "ok"}
  BY <1>3 DEF CallStates
<1>11. PICK raw \in BOOLEAN : raw = (call.raw /\ ~replaced)
  OBVIOUS
<1>12. PICK error \in BOOLEAN : error = (failed \/ (IF replaced THEN bad ELSE call.error))
  BY <1>10
<1>13. PICK class \in Classes \cup {"none", "ok"} :
          class = IF failed THEN "recoverable"
                  ELSE IF replaced THEN (IF bad THEN "recoverable" ELSE "ok") ELSE call.class
  BY <1>10 DEF Classes
<1>14. call' = [call EXCEPT !.replaced = replaced, !.raw = raw, !.error = error, !.class = class,
                            !.objected = failed]
  BY <1>6, <1>8, <1>9, <1>11, <1>12, <1>13
<1>15. /\ call' \in CallStates /\ call'.tool = call.tool /\ call'.ran = call.ran
       /\ call'.recorded = call.recorded /\ call'.refused = call.refused
       /\ call'.outcome = call.outcome /\ call'.objected = failed
       /\ call'.replaced = replaced /\ call'.raw = raw
       /\ call'.error = error /\ call'.class = class
  <2>1. call' = [tool |-> call.tool, input |-> call.input, recorded |-> call.recorded,
                 ran |-> call.ran, refused |-> call.refused, objected |-> failed,
                 outcome |-> call.outcome, error |-> error, raw |-> raw, replaced |-> replaced,
                 class |-> class]
    BY <1>3, <1>14 DEF CallStates
  <2>2. call' \in CallStates
    BY <1>3, <2>1 DEF CallStates
  <2>3. QED
    BY <2>1, <2>2
<1>16. error => class \in Classes
  BY <1>3, <1>12, <1>13 DEF Classes
<1>17. ~error /\ ~replaced => call.outcome = "ok" /\ ~failed
  BY <1>3, <1>12
<1>18. error /\ ~replaced /\ ~failed => call.outcome # "ok"
  BY <1>3, <1>12
<1>19. PoliciesTyped'
  BY <1>1, <1>2, <1>7, <1>15 DEF PoliciesTyped, Phases
<1>20. CallKnows'
  BY <1>3, <1>7, <1>11, <1>15, <1>16, <1>17, <1>18
     DEF CallKnows, EffectsRecorded, DenialsHold, OutcomeTold
<1>21. LedgerAgrees'
  BY <1>2 DEF LedgerAgrees, Repeats, Since
<1>22. GateFenced'
  BY <1>2, <1>7 DEF GateFenced, Selected
<1> QED BY <1>19, <1>20, <1>21, <1>22

(* The outcome of a call is recorded.                                      *)
LEMMA RecordOutcomeAllowed ==
    ASSUME PoliciesInv, RecordOutcome PROVE PoliciesInv'
<1> USE DEF PoliciesInv
<1>1. /\ turn = "record" /\ turn' \in {"ask", "failed"} /\ call' = NoCall
      /\ UNCHANGED <<setup, closed, cancelled, deferring, queuedContext, used, task, taskGate, point>>
  BY DEF RecordOutcome, TasksStay, RestStays, GoesTo
<1>2. /\ call \in CallStates /\ call.tool \in ToolNames /\ (call.error => call.class \in Classes)
      /\ history \in Seq(Outcomes) /\ ledger \in [ToolNames \X Classes -> LedgerStates]
  BY <1>1 DEF PoliciesTyped, CallKnows
<1>3. ASSUME UNCHANGED <<ledger, history>>
      PROVE  /\ ledger' \in [ToolNames \X Classes -> LedgerStates] /\ history' \in Seq(Outcomes)
             /\ LedgerAgrees'
  BY <1>2, <1>3 DEF LedgerAgrees, Repeats, Since
<1>4. ASSUME ledger' = IF call.error THEN RecordFailure(call.tool, call.class)
                                     ELSE RecordSuccess(call.tool),
             history' = Append(history, [tool |-> call.tool,
                                         class |-> IF call.error THEN call.class ELSE "ok"])
      PROVE  /\ ledger' \in [ToolNames \X Classes -> LedgerStates] /\ history' \in Seq(Outcomes)
             /\ LedgerAgrees'
  <2>1. /\ ledger' \in [ToolNames \X Classes -> LedgerStates] /\ LedgerAgrees'
    <3>1. CASE call.error
      BY <1>2, <1>4, <3>1, FailureAgrees
    <3>2. CASE ~call.error
      BY <1>2, <1>4, <3>2, SuccessAgrees
    <3>3. QED
      BY <3>1, <3>2
  <2>2. PICK e \in Outcomes : e = [tool |-> call.tool, class |-> IF call.error THEN call.class ELSE "ok"]
    <3>1. (IF call.error THEN call.class ELSE "ok") \in Classes \cup {"ok"}
      BY <1>2
    <3>2. QED
      BY <1>2, <3>1 DEF Outcomes
  <2>3. history' \in Seq(Outcomes)
    BY <1>2, <1>4, <2>2
  <2>4. QED
    BY <2>1, <2>3
<1>5. /\ ledger' \in [ToolNames \X Classes -> LedgerStates] /\ history' \in Seq(Outcomes)
      /\ LedgerAgrees'
  BY <1>3, <1>4 DEF RecordOutcome
<1>6. PoliciesTyped'
  BY <1>1, <1>5, NoPolicyPoint, NoCallKnown DEF PoliciesTyped, Phases
<1>7. CallKnows'
  BY <1>1, NoCallKnown DEF CallKnows, EffectsRecorded, DenialsHold, OutcomeTold
<1>8. LedgerAgrees'
  BY <1>5
<1>9. GateFenced'
  BY <1>1 DEF GateFenced, Selected
<1> QED BY <1>6, <1>7, <1>8, <1>9

(* A task is edited.                                                       *)
LEMMA EditTaskAllowed ==
    ASSUME PoliciesInv, EditTask PROVE PoliciesInv'
<1> USE DEF PoliciesInv
<1>1. /\ turn = "ask" /\ used \in UsedCounts /\ task \in TaskStates
      /\ UNCHANGED <<setup, closed, turn, cancelled, deferring, queuedContext, call, ledger, history,
                     taskGate, point>>
  BY DEF EditTask, CallStays, PoliciesTyped
<1>2. task' \in TaskStates /\ task'.count = task.count /\ task'.rev > task.rev
  <2>1. PICK status \in {"todo", "doing", "done", "pending", "deleted"} :
           task' = [task EXCEPT !.status = status, !.rev = @ + 1]
    BY DEF EditTask
  <2>2. PICK r \in Nat : r = task.rev + 1
    BY <1>1 DEF TaskStates
  <2>3. task' = [task EXCEPT !.status = status, !.rev = r]
    BY <2>1, <2>2
  <2>4. task' \in TaskStates /\ task'.count = task.count /\ task'.rev = r
    BY <1>1, <2>3 DEF TaskStates
  <2>5. task.rev \in Nat
    BY <1>1 DEF TaskStates
  <2>6. QED
    BY <2>2, <2>4, <2>5
<1>3. used' \in UsedCounts
  <2>1. PICK n \in Nat : n = used.edits + 1
    BY <1>1 DEF UsedCounts
  <2>2. used' = [used EXCEPT !.edits = n]
    BY <2>1 DEF EditTask
  <2>3. QED
    BY <1>1, <2>2 DEF UsedCounts
<1>4. \A i \in DOMAIN taskGate.applied : taskGate.applied[i] \in Nat
  BY DEF PoliciesTyped, GateFields
<1>5. task.rev \in Nat /\ task'.rev \in Nat
  BY <1>1, <1>2 DEF TaskStates
<1>6. PoliciesTyped'
  BY <1>1, <1>2, <1>3 DEF PoliciesTyped
<1>7. CallKnows'
  BY <1>1 DEF CallKnows, EffectsRecorded, DenialsHold, OutcomeTold
<1>8. LedgerAgrees'
  BY <1>1 DEF LedgerAgrees, Repeats, Since
<1>9. GateFenced'
  BY <1>1, <1>2, <1>4, <1>5 DEF GateFenced
<1> QED BY <1>6, <1>7, <1>8, <1>9

(* The Turn tries to finish.                                               *)
LEMMA AttemptedAllowed ==
    ASSUME PoliciesInv, Attempted PROVE PoliciesInv'
<1> USE DEF PoliciesInv
<1>1. PoliciesTyped'
  <2>1. used' \in UsedCounts
    <3>1. PICK n \in Nat : n = used.finishes + 1
      BY DEF PoliciesTyped, UsedCounts
    <3>2. used' = [used EXCEPT !.finishes = n]
      BY <3>1 DEF Attempted
    <3>3. QED
      BY <3>2 DEF PoliciesTyped, UsedCounts
  <2>2. QED
    BY <2>1, NoPolicyPoint DEF PoliciesTyped, Attempted, GoesTo, CallStays, TasksStay, Phases
<1>2. CallKnows'
  BY DEF PoliciesTyped, CallKnows, EffectsRecorded, DenialsHold, OutcomeTold, Attempted, GoesTo,
     CallStays, TasksStay
<1>3. LedgerAgrees'
  BY DEF LedgerAgrees, Repeats, Since, Attempted, GoesTo, CallStays, TasksStay
<1>4. GateFenced'
  BY DEF PoliciesTyped, GateFenced, Selected, Attempted, GoesTo, CallStays, TasksStay
<1> QED BY <1>1, <1>2, <1>3, <1>4

(* The finish policies are evaluated.                                      *)
LEMMA FinishEvaluatedAllowed ==
    ASSUME PoliciesInv, FinishEvaluated PROVE PoliciesInv'
<1> USE DEF PoliciesInv
<1>1. turn = "finish" /\ "at" \in DOMAIN point' /\ point'.at = "none"
  BY PolicyPhase DEF FinishEvaluated, Points
<1>2. /\ turn' \in {"commit", "failed"} /\ queuedContext' \subseteq Durable
      /\ UNCHANGED <<setup, closed, cancelled, deferring, used, call, ledger, history, task>>
  BY DEF FinishEvaluated, PoliciesTyped, Queues, GoesTo, CallStays, Durable
<1>3. \/ turn' = "failed" /\ UNCHANGED taskGate
      \/ /\ turn' = "commit"
         /\ taskGate' = [taskGate EXCEPT !.candidates = TaskCandidate \o HookCandidate,
                                         !.open = TaskCandidate # <<>>]
  BY DEF FinishEvaluated, Queues, GoesTo
<1>4. task \in TaskStates /\ taskGate \in GateFields
  BY DEF PoliciesTyped
<1> DEFINE Candidate == [by : {"tasks", "hooks"}, task : TaskStates]
<1>5. [by |-> "tasks", task |-> task] \in Candidate /\ [by |-> "hooks", task |-> task] \in Candidate
  BY <1>4
<1> HIDE DEF Candidate
<1>6. HookCandidate \in Seq(Candidate)
  BY <1>5, QueueOfOne DEF HookCandidate
<1>7. TaskCandidate \in Seq(Candidate)
  BY <1>5, QueueOfOne DEF TaskCandidate
<1>8. PICK cs \in Seq(Candidate) : cs = TaskCandidate \o HookCandidate
  BY <1>6, <1>7, QueuesJoin
<1>9. TaskCandidate # <<>> => /\ cs # <<>> /\ Head(cs).by = "tasks" /\ Head(cs).task = task
                               /\ task.status \in Live /\ ~deferring
  <2>1. ASSUME TaskCandidate # <<>>
        PROVE  /\ TaskCandidate = <<[by |-> "tasks", task |-> task]>>
               /\ task.status \in Live /\ ~deferring
    BY <2>1 DEF TaskCandidate
  <2>2. Head(<<[by |-> "tasks", task |-> task]>>) = [by |-> "tasks", task |-> task]
    BY <1>5, QueueOfOne
  <2>3. TaskCandidate # <<>> => cs # <<>> /\ Head(cs) = Head(TaskCandidate)
    BY <1>6, <1>7, <1>8, QueuesJoin
  <2>4. QED
    BY <2>1, <2>2, <2>3
<1>10. PICK open \in BOOLEAN : open = (TaskCandidate # <<>>)
  OBVIOUS
<1>11. ASSUME turn' = "commit", taskGate' = [taskGate EXCEPT !.candidates = cs, !.open = open]
       PROVE  taskGate' \in GateFields /\ GateFenced'
  <2>1. /\ taskGate' \in GateFields /\ taskGate'.candidates = cs /\ taskGate'.open = open
        /\ taskGate'.applied = taskGate.applied /\ taskGate'.told = taskGate.told
    BY <1>4, <1>11 DEF GateFields, Candidate
  <2>2. Head(cs).task = task /\ task.status \in Live /\ ~deferring => Selected(Head(cs))'
    BY <1>2 DEF Selected
  <2>3. open => cs # <<>> /\ Head(cs).by = "tasks" /\ Selected(Head(cs))'
    BY <1>9, <1>10, <2>2
  <2>4. Selected(Head(taskGate.candidates))' <=> Selected(Head(cs))'
    BY <2>1 DEF Selected
  <2>5. taskGate' \in GateFields /\ GateFenced'
    BY <1>2, <1>11, <2>1, <2>3, <2>4 DEF GateFenced
  <2>6. QED
    BY <2>5
<1>12. taskGate' \in GateFields /\ GateFenced'
  <2>1. CASE turn' = "failed" /\ UNCHANGED taskGate
    BY <1>2, <1>4, <2>1 DEF GateFenced
  <2>2. QED
    BY <1>3, <1>8, <1>10, <1>11, <2>1
<1>13. PoliciesTyped'
  BY <1>1, <1>2, <1>12 DEF PoliciesTyped, Phases
<1>14. CallKnows'
  BY <1>2 DEF CallKnows, EffectsRecorded, DenialsHold, OutcomeTold
<1>15. LedgerAgrees'
  BY <1>2 DEF LedgerAgrees, Repeats, Since
<1>16. GateFenced'
  BY <1>12
<1> QED BY <1>13, <1>14, <1>15, <1>16

(* A continuation is committed.                                            *)
LEMMA CommitCandidateAllowed ==
    ASSUME PoliciesInv, CommitCandidate PROVE PoliciesInv'
<1> USE DEF PoliciesInv
<1>1. /\ turn = "commit" /\ turn' \in {"commit", "enqueue", "failed"} /\ taskGate.candidates # <<>>
      /\ UNCHANGED <<setup, closed, cancelled, deferring, queuedContext, used, call, ledger, history,
                     point>>
  BY DEF CommitCandidate, GoesTo, CallStays, RestStays
<1>2. task \in TaskStates /\ taskGate \in GateFields
  BY DEF PoliciesTyped
<1> DEFINE candidate == Head(taskGate.candidates)
           Candidate == [by : {"tasks", "hooks"}, task : TaskStates]
<1>3. taskGate.candidates \in Seq(Candidate)
  BY <1>2 DEF GateFields
<1>4. candidate \in Candidate /\ Tail(taskGate.candidates) \in Seq(Candidate)
  <2> HIDE DEF Candidate
  <2>1. QED
    BY <1>1, <1>3, QueueMoves
<1>5. PICK cs \in Seq(Candidate) : cs = Tail(taskGate.candidates)
  BY <1>4
<1>6. candidate.by \in {"tasks", "hooks"} /\ candidate.task \in TaskStates
  BY <1>4
<1>7. ASSUME turn' = "failed", UNCHANGED <<task, taskGate>>
      PROVE  task' \in TaskStates /\ taskGate' \in GateFields /\ GateFenced'
  BY <1>1, <1>2, <1>7 DEF GateFenced
<1>8. ASSUME candidate.by = "hooks", turn' = "enqueue", UNCHANGED task,
              taskGate' = [taskGate EXCEPT !.candidates = cs, !.by = "hooks"]
       PROVE  task' \in TaskStates /\ taskGate' \in GateFields /\ GateFenced'
  <2>1. /\ taskGate' \in GateFields /\ taskGate'.by = "hooks"
        /\ taskGate'.applied = taskGate.applied /\ taskGate'.told = taskGate.told
    BY <1>2, <1>8 DEF GateFields
  <2>2. QED
    BY <1>2, <1>8, <2>1 DEF GateFenced
<1>9. ASSUME ~Selected(candidate), UNCHANGED <<turn, task>>,
              taskGate' = [taskGate EXCEPT !.candidates = cs]
       PROVE  task' \in TaskStates /\ taskGate' \in GateFields /\ GateFenced'
  <2>1. /\ taskGate' \in GateFields /\ taskGate'.open = taskGate.open
        /\ taskGate'.applied = taskGate.applied /\ taskGate'.told = taskGate.told
    BY <1>2, <1>9 DEF GateFields
  <2>2. QED
    BY <1>1, <1>2, <1>9, <2>1 DEF GateFenced
<1>10. ASSUME Selected(candidate), turn' = "enqueue",
              task' = [task EXCEPT !.count = @ + 1, !.rev = @ + 1],
              taskGate' = [taskGate EXCEPT !.candidates = cs, !.by = "tasks",
                                           !.applied = Append(@, candidate.task.rev)]
       PROVE  task' \in TaskStates /\ taskGate' \in GateFields /\ GateFenced'
  <2>1. task.count \in Nat /\ task.rev \in Nat /\ taskGate.applied \in Seq(Nat) /\ taskGate.told \in Nat
    BY <1>2 DEF TaskStates, GateFields
  <2>2. PICK c \in Nat : c = task.count + 1
    BY <2>1
  <2>3. PICK r \in Nat : r = task.rev + 1
    BY <2>1
  <2>4. task' = [task EXCEPT !.count = c, !.rev = r]
    BY <1>10, <2>2, <2>3
  <2>5. task' \in TaskStates /\ task'.count = c /\ task'.rev = r
    BY <1>2, <2>4 DEF TaskStates
  <2>6. candidate.task.rev = task.rev
    BY <1>10 DEF Selected
  <2>7. PICK applied \in Seq(Nat) : applied = Append(taskGate.applied, task.rev)
    BY <2>1, QueueMoves
  <2>8. taskGate' = [taskGate EXCEPT !.candidates = cs, !.by = "tasks", !.applied = applied]
    BY <1>10, <2>6, <2>7
  <2>9. /\ taskGate' \in GateFields /\ taskGate'.by = "tasks"
        /\ taskGate'.applied = applied /\ taskGate'.told = taskGate.told
    BY <1>2, <2>8 DEF GateFields
  <2>10. PICK n \in Nat : n = Len(taskGate.applied)
    BY <2>1
  <2>11. /\ Len(applied) = n + 1 /\ DOMAIN applied = 1..(n + 1) /\ DOMAIN taskGate.applied = 1..n
         /\ applied[n + 1] = task.rev /\ \A i \in 1..n : applied[i] = taskGate.applied[i]
    BY <2>1, <2>7, <2>10
  <2>12. /\ n = task.count /\ taskGate.told <= n
         /\ \A i \in 1..n : taskGate.applied[i] < task.rev
         /\ \A i, j \in 1..n : i # j => taskGate.applied[i] # taskGate.applied[j]
    BY <2>10, <2>11 DEF GateFenced
  <2>13. \A i \in 1..n : taskGate.applied[i] \in Nat
    BY SMTT(30), <2>1, <2>11
  <2>14. \A i \in 1..(n + 1) : i = n + 1 \/ i \in 1..n
    OBVIOUS
  <2>15. \A i \in 1..(n + 1) : applied[i] < r
    <3>1. \A x \in Nat : x < task.rev \/ x = task.rev => x < r
      BY <2>1, <2>3
    <3>2. \A i \in 1..n : applied[i] \in Nat /\ applied[i] < task.rev
      BY <2>11, <2>12, <2>13
    <3>3. QED
      BY <2>1, <2>11, <2>14, <3>1, <3>2
  <2>16. \A i, j \in 1..(n + 1) : i # j => applied[i] # applied[j]
    <3>1. \A i \in 1..n : applied[i] \in Nat /\ applied[i] < task.rev
      BY <2>11, <2>12, <2>13
    <3>2. \A i \in 1..n : applied[i] # task.rev
      BY <2>1, <3>1
    <3>3. \A i, j \in 1..n : i # j => applied[i] # applied[j]
      BY <2>11, <2>12
    <3>4. QED
      BY <2>11, <2>14, <3>2, <3>3
  <2>17. Len(applied) = c /\ taskGate.told < c
    BY <2>1, <2>2, <2>11, <2>12
  <2>18. GateFenced'
    <3>1. Len(taskGate'.applied) = task'.count /\ taskGate'.told < task'.count
      BY <2>5, <2>9, <2>17
    <3>2. \A i \in DOMAIN taskGate'.applied : taskGate'.applied[i] < task'.rev
      BY <2>5, <2>9, <2>11, <2>15
    <3>3. \A i, j \in DOMAIN taskGate'.applied : i # j => taskGate'.applied[i] # taskGate'.applied[j]
      BY <2>9, <2>11, <2>16
    <3>4. taskGate'.told \in Nat /\ task'.count \in Nat
      BY <2>1, <2>2, <2>5, <2>9
    <3>5. taskGate'.told <= task'.count
      BY <3>1, <3>4
    <3>6. turn' = "enqueue"
      BY <1>10
    <3>7. QED
      BY <3>1, <3>2, <3>3, <3>5, <3>6 DEF GateFenced
  <2>19. QED
    BY <2>5, <2>9, <2>18
<1>11. task' \in TaskStates /\ taskGate' \in GateFields /\ GateFenced'
  <2>1. CASE closed
    BY <1>7, <2>1 DEF CommitCandidate, GoesTo
  <2>2. CASE ~closed /\ candidate.by = "hooks"
    <3>1. turn' = "enqueue" /\ UNCHANGED task /\ taskGate' = [taskGate EXCEPT !.candidates = cs, !.by = "hooks"]
      BY <1>5, <2>2 DEF CommitCandidate, GoesTo
    <3>2. QED
      BY <1>8, <2>2, <3>1
  <2>3. CASE ~closed /\ candidate.by # "hooks" /\ ~Selected(candidate)
    <3>1. UNCHANGED <<turn, task>> /\ taskGate' = [taskGate EXCEPT !.candidates = cs]
      BY <1>5, <2>3 DEF CommitCandidate
    <3>2. QED
      BY <1>9, <2>3, <3>1
  <2>4. CASE ~closed /\ candidate.by # "hooks" /\ Selected(candidate)
    <3>1. \/ turn' = "failed" /\ UNCHANGED <<task, taskGate>>
          \/ /\ turn' = "enqueue" /\ task' = [task EXCEPT !.count = @ + 1, !.rev = @ + 1]
             /\ taskGate' = [taskGate EXCEPT !.candidates = cs, !.by = "tasks",
                                             !.applied = Append(@, candidate.task.rev)]
      BY <1>5, <2>4 DEF CommitCandidate, GoesTo
    <3>2. QED
      BY <1>7, <1>10, <2>4, <3>1
  <2>5. QED
    BY <2>1, <2>2, <2>3, <2>4
<1>12. PoliciesTyped'
  BY <1>1, <1>11, NoPolicyPoint DEF PoliciesTyped, Phases
<1>13. CallKnows'
  BY <1>1 DEF CallKnows, EffectsRecorded, DenialsHold, OutcomeTold
<1>14. LedgerAgrees'
  BY <1>1 DEF LedgerAgrees, Repeats, Since
<1>15. GateFenced'
  BY <1>11
<1> QED BY <1>12, <1>13, <1>14, <1>15

(* A continuation is queued.                                               *)
LEMMA EnqueueContinuationAllowed ==
    ASSUME PoliciesInv, EnqueueContinuation PROVE PoliciesInv'
<1> USE DEF PoliciesInv
<1>1. /\ turn = "enqueue" /\ turn' \in {"ask", "failed"}
      /\ UNCHANGED <<setup, closed, cancelled, deferring, queuedContext, used, call, ledger, history,
                     point, task>>
  BY DEF EnqueueContinuation, GoesTo, CallStays, RestStays
<1>2. task \in TaskStates /\ taskGate \in GateFields
  BY DEF PoliciesTyped
<1>3. task.count \in Nat /\ taskGate.told \in Nat
  BY <1>2 DEF TaskStates, GateFields
<1>4. taskGate.told + (IF taskGate.by = "tasks" THEN 1 ELSE 0) \in Nat
  BY <1>3
<1>5. PICK told \in Nat : told = taskGate.told + (IF taskGate.by = "tasks" THEN 1 ELSE 0)
  BY <1>4
<1>6. told <= task.count
  BY <1>1, <1>3, <1>5 DEF GateFenced
<1>7. taskGate' = [taskGate EXCEPT !.told = told, !.by = "none"] \/ UNCHANGED taskGate
  BY <1>5 DEF EnqueueContinuation
<1>8. /\ taskGate' \in GateFields /\ taskGate'.applied = taskGate.applied
       /\ taskGate'.told \in {told, taskGate.told}
  <2>1. ASSUME taskGate' = [taskGate EXCEPT !.told = told, !.by = "none"]
        PROVE  /\ taskGate' \in GateFields /\ taskGate'.applied = taskGate.applied
               /\ taskGate'.told = told
    BY <1>2, <2>1 DEF GateFields
  <2>2. QED
    BY <1>2, <1>7, <2>1
<1>9. PoliciesTyped'
  BY <1>1, <1>8, NoPolicyPoint DEF PoliciesTyped, Phases
<1>10. CallKnows'
  BY <1>1 DEF CallKnows, EffectsRecorded, DenialsHold, OutcomeTold
<1>11. LedgerAgrees'
  BY <1>1 DEF LedgerAgrees, Repeats, Since
<1>12. GateFenced'
  BY <1>1, <1>6, <1>8 DEF GateFenced
<1> QED BY <1>9, <1>10, <1>11, <1>12

(* The Turn is finished.                                                   *)
LEMMA FinishTurnAllowed ==
    ASSUME PoliciesInv, FinishTurn PROVE PoliciesInv'
<1> USE DEF PoliciesInv
<1>1. PoliciesTyped'
  BY NoPolicyPoint DEF PoliciesTyped, FinishTurn, GoesTo, CallStays, TasksStay, RestStays,
     Phases, Points
<1>2. CallKnows'
  BY DEF PoliciesTyped, CallKnows, EffectsRecorded, DenialsHold, OutcomeTold, FinishTurn,
     GoesTo, CallStays, TasksStay, RestStays
<1>3. LedgerAgrees'
  BY DEF LedgerAgrees, Repeats, Since, FinishTurn, GoesTo, CallStays, TasksStay, RestStays
<1>4. GateFenced'
  BY DEF PoliciesTyped, GateFenced, Selected, FinishTurn, GoesTo, CallStays, TasksStay, RestStays
<1> QED BY <1>1, <1>2, <1>3, <1>4

(* The Turn is cancelled.                                                  *)
LEMMA CancelTurnAllowed ==
    ASSUME PoliciesInv, CancelTurn PROVE PoliciesInv'
<1> USE DEF PoliciesInv
<1>1. PoliciesTyped'
  BY NoPolicyPoint DEF PoliciesTyped, CancelTurn, CallStays, TasksStay, Phases, Points
<1>2. CallKnows'
  BY DEF PoliciesTyped, CallKnows, EffectsRecorded, DenialsHold, OutcomeTold, CancelTurn,
     CallStays, TasksStay
<1>3. LedgerAgrees'
  BY DEF LedgerAgrees, Repeats, Since, CancelTurn, CallStays, TasksStay
<1>4. GateFenced'
  BY DEF PoliciesTyped, GateFenced, Selected, CancelTurn, CallStays, TasksStay
<1> QED BY <1>1, <1>2, <1>3, <1>4

(* The Turn notices that.                                                  *)
LEMMA NoticeCancelAllowed ==
    ASSUME PoliciesInv, NoticeCancel PROVE PoliciesInv'
<1> USE DEF PoliciesInv
<1>1. PoliciesTyped'
  BY NoPolicyPoint DEF PoliciesTyped, NoticeCancel, GoesTo, CallStays, TasksStay, RestStays,
     Phases, Points
<1>2. CallKnows'
  BY DEF PoliciesTyped, CallKnows, EffectsRecorded, DenialsHold, OutcomeTold, NoticeCancel,
     GoesTo, CallStays, TasksStay, RestStays
<1>3. LedgerAgrees'
  BY DEF LedgerAgrees, Repeats, Since, NoticeCancel, GoesTo, CallStays, TasksStay, RestStays
<1>4. GateFenced'
  BY DEF PoliciesTyped, GateFenced, Selected, NoticeCancel, GoesTo, CallStays, TasksStay,
     RestStays
<1> QED BY <1>1, <1>2, <1>3, <1>4

(* The Module Sets close.                                                  *)
LEMMA CloseSetsAllowed ==
    ASSUME PoliciesInv, CloseSets PROVE PoliciesInv'
<1> USE DEF PoliciesInv
<1>1. PoliciesTyped'
  BY NoPolicyPoint DEF PoliciesTyped, CloseSets, CallStays, TasksStay, Phases, Points
<1>2. CallKnows'
  BY DEF PoliciesTyped, CallKnows, EffectsRecorded, DenialsHold, OutcomeTold, CloseSets,
     CallStays, TasksStay
<1>3. LedgerAgrees'
  BY DEF LedgerAgrees, Repeats, Since, CloseSets, CallStays, TasksStay
<1>4. GateFenced'
  BY DEF PoliciesTyped, GateFenced, Selected, CloseSets, CallStays, TasksStay
<1> QED BY <1>1, <1>2, <1>3, <1>4

(* A Worker starts or ends.                                                *)
LEMMA WorkersChangeAllowed ==
    ASSUME PoliciesInv, WorkersChange PROVE PoliciesInv'
<1> USE DEF PoliciesInv
<1>1. /\ turn \in {"finish", "commit"} /\ used \in UsedCounts /\ deferring' \in BOOLEAN
      /\ UNCHANGED <<setup, closed, turn, cancelled, queuedContext, call, ledger, history, task,
                     taskGate, point>>
  BY DEF WorkersChange, CallStays, TasksStay, PoliciesTyped
<1>2. PICK n \in Nat : n = used.shifts + 1 /\ n # 0
  BY <1>1 DEF UsedCounts
<1>3. used' = [used EXCEPT !.shifts = n]
  BY <1>2 DEF WorkersChange
<1>4. used' \in UsedCounts /\ used'.shifts # 0
  BY <1>1, <1>2, <1>3 DEF UsedCounts
<1>5. PoliciesTyped'
  BY <1>1, <1>4 DEF PoliciesTyped
<1>6. CallKnows'
  BY <1>1 DEF CallKnows, EffectsRecorded, DenialsHold, OutcomeTold
<1>7. LedgerAgrees'
  BY <1>1 DEF LedgerAgrees, Repeats, Since
<1>8. GateFenced'
  BY <1>1, <1>4 DEF GateFenced
<1> QED BY <1>5, <1>6, <1>7, <1>8

-----------------------------------------------------------------------------
(* A Turn that has not begun satisfies the invariant.                      *)
LEMMA PoliciesStart == PInit => PoliciesInv
<1> SUFFICES ASSUME PInit PROVE PoliciesInv
  OBVIOUS
<1>1. PoliciesTyped
  <2>1. ledger \in [ToolNames \X Classes -> LedgerStates]
    <3>1. NoFailure \in LedgerStates
      BY DEF NoFailure, LedgerStates
    <3>2. QED
      BY <3>1 DEF PInit
  <2>2. task \in TaskStates /\ used \in UsedCounts
    BY DEF PInit, TaskStates, UsedCounts
  <2>3. taskGate \in GateFields
    BY DEF PInit, GateFields
  <2>4. "at" \in DOMAIN point /\ point.at = "none"
    BY DEF PInit, NoPoint
  <2>5. turn \in Phases /\ point.at \in Points \cup {"none"} /\ point.at \in {"none", PointOf(turn)}
    BY <2>4 DEF PInit, Phases
  <2>6. history \in Seq(Outcomes) /\ queuedContext \subseteq Durable /\ call \in CallStates
    BY NoCallKnown DEF PInit
  <2>7. QED
    BY <2>1, <2>2, <2>3, <2>4, <2>5, <2>6 DEF PInit, PoliciesTyped
<1>2. CallKnows
  BY NoCallKnown DEF PInit, CallKnows, EffectsRecorded, DenialsHold, OutcomeTold
<1>3. LedgerAgrees
  <2>1. ASSUME NEW key \in ToolNames \X Classes PROVE Repeats(key) = 0
    <3>1. {i \in Since(key) : history[i].tool = key[1] /\ history[i].class = key[2]} = {}
      BY DEF PInit, Since
    <3>2. QED
      BY <3>1, FS_EmptySet DEF Repeats
  <2>2. QED
    BY <2>1 DEF LedgerAgrees, PInit, NoFailure
<1>4. GateFenced
  BY DEF PInit, GateFenced
<1> QED BY <1>1, <1>2, <1>3, <1>4 DEF PoliciesInv

(* Every step of a Turn through its policies keeps the invariant.          *)
LEMMA PoliciesKeep == PoliciesInv /\ [PNext]_pvars => PoliciesInv'
<1> SUFFICES ASSUME PoliciesInv, [PNext]_pvars PROVE PoliciesInv'
  OBVIOUS
<1>1. CASE UNCHANGED pvars
  <2>1. PoliciesTyped'
    BY <1>1 DEF pvars, PoliciesInv, PoliciesTyped
  <2>2. CallKnows'
    BY <1>1 DEF pvars, PoliciesInv, CallKnows, EffectsRecorded, DenialsHold, OutcomeTold
  <2>3. LedgerAgrees'
    BY <1>1 DEF pvars, PoliciesInv, LedgerAgrees, Repeats, Since
  <2>4. GateFenced'
    BY <1>1 DEF pvars, PoliciesInv, GateFenced, Selected
  <2>5. QED
    BY <2>1, <2>2, <2>3, <2>4 DEF PoliciesInv
<1>2. CASE PNext
  BY <1>2, EnterPointAllowed, RunHookAllowed, OpensAllowed, StartDecidedAllowed,
     InputDecidedAllowed,
     BeginCompactionAllowed, CompactDecidedAllowed, CompactedDecidedAllowed, RunToolAllowed,
     BeforeDecidedAllowed, InvokeAllowed, AfterDecidedAllowed, RecordOutcomeAllowed, EditTaskAllowed,
     AttemptedAllowed, FinishEvaluatedAllowed, CommitCandidateAllowed, EnqueueContinuationAllowed,
     FinishTurnAllowed, CancelTurnAllowed, NoticeCancelAllowed, CloseSetsAllowed, WorkersChangeAllowed
     DEF PNext
<1> QED BY <1>1, <1>2

(* What the invariant says of effects, denials, outcomes, the ledger and   *)
(* the continuations.                                                      *)
LEMMA PoliciesAreSafe == PoliciesInv => PTypeOK /\ PoliciesSafe
<1> SUFFICES ASSUME PoliciesInv PROVE PTypeOK /\ PoliciesSafe
  OBVIOUS
<1>1. PTypeOK
  <2>1. \A i \in DOMAIN history : history[i] \in Outcomes
    BY DEF PoliciesInv, PoliciesTyped
  <2>2. \A i \in DOMAIN history : history[i].class \in Classes \cup {"ok"}
    BY <2>1 DEF Outcomes
  <2>3. call.tool \in ToolNames \cup {"none"} /\ call.input \in 0..2 /\ call.ran \subseteq 1..2
    BY DEF PoliciesInv, PoliciesTyped, CallStates, InputSets
  <2>4. \A key \in DOMAIN ledger : ledger[key].status \in {"none", "unresolved", "stale", "resolved"}
    BY DEF PoliciesInv, PoliciesTyped, LedgerStates
  <2>5. task.count \in Nat
    BY DEF PoliciesInv, PoliciesTyped, TaskStates
  <2>6. QED
    BY <2>2, <2>3, <2>4, <2>5 DEF PTypeOK, PoliciesInv, PoliciesTyped
<1>2. ContinuationFenced
  BY DEF PoliciesInv, GateFenced, ContinuationFenced
<1> QED BY <1>1, <1>2 DEF PoliciesSafe, PoliciesInv, CallKnows

-----------------------------------------------------------------------------
(* The Agent: each component by itself takes the steps *)

(* The inductive invariant of the opening and closing of an Agent holds    *)
(* for every set of callbacks that call Close (agent.go, module/           *)
(* lifecycle.go).                                                          *)
THEOREM CloseInvariant == Spec => [](subject = "close" => CloseInv)
<1> DEFINE I == subject = "close" => CloseInv
<1>1. Init => I
  BY CloseStarts DEF Init
<1>2. I /\ [Next]_vars => I'
  <2> SUFFICES ASSUME I, [Next]_vars, subject' = "close" PROVE CloseInv'
    OBVIOUS
  <2>1. CASE UNCHANGED vars
    BY <2>1, CloseKeeps DEF vars
  <2>2. CASE Next
    <3>1. subject = "close" /\ CNext
      BY <2>2 DEF Next
    <3>2. QED
      BY <3>1, CloseKeeps
  <2>3. QED
    BY <2>1, <2>2
<1> QED BY <1>1, <1>2, PTL DEF Spec

(* AgentCloses: external input reaches the Agent only while its Modules    *)
(* are active, neither a failed start nor a completed Close leaves one     *)
(* running, and a callback that calls Close waits neither for its own end  *)
(* nor for a goroutine inside Close that waits for it (only the pass of    *)
(* BeginClose may), whoever closes and however often that is deferred, for *)
(* every set of callbacks that call Close.                                 *)
THEOREM AgentClosesSafely == Spec => []AgentCloses
<1> DEFINE I == subject = "close" => CloseInv
           J == subject = "close" => ObservablesDefer
<1>1. Init => J
  BY DEF Init, CInit, ObservablesDefer, Actors, Producers
<1>2. I /\ J /\ [Next]_vars => J'
  <2> SUFFICES ASSUME I, J, [Next]_vars, subject' = "close" PROVE ObservablesDefer'
    OBVIOUS
  <2>1. CASE UNCHANGED vars
    BY <2>1, ObservablesStayDeferred DEF vars
  <2>2. CASE Next
    <3>1. subject = "close" /\ CNext
      BY <2>2 DEF Next
    <3>2. QED
      BY <3>1, ObservablesStayDeferred
  <2>3. QED
    BY <2>1, <2>2
<1>3. I /\ J => AgentCloses
  BY CloseIsSafe, CallbacksAreLetGo DEF AgentCloses, CloseSafe
<1> QED BY <1>1, <1>2, <1>3, CloseInvariant, PTL DEF Spec

(* The inductive invariant of the Worker Threads of a parent               *)
(* (worker_threads.go), for any Workers and any number of their runtimes   *)
(* and Turns.                                                              *)
THEOREM WorkersInvariant == Spec => [](subject = "workers" => WorkersInv)
<1> DEFINE I == subject = "workers" => WorkersInv
<1>1. Init => I
  BY WorkersStart DEF Init
<1>2. I /\ [Next]_vars => I'
  <2> SUFFICES ASSUME I, [Next]_vars, subject' = "workers" PROVE WorkersInv'
    OBVIOUS
  <2>1. CASE UNCHANGED vars
    BY <2>1, WorkersKeep DEF vars
  <2>2. CASE Next
    <3>1. subject = "workers" /\ WNext
      BY <2>2 DEF Next
    <3>2. QED
      BY <3>1, WorkersKeep
  <2>3. QED
    BY <2>1, <2>2
<1> QED BY <1>1, <1>2, PTL DEF Spec

(* WorkersHandOff: every result on the books is still under way and each   *)
(* Worker's count is that of the books, no delivery begins after the       *)
(* parent was told that none can, and the manager has at most one runtime  *)
(* of a Worker; the HTTP server opens another beside it only while a stop, *)
(* an archive or a close drains it, whatever is cancelled.                 *)
THEOREM WorkersHandOffSafely == Spec => []WorkersHandOff
<1>1. (subject = "workers" => WorkersInv) => WorkersHandOff
  BY WorkersAreSafe DEF WorkersHandOff
<1> QED BY <1>1, WorkersInvariant, PTL

(* The inductive invariant of the MCP servers of an Agent                  *)
(* (process_services.go, notification_gate.go), for any specifications,    *)
(* callers of a start and notifications.                                   *)
THEOREM ServersInvariant == Spec => [](subject = "mcp" => MCPInv)
<1> DEFINE I == subject = "mcp" => MCPInv
<1>1. Init => I
  BY ServersStart DEF Init
<1>2. I /\ [Next]_vars => I'
  <2> SUFFICES ASSUME I, [Next]_vars, subject' = "mcp" PROVE MCPInv'
    OBVIOUS
  <2>1. CASE UNCHANGED vars
    BY <2>1, ServersKeep DEF vars
  <2>2. CASE Next
    <3>1. subject = "mcp" /\ MCPNext
      BY <2>2 DEF Next
    <3>2. QED
      BY <3>1, ServersKeep
  <2>3. QED
    BY <2>1, <2>2
<1> QED BY <1>1, <1>2, PTL DEF Spec

(* A configuration that is reported as ready can be connected, no session  *)
(* outlives its start or its manager, the gate makes one call at a time    *)
(* and none once its owner is closed, a notification stays queued for a    *)
(* start that is over only if it was overtaken between the test of ready   *)
(* and the queue, or if the context of the activation has ended its drain, *)
(* and the channel of a request is closed once (process_services.go,       *)
(* notification_gate.go).                                                  *)
THEOREM MCPServesSafely == Spec => []MCPServes
<1>1. (subject = "mcp" => MCPInv) => MCPServes
  BY ServersAreSafe DEF MCPServes, MCPSafe
<1> QED BY <1>1, ServersInvariant, PTL

(* The inductive invariant of the health of the models (model_health.go,   *)
(* model_fallback.go), for any models, Threads and number of probes.       *)
THEOREM ModelsInvariant == Spec => [](subject = "models" => ModelsInv)
<1> DEFINE I == subject = "models" => ModelsInv
<1>1. Init => I
  BY ModelsStart DEF Init
<1>2. I /\ [Next]_vars => I'
  <2> SUFFICES ASSUME I, [Next]_vars, subject' = "models" PROVE ModelsInv'
    OBVIOUS
  <2>1. CASE UNCHANGED vars
    BY <2>1, ModelsKeep DEF vars
  <2>2. CASE Next
    <3>1. subject = "models" /\ MHNext
      BY <2>2 DEF Next
    <3>2. QED
      BY <3>1, ModelsKeep
  <2>3. QED
    BY <2>1, <2>2
<1> QED BY <1>1, <1>2, PTL DEF Spec

(* ProbeOwned and NewerSuccessWins: exactly one Thread owns each probe     *)
(* that is in flight, and a failure that was found out before a newer      *)
(* success does not put the model into cooldown again, whichever requests  *)
(* and summaries of the Threads share the model.                           *)
THEOREM ProbesAreOwned ==
    Spec => [](subject = "models" => MHTypeOK /\ ModelHealthSafe)
<1>1. (subject = "models" => ModelsInv) => (subject = "models" => MHTypeOK /\ ModelHealthSafe)
  BY ModelsAreSafe
<1> QED BY <1>1, ModelsInvariant, PTL

(* The inductive invariant of the policies of a Turn (module/policy.go,    *)
(* tool_failure.go, the task gate), for any hooks, Tools and bounds.       *)
THEOREM PoliciesInvariant == Spec => [](subject = "policies" => PoliciesInv)
<1> DEFINE I == subject = "policies" => PoliciesInv
<1>1. Init => I
  BY PoliciesStart DEF Init
<1>2. I /\ [Next]_vars => I'
  <2> SUFFICES ASSUME I, [Next]_vars, subject' = "policies" PROVE PoliciesInv'
    OBVIOUS
  <2>1. CASE UNCHANGED vars
    BY <2>1, PoliciesKeep DEF vars, policyVars, faultVars, pvars
  <2>2. CASE Next
    <3>1. subject = "policies" /\ PNext
      BY <2>2 DEF Next
    <3>2. QED
      BY <3>1, PoliciesKeep
  <2>3. QED
    BY <2>1, <2>2
<1> QED BY <1>1, <1>2, PTL DEF Spec

(* PoliciesHold: a handler runs only with the recorded input of a call no  *)
(* policy refused, and its outcome is what is reported; the ledger counts  *)
(* exactly the failures nothing has settled since; a continuation is       *)
(* counted and told once for each revision of the task the gate saw.       *)
THEOREM PoliciesHoldAlways == Spec => []PoliciesHold
<1>1. (subject = "policies" => PoliciesInv) => PoliciesHold
  BY PoliciesAreSafe DEF PoliciesHold
<1> QED BY <1>1, PoliciesInvariant, PTL

=============================================================================
