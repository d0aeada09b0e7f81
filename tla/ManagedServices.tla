--------------------------- MODULE ManagedServices --------------------------
(***************************************************************************)
(* Fleet's manager of one independent service process (fleet/services):    *)
(* several managers (the Fleet server's reconcile loop and CLI commands)   *)
(* share the desired state, the launch intent, the readiness candidates,   *)
(* the discovery record and two locks; the services they launch are        *)
(* detached, may start late, crash, and outlive the manager.               *)
(***************************************************************************)
EXTENDS Naturals, FiniteSets

CONSTANTS
    Managers,
    MaxInstances,  \* bound: launches
    MaxServiceOps, \* bound: operations begun
    MaxAttempts    \* 3 in startLocked

ASSUME ServiceBounds ==
    /\ Managers \cap Nat = {} /\ MaxInstances \in Nat /\ MaxServiceOps \in Nat /\ MaxAttempts \in Nat

VARIABLES
    wanted,      \* desired.json
    intent,      \* instance in launch.json, or 0
    candidates,  \* instances with a readiness file
    discovery,   \* instance in the public runtime record, or 0
    writer,      \* holder of writer.lock: a manager, an instance or 0
    guard,       \* manager that holds the lifecycle lock, or 0
    instance,    \* phase of each launched service process
    mgr,         \* operation of each manager
    opsBegun,
    quiet,       \* an explicit stop has succeeded and no explicit start followed
    launches     \* launches since the last explicit start

mvars == <<wanted, intent, candidates, discovery, writer, guard, instance, mgr, opsBegun, quiet, launches>>

Instances == 1 .. MaxInstances
Nobody == 0

ServingStates == {"leased", "ready", "draining"}

IdleManager == [op |-> "none", step |-> "idle", explicit |-> FALSE, seen |-> "running", enabled |-> TRUE, requested |-> FALSE]
MgrAt(m, step) == mgr[m].step = step
MgrTo(m, step) == mgr' = [mgr EXCEPT ![m].step = step]

serviceFiles == <<wanted, intent, candidates, discovery>>
ghosts == <<quiet, launches>>

(* Return from the operation: the deferred guard.Close *)
ReturnFrom(m) ==
    /\ mgr' = [mgr EXCEPT ![m] = IdleManager]
    /\ guard' = IF guard = m THEN Nobody ELSE guard

(* m.record: the candidate of the intended instance; Probe: it answers *)
Recorded == intent # 0 /\ intent \in candidates
Verified == Recorded /\ instance[intent] = "ready"

-----------------------------------------------------------------------------
(* Start, Stop, Restart: configuration is checked, then the lifecycle lock *)
(* is tried.                                                               *)

BeginServiceOp(m) ==
    /\ MgrAt(m, "idle") /\ opsBegun < MaxServiceOps
    /\ opsBegun' = opsBegun + 1
    /\ \/ \E op \in {"start", "stop", "restart"} :
            IF guard # Nobody
            THEN UNCHANGED <<mgr, guard>>
            ELSE /\ guard' = m
                 /\ mgr' = [mgr EXCEPT ![m] = [IdleManager EXCEPT !.op = op, !.explicit = TRUE,
                                               !.step = IF op = "start" THEN "desire" ELSE "unwish"]]
       \/ \E on \in BOOLEAN :
            /\ mgr' = [mgr EXCEPT ![m] = [IdleManager EXCEPT !.op = "reconcile", !.step = "status",
                                          !.seen = wanted.state, !.enabled = on]]
            /\ UNCHANGED guard
    /\ UNCHANGED <<serviceFiles, writer, instance, ghosts>>

(* Reconcile looks at the status first: status() reads the desired state   *)
(* and tries the writer lock                                               *)
ProbeWriter(m) ==
    /\ MgrAt(m, "status")
    /\ writer' = IF writer = Nobody THEN m ELSE writer
    /\ MgrTo(m, "choose")
    /\ UNCHANGED <<serviceFiles, guard, instance, opsBegun, ghosts>>

(* ... then it stops a disabled or stopped service, or starts it without   *)
(* resetting the launch attempts.                                          *)
ChooseReconcile(m) ==
    /\ MgrAt(m, "choose")
    /\ writer' = IF writer = m THEN Nobody ELSE writer
    /\ IF guard # Nobody
       THEN ReturnFrom(m)
       ELSE /\ guard' = m
            /\ MgrTo(m, IF ~mgr[m].enabled \/ mgr[m].seen = "stopped" THEN "poll" ELSE "desire")
    /\ UNCHANGED <<serviceFiles, instance, opsBegun, ghosts>>

-----------------------------------------------------------------------------
(* startLocked *)

Desire(m) ==
    /\ MgrAt(m, "desire")
    /\ IF mgr[m].explicit
       THEN /\ wanted' = [state |-> "running", attempts |-> 0]
            /\ quiet' = FALSE /\ launches' = 0
       ELSE UNCHANGED <<wanted, ghosts>>
    /\ IF wanted'.state = "running" THEN MgrTo(m, "fence") /\ UNCHANGED guard ELSE ReturnFrom(m)
    /\ UNCHANGED <<intent, candidates, discovery, writer, instance, opsBegun>>

(* A busy writer lock: adopt the candidate if it answers *)
AdoptWriter(m) ==
    /\ MgrAt(m, "fence") /\ writer # Nobody
    /\ discovery' = IF Verified THEN intent ELSE discovery
    /\ ReturnFrom(m)
    /\ UNCHANGED <<wanted, intent, candidates, writer, instance, opsBegun, ghosts>>

CountAttemptNever(m) == UNCHANGED wanted

CountAttempt(m) == wanted' = [wanted EXCEPT !.attempts = @ + 1]

TakeAttempt(m) ==
    /\ MgrAt(m, "fence") /\ writer = Nobody
    /\ IF wanted.attempts >= MaxAttempts
       THEN ReturnFrom(m) /\ UNCHANGED <<wanted, writer>>
       ELSE CountAttempt(m) /\ writer' = m /\ MgrTo(m, "intend") /\ UNCHANGED guard
    /\ UNCHANGED <<intent, candidates, discovery, instance, opsBegun, ghosts>>

Fresh(i) == instance[i] = "none" /\ \A j \in 1 .. (i - 1) : instance[j] # "none"

(* newIntent, written while the writer lock is held *)
ReplaceIntent(m, i) ==
    /\ MgrAt(m, "intend") /\ Fresh(i)
    /\ intent' = i
    /\ instance' = [instance EXCEPT ![i] = "intended"]
    /\ MgrTo(m, "unpublish")
    /\ UNCHANGED <<wanted, candidates, discovery, writer, guard, opsBegun, ghosts>>

RemoveRuntime == discovery' = 0

(* removeRuntime, then the writer lock is released *)
Unannounce(m) ==
    /\ MgrAt(m, "unpublish")
    /\ RemoveRuntime
    /\ writer' = Nobody
    /\ MgrTo(m, "spawn")
    /\ UNCHANGED <<wanted, intent, candidates, guard, instance, opsBegun, ghosts>>

SpawnService(m) ==
    /\ MgrAt(m, "spawn")
    /\ \/ /\ instance' = [instance EXCEPT ![intent] = "spawned"]
          /\ launches' = launches + 1
          /\ MgrTo(m, "await") /\ UNCHANGED guard
       \/ ReturnFrom(m) /\ UNCHANGED <<instance, launches>>
    /\ UNCHANGED <<serviceFiles, writer, opsBegun, quiet>>

AwaitCandidate(m) ==
    /\ MgrAt(m, "await")
    /\ \/ Verified /\ MgrTo(m, "publish") /\ UNCHANGED guard
       \/ ReturnFrom(m)                                   \* startTimeout
    /\ UNCHANGED <<serviceFiles, writer, instance, opsBegun, ghosts>>

PublishDiscovery(m) ==
    /\ MgrAt(m, "publish")
    /\ discovery' = intent
    /\ ReturnFrom(m)
    /\ UNCHANGED <<wanted, intent, candidates, writer, instance, opsBegun, ghosts>>

-----------------------------------------------------------------------------
(* Stop and the first half of Restart *)

Unwish(m) ==
    /\ MgrAt(m, "unwish")
    /\ wanted' = [state |-> "stopped", attempts |-> IF mgr[m].op = "restart" THEN 0 ELSE wanted.attempts]
    /\ MgrTo(m, "poll")
    /\ UNCHANGED <<intent, candidates, discovery, writer, guard, instance, opsBegun, ghosts>>

(* stopLocked while the writer lock is busy: one exact-identity Stop, as   *)
(* soon as a candidate names the writer.                                   *)
RequestStop(m) ==
    /\ MgrAt(m, "poll") /\ writer # Nobody
    /\ Recorded /\ ~mgr[m].requested
    /\ IF instance[intent] = "ready"
       THEN /\ instance' = [instance EXCEPT ![intent] = "draining"]
            /\ mgr' = [mgr EXCEPT ![m].requested = TRUE]
            /\ UNCHANGED guard
       ELSE ReturnFrom(m) /\ UNCHANGED instance
    /\ UNCHANGED <<serviceFiles, writer, opsBegun, ghosts>>

StopTimeout(m) ==
    /\ MgrAt(m, "poll") /\ writer # Nobody
    /\ ReturnFrom(m)
    /\ UNCHANGED <<serviceFiles, writer, instance, opsBegun, ghosts>>

(* StateLock succeeds: the writer has released its lease *)
WriterReleased(m) == writer = Nobody

(* The lock is free: the candidate and the intent go while it is held ...  *)
RemoveIntent(m) ==
    /\ MgrAt(m, "poll") /\ WriterReleased(m)
    /\ writer' = m
    /\ candidates' = candidates \ {intent} /\ intent' = 0
    /\ MgrTo(m, "cleared")
    /\ UNCHANGED <<wanted, discovery, guard, instance, opsBegun, ghosts>>

(* ... and the discovery record *)
FinishStop(m) ==
    /\ MgrAt(m, "cleared")
    /\ RemoveRuntime /\ writer' = Nobody
    /\ IF mgr[m].op = "restart"
       THEN MgrTo(m, "desire") /\ UNCHANGED guard
       ELSE ReturnFrom(m)
    /\ quiet' = (quiet \/ mgr[m].op = "stop")
    /\ UNCHANGED <<wanted, intent, candidates, instance, opsBegun, launches>>

(* The process of the manager ends; its locks go with it *)
ManagerDies(m) ==
    /\ ~MgrAt(m, "idle")
    /\ ReturnFrom(m)
    /\ writer' = IF writer = m THEN Nobody ELSE writer
    /\ UNCHANGED <<serviceFiles, instance, opsBegun, ghosts>>

-----------------------------------------------------------------------------
(* A launched service: app.RunMemoryService *)

InstanceBecomes(i, phase) == instance' = [instance EXCEPT ![i] = phase]

(* Acquire: the writer lock ... *)
LockLease(i) ==
    /\ instance[i] = "spawned"
    /\ IF writer = Nobody THEN InstanceBecomes(i, "checking") /\ writer' = i
                          ELSE InstanceBecomes(i, "gone") /\ UNCHANGED writer
    /\ UNCHANGED <<serviceFiles, guard, mgr, opsBegun, ghosts>>

(* ... then the intent and the desired state                               *)
LaunchCurrent(i) == intent = i /\ wanted.state = "running"

CheckLease(i) ==
    /\ instance[i] = "checking"
    /\ IF LaunchCurrent(i) THEN InstanceBecomes(i, "leased") /\ UNCHANGED writer
                           ELSE InstanceBecomes(i, "gone") /\ writer' = Nobody
    /\ UNCHANGED <<serviceFiles, guard, mgr, opsBegun, ghosts>>

(* Storage recovered, the listener open: Lease.Ready *)
ServiceReady(i) ==
    /\ instance[i] = "leased"
    /\ InstanceBecomes(i, "ready") /\ candidates' = candidates \cup {i}
    /\ UNCHANGED <<wanted, intent, discovery, writer, guard, mgr, opsBegun, ghosts>>

(* Drained or crashed: the lease is released *)
ServiceEnds(i) ==
    /\ instance[i] \in ServingStates
    /\ InstanceBecomes(i, "gone") /\ writer' = Nobody
    /\ UNCHANGED <<serviceFiles, guard, mgr, opsBegun, ghosts>>

-----------------------------------------------------------------------------
MInit ==
    /\ wanted = [state |-> "running", attempts |-> 0]
    /\ intent = 0 /\ candidates = {} /\ discovery = 0
    /\ writer = Nobody /\ guard = Nobody
    /\ instance = [i \in Instances |-> "none"]
    /\ mgr = [m \in Managers |-> IdleManager]
    /\ opsBegun = 0 /\ quiet = FALSE /\ launches = 0

ManagerStep(m) ==
    \/ BeginServiceOp(m) \/ ProbeWriter(m) \/ ChooseReconcile(m)
    \/ Desire(m) \/ AdoptWriter(m) \/ TakeAttempt(m) \/ (\E i \in Instances : ReplaceIntent(m, i)) \/ Unannounce(m)
    \/ SpawnService(m) \/ AwaitCandidate(m) \/ PublishDiscovery(m)
    \/ Unwish(m) \/ RequestStop(m) \/ StopTimeout(m) \/ RemoveIntent(m) \/ FinishStop(m)
    \/ ManagerDies(m)

ServiceStep(i) == LockLease(i) \/ CheckLease(i) \/ ServiceReady(i) \/ ServiceEnds(i)

MNext ==
    \/ \E m \in Managers : ManagerStep(m)
    \/ \E i \in Instances : ServiceStep(i)

MSpec == MInit /\ [][MNext]_mvars

-----------------------------------------------------------------------------
Steps == {"idle", "status", "choose", "desire", "fence", "intend", "unpublish", "spawn", "await",
          "publish", "unwish", "poll", "cleared"}

ManagerRecords ==
    [op : {"none", "start", "stop", "restart", "reconcile"}, step : Steps, explicit : BOOLEAN,
     seen : {"running", "stopped"}, enabled : BOOLEAN, requested : BOOLEAN]

MTypeOK ==
    /\ wanted \in [state : {"running", "stopped"}, attempts : 0 .. MaxAttempts]
    /\ intent \in 0 .. MaxInstances /\ discovery \in 0 .. MaxInstances /\ candidates \subseteq Instances
    /\ writer \in Managers \cup Instances \cup {Nobody} /\ guard \in Managers \cup {Nobody}
    /\ instance \in [Instances -> {"none", "intended", "spawned", "checking", "gone"} \cup ServingStates]
    /\ mgr \in [Managers -> ManagerRecords]
    /\ opsBegun \in Nat /\ quiet \in BOOLEAN /\ launches \in Nat

(* Once Stop has succeeded no service process writes to the storage until  *)
(* an explicit start: not one launched earlier that was slow to begin, nor *)
(* one a reconcile or another manager would launch.                        *)
StoppedStays == quiet => \A i \in Instances : instance[i] \notin ServingStates

(* The process that owns the storage is the one launched last, and clients *)
(* find it or none: the intent and the public record never name another    *)
(* instance than the one with the lease.                                   *)
LeaseCurrent == \A i \in Instances : instance[i] \in ServingStates => intent = i /\ discovery \in {0, i}

(* A stopped service stays stopped and a running one is the current launch *)
ServiceFenced == StoppedStays /\ LeaseCurrent

(* "Each failed launch consumes one of three persisted attempts, including *)
(* across manager restarts": crash and restart the manager anywhere, it    *)
(* launches no more often between two explicit starts.                     *)
LaunchBudget == launches <= MaxAttempts

(* What Manager.Stop, Start and Reconcile promise, from any number of      *)
(* managers                                                                *)
ServicesSafe == ServiceFenced /\ LaunchBudget

=============================================================================
