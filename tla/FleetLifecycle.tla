---------------------------- MODULE FleetLifecycle --------------------------
(***************************************************************************)
(* Fleet's lifecycle operations on one Agent (fleet/{lifecycle,status,     *)
(* registration,supervisor,process,restart_client}.go) against the         *)
(* processes they spawn (entrypoints/agenthttp/server.go Run) and the two  *)
(* things they share: the endpoint lock and the runtime file               *)
(* (framework/endpoint).  An operation holds the Agent's lifecycle lock,   *)
(* so there is one at a time; a process may outlive the operation that     *)
(* spawned it, be killed, and lose its PID to a stranger.                  *)
(***************************************************************************)
EXTENDS Naturals, Sequences

CONSTANTS
    MaxProcs,   \* bound: processes spawned
    MaxTurns,   \* bound: Turns begun
    MaxOps,     \* bound: lifecycle operations
    FleetFaults \* "late": a process may still be booting when the operation
                \* that spawned it has given up; "kill": it may be killed

ASSUME FleetBounds ==
    /\ MaxProcs \in Nat /\ MaxTurns \in Nat /\ MaxOps \in Nat
    /\ FleetFaults \subseteq {"late", "kill"}

VARIABLES
    proc,         \* phase of each process
    reused,       \* processes whose PID belongs to a stranger
    endpointLock, \* a process, Maintenance, Polling or Free
    runtimeFile,  \* process recorded in runtime.json, or 0
    enabled,      \* the registry's flag
    fleetOp,      \* the operation that holds the lifecycle lock
    opsLeft,
    turns,        \* final or current state of each Turn, the last is selected
    restored,     \* the running process has attached its Main Thread
    resumed       \* Turns a continuation was submitted for

fleetVars == <<proc, reused, endpointLock, runtimeFile, enabled, fleetOp, opsLeft, turns, restored,
               resumed>>

Processes == 1 .. MaxProcs

Free == 0
Maintenance == MaxProcs + 1
Polling == MaxProcs + 2

(* booting: no lock yet; bound: endpoint.Listen has the lock and the       *)
(* listener; up: published; stopping: shutdown was accepted; deaf: the     *)
(* HTTP server is down; unlisted: the runtime file is removed.             *)
AliveStates == {"booting", "bound", "up", "stopping", "deaf", "unlisted"}
Answers == {"up", "stopping"}

NoOp == [kind |-> "none", step |-> "idle", r |-> 0, child |-> 0, seen |-> 0, state |-> "none",
         ack |-> FALSE, starting |-> FALSE]
OpAt(step) == fleetOp.step = step
OpKind(kinds) == fleetOp.kind \in kinds
OpTo(step) == fleetOp' = [fleetOp EXCEPT !.step = step]
EndOp == fleetOp' = NoOp

OnlyOp == UNCHANGED <<proc, reused, endpointLock, runtimeFile, enabled, opsLeft, turns, restored, resumed>>

-----------------------------------------------------------------------------
(* A process: Server.Run *)

(* endpoint.Listen: homestore.LockTry on the endpoint lock *)
Listen(p) ==
    /\ proc[p] = "booting"
    /\ IF endpointLock = Free
       THEN proc' = [proc EXCEPT ![p] = "bound"] /\ endpointLock' = p
       ELSE proc' = [proc EXCEPT ![p] = "gone"] /\ UNCHANGED endpointLock
    /\ UNCHANGED <<reused, runtimeFile, enabled, fleetOp, opsLeft, turns, restored, resumed>>

(* setEndpointControl, Serve and Binding.Publish *)
PublishRuntime(p) ==
    /\ proc[p] = "bound"
    /\ proc' = [proc EXCEPT ![p] = "up"]
    /\ runtimeFile' = p /\ restored' = FALSE
    /\ UNCHANGED <<reused, endpointLock, enabled, fleetOp, opsLeft, turns, resumed>>

(* ensureMainThread; StatusStore.RecoverAfterRestart cancels a Turn that   *)
(* an earlier process left open.                                           *)
RestoreThread(p) ==
    /\ proc[p] = "up" /\ ~restored
    /\ restored' = TRUE
    /\ turns' = [i \in DOMAIN turns |-> IF turns[i] = "working" THEN "restart" ELSE turns[i]]
    /\ UNCHANGED <<proc, reused, endpointLock, runtimeFile, enabled, fleetOp, opsLeft, resumed>>

Working == turns # <<>> /\ turns[Len(turns)] = "working"

BeginTurn(p) ==
    /\ proc[p] = "up" /\ restored /\ ~Working /\ Len(turns) < MaxTurns
    /\ turns' = Append(turns, "working")
    /\ UNCHANGED <<proc, reused, endpointLock, runtimeFile, enabled, fleetOp, opsLeft, restored, resumed>>

FinishTurn(p, state) ==
    /\ proc[p] \in Answers /\ restored /\ Working
    /\ turns' = [turns EXCEPT ![Len(turns)] = state]
    /\ UNCHANGED <<proc, reused, endpointLock, runtimeFile, enabled, fleetOp, opsLeft, restored, resumed>>

(* Server.Close ends the open Turn with ErrThreadStopped; the HTTP servers *)
(* are shut down.                                                          *)
CloseServer(p) ==
    /\ proc[p] = "stopping"
    /\ proc' = [proc EXCEPT ![p] = "deaf"]
    /\ turns' = IF restored /\ Working THEN [turns EXCEPT ![Len(turns)] = "cancelled"] ELSE turns
    /\ UNCHANGED <<reused, endpointLock, runtimeFile, enabled, fleetOp, opsLeft, restored, resumed>>

(* Binding.Close: removeOwnedRuntime, then the lock, and the process ends. *)
Unpublish(p) ==
    /\ proc[p] = "deaf"
    /\ proc' = [proc EXCEPT ![p] = "unlisted"]
    /\ runtimeFile' = IF runtimeFile = p THEN 0 ELSE runtimeFile
    /\ UNCHANGED <<reused, endpointLock, enabled, fleetOp, opsLeft, turns, restored, resumed>>

ReleaseLock(p) == endpointLock' = IF endpointLock = p THEN Free ELSE endpointLock

Exit(p) ==
    /\ \/ proc[p] = "unlisted"
       \/ "kill" \in FleetFaults /\ proc[p] \in AliveStates
    /\ proc' = [proc EXCEPT ![p] = "gone"]
    /\ ReleaseLock(p)
    /\ UNCHANGED <<reused, runtimeFile, enabled, fleetOp, opsLeft, turns, restored, resumed>>

ReusePid(p) ==
    /\ proc[p] = "gone" /\ runtimeFile = p /\ p \notin reused
    /\ reused' = reused \cup {p}
    /\ UNCHANGED <<proc, endpointLock, runtimeFile, enabled, fleetOp, opsLeft, turns, restored, resumed>>

-----------------------------------------------------------------------------
(* What Fleet can see *)

(* endpoint.Probe of the recorded runtime: any answer may also be late. *)
Probes(r) ==
    {"silent"} \cup
    (IF proc[r] \in Answers THEN {"match"}
     ELSE IF \E q \in Processes : proc[q] \in Answers \cup {"bound"} THEN {"mismatch"} ELSE {})

(* inspectRuntimeStatus with inspectRecordedProcess *)
HealthWith(r, probe) ==
    CASE proc[r] \in AliveStates /\ probe = "match" -> "healthy"
      [] r \in reused /\ probe # "match" -> "unhealthy"
      [] proc[r] \notin AliveStates /\ r \notin reused /\ probe = "silent" -> "unhealthy"
      [] OTHER -> "ambiguous"

Healths ==
    IF runtimeFile = 0
    THEN {IF endpointLock = Free THEN "stopped" ELSE "ambiguous"}
    ELSE {HealthWith(runtimeFile, probe) : probe \in Probes(runtimeFile)}

(* Status of a file that is absent takes the endpoint lock for a moment.   *)
PollBegin ==
    /\ runtimeFile = 0 /\ endpointLock = Free
    /\ endpointLock' = Polling
    /\ UNCHANGED <<proc, reused, runtimeFile, enabled, fleetOp, opsLeft, turns, restored, resumed>>

PollEnd ==
    /\ endpointLock = Polling
    /\ endpointLock' = Free
    /\ UNCHANGED <<proc, reused, runtimeFile, enabled, fleetOp, opsLeft, turns, restored, resumed>>

-----------------------------------------------------------------------------
(* Manager.Start, Stop, Restart, SetEnabled under acquireLifecycleLock *)

FirstStep(kind) ==
    CASE kind = "start" -> "inspectStart"
      [] kind = "restart" -> "inspectRestart"
      [] OTHER -> "inspectStop"

BeginOp(kind) ==
    /\ OpAt("idle") /\ opsLeft > 0
    /\ opsLeft' = opsLeft - 1
    /\ fleetOp' = [NoOp EXCEPT !.kind = kind, !.step = FirstStep(kind)]
    /\ UNCHANGED <<proc, reused, endpointLock, runtimeFile, enabled, turns, restored, resumed>>

(* SetEnabled(true) does not start the Agent. *)
Enable ==
    /\ OpAt("idle") /\ ~enabled
    /\ enabled' = TRUE
    /\ UNCHANGED <<proc, reused, endpointLock, runtimeFile, fleetOp, opsLeft, turns, restored, resumed>>

(* restartEntry: startableConflict, then the activity of a healthy Agent.  *)
(* A Turn that works, or that failed, is one to continue.                  *)
InspectRestart ==
    /\ OpAt("inspectRestart")
    /\ \/ ~enabled /\ EndOp
       \/ enabled /\ OpTo("inspectStop")
       \/ /\ enabled /\ "healthy" \in Healths /\ restored /\ turns # <<>>
          /\ turns[Len(turns)] \in {"working", "errored"}
          /\ fleetOp' = [fleetOp EXCEPT !.step = "inspectStop", !.seen = Len(turns),
                                        !.state = turns[Len(turns)]]
    /\ OnlyOp

(* stopEntryPolicy up to the request *)
InspectStop ==
    /\ OpAt("inspectStop")
    /\ \E health \in Healths :
          fleetOp' = CASE health = "stopped" -> [fleetOp EXCEPT !.step = "stopped"]
                       [] health = "unhealthy" -> [fleetOp EXCEPT !.step = "clean", !.r = runtimeFile]
                       [] health = "healthy" -> [fleetOp EXCEPT !.step = "request", !.r = runtimeFile]
                       [] OTHER -> NoOp
    /\ OnlyOp

(* handleEndpointShutdown: bound to the identity; with a restart intent    *)
(* the open Turn is interrupted first.  The answer may be lost.            *)
RequestShutdown ==
    /\ OpAt("request")
    /\ \/ /\ proc[fleetOp.r] \in Answers
          /\ proc' = [proc EXCEPT ![fleetOp.r] = "stopping"]
          /\ turns' = IF OpKind({"restart"}) /\ restored /\ Working
                      THEN [turns EXCEPT ![Len(turns)] = "restart"] ELSE turns
          /\ \/ fleetOp' = [fleetOp EXCEPT !.step = "waitStop", !.ack = OpKind({"restart"})]
             \/ EndOp
       \/ EndOp /\ UNCHANGED <<proc, turns>>
    /\ UNCHANGED <<reused, endpointLock, runtimeFile, enabled, opsLeft, restored, resumed>>

(* The poll of stopEntryPolicy, or its deadline *)
WaitStop ==
    LET r == fleetOp.r
        isGone == proc[r] = "gone"
    IN
    /\ OpAt("waitStop")
    /\ \/ EndOp
       \/ runtimeFile = 0 /\ isGone /\ OpTo("stopped")
       \/ runtimeFile = r /\ isGone /\ (r \in reused \/ Probes(r) = {"silent"}) /\ OpTo("clean")
    /\ OnlyOp

(* A start cleans before it spawns, a stop before it returns; a restart    *)
(* does the one after the other.                                           *)
AfterClean == IF fleetOp.starting THEN "spawn" ELSE "stopped"

(* Mutant of CleanStale: the endpoint maintenance guard is not taken. *)
CleanStaleUnguarded ==
    /\ OpAt("clean")
    /\ \/ EndOp
       \/ runtimeFile = fleetOp.r /\ proc[fleetOp.r] = "gone" /\ OpTo("remove")
    /\ OnlyOp

(* cleanStaleRuntime: the guard is tried, the file read again, the process *)
(* and the endpoint checked again.                                         *)
CleanStale ==
    LET r == fleetOp.r IN
    /\ OpAt("clean")
    /\ \/ EndOp /\ UNCHANGED endpointLock
       \/ /\ endpointLock = Free
          /\ \/ runtimeFile = 0 /\ OpTo(AfterClean) /\ UNCHANGED endpointLock
             \/ /\ runtimeFile = r /\ proc[r] \notin AliveStates
                /\ r \in reused \/ Probes(r) = {"silent"}
                /\ endpointLock' = Maintenance /\ OpTo("remove")
    /\ UNCHANGED <<proc, reused, runtimeFile, enabled, opsLeft, turns, restored, resumed>>

(* os.Remove, and the guard is closed. *)
RemoveStale ==
    /\ OpAt("remove")
    /\ runtimeFile' = 0
    /\ endpointLock' = IF endpointLock = Maintenance THEN Free ELSE endpointLock
    /\ OpTo(AfterClean)
    /\ UNCHANGED <<proc, reused, enabled, opsLeft, turns, restored, resumed>>

(* stopEntry has returned. *)
Stopped ==
    /\ OpAt("stopped")
    /\ IF OpKind({"restart"}) THEN OpTo("inspectStart") ELSE EndOp
    /\ enabled' = (enabled /\ ~OpKind({"disable"}))
    /\ UNCHANGED <<proc, reused, endpointLock, runtimeFile, opsLeft, turns, restored, resumed>>

(* What restartEntry does once startEntry has returned without an error.   *)
Replaced == IF fleetOp.seen # 0 /\ fleetOp.ack THEN OpTo("replaced") ELSE EndOp

(* startEntry, of a start and of a restart alike: a healthy process, even  *)
(* one that an earlier operation spawned, is started; a stale runtime is   *)
(* cleaned first.                                                          *)
InspectStart ==
    /\ OpAt("inspectStart")
    /\ \E health \in Healths :
          \/ enabled /\ health = "healthy" /\ Replaced
          \/ enabled /\ health = "stopped" /\ OpTo("spawn")
          \/ /\ enabled /\ health = "unhealthy"
             /\ fleetOp' = [fleetOp EXCEPT !.step = "clean", !.r = runtimeFile, !.starting = TRUE]
          \/ (~enabled \/ health = "ambiguous") /\ EndOp
    /\ OnlyOp

Spawn ==
    /\ OpAt("spawn")
    /\ \/ EndOp /\ UNCHANGED proc
       \/ \E p \in Processes :
             /\ proc[p] = "none" /\ \A q \in 1 .. (p - 1) : proc[q] # "none"
             /\ proc' = [proc EXCEPT ![p] = "booting"]
             /\ fleetOp' = [fleetOp EXCEPT !.step = "waitReady", !.child = p]
    /\ UNCHANGED <<reused, endpointLock, runtimeFile, enabled, opsLeft, turns, restored, resumed>>

MayGiveUp == "late" \in FleetFaults \/ proc[fleetOp.child] # "booting"

(* The loop of startEntry: the child exited or the deadline passed, the    *)
(* runtime belongs to another process, or the child is healthy.            *)
WaitReady ==
    /\ OpAt("waitReady")
    /\ \/ MayGiveUp /\ EndOp
       \/ /\ runtimeFile = fleetOp.child /\ "healthy" \in Healths
          /\ Replaced
    /\ OnlyOp

(* The runtime that is to confirm is read from the file again.             *)
ReadReplacement ==
    /\ OpAt("replaced")
    /\ \/ EndOp
       \/ runtimeFile # 0 /\ fleetOp' = [fleetOp EXCEPT !.step = "confirm", !.child = runtimeFile]
    /\ OnlyOp

(* confirmRestartInterrupted: the same Thread and Turn, idle, ended the    *)
(* way this restart ends it, or failed as before.                          *)
Confirmed ==
    /\ Len(turns) = fleetOp.seen
    /\ turns[Len(turns)] = IF fleetOp.state = "errored" THEN "errored" ELSE "restart"

ConfirmInterrupted ==
    /\ OpAt("confirm")
    /\ \/ EndOp
       \/ proc[fleetOp.child] \in Answers /\ restored /\ Confirmed /\ OpTo("post")
    /\ OnlyOp

(* The POST is lost, refused by an Agent that works on another Turn, or    *)
(* begins the Turn that continues; then the answer may still be lost.      *)
PostResume ==
    /\ OpAt("post")
    /\ EndOp
    /\ \/ UNCHANGED <<turns, resumed>>
       \/ /\ proc[fleetOp.child] \in Answers /\ restored /\ ~Working /\ Len(turns) < MaxTurns
          /\ turns' = Append(turns, "working")
          /\ resumed' = resumed \cup {fleetOp.seen}
    /\ UNCHANGED <<proc, reused, endpointLock, runtimeFile, enabled, opsLeft, restored>>

(* The Fleet process ends inside an operation: its locks are released. *)
FleetDies ==
    /\ ~OpAt("idle") /\ "kill" \in FleetFaults
    /\ OpAt("waitReady") => MayGiveUp
    /\ EndOp
    /\ endpointLock' = IF endpointLock = Maintenance THEN Free ELSE endpointLock
    /\ UNCHANGED <<proc, reused, runtimeFile, enabled, opsLeft, turns, restored, resumed>>

-----------------------------------------------------------------------------
FleetInit ==
    /\ proc = [p \in Processes |-> "none"] /\ reused = {}
    /\ endpointLock = Free /\ runtimeFile = 0
    /\ enabled = TRUE /\ fleetOp = NoOp /\ opsLeft = MaxOps
    /\ turns = <<>> /\ restored = FALSE /\ resumed = {}

FleetNext ==
    \/ \E p \in Processes :
          \/ Listen(p) \/ PublishRuntime(p) \/ RestoreThread(p)
          \/ BeginTurn(p)
          \/ \E state \in {"completed", "errored", "cancelled"} : FinishTurn(p, state)
          \/ CloseServer(p) \/ Unpublish(p) \/ Exit(p) \/ ReusePid(p)
    \/ PollBegin \/ PollEnd
    \/ \E kind \in {"start", "stop", "restart", "disable"} : BeginOp(kind)
    \/ Enable
    \/ InspectRestart \/ InspectStop \/ RequestShutdown \/ WaitStop
    \/ CleanStale \/ RemoveStale \/ Stopped
    \/ InspectStart \/ Spawn \/ WaitReady \/ ReadReplacement
    \/ ConfirmInterrupted \/ PostResume
    \/ FleetDies

FleetSpec == FleetInit /\ [][FleetNext]_fleetVars

-----------------------------------------------------------------------------
TurnStates == {"working", "completed", "errored", "cancelled", "restart"}
OpSteps == {"idle", "inspectStart", "inspectRestart", "inspectStop", "request", "waitStop", "clean",
            "remove", "stopped", "spawn", "waitReady", "replaced", "confirm", "post"}

OpRecords == [kind : {"none", "start", "stop", "restart", "disable"}, step : OpSteps,
              r : 0 .. MaxProcs, child : 0 .. MaxProcs, seen : 0 .. MaxTurns,
              state : {"none"} \cup TurnStates, ack : BOOLEAN, starting : BOOLEAN]

FleetTypeOK ==
    /\ proc \in [Processes -> AliveStates \cup {"none", "gone"}]
    /\ reused \subseteq Processes /\ resumed \subseteq 1 .. MaxTurns
    /\ endpointLock \in {Free, Maintenance, Polling} \cup Processes
    /\ runtimeFile \in {0} \cup Processes
    /\ enabled \in BOOLEAN /\ restored \in BOOLEAN /\ opsLeft \in 0 .. MaxOps
    /\ turns \in Seq(TurnStates) /\ Len(turns) <= MaxTurns
    /\ fleetOp \in OpRecords

(* cleanStaleRuntime removes a runtime file only while it holds the guard  *)
(* that keeps a process from binding: a process that is up stays recorded, *)
(* whatever Fleet cleaned up after an earlier one.                         *)
LiveRuntimeRecorded == \A p \in Processes : proc[p] \in Answers => runtimeFile = p

(* fleet/README: "Restart may submit one continuation only after the       *)
(* replacement confirms the same Thread and interrupted/failed Turn": a    *)
(* Turn is continued only if a restart interrupted it or it had failed,    *)
(* although it may end, the process that was asked may be another one than *)
(* Fleet spawned, and Turns begin between the steps of the restart.        *)
ContinuationEarned == \A id \in resumed : turns[id] \in {"restart", "errored"}

(* fleet/README: "Disable stops before persisting the flag": an Agent that *)
(* is disabled does not run.  This does not hold: a process that Fleet     *)
(* started and that binds late comes up after the stop has found nothing.  *)
DisabledNotRunning == ~enabled => \A p \in Processes : proc[p] # "up"

(* The runtime file and the restart continuation of an Agent (lifecycle.go) *)
FleetSafe == LiveRuntimeRecorded /\ ContinuationEarned

=============================================================================
