------------------------ MODULE FleetLifecycleProofs ------------------------
(***************************************************************************)
(* Proofs about Fleet's lifecycle operations (FleetLifecycle), for any     *)
(* number of processes, Turns and operations and with every fault: the     *)
(* runtime file of a process that answers is never removed, and a restart  *)
(* continues only a Turn that was interrupted or had failed.               *)
(*                                                                         *)
(* LiveRuntimeRecorded rests on the endpoint lock: whoever has bound the   *)
(* endpoint holds it until it is gone, so at most one process can answer,  *)
(* and Fleet removes a runtime file only while it holds the lock itself.   *)
(* ContinuationEarned rests on the states a Turn cannot leave, and on what *)
(* Fleet confirmed before it posts.                                        *)
(***************************************************************************)
EXTENDS FleetLifecycle, SequenceTheorems, TLAPS

(* A process that has bound the endpoint, and has not ended, has the lock. *)
LockOwned ==
    \A p \in Processes : proc[p] \in AliveStates \ {"booting"} => endpointLock = p

(* The removal of a stale file happens under the maintenance guard.        *)
RemovalGuarded == OpAt("remove") => endpointLock = Maintenance

(* A Turn that is done for good, as a continuation requires.               *)
Interrupted(id) == id \in 1 .. Len(turns) /\ turns[id] \in {"restart", "errored"}

(* What the operation knows of the Turn it is to continue.                 *)
ResumeConfirmed ==
    /\ OpAt("replaced") \/ OpAt("confirm") => fleetOp.seen # 0
    /\ OpAt("post") => Interrupted(fleetOp.seen)

(* The inductive invariant. *)
FleetInv ==
    /\ FleetTypeOK /\ LockOwned /\ RemovalGuarded /\ LiveRuntimeRecorded
    /\ ResumeConfirmed /\ \A id \in resumed : Interrupted(id)

-----------------------------------------------------------------------------
(* The holders of the endpoint lock are different.                         *)
LEMMA Holders ==
  /\ Free \notin Processes /\ Maintenance \notin Processes /\ Polling \notin Processes
  /\ Free # Maintenance /\ Free # Polling /\ Maintenance # Polling
  /\ Processes \subseteq 0 .. MaxProcs /\ 0 \in 0 .. MaxProcs /\ 0 \in 0 .. MaxTurns
  /\ \A k \in 0 .. MaxProcs : k # 0 => k \in Processes
  BY FleetBounds DEF Processes, Free, Maintenance, Polling

(* Operations begin and end with a well-formed record.                     *)
LEMMA NoOpTyped == NoOp \in OpRecords /\ NoOp.step = "idle"
  BY Holders DEF NoOp, OpRecords, OpSteps

(* Going to another step keeps everything else the operation knows.        *)
LEMMA OpMoves ==
  ASSUME FleetTypeOK, NEW s \in OpSteps, OpTo(s)
  PROVE  fleetOp' \in OpRecords /\ fleetOp'.step = s /\ fleetOp'.seen = fleetOp.seen
  BY DEF FleetTypeOK, OpTo, OpRecords

(* A step that keeps the Turns that are done keeps what was interrupted.   *)
LEMMA InterruptedStays ==
  ASSUME FleetTypeOK, NEW id, Interrupted(id),
         Len(turns') \in Nat, Len(turns) <= Len(turns'),
         \A i \in 1 .. Len(turns) : turns[i] # "working" => turns'[i] = turns[i]
  PROVE  Interrupted(id)'
  BY DEF FleetTypeOK, Interrupted

(* The invariant holds at the start.                                       *)
LEMMA FleetStart == FleetInit => FleetInv
  <1> SUFFICES ASSUME FleetInit PROVE FleetInv
    OBVIOUS
  <1>1. FleetTypeOK
    <2>1. turns \in Seq(TurnStates) /\ Len(turns) = 0 /\ 0 <= MaxTurns /\ MaxOps \in 0 .. MaxOps
      BY FleetBounds DEF FleetInit
    <2>2. proc \in [Processes -> AliveStates \cup {"none", "gone"}]
      BY DEF FleetInit
    <2> QED BY <2>1, <2>2, NoOpTyped DEF FleetInit, FleetTypeOK
  <1>2. LockOwned /\ RemovalGuarded /\ LiveRuntimeRecorded /\ ResumeConfirmed
    BY NoOpTyped DEF FleetInit, LockOwned, RemovalGuarded, LiveRuntimeRecorded, ResumeConfirmed, OpAt,
                     AliveStates, Answers
  <1> QED BY <1>1, <1>2 DEF FleetInit, FleetInv

(* A step of the operation alone keeps the invariant if it says nothing    *)
(* new of a removal or a continuation.                                     *)
LEMMA OpAlone ==
  ASSUME FleetInv, OnlyOp, fleetOp' \in OpRecords, fleetOp'.step # "remove",
         fleetOp'.step \in {"replaced", "confirm"} => fleetOp'.seen # 0,
         fleetOp'.step = "post" => Interrupted(fleetOp'.seen)
  PROVE  FleetInv'
  <1>1. FleetTypeOK'
    BY DEF FleetInv, FleetTypeOK, OnlyOp
  <1>2. LockOwned' /\ RemovalGuarded' /\ LiveRuntimeRecorded'
    BY DEF FleetInv, LockOwned, RemovalGuarded, LiveRuntimeRecorded, OnlyOp, OpAt
  <1>3. ResumeConfirmed' /\ \A id \in resumed' : Interrupted(id)'
    BY DEF FleetInv, ResumeConfirmed, Interrupted, OnlyOp, OpAt
  <1> QED BY <1>1, <1>2, <1>3 DEF FleetInv

(* What Fleet inspects, waits for and confirms.                            *)
LEMMA InspectStep ==
  ASSUME FleetInv,
         \/ InspectRestart \/ InspectStop \/ WaitStop \/ InspectStart
         \/ WaitReady \/ ReadReplacement \/ ConfirmInterrupted
  PROVE  FleetInv'
  <1> USE DEF FleetInv
  <1>0. OnlyOp /\ fleetOp \in OpRecords /\ runtimeFile \in 0 .. MaxProcs
    BY Holders DEF InspectRestart, InspectStop, WaitStop, InspectStart, WaitReady, ReadReplacement,
                   ConfirmInterrupted, FleetTypeOK
  <1>1. CASE EndOp
    BY <1>0, <1>1, NoOpTyped, OpAlone DEF EndOp
  <1>2. CASE \E s \in {"inspectStop", "stopped", "clean", "spawn"} : OpTo(s)
    BY <1>0, <1>2, OpMoves, OpAlone DEF OpSteps
  <1>3. CASE InspectRestart
    <2>1. CASE /\ turns # <<>>
               /\ fleetOp' = [fleetOp EXCEPT !.step = "inspectStop", !.seen = Len(turns),
                                             !.state = turns[Len(turns)]]
      <3>1. Len(turns) \in 0 .. MaxTurns /\ turns[Len(turns)] \in TurnStates
        BY <2>1, FleetBounds DEF FleetTypeOK
      <3>2. fleetOp' \in OpRecords /\ fleetOp'.step = "inspectStop"
        BY <1>0, <2>1, <3>1 DEF OpRecords, OpSteps
      <3> QED BY <1>0, <3>2, OpAlone
    <2> QED BY <1>1, <1>2, <1>3, <2>1 DEF InspectRestart
  <1>r. CASE Replaced
    <2>1. CASE fleetOp.seen # 0 /\ OpTo("replaced")
      BY <1>0, <2>1, OpMoves, OpAlone DEF OpSteps
    <2> QED BY <1>1, <1>r, <2>1 DEF Replaced
  <1>4. CASE InspectStop
    <2>1. \/ fleetOp' = [fleetOp EXCEPT !.step = "stopped"]
          \/ \E s \in {"clean", "request"} : fleetOp' = [fleetOp EXCEPT !.step = s, !.r = runtimeFile]
          \/ fleetOp' = NoOp
      BY <1>4 DEF InspectStop
    <2>2. ASSUME NEW s \in {"clean", "request"}, fleetOp' = [fleetOp EXCEPT !.step = s, !.r = runtimeFile]
          PROVE  FleetInv'
      <3>1. fleetOp' \in OpRecords /\ fleetOp'.step = s
        BY <1>0, <2>2 DEF OpRecords, OpSteps
      <3> QED BY <1>0, <3>1, OpAlone
    <2> QED BY <1>1, <1>2, <2>1, <2>2 DEF OpTo, EndOp
  <1>s. CASE InspectStart
    <2>1. CASE fleetOp' = [fleetOp EXCEPT !.step = "clean", !.r = runtimeFile, !.starting = TRUE]
      <3>1. fleetOp' \in OpRecords /\ fleetOp'.step = "clean"
        BY <1>0, <2>1 DEF OpRecords, OpSteps
      <3> QED BY <1>0, <3>1, OpAlone
    <2> QED BY <1>1, <1>2, <1>r, <1>s, <2>1 DEF InspectStart
  <1>5. CASE WaitStop
    BY <1>1, <1>2, <1>5 DEF WaitStop
  <1>6. CASE WaitReady
    BY <1>1, <1>r, <1>6 DEF WaitReady
  <1>a. CASE ReadReplacement
    <2>1. CASE runtimeFile # 0 /\ fleetOp' = [fleetOp EXCEPT !.step = "confirm", !.child = runtimeFile]
      <3>1. /\ fleetOp' \in OpRecords /\ fleetOp'.step = "confirm" /\ fleetOp'.seen = fleetOp.seen
            /\ fleetOp.seen # 0
        BY <1>0, <1>a, <2>1 DEF OpRecords, OpSteps, ReadReplacement, ResumeConfirmed
      <3> QED BY <1>0, <3>1, OpAlone
    <2> QED BY <1>1, <1>a, <2>1 DEF ReadReplacement
  <1>7. CASE ConfirmInterrupted
    <2>1. CASE Confirmed /\ OpTo("post")
      <3>1. Interrupted(fleetOp.seen)
        <4>1. fleetOp.seen # 0 /\ Len(turns) = fleetOp.seen /\ Len(turns) \in Nat
          BY <1>7, <2>1 DEF ConfirmInterrupted, ResumeConfirmed, Confirmed, FleetTypeOK
        <4> QED BY <2>1, <4>1 DEF Confirmed, Interrupted
      <3> QED BY <1>0, <2>1, <3>1, OpMoves, OpAlone DEF OpSteps
    <2> QED BY <1>1, <1>7, <2>1 DEF ConfirmInterrupted
  <1> QED BY <1>3, <1>4, <1>s, <1>5, <1>6, <1>a, <1>7

(* Operations begin and move on without touching the processes.            *)
LEMMA OperationStep ==
  ASSUME FleetInv,
         \/ \E kind \in {"start", "stop", "restart", "disable"} : BeginOp(kind)
         \/ Enable \/ Stopped
  PROVE  FleetInv'
  <1> USE DEF FleetInv
  <1>1. /\ UNCHANGED <<proc, reused, endpointLock, runtimeFile, turns, restored, resumed>>
        /\ opsLeft' \in 0 .. MaxOps /\ enabled' \in BOOLEAN
    <2>1. CASE Enable \/ Stopped
      BY <2>1 DEF FleetTypeOK, Enable, Stopped
    <2>2. ASSUME NEW kind, BeginOp(kind) PROVE <1>1!:
      BY <2>2, FleetBounds DEF FleetTypeOK, BeginOp
    <2> QED BY <2>1, <2>2
  <1>2. /\ fleetOp' \in OpRecords
        /\ fleetOp' = fleetOp \/ fleetOp'.step \notin {"remove", "replaced", "confirm", "post"}
    <2>1. CASE Enable
      BY <2>1 DEF Enable, FleetTypeOK
    <2>2. CASE Stopped
      BY <2>2, NoOpTyped, OpMoves DEF Stopped, EndOp, OpSteps
    <2>3. ASSUME NEW kind \in {"start", "stop", "restart", "disable"}, BeginOp(kind)
          PROVE  <1>2!:
      <3>1. FirstStep(kind) \in {"inspectStart", "inspectRestart", "inspectStop"}
        BY DEF FirstStep
      <3> QED BY <2>3, <3>1, NoOpTyped DEF BeginOp, OpRecords, OpSteps
    <2> QED BY <2>1, <2>2, <2>3
  <1>3. FleetTypeOK'
    BY <1>1, <1>2 DEF FleetTypeOK
  <1>4. LockOwned' /\ RemovalGuarded' /\ LiveRuntimeRecorded'
    BY <1>1, <1>2 DEF LockOwned, RemovalGuarded, LiveRuntimeRecorded, OpAt
  <1>5. ResumeConfirmed' /\ \A id \in resumed' : Interrupted(id)'
    BY <1>1, <1>2 DEF ResumeConfirmed, Interrupted, OpAt
  <1> QED BY <1>3, <1>4, <1>5

(* A step that leaves the operation and the Turns alone, and keeps the     *)
(* lock with whoever has bound the endpoint.                               *)
LEMMA ProcessAlone ==
  ASSUME FleetInv, UNCHANGED <<enabled, fleetOp, opsLeft, turns, resumed>>,
         proc' \in [Processes -> AliveStates \cup {"none", "gone"}],
         reused' \subseteq Processes, restored' \in BOOLEAN,
         endpointLock' \in {Free, Maintenance, Polling} \cup Processes,
         runtimeFile' \in {0} \cup Processes,
         LockOwned', LiveRuntimeRecorded', endpointLock = Maintenance => endpointLock' = Maintenance
  PROVE  FleetInv'
  <1>1. FleetTypeOK'
    BY DEF FleetInv, FleetTypeOK
  <1>2. RemovalGuarded' /\ ResumeConfirmed' /\ \A id \in resumed' : Interrupted(id)'
    BY DEF FleetInv, RemovalGuarded, ResumeConfirmed, Interrupted, OpAt
  <1> QED BY <1>1, <1>2 DEF FleetInv

(* Binding, publishing, unpublishing and ending; a stranger's PID; polls.  *)
LEMMA ProcessStep ==
  ASSUME FleetInv,
         \/ \E p \in Processes : Listen(p) \/ PublishRuntime(p) \/ Unpublish(p) \/ Exit(p) \/ ReusePid(p)
         \/ PollBegin \/ PollEnd
  PROVE  FleetInv'
  <1> USE Holders DEF FleetInv, FleetTypeOK
  <1>1. ASSUME NEW p \in Processes, Listen(p) PROVE FleetInv'
    <2>1. LockOwned' /\ LiveRuntimeRecorded'
      BY <1>1 DEF Listen, LockOwned, LiveRuntimeRecorded, AliveStates, Answers
    <2> QED BY <1>1, <2>1, ProcessAlone DEF Listen, AliveStates
  <1>2. ASSUME NEW p \in Processes, PublishRuntime(p) PROVE FleetInv'
    <2>1. LockOwned' /\ LiveRuntimeRecorded'
      BY <1>2 DEF PublishRuntime, LockOwned, LiveRuntimeRecorded, AliveStates, Answers
    <2> QED BY <1>2, <2>1, ProcessAlone DEF PublishRuntime, AliveStates
  <1>3. ASSUME NEW p \in Processes, Unpublish(p) PROVE FleetInv'
    <2>1. LockOwned' /\ LiveRuntimeRecorded'
      BY <1>3 DEF Unpublish, LockOwned, LiveRuntimeRecorded, AliveStates, Answers
    <2> QED BY <1>3, <2>1, ProcessAlone DEF Unpublish, AliveStates
  <1>4. ASSUME NEW p \in Processes, Exit(p) PROVE FleetInv'
    <2>1. LockOwned' /\ LiveRuntimeRecorded'
      BY <1>4 DEF Exit, ReleaseLock, LockOwned, LiveRuntimeRecorded, AliveStates, Answers
    <2> QED BY <1>4, <2>1, ProcessAlone DEF Exit, ReleaseLock
  <1>5. ASSUME NEW p \in Processes, ReusePid(p) PROVE FleetInv'
    <2>1. LockOwned' /\ LiveRuntimeRecorded'
      BY <1>5 DEF ReusePid, LockOwned, LiveRuntimeRecorded
    <2> QED BY <1>5, <2>1, ProcessAlone DEF ReusePid
  <1>6. CASE PollBegin \/ PollEnd
    <2>1. LockOwned' /\ LiveRuntimeRecorded'
      BY <1>6 DEF PollBegin, PollEnd, LockOwned, LiveRuntimeRecorded
    <2> QED BY <1>6, <2>1, ProcessAlone DEF PollBegin, PollEnd
  <1> QED BY <1>1, <1>2, <1>3, <1>4, <1>5, <1>6

(* A step on the Turns: those that are done stay as they are, and nobody   *)
(* answers who did not answer before.                                      *)
LEMMA TurnsAlone ==
  ASSUME FleetInv, UNCHANGED <<reused, endpointLock, runtimeFile, enabled, opsLeft, resumed>>,
         fleetOp' \in OpRecords,
         fleetOp' = fleetOp \/ fleetOp'.step \notin {"remove", "replaced", "confirm", "post"},
         proc' \in [Processes -> AliveStates \cup {"none", "gone"}], restored' \in BOOLEAN,
         \A p \in Processes : proc'[p] = proc[p] \/ (proc[p] \in Answers /\ proc'[p] \in {"stopping", "deaf"}),
         turns' \in Seq(TurnStates), Len(turns) <= Len(turns'), Len(turns') <= MaxTurns,
         \A i \in 1 .. Len(turns) : turns[i] # "working" => turns'[i] = turns[i]
  PROVE  FleetInv'
  <1> USE DEF FleetInv
  <1>1. FleetTypeOK'
    BY DEF FleetTypeOK
  <1>2. LockOwned' /\ RemovalGuarded' /\ LiveRuntimeRecorded'
    BY DEF LockOwned, RemovalGuarded, LiveRuntimeRecorded, OpAt, Answers, AliveStates
  <1>3. \A id : Interrupted(id) => Interrupted(id)'
    <2> SUFFICES ASSUME NEW id, Interrupted(id) PROVE Interrupted(id)'
      OBVIOUS
    <2>1. Len(turns') \in Nat
      OBVIOUS
    <2> QED BY <2>1, InterruptedStays
  <1>4. ResumeConfirmed' /\ \A id \in resumed' : Interrupted(id)'
    BY <1>3 DEF ResumeConfirmed, OpAt
  <1> QED BY <1>1, <1>2, <1>4

(* The selected Turn ends, in whatever way.                                *)
LEMMA LastEnds ==
  ASSUME FleetTypeOK, Working, NEW state \in TurnStates,
         turns' = [turns EXCEPT ![Len(turns)] = state]
  PROVE  /\ turns' \in Seq(TurnStates) /\ Len(turns') = Len(turns)
         /\ \A i \in 1 .. Len(turns) : turns[i] # "working" => turns'[i] = turns[i]
  BY DEF FleetTypeOK, Working

(* Turns begin, end, and are cancelled by the next process.                *)
LEMMA TurnStep ==
  ASSUME FleetInv, NEW p \in Processes,
         \/ RestoreThread(p) \/ BeginTurn(p)
         \/ \E state \in {"completed", "errored", "cancelled"} : FinishTurn(p, state)
         \/ CloseServer(p)
  PROVE  FleetInv'
  <1> USE DEF FleetInv
  <1>0. turns \in Seq(TurnStates) /\ Len(turns) \in Nat /\ Len(turns) <= MaxTurns /\ MaxTurns \in Nat
    BY FleetBounds DEF FleetTypeOK
  <1>1. CASE RestoreThread(p)
    <2>1. turns' \in Seq(TurnStates) /\ Len(turns') = Len(turns)
      <3>1. turns \in [1 .. Len(turns) -> TurnStates] /\ DOMAIN turns = 1 .. Len(turns)
        BY <1>0
      <3>2. turns' \in [1 .. Len(turns) -> TurnStates]
        BY <1>1, <3>1 DEF RestoreThread, TurnStates
      <3> QED BY <1>0, <3>2
    <2>2. \A i \in 1 .. Len(turns) : turns[i] # "working" => turns'[i] = turns[i]
      BY <1>0, <1>1 DEF RestoreThread
    <2> QED BY <1>0, <1>1, <2>1, <2>2, TurnsAlone DEF RestoreThread, FleetTypeOK
  <1>2. CASE BeginTurn(p)
    <2>1. /\ turns' \in Seq(TurnStates) /\ Len(turns') = Len(turns) + 1
          /\ \A i \in 1 .. Len(turns) : turns'[i] = turns[i]
      BY <1>0, <1>2 DEF BeginTurn, TurnStates
    <2> QED BY <1>0, <1>2, <2>1, TurnsAlone DEF BeginTurn, FleetTypeOK
  <1>3. ASSUME NEW state \in {"completed", "errored", "cancelled"}, FinishTurn(p, state) PROVE FleetInv'
    <2>1. /\ turns' \in Seq(TurnStates) /\ Len(turns') = Len(turns)
          /\ \A i \in 1 .. Len(turns) : turns[i] # "working" => turns'[i] = turns[i]
      BY <1>3, LastEnds DEF FinishTurn, TurnStates
    <2>2. UNCHANGED <<proc, reused, endpointLock, runtimeFile, enabled, fleetOp, opsLeft, restored, resumed>>
      BY <1>3 DEF FinishTurn
    <2>3. /\ fleetOp \in OpRecords /\ restored \in BOOLEAN
          /\ proc \in [Processes -> AliveStates \cup {"none", "gone"}]
      BY DEF FleetTypeOK
    <2> QED BY <1>0, <2>1, <2>2, <2>3, TurnsAlone
  <1>4. CASE CloseServer(p)
    <2>1. /\ turns' \in Seq(TurnStates) /\ Len(turns') = Len(turns)
          /\ \A i \in 1 .. Len(turns) : turns[i] # "working" => turns'[i] = turns[i]
      BY <1>0, <1>4, LastEnds DEF CloseServer, TurnStates
    <2>2. /\ proc' \in [Processes -> AliveStates \cup {"none", "gone"}]
          /\ \A q \in Processes : proc'[q] = proc[q] \/ (proc[q] \in Answers /\ proc'[q] \in {"stopping", "deaf"})
      BY <1>4 DEF CloseServer, FleetTypeOK, AliveStates, Answers
    <2>3. UNCHANGED <<reused, endpointLock, runtimeFile, enabled, fleetOp, opsLeft, restored, resumed>>
      BY <1>4 DEF CloseServer
    <2>4. fleetOp \in OpRecords /\ restored \in BOOLEAN
      BY DEF FleetTypeOK
    <2> QED BY <1>0, <2>1, <2>2, <2>3, <2>4, TurnsAlone
  <1> QED BY <1>1, <1>2, <1>3, <1>4

(* Fleet asks a process to shut down; a restart interrupts its Turn.       *)
LEMMA RequestShutdownStep ==
  ASSUME FleetInv, RequestShutdown
  PROVE  FleetInv'
  <1> USE DEF FleetInv
  <1>0. /\ fleetOp \in OpRecords /\ OpAt("request")
        /\ turns \in Seq(TurnStates) /\ Len(turns) \in Nat /\ Len(turns) <= MaxTurns /\ MaxTurns \in Nat
    BY FleetBounds DEF FleetTypeOK, RequestShutdown
  <1>1. CASE EndOp /\ UNCHANGED <<proc, turns>>
    BY <1>0, <1>1, NoOpTyped, TurnsAlone DEF RequestShutdown, EndOp, FleetTypeOK
  <1>2. CASE /\ proc[fleetOp.r] \in Answers
             /\ proc' = [proc EXCEPT ![fleetOp.r] = "stopping"]
             /\ turns' = IF OpKind({"restart"}) /\ restored /\ Working
                         THEN [turns EXCEPT ![Len(turns)] = "restart"] ELSE turns
             /\ \/ fleetOp' = [fleetOp EXCEPT !.step = "waitStop", !.ack = OpKind({"restart"})]
                \/ EndOp
    <2>1. /\ turns' \in Seq(TurnStates) /\ Len(turns') = Len(turns)
          /\ \A i \in 1 .. Len(turns) : turns[i] # "working" => turns'[i] = turns[i]
      BY <1>0, <1>2, LastEnds DEF TurnStates
    <2>2. /\ proc' \in [Processes -> AliveStates \cup {"none", "gone"}]
          /\ \A q \in Processes : proc'[q] = proc[q] \/ (proc[q] \in Answers /\ proc'[q] \in {"stopping", "deaf"})
      BY <1>2 DEF FleetTypeOK, AliveStates, Answers
    <2>3. fleetOp' \in OpRecords /\ fleetOp'.step \in {"waitStop", "idle"}
      <3>1. CASE EndOp
        BY <3>1, NoOpTyped DEF EndOp
      <3>2. CASE fleetOp' = [fleetOp EXCEPT !.step = "waitStop", !.ack = OpKind({"restart"})]
        <4>1. OpKind({"restart"}) \in BOOLEAN
          BY DEF OpKind
        <4> QED BY <1>0, <3>2, <4>1 DEF OpRecords, OpSteps
      <3> QED BY <1>2, <3>1, <3>2
    <2> QED BY <1>0, <2>1, <2>2, <2>3, TurnsAlone DEF RequestShutdown, FleetTypeOK
  <1> QED BY <1>1, <1>2 DEF RequestShutdown

(* Fleet takes the guard, removes a stale file under it, or dies.          *)
LEMMA MaintenanceStep ==
  ASSUME FleetInv, CleanStale \/ RemoveStale \/ FleetDies
  PROVE  FleetInv'
  <1> USE Holders DEF FleetInv
  <1>0. UNCHANGED <<proc, reused, enabled, opsLeft, turns, restored, resumed>>
    BY DEF CleanStale, RemoveStale, FleetDies
  <1>1. /\ fleetOp' \in OpRecords /\ fleetOp'.step \notin {"replaced", "confirm", "post"}
        /\ fleetOp'.step = "remove" => endpointLock' = Maintenance
        /\ endpointLock' = endpointLock \/ (endpointLock = Free /\ endpointLock' = Maintenance)
             \/ (endpointLock = Maintenance /\ endpointLock' = Free)
        /\ runtimeFile' = runtimeFile \/ (endpointLock = Maintenance /\ runtimeFile' = 0)
    <2>0. AfterClean \in {"spawn", "stopped"}
      BY DEF AfterClean
    <2>1. CASE CleanStale
      BY <2>0, <2>1, OpMoves, NoOpTyped DEF CleanStale, EndOp, OpSteps
    <2>2. CASE RemoveStale
      BY <2>0, <2>2, OpMoves DEF RemoveStale, RemovalGuarded, OpSteps
    <2>3. CASE FleetDies
      BY <2>3, NoOpTyped DEF FleetDies, EndOp
    <2> QED BY <2>1, <2>2, <2>3
  <1>2. FleetTypeOK'
    BY <1>0, <1>1 DEF FleetTypeOK
  <1>3. LockOwned' /\ RemovalGuarded' /\ LiveRuntimeRecorded'
    BY <1>0, <1>1 DEF LockOwned, RemovalGuarded, LiveRuntimeRecorded, OpAt, Answers, AliveStates
  <1>4. ResumeConfirmed' /\ \A id \in resumed' : Interrupted(id)'
    BY <1>0, <1>1 DEF ResumeConfirmed, Interrupted, OpAt
  <1> QED BY <1>2, <1>3, <1>4

(* Fleet spawns a process.                                                 *)
LEMMA SpawnStep ==
  ASSUME FleetInv, Spawn
  PROVE  FleetInv'
  <1> USE Holders DEF FleetInv
  <1>0. /\ UNCHANGED <<reused, endpointLock, runtimeFile, enabled, opsLeft, turns, restored, resumed>>
        /\ fleetOp \in OpRecords
    BY DEF Spawn, FleetTypeOK
  <1>1. /\ proc' \in [Processes -> AliveStates \cup {"none", "gone"}]
        /\ \A q \in Processes : proc'[q] = proc[q] \/ proc'[q] = "booting"
    BY DEF Spawn, FleetTypeOK, AliveStates
  <1>2. fleetOp' \in OpRecords /\ fleetOp'.step \in {"idle", "waitReady"}
    <2>1. CASE EndOp
      BY <2>1, NoOpTyped DEF EndOp
    <2>2. ASSUME NEW p \in Processes, fleetOp' = [fleetOp EXCEPT !.step = "waitReady", !.child = p]
          PROVE  <1>2!:
      BY <1>0, <2>2 DEF OpRecords, OpSteps
    <2> QED BY <2>1, <2>2 DEF Spawn
  <1>4. FleetTypeOK'
    BY <1>0, <1>1, <1>2 DEF FleetTypeOK
  <1>5. LockOwned' /\ RemovalGuarded' /\ LiveRuntimeRecorded'
    BY <1>0, <1>1, <1>2 DEF LockOwned, RemovalGuarded, LiveRuntimeRecorded, OpAt, Answers, AliveStates
  <1>6. ResumeConfirmed' /\ \A id \in resumed' : Interrupted(id)'
    BY <1>0, <1>2 DEF ResumeConfirmed, Interrupted, OpAt
  <1> QED BY <1>4, <1>5, <1>6

(* Fleet posts the continuation it has confirmed.                          *)
LEMMA PostStep ==
  ASSUME FleetInv, PostResume
  PROVE  FleetInv'
  <1> USE DEF FleetInv
  <1>0. /\ UNCHANGED <<proc, reused, endpointLock, runtimeFile, enabled, opsLeft, restored>>
        /\ fleetOp' = NoOp /\ Interrupted(fleetOp.seen)
        /\ turns \in Seq(TurnStates) /\ Len(turns) \in Nat /\ Len(turns) <= MaxTurns /\ MaxTurns \in Nat
    BY FleetBounds DEF PostResume, EndOp, ResumeConfirmed, FleetTypeOK
  <1>1. /\ turns' \in Seq(TurnStates) /\ Len(turns') \in Nat /\ Len(turns) <= Len(turns')
        /\ Len(turns') <= MaxTurns
        /\ \A i \in 1 .. Len(turns) : turns'[i] = turns[i]
    BY <1>0 DEF PostResume, TurnStates
  <1>2. \A id : Interrupted(id) => Interrupted(id)'
    BY <1>1, InterruptedStays
  <1>3. resumed' \subseteq resumed \cup {fleetOp.seen}
    BY DEF PostResume
  <1>4. FleetTypeOK'
    <2>1. fleetOp.seen \in 1 .. MaxTurns
      BY <1>0 DEF Interrupted
    <2> QED BY <1>0, <1>1, <1>3, <2>1, NoOpTyped DEF FleetTypeOK
  <1>5. LockOwned' /\ RemovalGuarded' /\ LiveRuntimeRecorded'
    BY <1>0, NoOpTyped DEF LockOwned, RemovalGuarded, LiveRuntimeRecorded, OpAt
  <1>6. ResumeConfirmed' /\ \A id \in resumed' : Interrupted(id)'
    BY <1>0, <1>2, <1>3, NoOpTyped DEF ResumeConfirmed, OpAt
  <1> QED BY <1>4, <1>5, <1>6

-----------------------------------------------------------------------------
(* The inductive invariant of Fleet's lifecycle operations, with processes *)
(* that boot late, are killed anywhere and lose their PID (fleet/          *)
(* lifecycle.go, framework/endpoint).                                      *)
THEOREM FleetInvariant == FleetSpec => []FleetInv
  <1>1. FleetInv /\ [FleetNext]_fleetVars => FleetInv'
    <2> SUFFICES ASSUME FleetInv, [FleetNext]_fleetVars PROVE FleetInv'
      OBVIOUS
    <2>1. CASE UNCHANGED fleetVars
      BY <2>1
      DEF fleetVars, FleetInv, FleetTypeOK, LockOwned, RemovalGuarded, LiveRuntimeRecorded,
          ResumeConfirmed, Interrupted, OpAt
    <2>2. CASE FleetNext
      BY <2>2, ProcessStep, TurnStep, OperationStep, InspectStep, RequestShutdownStep, MaintenanceStep,
         SpawnStep, PostStep
      DEF FleetNext
    <2> QED BY <2>1, <2>2
  <1> QED BY <1>1, FleetStart, PTL DEF FleetSpec

(* FleetSafe: a process that answers stays recorded whatever Fleet cleans  *)
(* up after an earlier one, and a continuation begins only for a Turn that *)
(* a restart interrupted or that had failed, also when the process that    *)
(* confirms it is one that an earlier operation spawned.                   *)
THEOREM FleetStaysSafe == FleetSpec => []FleetSafe
  <1>1. FleetInv => FleetSafe
    BY DEF FleetInv, FleetSafe, ContinuationEarned, Interrupted
  <1> QED BY <1>1, FleetInvariant, PTL

=============================================================================
