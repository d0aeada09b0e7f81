------------------------ MODULE ManagedServicesProofs -----------------------
(***************************************************************************)
(* Proofs about Fleet's managed services (ManagedServices), for any number *)
(* of managers, launches and operations: once stopped a service stays      *)
(* stopped, the process that owns the storage is the one launched last and *)
(* the only one clients find, and launches are bounded.                    *)
(*                                                                         *)
(* The inductive invariant follows the two locks.  Only the manager with   *)
(* the lifecycle lock changes the desired state, the intent and the public *)
(* record; a process serves only while it holds the writer lock, and the   *)
(* intent changes only while a manager holds it.                           *)
(***************************************************************************)
EXTENDS ManagedServices, TLAPS

(* A manager that is past the choice of its operation has the lifecycle    *)
(* lock.                                                                   *)
GuardHeld == \A m \in Managers : mgr[m].step \notin {"idle", "status", "choose"} => guard = m

(* The writer lock is with the manager that replaces or removes the        *)
(* intent, or with the process that was granted it.                        *)
WriterHeld ==
    /\ \A m \in Managers : mgr[m].step \in {"intend", "unpublish", "cleared"} => writer = m
    /\ \A i \in Instances : instance[i] \in ServingStates \cup {"checking"} => writer = i

(* The public record names the current launch or none, from the moment its *)
(* process exists.                                                         *)
RecordCurrent ==
    /\ \A i \in Instances : intent = i /\ instance[i] \in ServingStates \cup {"spawned", "checking"} =>
           discovery \in {0, i}
    /\ \A i \in Instances : instance[i] \in ServingStates => intent = i

(* Between the intent and the launch nothing has been launched for it.     *)
LaunchPrepared ==
    \A m \in Managers :
        /\ mgr[m].step \in {"unpublish", "spawn"} => intent \in Instances /\ instance[intent] = "intended"
        /\ mgr[m].step = "spawn" => discovery = 0

(* What the manager at work has written as the desired state; a reconcile  *)
(* is not an explicit stop.                                                *)
DesiredWritten ==
    \A m \in Managers :
        /\ mgr[m].step \in {"fence", "intend", "unpublish", "spawn"} => wanted.state = "running"
        /\ mgr[m].step \in {"status", "choose"} => mgr[m].op = "reconcile"
        /\ mgr[m].op = "stop" /\ mgr[m].step \in {"poll", "cleared"} => wanted.state = "stopped"

(* After a stop the desired state says so and no process serves.           *)
QuietStopped ==
    quiet => wanted.state = "stopped" /\ \A i \in Instances : instance[i] \notin ServingStates

(* Attempts are counted before they are made.                              *)
AttemptsCounted ==
    /\ launches <= MaxAttempts
    /\ wanted.state = "running" =>
         /\ launches <= wanted.attempts
         /\ \A m \in Managers : mgr[m].step \in {"intend", "unpublish", "spawn"} => launches < wanted.attempts

(* The inductive invariant. *)
ServiceInv ==
    /\ MTypeOK /\ GuardHeld /\ WriterHeld /\ RecordCurrent /\ LaunchPrepared
    /\ DesiredWritten /\ QuietStopped /\ AttemptsCounted

-----------------------------------------------------------------------------
(* Managers, processes and Nobody are different.                           *)
LEMMA Distinct ==
  /\ \A m \in Managers : m # Nobody /\ m \notin Instances
  /\ Nobody \notin Instances
  /\ Instances \subseteq 0 .. MaxInstances /\ 0 \in 0 .. MaxInstances /\ 0 \in 0 .. MaxAttempts
  /\ \A k \in 0 .. MaxInstances : k # 0 => k \in Instances
  /\ MaxAttempts \in Nat
  BY ServiceBounds DEF Nobody, Instances

(* What a manager remembers stays well formed as it goes from step to step *)
LEMMA ManagerMoves ==
  ASSUME MTypeOK, NEW m \in Managers, NEW s \in Steps, MgrTo(m, s)
  PROVE  mgr' \in [Managers -> ManagerRecords]
  BY DEF MTypeOK, MgrTo, ManagerRecords

(* ... also when it returns to its caller ...                              *)
LEMMA ManagerReturns ==
  ASSUME MTypeOK, NEW m \in Managers, ReturnFrom(m)
  PROVE  mgr' \in [Managers -> ManagerRecords] /\ guard' \in Managers \cup {Nobody}
  BY DEF MTypeOK, ReturnFrom, ManagerRecords, IdleManager, Steps

(* ... and when it notes that it has asked the writer to stop.             *)
LEMMA ManagerAsks ==
  ASSUME MTypeOK, NEW m \in Managers, mgr' = [mgr EXCEPT ![m].requested = TRUE]
  PROVE  mgr' \in [Managers -> ManagerRecords]
  <1>1. [mgr[m] EXCEPT !.requested = TRUE] \in ManagerRecords
    BY ZenonT(40) DEF MTypeOK, ManagerRecords
  <1> QED BY <1>1 DEF MTypeOK

(* Nothing is launched, nobody has a lock at the start.                    *)
LEMMA ServiceInit == MInit => ServiceInv
  <1> SUFFICES ASSUME MInit PROVE ServiceInv
    OBVIOUS
  <1> USE Distinct DEF MInit, IdleManager, ServingStates
  <1>1. MTypeOK
    BY DEF MTypeOK, Steps, ManagerRecords
  <1>2. GuardHeld /\ WriterHeld /\ RecordCurrent /\ LaunchPrepared /\ DesiredWritten
    BY DEF GuardHeld, WriterHeld, RecordCurrent, LaunchPrepared, DesiredWritten
  <1>3. QuietStopped /\ AttemptsCounted
    BY DEF QuietStopped, AttemptsCounted
  <1> QED BY <1>1, <1>2, <1>3 DEF ServiceInv

(* An operation begins: only its manager and the lifecycle lock change.    *)
LEMMA BeginStep ==
  ASSUME ServiceInv, NEW m \in Managers, BeginServiceOp(m)
  PROVE  ServiceInv'
  <1> USE Distinct DEF ServiceInv, MTypeOK, ManagerRecords, MgrAt, IdleManager, serviceFiles, ghosts, ServingStates
  <1>0. /\ MgrAt(m, "idle") /\ opsBegun' \in Nat
        /\ UNCHANGED <<wanted, intent, candidates, discovery, writer, instance, quiet, launches>>
    <2>1. MgrAt(m, "idle") /\ UNCHANGED <<serviceFiles, writer, instance, ghosts>> /\ opsBegun' = opsBegun + 1
      BY DEF BeginServiceOp
    <2> QED BY <2>1
  <1>1. /\ mgr' \in [Managers -> ManagerRecords]
        /\ \A n \in Managers \ {m} : mgr'[n] = mgr[n]
        /\ \/ mgr'[m] = mgr[m] /\ UNCHANGED guard
           \/ mgr'[m].step = "status" /\ mgr'[m].op = "reconcile" /\ UNCHANGED guard
           \/ mgr'[m].step \in {"desire", "unwish"} /\ guard = Nobody /\ guard' = m
    <2>1. CASE UNCHANGED <<mgr, guard>>
      BY <2>1
    <2>2. ASSUME NEW op \in {"start", "stop", "restart"}, guard = Nobody, guard' = m,
                 mgr' = [mgr EXCEPT ![m] = [IdleManager EXCEPT !.op = op, !.explicit = TRUE,
                                               !.step = IF op = "start" THEN "desire" ELSE "unwish"]]
          PROVE  <1>1!:
      BY <2>2 DEF Steps
    <2>3. ASSUME NEW on \in BOOLEAN, UNCHANGED guard,
                 mgr' = [mgr EXCEPT ![m] = [IdleManager EXCEPT !.op = "reconcile", !.step = "status",
                                               !.seen = wanted.state, !.enabled = on]]
          PROVE  <1>1!:
      BY <2>3 DEF Steps
    <2> QED BY <2>1, <2>2, <2>3 DEF BeginServiceOp
  <1>2. MTypeOK'
    BY <1>0, <1>1
  <1>3. GuardHeld' /\ WriterHeld'
    BY <1>0, <1>1 DEF GuardHeld, WriterHeld
  <1>4. RecordCurrent' /\ LaunchPrepared'
    BY <1>0, <1>1 DEF RecordCurrent, LaunchPrepared
  <1>5. DesiredWritten' /\ QuietStopped' /\ AttemptsCounted'
    BY <1>0, <1>1 DEF DesiredWritten, QuietStopped, AttemptsCounted
  <1> QED BY <1>2, <1>3, <1>4, <1>5

(* A reconcile that looks at the status takes the writer lock if it is free.*)
LEMMA ProbeStep ==
  ASSUME ServiceInv, NEW m \in Managers, ProbeWriter(m)
  PROVE  ServiceInv'
  <1> USE Distinct DEF ServiceInv, MTypeOK, ManagerRecords, ProbeWriter, MgrAt, MgrTo, ReturnFrom, IdleManager, serviceFiles, ghosts, ServingStates
  <1>1. MTypeOK'
    BY DEF Steps, ManagerRecords
  <1>2. GuardHeld' /\ WriterHeld'
    BY DEF GuardHeld, WriterHeld, Steps
  <1>3. RecordCurrent' /\ LaunchPrepared'
    BY DEF GuardHeld, WriterHeld, RecordCurrent, LaunchPrepared
  <1>4. DesiredWritten' /\ QuietStopped' /\ AttemptsCounted'
    BY DEF GuardHeld, WriterHeld, DesiredWritten, QuietStopped, AttemptsCounted
  <1> QED BY <1>1, <1>2, <1>3, <1>4

(* A reconcile lets go of the writer lock and takes the lifecycle lock.    *)
LEMMA ChooseStep ==
  ASSUME ServiceInv, NEW m \in Managers, ChooseReconcile(m)
  PROVE  ServiceInv'
  <1> USE Distinct DEF ServiceInv, MTypeOK, ManagerRecords, ChooseReconcile, MgrAt, MgrTo, ReturnFrom, IdleManager, serviceFiles, ghosts, ServingStates
  <1>0. mgr' \in [Managers -> ManagerRecords] /\ guard' \in Managers \cup {Nobody}
    <2>1. CASE ReturnFrom(m)
      BY <2>1, ManagerReturns
    <2>2. CASE guard' = m /\ \E s \in {"poll", "desire"} : MgrTo(m, s)
      BY <2>2, ManagerMoves DEF Steps
    <2> QED BY <2>1, <2>2
  <1>1. MTypeOK'
    BY <1>0
  <1>2. GuardHeld' /\ WriterHeld'
    BY DEF GuardHeld, WriterHeld, Steps
  <1>3. RecordCurrent' /\ LaunchPrepared'
    BY DEF GuardHeld, WriterHeld, RecordCurrent, LaunchPrepared
  <1>4. DesiredWritten' /\ QuietStopped' /\ AttemptsCounted'
    BY DEF GuardHeld, WriterHeld, DesiredWritten, QuietStopped, AttemptsCounted
  <1> QED BY <1>1, <1>2, <1>3, <1>4

(* startLocked writes the desired state, or returns on a stopped one.      *)
LEMMA DesireStep ==
  ASSUME ServiceInv, NEW m \in Managers, Desire(m)
  PROVE  ServiceInv'
  <1> USE Distinct DEF ServiceInv, MTypeOK, ManagerRecords, Desire, MgrAt, MgrTo, ReturnFrom, IdleManager, serviceFiles, ghosts, ServingStates
  <1>0. mgr' \in [Managers -> ManagerRecords] /\ guard' \in Managers \cup {Nobody}
    <2>1. CASE ReturnFrom(m)
      BY <2>1, ManagerReturns
    <2>2. CASE MgrTo(m, "fence") /\ UNCHANGED guard
      BY <2>2, ManagerMoves DEF Steps
    <2> QED BY <2>1, <2>2
  <1>5. /\ wanted' \in [state : {"running", "stopped"}, attempts : 0 .. MaxAttempts]
        /\ quiet' \in BOOLEAN /\ launches' \in Nat
    <2>1. CASE mgr[m].explicit
      <3>1. wanted' = [state |-> "running", attempts |-> 0] /\ quiet' = FALSE /\ launches' = 0
        BY <2>1
      <3> QED BY <3>1
    <2>2. CASE ~mgr[m].explicit
      BY <2>2
    <2> QED BY <2>1, <2>2
  <1>1. MTypeOK'
    BY <1>0, <1>5
  <1>2. GuardHeld' /\ WriterHeld'
    BY DEF GuardHeld, WriterHeld, Steps
  <1>3. RecordCurrent' /\ LaunchPrepared'
    BY DEF GuardHeld, WriterHeld, RecordCurrent, LaunchPrepared
  <1>4. DesiredWritten' /\ QuietStopped' /\ AttemptsCounted'
    BY DEF GuardHeld, WriterHeld, DesiredWritten, QuietStopped, AttemptsCounted
  <1> QED BY <1>1, <1>2, <1>3, <1>4

(* A busy writer lock: the answering candidate is published.               *)
LEMMA AdoptStep ==
  ASSUME ServiceInv, NEW m \in Managers, AdoptWriter(m)
  PROVE  ServiceInv'
  <1> USE Distinct DEF ServiceInv, MTypeOK, ManagerRecords, AdoptWriter, Verified, Recorded, MgrAt, MgrTo, ReturnFrom, IdleManager, serviceFiles, ghosts, ServingStates
  <1>1. MTypeOK'
    BY DEF Steps, ManagerRecords
  <1>2. GuardHeld' /\ WriterHeld'
    BY DEF GuardHeld, WriterHeld, Steps
  <1>3. RecordCurrent' /\ LaunchPrepared'
    BY DEF GuardHeld, WriterHeld, RecordCurrent, LaunchPrepared
  <1>4. DesiredWritten' /\ QuietStopped' /\ AttemptsCounted'
    BY DEF GuardHeld, WriterHeld, DesiredWritten, QuietStopped, AttemptsCounted
  <1> QED BY <1>1, <1>2, <1>3, <1>4

(* An attempt is counted while the writer lock is taken.                   *)
LEMMA AttemptStep ==
  ASSUME ServiceInv, NEW m \in Managers, TakeAttempt(m)
  PROVE  ServiceInv'
  <1> USE Distinct DEF ServiceInv, MTypeOK, ManagerRecords, TakeAttempt, CountAttempt, MgrAt, MgrTo, ReturnFrom, IdleManager, serviceFiles, ghosts, ServingStates
  <1>0. mgr' \in [Managers -> ManagerRecords] /\ guard' \in Managers \cup {Nobody}
    <2>1. CASE ReturnFrom(m)
      BY <2>1, ManagerReturns
    <2>2. CASE MgrTo(m, "intend") /\ UNCHANGED guard
      BY <2>2, ManagerMoves DEF Steps
    <2> QED BY <2>1, <2>2
  <1>1. MTypeOK'
    BY <1>0
  <1>2. GuardHeld' /\ WriterHeld'
    BY DEF GuardHeld, WriterHeld, Steps
  <1>3. RecordCurrent' /\ LaunchPrepared'
    BY DEF GuardHeld, WriterHeld, RecordCurrent, LaunchPrepared
  <1>4. DesiredWritten' /\ QuietStopped' /\ AttemptsCounted'
    BY DEF GuardHeld, WriterHeld, DesiredWritten, QuietStopped, AttemptsCounted
  <1> QED BY <1>1, <1>2, <1>3, <1>4

(* The intent is replaced while the writer lock is held.                   *)
LEMMA IntendStep ==
  ASSUME ServiceInv, NEW m \in Managers, NEW i \in Instances, ReplaceIntent(m, i)
  PROVE  ServiceInv'
  <1> USE Distinct DEF ServiceInv, MTypeOK, ManagerRecords, ReplaceIntent, Fresh, MgrAt, MgrTo, ReturnFrom, IdleManager, serviceFiles, ghosts, ServingStates
  <1>1. MTypeOK'
    BY DEF Steps, ManagerRecords
  <1>2. GuardHeld' /\ WriterHeld'
    BY DEF GuardHeld, WriterHeld, Steps
  <1>3. RecordCurrent' /\ LaunchPrepared'
    BY DEF GuardHeld, WriterHeld, RecordCurrent, LaunchPrepared
  <1>4. DesiredWritten' /\ QuietStopped' /\ AttemptsCounted'
    BY DEF GuardHeld, WriterHeld, DesiredWritten, QuietStopped, AttemptsCounted
  <1> QED BY <1>1, <1>2, <1>3, <1>4

(* The old public record goes before the writer lock does.                 *)
LEMMA UnannounceStep ==
  ASSUME ServiceInv, NEW m \in Managers, Unannounce(m)
  PROVE  ServiceInv'
  <1> USE Distinct DEF ServiceInv, MTypeOK, ManagerRecords, Unannounce, RemoveRuntime, MgrAt, MgrTo, ReturnFrom, IdleManager, serviceFiles, ghosts, ServingStates
  <1>1. MTypeOK'
    BY DEF Steps, ManagerRecords
  <1>2. GuardHeld' /\ WriterHeld'
    BY DEF GuardHeld, WriterHeld, Steps
  <1>3. RecordCurrent' /\ LaunchPrepared'
    BY DEF GuardHeld, WriterHeld, RecordCurrent, LaunchPrepared
  <1>4. DesiredWritten' /\ QuietStopped' /\ AttemptsCounted'
    BY DEF GuardHeld, WriterHeld, DesiredWritten, QuietStopped, AttemptsCounted
  <1> QED BY <1>1, <1>2, <1>3, <1>4

(* The intended process is launched.                                       *)
LEMMA SpawnStep ==
  ASSUME ServiceInv, NEW m \in Managers, SpawnService(m)
  PROVE  ServiceInv'
  <1> USE Distinct DEF ServiceInv, MTypeOK, ManagerRecords, SpawnService, MgrAt, MgrTo, ReturnFrom, IdleManager, serviceFiles, ghosts, ServingStates
  <1>0. mgr' \in [Managers -> ManagerRecords] /\ guard' \in Managers \cup {Nobody}
    <2>1. CASE ReturnFrom(m)
      BY <2>1, ManagerReturns
    <2>2. CASE MgrTo(m, "await") /\ UNCHANGED guard
      BY <2>2, ManagerMoves DEF Steps
    <2> QED BY <2>1, <2>2
  <1>1. MTypeOK'
    BY <1>0
  <1>2. GuardHeld' /\ WriterHeld'
    BY DEF GuardHeld, WriterHeld, Steps
  <1>3. RecordCurrent' /\ LaunchPrepared'
    BY DEF GuardHeld, WriterHeld, RecordCurrent, LaunchPrepared
  <1>4. DesiredWritten' /\ QuietStopped' /\ AttemptsCounted'
    BY DEF GuardHeld, WriterHeld, DesiredWritten, QuietStopped, AttemptsCounted
  <1> QED BY <1>1, <1>2, <1>3, <1>4

(* The candidate answers, or the manager gives up.                         *)
LEMMA AwaitStep ==
  ASSUME ServiceInv, NEW m \in Managers, AwaitCandidate(m)
  PROVE  ServiceInv'
  <1> USE Distinct DEF ServiceInv, MTypeOK, ManagerRecords, AwaitCandidate, Verified, Recorded, MgrAt, MgrTo, ReturnFrom, IdleManager, serviceFiles, ghosts, ServingStates
  <1>0. mgr' \in [Managers -> ManagerRecords] /\ guard' \in Managers \cup {Nobody}
    <2>1. CASE ReturnFrom(m)
      BY <2>1, ManagerReturns
    <2>2. CASE MgrTo(m, "publish") /\ UNCHANGED guard
      BY <2>2, ManagerMoves DEF Steps
    <2> QED BY <2>1, <2>2
  <1>1. MTypeOK'
    BY <1>0
  <1>2. GuardHeld' /\ WriterHeld'
    BY DEF GuardHeld, WriterHeld, Steps
  <1>3. RecordCurrent' /\ LaunchPrepared'
    BY DEF GuardHeld, WriterHeld, RecordCurrent, LaunchPrepared
  <1>4. DesiredWritten' /\ QuietStopped' /\ AttemptsCounted'
    BY DEF GuardHeld, WriterHeld, DesiredWritten, QuietStopped, AttemptsCounted
  <1> QED BY <1>1, <1>2, <1>3, <1>4

(* The verified launch is published.                                       *)
LEMMA PublishStep ==
  ASSUME ServiceInv, NEW m \in Managers, PublishDiscovery(m)
  PROVE  ServiceInv'
  <1> USE Distinct DEF ServiceInv, MTypeOK, ManagerRecords, PublishDiscovery, MgrAt, MgrTo, ReturnFrom, IdleManager, serviceFiles, ghosts, ServingStates
  <1>1. MTypeOK'
    BY DEF Steps, ManagerRecords
  <1>2. GuardHeld' /\ WriterHeld'
    BY DEF GuardHeld, WriterHeld, Steps
  <1>3. RecordCurrent' /\ LaunchPrepared'
    BY DEF GuardHeld, WriterHeld, RecordCurrent, LaunchPrepared
  <1>4. DesiredWritten' /\ QuietStopped' /\ AttemptsCounted'
    BY DEF GuardHeld, WriterHeld, DesiredWritten, QuietStopped, AttemptsCounted
  <1> QED BY <1>1, <1>2, <1>3, <1>4

(* Stop and restart write the desired state first.                         *)
LEMMA UnwishStep ==
  ASSUME ServiceInv, NEW m \in Managers, Unwish(m)
  PROVE  ServiceInv'
  <1> USE Distinct DEF ServiceInv, MTypeOK, ManagerRecords, Unwish, MgrAt, MgrTo, ReturnFrom, IdleManager, serviceFiles, ghosts, ServingStates
  <1>1. MTypeOK'
    BY DEF Steps, ManagerRecords
  <1>2. GuardHeld' /\ WriterHeld'
    BY DEF GuardHeld, WriterHeld, Steps
  <1>3. RecordCurrent' /\ LaunchPrepared'
    BY DEF GuardHeld, WriterHeld, RecordCurrent, LaunchPrepared
  <1>4. DesiredWritten' /\ QuietStopped' /\ AttemptsCounted'
    BY DEF GuardHeld, WriterHeld, DesiredWritten, QuietStopped, AttemptsCounted
  <1> QED BY <1>1, <1>2, <1>3, <1>4

(* The writer is asked to stop by its identity.                            *)
LEMMA RequestStep ==
  ASSUME ServiceInv, NEW m \in Managers, RequestStop(m)
  PROVE  ServiceInv'
  <1> USE Distinct DEF ServiceInv, MTypeOK, ManagerRecords, RequestStop, Recorded, MgrAt, MgrTo, ReturnFrom, IdleManager, serviceFiles, ghosts, ServingStates
  <1>0. /\ mgr' \in [Managers -> ManagerRecords] /\ guard' \in Managers \cup {Nobody}
        /\ instance' \in [Instances -> {"none", "intended", "spawned", "checking", "gone"} \cup ServingStates]
    <2>1. CASE ReturnFrom(m) /\ UNCHANGED instance
      BY <2>1, ManagerReturns
    <2>2. CASE /\ instance' = [instance EXCEPT ![intent] = "draining"]
               /\ mgr' = [mgr EXCEPT ![m].requested = TRUE]
               /\ UNCHANGED guard
      <3>1. intent \in Instances
        OBVIOUS
      <3>2. mgr' \in [Managers -> ManagerRecords]
        BY <2>2, ManagerAsks
      <3>3. instance' \in [Instances -> {"none", "intended", "spawned", "checking", "gone"} \cup ServingStates]
        BY <2>2, <3>1
      <3> QED BY <2>2, <3>2, <3>3
    <2> QED BY <2>1, <2>2
  <1>1. MTypeOK'
    BY <1>0
  <1>2. GuardHeld' /\ WriterHeld'
    BY DEF GuardHeld, WriterHeld, Steps
  <1>3. RecordCurrent' /\ LaunchPrepared'
    BY DEF GuardHeld, WriterHeld, RecordCurrent, LaunchPrepared
  <1>4. DesiredWritten' /\ QuietStopped' /\ AttemptsCounted'
    BY DEF GuardHeld, WriterHeld, DesiredWritten, QuietStopped, AttemptsCounted
  <1> QED BY <1>1, <1>2, <1>3, <1>4

(* The writer does not end in time.                                        *)
LEMMA TimeoutStep ==
  ASSUME ServiceInv, NEW m \in Managers, StopTimeout(m)
  PROVE  ServiceInv'
  <1> USE Distinct DEF ServiceInv, MTypeOK, ManagerRecords, StopTimeout, MgrAt, MgrTo, ReturnFrom, IdleManager, serviceFiles, ghosts, ServingStates
  <1>1. MTypeOK'
    BY DEF Steps, ManagerRecords
  <1>2. GuardHeld' /\ WriterHeld'
    BY DEF GuardHeld, WriterHeld, Steps
  <1>3. RecordCurrent' /\ LaunchPrepared'
    BY DEF GuardHeld, WriterHeld, RecordCurrent, LaunchPrepared
  <1>4. DesiredWritten' /\ QuietStopped' /\ AttemptsCounted'
    BY DEF GuardHeld, WriterHeld, DesiredWritten, QuietStopped, AttemptsCounted
  <1> QED BY <1>1, <1>2, <1>3, <1>4

(* The writer lock is free: the candidate and the intent go.               *)
LEMMA RemoveStep ==
  ASSUME ServiceInv, NEW m \in Managers, RemoveIntent(m)
  PROVE  ServiceInv'
  <1> USE Distinct DEF ServiceInv, MTypeOK, ManagerRecords, RemoveIntent, WriterReleased, MgrAt, MgrTo, ReturnFrom, IdleManager, serviceFiles, ghosts, ServingStates
  <1>1. MTypeOK'
    BY DEF Steps, ManagerRecords
  <1>2. GuardHeld' /\ WriterHeld'
    BY DEF GuardHeld, WriterHeld, Steps
  <1>3. RecordCurrent' /\ LaunchPrepared'
    BY DEF GuardHeld, WriterHeld, RecordCurrent, LaunchPrepared, Nobody
  <1>4. DesiredWritten' /\ QuietStopped' /\ AttemptsCounted'
    BY DEF GuardHeld, WriterHeld, DesiredWritten, QuietStopped, AttemptsCounted
  <1> QED BY <1>1, <1>2, <1>3, <1>4

(* The public record goes and the stop has succeeded.                      *)
LEMMA FinishStep ==
  ASSUME ServiceInv, NEW m \in Managers, FinishStop(m)
  PROVE  ServiceInv'
  <1> USE Distinct DEF ServiceInv, MTypeOK, ManagerRecords, FinishStop, RemoveRuntime, MgrAt, MgrTo, ReturnFrom, IdleManager, serviceFiles, ghosts, ServingStates
  <1>0. mgr' \in [Managers -> ManagerRecords] /\ guard' \in Managers \cup {Nobody}
    <2>1. CASE ReturnFrom(m)
      BY <2>1, ManagerReturns
    <2>2. CASE MgrTo(m, "desire") /\ UNCHANGED guard
      BY <2>2, ManagerMoves DEF Steps
    <2> QED BY <2>1, <2>2
  <1>1. MTypeOK'
    BY <1>0
  <1>2. GuardHeld' /\ WriterHeld'
    BY DEF GuardHeld, WriterHeld, Steps
  <1>3. RecordCurrent' /\ LaunchPrepared'
    BY DEF GuardHeld, WriterHeld, RecordCurrent, LaunchPrepared
  <1>4. DesiredWritten' /\ QuietStopped' /\ AttemptsCounted'
    BY DEF GuardHeld, WriterHeld, DesiredWritten, QuietStopped, AttemptsCounted
  <1> QED BY <1>1, <1>2, <1>3, <1>4

(* The manager's process ends and its locks go with it.                    *)
LEMMA DiesStep ==
  ASSUME ServiceInv, NEW m \in Managers, ManagerDies(m)
  PROVE  ServiceInv'
  <1> USE Distinct DEF ServiceInv, MTypeOK, ManagerRecords, ManagerDies, MgrAt, MgrTo, ReturnFrom, IdleManager, serviceFiles, ghosts, ServingStates
  <1>1. MTypeOK'
    BY DEF Steps, ManagerRecords
  <1>2. GuardHeld' /\ WriterHeld'
    BY DEF GuardHeld, WriterHeld, Steps
  <1>3. RecordCurrent' /\ LaunchPrepared'
    BY DEF GuardHeld, WriterHeld, RecordCurrent, LaunchPrepared
  <1>4. DesiredWritten' /\ QuietStopped' /\ AttemptsCounted'
    BY DEF GuardHeld, WriterHeld, DesiredWritten, QuietStopped, AttemptsCounted
  <1> QED BY <1>1, <1>2, <1>3, <1>4

(* A launched process takes the writer lock or gives up.                   *)
LEMMA LockStep ==
  ASSUME ServiceInv, NEW i \in Instances, LockLease(i)
  PROVE  ServiceInv'
  <1> USE Distinct DEF ServiceInv, MTypeOK, ManagerRecords, LockLease, InstanceBecomes, MgrAt, MgrTo, ReturnFrom, IdleManager, serviceFiles, ghosts, ServingStates
  <1>1. MTypeOK'
    BY DEF Steps, ManagerRecords
  <1>2. GuardHeld' /\ WriterHeld'
    BY DEF GuardHeld, WriterHeld, Steps
  <1>3. RecordCurrent' /\ LaunchPrepared'
    BY DEF GuardHeld, WriterHeld, RecordCurrent, LaunchPrepared
  <1>4. DesiredWritten' /\ QuietStopped' /\ AttemptsCounted'
    BY DEF GuardHeld, WriterHeld, DesiredWritten, QuietStopped, AttemptsCounted
  <1> QED BY <1>1, <1>2, <1>3, <1>4

(* With the lock it checks that it is the wanted launch.                   *)
LEMMA CheckStep ==
  ASSUME ServiceInv, NEW i \in Instances, CheckLease(i)
  PROVE  ServiceInv'
  <1> USE Distinct DEF ServiceInv, MTypeOK, ManagerRecords, CheckLease, InstanceBecomes, LaunchCurrent, MgrAt, MgrTo, ReturnFrom, IdleManager, serviceFiles, ghosts, ServingStates
  <1>1. MTypeOK'
    BY DEF Steps, ManagerRecords
  <1>2. GuardHeld' /\ WriterHeld'
    BY DEF GuardHeld, WriterHeld, Steps
  <1>3. RecordCurrent' /\ LaunchPrepared'
    BY DEF GuardHeld, WriterHeld, RecordCurrent, LaunchPrepared
  <1>4. DesiredWritten' /\ QuietStopped' /\ AttemptsCounted'
    BY DEF GuardHeld, WriterHeld, DesiredWritten, QuietStopped, AttemptsCounted
  <1> QED BY <1>1, <1>2, <1>3, <1>4

(* It serves and publishes its candidate.                                  *)
LEMMA ReadyStep ==
  ASSUME ServiceInv, NEW i \in Instances, ServiceReady(i)
  PROVE  ServiceInv'
  <1> USE Distinct DEF ServiceInv, MTypeOK, ManagerRecords, ServiceReady, InstanceBecomes, MgrAt, MgrTo, ReturnFrom, IdleManager, serviceFiles, ghosts, ServingStates
  <1>1. MTypeOK'
    BY DEF Steps, ManagerRecords
  <1>2. GuardHeld' /\ WriterHeld'
    BY DEF GuardHeld, WriterHeld, Steps
  <1>3. RecordCurrent' /\ LaunchPrepared'
    BY DEF GuardHeld, WriterHeld, RecordCurrent, LaunchPrepared
  <1>4. DesiredWritten' /\ QuietStopped' /\ AttemptsCounted'
    BY DEF GuardHeld, WriterHeld, DesiredWritten, QuietStopped, AttemptsCounted
  <1> QED BY <1>1, <1>2, <1>3, <1>4

(* It drains or crashes.                                                   *)
LEMMA EndsStep ==
  ASSUME ServiceInv, NEW i \in Instances, ServiceEnds(i)
  PROVE  ServiceInv'
  <1> USE Distinct DEF ServiceInv, MTypeOK, ManagerRecords, ServiceEnds, InstanceBecomes, MgrAt, MgrTo, ReturnFrom, IdleManager, serviceFiles, ghosts, ServingStates
  <1>1. MTypeOK'
    BY DEF Steps, ManagerRecords
  <1>2. GuardHeld' /\ WriterHeld'
    BY DEF GuardHeld, WriterHeld, Steps
  <1>3. RecordCurrent' /\ LaunchPrepared'
    BY DEF GuardHeld, WriterHeld, RecordCurrent, LaunchPrepared
  <1>4. DesiredWritten' /\ QuietStopped' /\ AttemptsCounted'
    BY DEF GuardHeld, WriterHeld, DesiredWritten, QuietStopped, AttemptsCounted
  <1> QED BY <1>1, <1>2, <1>3, <1>4

-----------------------------------------------------------------------------
(* The inductive invariant of the managed services, for any number of      *)
(* managers and launches (fleet/services).                                 *)
THEOREM ServiceInvariant == MSpec => []ServiceInv
  <1>1. ServiceInv /\ [MNext]_mvars => ServiceInv'
    <2> SUFFICES ASSUME ServiceInv, [MNext]_mvars PROVE ServiceInv'
      OBVIOUS
    <2>1. CASE UNCHANGED mvars
      BY <2>1
      DEF mvars, ServiceInv, MTypeOK, GuardHeld, WriterHeld, RecordCurrent, LaunchPrepared,
          DesiredWritten, QuietStopped, AttemptsCounted
    <2>2. ASSUME NEW m \in Managers, ManagerStep(m) PROVE ServiceInv'
      BY <2>2, BeginStep, ProbeStep, ChooseStep, DesireStep, AdoptStep, AttemptStep, IntendStep,
         UnannounceStep, SpawnStep, AwaitStep, PublishStep, UnwishStep, RequestStep, TimeoutStep,
         RemoveStep, FinishStep, DiesStep
      DEF ManagerStep
    <2>3. ASSUME NEW i \in Instances, ServiceStep(i) PROVE ServiceInv'
      BY <2>3, LockStep, CheckStep, ReadyStep, EndsStep DEF ServiceStep
    <2> QED BY <2>1, <2>2, <2>3 DEF MNext
  <1> QED BY <1>1, ServiceInit, PTL DEF MSpec

(* ServicesSafe: once Stop has succeeded nothing writes to the storage     *)
(* until an explicit start; the process that owns the storage is the one   *)
(* launched last and clients find it or none; and crashing managers launch *)
(* no more than MaxAttempts times between two explicit starts.             *)
THEOREM ServicesStaySafe == MSpec => []ServicesSafe
  <1>1. ServiceInv => ServicesSafe
    BY DEF ServiceInv, QuietStopped, RecordCurrent, AttemptsCounted, ServicesSafe, ServiceFenced,
           StoppedStays, LeaseCurrent, LaunchBudget
  <1> QED BY <1>1, ServiceInvariant, PTL

=============================================================================
