---------------------------- MODULE WorkerThreads ---------------------------
(***************************************************************************)
(* The Worker Threads a parent Thread manages: WorkerManager in internal/  *)
(* framework/agent/worker_threads.go, and the Agent's HTTP server, which   *)
(* borrows the runtime of a managed Worker and opens one of its own for    *)
(* any other Thread (entrypoints/agenthttp/server.go).  Creations, runs,   *)
(* stops, result deliveries and HTTP requests are goroutines of their own; *)
(* every action is the work one of them does under one hold of m.mu, or    *)
(* one call that it waits for outside.                                     *)
(***************************************************************************)
EXTENDS Naturals, FiniteSets

CONSTANTS
    WorkerIds,      \* Worker Threads
    WorkerCalls,    \* which of "create", "reuse", "stop", "archive" are called
    MaxApps,        \* bound: runtimes the manager opens for one Worker
    MaxRuns         \* bound: Turns of one Worker

ASSUME WorkerBounds == MaxApps \in Nat \ {0} /\ MaxRuns \in Nat

VARIABLES
    worker,     \* m.threads
    reserved,   \* m.reservations
    results,    \* m.resultHandoffs
    closing,    \* open, then closing, then released: deliveryDone is closed
    creation,   \* the creation or reuse of a Worker in progress
    drains,     \* runtimes that are being stopped, and for whom
    alive,      \* runtimes the manager has opened and not yet closed
    runs,       \* run goroutines
    deliveries, \* deliverResult goroutines
    queued,     \* results queued as Inputs of the parent
    onDisk,     \* Workers whose directory is active
    http,       \* Workers with a runtime that the HTTP server owns
    apps, turns \* runtimes opened and Turns started so far

wvars == <<worker, reserved, results, closing, creation, drains, alive, runs, deliveries,
           queued, onDisk, http, apps, turns>>

NotManaged == [app |-> 0, state |-> "none", subscribed |-> FALSE, handoffs |-> 0, turn |-> 0]
NoCreation == [step |-> "none", reuse |-> FALSE, subscribe |-> FALSE]

RunOf(id, app, turn, step) == [id |-> id, app |-> app, turn |-> turn, step |-> step]
Handoff(r) == [id |-> r.id, app |-> r.app, turn |-> r.turn]
Drain(id, app, for) == [id |-> id, app |-> app, for |-> for]

Manages(id) == worker[id].app # 0
Settled(w) == w.state \in {"idle", "failed"} /\ ~w.subscribed /\ w.handoffs = 0
Busy(id, app) == \E r \in runs : r.id = id /\ r.app = app /\ r.step = "executing"

(* ensureParentActive, and lifecycleMu: no call starts once closing has    *)
(* begun, and closing begins when no call is in progress.                  *)
Open == closing = "open"
CallsInProgress ==
    \/ \E id \in WorkerIds : creation[id].step \notin {"none", "abandoned", "handedOver"}
    \/ \E d \in drains : d.for \in {"stop", "archive"}

(* removeCurrent *)
RemoveWorker(id) ==
    /\ worker' = [worker EXCEPT ![id] = NotManaged]
    /\ results' = {h \in results : ~(h.id = id /\ h.app = worker[id].app)}

Advance(id, step) == creation' = [creation EXCEPT ![id].step = step]
EndCreation(id) ==
    /\ creation' = [creation EXCEPT ![id] = NoCreation]
    /\ reserved' = reserved \ {id}

(* rollbackIdentity *)
Undone(id) == IF creation[id].reuse THEN onDisk ELSE onDisk \ {id}

-----------------------------------------------------------------------------
(* Create and ReusePrepared *)

(* reserveWorkerThread; a Thread id that was in use is not given again. *)
ReserveWorker(id, subscribe) ==
    /\ Open /\ "create" \in WorkerCalls
    /\ id \notin onDisk /\ creation[id] = NoCreation /\ apps[id] = 0
    /\ onDisk' = onDisk \cup {id} /\ reserved' = reserved \cup {id}
    /\ creation' = [creation EXCEPT ![id] =
                       [step |-> "open", reuse |-> FALSE, subscribe |-> subscribe]]
    /\ UNCHANGED <<worker, results, closing, drains, alive, runs, deliveries, queued, http,
                   apps, turns>>

(* reserveReusableWorkerThread: the settled runtime is stopped first. *)
ReserveReusable(id) ==
    /\ Open /\ "reuse" \in WorkerCalls
    /\ Manages(id) /\ Settled(worker[id]) /\ ~Busy(id, worker[id].app)
    /\ creation[id] = NoCreation /\ apps[id] < MaxApps
    /\ reserved' = reserved \cup {id}
    /\ RemoveWorker(id)
    /\ drains' = drains \cup {Drain(id, worker[id].app, "reuse")}
    /\ creation' = [creation EXCEPT ![id] = [NoCreation EXCEPT !.step = "drain", !.reuse = TRUE]]
    /\ UNCHANGED <<closing, alive, runs, deliveries, queued, onDisk, http, apps, turns>>

(* prepared.Open has returned; a child it could not open is undone. *)
ChildOpened(id) ==
    /\ creation[id].step = "open"
    /\ \/ /\ apps' = [apps EXCEPT ![id] = @ + 1]
          /\ alive' = alive \cup {<<id, apps[id] + 1>>}
          /\ Advance(id, "register") /\ UNCHANGED <<reserved, onDisk>>
       \/ onDisk' = Undone(id) /\ EndCreation(id) /\ UNCHANGED <<apps, alive>>
    /\ UNCHANGED <<worker, results, closing, drains, runs, deliveries, queued, http, turns>>

(* The caller gives up while the factory runs; the reservation stays. *)
CreationCancelled(id) ==
    /\ creation[id].step = "open"
    /\ Advance(id, "abandoned")
    /\ UNCHANGED <<worker, reserved, results, closing, drains, alive, runs, deliveries, queued,
                   onDisk, http, apps, turns>>

(* deferCleanupError: the factory returns at last, and the child it may    *)
(* have opened is closed and undone.                                       *)
AbandonedChildOpened(id) ==
    /\ creation[id].step = "abandoned"
    /\ \/ /\ apps' = [apps EXCEPT ![id] = @ + 1]
          /\ alive' = alive \cup {<<id, apps[id] + 1>>}
          /\ drains' = drains \cup {Drain(id, apps[id] + 1, "cleanup")}
          /\ Advance(id, "handedOver") /\ UNCHANGED <<reserved, onDisk>>
       \/ onDisk' = Undone(id) /\ EndCreation(id) /\ UNCHANGED <<apps, alive, drains>>
    /\ UNCHANGED <<worker, results, closing, runs, deliveries, queued, http, turns>>

(* A child that the cancelled caller does not want is closed and undone.   *)
Register(id) ==
    /\ creation[id].step = "register"
    /\ \/ /\ worker' = [worker EXCEPT ![id] =
                           [NotManaged EXCEPT !.app = apps[id], !.state = "running",
                                              !.subscribed = creation[id].subscribe]]
          /\ Advance(id, "admit") /\ UNCHANGED <<drains>>
       \/ /\ drains' = drains \cup {Drain(id, apps[id], "creation")}
          /\ Advance(id, "undo") /\ UNCHANGED worker
    /\ UNCHANGED <<reserved, results, closing, alive, runs, deliveries, queued, onDisk, http,
                   apps, turns>>

(* removeIfCurrent and stopManagedWorkerThread on every error path *)
GiveUp(id) ==
    /\ worker' = IF worker[id].app = apps[id] THEN [worker EXCEPT ![id] = NotManaged] ELSE worker
    /\ drains' = drains \cup {Drain(id, apps[id], "creation")}
    /\ Advance(id, "undo")

(* admitUserTurn starts the Turn unless a message was sent before. *)
AdmitQuery(id) ==
    /\ creation[id].step = "admit"
    /\ \/ ~Busy(id, apps[id]) /\ Advance(id, "start") /\ UNCHANGED <<worker, drains>>
       \/ GiveUp(id)
    /\ UNCHANGED <<reserved, results, closing, alive, runs, deliveries, queued, onDisk, http,
                   apps, turns>>

(* startRun *)
StartRun(id) ==
    /\ runs' = runs \cup {RunOf(id, worker[id].app, turns[id] + 1, "executing")}
    /\ turns' = [turns EXCEPT ![id] = @ + 1]
    /\ worker' = [worker EXCEPT ![id].turn = turns[id] + 1, ![id].state = "running"]

FinishCreation(id) ==
    /\ creation[id].step = "start"
    /\ \/ worker[id].app = apps[id] /\ turns[id] < MaxRuns /\ StartRun(id)
          /\ EndCreation(id) /\ UNCHANGED drains
       \/ GiveUp(id) /\ UNCHANGED <<runs, turns, reserved>>
    /\ UNCHANGED <<results, closing, alive, deliveries, queued, onDisk, http, apps>>

-----------------------------------------------------------------------------
(* Send, Subscribe, ClearSubscriptions *)

(* A busy Worker queues the message in its own store. *)
Send(id) ==
    /\ Open /\ Manages(id) /\ ~Busy(id, worker[id].app) /\ turns[id] < MaxRuns
    /\ StartRun(id)
    /\ UNCHANGED <<reserved, results, closing, creation, drains, alive, deliveries, queued,
                   onDisk, http, apps>>

Subscribe(id, subscribed) ==
    /\ Open /\ Manages(id) /\ worker[id].subscribed # subscribed
    /\ worker' = [worker EXCEPT ![id].subscribed = subscribed]
    /\ UNCHANGED <<reserved, results, closing, creation, drains, alive, runs, deliveries,
                   queued, onDisk, http, apps, turns>>

ClearSubscriptions ==
    /\ \E id \in WorkerIds : worker[id].subscribed
    /\ worker' = [id \in WorkerIds |-> [worker[id] EXCEPT !.subscribed = FALSE]]
    /\ UNCHANGED <<reserved, results, closing, creation, drains, alive, runs, deliveries,
                   queued, onDisk, http, apps, turns>>

-----------------------------------------------------------------------------
(* Stop and Archive *)

Stop(id) ==
    /\ Open /\ "stop" \in WorkerCalls /\ Manages(id)
    /\ RemoveWorker(id)
    /\ drains' = drains \cup {Drain(id, worker[id].app, "stop")}
    /\ UNCHANGED <<reserved, closing, creation, alive, runs, deliveries, queued, onDisk, http,
                   apps, turns>>

ArchiveWorker(id) ==
    /\ Open /\ "archive" \in WorkerCalls /\ Manages(id) /\ Settled(worker[id])
    /\ RemoveWorker(id)
    /\ drains' = drains \cup {Drain(id, worker[id].app, "archive")}
    /\ UNCHANGED <<reserved, closing, creation, alive, runs, deliveries, queued, onDisk, http,
                   apps, turns>>

(* stopManagedWorkerThreadContext: the runs have ended and the runtime is  *)
(* closed; the caller goes on.  A Worker is opened again, archived, or     *)
(* undone.                                                                 *)
Drained(d) ==
    /\ \A r \in runs : ~(r.id = d.id /\ r.app = d.app)
    /\ drains' = drains \ {d}
    /\ alive' = alive \ {<<d.id, d.app>>}
    /\ CASE d.for = "reuse" -> Advance(d.id, "open") /\ UNCHANGED <<reserved, onDisk>>
         [] d.for = "creation" -> onDisk' = Undone(d.id) /\ EndCreation(d.id)
         [] d.for = "archive" -> onDisk' = onDisk \ {d.id} /\ UNCHANGED <<creation, reserved>>
         [] d.for = "cleanup" -> onDisk' = Undone(d.id) /\ EndCreation(d.id)
         [] OTHER -> UNCHANGED <<creation, reserved, onDisk>>
    /\ UNCHANGED <<worker, results, closing, runs, deliveries, queued, http, apps, turns>>

(* Mutant of DrainCancelled: the reservation is given back at once. *)
DrainCancelledExposed(d) ==
    /\ d.for = "reuse"
    /\ drains' = (drains \ {d}) \cup {[d EXCEPT !.for = "cleanup"]}
    /\ EndCreation(d.id)
    /\ UNCHANGED <<worker, results, closing, alive, runs, deliveries, queued, onDisk, http,
                   apps, turns>>

(* The caller's context ends first: the rest is left to a goroutine, which *)
(* for a reuse also holds the reservation.                                 *)
DrainCancelled(d) ==
    /\ \/ d.for \in {"stop", "archive"} /\ UNCHANGED creation
          /\ drains' = (drains \ {d}) \cup {[d EXCEPT !.for = "nobody"]}
       \/ d.for = "reuse" /\ Advance(d.id, "handedOver")
          /\ drains' = (drains \ {d}) \cup {[d EXCEPT !.for = "cleanup"]}
    /\ UNCHANGED <<worker, reserved, results, closing, alive, runs, deliveries, queued, onDisk,
                   http, apps, turns>>

-----------------------------------------------------------------------------
(* run and deliverResult *)

(* RunAdmittedTurn returns; the next Turn may already start. *)
TurnReturns(r) ==
    /\ r.step = "executing"
    /\ runs' = (runs \ {r}) \cup {[r EXCEPT !.step = "returned"]}
    /\ UNCHANGED <<worker, reserved, results, closing, creation, drains, alive, deliveries,
                   queued, onDisk, http, apps, turns>>

RecordResult(r, state) ==
    LET w == worker[r.id] IN
    /\ r.step = "returned"
    /\ runs' = runs \ {r}
    /\ IF w.app # r.app \/ w.turn # r.turn
       THEN UNCHANGED <<worker, results, deliveries>>
       ELSE IF w.subscribed
       THEN /\ worker' = [worker EXCEPT ![r.id].state = state, ![r.id].handoffs = @ + 1]
            /\ results' = results \cup {Handoff(r)}
            /\ deliveries' = deliveries \cup {Handoff(r)}
       ELSE /\ worker' = [worker EXCEPT ![r.id].state = state]
            /\ UNCHANGED <<results, deliveries>>
    /\ UNCHANGED <<reserved, closing, creation, drains, alive, queued, onDisk, http, apps, turns>>

(* FinishResultHandoffs; the count of a runtime that is not managed any    *)
(* more is not looked at again.                                            *)
Finished(h) ==
    /\ results' = results \ {h}
    /\ worker' = IF h \in results /\ worker[h.id].app = h.app
                 THEN [worker EXCEPT ![h.id].handoffs = @ - 1] ELSE worker

(* The parent queues the result, or has started a Turn with it, or the     *)
(* delivery fails or is cancelled.                                         *)
DeliverResult(h) ==
    /\ deliveries' = deliveries \ {h}
    /\ \/ Open /\ queued' = queued \cup {h} /\ UNCHANGED <<results, worker>>
       \/ Finished(h) /\ UNCHANGED queued
    /\ UNCHANGED <<reserved, closing, creation, drains, alive, runs, onDisk, http, apps, turns>>

(* PendingInputsAdmitted: a Turn of the parent has taken the Input. *)
InputAdmitted(h) ==
    /\ Open
    /\ queued' = queued \ {h} /\ Finished(h)
    /\ UNCHANGED <<reserved, closing, creation, drains, alive, runs, deliveries, onDisk, http,
                   apps, turns>>

-----------------------------------------------------------------------------
(* StartClose: every managed runtime is cancelled and drained later. *)
StartClose ==
    /\ Open /\ ~CallsInProgress
    /\ closing' = "closing"
    /\ worker' = [id \in WorkerIds |-> NotManaged]
    /\ results' = {}
    /\ drains' = drains \cup {Drain(id, worker[id].app, "nobody") :
                                 id \in {i \in WorkerIds : Manages(i)}}
    /\ UNCHANGED <<reserved, creation, alive, runs, deliveries, queued, onDisk, http, apps, turns>>

(* deliveryWriters.Wait, then deliveryDone is closed. *)
WritersDone ==
    /\ closing = "closing" /\ deliveries = {}
    /\ closing' = "released"
    /\ UNCHANGED <<worker, reserved, results, creation, drains, alive, runs, deliveries, queued,
                   onDisk, http, apps, turns>>

(* openThreadLocked: managedWorker waits for a reservation, a managed      *)
(* runtime is borrowed, any other active Thread gets a runtime of its own. *)
HttpOpens(id) ==
    /\ Open /\ id \in onDisk /\ id \notin http
    /\ id \notin reserved /\ ~Manages(id)
    /\ http' = http \cup {id}
    /\ UNCHANGED <<worker, reserved, results, closing, creation, drains, alive, runs, deliveries,
                   queued, onDisk, apps, turns>>

-----------------------------------------------------------------------------
WInit ==
    /\ worker = [id \in WorkerIds |-> NotManaged]
    /\ reserved = {} /\ results = {}
    /\ closing = "open"
    /\ creation = [id \in WorkerIds |-> NoCreation]
    /\ drains = {} /\ alive = {} /\ runs = {} /\ deliveries = {} /\ queued = {}
    /\ onDisk = {} /\ http = {}
    /\ apps = [id \in WorkerIds |-> 0] /\ turns = [id \in WorkerIds |-> 0]

WNext ==
    \/ \E id \in WorkerIds :
          \/ \E subscribe \in BOOLEAN : ReserveWorker(id, subscribe)
          \/ ReserveReusable(id)
          \/ ChildOpened(id)
          \/ CreationCancelled(id)
          \/ AbandonedChildOpened(id)
          \/ Register(id)
          \/ AdmitQuery(id)
          \/ FinishCreation(id)
          \/ Send(id)
          \/ \E subscribed \in BOOLEAN : Subscribe(id, subscribed)
          \/ Stop(id)
          \/ ArchiveWorker(id)
          \/ HttpOpens(id)
    \/ ClearSubscriptions
    \/ \E d \in drains : Drained(d) \/ DrainCancelled(d)
    \/ \E r \in runs : TurnReturns(r)
    \/ \E r \in runs, state \in {"idle", "failed"} : RecordResult(r, state)
    \/ \E h \in deliveries : DeliverResult(h)
    \/ \E h \in queued : InputAdmitted(h)
    \/ StartClose
    \/ WritersDone

WSpec == WInit /\ [][WNext]_wvars

-----------------------------------------------------------------------------
(* Properties *)

WTypeOK ==
    /\ \A id \in WorkerIds :
          /\ worker[id].app \in 0 .. MaxApps /\ worker[id].turn \in 0 .. MaxRuns
          /\ worker[id].state \in {"none", "running", "idle", "failed"}
    /\ reserved \subseteq WorkerIds /\ onDisk \subseteq WorkerIds /\ http \subseteq WorkerIds
    /\ alive \subseteq WorkerIds \X (1 .. MaxApps)

(* A result that a Worker hands over holds back the parent's continuation, *)
(* the Worker's archive, its reuse and idle maintenance                    *)
(* (shouldDeferContinuation, Archive, reserveIdleMaintenance): every       *)
(* handoff on the books is still being delivered or waits as an Input of   *)
(* the parent, and the count of each Worker is that of the books.          *)
HandoffsBacked ==
    /\ \A h \in results : h \in deliveries \cup queued
    /\ \A id \in WorkerIds : Manages(id) =>
          worker[id].handoffs =
             Cardinality({h \in results : h.id = id /\ h.app = worker[id].app})

(* "WaitDeliveryWriters waits until no Worker Thread result can write the  *)
(* owning parent Thread directory": no delivery begins after it returned.  *)
ParentReleased == closing = "released" => deliveries = {}

RuntimesOf(id) == {a \in alive : a[1] = id}

(* "Cancellation must not expose the identity while old cleanup still owns *)
(* it" and "Readers must see either the old owner or a reservation for its *)
(* replacement": while a creation or a reuse opens, replaces or undoes the *)
(* runtime of a Worker, nobody else opens one, whatever is cancelled.  The *)
(* drain of a stop, an archive or a close holds no reservation: the HTTP   *)
(* server may then open a second runtime beside the one that is ending.    *)
ReservedAlone ==
    \A id \in WorkerIds :
        /\ Cardinality(RuntimesOf(id)) <= 1
        /\ id \in http /\ RuntimesOf(id) # {} =>
              \E d \in drains : d.id = id /\ d.for \in {"stop", "archive", "nobody"}

(* The handoff of results to the parent and the ownership of a Worker's    *)
(* runtime (worker_threads.go) together                                    *)
WorkersSafe == HandoffsBacked /\ ParentReleased /\ ReservedAlone

=============================================================================
