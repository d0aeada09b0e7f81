---------------------------- MODULE ThreadLayout ----------------------------
(***************************************************************************)
(* The Thread directories of one Agent: thread.Store in internal/framework *)
(* /thread/{store,lifecycle,inspect,worker_depth}.go.  A Thread is a       *)
(* directory under threads/ or archive/threads/ whose thread.json says     *)
(* which of the two it belongs in; threads.index.json lists all of them.   *)
(* Creation, archive, unarchive, permanent delete and the roll back of a   *)
(* creation move a directory and rewrite one file after another under the  *)
(* Agent's Store lock, and the process may end between any two of these;   *)
(* RecoverLayout runs before a Thread is attached.                         *)
(***************************************************************************)
EXTENDS FaultModel, FiniteSets

CONSTANTS
    Main, Workers,      \* Thread ids
    MaxWorkerDepth,     \* worker-threads.max_depth: 1 or 2
    MaxLayoutFaults,    \* bound: failing writes and renames
    MaxLayoutDeaths     \* bound: process ends

ASSUME MainAssumption == Main \notin Workers
ASSUME DepthAssumption == MaxWorkerDepth \in {1, 2}
ASSUME LayoutBounds == MaxLayoutFaults \in Nat /\ MaxLayoutDeaths \in Nat

VARIABLES
    place,      \* the namespace a Thread's directory is in
    retention,  \* retention_state in its thread.json; none: no such file
    parentOf,   \* parent_thread_id in its thread.json
    listing,    \* threads.index.json
    trash,      \* directories in .trash, with what their thread.json says
    ready,      \* RecoverLayout has succeeded since the process started
    job,        \* the operation that holds the Store lock
    kept        \* history: created Threads that no one has asked to remove

lvars == <<place, retention, parentOf, listing, trash, ready, job, kept, faultVars>>

Threads == Workers \cup {Main}
NoThread == "none"

LayoutFails == FailsOnce(MaxLayoutFaults)

-----------------------------------------------------------------------------
(* Scans *)

There(t) == place[t] # "none"
Bare(t) == There(t) /\ retention[t] = "none"
Misplaced(t) == There(t) /\ ~Bare(t) /\ (retention[t] = "archived") # (place[t] = "archive")
Lacks(t) == /\ There(Main) /\ There(t) /\ t # Main /\ ~There(parentOf[t])

(* scanProjectionFilesLocked and validateProjectionSet accept the layout.  *)
Scannable == \A t \in Threads : ~Bare(t) /\ ~Misplaced(t) /\ ~Lacks(t)

ListEntry(t) == [id |-> t, parent |-> parentOf[t], state |-> retention[t]]
Stored == {ListEntry(t) : t \in {u \in Threads : There(u)}}

(* loadOrRebuildIndexLocked *)
IndexLoaded == Scannable /\ listing' = Stored

(* checkWorkerDepthLocked: the chain of parents, archived ones included *)
WithinDepth(p) == p = Main \/ (MaxWorkerDepth = 2 /\ parentOf[p] = Main)

-----------------------------------------------------------------------------
(* The operation in progress *)

NoJob == [step |-> "idle", kind |-> "none", id |-> Main]
Free == job.step = "idle"
Doing(step) == job.step = step
Step(step) == job' = [job EXCEPT !.step = step]
Return == job' = NoJob
StartJob(kind, t, step) == job' = [kind |-> kind, id |-> t, step |-> step]

PutAt(t, where) == place' = [place EXCEPT ![t] = where]
Describe(t, state) == retention' = [retention EXCEPT ![t] = state]

-----------------------------------------------------------------------------
(* EnsureMain and CreateWorker: createLocked *)

(* MkdirAll; EnsureMain refuses a directory without thread.json. *)
EnsureMain ==
    /\ ready /\ Free /\ ~There(Main)
    /\ PutAt(Main, "active") /\ parentOf' = [parentOf EXCEPT ![Main] = NoThread]
    /\ StartJob("create", Main, "describe")
    /\ UNCHANGED <<retention, listing, trash, ready, kept, faultVars>>

CreateWorker(t, p) ==
    /\ ready /\ Free
    /\ IndexLoaded
    /\ retention[p] = "active" /\ There(p) /\ WithinDepth(p)
    /\ ~There(t)
    /\ PutAt(t, "active") /\ parentOf' = [parentOf EXCEPT ![t] = p]
    /\ StartJob("create", t, "describe")
    /\ UNCHANGED <<retention, trash, ready, kept, faultVars>>

(* The first journal and thread.json; whatever fails on the way, the       *)
(* directory is removed again, unless that fails too.                      *)
DescribeThread ==
    LET t == job.id IN
    /\ Doing("describe")
    /\ \/ Succeeds /\ Describe(t, "active") /\ Step("index") /\ UNCHANGED place
       \/ /\ LayoutFails /\ Return
          /\ \/ PutAt(t, "none") /\ Describe(t, "none")
             \/ UNCHANGED <<place, retention>>
             \/ Describe(t, "active") /\ UNCHANGED place
    /\ UNCHANGED <<parentOf, listing, trash, ready, kept, deaths>>

(* updateProjectionLocked, the end of every operation that changes         *)
(* thread.json; its error leaves the Thread as it is.  A created Thread is *)
(* the caller's only when it succeeds.                                     *)
RefreshIndex ==
    /\ Doing("index")
    /\ \/ /\ Succeeds /\ Scannable /\ listing' = Stored
          /\ kept' = IF job.kind = "create" THEN kept \cup {job.id} ELSE kept
       \/ Succeeds /\ ~Scannable /\ UNCHANGED <<listing, kept>>
       \/ LayoutFails /\ listing' \in {listing, Stored} /\ UNCHANGED kept
    /\ Return
    /\ UNCHANGED <<place, retention, parentOf, trash, ready, deaths>>

-----------------------------------------------------------------------------
(* Archive and Unarchive: thread.json first, then the directory *)

Archive(t) ==
    /\ ready /\ Free /\ t # Main
    /\ place[t] = "active" /\ retention[t] = "active"
    /\ IndexLoaded
    /\ \A e \in listing' : e.parent = t => e.state # "active"
    /\ StartJob("archive", t, "retain")
    /\ UNCHANGED <<place, retention, parentOf, trash, ready, kept, faultVars>>

(* openLocked, which loads the index, before anything is changed *)
Unarchive(t) ==
    /\ ready /\ Free /\ t # Main
    /\ place[t] = "archive" /\ retention[t] = "archived"
    /\ IndexLoaded
    /\ StartJob("unarchive", t, "retain")
    /\ UNCHANGED <<place, retention, parentOf, trash, ready, kept, faultVars>>

Kept(kind) == IF kind = "archive" THEN "archived" ELSE "active"
Namespace(kind) == IF kind = "archive" THEN "archive" ELSE "active"

(* mutateProjectionLocked *)
Retain ==
    /\ Doing("retain")
    /\ \/ Succeeds /\ Describe(job.id, Kept(job.kind)) /\ Step("move")
       \/ /\ LayoutFails /\ Return
          /\ Describe(job.id, Kept(job.kind)) \/ UNCHANGED retention
    /\ UNCHANGED <<place, parentOf, listing, trash, ready, kept, deaths>>

(* durableRename: an error may come after the rename. *)
Move ==
    /\ Doing("move")
    /\ \/ Succeeds /\ PutAt(job.id, Namespace(job.kind)) /\ Step("index")
       \/ LayoutFails /\ Return /\ (PutAt(job.id, Namespace(job.kind)) \/ UNCHANGED place)
    /\ UNCHANGED <<retention, parentOf, listing, trash, ready, kept, deaths>>

-----------------------------------------------------------------------------
(* DeleteArchived and RollbackWorkerCreation *)

(* No child of t is listed. *)
Removable(t, entries) == \A e \in entries : e.parent # t

DeleteArchived(t) ==
    /\ ready /\ Free /\ t # Main
    /\ IndexLoaded
    /\ place[t] = "archive" /\ Removable(t, listing')
    /\ StartJob("delete", t, "toTrash")
    /\ kept' = kept \ {t}
    /\ UNCHANGED <<place, retention, parentOf, trash, ready, faultVars>>

(* The creator removes a Worker it could not start. *)
RollbackWorkerCreation(t) ==
    /\ ready /\ Free /\ t # Main
    /\ IndexLoaded
    /\ place[t] = "active" /\ Removable(t, listing')
    /\ StartJob("rollback", t, "toTrash")
    /\ kept' = kept \ {t}
    /\ UNCHANGED <<place, retention, parentOf, trash, ready, faultVars>>

TrashEntry(t) == [id |-> t, state |-> IF job.kind = "delete" THEN "archived" ELSE "active"]

(* An error before the rename leaves the Thread in place. *)
ToTrash ==
    LET gone == /\ PutAt(job.id, "none") /\ Describe(job.id, "none")
                /\ trash' = trash \cup {TrashEntry(job.id)}
    IN
    /\ Doing("toTrash")
    /\ \/ Succeeds /\ gone /\ Step("unlist") /\ UNCHANGED kept
       \/ LayoutFails /\ Return /\ gone /\ UNCHANGED kept
       \/ /\ LayoutFails /\ Return /\ UNCHANGED <<place, retention, trash>>
          /\ kept' = kept \cup {job.id}
    /\ UNCHANGED <<parentOf, listing, ready, deaths>>

(* writeIndexLocked without the entry *)
Unlist ==
    LET filtered == {e \in listing : e.id # job.id} IN
    /\ Doing("unlist")
    /\ \/ Succeeds /\ listing' = filtered /\ Step("purge")
       \/ LayoutFails /\ listing' \in {listing, filtered} /\ Step("restore")
    /\ UNCHANGED <<place, retention, parentOf, trash, ready, kept, deaths>>

(* The roll back of the rename after a failed index write; when it fails,  *)
(* the next RecoverLayout finishes the delete.                             *)
RestoreFromTrash ==
    LET source == IF job.kind = "delete" THEN "archive" ELSE "active" IN
    /\ Doing("restore")
    /\ \/ /\ Succeeds /\ PutAt(job.id, source) /\ Describe(job.id, TrashEntry(job.id).state)
          /\ trash' = trash \ {TrashEntry(job.id)}
          /\ kept' = kept \cup {job.id}
       \/ LayoutFails /\ UNCHANGED <<place, retention, trash, kept>>
    /\ Return
    /\ UNCHANGED <<parentOf, listing, ready, deaths>>

(* RemoveAll of the directory *)
Purge ==
    /\ Doing("purge")
    /\ \/ Succeeds /\ trash' = trash \ {TrashEntry(job.id)}
       \/ LayoutFails /\ UNCHANGED trash
    /\ Return
    /\ UNCHANGED <<place, retention, parentOf, listing, ready, kept, deaths>>

-----------------------------------------------------------------------------
(* RecoverLayout *)

BeginRecovery ==
    /\ Free
    /\ StartJob("recover", Main, "align")
    /\ UNCHANGED <<place, retention, parentOf, listing, trash, ready, kept, faultVars>>

(* A directory goes where its thread.json says. *)
Align(t) ==
    LET moved == PutAt(t, IF retention[t] = "archived" THEN "archive" ELSE "active") IN
    /\ Doing("align") /\ t # Main /\ Misplaced(t)
    /\ \/ Succeeds /\ moved /\ UNCHANGED job
       \/ LayoutFails /\ Return /\ (moved \/ UNCHANGED place)
    /\ UNCHANGED <<retention, parentOf, listing, trash, ready, kept, deaths>>

(* A directory without thread.json ends the recovery. *)
RefuseLayout ==
    /\ Doing("align") /\ \E t \in Threads : Bare(t) \/ Lacks(t)
    /\ Return
    /\ UNCHANGED <<place, retention, parentOf, listing, trash, ready, kept, faultVars>>

(* rebuildIndexLocked *)
Rebuild ==
    /\ Doing("align") /\ Scannable
    /\ \/ Succeeds /\ listing' = Stored /\ Step("empty")
       \/ LayoutFails /\ listing' \in {listing, Stored} /\ Return
    /\ UNCHANGED <<place, retention, parentOf, trash, ready, kept, deaths>>

(* finishTrashOperationsLocked *)
EmptyTrash ==
    /\ Doing("empty")
    /\ \/ Succeeds /\ trash' = {} /\ ready' = TRUE
       \/ LayoutFails /\ UNCHANGED <<trash, ready>>
    /\ Return
    /\ UNCHANGED <<place, retention, parentOf, listing, kept, deaths>>

AgentEnds ==
    /\ Dies(MaxLayoutDeaths)
    /\ ready' = FALSE /\ job' = NoJob
    /\ UNCHANGED <<place, retention, parentOf, listing, trash, kept, failures>>

-----------------------------------------------------------------------------
(* An Agent whose Main Thread has never been opened *)
LInit ==
    /\ place = [t \in Threads |-> "none"]
    /\ retention = [t \in Threads |-> "none"]
    /\ parentOf = [t \in Threads |-> NoThread]
    /\ listing = {}
    /\ trash = {}
    /\ ready = FALSE
    /\ job = NoJob
    /\ kept = {}
    /\ FaultFree

LNext ==
    \/ EnsureMain
    \/ \E t \in Workers, p \in Threads : CreateWorker(t, p)
    \/ DescribeThread
    \/ RefreshIndex
    \/ \E t \in Workers : Archive(t)
    \/ \E t \in Workers : Unarchive(t)
    \/ Retain
    \/ Move
    \/ \E t \in Workers : DeleteArchived(t)
    \/ \E t \in Workers : RollbackWorkerCreation(t)
    \/ ToTrash
    \/ Unlist
    \/ RestoreFromTrash
    \/ Purge
    \/ BeginRecovery
    \/ \E t \in Workers : Align(t)
    \/ RefuseLayout
    \/ Rebuild
    \/ EmptyTrash
    \/ AgentEnds

LSpec == LInit /\ [][LNext]_lvars

-----------------------------------------------------------------------------
(* Properties *)

LTypeOK ==
    /\ place \in [Threads -> {"none", "active", "archive"}]
    /\ retention \in [Threads -> {"none", "active", "archived"}]
    /\ parentOf \in [Threads -> Threads \cup {NoThread}]
    /\ listing \subseteq [id : Threads, parent : Threads \cup {NoThread},
                          state : {"active", "archived"}]
    /\ trash \subseteq [id : Workers, state : {"active", "archived"}]
    /\ kept \subseteq Threads /\ ready \in BOOLEAN

(* A Thread whose creation was reported stays on disk, whole, through      *)
(* archive and unarchive, until someone asks for its removal; a removal    *)
(* that reports an error and could roll back has removed nothing.          *)
ThreadsKept == \A t \in kept : There(t) /\ retention[t] # "none"

(* "Working Threads and invalid parent/child topology block archive or     *)
(* delete" (ARCHITECTURE.md): while a Worker exists its parent does, even  *)
(* archived, since one missing parent makes every scan of the Agent fail.  *)
ParentsPresent == \A t \in Workers : There(t) => There(parentOf[t])

(* RecoverLayout ends every interrupted move and removal: when it reports  *)
(* success the namespaces are those of thread.json, the index lists what   *)
(* is stored and nothing is left in the trash.                             *)
RecoveryAligns ==
    [][~ready /\ ready' =>
          /\ \A t \in Threads : ~Bare(t)' /\ ~Misplaced(t)'
          /\ listing' = Stored' /\ trash' = {}]_lvars

=============================================================================
