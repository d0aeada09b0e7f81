--------------------------- MODULE ContextRenewal ---------------------------
(***************************************************************************)
(* The file transaction of a Context Generation: starting an empty or a    *)
(* compacted Generation also clears the working notes and prunes the       *)
(* finished tasks, in files of their own (thread/context_renewal_files.go, *)
(* runtime/context_generation.go, the commit of runtime/compact.go,        *)
(* module/lifecycle.go, features/notes and features/tasks).                *)
(*                                                                         *)
(* Every owner stages its file under a backup name that holds the current  *)
(* Generation, after the manifest has registered it; then thread.json      *)
(* selects the next Generation; then the staged files are finalized, or    *)
(* rolled back when it did not.  The process may end between any two of    *)
(* these steps; opening the Thread finishes what the manifest lists.       *)
(***************************************************************************)
EXTENDS FaultModel, SequencesExt

CONSTANTS
    RenewalFaults,      \* kinds of failing steps that occur
    MaxRenewalFaults,   \* bound: failing steps
    MaxRenewalDeaths,   \* bound: process ends
    MaxRenewals,        \* bound: Generations after the first
    MaxWrites           \* bound: contents the owners write

ASSUME RenewalBounds ==
    /\ MaxRenewalFaults \in Nat /\ MaxRenewalDeaths \in Nat
    /\ MaxRenewals \in Nat /\ MaxWrites \in Nat

VARIABLES
    canon,      \* the file of each owner
    backup,     \* its backups, by the Generation in their names
    manifest,   \* context-renewal.json
    selected,   \* the Generation thread.json selects
    attached,   \* the Thread is open
    current,    \* ... and the Generation its projection in memory has
    staging,    \* owners whose transaction this process holds
    renewal,    \* the operation in progress
    writes,     \* contents written so far
    intended,   \* history: what each file is for its owner
    adrift      \* history: owners whose file a renewal has left to no Generation

filesVars == <<canon, backup, manifest>>
historyVars == <<writes, intended, adrift>>
generationVars == <<selected, attached, current>>
rvars == <<filesVars, generationVars, staging, renewal, historyVars, faultVars>>

Owners == {"tasks", "notes"}
RegistrationOrder == <<"tasks", "notes">>
Scopes == 1 .. MaxRenewals + 1

(* A content: the write it comes from and whether finished tasks are in it *)
NoFile == [write |-> 0, done |-> FALSE]
Prune(c) == [c EXCEPT !.done = FALSE]
Replaces(o) == o = "tasks"

FailsAs(kind) == kind \in RenewalFaults /\ FailsOnce(MaxRenewalFaults)

-----------------------------------------------------------------------------
(* The operation in progress: what is left to stage, what it has staged,   *)
(* the entries it is finishing and on whose behalf.                        *)

Resting == [step |-> "idle", kind |-> "new", toStage |-> <<>>, staged |-> <<>>,
            queue |-> <<>>, mode |-> "none"]

On(step) == attached /\ renewal.step = step
Quiet == On("idle")

Entry(o) == [owner |-> o, gen |-> current]
EntriesOf(o) == {e \in ToSet(manifest) : e.owner = o}

(* CheckContextRenewalFileReady *)
FileReady(o) == o \notin staging /\ EntriesOf(o) = {}

(* What the backup of an entry holds *)
Staged(e) == backup[e.owner][e.gen]

(* runContextRenewalActions over the entries in es *)
FinishAll(mode, es) ==
    IF es = <<>> THEN Resting
    ELSE [Resting EXCEPT !.step = "finish", !.mode = mode, !.queue = es]

(* A module that cannot stage ends the transition; the ones before it are  *)
(* rolled back in reverse order (module.StageContextTransition).           *)
AbortStaging == renewal' = FinishAll("rollback", Reverse(renewal.staged))

NextToStage(staged) ==
    renewal' = IF Len(renewal.toStage) = 1
               THEN [renewal EXCEPT !.step = "commit", !.toStage = <<>>, !.staged = staged]
               ELSE [renewal EXCEPT !.step = "stage", !.toStage = Tail(@), !.staged = staged]

-----------------------------------------------------------------------------
(* newContextLocked and the commit of a compaction *)

BeginRenewal(kind) ==
    /\ Quiet /\ selected < MaxRenewals + 1
    /\ renewal' = [Resting EXCEPT !.step = "stage", !.kind = kind, !.toStage = RegistrationOrder]
    /\ UNCHANGED <<filesVars, generationVars, staging, historyVars, faultVars>>

(* StagePruneDone refuses a file that is not ready; the tasks are not      *)
(* touched when none of them is finished.                                  *)
StageTasks ==
    /\ On("stage") /\ Head(renewal.toStage) = "tasks"
    /\ \/ ~FileReady("tasks") /\ AbortStaging
       \/ FileReady("tasks") /\ ~canon["tasks"].done /\ NextToStage(renewal.staged)
       \/ /\ FileReady("tasks") /\ canon["tasks"].done
          /\ renewal' = [renewal EXCEPT !.step = "register"]
    /\ UNCHANGED <<filesVars, generationVars, staging, historyVars, faultVars>>

(* StageClearForContextRenewal, for a new context only; an entry that is   *)
(* left of an earlier transaction is finished first.                       *)
StageNotes ==
    /\ On("stage") /\ Head(renewal.toStage) = "notes"
    /\ \/ renewal.kind = "compact" /\ NextToStage(renewal.staged)
       \/ /\ renewal.kind = "new" /\ EntriesOf("notes") # {}
          /\ \E e \in EntriesOf("notes") :
                renewal' = [renewal EXCEPT !.step = "finish", !.mode = "restage", !.queue = <<e>>]
       \/ /\ renewal.kind = "new" /\ EntriesOf("notes") = {}
          /\ canon["notes"] = NoFile /\ NextToStage(renewal.staged)
       \/ /\ renewal.kind = "new" /\ EntriesOf("notes") = {}
          /\ canon["notes"] # NoFile /\ renewal' = [renewal EXCEPT !.step = "register"]
    /\ UNCHANGED <<filesVars, generationVars, staging, historyVars, faultVars>>

(* writeContextRenewalManifest with the new entry *)
RegisterFile ==
    LET registered == Append(manifest, Entry(Head(renewal.toStage))) IN
    /\ On("register")
    /\ \/ Succeeds /\ manifest' = registered /\ renewal' = [renewal EXCEPT !.step = "move"]
       \/ FailsAs("stage") /\ manifest' \in {manifest, registered} /\ AbortStaging
    /\ UNCHANGED <<canon, backup, generationVars, staging, historyVars, deaths>>

(* The backup holds the replacement, or the file itself.  A rename that    *)
(* cannot be made durable is undone; when that fails too, the file stays   *)
(* under its backup name.                                                  *)
Moved(o) ==
    IF Replaces(o)
    THEN /\ backup' = [backup EXCEPT ![o][current] = Prune(canon[o])]
         /\ UNCHANGED canon
    ELSE /\ backup' = [backup EXCEPT ![o][current] = canon[o]]
         /\ canon' = [canon EXCEPT ![o] = NoFile]

MoveFile ==
    LET o == Head(renewal.toStage) IN
    /\ On("move")
    /\ \/ /\ Succeeds /\ Moved(o) /\ staging' = staging \cup {o}
          /\ NextToStage(Append(renewal.staged, Entry(o)))
       \/ FailsAs("stage") /\ UNCHANGED <<canon, backup, staging>> /\ AbortStaging
       \/ /\ \/ Replaces(o) /\ FailsAs("stage")
             \/ ~Replaces(o) /\ FailsAs("rollback")
          /\ Moved(o) /\ UNCHANGED staging /\ AbortStaging
    /\ UNCHANGED <<manifest, generationVars, historyVars, deaths>>

(* A backup that the next open would make the file of its owner *)
Installs(e) ==
    /\ Staged(e) # NoFile
    /\ IF Replaces(e.owner) THEN e.gen # selected
       ELSE e.gen = selected /\ canon[e.owner] = NoFile

(* Owners whose file is still under a backup name from an earlier renewal, *)
(* whose roll back failed: a compaction does not look at the notes, and    *)
(* the Generation it selects makes the backup one to remove.               *)
LeftBehind ==
    {o \in Owners : \E e \in EntriesOf(o) : Installs(e) /\ e \notin ToSet(renewal.staged)}

(* BeginNewGeneration and BeginCompactedGeneration.  A handle that is not  *)
(* current is refused.  An index that cannot be refreshed is a             *)
(* ProjectionPersistError and finalizes ("late"); every other error rolls  *)
(* back, that of a thread.json which was replaced but whose directory      *)
(* could not be synchronized ("unsynced") too.                             *)
CommitGeneration ==
    LET committed ==
            /\ selected' = selected + 1 /\ current' = selected + 1
            /\ intended' = [o \in Owners |->
                               IF Replaces(o) THEN Prune(intended[o])
                               ELSE IF renewal.kind = "new" THEN NoFile ELSE intended[o]]
            /\ adrift' = adrift \cup LeftBehind
            /\ renewal' = FinishAll("finalize", renewal.staged)
    IN
    /\ On("commit")
    /\ \/ current = selected /\ (Succeeds \/ FailsAs("late")) /\ committed
       \/ /\ current = selected /\ FailsAs("unsynced")
          /\ selected' = selected + 1 /\ adrift' = Owners
          /\ AbortStaging /\ UNCHANGED <<current, intended>>
       \/ /\ \/ current # selected /\ Succeeds
             \/ FailsAs("commit")
          /\ AbortStaging /\ UNCHANGED <<selected, current, intended, adrift>>
    /\ UNCHANGED <<filesVars, attached, staging, writes, deaths>>

-----------------------------------------------------------------------------
(* finishContextRenewalFile, for the first entry of the queue *)

Finishing(step) == (attached \/ renewal.mode = "recover") /\ renewal.step = step
InHand == Head(renewal.queue)

(* The owner's file comes back: its transaction is rolled back, or the     *)
(* Generation it was staged for is still the current one, of thread.json   *)
(* when the Thread is opened, of the handle when the file is staged again. *)
Restores ==
    CASE renewal.mode = "rollback" -> TRUE
      [] renewal.mode = "finalize" -> FALSE
      [] OTHER -> InHand.gen = current

Conflict == ~Replaces(InHand.owner) /\ Restores /\ canon[InHand.owner] # NoFile

DropBackup == backup' = [backup EXCEPT ![InHand.owner][InHand.gen] = NoFile]

FileDone ==
    CASE Replaces(InHand.owner) /\ ~Restores ->
            canon' = [canon EXCEPT ![InHand.owner] = Staged(InHand)] /\ UNCHANGED backup
      [] ~Replaces(InHand.owner) /\ Restores ->
            canon' = [canon EXCEPT ![InHand.owner] = Staged(InHand)] /\ DropBackup
      [] OTHER -> DropBackup /\ UNCHANGED canon

FileUntouched == UNCHANGED <<canon, backup>>

(* finish releases the transaction on every path. *)
Released == staging \ {InHand.owner}

(* What an error ends: the finalizers and the roll back go on with the     *)
(* next entry, staging is aborted, and the Thread is not opened.           *)
FinishFailed ==
    CASE renewal.mode \in {"finalize", "rollback"} ->
            /\ renewal' = FinishAll(renewal.mode, Tail(renewal.queue))
            /\ staging' = Released
      [] renewal.mode = "restage" -> AbortStaging /\ UNCHANGED staging
      [] OTHER -> renewal' = Resting /\ UNCHANGED staging

FaultKind == IF renewal.mode = "rollback" THEN "rollback" ELSE "finish"

FinishFile ==
    LET next == IF Replaces(InHand.owner) /\ ~Restores THEN "remove" ELSE "unregister"
        goOn(step) == renewal' = [renewal EXCEPT !.step = step] /\ UNCHANGED staging
    IN
    /\ Finishing("finish")
    /\ \/ Staged(InHand) = NoFile /\ Succeeds /\ FileUntouched /\ goOn("unregister")
       \/ Staged(InHand) # NoFile /\ Conflict /\ Succeeds /\ FileUntouched /\ FinishFailed
       \/ Staged(InHand) # NoFile /\ ~Conflict /\ Succeeds /\ FileDone /\ goOn(next)
       \/ /\ Staged(InHand) # NoFile /\ ~Conflict
          /\ FailsAs(FaultKind) /\ (FileDone \/ FileUntouched) /\ FinishFailed
    /\ UNCHANGED <<manifest, generationVars, historyVars, deaths>>

(* The replacement is installed; its backup goes. *)
RemoveReplacement ==
    /\ Finishing("remove")
    /\ \/ /\ Succeeds /\ DropBackup
          /\ renewal' = [renewal EXCEPT !.step = "unregister"] /\ UNCHANGED staging
       \/ FailsAs(FaultKind) /\ (DropBackup \/ UNCHANGED backup) /\ FinishFailed
    /\ UNCHANGED <<canon, manifest, generationVars, historyVars, deaths>>

(* A file is listed once (readContextRenewalManifest). *)
WithoutEntry(e) ==
    IF \E k \in DOMAIN manifest : manifest[k] = e
    THEN RemoveAt(manifest, CHOOSE k \in DOMAIN manifest : manifest[k] = e)
    ELSE manifest

(* writeContextRenewalManifest without the entry *)
Unregister ==
    LET rest == WithoutEntry(InHand)
        last == Len(renewal.queue) = 1
    IN
    /\ Finishing("unregister")
    /\ \/ /\ Succeeds /\ manifest' = rest
          /\ IF renewal.mode = "restage"
             THEN renewal' = [renewal EXCEPT !.step = "stage", !.mode = "none", !.queue = <<>>]
             ELSE renewal' = FinishAll(renewal.mode, Tail(renewal.queue))
          /\ staging' = IF renewal.mode = "restage" THEN staging ELSE Released
          /\ attached' = (attached \/ last)
       \/ /\ FailsAs(FaultKind) /\ manifest' \in {manifest, rest}
          /\ FinishFailed /\ UNCHANGED attached
    /\ UNCHANGED <<canon, backup, selected, current, historyVars, deaths>>

-----------------------------------------------------------------------------
(* openLocked runs recoverContextRenewalFiles before the Thread is used. *)

Attach ==
    /\ ~attached /\ renewal.step = "idle"
    /\ attached' = (manifest = <<>>) /\ current' = selected
    /\ renewal' = FinishAll("recover", manifest)
    /\ UNCHANGED <<filesVars, selected, staging, historyVars, faultVars>>

Detach ==
    /\ Quiet
    /\ attached' = FALSE
    /\ UNCHANGED <<filesVars, selected, current, staging, renewal, historyVars, faultVars>>

RenewalProcessEnds ==
    /\ Dies(MaxRenewalDeaths)
    /\ attached' = FALSE /\ staging' = {} /\ renewal' = Resting
    /\ UNCHANGED <<filesVars, selected, current, historyVars, failures>>

-----------------------------------------------------------------------------
(* The owners *)

(* WriteFileAtomic replaces the file, or fails before or after it did. *)
Save(o, c) ==
    /\ writes < MaxWrites /\ writes' = writes + 1
    /\ \/ (Succeeds \/ FailsAs("write")) /\ canon' = [canon EXCEPT ![o] = c]
                                         /\ intended' = [intended EXCEPT ![o] = c]
       \/ FailsAs("write") /\ UNCHANGED <<canon, intended>>

Content(done) == [write |-> writes + 1, done |-> done]

(* Mutant of TaskTool: the tasks are written while a renewal is pending. *)
TaskToolUnfenced(done) ==
    /\ Quiet /\ Save("tasks", Content(done))
    /\ UNCHANGED <<backup, manifest, generationVars, staging, renewal, adrift, deaths>>

(* create_task, update_task, delete_task and RecordContinuation; when all  *)
(* tasks are done the notes are cleared.                                   *)
TaskTool(done) ==
    /\ Quiet /\ FileReady("tasks")
    /\ Save("tasks", Content(done))
    /\ \/ UNCHANGED renewal
       \/ done /\ failures' = failures /\ renewal' = [Resting EXCEPT !.step = "cleanup"]
    /\ UNCHANGED <<backup, manifest, generationVars, staging, adrift, deaths>>

(* notifyAllTasksDone: NotesStore.Clear *)
ClearNotes ==
    LET cleared == /\ canon' = [canon EXCEPT !["notes"] = NoFile]
                   /\ intended' = [intended EXCEPT !["notes"] = NoFile]
    IN
    /\ On("cleanup")
    /\ \/ FileReady("notes") /\ Succeeds /\ cleared
       \/ FileReady("notes") /\ FailsAs("write") /\ (cleared \/ UNCHANGED <<canon, intended>>)
       \/ ~FileReady("notes") /\ Succeeds /\ UNCHANGED <<canon, intended>>
    /\ renewal' = Resting
    /\ UNCHANGED <<backup, manifest, generationVars, staging, writes, adrift, deaths>>

(* update_notes; NotesStore.Update does not ask CheckContextRenewalFileReady. *)
UpdateNotes ==
    /\ Quiet
    /\ Save("notes", Content(FALSE))
    /\ UNCHANGED <<backup, manifest, generationVars, staging, renewal, adrift, deaths>>

-----------------------------------------------------------------------------
RInit ==
    /\ canon = [o \in Owners |-> NoFile]
    /\ backup = [o \in Owners |-> [g \in Scopes |-> NoFile]]
    /\ manifest = <<>>
    /\ selected = 1
    /\ attached = FALSE /\ current = 1
    /\ staging = {}
    /\ renewal = Resting
    /\ writes = 0
    /\ intended = canon /\ adrift = {}
    /\ FaultFree

RNext ==
    \/ \E kind \in {"new", "compact"} : BeginRenewal(kind)
    \/ StageTasks
    \/ StageNotes
    \/ RegisterFile
    \/ MoveFile
    \/ CommitGeneration
    \/ FinishFile
    \/ RemoveReplacement
    \/ Unregister
    \/ Attach
    \/ Detach
    \/ RenewalProcessEnds
    \/ \E done \in BOOLEAN : TaskTool(done)
    \/ ClearNotes
    \/ UpdateNotes

RSpec == RInit /\ [][RNext]_rvars

-----------------------------------------------------------------------------
(* Properties *)

RTypeOK ==
    /\ canon \in [Owners -> [write : 0 .. MaxWrites, done : BOOLEAN]]
    /\ backup \in [Owners -> [Scopes -> [write : 0 .. MaxWrites, done : BOOLEAN]]]
    /\ ToSet(manifest) \subseteq [owner : Owners, gen : Scopes]
    /\ selected \in Scopes /\ current \in Scopes
    /\ adrift \subseteq Owners /\ staging \subseteq Owners
    /\ writes \in 0 .. MaxWrites

(* What opening the Thread would leave in the file of an owner, or leaves  *)
(* in it when it refuses the Thread                                        *)
Recoverable(o) ==
    LET es == {e \in EntriesOf(o) : Installs(e)} IN
    IF es = {} THEN canon[o] ELSE Staged(CHOOSE e \in es : TRUE)

(* "Finalize is used after the Generation boundary commits; Rollback is    *)
(* used when it does not" (module/lifecycle.go): wherever a renewal fails  *)
(* or the process ends, the files that the next open leaves belong to the  *)
(* Generation that thread.json selects.  Notes and tasks written under it  *)
(* are there, and none that a committed renewal has cleared comes back.    *)
(* Two failures set a file adrift: the roll back of a renewal whose        *)
(* thread.json was replaced without being synchronized, and, for notes, a  *)
(* roll back that fails and leaves them to the next compaction.            *)
RenewalAtomic == \A o \in Owners \ adrift : Recoverable(o) = intended[o]

(* "StageContextRenewalFileClear records a Thread-relative file            *)
(* transaction before renaming its authority file" and recovery works from *)
(* the manifest alone: no content is left under a backup name that the     *)
(* manifest does not list, where nothing would ever bring it back or       *)
(* remove it.                                                              *)
BackupsRegistered ==
    \A o \in Owners, g \in Scopes :
        backup[o][g] # NoFile => [owner |-> o, gen |-> g] \in ToSet(manifest)

=============================================================================
