------------------------------ MODULE EventStore ------------------------------
(***************************************************************************)
(* The durable history of one Thread: Generation journals and thread.json, *)
(* EventStore and Thread in internal/framework/thread/{event_store,thread, *)
(* replay}.go.  A commit is appended to the current journal, then          *)
(* thread.json is replaced, then the Agent index is refreshed; a rollover  *)
(* stages the first commit of the next Generation in a file of its own     *)
(* before thread.json selects it.  Every operation holds the Agent-wide    *)
(* Store lock, but the process may end between any two of its writes.      *)
(*                                                                         *)
(* The Agent attached to the Thread has one handle, the owner; requests of *)
(* the host open further handles on the same Thread and rename or archive  *)
(* through them.  jsonl.File is used as JournalFile specifies it: an       *)
(* Append adds a commit or reports an error and adds nothing, unless its   *)
(* roll back fails too.                                                    *)
(***************************************************************************)
EXTENDS Naturals, SequencesExt

CONSTANTS
    Owner,          \* the handle of the attached Agent
    Visitors,       \* handles that requests open beside it
    MaxCommits,     \* bound: commits written
    MaxGenerations, \* bound: Generations
    MaxRevision,    \* bound: revision of thread.json
    Faults,         \* kinds of failing writes that occur
    MaxFaults, MaxCrashes

ASSUME OwnerAssumption == Owner \notin Visitors
ASSUME CommitsAssumption == MaxCommits \in Nat \ {0}
ASSUME GenerationsAssumption == MaxGenerations \in Nat \ {0}
ASSUME RevisionAssumption == MaxRevision \in Nat \ {0}
ASSUME StoreBounds == MaxFaults \in Nat /\ MaxCrashes \in Nat

VARIABLES
    journal,   \* the commits of every Generation's file; none: no file
    meta,      \* thread.json
    index,     \* the revision the Agent index shows
    opened,    \* per handle: open, and t.state.Projection
    op,        \* the operation that holds the Store lock
    made,      \* commits written so far
    acked,     \* history: the commits the last successful operation has reported
    faults, crashes

evars == <<journal, meta, index, opened, op, made, acked, faults, crashes>>

Handles == Visitors \cup {Owner}
Generations == 1 .. MaxGenerations

-----------------------------------------------------------------------------
(* Projections *)

(* A Projection: its revision, the boundary sequences of the registered    *)
(* Generations, the cursor's sequence and offset (in commits), the token   *)
(* usage (one per usage fact) and the rest of the metadata (label).        *)
(* UsageAggregatedThrough is left out: applyCommit always sets it to the   *)
(* cursor.                                                                 *)
Created == [rev |-> 1, bounds |-> <<1>>, seq |-> 1, off |-> 1, usage |-> 0, label |-> 0]

CurrentGeneration(p) == Len(p.bounds)

(* applyCommit of a commit to the current Generation *)
ApplyCommit(p, kind) ==
    [p EXCEPT !.seq = @ + 1,
              !.off = @ + 1,
              !.usage = IF kind = "usage" THEN @ + 1 ELSE @]

(* Mutant of ApplyBoundary: the offset is that of an empty file. *)
ApplyBoundaryAtStart(p) ==
    [p EXCEPT !.seq = @ + 1, !.bounds = Append(@, p.seq + 1), !.off = 0]

(* applyCommit of a context boundary, the first commit of a Generation *)
ApplyBoundary(p) ==
    [p EXCEPT !.seq = @ + 1,
              !.bounds = Append(@, p.seq + 1),
              !.off = 1]

(* advanceProjectionRevision *)
Advance(p) == [p EXCEPT !.rev = @ + 1]

(* prepareCommit *)
Commit(p, kind) == [id |-> made + 1, seq |-> p.seq + 1, kind |-> kind]

-----------------------------------------------------------------------------
(* Operations hold the Store lock; step is their next write. *)

Idle == [by |-> Owner, step |-> "idle", proj |-> Created]
Begin(h, step, p) == op' = [by |-> h, step |-> step, proj |-> p]
Then(step) == op' = [op EXCEPT !.step = step]
End == op' = Idle

Unlocked == op.step = "idle"
At(step) == op.step = step

Works == UNCHANGED faults
Fails(kind) == kind \in Faults /\ faults < MaxFaults /\ faults' = faults + 1

(* persistProjectionValueLocked: the file is replaced, or not, or it is    *)
(* replaced and the sync of its directory fails.                           *)
Replaced == meta' = op.proj
NotReplaced == UNCHANGED meta

Publish(h, p) == opened' = [opened EXCEPT ![h] = [open |-> TRUE, proj |-> p]]
Release(h) == opened' = [opened EXCEPT ![h] = [open |-> FALSE, proj |-> Created]]

(* ensureProjectionCurrentLocked; a handle that fails it is refused with   *)
(* ErrStaleHandle.                                                         *)
EnsureCurrent(h) ==
    LET p == opened[h].proj IN
    /\ opened[h].open
    /\ p.rev = meta.rev
    /\ <<CurrentGeneration(p), p.seq, p.off>> = <<CurrentGeneration(meta), meta.seq, meta.off>>

-----------------------------------------------------------------------------
(* AppendFacts *)

(* appendCurrent, after checkSizeLocked of the file has found it as the    *)
(* handle left it.  Memory holds the candidate before thread.json does.  A *)
(* failing Append leaves the file alone, or the commit in it when its roll *)
(* back fails ("stray").                                                   *)
AppendFacts(kind) ==
    LET p == opened[Owner].proj
        g == CurrentGeneration(p)
        q == Advance(ApplyCommit(p, kind))
        written == journal' = [journal EXCEPT ![g] = Append(@, Commit(p, kind))]
                   /\ made' = made + 1
    IN
    /\ Unlocked /\ EnsureCurrent(Owner)
    /\ Len(journal[g]) = p.off
    /\ made < MaxCommits /\ q.rev <= MaxRevision
    /\ \/ Works /\ written /\ Publish(Owner, q) /\ Begin(Owner, "append", q)
       \/ Fails("journal") /\ UNCHANGED <<journal, made, opened, op>>
       \/ Fails("stray") /\ written /\ UNCHANGED <<opened, op>>
    /\ UNCHANGED <<meta, index, acked, crashes>>

(* Mutant of PersistAppend: thread.json is left to the next operation. *)
PersistAppendSkipped ==
    /\ At("append")
    /\ Works /\ NotReplaced /\ Then("index")
    /\ UNCHANGED <<journal, index, opened, made, acked, crashes>>

PersistAppend ==
    /\ At("append")
    /\ \/ Works /\ Replaced /\ Then("index")
       \/ Fails("meta") /\ NotReplaced /\ End
       \/ Fails("metaLate") /\ Replaced /\ End
    /\ UNCHANGED <<journal, index, opened, made, acked, crashes>>

-----------------------------------------------------------------------------
(* beginGeneration *)

(* Mutant of StageNextGeneration: a file that is there is appended to. *)
StageNextGenerationReuses ==
    LET p == opened[Owner].proj
        g == CurrentGeneration(p) + 1
    IN
    /\ Unlocked /\ EnsureCurrent(Owner)
    /\ g \in Generations
    /\ made < MaxCommits /\ p.rev < MaxRevision
    /\ Works
    /\ journal' = [journal EXCEPT ![g] = Append(@, Commit(p, "boundary"))]
    /\ made' = made + 1
    /\ Begin(Owner, "renew", Advance(ApplyBoundary(p)))
    /\ UNCHANGED <<meta, index, opened, acked, crashes>>

(* stageNextGeneration, which refuses a file that is already there *)
StageNextGeneration ==
    LET p == opened[Owner].proj
        g == CurrentGeneration(p) + 1
    IN
    /\ Unlocked /\ EnsureCurrent(Owner)
    /\ g \in Generations /\ journal[g] = <<>>
    /\ made < MaxCommits /\ p.rev < MaxRevision
    /\ \/ /\ Works
          /\ journal' = [journal EXCEPT ![g] = <<Commit(p, "boundary")>>]
          /\ made' = made + 1
          /\ Begin(Owner, "renew", Advance(ApplyBoundary(p)))
       \/ Fails("journal") /\ UNCHANGED <<journal, made, op>>
    /\ UNCHANGED <<meta, index, opened, acked, crashes>>

(* The memory follows, and activate makes the staged file the current one. *)
PersistGeneration ==
    /\ At("renew")
    /\ \/ Works /\ Replaced /\ Publish(Owner, op.proj) /\ Then("index")
       \/ Fails("meta") /\ NotReplaced /\ Then("discard") /\ UNCHANGED opened
       \/ Fails("renewLate") /\ Replaced /\ Then("discard") /\ UNCHANGED opened
    /\ UNCHANGED <<journal, index, made, acked, crashes>>

(* discard of the staged file *)
Discard ==
    /\ At("discard")
    /\ \/ Works /\ journal' = [journal EXCEPT ![CurrentGeneration(op.proj)] = <<>>]
       \/ Fails("discard") /\ UNCHANGED journal
    /\ End
    /\ UNCHANGED <<meta, index, opened, made, acked, crashes>>

-----------------------------------------------------------------------------
(* ApplyAlias, SetPendingInputCount and the metadata part of Archive and   *)
(* Unarchive: mutateProjectionLocked.  The memory follows thread.json.     *)

(* ApplyAlias and Archive load the index first, which may rewrite it. *)
MutateProjection(h) ==
    /\ Unlocked /\ EnsureCurrent(h)
    /\ opened[h].proj.rev < MaxRevision
    /\ Begin(h, "mutate", [Advance(opened[h].proj) EXCEPT !.label = @ + 1])
    /\ index' \in {index, meta.rev}
    /\ UNCHANGED <<journal, meta, opened, made, acked, faults, crashes>>

PersistMutation ==
    /\ At("mutate")
    /\ \/ Works /\ Replaced /\ Publish(op.by, op.proj) /\ Then("index")
       \/ Fails("meta") /\ NotReplaced /\ End /\ UNCHANGED opened
       \/ Fails("metaLate") /\ Replaced /\ End /\ UNCHANGED opened
    /\ UNCHANGED <<journal, index, made, acked, crashes>>

(* SetPendingInputCount with the count thread.json already has: only the   *)
(* index is loaded.                                                        *)
LoadIndexOnly ==
    /\ Unlocked /\ EnsureCurrent(Owner)
    /\ \/ Works /\ index' = meta.rev
       \/ Fails("index") /\ index # meta.rev /\ index' \in {index, meta.rev}
    /\ UNCHANGED <<journal, meta, opened, op, made, acked, crashes>>

-----------------------------------------------------------------------------
(* The commits of Generation g that a projection selects: the whole file,  *)
(* in the current Generation what is before the cursor.                    *)
Visible(p, g) == {k \in DOMAIN journal[g] : g = CurrentGeneration(p) => k <= p.off}

Commits(p) ==
    UNION {{journal[g][k] : k \in Visible(p, g)} : g \in 1 .. CurrentGeneration(p)}

(* The history a projection selects, by the sequence of its commits *)
Selected(p) == [s \in 1 .. p.seq |-> CHOOSE c \in Commits(p) : c.seq = s]

(* The last sequence that the journals hold: all that thread.json selects, *)
(* unless a rollover has removed the file of the Generation that is the    *)
(* current one (SelectedIsStaged).                                         *)
Reach == IF journal[CurrentGeneration(meta)] = <<>> THEN meta.seq - 1 ELSE meta.seq

Published == [s \in 1 .. Reach |-> CHOOSE c \in Commits(meta) : c.seq = s]

(* updateProjectionLocked; its error is the operation's, although the      *)
(* commit or the metadata is durable.                                      *)
UpdateIndex ==
    /\ At("index")
    /\ \/ Works /\ index' = meta.rev /\ acked' = Selected(op.proj)
       \/ Fails("index") /\ index' \in {index, meta.rev} /\ UNCHANGED acked
    /\ End
    /\ UNCHANGED <<journal, meta, opened, made, crashes>>

-----------------------------------------------------------------------------
(* openLocked *)

(* Registered journals that recoverGenerationLayout finds *)
Registered == 1 .. CurrentGeneration(meta)
Missing == {g \in Registered : journal[g] = <<>>}

Current == journal[CurrentGeneration(meta)]
Unpublished == SubSeq(Current, meta.off + 1, Len(Current))

(* splitCommitsAtCursor accepts at most one unpublished commit, and only   *)
(* one of usage facts.                                                     *)
SplitAtCursor ==
    /\ meta.off <= Len(Current)
    /\ Current[meta.off].seq = meta.seq
    /\ Len(Unpublished) <= 1
    /\ \A k \in DOMAIN Unpublished : Unpublished[k].kind = "usage"

(* readGenerationCommits *)
Consecutive(ls, first) == \A k \in DOMAIN ls : ls[k].seq = first + k - 1

Openable ==
    /\ Missing = {}
    /\ Consecutive(Current, Last(meta.bounds))
    /\ SplitAtCursor

(* The tail applied to the published state *)
RecoveredMeta == Advance(ApplyCommit(meta, "usage"))

(* openEventStore: files of Generations behind the registry are removed; a *)
(* Thread that is not Openable is refused.                                 *)
Open(h) ==
    /\ Unlocked /\ ~opened[h].open
    /\ journal' = [g \in Generations |-> IF g \in Registered THEN journal[g] ELSE <<>>]
    /\ \/ ~Openable /\ UNCHANGED op
       \/ Openable /\ Unpublished = <<>> /\ Begin(h, "load", meta)
       \/ Openable /\ Unpublished # <<>> /\ meta.rev < MaxRevision /\ Begin(h, "recover", RecoveredMeta)
    /\ UNCHANGED <<meta, index, opened, made, acked, faults, crashes>>

PersistRecovered ==
    /\ At("recover")
    /\ \/ Works /\ Replaced /\ Then("load")
       \/ Fails("meta") /\ NotReplaced /\ End
       \/ Fails("metaLate") /\ Replaced /\ End
    /\ UNCHANGED <<journal, index, opened, made, acked, crashes>>

(* Mutant of LoadIndex: an index that is there is not compared. *)
LoadIndexUnchecked ==
    /\ At("load")
    /\ Works /\ Publish(op.by, op.proj)
    /\ End
    /\ UNCHANGED <<journal, meta, index, made, acked, crashes>>

(* loadOrRebuildIndexLocked, the end of openLocked *)
LoadIndex ==
    /\ At("load")
    /\ \/ Works /\ index' = meta.rev /\ Publish(op.by, op.proj)
       \/ Fails("index") /\ index # meta.rev /\ index' \in {index, meta.rev} /\ UNCHANGED opened
    /\ End
    /\ UNCHANGED <<journal, meta, made, acked, crashes>>

Close(h) ==
    /\ Unlocked /\ opened[h].open
    /\ Release(h)
    /\ UNCHANGED <<journal, meta, index, op, made, acked, faults, crashes>>

Crash ==
    /\ crashes < MaxCrashes /\ crashes' = crashes + 1
    /\ opened' = [h \in Handles |-> [open |-> FALSE, proj |-> Created]]
    /\ End
    /\ UNCHANGED <<journal, meta, index, made, acked, faults>>

-----------------------------------------------------------------------------
First == <<[id |-> 1, seq |-> 1, kind |-> "created"]>>

(* A Thread that createLocked has just created and closed *)
EInit ==
    /\ journal = [g \in Generations |-> IF g = 1 THEN First ELSE <<>>]
    /\ meta = Created
    /\ index = 1
    /\ opened = [h \in Handles |-> [open |-> FALSE, proj |-> Created]]
    /\ op = Idle
    /\ made = 1
    /\ acked = First
    /\ faults = 0 /\ crashes = 0

ENext ==
    \/ \E kind \in {"usage", "fact"} : AppendFacts(kind)
    \/ PersistAppend
    \/ StageNextGeneration
    \/ PersistGeneration
    \/ Discard
    \/ \E h \in Handles : MutateProjection(h)
    \/ PersistMutation
    \/ LoadIndexOnly
    \/ UpdateIndex
    \/ \E h \in Handles : Open(h)
    \/ PersistRecovered
    \/ LoadIndex
    \/ \E h \in Handles : Close(h)
    \/ Crash

ESpec == EInit /\ [][ENext]_evars

-----------------------------------------------------------------------------
(* Properties *)

Projections ==
    [rev : 1 .. MaxRevision, bounds : Seq(1 .. MaxCommits), seq : 1 .. MaxCommits,
     off : 1 .. MaxCommits, usage : 0 .. MaxCommits, label : 0 .. MaxRevision]

CommitRecords ==
    [id : 1 .. MaxCommits, seq : 1 .. MaxCommits,
     kind : {"created", "usage", "fact", "boundary"}]

Steps == {"idle", "append", "renew", "discard", "mutate", "index", "recover", "load"}

(* Every variable keeps its type. *)
ETypeOK ==
    /\ journal \in [Generations -> Seq(CommitRecords)]
    /\ meta \in Projections
    /\ index \in 1 .. MaxRevision
    /\ opened \in [Handles -> [open : BOOLEAN, proj : Projections]]
    /\ op \in [by : Handles, step : Steps, proj : Projections]
    /\ made \in 1 .. MaxCommits
    /\ faults \in 0 .. MaxFaults /\ crashes \in 0 .. MaxCrashes

(* Only a rollover whose thread.json is replaced although its write        *)
(* reports an error removes a registered journal, that of the Generation   *)
(* it begins; no handle reads or writes the Thread after it.               *)
OnlyTheNewestIsLost ==
    Missing # {} =>
        /\ "renewLate" \in Faults
        /\ Missing = {CurrentGeneration(meta)} /\ CurrentGeneration(meta) > 1
        /\ \A h \in Handles : ~EnsureCurrent(h)

(* "One Event sequence spans all Generation Journals" (DOMAIN.md): what    *)
(* thread.json selects is numbered 1, 2, 3, ... through all Generations,   *)
(* the files it has left behind included, whatever failed or crashed.  The *)
(* exception is the boundary of a Generation whose file a failing rollover *)
(* has removed.                                                            *)
OneSequence ==
    /\ OnlyTheNewestIsLost
    /\ meta.bounds[1] = 1
    /\ \A g \in Registered \ Missing :
          LET next == IF g = CurrentGeneration(meta) THEN meta.seq + 1 ELSE meta.bounds[g + 1] IN
          /\ Visible(meta, g) = 1 .. next - meta.bounds[g]
          /\ \A k \in Visible(meta, g) : journal[g][k].seq = meta.bounds[g] + k - 1

(* Every usage fact of the published history is counted in thread.json,    *)
(* and none twice, although a commit that its process could not publish is *)
(* applied by whoever opens the Thread next ("a stale Usage aggregate      *)
(* replays only facts after its aggregation cursor", ARCHITECTURE.md).     *)
UsageCountedOnce == meta.usage = Cardinality({c \in Commits(meta) : c.kind = "usage"})

(* A handle that passes the revision and cursor check would write nothing  *)
(* back that is older than thread.json: its whole projection is the one on *)
(* disk, however the two came to agree (another handle renamed the Thread, *)
(* or recovered the commit that this one could not publish).               *)
CurrentHandleAgrees == Unlocked => \A h \in Handles : EnsureCurrent(h) => opened[h].proj = meta

(* "A failed index refresh leaves the committed Thread repairable"         *)
(* (thread/README.md): whoever opens the Thread leaves an index that shows *)
(* it as it is.                                                            *)
OpenRepairsIndex ==
    [][\A h \in Handles : ~opened[h].open /\ opened'[h].open => index' = meta'.rev]_evars

History == INSTANCE DurableLog WITH log <- Published, stable <- acked

(* A commit that was acknowledged stays in the published history, in its   *)
(* place, across rollovers, failing writes, crashes and the recovery of    *)
(* unpublished commits (DurableLog).  After a rollover has removed the     *)
(* file of the Generation it began it stays in the files too, although no  *)
(* handle can open the Thread to read it.                                  *)
ImplementsHistory == History!LogSpec

(* "A Generation rollover durably stages its boundary file before metadata *)
(* selects it" (thread/README.md) and "Failed Generation commits publish   *)
(* nothing" (ARCHITECTURE.md): thread.json names no Generation whose       *)
(* journal is not there.                                                   *)
SelectedIsStaged == Missing = {}

(* The sequence, the usage counters and the handles of a Thread's history  *)
(* (event_store.go, thread.go)                                             *)
HistorySafe == OneSequence /\ UsageCountedOnce /\ CurrentHandleAgrees

=============================================================================
