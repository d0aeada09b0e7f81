----------------------------- MODULE FileTools ------------------------------
(***************************************************************************)
(* The tools that change workspace files: chunked writes                   *)
(* (internal/features/chunkedwrite), apply_patch (features/applypatch),    *)
(* write and edit (features/filetools).  None is a serial tool, so the     *)
(* calls of one batch interleave; the batch's results join the history in  *)
(* the order of the calls, and a restarted Thread rebuilds its unfinished  *)
(* writes from that history.  A file's content is a sequence of tokens, a  *)
(* chunk or a replaced line is one token.                                  *)
(***************************************************************************)
EXTENDS Naturals, Sequences, FiniteSets, FiniteSetsExt, SequencesExt, Functions, FaultModel

CONSTANTS
    Paths,            \* workspace path identities
    Tokens,           \* what a line or a chunk may hold
    Patches,          \* patch_text values: sequences of add, update, move, delete operations
    Workloads,        \* bound: the kinds of call of one behaviour, how many, on which files, with how many faults
    MaxBatch,         \* bound: calls of one batch
    MaxChunks,        \* bound: chunk indexes
    MaxRenewals,      \* bound: compactions and renewals of the history
    MaxFileDeaths     \* bound: process ends

ASSUME FileToolsBounds == {MaxBatch, MaxChunks, MaxRenewals, MaxFileDeaths} \subseteq Nat

VARIABLES
    files,        \* what each path holds
    writes,       \* ChunkedWriteManager.sessions: write id -> session
    toolHistory,  \* the results in the Thread's history that carry a fact
    calls,        \* the calls of the running batch
    workload,     \* the calls this behaviour is made of
    issued,       \* calls made so far; a write_begin takes its id from it
    renewals      \* compactions and renewals so far

ftvars == <<files, writes, toolHistory, calls, workload, issued, renewals, failures, deaths>>

Absent == <<"absent">>
Torn == <<"torn">>
Modes == {"create", "overwrite"}
WriteIds == 1..Max({w.calls : w \in Workloads})
Indexes == 0..(MaxChunks - 1)
NoFact == [kind |-> "none"]
NoWrites == [i \in {} |-> 0]

Count(content, tok) == Cardinality({i \in DOMAIN content : content[i] = tok})
Replaced(content, old, new) == [i \in DOMAIN content |-> IF content[i] = old THEN new ELSE content[i]]

(* One step of call c: it moves on, or ends with its result.               *)
Steps(c, call) == calls' = [calls EXCEPT ![c] = call]
Done(c, outcome, fact) == [calls[c] EXCEPT !.at = "done", !.outcome = outcome, !.fact = fact]
CallEnds(c, outcome, fact) == Steps(c, Done(c, outcome, fact))
CallFails(c) == CallEnds(c, "error", NoFact)
Ready(c, kind) == calls[c].at = "ready" /\ calls[c].kind = kind

(* Writing p for call c: a patch that is under way and names p no longer   *)
(* answers for what p holds (ghost).                                       *)
Disturbed(c, cs, ps) ==
    [d \in DOMAIN cs |-> IF d # c /\ cs[d].kind = "patch" /\ cs[d].at # "ready"
                         THEN [cs[d] EXCEPT !.disturbed = @ \cup ps] ELSE cs[d]]
Puts(c, p, content, call) ==
    /\ files' = [files EXCEPT ![p] = content]
    /\ calls' = Disturbed(c, [calls EXCEPT ![c] = call], {p})

FilesOnly == UNCHANGED <<writes, toolHistory, issued, renewals>>
WritesOnly == UNCHANGED <<files, toolHistory, issued, renewals>>

-----------------------------------------------------------------------------
(* A batch *)

Blank(kind) == [kind |-> kind, at |-> "ready", outcome |-> "none", fact |-> NoFact, disturbed |-> {}]
BeginCall(p, m) == Blank("begin") @@ [path |-> p, mode |-> m, id |-> issued + 1]
ChunkCall(w, i, tok) == Blank("chunk") @@ [id |-> w, index |-> i, token |-> tok]
CommitCall(w, n) == Blank("commit") @@ [id |-> w, expected |-> n, session |-> NoWrites]
AbortCall(w) == Blank("abort") @@ [id |-> w]
WriteCall(p, tok) == Blank("write") @@ [path |-> p, token |-> tok]
EditCall(p, old, new, all) == Blank("edit") @@ [path |-> p, old |-> old, new |-> new, all |-> all, read |-> <<>>]
PatchCall(ops) == Blank("patch") @@ [ops |-> ops, changes |-> <<>>, snapshots |-> <<>>, before |-> files]

(* Write ids are random and new: a call can only name one it was told.     *)
Begun == DOMAIN writes \cup {toolHistory[i].id : i \in DOMAIN toolHistory}
CallsOf(kind) ==
    CASE kind = "begin" -> {BeginCall(p, m) : p \in workload.paths, m \in Modes}
      [] kind = "chunk" -> {ChunkCall(w, i, t) : w \in Begun, i \in Indexes, t \in Tokens}
      [] kind = "commit" -> {CommitCall(w, n) : w \in Begun, n \in {0} \cup 1..MaxChunks}
      [] kind = "abort" -> {AbortCall(w) : w \in Begun}
      [] kind = "write" -> {WriteCall(p, t) : p \in workload.paths, t \in Tokens}
      [] kind = "edit" -> {EditCall(p, o, n, all) : p \in workload.paths, o \in Tokens, n \in Tokens, all \in BOOLEAN}
      [] kind = "patch" -> {PatchCall(ops) : ops \in Patches}

Request ==
    /\ Len(calls) < MaxBatch /\ issued < workload.calls
    /\ \A c \in DOMAIN calls : calls[c].at = "ready"
    /\ \E kind \in workload.kinds : \E call \in CallsOf(kind) : calls' = Append(calls, call)
    /\ issued' = issued + 1
    /\ UNCHANGED <<files, writes, toolHistory, renewals>> /\ UNCHANGED faultVars

(* The Turn appends the results of a finished batch as one message; when   *)
(* that fails the calls are answered later without their facts.            *)
Facts == SelectSeq([c \in DOMAIN calls |-> calls[c].fact], LAMBDA f : f # NoFact)
RecordBatch ==
    /\ calls # <<>> /\ \A c \in DOMAIN calls : calls[c].at = "done"
    /\ calls' = <<>> /\ UNCHANGED <<files, writes, issued, renewals>>
    /\ \/ Succeeds /\ UNCHANGED deaths /\ toolHistory' = toolHistory \o Facts
       \/ FailsOnce(workload.faults) /\ UNCHANGED <<toolHistory, deaths>>

-----------------------------------------------------------------------------
(* ChunkedWriteManager *)

Session(p, m) == [path |-> p, mode |-> m, chunks |-> NoWrites]
Without(w) == Restrict(writes, DOMAIN writes \ {w})
With(w, s) == (w :> s) @@ writes
ActiveFor(p) == \E w \in DOMAIN writes : writes[w].path = p

(* begin: the target is looked at before the manager is locked.            *)
BeginWrite(c) ==
    /\ Ready(c, "begin")
    /\ WritesOnly /\ UNCHANGED faultVars /\ UNCHANGED writes
    /\ IF calls[c].mode = "create" /\ files[calls[c].path] # Absent THEN CallFails(c)
       ELSE Steps(c, [calls[c] EXCEPT !.at = "checked"])

RegisterWrite(c) ==
    /\ calls[c].kind = "begin" /\ calls[c].at = "checked"
    /\ WritesOnly /\ UNCHANGED faultVars
    /\ LET p == calls[c].path IN
       IF ActiveFor(p) THEN CallFails(c) /\ UNCHANGED writes
       ELSE /\ writes' = With(calls[c].id, Session(p, calls[c].mode))
            /\ CallEnds(c, "ok", [kind |-> "begin", id |-> calls[c].id, path |-> p, mode |-> calls[c].mode])

Accepted(s, i, tok) == i \in DOMAIN s.chunks => s.chunks[i] = tok

AddChunk(c) ==
    LET w == calls[c].id  i == calls[c].index  tok == calls[c].token IN
    /\ Ready(c, "chunk")
    /\ WritesOnly /\ UNCHANGED faultVars
    /\ IF w \in DOMAIN writes /\ Accepted(writes[w], i, tok)
       THEN /\ writes' = [writes EXCEPT ![w].chunks = (i :> tok) @@ @]
            /\ CallEnds(c, "ok", [kind |-> "chunk", id |-> w, index |-> i, token |-> tok])
       ELSE CallFails(c) /\ UNCHANGED writes

AbortWrite(c) ==
    /\ Ready(c, "abort")
    /\ WritesOnly /\ UNCHANGED faultVars
    /\ IF calls[c].id \in DOMAIN writes
       THEN writes' = Without(calls[c].id) /\ CallEnds(c, "ok", [kind |-> "abort", id |-> calls[c].id])
       ELSE CallFails(c) /\ UNCHANGED writes

(* assembleChunkWriteContent: the indexes must be 0 to n-1.                *)
Whole(s, expected) ==
    LET n == Cardinality(DOMAIN s.chunks) IN
    /\ n > 0 /\ expected \in {0, n}
    /\ DOMAIN s.chunks = 0..(n - 1)
Assembled(s) == [i \in 1..Cardinality(DOMAIN s.chunks) |-> s.chunks[i - 1]]

(* commit takes the session out of the manager and then works unlocked.    *)
TakeSession(c) ==
    LET w == calls[c].id IN
    /\ Ready(c, "commit")
    /\ WritesOnly /\ UNCHANGED faultVars
    /\ IF w \in DOMAIN writes /\ Whole(writes[w], calls[c].expected)
       THEN writes' = Without(w) /\ Steps(c, [calls[c] EXCEPT !.at = "taken", !.session = writes[w]])
       ELSE CallFails(c) /\ UNCHANGED writes

(* The temporary file is renamed over the target; a failure of any check   *)
(* or file operation before that leaves the target and puts the session    *)
(* back.                                                                   *)
PublishWrite(c) ==
    LET s == calls[c].session  w == calls[c].id IN
    /\ calls[c].kind = "commit" /\ calls[c].at = "taken"
    /\ UNCHANGED <<toolHistory, issued, renewals, deaths>>
    /\ \/ /\ Succeeds /\ UNCHANGED writes
          /\ Puts(c, s.path, Assembled(s), Done(c, "ok", [kind |-> "commit", id |-> w, content |-> Assembled(s)]))
       \/ /\ FailsOnce(workload.faults) /\ UNCHANGED files
          /\ writes' = With(w, s) /\ CallFails(c)

(* chunkWriteSessionTTL has passed for w: every use of the manager drops   *)
(* stale sessions before it looks at one.                                  *)
Expire ==
    /\ \E w \in DOMAIN writes : writes' = Without(w)
    /\ UNCHANGED <<files, toolHistory, calls, issued, renewals>> /\ UNCHANGED faultVars

(* recoverActiveSessions and RestoreActiveSessions *)
FoldFactLoose(found, f) ==
    IF f.kind \in {"commit", "abort"} THEN found
    ELSE IF f.kind = "begin" THEN (f.id :> Session(f.path, f.mode)) @@ found
    ELSE IF f.id \in DOMAIN found THEN [found EXCEPT ![f.id].chunks = (f.index :> f.token) @@ @] ELSE found

FoldFact(found, f) ==
    CASE f.kind = "begin" -> (f.id :> Session(f.path, f.mode)) @@ found
      [] f.kind = "chunk" /\ f.id \in DOMAIN found ->
            [found EXCEPT ![f.id].chunks = (f.index :> f.token) @@ @]
      [] f.kind \in {"commit", "abort"} -> Restrict(found, DOMAIN found \ {f.id})
      [] OTHER -> found

RecoverActiveSessions == FoldLeft(FoldFact, NoWrites, toolHistory)
RestoreActiveSessions ==
    LET found == RecoverActiveSessions IN
    Restrict(found, {w \in DOMAIN found : found[w].mode = "overwrite" \/ files[found[w].path] = Absent})

Restart ==
    /\ Dies(MaxFileDeaths) /\ UNCHANGED failures
    /\ writes' = RestoreActiveSessions /\ calls' = <<>>
    /\ UNCHANGED <<files, toolHistory, issued, renewals>>

(* Compaction keeps a tail of the history; a renewal keeps none of it and  *)
(* then tells the module (ContextRenewed).                                 *)
Compact ==
    /\ calls = <<>> /\ renewals < MaxRenewals /\ renewals' = renewals + 1
    /\ \E k \in DOMAIN toolHistory : toolHistory' = SubSeq(toolHistory, k, Len(toolHistory))
    /\ UNCHANGED <<files, writes, calls, issued>> /\ UNCHANGED faultVars

RenewContext ==
    /\ calls = <<>> /\ renewals < MaxRenewals /\ renewals' = renewals + 1
    /\ toolHistory' = <<>> /\ writes' = NoWrites
    /\ UNCHANGED <<files, calls, issued>> /\ UNCHANGED faultVars

-----------------------------------------------------------------------------
(* write and edit *)

WriteFile(c) ==
    LET p == calls[c].path IN
    /\ Ready(c, "write")
    /\ FilesOnly /\ UNCHANGED deaths
    /\ \/ Succeeds /\ Puts(c, p, <<calls[c].token>>, Done(c, "ok", NoFact))
       \/ FailsOnce(workload.faults) /\ \E left \in {files[p], Torn} : Puts(c, p, left, Done(c, "error", NoFact))

ReadForEdit(c) ==
    LET call == calls[c]  n == Count(files[call.path], call.old) IN
    /\ Ready(c, "edit")
    /\ UNCHANGED files /\ FilesOnly /\ UNCHANGED faultVars
    /\ IF n = 1 \/ (n > 1 /\ call.all)
       THEN Steps(c, [call EXCEPT !.at = "read", !.read = files[call.path]])
       ELSE CallFails(c)

WriteEdit(c) ==
    LET call == calls[c] IN
    /\ call.kind = "edit" /\ call.at = "read"
    /\ FilesOnly /\ UNCHANGED deaths
    /\ \/ Succeeds /\ Puts(c, call.path, Replaced(call.read, call.old, call.new), Done(c, "ok", NoFact))
       \/ /\ FailsOnce(workload.faults)
          /\ \E left \in {files[call.path], Torn} : Puts(c, call.path, left, Done(c, "error", NoFact))

-----------------------------------------------------------------------------
(* apply_patch *)

TargetsOf(op) == IF op.kind = "move" THEN {op.path, op.to} ELSE {op.path}
Targets(ops) == UNION {TargetsOf(ops[i]) : i \in DOMAIN ops}

(* planPatch: no path twice, and every operation fits what is on disk.     *)
DistinctTargets(ops) ==
    /\ \A i \in DOMAIN ops : ops[i].kind = "move" => ops[i].path # ops[i].to
    /\ \A i, j \in DOMAIN ops : i # j => TargetsOf(ops[i]) \cap TargetsOf(ops[j]) = {}
Applies(op) ==
    CASE op.kind = "add" -> files[op.path] = Absent
      [] op.kind = "update" -> Count(files[op.path], op.old) = 1
      [] op.kind = "move" -> files[op.path] # Absent /\ files[op.to] = Absent
      [] op.kind = "delete" -> files[op.path] # Absent

(* The file operations of one change, in order; Absent removes the file.   *)
ChangesOf(op) ==
    CASE op.kind = "add" -> <<[path |-> op.path, content |-> <<op.token>>]>>
      [] op.kind = "update" -> <<[path |-> op.path, content |-> Replaced(files[op.path], op.old, op.new)]>>
      [] op.kind = "move" -> <<[path |-> op.to, content |-> files[op.path]], [path |-> op.path, content |-> Absent]>>
      [] op.kind = "delete" -> <<[path |-> op.path, content |-> Absent]>>

PlanPatch(c) ==
    LET ops == calls[c].ops IN
    /\ Ready(c, "patch")
    /\ UNCHANGED files /\ FilesOnly /\ UNCHANGED faultVars
    /\ IF DistinctTargets(ops) /\ \A i \in DOMAIN ops : Applies(ops[i])
       THEN Steps(c, [calls[c] EXCEPT !.at = "planned", !.before = files,
                                      !.changes = FlattenSeq([i \in DOMAIN ops |-> ChangesOf(ops[i])])])
       ELSE CallFails(c)

(* snapshotPatchChanges: the paths of every change, a move's target after  *)
(* its source.                                                             *)
SnapshotsOf(ops) ==
    [i \in DOMAIN ops |-> <<[path |-> ops[i].path, content |-> files[ops[i].path]]>>
                          \o IF ops[i].kind = "move" THEN <<[path |-> ops[i].to, content |-> files[ops[i].to]]>> ELSE <<>>]

SnapshotPatch(c) ==
    /\ calls[c].kind = "patch" /\ calls[c].at = "planned"
    /\ UNCHANGED files /\ FilesOnly /\ UNCHANGED faultVars
    /\ Steps(c, [calls[c] EXCEPT !.at = "writing", !.snapshots = FlattenSeq(SnapshotsOf(calls[c].ops))])

(* A write that fails may leave a torn file; removing an absent file or    *)
(* any other failing remove leaves the path as it is.                      *)
WriteChange(c) ==
    LET call == calls[c]  change == Head(call.changes)
        next == [call EXCEPT !.changes = Tail(@)]  p == change.path
        gone == change.content = Absent /\ files[p] = Absent IN
    /\ call.kind = "patch" /\ call.at = "writing" /\ call.changes # <<>>
    /\ FilesOnly /\ UNCHANGED deaths
    /\ \/ /\ Succeeds /\ ~gone
          /\ Puts(c, p, change.content, IF next.changes = <<>> THEN [next EXCEPT !.at = "done", !.outcome = "ok"] ELSE next)
       \/ /\ IF gone THEN Succeeds ELSE FailsOnce(workload.faults)
          /\ \E left \in {files[p]} \cup (IF change.content = Absent THEN {} ELSE {Torn}) :
                Puts(c, p, left, [call EXCEPT !.at = "rollback"])

(* rollbackPatchChanges goes through the snapshots from the last one and   *)
(* keeps going after a failure.                                            *)
RollBackSnapshot(c) ==
    LET call == calls[c]  s == Last(call.snapshots)  rest == Front(call.snapshots)
        over(result) == IF rest = <<>> THEN [call EXCEPT !.at = "done", !.outcome = result, !.snapshots = rest]
                        ELSE [call EXCEPT !.outcome = result, !.snapshots = rest]
        result(ok) == IF ok /\ call.outcome # "broken" THEN "error" ELSE "broken" IN
    /\ call.kind = "patch" /\ call.at = "rollback"
    /\ FilesOnly /\ UNCHANGED deaths
    /\ \/ Succeeds /\ Puts(c, s.path, s.content, over(result(TRUE)))
       \/ FailsOnce(workload.faults) /\ \E left \in {files[s.path], Torn} : Puts(c, s.path, left, over(result(FALSE)))

-----------------------------------------------------------------------------
FTInit ==
    /\ workload \in Workloads
    /\ \E held \in [workload.paths -> {Absent} \cup {<<t>> : t \in Tokens}] :
          files = [p \in Paths |-> IF p \in workload.paths THEN held[p] ELSE Absent]
    /\ writes = NoWrites /\ toolHistory = <<>> /\ calls = <<>> /\ issued = 0 /\ renewals = 0
    /\ failures = 0 /\ deaths = 0

FTStep ==
    \/ Request \/ RecordBatch \/ Expire \/ Restart \/ Compact \/ RenewContext
    \/ \E c \in DOMAIN calls :
        \/ BeginWrite(c) \/ RegisterWrite(c) \/ AddChunk(c) \/ AbortWrite(c) \/ TakeSession(c) \/ PublishWrite(c)
        \/ WriteFile(c) \/ ReadForEdit(c) \/ WriteEdit(c)
        \/ PlanPatch(c) \/ SnapshotPatch(c) \/ WriteChange(c) \/ RollBackSnapshot(c)
FTNext == UNCHANGED workload /\ FTStep

FTSpec == FTInit /\ [][FTNext]_ftvars

-----------------------------------------------------------------------------
(* Type correctness of the file tools' state.                              *)
FTTypeOK ==
    /\ DOMAIN files = Paths
    /\ DOMAIN writes \subseteq WriteIds
    /\ \A w \in DOMAIN writes : writes[w].path \in Paths /\ writes[w].mode \in Modes
                                /\ DOMAIN writes[w].chunks \subseteq Indexes
    /\ \A i \in DOMAIN toolHistory : toolHistory[i].kind \in {"begin", "chunk", "commit", "abort"}
    /\ Len(calls) <= MaxBatch /\ workload \in Workloads /\ issued \in 0..workload.calls /\ renewals \in 0..MaxRenewals

(* An unfinished write the manager knows holds every chunk whose receipt   *)
(* the history shows, as it was sent, and a write whose end the history    *)
(* shows is not open: through parallel and conflicting write_chunk calls,  *)
(* failed commits, compaction and restarts (ChunkedWriteManager.chunk,     *)
(* commit, recoverActiveSessions).                                         *)
WritesMatchHistory ==
    \A i \in DOMAIN toolHistory : LET f == toolHistory[i] IN
        f.id \in DOMAIN writes =>
            /\ f.kind \notin {"commit", "abort"}
            /\ f.kind = "chunk" => f.index \in DOMAIN writes[f.id].chunks /\ writes[f.id].chunks[f.index] = f.token

(* A commit that reported success published every chunk the history ever   *)
(* acknowledged for that write, each at its index                          *)
(* (assembleChunkWriteContent).                                            *)
PublishedWhole ==
    \A i, j \in DOMAIN toolHistory : LET commit == toolHistory[i]  chunk == toolHistory[j] IN
        commit.kind = "commit" /\ chunk.kind = "chunk" /\ chunk.id = commit.id =>
            chunk.index + 1 \in DOMAIN commit.content /\ commit.content[chunk.index + 1] = chunk.token

(* apply_patch is all or nothing: a patch that failed, its rollback not,   *)
(* left every path it names as it was before, unless another call of the   *)
(* batch wrote that path meanwhile (applyPatchChanges).                    *)
PatchAllOrNothing ==
    \A c \in DOMAIN calls : LET call == calls[c] IN
        call.kind = "patch" /\ call.at = "done" /\ call.outcome = "error" /\ call.changes # <<>> =>
            \A p \in Targets(call.ops) \ call.disturbed : files[p] = call.before[p]

(* What the file tools promise.                                            *)
FileToolsSafe == WritesMatchHistory /\ PublishedWhole /\ PatchAllOrNothing
=============================================================================
