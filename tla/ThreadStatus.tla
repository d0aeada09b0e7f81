----------------------------- MODULE ThreadStatus -----------------------------
(***************************************************************************)
(* The runtime status of a Thread (framework/runtime/status.go): every     *)
(* event of the Engine is folded into a snapshot; the fold is repeated     *)
(* over the journal when the process starts and when a browser resumes;    *)
(* the browser (thread-read-controller.ts) takes snapshots from its event  *)
(* stream and from GET requests that race it.  Deltas of tool output come  *)
(* from the tools' goroutines and may be late.                             *)
(*                                                                         *)
(* Token and context usage, error texts and times are left out.            *)
(***************************************************************************)
EXTENDS Naturals, Sequences

CONSTANTS ToolCalls,          \* tool calls of a Turn
          MaxStatusTurns,     \* bound: Turns
          MaxQueued,          \* MaxPendingInputs
          MaxIterations,      \* bound: provider iterations of a Turn
          MaxStatusRestarts,  \* bound: restarts of the process
          MaxPageOpens,       \* bound: connections of the page
          MaxLag,             \* bound: events the page is behind
          EarlyErrors,        \* compactions that may fail before they are announced
          NoStatus            \* the page has no snapshot

VARIABLES
  engine,   \* the truth: Turn, step, tools and pending inputs of the Engine
  late,     \* tool output deltas on their way: <<turn, call>>
  status,   \* StatusStore: the current snapshot
  folded,   \* the fold of the journal from its start
  behind,   \* the folds of the events after the page's cursor
  used,     \* [turns, restarts, opens]
  pageStatus, \* the page: snapshot, stream and its frames
  load      \* the page's latest GET, until an event makes its answer old

tsvars == <<engine, late, status, folded, behind, used, pageStatus, load>>

StatusTurns == 1..MaxStatusTurns
Terminal == {"completed", "errored", "outcome_unknown"}
Over == {"completed", "errored", "cancelled"}
NoTools == [c \in ToolCalls |-> "none"]

\* NewStatusStore; turn 0: no Turn yet
NewStatus == [turn |-> 0, state |-> "completed", phase |-> "none", resume |-> "none",
              thread |-> "idle", tools |-> NoTools, pending |-> 0]

\* ThreadRuntimeState.IsWorking
IsWorking(s) == s.thread \in {"turn_active", "draining_pending"}

-----------------------------------------------------------------------------
(* ProjectStatus *)

\* ensureTurnStatus: an event of another Turn starts a fresh one
EnsureTurn(s, e) ==
  LET t == IF s.turn = e.turn THEN s
           ELSE [s EXCEPT !.turn = e.turn, !.state = "active", !.resume = "none",
                          !.phase = "provider_iteration", !.tools = NoTools]
  IN [t EXCEPT !.thread = "turn_active"]

Active(s, e, phase) == [EnsureTurn(s, e) EXCEPT !.state = "active", !.phase = phase]

\* turnAcceptsToolEvent
TurnAcceptsToolEvent(s, e) == s.turn = e.turn /\ s.turn # 0 /\ s.state \notin Over

\* upsertToolStatus: a final state is kept
UpsertTool(s, e, state) ==
  IF ~TurnAcceptsToolEvent(s, e) \/ s.tools[e.call] \in Terminal THEN s
  ELSE [Active(s, e, "tool_batch") EXCEPT !.tools[e.call] = state]

\* context.compact.started remembers what the compaction interrupts
CompactStarted(s, e) ==
  LET resumable == s.turn = e.turn /\ s.turn # 0 /\ s.state \notin Over
      t == EnsureTurn(s, e)
  IN [t EXCEPT !.resume = IF ~resumable THEN "none"
                          ELSE IF t.phase = "compacting" THEN @ ELSE t.phase,
               !.state = "active", !.phase = "compacting"]

\* completeCompactionStatus.  The resumed state is admitted exactly when the
\* resumed phase is the empty one of a Turn just admitted.
CompleteCompaction(s, failed) ==
  IF s.turn = 0 THEN s
  ELSE IF s.resume # "none"
  THEN [s EXCEPT !.state = IF s.resume = "admitted" THEN "admitted" ELSE "active",
                 !.phase = s.resume, !.resume = "none", !.thread = "turn_active"]
  ELSE IF failed THEN [s EXCEPT !.state = "errored", !.thread = "failed"]
  ELSE [s EXCEPT !.state = "completed", !.tools = NoTools, !.thread = "idle"]

\* One event.  turn.phase and the llm.* events give the phase; queued,
\* promoted, dropped and rejected carry a count; drained keeps the count of
\* later queued inputs.
ProjectEvent(s, e) ==
  CASE e.type = "admitted" ->
         [s EXCEPT !.turn = e.turn, !.state = "admitted", !.phase = "admitted",
                   !.resume = "none", !.tools = NoTools, !.thread = "turn_active"]
    [] e.type = "phase" -> Active(s, e, e.phase)
    [] e.type = "compact_started" -> CompactStarted(s, e)
    [] e.type = "compact_ended" -> CompleteCompaction(s, e.failed)
    [] e.type = "tool" -> UpsertTool(s, e, e.state)
    [] e.type = "draining" -> [s EXCEPT !.pending = e.count, !.thread = "draining_pending"]
    [] e.type = "drained" -> [s EXCEPT !.thread = IF s.turn # 0 THEN "turn_active" ELSE "idle"]
    [] e.type = "count" -> [s EXCEPT !.pending = e.count]
    [] e.type = "turn_completed" ->
         [EnsureTurn(s, e) EXCEPT !.state = "completed", !.tools = NoTools,
                                  !.thread = "idle"]
    [] e.type = "turn_errored" ->
         [EnsureTurn(s, e) EXCEPT !.state = e.state, !.thread = "failed"]

\* RecoverAfterRestart: the interrupted Turn is shown as cancelled
RecoverAfterRestart(s) ==
  IF s.turn = 0 \/ s.state \in Over THEN s
  ELSE [s EXCEPT !.state = "cancelled", !.thread = "failed", !.pending = 0,
                 !.tools = [c \in ToolCalls |->
                              IF s.tools[c] = "outcome_unknown" THEN s.tools[c]
                              ELSE "none"]]

-----------------------------------------------------------------------------
(* Delivery.  The projections run in commit order before an event is sent   *)
(* to the open streams; a transient event is not in the journal.            *)

Sent(frame) == pageStatus' = IF pageStatus.stream = "open"
                             THEN [pageStatus EXCEPT !.frames = Append(@, frame)]
                             ELSE pageStatus

Frame(s, durable) == [status |-> s, durable |-> durable]

\* DurableSink, StatusStore.Publish and browserEventProjection.Publish
Emit(e) ==
  /\ Len(behind) < MaxLag
  /\ status' = ProjectEvent(status, e)
  /\ folded' = ProjectEvent(folded, e)
  /\ behind' = Append(behind, folded')
  /\ Sent(Frame(status', TRUE))

\* browserToolOutputDeltaVisible: a delta is shown only while its call streams
EmitDelta(e) ==
  LET s == ProjectEvent(status, e) IN
  /\ Len(pageStatus.frames) < MaxLag
  /\ status' = s
  /\ IF s.turn = e.turn /\ s.tools[e.call] = "streaming" THEN Sent(Frame(s, FALSE))
     ELSE UNCHANGED pageStatus
  /\ UNCHANGED <<folded, behind>>

-----------------------------------------------------------------------------
(* The Engine (loop.go, turn_lifecycle.go, compact.go) as the projection    *)
(* sees it: which events it emits, in which order.                          *)

Idle == [turn |-> 0, at |-> "idle", tools |-> NoTools, pending |-> 0,
         back |-> "none", iteration |-> 0]

Goes(at) == engine' = [engine EXCEPT !.at = at]
Kept == UNCHANGED <<late, used, load>>
Ev(type) == [type |-> type, turn |-> engine.turn]

Admit(manual) ==
  /\ engine.at = "idle" /\ used.turns < MaxStatusTurns
  /\ used' = [used EXCEPT !.turns = @ + 1]
  /\ engine' = [engine EXCEPT !.turn = used.turns + 1, !.tools = NoTools, !.iteration = 0,
                              !.at = IF manual THEN "manual" ELSE "admitted"]
  /\ Emit([type |-> "admitted", turn |-> used.turns + 1])
  /\ UNCHANGED <<late, load>>

\* prepareTurnContextLocked, an overflow retry or /compact compacts
CompactBegins ==
  /\ engine.at \in {"admitted", "requested", "manual"}
  /\ engine' = [engine EXCEPT !.at = "compacting", !.back = engine.at]
  /\ Emit(Ev("compact_started"))
  /\ Kept

CompactAsks ==
  /\ engine.at = "compacting" /\ Goes("summarizing")
  /\ Emit([type |-> "phase", turn |-> engine.turn, phase |-> "compacting"])
  /\ Kept

CompactionEnds ==
  /\ engine.at = "summarizing"
  /\ Goes(IF engine.back = "requested" THEN "iterate"
          ELSE IF engine.back = "manual" THEN "finishing" ELSE "admitted_compacted")
  /\ Emit([type |-> "compact_ended", failed |-> FALSE])
  /\ Kept

\* reportCompactionError.  When the compaction's context cannot be built it
\* comes before context.compact.started: the Turn is then shown as errored
\* while it still moves its pending inputs, and a crash in that window leaves
\* a working Thread on display, because RecoverAfterRestart looks at the Turn
\* only.  EarlyErrors (a subset of {"admitted", "manual"}) lets that happen.
CompactFails ==
  /\ engine.at \in {"summarizing"} \cup EarlyErrors /\ Goes("failing")
  /\ Emit([type |-> "compact_ended", failed |-> TRUE])
  /\ Kept

\* recordTurnStartLocked: turn.started is not projected
Start ==
  /\ engine.at \in {"admitted", "admitted_compacted"} /\ Goes("iterate")
  /\ UNCHANGED <<status, folded, behind, pageStatus>>
  /\ Kept

\* beginPendingInputDrain and finishPendingInputDrain
Draining ==
  /\ engine.at = "iterate" /\ engine.pending > 0
  /\ engine' = [engine EXCEPT !.at = "draining", !.pending = 0]
  /\ Emit([type |-> "draining", count |-> 0])
  /\ Kept

Drained ==
  /\ engine.at = "draining"
  /\ Goes("drained")
  /\ Emit([type |-> "drained"])
  /\ Kept

\* turn.phase provider_iteration and llm.requested
Request ==
  /\ engine.at \in {"iterate", "drained"} /\ engine.iteration < MaxIterations
  /\ engine.at = "iterate" => engine.pending = 0
  /\ engine' = [engine EXCEPT !.at = "requested", !.iteration = @ + 1]
  /\ Emit([type |-> "phase", turn |-> engine.turn, phase |-> "provider_iteration"])
  /\ Kept

\* llm.responded; recordToolBatchLocked announces its phase, or the Turn
\* may finish
Respond(withTools) ==
  /\ engine.at = "requested"
  /\ Goes(IF withTools THEN "batch" ELSE "finishing")
  /\ Emit([type |-> "phase", turn |-> engine.turn,
           phase |-> IF withTools THEN "tool_batch" ELSE "provider_iteration"])
  /\ Kept

Unused(c) == engine.tools[c] = "none"

ToolStep(c, from, to) ==
  /\ engine.at = "batch" /\ engine.tools[c] = from
  /\ engine' = [engine EXCEPT !.tools[c] = to]
  /\ Emit([type |-> "tool", turn |-> engine.turn, call |-> c, state |-> to])
  /\ UNCHANGED <<used, load>>

ToolRequested(c) == ToolStep(c, "none", "requested") /\ UNCHANGED late

ToolRuns(c) ==
  /\ ToolStep(c, "requested", "running")
  /\ late' = late \cup {<<engine.turn, c>>}

ToolEnds(c) ==
  /\ \/ ToolStep(c, "running", "completed")
     \/ ToolStep(c, "running", "errored")
     \/ ToolStep(c, "requested", "errored")
  /\ UNCHANGED late

\* The goroutine of a tool publishes a transient delta, possibly after the
\* call or the Turn ended
Delta(d) ==
  /\ engine.at # "down" /\ late' = late \ {d}
  /\ EmitDelta([type |-> "tool", turn |-> d[1], call |-> d[2], state |-> "streaming"])
  /\ UNCHANGED <<engine, used, load>>

BatchEnds ==
  /\ engine.at = "batch" /\ \E c \in ToolCalls : ~Unused(c)
  /\ \A c \in ToolCalls : engine.tools[c] \in Terminal \cup {"none"}
  /\ Goes("iterate")
  /\ UNCHANGED <<status, folded, behind, pageStatus>>
  /\ Kept

\* finishOrContinueLocked: with pending input the Turn goes on; beginning
\* the terminal publication closes it
Finish ==
  /\ engine.at = "finishing"
  /\ IF engine.pending > 0
     THEN Goes("iterate") /\ UNCHANGED <<status, folded, behind, pageStatus>>
     ELSE Goes("closing") /\ Emit(Ev("turn_completed"))
  /\ Kept

\* A failing Turn: its pending inputs were moved to the transcript before
\* (preservePendingInputAfterFailureLocked announces draining and drained)
TurnFails(state) ==
  /\ engine.at \notin {"idle", "closing", "down", "opening", "draining"}
  /\ engine.at = "batch" => \A c \in ToolCalls : engine.tools[c] # "running"
  /\ engine.pending = 0
  /\ Goes("closing")
  /\ Emit([type |-> "turn_errored", turn |-> engine.turn, state |-> state])
  /\ Kept

PreserveBegins ==
  /\ engine.at \in {"admitted", "requested", "failing", "batch"} /\ engine.pending > 0
  /\ engine.at = "batch" => \A c \in ToolCalls : engine.tools[c] # "running"
  /\ engine' = [engine EXCEPT !.at = "preserving", !.pending = 0]
  /\ Emit([type |-> "draining", count |-> 0])
  /\ Kept

Preserved ==
  /\ engine.at = "preserving"
  /\ Goes("failing")
  /\ Emit([type |-> "drained"])
  /\ Kept

\* enqueuePendingMessage; in the terminal publication the event is staged
\* and flushed after the terminal event.  A full queue rejects, which
\* repeats the count.
EnqueueInput ==
  /\ engine.at \notin {"idle", "down", "opening", "manual", "preserving"}
  /\ engine.pending < MaxQueued
  /\ engine' = [engine EXCEPT !.pending = @ + 1]
  /\ Emit([type |-> "count", count |-> engine.pending + 1])
  /\ Kept

\* Discarding a queued input
Drop ==
  /\ engine.at \notin {"idle", "down", "opening"} /\ engine.pending > 0
  /\ engine' = [engine EXCEPT !.pending = @ - 1]
  /\ Emit([type |-> "count", count |-> engine.pending - 1])
  /\ Kept

\* The Turn is over; an input queued meanwhile is promoted to the next Turn
Close ==
  /\ engine.at = "closing" /\ engine.pending = 0
  /\ engine' = Idle
  /\ UNCHANGED <<status, folded, behind, pageStatus>>
  /\ Kept

Promote ==
  /\ engine.at = "closing" /\ engine.pending > 0 /\ used.turns < MaxStatusTurns
  /\ used' = [used EXCEPT !.turns = @ + 1]
  /\ engine' = [engine EXCEPT !.turn = used.turns + 1, !.tools = NoTools, !.iteration = 0,
                              !.at = "promoting"]
  /\ Emit([type |-> "admitted", turn |-> used.turns + 1])
  /\ UNCHANGED <<late, load>>

Promoted ==
  /\ engine.at = "promoting" /\ engine.pending > 0
  /\ engine' = [engine EXCEPT !.at = "admitted", !.pending = @ - 1]
  /\ Emit([type |-> "count", count |-> engine.pending - 1])
  /\ Kept

-----------------------------------------------------------------------------
(* Restart: NewStatusStoreFromReplay, RecoverTranscript (ProjectProtocol-   *)
(* RepairEvents), RecoverAfterRestart, then the server listens.             *)

Crash ==
  /\ engine.at \notin {"down", "opening"} /\ used.restarts < MaxStatusRestarts
  /\ used' = [used EXCEPT !.restarts = @ + 1]
  /\ engine' = [engine EXCEPT !.at = "down"]
  /\ late' = {}
  /\ load' = IF load.answer = "none" THEN [load EXCEPT !.answer = "failed"] ELSE load
  /\ pageStatus' = [pageStatus EXCEPT !.stream = IF @ = "open" THEN "broken" ELSE @]
  /\ UNCHANGED <<status, folded, behind>>

Reopen ==
  /\ engine.at = "down" /\ Goes("opening")
  /\ status' = folded
  /\ UNCHANGED <<folded, behind, pageStatus>>
  /\ Kept

RepairCall(c) ==
  /\ engine.at = "opening" /\ engine.tools[c] = "running"
  /\ engine' = [engine EXCEPT !.tools[c] = "outcome_unknown"]
  /\ Emit([type |-> "tool", turn |-> engine.turn, call |-> c, state |-> "outcome_unknown"])
  /\ Kept

StatusRecovered ==
  /\ engine.at = "opening" /\ \A c \in ToolCalls : engine.tools[c] # "running"
  /\ engine' = Idle
  /\ status' = RecoverAfterRestart(status)
  /\ UNCHANGED <<folded, behind, pageStatus>>
  /\ Kept

-----------------------------------------------------------------------------
(* The page: subscribeLiveEvents and refreshStatus *)

Serving == engine.at \notin {"down", "opening"}

NoLoad == [answer |-> "unsent", snapshot |-> NewStatus]
Asked == [NoLoad EXCEPT !.answer = "none"]

\* projectBrowserEvents: the journal is folded again; the last frame carries
\* the store's own snapshot, which is where the journal ends
\* (captureCommittedEventReplay reads both between two commits)
ReplayFrames(folds) ==
  [k \in DOMAIN folds |-> Frame(IF k = Len(folds) THEN status ELSE folds[k], TRUE)]

\* subscribeEvents opens, or the EventSource reconnects: onOpen
Open ==
  /\ Serving /\ pageStatus.stream = "retrying" /\ used.opens < MaxPageOpens
  /\ used' = [used EXCEPT !.opens = @ + 1]
  /\ load' = Asked
  /\ pageStatus' = [pageStatus EXCEPT !.stream = "open", !.frames = ReplayFrames(behind)]
  /\ UNCHANGED <<engine, late, status, folded, behind>>

\* The connection is lost: frames not yet received are gone, onError
StreamError ==
  /\ pageStatus.stream \in {"open", "broken"}
  /\ pageStatus' = [shown |-> NoStatus, stream |-> "retrying", frames |-> <<>>]
  /\ load' = NoLoad
  /\ UNCHANGED <<engine, late, status, folded, behind, used>>

\* statusRevision: after an event the answer of an earlier request is dropped
Overtaken == NoLoad

\* onEvent.  A transient frame does not advance the cursor.
ReceiveFrame ==
  /\ pageStatus.stream \in {"open", "broken"} /\ pageStatus.frames # <<>>
  /\ LET f == Head(pageStatus.frames)
     IN /\ pageStatus' = [pageStatus EXCEPT !.frames = Tail(@), !.shown = f.status]
        /\ behind' = IF f.durable THEN Tail(behind) ELSE behind
  /\ load' = Overtaken
  /\ UNCHANGED <<engine, late, status, folded, used>>

\* statusSnapshotForThread
Serve ==
  /\ Serving /\ load.answer = "none"
  /\ load' = [answer |-> "ok", snapshot |-> status]
  /\ UNCHANGED <<engine, late, status, folded, behind, used, pageStatus>>

Lose ==
  /\ load.answer = "none" /\ load' = [load EXCEPT !.answer = "failed"]
  /\ UNCHANGED <<engine, late, status, folded, behind, used, pageStatus>>

Answer ==
  /\ load.answer \in {"ok", "failed"} /\ load' = NoLoad
  /\ pageStatus' = [pageStatus EXCEPT !.shown = IF load.answer = "ok" THEN load.snapshot
                                                ELSE NoStatus]
  /\ UNCHANGED <<engine, late, status, folded, behind, used>>

-----------------------------------------------------------------------------

TSInit ==
  /\ engine = Idle /\ late = {}
  /\ status = NewStatus /\ folded = NewStatus /\ behind = <<>>
  /\ used = [turns |-> 0, restarts |-> 0, opens |-> 0]
  /\ pageStatus = [shown |-> NoStatus, stream |-> "retrying", frames |-> <<>>]
  /\ load = NoLoad

TSNext ==
  \/ \E manual \in BOOLEAN : Admit(manual)
  \/ CompactBegins \/ CompactAsks \/ CompactionEnds \/ CompactFails
  \/ Start \/ Draining \/ Drained \/ Request
  \/ \E withTools \in BOOLEAN : Respond(withTools)
  \/ \E c \in ToolCalls : ToolRequested(c) \/ ToolRuns(c) \/ ToolEnds(c) \/ RepairCall(c)
  \/ \E d \in late : Delta(d)
  \/ BatchEnds \/ Finish \/ PreserveBegins \/ Preserved
  \/ \E state \in {"errored", "cancelled"} : TurnFails(state)
  \/ EnqueueInput \/ Drop \/ Close \/ Promote \/ Promoted
  \/ Crash \/ Reopen \/ StatusRecovered
  \/ Open \/ StreamError \/ ReceiveFrame \/ Serve \/ Lose \/ Answer

TSSpec == TSInit /\ [][TSNext]_tsvars

\* Type correctness of the snapshot and the page
TSTypeOK ==
  /\ status.turn \in 0..MaxStatusTurns /\ status.pending \in 0..MaxQueued
  /\ status.state \in Over \cup {"admitted", "active"}
  /\ status.thread \in {"idle", "turn_active", "draining_pending", "failed"}
  /\ pageStatus.stream \in {"open", "broken", "retrying"}

\* A Turn is running: admitted and not yet closed by its terminal event
Running == engine.at \notin {"idle", "closing", "down", "opening"}

\* The snapshot says what the Engine does: it shows a working Thread exactly
\* while a Turn runs, that Turn and no other, its calls and only its calls
\* with the final states they have, the number of inputs that wait, and after
\* a restart no Turn at work: whatever compactions, drains, failures and late
\* tool output came in between (ProjectStatus, RecoverAfterRestart).  A Turn
\* that is about to fail may be shown as failed.
StatusTruthful ==
  Serving =>
    /\ (Running /\ engine.at # "failing")
         => IsWorking(status) /\ status.state \in {"admitted", "active"}
    /\ ~Running => ~IsWorking(status) /\ status.state \in Over
    /\ Running => /\ status.turn = engine.turn
                  /\ \A c \in ToolCalls :
                       (status.tools[c] \in Terminal) = (engine.tools[c] \in Terminal)
    /\ used.restarts = 0 => status.pending = engine.pending
    /\ (~Running /\ status.state = "cancelled" /\ used.restarts > 0)
         => \A c \in ToolCalls : status.tools[c] # "running"

\* A page that has received everything shows the Engine's present status, or
\* none: an answer overtaken by an event, the frames of a replay folded
\* without the restart's recovery, or an old connection never stay on screen
\* (refreshStatus, onEvent, projectBrowserEvents)
PageShowsStatus ==
  (Serving /\ pageStatus.stream = "open" /\ pageStatus.frames = <<>>
     /\ load.answer = "unsent")
    => pageStatus.shown \in {NoStatus, status}

\* What the runtime status promises (status.go, thread-read-controller.ts)
StatusSafe == StatusTruthful /\ PageShowsStatus

=============================================================================
