---------------------------- MODULE TurnPolicies ----------------------------
(***************************************************************************)
(* The policies a Turn passes: command Hooks (internal/features/hooks) and *)
(* the task gate (features/tasks) behind the Framework's policy points     *)
(* (framework/module/policy.go), the Tool call they guard                  *)
(* (foundation/tools/registry.go, runToolCall in framework/runtime/loop.go)*)
(* and the failures the Engine remembers of it (runtime/tool_failure.go).  *)
(* The Thread set holds tasks and hooks.  The Runtime set holds one Tool   *)
(* policy that may replace input and result: the Framework allows it, no   *)
(* built-in Module does it.  Texts are none, some or over the limit.       *)
(***************************************************************************)
EXTENDS Naturals, Sequences, FiniteSets, SequencesExt, FaultModel

CONSTANTS
    Setups,           \* hook configurations, each with the calls and answers a Turn makes
    ToolNames,        \* names the provider may call; "write" changes files
    Texts,            \* what a command prints: subset of {"none", "some", "over"}
    RuntimeVerdicts,  \* what the Runtime set's policy may answer
    MaxTaskEdits,     \* bound: task tools used
    MaxPolicyFaults   \* bound: events that are not committed, files not saved

ASSUME PolicyBounds ==
    /\ {MaxTaskEdits, MaxPolicyFaults} \subseteq Nat
    /\ Texts \subseteq {"none", "some", "over"}
    /\ \A s \in Setups : {s.calls, s.finishes} \subseteq Nat
    /\ RuntimeVerdicts \subseteq {"allow", "transform", "deny", "error", "invalid"}

VARIABLES
    setup,      \* Runner.hooks, and bounds: Tool calls, answers without one
    closed,     \* the Module Sets are closed
    turn,       \* where the Turn is
    cancelled,  \* the Turn's context
    point,      \* the policy point being evaluated
    call,       \* the Tool call being run
    ledger,     \* toolFailureLedger: status and occurrences by tool and class
    history,    \* outcomes recorded so far: tool, class or "ok" (ghost)
    task,       \* the one task of the Thread
    deferring,  \* WorkerManager.ShouldDeferContinuation
    taskGate,       \* the candidates of the finish policies
    queuedContext,     \* pendingPolicyRuntimeContext, by policy point
    used        \* finishes and edits so far

pvars == <<setup, closed, turn, cancelled, point, call, ledger, history, task, deferring, taskGate, queuedContext, used, failures, deaths>>

Points == {"thread_start", "turn_input", "tool_before", "tool_after", "finish", "compaction_before", "compaction_after"}
Durable == {"thread_start", "finish", "compaction_after"}
Phases == {"new", "starting", "input", "ask", "before", "run", "after", "record", "finish", "commit", "enqueue",
           "end", "compact", "compacted", "done", "failed", "rejected"}
Classes == {"recoverable", "external", "exploratory", "fatal"}
Exits == {0, 2}
NoPoint == [at |-> "none", stage |-> "none", left |-> <<>>, results |-> <<>>, context |-> <<>>]
NoCall == [tool |-> "none", input |-> 0, recorded |-> 0, ran |-> {}, refused |-> FALSE, objected |-> FALSE, outcome |-> "none",
           error |-> FALSE, raw |-> FALSE, replaced |-> FALSE, class |-> "none"]

GoesTo(phase) == turn' = phase
CallStays == UNCHANGED <<call, ledger, history>>
TasksStay == UNCHANGED <<task, taskGate>>
RestStays == UNCHANGED <<setup, closed, cancelled, deferring, queuedContext, used, deaths>>

-----------------------------------------------------------------------------
(* A policy point                                                          *)

Matches(hook, where, tool) == where \in hook.events /\ (hook.tools = {} \/ tool \in hook.tools)
Matching(where) == SelectSeq(setup.hooks, LAMBDA h : Matches(h, where, call.tool))

(* The phase in which a point is evaluated.                                *)
PointOf(phase) ==
    CASE phase = "starting" -> "thread_start" [] phase = "input" -> "turn_input"
      [] phase = "before" -> "tool_before" [] phase = "after" -> "tool_after"
      [] phase = "finish" -> "finish" [] phase = "compact" -> "compaction_before"
      [] phase = "compacted" -> "compaction_after" [] OTHER -> "none"

(* The Thread set: closed, no hook matches, or the request is committed    *)
(* before the first command runs.                                          *)
EnterPoint ==
    /\ PointOf(turn) # "none" /\ point.at = "none"
    /\ LET where == PointOf(turn)
           begun == [NoPoint EXCEPT !.at = where]
       IN IF closed
          THEN Succeeds /\ point' = [begun EXCEPT !.stage = "closed"]
          ELSE IF Matching(where) = <<>>
          THEN Succeeds /\ point' = [begun EXCEPT !.stage = "runtime"]
          ELSE \/ Succeeds /\ point' = [begun EXCEPT !.stage = "hooks", !.left = Matching(where)]
               \/ FailsOnce(MaxPolicyFaults) /\ point' = [begun EXCEPT !.stage = "checkpoint"]
    /\ UNCHANGED turn /\ CallStays /\ TasksStay /\ RestStays

(* runCommandHook returned: exit 0 or 2 with some text, or an error. A     *)
(* cancelled context ends the run, so does a required hook.                *)
RunHook ==
    /\ point.stage = "hooks" /\ point.left # <<>>
    /\ LET hook == Head(point.left)
       IN \/ \E exit \in Exits, text \in Texts :
                ~cancelled /\ point' = [point EXCEPT !.left = Tail(@), !.results = Append(@, [exit |-> exit, text |-> text])]
          \/ cancelled /\ point' = [point EXCEPT !.stage = "cancelled"]
          \/ ~cancelled /\ hook.required /\ point' = [point EXCEPT !.stage = "error"]
          \/ ~cancelled /\ ~hook.required /\ point' = [point EXCEPT !.left = Tail(@)]
    /\ Succeeds /\ UNCHANGED turn /\ CallStays /\ TasksStay /\ RestStays

BlockedBy(results) == \E i \in DOMAIN results : results[i].exit = 2

(* runtimeContexts, toolContexts: what the results add to the context.     *)
Speaks(where, result) ==
    /\ result.text # "none"
    /\ result.exit = 0 \/ (result.exit = 2 /\ where = "tool_after")
Contexts(where, results) ==
    CASE where \in {"turn_input", "compaction_before"} -> <<>>
      [] where = "thread_start" /\ BlockedBy(results) -> <<>>
      [] OTHER -> SelectSeq(results, LAMBDA r : Speaks(where, r))
Oversized(context) == \E i \in DOMAIN context : context[i].text = "over"

(* The decision of the Hooks Module and what the Set makes of it: a        *)
(* context over the limit is an error before anything else, an error       *)
(* leaves the context of the commands that ran.                            *)
HooksAnswer ==
    LET where == point.at
        context == Contexts(where, point.results)
        failed == point.stage \in {"error", "cancelled"}
        kept == IF failed /\ where \in {"thread_start", "finish"} THEN <<>> ELSE context
    IN CASE point.stage = "closed" -> [verdict |-> "error", context |-> <<>>]
         [] point.stage = "checkpoint" -> [verdict |-> "checkpoint", context |-> <<>>]
         [] Oversized(kept) -> [verdict |-> "oversized", context |-> <<>>]
         [] failed -> [verdict |-> point.stage, context |-> kept]
         [] where = "turn_input" /\ BlockedBy(point.results) -> [verdict |-> "deny", context |-> <<>>]
         [] where = "thread_start" /\ BlockedBy(point.results) -> [verdict |-> "deny", context |-> <<>>]
         [] where = "tool_before" /\ BlockedBy(point.results) -> [verdict |-> "deny", context |-> kept]
         [] where = "finish" /\ BlockedBy(point.results) ->
              LET first == SelectSeq(point.results, LAMBDA r : r.exit = 2)[1]
              IN [verdict |-> IF first.text = "none" THEN "error" ELSE IF first.text = "over" THEN "oversized" ELSE "continue",
                  context |-> kept]
         [] OTHER -> [verdict |-> "allow", context |-> kept]

HooksDone == point.stage \in {"closed", "checkpoint", "error", "cancelled", "runtime"}
             \/ (point.stage = "hooks" /\ point.left = <<>>)

(* queuePolicyRuntimeContext: committed, then remembered.                  *)
Queues(where, context, done, failed) ==
    \/ context = <<>> /\ Succeeds /\ UNCHANGED queuedContext /\ done
    \/ context # <<>> /\ Succeeds /\ queuedContext' = queuedContext \cup {where} /\ done
    \/ context # <<>> /\ FailsOnce(MaxPolicyFaults) /\ UNCHANGED queuedContext /\ failed

-----------------------------------------------------------------------------
(* Thread start, Turn input, compaction                                    *)

Opens ==
    /\ turn = "new" /\ GoesTo("starting")
    /\ Succeeds /\ CallStays /\ TasksStay /\ RestStays /\ UNCHANGED point

PolicyEnds(where) == point.at = where /\ HooksDone /\ point' = NoPoint

StartDecided ==
    /\ PolicyEnds("thread_start")
    /\ IF HooksAnswer.verdict = "allow"
       THEN Queues("thread_start", HooksAnswer.context, GoesTo("input"), GoesTo("rejected"))
       ELSE Succeeds /\ GoesTo("rejected") /\ UNCHANGED queuedContext
    /\ CallStays /\ TasksStay /\ UNCHANGED <<setup, closed, cancelled, deferring, used, deaths>>

(* A refused input is recorded as blocked and the Turn ends.               *)
InputDecided ==
    /\ PolicyEnds("turn_input")
    /\ GoesTo(IF HooksAnswer.verdict = "allow" THEN "ask" ELSE "failed")
    /\ Succeeds /\ CallStays /\ TasksStay /\ RestStays

BeginCompaction ==
    /\ turn = "ask" /\ used.compactions = 0
    /\ used' = [used EXCEPT !.compactions = 1] /\ GoesTo("compact")
    /\ Succeeds /\ CallStays /\ TasksStay
    /\ UNCHANGED <<setup, closed, cancelled, deferring, queuedContext, point, deaths>>

(* An error before the marker ends the compaction and, for a Turn's own    *)
(* input, the Turn; afterwards only a checkpoint, a context over the limit *)
(* or a cancellation does.                                                 *)
CompactDecided ==
    /\ PolicyEnds("compaction_before")
    /\ GoesTo(IF HooksAnswer.verdict = "allow" THEN "compacted" ELSE "failed")
    /\ Succeeds /\ CallStays /\ TasksStay /\ RestStays

CompactedDecided ==
    /\ PolicyEnds("compaction_after")
    /\ Queues("compaction_after", HooksAnswer.context,
              GoesTo(IF HooksAnswer.verdict \in {"checkpoint", "oversized", "cancelled"} THEN "failed" ELSE "ask"),
              GoesTo("failed"))
    /\ CallStays /\ TasksStay /\ UNCHANGED <<setup, closed, cancelled, deferring, used, deaths>>

-----------------------------------------------------------------------------
(* One Tool call: runToolCall                                              *)

(* tool.running carries the provider's input, 1; a replaced input is 2.    *)
RunTool ==
    /\ turn = "ask" /\ ~cancelled /\ Len(history) < setup.calls
    /\ \E tool \in ToolNames :
         \/ /\ Succeeds /\ GoesTo("before")
            /\ call' = [NoCall EXCEPT !.tool = tool, !.input = 1, !.recorded = 1]
         \/ FailsOnce(MaxPolicyFaults) /\ GoesTo("failed") /\ call' = NoCall
    /\ UNCHANGED <<ledger, history, point>> /\ TasksStay /\ RestStays

(* The Runtime set's answer, asked only when the Thread set allowed.       *)
RuntimeAnswer(verdict) == IF HooksAnswer.verdict = "allow" THEN verdict ELSE HooksAnswer.verdict

(* policyToolErrorResult: an error result, the handler does not run.       *)
Refused == [call EXCEPT !.error = TRUE, !.outcome = "refused", !.refused = TRUE, !.class = "recoverable"]

Transformed == [call EXCEPT !.input = 2, !.recorded = 2]
\* Mutant of Resolved: the new input is used without being recorded.
ResolvedUnrecorded(result) == Succeeds /\ GoesTo("run") /\ call' = [call EXCEPT !.input = 2]
Resolved(result) ==
    \/ Succeeds /\ GoesTo("run") /\ call' = result
    \/ FailsOnce(MaxPolicyFaults) /\ GoesTo("failed") /\ UNCHANGED call

DecideBefore(verdict) ==
    CASE verdict = "transform" -> Resolved(Transformed)
      [] verdict = "allow" -> Succeeds /\ GoesTo("run") /\ UNCHANGED call
      [] verdict = "checkpoint" -> Succeeds /\ GoesTo("failed") /\ UNCHANGED call
      [] OTHER -> Succeeds /\ GoesTo("record") /\ call' = Refused

BeforeDecided ==
    /\ PolicyEnds("tool_before")
    /\ \E verdict \in RuntimeVerdicts : DecideBefore(RuntimeAnswer(IF closed THEN "error" ELSE verdict))
    /\ UNCHANGED <<ledger, history>> /\ TasksStay /\ RestStays

(* What a handler did: its error, a timeout it reports itself, the         *)
(* deadline passing, its execution fact.                                   *)
Handled == [err : {"none", "failed", "timeout"}, says : BOOLEAN, deadline : BOOLEAN, fact : {"none", "valid", "bad"}]
Bounded(tool) == tool # "write_stdin"

(* Registry.CallWithInfo's error for it.                                   *)
TimedOut(tool, h) == Bounded(tool) /\ ~cancelled /\ (h.says \/ h.err = "timeout" \/ h.deadline)
CallError(tool, h) ==
    CASE TimedOut(tool, h) -> "external"
      [] cancelled -> "recoverable"
      [] h.err = "timeout" -> "external"
      [] h.err = "failed" \/ h.fact = "bad" -> IF tool = "read" THEN "exploratory" ELSE "recoverable"
      [] OTHER -> "ok"

(* The registry finds the Tool and its arguments are readable, or it       *)
(* answers without running anything.                                       *)
Invoke ==
    /\ turn = "run" /\ GoesTo("after")
    /\ \/ /\ call.tool = "unknown"
          /\ call' = [call EXCEPT !.outcome = "refused", !.error = TRUE, !.class = "fatal"]
       \/ /\ call.tool # "unknown"
          /\ call' = [call EXCEPT !.outcome = "refused", !.error = TRUE, !.class = "recoverable"]
       \/ /\ call.tool # "unknown" /\ ~cancelled
          /\ \E h \in Handled :
               LET error == CallError(call.tool, h)
               IN call' = [call EXCEPT !.ran = {call.input}, !.raw = TRUE, !.error = error # "ok", !.class = error,
                                       !.outcome = IF error = "ok" THEN "ok" ELSE "bad"]
    /\ Succeeds /\ UNCHANGED <<ledger, history, point>> /\ TasksStay /\ RestStays

(* After the call: a replacement, then an error on top of it; the context  *)
(* of both points is appended.                                             *)
AfterDecided ==
    /\ PolicyEnds("tool_after")
    /\ \E answer \in RuntimeVerdicts, bad \in BOOLEAN :
         LET verdict == RuntimeAnswer(IF closed THEN "error" ELSE answer)
             replaced == verdict = "transform"
             failed == verdict \notin {"allow", "transform", "checkpoint"}
         IN /\ bad => replaced
            /\ call' = [call EXCEPT !.replaced = replaced, !.raw = @ /\ ~replaced,
                                    !.error = failed \/ (IF replaced THEN bad ELSE @),
                                    !.class = IF failed THEN "recoverable" ELSE IF replaced THEN (IF bad THEN "recoverable" ELSE "ok") ELSE @,
                                    !.objected = failed]
            /\ GoesTo(IF verdict = "checkpoint" THEN "failed" ELSE "record")
    /\ Succeeds /\ UNCHANGED <<ledger, history>> /\ TasksStay /\ RestStays

-----------------------------------------------------------------------------
(* toolFailureLedger: every call of the model names the same path          *)

NoFailure == [status |-> "none", count |-> 0, stuck |-> FALSE]
Blocking(class) == class # "exploratory"

RecordFailure(tool, class) ==
    LET key == <<tool, class>>
        old == ledger[key]
        count == IF old.status = "unresolved" THEN old.count + 1 ELSE 1
    IN [ledger EXCEPT ![key] = [status |-> "unresolved", count |-> count, stuck |-> Blocking(class) /\ count >= 2]]

RecordSuccess(tool) ==
    [key \in DOMAIN ledger |->
        IF ledger[key].status # "unresolved" THEN ledger[key]
        ELSE IF tool = "write" THEN [ledger[key] EXCEPT !.status = "stale"]
        ELSE IF key[1] = tool THEN [ledger[key] EXCEPT !.status = "resolved"] ELSE ledger[key]]

(* The end of recordToolBatchLocked: the outcome is committed and the      *)
(* message appended, then the ledger learns of it.                         *)
RecordOutcome ==
    /\ turn = "record"
    /\ \/ /\ Succeeds /\ GoesTo("ask")
          /\ ledger' = (IF call.error THEN RecordFailure(call.tool, call.class) ELSE RecordSuccess(call.tool))
          /\ history' = Append(history, [tool |-> call.tool, class |-> IF call.error THEN call.class ELSE "ok"])
       \/ FailsOnce(MaxPolicyFaults) /\ GoesTo("failed") /\ UNCHANGED <<ledger, history>>
    /\ call' = NoCall /\ UNCHANGED point /\ TasksStay /\ RestStays

(* A task tool, run like any other call; only its effect matters here.     *)
Live == {"todo", "doing"}
EditTask ==
    /\ turn = "ask" /\ used.edits < MaxTaskEdits
    /\ \E status \in {"todo", "doing", "done", "pending", "deleted"} :
         task' = [task EXCEPT !.status = status, !.rev = @ + 1]
    /\ used' = [used EXCEPT !.edits = @ + 1]
    /\ Succeeds /\ CallStays /\ UNCHANGED <<setup, closed, turn, cancelled, deferring, taskGate, queuedContext, point, deaths>>

-----------------------------------------------------------------------------
(* The finish policies                                                     *)

Attempted ==
    /\ turn = "ask" /\ ~cancelled /\ used.finishes < setup.finishes
    /\ GoesTo("finish") /\ used' = [used EXCEPT !.finishes = @ + 1]
    /\ Succeeds /\ CallStays /\ TasksStay
    /\ UNCHANGED <<setup, closed, cancelled, deferring, queuedContext, point, deaths>>

(* EvaluateFinish of tasks, registered before hooks, then of hooks. The    *)
(* task gate reads the task now and again when its candidate is committed. *)
TaskCandidate == IF task.status \in Live /\ ~deferring THEN <<[by |-> "tasks", task |-> task]>> ELSE <<>>
HookCandidate == IF HooksAnswer.verdict = "continue" THEN <<[by |-> "hooks", task |-> task]>> ELSE <<>>

FinishEvaluated ==
    /\ PolicyEnds("finish")
    /\ IF HooksAnswer.verdict \in {"allow", "continue"}
       THEN Queues("finish", HooksAnswer.context,
                   GoesTo("commit") /\ taskGate' = [taskGate EXCEPT !.candidates = TaskCandidate \o HookCandidate, !.open = TaskCandidate # <<>>],
                   GoesTo("failed") /\ UNCHANGED taskGate)
       ELSE Succeeds /\ GoesTo("failed") /\ UNCHANGED <<queuedContext, taskGate>>
    /\ CallStays /\ UNCHANGED <<setup, closed, cancelled, deferring, used, deaths, task>>

Selected(candidate) == ~deferring /\ task.status \in Live /\ task = candidate.task

(* CommitFinishCandidate, in order, until one is applied.                  *)
CommitCandidate ==
    /\ turn = "commit" /\ taskGate.candidates # <<>>
    /\ LET candidate == Head(taskGate.candidates)
           next == [taskGate EXCEPT !.candidates = Tail(@)]
       IN IF closed THEN Succeeds /\ GoesTo("failed") /\ UNCHANGED <<task, taskGate>>
          ELSE IF candidate.by = "hooks"
          THEN Succeeds /\ GoesTo("enqueue") /\ taskGate' = [next EXCEPT !.by = "hooks"] /\ UNCHANGED task
          ELSE IF ~Selected(candidate)
          THEN Succeeds /\ taskGate' = next /\ UNCHANGED <<turn, task>>
          ELSE \/ /\ Succeeds /\ GoesTo("enqueue")
                  /\ task' = [task EXCEPT !.count = @ + 1, !.rev = @ + 1]
                  /\ taskGate' = [next EXCEPT !.by = "tasks", !.applied = Append(@, candidate.task.rev)]
               \/ FailsOnce(MaxPolicyFaults) /\ GoesTo("failed") /\ UNCHANGED <<task, taskGate>>
    /\ CallStays /\ RestStays /\ UNCHANGED point

(* enqueuePendingMessage of the continuation: the Turn goes on with it.    *)
EnqueueContinuation ==
    /\ turn = "enqueue"
    /\ \/ Succeeds /\ GoesTo("ask") /\ taskGate' = [taskGate EXCEPT !.told = @ + (IF taskGate.by = "tasks" THEN 1 ELSE 0), !.by = "none"]
       \/ FailsOnce(MaxPolicyFaults) /\ GoesTo("failed") /\ UNCHANGED taskGate
    /\ CallStays /\ RestStays /\ UNCHANGED <<point, task>>

FinishTurn ==
    /\ turn = "commit" /\ taskGate.candidates = <<>> /\ GoesTo("done")
    /\ Succeeds /\ CallStays /\ TasksStay /\ RestStays /\ UNCHANGED point

-----------------------------------------------------------------------------
(* The surroundings                                                        *)

CancelTurn ==
    /\ ~cancelled /\ turn \notin {"new", "starting", "done", "failed", "rejected"} /\ cancelled' = TRUE
    /\ Succeeds /\ UNCHANGED <<setup, closed, turn, deferring, queuedContext, used, deaths, point>> /\ CallStays /\ TasksStay

(* The Turn sees its cancellation between two steps.                       *)
NoticeCancel ==
    /\ turn = "ask" /\ cancelled /\ GoesTo("failed")
    /\ Succeeds /\ CallStays /\ TasksStay /\ RestStays /\ UNCHANGED point

(* Set.mu: not while the Thread set runs its hooks.                        *)
CloseSets ==
    /\ ~closed /\ point.stage # "hooks" /\ closed' = TRUE
    /\ Succeeds /\ UNCHANGED <<setup, turn, cancelled, deferring, queuedContext, used, deaths, point>> /\ CallStays /\ TasksStay

(* A Worker Thread starts or ends.                                         *)
WorkersChange ==
    /\ turn \in {"finish", "commit"} /\ used.shifts < 1
    /\ deferring' = ~deferring /\ used' = [used EXCEPT !.shifts = @ + 1]
    /\ Succeeds /\ UNCHANGED <<setup, closed, turn, cancelled, queuedContext, deaths, point>> /\ CallStays /\ TasksStay

PInit ==
    /\ setup \in Setups /\ closed = FALSE /\ turn = "new" /\ cancelled = FALSE
    /\ point = NoPoint /\ call = NoCall /\ history = <<>>
    /\ ledger = [key \in ToolNames \X Classes |-> NoFailure]
    /\ task = [status |-> "todo", rev |-> 0, count |-> 0] /\ deferring = FALSE
    /\ taskGate = [candidates |-> <<>>, open |-> FALSE, by |-> "none", applied |-> <<>>, told |-> 0]
    /\ queuedContext = {} /\ used = [finishes |-> 0, edits |-> 0, compactions |-> 0, shifts |-> 0]
    /\ FaultFree

PNext ==
    \/ EnterPoint \/ RunHook \/ Opens \/ StartDecided \/ InputDecided
    \/ BeginCompaction \/ CompactDecided \/ CompactedDecided
    \/ RunTool \/ BeforeDecided \/ Invoke \/ AfterDecided \/ RecordOutcome \/ EditTask
    \/ Attempted \/ FinishEvaluated \/ CommitCandidate \/ EnqueueContinuation \/ FinishTurn
    \/ CancelTurn \/ NoticeCancel \/ CloseSets \/ WorkersChange

PSpec == PInit /\ [][PNext]_pvars

-----------------------------------------------------------------------------
(* Properties                                                              *)

PTypeOK ==
    /\ setup \in Setups /\ {closed, cancelled, deferring} \subseteq BOOLEAN
    /\ turn \in Phases /\ point.at \in Points \cup {"none"}
    /\ call.tool \in ToolNames \cup {"none"} /\ call.input \in 0..2 /\ call.ran \subseteq 1..2
    /\ \A key \in DOMAIN ledger : ledger[key].status \in {"none", "unresolved", "stale", "resolved"}
    /\ \A i \in DOMAIN history : history[i].class \in Classes \cup {"ok"}
    /\ queuedContext \subseteq Durable /\ task.count \in Nat

(* A handler runs only with the input the journal holds for the call, and  *)
(* never for a call a policy refused; a call that is reported as done did  *)
(* run and nobody objected, unless a policy replaced the report.           *)
EffectsRecorded == call.ran \subseteq {call.recorded}
DenialsHold == call.refused => call.ran = {}
OutcomeTold ==
    turn = "record" =>
        /\ (~call.error /\ ~call.replaced) => (call.outcome = "ok" /\ ~call.objected)
        /\ (call.error /\ ~call.replaced /\ ~call.objected) => call.outcome # "ok"
        /\ (call.ran # {} /\ ~call.replaced) => call.raw

(* The ledger agrees with the outcomes so far: a failure is open exactly   *)
(* when nothing since then resolved it or changed the file, and it counts  *)
(* the repetitions since it was last settled.                              *)
Settles(entry, key) == entry.class = "ok" /\ (entry.tool = "write" \/ entry.tool = key[1])
Since(key) == {i \in DOMAIN history : \A j \in i..Len(history) : ~Settles(history[j], key)}
Repeats(key) == Cardinality({i \in Since(key) : history[i].tool = key[1] /\ history[i].class = key[2]})
LedgerAgrees ==
    \A key \in DOMAIN ledger :
        /\ (ledger[key].status = "unresolved") <=> (Repeats(key) > 0)
        /\ ledger[key].status = "unresolved" => ledger[key].count = Repeats(key)
        /\ ledger[key].stuck => ledger[key].count >= 2

(* The task gate is fenced: a continuation is counted once, for the task   *)
(* as the gate saw it, and a Turn that ends with a live task the gate saw  *)
(* does so only because a Worker came in between.                          *)
ContinuationFenced ==
    /\ Len(taskGate.applied) = task.count
    /\ \A i, j \in DOMAIN taskGate.applied : i # j => taskGate.applied[i] # taskGate.applied[j]
    /\ taskGate.told <= task.count
    /\ (turn = "done" /\ taskGate.open /\ used.shifts = 0) => task.status \notin Live

(* The policies of a Turn are safe.                                        *)
PoliciesSafe == EffectsRecorded /\ DenialsHold /\ OutcomeTold /\ LedgerAgrees /\ ContinuationFenced

=============================================================================
