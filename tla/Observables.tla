----------------------------- MODULE Observables ----------------------------
(***************************************************************************)
(* One command observable of the Manager in internal/features/observables: *)
(* its runs (manager.go, source_command.go, runner.go), the Stop, Delete   *)
(* and Close calls that compete with a run's own goroutine for the right   *)
(* to end it, the batches its output becomes (batcher.go, store.go) and    *)
(* the goroutines that deliver them.  An action is what one goroutine does *)
(* under one hold of m.mu, or one call it waits for.                       *)
(***************************************************************************)
EXTENDS FaultModel, Sequences, FiniteSets

CONSTANTS
    StopCalls,      \* goroutines that call Stop or Delete
    MaxStarts,      \* bound: runs
    MaxStops,       \* bound: Stop and Delete calls
    MaxOutputs,     \* bound: the first runs, whose child writes output
    MaxRecordFails  \* bound: failing writes of runs.jsonl and observations.jsonl

ASSUME StopNames == StopCalls \cap {"none", "close"} = {}
ASSUME ObservableBounds == {MaxStarts, MaxStops, MaxOutputs, MaxRecordFails} \subseteq Nat

VARIABLES
    run,        \* every observableRun and where its goroutine is
    current,    \* m.runs[id]; 0: none
    slot,       \* m.slots[id]; 0: none
    defined,    \* m.specs[id] exists
    deleting,   \* m.deleting[id]
    stopping,   \* the Stop and Delete calls in progress
    stops,      \* how many have begun
    closing,    \* the Close attempt
    inflight,   \* recorded observations a delivery goroutine works on
    refused,    \* recorded observations that submitDelivery did not take
    announced   \* the ending events emitted so far

ovars == <<run, current, slot, defined, deleting, stopping, stops, closing, inflight, refused,
           announced, faultVars>>

Runs == 1..MaxStarts

NoRun ==
    [step |-> "none", ended |-> "none", activated |-> FALSE, published |-> FALSE, child |-> FALSE, batch |-> FALSE,
     tail |-> FALSE, outputs |-> 0, cancelled |-> FALSE, quiesced |-> FALSE, claim |-> "none",
     pending |-> "none", durable |-> FALSE, shutdown |-> FALSE, completed |-> FALSE,
     reported |-> FALSE, event |-> "none", final |-> "none", done |-> FALSE, records |-> 0]
NoStop == [step |-> "idle", run |-> 0, delete |-> FALSE]
NotClosing == [step |-> "open", run |-> 0]

OnlyRun == UNCHANGED <<slot, defined, deleting, stopping, stops, closing, inflight, refused, announced, deaths>>

Writes == Succeeds
WriteFails == FailsOnce(MaxRecordFails)
Announce(kind, r) == announced' = Append(announced, <<kind, r>>)

-----------------------------------------------------------------------------
(* Ending a run *)

(* commitTerminal by the holder of the claim.  A terminal record that      *)
(* cannot be written leaves the run pending, with its first outcome.       *)
Committed(x, outcome, emit) ==
    [x EXCEPT !.durable = TRUE, !.pending = "none", !.claim = "none", !.records = @ + 1,
              !.event = IF emit THEN outcome ELSE @,
              !.final = IF x.completed THEN "due" ELSE @]
NotCommitted(x, outcome) ==
    [x EXCEPT !.pending = IF @ = "none" THEN outcome ELSE @, !.claim = "none",
              !.reported = TRUE]
CommitTerminal(r, x, outcome, emit) ==
    \/ /\ Writes
       /\ run' = [run EXCEPT ![r] = Committed(x, outcome, emit)]
       /\ current' = 0 /\ UNCHANGED announced
    \/ /\ WriteFails
       /\ run' = [run EXCEPT ![r] = NotCommitted(x, outcome)]
       /\ IF x.completed /\ ~x.reported THEN Announce("errored", r) ELSE UNCHANGED announced
       /\ UNCHANGED current

(* finalizeLifecycle: the terminal event, then the slot *)
EmitTerminal(r) ==
    /\ run[r].final = "due" /\ run[r].step # "emitError"
    /\ run' = [run EXCEPT ![r].final = "emitted", ![r].event = "none"]
    /\ IF run[r].event # "none" THEN Announce(run[r].event, r) ELSE UNCHANGED announced
    /\ UNCHANGED <<current, slot, defined, deleting, stopping, stops, closing, inflight, refused, faultVars>>

FreeSlot(r) ==
    /\ run[r].final = "emitted"
    /\ run' = [run EXCEPT ![r].final = "done", ![r].done = TRUE]
    /\ slot' = IF slot = r THEN 0 ELSE slot
    /\ UNCHANGED <<current, defined, deleting, stopping, stops, closing, inflight, refused, announced, faultVars>>

-----------------------------------------------------------------------------
(* Start and the goroutine of a run *)

(* Create: the definition is saved, then the observable is started. *)
Create ==
    /\ ~defined /\ Succeeds
    /\ defined' = TRUE
    /\ UNCHANGED <<run, current, slot, deleting, stopping, stops, closing, inflight, refused, announced, deaths>>

(* The checks of Start, and without the one on m.slots *)
StartableWithoutSlot == closing.step = "open" /\ current = 0 /\ ~deleting /\ defined
Startable == StartableWithoutSlot /\ slot = 0

Start(r) ==
    /\ Startable
    /\ run[r].step = "none" /\ \A q \in 1..(r - 1) : run[q].step # "none"
    /\ run' = [run EXCEPT ![r].step = "record"]
    /\ current' = r /\ slot' = r
    /\ UNCHANGED <<defined, deleting, stopping, stops, closing, inflight, refused, announced, faultVars>>

(* To the end of a start that failed; no exit notice is recorded. *)
Failed(x) == [x EXCEPT !.step = "finish", !.ended = "errored", !.quiesced = TRUE]

RecordStarting(r) ==
    /\ run[r].step = "record"
    /\ \/ Writes /\ run' = [run EXCEPT ![r].step = "launch"]
       \/ WriteFails /\ run' = [run EXCEPT ![r] = Failed(@)]
    /\ UNCHANGED current /\ OnlyRun

(* runner.start: a cancelled run is not started. *)
Launch(r) ==
    /\ run[r].step = "launch"
    /\ \/ /\ ~run[r].cancelled
          /\ run' = [run EXCEPT ![r].step = "activate", ![r].child = TRUE]
       \/ run' = [run EXCEPT ![r] = [Failed(@) EXCEPT !.cancelled = TRUE]]
    /\ UNCHANGED <<current, failures>> /\ OnlyRun

(* activateRun, then the goroutine s.wait *)
Activate(r) ==
    /\ run[r].step = "activate"
    /\ \/ /\ current = r /\ run[r].claim = "none" /\ Writes
          /\ run' = [run EXCEPT ![r].step = "await", ![r].activated = TRUE]
       \/ /\ \/ (current # r \/ run[r].claim # "none") /\ Succeeds
             \/ WriteFails
          /\ run' = [run EXCEPT ![r].step = "drain", ![r].cancelled = TRUE]
    /\ UNCHANGED current /\ OnlyRun

(* publishStarted, then releaseStarted, whether or not the event is sent *)
PublishStarted(r) ==
    /\ ~run[r].published /\ run[r].activated
    /\ run' = [run EXCEPT ![r].published = TRUE]
    /\ UNCHANGED <<current, failures>> /\ OnlyRun

(* waitForStartedOrCancellation *)
AwaitStarted(r) ==
    /\ run[r].step = "await"
    /\ run[r].published \/ run[r].cancelled
    /\ run' = [run EXCEPT ![r].step = "wait"]
    /\ UNCHANGED <<current, failures>> /\ OnlyRun

ChildExits(r) ==
    /\ run[r].child
    /\ run' = [run EXCEPT ![r].child = FALSE]
    /\ UNCHANGED <<current, failures>> /\ OnlyRun

-----------------------------------------------------------------------------
(* Batches.  The observations of a run are numbered in the order in which  *)
(* they are recorded; 0 is the observable_exit notice.                     *)

(* submitDelivery *)
Submit(o) ==
    IF closing.step \in {"draining", "closed"}
      THEN refused' = refused \cup {o} /\ UNCHANGED inflight
      ELSE inflight' = inflight \cup {o} /\ UNCHANGED refused
SubmitsNothing == UNCHANGED <<inflight, refused>>

OnlyOutput == UNCHANGED <<current, slot, defined, deleting, stopping, stops, closing, announced,
                          deaths>>

(* Pipeline.Accept and Batcher.Add: output without its newline waits in    *)
(* the pipeline's buffer.                                                  *)
ReadOutput(r) ==
    /\ run[r].child /\ run[r].outputs = 0 /\ r <= MaxOutputs
    /\ run' \in {[run EXCEPT ![r].batch = TRUE], [run EXCEPT ![r].tail = TRUE]}
    /\ UNCHANGED failures /\ SubmitsNothing /\ OnlyOutput

(* FlushDue, or an Add after the interval, from flushLoop and readStream:  *)
(* the batch is recorded and submitted; on an error it is kept.            *)
FlushBatch(r) ==
    /\ run[r].child /\ run[r].batch
    /\ \/ /\ Writes
          /\ run' = [run EXCEPT ![r].batch = FALSE, ![r].outputs = @ + 1]
          /\ Submit(<<r, run[r].outputs + 1>>)
       \/ WriteFails /\ SubmitsNothing /\ UNCHANGED run
    /\ OnlyOutput

(* The parse error branch of readStream.  An open batch whose interval has *)
(* passed is recorded by the Add of the error unit and not submitted: the  *)
(* records that this Add returns are not used.                             *)
ParseError(r) ==
    /\ run[r].child /\ run[r].outputs = 0 /\ r <= MaxOutputs
    /\ \E recorded \in IF run[r].batch THEN {1, 2} ELSE {1} :
         /\ run' = [run EXCEPT ![r].batch = FALSE, ![r].outputs = @ + recorded]
         /\ Submit(<<r, run[r].outputs + recorded>>)
    /\ Writes /\ OnlyOutput

(* runner.flush after the child has exited: the buffered tail joins the    *)
(* open batch or, when the interval has passed, an Add records that batch, *)
(* again without submitting it.  Then the source is quiescent.             *)
FinalFlush(r) ==
    LET x == run[r]
        rest == x.batch \/ x.tail
        after == [x EXCEPT !.batch = FALSE, !.tail = FALSE, !.quiesced = TRUE,
                           !.step = "finish",
                           !.ended = IF x.step = "wait" THEN "exited" ELSE "errored"]
    IN
    /\ x.step \in {"wait", "drain"} /\ ~x.child
    /\ \/ \E recorded \in IF x.batch /\ x.tail THEN {1, 2} ELSE {1} :
            /\ rest /\ Writes
            /\ run' = [run EXCEPT ![r] = [after EXCEPT !.outputs = @ + recorded]]
            /\ Submit(<<r, x.outputs + recorded>>)
       \/ /\ \/ ~rest /\ Succeeds
             \/ rest /\ WriteFails
          /\ run' = [run EXCEPT ![r] = after] /\ SubmitsNothing
    /\ OnlyOutput

(* deliverObservation: the callback, and the outcome written to the store *)
Deliver(o) ==
    /\ o \in inflight
    /\ inflight' = inflight \ {o}
    /\ UNCHANGED <<run, refused, failures>> /\ OnlyOutput

-----------------------------------------------------------------------------
(* The end of the run's goroutine *)

(* finishRun: only the first to claim the run ends it. *)
FinishRun(r) ==
    LET x == [run[r] EXCEPT !.step = IF @ = "finish" /\ run[r].ended = "exited"
                                     THEN "notify" ELSE "complete"]
    IN
    /\ run[r].step = "finish"
    /\ \/ /\ current # r \/ run[r].pending # "none"
          /\ run' = [run EXCEPT ![r].step = "complete"]
          /\ UNCHANGED <<current, announced, failures>>
       \/ /\ current = r /\ run[r].pending = "none" /\ run[r].claim = "none"
          /\ CommitTerminal(r, x, run[r].ended, TRUE)
    /\ UNCHANGED <<slot, defined, deleting, stopping, stops, closing, inflight, refused, deaths>>

(* notifyOnExit *)
NotifyOnExit(r) ==
    /\ run[r].step = "notify"
    /\ run' = [run EXCEPT ![r].step = "complete"]
    /\ \/ Writes /\ Submit(<<r, 0>>)
       \/ (Succeeds \/ WriteFails) /\ SubmitsNothing
    /\ OnlyOutput

(* closeDone: completeWorker *)
CompleteWorker(r) ==
    LET x == run[r]
        finalizable == x.durable \/ x.shutdown
    IN
    /\ x.step = "complete"
    /\ run' = [run EXCEPT ![r] =
                 [x EXCEPT !.completed = TRUE, !.done = ~finalizable,
                           !.step = IF x.reported THEN "emitError" ELSE "over",
                           !.final = IF finalizable THEN "due" ELSE @]]
    /\ UNCHANGED <<current, failures>> /\ OnlyRun

EmitError(r) ==
    /\ run[r].step = "emitError"
    /\ run' = [run EXCEPT ![r].step = "over"]
    /\ Announce("errored", r)
    /\ UNCHANGED <<current, slot, defined, deleting, stopping, stops, closing, inflight, refused, faultVars>>

-----------------------------------------------------------------------------
(* Stop and Delete *)

Becomes(c, x) == stopping' = [stopping EXCEPT ![c] = x]
Returns(c) ==
    /\ Becomes(c, NoStop)
    /\ deleting' = (deleting /\ ~stopping[c].delete)

CallStop(c) ==
    /\ stopping[c] = NoStop /\ stops < MaxStops /\ defined
    /\ stops' = stops + 1
    /\ \/ Becomes(c, [NoStop EXCEPT !.step = "claim"]) /\ UNCHANGED deleting
       \/ /\ ~deleting /\ deleting' = TRUE
          /\ Becomes(c, [NoStop EXCEPT !.step = "claim", !.delete = TRUE])
    /\ UNCHANGED <<run, current, slot, defined, closing, inflight, refused,
                   announced, faultVars>>

(* claimTerminal, then run.cancel in source.stop *)
ClaimTerminal(c) ==
    /\ stopping[c].step = "claim"
    /\ \/ /\ current = 0
          /\ IF stopping[c].delete /\ defined
               THEN Becomes(c, [stopping[c] EXCEPT !.step = "remove"]) /\ UNCHANGED deleting
               ELSE Returns(c)
          /\ UNCHANGED run
       \/ /\ current # 0 /\ run[current].claim = "none"
          /\ LET pending == run[current].pending # "none" IN
             /\ run' = [run EXCEPT ![current].claim = c, ![current].cancelled = @ \/ ~pending]
             /\ Becomes(c, [stopping[c] EXCEPT !.run = current,
                               !.step = IF pending THEN "retry" ELSE "quiesce"])
          /\ UNCHANGED deleting
    /\ UNCHANGED <<current, slot, defined, stops, closing, inflight, refused,
                   announced, faultVars>>

(* source.stop has returned, or a pending record is written again *)
EndClaimed(c) ==
    LET r == stopping[c].run IN
    /\ \/ stopping[c].step = "quiesce" /\ run[r].quiesced
       \/ stopping[c].step = "retry"
    /\ IF stopping[c].step = "retry"
         THEN CommitTerminal(r, run[r], run[r].pending, FALSE)
         ELSE CommitTerminal(r, run[r], "stopped", TRUE)
    /\ IF failures' = failures \/ (stopping[c].step = "quiesce" /\ ~stopping[c].delete)
         THEN Becomes(c, [stopping[c] EXCEPT !.step = IF failures' = failures THEN "done"
                                                      ELSE "failed"])
              /\ UNCHANGED deleting
         ELSE Returns(c)
    /\ UNCHANGED <<slot, defined, stops, closing, inflight, refused, deaths>>

(* The caller's context ends before the source is quiescent. *)
RollbackTerminal(c) ==
    LET r == stopping[c].run IN
    /\ stopping[c].step = "quiesce" /\ ~run[r].quiesced
    /\ run' = [run EXCEPT ![r].claim = "none"]
    /\ Returns(c)
    /\ UNCHANGED <<current, slot, defined, stops, closing, inflight, refused,
                   announced, faultVars>>

(* waitRunDone; the context may end first. *)
WaitRunDone(c) ==
    /\ stopping[c].step \in {"done", "failed"}
    /\ \/ /\ run[stopping[c].run].done /\ stopping[c].delete /\ stopping[c].step = "done"
          /\ Becomes(c, [stopping[c] EXCEPT !.step = "remove"]) /\ UNCHANGED deleting
       \/ Returns(c)
    /\ UNCHANGED <<run, current, slot, defined, stops, closing, inflight, refused, announced, faultVars>>

(* The definition leaves observables.json and the maps. *)
RemoveDefinition(c) ==
    /\ stopping[c].step = "remove"
    /\ Returns(c)
    /\ \/ Writes /\ defined' = FALSE /\ current' = 0
       \/ WriteFails /\ UNCHANGED <<defined, current>>
    /\ UNCHANGED <<run, slot, stops, closing, inflight, refused, announced,
                   deaths>>

-----------------------------------------------------------------------------
(* Close *)

CloseAt(step, r) == closing' = [step |-> step, run |-> r]

(* A failed attempt leaves the Manager closed and may be repeated. *)
BeginClose ==
    /\ closing.step \in {"open", "failed"}
    /\ CloseAt("claim", 0)
    /\ UNCHANGED <<run, current, slot, defined, deleting, stopping, stops, inflight, refused, announced, faultVars>>

CloseClaims ==
    /\ closing.step = "claim"
    /\ \/ /\ current # 0 /\ run[current].claim = "none"
          /\ run' = [run EXCEPT ![current].claim = "close", ![current].cancelled = TRUE]
          /\ CloseAt("stop", current)
       \/ current = 0 /\ CloseAt("workers", 0) /\ UNCHANGED run
    /\ UNCHANGED <<current, slot, defined, deleting, stopping, stops, inflight, refused, announced, faultVars>>

(* commitShutdown, or the pending record once more *)
CloseEnds ==
    LET r == closing.run IN
    /\ closing.step = "stop" /\ run[r].quiesced
    /\ \/ /\ run[r].pending = "none"
          /\ run' = [run EXCEPT ![r] = [run[r] EXCEPT !.shutdown = TRUE, !.claim = "none",
                                   !.final = IF run[r].completed THEN "due" ELSE @]]
          /\ current' = 0 /\ CloseAt("claim", 0) /\ UNCHANGED <<announced, failures>>
       \/ /\ run[r].pending # "none"
          /\ CommitTerminal(r, run[r], run[r].pending, FALSE)
          /\ CloseAt(IF failures' = failures THEN "claim" ELSE "failed", 0)
    /\ UNCHANGED <<slot, defined, deleting, stopping, stops, inflight, refused, deaths>>

(* Every goroutine of a run is waited for before deliveries are closed. *)
WorkersDone == \A r \in Runs : run[r].step = "none" \/ run[r].completed

CloseDeliveries ==
    /\ closing.step = "workers" /\ WorkersDone
    /\ CloseAt("draining", 0)
    /\ UNCHANGED <<run, current, slot, defined, deleting, stopping, stops, inflight, refused, announced, faultVars>>

ManagerClosed ==
    /\ closing.step = "draining" /\ inflight = {}
    /\ CloseAt("closed", 0)
    /\ UNCHANGED <<run, current, slot, defined, deleting, stopping, stops, inflight, refused, announced, faultVars>>

-----------------------------------------------------------------------------
OInit ==
    /\ run = [r \in Runs |-> NoRun] /\ current = 0 /\ slot = 0
    /\ defined = TRUE /\ deleting = FALSE
    /\ stopping = [c \in StopCalls |-> NoStop] /\ stops = 0
    /\ closing = NotClosing
    /\ inflight = {} /\ refused = {} /\ announced = <<>>
    /\ FaultFree

RunStep(r) ==
    \/ Start(r) \/ RecordStarting(r) \/ Launch(r) \/ Activate(r)
    \/ PublishStarted(r) \/ AwaitStarted(r) \/ ChildExits(r)
    \/ ReadOutput(r) \/ FlushBatch(r) \/ ParseError(r) \/ FinalFlush(r)
    \/ FinishRun(r) \/ NotifyOnExit(r) \/ CompleteWorker(r) \/ EmitError(r)
    \/ EmitTerminal(r) \/ FreeSlot(r)
StopStep(c) ==
    \/ CallStop(c) \/ ClaimTerminal(c) \/ EndClaimed(c) \/ RollbackTerminal(c)
    \/ WaitRunDone(c) \/ RemoveDefinition(c)
CloseStep == BeginClose \/ CloseClaims \/ CloseEnds \/ CloseDeliveries \/ ManagerClosed

ONext ==
    \/ Create
    \/ \E r \in Runs : RunStep(r)
    \/ \E c \in StopCalls : StopStep(c)
    \/ CloseStep
    \/ \E o \in inflight : Deliver(o)

OSpec == OInit /\ [][ONext]_ovars

-----------------------------------------------------------------------------
RunSteps == {"none", "record", "launch", "activate", "await", "wait", "drain", "finish",
             "notify", "complete", "emitError", "over"}
Outcomes == {"none", "errored", "exited", "stopped"}

(* The state of the Manager has the shape the code gives it. *)
OTypeOK ==
    /\ \A r \in Runs :
         /\ run[r].step \in RunSteps
         /\ {run[r].ended, run[r].pending, run[r].event} \subseteq Outcomes
         /\ run[r].claim \in StopCalls \cup {"none", "close"}
    /\ {current, slot} \subseteq Runs \cup {0}
    /\ \A c \in StopCalls : stopping[c].run \in Runs \cup {0}
    /\ inflight \cup refused \subseteq Runs \X (0..4)

Endings(r) == {i \in DOMAIN announced : announced[i][2] = r}

(* However a run's own goroutine, Stop, Delete and Close race to end it,   *)
(* and whichever writes fail, runs.jsonl receives at most one terminal     *)
(* record of it and the bus at most one ending event, exactly one of each  *)
(* once the run is over and was not cut off by Close; and the endings of   *)
(* successive runs are announced in the order of the runs, which is what   *)
(* the slot is kept for.  A run whose goroutine has returned and whose end *)
(* is recorded gives the slot back.                                        *)
EndedOnce ==
    /\ \A r \in Runs :
         /\ run[r].completed /\ (run[r].durable \/ run[r].shutdown) =>
              run[r].final # "none" /\ (run[r].final = "done" => slot # r)
         /\ run[r].records <= 1 /\ Cardinality(Endings(r)) <= 1
         /\ run[r].final = "done" /\ ~run[r].shutdown =>
              run[r].records = 1 /\ Cardinality(Endings(r)) = 1
    /\ \A r, q \in Runs : \A i \in Endings(r), j \in Endings(q) : i < j => r <= q

(* Close returns only when no child runs, no goroutine of a run is left    *)
(* and every delivery has returned, and the deliveries it closes are no    *)
(* longer needed: no observation that was recorded and submitted, an exit  *)
(* notice of the last moment included, is refused.                         *)
ClosedQuiet ==
    /\ refused = {}
    /\ closing.step = "closed" =>
         /\ \A r \in Runs : ~run[r].child /\ (run[r].step = "none" \/ run[r].completed)
         /\ inflight = {}

(* The runs of an observable and the end of its Manager (manager.go)       *)
ObservablesSafe == EndedOnce /\ ClosedQuiet

=============================================================================
