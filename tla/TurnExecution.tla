---------------------------- MODULE TurnExecution ----------------------------
(***************************************************************************)
(* The execution of a Turn: TurnMessageWithID claims a start action,       *)
(* restores what the store still owes, records the Turn's own input, and   *)
(* alternates draining the live queue with provider iterations until the   *)
(* Turn ends (internal/framework/runtime/{loop,turn_lifecycle}.go).        *)
(***************************************************************************)
EXTENDS InputAdmission

CONSTANT ErrKinds   \* how a provider, a policy or a cancellation may end a Turn

ASSUME ErrKindsAssumption == ErrKinds \subseteq Dispositions \ {"completed"}

X == pr["exec"]

(* The executor alone moves: no store, live queue or admission state. *)
Moves(r) ==
    /\ pr' = [pr EXCEPT !["exec"] = r]
    /\ UNCHANGED <<qvars, active, executing, termPub, live, publishing, transcript,
                   terminals, faults, avars>>

-----------------------------------------------------------------------------
(* Claiming: admitTurnMessageForExecution *)

CanClaim(s) == up = "up" /\ At("exec", "idle") /\ lock = "free" /\ s \in starts

(* turnIndex: the record that started the Turn. *)
Indexed(s) ==
    /\ TurnOrigin(s.input) /\ View[s.input].turn = s.turn
    /\ View[s.input].state \in {"admitted", "processed"}

(* Mutant of ClaimRefused: a settled start may be staged again. *)
ClaimRefusedForgets(s) ==
    \/ maint \/ termPub # NoTurn \/ publishing
    \/ active \notin {NoTurn, s.turn}
    \/ View[s.input].state = "dead_lettered"

ClaimRefused(s) ==
    \/ maint \/ termPub # NoTurn \/ publishing
    \/ active \notin {NoTurn, s.turn}
    \/ ~(active = s.turn /\ Indexed(s)) /\ s.input \in HandledMsgsView
    \/ View[s.input].state = "dead_lettered"

(* A delivery is retried when its record is not settled. *)
Unsettled(i) == View[i].state \in {"accepting", "pending", "admitted", "retryable"}
Retried(i, src) == IF src = "ext" /\ Unsettled(i) THEN ext \cup {i} ELSE ext

(* The caller gives the start action up: the web transport ignores the     *)
(* error, a delivery of a persisted input is retried.                      *)
RefuseClaim(s) ==
    /\ CanClaim(s) /\ ClaimRefused(s)
    /\ starts' = starts \ {s}
    /\ ext' = Retried(s.input, s.src)
    /\ UNCHANGED <<qvars, evars, up, recov, compacting, maint, admits, usedTurns, arrived>>

Claiming(s, i) == [Idle EXCEPT !.pc = "restore", !.turn = s.turn, !.input = i, !.src = s.src]

Claim(s) ==
    /\ CanClaim(s) /\ ~ClaimRefused(s)
    /\ active = s.turn /\ Present(s.input)
    /\ starts' = starts \ {s}
    /\ executing' = s.turn
    /\ pr' = [pr EXCEPT !["exec"] = Claiming(s, s.input)]
    /\ UNCHANGED <<qvars, active, termPub, live, publishing, lock, transcript, terminals,
                   faults, up, ext, recov, compacting, maint, admits, usedTurns, arrived>>

(* The store no longer knows the message, not even as handled: the claim   *)
(* stages it as a new record, and admits the Turn again if it is not       *)
(* active any more.                                                        *)
Reclaim(s, o) ==
    /\ CanClaim(s) /\ ~ClaimRefused(s)
    /\ ~Present(s.input) /\ FreshLeft
    /\ StageTurnInput(Fresh, s.turn, o)
    /\ Spend(o)
    /\ arrived' = arrived \cup {Fresh}
    /\ starts' = starts \ {s}
    /\ IF o # "ok"
       THEN UNCHANGED <<active, executing, pr, publishing, lock>>
       ELSE IF active = s.turn
       THEN /\ executing' = s.turn
            /\ pr' = [pr EXCEPT !["exec"] = Claiming(s, Fresh)]
            /\ UNCHANGED <<active, publishing, lock>>
       ELSE /\ active' = s.turn
            /\ pr' = [pr EXCEPT !["exec"] = [Claiming(s, Fresh) EXCEPT !.pc = "staged",
                                                                      !.src = "sync"]]
            /\ OpenWindow
            /\ UNCHANGED executing
    /\ UNCHANGED <<termPub, live, transcript, terminals,
                   up, ext, recov, compacting, maint, admits, usedTurns>>

-----------------------------------------------------------------------------
(* restorePendingInput *)

(* The executor lists what is replayable, after expiring the records of S; *)
(* the list or the repair of the transcript before it may fail.            *)
Restore(S, o) ==
    /\ At("exec", "restore") /\ lock = "free"
    /\ S # {} => "expire" \in Operations
    /\ Spend(o)
    /\ \/ /\ o = "journal" /\ S = {}
          /\ pr' = [pr EXCEPT !["exec"].pc = "fail", !["exec"].d = "dead"]
          /\ UNCHANGED <<qvars, lock>>
       \/ /\ o \in Outcomes
          /\ Expire(S, o)
          /\ IF o = "ok"
             THEN /\ lock' = "exec"
                  /\ pr' = [pr EXCEPT !["exec"].pc = "restoreTake",
                                      !["exec"].todo = ReplayOrder(S)]
             ELSE /\ pr' = [pr EXCEPT !["exec"].pc = "restoreFail", !["exec"].d = "dead"]
                  /\ UNCHANGED lock
    /\ UNCHANGED <<active, executing, termPub, live, publishing, transcript, terminals, avars>>

RestoreCancelled(d) ==
    /\ At("exec", "restore")
    /\ Moves([X EXCEPT !.pc = "restoreFail", !.d = d]) /\ UNCHANGED lock

(* Where the scan of the list stops: at the Turn's own input, or at an     *)
(* input that started a Turn before and has not been appended.             *)
ScanStop(s) ==
    SelectInSeq(s, LAMBDA i : i = X.input \/ (TurnOrigin(i) /\ ~Transcribed(i)))

RestoreTake ==
    LET k == ScanStop(X.todo)
        scanned == IF k = 0 THEN X.todo ELSE SubSeq(X.todo, 1, k - 1)
        rest == IF k = 0 THEN <<>> ELSE SubSeq(X.todo, k, Len(X.todo))
        queued == Untranscribed(scanned)
        later == IF rest = <<>> THEN <<>> ELSE Tail(rest)
        Found(seq) == {i \in ToSet(seq) : Transcribed(i)}
        Taken(r, pc, batch, todo, done, d) ==
            [r EXCEPT !.pc = pc, !.batch = batch, !.todo = todo, !.next = "restoreTake",
                      !.after = "mark", !.already = @ \cup done, !.d = d]
    IN
    /\ At("exec", "restoreTake")
    /\ \/ /\ queued # <<>>
          /\ pr' = [pr EXCEPT !["exec"] =
                       Taken(@, "window", queued, rest, Found(scanned), "dead")]
          /\ OpenWindow
       \/ /\ queued = <<>> /\ rest # <<>> /\ Head(rest) # X.input
          /\ pr' = [pr EXCEPT !["exec"] =
                       Taken(@, "admit", <<Head(rest)>>, Tail(rest), Found(scanned), "dead")]
          /\ UNCHANGED <<publishing, lock>>
       \/ /\ queued = <<>> /\ (rest # <<>> => Head(rest) = X.input)
          /\ pr' = [pr EXCEPT !["exec"] =
                       Taken(@, "mark", <<>>, Untranscribed(later),
                             Found(scanned) \cup Found(later), "none")]
          /\ UNCHANGED <<publishing, lock>>
    /\ UNCHANGED <<qvars, active, executing, termPub, live, transcript, terminals, faults, avars>>

(* markAlreadyProcessed: inputs found in the transcript become inputs of   *)
(* this Turn, also when the restoration itself has failed (d = "dead").    *)
MarkFails ==
    /\ live' = IF X.d = "none" THEN Concat(X.todo, live) ELSE live
    /\ lock' = "free"
    /\ pr' = [pr EXCEPT !["exec"].pc = "restoreFail", !["exec"].d = "dead",
                        !["exec"].todo = <<>>]

MarkAlreadyAdmitted(o) ==
    /\ At("exec", "mark")
    /\ IF X.already = {}
       THEN o = "ok" /\ UNCHANGED <<qvars, faults>>
       ELSE MarkAdmitted(X.already, X.turn, o) /\ Spend(o)
    /\ IF o = "ok" THEN Goto("exec", "markDone") /\ UNCHANGED <<live, lock>> ELSE MarkFails
    /\ UNCHANGED <<active, executing, termPub, publishing, transcript, terminals, avars>>

(* mergeRecoveredPendingInputAfterCurrent *)
Merged(s) ==
    IF s = <<>> THEN live
    ELSE s \o SelectSeq(live, LAMBDA i : ~Contains(s, i) /\ ~Transcribed(i))

MarkAlreadyProcessed(o) ==
    /\ At("exec", "markDone")
    /\ IF X.already = {}
       THEN o = "ok" /\ UNCHANGED <<qvars, faults>>
       ELSE MarkProcessed(X.already, o) /\ Spend(o)
    /\ IF o # "ok" \/ X.d # "none"
       THEN MarkFails
       ELSE /\ live' = Merged(X.todo)
            /\ lock' = "free"
            /\ pr' = [pr EXCEPT !["exec"].pc = "start", !["exec"].todo = <<>>,
                                !["exec"].already = {}]
    /\ UNCHANGED <<active, executing, termPub, publishing, transcript, terminals, avars>>

(* After a failed restoration what is queued is preserved first, then the  *)
(* Turn's own input is recorded.                                           *)
RestoreFails ==
    /\ At("exec", "restoreFail") /\ lock = "free"
    /\ lock' = "exec"
    /\ Moves([X EXCEPT !.pc = "preserve", !.after = "lateStart", !.already = {}])

Fails(r) == [r EXCEPT !.pc = "preserve", !.after = "terminal"]

LateStart(o) ==
    /\ At("exec", "lateStart")
    /\ Spend(o)
    /\ IF Transcribed(X.input)
       THEN o = "ok" /\ pr' = [pr EXCEPT !["exec"] = Fails(@)] /\ UNCHANGED transcript
       ELSE /\ pr' = [pr EXCEPT !["exec"] =
                        IF o = "ok" THEN [@ EXCEPT !.pc = "lateMark"] ELSE Fails(@)]
            /\ transcript' = IF Durable(o) THEN Append(transcript, X.input) ELSE transcript
    /\ UNCHANGED <<qvars, active, executing, termPub, live, publishing, lock, terminals, avars>>

LateMark(o) ==
    /\ At("exec", "lateMark")
    /\ MarkProcessed({X.input}, o)
    /\ Spend(o)
    /\ pr' = [pr EXCEPT !["exec"] = Fails(@)]
    /\ UNCHANGED <<active, executing, termPub, live, publishing, lock, transcript,
                   terminals, avars>>

-----------------------------------------------------------------------------
(* recordTurnStartLocked.  The input is appended even when an earlier      *)
(* attempt has appended it already.                                        *)
RecordStart(o) ==
    /\ At("exec", "start")
    /\ Spend(o)
    /\ transcript' = IF Durable(o) THEN Append(transcript, X.input) ELSE transcript
    /\ pr' = [pr EXCEPT !["exec"] = IF o = "ok" THEN [@ EXCEPT !.pc = "startMark"]
                                    ELSE [@ EXCEPT !.pc = "fail", !.d = "dead"]]
    /\ UNCHANGED <<qvars, active, executing, termPub, live, publishing, lock, terminals, avars>>

(* blocked: a policy or the preparation refused the input that was         *)
(* recorded, or turn.started could not be committed.                       *)
MarkStart(o, blocked) ==
    /\ At("exec", "startMark")
    /\ blocked => "dead" \in ErrKinds
    /\ MarkProcessed({X.input}, o)
    /\ Spend(o)
    /\ pr' = [pr EXCEPT !["exec"] = IF o = "ok" /\ ~blocked THEN [@ EXCEPT !.pc = "loop"]
                                    ELSE [@ EXCEPT !.pc = "fail", !.d = "dead"]]
    /\ UNCHANGED <<active, executing, termPub, live, publishing, lock, transcript,
                   terminals, avars>>

-----------------------------------------------------------------------------
(* runProviderIterationLocked *)

(* drainPendingInputLocked waits until no lifecycle event is published. *)
Drain ==
    /\ At("exec", "loop") /\ lock = "free" /\ ~publishing
    /\ live' = <<>>
    /\ IF live = <<>>
       THEN Goto("exec", "provider") /\ UNCHANGED <<publishing, lock>>
       ELSE pr' = [pr EXCEPT !["exec"] = Draining(@, live, "iterate", "drainFail")] /\ OpenWindow
    /\ UNCHANGED <<qvars, active, executing, termPub, transcript, terminals, faults, avars>>

Release ==
    /\ X.pc \in {"iterate", "drainFail"}
    /\ lock' = "free"
    /\ Moves(IF X.pc = "iterate" THEN [X EXCEPT !.pc = "provider"]
             ELSE [X EXCEPT !.pc = "fail", !.d = "dead"])

(* Tool calls, a steered continuation, an overflow retry: another round. *)
ProviderContinues ==
    At("exec", "provider") /\ Moves([X EXCEPT !.pc = "loop"]) /\ UNCHANGED lock

ProviderFinishes ==
    At("exec", "provider") /\ Moves([X EXCEPT !.pc = "finish"]) /\ UNCHANGED lock

ProviderFails(d) ==
    /\ At("exec", "provider")
    /\ Moves([X EXCEPT !.pc = "fail", !.d = d]) /\ UNCHANGED lock

(* Mutant of Finish: the queue is not looked at again. *)
FinishIgnoresQueue ==
    /\ At("exec", "finish") /\ lock = "free"
    /\ active' = IF active = X.turn THEN NoTurn ELSE active
    /\ termPub' = X.turn
    /\ pr' = [pr EXCEPT !["exec"].pc = "commit", !["exec"].d = "completed"]
    /\ UNCHANGED <<qvars, executing, live, publishing, lock, transcript, terminals,
                   faults, avars>>

(* finishOrContinueLocked: the Turn goes on for what was queued meanwhile. *)
Finish ==
    /\ At("exec", "finish") /\ lock = "free"
    /\ IF active = X.turn /\ live # <<>>
       THEN Goto("exec", "loop") /\ UNCHANGED <<active, termPub>>
       ELSE /\ active' = IF active = X.turn THEN NoTurn ELSE active
            /\ termPub' = X.turn
            /\ pr' = [pr EXCEPT !["exec"].pc = "commit", !["exec"].d = "completed"]
    /\ UNCHANGED <<qvars, executing, live, publishing, lock, transcript, terminals,
                   faults, avars>>

(* failActiveTurnLocked *)
Fail ==
    /\ At("exec", "fail") /\ lock = "free"
    /\ lock' = "exec"
    /\ Moves(Fails(X))

Terminate ==
    /\ At("exec", "terminal")
    /\ BeginTerminal("exec")
    /\ Goto("exec", "commit")
    /\ UNCHANGED <<qvars, executing, live, publishing, transcript, terminals, faults, avars>>

(* A completion that could not be committed is committed as an error. *)
CommitFails ==
    IF X.d = "completed"
    THEN pr' = [pr EXCEPT !["exec"].d = "dead"] /\ UNCHANGED termPub
    ELSE Goto("exec", "done") /\ termPub' = TermPubAfter("exec")

ExecutorCommits(o) ==
    /\ CommitsTerminal("exec", o)
    /\ IF o = "ok"
       THEN /\ pr' = [pr EXCEPT !["exec"].pc = "apply",
                                !["exec"].ids = InputIDsForTurn(X.turn)]
            /\ UNCHANGED termPub
       ELSE CommitFails
    /\ UNCHANGED <<active, executing, live, publishing, lock, transcript, avars>>

ExecutorRefused(o) ==
    /\ TerminalRefused("exec", o)
    /\ CommitFails
    /\ UNCHANGED <<active, executing, live, publishing, lock, transcript, avars>>

(* TurnMessageWithID returns, and a delivery learns what became of its     *)
(* input (ResolvePendingInput).                                            *)
Done ==
    /\ At("exec", "done")
    /\ active' = IF active = X.turn THEN NoTurn ELSE active
    /\ executing' = IF executing = X.turn THEN NoTurn ELSE executing
    /\ ext' = IF X.d = "completed" THEN ext ELSE Retried(X.input, X.src)
    /\ recov' = IF X.src = "recov" /\ recov # <<>> /\ (X.d = "completed" \/ ~Unsettled(X.input))
                THEN Tail(recov) ELSE recov
    /\ Return("exec")
    /\ UNCHANGED <<qvars, termPub, live, publishing, lock, transcript, terminals, faults,
                   up, starts, compacting, maint, admits, usedTurns, arrived>>

-----------------------------------------------------------------------------
(* The steps of the executor that need no one's choice. *)
ExecutorStep ==
    \/ DrainStep("exec") /\ UNCHANGED avars
    \/ \E o \in JournalOutcomes : AdmissionCommitted("exec", o)
    \/ \E o \in Outcomes : Accept("exec", o)
    \/ \E o \in Outcomes : DropAdmission("exec", o)
    \/ \E o \in Outcomes : Unwind("exec", o)
    \/ \E S \in SUBSET {i \in Inputs : Expirable(View[i])}, o \in Outcomes \cup {"journal"} :
          Restore(S, o)
    \/ RestoreTake
    \/ \E o \in Outcomes : MarkAlreadyAdmitted(o)
    \/ \E o \in Outcomes : MarkAlreadyProcessed(o)
    \/ RestoreFails
    \/ \E o \in JournalOutcomes : LateStart(o)
    \/ \E o \in Outcomes : LateMark(o)
    \/ \E o \in JournalOutcomes : RecordStart(o)
    \/ \E o \in Outcomes, blocked \in BOOLEAN : MarkStart(o, blocked)
    \/ Drain
    \/ Release
    \/ ProviderFinishes
    \/ Finish
    \/ Fail
    \/ Terminate
    \/ \E o \in JournalOutcomes : ExecutorCommits(o)
    \/ \E o \in Outcomes \cup JournalOutcomes : ExecutorRefused(o)
    \/ \E o \in Outcomes : ApplyTerminal("exec", o) /\ UNCHANGED avars
    \/ Done

ProviderStep ==
    \/ ProviderContinues
    \/ \E d \in ErrKinds : ProviderFails(d)
    \/ \E d \in ErrKinds : RestoreCancelled(d)

ClaimStep(s) == RefuseClaim(s) \/ Claim(s) \/ \E o \in Outcomes : Reclaim(s, o)

=============================================================================
