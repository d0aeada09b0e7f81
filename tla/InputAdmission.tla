--------------------------- MODULE InputAdmission ---------------------------
(***************************************************************************)
(* How inputs reach a Thread: ReceivePendingInput, DiscardPendingInput,    *)
(* compaction reservation and promotion, and the maintenance fence         *)
(* (internal/framework/runtime/{loop,pending_lifecycle,maintenance}.go),   *)
(* with the Agent's delivery of external and of recovered inputs           *)
(* (internal/framework/agent/pending_recovery.go).                         *)
(***************************************************************************)
EXTENDS TurnDrain

CONSTANTS
    Direct,      \* inputs of users: a fresh identity per submission
    External,    \* inputs of external sources, under an identity they choose
    MaxPending,  \* effectiveMaxPendingInputs
    Operations   \* which of discard, compact, retry, expire, maintain, sync may happen

ASSUME InputsAssumption == Direct \cup External = Inputs /\ Direct \cap External = {}
ASSUME MaxPendingAssumption == MaxPending \in Nat \ {0}

VARIABLES
    up,          \* the Agent process: "down", "reconciled" or "up"
    starts,      \* start actions returned to a caller and not yet executed
    ext,         \* external inputs whose delivery is retried
    recov,       \* the recovered inputs behind the startup barrier
    compacting,  \* the Turn of a compaction in progress
    maint,       \* maintenanceReserved
    admits,      \* journal: messages of durable turn.admitted events
    usedTurns,   \* Turn identities handed out
    arrived      \* user inputs submitted

avars == <<up, starts, ext, recov, compacting, maint, admits, usedTurns, arrived>>

NewTurn == CHOOSE t \in Turns \ usedTurns : TRUE
TurnLeft == usedTurns # Turns
Fresh == CHOOSE i \in Direct \ arrived : TRUE
FreshLeft == ~(Direct \subseteq arrived)

InFlight(i) ==
    \/ \E p \in Procs : pr[p].input = i
    \/ \E s \in starts : s.input = i

(* Entry of an admission handler: transitionMu and pendingLifecycleMu are  *)
(* free and admission is not reserved for maintenance.                     *)
CanReceive == up = "up" /\ At("recv", "idle") /\ lock = "free" /\ ~maint

-----------------------------------------------------------------------------
(* Joining the active Turn *)

(* stagePendingEventLocked: the first announcement opens a window, one     *)
(* made meanwhile is deferred to it.                                       *)
Announce(p, r) ==
    IF publishing
    THEN Return(p) /\ UNCHANGED <<publishing, lock>>
    ELSE pr' = [pr EXCEPT ![p] = r] /\ OpenWindow

Enqueued == [Idle EXCEPT !.pc = "enqueued"]

(* enqueuePendingMessageWithOptions of a user's message. *)
EnqueueNew(o) ==
    /\ CanReceive /\ recov = <<>>
    /\ active # NoTurn /\ termPub = NoTurn
    /\ FreshLeft
    /\ Len(live) < MaxPending
    /\ Enqueue(Fresh, active, o)
    /\ Spend(o)
    /\ arrived' = arrived \cup {Fresh}
    /\ IF o = "ok"
       THEN live' = Append(live, Fresh) /\ Announce("recv", Enqueued)
       ELSE UNCHANGED <<live, publishing, lock, pr>>
    /\ UNCHANGED <<active, executing, termPub, transcript, terminals,
                   up, starts, ext, recov, compacting, maint, admits, usedTurns>>

(* The queue is full: nothing is accepted, the rejection is announced. *)
RejectFull ==
    /\ CanReceive /\ recov = <<>>
    /\ active # NoTurn /\ termPub = NoTurn
    /\ FreshLeft
    /\ Len(live) >= MaxPending
    /\ ~publishing
    /\ Announce("recv", Enqueued)
    /\ UNCHANGED <<qvars, active, executing, termPub, live, transcript, terminals,
                   faults, avars>>

EnqueueAnnounced ==
    /\ At("recv", "enqueued")
    /\ lock = "free"
    /\ publishing' = FALSE
    /\ Return("recv")
    /\ UNCHANGED <<qvars, active, executing, termPub, live, lock, transcript, terminals,
                   faults, avars>>

-----------------------------------------------------------------------------
(* Starting a Turn: admitTurnMessage *)

CanAdmit == termPub = NoTurn /\ ~publishing /\ active = NoTurn /\ TurnLeft

(* The record is stored: the Turn becomes active and turn.admitted is      *)
(* committed in a window.  src says who asked, and whether this admission  *)
(* created the record.                                                     *)
Created(src) == src \in {"direct", "sync"}

Staged(p, i, t, src) ==
    /\ active' = t
    /\ pr' = [pr EXCEPT ![p].pc = "staged", ![p].turn = t, ![p].input = i, ![p].src = src]
    /\ usedTurns' = usedTurns \cup {t}
    /\ OpenWindow

NotStaged == UNCHANGED <<active, pr, usedTurns, publishing, lock>>

(* A user's message through the admission queue, or the synchronous        *)
(* TurnMessage that holds Engine.mu and claims the Turn for itself.        *)
StartNew(p, src, o) ==
    /\ up = "up" /\ lock = "free" /\ ~maint /\ At(p, "idle")
    /\ \/ p = "recv" /\ src = "direct"
       \/ p = "exec" /\ src = "sync" /\ "sync" \in Operations
    /\ recov = <<>>
    /\ CanAdmit /\ FreshLeft
    /\ StageTurnInput(Fresh, NewTurn, o)
    /\ Spend(o)
    /\ arrived' = arrived \cup {Fresh}
    /\ IF o = "ok" THEN Staged(p, Fresh, NewTurn, src) ELSE NotStaged
    /\ UNCHANGED <<executing, termPub, live, transcript, terminals,
                   up, starts, ext, recov, compacting, maint, admits>>

(* The commit of turn.admitted returns. *)
AdmissionCommitted(p, o) ==
    /\ At(p, "staged")
    /\ CloseWindow(p)
    /\ Spend(o)
    /\ admits' = IF Durable(o) THEN admits \cup {pr[p].input} ELSE admits
    /\ Goto(p, IF o = "ok" THEN "accept" ELSE "drop")
    /\ UNCHANGED <<qvars, active, executing, termPub, live, transcript, terminals,
                   up, starts, ext, recov, compacting, maint, usedTurns, arrived>>

StartOf(p) == [turn |-> Turn(p), input |-> pr[p].input, src |-> pr[p].src]

(* The start action goes to the caller, or to the executor that asked. *)
Started(p) ==
    /\ lock' = "free"
    /\ IF p = "recv"
       THEN /\ starts' = starts \cup {StartOf(p)}
            /\ Return(p)
            /\ UNCHANGED executing
       ELSE /\ executing' = IF active = Turn(p) THEN Turn(p) ELSE executing
            /\ Goto(p, "restore")
            /\ UNCHANGED starts
    /\ ext' = ext \ {pr[p].input}

Accept(p, o) ==
    LET i == pr[p].input IN
    /\ At(p, "accept")
    /\ \/ CommitTurnInput(i, Turn(p), o) /\ Spend(o)
       \/ /\ ~CanCommitTurnInput(i, Turn(p)) /\ o = "invalid"
          /\ UNCHANGED <<qvars, faults>>
    /\ IF o = "ok"
       THEN Started(p)
       ELSE /\ pr' = [pr EXCEPT ![p].pc = "drop", ![p].d = "dead"]
            /\ UNCHANGED <<lock, starts, executing, ext>>
    /\ UNCHANGED <<active, termPub, live, publishing, transcript, terminals,
                   up, recov, compacting, maint, admits, usedTurns, arrived>>

(* Mutant of DropAdmission: the record is dropped whoever created it. *)
DropAdmissionAlways(p, o) ==
    /\ At(p, "drop")
    /\ RemoveRecords({pr[p].input}, o) /\ Spend(o)
    /\ pr' = [pr EXCEPT ![p].pc = "preserve", ![p].after = "unwind"]
    /\ UNCHANGED <<active, executing, termPub, live, publishing, lock, transcript,
                   terminals, avars>>

(* A refused admission drops the record it created, preserves what was     *)
(* queued behind it and releases the Turn; if turn.admitted was committed  *)
(* the Turn ends with turn.errored.                                        *)
DropAdmission(p, o) ==
    /\ At(p, "drop")
    /\ IF Created(pr[p].src)
       THEN RemoveRecords({pr[p].input}, o) /\ Spend(o)
       ELSE o = "ok" /\ UNCHANGED <<qvars, faults>>
    /\ pr' = [pr EXCEPT ![p].pc = "preserve", ![p].after = "unwind"]
    /\ UNCHANGED <<active, executing, termPub, live, publishing, lock, transcript,
                   terminals, avars>>

(* restoreRetriedInputs rolls a handoff back that did not start its Turn. *)
RollBackRetry(p, o) ==
    IF pr[p].retried # {}
       /\ \A i \in pr[p].retried : View[i].state = "pending" /\ View[i].turn = NoTurn
    THEN RestoreRetriedInputs(pr[p].retried, pr[p].from, pr[p].kind, o) /\ Spend(o)
    ELSE o = "ok" /\ UNCHANGED <<qvars, faults>>

Unwind(p, o) ==
    /\ At(p, "unwind")
    /\ RollBackRetry(p, o)
    /\ IF pr[p].d = "dead"
       THEN BeginTerminal(p) /\ Goto(p, "commit")
       ELSE /\ active' = IF active = Turn(p) THEN NoTurn ELSE active
            /\ lock' = "free"
            /\ Return(p)
            /\ UNCHANGED termPub
    /\ UNCHANGED <<executing, live, publishing, transcript, terminals, avars>>

(* publishStagedTerminalError *)
ReceiverCommits(o) ==
    /\ CommitsTerminal("recv", o)
    /\ IF o = "ok"
       THEN /\ pr' = [pr EXCEPT !["recv"].pc = "apply",
                                !["recv"].ids = InputIDsForTurn(Turn("recv"))]
            /\ UNCHANGED termPub
       ELSE termPub' = TermPubAfter("recv") /\ Return("recv")
    /\ UNCHANGED <<active, executing, live, publishing, lock, transcript, avars>>

ReceiverRefused(o) ==
    /\ TerminalRefused("recv", o)
    /\ termPub' = TermPubAfter("recv")
    /\ Return("recv")
    /\ UNCHANGED <<active, executing, live, publishing, lock, transcript, avars>>

-----------------------------------------------------------------------------
(* Restart continuation: a system notice that first returns the inputs a   *)
(* restart interrupted to the queue, all under one lifecycle lock.         *)
RetryTurn(t, o) ==
    LET S == RetriableOf(t) IN
    /\ "retry" \in Operations
    /\ CanReceive /\ recov = <<>> /\ FreshLeft
    /\ active = NoTurn
    /\ RetryTurnInputs(t, o)
    /\ Spend(o)
    /\ arrived' = arrived \cup {Fresh}
    /\ IF o = "ok"
       THEN /\ lock' = "recv"
            /\ pr' = [pr EXCEPT !["recv"] = [Idle EXCEPT
                         !.pc = "notice", !.input = Fresh, !.src = "direct", !.retried = S,
                         !.from = t, !.kind = View[CHOOSE i \in S : TRUE].kind]]
       ELSE UNCHANGED <<lock, pr>>
    /\ UNCHANGED <<active, executing, termPub, live, publishing, transcript, terminals,
                   up, starts, ext, recov, compacting, maint, admits, usedTurns>>

StartNotice(o) ==
    LET i == pr["recv"].input
        Refused == Goto("recv", "unwind") /\ UNCHANGED <<active, usedTurns, publishing, lock>>
    IN
    /\ At("recv", "notice")
    /\ IF CanAdmit
       THEN /\ StageTurnInput(i, NewTurn, o)
            /\ Spend(o)
            /\ IF o = "ok" THEN Staged("recv", i, NewTurn, "direct") ELSE Refused
       ELSE /\ o = "ok"
            /\ Refused
            /\ UNCHANGED <<qvars, faults>>
    /\ UNCHANGED <<executing, termPub, live, transcript, terminals,
                   up, starts, ext, recov, compacting, maint, admits, arrived>>

-----------------------------------------------------------------------------
(* External inputs *)

(* Accepted under the identity of their source, and delivered afterwards   *)
(* (DeferDelivery); one the store already holds is accepted as it is.      *)
PersistExternal(i, o) ==
    /\ up = "up" /\ lock = "free" /\ ~maint
    /\ i \in External
    /\ IF Present(i)
       THEN i \notin ext /\ o = "ok" /\ UNCHANGED <<qvars, faults>>
       ELSE Enqueue(i, active, o) /\ Spend(o)
    /\ ext' = IF o = "ok" THEN ext \cup {i} ELSE ext
    /\ UNCHANGED <<active, executing, termPub, live, publishing, lock, pr, transcript,
                   terminals, up, starts, recov, compacting, maint, admits,
                   usedTurns, arrived>>

(* Which persisted inputs are being delivered: an external one once        *)
(* recovery is over, and the first of the recovered ones.                  *)
Deliverable(i) ==
    /\ CanReceive /\ ~InFlight(i) /\ termPub = NoTurn
    /\ IF recov = <<>> THEN i \in ext ELSE i = Head(recov)

Delivered(i) ==
    IF recov = <<>> THEN ext' = ext \ {i} /\ UNCHANGED recov
                    ELSE recov' = Tail(recov) /\ UNCHANGED ext

Source == IF recov = <<>> THEN "ext" ELSE "recov"

(* receivePersistedPendingInput of a record that needs nothing more: gone, *)
(* dead-lettered, or already an input of the active Turn.                  *)
Inert(i) ==
    \/ View[i].state \in {"none", "dead_lettered"}
    \/ /\ View[i].state \in {"admitted", "processed"}
       /\ View[i].turn = active /\ active # NoTurn

QueuedAlready(i) == active # NoTurn /\ Contains(live, i)

ResumeInert(i) ==
    /\ Deliverable(i) /\ (Inert(i) \/ QueuedAlready(i))
    /\ Delivered(i)
    /\ UNCHANGED <<qvars, evars, up, starts, compacting, maint, admits, usedTurns, arrived>>

ResumeExpired(i, o) ==
    /\ "expire" \in Operations
    /\ Deliverable(i) /\ ~Inert(i) /\ Expirable(View[i])
    /\ RemoveRecords({i}, o)
    /\ Spend(o)
    /\ IF o = "ok" THEN Delivered(i) ELSE UNCHANGED <<ext, recov>>
    /\ UNCHANGED <<active, executing, termPub, live, publishing, lock, pr, transcript,
                   terminals, up, starts, compacting, maint, admits, usedTurns, arrived>>

(* enqueuePersistedPendingMessage.  A full queue leaves the record to be   *)
(* delivered later.                                                        *)
ResumeJoins(i) ==
    /\ Deliverable(i) /\ ~Inert(i) /\ ~QueuedAlready(i)
    /\ active # NoTurn /\ Len(live) < MaxPending
    /\ live' = Append(live, i)
    /\ Announce("recv", Enqueued)
    /\ Delivered(i)
    /\ UNCHANGED <<qvars, active, executing, termPub, transcript, terminals, faults,
                   up, starts, compacting, maint, admits, usedTurns, arrived>>

(* admitTurnMessage of the stored message.  One this process has settled   *)
(* before is refused, and its delivery is retried.                         *)
ResumeStarts(i) ==
    /\ Deliverable(i) /\ ~Inert(i)
    /\ CanAdmit /\ CanRestage(i)
    /\ Staged("recv", i, NewTurn, Source)
    /\ UNCHANGED <<qvars, executing, termPub, live, transcript, terminals, faults,
                   up, starts, ext, recov, compacting, maint, admits, arrived>>

-----------------------------------------------------------------------------
(* Compaction holds a Turn of its own; what is queued meanwhile is         *)
(* promoted into a Turn when it ends.                                      *)

ReserveCompaction ==
    /\ "compact" \in Operations
    /\ CanReceive /\ recov = <<>> /\ compacting = NoTurn
    /\ CanAdmit
    /\ active' = NewTurn
    /\ usedTurns' = usedTurns \cup {NewTurn}
    /\ pr' = [pr EXCEPT !["recv"] = [Idle EXCEPT !.pc = "reserving", !.turn = NewTurn]]
    /\ OpenWindow
    /\ UNCHANGED <<qvars, executing, termPub, live, transcript, terminals, faults,
                   up, starts, ext, recov, compacting, maint, admits, arrived>>

CompactionReserved(o) ==
    /\ At("recv", "reserving")
    /\ lock = "free" /\ publishing' = FALSE
    /\ Spend(o)
    /\ IF o = "ok"
       THEN compacting' = Turn("recv") /\ Return("recv") /\ UNCHANGED lock
       ELSE /\ lock' = "recv"
            /\ pr' = [pr EXCEPT !["recv"].pc = "preserve", !["recv"].after = "unwind"]
            /\ UNCHANGED compacting
    /\ UNCHANGED <<qvars, active, executing, termPub, live, transcript, terminals,
                   up, starts, ext, recov, maint, admits, usedTurns, arrived>>

(* promotePendingInputTurn refuses while an event is being published, and  *)
(* finishCompact ends the compaction all the same.                         *)
PromotionRefused ==
    /\ CanReceive /\ compacting # NoTurn
    /\ termPub # NoTurn \/ publishing
    /\ compacting' = NoTurn
    /\ UNCHANGED <<qvars, evars, up, starts, ext, recov, maint, admits, usedTurns, arrived>>

(* Mutant of FinishCompaction: with nothing queued the Turn stays active. *)
FinishCompactionKeepsTurn ==
    /\ CanReceive /\ compacting # NoTurn
    /\ termPub = NoTurn /\ ~publishing
    /\ compacting' = NoTurn
    /\ UNCHANGED <<qvars, evars, up, starts, ext, recov, maint, admits, usedTurns, arrived>>

FinishCompaction ==
    /\ CanReceive /\ compacting # NoTurn
    /\ termPub = NoTurn /\ ~publishing
    /\ compacting' = NoTurn
    /\ IF active # compacting \/ live = <<>>
       THEN /\ active' = IF active = compacting THEN NoTurn ELSE active
            /\ UNCHANGED <<pr, publishing, lock, usedTurns>>
       ELSE /\ TurnLeft
            /\ active' = NewTurn
            /\ usedTurns' = usedTurns \cup {NewTurn}
            /\ pr' = [pr EXCEPT !["recv"] = [Idle EXCEPT !.pc = "promoting",
                         !.turn = NewTurn, !.input = Head(live), !.src = "direct"]]
            /\ OpenWindow
    /\ UNCHANGED <<qvars, executing, termPub, live, transcript, terminals, faults,
                   up, starts, ext, recov, maint, admits, arrived>>

PromotionCommitted(o) ==
    /\ At("recv", "promoting")
    /\ CloseWindow("recv")
    /\ Spend(o)
    /\ admits' = IF Durable(o) THEN admits \cup {pr["recv"].input} ELSE admits
    /\ pr' = [pr EXCEPT !["recv"].pc = IF o = "ok" THEN "promote" ELSE "preserveRest",
                        !["recv"].after = "unwind"]
    /\ UNCHANGED <<qvars, active, executing, termPub, live, transcript, terminals,
                   up, starts, ext, recov, compacting, maint, usedTurns, arrived>>

Promote(o) ==
    /\ At("recv", "promote")
    /\ PromoteToTurnInput(pr["recv"].input, Turn("recv"), o)
    /\ Spend(o)
    /\ IF o = "ok"
       THEN live' = Tail(live) /\ Goto("recv", "promoted") /\ OpenWindow
       ELSE /\ pr' = [pr EXCEPT !["recv"].pc = "preserveRest", !["recv"].d = "dead"]
            /\ UNCHANGED <<live, publishing, lock>>
    /\ UNCHANGED <<active, executing, termPub, transcript, terminals, avars>>

PromotionAnnounced ==
    /\ At("recv", "promoted")
    /\ lock = "free" /\ publishing' = FALSE
    /\ starts' = starts \cup {StartOf("recv")}
    /\ Return("recv")
    /\ UNCHANGED <<qvars, active, executing, termPub, live, lock, transcript, terminals,
                   faults, up, ext, recov, compacting, maint, admits, usedTurns, arrived>>

(* preservePendingInputAfterFailedPromotionLocked keeps the trigger queued *)
(* and commits the rest as one batch.                                      *)
PreserveRest(o) ==
    /\ At("recv", "preserveRest")
    /\ Spend(o)
    /\ IF active # Turn("recv") \/ Len(live) <= 1 \/ o # "ok"
       THEN /\ o # "ok" => active = Turn("recv") /\ Len(live) > 1
            /\ Goto("recv", "unwind")
            /\ UNCHANGED <<live, publishing, lock>>
       ELSE /\ pr' = [pr EXCEPT !["recv"].pc = "window", !["recv"].batch = Tail(live),
                                !["recv"].next = "preserveRest", !["recv"].after = "unwind"]
            /\ live' = <<Head(live)>>
            /\ OpenWindow
    /\ UNCHANGED <<qvars, active, executing, termPub, transcript, terminals, avars>>

-----------------------------------------------------------------------------
(* DiscardPendingInput: a source withdraws an input it has delivered. *)

CanDiscard(i) ==
    /\ "discard" \in Operations
    /\ up = "up" /\ At("disc", "idle") /\ lock = "free"
    /\ ~publishing
    /\ i \in External /\ Present(i)

(* The record admitted a Turn that is active; its start may be unexecuted. *)
Triggers(i) ==
    /\ TurnOrigin(i) /\ View[i].state = "admitted"
    /\ View[i].turn = active /\ active # NoTurn

DiscardQueued(i, o) ==
    /\ CanDiscard(i) /\ ~Triggers(i)
    /\ RemoveRecords({i}, o)
    /\ Spend(o)
    /\ IF o = "ok"
       THEN /\ live' = SelectSeq(live, LAMBDA j : j # i)
            /\ ext' = ext \ {i}
            /\ IF Contains(live, i)
               THEN Announce("disc", [Idle EXCEPT !.pc = "dropped"])
               ELSE UNCHANGED <<pr, publishing, lock>>
       ELSE UNCHANGED <<live, ext, pr, publishing, lock>>
    /\ UNCHANGED <<active, executing, termPub, transcript, terminals,
                   up, starts, recov, compacting, maint, admits, usedTurns, arrived>>

DropAnnounced ==
    /\ At("disc", "dropped")
    /\ lock = "free" /\ publishing' = FALSE
    /\ Return("disc")
    /\ UNCHANGED <<qvars, active, executing, termPub, live, lock, transcript, terminals,
                   faults, avars>>

(* The Turn was started for the input but is not executing: what is queued *)
(* behind it is drained and the Turn is cancelled.                         *)
DiscardStarted(i) ==
    /\ CanDiscard(i) /\ Triggers(i) /\ executing # active
    /\ lock' = "disc"
    /\ live' = SelectSeq(live, LAMBDA j : j # i)
    /\ ext' = ext \ {i}
    /\ pr' = [pr EXCEPT !["disc"] = [Idle EXCEPT !.pc = "cancelling", !.turn = active,
                                                !.input = i, !.d = "cancelled"]]
    /\ UNCHANGED <<qvars, active, executing, termPub, publishing, transcript, terminals,
                   faults, up, starts, recov, compacting, maint, admits, usedTurns, arrived>>

CancelStarted ==
    /\ At("disc", "cancelling")
    /\ IF active = Turn("disc") /\ live # <<>>
       THEN DrainLive("disc", "cancelling", "cancelFails") /\ UNCHANGED <<active, termPub>>
       ELSE BeginTerminal("disc") /\ Goto("disc", "commit") /\ UNCHANGED <<live, publishing>>
    /\ UNCHANGED <<qvars, executing, transcript, terminals, faults, avars>>

CancelFails ==
    /\ At("disc", "cancelFails")
    /\ lock' = "free"
    /\ Return("disc")
    /\ UNCHANGED <<qvars, active, executing, termPub, live, publishing, transcript,
                   terminals, faults, avars>>

(* Mutant of RollBackTerminal: the terminal publication stays reserved. *)
RollBackTerminalLeaks ==
    /\ lock = "free"
    /\ active' = IF active = NoTurn THEN Turn("disc") ELSE active
    /\ termPub' = termPub
    /\ Return("disc")

(* rollbackTerminalPublication: the Turn is active again. *)
RollBackTerminal ==
    /\ lock = "free"
    /\ active' = IF active = NoTurn THEN Turn("disc") ELSE active
    /\ termPub' = TermPubAfter("disc")
    /\ Return("disc")

DiscardCommits(o) ==
    /\ CommitsTerminal("disc", o)
    /\ IF o = "ok"
       THEN /\ pr' = [pr EXCEPT !["disc"].pc = "apply",
                                !["disc"].ids = InputIDsForTurn(Turn("disc"))]
            /\ UNCHANGED <<active, termPub>>
       ELSE RollBackTerminal
    /\ UNCHANGED <<executing, live, publishing, lock, transcript, avars>>

DiscardRefused(o) ==
    /\ TerminalRefused("disc", o)
    /\ RollBackTerminal
    /\ UNCHANGED <<executing, live, publishing, lock, transcript, avars>>

-----------------------------------------------------------------------------
(* ReserveIdleMaintenance *)

(* Mutant of ReserveMaintenance: Engine.mu is not tried. *)
ReserveMaintenanceUnlocked ==
    /\ "maintain" \in Operations
    /\ up = "up" /\ lock = "free" /\ ~maint
    /\ active = NoTurn /\ live = <<>> /\ ~publishing
    /\ \A i \in Inputs : View[i].state \in {"none", "processed", "dead_lettered"}
    /\ maint' = TRUE
    /\ UNCHANGED <<qvars, evars, up, starts, ext, recov, compacting, admits, usedTurns, arrived>>

ReserveMaintenance ==
    /\ "maintain" \in Operations
    /\ up = "up" /\ lock = "free" /\ ~maint
    /\ At("exec", "idle")
    /\ active = NoTurn /\ live = <<>> /\ ~publishing
    /\ \A i \in Inputs : View[i].state \in {"none", "processed", "dead_lettered"}
    /\ maint' = TRUE
    /\ UNCHANGED <<qvars, evars, up, starts, ext, recov, compacting, admits, usedTurns, arrived>>

ReleaseMaintenance ==
    /\ maint /\ lock = "free"
    /\ maint' = FALSE
    /\ UNCHANGED <<qvars, evars, up, starts, ext, recov, compacting, admits, usedTurns, arrived>>

-----------------------------------------------------------------------------
AdmissionInit ==
    /\ up = "up"
    /\ starts = {}
    /\ ext = {}
    /\ recov = <<>>
    /\ compacting = NoTurn
    /\ maint = FALSE
    /\ admits = {}
    /\ usedTurns = {}
    /\ arrived = {}

(* The calls the environment makes. *)
Calls ==
    \/ \E o \in Outcomes : EnqueueNew(o)
    \/ RejectFull
    \/ \E p \in {"recv", "exec"}, src \in {"direct", "sync"}, o \in Outcomes : StartNew(p, src, o)
    \/ \E t \in Turns, o \in Outcomes : RetryTurn(t, o)
    \/ \E i \in External, o \in Outcomes : PersistExternal(i, o)
    \/ ReserveCompaction
    \/ \E i \in External, o \in Outcomes : DiscardQueued(i, o)
    \/ \E i \in External : DiscardStarted(i)
    \/ ReserveMaintenance
    \/ ReleaseMaintenance

Deliver(i) ==
    \/ ResumeInert(i)
    \/ \E o \in Outcomes : ResumeExpired(i, o)
    \/ ResumeJoins(i)
    \/ ResumeStarts(i)

EndCompaction == PromotionRefused \/ FinishCompaction

ReceiverStep ==
    \/ DrainStep("recv") /\ UNCHANGED avars
    \/ EnqueueAnnounced
    \/ \E o \in JournalOutcomes : AdmissionCommitted("recv", o)
    \/ \E o \in Outcomes : Accept("recv", o)
    \/ \E o \in Outcomes : DropAdmission("recv", o)
    \/ \E o \in Outcomes : Unwind("recv", o)
    \/ \E o \in Outcomes : StartNotice(o)
    \/ \E o \in JournalOutcomes : ReceiverCommits(o)
    \/ \E o \in Outcomes \cup JournalOutcomes : ReceiverRefused(o)
    \/ \E o \in Outcomes : ApplyTerminal("recv", o) /\ UNCHANGED avars
    \/ \E o \in JournalOutcomes : CompactionReserved(o)
    \/ \E o \in JournalOutcomes : PromotionCommitted(o)
    \/ \E o \in Outcomes : Promote(o)
    \/ PromotionAnnounced
    \/ \E o \in {"ok", "journal"} : PreserveRest(o)

DiscardStep ==
    \/ DrainStep("disc") /\ UNCHANGED avars
    \/ DropAnnounced
    \/ CancelStarted
    \/ CancelFails
    \/ \E o \in JournalOutcomes : DiscardCommits(o)
    \/ \E o \in Outcomes \cup JournalOutcomes : DiscardRefused(o)
    \/ \E o \in Outcomes : ApplyTerminal("disc", o) /\ UNCHANGED avars

=============================================================================
