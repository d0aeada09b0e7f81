---------------------------- MODULE ThreadRuntime ----------------------------
(***************************************************************************)
(* One Thread and its Agent process: admission, execution and discard run  *)
(* concurrently over one store and one journal, and the process may end    *)
(* between any two durable writes.  A new process reconciles the store     *)
(* with the journal and redelivers what it still owes behind a barrier     *)
(* (Agent.RestoreAndActivate, Engine.RecoverPendingInputs).                *)
(***************************************************************************)
EXTENDS TurnExecution

CONSTANT MaxCrashes   \* bound: how often the process ends

ASSUME MaxCrashesAssumption == MaxCrashes \in Nat

VARIABLE crashes      \* bound: how often it has ended

vars == <<qvars, evars, avars, crashes>>

-----------------------------------------------------------------------------
(* Crash and restart *)

(* The process ends.  The document, the transcript and the journal remain; *)
(* Engine and Agent state is gone.                                         *)
Crash ==
    /\ up = "up" /\ crashes < MaxCrashes
    /\ ProcessEnds
    /\ active' = NoTurn /\ executing' = NoTurn /\ termPub' = NoTurn
    /\ live' = <<>> /\ publishing' = FALSE /\ lock' = "free"
    /\ pr' = [p \in Procs |-> Idle]
    /\ up' = "down"
    /\ starts' = {} /\ ext' = {} /\ recov' = <<>>
    /\ compacting' = NoTurn /\ maint' = FALSE
    /\ crashes' = crashes + 1
    /\ UNCHANGED <<transcript, terminals, faults, admits, usedTurns, arrived>>

(* RecoverPendingInputs in a new process, first half.  A store that cannot *)
(* be reconciled fails the startup, which is then tried again.             *)
Reconcile(o) ==
    /\ up = "down"
    /\ ReconcileRecoveryFacts(admits, o)
    /\ Spend(o)
    /\ up' = IF o = "ok" THEN "reconciled" ELSE "down"
    /\ UNCHANGED <<active, executing, termPub, live, publishing, lock, pr, transcript,
                   terminals, starts, ext, recov, compacting, maint, admits, usedTurns,
                   arrived, crashes>>

(* Second half: the replayable records go behind the startup barrier. *)
Activate(S, o) ==
    /\ up = "reconciled"
    /\ S # {} => "expire" \in Operations
    /\ Expire(S, o)
    /\ Spend(o)
    /\ up' = IF o = "ok" THEN "up" ELSE "down"
    /\ recov' = IF o = "ok" THEN ReplayOrder(S) ELSE recov
    /\ UNCHANGED <<active, executing, termPub, live, publishing, lock, pr, transcript,
                   terminals, starts, ext, compacting, maint, admits, usedTurns,
                   arrived, crashes>>

Restart ==
    \/ \E o \in Outcomes : Reconcile(o)
    \/ \E S \in SUBSET {i \in Inputs : Expirable(View[i])}, o \in Outcomes : Activate(S, o)

-----------------------------------------------------------------------------
Init ==
    /\ QInit
    /\ EngineInit
    /\ AdmissionInit
    /\ crashes = 0

Live(A) == A /\ UNCHANGED crashes

Next ==
    \/ Live(Calls)
    \/ \E i \in Inputs : Live(Deliver(i))
    \/ Live(EndCompaction)
    \/ Live(ReceiverStep)
    \/ Live(DiscardStep)
    \/ \E s \in starts : Live(ClaimStep(s))
    \/ Live(ExecutorStep)
    \/ Live(ProviderStep)
    \/ Crash
    \/ Restart

Spec == Init /\ [][Next]_vars

(* Goroutines are scheduled fairly and a mutex or a poll that can succeed  *)
(* again and again succeeds; a stopped process is started again; a model   *)
(* that may finish its answer again and again finishes it.                 *)
Fairness ==
    /\ WF_vars(Live(ReceiverStep))
    /\ WF_vars(Live(DiscardStep))
    /\ WF_vars(Live(ExecutorStep))
    /\ SF_vars(Live(ProviderFinishes))
    /\ \A i \in Inputs : SF_vars(Live(Deliver(i)))
    /\ \A t \in Turns : SF_vars(\E s \in starts : s.turn = t /\ Live(ClaimStep(s)))
    /\ SF_vars(Live(EndCompaction))
    /\ WF_vars(Live(ReleaseMaintenance))
    /\ WF_vars(Restart)

FairSpec == Spec /\ Fairness


-----------------------------------------------------------------------------
(* Properties *)

Pcs == {"idle", "window", "admit", "append", "process", "drained", "take", "preserve",
        "commit", "apply", "done", "enqueued", "staged", "accept", "drop", "unwind",
        "notice", "reserving", "promoting", "promote", "promoted", "preserveRest",
        "dropped", "cancelling", "cancelFails", "restore", "restoreTake", "mark",
        "markDone", "restoreFail", "lateStart", "lateMark", "start", "startMark", "loop",
        "iterate", "drainFail", "provider", "finish", "fail", "terminal"}

Sources == {"none", "direct", "sync", "ext", "recov"}
Over(S, s) == ToSet(s) \subseteq S
MaybeTurn == Turns \cup {NoTurn}
MaybeInput == Inputs \cup {NoInput}

ProcOK(r) ==
    /\ r.pc \in Pcs /\ r.next \in Pcs /\ r.after \in Pcs
    /\ r.turn \in MaybeTurn /\ r.from \in MaybeTurn
    /\ r.input \in MaybeInput /\ r.src \in Sources
    /\ Over(Inputs, r.todo) /\ Over(Inputs, r.batch)
    /\ r.already \subseteq Inputs /\ r.ids \subseteq Inputs /\ r.retried \subseteq Inputs
    /\ r.d \in Dispositions \cup {"none"}
    /\ r.kind \in {"none", "retry", "restart"}

(* Every variable of the Thread keeps its type; the lifecycle lock is held *)
(* by no one or by one of the three goroutines.                            *)
TypeOK ==
    /\ QTypeOK
    /\ {active, executing, termPub, compacting} \subseteq MaybeTurn
    /\ Over(Inputs, live) /\ Over(Inputs, transcript) /\ Over(Inputs, recov)
    /\ {publishing, maint} \subseteq BOOLEAN
    /\ lock \in Procs \cup {"free"}
    /\ \A p \in Procs : ProcOK(pr[p])
    /\ \A t \in Turns : Over(Dispositions, terminals[t])
    /\ faults \in 0 .. MaxFaults /\ crashes \in 0 .. MaxCrashes
    /\ up \in {"down", "reconciled", "up"}
    /\ \A s \in starts : s.turn \in Turns /\ s.input \in Inputs /\ s.src \in Sources
    /\ ext \subseteq Inputs /\ admits \subseteq Inputs /\ arrived \subseteq Direct
    /\ usedTurns \subseteq Turns

(* ---- What one live process guarantees *)

(* A Turn has an owner that will end it: the compaction it was reserved    *)
(* for, a start action not yet claimed, or a goroutine.                    *)
TurnOwned(t) ==
    \/ compacting = t
    \/ \E s \in starts : s.turn = t
    \/ \E p \in Procs : Turn(p) = t

(* Somebody is responsible for a record: it is queued behind a Turn that   *)
(* has an owner, behind the startup barrier, being drained, restored or    *)
(* started, its delivery is retried, or it belongs to a Turn that is       *)
(* active, executing or ending and has an owner.                           *)
Owned(i) ==
    \/ Contains(live, i) /\ active # NoTurn /\ TurnOwned(active)
    \/ Contains(recov, i)
    \/ i \in ext \/ InFlight(i)
    \/ \E p \in Procs : Contains(pr[p].batch \o pr[p].todo, i) \/ i \in pr[p].already
    \/ /\ View[i].turn # NoTurn /\ View[i].turn \in {active, executing, termPub}
       /\ TurnOwned(View[i].turn)

(* The active Turn has lost its owner, and the record belongs to it or is  *)
(* queued behind it (TurnKeepsOwner says how a Turn comes to that).        *)
Stranded(i) ==
    /\ active # NoTurn /\ ~TurnOwned(active)
    /\ Contains(live, i) \/ View[i].turn = active

(* While every write succeeds, whatever the order of admissions,           *)
(* executions, discards and restarts, a record that waits to be executed   *)
(* is in the hands of some goroutine of the running process.  The code has *)
(* one exception, and it is named: the records of an active Turn that lost *)
(* its owner wait for the next process.                                    *)
NoOrphan ==
    up = "up" =>
        \A i \in Inputs :
            View[i].state \in {"accepting", "pending", "admitted", "processed"} =>
                Owned(i) \/ Stranded(i)

(* The active Turn loses its owner in two ways only: its start action is   *)
(* refused, or its compaction ends while an event or a terminal record is  *)
(* being published (FinishPendingInputCompaction returns                   *)
(* ErrActiveTurnExists).  No other step of an admission, a drain, a        *)
(* discard, an execution or a failure of one leaves a Turn active that     *)
(* nobody will end.                                                        *)
TurnKeepsOwner ==
    [][active # NoTurn /\ TurnOwned(active) /\ active' # NoTurn =>
          \/ TurnOwned(active)'
          \/ \E s \in starts \ starts' : s.turn = active
          \/ compacting = active /\ (publishing \/ termPub # NoTurn)]_vars

(* A Turn has at most one terminal record in the journal, also when its    *)
(* start is discarded or claimed late, or the process ends meanwhile; once *)
(* the publication of that record is over the store holds no Input as an   *)
(* attempt of that Turn: none is stuck as admitted or processed for a Turn *)
(* that has ended, before or after a restart.                              *)
TurnsEndOnce ==
    /\ \A t \in Turns : Len(terminals[t]) <= 1
    /\ up = "up" =>
           \A i \in Inputs, t \in Turns :
               terminals[t] # <<>> /\ termPub # t /\ View[i].turn = t =>
                   View[i].state \notin {"admitted", "processed"}

(* ReserveIdleMaintenance: while admission is reserved no Turn is active,  *)
(* nothing is queued and no executor runs, whichever call raced with the   *)
(* reservation.                                                            *)
MaintenanceExclusive ==
    maint => active = NoTurn /\ live = <<>> /\ At("exec", "idle")

InWindow(p) ==
    pr[p].pc \in {"window", "drained", "enqueued", "staged", "reserving", "promoting",
                  "promoted", "dropped"}

(* The two reservations that make other goroutines wait or retry are never *)
(* leaked: an event publication is open only while a goroutine is inside   *)
(* it, a terminal publication only while a goroutine commits or applies    *)
(* the terminal record of that Turn, on every error path.                  *)
ReservationsOwned ==
    /\ publishing => \E p \in Procs : InWindow(p)
    /\ termPub # NoTurn =>
           \E p \in Procs : Turn(p) = termPub /\ pr[p].pc \in {"commit", "apply"}

-----------------------------------------------------------------------------
(* ---- What survives failed writes and restarts *)

Times(i, s) == Len(SelectSeq(s, LAMBDA j : j = i))

(* "A completed Input is not executed again" (ARCHITECTURE.md): once a     *)
(* terminal record says an Input completed or was cancelled, no execution  *)
(* appends it to the transcript, whatever restarts and retries follow.     *)
CompletedNotExecutedAgain ==
    [][\A i \in Inputs : fate[i] \in Final => Times(i, transcript') = Times(i, transcript)]_vars

(* The deadline of a pending Input has passed. *)
Lapses(i) == View[i].state = "pending" /\ "expire" \in Operations /\ Expirable(View[i])

(* The source withdraws an Input it delivered: no lifecycle transition is  *)
(* under way, and the Input is not the one that started the active Turn.   *)
(* No Turn ends by that and nothing is written to the journal.             *)
Withdrawn(i) ==
    /\ i \in External /\ "discard" \in Operations
    /\ lock = "free" /\ ~publishing /\ ~Triggers(i)
    /\ UNCHANGED <<active, transcript, terminals>>

(* An accepted Input leaves the store by a final terminal record of its    *)
(* Turn, while it is pending by its deadline, or withdrawn by its source,  *)
(* and in no other way: by no failed write, refused call or restart.  The  *)
(* code is wider than ARCHITECTURE.md:188-192, where an explicit discard   *)
(* removes an Input only "while pending": DiscardPendingInput removes one  *)
(* a running Turn has drained as well.                                     *)
LeavesByRule ==
    [][\A i \in accepted \ accepted' : fate'[i] \in Final \/ Lapses(i) \/ Withdrawn(i)]_vars

(* What the disk and the journal say of an Input is its status in the      *)
(* abstract inbox, the transcript is its log.                              *)
InboxStatus ==
    [i \in Inputs |-> IF fate[i] \in Final THEN "done"
                      ELSE IF Recovered[i].state = "none" THEN "out" ELSE "held"]
Inbox == INSTANCE DurableInbox WITH status <- InboxStatus, log <- transcript

(* The Thread implements the durable inbox: an Input is executed only      *)
(* while the disk holds it, a settled Input stays settled, and the         *)
(* transcript only grows (DurableInbox).                                   *)
ImplementsInbox == Inbox!InboxSpec

(* "Accepted Inputs are persisted before admission" (ARCHITECTURE.md): a   *)
(* message enters the transcript only while its record is on disk.         *)
ExecutionIsBacked ==
    [][\A i \in Inputs :
          Times(i, transcript') > Times(i, transcript) => InboxStatus[i] = "held"]_vars

(* RetryTurnInputs "returns every runtime-interrupted Input from one       *)
(* consuming Turn to pending state": it is still pending when the document *)
(* is loaded again.                                                        *)
RetriedStaysPending ==
    \A i \in Inputs : doc[i].state = "pending" => Recovered[i].state = "pending"

-----------------------------------------------------------------------------
(* ---- Progress *)

(* A Turn that is active has an owner that will end it (TurnOwned). *)
ActiveTurnOwned == active # NoTurn => TurnOwned(active)

(* Every accepted Input is eventually settled, unless a Turn is left       *)
(* without an owner (see ActiveTurnOwned): it completes, is withdrawn, or  *)
(* its Turn fails and leaves it dead-lettered or retryable.                *)
AcceptedSettles ==
    \A i \in Inputs :
        i \in accepted ~> \/ i \notin accepted
                          \/ View[i].state \in {"dead_lettered", "retryable"}
                          \/ ~ActiveTurnOwned

=============================================================================
