------------------------------ MODULE TurnDrain ------------------------------
(***************************************************************************)
(* The Engine of one Thread (internal/framework/runtime/loop.go): the      *)
(* state its goroutines share, and the procedures all of them use to move  *)
(* queued inputs into the transcript and to end a Turn.                    *)
(*                                                                         *)
(* Three goroutines are told apart:                                        *)
(*   "recv"  the one admission handler that holds transitionMu;            *)
(*   "disc"  a DiscardPendingInput call;                                   *)
(*   "exec"  the one executor that holds Engine.mu.                        *)
(* lock is pendingLifecycleMu.  emitPendingLifecycleEvent releases it      *)
(* while an event is committed and projected: such a window is a pc at     *)
(* which the goroutine holds no lock and publishing (the flags             *)
(* pendingEventPublishing and pendingEventAnnouncing, which are set and    *)
(* cleared together) is TRUE.  Each durable write is a step of its own, so *)
(* the process can end between any two of them.                            *)
(***************************************************************************)
EXTENDS PendingInputQueue, SequencesExt

CONSTANTS
    NoInput,    \* no input at hand
    Faults,     \* which of write, count, journal, late may happen
    MaxFaults   \* bound: how many of them

ASSUME NoInputAssumption == NoInput \notin Inputs
ASSUME FaultsAssumption ==
    Faults \subseteq {"write", "count", "journal", "late"} /\ MaxFaults \in Nat

VARIABLES
    active,      \* activeTurnID
    executing,   \* executingTurnID
    termPub,     \* terminalPublishing
    live,        \* pendingInput, the live queue
    publishing,  \* pendingEventPublishing / pendingEventAnnouncing
    lock,        \* the holder of pendingLifecycleMu, or "free"
    pr,          \* the goroutines
    transcript,  \* the messages appended to the Thread, in order
    terminals,   \* journal: the terminal dispositions committed per Turn
    faults       \* bound: faults so far

evars == <<active, executing, termPub, live, publishing, lock, pr, transcript,
           terminals, faults>>

Procs == {"recv", "disc", "exec"}

(* A goroutine between two calls. *)
Idle == [pc |-> "idle", turn |-> NoTurn, input |-> NoInput, src |-> "none",
         todo |-> <<>>, batch |-> <<>>, next |-> "idle", after |-> "idle",
         already |-> {}, ids |-> {}, d |-> "none",
         retried |-> {}, from |-> NoTurn, kind |-> "none"]

At(p, pc) == pr[p].pc = pc
Turn(p) == pr[p].turn
Goto(p, pc) == pr' = [pr EXCEPT ![p].pc = pc]
Return(p) == pr' = [pr EXCEPT ![p] = Idle]

-----------------------------------------------------------------------------
(* Faults *)

Spend(o) ==
    IF o \in {"ok", "invalid"}
    THEN UNCHANGED faults
    ELSE o \in Faults /\ faults < MaxFaults /\ faults' = faults + 1

(* A journal commit: "journal" fails with nothing written; "late" is the   *)
(* refresh of the Agent index failing after the facts and the Thread's     *)
(* metadata are durable, which the caller sees as a failed commit.         *)
JournalOutcomes == {"ok", "journal", "late"}
Durable(o) == o \in {"ok", "late"}

-----------------------------------------------------------------------------
(* Windows *)

OpenWindow ==
    /\ publishing' = TRUE
    /\ lock' = "free"

(* finishPendingEventPublication clears the flag whoever has set it. *)
CloseWindow(p) ==
    /\ lock = "free"
    /\ lock' = p
    /\ publishing' = FALSE

-----------------------------------------------------------------------------
(* Draining: a batch of inputs is announced, marked as admitted, appended  *)
(* to the transcript and marked as processed.                              *)

Transcribed(i) == \E k \in DOMAIN transcript : transcript[k] = i
Untranscribed(s) == SelectSeq(s, LAMBDA i : ~Transcribed(i))
TurnOrigin(i) == View[i].origin = "turn"

(* Mutant of ReplayOrder: the slice is made with a length, then appended   *)
(* to, so it starts with a zero value.                                     *)
ReplayOrderZeroValue(S) ==
    <<NoInput>> \o SetToSortSeq(ReplaySet(S), LAMBDA i, j : View[i].at < View[j].at)

(* Replayable, in the document's order. *)
ReplayOrder(S) == SetToSortSeq(ReplaySet(S), LAMBDA i, j : View[i].at < View[j].at)

Concat(s, t) == s \o SelectSeq(t, LAMBDA i : ~Contains(s, i))

(* commitPendingInputSequenceLocked: an input that started a Turn before   *)
(* is a batch of its own, other inputs go together.                        *)
FirstBatch(s) ==
    LET k == SelectInSeq(s, TurnOrigin)
    IN  IF k = 0 THEN s
        ELSE IF k = 1 THEN <<Head(s)>> ELSE SubSeq(s, 1, k - 1)

(* The goroutine at the window of its next batch; next is where it goes    *)
(* when the sequence s is drained, after where it goes on a failure.       *)
Draining(r, s, next, after) ==
    [r EXCEPT !.pc = "window", !.batch = FirstBatch(s),
              !.todo = SubSeq(s, Len(FirstBatch(s)) + 1, Len(s)),
              !.next = next, !.after = after]

(* drainPendingInputLifecycleLocked: the live queue becomes the sequence.  *)
DrainLive(p, next, after) ==
    /\ live' = <<>>
    /\ IF live = <<>>
       THEN Goto(p, next) /\ UNCHANGED <<publishing, lock>>
       ELSE pr' = [pr EXCEPT ![p] = Draining(@, live, next, after)] /\ OpenWindow

(* prependPendingInput, or restorePendingInputAfterPromotionTrigger when   *)
(* the trigger of a promotion is still in the queue.                       *)
Requeued(p) ==
    LET s == pr[p].batch \o pr[p].todo
    IN  IF pr[p].next = "preserveRest" /\ live # <<>>
        THEN <<Head(live)>> \o s \o Tail(live)
        ELSE Concat(s, live)

DrainFails(p) ==
    /\ live' = Requeued(p)
    /\ pr' = [pr EXCEPT ![p].pc = pr[p].after, ![p].batch = <<>>, ![p].todo = <<>>]

(* beginPendingInputDrain returns. *)
Announced(p) ==
    /\ At(p, "window")
    /\ CloseWindow(p)
    /\ Goto(p, "admit")
    /\ UNCHANGED <<qvars, active, executing, termPub, live, transcript, terminals, faults>>

Admit(p, o) ==
    /\ At(p, "admit")
    /\ MarkAdmitted(ToSet(pr[p].batch), Turn(p), o)
    /\ Spend(o)
    /\ IF o = "ok" THEN Goto(p, "append") /\ UNCHANGED live ELSE DrainFails(p)
    /\ UNCHANGED <<active, executing, termPub, publishing, lock, transcript, terminals>>

(* The messages of a batch are appended one by one; n of them before the   *)
(* append that fails.                                                      *)
AppendBatch(p, o, n) ==
    LET new == Untranscribed(pr[p].batch) IN
    /\ At(p, "append")
    /\ Spend(o)
    /\ IF o = "ok"
       THEN /\ n = Len(new)
            /\ Goto(p, "process") /\ UNCHANGED live
       ELSE /\ n \in (IF o = "late" THEN 1 .. Len(new) ELSE 0 .. Len(new) - 1)
            /\ DrainFails(p)
    /\ transcript' = transcript \o SubSeq(new, 1, n)
    /\ UNCHANGED <<qvars, active, executing, termPub, publishing, lock, terminals>>

(* Where a goroutine continues after a batch. *)
BatchDone(r) ==
    IF r.next = "restoreTake" \/ r.todo = <<>>
    THEN [r EXCEPT !.pc = r.next, !.batch = <<>>]
    ELSE [r EXCEPT !.pc = "take", !.batch = <<>>]

(* A recovered input that had started a Turn is restored without draining  *)
(* events.                                                                 *)
Silent(p) == pr[p].next = "restoreTake" /\ TurnOrigin(Head(pr[p].batch))

(* MarkProcessed, then finishPendingInputDrain announces the end unless    *)
(* the announcement is left to a window that is already open.              *)
Process(p, o) ==
    /\ At(p, "process")
    /\ MarkProcessed(ToSet(pr[p].batch), o)
    /\ Spend(o)
    /\ IF o # "ok"
       THEN DrainFails(p) /\ UNCHANGED <<publishing, lock>>
       ELSE /\ UNCHANGED live
            /\ IF Silent(p) \/ publishing
               THEN /\ pr' = [pr EXCEPT ![p] = BatchDone(@)]
                    /\ UNCHANGED <<publishing, lock>>
               ELSE Goto(p, "drained") /\ OpenWindow
    /\ UNCHANGED <<active, executing, termPub, transcript, terminals>>

Drained(p) ==
    /\ At(p, "drained")
    /\ CloseWindow(p)
    /\ pr' = [pr EXCEPT ![p] = BatchDone(@)]
    /\ UNCHANGED <<qvars, active, executing, termPub, live, transcript, terminals, faults>>

TakeBatch(p) ==
    /\ At(p, "take")
    /\ pr' = [pr EXCEPT ![p] = Draining(@, @.todo, @.next, @.after)]
    /\ OpenWindow
    /\ UNCHANGED <<qvars, active, executing, termPub, live, transcript, terminals, faults>>

-----------------------------------------------------------------------------
(* preservePendingInputAfterFailureLocked: what was queued behind a failed *)
(* Turn still enters the transcript as that Turn's input.  The Turn stops  *)
(* being active once nothing is queued; repairing the transcript may fail. *)
Preserve(p, o) ==
    /\ At(p, "preserve")
    /\ Spend(o)
    /\ IF active # Turn(p) \/ live = <<>> \/ o # "ok"
       THEN /\ o # "ok" => active = Turn(p) /\ live # <<>>
            /\ active' = IF active = Turn(p) /\ live = <<>> THEN NoTurn ELSE active
            /\ Goto(p, pr[p].after)
            /\ UNCHANGED <<live, publishing, lock>>
       ELSE /\ DrainLive(p, "preserve", pr[p].after)
            /\ UNCHANGED active
    /\ UNCHANGED <<qvars, executing, termPub, transcript, terminals>>

-----------------------------------------------------------------------------
(* Ending a Turn *)

(* beginTerminalPublication *)
BeginTerminal(p) ==
    /\ active' = IF active = Turn(p) THEN NoTurn ELSE active
    /\ termPub' = Turn(p)
    /\ lock' = "free"

(* finishTerminalPublication *)
TermPubAfter(p) == IF termPub = Turn(p) THEN NoTurn ELSE termPub

(* The terminal event is committed with the ids the store lists for the    *)
(* Turn, outside the lifecycle lock.                                       *)
CommitsTerminal(p, o) ==
    /\ At(p, "commit")
    /\ Spend(o)
    /\ Durable(o)
    /\ CommitTerminal(Turn(p), pr[p].d)
    /\ terminals' = [terminals EXCEPT ![Turn(p)] = Append(@, pr[p].d)]

(* The store could not be loaded, or nothing was committed. *)
TerminalRefused(p, o) ==
    /\ At(p, "commit")
    /\ \/ /\ o \in {"write", "count"}
          /\ ~loaded /\ Loadable
          /\ Unload
          /\ doc' = IF o = "count" THEN DocAfterLoad ELSE doc
       \/ /\ o = "journal" /\ Loadable
          /\ InMemory(View, HandledView, HandledMsgsView)
          /\ doc' = DocAfterLoad
       \/ /\ o = "invalid" /\ ~Loadable
          /\ InMemory(View, HandledView, HandledMsgsView)
          /\ doc' = doc
    /\ Spend(o)
    /\ UNCHANGED <<fate, clock, accepted, terminals>>

(* publishTerminalEvent: the store applies the event, and the publication  *)
(* ends whether or not that worked.                                        *)
ApplyTerminal(p, o) ==
    /\ At(p, "apply")
    /\ IF pr[p].ids = {}
       THEN o = "ok" /\ UNCHANGED qvars
       ELSE ApplyTerminalEvent(pr[p].ids, pr[p].d, o)
    /\ Spend(o)
    /\ termPub' = TermPubAfter(p)
    /\ IF p = "exec" THEN Goto(p, "done") ELSE Return(p)
    /\ UNCHANGED <<active, executing, live, publishing, lock, transcript, terminals>>

-----------------------------------------------------------------------------
(* The steps every goroutine may be at. *)
DrainStep(p) ==
    \/ Announced(p)
    \/ \E o \in Outcomes : Admit(p, o)
    \/ \E o \in JournalOutcomes, n \in 0 .. Len(pr[p].batch) : AppendBatch(p, o, n)
    \/ \E o \in Outcomes : Process(p, o)
    \/ Drained(p)
    \/ TakeBatch(p)
    \/ \E o \in {"ok", "journal"} : Preserve(p, o)

EngineInit ==
    /\ active = NoTurn
    /\ executing = NoTurn
    /\ termPub = NoTurn
    /\ live = <<>>
    /\ publishing = FALSE
    /\ lock = "free"
    /\ pr = [p \in Procs |-> Idle]
    /\ transcript = <<>>
    /\ terminals = [t \in Turns |-> <<>>]
    /\ faults = 0

=============================================================================
