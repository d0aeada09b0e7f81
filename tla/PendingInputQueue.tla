-------------------------- MODULE PendingInputQueue --------------------------
(***************************************************************************)
(* The durable pending-input store of one Thread, PendingInputQueue in     *)
(* internal/framework/runtime/pending_queue.go: the document inputs.json,  *)
(* its in-memory copy, and the terminal Turn events of the Thread journal  *)
(* that loading the document replays over it.                              *)
(*                                                                         *)
(* The module is open: Next lets the caller invoke any operation with any  *)
(* argument at any time.  ThreadRuntime composes these operations into the *)
(* code paths of the Engine.                                               *)
(*                                                                         *)
(* Every operation takes an outcome o, the result of persistLocked:        *)
(*   "ok"      the document was replaced;                                  *)
(*   "write"   the atomic file write failed, nothing changed on disk;      *)
(*   "count"   the file was replaced but synchronizing the Thread's input  *)
(*             count failed, so the caller sees an error;                  *)
(*   "invalid" validatePendingInputRecord rejected a record.               *)
(* "write" and "count" leave loaded = FALSE: the next operation reloads.   *)
(***************************************************************************)
EXTENDS Naturals

CONSTANTS
    Inputs,   \* record identities (record ID and message ID are 1-1)
    Turns,    \* Turn identities
    NoTurn,   \* the empty TurnID
    MaxRecords  \* bound: how many records are ever created

ASSUME NoTurnAssumption == NoTurn \notin Turns
ASSUME MaxRecordsAssumption == MaxRecords \in Nat

VARIABLES
    doc,          \* inputs.json: Inputs -> Record, NoRec when absent
    mem,          \* q.records
    loaded,       \* q.loaded
    handled,      \* q.handled
    handledMsgs,  \* q.handledMsgs
    fate,         \* what replaying the journal's terminal events does to a record
    clock,        \* position of the next record in the document's order
    accepted      \* history: accepted, neither withdrawn nor finally settled

qvars == <<doc, mem, loaded, handled, handledMsgs, fate, clock, accepted>>

-----------------------------------------------------------------------------
(* Records *)

States == {"none", "accepting", "pending", "admitted", "processed",
           "retryable", "dead_lettered"}

(* The error kinds of a terminal event, by what they mean to a record:     *)
(* "retry" is interrupted or terminated, "restart" is runtime_restart and  *)
(* "dead" is every other failure.                                          *)
Dispositions == {"completed", "cancelled", "retry", "restart", "dead"}
Final == {"completed", "cancelled"}

Record == [state  : States,
           origin : {"queued", "turn"},
           turn   : Turns \cup {NoTurn},
           kind   : {"none", "retry", "restart"},
           ttl    : BOOLEAN,
           at     : Nat]

NoRec == [state |-> "none", origin |-> "queued", turn |-> NoTurn,
          kind |-> "none", ttl |-> FALSE, at |-> 0]

Replayable(s) == s \in {"accepting", "pending", "admitted", "processed", "retryable"}

(* PendingInputRecord.Expired, apart from the clock. *)
Expirable(r) == r.ttl /\ r.origin = "queued" /\ Replayable(r.state)

(* validatePendingInputRecord: what the document may hold. *)
Valid(r) ==
    /\ r.state = "accepting" => r.origin = "turn" /\ r.turn # NoTurn
    /\ r.state \notin {"none", "accepting", "pending"} => r.turn # NoTurn
    /\ IF r.state = "retryable" THEN r.kind # "none" ELSE r.kind = "none"

AllValid(recs) == \A i \in Inputs : Valid(recs[i])

-----------------------------------------------------------------------------
(* Loading *)

(* One terminal event over one record: applyTerminalStateLocked, for an    *)
(* input without tracking scope.                                           *)
ApplyDisposition(r, d) ==
    IF r.state = "none" \/ d \in Final
    THEN NoRec
    ELSE IF d = "dead"
         THEN [r EXCEPT !.state = "dead_lettered", !.kind = "none"]
         ELSE [r EXCEPT !.state = "retryable", !.kind = d]

(* The journal's terminal events for one input, folded: a removal is never *)
(* undone by a later event, any other event overwrites the one before it.  *)
CombineFate(f, d) ==
    IF f = "completed" \/ d = "completed" THEN "completed"
    ELSE IF f = "cancelled" THEN f ELSE d

(* Mutant of Replay: loading does not replay the journal. *)
ReplayNothing(r, f) == r

Replay(r, f) == IF f = "none" THEN r ELSE ApplyDisposition(r, f)

(* ensureLoadedLocked: the records every operation starts from. *)
Recovered == [i \in Inputs |-> Replay(doc[i], fate[i])]
View == IF loaded THEN mem ELSE Recovered

(* Mutant of HandledView: a reload forgets which inputs were handled. *)
HandledViewForgets == IF loaded THEN handled ELSE {}

HandledView == IF loaded THEN handled ELSE {i \in Inputs : fate[i] # "none"}
HandledMsgsView == IF loaded THEN handledMsgs ELSE {}

-----------------------------------------------------------------------------
(* Persisting *)

Outcomes == {"ok", "write", "count", "invalid"}

Loadable == loaded \/ AllValid(Recovered)

(* The memory is forgotten; the next operation loads the document again. *)
Unload ==
    /\ loaded' = FALSE
    /\ mem' = [i \in Inputs |-> NoRec]
    /\ handled' = {}
    /\ handledMsgs' = {}

InMemory(recs, hd, hm) ==
    /\ loaded' = TRUE
    /\ mem' = recs
    /\ handled' = hd
    /\ handledMsgs' = hm

(* What loading writes back: the replayed records, unless already loaded.  *)
DocAfterLoad == IF loaded THEN doc ELSE Recovered

(* persistLocked of recs by an operation that changed View to recs; hd and *)
(* hm are the handled sets after a success.  An operation that changed     *)
(* nothing writes nothing.  An invalid record is refused before anything   *)
(* is written; if loading produced it, the operation is not reached but    *)
(* the replayed records stay in memory, marked as loaded.                  *)
Persist(recs, hd, hm, o) ==
    \/ /\ o = "ok"
       /\ loaded /\ recs = View
       /\ doc' = doc
       /\ InMemory(View, hd, hm)
    \/ /\ o = "ok"
       /\ recs # View \/ ~loaded
       /\ Loadable /\ AllValid(recs)
       /\ doc' = recs
       /\ InMemory(recs, hd, hm)
    \/ /\ o \in {"write", "count"}
       /\ recs # View \/ ~loaded
       /\ Loadable /\ AllValid(recs)
       /\ doc' = IF o = "count" THEN recs ELSE doc
       /\ Unload
    \/ /\ o = "invalid"
       /\ recs # View \/ ~loaded
       /\ ~(Loadable /\ AllValid(recs))
       /\ doc' = IF Loadable THEN DocAfterLoad ELSE doc
       /\ InMemory(View, HandledView, HandledMsgsView)

(* An operation over existing records: it changes no handled set. *)
Update(recs, o) ==
    /\ Persist(recs, HandledView, HandledMsgsView, o)
    /\ UNCHANGED <<fate, clock>>

-----------------------------------------------------------------------------
(* Operations *)

Present(i) == View[i].state # "none"

NewRecord(state, origin, t, ttl) ==
    [state |-> state, origin |-> origin, turn |-> t, kind |-> "none",
     ttl |-> ttl, at |-> clock]

(* Mutant of Insert: the record is only kept in memory. *)
InsertInMemory(i, r, o) ==
    /\ clock <= MaxRecords /\ o = "ok" /\ Loadable
    /\ doc' = DocAfterLoad
    /\ InMemory([View EXCEPT ![i] = r], HandledView, HandledMsgsView)
    /\ clock' = clock + 1
    /\ UNCHANGED fate

(* upsertLocked *)
Insert(i, r, o) ==
    /\ clock <= MaxRecords
    /\ Persist([View EXCEPT ![i] = r], HandledView, HandledMsgsView, o)
    /\ clock' = IF o \in {"ok", "count"} THEN clock + 1 ELSE clock
    /\ UNCHANGED fate

(* Enqueue of an identity the store does not hold and has not handled.  An *)
(* identity it holds is returned unchanged, a handled one is refused.      *)
CanEnqueue(i) == ~Present(i) /\ i \notin HandledView

Enqueue(i, t, o) ==
    /\ CanEnqueue(i)
    /\ Insert(i, NewRecord("pending", "queued", t, TRUE), o)
    /\ accepted' = IF o = "ok" THEN accepted \cup {i} ELSE accepted

(* StageTurnInput of a message the store does not know: the intent of an   *)
(* admission, not yet an acceptance.  The identity is generated: no record *)
(* and no terminal event carries it.                                       *)
StageTurnInput(i, t, o) ==
    /\ ~Present(i) /\ fate[i] = "none"
    /\ i \notin HandledView \cup HandledMsgsView
    /\ Insert(i, NewRecord("accepting", "turn", t, FALSE), o)
    /\ UNCHANGED accepted

(* StageTurnInput of a message the store holds returns its record as it    *)
(* is, and refuses one this process has already handled.                   *)
CanRestage(i) == i \notin HandledMsgsView /\ Present(i) /\ Replayable(View[i].state)

Claimed(r, t) ==
    [r EXCEPT !.state = "admitted", !.turn = t, !.ttl = FALSE, !.kind = "none"]

ClaimedAsTurn(r, t) == [Claimed(r, t) EXCEPT !.origin = "turn"]

(* CommitTurnInput after turn.admitted is durable. *)
CanCommitTurnInput(i, t) ==
    /\ Replayable(View[i].state)
    /\ View[i].state = "accepting" => View[i].turn = t

CommitTurnInput(i, t, o) ==
    /\ CanCommitTurnInput(i, t)
    /\ Update([View EXCEPT ![i] = ClaimedAsTurn(@, t)], o)
    /\ accepted' = IF o = "ok" /\ fate[i] \notin Final THEN accepted \cup {i} ELSE accepted

MarkAdmitted(S, t, o) ==
    /\ Update([i \in Inputs |->
                  IF i \in S /\ Replayable(View[i].state)
                     /\ ~(View[i].state = "admitted" /\ View[i].turn = t)
                  THEN Claimed(View[i], t)
                  ELSE View[i]], o)
    /\ UNCHANGED accepted

PromoteToTurnInput(i, t, o) ==
    /\ Update([View EXCEPT ![i] = IF Replayable(@.state) THEN ClaimedAsTurn(@, t) ELSE @], o)
    /\ UNCHANGED accepted

(* MarkProcessed and, for one message, MarkMessageProcessed.  Callers mark *)
(* what an admission has taken off its deadline.                           *)
MarkProcessed(S, o) ==
    /\ \A i \in S : ~View[i].ttl
    /\ Update([i \in Inputs |->
                  IF i \in S /\ Replayable(View[i].state)
                  THEN [View[i] EXCEPT !.state = "processed"]
                  ELSE View[i]], o)
    /\ UNCHANGED accepted

Without(S) == [i \in Inputs |-> IF i \in S THEN NoRec ELSE View[i]]

(* Replayable removes the records whose TTL has passed. *)
Expire(S, o) ==
    /\ \A i \in S : Expirable(View[i])
    /\ Update(Without(S), o)
    /\ accepted' = IF o \in {"ok", "count"} THEN accepted \ S ELSE accepted

(* Mutant of ReplaySet: an input a Turn had admitted is not replayed. *)
ReplaySetSkipsAdmitted(S) == {i \in Inputs \ S : View[i].state \in {"accepting", "pending"}}

(* What Replayable lists once the records of S have expired.  An input a   *)
(* runtime restart interrupted waits for its explicit handoff.             *)
ReplaySet(S) ==
    {i \in Inputs \ S : Replayable(View[i].state)
                        /\ ~(View[i].state = "retryable" /\ View[i].kind = "restart")}

(* MarkDropped, MarkExpired and Cancel. *)
RemoveRecords(S, o) ==
    LET gone == {i \in S : Present(i)} IN
    /\ Persist(Without(S), HandledView \cup gone, HandledMsgsView \cup gone, o)
    /\ UNCHANGED <<fate, clock>>
    /\ accepted' = IF o \in {"ok", "count"} THEN accepted \ S ELSE accepted

(* retryTurnInputs: the explicit handoff of Fleet's restart continuation. *)
RetriableOf(t) == {i \in Inputs : View[i].state = "retryable" /\ View[i].turn = t}

RetryTurnInputs(t, o) ==
    /\ RetriableOf(t) # {}
    /\ Update([i \in Inputs |->
                  IF i \in RetriableOf(t)
                  THEN [View[i] EXCEPT !.state = "pending", !.turn = NoTurn, !.kind = "none"]
                  ELSE View[i]], o)
    /\ UNCHANGED accepted

(* restoreRetriedInputs: the roll back of a handoff that did not start. *)
RestoreRetriedInputs(S, t, k, o) ==
    /\ \A i \in S : View[i].state = "pending" /\ View[i].turn = NoTurn
    /\ Update([i \in Inputs |->
                  IF i \in S
                  THEN [View[i] EXCEPT !.state = "retryable", !.turn = t, !.kind = k]
                  ELSE View[i]], o)
    /\ UNCHANGED accepted

(* InputIDsForTurn *)
InputIDsForTurn(t) ==
    {i \in Inputs : View[i].turn = t /\ View[i].state \in {"admitted", "processed"}}

(* The Engine commits the terminal event of Turn t: it names the inputs    *)
(* the store says t consumed.                                              *)
CommitTerminal(t, d) ==
    LET ids == InputIDsForTurn(t) IN
    /\ Loadable
    /\ InMemory(View, HandledView, HandledMsgsView)
    /\ doc' = DocAfterLoad
    /\ fate' = [i \in Inputs |-> IF i \in ids THEN CombineFate(fate[i], d) ELSE fate[i]]
    /\ accepted' = IF d \in Final THEN accepted \ ids ELSE accepted
    /\ UNCHANGED clock

(* ApplyTerminalEvent: the committed event reaches the document.  Memory   *)
(* changes before the write, so an invalid record elsewhere in the         *)
(* document does not undo it.                                              *)
ApplyTerminalEvent(ids, d, o) ==
    LET recs == [i \in Inputs |-> IF i \in ids THEN ApplyDisposition(View[i], d) ELSE View[i]]
        hd == HandledView \cup ids
        hm == HandledMsgsView \cup {i \in ids : Present(i)}
    IN  /\ ids # {}
        /\ \A i \in ids : fate[i] = d \/ fate[i] \in Final
        /\ \/ /\ o # "invalid" \/ ~Loadable
              /\ Persist(recs, hd, hm, o)
           \/ /\ o = "invalid"
              /\ Loadable /\ recs # View /\ ~AllValid(recs)
              /\ doc' = DocAfterLoad
              /\ InMemory(recs, hd, hm)
        /\ UNCHANGED <<fate, clock, accepted>>

(* ReconcileRecoveryFacts: an interrupted admission becomes an attempt of  *)
(* its Turn when turn.admitted is durable, and a queued input otherwise.   *)
ReconcileRecoveryFacts(admittedMessages, o) ==
    /\ Update([i \in Inputs |->
                  IF View[i].state # "accepting" THEN View[i]
                  ELSE IF i \in admittedMessages
                       THEN [View[i] EXCEPT !.state = "admitted"]
                       ELSE [View[i] EXCEPT !.state = "pending", !.origin = "queued",
                                            !.turn = NoTurn]], o)
    /\ UNCHANGED accepted

(* The process ends: only the document and the journal remain. *)
ProcessEnds ==
    /\ Unload
    /\ UNCHANGED <<doc, fate, clock, accepted>>

-----------------------------------------------------------------------------
(* The open specification *)

QInit ==
    /\ doc = [i \in Inputs |-> NoRec]
    /\ mem = [i \in Inputs |-> NoRec]
    /\ loaded = FALSE
    /\ handled = {}
    /\ handledMsgs = {}
    /\ fate = [i \in Inputs |-> "none"]
    /\ clock = 1
    /\ accepted = {}

QNext ==
    \/ \E i \in Inputs, t \in Turns \cup {NoTurn}, o \in Outcomes : Enqueue(i, t, o)
    \/ \E i \in Inputs, t \in Turns, o \in Outcomes :
          \/ StageTurnInput(i, t, o)
          \/ CommitTurnInput(i, t, o)
          \/ PromoteToTurnInput(i, t, o)
    \/ \E S \in SUBSET Inputs, t \in Turns, o \in Outcomes : MarkAdmitted(S, t, o)
    \/ \E S \in SUBSET Inputs, o \in Outcomes :
          \/ MarkProcessed(S, o)
          \/ Expire(S, o)
          \/ RemoveRecords(S, o)
          \/ ReconcileRecoveryFacts(S, o)
    \/ \E t \in Turns, o \in Outcomes : RetryTurnInputs(t, o)
    \/ \E S \in SUBSET Inputs, t \in Turns, k \in {"retry", "restart"}, o \in Outcomes :
          RestoreRetriedInputs(S, t, k, o)
    \/ \E t \in Turns, d \in Dispositions : CommitTerminal(t, d)
    \/ \E S \in SUBSET Inputs, d \in Dispositions, o \in Outcomes :
          ApplyTerminalEvent(S, d, o)
    \/ ProcessEnds

QSpec == QInit /\ [][QNext]_qvars

-----------------------------------------------------------------------------
(* Properties *)

(* Every variable of the store keeps its type.                             *)
QTypeOK ==
    /\ doc \in [Inputs -> Record]
    /\ mem \in [Inputs -> Record]
    /\ loaded \in BOOLEAN
    /\ handled \subseteq Inputs
    /\ handledMsgs \subseteq Inputs
    /\ fate \in [Inputs -> Dispositions \cup {"none"}]
    /\ clock \in Nat
    /\ accepted \subseteq Inputs

(* An accepted Input is recoverable until it is withdrawn or its Turn has  *)
(* a final terminal record: whatever writes fail and wherever the process  *)
(* ends, the store holds it now and a reload would find it again           *)
(* (DOMAIN.md, invariant 7).                                               *)
NoLostInput ==
    \A i \in accepted : Present(i) /\ Recovered[i].state # "none"

(* An Input whose Turn completed or was cancelled and that has left the    *)
(* store does not come back under the same identity: not by a redelivery,  *)
(* nor by a reload after a failed write or a restart.                      *)
SettledStaysOut ==
    [][\A i \in Inputs : fate[i] \in Final /\ ~Present(i) => ~Present(i)']_qvars

=============================================================================
