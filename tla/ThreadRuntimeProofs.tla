------------------------- MODULE ThreadRuntimeProofs -------------------------
(***************************************************************************)
(* Proofs about a whole Thread and its process (ThreadRuntime), for every  *)
(* number of inputs, Turns, faults and crashes and for every set of        *)
(* operations.                                                             *)
(*                                                                         *)
(* What is proved of the open store (PendingInputQueueProofs) holds of the *)
(* Thread if every call its goroutines make is an operation of the store   *)
(* as PendingInputQueue specifies it, with arguments that exist.  So the   *)
(* invariant ThreadInv says what a goroutine knows at each of its steps:   *)
(* that it has a Turn and an Input where its next call needs them, how its *)
(* Turn ends, and where it goes after a drain.  Who publishes an event and *)
(* who holds a reservation rests on the same account of the goroutines.    *)
(*                                                                         *)
(* How an accepted Input leaves rests on a second invariant, LeaveInv: an  *)
(* Input that a terminal record has interrupted keeps no deadline, on disk *)
(* and in memory, so what lapses is pending; and two goroutines never      *)
(* admit the same new Input, so a refused admission drops a record nobody  *)
(* has accepted.                                                           *)
(***************************************************************************)
EXTENDS ThreadRuntime, PendingInputQueueProofs

(* The fields of a goroutine, whatever they hold.                          *)
Frame(r) ==
    r \in [pc : {r.pc}, turn : {r.turn}, input : {r.input}, src : {r.src}, todo : {r.todo},
           batch : {r.batch}, next : {r.next}, after : {r.after}, already : {r.already},
           ids : {r.ids}, d : {r.d}, retried : {r.retried}, from : {r.from}, kind : {r.kind}]

DrainPcs == {"window", "admit", "append", "process", "drained", "take"}
Nexts == {"restoreTake", "iterate", "preserve", "preserveRest", "cancelling"}
Afters == {"mark", "drainFail", "unwind", "terminal", "lateStart", "cancelFails"}

(* Where a goroutine is, or will be, about to end its Turn.                *)
Ending == {"restoreFail", "lateStart", "lateMark", "fail", "terminal", "commit", "apply",
           "cancelling", "cancelFails"}

(* What a goroutine knows at each of its steps.                            *)
Knows(r) ==
    /\ r.pc = "idle" => r = Idle
    /\ r.next \in Nexts \cup {"idle"} /\ r.after \in Afters \cup {"idle"}
    /\ r.pc \in DrainPcs => r.next # "idle" /\ r.after # "idle"
    /\ r.pc = "preserve" => r.after # "idle"
    /\ r.pc \notin {"idle", "enqueued", "dropped", "notice", "unwind"} => r.turn \in Turns
    /\ r.pc \in {"notice", "unwind"} => r.turn \in Turns \/ r.d = "none"
    /\ r.pc \in {"notice", "staged", "accept", "drop"} => r.input \in Inputs
    /\ r.pc \in Ending \/ r.next \in Ending \/ r.after \in Ending => r.d \in Dispositions
    /\ r.ids \subseteq Inputs
    /\ r.retried # {} => /\ r.retried \subseteq Inputs
                         /\ r.from \in Turns /\ r.kind \in {"retry", "restart"}

(* The goroutines: each knows what its step needs.                         *)
ProcsKnown ==
    /\ pr = [p \in Procs |-> pr[p]]
    /\ \A p \in Procs : Frame(pr[p]) /\ Knows(pr[p])

(* The control state of Engine and Agent.                                  *)
Control ==
    /\ ProcsKnown
    /\ active \in MaybeTurn
    /\ usedTurns \subseteq Turns
    /\ \A s \in starts : s.turn \in Turns

(* A retryable record says why its Turn ended.                             *)
Kinded(recs) == \A i \in Inputs : recs[i].state = "retryable" => recs[i].kind # "none"
ReasonsKept == Kinded(doc) /\ Kinded(mem)

(* The inductive invariant of the Thread.                                  *)
ThreadInv == StoreInv /\ ReasonsKept /\ Control /\ ReservationsOwned

-----------------------------------------------------------------------------
(* The calls the Thread makes are operations of the store *)

(* The store's view of its records, which any operation may write back     *)
(* without changing one.                                                   *)
LEMMA ViewIsFunction == ASSUME StoreInv PROVE View = [i \in Inputs |-> View[i]]
  BY ViewFacts

(* MarkAdmitted of any list of identities is MarkAdmitted of those that    *)
(* are records.                                                            *)
LEMMA MarkAdmittedStep ==
  ASSUME NEW S, NEW t \in Turns, NEW o \in Outcomes, MarkAdmitted(S, t, o)
  PROVE  QNext
  <1>1. MarkAdmitted(S \cap Inputs, t, o)
    <2> DEFINE recs(s) == [i \in Inputs |->
                  IF i \in s /\ Replayable(View[i].state)
                     /\ ~(View[i].state = "admitted" /\ View[i].turn = t)
                  THEN Claimed(View[i], t)
                  ELSE View[i]]
    <2>1. recs(S) = recs(S \cap Inputs)
      OBVIOUS
    <2> QED BY <2>1 DEF MarkAdmitted
  <1> QED BY <1>1 DEF QNext

(* The same of MarkProcessed.                                              *)
LEMMA MarkProcessedStep ==
  ASSUME NEW S, NEW o \in Outcomes, MarkProcessed(S, o)
  PROVE  QNext
  <1>1. MarkProcessed(S \cap Inputs, o)
    <2> DEFINE recs(s) == [i \in Inputs |->
                  IF i \in s /\ Replayable(View[i].state)
                  THEN [View[i] EXCEPT !.state = "processed"]
                  ELSE View[i]]
    <2>1. recs(S) = recs(S \cap Inputs)
      OBVIOUS
    <2> QED BY <2>1 DEF MarkProcessed
  <1> QED BY <1>1 DEF QNext

(* The same of ReconcileRecoveryFacts.                                     *)
LEMMA ReconcileStep ==
  ASSUME NEW S, NEW o \in Outcomes, ReconcileRecoveryFacts(S, o)
  PROVE  QNext
  <1>1. ReconcileRecoveryFacts(S \cap Inputs, o)
    <2> DEFINE recs(s) == [i \in Inputs |->
                  IF View[i].state # "accepting" THEN View[i]
                  ELSE IF i \in s
                       THEN [View[i] EXCEPT !.state = "admitted"]
                       ELSE [View[i] EXCEPT !.state = "pending", !.origin = "queued",
                                            !.turn = NoTurn]]
    <2>1. recs(S) = recs(S \cap Inputs)
      OBVIOUS
    <2> QED BY <2>1 DEF ReconcileRecoveryFacts
  <1> QED BY <1>1 DEF QNext

(* An operation that loads the store and changes no record.                *)
LEMMA LoadStep ==
  ASSUME StoreInv, NEW o \in Outcomes, Update(View, o), UNCHANGED accepted
  PROVE  QNext
  <1> DEFINE recs == [i \in Inputs |->
                  IF i \in {} /\ Replayable(View[i].state)
                  THEN [View[i] EXCEPT !.state = "processed"]
                  ELSE View[i]]
  <1>1. recs = View
    BY ViewIsFunction
  <1>2. MarkProcessed({}, o)
    BY <1>1 DEF MarkProcessed
  <1> QED BY <1>2 DEF QNext

(* PromoteToTurnInput of an identity the store does not hold changes no    *)
(* record.                                                                 *)
LEMMA PromoteStep ==
  ASSUME StoreInv, NEW i, NEW t \in Turns, NEW o \in Outcomes, PromoteToTurnInput(i, t, o)
  PROVE  QNext
  <1>1. CASE i \in Inputs
    BY <1>1 DEF QNext
  <1>2. CASE i \notin Inputs
    <2>1. [View EXCEPT ![i] = IF Replayable(@.state) THEN ClaimedAsTurn(@, t) ELSE @] = View
      BY <1>2, ViewIsFunction
    <2>2. Update(View, o) /\ UNCHANGED accepted
      BY <2>1 DEF PromoteToTurnInput
    <2> QED BY <2>2, LoadStep
  <1> QED BY <1>1, <1>2

(* A terminal event that is not committed has at most loaded the store.    *)
LEMMA RefusedStep ==
  ASSUME StoreInv, NEW p, NEW o, TerminalRefused(p, o)
  PROVE  QNext
  <1>1. UNCHANGED <<fate, clock, accepted>>
    BY DEF TerminalRefused
  <1>2. ~loaded => View = Recovered
    BY DEF View
  <1>3. CASE /\ o \in {"write", "count"} /\ ~loaded /\ Loadable
             /\ Unload /\ doc' = IF o = "count" THEN DocAfterLoad ELSE doc
    <2>1. AllValid(View)
      BY <1>2, <1>3 DEF Loadable
    <2>2. Persist(View, HandledView, HandledMsgsView, o)
      BY <1>2, <1>3, <2>1 DEF Persist, DocAfterLoad
    <2> QED BY <1>1, <1>3, <2>2, LoadStep DEF Update, Outcomes
  <1>4. CASE /\ Loadable /\ InMemory(View, HandledView, HandledMsgsView)
             /\ doc' = DocAfterLoad
    <2>1. Persist(View, HandledView, HandledMsgsView, "ok")
      BY <1>2, <1>4 DEF Persist, DocAfterLoad, Loadable
    <2> QED BY <1>1, <2>1, LoadStep DEF Update, Outcomes
  <1>5. CASE /\ o = "invalid" /\ ~Loadable
             /\ InMemory(View, HandledView, HandledMsgsView) /\ doc' = doc
    <2>1. Persist(View, HandledView, HandledMsgsView, o)
      BY <1>2, <1>5 DEF Persist, Loadable
    <2> QED BY <1>1, <1>5, <2>1, LoadStep DEF Update, Outcomes
  <1> QED BY <1>3, <1>4, <1>5 DEF TerminalRefused

-----------------------------------------------------------------------------
(* A retryable record says why *)

(* Replaying the journal gives a retryable record its reason.              *)
LEMMA DispositionKinded ==
  ASSUME NEW r \in Record, NEW d \in Dispositions,
         LET n == ApplyDisposition(r, d) IN n.state = "retryable"
  PROVE  ApplyDisposition(r, d).kind # "none"
  BY DEF ApplyDisposition, Record, Dispositions, Final, NoRec

(* So every record an operation starts from has one.                       *)
LEMMA ViewKinded ==
  ASSUME StoreInv, ReasonsKept
  PROVE  Kinded(View) /\ Kinded(Recovered) /\ Kinded(DocAfterLoad)
  <1>1. ASSUME NEW i \in Inputs, Recovered[i].state = "retryable"
        PROVE  Recovered[i].kind # "none"
    <2>1. doc[i] \in Record /\ fate[i] \in Dispositions \cup {"none"}
      BY DEF StoreInv, QTypeOK
    <2>2. Recovered[i] = Replay(doc[i], fate[i])
      BY DEF Recovered
    <2>3. CASE fate[i] = "none"
      BY <1>1, <2>2, <2>3 DEF Replay, ReasonsKept, Kinded
    <2>4. CASE fate[i] # "none"
      BY <1>1, <2>1, <2>2, <2>4, DispositionKinded DEF Replay
    <2> QED BY <2>3, <2>4
  <1> QED BY <1>1 DEF Kinded, View, DocAfterLoad, ReasonsKept

(* What is persisted keeps the reasons.                                    *)
LEMMA PersistKinded ==
  ASSUME StoreInv, ReasonsKept, NEW recs, NEW hd, NEW hm, NEW o, Kinded(recs),
         Persist(recs, hd, hm, o)
  PROVE  ReasonsKept'
  <1>1. \/ doc' = doc \/ doc' = recs \/ doc' = DocAfterLoad
    BY DEF Persist
  <1>2. \/ mem' = View \/ mem' = recs \/ mem' = [i \in Inputs |-> NoRec]
    BY DEF Persist, InMemory, Unload
  <1>3. Kinded([i \in Inputs |-> NoRec])
    BY NoRecType DEF Kinded
  <1> QED BY <1>1, <1>2, <1>3, ViewKinded DEF ReasonsKept, Kinded

(* A record that is inserted is not retryable.                             *)
LEMMA InsertKinded ==
  ASSUME StoreInv, ReasonsKept, NEW i \in Inputs, NEW r, NEW o, Insert(i, r, o),
         r.state # "retryable"
  PROVE  ReasonsKept'
  <1>1. Kinded([View EXCEPT ![i] = r])
    BY ViewKinded, ViewIsFunction DEF Kinded
  <1> QED BY <1>1, PersistKinded DEF Insert

(* A record that an operation changes is not retryable afterwards, or has  *)
(* a reason.                                                               *)
LEMMA UpdateKinded ==
  ASSUME StoreInv, ReasonsKept, NEW recs, NEW hd, NEW hm, NEW o,
         Persist(recs, hd, hm, o),
         \A i \in Inputs : \/ recs[i] = View[i]
                           \/ recs[i].state # "retryable" \/ recs[i].kind # "none"
  PROVE  ReasonsKept'
  <1>1. Kinded(recs)
    BY ViewKinded DEF Kinded
  <1> QED BY <1>1, PersistKinded

(* What a Turn claims, drops or processes is not retryable.                *)
LEMMA ChangedKinds ==
  ASSUME NEW r \in Record, NEW t, NEW k \in {"retry", "restart"}
  PROVE  /\ Claimed(r, t).state = "admitted" /\ ClaimedAsTurn(r, t).state = "admitted"
         /\ [r EXCEPT !.state = "processed"].state = "processed"
         /\ [r EXCEPT !.state = "admitted"].state = "admitted"
         /\ [r EXCEPT !.state = "pending", !.turn = NoTurn, !.kind = "none"].state = "pending"
         /\ [r EXCEPT !.state = "pending", !.origin = "queued", !.turn = NoTurn].state = "pending"
         /\ [r EXCEPT !.state = "retryable", !.turn = t, !.kind = k].kind = k
  BY DEF Claimed, ClaimedAsTurn, Record

(* Every operation of the store keeps the reasons.                         *)
LEMMA StoreKinded ==
  ASSUME StoreInv, ReasonsKept, [QNext]_qvars
  PROVE  ReasonsKept'
  <1> USE ViewFacts
  <1>1. ASSUME NEW i \in Inputs, NEW t, NEW o, Enqueue(i, t, o) PROVE ReasonsKept'
    <2>1. NewRecord("pending", "queued", t, TRUE).state # "retryable"
      BY DEF NewRecord
    <2> QED BY <1>1, <2>1, InsertKinded DEF Enqueue
  <1>2. ASSUME NEW i \in Inputs, NEW t, NEW o, StageTurnInput(i, t, o) PROVE ReasonsKept'
    <2>1. NewRecord("accepting", "turn", t, FALSE).state # "retryable"
      BY DEF NewRecord
    <2> QED BY <1>2, <2>1, InsertKinded DEF StageTurnInput
  <1>3. ASSUME NEW i \in Inputs, NEW t, NEW o, CommitTurnInput(i, t, o) PROVE ReasonsKept'
    <2> DEFINE recs == [View EXCEPT ![i] = ClaimedAsTurn(@, t)]
    <2>1. Persist(recs, HandledView, HandledMsgsView, o)
      BY <1>3 DEF CommitTurnInput, Update
    <2>2. \A j \in Inputs : recs[j] = View[j] \/ recs[j].state # "retryable"
      BY ChangedKinds
    <2> HIDE DEF recs
    <2> QED BY <2>1, <2>2, UpdateKinded
  <1>4. ASSUME NEW i \in Inputs, NEW t, NEW o, PromoteToTurnInput(i, t, o) PROVE ReasonsKept'
    <2> DEFINE recs == [View EXCEPT ![i] = IF Replayable(@.state) THEN ClaimedAsTurn(@, t) ELSE @]
    <2>1. Persist(recs, HandledView, HandledMsgsView, o)
      BY <1>4 DEF PromoteToTurnInput, Update
    <2>2. \A j \in Inputs : recs[j] = View[j] \/ recs[j].state # "retryable"
      BY ChangedKinds
    <2> HIDE DEF recs
    <2> QED BY <2>1, <2>2, UpdateKinded
  <1>5. ASSUME NEW S, NEW t, NEW o, MarkAdmitted(S, t, o) PROVE ReasonsKept'
    <2> DEFINE recs == [i \in Inputs |->
                  IF i \in S /\ Replayable(View[i].state)
                     /\ ~(View[i].state = "admitted" /\ View[i].turn = t)
                  THEN Claimed(View[i], t)
                  ELSE View[i]]
    <2>1. Persist(recs, HandledView, HandledMsgsView, o)
      BY <1>5 DEF MarkAdmitted, Update
    <2>2. \A i \in Inputs : recs[i] = View[i] \/ recs[i].state # "retryable"
      BY ChangedKinds
    <2> HIDE DEF recs
    <2> QED BY <2>1, <2>2, UpdateKinded
  <1>6. ASSUME NEW S, NEW o, MarkProcessed(S, o) PROVE ReasonsKept'
    <2> DEFINE recs == [i \in Inputs |->
                  IF i \in S /\ Replayable(View[i].state)
                  THEN [View[i] EXCEPT !.state = "processed"]
                  ELSE View[i]]
    <2>1. Persist(recs, HandledView, HandledMsgsView, o)
      BY <1>6 DEF MarkProcessed, Update
    <2>2. \A i \in Inputs : recs[i] = View[i] \/ recs[i].state # "retryable"
      BY ChangedKinds
    <2> HIDE DEF recs
    <2> QED BY <2>1, <2>2, UpdateKinded
  <1>7. ASSUME NEW S, NEW o, NEW hd, NEW hm, Persist(Without(S), hd, hm, o) PROVE ReasonsKept'
    <2>1. \A i \in Inputs : Without(S)[i] = View[i] \/ Without(S)[i].state # "retryable"
      BY NoRecType DEF Without
    <2> QED BY <1>7, <2>1, UpdateKinded
  <1>8. ASSUME NEW S, NEW o, ReconcileRecoveryFacts(S, o) PROVE ReasonsKept'
    <2> DEFINE recs == [i \in Inputs |->
                  IF View[i].state # "accepting" THEN View[i]
                  ELSE IF i \in S
                       THEN [View[i] EXCEPT !.state = "admitted"]
                       ELSE [View[i] EXCEPT !.state = "pending", !.origin = "queued",
                                            !.turn = NoTurn]]
    <2>1. Persist(recs, HandledView, HandledMsgsView, o)
      BY <1>8 DEF ReconcileRecoveryFacts, Update
    <2>2. \A i \in Inputs : recs[i] = View[i] \/ recs[i].state # "retryable"
      BY ChangedKinds
    <2> HIDE DEF recs
    <2> QED BY <2>1, <2>2, UpdateKinded
  <1>9. ASSUME NEW t, NEW o, RetryTurnInputs(t, o) PROVE ReasonsKept'
    <2> DEFINE recs == [i \in Inputs |->
                  IF i \in RetriableOf(t)
                  THEN [View[i] EXCEPT !.state = "pending", !.turn = NoTurn, !.kind = "none"]
                  ELSE View[i]]
    <2>1. Persist(recs, HandledView, HandledMsgsView, o)
      BY <1>9 DEF RetryTurnInputs, Update
    <2>2. \A i \in Inputs : recs[i] = View[i] \/ recs[i].state # "retryable"
      BY ChangedKinds
    <2> HIDE DEF recs
    <2> QED BY <2>1, <2>2, UpdateKinded
  <1>10. ASSUME NEW S, NEW t, NEW k \in {"retry", "restart"}, NEW o,
                RestoreRetriedInputs(S, t, k, o)
         PROVE  ReasonsKept'
    <2> DEFINE recs == [i \in Inputs |->
                  IF i \in S
                  THEN [View[i] EXCEPT !.state = "retryable", !.turn = t, !.kind = k]
                  ELSE View[i]]
    <2>1. Persist(recs, HandledView, HandledMsgsView, o)
      BY <1>10 DEF RestoreRetriedInputs, Update
    <2>2. \A i \in Inputs : recs[i] = View[i] \/ recs[i].kind # "none"
      BY ChangedKinds
    <2> HIDE DEF recs
    <2> QED BY <2>1, <2>2, UpdateKinded
  <1>11. ASSUME NEW t, NEW d, CommitTerminal(t, d) PROVE ReasonsKept'
    BY <1>11, ViewKinded DEF CommitTerminal, InMemory, ReasonsKept, Kinded
  <1>12. ASSUME NEW S, NEW d \in Dispositions, NEW o, ApplyTerminalEvent(S, d, o)
         PROVE  ReasonsKept'
    <2> DEFINE recs == [i \in Inputs |-> IF i \in S THEN ApplyDisposition(View[i], d) ELSE View[i]]
               hd == HandledView \cup S
               hm == HandledMsgsView \cup {i \in S : Present(i)}
    <2>1. \/ Persist(recs, hd, hm, o)
          \/ doc' = DocAfterLoad /\ InMemory(recs, hd, hm)
      BY <1>12 DEF ApplyTerminalEvent
    <2>2. Kinded(recs)
      BY ViewKinded, DispositionKinded DEF Kinded
    <2> HIDE DEF recs, hd, hm
    <2>3. CASE doc' = DocAfterLoad /\ InMemory(recs, hd, hm)
      BY <2>2, <2>3, ViewKinded DEF InMemory, ReasonsKept, Kinded
    <2> QED BY <2>1, <2>2, <2>3, PersistKinded
  <1>13. CASE ProcessEnds
    BY <1>13, NoRecType DEF ProcessEnds, Unload, ReasonsKept, Kinded
  <1>14. CASE UNCHANGED qvars
    BY <1>14 DEF qvars, ReasonsKept, Kinded
  <1>15. ASSUME NEW S, NEW o, Expire(S, o) \/ RemoveRecords(S, o) PROVE ReasonsKept'
    BY <1>7, <1>15 DEF Expire, Update, RemoveRecords
  <1> QED BY <1>1, <1>2, <1>3, <1>4, <1>5, <1>6, <1>8, <1>9, <1>10, <1>11, <1>12, <1>13,
             <1>14, <1>15 DEF QNext

-----------------------------------------------------------------------------
(* The goroutines *)

Windows == {"window", "drained", "enqueued", "staged", "reserving", "promoting",
            "promoted", "dropped"}
Publications == {"commit", "apply"}

(* Goroutine p moves to r, and leaves no reservation of its own behind.    *)
Moved(p, r) ==
    /\ pr' = [pr EXCEPT ![p] = r]
    /\ Frame(r) /\ Knows(r)
    /\ publishing' => r.pc \in Windows \/ (publishing /\ pr[p].pc \notin Windows)
    /\ termPub' # NoTurn =>
          \/ r.pc \in Publications /\ r.turn = termPub'
          \/ termPub' = termPub /\ (pr[p].pc \notin Publications \/ pr[p].turn # termPub)

(* Such a step keeps what the goroutines know and who owns the             *)
(* reservations.                                                           *)
LEMMA MovedKeeps ==
  ASSUME ProcsKnown, ReservationsOwned, NEW p \in Procs, NEW r, Moved(p, r)
  PROVE  ProcsKnown' /\ ReservationsOwned'
  <1>1. pr'[p] = r /\ \A q \in Procs \ {p} : pr'[q] = pr[q]
    BY DEF Moved, ProcsKnown
  <1>2. ProcsKnown'
    <2>1. pr' = [q \in Procs |-> pr'[q]]
      BY DEF Moved, ProcsKnown
    <2> QED BY <1>1, <2>1 DEF Moved, ProcsKnown
  <1>3. publishing' => \E q \in Procs : pr'[q].pc \in Windows
    BY <1>1 DEF Moved, ReservationsOwned, InWindow, Windows
  <1>4. ASSUME termPub' # NoTurn
        PROVE  \E q \in Procs : pr'[q].turn = termPub' /\ pr'[q].pc \in Publications
    BY <1>1, <1>4 DEF Moved, ReservationsOwned, Turn, Publications
  <1> QED BY <1>2, <1>3, <1>4 DEF ReservationsOwned, InWindow, Windows, Turn, Publications

(* What every step of the Thread keeps.                                    *)
Kept == [QNext]_qvars /\ Control' /\ ReservationsOwned'

(* A goroutine whose step changes neither the active Turn nor the starts.  *)
LEMMA MovedAlone ==
  ASSUME ThreadInv, NEW p \in Procs, NEW r, Moved(p, r), [QNext]_qvars,
         active' \in MaybeTurn, UNCHANGED <<usedTurns, starts>>
  PROVE  Kept
  BY MovedKeeps DEF ThreadInv, Control, Kept

(* The next batch of a sequence.                                           *)
LEMMA DrainingKnows ==
  ASSUME NEW r, Frame(r), Knows(r), NEW s, NEW n \in Nexts, NEW a \in Afters,
         r.turn \in Turns, n \in Ending \/ a \in Ending => r.d \in Dispositions
  PROVE  LET x == Draining(r, s, n, a) IN
         Frame(x) /\ Knows(x) /\ x.pc = "window" /\ x.turn = r.turn
  <1> DEFINE b == FirstBatch(s)
             td == SubSeq(s, Len(FirstBatch(s)) + 1, Len(s))
             x == [r EXCEPT !.pc = "window", !.batch = b, !.todo = td, !.next = n, !.after = a]
  <1>1. x = Draining(r, s, n, a)
    BY DEF Draining
  <1> HIDE DEF b, td
  <1>2. /\ Frame(x) /\ x.pc = "window" /\ x.next = n /\ x.after = a
        /\ x.turn = r.turn /\ x.d = r.d /\ x.ids = r.ids /\ x.retried = r.retried
        /\ x.from = r.from /\ x.kind = r.kind
    BY DEF Frame
  <1> HIDE DEF x
  <1>3. Knows(x)
    BY <1>2 DEF Knows, DrainPcs, Ending, Nexts, Afters
  <1> QED BY <1>1, <1>2, <1>3

(* A batch that fails, and one that is done.                               *)
LEMMA BatchKnows ==
  ASSUME NEW r, Frame(r), Knows(r), r.pc \in DrainPcs
  PROVE  /\ LET x == [r EXCEPT !.pc = r.after, !.batch = <<>>, !.todo = <<>>] IN
            Frame(x) /\ Knows(x) /\ x.pc \notin Windows \cup Publications
         /\ LET x == BatchDone(r) IN
            Frame(x) /\ Knows(x) /\ x.pc \notin Windows \cup Publications
  <1> USE DEF Windows, Publications, Nexts, Afters, DrainPcs, Ending
  <1>1. LET x == [r EXCEPT !.pc = r.after, !.batch = <<>>, !.todo = <<>>] IN
        Frame(x) /\ Knows(x) /\ x.pc \notin Windows \cup Publications
    BY ZenonT(40) DEF Frame, Knows
  <1>2. LET x == [r EXCEPT !.pc = r.next, !.batch = <<>>] IN
        Frame(x) /\ Knows(x) /\ x.pc \notin Windows \cup Publications
    BY ZenonT(40) DEF Frame, Knows
  <1>3. LET x == [r EXCEPT !.pc = "take", !.batch = <<>>] IN
        Frame(x) /\ Knows(x) /\ x.pc \notin Windows \cup Publications
    BY ZenonT(40) DEF Frame, Knows
  <1> QED BY <1>1, <1>2, <1>3 DEF BatchDone

(* A goroutine that goes on within a batch.                                *)
LEMMA WithinBatchKnows ==
  ASSUME NEW r, Frame(r), Knows(r), r.pc \in DrainPcs, NEW c \in DrainPcs
  PROVE  LET x == [r EXCEPT !.pc = c] IN Frame(x) /\ Knows(x) /\ x.pc = c /\ x.turn = r.turn
  BY DEF Frame, Knows, DrainPcs, Ending

-----------------------------------------------------------------------------
(* The steps of the Thread: draining *)

(* A drain that fails requeues its batch and goes where its caller said.   *)
LEMMA DrainFailsMoves ==
  ASSUME ThreadInv, NEW p \in Procs, pr[p].pc \in DrainPcs \ Windows, DrainFails(p),
         UNCHANGED <<publishing, termPub>>
  PROVE  \E r : Moved(p, r)
  <1>1. Frame(pr[p]) /\ Knows(pr[p])
    BY DEF ThreadInv, Control, ProcsKnown
  <1> DEFINE r == [pr[p] EXCEPT !.pc = pr[p].after, !.batch = <<>>, !.todo = <<>>]
  <1>2. pr' = [pr EXCEPT ![p] = r]
    BY DEF DrainFails
  <1>3. Frame(r) /\ Knows(r) /\ r.pc \notin Windows \cup Publications
    BY <1>1, BatchKnows
  <1>4. pr[p].pc \notin Publications
    BY DEF DrainPcs, Publications
  <1> HIDE DEF r
  <1> QED BY <1>2, <1>3, <1>4 DEF Moved

(* A goroutine that goes on within its batch.                              *)
LEMMA GoesOnMoves ==
  ASSUME ThreadInv, NEW p \in Procs, pr[p].pc \in DrainPcs, NEW c \in DrainPcs, Goto(p, c),
         UNCHANGED termPub,
         publishing' => c \in Windows \/ (publishing /\ pr[p].pc \notin Windows)
  PROVE  \E r : Moved(p, r)
  <1>1. Frame(pr[p]) /\ Knows(pr[p])
    BY DEF ThreadInv, Control, ProcsKnown
  <1> DEFINE r == [pr[p] EXCEPT !.pc = c]
  <1>2. pr' = [pr EXCEPT ![p] = r]
    BY DEF Goto
  <1>3. Frame(r) /\ Knows(r) /\ r.pc = c
    BY <1>1, WithinBatchKnows
  <1>4. pr[p].pc \notin Publications
    BY DEF DrainPcs, Publications
  <1> HIDE DEF r
  <1> QED BY <1>2, <1>3, <1>4 DEF Moved

(* A goroutine whose batch is done.                                        *)
LEMMA BatchDoneMoves ==
  ASSUME ThreadInv, NEW p \in Procs, pr[p].pc \in DrainPcs,
         pr' = [pr EXCEPT ![p] = BatchDone(@)],
         UNCHANGED termPub, publishing' => publishing /\ pr[p].pc \notin Windows
  PROVE  \E r : Moved(p, r)
  <1>1. Frame(pr[p]) /\ Knows(pr[p])
    BY DEF ThreadInv, Control, ProcsKnown
  <1> DEFINE r == BatchDone(pr[p])
  <1>3. Frame(r) /\ Knows(r) /\ r.pc \notin Windows \cup Publications
    BY <1>1, BatchKnows
  <1>4. pr[p].pc \notin Publications
    BY DEF DrainPcs, Publications
  <1>5. pr' = [pr EXCEPT ![p] = r]
    OBVIOUS
  <1> HIDE DEF r
  <1> QED BY <1>3, <1>4, <1>5 DEF Moved

(* The live queue, or what is left of a sequence, becomes the next batch.  *)
LEMMA DrainingMoves ==
  ASSUME ThreadInv, NEW p \in Procs, NEW s, NEW n \in Nexts, NEW a \in Afters,
         pr[p].turn \in Turns, n \in Ending \/ a \in Ending => pr[p].d \in Dispositions,
         pr' = [pr EXCEPT ![p] = Draining(@, s, n, a)],
         pr[p].pc \notin Publications, UNCHANGED termPub
  PROVE  \E r : Moved(p, r)
  <1>1. Frame(pr[p]) /\ Knows(pr[p])
    BY DEF ThreadInv, Control, ProcsKnown
  <1> DEFINE r == Draining(pr[p], s, n, a)
  <1>2. Frame(r) /\ Knows(r) /\ r.pc = "window"
    BY <1>1, DrainingKnows
  <1>3. pr' = [pr EXCEPT ![p] = r]
    OBVIOUS
  <1> HIDE DEF r
  <1> QED BY <1>2, <1>3 DEF Moved, Windows

(* Moving inputs into the transcript.                                      *)
LEMMA DrainStepKeeps ==
  ASSUME ThreadInv, NEW p \in Procs, DrainStep(p), UNCHANGED avars
  PROVE  Kept
  <1>1. Frame(pr[p]) /\ Knows(pr[p]) /\ StoreInv /\ active \in MaybeTurn
    BY DEF ThreadInv, Control, ProcsKnown
  <1>2. UNCHANGED <<usedTurns, starts>>
    BY DEF avars
  <1>3. pr[p].pc \in DrainPcs \cup {"preserve"} => pr[p].turn \in Turns
    BY <1>1 DEF Knows, DrainPcs
  <1> USE DEF DrainPcs, Windows, At, Turn
  <1>4. CASE Announced(p)
    BY <1>1, <1>2, <1>4, GoesOnMoves, MovedAlone DEF Announced, CloseWindow
  <1>5. ASSUME NEW o \in Outcomes, Admit(p, o) PROVE Kept
    <2>1. QNext
      BY <1>3, <1>5, MarkAdmittedStep DEF Admit
    <2>2. \E r : Moved(p, r)
      BY <1>5, GoesOnMoves, DrainFailsMoves DEF Admit
    <2> QED BY <1>1, <1>2, <1>5, <2>1, <2>2, MovedAlone DEF Admit
  <1>6. ASSUME NEW o, NEW n, AppendBatch(p, o, n) PROVE Kept
    <2>2. \E r : Moved(p, r)
      BY <1>6, GoesOnMoves, DrainFailsMoves DEF AppendBatch
    <2> QED BY <1>1, <1>2, <1>6, <2>2, MovedAlone DEF AppendBatch
  <1>7. ASSUME NEW o \in Outcomes, Process(p, o) PROVE Kept
    <2>1. QNext
      BY <1>7, MarkProcessedStep DEF Process
    <2>2. \E r : Moved(p, r)
      BY <1>7, GoesOnMoves, DrainFailsMoves, BatchDoneMoves DEF Process, OpenWindow
    <2> QED BY <1>1, <1>2, <1>7, <2>1, <2>2, MovedAlone DEF Process
  <1>8. CASE Drained(p)
    BY <1>1, <1>2, <1>8, BatchDoneMoves, MovedAlone DEF Drained, CloseWindow
  <1>9. CASE TakeBatch(p)
    <2>1. /\ pr[p].next \in Nexts /\ pr[p].after \in Afters
          /\ pr[p].next \in Ending \/ pr[p].after \in Ending => pr[p].d \in Dispositions
      BY <1>1, <1>9 DEF TakeBatch, Knows
    <2>2. pr' = [pr EXCEPT ![p] = Draining(@, pr[p].todo, pr[p].next, pr[p].after)]
      BY <1>9 DEF TakeBatch
    <2>3. \E r : Moved(p, r)
      BY <1>3, <1>9, <2>1, <2>2, DrainingMoves DEF TakeBatch, Publications
    <2> QED BY <1>1, <1>2, <1>9, <2>3, MovedAlone DEF TakeBatch
  <1>10. ASSUME NEW o, Preserve(p, o) PROVE Kept
    <2>1. /\ pr[p].after \in Afters
          /\ pr[p].after \in Ending => pr[p].d \in Dispositions
      BY <1>1, <1>10 DEF Preserve, Knows
    <2>2. ASSUME Goto(p, pr[p].after), UNCHANGED publishing PROVE \E r : Moved(p, r)
      <3> DEFINE r == [pr[p] EXCEPT !.pc = pr[p].after]
      <3>1. Frame(r) /\ r.pc = pr[p].after
        BY <1>1 DEF Frame
      <3>2. Knows(r)
        BY <1>1, <1>3, <1>10, <2>1 DEF Preserve, Frame, Knows, Ending, Afters
      <3>3. pr' = [pr EXCEPT ![p] = r]
        BY <2>2 DEF Goto
      <3>4. r.pc \notin Windows \cup Publications /\ UNCHANGED termPub
        BY <1>10, <2>1, <3>1 DEF Afters, Publications, Preserve
      <3> HIDE DEF r
      <3> QED BY <1>10, <2>2, <3>1, <3>2, <3>3, <3>4 DEF Moved, Preserve, Publications
    <2>3. ASSUME pr' = [pr EXCEPT ![p] = Draining(@, live, "preserve", pr[p].after)]
          PROVE  \E r : Moved(p, r)
      BY <1>3, <1>10, <2>1, <2>3, DrainingMoves DEF Preserve, Nexts, Ending, Publications
    <2>4. \E r : Moved(p, r)
      BY <1>10, <2>2, <2>3 DEF Preserve, DrainLive
    <2> QED BY <1>1, <1>2, <1>10, <2>4, MovedAlone DEF Preserve, MaybeTurn
  <1> QED BY <1>4, <1>5, <1>6, <1>7, <1>8, <1>9, <1>10 DEF DrainStep

-----------------------------------------------------------------------------
(* The steps of the Thread: ending a Turn *)

(* A goroutine between two calls knows all it needs.                       *)
LEMMA IdleKnows == Frame(Idle) /\ Knows(Idle) /\ Idle.pc = "idle"
  BY DEF Idle, Frame, Knows, DrainPcs, Ending

(* A goroutine whose call returns.                                         *)
LEMMA ReturnMoves ==
  ASSUME ThreadInv, NEW p \in Procs, Return(p),
         publishing' => publishing /\ pr[p].pc \notin Windows,
         termPub' # NoTurn =>
            termPub' = termPub /\ (pr[p].pc \notin Publications \/ pr[p].turn # termPub)
  PROVE  \E r : Moved(p, r)
  BY IdleKnows DEF Return, Moved

(* A goroutine that goes to c, by the facts that c asks for.               *)
LEMMA GotoMoves ==
  ASSUME ThreadInv, NEW p \in Procs, NEW c, Goto(p, c),
         Knows([pr[p] EXCEPT !.pc = c]),
         publishing' => c \in Windows \/ (publishing /\ pr[p].pc \notin Windows),
         termPub' # NoTurn =>
            \/ c \in Publications /\ pr[p].turn = termPub'
            \/ termPub' = termPub /\ (pr[p].pc \notin Publications \/ pr[p].turn # termPub)
  PROVE  \E r : Moved(p, r)
  <1> DEFINE r == [pr[p] EXCEPT !.pc = c]
  <1>1. Frame(pr[p])
    BY DEF ThreadInv, Control, ProcsKnown
  <1>2. Frame(r) /\ r.pc = c /\ r.turn = pr[p].turn
    BY <1>1 DEF Frame
  <1>3. pr' = [pr EXCEPT ![p] = r]
    BY DEF Goto
  <1>4. Knows(r)
    OBVIOUS
  <1> HIDE DEF r
  <1> QED BY <1>2, <1>3, <1>4 DEF Moved

(* The terminal event of a Turn that is being ended.                       *)
LEMMA CommitsStep ==
  ASSUME ThreadInv, NEW p \in Procs, NEW o, CommitsTerminal(p, o)
  PROVE  QNext
  <1>1. Turn(p) \in Turns /\ pr[p].d \in Dispositions
    BY DEF ThreadInv, Control, ProcsKnown, CommitsTerminal, At, Turn, Knows, Ending
  <1> QED BY <1>1 DEF CommitsTerminal, QNext

(* The committed event is to be applied to the inputs it names.            *)
LEMMA AppliesMoves ==
  ASSUME ThreadInv, NEW p \in Procs, At(p, "commit"),
         pr' = [pr EXCEPT ![p].pc = "apply", ![p].ids = InputIDsForTurn(Turn(p))],
         UNCHANGED <<publishing, termPub>>
  PROVE  \E r : Moved(p, r)
  <1> DEFINE ids == InputIDsForTurn(Turn(p))
             r == [pr[p] EXCEPT !.pc = "apply", !.ids = ids]
  <1>1. Frame(pr[p]) /\ Knows(pr[p])
    BY DEF ThreadInv, Control, ProcsKnown
  <1>2. ids \subseteq Inputs
    BY DEF InputIDsForTurn
  <1>3. pr' = [pr EXCEPT ![p] = r]
    OBVIOUS
  <1> HIDE DEF ids
  <1>4. Frame(r) /\ r.pc = "apply" /\ r.turn = pr[p].turn
    BY <1>1 DEF Frame
  <1>5. Knows(r)
    BY <1>1, <1>2 DEF At, Frame, Knows, DrainPcs, Ending
  <1> HIDE DEF r
  <1> QED BY <1>3, <1>4, <1>5 DEF Moved, At, Windows, Publications

(* publishTerminalEvent keeps the invariant, and its publication is over.  *)
LEMMA ApplyTerminalKeeps ==
  ASSUME ThreadInv, NEW p \in Procs, NEW o \in Outcomes, ApplyTerminal(p, o), UNCHANGED avars
  PROVE  Kept
  <1>1. Frame(pr[p]) /\ Knows(pr[p]) /\ At(p, "apply") /\ pr[p].pc = "apply"
    BY DEF ThreadInv, Control, ProcsKnown, ApplyTerminal, At
  <1>2. pr[p].ids \subseteq Inputs /\ pr[p].d \in Dispositions
    BY <1>1 DEF Knows, Ending
  <1>3. [QNext]_qvars
    BY <1>2 DEF ApplyTerminal, QNext
  <1>4. termPub' # NoTurn => termPub' = termPub /\ pr[p].turn # termPub
    BY DEF ApplyTerminal, TermPubAfter, Turn
  <1>5. CASE Return(p)
    BY <1>1, <1>3, <1>4, <1>5, ReturnMoves, MovedAlone
    DEF ApplyTerminal, Windows, Publications, avars, ThreadInv, Control
  <1>6. CASE Goto(p, "done")
    <2>1. Knows([pr[p] EXCEPT !.pc = "done"])
      BY <1>1 DEF Frame, Knows, DrainPcs, Ending
    <2>2. \E r : Moved(p, r)
      BY <1>1, <1>4, <1>6, <2>1, GotoMoves DEF ApplyTerminal, Windows
    <2> QED BY <1>3, <2>2, MovedAlone DEF ApplyTerminal, avars, ThreadInv, Control
  <1> QED BY <1>5, <1>6 DEF ApplyTerminal

-----------------------------------------------------------------------------
(* The steps of the Thread: admission *)

(* The identities an admission generates.                                  *)
LEMMA FreshFacts ==
  /\ FreshLeft => Fresh \in Inputs
  /\ TurnLeft /\ usedTurns \subseteq Turns => NewTurn \in Turns
  BY InputsAssumption DEF FreshLeft, Fresh, TurnLeft, NewTurn

(* The record is stored and the Turn becomes active.                       *)
LEMMA StagedKeeps ==
  ASSUME ThreadInv, NEW p \in Procs, NEW i \in Inputs, NEW t \in Turns, NEW src,
         pr[p].pc \in {"idle", "notice"}, Staged(p, i, t, src), [QNext]_qvars,
         UNCHANGED <<termPub, starts>>
  PROVE  Kept
  <1> DEFINE r == [pr[p] EXCEPT !.pc = "staged", !.turn = t, !.input = i, !.src = src]
  <1>1. Frame(pr[p]) /\ Knows(pr[p]) /\ usedTurns \subseteq Turns
    BY DEF ThreadInv, Control, ProcsKnown
  <1>2. pr' = [pr EXCEPT ![p] = r] /\ active' = t /\ usedTurns' = usedTurns \cup {t}
    BY DEF Staged
  <1>3. /\ Frame(r) /\ r.pc = "staged" /\ r.turn = t /\ r.input = i /\ r.next = pr[p].next
        /\ r.after = pr[p].after /\ r.d = pr[p].d /\ r.ids = pr[p].ids
        /\ r.retried = pr[p].retried /\ r.from = pr[p].from /\ r.kind = pr[p].kind
    BY <1>1 DEF Frame
  <1> HIDE DEF r
  <1>4. Knows(r)
    BY <1>1, <1>3 DEF Knows, DrainPcs, Ending
  <1>5. Moved(p, r)
    BY <1>2, <1>3, <1>4 DEF Moved, Windows, Publications
  <1>6. ProcsKnown' /\ ReservationsOwned'
    BY <1>5, MovedKeeps DEF ThreadInv, Control
  <1> QED BY <1>1, <1>2, <1>6 DEF Kept, Control, ThreadInv, MaybeTurn

(* A step that moves no goroutine and opens no reservation.                *)
LEMMA StillKeeps ==
  ASSUME ThreadInv, UNCHANGED <<pr, publishing, termPub>>, [QNext]_qvars,
         active' \in MaybeTurn, usedTurns' \subseteq Turns, \A s \in starts' : s.turn \in Turns
  PROVE  Kept
  BY DEF ThreadInv, Control, ProcsKnown, ReservationsOwned, InWindow, Turn, Kept

(* The commit of turn.admitted returns.                                    *)
LEMMA AdmissionCommittedKeeps ==
  ASSUME ThreadInv, NEW p \in Procs, NEW o, AdmissionCommitted(p, o)
  PROVE  Kept
  <1>1. Frame(pr[p]) /\ Knows(pr[p]) /\ pr[p].pc = "staged"
    BY DEF ThreadInv, Control, ProcsKnown, AdmissionCommitted, At
  <1>2. ASSUME NEW c \in {"accept", "drop"}, Goto(p, c) PROVE Kept
    <2>1. Knows([pr[p] EXCEPT !.pc = c])
      BY <1>1 DEF Frame, Knows, DrainPcs, Ending
    <2>2. \E r : Moved(p, r)
      BY <1>1, <1>2, <2>1, GotoMoves DEF AdmissionCommitted, CloseWindow, Publications
    <2> QED BY <2>2, MovedAlone DEF AdmissionCommitted, ThreadInv, Control
  <1> QED BY <1>2 DEF AdmissionCommitted

(* CommitTurnInput, and the start action it releases.                      *)
LEMMA AcceptKeeps ==
  ASSUME ThreadInv, NEW p \in Procs, NEW o \in Outcomes, Accept(p, o)
  PROVE  Kept
  <1>1. /\ Frame(pr[p]) /\ Knows(pr[p]) /\ pr[p].pc = "accept"
        /\ active \in MaybeTurn /\ usedTurns \subseteq Turns /\ \A s \in starts : s.turn \in Turns
    BY DEF ThreadInv, Control, ProcsKnown, Accept, At
  <1>2. pr[p].input \in Inputs /\ Turn(p) \in Turns
    BY <1>1 DEF Knows, Turn
  <1>3. [QNext]_qvars
    BY <1>2 DEF Accept, QNext
  <1>4. UNCHANGED <<active, termPub, publishing, usedTurns>>
    BY DEF Accept
  <1> USE DEF Windows, Publications
  <1>5. CASE Return(p) /\ starts' = starts \cup {StartOf(p)}
    <2>1. \E r : Moved(p, r)
      BY <1>1, <1>4, <1>5, ReturnMoves
    <2>2. ProcsKnown' /\ ReservationsOwned'
      BY <2>1, MovedKeeps DEF ThreadInv, Control
    <2>3. StartOf(p).turn \in Turns
      BY <1>2 DEF StartOf
    <2> QED BY <1>1, <1>3, <1>4, <1>5, <2>2, <2>3 DEF Kept, Control
  <1>6. CASE Goto(p, "restore") /\ UNCHANGED starts
    <2>1. Knows([pr[p] EXCEPT !.pc = "restore"])
      BY <1>1 DEF Frame, Knows, DrainPcs, Ending
    <2>2. \E r : Moved(p, r)
      BY <1>1, <1>4, <1>6, <2>1, GotoMoves
    <2> QED BY <1>1, <1>3, <1>4, <1>6, <2>2, MovedAlone
  <1>7. CASE pr' = [pr EXCEPT ![p].pc = "drop", ![p].d = "dead"] /\ UNCHANGED starts
    <2> DEFINE r == [pr[p] EXCEPT !.pc = "drop", !.d = "dead"]
    <2>1. Frame(r) /\ Knows(r) /\ r.pc = "drop"
      BY <1>1 DEF Frame, Knows, DrainPcs, Ending, Dispositions
    <2>2. Moved(p, r)
      BY <1>1, <1>4, <1>7, <2>1 DEF Moved
    <2> QED BY <1>1, <1>3, <1>4, <1>7, <2>2, MovedAlone
  <1> QED BY <1>5, <1>6, <1>7 DEF Accept, Started

(* A refused admission drops the record it created.                        *)
LEMMA DropKeeps ==
  ASSUME ThreadInv, NEW p \in Procs, NEW o \in Outcomes, DropAdmission(p, o)
  PROVE  Kept
  <1>1. Frame(pr[p]) /\ Knows(pr[p]) /\ pr[p].pc = "drop" /\ active \in MaybeTurn
    BY DEF ThreadInv, Control, ProcsKnown, DropAdmission, At
  <1>2. {pr[p].input} \in SUBSET Inputs
    BY <1>1 DEF Knows
  <1>3. [QNext]_qvars
    BY <1>2 DEF DropAdmission, QNext
  <1> DEFINE r == [pr[p] EXCEPT !.pc = "preserve", !.after = "unwind"]
  <1>4. Frame(r) /\ Knows(r) /\ r.pc = "preserve"
    BY <1>1 DEF Frame, Knows, DrainPcs, Ending, Afters
  <1>5. Moved(p, r)
    BY <1>1, <1>4 DEF Moved, DropAdmission, Windows, Publications
  <1> QED BY <1>1, <1>3, <1>5, MovedAlone DEF DropAdmission, avars

(* The end of a refused admission: the handoff is rolled back and the Turn *)
(* released.                                                               *)
LEMMA UnwindKeeps ==
  ASSUME ThreadInv, NEW p \in Procs, NEW o \in Outcomes, Unwind(p, o)
  PROVE  Kept
  <1>1. Frame(pr[p]) /\ Knows(pr[p]) /\ pr[p].pc = "unwind" /\ active \in MaybeTurn
    BY DEF ThreadInv, Control, ProcsKnown, Unwind, At
  <1>2. [QNext]_qvars
    BY <1>1 DEF Unwind, RollBackRetry, Knows, QNext
  <1>3. UNCHANGED <<publishing, usedTurns, starts>> /\ active' \in MaybeTurn
    BY <1>1 DEF Unwind, avars, BeginTerminal, MaybeTurn
  <1>4. CASE Return(p) /\ UNCHANGED termPub
    BY <1>1, <1>2, <1>3, <1>4, ReturnMoves, MovedAlone DEF Windows, Publications
  <1>5. CASE pr[p].d = "dead" /\ BeginTerminal(p) /\ Goto(p, "commit")
    <2>1. Knows([pr[p] EXCEPT !.pc = "commit"])
      BY <1>1, <1>5 DEF Frame, Knows, DrainPcs, Ending, Dispositions
    <2>2. \E r : Moved(p, r)
      BY <1>1, <1>3, <1>5, <2>1, GotoMoves DEF BeginTerminal, Turn, Windows, Publications
    <2> QED BY <1>2, <1>3, <2>2, MovedAlone
  <1> QED BY <1>4, <1>5 DEF Unwind

(* The notice of a restart continuation starts its Turn, or is refused.    *)
LEMMA StartNoticeKeeps ==
  ASSUME ThreadInv, NEW o \in Outcomes, StartNotice(o)
  PROVE  Kept
  <1> DEFINE p == "recv"
             i == pr[p].input
  <1>1. /\ p \in Procs /\ Frame(pr[p]) /\ Knows(pr[p]) /\ pr[p].pc = "notice"
        /\ active \in MaybeTurn /\ usedTurns \subseteq Turns /\ UNCHANGED <<termPub, starts>>
    BY DEF ThreadInv, Control, ProcsKnown, StartNotice, At, Procs
  <1>2. i \in Inputs
    BY <1>1 DEF Knows
  <1>3. CASE CanAdmit /\ StageTurnInput(i, NewTurn, o) /\ Staged(p, i, NewTurn, "direct")
    <2>1. NewTurn \in Turns
      BY <1>1, <1>3, FreshFacts DEF CanAdmit
    <2>2. QNext
      BY <1>2, <1>3, <2>1 DEF QNext
    <2> QED BY <1>1, <1>2, <1>3, <2>1, <2>2, StagedKeeps
  <1>4. ASSUME [QNext]_qvars, Goto(p, "unwind"), UNCHANGED <<active, usedTurns, publishing>>
        PROVE  Kept
    <2>1. pr[p].d = "none" \/ pr[p].turn \in Turns
      BY <1>1 DEF Knows
    <2>2. Knows([pr[p] EXCEPT !.pc = "unwind"])
      BY <1>1, <2>1 DEF Frame, Knows, DrainPcs, Ending
    <2>3. \E r : Moved(p, r)
      BY <1>1, <1>4, <2>2, GotoMoves DEF Windows, Publications
    <2> QED BY <1>1, <1>4, <2>3, MovedAlone
  <1>5. CASE ~CanAdmit
    BY <1>4, <1>5 DEF StartNotice
  <1>6. CASE CanAdmit /\ o # "ok"
    <2>1. NewTurn \in Turns
      BY <1>1, <1>6, FreshFacts DEF CanAdmit
    <2>2. QNext
      BY <1>2, <1>6, <2>1 DEF StartNotice, QNext
    <2> QED BY <1>4, <1>6, <2>2 DEF StartNotice
  <1> QED BY <1>3, <1>5, <1>6 DEF StartNotice

(* publishStagedTerminalError by the admission handler.                    *)
LEMMA ReceiverCommitsKeeps ==
  ASSUME ThreadInv, NEW o, ReceiverCommits(o) \/ ReceiverRefused(o)
  PROVE  Kept
  <1> DEFINE p == "recv"
  <1>1. /\ p \in Procs /\ pr[p].pc = "commit" /\ active \in MaybeTurn /\ StoreInv
        /\ UNCHANGED <<active, publishing, usedTurns, starts>>
    BY DEF ThreadInv, Control, ReceiverCommits, CommitsTerminal, ReceiverRefused,
           TerminalRefused, At, Procs, avars
  <1>2. QNext
    BY <1>1, CommitsStep, RefusedStep DEF ReceiverCommits, ReceiverRefused
  <1>3. CASE Return(p) /\ termPub' = TermPubAfter(p)
    <2>1. \E r : Moved(p, r)
      BY <1>1, <1>3, ReturnMoves DEF TermPubAfter, Turn, Windows
    <2> QED BY <1>1, <1>2, <2>1, MovedAlone
  <1>4. CASE /\ pr' = [pr EXCEPT ![p].pc = "apply", ![p].ids = InputIDsForTurn(Turn(p))]
             /\ UNCHANGED termPub
    BY <1>1, <1>2, <1>4, AppliesMoves, MovedAlone DEF At
  <1> QED BY <1>3, <1>4 DEF ReceiverCommits, ReceiverRefused

(* Reserving a Turn for a compaction, and promoting what was queued.       *)
LEMMA CompactionKeeps ==
  ASSUME ThreadInv,
         NEW o, CompactionReserved(o) \/ PromotionCommitted(o) \/ PreserveRest(o)
  PROVE  Kept
  <1> DEFINE p == "recv"
  <1>1. /\ p \in Procs /\ Frame(pr[p]) /\ Knows(pr[p]) /\ active \in MaybeTurn
        /\ UNCHANGED <<qvars, active, termPub, usedTurns, starts>>
        /\ pr[p].pc \in {"reserving", "promoting", "preserveRest"}
    BY DEF ThreadInv, Control, ProcsKnown, CompactionReserved, PromotionCommitted, PreserveRest,
           At, Procs, avars
  <1>2. pr[p].turn \in Turns
    BY <1>1 DEF Knows
  <1> USE DEF Windows, Publications
  <1>3. CASE Return(p) /\ publishing' = FALSE
    BY <1>1, <1>3, ReturnMoves, MovedAlone
  <1>4. ASSUME NEW c \in {"preserve", "promote", "preserveRest"}, publishing' = FALSE,
               pr' = [pr EXCEPT ![p].pc = c, ![p].after = "unwind"]
        PROVE  Kept
    <2> DEFINE r == [pr[p] EXCEPT !.pc = c, !.after = "unwind"]
    <2>1. Frame(r) /\ Knows(r) /\ r.pc = c
      BY <1>1, <1>2 DEF Frame, Knows, DrainPcs, Ending, Afters
    <2>2. pr' = [pr EXCEPT ![p] = r]
      BY <1>4
    <2>3. Moved(p, r)
      BY <1>1, <1>4, <2>1, <2>2 DEF Moved
    <2> QED BY <1>1, <2>3, MovedAlone
  <1>5. CASE pr[p].pc = "preserveRest" /\ Goto(p, "unwind") /\ UNCHANGED publishing
    <2>1. Knows([pr[p] EXCEPT !.pc = "unwind"])
      BY <1>1, <1>2 DEF Frame, Knows, DrainPcs, Ending
    <2>2. \E r : Moved(p, r)
      BY <1>1, <1>5, <2>1, GotoMoves
    <2> QED BY <1>1, <2>2, MovedAlone
  <1>6. ASSUME NEW b, pr' = [pr EXCEPT ![p].pc = "window", ![p].batch = b,
                                       ![p].next = "preserveRest", ![p].after = "unwind"]
        PROVE  Kept
    <2> DEFINE r == [pr[p] EXCEPT !.pc = "window", !.batch = b, !.next = "preserveRest",
                                  !.after = "unwind"]
    <2>1. Frame(r) /\ Knows(r) /\ r.pc = "window"
      BY ZenonT(40), <1>1, <1>2 DEF Frame, Knows, DrainPcs, Ending, Nexts, Afters
    <2>2. pr' = [pr EXCEPT ![p] = r]
      BY <1>6
    <2>3. Moved(p, r)
      BY <1>1, <2>1, <2>2 DEF Moved
    <2> QED BY <1>1, <2>3, MovedAlone
  <1>7. CASE CompactionReserved(o)
    BY <1>3, <1>4, <1>7 DEF CompactionReserved
  <1>8. CASE PromotionCommitted(o)
    BY <1>4, <1>8 DEF PromotionCommitted, CloseWindow
  <1>9. CASE PreserveRest(o)
    BY <1>5, <1>6, <1>9 DEF PreserveRest, At
  <1> QED BY <1>7, <1>8, <1>9

(* The promotion of the first queued input.                                *)
LEMMA PromoteKeeps ==
  ASSUME ThreadInv, NEW o \in Outcomes, Promote(o)
  PROVE  Kept
  <1> DEFINE p == "recv"
  <1>1. /\ p \in Procs /\ Frame(pr[p]) /\ Knows(pr[p]) /\ active \in MaybeTurn /\ StoreInv
        /\ UNCHANGED <<active, termPub, usedTurns, starts>> /\ pr[p].pc = "promote"
    BY DEF ThreadInv, Control, ProcsKnown, Promote, At, Procs, avars
  <1>2. pr[p].turn \in Turns
    BY <1>1 DEF Knows
  <1>3. QNext
    BY <1>1, <1>2, PromoteStep DEF Promote, Turn
  <1> USE DEF Windows, Publications
  <1>4. CASE Goto(p, "promoted")
    <2>1. Knows([pr[p] EXCEPT !.pc = "promoted"])
      BY <1>1, <1>2 DEF Frame, Knows, DrainPcs, Ending
    <2>2. \E r : Moved(p, r)
      BY <1>1, <1>4, <2>1, GotoMoves
    <2> QED BY <1>1, <1>3, <2>2, MovedAlone
  <1>5. CASE pr' = [pr EXCEPT ![p].pc = "preserveRest", ![p].d = "dead"] /\ UNCHANGED publishing
    <2> DEFINE r == [pr[p] EXCEPT !.pc = "preserveRest", !.d = "dead"]
    <2>1. Frame(r) /\ Knows(r) /\ r.pc = "preserveRest"
      BY ZenonT(40), <1>1, <1>2 DEF Frame, Knows, DrainPcs, Ending, Dispositions
    <2>2. pr' = [pr EXCEPT ![p] = r]
      BY <1>5
    <2>3. Moved(p, r)
      BY <1>1, <1>5, <2>1, <2>2 DEF Moved
    <2> QED BY <1>1, <1>3, <2>3, MovedAlone
  <1> QED BY <1>4, <1>5 DEF Promote

(* The start action of a promotion goes to its caller.                     *)
LEMMA PromotionAnnouncedKeeps ==
  ASSUME ThreadInv, PromotionAnnounced
  PROVE  Kept
  <1> DEFINE p == "recv"
  <1>1. /\ p \in Procs /\ Knows(pr[p]) /\ active \in MaybeTurn /\ usedTurns \subseteq Turns
        /\ UNCHANGED <<qvars, active, termPub, usedTurns>> /\ pr[p].pc = "promoted"
        /\ \A s \in starts : s.turn \in Turns
    BY DEF ThreadInv, Control, ProcsKnown, PromotionAnnounced, At, Procs
  <1>2. StartOf(p).turn \in Turns
    BY <1>1 DEF Knows, StartOf, Turn
  <1>3. \E r : Moved(p, r)
    BY <1>1, ReturnMoves DEF PromotionAnnounced, Publications
  <1>4. ProcsKnown' /\ ReservationsOwned'
    BY <1>1, <1>3, MovedKeeps DEF ThreadInv, Control
  <1> QED BY <1>1, <1>2, <1>4 DEF PromotionAnnounced, Kept, Control

(* Every step of the admission handler.                                    *)
LEMMA ReceiverKeeps ==
  ASSUME ThreadInv, ReceiverStep
  PROVE  Kept
  <1>1. "recv" \in Procs
    BY DEF Procs
  <1>2. CASE EnqueueAnnounced
    BY <1>1, <1>2, ReturnMoves, MovedAlone
    DEF EnqueueAnnounced, ThreadInv, Control, At, Publications, avars
  <1> QED BY <1>1, <1>2, DrainStepKeeps, AdmissionCommittedKeeps, AcceptKeeps, DropKeeps,
             UnwindKeeps, StartNoticeKeeps, ReceiverCommitsKeeps, ApplyTerminalKeeps,
             CompactionKeeps, PromoteKeeps, PromotionAnnouncedKeeps
          DEF ReceiverStep

-----------------------------------------------------------------------------
(* The steps of the Thread: discard *)

(* rollbackTerminalPublication                                             *)
LEMMA RollBackKeeps ==
  ASSUME ThreadInv, QNext, pr["disc"].pc = "commit", RollBackTerminal,
         UNCHANGED <<publishing, usedTurns, starts>>
  PROVE  Kept
  <1> DEFINE p == "disc"
  <1>1. p \in Procs /\ Knows(pr[p]) /\ active \in MaybeTurn
    BY DEF ThreadInv, Control, ProcsKnown, Procs
  <1>2. active' \in MaybeTurn
    BY <1>1 DEF RollBackTerminal, Knows, Turn, MaybeTurn
  <1>3. \E r : Moved(p, r)
    BY <1>1, ReturnMoves DEF RollBackTerminal, TermPubAfter, Turn, Windows
  <1> QED BY <1>1, <1>2, <1>3, MovedAlone

(* The terminal event of a cancelled Turn is committed, or rolled back.    *)
LEMMA DiscardCommitsKeeps ==
  ASSUME ThreadInv, NEW o, DiscardCommits(o) \/ DiscardRefused(o)
  PROVE  Kept
  <1> DEFINE p == "disc"
  <1>1. /\ p \in Procs /\ pr[p].pc = "commit" /\ active \in MaybeTurn /\ StoreInv
        /\ UNCHANGED <<publishing, usedTurns, starts>>
    BY DEF ThreadInv, Control, DiscardCommits, CommitsTerminal, DiscardRefused,
           TerminalRefused, At, Procs, avars
  <1>2. QNext
    BY <1>1, CommitsStep, RefusedStep DEF DiscardCommits, DiscardRefused
  <1>3. CASE RollBackTerminal
    BY <1>1, <1>2, <1>3, RollBackKeeps
  <1>4. CASE /\ pr' = [pr EXCEPT ![p].pc = "apply", ![p].ids = InputIDsForTurn(Turn(p))]
             /\ UNCHANGED <<active, termPub>>
    BY <1>1, <1>2, <1>4, AppliesMoves, MovedAlone DEF At
  <1> QED BY <1>3, <1>4 DEF DiscardCommits, DiscardRefused

(* What is queued behind the cancelled Turn is drained first.              *)
LEMMA CancelStartedKeeps ==
  ASSUME ThreadInv, CancelStarted
  PROVE  Kept
  <1> DEFINE p == "disc"
  <1>1. /\ p \in Procs /\ Frame(pr[p]) /\ Knows(pr[p]) /\ active \in MaybeTurn
        /\ UNCHANGED <<qvars, usedTurns, starts>> /\ pr[p].pc = "cancelling"
    BY DEF ThreadInv, Control, ProcsKnown, CancelStarted, At, Procs, avars
  <1>2. pr[p].turn \in Turns /\ pr[p].d \in Dispositions
    BY <1>1 DEF Knows, Ending
  <1> USE DEF Windows, Publications
  <1>3. CASE /\ pr' = [pr EXCEPT ![p] = Draining(@, live, "cancelling", "cancelFails")]
             /\ UNCHANGED <<active, termPub>>
    <2>1. \E r : Moved(p, r)
      BY <1>1, <1>2, <1>3, DrainingMoves DEF Nexts, Afters
    <2> QED BY <1>1, <1>3, <2>1, MovedAlone
  <1>4. CASE BeginTerminal(p) /\ Goto(p, "commit") /\ UNCHANGED publishing
    <2>1. Knows([pr[p] EXCEPT !.pc = "commit"])
      BY <1>1, <1>2 DEF Frame, Knows, DrainPcs, Ending
    <2>2. \E r : Moved(p, r)
      BY <1>1, <1>4, <2>1, GotoMoves DEF BeginTerminal, Turn
    <2> QED BY <1>1, <1>4, <2>2, MovedAlone DEF BeginTerminal, MaybeTurn
  <1> QED BY <1>3, <1>4 DEF CancelStarted, DrainLive

(* Every step of a discard.                                                *)
LEMMA DiscardKeeps ==
  ASSUME ThreadInv, DiscardStep
  PROVE  Kept
  <1>1. "disc" \in Procs
    BY DEF Procs
  <1>2. CASE DropAnnounced \/ CancelFails
    BY <1>1, <1>2, ReturnMoves, MovedAlone
    DEF DropAnnounced, CancelFails, ThreadInv, Control, At, Publications, Windows, avars
  <1> QED BY <1>1, <1>2, DrainStepKeeps, DiscardCommitsKeeps, ApplyTerminalKeeps,
             CancelStartedKeeps
          DEF DiscardStep

-----------------------------------------------------------------------------
(* The steps of the Thread: calls and deliveries *)

(* A goroutine that enters a call with the record r.                       *)
LEMMA EntersMoves ==
  ASSUME ThreadInv, NEW p \in Procs, At(p, "idle"), NEW r, pr' = [pr EXCEPT ![p] = r],
         Frame(r), Knows(r), UNCHANGED termPub, publishing' => publishing \/ r.pc \in Windows
  PROVE  Moved(p, r)
  BY DEF Moved, At, Windows, Publications

(* The announcement of an enqueued input: a window, or none.               *)
LEMMA AnnounceMoves ==
  ASSUME ThreadInv, NEW p \in Procs, At(p, "idle"), NEW c \in {"enqueued", "dropped"},
         Announce(p, [Idle EXCEPT !.pc = c]), UNCHANGED termPub
  PROVE  \E r : Moved(p, r)
  <1> DEFINE r == [Idle EXCEPT !.pc = c]
  <1>1. CASE Return(p) /\ UNCHANGED publishing
    BY <1>1, ReturnMoves DEF At, Windows, Publications
  <1>2. CASE pr' = [pr EXCEPT ![p] = r]
    <2>1. Frame(r) /\ Knows(r) /\ r.pc \in Windows
      BY DEF Frame, Knows, DrainPcs, Ending, Idle, Windows
    <2> HIDE DEF r
    <2> QED BY <1>2, <2>1, EntersMoves
  <1> QED BY <1>1, <1>2 DEF Announce

(* A message joins the active Turn, or is rejected.                        *)
LEMMA EnqueueNewKeeps ==
  ASSUME ThreadInv, NEW o \in Outcomes, EnqueueNew(o)
  PROVE  Kept
  <1>1. /\ "recv" \in Procs /\ active \in MaybeTurn /\ usedTurns \subseteq Turns
        /\ UNCHANGED <<active, termPub, usedTurns, starts>> /\ At("recv", "idle")
        /\ \A s \in starts : s.turn \in Turns
    BY DEF ThreadInv, Control, EnqueueNew, CanReceive, Procs
  <1>2. QNext
    BY <1>1, FreshFacts DEF EnqueueNew, QNext, MaybeTurn
  <1>3. CASE Announce("recv", Enqueued)
    <2>1. \E r : Moved("recv", r)
      BY <1>1, <1>3, AnnounceMoves DEF Enqueued
    <2> QED BY <1>1, <1>2, <2>1, MovedAlone
  <1>4. CASE UNCHANGED <<publishing, pr>>
    BY <1>1, <1>2, <1>4, StillKeeps
  <1> QED BY <1>3, <1>4 DEF EnqueueNew

(* A message starts a Turn.                                                *)
LEMMA StartNewKeeps ==
  ASSUME ThreadInv, NEW p, NEW src, NEW o \in Outcomes, StartNew(p, src, o)
  PROVE  Kept
  <1>1. /\ p \in Procs /\ active \in MaybeTurn /\ usedTurns \subseteq Turns
        /\ UNCHANGED <<termPub, starts>> /\ pr[p].pc = "idle"
        /\ \A s \in starts : s.turn \in Turns
    BY DEF ThreadInv, Control, StartNew, At, Procs
  <1>2. Fresh \in Inputs /\ NewTurn \in Turns
    BY <1>1, FreshFacts DEF StartNew, CanAdmit
  <1>3. QNext
    BY <1>2 DEF StartNew, QNext
  <1>4. CASE Staged(p, Fresh, NewTurn, src)
    BY <1>1, <1>2, <1>3, <1>4, StagedKeeps
  <1>5. CASE NotStaged
    BY <1>1, <1>3, <1>5, StillKeeps DEF NotStaged
  <1> QED BY <1>4, <1>5 DEF StartNew

(* The handoff of a restart continuation takes the inputs of its Turn.     *)
LEMMA RetryTurnKeeps ==
  ASSUME ThreadInv, NEW t \in Turns, NEW o \in Outcomes, RetryTurn(t, o)
  PROVE  Kept
  <1> DEFINE p == "recv"
             S == RetriableOf(t)
             k == View[CHOOSE i \in S : TRUE].kind
  <1>1. /\ p \in Procs /\ active \in MaybeTurn /\ usedTurns \subseteq Turns
        /\ UNCHANGED <<active, termPub, publishing, usedTurns, starts>> /\ At(p, "idle")
        /\ \A s \in starts : s.turn \in Turns
    BY DEF ThreadInv, Control, RetryTurn, CanReceive, Procs
  <1>2. QNext
    BY DEF RetryTurn, QNext
  <1>3. Fresh \in Inputs
    BY FreshFacts DEF RetryTurn
  <1>4. S \subseteq Inputs /\ S # {}
    BY DEF RetryTurn, RetryTurnInputs, RetriableOf
  <1>5. k \in {"retry", "restart"}
    <2>1. PICK i \in S : i = CHOOSE j \in S : TRUE
      BY <1>4
    <2>2. View[i] \in Record /\ View[i].state = "retryable" /\ View[i].kind # "none"
      BY <1>4, <2>1, ViewFacts, ViewKinded DEF RetriableOf, Kinded, ThreadInv
    <2> QED BY <2>1, <2>2 DEF Record
  <1>6. CASE UNCHANGED pr
    BY <1>1, <1>2, <1>6, StillKeeps
  <1>7. CASE pr' = [pr EXCEPT ![p] = [Idle EXCEPT
                      !.pc = "notice", !.input = Fresh, !.src = "direct", !.retried = S,
                      !.from = t, !.kind = k]]
    <2> DEFINE f == Fresh
               r == [Idle EXCEPT !.pc = "notice", !.input = f, !.src = "direct", !.retried = S,
                                 !.from = t, !.kind = k]
    <2>1. pr' = [pr EXCEPT ![p] = r] /\ f \in Inputs
      BY <1>3, <1>7
    <2> HIDE DEF f, S, k
    <2>2. Frame(r) /\ Knows(r)
      BY ZenonT(40), <1>4, <1>5, <2>1 DEF Frame, Knows, DrainPcs, Ending, Idle
    <2> HIDE DEF r
    <2> QED BY <1>1, <1>2, <2>1, <2>2, EntersMoves, MovedAlone
  <1> QED BY <1>6, <1>7 DEF RetryTurn

(* A Turn is reserved for a compaction, or for the promotion after one.    *)
LEMMA NewTurnKeeps ==
  ASSUME ThreadInv, At("recv", "idle"), NEW r, Frame(r), Knows(r), r.pc \in Windows,
         TurnLeft, active' = NewTurn, usedTurns' = usedTurns \cup {NewTurn},
         pr' = [pr EXCEPT !["recv"] = r], UNCHANGED <<qvars, termPub, starts>>
  PROVE  Kept
  <1>1. /\ "recv" \in Procs /\ usedTurns \subseteq Turns /\ \A s \in starts : s.turn \in Turns
        /\ ProcsKnown /\ ReservationsOwned
    BY DEF ThreadInv, Control, Procs
  <1>2. NewTurn \in Turns
    BY <1>1, FreshFacts
  <1>3. Moved("recv", r)
    BY <1>1, EntersMoves
  <1>4. ProcsKnown' /\ ReservationsOwned'
    BY <1>1, <1>3, MovedKeeps
  <1> QED BY <1>1, <1>2, <1>4 DEF Kept, Control, MaybeTurn

(* The handler that announces such a Turn.                                 *)
LEMMA ReservingKnows ==
  ASSUME NEW t \in Turns, NEW i
  PROVE  /\ LET r == [Idle EXCEPT !.pc = "reserving", !.turn = t] IN
            Frame(r) /\ Knows(r) /\ r.pc \in Windows
         /\ LET r == [Idle EXCEPT !.pc = "promoting", !.turn = t, !.input = i,
                                  !.src = "direct"] IN
            Frame(r) /\ Knows(r) /\ r.pc \in Windows
  BY DEF Frame, Knows, DrainPcs, Ending, Idle, Windows

(* A source withdraws an input that waits.                                 *)
LEMMA DiscardQueuedKeeps ==
  ASSUME ThreadInv, NEW i \in External, NEW o \in Outcomes, DiscardQueued(i, o)
  PROVE  Kept
  <1>1. /\ "disc" \in Procs /\ active \in MaybeTurn /\ usedTurns \subseteq Turns
        /\ UNCHANGED <<active, termPub, usedTurns, starts>> /\ At("disc", "idle")
        /\ \A s \in starts : s.turn \in Turns
    BY DEF ThreadInv, Control, DiscardQueued, CanDiscard, Procs
  <1>2. {i} \in SUBSET Inputs
    BY InputsAssumption
  <1>3. QNext
    BY <1>2 DEF DiscardQueued, QNext
  <1>4. CASE Announce("disc", [Idle EXCEPT !.pc = "dropped"])
    <2>1. \E r : Moved("disc", r)
      BY <1>1, <1>4, AnnounceMoves
    <2> QED BY <1>1, <1>3, <2>1, MovedAlone
  <1>5. CASE UNCHANGED <<pr, publishing>>
    BY <1>1, <1>3, <1>5, StillKeeps
  <1> QED BY <1>4, <1>5 DEF DiscardQueued

(* A source withdraws the input that started the active Turn.              *)
LEMMA DiscardStartedKeeps ==
  ASSUME ThreadInv, NEW i \in External, DiscardStarted(i)
  PROVE  Kept
  <1> DEFINE p == "disc"
             r == [Idle EXCEPT !.pc = "cancelling", !.turn = active, !.input = i,
                               !.d = "cancelled"]
  <1>1. /\ p \in Procs /\ active \in Turns /\ UNCHANGED <<qvars, active, termPub, publishing>>
        /\ UNCHANGED <<usedTurns, starts>> /\ At(p, "idle") /\ pr' = [pr EXCEPT ![p] = r]
    BY DEF ThreadInv, Control, DiscardStarted, CanDiscard, Triggers, Procs, MaybeTurn
  <1>2. Frame(r) /\ Knows(r)
    BY <1>1 DEF Frame, Knows, DrainPcs, Ending, Idle, Dispositions
  <1> HIDE DEF r
  <1> QED BY <1>1, <1>2, EntersMoves, MovedAlone DEF MaybeTurn

(* An external input is accepted under the identity of its source.         *)
LEMMA PersistExternalKeeps ==
  ASSUME ThreadInv, NEW i \in External, NEW o \in Outcomes, PersistExternal(i, o)
  PROVE  Kept
  <1>1. [QNext]_qvars
    BY InputsAssumption DEF PersistExternal, QNext, ThreadInv, Control, MaybeTurn
  <1> QED BY <1>1, StillKeeps DEF PersistExternal, ThreadInv, Control

(* Every call of the environment.                                          *)
LEMMA CallsKeep ==
  ASSUME ThreadInv, Calls
  PROVE  Kept
  <1>1. CASE RejectFull
    <2>1. /\ "recv" \in Procs /\ active \in MaybeTurn /\ At("recv", "idle")
          /\ UNCHANGED <<qvars, active, termPub, usedTurns, starts>>
      BY <1>1 DEF ThreadInv, Control, RejectFull, CanReceive, Procs, avars
    <2>2. \E r : Moved("recv", r)
      BY <1>1, <2>1, AnnounceMoves DEF RejectFull, Enqueued
    <2> QED BY <2>1, <2>2, MovedAlone
  <1>2. CASE ReserveCompaction
    <2>1. NewTurn \in Turns
      BY <1>2, FreshFacts DEF ReserveCompaction, CanAdmit, ThreadInv, Control
    <2> QED BY <1>2, <2>1, ReservingKnows, NewTurnKeeps
            DEF ReserveCompaction, CanReceive, CanAdmit
  <1>3. CASE ReserveMaintenance \/ ReleaseMaintenance
    BY <1>3, StillKeeps DEF ReserveMaintenance, ReleaseMaintenance, evars, ThreadInv, Control
  <1> QED BY <1>1, <1>2, <1>3, EnqueueNewKeeps, StartNewKeeps, RetryTurnKeeps,
             PersistExternalKeeps, DiscardQueuedKeeps, DiscardStartedKeeps
          DEF Calls

(* Every delivery of a persisted input.                                    *)
LEMMA DeliverKeeps ==
  ASSUME ThreadInv, NEW i \in Inputs, Deliver(i)
  PROVE  Kept
  <1>1. /\ "recv" \in Procs /\ active \in MaybeTurn /\ usedTurns \subseteq Turns
        /\ \A s \in starts : s.turn \in Turns
    BY DEF ThreadInv, Control, Procs
  <1>2. CASE ResumeInert(i)
    BY <1>1, <1>2, StillKeeps DEF ResumeInert, evars
  <1>3. ASSUME NEW o \in Outcomes, ResumeExpired(i, o) PROVE Kept
    <2>1. {i} \in SUBSET Inputs
      OBVIOUS
    <2>2. QNext
      BY <1>3, <2>1 DEF ResumeExpired, QNext
    <2> QED BY <1>1, <1>3, <2>2, StillKeeps DEF ResumeExpired
  <1>4. CASE ResumeJoins(i)
    <2>1. At("recv", "idle") /\ UNCHANGED <<qvars, active, termPub, usedTurns, starts>>
      BY <1>4 DEF ResumeJoins, Deliverable, CanReceive
    <2>2. \E r : Moved("recv", r)
      BY <1>1, <1>4, <2>1, AnnounceMoves DEF ResumeJoins, Enqueued
    <2> QED BY <1>1, <2>1, <2>2, MovedAlone
  <1>5. CASE ResumeStarts(i)
    <2>1. NewTurn \in Turns /\ pr["recv"].pc = "idle"
      BY <1>1, <1>5, FreshFacts DEF ResumeStarts, CanAdmit, Deliverable, CanReceive, At
    <2> QED BY <1>1, <1>5, <2>1, StagedKeeps DEF ResumeStarts
  <1> QED BY <1>2, <1>3, <1>4, <1>5 DEF Deliver

(* The end of a compaction.                                                *)
LEMMA EndCompactionKeeps ==
  ASSUME ThreadInv, EndCompaction
  PROVE  Kept
  <1>1. /\ active \in MaybeTurn /\ usedTurns \subseteq Turns /\ \A s \in starts : s.turn \in Turns
    BY DEF ThreadInv, Control
  <1>2. CASE PromotionRefused
    BY <1>1, <1>2, StillKeeps DEF PromotionRefused, evars
  <1>3. CASE FinishCompaction
    <2>1. UNCHANGED <<qvars, termPub, starts>> /\ At("recv", "idle")
      BY <1>3 DEF FinishCompaction, CanReceive
    <2>2. CASE /\ active' = (IF active = compacting THEN NoTurn ELSE active)
               /\ UNCHANGED <<pr, publishing, lock, usedTurns>>
      BY <1>1, <2>1, <2>2, StillKeeps DEF MaybeTurn
    <2>3. CASE /\ TurnLeft /\ active' = NewTurn /\ usedTurns' = usedTurns \cup {NewTurn}
               /\ pr' = [pr EXCEPT !["recv"] = [Idle EXCEPT !.pc = "promoting",
                            !.turn = NewTurn, !.input = Head(live), !.src = "direct"]]
      <3>1. NewTurn \in Turns
        BY <1>1, <2>3, FreshFacts
      <3> QED BY <2>1, <2>3, <3>1, ReservingKnows, NewTurnKeeps
    <2> QED BY <1>3, <2>2, <2>3 DEF FinishCompaction
  <1> QED BY <1>2, <1>3 DEF EndCompaction

-----------------------------------------------------------------------------
(* The steps of the Thread: execution *)

(* A step of the executor alone.                                           *)
LEMMA ExecMoves ==
  ASSUME ThreadInv, NEW r, pr' = [pr EXCEPT !["exec"] = r], Frame(r), Knows(r),
         pr["exec"].pc \notin Windows \cup Publications,
         publishing' => publishing \/ r.pc \in Windows, UNCHANGED termPub, [QNext]_qvars,
         UNCHANGED <<active, usedTurns, starts>>
  PROVE  Kept
  <1>1. "exec" \in Procs
    BY DEF Procs
  <1>2. Moved("exec", r)
    BY DEF Moved
  <1> QED BY <1>1, <1>2, MovedAlone DEF ThreadInv, Control

(* Its pc alone, or its pc and the error it will report.                   *)
LEMMA ExecKnows ==
  ASSUME NEW r, Frame(r), Knows(r), r.turn \in Turns,
         r.pc \notin DrainPcs \cup {"idle", "notice", "staged", "accept", "drop"}
  PROVE  /\ \A c \in {"markDone", "startMark", "loop", "provider", "finish", "done"} :
               Frame([r EXCEPT !.pc = c]) /\ Knows([r EXCEPT !.pc = c])
         /\ \A c \in {"restoreFail", "fail"}, d \in Dispositions :
               /\ Frame([r EXCEPT !.pc = c, !.d = d]) /\ Knows([r EXCEPT !.pc = c, !.d = d])
         /\ \A td : LET x == [r EXCEPT !.pc = "restoreFail", !.d = "dead", !.todo = td] IN
                    Frame(x) /\ Knows(x)
         /\ \A td : LET x == [r EXCEPT !.pc = "restoreTake", !.todo = td] IN
                    Frame(x) /\ Knows(x)
         /\ \A td, al : LET x == [r EXCEPT !.pc = "start", !.todo = td, !.already = al] IN
                    Frame(x) /\ Knows(x)
         /\ r.d \in Dispositions =>
               /\ Frame([r EXCEPT !.pc = "lateMark"]) /\ Knows([r EXCEPT !.pc = "lateMark"])
               /\ Frame(Fails(r)) /\ Knows(Fails(r))
               /\ \A al : LET x == [r EXCEPT !.pc = "preserve", !.after = "lateStart",
                                             !.already = al] IN
                          Frame(x) /\ Knows(x)
  <1> USE DEF DrainPcs, Ending, Nexts, Afters
  <1>1. ASSUME NEW c \in {"markDone", "startMark", "loop", "provider", "finish", "done"}
        PROVE  Frame([r EXCEPT !.pc = c]) /\ Knows([r EXCEPT !.pc = c])
    BY DEF Frame, Knows
  <1>2. ASSUME NEW c \in {"restoreFail", "fail"}, NEW d \in Dispositions
        PROVE  Frame([r EXCEPT !.pc = c, !.d = d]) /\ Knows([r EXCEPT !.pc = c, !.d = d])
    BY DEF Frame, Knows
  <1>3. ASSUME NEW td
        PROVE  LET x == [r EXCEPT !.pc = "restoreFail", !.d = "dead", !.todo = td] IN
               Frame(x) /\ Knows(x)
    BY ZenonT(40) DEF Frame, Knows, Dispositions
  <1>4. ASSUME NEW td
        PROVE  LET x == [r EXCEPT !.pc = "restoreTake", !.todo = td] IN Frame(x) /\ Knows(x)
    BY DEF Frame, Knows
  <1>5. ASSUME NEW td, NEW al
        PROVE  LET x == [r EXCEPT !.pc = "start", !.todo = td, !.already = al] IN
               Frame(x) /\ Knows(x)
    BY ZenonT(40) DEF Frame, Knows
  <1>6. ASSUME r.d \in Dispositions
        PROVE  /\ Frame([r EXCEPT !.pc = "lateMark"]) /\ Knows([r EXCEPT !.pc = "lateMark"])
               /\ Frame(Fails(r)) /\ Knows(Fails(r))
    BY <1>6 DEF Frame, Knows, Fails
  <1>7. ASSUME r.d \in Dispositions, NEW al
        PROVE  LET x == [r EXCEPT !.pc = "preserve", !.after = "lateStart", !.already = al] IN
               Frame(x) /\ Knows(x)
    BY <1>7 DEF Frame, Knows
  <1> QED BY <1>1, <1>2, <1>3, <1>4, <1>5, <1>6, <1>7

(* What the executor knows between two of its steps.                       *)
LEMMA ExecutorFacts ==
  ASSUME ThreadInv
  PROVE  /\ Frame(X) /\ Knows(X) /\ StoreInv
         /\ X.pc \notin DrainPcs \cup Windows \cup {"idle", "notice", "unwind", "accept", "drop"}
               => X.turn \in Turns
         /\ X.pc \in Ending => X.d \in Dispositions
  BY DEF ThreadInv, Control, ProcsKnown, Procs, X, Knows, Windows, DrainPcs, Ending

(* A list of what is replayable replaces what the executor has to do.      *)
LEMMA RestoreKeeps ==
  ASSUME ThreadInv, NEW S \in SUBSET Inputs, NEW o, Restore(S, o)
  PROVE  Kept
  <1>1. Frame(X) /\ Knows(X) /\ X.pc = "restore" /\ X.turn \in Turns
    BY ExecutorFacts DEF Restore, At, X, DrainPcs, Windows
  <1>2. [QNext]_qvars
    BY DEF Restore, QNext
  <1>3. UNCHANGED <<active, termPub, publishing, usedTurns, starts>>
    BY DEF Restore, avars
  <1> USE DEF DrainPcs, Windows, Publications
  <1>4. ASSUME NEW c \in {"fail", "restoreFail"},
               pr' = [pr EXCEPT !["exec"].pc = c, !["exec"].d = "dead"]
        PROVE  Kept
    <2> DEFINE r == [X EXCEPT !.pc = c, !.d = "dead"]
    <2>1. Frame(r) /\ Knows(r)
      BY <1>1, ExecKnows DEF Dispositions
    <2>2. pr' = [pr EXCEPT !["exec"] = r]
      BY <1>4 DEF X
    <2> HIDE DEF r
    <2> QED BY <1>1, <1>2, <1>3, <2>1, <2>2, ExecMoves DEF X
  <1>5. ASSUME NEW td, pr' = [pr EXCEPT !["exec"].pc = "restoreTake", !["exec"].todo = td]
        PROVE  Kept
    <2> DEFINE r == [X EXCEPT !.pc = "restoreTake", !.todo = td]
    <2>1. Frame(r) /\ Knows(r)
      BY <1>1, ExecKnows
    <2>2. pr' = [pr EXCEPT !["exec"] = r]
      BY <1>5 DEF X
    <2> HIDE DEF r
    <2> QED BY <1>1, <1>2, <1>3, <2>1, <2>2, ExecMoves DEF X
  <1> QED BY <1>4, <1>5 DEF Restore

(* How the executor goes on with what it restores.                         *)
LEMMA RestoreTakeMoves ==
  ASSUME Frame(X), RestoreTake
  PROVE  \E r : /\ pr' = [pr EXCEPT !["exec"] = r] /\ Frame(r)
                /\ r.pc \in {"window", "admit", "mark"}
                /\ publishing' => publishing \/ r.pc = "window"
                /\ r.turn = X.turn /\ r.next = "restoreTake" /\ r.after = "mark"
                /\ r.ids = X.ids /\ r.retried = X.retried /\ r.from = X.from
                /\ r.kind = X.kind
  <1> DEFINE k == ScanStop(X.todo)
             scanned == IF k = 0 THEN X.todo ELSE SubSeq(X.todo, 1, k - 1)
             rest == IF k = 0 THEN <<>> ELSE SubSeq(X.todo, k, Len(X.todo))
             queued == Untranscribed(scanned)
             later == IF rest = <<>> THEN <<>> ELSE Tail(rest)
             Found(seq) == {i \in ToSet(seq) : Transcribed(i)}
             Taken(pc, batch, todo, found, d) ==
                [X EXCEPT !.pc = pc, !.batch = batch, !.todo = todo, !.next = "restoreTake",
                          !.after = "mark", !.already = @ \cup found, !.d = d]
             first == Taken("window", queued, rest, Found(scanned), "dead")
             second == Taken("admit", <<Head(rest)>>, Tail(rest), Found(scanned), "dead")
             third == Taken("mark", <<>>, Untranscribed(later), Found(scanned) \cup Found(later),
                            "none")
  <1>1. \/ pr' = [pr EXCEPT !["exec"] = first] /\ OpenWindow
        \/ pr' = [pr EXCEPT !["exec"] = second] /\ UNCHANGED publishing
        \/ pr' = [pr EXCEPT !["exec"] = third] /\ UNCHANGED publishing
    <2>1. CASE queued # <<>>
      BY <2>1 DEF RestoreTake, X
    <2>2. CASE queued = <<>> /\ rest # <<>> /\ Head(rest) # X.input
      BY <2>2 DEF RestoreTake, X
    <2>3. CASE queued = <<>> /\ (rest # <<>> => Head(rest) = X.input)
      BY <2>3 DEF RestoreTake, X
    <2> QED BY <2>1, <2>2, <2>3
  <1>2. ASSUME NEW pc, NEW b, NEW td, NEW found, NEW d
        PROVE  LET r == Taken(pc, b, td, found, d) IN
               /\ Frame(r) /\ r.pc = pc /\ r.turn = X.turn /\ r.next = "restoreTake"
               /\ r.after = "mark" /\ r.ids = X.ids /\ r.retried = X.retried
               /\ r.from = X.from /\ r.kind = X.kind
    BY DEF Frame
  <1> HIDE DEF k, scanned, rest, queued, later, Found, Taken
  <1>3. /\ first.pc = "window" /\ second.pc = "admit" /\ third.pc = "mark"
        /\ \A r \in {first, second, third} :
              /\ Frame(r) /\ r.turn = X.turn /\ r.next = "restoreTake"
              /\ r.after = "mark" /\ r.ids = X.ids /\ r.retried = X.retried
              /\ r.from = X.from /\ r.kind = X.kind
    BY <1>2
  <1> HIDE DEF first, second, third
  <1> QED BY <1>1, <1>3 DEF OpenWindow

(* What the executor restores goes behind the Turn it executes.            *)
LEMMA RestoreTakeKeeps ==
  ASSUME ThreadInv, RestoreTake
  PROVE  Kept
  <1>1. Frame(X) /\ Knows(X) /\ X.pc = "restoreTake" /\ X.turn \in Turns
    BY ExecutorFacts DEF RestoreTake, At, X, DrainPcs, Windows
  <1>2. UNCHANGED <<qvars, active, termPub, usedTurns, starts>>
    BY DEF RestoreTake, avars
  <1>3. PICK r : /\ pr' = [pr EXCEPT !["exec"] = r] /\ Frame(r)
                 /\ r.pc \in {"window", "admit", "mark"}
                 /\ publishing' => publishing \/ r.pc = "window"
                 /\ r.turn = X.turn /\ r.next = "restoreTake" /\ r.after = "mark"
                 /\ r.ids = X.ids /\ r.retried = X.retried /\ r.from = X.from
                 /\ r.kind = X.kind
    BY <1>1, RestoreTakeMoves
  <1>4. Knows(r)
    BY <1>1, <1>3 DEF Knows, DrainPcs, Ending, Nexts, Afters
  <1> QED BY <1>1, <1>2, <1>3, <1>4, ExecMoves DEF X, Windows, Publications

(* A start action is refused, or executed: Claiming is what the executor   *)
(* knows then.                                                             *)
LEMMA ClaimingKnows ==
  ASSUME NEW s, s.turn \in Turns, NEW i
  PROVE  /\ Frame(Claiming(s, i)) /\ Knows(Claiming(s, i))
         /\ i \in Inputs => LET r == [Claiming(s, i) EXCEPT !.pc = "staged", !.src = "sync"] IN
                            Frame(r) /\ Knows(r) /\ r.pc = "staged"
  <1> DEFINE t == s.turn
             src == s.src
             r == [Idle EXCEPT !.pc = "restore", !.turn = t, !.input = i, !.src = src]
  <1>1. Claiming(s, i) = r /\ t \in Turns
    BY DEF Claiming
  <1> HIDE DEF t, src
  <1>2. Frame(r) /\ Knows(r)
    BY <1>1 DEF Frame, Knows, DrainPcs, Ending, Idle
  <1>3. ASSUME i \in Inputs
        PROVE  LET x == [r EXCEPT !.pc = "staged", !.src = "sync"] IN
               Frame(x) /\ Knows(x) /\ x.pc = "staged"
    BY <1>1, <1>3 DEF Frame, Knows, DrainPcs, Ending, Idle
  <1> QED BY <1>1, <1>2, <1>3

(* Claiming a start action.                                                *)
LEMMA ClaimKeeps ==
  ASSUME ThreadInv, NEW s \in starts, ClaimStep(s)
  PROVE  Kept
  <1>1. /\ "exec" \in Procs /\ active \in MaybeTurn /\ usedTurns \subseteq Turns
        /\ \A q \in starts : q.turn \in Turns
        /\ ProcsKnown /\ ReservationsOwned
    BY DEF ThreadInv, Control, Procs
  <1>2. s.turn \in Turns
    BY <1>1
  <1>3. ASSUME NEW r, At("exec", "idle"), pr' = [pr EXCEPT !["exec"] = r], Frame(r), Knows(r),
               UNCHANGED <<termPub, usedTurns>>, publishing' => publishing \/ r.pc \in Windows,
               active' \in MaybeTurn, starts' = starts \ {s}, [QNext]_qvars
        PROVE  Kept
    <2>1. Moved("exec", r)
      BY <1>1, <1>3, EntersMoves
    <2>2. ProcsKnown' /\ ReservationsOwned'
      BY <1>1, <2>1, MovedKeeps
    <2> QED BY <1>1, <1>3, <2>2 DEF Kept, Control
  <1>4. CASE RefuseClaim(s)
    BY <1>1, <1>4, StillKeeps DEF RefuseClaim, evars
  <1>5. CASE Claim(s)
    BY <1>1, <1>2, <1>3, <1>5, ClaimingKnows DEF Claim, CanClaim
  <1>6. ASSUME NEW o \in Outcomes, Reclaim(s, o) PROVE Kept
    <2>1. Fresh \in Inputs
      BY <1>6, FreshFacts DEF Reclaim
    <2>2. QNext
      BY <1>2, <1>6, <2>1 DEF Reclaim, QNext
    <2>3. /\ At("exec", "idle") /\ UNCHANGED <<termPub, usedTurns>> /\ starts' = starts \ {s}
      BY <1>6 DEF Reclaim, CanClaim
    <2>4. CASE UNCHANGED <<active, pr, publishing>>
      BY <1>1, <2>2, <2>3, <2>4, StillKeeps
    <2>5. CASE /\ pr' = [pr EXCEPT !["exec"] = Claiming(s, Fresh)]
               /\ UNCHANGED <<active, publishing>>
      BY <1>1, <1>2, <1>3, <2>2, <2>3, <2>5, ClaimingKnows
    <2>6. CASE /\ active' = s.turn
               /\ pr' = [pr EXCEPT !["exec"] = [Claiming(s, Fresh) EXCEPT !.pc = "staged",
                                                                         !.src = "sync"]]
      <3> DEFINE r == [Claiming(s, Fresh) EXCEPT !.pc = "staged", !.src = "sync"]
      <3>1. Frame(r) /\ Knows(r) /\ r.pc \in Windows
        BY <1>2, <2>1, ClaimingKnows DEF Windows
      <3> HIDE DEF r
      <3>2. pr' = [pr EXCEPT !["exec"] = r] /\ active' \in MaybeTurn
        BY <1>2, <2>6 DEF r, MaybeTurn
      <3> QED BY <1>3, <2>2, <2>3, <3>1, <3>2
    <2> QED BY <1>6, <2>4, <2>5, <2>6 DEF Reclaim
  <1> QED BY <1>4, <1>5, <1>6 DEF ClaimStep

(* Marking what the transcript already holds.                              *)
LEMMA MarkAlreadyKeeps ==
  ASSUME ThreadInv, NEW o \in Outcomes, MarkAlreadyAdmitted(o) \/ MarkAlreadyProcessed(o)
  PROVE  Kept
  <1>1. /\ Frame(X) /\ Knows(X) /\ X.pc \in {"mark", "markDone"} /\ X.turn \in Turns
        /\ UNCHANGED <<active, termPub, publishing, usedTurns, starts>>
    BY ExecutorFacts
    DEF MarkAlreadyAdmitted, MarkAlreadyProcessed, At, X, DrainPcs, Windows, avars
  <1>2. [QNext]_qvars
    BY <1>1, MarkAdmittedStep, MarkProcessedStep DEF MarkAlreadyAdmitted, MarkAlreadyProcessed
  <1> USE DEF DrainPcs, Windows, Publications
  <1>3. CASE MarkFails
    <2> DEFINE r == [X EXCEPT !.pc = "restoreFail", !.d = "dead", !.todo = <<>>]
    <2>1. Frame(r) /\ Knows(r)
      BY <1>1, ExecKnows
    <2>2. pr' = [pr EXCEPT !["exec"] = r]
      BY <1>3 DEF MarkFails, X
    <2> HIDE DEF r
    <2> QED BY <1>1, <1>2, <2>1, <2>2, ExecMoves DEF X
  <1>4. CASE Goto("exec", "markDone")
    <2> DEFINE r == [X EXCEPT !.pc = "markDone"]
    <2>1. Frame(r) /\ Knows(r)
      BY <1>1, ExecKnows
    <2>2. pr' = [pr EXCEPT !["exec"] = r]
      BY <1>4 DEF Goto, X
    <2> HIDE DEF r
    <2> QED BY <1>1, <1>2, <2>1, <2>2, ExecMoves DEF X
  <1>5. CASE pr' = [pr EXCEPT !["exec"].pc = "start", !["exec"].todo = <<>>,
                              !["exec"].already = {}]
    <2> DEFINE r == [X EXCEPT !.pc = "start", !.todo = <<>>, !.already = {}]
    <2>1. Frame(r) /\ Knows(r)
      BY <1>1, ExecKnows
    <2>2. pr' = [pr EXCEPT !["exec"] = r]
      BY <1>5 DEF X
    <2> HIDE DEF r
    <2> QED BY <1>1, <1>2, <2>1, <2>2, ExecMoves DEF X
  <1> QED BY <1>3, <1>4, <1>5 DEF MarkAlreadyAdmitted, MarkAlreadyProcessed

(* A failed restoration preserves what is queued and then records the      *)
(* input of the Turn.                                                      *)
LEMMA LateKeeps ==
  ASSUME ThreadInv,
         NEW o, RestoreFails \/ LateStart(o) \/ (o \in Outcomes /\ LateMark(o)) \/ Fail
  PROVE  Kept
  <1>1. /\ Frame(X) /\ Knows(X) /\ X.pc \in {"restoreFail", "lateStart", "lateMark", "fail"}
        /\ X.turn \in Turns /\ X.d \in Dispositions
        /\ UNCHANGED <<active, termPub, publishing, usedTurns, starts>>
    BY ExecutorFacts DEF RestoreFails, LateStart, LateMark, Fail, Moves, At, X, DrainPcs,
                         Windows, avars, Ending
  <1>2. [QNext]_qvars
    BY MarkProcessedStep DEF RestoreFails, LateStart, LateMark, Fail, Moves
  <1> USE DEF DrainPcs, Windows, Publications
  <1>3. CASE pr' = [pr EXCEPT !["exec"] = [X EXCEPT !.pc = "preserve", !.after = "lateStart",
                                                    !.already = {}]]
    <2> DEFINE r == [X EXCEPT !.pc = "preserve", !.after = "lateStart", !.already = {}]
    <2>1. Frame(r) /\ Knows(r)
      BY <1>1, ExecKnows
    <2> HIDE DEF r
    <2> QED BY <1>1, <1>2, <1>3, <2>1, ExecMoves DEF X, r
  <1>4. CASE pr' = [pr EXCEPT !["exec"] = Fails(X)]
    <2>1. Frame(Fails(X)) /\ Knows(Fails(X))
      BY <1>1, ExecKnows
    <2> QED BY <1>1, <1>2, <1>4, <2>1, ExecMoves DEF X
  <1>5. CASE pr' = [pr EXCEPT !["exec"] = [X EXCEPT !.pc = "lateMark"]]
    <2> DEFINE r == [X EXCEPT !.pc = "lateMark"]
    <2>1. Frame(r) /\ Knows(r)
      BY <1>1, ExecKnows
    <2> HIDE DEF r
    <2> QED BY <1>1, <1>2, <1>5, <2>1, ExecMoves DEF X, r
  <1> QED BY <1>3, <1>4, <1>5 DEF RestoreFails, LateStart, LateMark, Fail, Moves, X

(* The pcs between which the executor of a Turn goes without a reservation. *)
LEMMA ExecGoes ==
  ASSUME ThreadInv, X.turn \in Turns, [QNext]_qvars,
         X.pc \in {"restore", "start", "startMark", "loop", "iterate", "drainFail", "provider",
                   "finish"},
         \/ \E c \in {"startMark", "loop", "provider", "finish"} :
               pr' = [pr EXCEPT !["exec"] = [X EXCEPT !.pc = c]]
         \/ \E c \in {"fail", "restoreFail"}, d \in Dispositions :
               pr' = [pr EXCEPT !["exec"] = [X EXCEPT !.pc = c, !.d = d]],
         UNCHANGED <<active, termPub, publishing, usedTurns, starts>>
  PROVE  Kept
  <1> USE DEF DrainPcs, Windows, Publications
  <1>1. Frame(X) /\ Knows(X)
    BY ExecutorFacts
  <1>2. ASSUME NEW c \in {"startMark", "loop", "provider", "finish"},
               pr' = [pr EXCEPT !["exec"] = [X EXCEPT !.pc = c]]
        PROVE  Kept
    <2> DEFINE r == [X EXCEPT !.pc = c]
    <2>1. Frame(r) /\ Knows(r)
      BY <1>1, ExecKnows
    <2> HIDE DEF r
    <2> QED BY <1>1, <1>2, <2>1, ExecMoves DEF X, r
  <1>3. ASSUME NEW c \in {"fail", "restoreFail"}, NEW d \in Dispositions,
               pr' = [pr EXCEPT !["exec"] = [X EXCEPT !.pc = c, !.d = d]]
        PROVE  Kept
    <2> DEFINE r == [X EXCEPT !.pc = c, !.d = d]
    <2>1. Frame(r) /\ Knows(r)
      BY <1>1, ExecKnows
    <2> HIDE DEF r
    <2> QED BY <1>1, <1>3, <2>1, ExecMoves DEF X, r
  <1> QED BY <1>2, <1>3

(* The start of the Turn is recorded.                                      *)
LEMMA StartKeeps ==
  ASSUME ThreadInv,
         NEW o, RecordStart(o) \/ (o \in Outcomes /\ \E b \in BOOLEAN : MarkStart(o, b))
  PROVE  Kept
  <1>1. /\ X.pc \in {"start", "startMark"} /\ X.turn \in Turns
        /\ UNCHANGED <<active, termPub, publishing, usedTurns, starts>>
    BY ExecutorFacts DEF RecordStart, MarkStart, At, X, DrainPcs, Windows, avars
  <1>2. [QNext]_qvars
    BY MarkProcessedStep DEF RecordStart, MarkStart
  <1>3. \/ \E c \in {"startMark", "loop"} : pr' = [pr EXCEPT !["exec"] = [X EXCEPT !.pc = c]]
        \/ pr' = [pr EXCEPT !["exec"] = [X EXCEPT !.pc = "fail", !.d = "dead"]]
    BY DEF RecordStart, MarkStart, X
  <1> QED BY <1>1, <1>2, <1>3, ExecGoes DEF Dispositions

(* The provider answers, fails or goes on.                                 *)
LEMMA ProviderKeeps ==
  ASSUME ThreadInv, ProviderStep \/ ProviderFinishes \/ Release
  PROVE  Kept
  <1>1. /\ X.pc \in {"provider", "restore", "iterate", "drainFail"} /\ X.turn \in Turns
        /\ UNCHANGED <<qvars, active, termPub, publishing, usedTurns, starts>>
    BY ExecutorFacts DEF ProviderStep, ProviderContinues, ProviderFails, RestoreCancelled,
       ProviderFinishes, Release, Moves, At, X, DrainPcs, Windows, avars
  <1>2. ErrKinds \subseteq Dispositions /\ "dead" \in Dispositions
    BY ErrKindsAssumption DEF Dispositions
  <1>3. CASE ProviderContinues \/ ProviderFinishes
    BY <1>1, <1>3, ExecGoes DEF ProviderContinues, ProviderFinishes, Moves
  <1>4. ASSUME NEW d \in ErrKinds, ProviderFails(d) \/ RestoreCancelled(d) PROVE Kept
    BY <1>1, <1>2, <1>4, ExecGoes DEF ProviderFails, RestoreCancelled, Moves
  <1>5. CASE Release
    BY <1>1, <1>2, <1>5, ExecGoes DEF Release, Moves
  <1> QED BY <1>3, <1>4, <1>5 DEF ProviderStep

(* The executor drains the live queue between two rounds.                  *)
LEMMA DrainKeeps ==
  ASSUME ThreadInv, Drain
  PROVE  Kept
  <1>1. /\ X.pc = "loop" /\ X.turn \in Turns /\ active \in MaybeTurn /\ "exec" \in Procs
        /\ UNCHANGED <<qvars, active, termPub, usedTurns, starts>>
    BY ExecutorFacts DEF Drain, At, X, DrainPcs, Windows, avars, ThreadInv, Control, Procs
  <1>2. CASE Goto("exec", "provider") /\ UNCHANGED publishing
    BY <1>1, <1>2, ExecGoes DEF Goto, X
  <1>3. CASE pr' = [pr EXCEPT !["exec"] = Draining(@, live, "iterate", "drainFail")]
    <2>1. \E r : Moved("exec", r)
      BY <1>1, <1>3, DrainingMoves DEF X, Nexts, Afters, Ending, Publications
    <2> QED BY <1>1, <2>1, MovedAlone
  <1> QED BY <1>2, <1>3 DEF Drain

(* The Turn begins to end, completed or failed.                            *)
LEMMA EndsKeeps ==
  ASSUME ThreadInv, Finish \/ Terminate
  PROVE  Kept
  <1> DEFINE p == "exec"
  <1>1. /\ p \in Procs /\ Frame(X) /\ Knows(X) /\ X.pc \in {"finish", "terminal"}
        /\ X.turn \in Turns /\ X = pr[p]
        /\ active \in MaybeTurn /\ UNCHANGED <<qvars, publishing, usedTurns, starts>>
    BY ExecutorFacts DEF Finish, Terminate, At, X, DrainPcs, Windows, avars, ThreadInv, Control,
                         Procs
  <1>2. X.pc = "terminal" => X.d \in Dispositions
    BY ExecutorFacts DEF Ending
  <1>3. CASE Finish /\ Goto(p, "loop") /\ UNCHANGED <<active, termPub>>
    BY <1>1, <1>3, ExecGoes DEF Goto, Finish, At
  <1>4. ASSUME NEW d \in Dispositions, NEW r, r = [X EXCEPT !.pc = "commit", !.d = d],
               pr' = [pr EXCEPT ![p] = r], termPub' = X.turn, active' \in MaybeTurn
        PROVE  Kept
    <2>1. Frame(r) /\ Knows(r) /\ r.pc = "commit" /\ r.turn = X.turn
      BY ZenonT(40), <1>1, <1>4 DEF Frame, Knows, DrainPcs, Ending
    <2>2. Moved(p, r)
      BY <1>1, <1>4, <2>1 DEF Moved, Windows, Publications
    <2> QED BY <1>1, <1>4, <2>2, MovedAlone
  <1>5. CASE Finish /\ termPub' = X.turn
             /\ pr' = [pr EXCEPT ![p].pc = "commit", ![p].d = "completed"]
    <2>1. pr' = [pr EXCEPT ![p] = [X EXCEPT !.pc = "commit", !.d = "completed"]]
      BY <1>5 DEF X
    <2>2. active' \in MaybeTurn
      BY <1>1, <1>5 DEF Finish, MaybeTurn
    <2> QED BY <1>4, <1>5, <2>1, <2>2 DEF Dispositions
  <1>6. CASE Terminate
    <2> DEFINE r == [X EXCEPT !.pc = "commit"]
    <2>1. X.d \in Dispositions /\ active' \in MaybeTurn /\ termPub' = X.turn
      BY <1>1, <1>2, <1>6 DEF Terminate, At, X, BeginTerminal, Turn, MaybeTurn
    <2>2. Frame(r) /\ Knows(r) /\ r.pc = "commit" /\ r.turn = X.turn
      BY <1>1, <2>1 DEF Frame, Knows, DrainPcs, Ending
    <2>3. pr' = [pr EXCEPT ![p] = r]
      BY <1>6 DEF Terminate, Goto, X
    <2> HIDE DEF r
    <2>4. Moved(p, r)
      BY <1>1, <2>1, <2>2, <2>3 DEF Moved, Windows, Publications
    <2> QED BY <1>1, <2>1, <2>4, MovedAlone
  <1> QED BY <1>3, <1>5, <1>6 DEF Finish, X

(* The terminal event of the Turn is committed, or is not.                 *)
LEMMA ExecutorCommitsKeeps ==
  ASSUME ThreadInv, NEW o, ExecutorCommits(o) \/ ExecutorRefused(o)
  PROVE  Kept
  <1> DEFINE p == "exec"
  <1>1. /\ p \in Procs /\ pr[p].pc = "commit" /\ active \in MaybeTurn /\ StoreInv
        /\ Frame(pr[p]) /\ Knows(pr[p]) /\ X = pr[p] /\ pr[p].turn \in Turns
        /\ UNCHANGED <<active, publishing, usedTurns, starts>>
    BY ExecutorFacts DEF ThreadInv, Control, ExecutorCommits, CommitsTerminal, ExecutorRefused,
           TerminalRefused, At, Procs, avars, X, DrainPcs, Windows
  <1>2. QNext
    BY <1>1, CommitsStep, RefusedStep DEF ExecutorCommits, ExecutorRefused
  <1>3. CASE pr' = [pr EXCEPT ![p].d = "dead"] /\ UNCHANGED termPub
    <2> DEFINE r == [pr[p] EXCEPT !.d = "dead"]
    <2>1. Frame(r) /\ Knows(r) /\ r.pc = "commit" /\ r.turn = pr[p].turn
      BY <1>1 DEF Frame, Knows, DrainPcs, Ending, Dispositions
    <2>2. pr' = [pr EXCEPT ![p] = r]
      BY <1>3
    <2> HIDE DEF r
    <2>3. Moved(p, r)
      BY <1>1, <1>3, <2>1, <2>2 DEF Moved, Windows, Publications
    <2> QED BY <1>1, <1>2, <2>3, MovedAlone
  <1>4. CASE Goto(p, "done") /\ termPub' = TermPubAfter(p)
    <2>1. Knows([pr[p] EXCEPT !.pc = "done"])
      BY <1>1 DEF Frame, Knows, DrainPcs, Ending
    <2>2. \E r : Moved(p, r)
      BY <1>1, <1>4, <2>1, GotoMoves DEF TermPubAfter, Turn, Windows
    <2> QED BY <1>1, <1>2, <2>2, MovedAlone
  <1>5. CASE /\ pr' = [pr EXCEPT ![p].pc = "apply", ![p].ids = InputIDsForTurn(Turn(p))]
             /\ UNCHANGED termPub
    BY <1>1, <1>2, <1>5, AppliesMoves, MovedAlone DEF At
  <1> QED BY <1>3, <1>4, <1>5 DEF ExecutorCommits, ExecutorRefused, CommitFails, X, Turn

(* TurnMessageWithID returns.                                              *)
LEMMA DoneKeeps ==
  ASSUME ThreadInv, Done
  PROVE  Kept
  <1>1. /\ "exec" \in Procs /\ pr["exec"].pc = "done" /\ active' \in MaybeTurn
        /\ UNCHANGED <<qvars, termPub, publishing, usedTurns, starts>> /\ Return("exec")
    BY DEF Done, At, Procs, ThreadInv, Control, MaybeTurn
  <1>2. \E r : Moved("exec", r)
    BY <1>1, ReturnMoves DEF Windows, Publications
  <1> QED BY <1>1, <1>2, MovedAlone

(* Every step of the executor.                                             *)
LEMMA ExecutorKeeps ==
  ASSUME ThreadInv, ExecutorStep
  PROVE  Kept
  <1>1. "exec" \in Procs
    BY DEF Procs
  <1> QED BY <1>1, DrainStepKeeps, AdmissionCommittedKeeps, AcceptKeeps, DropKeeps, UnwindKeeps,
             RestoreKeeps, RestoreTakeKeeps, MarkAlreadyKeeps, LateKeeps, StartKeeps, DrainKeeps,
             ProviderKeeps, EndsKeeps, ExecutorCommitsKeeps, ApplyTerminalKeeps, DoneKeeps
          DEF ExecutorStep

-----------------------------------------------------------------------------
(* The steps of the Thread: the process *)

(* The process ends.                                                       *)
LEMMA CrashKeeps ==
  ASSUME ThreadInv, Crash
  PROVE  Kept
  <1>1. ProcsKnown'
    BY IdleKnows DEF Crash, ProcsKnown
  <1>2. QNext
    BY DEF Crash, QNext
  <1> QED BY <1>1, <1>2 DEF Crash, Kept, ThreadInv, Control, MaybeTurn, ReservationsOwned

(* A new process reconciles the store and activates the Thread.            *)
LEMMA RestartKeeps ==
  ASSUME ThreadInv, Restart
  PROVE  Kept
  <1>1. ASSUME NEW o \in Outcomes, Reconcile(o) PROVE Kept
    <2>1. QNext
      BY <1>1, ReconcileStep DEF Reconcile
    <2> QED BY <1>1, <2>1, StillKeeps DEF Reconcile, ThreadInv, Control
  <1>2. ASSUME NEW S \in SUBSET Inputs, NEW o \in Outcomes, Activate(S, o) PROVE Kept
    <2>1. QNext
      BY <1>2 DEF Activate, QNext
    <2> QED BY <1>2, <2>1, StillKeeps DEF Activate, ThreadInv, Control
  <1> QED BY <1>1, <1>2 DEF Restart

-----------------------------------------------------------------------------
(* The theorems *)

(* Every step of the Thread is a step of the store, or leaves it alone,    *)
(* and keeps what the goroutines know.                                     *)
LEMMA NextKeeps ==
  ASSUME ThreadInv, [Next]_vars
  PROVE  Kept
  <1>1. CASE UNCHANGED vars
    BY <1>1, StillKeeps DEF vars, evars, avars, ThreadInv, Control
  <1> QED BY <1>1, CallsKeep, DeliverKeeps, EndCompactionKeeps, ReceiverKeeps, DiscardKeeps,
             ClaimKeeps, ExecutorKeeps, ProviderKeeps, CrashKeeps, RestartKeeps
          DEF Next, Live

(* The Thread starts with the invariant.                                   *)
LEMMA InitThread == Init => ThreadInv
  <1> SUFFICES ASSUME Init PROVE ThreadInv
    OBVIOUS
  <1>1. StoreInv
    BY InitInv DEF Init
  <1>2. ReasonsKept
    BY NoRecType DEF Init, QInit, ReasonsKept, Kinded
  <1>3. ProcsKnown
    BY IdleKnows DEF Init, EngineInit, ProcsKnown
  <1> QED BY <1>1, <1>2, <1>3
          DEF Init, EngineInit, AdmissionInit, ThreadInv, Control, MaybeTurn, ReservationsOwned

(* ThreadInv is an invariant of the Thread, whatever its goroutines,       *)
(* failed writes and restarts do.                                          *)
THEOREM ThreadInvariant == Spec => []ThreadInv
  <1>1. ThreadInv /\ [Next]_vars => ThreadInv'
    BY NextKeeps, StepInv, StoreKinded DEF Kept, ThreadInv
  <1> QED BY <1>1, InitThread, PTL DEF Spec

(* The Thread implements the durable store: every step of the Engine, its  *)
(* drains, discards, promotions and restarts, is one operation of the open *)
(* store, or none.                                                         *)
LEMMA ThreadImplementsStore == Spec => QSpec
  <1>1. Init => QInit
    BY DEF Init
  <1>2. ThreadInv /\ [Next]_vars => [QNext]_qvars
    BY NextKeeps DEF Kept
  <1> QED BY <1>1, <1>2, ThreadInvariant, PTL DEF Spec, QSpec

(* No accepted Input is lost by the Thread as a whole.                     *)
THEOREM ThreadLosesNothing == Spec => []NoLostInput
  BY ThreadImplementsStore, NoInputLost, PTL

(* A settled Input stays out of the Thread's store, under every            *)
(* interleaving and restart.                                               *)
THEOREM ThreadSettlesOnce == Spec => SettledStaysOut
  BY ThreadImplementsStore, SettledNeverReturns, PTL

(* No reservation that makes other goroutines wait is leaked, on any error *)
(* path.                                                                   *)
THEOREM ReservationsNeverLeak == Spec => []ReservationsOwned
  <1>1. ThreadInv => ReservationsOwned
    BY DEF ThreadInv
  <1> QED BY <1>1, ThreadInvariant, PTL


-----------------------------------------------------------------------------
(* How an accepted Input leaves *)

(* What has left the hands of its Turn: a terminal record names it.        *)
Interrupted == {i \in Inputs : fate[i] # "none"}

(* A record whose Turn has ended without settling it keeps no deadline,    *)
(* on disk and in memory, and what waits to be retried is such a record.   *)
DeadlineClear == \A i \in Interrupted : ~doc[i].ttl
HandledOrClear ==
    loaded => \A i \in Interrupted : ~mem[i].ttl /\ (mem[i].state = "none" => i \in handled)
DeadlineKnown == loaded => \A i \in Inputs : doc[i].ttl => mem[i].ttl
RetryableInterrupted ==
    \A i \in Inputs :
        doc[i].state = "retryable" \/ mem[i].state = "retryable" => i \in Interrupted

(* A user's input that is stored has been submitted.                       *)
DirectArrived == \A i \in Direct : doc[i].state # "none" => i \in arrived

Deadlines ==
    DeadlineClear /\ HandledOrClear /\ DeadlineKnown /\ RetryableInterrupted /\ DirectArrived

(* A goroutine that starts a Turn, until the input is accepted or dropped. *)
Adm == {"notice", "staged", "accept", "drop"}

(* Two goroutines never admit the same new input, and none is accepted     *)
(* before its admission is committed.                                      *)
AdmissionsApart ==
    /\ \A p \in Procs :
          /\ pr[p].retried \subseteq Interrupted
          /\ pr[p].pc = "notice" => pr[p].src = "direct"
          /\ pr[p].pc \in Adm => pr[p].input \in External \cup arrived
          /\ pr[p].pc \in Adm /\ Created(pr[p].src) => pr[p].input \in Direct \ accepted
    /\ \A p, q \in Procs :
          p # q /\ pr[p].pc \in Adm /\ pr[q].pc \in Adm /\ Created(pr[p].src)
             => pr[p].input # pr[q].input

LeaveInv == ThreadInv /\ Deadlines /\ AdmissionsApart

(* An accepted Input leaves by a final record or by its deadline. *)
Leaves == \A i \in accepted \ accepted' : fate'[i] \in Final \/ Lapses(i)

-----------------------------------------------------------------------------
(* Deadlines *)

(* What an operation starts from, in terms of the journal.                 *)
LEMMA ViewClear ==
  ASSUME StoreInv, Deadlines
  PROVE  /\ \A i \in Interrupted : /\ ~View[i].ttl /\ ~DocAfterLoad[i].ttl
                                   /\ View[i].state = "none" => i \in HandledView
         /\ \A i \in Inputs : /\ doc[i].ttl => View[i].ttl
                              /\ DocAfterLoad[i].ttl => View[i].ttl
                              /\ View[i].state = "retryable" => i \in Interrupted
                              /\ DocAfterLoad[i].state = "retryable" => i \in Interrupted
                              /\ Recovered[i].state = "retryable" => i \in Interrupted
         /\ \A i \in Direct : /\ View[i].state # "none" => i \in arrived
                              /\ DocAfterLoad[i].state # "none" => i \in arrived
  <1>1. ASSUME NEW i \in Inputs
        PROVE  /\ doc[i].ttl /\ i \notin Interrupted => Recovered[i].ttl
               /\ Recovered[i].ttl => doc[i].ttl
               /\ Recovered[i].state = "retryable" => i \in Interrupted
               /\ Recovered[i].state # "none" => doc[i].state # "none"
    <2>1. doc[i] \in Record /\ fate[i] \in Dispositions \cup {"none"}
      BY DEF StoreInv, QTypeOK
    <2>2. Recovered[i] = Replay(doc[i], fate[i])
      BY DEF Recovered
    <2>3. CASE fate[i] = "none"
      BY <2>2, <2>3 DEF Replay, Deadlines, RetryableInterrupted, Interrupted
    <2>4. CASE fate[i] # "none"
      BY <2>1, <2>2, <2>4, ReplayType DEF Interrupted
    <2> QED BY <2>3, <2>4
  <1>2. Interrupted \subseteq Inputs /\ Direct \subseteq Inputs
    BY InputsAssumption DEF Interrupted
  <1>3. CASE loaded
    <2>1. View = mem /\ HandledView = handled /\ DocAfterLoad = doc
      BY <1>3 DEF View, HandledView, DocAfterLoad
    <2>2. \A i \in Inputs : mem[i].state # "none" => doc[i].state # "none"
      BY <1>3 DEF StoreInv, MemoryBacked
    <2>3. \A i \in Inputs : Recovered[i].state = "retryable" => i \in Interrupted
      BY <1>1
    <2> QED BY <1>2, <1>3, <2>1, <2>2, <2>3
            DEF Deadlines, DeadlineClear, HandledOrClear, DeadlineKnown, RetryableInterrupted,
                DirectArrived
  <1>4. CASE ~loaded
    <2>1. /\ View = Recovered /\ HandledView = {i \in Inputs : fate[i] # "none"}
          /\ DocAfterLoad = Recovered
      BY <1>4 DEF View, HandledView, DocAfterLoad
    <2> QED BY <1>1, <1>2, <2>1 DEF Deadlines, DeadlineClear, DirectArrived, Interrupted
  <1> QED BY <1>3, <1>4

(* Only what is pending can lapse.                                         *)
LEMMA ExpirablePending ==
  ASSUME StoreInv, Deadlines, NEW i \in Inputs, Expirable(View[i])
  PROVE  View[i].state = "pending" /\ i \notin Interrupted
  <1>1. View[i].ttl /\ View[i].state \in {"accepting", "pending", "admitted", "processed", "retryable"}
    BY DEF Expirable, Replayable
  <1>2. View[i].state \notin Fixed
    BY <1>1, ViewFacts DEF NoDeadline
  <1>3. i \notin Interrupted
    BY <1>1, ViewClear
  <1> QED BY <1>1, <1>2, <1>3, ViewClear DEF Fixed

(* What an operation must say of the records it persists.                  *)
Clear(recs, hd) ==
    /\ \A i \in Interrupted : ~recs[i].ttl /\ (recs[i].state = "none" => i \in hd)
    /\ \A i \in Inputs : recs[i].state = "retryable" => i \in Interrupted
    /\ \A i \in Direct : recs[i].state # "none" => i \in arrived'

(* persistLocked of such records, whatever its outcome.                    *)
LEMMA PersistClear ==
  ASSUME StoreInv, Deadlines, NEW recs, NEW hd, NEW hm, NEW o,
         Clear(recs, hd), Persist(recs, hd, hm, o), fate' = fate, arrived \subseteq arrived'
  PROVE  Deadlines'
  <1>1. Interrupted' = Interrupted /\ Interrupted \subseteq Inputs /\ Direct \subseteq Inputs
    BY InputsAssumption DEF Interrupted
  <1> USE ViewClear DEF Clear
  <1>2. DirectArrived' /\ DeadlineClear'
    <2>1. doc' = doc \/ doc' = recs \/ doc' = DocAfterLoad
      BY DEF Persist
    <2>2. /\ \A i \in Interrupted : ~doc[i].ttl
          /\ \A i \in Direct : doc[i].state # "none" => i \in arrived
      BY DEF Deadlines, DeadlineClear, DirectArrived
    <2> QED BY <1>1, <2>1, <2>2 DEF DirectArrived, DeadlineClear
  <1>3. RetryableInterrupted'
    <2>1. doc' = doc \/ doc' = recs \/ doc' = DocAfterLoad
      BY DEF Persist
    <2>2. mem' = View \/ mem' = recs \/ mem' = [i \in Inputs |-> NoRec]
      BY DEF Persist, InMemory, Unload
    <2>3. \A i \in Inputs : doc[i].state = "retryable" => i \in Interrupted
      BY DEF Deadlines, RetryableInterrupted
    <2>4. \A i \in Inputs : doc'[i].state = "retryable" => i \in Interrupted
      BY <2>1, <2>3
    <2>5. \A i \in Inputs : mem'[i].state = "retryable" => i \in Interrupted
      BY <2>2, NoRecType
    <2> QED BY <1>1, <2>4, <2>5 DEF RetryableInterrupted
  <1>4. HandledOrClear' /\ DeadlineKnown'
    <2>1. CASE loaded /\ recs = View /\ doc' = doc /\ InMemory(View, hd, hm)
      BY <1>1, <2>1 DEF InMemory, HandledOrClear, DeadlineKnown
    <2>2. CASE doc' = recs /\ InMemory(recs, hd, hm)
      BY <1>1, <2>2 DEF InMemory, HandledOrClear, DeadlineKnown
    <2>3. CASE Unload
      BY <2>3 DEF Unload, HandledOrClear, DeadlineKnown
    <2>4. CASE /\ doc' = doc \/ doc' = DocAfterLoad
               /\ InMemory(View, HandledView, HandledMsgsView)
      BY <1>1, <2>4 DEF InMemory, HandledOrClear, DeadlineKnown
    <2> QED BY <2>1, <2>2, <2>3, <2>4 DEF Persist
  <1> QED BY <1>2, <1>3, <1>4 DEF Deadlines

(* An operation that creates no record and sets no deadline: it removes    *)
(* what it handles or what has not been interrupted, and what it makes     *)
(* retryable has been.                                                     *)
LEMMA RewriteClear ==
  ASSUME StoreInv, Deadlines, NEW recs, NEW hd, NEW hm, NEW o,
         Persist(recs, hd, hm, o), fate' = fate, arrived \subseteq arrived',
         HandledView \subseteq hd,
         \A i \in Inputs :
            \/ recs[i] = View[i]
            \/ /\ recs[i].ttl => View[i].ttl
               /\ recs[i].state = "none" => i \in hd \/ i \notin Interrupted
               /\ recs[i].state = "retryable" => i \in Interrupted
               /\ recs[i].state # "none" => View[i].state # "none"
  PROVE  Deadlines'
  <1>1. Interrupted \subseteq Inputs /\ Direct \subseteq Inputs
    BY InputsAssumption DEF Interrupted
  <1>2. Clear(recs, hd)
    BY <1>1, ViewClear DEF Clear
  <1> QED BY <1>2, PersistClear

(* A record that is inserted is new.                                       *)
LEMMA InsertClear ==
  ASSUME StoreInv, Deadlines, NEW i \in Inputs, NEW r, NEW o, Insert(i, r, o),
         i \notin Interrupted, r.state \notin {"none", "retryable"},
         arrived \subseteq arrived', i \in Direct => i \in arrived'
  PROVE  Deadlines'
  <1> DEFINE recs == [View EXCEPT ![i] = r]
  <1>1. \A j \in Inputs : recs[j] = IF j = i THEN r ELSE View[j]
    BY ViewFacts
  <1>2. Interrupted \subseteq Inputs /\ Direct \subseteq Inputs
    BY InputsAssumption DEF Interrupted
  <1>3. Persist(recs, HandledView, HandledMsgsView, o) /\ fate' = fate
    BY DEF Insert
  <1> HIDE DEF recs
  <1>4. Clear(recs, HandledView)
    BY <1>1, <1>2, ViewClear DEF Clear
  <1> QED BY <1>3, <1>4, PersistClear

(* Enqueue and StageTurnInput.                                             *)
LEMMA NewClear ==
  ASSUME StoreInv, Deadlines, NEW i \in Inputs, NEW t, NEW o,
         Enqueue(i, t, o) \/ StageTurnInput(i, t, o),
         arrived \subseteq arrived', i \in Direct => i \in arrived'
  PROVE  Deadlines'
  <1>1. i \notin Interrupted
    BY ViewClear DEF Enqueue, CanEnqueue, StageTurnInput, Present, Interrupted
  <1>2. ASSUME NEW st \in {"pending", "accepting"}, NEW org, NEW ttl,
               Insert(i, NewRecord(st, org, t, ttl), o)
        PROVE  Deadlines'
    <2>1. NewRecord(st, org, t, ttl).state = st
      BY DEF NewRecord
    <2> QED BY <1>1, <1>2, <2>1, InsertClear
  <1> QED BY <1>2 DEF Enqueue, StageTurnInput

(* What a Turn claims or processes has no new deadline.                    *)
LEMMA ChangedClear ==
  ASSUME NEW r \in Record, NEW t, NEW k
  PROVE  /\ Claimed(r, t).state = "admitted" /\ ~Claimed(r, t).ttl
         /\ ClaimedAsTurn(r, t).state = "admitted" /\ ~ClaimedAsTurn(r, t).ttl
         /\ LET n == [r EXCEPT !.state = "processed"] IN n.state = "processed" /\ n.ttl = r.ttl
         /\ LET n == [r EXCEPT !.state = "admitted"] IN n.state = "admitted" /\ n.ttl = r.ttl
         /\ LET n == [r EXCEPT !.state = "pending", !.turn = NoTurn, !.kind = "none"] IN
            n.state = "pending" /\ n.ttl = r.ttl
         /\ LET n == [r EXCEPT !.state = "pending", !.origin = "queued", !.turn = NoTurn] IN
            n.state = "pending" /\ n.ttl = r.ttl
         /\ LET n == [r EXCEPT !.state = "retryable", !.turn = t, !.kind = k] IN
            n.state = "retryable" /\ n.ttl = r.ttl
  BY DEF Claimed, ClaimedAsTurn, Record

(* CommitTurnInput, PromoteToTurnInput and MarkAdmitted.                   *)
LEMMA ClaimClear ==
  ASSUME StoreInv, Deadlines, NEW t, NEW o, arrived \subseteq arrived',
         \/ \E i \in Inputs : CommitTurnInput(i, t, o)
         \/ \E i : PromoteToTurnInput(i, t, o)
         \/ \E S : MarkAdmitted(S, t, o)
  PROVE  Deadlines'
  <1>1. ASSUME NEW recs, Update(recs, o),
               \A i \in Inputs : \/ recs[i] = View[i]
                                 \/ /\ View[i].state # "none" /\ recs[i].state = "admitted"
                                    /\ ~recs[i].ttl
        PROVE  Deadlines'
    BY <1>1, RewriteClear DEF Update
  <1>2. \A i \in Inputs : View[i] \in Record /\ (Replayable(View[i].state) => View[i].state # "none")
    BY ViewFacts DEF Replayable
  <1>3. ASSUME NEW i \in Inputs, CommitTurnInput(i, t, o) PROVE Deadlines'
    <2> DEFINE recs == [View EXCEPT ![i] = ClaimedAsTurn(@, t)]
    <2>1. Update(recs, o) /\ View[i].state # "none"
      BY <1>2, <1>3 DEF CommitTurnInput, CanCommitTurnInput
    <2>2. \A j \in Inputs : recs[j] = IF j = i THEN ClaimedAsTurn(View[i], t) ELSE View[j]
      BY ViewFacts
    <2> HIDE DEF recs
    <2>3. \A j \in Inputs : \/ recs[j] = View[j]
                            \/ View[j].state # "none" /\ recs[j].state = "admitted" /\ ~recs[j].ttl
      BY <1>2, <2>1, <2>2, ChangedClear
    <2> QED BY <1>1, <2>1, <2>3
  <1>4. ASSUME NEW i, PromoteToTurnInput(i, t, o) PROVE Deadlines'
    <2> DEFINE recs == [View EXCEPT ![i] = IF Replayable(@.state) THEN ClaimedAsTurn(@, t) ELSE @]
    <2>1. Update(recs, o)
      BY <1>4 DEF PromoteToTurnInput
    <2>2. \A j \in Inputs : \/ recs[j] = View[j]
                            \/ recs[j] = ClaimedAsTurn(View[j], t) /\ Replayable(View[j].state)
      BY ViewFacts
    <2> HIDE DEF recs
    <2>3. \A j \in Inputs : \/ recs[j] = View[j]
                            \/ View[j].state # "none" /\ recs[j].state = "admitted" /\ ~recs[j].ttl
      BY <1>2, <2>2, ChangedClear
    <2> QED BY <1>1, <2>1, <2>3
  <1>5. ASSUME NEW S, MarkAdmitted(S, t, o) PROVE Deadlines'
    <2> DEFINE recs == [i \in Inputs |->
                  IF i \in S /\ Replayable(View[i].state)
                     /\ ~(View[i].state = "admitted" /\ View[i].turn = t)
                  THEN Claimed(View[i], t)
                  ELSE View[i]]
    <2>1. Update(recs, o)
      BY <1>5 DEF MarkAdmitted
    <2>2. \A j \in Inputs : \/ recs[j] = View[j]
                            \/ recs[j] = Claimed(View[j], t) /\ Replayable(View[j].state)
      OBVIOUS
    <2> HIDE DEF recs
    <2>3. \A j \in Inputs : \/ recs[j] = View[j]
                            \/ View[j].state # "none" /\ recs[j].state = "admitted" /\ ~recs[j].ttl
      BY <1>2, <2>2, ChangedClear
    <2> QED BY <1>1, <2>1, <2>3
  <1> QED BY <1>3, <1>4, <1>5

(* The operations that move a record on and leave its deadline alone.      *)
LEMMA MoveClear ==
  ASSUME StoreInv, Deadlines, NEW o, arrived \subseteq arrived',
         \/ \E S : MarkProcessed(S, o)
         \/ \E S : ReconcileRecoveryFacts(S, o)
         \/ \E t : RetryTurnInputs(t, o)
         \/ \E S, t, k : S \subseteq Interrupted /\ RestoreRetriedInputs(S, t, k, o)
  PROVE  Deadlines'
  <1>1. ASSUME NEW recs, Update(recs, o),
               \A i \in Inputs : \/ recs[i] = View[i]
                                 \/ /\ View[i].state # "none" /\ recs[i].state # "none"
                                    /\ recs[i].state = "retryable" => i \in Interrupted
                                    /\ recs[i].ttl = View[i].ttl
        PROVE  Deadlines'
    BY <1>1, RewriteClear DEF Update
  <1>2. \A i \in Inputs : View[i] \in Record /\ (Replayable(View[i].state) => View[i].state # "none")
    BY ViewFacts DEF Replayable
  <1>3. ASSUME NEW S, MarkProcessed(S, o) PROVE Deadlines'
    <2> DEFINE recs == [i \in Inputs |->
                  IF i \in S /\ Replayable(View[i].state)
                  THEN [View[i] EXCEPT !.state = "processed"]
                  ELSE View[i]]
    <2>1. Update(recs, o)
      BY <1>3 DEF MarkProcessed
    <2>2. \A i \in Inputs : \/ recs[i] = View[i]
                            \/ /\ View[i].state # "none" /\ recs[i].state = "processed"
                               /\ recs[i].ttl = View[i].ttl
      BY <1>2, ChangedClear
    <2> HIDE DEF recs
    <2> QED BY <1>1, <2>1, <2>2
  <1>4. ASSUME NEW S, ReconcileRecoveryFacts(S, o) PROVE Deadlines'
    <2> DEFINE recs == [i \in Inputs |->
                  IF View[i].state # "accepting" THEN View[i]
                  ELSE IF i \in S
                       THEN [View[i] EXCEPT !.state = "admitted"]
                       ELSE [View[i] EXCEPT !.state = "pending", !.origin = "queued",
                                            !.turn = NoTurn]]
    <2>1. Update(recs, o)
      BY <1>4 DEF ReconcileRecoveryFacts
    <2>2. \A i \in Inputs : \/ recs[i] = View[i]
                            \/ /\ View[i].state # "none" /\ recs[i].state \in {"admitted", "pending"}
                               /\ recs[i].ttl = View[i].ttl
      BY <1>2, ChangedClear
    <2> HIDE DEF recs
    <2> QED BY <1>1, <2>1, <2>2
  <1>5. ASSUME NEW t, RetryTurnInputs(t, o) PROVE Deadlines'
    <2> DEFINE recs == [i \in Inputs |->
                  IF i \in RetriableOf(t)
                  THEN [View[i] EXCEPT !.state = "pending", !.turn = NoTurn, !.kind = "none"]
                  ELSE View[i]]
    <2>1. Update(recs, o)
      BY <1>5 DEF RetryTurnInputs
    <2>2. \A i \in Inputs : \/ recs[i] = View[i]
                            \/ /\ View[i].state # "none" /\ recs[i].state = "pending"
                               /\ recs[i].ttl = View[i].ttl
      BY <1>2, ChangedClear DEF RetriableOf
    <2> HIDE DEF recs
    <2> QED BY <1>1, <2>1, <2>2
  <1>6. ASSUME NEW S, S \subseteq Interrupted, NEW t, NEW k, RestoreRetriedInputs(S, t, k, o)
        PROVE  Deadlines'
    <2> DEFINE recs == [i \in Inputs |->
                  IF i \in S
                  THEN [View[i] EXCEPT !.state = "retryable", !.turn = t, !.kind = k]
                  ELSE View[i]]
    <2>1. Update(recs, o) /\ \A i \in S : View[i].state = "pending"
      BY <1>6 DEF RestoreRetriedInputs
    <2>2. \A i \in Inputs : \/ recs[i] = View[i]
                            \/ /\ View[i].state # "none" /\ recs[i].state = "retryable"
                               /\ recs[i].ttl = View[i].ttl /\ i \in Interrupted
      <3> SUFFICES ASSUME NEW i \in Inputs, i \in S
                   PROVE  /\ View[i].state # "none" /\ recs[i].state = "retryable"
                          /\ recs[i].ttl = View[i].ttl /\ i \in Interrupted
        OBVIOUS
      <3>1. LET n == [View[i] EXCEPT !.state = "retryable", !.turn = t, !.kind = k] IN
            n.state = "retryable" /\ n.ttl = View[i].ttl
        BY <1>2, ChangedClear
      <3>2. View[i].state = "pending" /\ i \in Interrupted
        BY <1>6, <2>1
      <3> QED BY <3>1, <3>2
    <2> HIDE DEF recs
    <2> QED BY <1>1, <2>1, <2>2
  <1> QED BY <1>3, <1>4, <1>5, <1>6

(* The removals: a record that lapses has not been interrupted, any other  *)
(* is remembered as handled.                                               *)
LEMMA RemovalClear ==
  ASSUME StoreInv, Deadlines, NEW S \in SUBSET Inputs, NEW o, arrived \subseteq arrived',
         Expire(S, o) \/ RemoveRecords(S, o)
  PROVE  Deadlines'
  <1>1. \A i \in Inputs : IF i \in S THEN Without(S)[i] = NoRec ELSE Without(S)[i] = View[i]
    BY DEF Without
  <1>2. CASE Expire(S, o)
    <2>1. \A i \in S : i \notin Interrupted
      BY <1>2, ExpirablePending DEF Expire
    <2>2. Persist(Without(S), HandledView, HandledMsgsView, o) /\ fate' = fate
      BY <1>2 DEF Expire, Update
    <2> QED BY <1>1, <2>1, <2>2, NoRecType, RewriteClear
  <1>3. CASE RemoveRecords(S, o)
    <2> DEFINE gone == {i \in S : Present(i)}
               hd == HandledView \cup gone
               hm == HandledMsgsView \cup gone
    <2>1. Persist(Without(S), hd, hm, o) /\ fate' = fate
      BY <1>3 DEF RemoveRecords
    <2>2. \A i \in S : i \in Interrupted => i \in hd
      BY ViewClear DEF Present
    <2>3. HandledView \subseteq hd
      OBVIOUS
    <2> HIDE DEF hd, hm
    <2> QED BY <1>1, <2>1, <2>2, <2>3, NoRecType, RewriteClear
  <1> QED BY <1>2, <1>3

(* A terminal record is committed over inputs that have no deadline.       *)
LEMMA CommitTerminalClear ==
  ASSUME StoreInv, Deadlines, NEW t, NEW d \in Dispositions, CommitTerminal(t, d),
         arrived \subseteq arrived'
  PROVE  Deadlines' /\ Interrupted \subseteq Interrupted'
  <1> DEFINE ids == InputIDsForTurn(t)
  <1>1. \A i \in ids : i \in Inputs /\ View[i].state \in Fixed /\ View[i].state # "none" /\ ~View[i].ttl
    BY ViewFacts DEF InputIDsForTurn, Fixed, NoDeadline
  <1>2. /\ loaded' = TRUE /\ mem' = View /\ handled' = HandledView /\ doc' = DocAfterLoad
    BY DEF CommitTerminal, InMemory
  <1>3. fate' = [i \in Inputs |-> IF i \in ids THEN CombineFate(fate[i], d) ELSE fate[i]]
    BY DEF CommitTerminal
  <1> HIDE DEF ids
  <1>4. \A i \in Inputs : /\ fate[i] # "none" => fate'[i] # "none"
                          /\ fate'[i] # "none" => fate[i] # "none" \/ i \in ids
    BY <1>3 DEF CombineFate, Dispositions
  <1>5. /\ Interrupted \subseteq Interrupted' /\ Interrupted' \subseteq Interrupted \cup ids
        /\ Interrupted' \subseteq Inputs /\ Direct \subseteq Inputs
    BY <1>4, InputsAssumption DEF Interrupted
  <1>6. DeadlineClear' /\ HandledOrClear' /\ DeadlineKnown'
    BY <1>1, <1>2, <1>5, ViewClear DEF DeadlineClear, HandledOrClear, DeadlineKnown
  <1>7. RetryableInterrupted' /\ DirectArrived'
    BY <1>2, <1>5, ViewClear DEF RetryableInterrupted, DirectArrived
  <1> QED BY <1>5, <1>6, <1>7 DEF Deadlines

(* The committed record reaches the document.                              *)
LEMMA ApplyTerminalClear ==
  ASSUME StoreInv, Deadlines, NEW ids \in SUBSET Inputs, NEW d \in Dispositions, NEW o,
         ApplyTerminalEvent(ids, d, o), arrived \subseteq arrived'
  PROVE  Deadlines'
  <1> DEFINE recs == [i \in Inputs |-> IF i \in ids THEN ApplyDisposition(View[i], d) ELSE View[i]]
             hd == HandledView \cup ids
             hm == HandledMsgsView \cup {i \in ids : Present(i)}
  <1>1. \A i \in ids : i \in Interrupted
    BY DEF ApplyTerminalEvent, Interrupted, Dispositions, Final
  <1>2. fate' = fate
    BY DEF ApplyTerminalEvent
  <1>3. ASSUME NEW i \in Inputs
        PROVE  \/ recs[i] = View[i]
               \/ /\ i \in ids
                  /\ recs[i].ttl => View[i].ttl
                  /\ recs[i].state # "none" => View[i].state # "none"
    <2>1. View[i] \in Record
      BY ViewFacts
    <2> QED BY <2>1, ApplyDispositionType
  <1>4. \/ Persist(recs, hd, hm, o)
        \/ doc' = DocAfterLoad /\ InMemory(recs, hd, hm)
    BY DEF ApplyTerminalEvent
  <1>5. HandledView \subseteq hd /\ ids \subseteq hd
    OBVIOUS
  <1> HIDE DEF recs, hd, hm
  <1>6. CASE Persist(recs, hd, hm, o)
    BY <1>1, <1>2, <1>3, <1>5, <1>6, RewriteClear
  <1>7. CASE doc' = DocAfterLoad /\ InMemory(recs, hd, hm)
    <2>1. loaded' = TRUE /\ mem' = recs /\ handled' = hd /\ doc' = DocAfterLoad
      BY <1>7 DEF InMemory
    <2>2. Interrupted' = Interrupted /\ Interrupted \subseteq Inputs /\ Direct \subseteq Inputs
      BY <1>2, InputsAssumption DEF Interrupted
    <2>3. DeadlineClear' /\ DirectArrived'
      BY <2>1, <2>2, ViewClear DEF DeadlineClear, DirectArrived
    <2>4. HandledOrClear'
      BY <1>1, <1>3, <1>5, <2>1, <2>2, ViewClear DEF HandledOrClear
    <2>5. RetryableInterrupted'
      BY <1>1, <1>3, <2>1, <2>2, ViewClear DEF RetryableInterrupted
    <2>6. DeadlineKnown'
      <3>1. \A i \in Inputs : DocAfterLoad[i].ttl => recs[i].ttl
        BY <1>1, <1>3, ViewClear
      <3> QED BY <2>1, <3>1 DEF DeadlineKnown
    <2> QED BY <2>3, <2>4, <2>5, <2>6 DEF Deadlines
  <1> QED BY <1>4, <1>6, <1>7

(* The end of the process, a load that changes no record, and no call.     *)
LEMMA RestClear ==
  ASSUME StoreInv, Deadlines, arrived \subseteq arrived',
         ProcessEnds \/ UNCHANGED qvars \/ \E o : Update(View, o)
  PROVE  Deadlines'
  <1>1. CASE ProcessEnds
    BY <1>1, NoRecType
    DEF ProcessEnds, Unload, Deadlines, DeadlineClear, HandledOrClear, DeadlineKnown,
        RetryableInterrupted, DirectArrived, Interrupted
  <1>2. CASE UNCHANGED qvars
    BY <1>2
    DEF qvars, Deadlines, DeadlineClear, HandledOrClear, DeadlineKnown,
        RetryableInterrupted, DirectArrived, Interrupted
  <1>3. ASSUME NEW o, Update(View, o) PROVE Deadlines'
    BY <1>3, RewriteClear DEF Update
  <1> QED BY <1>1, <1>2, <1>3

-----------------------------------------------------------------------------
(* Goroutines *)

(* A goroutine that goes on from r to n begins no admission.               *)
Calm(r, n) ==
    /\ n.retried \subseteq r.retried
    /\ n.pc \in Adm => r.pc \in Adm /\ n.input = r.input /\ n.src = r.src
    /\ n.pc = "notice" => r.pc = "notice"
AllCalm == \A p \in Procs : Calm(pr[p], pr'[p])

(* What every step must show: an accepted Input left as it should, or was  *)
(* withdrawn by its source.                                                *)
Safe ==
    /\ Deadlines' /\ AdmissionsApart'
    /\ \A i \in accepted \ accepted' :
          fate'[i] \in Final \/ Lapses(i) \/ \E o \in Outcomes : DiscardQueued(i, o)

(* Admissions stay apart if no new one begins and none accepts another's   *)
(* new input.                                                              *)
LEMMA CalmKeeps ==
  ASSUME AdmissionsApart, AllCalm, Interrupted \subseteq Interrupted', arrived \subseteq arrived',
         NEW N, accepted' \subseteq accepted \cup N,
         \A p \in Procs : pr'[p].pc \in Adm /\ Created(pr[p].src) /\ pr[p].pc \in Adm
                             => pr[p].input \notin N
  PROVE  AdmissionsApart'
  BY DEF AdmissionsApart, AllCalm, Calm, Adm, Created

(* A step that is calm.                                                    *)
LEMMA CalmSafe ==
  ASSUME LeaveInv, AllCalm, Deadlines', Interrupted \subseteq Interrupted',
         arrived \subseteq arrived', accepted' \subseteq accepted, Leaves
  PROVE  Safe
  <1> DEFINE N == {}
  <1>0. accepted' \subseteq accepted \cup N /\ \A i : i \notin N
    OBVIOUS
  <1> HIDE DEF N
  <1>1. AdmissionsApart'
    BY <1>0, CalmKeeps DEF LeaveInv
  <1> QED BY <1>1 DEF Safe, Leaves

(* A calm step that accepts nothing and lets nothing go.                   *)
LEMMA KeepSafe ==
  ASSUME LeaveInv, AllCalm, Deadlines', fate' = fate, UNCHANGED <<accepted, arrived>>
  PROVE  Safe
  BY CalmSafe DEF Leaves, Interrupted

(* A calm step that does not touch the store.                              *)
LEMMA StillSafe ==
  ASSUME LeaveInv, AllCalm, UNCHANGED <<qvars, arrived>>
  PROVE  Safe
  BY KeepSafe, RestClear DEF LeaveInv, ThreadInv, qvars

(* One goroutine moves.                                                    *)
LEMMA CalmMove ==
  ASSUME LeaveInv, NEW p \in Procs, NEW r, pr' = [pr EXCEPT ![p] = r], Calm(pr[p], r)
  PROVE  AllCalm
  <1>1. pr = [q \in Procs |-> pr[q]]
    BY DEF LeaveInv, ThreadInv, Control, ProcsKnown
  <1>2. \A q \in Procs : pr'[q] = IF q = p THEN r ELSE pr[q]
    BY <1>1
  <1> QED BY <1>2 DEF AllCalm, Calm

(* No goroutine moves.                                                     *)
LEMMA CalmStill ==
  ASSUME UNCHANGED pr
  PROVE  AllCalm
  BY DEF AllCalm, Calm

(* A goroutine goes to a step outside the admissions, or on within one.    *)
LEMMA CalmGoto ==
  ASSUME LeaveInv, NEW p \in Procs, NEW c, Goto(p, c),
         c \notin Adm \/ (pr[p].pc \in Adm /\ c # "notice")
  PROVE  AllCalm
  <1>1. Frame(pr[p])
    BY DEF LeaveInv, ThreadInv, Control, ProcsKnown
  <1> DEFINE r == [pr[p] EXCEPT !.pc = c]
  <1>2. r.pc = c /\ r.input = pr[p].input /\ r.src = pr[p].src /\ r.retried = pr[p].retried
    BY <1>1 DEF Frame
  <1>3. pr' = [pr EXCEPT ![p] = r]
    BY DEF Goto
  <1> HIDE DEF r
  <1>4. Calm(pr[p], r)
    BY <1>2 DEF Calm, Adm
  <1> QED BY <1>3, <1>4, CalmMove

(* A call returns.                                                         *)
LEMMA CalmReturn ==
  ASSUME LeaveInv, NEW p \in Procs, Return(p)
  PROVE  AllCalm
  <1>1. Calm(pr[p], Idle)
    BY DEF Calm, Idle, Adm
  <1> QED BY <1>1, CalmMove DEF Return

(* The other ways a goroutine goes on.                                     *)
LEMMA CalmForms ==
  ASSUME NEW r, Frame(r), NEW c, c \notin Adm
  PROVE  /\ \A v : Calm(r, [r EXCEPT !.pc = c, !.d = v])
         /\ \A v : Calm(r, [r EXCEPT !.pc = c, !.after = v])
         /\ \A v : Calm(r, [r EXCEPT !.pc = c, !.ids = v])
         /\ \A v : Calm(r, [r EXCEPT !.pc = c, !.todo = v])
         /\ \A v : Calm(r, [r EXCEPT !.pc = c, !.batch = v])
         /\ \A v : Calm(r, [r EXCEPT !.d = v])
         /\ \A v, w : Calm(r, [r EXCEPT !.pc = c, !.after = v, !.already = w])
         /\ \A v, w : Calm(r, [r EXCEPT !.pc = c, !.todo = v, !.already = w])
         /\ \A v, w : Calm(r, [r EXCEPT !.pc = c, !.d = v, !.todo = w])
         /\ \A v, w : Calm(r, [r EXCEPT !.pc = c, !.batch = v, !.todo = w])
         /\ \A v, w, x : Calm(r, [r EXCEPT !.pc = c, !.batch = v, !.next = w, !.after = x])
         /\ \A v, w, x, y : Calm(r, [r EXCEPT !.pc = c, !.batch = v, !.todo = w, !.next = x,
                                              !.after = y])
         /\ \A v, w, x, y, z, u : Calm(r, [r EXCEPT !.pc = c, !.batch = v, !.todo = w,
                                              !.next = x, !.after = y, !.already = z, !.d = u])
  <1>1. /\ \A v : Calm(r, [r EXCEPT !.pc = c, !.d = v])
        /\ \A v : Calm(r, [r EXCEPT !.pc = c, !.after = v])
        /\ \A v : Calm(r, [r EXCEPT !.pc = c, !.ids = v])
        /\ \A v : Calm(r, [r EXCEPT !.pc = c, !.todo = v])
        /\ \A v : Calm(r, [r EXCEPT !.pc = c, !.batch = v])
        /\ \A v : Calm(r, [r EXCEPT !.d = v])
    BY DEF Frame, Calm, Adm
  <1>2. /\ \A v, w : Calm(r, [r EXCEPT !.pc = c, !.after = v, !.already = w])
        /\ \A v, w : Calm(r, [r EXCEPT !.pc = c, !.todo = v, !.already = w])
        /\ \A v, w : Calm(r, [r EXCEPT !.pc = c, !.d = v, !.todo = w])
        /\ \A v, w : Calm(r, [r EXCEPT !.pc = c, !.batch = v, !.todo = w])
    BY DEF Frame, Calm, Adm
  <1>3. \A v, w, x : Calm(r, [r EXCEPT !.pc = c, !.batch = v, !.next = w, !.after = x])
    BY DEF Frame, Calm, Adm
  <1>4. \A v, w, x, y : Calm(r, [r EXCEPT !.pc = c, !.batch = v, !.todo = w, !.next = x,
                                              !.after = y])
    BY DEF Frame, Calm, Adm
  <1>5. \A v, w, x, y, z, u : Calm(r, [r EXCEPT !.pc = c, !.batch = v, !.todo = w,
                                              !.next = x, !.after = y, !.already = z, !.d = u])
    BY DEF Frame, Calm, Adm
  <1> QED BY <1>1, <1>2, <1>3, <1>4, <1>5

(* What is known of a goroutine.                                           *)
LEMMA ProcFacts ==
  ASSUME LeaveInv, NEW p \in Procs
  PROVE  /\ pr = [q \in Procs |-> pr[q]] /\ Frame(pr[p]) /\ Knows(pr[p])
         /\ StoreInv /\ Deadlines /\ AdmissionsApart
  BY DEF LeaveInv, ThreadInv, Control, ProcsKnown

(* The next batch, or what follows it, begins no admission.                *)
LEMMA BatchCalm ==
  ASSUME NEW r, Frame(r), Knows(r), NEW s, NEW n \in Nexts, NEW a \in Afters
  PROVE  /\ Calm(r, Draining(r, s, n, a))
         /\ r.pc \in DrainPcs => Calm(r, BatchDone(r))
         /\ r.pc \in DrainPcs => Calm(r, [r EXCEPT !.pc = r.after, !.batch = <<>>, !.todo = <<>>])
         /\ r.pc \in DrainPcs => r.next \in Nexts /\ r.after \in Afters
  <1>1. Calm(r, Draining(r, s, n, a))
    BY CalmForms DEF Draining, Adm
  <1>2. r.pc \in DrainPcs => r.next \in Nexts /\ r.after \in Afters
    BY DEF Knows
  <1>3. \A m \in Nexts \cup Afters \cup {"take"} : m \notin Adm
    BY DEF Nexts, Afters, Adm
  <1>4. ASSUME r.pc \in DrainPcs PROVE Calm(r, BatchDone(r))
    <2>1. r.next \notin Adm /\ "take" \notin Adm
      BY <1>2, <1>3, <1>4
    <2> QED BY <2>1, CalmForms DEF BatchDone
  <1>5. ASSUME r.pc \in DrainPcs
        PROVE  Calm(r, [r EXCEPT !.pc = r.after, !.batch = <<>>, !.todo = <<>>])
    <2>1. r.after \notin Adm
      BY <1>2, <1>3, <1>5
    <2> QED BY <2>1, CalmForms
  <1> QED BY <1>1, <1>2, <1>4, <1>5

(* Moving inputs into the transcript.                                      *)
LEMMA DrainStepSafe ==
  ASSUME LeaveInv, NEW p \in Procs, DrainStep(p), UNCHANGED avars
  PROVE  Safe
  <1>1. /\ Frame(pr[p]) /\ Knows(pr[p]) /\ StoreInv /\ Deadlines
        /\ UNCHANGED arrived /\ arrived \subseteq arrived'
    BY ProcFacts DEF avars
  <1> USE DEF At
  <1>2. ASSUME DrainFails(p), pr[p].pc \in DrainPcs PROVE AllCalm
    <2> DEFINE r == [pr[p] EXCEPT !.pc = pr[p].after, !.batch = <<>>, !.todo = <<>>]
    <2>1. pr' = [pr EXCEPT ![p] = r]
      BY <1>2 DEF DrainFails
    <2>2. Calm(pr[p], r)
      BY <1>1, <1>2, BatchCalm DEF Nexts, Afters
    <2> HIDE DEF r
    <2> QED BY <2>1, <2>2, CalmMove
  <1>3. ASSUME pr' = [pr EXCEPT ![p] = BatchDone(@)], pr[p].pc \in DrainPcs PROVE AllCalm
    <2> DEFINE r == BatchDone(pr[p])
    <2>1. pr' = [pr EXCEPT ![p] = r]
      BY <1>3
    <2>2. Calm(pr[p], r)
      BY <1>1, <1>3, BatchCalm DEF Nexts, Afters
    <2> HIDE DEF r
    <2> QED BY <2>1, <2>2, CalmMove
  <1>4. ASSUME NEW s, NEW n \in Nexts, NEW a \in Afters,
               pr' = [pr EXCEPT ![p] = Draining(@, s, n, a)]
        PROVE  AllCalm
    <2> DEFINE r == Draining(pr[p], s, n, a)
    <2>1. pr' = [pr EXCEPT ![p] = r]
      BY <1>4
    <2>2. Calm(pr[p], r)
      BY <1>1, BatchCalm
    <2> HIDE DEF r
    <2> QED BY <2>1, <2>2, CalmMove
  <1>5. CASE Announced(p)
    BY <1>1, <1>5, CalmGoto, StillSafe DEF Announced, Adm
  <1>6. ASSUME NEW o \in Outcomes, Admit(p, o) PROVE Safe
    <2>1. AllCalm
      BY <1>2, <1>6, CalmGoto DEF Admit, DrainPcs, Adm
    <2>2. Deadlines' /\ UNCHANGED <<fate, accepted>>
      BY <1>1, <1>6, ClaimClear DEF Admit, MarkAdmitted, Update
    <2> QED BY <1>1, <2>1, <2>2, KeepSafe
  <1>7. ASSUME NEW o, NEW n, AppendBatch(p, o, n) PROVE Safe
    <2>1. AllCalm
      BY <1>2, <1>7, CalmGoto DEF AppendBatch, DrainPcs, Adm
    <2> QED BY <1>1, <1>7, <2>1, StillSafe DEF AppendBatch
  <1>8. ASSUME NEW o \in Outcomes, Process(p, o) PROVE Safe
    <2>1. AllCalm
      BY <1>2, <1>3, <1>8, CalmGoto DEF Process, DrainPcs, Adm
    <2>2. Deadlines' /\ UNCHANGED <<fate, accepted>>
      BY <1>1, <1>8, MoveClear DEF Process, MarkProcessed, Update
    <2> QED BY <1>1, <2>1, <2>2, KeepSafe
  <1>9. CASE Drained(p)
    BY <1>1, <1>3, <1>9, StillSafe DEF Drained, DrainPcs
  <1>10. CASE TakeBatch(p)
    <2>1. /\ pr[p].next \in Nexts /\ pr[p].after \in Afters
          /\ pr' = [pr EXCEPT ![p] = Draining(@, pr[p].todo, pr[p].next, pr[p].after)]
      BY <1>1, <1>10 DEF TakeBatch, Knows, DrainPcs
    <2>2. AllCalm
      BY <1>4, <2>1
    <2> QED BY <1>1, <1>10, <2>2, StillSafe DEF TakeBatch
  <1>11. ASSUME NEW o, Preserve(p, o) PROVE Safe
    <2>1. pr[p].after \in Afters
      BY <1>1, <1>11 DEF Preserve, Knows
    <2>2. CASE Goto(p, pr[p].after)
      BY <1>1, <1>11, <2>1, <2>2, CalmGoto, StillSafe DEF Preserve, Afters, Adm
    <2>3. CASE pr' = [pr EXCEPT ![p] = Draining(@, live, "preserve", pr[p].after)]
      BY <1>1, <1>4, <1>11, <2>1, <2>3, StillSafe DEF Preserve, Nexts
    <2>4. CASE Goto(p, "preserve")
      BY <1>1, <1>11, <2>4, CalmGoto, StillSafe DEF Preserve, Adm
    <2> QED BY <1>11, <2>2, <2>3, <2>4 DEF Preserve, DrainLive
  <1> QED BY <1>5, <1>6, <1>7, <1>8, <1>9, <1>10, <1>11 DEF DrainStep

(* What expires or is removed.                                             *)
LEMMA ExpireLeaves ==
  ASSUME StoreInv, Deadlines, NEW S \in SUBSET Inputs, NEW o, Expire(S, o),
         S # {} => "expire" \in Operations, arrived \subseteq arrived'
  PROVE  Deadlines' /\ fate' = fate /\ accepted' \subseteq accepted /\ Leaves
  <1>1. Deadlines' /\ fate' = fate
    BY RemovalClear DEF Expire, Update
  <1>2. accepted' = accepted \/ accepted' = accepted \ S
    BY DEF Expire
  <1>3. \A i \in S : Lapses(i)
    BY ExpirablePending DEF Expire, Lapses
  <1> QED BY <1>1, <1>2, <1>3 DEF Leaves

(* The terminal event of a Turn lets go what it settles.                   *)
LEMMA CommitLeaves ==
  ASSUME StoreInv, Deadlines, NEW t \in Turns, NEW d \in Dispositions, CommitTerminal(t, d),
         arrived \subseteq arrived'
  PROVE  /\ Deadlines' /\ Interrupted \subseteq Interrupted' /\ accepted' \subseteq accepted
         /\ Leaves
  <1> DEFINE ids == InputIDsForTurn(t)
  <1>1. Deadlines' /\ Interrupted \subseteq Interrupted'
    BY CommitTerminalClear
  <1>2. /\ accepted' = IF d \in Final THEN accepted \ ids ELSE accepted
        /\ fate' = [i \in Inputs |-> IF i \in ids THEN CombineFate(fate[i], d) ELSE fate[i]]
    BY DEF CommitTerminal
  <1>3. ids \subseteq Inputs
    BY DEF InputIDsForTurn
  <1> HIDE DEF ids
  <1>4. ASSUME NEW i \in accepted \ accepted' PROVE fate'[i] \in Final
    BY <1>2, <1>3, <1>4 DEF CombineFate, Final
  <1> QED BY <1>1, <1>2, <1>4 DEF Leaves

(* A terminal event that is refused loads the store at most.               *)
LEMMA RefusedClear ==
  ASSUME StoreInv, Deadlines, NEW p, NEW o, TerminalRefused(p, o), arrived \subseteq arrived'
  PROVE  Deadlines' /\ UNCHANGED <<fate, accepted>>
  <1>1. UNCHANGED <<fate, clock, accepted>>
    BY DEF TerminalRefused
  <1>2. ~loaded => View = Recovered
    BY DEF View
  <1>3. CASE /\ o \in {"write", "count"} /\ ~loaded /\ Loadable
             /\ Unload /\ doc' = IF o = "count" THEN DocAfterLoad ELSE doc
    <2>1. AllValid(View)
      BY <1>2, <1>3 DEF Loadable
    <2>2. Persist(View, HandledView, HandledMsgsView, o)
      BY <1>2, <1>3, <2>1 DEF Persist, DocAfterLoad
    <2> QED BY <1>1, <1>3, <2>2, RestClear DEF Update
  <1>4. CASE /\ Loadable /\ InMemory(View, HandledView, HandledMsgsView)
             /\ doc' = DocAfterLoad
    <2>1. Persist(View, HandledView, HandledMsgsView, "ok")
      BY <1>2, <1>4 DEF Persist, DocAfterLoad, Loadable
    <2> QED BY <1>1, <2>1, RestClear DEF Update
  <1>5. CASE /\ o = "invalid" /\ ~Loadable
             /\ InMemory(View, HandledView, HandledMsgsView) /\ doc' = doc
    <2>1. Persist(View, HandledView, HandledMsgsView, o)
      BY <1>2, <1>5 DEF Persist, Loadable
    <2> QED BY <1>1, <1>5, <2>1, RestClear DEF Update
  <1> QED BY <1>3, <1>4, <1>5 DEF TerminalRefused

(* The publication of a terminal event, by any goroutine.                  *)
LEMMA TerminalSafe ==
  ASSUME LeaveInv, NEW p \in Procs, NEW o, AllCalm, UNCHANGED arrived,
         \/ CommitsTerminal(p, o)
         \/ TerminalRefused(p, o)
         \/ At(p, "apply") /\ (pr[p].ids = {} \/ ApplyTerminalEvent(pr[p].ids, pr[p].d, o))
            /\ (pr[p].ids = {} => UNCHANGED qvars)
  PROVE  Safe
  <1>1. /\ Frame(pr[p]) /\ Knows(pr[p]) /\ StoreInv /\ Deadlines /\ arrived \subseteq arrived'
    BY ProcFacts
  <1>2. At(p, "commit") \/ At(p, "apply") => Turn(p) \in Turns /\ pr[p].d \in Dispositions
    BY <1>1 DEF At, Knows, Turn, Ending
  <1>3. CASE CommitsTerminal(p, o)
    BY <1>1, <1>2, <1>3, CommitLeaves, CalmSafe DEF CommitsTerminal
  <1>4. CASE TerminalRefused(p, o)
    BY <1>1, <1>4, RefusedClear, KeepSafe
  <1>5. CASE At(p, "apply") /\ ApplyTerminalEvent(pr[p].ids, pr[p].d, o)
    <2>1. pr[p].ids \subseteq Inputs
      BY <1>1 DEF Knows
    <2>2. Deadlines' /\ UNCHANGED <<fate, accepted>>
      BY <1>1, <1>2, <1>5, <2>1, ApplyTerminalClear DEF ApplyTerminalEvent
    <2> QED BY <2>2, KeepSafe
  <1> QED BY <1>3, <1>4, <1>5, StillSafe

(* publishTerminalEvent                                                    *)
LEMMA ApplyTerminalSafe ==
  ASSUME LeaveInv, NEW p \in Procs, NEW o, ApplyTerminal(p, o), UNCHANGED avars
  PROVE  Safe
  <1>1. AllCalm
    BY CalmGoto, CalmReturn DEF ApplyTerminal, Adm
  <1> QED BY <1>1, TerminalSafe DEF ApplyTerminal, avars

-----------------------------------------------------------------------------
(* Admission *)

(* The commit of turn.admitted returns.                                    *)
LEMMA AdmissionCommittedSafe ==
  ASSUME LeaveInv, NEW p \in Procs, NEW o, AdmissionCommitted(p, o)
  PROVE  Safe
  <1>1. pr[p].pc = "staged" /\ (Goto(p, "accept") \/ Goto(p, "drop")) /\ UNCHANGED <<qvars, arrived>>
    BY DEF AdmissionCommitted, At
  <1>2. AllCalm
    BY <1>1, CalmGoto DEF Adm
  <1> QED BY <1>1, <1>2, StillSafe

(* CommitTurnInput accepts the input of this admission alone.              *)
LEMMA AcceptSafe ==
  ASSUME LeaveInv, NEW p \in Procs, NEW o \in Outcomes, Accept(p, o)
  PROVE  Safe
  <1> DEFINE i == pr[p].input
  <1>1. /\ pr = [q \in Procs |-> pr[q]] /\ Frame(pr[p]) /\ Knows(pr[p]) /\ pr[p].pc = "accept"
        /\ StoreInv /\ Deadlines /\ AdmissionsApart /\ UNCHANGED arrived
        /\ arrived \subseteq arrived'
    BY ProcFacts DEF Accept, At
  <1>2. i \in Inputs
    BY <1>1 DEF Knows
  <1>3. AllCalm /\ (o = "ok" => pr'[p].pc \notin Adm)
    <2>1. CASE o = "ok"
      <3>1. Return(p) \/ Goto(p, "restore")
        BY <2>1 DEF Accept, Started
      <3>2. pr'[p].pc \notin Adm
        BY <1>1, <3>1 DEF Return, Goto, Idle, Frame, Adm
      <3> QED BY <3>1, <3>2, CalmReturn, CalmGoto DEF Adm
    <2>2. CASE o # "ok"
      <3>1. pr' = [pr EXCEPT ![p].pc = "drop", ![p].d = "dead"]
        BY <2>2 DEF Accept
      <3>2. AllCalm
        BY <1>1, <3>1 DEF AllCalm, Calm, Adm, Frame
      <3> QED BY <2>2, <3>2
    <2> QED BY <2>1, <2>2
  <1>4. CASE UNCHANGED qvars
    BY <1>1, <1>3, <1>4, StillSafe
  <1>5. CASE CommitTurnInput(i, Turn(p), o)
    <2>1. Deadlines' /\ fate' = fate
      BY <1>1, <1>2, <1>5, ClaimClear DEF CommitTurnInput, Update
    <2>2. /\ accepted \subseteq accepted' /\ accepted' \subseteq accepted \cup {i}
          /\ o # "ok" => accepted' = accepted
      BY <1>5 DEF CommitTurnInput
    <2>3. Interrupted' = Interrupted
      BY <2>1 DEF Interrupted
    <2>4. CASE o # "ok"
      BY <1>1, <1>3, <2>1, <2>2, <2>4, KeepSafe
    <2>5. CASE o = "ok"
      <3>1. \A q \in Procs : pr'[q].pc \in Adm /\ Created(pr[q].src) /\ pr[q].pc \in Adm
                                => pr[q].input \notin {i}
        BY <1>1, <1>3, <2>5 DEF AdmissionsApart, Adm
      <3>2. AdmissionsApart'
        BY <1>1, <1>3, <2>2, <2>3, <3>1, CalmKeeps
      <3> QED BY <2>1, <2>2, <3>2 DEF Safe
    <2> QED BY <2>4, <2>5
  <1> QED BY <1>4, <1>5 DEF Accept

(* A refused admission drops only a record it created, which nobody has    *)
(* accepted.                                                               *)
LEMMA DropSafe ==
  ASSUME LeaveInv, NEW p \in Procs, NEW o \in Outcomes, DropAdmission(p, o)
  PROVE  Safe
  <1>1. /\ pr = [q \in Procs |-> pr[q]] /\ Frame(pr[p]) /\ Knows(pr[p]) /\ pr[p].pc = "drop"
        /\ StoreInv /\ Deadlines /\ AdmissionsApart /\ UNCHANGED arrived
        /\ arrived \subseteq arrived'
    BY ProcFacts DEF DropAdmission, At, avars
  <1>2. {pr[p].input} \in SUBSET Inputs
    BY <1>1 DEF Knows
  <1>3. AllCalm
    BY <1>1 DEF DropAdmission, AllCalm, Calm, Adm, Frame
  <1>4. CASE ~Created(pr[p].src)
    BY <1>1, <1>3, <1>4, StillSafe DEF DropAdmission
  <1>5. CASE Created(pr[p].src)
    <2>1. RemoveRecords({pr[p].input}, o)
      BY <1>5 DEF DropAdmission
    <2>2. pr[p].input \notin accepted
      BY <1>1, <1>5 DEF AdmissionsApart, Adm
    <2>3. accepted' = accepted /\ fate' = fate
      BY <2>1, <2>2 DEF RemoveRecords
    <2>4. Deadlines'
      BY <1>1, <1>2, <2>1, RemovalClear
    <2> QED BY <1>1, <1>3, <2>3, <2>4, KeepSafe
  <1> QED BY <1>4, <1>5

(* The handoff that is rolled back was of interrupted inputs.              *)
LEMMA UnwindSafe ==
  ASSUME LeaveInv, NEW p \in Procs, NEW o \in Outcomes, Unwind(p, o)
  PROVE  Safe
  <1>1. /\ StoreInv /\ Deadlines /\ AdmissionsApart /\ UNCHANGED arrived
        /\ arrived \subseteq arrived'
    BY ProcFacts DEF Unwind, avars
  <1>2. AllCalm
    BY CalmGoto, CalmReturn DEF Unwind, Adm
  <1>3. CASE UNCHANGED qvars
    BY <1>1, <1>2, <1>3, StillSafe
  <1>4. CASE RestoreRetriedInputs(pr[p].retried, pr[p].from, pr[p].kind, o)
    <2>1. pr[p].retried \subseteq Interrupted
      BY <1>1 DEF AdmissionsApart
    <2>2. Deadlines' /\ UNCHANGED <<fate, accepted>>
      BY <1>1, <1>4, <2>1, MoveClear DEF RestoreRetriedInputs, Update
    <2> QED BY <1>1, <1>2, <2>2, KeepSafe
  <1> QED BY <1>3, <1>4 DEF Unwind, RollBackRetry

(* The notice of a restart continuation is stored, or is refused.          *)
LEMMA StartNoticeSafe ==
  ASSUME LeaveInv, NEW o \in Outcomes, StartNotice(o)
  PROVE  Safe
  <1> DEFINE p == "recv"
             i == pr[p].input
  <1>1. /\ p \in Procs /\ pr = [q \in Procs |-> pr[q]] /\ Frame(pr[p]) /\ Knows(pr[p])
        /\ pr[p].pc = "notice" /\ StoreInv /\ Deadlines /\ AdmissionsApart /\ UNCHANGED arrived
        /\ arrived \subseteq arrived'
    BY ProcFacts DEF StartNotice, At, Procs
  <1>2. i \in Inputs /\ pr[p].src = "direct" /\ (i \in Direct => i \in arrived')
    BY <1>1, InputsAssumption DEF Knows, AdmissionsApart, Adm
  <1>3. AllCalm
    <2>1. CASE Goto(p, "unwind")
      BY <1>1, <2>1, CalmGoto DEF Adm
    <2>2. CASE Staged(p, i, NewTurn, "direct")
      BY <1>1, <1>2, <2>2 DEF Staged, AllCalm, Calm, Adm, Frame
    <2> QED BY <2>1, <2>2 DEF StartNotice
  <1>4. CASE UNCHANGED qvars
    BY <1>1, <1>3, <1>4, StillSafe
  <1>5. CASE StageTurnInput(i, NewTurn, o)
    <2>1. Deadlines' /\ UNCHANGED <<fate, accepted>>
      BY <1>1, <1>2, <1>5, NewClear DEF StageTurnInput, Insert
    <2> QED BY <1>1, <1>3, <2>1, KeepSafe
  <1> QED BY <1>4, <1>5 DEF StartNotice

(* Reserving a Turn for a compaction, and promoting what was queued.       *)
LEMMA CompactionSafe ==
  ASSUME LeaveInv,
         NEW o, \/ CompactionReserved(o) \/ PromotionCommitted(o) \/ PreserveRest(o)
                \/ Promote(o) \/ PromotionAnnounced \/ EnqueueAnnounced
  PROVE  Safe
  <1> DEFINE p == "recv"
  <1>1. /\ p \in Procs /\ pr = [q \in Procs |-> pr[q]] /\ Frame(pr[p])
        /\ StoreInv /\ Deadlines /\ UNCHANGED arrived /\ arrived \subseteq arrived'
    BY ProcFacts DEF CompactionReserved, PromotionCommitted, PreserveRest, Promote,
                     PromotionAnnounced, EnqueueAnnounced, avars, Procs
  <1>2. CASE CompactionReserved(o)
    <2>1. AllCalm
      <3>1. CASE Return(p)
        BY <1>1, <3>1, CalmReturn
      <3>2. CASE o # "ok"
        BY <1>1, <1>2, <3>2 DEF CompactionReserved, AllCalm, Calm, Adm, Frame
      <3> QED BY <1>2, <3>1, <3>2 DEF CompactionReserved
    <2> QED BY <1>1, <1>2, <2>1, StillSafe DEF CompactionReserved
  <1>3. CASE PromotionCommitted(o)
    <2>1. AllCalm
      BY <1>1, <1>3 DEF PromotionCommitted, AllCalm, Calm, Adm, Frame
    <2> QED BY <1>1, <1>3, <2>1, StillSafe DEF PromotionCommitted
  <1>4. CASE PreserveRest(o)
    <2>1. AllCalm
      <3>1. CASE Goto(p, "unwind")
        BY <1>1, <3>1, CalmGoto DEF Adm
      <3>2. CASE ~Goto(p, "unwind")
        BY <1>1, <1>4, <3>2 DEF PreserveRest, AllCalm, Calm, Adm, Frame
      <3> QED BY <3>1, <3>2
    <2> QED BY <1>1, <1>4, <2>1, StillSafe DEF PreserveRest, avars
  <1>5. CASE Promote(o)
    <2>1. AllCalm
      <3>1. CASE o = "ok"
        BY <1>1, <1>5, <3>1, CalmGoto DEF Promote, Adm
      <3>2. CASE o # "ok"
        BY <1>1, <1>5, <3>2 DEF Promote, AllCalm, Calm, Adm, Frame
      <3> QED BY <3>1, <3>2
    <2>2. Deadlines' /\ UNCHANGED <<fate, accepted>>
      BY <1>1, <1>5, ClaimClear DEF Promote, PromoteToTurnInput, Update
    <2> QED BY <1>1, <2>1, <2>2, KeepSafe
  <1>6. CASE PromotionAnnounced \/ EnqueueAnnounced
    BY <1>1, <1>6, CalmReturn, StillSafe DEF PromotionAnnounced, EnqueueAnnounced
  <1> QED BY <1>2, <1>3, <1>4, <1>5, <1>6

(* Every step of the admission handler.                                    *)
LEMMA ReceiverSafe ==
  ASSUME LeaveInv, ReceiverStep
  PROVE  Safe
  <1> DEFINE p == "recv"
  <1>1. /\ p \in Procs /\ pr = [q \in Procs |-> pr[q]] /\ Frame(pr[p])
    BY ProcFacts DEF Procs
  <1>2. ASSUME NEW o, ReceiverCommits(o) \/ ReceiverRefused(o) PROVE Safe
    <2>1. AllCalm
      <3>1. CASE Return(p)
        BY <1>1, <3>1, CalmReturn
      <3>2. CASE ~Return(p)
        BY <1>1, <1>2, <3>2 DEF ReceiverCommits, ReceiverRefused, AllCalm, Calm, Adm, Frame
      <3> QED BY <3>1, <3>2
    <2> QED BY <1>1, <1>2, <2>1, TerminalSafe DEF ReceiverCommits, ReceiverRefused, avars
  <1> QED BY <1>1, <1>2, DrainStepSafe, AdmissionCommittedSafe, AcceptSafe, DropSafe, UnwindSafe,
             StartNoticeSafe, ApplyTerminalSafe, CompactionSafe
          DEF ReceiverStep

(* Every step of a discard.                                                *)
LEMMA DiscardSafe ==
  ASSUME LeaveInv, DiscardStep
  PROVE  Safe
  <1> DEFINE p == "disc"
  <1>1. /\ p \in Procs /\ pr = [q \in Procs |-> pr[q]] /\ Frame(pr[p]) /\ Knows(pr[p])
    BY ProcFacts DEF Procs
  <1>2. ASSUME NEW o, DiscardCommits(o) \/ DiscardRefused(o) PROVE Safe
    <2>1. AllCalm
      <3>1. CASE Return(p)
        BY <1>1, <3>1, CalmReturn
      <3>2. CASE ~Return(p)
        BY <1>1, <1>2, <3>2
        DEF DiscardCommits, DiscardRefused, RollBackTerminal, AllCalm, Calm, Adm, Frame
      <3> QED BY <3>1, <3>2
    <2> QED BY <1>1, <1>2, <2>1, TerminalSafe DEF DiscardCommits, DiscardRefused, avars
  <1>3. CASE DropAnnounced \/ CancelFails
    BY <1>1, <1>3, CalmReturn, StillSafe DEF DropAnnounced, CancelFails, avars
  <1>4. CASE CancelStarted
    <2>1. CASE Goto(p, "commit") \/ Goto(p, "cancelling")
      BY <1>1, <1>4, <2>1, CalmGoto, StillSafe DEF CancelStarted, avars, Adm
    <2>2. CASE pr' = [pr EXCEPT ![p] = Draining(@, live, "cancelling", "cancelFails")]
      <3> DEFINE r == Draining(pr[p], live, "cancelling", "cancelFails")
      <3>1. pr' = [pr EXCEPT ![p] = r]
        BY <2>2
      <3>2. Calm(pr[p], r)
        BY <1>1, BatchCalm DEF Nexts, Afters
      <3> HIDE DEF r
      <3> QED BY <1>1, <1>4, <3>1, <3>2, CalmMove, StillSafe DEF CancelStarted, avars
    <2> QED BY <1>4, <2>1, <2>2 DEF CancelStarted, DrainLive
  <1> QED BY <1>1, <1>2, <1>3, <1>4, DrainStepSafe, ApplyTerminalSafe DEF DiscardStep

-----------------------------------------------------------------------------
(* Execution *)

(* The executor alone moves.                                               *)
LEMMA MovesSafe ==
  ASSUME LeaveInv, NEW r, Moves(r), Calm(X, r)
  PROVE  Safe
  <1>1. "exec" \in Procs /\ pr' = [pr EXCEPT !["exec"] = r] /\ UNCHANGED <<qvars, arrived>>
    BY DEF Moves, Procs, avars
  <1>2. AllCalm
    BY <1>1, CalmMove DEF X
  <1> QED BY <1>1, <1>2, StillSafe

(* The steps between two operations.                                       *)
LEMMA ExecutorMovesSafe ==
  ASSUME LeaveInv, RestoreFails \/ Release \/ ProviderStep \/ ProviderFinishes \/ Fail
  PROVE  Safe
  <1>1. Frame(X)
    BY ProcFacts DEF X, Procs
  <1>2. \A c : c \notin Adm => Calm(X, [X EXCEPT !.pc = c])
    BY <1>1 DEF Frame, Calm, Adm
  <1>3. \A c, v : c \notin Adm => Calm(X, [X EXCEPT !.pc = c, !.d = v])
    BY <1>1, CalmForms
  <1>4. Calm(X, [X EXCEPT !.pc = "preserve", !.after = "lateStart", !.already = {}])
    BY <1>1, CalmForms DEF Adm
  <1>5. Calm(X, Fails(X))
    BY <1>1, CalmForms DEF Fails, Adm
  <1>6. CASE RestoreFails
    BY <1>4, <1>6, MovesSafe DEF RestoreFails
  <1>7. CASE Release
    BY <1>2, <1>3, <1>7, MovesSafe DEF Release, Adm
  <1>8. CASE ProviderStep \/ ProviderFinishes
    BY <1>2, <1>3, <1>8, MovesSafe
    DEF ProviderStep, ProviderContinues, ProviderFails, ProviderFinishes, RestoreCancelled, Adm
  <1>9. CASE Fail
    BY <1>5, <1>9, MovesSafe DEF Fail
  <1> QED BY <1>6, <1>7, <1>8, <1>9

(* What has expired is not restored.                                       *)
LEMMA RestoreSafe ==
  ASSUME LeaveInv, NEW S \in SUBSET {i \in Inputs : Expirable(View[i])},
         NEW o \in Outcomes \cup {"journal"}, Restore(S, o)
  PROVE  Safe
  <1>1. /\ "exec" \in Procs /\ pr = [q \in Procs |-> pr[q]] /\ Frame(pr["exec"])
        /\ StoreInv /\ Deadlines /\ UNCHANGED arrived /\ arrived \subseteq arrived'
        /\ S \in SUBSET Inputs /\ (S # {} => "expire" \in Operations)
    BY ProcFacts DEF Restore, avars, Procs
  <1>2. ASSUME NEW c \in {"fail", "restoreFail"},
               pr' = [pr EXCEPT !["exec"].pc = c, !["exec"].d = "dead"]
        PROVE  AllCalm
    BY <1>1, <1>2 DEF AllCalm, Calm, Adm, Frame
  <1>3. ASSUME pr' = [pr EXCEPT !["exec"].pc = "restoreTake", !["exec"].todo = ReplayOrder(S)]
        PROVE  AllCalm
    BY <1>1, <1>3 DEF AllCalm, Calm, Adm, Frame
  <1>4. AllCalm
    BY <1>2, <1>3 DEF Restore
  <1>5. CASE UNCHANGED qvars
    BY <1>1, <1>4, <1>5, StillSafe
  <1>6. CASE Expire(S, o)
    <2>1. Deadlines' /\ fate' = fate /\ accepted' \subseteq accepted /\ Leaves
      BY <1>1, <1>6, ExpireLeaves
    <2>2. Interrupted' = Interrupted
      BY <2>1 DEF Interrupted
    <2> QED BY <1>1, <1>4, <2>1, <2>2, CalmSafe
  <1> QED BY <1>5, <1>6 DEF Restore

(* The next of what is restored.                                           *)
LEMMA RestoreTakeSafe ==
  ASSUME LeaveInv, RestoreTake
  PROVE  Safe
  <1>1. "exec" \in Procs /\ Frame(X) /\ UNCHANGED <<qvars, arrived>>
    BY ProcFacts DEF RestoreTake, avars, Procs, X
  <1>2. PICK r : /\ pr' = [pr EXCEPT !["exec"] = r] /\ r.retried = X.retried
                 /\ r.pc \in {"window", "admit", "mark"}
    BY <1>1, RestoreTakeMoves
  <1>3. Calm(pr["exec"], r)
    BY <1>2 DEF Calm, Adm, X
  <1>4. AllCalm
    BY <1>1, <1>2, <1>3, CalmMove
  <1> QED BY <1>1, <1>4, StillSafe

(* What the transcript already holds is marked.                            *)
LEMMA MarkAlreadySafe ==
  ASSUME LeaveInv, NEW o \in Outcomes, MarkAlreadyAdmitted(o) \/ MarkAlreadyProcessed(o)
  PROVE  Safe
  <1>1. /\ "exec" \in Procs /\ pr = [q \in Procs |-> pr[q]] /\ Frame(pr["exec"])
        /\ StoreInv /\ Deadlines /\ UNCHANGED arrived /\ arrived \subseteq arrived'
    BY ProcFacts DEF MarkAlreadyAdmitted, MarkAlreadyProcessed, avars, Procs
  <1>2. ASSUME MarkFails PROVE AllCalm
    BY <1>1, <1>2 DEF MarkFails, AllCalm, Calm, Adm, Frame
  <1>3. ASSUME pr' = [pr EXCEPT !["exec"].pc = "start", !["exec"].todo = <<>>,
                                !["exec"].already = {}]
        PROVE  AllCalm
    BY <1>1, <1>3 DEF AllCalm, Calm, Adm, Frame
  <1>4. AllCalm
    BY <1>1, <1>2, <1>3, CalmGoto DEF MarkAlreadyAdmitted, MarkAlreadyProcessed, Adm
  <1>5. CASE UNCHANGED qvars
    BY <1>1, <1>4, <1>5, StillSafe
  <1>6. CASE \E S, t : MarkAdmitted(S, t, o)
    <2>1. Deadlines' /\ UNCHANGED <<fate, accepted>>
      BY <1>1, <1>6, ClaimClear DEF MarkAdmitted, Update
    <2> QED BY <1>1, <1>4, <2>1, KeepSafe
  <1>7. CASE \E S : MarkProcessed(S, o)
    <2>1. Deadlines' /\ UNCHANGED <<fate, accepted>>
      BY <1>1, <1>7, MoveClear DEF MarkProcessed, Update
    <2> QED BY <1>1, <1>4, <2>1, KeepSafe
  <1> QED BY <1>5, <1>6, <1>7 DEF MarkAlreadyAdmitted, MarkAlreadyProcessed

(* The Turn's own input is recorded, and marked.                           *)
LEMMA RecordSafe ==
  ASSUME LeaveInv, NEW o,
         LateStart(o) \/ LateMark(o) \/ RecordStart(o) \/ \E blocked : MarkStart(o, blocked)
  PROVE  Safe
  <1>1. /\ "exec" \in Procs /\ Frame(pr["exec"])
        /\ StoreInv /\ Deadlines /\ UNCHANGED arrived /\ arrived \subseteq arrived'
    BY ProcFacts DEF LateStart, LateMark, RecordStart, MarkStart, avars, Procs
  <1>2. \A c : c \notin Adm => Calm(pr["exec"], [pr["exec"] EXCEPT !.pc = c])
    BY <1>1 DEF Frame, Calm, Adm
  <1>3. \A c, v : c \notin Adm => Calm(pr["exec"], [pr["exec"] EXCEPT !.pc = c, !.d = v])
    BY <1>1, CalmForms
  <1>4. Calm(pr["exec"], Fails(pr["exec"]))
    BY <1>1, CalmForms DEF Fails, Adm
  <1>5. PICK r : /\ pr' = [pr EXCEPT !["exec"] = r]
                 /\ \/ r = Fails(pr["exec"])
                    \/ \E c \in {"lateMark", "startMark", "loop"} : r = [pr["exec"] EXCEPT !.pc = c]
                    \/ r = [pr["exec"] EXCEPT !.pc = "fail", !.d = "dead"]
    BY DEF LateStart, LateMark, RecordStart, MarkStart
  <1>6. Calm(pr["exec"], r)
    <2>1. CASE r = Fails(pr["exec"])
      BY <1>4, <2>1
    <2>2. ASSUME NEW c \in {"lateMark", "startMark", "loop"}, r = [pr["exec"] EXCEPT !.pc = c]
          PROVE  Calm(pr["exec"], r)
      BY <1>2, <2>2 DEF Adm
    <2>3. CASE r = [pr["exec"] EXCEPT !.pc = "fail", !.d = "dead"]
      BY <1>3, <2>3 DEF Adm
    <2> QED BY <1>5, <2>1, <2>2, <2>3
  <1>7. AllCalm
    BY <1>1, <1>5, <1>6, CalmMove
  <1>8. CASE UNCHANGED qvars
    BY <1>1, <1>7, <1>8, StillSafe
  <1>9. CASE \E S : MarkProcessed(S, o)
    <2>1. Deadlines' /\ UNCHANGED <<fate, accepted>>
      BY <1>1, <1>9, MoveClear DEF MarkProcessed, Update
    <2> QED BY <1>1, <1>7, <2>1, KeepSafe
  <1> QED BY <1>8, <1>9 DEF LateStart, LateMark, RecordStart, MarkStart

(* The queue is drained, looked at once more, and the Turn ends.           *)
LEMMA EndsSafe ==
  ASSUME LeaveInv, Drain \/ Finish \/ Terminate \/ Done
  PROVE  Safe
  <1>1. /\ "exec" \in Procs /\ Frame(pr["exec"]) /\ Knows(pr["exec"])
        /\ pr = [q \in Procs |-> pr[q]] /\ UNCHANGED <<qvars, arrived>>
    BY ProcFacts DEF Drain, Finish, Terminate, Done, avars, Procs
  <1>2. ASSUME NEW c \in {"provider", "loop", "commit"}, Goto("exec", c) PROVE AllCalm
    BY <1>1, <1>2, CalmGoto DEF Adm
  <1>3. ASSUME pr' = [pr EXCEPT !["exec"] = Draining(@, live, "iterate", "drainFail")]
        PROVE  AllCalm
    <2> DEFINE r == Draining(pr["exec"], live, "iterate", "drainFail")
    <2>1. pr' = [pr EXCEPT !["exec"] = r]
      BY <1>3
    <2>2. Calm(pr["exec"], r)
      BY <1>1, BatchCalm DEF Nexts, Afters
    <2> HIDE DEF r
    <2> QED BY <1>1, <2>1, <2>2, CalmMove
  <1>4. ASSUME pr' = [pr EXCEPT !["exec"].pc = "commit", !["exec"].d = "completed"]
        PROVE  AllCalm
    BY <1>1, <1>4 DEF AllCalm, Calm, Adm, Frame
  <1>5. AllCalm
    <2>1. CASE Drain
      BY <1>2, <1>3, <2>1 DEF Drain
    <2>2. CASE Finish
      BY <1>2, <1>4, <2>2 DEF Finish
    <2>3. CASE Terminate \/ Done
      BY <1>1, <1>2, <2>3, CalmReturn DEF Terminate, Done
    <2> QED BY <2>1, <2>2, <2>3
  <1> QED BY <1>1, <1>5, StillSafe

(* The terminal event of the executor's Turn.                              *)
LEMMA ExecutorCommitsSafe ==
  ASSUME LeaveInv, NEW o, ExecutorCommits(o) \/ ExecutorRefused(o)
  PROVE  Safe
  <1>1. /\ "exec" \in Procs /\ Frame(pr["exec"]) /\ pr = [q \in Procs |-> pr[q]]
        /\ UNCHANGED arrived
    BY ProcFacts DEF ExecutorCommits, ExecutorRefused, avars, Procs
  <1>2. ASSUME CommitFails PROVE AllCalm
    <2>1. CASE pr' = [pr EXCEPT !["exec"].d = "dead"]
      BY <1>1, <2>1 DEF AllCalm, Calm, Adm, Frame
    <2> QED BY <1>1, <1>2, <2>1, CalmGoto DEF CommitFails, Adm
  <1>3. ASSUME pr' = [pr EXCEPT !["exec"].pc = "apply",
                                !["exec"].ids = InputIDsForTurn(X.turn)]
        PROVE  AllCalm
    BY <1>1, <1>3 DEF AllCalm, Calm, Adm, Frame
  <1>4. AllCalm
    BY <1>2, <1>3 DEF ExecutorCommits, ExecutorRefused
  <1> QED BY <1>1, <1>4, TerminalSafe DEF ExecutorCommits, ExecutorRefused

(* Every step of the executor.                                             *)
LEMMA ExecutorSafe ==
  ASSUME LeaveInv, ExecutorStep \/ ProviderStep
  PROVE  Safe
  <1>1. "exec" \in Procs
    BY DEF Procs
  <1> QED BY <1>1, DrainStepSafe, AdmissionCommittedSafe, AcceptSafe, DropSafe, UnwindSafe,
             RestoreSafe, RestoreTakeSafe, MarkAlreadySafe, RecordSafe, ExecutorMovesSafe,
             EndsSafe, ExecutorCommitsSafe, ApplyTerminalSafe
          DEF ExecutorStep

-----------------------------------------------------------------------------
(* Calls *)

(* A goroutine begins the admission r.                                     *)
Enters(p, r) ==
    /\ r.retried \subseteq Interrupted
    /\ r.pc = "notice" => r.src = "direct"
    /\ r.input \in External \cup arrived'
    /\ Created(r.src) => r.input \in Direct \ accepted
    /\ \A q \in Procs \ {p} : pr[q].pc \in Adm => pr[q].input # r.input

(* An admission of an input nobody else admits.                            *)
LEMMA EntersSafe ==
  ASSUME LeaveInv, NEW p \in Procs, NEW r, pr' = [pr EXCEPT ![p] = r], Enters(p, r),
         Deadlines', UNCHANGED <<fate, accepted>>, arrived \subseteq arrived'
  PROVE  Safe
  <1>1. /\ pr = [q \in Procs |-> pr[q]] /\ AdmissionsApart /\ Interrupted' = Interrupted
    BY ProcFacts DEF Interrupted
  <1>2. \A q \in Procs : pr'[q] = IF q = p THEN r ELSE pr[q]
    BY <1>1
  <1>3. AdmissionsApart'
    BY <1>1, <1>2 DEF AdmissionsApart, Enters, Adm, Created
  <1> QED BY <1>3 DEF Safe

(* The same through admitTurnMessage.                                      *)
LEMMA StagedSafe ==
  ASSUME LeaveInv, NEW p \in Procs, At(p, "idle"), NEW i \in Inputs, NEW t, NEW src,
         Staged(p, i, t, src), i \in External \cup arrived',
         Created(src) => i \in Direct \ accepted,
         \A q \in Procs \ {p} : pr[q].pc \in Adm => pr[q].input # i,
         Deadlines', UNCHANGED <<fate, accepted>>, arrived \subseteq arrived'
  PROVE  Safe
  <1>1. Frame(pr[p]) /\ AdmissionsApart
    BY ProcFacts
  <1> DEFINE r == [pr[p] EXCEPT !.pc = "staged", !.turn = t, !.input = i, !.src = src]
  <1>2. r.pc = "staged" /\ r.input = i /\ r.src = src /\ r.retried = pr[p].retried
    BY <1>1 DEF Frame
  <1>3. pr' = [pr EXCEPT ![p] = r]
    BY DEF Staged
  <1> HIDE DEF r
  <1>4. Enters(p, r)
    BY <1>1, <1>2 DEF Enters, AdmissionsApart
  <1> QED BY <1>3, <1>4, EntersSafe

(* A fresh identity is nobody's.                                           *)
LEMMA FreshIsNew ==
  ASSUME LeaveInv, FreshLeft
  PROVE  /\ Fresh \in Direct \ arrived /\ Fresh \in Inputs /\ Fresh \notin accepted
         /\ \A q \in Procs : pr[q].pc \in Adm => pr[q].input # Fresh
  <1>1. Fresh \in Direct \ arrived /\ Fresh \in Inputs
    BY InputsAssumption DEF FreshLeft, Fresh
  <1>2. StoreInv /\ Deadlines /\ AdmissionsApart
    BY DEF LeaveInv, ThreadInv
  <1>3. Fresh \notin accepted
    BY <1>1, <1>2 DEF StoreInv, AcceptedHeld, Deadlines, DirectArrived
  <1>4. \A q \in Procs : pr[q].pc \in Adm => pr[q].input # Fresh
    BY <1>1, <1>2, InputsAssumption DEF AdmissionsApart
  <1> QED BY <1>1, <1>3, <1>4

(* A goroutine that only announces admits nothing.                         *)
LEMMA CalmAnnounce ==
  ASSUME LeaveInv, NEW p \in Procs, NEW c \in {"enqueued", "dropped"},
         Announce(p, [Idle EXCEPT !.pc = c])
  PROVE  AllCalm
  <1> DEFINE r == [Idle EXCEPT !.pc = c]
  <1>1. Calm(pr[p], r)
    BY DEF Calm, Idle, Adm
  <1>2. CASE pr' = [pr EXCEPT ![p] = r]
    <2> HIDE DEF r
    <2> QED BY <1>1, <1>2, CalmMove
  <1> QED BY <1>2, CalmReturn DEF Announce

(* A message joins the active Turn.                                        *)
LEMMA EnqueueNewSafe ==
  ASSUME LeaveInv, NEW o \in Outcomes, EnqueueNew(o)
  PROVE  Safe
  <1>1. /\ "recv" \in Procs /\ StoreInv /\ Deadlines /\ AdmissionsApart
        /\ arrived' = arrived \cup {Fresh} /\ arrived \subseteq arrived'
    BY ProcFacts DEF EnqueueNew, Procs
  <1>2. /\ Fresh \in Inputs
        /\ \A q \in Procs : pr[q].pc \in Adm => pr[q].input # Fresh
    BY FreshIsNew DEF EnqueueNew
  <1>3. Enqueue(Fresh, active, o)
    BY DEF EnqueueNew
  <1>4. Deadlines'
    BY <1>1, <1>2, <1>3, NewClear
  <1>5. fate' = fate /\ accepted \subseteq accepted' /\ accepted' \subseteq accepted \cup {Fresh}
    BY <1>3 DEF Enqueue, Insert
  <1>6. AllCalm
    BY <1>1, CalmAnnounce, CalmStill DEF EnqueueNew, Enqueued
  <1>7. AdmissionsApart'
    <2> DEFINE N == {Fresh}
    <2>1. accepted' \subseteq accepted \cup N /\ \A q \in Procs : pr[q].pc \in Adm => pr[q].input \notin N
      BY <1>2, <1>5
    <2> HIDE DEF N
    <2> QED BY <1>1, <1>5, <1>6, <2>1, CalmKeeps DEF Interrupted
  <1> QED BY <1>4, <1>5, <1>7 DEF Safe

(* A message starts a Turn.                                                *)
LEMMA StartNewSafe ==
  ASSUME LeaveInv, NEW p, NEW src, NEW o \in Outcomes, StartNew(p, src, o)
  PROVE  Safe
  <1>1. /\ p \in Procs /\ At(p, "idle") /\ StoreInv /\ Deadlines
        /\ arrived' = arrived \cup {Fresh} /\ arrived \subseteq arrived'
    BY ProcFacts DEF StartNew, Procs
  <1>2. /\ Fresh \in Direct \ arrived /\ Fresh \in Inputs /\ Fresh \notin accepted
        /\ \A q \in Procs : pr[q].pc \in Adm => pr[q].input # Fresh
    BY FreshIsNew DEF StartNew
  <1>3. StageTurnInput(Fresh, NewTurn, o)
    BY DEF StartNew
  <1>4. Deadlines' /\ UNCHANGED <<fate, accepted>>
    BY <1>1, <1>2, <1>3, NewClear DEF StageTurnInput, Insert
  <1>5. CASE Staged(p, Fresh, NewTurn, src)
    BY <1>1, <1>2, <1>4, <1>5, StagedSafe
  <1>6. CASE NotStaged
    <2>1. AllCalm
      BY <1>6, CalmStill DEF NotStaged
    <2>2. AdmissionsApart'
      <3> DEFINE N == {}
      <3>1. accepted' \subseteq accepted \cup N /\ \A i : i \notin N
        BY <1>4
      <3> HIDE DEF N
      <3> QED BY <1>1, <1>4, <2>1, <3>1, CalmKeeps DEF LeaveInv, Interrupted
    <2> QED BY <1>4, <2>2 DEF Safe
  <1> QED BY <1>5, <1>6 DEF StartNew

(* The handoff of a restart continuation.                                  *)
LEMMA RetryTurnSafe ==
  ASSUME LeaveInv, NEW t \in Turns, NEW o \in Outcomes, RetryTurn(t, o)
  PROVE  Safe
  <1> DEFINE p == "recv"
             S == RetriableOf(t)
             k == View[CHOOSE i \in S : TRUE].kind
             f == Fresh
             r == [Idle EXCEPT !.pc = "notice", !.input = f, !.src = "direct", !.retried = S,
                               !.from = t, !.kind = k]
  <1>1. /\ p \in Procs /\ StoreInv /\ Deadlines /\ AdmissionsApart
        /\ arrived' = arrived \cup {f} /\ arrived \subseteq arrived'
    BY ProcFacts DEF RetryTurn, Procs
  <1>2. /\ f \in Direct \ arrived /\ f \notin accepted
        /\ \A q \in Procs : pr[q].pc \in Adm => pr[q].input # f
    BY FreshIsNew DEF RetryTurn
  <1>3. S \subseteq Interrupted
    BY <1>1, ViewClear DEF RetriableOf
  <1>4. Deadlines' /\ UNCHANGED <<fate, accepted>>
    BY <1>1, MoveClear DEF RetryTurn, RetryTurnInputs, Update
  <1>5. CASE pr' = [pr EXCEPT ![p] = r]
    <2> HIDE DEF f, S, k
    <2>1. r.pc = "notice" /\ r.input = f /\ r.src = "direct" /\ r.retried = S
      BY DEF Idle
    <2> HIDE DEF r
    <2>2. Enters(p, r)
      BY <1>1, <1>2, <1>3, <2>1 DEF Enters
    <2> QED BY <1>1, <1>4, <1>5, <2>2, EntersSafe
  <1>6. CASE UNCHANGED pr
    <2>1. AllCalm
      BY <1>6, CalmStill
    <2>2. AdmissionsApart'
      <3> DEFINE N == {}
      <3>1. accepted' \subseteq accepted \cup N /\ \A i : i \notin N
        BY <1>4
      <3> HIDE DEF N
      <3> QED BY <1>1, <1>4, <2>1, <3>1, CalmKeeps DEF Interrupted
    <2> QED BY <1>4, <2>2 DEF Safe
  <1> QED BY <1>5, <1>6 DEF RetryTurn

(* An external input is accepted.                                          *)
LEMMA PersistExternalSafe ==
  ASSUME LeaveInv, NEW i \in External, NEW o \in Outcomes, PersistExternal(i, o)
  PROVE  Safe
  <1>1. /\ StoreInv /\ Deadlines /\ AdmissionsApart /\ UNCHANGED arrived
        /\ arrived \subseteq arrived' /\ i \in Inputs /\ i \notin Direct /\ AllCalm
    BY InputsAssumption, CalmStill DEF PersistExternal, LeaveInv, ThreadInv
  <1>2. CASE UNCHANGED qvars
    BY <1>1, <1>2, StillSafe
  <1>3. CASE Enqueue(i, active, o)
    <2>1. Deadlines'
      BY <1>1, <1>3, NewClear
    <2>2. fate' = fate /\ accepted \subseteq accepted' /\ accepted' \subseteq accepted \cup {i}
      BY <1>3 DEF Enqueue, Insert
    <2>3. AdmissionsApart'
      <3> DEFINE N == {i}
      <3>1. /\ accepted' \subseteq accepted \cup N
            /\ \A q \in Procs : pr[q].pc \in Adm /\ Created(pr[q].src) => pr[q].input \notin N
        BY <1>1, <2>2 DEF AdmissionsApart
      <3> HIDE DEF N
      <3> QED BY <1>1, <2>2, <3>1, CalmKeeps DEF Interrupted
    <2> QED BY <2>1, <2>2, <2>3 DEF Safe
  <1> QED BY <1>2, <1>3 DEF PersistExternal

(* A source withdraws an input: the one way to leave by its source.        *)
LEMMA DiscardQueuedSafe ==
  ASSUME LeaveInv, NEW i \in External, NEW o \in Outcomes, DiscardQueued(i, o)
  PROVE  Safe
  <1>1. /\ "disc" \in Procs /\ StoreInv /\ Deadlines /\ AdmissionsApart
        /\ UNCHANGED arrived /\ arrived \subseteq arrived' /\ {i} \in SUBSET Inputs
    BY ProcFacts, InputsAssumption DEF DiscardQueued, Procs
  <1>2. RemoveRecords({i}, o)
    BY DEF DiscardQueued
  <1>3. Deadlines' /\ fate' = fate
    BY <1>1, <1>2, RemovalClear DEF RemoveRecords
  <1>4. accepted' \subseteq accepted /\ accepted \ accepted' \subseteq {i}
    BY <1>2 DEF RemoveRecords
  <1>5. AllCalm
    BY <1>1, CalmAnnounce, CalmStill DEF DiscardQueued
  <1>6. AdmissionsApart'
    <2> DEFINE N == {}
    <2>1. accepted' \subseteq accepted \cup N /\ \A j : j \notin N
      BY <1>4
    <2> HIDE DEF N
    <2> QED BY <1>1, <1>3, <1>5, <2>1, CalmKeeps DEF Interrupted
  <1> QED BY <1>3, <1>4, <1>6 DEF Safe

(* Every call of the environment.                                          *)
LEMMA CallsSafe ==
  ASSUME LeaveInv, Calls
  PROVE  Safe
  <1>1. "recv" \in Procs /\ "disc" \in Procs
    BY DEF Procs
  <1>2. CASE RejectFull
    <2>1. AllCalm
      BY <1>1, <1>2, CalmAnnounce DEF RejectFull, Enqueued
    <2> QED BY <1>2, <2>1, StillSafe DEF RejectFull, avars
  <1>3. CASE ReserveCompaction
    <2> DEFINE t == NewTurn
               r == [Idle EXCEPT !.pc = "reserving", !.turn = t]
    <2>1. pr' = [pr EXCEPT !["recv"] = r] /\ UNCHANGED <<qvars, arrived>>
      BY <1>3 DEF ReserveCompaction
    <2> HIDE DEF t
    <2>2. Calm(pr["recv"], r)
      BY DEF Calm, Idle, Adm
    <2> HIDE DEF r
    <2> QED BY <1>1, <2>1, <2>2, CalmMove, StillSafe
  <1>4. ASSUME NEW i \in External, DiscardStarted(i) PROVE Safe
    <2> DEFINE r == [Idle EXCEPT !.pc = "cancelling", !.turn = active, !.input = i,
                                 !.d = "cancelled"]
    <2>1. pr' = [pr EXCEPT !["disc"] = r] /\ UNCHANGED <<qvars, arrived>>
      BY <1>4 DEF DiscardStarted
    <2>2. Calm(pr["disc"], r)
      BY DEF Calm, Idle, Adm
    <2> HIDE DEF r
    <2> QED BY <1>1, <2>1, <2>2, CalmMove, StillSafe
  <1>5. CASE ReserveMaintenance \/ ReleaseMaintenance
    BY <1>5, CalmStill, StillSafe DEF ReserveMaintenance, ReleaseMaintenance, evars
  <1> QED BY <1>2, <1>3, <1>4, <1>5, EnqueueNewSafe, StartNewSafe, RetryTurnSafe,
             PersistExternalSafe, DiscardQueuedSafe
          DEF Calls

(* Every delivery of a persisted input.                                    *)
LEMMA DeliverSafe ==
  ASSUME LeaveInv, NEW i \in Inputs, Deliver(i)
  PROVE  Safe
  <1>1. /\ "recv" \in Procs /\ StoreInv /\ Deadlines /\ AdmissionsApart
    BY ProcFacts DEF Procs
  <1>2. CASE ResumeInert(i)
    BY <1>2, CalmStill, StillSafe DEF ResumeInert, evars
  <1>3. ASSUME NEW o \in Outcomes, ResumeExpired(i, o) PROVE Safe
    <2>1. /\ RemoveRecords({i}, o) /\ {i} \in SUBSET Inputs /\ UNCHANGED <<arrived, pr>>
          /\ arrived \subseteq arrived' /\ AllCalm
      BY <1>3, CalmStill DEF ResumeExpired
    <2>2. Deadlines' /\ fate' = fate
      BY <1>1, <2>1, RemovalClear DEF RemoveRecords
    <2>3. accepted' \subseteq accepted /\ accepted \ accepted' \subseteq {i}
      BY <2>1 DEF RemoveRecords
    <2>4. Lapses(i)
      BY <1>1, <1>3, ExpirablePending DEF ResumeExpired, Lapses
    <2>5. Leaves /\ Interrupted' = Interrupted
      BY <2>2, <2>3, <2>4 DEF Leaves, Interrupted
    <2> QED BY <2>1, <2>2, <2>3, <2>5, CalmSafe
  <1>4. CASE ResumeJoins(i)
    <2>1. AllCalm
      BY <1>1, <1>4, CalmAnnounce DEF ResumeJoins, Enqueued
    <2> QED BY <1>4, <2>1, StillSafe DEF ResumeJoins
  <1>5. CASE ResumeStarts(i)
    <2>1. /\ At("recv", "idle") /\ Staged("recv", i, NewTurn, Source) /\ Present(i)
          /\ UNCHANGED <<qvars, arrived>> /\ arrived \subseteq arrived'
          /\ \A q \in Procs : pr[q].input # i
      BY <1>5 DEF ResumeStarts, Deliverable, CanReceive, CanRestage, InFlight
    <2>2. i \in External \cup arrived'
      BY <1>1, <2>1, ViewClear, InputsAssumption DEF Present
    <2>3. ~Created(Source)
      BY DEF Created, Source
    <2>4. Deadlines' /\ UNCHANGED <<fate, accepted>>
      BY <1>1, <2>1, RestClear DEF qvars
    <2> QED BY <1>1, <2>1, <2>2, <2>3, <2>4, StagedSafe
  <1> QED BY <1>2, <1>3, <1>4, <1>5 DEF Deliver

(* The end of a compaction.                                                *)
LEMMA EndCompactionSafe ==
  ASSUME LeaveInv, EndCompaction
  PROVE  Safe
  <1>1. "recv" \in Procs
    BY DEF Procs
  <1>2. CASE PromotionRefused
    BY <1>2, CalmStill, StillSafe DEF PromotionRefused, evars
  <1>3. CASE FinishCompaction
    <2> DEFINE t == NewTurn
               i == Head(live)
               r == [Idle EXCEPT !.pc = "promoting", !.turn = t, !.input = i, !.src = "direct"]
    <2>1. UNCHANGED <<qvars, arrived>> /\ (UNCHANGED pr \/ pr' = [pr EXCEPT !["recv"] = r])
      BY <1>3 DEF FinishCompaction
    <2> HIDE DEF t, i
    <2>2. Calm(pr["recv"], r)
      BY DEF Calm, Idle, Adm
    <2> HIDE DEF r
    <2> QED BY <1>1, <2>1, <2>2, CalmMove, CalmStill, StillSafe
  <1> QED BY <1>2, <1>3 DEF EndCompaction

(* Claiming a start action.                                                *)
LEMMA ClaimSafe ==
  ASSUME LeaveInv, NEW s \in starts, ClaimStep(s)
  PROVE  Safe
  <1>1. /\ "exec" \in Procs /\ StoreInv /\ Deadlines /\ AdmissionsApart
    BY ProcFacts DEF Procs
  <1>2. \A i : LET c == Claiming(s, i) IN c.pc = "restore" /\ c.retried = {} /\ c.input = i
    BY DEF Claiming, Idle
  <1>3. ASSUME NEW i, pr' = [pr EXCEPT !["exec"] = Claiming(s, i)] PROVE AllCalm
    <2> DEFINE r == Claiming(s, i)
    <2>1. Calm(pr["exec"], r)
      BY <1>2 DEF Calm, Adm
    <2>2. pr' = [pr EXCEPT !["exec"] = r]
      BY <1>3
    <2> HIDE DEF r
    <2> QED BY <1>1, <2>1, <2>2, CalmMove
  <1>4. CASE RefuseClaim(s)
    BY <1>4, CalmStill, StillSafe DEF RefuseClaim, evars
  <1>5. CASE Claim(s)
    BY <1>3, <1>5, StillSafe DEF Claim
  <1>6. ASSUME NEW o \in Outcomes, Reclaim(s, o) PROVE Safe
    <2> DEFINE f == Fresh
    <2>1. /\ f \in Direct \ arrived /\ f \in Inputs /\ f \notin accepted
          /\ \A q \in Procs : pr[q].pc \in Adm => pr[q].input # f
      BY <1>6, FreshIsNew DEF Reclaim
    <2>2. StageTurnInput(f, s.turn, o) /\ arrived' = arrived \cup {f} /\ arrived \subseteq arrived'
      BY <1>6 DEF Reclaim
    <2>3. Deadlines' /\ UNCHANGED <<fate, accepted>> /\ Interrupted' = Interrupted
      BY <1>1, <2>1, <2>2, NewClear DEF StageTurnInput, Insert, Interrupted
    <2>4. CASE AllCalm
      <3> DEFINE N == {}
      <3>1. accepted' \subseteq accepted \cup N /\ \A i : i \notin N
        BY <2>3
      <3> HIDE DEF N
      <3>2. AdmissionsApart'
        BY <1>1, <2>2, <2>3, <2>4, <3>1, CalmKeeps
      <3> QED BY <2>3, <3>2 DEF Safe
    <2>5. CASE pr' = [pr EXCEPT !["exec"] = [Claiming(s, f) EXCEPT !.pc = "staged", !.src = "sync"]]
      <3> DEFINE r == [Claiming(s, f) EXCEPT !.pc = "staged", !.src = "sync"]
      <3>1. pr' = [pr EXCEPT !["exec"] = r]
        BY <2>5
      <3>2. r.pc = "staged" /\ r.input = f /\ r.src = "sync" /\ r.retried = {}
        <4> HIDE DEF f
        <4> QED BY DEF Claiming, Idle
      <3> HIDE DEF r
      <3>3. Enters("exec", r)
        BY <2>1, <2>2, <3>2 DEF Enters
      <3> QED BY <1>1, <2>2, <2>3, <3>1, <3>3, EntersSafe
    <2>6. UNCHANGED pr \/ pr' = [pr EXCEPT !["exec"] = Claiming(s, f)]
          \/ pr' = [pr EXCEPT !["exec"] = [Claiming(s, f) EXCEPT !.pc = "staged", !.src = "sync"]]
      BY <1>6 DEF Reclaim
    <2> QED BY <1>3, <2>4, <2>5, <2>6, CalmStill
  <1> QED BY <1>4, <1>5, <1>6 DEF ClaimStep

-----------------------------------------------------------------------------
(* The process *)

(* The process ends, and a new one reconciles and activates.               *)
LEMMA ProcessSafe ==
  ASSUME LeaveInv, Crash \/ Restart
  PROVE  Safe
  <1>1. /\ StoreInv /\ Deadlines /\ UNCHANGED arrived /\ arrived \subseteq arrived'
    BY DEF LeaveInv, ThreadInv, Crash, Restart, Reconcile, Activate
  <1>2. CASE Crash
    <2>1. \A p \in Procs : pr'[p] = Idle
      BY <1>2 DEF Crash
    <2>2. AllCalm
      BY <2>1 DEF AllCalm, Calm, Idle, Adm
    <2>3. Deadlines' /\ UNCHANGED <<fate, accepted>>
      BY <1>1, <1>2, RestClear DEF Crash, ProcessEnds
    <2> QED BY <1>1, <2>2, <2>3, KeepSafe
  <1>3. ASSUME NEW o, Reconcile(o) PROVE Safe
    <2>1. Deadlines' /\ UNCHANGED <<fate, accepted>>
      BY <1>1, <1>3, MoveClear DEF Reconcile, ReconcileRecoveryFacts, Update
    <2> QED BY <1>1, <1>3, <2>1, CalmStill, KeepSafe DEF Reconcile
  <1>4. ASSUME NEW S \in SUBSET Inputs, NEW o, Activate(S, o) PROVE Safe
    <2>1. /\ Deadlines' /\ fate' = fate /\ accepted' \subseteq accepted /\ Leaves
      BY <1>1, <1>4, ExpireLeaves DEF Activate
    <2>2. AllCalm /\ Interrupted' = Interrupted
      BY <1>4, <2>1, CalmStill DEF Activate, Interrupted
    <2> QED BY <1>1, <2>1, <2>2, CalmSafe
  <1> QED BY <1>2, <1>3, <1>4 DEF Restart

-----------------------------------------------------------------------------
(* The theorems about leaving *)

(* Every step of the Thread.                                               *)
LEMMA NextSafe ==
  ASSUME LeaveInv, [Next]_vars
  PROVE  LeaveInv' /\ Safe
  <1>1. ASSUME UNCHANGED vars PROVE Safe
    <2>1. UNCHANGED pr /\ UNCHANGED <<qvars, arrived>>
      BY <1>1 DEF vars, evars, avars
    <2> QED BY <2>1, CalmStill, StillSafe
  <1>2. Safe
    BY <1>1, CallsSafe, DeliverSafe, EndCompactionSafe, ReceiverSafe, DiscardSafe, ClaimSafe,
       ExecutorSafe, ProcessSafe
    DEF Next, Live
  <1>3. ThreadInv'
    BY NextKeeps, StepInv, StoreKinded DEF Kept, ThreadInv, LeaveInv
  <1> QED BY <1>2, <1>3 DEF LeaveInv, Safe

(* The Thread starts with the invariant.                                   *)
LEMMA InitLeave == Init => LeaveInv
  <1> SUFFICES ASSUME Init PROVE LeaveInv
    OBVIOUS
  <1>1. /\ doc = [i \in Inputs |-> NoRec] /\ fate = [i \in Inputs |-> "none"]
        /\ mem = [i \in Inputs |-> NoRec]
    BY DEF Init, QInit
  <1>2. Interrupted = {}
    BY <1>1 DEF Interrupted
  <1>3. Deadlines
    BY <1>1, <1>2, NoRecType, InputsAssumption
    DEF Deadlines, DeadlineClear, HandledOrClear, DeadlineKnown, RetryableInterrupted, DirectArrived
  <1>4. \A p \in Procs : pr[p] = Idle
    BY DEF Init, EngineInit
  <1>5. AdmissionsApart
    BY <1>4 DEF AdmissionsApart, Idle, Adm
  <1> QED BY <1>3, <1>5, InitThread DEF LeaveInv

(* LeaveInv is an invariant of the Thread.                                 *)
THEOREM ThreadLeaveInvariant == Spec => []LeaveInv
  <1>1. LeaveInv /\ [Next]_vars => LeaveInv'
    BY NextSafe
  <1> QED BY <1>1, InitLeave, PTL DEF Spec

(* DiscardPendingInput is a withdrawal: it acts between two lifecycle      *)
(* transitions, on what a source delivered, and ends no Turn.              *)
LEMMA DiscardWithdraws ==
  ASSUME NEW i \in Inputs, \E o \in Outcomes : DiscardQueued(i, o)
  PROVE  Withdrawn(i)
  BY DEF DiscardQueued, CanDiscard, Withdrawn

(* No accepted Input leaves the store but by a final record of its Turn,   *)
(* by its deadline or withdrawn by its source: under every interleaving of *)
(* admissions, executions and discards, every failed write and every       *)
(* restart.                                                                *)
THEOREM ThreadLeavesByRule == Spec => LeavesByRule
  <1>1. LeaveInv /\ [Next]_vars =>
           [\A i \in accepted \ accepted' :
               fate'[i] \in Final \/ Lapses(i) \/ Withdrawn(i)]_vars
    <2> SUFFICES ASSUME LeaveInv, [Next]_vars, vars' # vars
                 PROVE  \A i \in accepted \ accepted' :
                           fate'[i] \in Final \/ Lapses(i) \/ Withdrawn(i)
      OBVIOUS
    <2>1. \A i \in accepted \ accepted' :
             fate'[i] \in Final \/ Lapses(i) \/ \E o \in Outcomes : DiscardQueued(i, o)
      BY NextSafe DEF Safe
    <2>2. accepted \subseteq Inputs
      BY DEF LeaveInv, ThreadInv, StoreInv, QTypeOK
    <2> QED BY <2>1, <2>2, DiscardWithdraws
  <1> QED BY <1>1, ThreadLeaveInvariant, PTL DEF Spec, LeavesByRule

=============
