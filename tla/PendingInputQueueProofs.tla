----------------------- MODULE PendingInputQueueProofs -----------------------
(***************************************************************************)
(* Proofs about the open store of PendingInputQueue, for every set of      *)
(* inputs and Turns: its type, that no accepted Input is lost, and that a  *)
(* settled Input stays out.                                                *)
(*                                                                         *)
(* The inductive invariant StoreInv relates the document, the memory and   *)
(* the journal: what is accepted is on disk and not settled; memory never  *)
(* holds a record the disk does not; a settled Input that memory does not  *)
(* hold is known as handled; and what a Turn has taken has no deadline, so *)
(* that expiry cannot remove it behind the journal's back.                 *)
(***************************************************************************)
EXTENDS PendingInputQueue, TLAPS

(* What is accepted is on disk, in memory, and has no final record. *)
AcceptedHeld ==
    \A i \in accepted :
        /\ doc[i].state # "none"
        /\ fate[i] \notin Final
        /\ loaded => mem[i].state # "none"

(* Memory holds no record the document does not hold. *)
MemoryBacked == loaded => \A i \in Inputs : mem[i].state # "none" => doc[i].state # "none"

(* A settled Input is either handled or still a record without deadline. *)
SettledKnown ==
    loaded => \A i \in Inputs :
        fate[i] \in Final => IF mem[i].state = "none" THEN i \in handled ELSE ~mem[i].ttl

(* A record a Turn has taken, or is about to take, has no deadline. *)
Fixed == {"accepting", "admitted", "processed"}
NoDeadline(recs) == \A i \in Inputs : recs[i].state \in Fixed => ~recs[i].ttl

(* The inductive invariant. *)
StoreInv ==
    /\ QTypeOK
    /\ AcceptedHeld
    /\ MemoryBacked
    /\ SettledKnown
    /\ NoDeadline(doc) /\ NoDeadline(mem)

-----------------------------------------------------------------------------
(* Records and views *)

(* The empty record is a record.                                           *)
LEMMA NoRecType == NoRec \in Record /\ NoRec.state = "none" /\ ~NoRec.ttl
  BY DEF NoRec, Record, States

(* applyTerminalStateLocked yields a record: none for a final disposition  *)
(* or an absent record, otherwise the same input without a new deadline.   *)
LEMMA ApplyDispositionType ==
  ASSUME NEW r \in Record, NEW d \in Dispositions
  PROVE  LET n == ApplyDisposition(r, d) IN
         /\ n \in Record
         /\ n.state = "none" <=> r.state = "none" \/ d \in Final
         /\ n.state \notin Fixed
         /\ n.ttl => r.ttl
  <1>1. CASE r.state = "none" \/ d \in Final
    BY <1>1, NoRecType DEF ApplyDisposition, Fixed
  <1>2. CASE ~(r.state = "none" \/ d \in Final) /\ d = "dead"
    BY <1>2 DEF ApplyDisposition, Fixed, Record, States
  <1>3. CASE ~(r.state = "none" \/ d \in Final) /\ d # "dead"
    BY <1>3 DEF ApplyDisposition, Fixed, Record, States, Dispositions, Final
  <1> QED BY <1>1, <1>2, <1>3

(* Replaying the journal's fate over a record.                             *)
LEMMA ReplayType ==
  ASSUME NEW r \in Record, NEW f \in Dispositions \cup {"none"}
  PROVE  LET n == Replay(r, f) IN
         /\ n \in Record
         /\ n.state = "none" <=> r.state = "none" \/ f \in Final
         /\ n.state \in Fixed => r.state = n.state
         /\ n.ttl => r.ttl
  <1>1. CASE f = "none"
    BY <1>1 DEF Replay, Final
  <1>2. CASE f \in Dispositions
    BY <1>2, ApplyDispositionType DEF Replay, Dispositions
  <1> QED BY <1>1, <1>2

(* What a load recovers: the records of the document that have no final    *)
(* fate, none of them fixed with a deadline.                               *)
LEMMA RecoveredFacts ==
  ASSUME StoreInv
  PROVE  /\ Recovered \in [Inputs -> Record]
         /\ \A i \in Inputs : Recovered[i].state = "none" <=> doc[i].state = "none" \/ fate[i] \in Final
         /\ NoDeadline(Recovered)
  <1>1. ASSUME NEW i \in Inputs
        PROVE  /\ Recovered[i] \in Record
               /\ Recovered[i].state = "none" <=> doc[i].state = "none" \/ fate[i] \in Final
               /\ Recovered[i].state \in Fixed => ~Recovered[i].ttl
    <2>1. doc[i] \in Record /\ fate[i] \in Dispositions \cup {"none"}
      BY DEF StoreInv, QTypeOK
    <2>2. Recovered[i] = Replay(doc[i], fate[i])
      BY DEF Recovered
    <2>3. doc[i].ttl \in BOOLEAN /\ Recovered[i] \in Record
      BY <2>1, <2>2, ReplayType DEF Record
    <2> QED BY <2>1, <2>2, <2>3, ReplayType DEF StoreInv, NoDeadline, Record
  <1>2. Recovered = [i \in Inputs |-> Recovered[i]]
    BY DEF Recovered
  <1>3. Recovered \in [Inputs -> Record]
    BY <1>1, <1>2
  <1> QED BY <1>1, <1>3 DEF NoDeadline

(* What every operation starts from, loaded or not.                        *)
LEMMA ViewFacts ==
  ASSUME StoreInv
  PROVE  /\ View \in [Inputs -> Record]
         /\ HandledView \subseteq Inputs /\ HandledMsgsView \subseteq Inputs
         /\ NoDeadline(View)
         /\ \A i \in Inputs : View[i].state # "none" => doc[i].state # "none"
         /\ \A i \in Inputs : fate[i] \in Final =>
               IF View[i].state = "none" THEN i \in HandledView ELSE ~View[i].ttl
         /\ \A i \in accepted : View[i].state # "none"
         /\ DocAfterLoad \in [Inputs -> Record] /\ NoDeadline(DocAfterLoad)
         /\ \A i \in Inputs : View[i].state # "none" => DocAfterLoad[i].state # "none"
         /\ \A i \in accepted : DocAfterLoad[i].state # "none"
  <1> USE DEF StoreInv
  <1>1. CASE loaded
    <2>1. View = mem /\ HandledView = handled /\ HandledMsgsView = handledMsgs /\ DocAfterLoad = doc
      BY <1>1 DEF View, HandledView, HandledMsgsView, DocAfterLoad
    <2> QED BY <1>1, <2>1 DEF QTypeOK, AcceptedHeld, MemoryBacked, SettledKnown
  <1>2. CASE ~loaded
    <2>1. /\ View = Recovered /\ HandledView = {i \in Inputs : fate[i] # "none"}
          /\ HandledMsgsView = {} /\ DocAfterLoad = Recovered
      BY <1>2 DEF View, HandledView, HandledMsgsView, DocAfterLoad
    <2>2. \A i \in accepted : i \in Inputs /\ Recovered[i].state # "none"
      BY RecoveredFacts DEF QTypeOK, AcceptedHeld
    <2>3. \A i \in Inputs : fate[i] \in Final => fate[i] # "none" /\ Recovered[i].state = "none"
      BY RecoveredFacts DEF Final
    <2> QED BY <2>1, <2>2, <2>3, RecoveredFacts
  <1> QED BY <1>1, <1>2 DEF QTypeOK

-----------------------------------------------------------------------------
(* Persisting *)

(* What an operation must guarantee of the records it persists so that     *)
(* StoreInv survives, whatever the outcome of the write.                   *)
Sound(recs, hd, o) ==
    /\ recs \in [Inputs -> Record]
    /\ hd \subseteq Inputs
    /\ NoDeadline(recs)
    /\ \A i \in Inputs : fate[i] \in Final =>
          IF recs[i].state = "none" THEN i \in hd ELSE ~recs[i].ttl
    /\ accepted' \subseteq Inputs
    /\ \A i \in accepted' :
          /\ fate[i] \notin Final
          /\ o \in {"ok", "count"} => recs[i].state # "none"
          /\ o \notin {"ok", "count"} => i \in accepted
    /\ \A i \in Inputs : fate[i] \in Final /\ ~Present(i) => recs[i].state = "none"

(* The step of SettledStaysOut. *)
StaysOut == \A i \in Inputs : fate[i] \in Final /\ ~Present(i) => ~Present(i)'

(* A settled Input that the document still holds is not recovered from it. *)
LEMMA UnloadedStaysOut ==
  ASSUME StoreInv', loaded' = FALSE, NEW i \in Inputs, fate'[i] \in Final
  PROVE  ~Present(i)'
  <1>1. View' = Recovered'
    BY DEF View
  <1>2. Recovered'[i] = Replay(doc'[i], fate'[i])
    BY DEF Recovered
  <1>3. doc'[i] \in Record /\ fate'[i] \in Dispositions \cup {"none"}
    BY DEF StoreInv, QTypeOK
  <1>4. Replay(doc'[i], fate'[i]).state = "none"
    BY <1>3, ReplayType
  <1> QED BY <1>1, <1>2, <1>4 DEF Present

(* persistLocked of sound records keeps StoreInv, and keeps settled Inputs *)
(* out: after a success, after a failed write that forgets the memory, and *)
(* after a refusal.                                                        *)
LEMMA PersistKeepsInv ==
  ASSUME StoreInv, NEW recs, NEW hd, NEW hm \in SUBSET Inputs, NEW o,
         Sound(recs, hd, o), Persist(recs, hd, hm, o),
         fate' = fate, clock' \in Nat
  PROVE  StoreInv' /\ StaysOut
  <1> USE DEF Sound
  <1>0. /\ accepted' \subseteq Inputs
        /\ fate \in [Inputs -> Dispositions \cup {"none"}]
        /\ doc \in [Inputs -> Record] /\ NoDeadline(doc)
        /\ \A i \in accepted : doc[i].state # "none"
    BY DEF StoreInv, QTypeOK, AcceptedHeld
  <1>1. CASE o = "ok" /\ loaded /\ recs = View /\ doc' = doc /\ InMemory(View, hd, hm)
    <2>1. loaded' /\ mem' = recs /\ handled' = hd /\ handledMsgs' = hm /\ doc' = doc
      BY <1>1 DEF InMemory
    <2>2. \A i \in Inputs : recs[i].state # "none" => doc[i].state # "none"
      BY <1>1, ViewFacts
    <2>3. QTypeOK'
      BY <1>0, <2>1 DEF QTypeOK, InMemory
    <2>4. StoreInv'
      BY <1>0, <1>1, <2>1, <2>2, <2>3
      DEF StoreInv, AcceptedHeld, MemoryBacked, SettledKnown, NoDeadline
    <2> QED BY <2>1, <2>4 DEF StaysOut, Present, View
  <1>2. CASE o = "ok" /\ doc' = recs /\ InMemory(recs, hd, hm)
    <2>1. loaded' /\ mem' = recs /\ handled' = hd /\ handledMsgs' = hm /\ doc' = recs
      BY <1>2 DEF InMemory
    <2>2. QTypeOK'
      BY <1>0, <2>1 DEF QTypeOK, InMemory
    <2>3. StoreInv'
      BY <1>0, <1>2, <2>1, <2>2
      DEF StoreInv, AcceptedHeld, MemoryBacked, SettledKnown, NoDeadline
    <2> QED BY <2>1, <2>3 DEF StaysOut, Present, View
  <1>3. CASE o \in {"write", "count"} /\ doc' = (IF o = "count" THEN recs ELSE doc) /\ Unload
    <2>1. ~loaded' /\ mem' = [i \in Inputs |-> NoRec] /\ handled' = {} /\ handledMsgs' = {}
      BY <1>3 DEF Unload
    <2>2. mem' \in [Inputs -> Record] /\ \A i \in Inputs : mem'[i].state = "none"
      BY <2>1, NoRecType
    <2>3. doc' \in [Inputs -> Record] /\ \A i \in accepted' : doc'[i].state # "none"
      BY <1>0, <1>3
    <2>4. loaded' = FALSE
      BY <1>3 DEF Unload
    <2>5. QTypeOK'
      BY <1>0, <2>1, <2>2, <2>3, <2>4 DEF QTypeOK
    <2>6. NoDeadline(doc)' /\ NoDeadline(mem)'
      BY <1>0, <1>3, <2>2 DEF NoDeadline, Fixed
    <2>7. StoreInv'
      BY <1>0, <2>3, <2>4, <2>5, <2>6 DEF StoreInv, AcceptedHeld, MemoryBacked, SettledKnown
    <2> QED BY <2>4, <2>7, UnloadedStaysOut DEF StaysOut
  <1>4. CASE /\ o = "invalid" /\ doc' = (IF Loadable THEN DocAfterLoad ELSE doc)
             /\ InMemory(View, HandledView, HandledMsgsView)
    <2>1. /\ loaded' /\ mem' = View /\ handled' = HandledView /\ handledMsgs' = HandledMsgsView
      BY <1>4 DEF InMemory
    <2>2. /\ doc' \in [Inputs -> Record] /\ NoDeadline(doc')
          /\ \A i \in accepted : doc'[i].state # "none"
          /\ \A i \in Inputs : View[i].state # "none" => doc'[i].state # "none"
      BY <1>0, <1>4, ViewFacts
    <2>3. QTypeOK'
      BY <1>0, <2>1, <2>2, ViewFacts DEF QTypeOK, InMemory
    <2>4. accepted' \subseteq accepted
      BY <1>4
    <2>5. StoreInv'
      BY <1>0, <2>1, <2>2, <2>3, <2>4, ViewFacts
      DEF StoreInv, AcceptedHeld, MemoryBacked, SettledKnown, NoDeadline
    <2> QED BY <2>1, <2>5 DEF StaysOut, Present, View
  <1> QED BY <1>1, <1>2, <1>3, <1>4 DEF Persist

(* An operation that neither creates nor removes a record, and sets no     *)
(* deadline, is sound.                                                     *)
Follows(recs) ==
    /\ recs \in [Inputs -> Record]
    /\ NoDeadline(recs)
    /\ \A i \in Inputs : /\ recs[i].state = "none" <=> View[i].state = "none"
                         /\ recs[i].ttl => View[i].ttl

(* Such an operation keeps StoreInv.                                       *)
LEMMA UpdateKeepsInv ==
  ASSUME StoreInv, NEW recs, NEW o, Follows(recs), Update(recs, o),
         accepted' \subseteq Inputs,
         \A i \in accepted' : \/ i \in accepted
                              \/ o = "ok" /\ fate[i] \notin Final /\ Present(i)
  PROVE  StoreInv' /\ StaysOut
  <1>1. Sound(recs, HandledView, o)
    <2>1. \A i \in accepted : fate[i] \notin Final /\ View[i].state # "none"
      BY ViewFacts DEF StoreInv, AcceptedHeld
    <2> QED BY <2>1, ViewFacts DEF Sound, Follows, Present
  <1>2. clock' \in Nat /\ fate' = fate /\ Persist(recs, HandledView, HandledMsgsView, o)
    BY DEF Update, StoreInv, QTypeOK
  <1> QED BY <1>1, <1>2, ViewFacts, PersistKeepsInv

(* An upsert of a new record keeps StoreInv.                               *)
LEMMA InsertKeepsInv ==
  ASSUME StoreInv, NEW i \in Inputs, NEW r \in Record, NEW o,
         ~Present(i), fate[i] \notin Final,
         r.state # "none", r.state \in Fixed => ~r.ttl,
         Insert(i, r, o),
         accepted' = accepted \/ (o = "ok" /\ accepted' = accepted \cup {i})
  PROVE  StoreInv' /\ StaysOut
  <1> DEFINE recs == [View EXCEPT ![i] = r]
  <1>1. recs \in [Inputs -> Record] /\ \A j \in Inputs : recs[j] = IF j = i THEN r ELSE View[j]
    BY ViewFacts
  <1>2. Sound(recs, HandledView, o)
    <2>1. \A j \in accepted : fate[j] \notin Final /\ View[j].state # "none"
      BY ViewFacts DEF StoreInv, AcceptedHeld
    <2>2. accepted \subseteq Inputs
      BY DEF StoreInv, QTypeOK
    <2>3. NoDeadline(recs)
      BY <1>1, ViewFacts DEF NoDeadline
    <2> HIDE DEF recs
    <2> QED BY <1>1, <2>1, <2>2, <2>3, ViewFacts DEF Sound, Present
  <1>3. fate' = fate /\ Persist(recs, HandledView, HandledMsgsView, o)
    BY DEF Insert
  <1>4. clock' \in Nat
    BY DEF Insert, StoreInv, QTypeOK
  <1> QED BY <1>2, <1>3, <1>4, ViewFacts, PersistKeepsInv

-----------------------------------------------------------------------------
(* Operations *)

(* A record a Turn claims is admitted and has no deadline.                 *)
LEMMA ClaimedType ==
  ASSUME NEW r \in Record, NEW t \in Turns
  PROVE  /\ Claimed(r, t) \in Record
         /\ Claimed(r, t).state = "admitted" /\ Claimed(r, t).ttl = FALSE
         /\ ClaimedAsTurn(r, t) \in Record
         /\ ClaimedAsTurn(r, t).state = "admitted" /\ ClaimedAsTurn(r, t).ttl = FALSE
  BY DEF Claimed, ClaimedAsTurn, Record, States

(* The record an upsert creates.                                           *)
LEMMA NewRecordType ==
  ASSUME StoreInv, NEW st \in States, NEW org \in {"queued", "turn"},
         NEW t \in Turns \cup {NoTurn}, NEW ttl \in BOOLEAN
  PROVE  LET r == NewRecord(st, org, t, ttl) IN
         r \in Record /\ r.state = st /\ r.ttl = ttl
  BY DEF NewRecord, Record, StoreInv, QTypeOK

(* Enqueue keeps StoreInv: an identity that is not handled has no final    *)
(* record.                                                                 *)
LEMMA EnqueueKeepsInv ==
  ASSUME StoreInv, NEW i \in Inputs, NEW t \in Turns \cup {NoTurn}, NEW o, Enqueue(i, t, o)
  PROVE  StoreInv' /\ StaysOut
  <1> DEFINE r == NewRecord("pending", "queued", t, TRUE)
  <1>1. r \in Record /\ r.state = "pending"
    BY NewRecordType DEF States
  <1>2. ~Present(i) /\ fate[i] \notin Final
    BY ViewFacts DEF Enqueue, CanEnqueue, Present
  <1>3. Insert(i, r, o) /\ (accepted' = accepted \/ (o = "ok" /\ accepted' = accepted \cup {i}))
    BY DEF Enqueue
  <1>4. r.state # "none" /\ (r.state \in Fixed => ~r.ttl)
    BY <1>1 DEF Fixed
  <1> HIDE DEF r
  <1> QED BY <1>1, <1>2, <1>3, <1>4, InsertKeepsInv

(* StageTurnInput keeps StoreInv.                                          *)
LEMMA StageKeepsInv ==
  ASSUME StoreInv, NEW i \in Inputs, NEW t \in Turns, NEW o, StageTurnInput(i, t, o)
  PROVE  StoreInv' /\ StaysOut
  <1> DEFINE r == NewRecord("accepting", "turn", t, FALSE)
  <1>1. r \in Record /\ r.state = "accepting" /\ r.ttl = FALSE
    BY NewRecordType DEF States
  <1>2. ~Present(i) /\ fate[i] \notin Final
    BY DEF StageTurnInput, Final
  <1>3. Insert(i, r, o) /\ accepted' = accepted
    BY DEF StageTurnInput
  <1> HIDE DEF r
  <1> QED BY <1>1, <1>2, <1>3, InsertKeepsInv

(* CommitTurnInput keeps StoreInv.                                         *)
LEMMA CommitKeepsInv ==
  ASSUME StoreInv, NEW i \in Inputs, NEW t \in Turns, NEW o, CommitTurnInput(i, t, o)
  PROVE  StoreInv' /\ StaysOut
  <1> DEFINE recs == [View EXCEPT ![i] = ClaimedAsTurn(@, t)]
  <1>1. View[i] \in Record /\ View[i].state # "none"
    BY ViewFacts DEF CommitTurnInput, CanCommitTurnInput, Replayable
  <1>2. /\ recs \in [Inputs -> Record]
        /\ \A j \in Inputs : recs[j] = IF j = i THEN ClaimedAsTurn(View[i], t) ELSE View[j]
    BY <1>1, ViewFacts, ClaimedType
  <1>3. Follows(recs)
    BY <1>1, <1>2, ViewFacts, ClaimedType DEF Follows, NoDeadline
  <1>4. Update(recs, o)
    BY DEF CommitTurnInput
  <1>5. \/ accepted' = accepted
        \/ o = "ok" /\ fate[i] \notin Final /\ accepted' = accepted \cup {i}
    BY DEF CommitTurnInput
  <1>6. accepted \subseteq Inputs
    BY DEF StoreInv, QTypeOK
  <1> HIDE DEF recs
  <1> QED BY <1>1, <1>3, <1>4, <1>5, <1>6, UpdateKeepsInv DEF Present

(* The operations that rewrite records in place keep StoreInv.             *)
LEMMA InPlaceKeepsInv ==
  ASSUME StoreInv, NEW o, NEW recs, Update(recs, o), accepted' = accepted,
         recs \in [Inputs -> Record],
         \A i \in Inputs :
            \/ recs[i] = View[i]
            \/ /\ recs[i].state # "none" /\ View[i].state # "none"
               /\ recs[i].ttl => View[i].ttl
               /\ recs[i].state \in Fixed => ~recs[i].ttl
  PROVE  StoreInv' /\ StaysOut
  <1>1. Follows(recs)
    BY ViewFacts DEF Follows, NoDeadline
  <1>2. accepted \subseteq Inputs
    BY DEF StoreInv, QTypeOK
  <1> QED BY <1>1, <1>2, UpdateKeepsInv

(* MarkAdmitted keeps StoreInv.                                            *)
LEMMA MarkAdmittedKeepsInv ==
  ASSUME StoreInv, NEW S, NEW t \in Turns, NEW o, MarkAdmitted(S, t, o)
  PROVE  StoreInv' /\ StaysOut
  <1> DEFINE recs == [i \in Inputs |->
                  IF i \in S /\ Replayable(View[i].state)
                     /\ ~(View[i].state = "admitted" /\ View[i].turn = t)
                  THEN Claimed(View[i], t)
                  ELSE View[i]]
  <1>1. Update(recs, o) /\ accepted' = accepted
    BY DEF MarkAdmitted
  <1>2. \A i \in Inputs : /\ recs[i] \in Record
                          /\ \/ recs[i] = View[i]
                             \/ recs[i] = Claimed(View[i], t) /\ View[i].state # "none"
    BY ViewFacts, ClaimedType DEF Replayable
  <1>3. recs \in [Inputs -> Record]
    BY <1>2
  <1> HIDE DEF recs
  <1>4. ASSUME NEW i \in Inputs
        PROVE  \/ recs[i] = View[i]
               \/ /\ recs[i].state = "admitted" /\ View[i].state # "none"
                  /\ recs[i].ttl = FALSE
    <2>1. View[i] \in Record
      BY ViewFacts
    <2>2. Claimed(View[i], t).state = "admitted" /\ Claimed(View[i], t).ttl = FALSE
      BY <2>1, ClaimedType
    <2> QED BY <1>2, <2>2
  <1> QED BY <1>1, <1>3, <1>4, InPlaceKeepsInv

(* PromoteToTurnInput keeps StoreInv.                                      *)
LEMMA PromoteKeepsInv ==
  ASSUME StoreInv, NEW i \in Inputs, NEW t \in Turns, NEW o, PromoteToTurnInput(i, t, o)
  PROVE  StoreInv' /\ StaysOut
  <1> DEFINE new == IF Replayable(View[i].state) THEN ClaimedAsTurn(View[i], t) ELSE View[i]
             recs == [View EXCEPT ![i] = new]
  <1>1. Update(recs, o) /\ accepted' = accepted
    BY ViewFacts DEF PromoteToTurnInput
  <1>2. /\ new \in Record
        /\ \/ new = View[i]
           \/ new = ClaimedAsTurn(View[i], t) /\ View[i].state # "none"
    BY ViewFacts, ClaimedType DEF Replayable
  <1> HIDE DEF new
  <1>3. recs \in [Inputs -> Record] /\ \A j \in Inputs : recs[j] = IF j = i THEN new ELSE View[j]
    BY <1>2, ViewFacts
  <1> HIDE DEF recs
  <1>4. ASSUME NEW j \in Inputs
        PROVE  \/ recs[j] = View[j]
               \/ /\ recs[j].state = "admitted" /\ View[j].state # "none"
                  /\ recs[j].ttl = FALSE
    <2>1. View[i] \in Record
      BY ViewFacts
    <2>2. ClaimedAsTurn(View[i], t).state = "admitted" /\ ClaimedAsTurn(View[i], t).ttl = FALSE
      BY <2>1, ClaimedType
    <2> QED BY <1>2, <1>3, <2>2
  <1> QED BY <1>1, <1>3, <1>4, InPlaceKeepsInv

(* MarkProcessed keeps StoreInv, because what it marks has no deadline.    *)
LEMMA MarkProcessedKeepsInv ==
  ASSUME StoreInv, NEW S \in SUBSET Inputs, NEW o, MarkProcessed(S, o)
  PROVE  StoreInv' /\ StaysOut
  <1> DEFINE recs == [i \in Inputs |->
                  IF i \in S /\ Replayable(View[i].state)
                  THEN [View[i] EXCEPT !.state = "processed"]
                  ELSE View[i]]
  <1>1. Update(recs, o) /\ accepted' = accepted
    BY DEF MarkProcessed
  <1>2. ASSUME NEW r \in Record
        PROVE  LET n == [r EXCEPT !.state = "processed"] IN
               n \in Record /\ n.state = "processed" /\ n.ttl = r.ttl
    BY DEF Record, States
  <1>3. \A i \in Inputs : /\ recs[i] \in Record
                          /\ \/ recs[i] = View[i]
                             \/ /\ recs[i].state = "processed" /\ View[i].state # "none"
                                /\ recs[i].ttl = View[i].ttl /\ ~View[i].ttl
    BY <1>2, ViewFacts DEF Replayable, MarkProcessed
  <1>4. recs \in [Inputs -> Record]
    BY <1>3
  <1> HIDE DEF recs
  <1> QED BY <1>1, <1>3, <1>4, InPlaceKeepsInv

(* RetryTurnInputs keeps StoreInv.                                         *)
LEMMA RetryKeepsInv ==
  ASSUME StoreInv, NEW t \in Turns, NEW o, RetryTurnInputs(t, o)
  PROVE  StoreInv' /\ StaysOut
  <1> DEFINE recs == [i \in Inputs |->
                  IF i \in RetriableOf(t)
                  THEN [View[i] EXCEPT !.state = "pending", !.turn = NoTurn, !.kind = "none"]
                  ELSE View[i]]
  <1>1. Update(recs, o) /\ accepted' = accepted
    BY DEF RetryTurnInputs
  <1>2. ASSUME NEW r \in Record
        PROVE  LET n == [r EXCEPT !.state = "pending", !.turn = NoTurn, !.kind = "none"] IN
               n \in Record /\ n.state = "pending" /\ n.ttl = r.ttl
    BY DEF Record, States
  <1>3. \A i \in Inputs : /\ recs[i] \in Record
                          /\ \/ recs[i] = View[i]
                             \/ /\ recs[i].state = "pending" /\ View[i].state # "none"
                                /\ recs[i].ttl = View[i].ttl
    BY <1>2, ViewFacts DEF RetriableOf
  <1>4. recs \in [Inputs -> Record]
    BY <1>3
  <1> HIDE DEF recs
  <1> QED BY <1>1, <1>3, <1>4, InPlaceKeepsInv DEF Fixed

(* RestoreRetriedInputs keeps StoreInv.                                    *)
LEMMA RestoreKeepsInv ==
  ASSUME StoreInv, NEW S, NEW t \in Turns, NEW k \in {"retry", "restart"}, NEW o,
         RestoreRetriedInputs(S, t, k, o)
  PROVE  StoreInv' /\ StaysOut
  <1> DEFINE recs == [i \in Inputs |->
                  IF i \in S
                  THEN [View[i] EXCEPT !.state = "retryable", !.turn = t, !.kind = k]
                  ELSE View[i]]
  <1>1. Update(recs, o) /\ accepted' = accepted
    BY DEF RestoreRetriedInputs
  <1>2. ASSUME NEW r \in Record
        PROVE  LET n == [r EXCEPT !.state = "retryable", !.turn = t, !.kind = k] IN
               n \in Record /\ n.state = "retryable" /\ n.ttl = r.ttl
    BY DEF Record, States
  <1>3. \A i \in Inputs : /\ recs[i] \in Record
                          /\ \/ recs[i] = View[i]
                             \/ /\ recs[i].state = "retryable" /\ View[i].state # "none"
                                /\ recs[i].ttl = View[i].ttl
    BY <1>2, ViewFacts DEF RestoreRetriedInputs
  <1>4. recs \in [Inputs -> Record]
    BY <1>3
  <1> HIDE DEF recs
  <1> QED BY <1>1, <1>3, <1>4, InPlaceKeepsInv DEF Fixed

(* ReconcileRecoveryFacts keeps StoreInv: an intent never has a deadline.  *)
LEMMA ReconcileKeepsInv ==
  ASSUME StoreInv, NEW S, NEW o, ReconcileRecoveryFacts(S, o)
  PROVE  StoreInv' /\ StaysOut
  <1> DEFINE recs == [i \in Inputs |->
                  IF View[i].state # "accepting" THEN View[i]
                  ELSE IF i \in S
                       THEN [View[i] EXCEPT !.state = "admitted"]
                       ELSE [View[i] EXCEPT !.state = "pending", !.origin = "queued",
                                            !.turn = NoTurn]]
  <1>1. Update(recs, o) /\ accepted' = accepted
    BY DEF ReconcileRecoveryFacts
  <1>2. ASSUME NEW r \in Record
        PROVE  /\ LET n == [r EXCEPT !.state = "admitted"] IN
                  n \in Record /\ n.state = "admitted" /\ n.ttl = r.ttl
               /\ LET n == [r EXCEPT !.state = "pending", !.origin = "queued", !.turn = NoTurn] IN
                  n \in Record /\ n.state = "pending" /\ n.ttl = r.ttl
    BY DEF Record, States
  <1>3. \A i \in Inputs : View[i].state = "accepting" => ~View[i].ttl
    BY ViewFacts DEF NoDeadline, Fixed
  <1>4. \A i \in Inputs : /\ recs[i] \in Record
                          /\ \/ recs[i] = View[i]
                             \/ /\ recs[i].state \in {"admitted", "pending"}
                                /\ View[i].state = "accepting"
                                /\ recs[i].ttl = View[i].ttl
    BY <1>2, ViewFacts
  <1>5. recs \in [Inputs -> Record]
    BY <1>4
  <1> HIDE DEF recs
  <1> QED BY <1>1, <1>3, <1>4, <1>5, InPlaceKeepsInv

(* The records without those of S.                                         *)
LEMMA WithoutFacts ==
  ASSUME StoreInv, NEW S
  PROVE  /\ Without(S) \in [Inputs -> Record]
         /\ NoDeadline(Without(S))
         /\ \A i \in Inputs : IF i \in S THEN Without(S)[i].state = "none"
                                          ELSE Without(S)[i] = View[i]
  <1>1. \A i \in Inputs : Without(S)[i] = IF i \in S THEN NoRec ELSE View[i]
    BY DEF Without
  <1>2. Without(S) \in [Inputs -> Record]
    BY ViewFacts, NoRecType DEF Without
  <1> QED BY <1>1, <1>2, ViewFacts, NoRecType DEF NoDeadline

(* Expiry keeps StoreInv: a settled Input has no deadline, so what expires *)
(* has no final record.                                                    *)
LEMMA ExpireKeepsInv ==
  ASSUME StoreInv, NEW S \in SUBSET Inputs, NEW o, Expire(S, o)
  PROVE  StoreInv' /\ StaysOut
  <1>1. \A i \in S : View[i].state # "none" /\ View[i].ttl
    BY DEF Expire, Expirable, Replayable
  <1>2. /\ Persist(Without(S), HandledView, HandledMsgsView, o)
        /\ fate' = fate /\ clock' \in Nat
    BY DEF Expire, Update, StoreInv, QTypeOK
  <1>3. accepted' = IF o \in {"ok", "count"} THEN accepted \ S ELSE accepted
    BY DEF Expire
  <1>4. \A i \in accepted : i \in Inputs /\ fate[i] \notin Final /\ View[i].state # "none"
    BY ViewFacts DEF StoreInv, QTypeOK, AcceptedHeld
  <1>5. Sound(Without(S), HandledView, o)
    BY <1>1, <1>3, <1>4, WithoutFacts, ViewFacts DEF Sound, Present
  <1> QED BY <1>2, <1>5, ViewFacts, PersistKeepsInv

(* MarkDropped, MarkExpired and Cancel keep StoreInv: what they remove is  *)
(* recorded as handled.                                                    *)
LEMMA RemoveKeepsInv ==
  ASSUME StoreInv, NEW S \in SUBSET Inputs, NEW o, RemoveRecords(S, o)
  PROVE  StoreInv' /\ StaysOut
  <1> DEFINE gone == {i \in S : Present(i)}
  <1>1. /\ Persist(Without(S), HandledView \cup gone, HandledMsgsView \cup gone, o)
        /\ fate' = fate /\ clock' \in Nat
    BY DEF RemoveRecords, StoreInv, QTypeOK
  <1>2. accepted' = IF o \in {"ok", "count"} THEN accepted \ S ELSE accepted
    BY DEF RemoveRecords
  <1>3. \A i \in accepted : i \in Inputs /\ fate[i] \notin Final /\ View[i].state # "none"
    BY ViewFacts DEF StoreInv, QTypeOK, AcceptedHeld
  <1>4. gone \subseteq Inputs /\ \A i \in S : View[i].state # "none" => i \in gone
    BY DEF Present
  <1> HIDE DEF gone
  <1>5. Sound(Without(S), HandledView \cup gone, o)
    BY <1>2, <1>3, <1>4, WithoutFacts, ViewFacts DEF Sound, Present
  <1> QED BY <1>1, <1>4, <1>5, ViewFacts, PersistKeepsInv

(* The commit of a terminal event keeps StoreInv: it names only records    *)
(* its Turn took, which have no deadline and stay in the document.         *)
LEMMA CommitTerminalKeepsInv ==
  ASSUME StoreInv, NEW t \in Turns, NEW d \in Dispositions, CommitTerminal(t, d)
  PROVE  StoreInv' /\ StaysOut
  <1> DEFINE ids == InputIDsForTurn(t)
  <1>1. \A i \in ids : i \in Inputs /\ View[i].state \in Fixed /\ View[i].state # "none" /\ ~View[i].ttl
    BY ViewFacts DEF InputIDsForTurn, Fixed, NoDeadline
  <1>2. /\ loaded' = TRUE /\ mem' = View /\ handled' = HandledView
        /\ handledMsgs' = HandledMsgsView /\ doc' = DocAfterLoad /\ clock' = clock
        /\ accepted' = IF d \in Final THEN accepted \ ids ELSE accepted
    BY DEF CommitTerminal, InMemory
  <1>3. fate' = [i \in Inputs |-> IF i \in ids THEN CombineFate(fate[i], d) ELSE fate[i]]
    BY DEF CommitTerminal
  <1> HIDE DEF ids
  <1>4. fate \in [Inputs -> Dispositions \cup {"none"}] /\ accepted \subseteq Inputs /\ clock \in Nat
    BY DEF StoreInv, QTypeOK
  <1>5. ASSUME NEW i \in Inputs
        PROVE  /\ fate'[i] \in Dispositions \cup {"none"}
               /\ fate[i] \in Final => fate'[i] \in Final
               /\ fate'[i] \in Final => fate[i] \in Final \/ (i \in ids /\ d \in Final)
    BY <1>3, <1>4 DEF CombineFate, Final, Dispositions
  <1>6. fate' \in [Inputs -> Dispositions \cup {"none"}]
    BY <1>3, <1>5
  <1>7. QTypeOK'
    BY <1>2, <1>4, <1>6, ViewFacts DEF QTypeOK
  <1>8. AcceptedHeld'
    BY <1>2, <1>4, <1>5, ViewFacts DEF AcceptedHeld, StoreInv
  <1>9. MemoryBacked' /\ NoDeadline(doc)' /\ NoDeadline(mem)'
    BY <1>2, ViewFacts DEF MemoryBacked, NoDeadline
  <1>10. SettledKnown'
    BY <1>1, <1>2, <1>5, ViewFacts DEF SettledKnown
  <1>11. StaysOut
    BY <1>2 DEF StaysOut, Present, View
  <1> QED BY <1>7, <1>8, <1>9, <1>10, <1>11 DEF StoreInv

(* ApplyTerminalEvent keeps StoreInv: it removes only what has a final     *)
(* record, and remembers what it named as handled, even when an invalid    *)
(* record elsewhere keeps the document from being written.                 *)
LEMMA ApplyTerminalKeepsInv ==
  ASSUME StoreInv, NEW ids \in SUBSET Inputs, NEW d \in Dispositions, NEW o,
         ApplyTerminalEvent(ids, d, o)
  PROVE  StoreInv' /\ StaysOut
  <1> DEFINE recs == [i \in Inputs |-> IF i \in ids THEN ApplyDisposition(View[i], d) ELSE View[i]]
             hd == HandledView \cup ids
             hm == HandledMsgsView \cup {i \in ids : Present(i)}
  <1>1. \A i \in ids : fate[i] = d \/ fate[i] \in Final
    BY DEF ApplyTerminalEvent
  <1>2. accepted' = accepted /\ fate' = fate /\ clock' = clock
    BY DEF ApplyTerminalEvent
  <1>3. accepted \subseteq Inputs /\ clock \in Nat
        /\ \A i \in accepted : fate[i] \notin Final /\ View[i].state # "none"
    BY ViewFacts DEF StoreInv, QTypeOK, AcceptedHeld
  <1>4. ASSUME NEW i \in Inputs
        PROVE  /\ recs[i] \in Record
               /\ View[i].state = "none" => recs[i].state = "none"
               /\ recs[i].state = "none" =>
                     View[i].state = "none" \/ (i \in ids /\ d \in Final)
               /\ recs[i].state \in Fixed => recs[i] = View[i]
               /\ recs[i].ttl => View[i].ttl
    <2>1. View[i] \in Record
      BY ViewFacts
    <2>2. recs[i] = IF i \in ids THEN ApplyDisposition(View[i], d) ELSE View[i]
      OBVIOUS
    <2> HIDE DEF recs
    <2> QED BY <2>1, <2>2, ApplyDispositionType
  <1>5. recs \in [Inputs -> Record]
    BY <1>4
  <1>6. hd \subseteq Inputs /\ hm \subseteq Inputs /\ HandledView \subseteq hd
        /\ ids \subseteq hd
    BY ViewFacts
  <1>7. \/ Persist(recs, hd, hm, o)
        \/ o = "invalid" /\ doc' = DocAfterLoad /\ InMemory(recs, hd, hm)
    BY DEF ApplyTerminalEvent
  <1> HIDE DEF recs, hd, hm
  <1>8. NoDeadline(recs)
    BY <1>4, ViewFacts DEF NoDeadline
  <1>9. \A i \in accepted : recs[i].state # "none"
    BY <1>1, <1>3, <1>4
  <1>10. \A i \in Inputs : fate[i] \in Final =>
            IF recs[i].state = "none" THEN i \in hd ELSE ~recs[i].ttl
    BY <1>4, <1>6, ViewFacts
  <1>11. Sound(recs, hd, o)
    BY <1>2, <1>3, <1>4, <1>5, <1>6, <1>8, <1>9, <1>10 DEF Sound, Present
  <1>12. CASE Persist(recs, hd, hm, o)
    BY <1>2, <1>3, <1>6, <1>11, <1>12, PersistKeepsInv
  <1>13. CASE doc' = DocAfterLoad /\ InMemory(recs, hd, hm)
    <2>1. loaded' = TRUE /\ mem' = recs /\ handled' = hd /\ handledMsgs' = hm
      BY <1>13 DEF InMemory
    <2>2. QTypeOK'
      BY <1>2, <1>3, <1>5, <1>6, <1>13, <2>1, ViewFacts DEF QTypeOK, StoreInv
    <2>3. AcceptedHeld' /\ MemoryBacked' /\ SettledKnown'
      BY <1>2, <1>3, <1>4, <1>9, <1>10, <1>13, <2>1, ViewFacts
      DEF AcceptedHeld, MemoryBacked, SettledKnown
    <2>4. NoDeadline(doc)' /\ NoDeadline(mem)'
      BY <1>8, <1>13, <2>1, ViewFacts DEF NoDeadline
    <2>5. StaysOut
      BY <1>4, <2>1 DEF StaysOut, Present, View
    <2> QED BY <2>2, <2>3, <2>4, <2>5 DEF StoreInv
  <1> QED BY <1>7, <1>12, <1>13

(* The end of the process keeps StoreInv: the document and the journal     *)
(* suffice to rebuild the memory.                                          *)
LEMMA ProcessEndsKeepsInv ==
  ASSUME StoreInv, ProcessEnds
  PROVE  StoreInv' /\ StaysOut
  <1>1. /\ loaded' = FALSE /\ mem' = [i \in Inputs |-> NoRec]
        /\ handled' = {} /\ handledMsgs' = {}
        /\ doc' = doc /\ fate' = fate /\ clock' = clock /\ accepted' = accepted
    BY DEF ProcessEnds, Unload
  <1>2. mem' \in [Inputs -> Record] /\ \A i \in Inputs : mem'[i].state = "none"
    BY <1>1, NoRecType
  <1>3. QTypeOK'
    BY <1>1, <1>2 DEF StoreInv, QTypeOK
  <1>4. NoDeadline(doc)' /\ NoDeadline(mem)'
    BY <1>1, <1>2 DEF StoreInv, NoDeadline, Fixed
  <1>5. StoreInv'
    BY <1>1, <1>3, <1>4 DEF StoreInv, AcceptedHeld, MemoryBacked, SettledKnown
  <1> QED BY <1>1, <1>5, UnloadedStaysOut DEF StaysOut

-----------------------------------------------------------------------------
(* The theorems *)

(* The initial store satisfies StoreInv.                                   *)
LEMMA InitInv == QInit => StoreInv
  <1> SUFFICES ASSUME QInit PROVE StoreInv
    OBVIOUS
  <1>1. QTypeOK
    BY NoRecType DEF QInit, QTypeOK
  <1>2. NoDeadline(doc) /\ NoDeadline(mem)
    BY NoRecType DEF QInit, NoDeadline
  <1> QED BY <1>1, <1>2 DEF StoreInv, QInit, AcceptedHeld, MemoryBacked, SettledKnown

(* Every step of the open store keeps StoreInv and keeps settled Inputs    *)
(* out.                                                                    *)
LEMMA StepInv == StoreInv /\ [QNext]_qvars => StoreInv' /\ StaysOut
  <1> SUFFICES ASSUME StoreInv, [QNext]_qvars PROVE StoreInv' /\ StaysOut
    OBVIOUS
  <1>1. CASE \E i \in Inputs, t \in Turns \cup {NoTurn}, o \in Outcomes : Enqueue(i, t, o)
    BY <1>1, EnqueueKeepsInv
  <1>2. CASE \E i \in Inputs, t \in Turns, o \in Outcomes :
                \/ StageTurnInput(i, t, o)
                \/ CommitTurnInput(i, t, o)
                \/ PromoteToTurnInput(i, t, o)
    BY <1>2, StageKeepsInv, CommitKeepsInv, PromoteKeepsInv
  <1>3. CASE \E S \in SUBSET Inputs, t \in Turns, o \in Outcomes : MarkAdmitted(S, t, o)
    BY <1>3, MarkAdmittedKeepsInv
  <1>4. CASE \E S \in SUBSET Inputs, o \in Outcomes :
                \/ MarkProcessed(S, o)
                \/ Expire(S, o)
                \/ RemoveRecords(S, o)
                \/ ReconcileRecoveryFacts(S, o)
    BY <1>4, MarkProcessedKeepsInv, ExpireKeepsInv, RemoveKeepsInv, ReconcileKeepsInv
  <1>5. CASE \E t \in Turns, o \in Outcomes : RetryTurnInputs(t, o)
    BY <1>5, RetryKeepsInv
  <1>6. CASE \E S \in SUBSET Inputs, t \in Turns, k \in {"retry", "restart"}, o \in Outcomes :
                RestoreRetriedInputs(S, t, k, o)
    BY <1>6, RestoreKeepsInv
  <1>7. CASE \E t \in Turns, d \in Dispositions : CommitTerminal(t, d)
    BY <1>7, CommitTerminalKeepsInv
  <1>8. CASE \E S \in SUBSET Inputs, d \in Dispositions, o \in Outcomes :
                ApplyTerminalEvent(S, d, o)
    BY <1>8, ApplyTerminalKeepsInv
  <1>9. CASE ProcessEnds
    BY <1>9, ProcessEndsKeepsInv
  <1>10. CASE UNCHANGED qvars
    <2>1. StoreInv'
      BY <1>10 DEF qvars, StoreInv, QTypeOK, AcceptedHeld, MemoryBacked, SettledKnown, NoDeadline
    <2>2. View' = View
      BY <1>10 DEF qvars, View, Recovered
    <2> QED BY <2>1, <2>2 DEF StaysOut, Present
  <1> QED BY <1>1, <1>2, <1>3, <1>4, <1>5, <1>6, <1>7, <1>8, <1>9, <1>10 DEF QNext

(* StoreInv is an invariant of the open store.                             *)
THEOREM StoreInvariant == QSpec => []StoreInv
  BY InitInv, StepInv, PTL DEF QSpec

(* Type correctness: the document, the memory and the journal's fates stay *)
(* well formed under any sequence of operations, failed writes included.   *)
THEOREM TypeCorrect == QSpec => []QTypeOK
  <1>1. StoreInv => QTypeOK
    BY DEF StoreInv
  <1> QED BY <1>1, StoreInvariant, PTL

(* No accepted Input is lost: whatever operations callers invoke, whatever *)
(* writes fail and wherever the process ends, the store holds it and a     *)
(* reload of inputs.json under the journal's terminal events finds it.     *)
THEOREM NoInputLost == QSpec => []NoLostInput
  <1>1. StoreInv => NoLostInput
    <2> SUFFICES ASSUME StoreInv, NEW i \in accepted
                 PROVE  Present(i) /\ Recovered[i].state # "none"
      BY DEF NoLostInput
    <2>1. i \in Inputs /\ doc[i].state # "none" /\ fate[i] \notin Final
      BY DEF StoreInv, QTypeOK, AcceptedHeld
    <2> QED BY <2>1, ViewFacts, RecoveredFacts DEF Present
  <1> QED BY <1>1, StoreInvariant, PTL

(* A settled Input that has left the store stays out: no Enqueue of its    *)
(* identity, no reload and no restart brings its record back.              *)
THEOREM SettledNeverReturns == QSpec => SettledStaysOut
  <1>1. StoreInv /\ [QNext]_qvars =>
           [\A i \in Inputs : fate[i] \in Final /\ ~Present(i) => ~Present(i)']_qvars
    BY StepInv DEF StaysOut
  <1> QED BY <1>1, StoreInvariant, PTL DEF QSpec, SettledStaysOut

=============================================================================
