---------------------------- MODULE StorageProofs ----------------------------
(***************************************************************************)
(* Proofs about the files of a Thread and of an Agent, for every bound of  *)
(* the specifications: a context renewal changes all its files with the    *)
(* Generation or none (ContextRenewal), Threads and their parents stay     *)
(* until they are removed (ThreadLayout), what is opened or recovered is   *)
(* repaired (with EventStore), the Memory service decides whole and learns *)
(* nothing again (MemoryService), and the retirement of a Module's state   *)
(* is finished before the Module is used again (ModuleState).              *)
(*                                                                         *)
(* Of a renewal, RenewalInv says which backup is found where: every backup *)
(* is listed, at most one for an owner, and the file of an owner is in its *)
(* place or under the backup name that the next open will install.  It     *)
(* says so of the owners that are not adrift, and of the operation in      *)
(* progress until a thread.json that was replaced without being            *)
(* synchronized has set both files adrift.                                 *)
(*                                                                         *)
(* Of the Memory service, MemoryInv says that what the files hold, with    *)
(* the intent completed, is Whole: each change of an entry is named once   *)
(* and was decided, what was decided is in an entry or was erased with it, *)
(* one request runs, with attempts left before each, and the cursor stands *)
(* where a decided review left it.  A call that fails leaves either Whole  *)
(* state, and the store that answers works on what the files say.          *)
(***************************************************************************)
EXTENDS MCStorage, EventStoreProofs

-----------------------------------------------------------------------------
(* Context renewal: the inductive invariant *)

FileContents == {c \in [write : 0 .. MaxWrites, done : BOOLEAN] : c.done => c.write # 0}
RenewalEntries == [owner : Owners, gen : Scopes]
StagingSteps == {"stage", "register", "move", "commit"}
FinishingSteps == {"finish", "remove", "unregister"}
RenewalModes == {"recover", "rollback", "finalize", "restage"}
Listed == ToSet(manifest)

RenewalStates ==
    [step : {"idle", "cleanup"} \cup StagingSteps \cup FinishingSteps, kind : {"new", "compact"},
     toStage : {<<>>, <<"notes">>, RegistrationOrder}, staged : Seq(RenewalEntries),
     queue : Seq(RenewalEntries), mode : RenewalModes \cup {"none"}]

FilesTyped ==
    /\ canon \in [Owners -> FileContents] /\ intended \in [Owners -> FileContents]
    /\ backup \in [Owners -> [Scopes -> FileContents]]
    /\ manifest \in Seq(RenewalEntries) /\ selected \in Scopes /\ current \in Scopes
    /\ staging \subseteq Owners /\ writes \in 0 .. MaxWrites /\ adrift \subseteq Owners

(* The file of an owner is in its place, or where its entry says.          *)
InPlace(o) == \A e \in Listed : e.owner = o => ~Installs(e)
Restorable ==
    \A o \in Owners \ adrift :
        /\ InPlace(o) => canon[o] = intended[o]
        /\ \A e \in Listed : e.owner = o /\ Installs(e) => intended[o] = Staged(e)

(* A file has one entry at most, of a Generation that was selected.        *)
ListedOnce ==
    /\ \A e, f \in Listed : e.owner = f.owner => e = f
    /\ \A e \in Listed : e.gen <= selected

(* What is staged for the tasks of the current Generation is what they are *)
(* without the finished ones.                                              *)
StagedFits ==
    \A e \in Listed :
        Replaces(e.owner) /\ e.gen = selected /\ Staged(e) # NoFile =>
            Staged(e) = Prune(canon[e.owner])

FilesAgree == ListedOnce /\ BackupsRegistered /\ Restorable /\ StagedFits

(* The handle has what thread.json selects.                                *)
HandleKnows == attached \/ renewal.mode = "recover" => current = selected

(* The tasks are pruned, or their replacement is staged.                   *)
TasksStaged ==
    \/ ~canon["tasks"].done /\ \A e \in Listed : e.owner # "tasks"
    \/ \E e \in Listed : e.owner = "tasks" /\ e.gen = selected /\ Staged(e) # NoFile

(* What holds while files are staged.                                      *)
StagingKnows ==
    LET r == renewal
        stages == r.step \in StagingSteps \/ r.mode = "restage"
    IN
    /\ stages => attached /\ selected <= MaxRenewals /\ \A e \in ToSet(r.staged) : e.gen = selected
    /\ stages /\ r.kind = "compact" => \A e \in ToSet(r.staged) : e.owner = "tasks"
    /\ stages /\ r.toStage # RegistrationOrder => TasksStaged
    /\ r.step \in {"stage", "register", "move"} => r.toStage # <<>>
    /\ r.mode = "restage" => r.toStage = <<"notes">> /\ r.kind = "new"
    /\ r.step \in {"register", "move"} =>
          /\ r.toStage = <<"notes">> => r.kind = "new"
          /\ canon[Head(r.toStage)] # NoFile
          /\ r.toStage = RegistrationOrder => canon["tasks"].done
    /\ r.step = "register" => \A e \in Listed : e.owner # Head(r.toStage)
    /\ r.step = "move" => Entry(Head(r.toStage)) \in Listed /\ Staged(Entry(Head(r.toStage))) = NoFile
    /\ r.step = "commit" => r.toStage = <<>> /\ (r.kind = "new" => canon["notes"] = NoFile)

(* What holds while entries are finished.                                  *)
FinishingKnows ==
    LET r == renewal IN
    /\ r.step \in FinishingSteps <=> r.mode # "none"
    /\ r.mode # "none" => r.queue # <<>>
    /\ r.mode = "recover" => ~attached
    /\ r.mode = "finalize" => \A e \in ToSet(r.queue) : e.gen # selected
    /\ r.mode = "rollback" => \A e \in ToSet(r.queue) : e.gen = selected
    /\ r.mode = "restage" => \A e \in ToSet(r.queue) : e.owner = "notes"
    /\ r.step = "remove" => Replaces(InHand.owner) /\ ~Restores /\ canon[InHand.owner] = Staged(InHand)
    /\ r.step = "unregister" => Staged(InHand) = NoFile

OperationKnows == renewal \in RenewalStates /\ HandleKnows /\ StagingKnows /\ FinishingKnows

WholeRenewal == FilesTyped /\ FilesAgree /\ OperationKnows

(* What holds whatever has been set adrift.                                *)
FilesSound == FilesTyped /\ BackupsRegistered
Stages == renewal.step \in StagingSteps \/ renewal.mode = "restage"

OperationSound ==
    /\ renewal \in RenewalStates
    /\ renewal.step \in {"stage", "register", "move"} \/ renewal.mode = "restage" => renewal.toStage # <<>>
    /\ renewal.step \in FinishingSteps <=> renewal.mode # "none"
    /\ renewal.mode # "none" => renewal.queue # <<>>

RenewalSound ==
    /\ FilesSound /\ OperationSound
    /\ Stages => selected <= MaxRenewals
    /\ renewal.step = "move" => Entry(Head(renewal.toStage)) \in Listed
    /\ renewal.step = "unregister" => Staged(InHand) = NoFile

(* The inductive invariant of a context renewal.  A renewal whose          *)
(* thread.json was replaced without being synchronized sets the files      *)
(* adrift; of the operation no more is known from then on than that it is  *)
(* sound.                                                                  *)
RenewalInv == RenewalSound /\ (adrift = Owners \/ WholeRenewal)

-----------------------------------------------------------------------------
(* Lists of entries *)

(* Each element of a list is in its set.                                   *)
LEMMA InSet ==
  ASSUME NEW S, NEW s \in Seq(S), NEW k \in 1 .. Len(s)
  PROVE  s[k] \in ToSet(s)
  BY DEF ToSet

(* What a list contains after Append, Head and Tail, and Reverse.          *)
LEMMA ListFacts ==
  ASSUME NEW S, NEW s \in Seq(S)
  PROVE  /\ ToSet(s) \subseteq S
         /\ \A e \in S : Append(s, e) \in Seq(S) /\ ToSet(Append(s, e)) = ToSet(s) \cup {e}
         /\ Reverse(s) \in Seq(S) /\ ToSet(Reverse(s)) = ToSet(s)
         /\ s = <<>> <=> ToSet(s) = {}
         /\ s # <<>> => /\ Head(s) \in S /\ Head(s) \in ToSet(s)
                        /\ Tail(s) \in Seq(S)
                        /\ \A e \in ToSet(s) : e = Head(s) \/ e \in ToSet(Tail(s))
                        /\ ToSet(Tail(s)) \subseteq ToSet(s)
                        /\ Len(s) = 1 => Tail(s) = <<>>
  <1>1. ToSet(s) \subseteq S
    BY DEF ToSet
  <1>2. ASSUME NEW e \in S PROVE Append(s, e) \in Seq(S) /\ ToSet(Append(s, e)) = ToSet(s) \cup {e}
    <2>1. Append(s, e) \in Seq(S) /\ Len(Append(s, e)) = Len(s) + 1
      OBVIOUS
    <2>2. \A k \in 1 .. Len(s) : Append(s, e)[k] = s[k]
      OBVIOUS
    <2>3. Append(s, e)[Len(s) + 1] = e
      OBVIOUS
    <2> QED BY <2>1, <2>2, <2>3 DEF ToSet
  <1>3. Reverse(s) \in Seq(S) /\ Len(Reverse(s)) = Len(s)
    BY DEF Reverse
  <1>4. ToSet(Reverse(s)) = ToSet(s)
    <2>1. ASSUME NEW k \in 1 .. Len(s)
          PROVE  Len(s) - k + 1 \in 1 .. Len(s) /\ Len(s) - (Len(s) - k + 1) + 1 = k
      OBVIOUS
    <2>2. \A k \in 1 .. Len(s) : Reverse(s)[k] = s[Len(s) - k + 1]
      BY DEF Reverse
    <2>3. ASSUME NEW k \in 1 .. Len(s) PROVE s[k] \in ToSet(Reverse(s)) /\ Reverse(s)[k] \in ToSet(s)
      <3>1. s[k] = Reverse(s)[Len(s) - k + 1]
        BY <2>1, <2>2
      <3>2. Reverse(s)[Len(s) - k + 1] \in ToSet(Reverse(s))
        BY <1>3, <2>1, InSet
      <3>3. s[Len(s) - k + 1] \in ToSet(s)
        BY <2>1, InSet
      <3> QED BY <2>2, <3>1, <3>2, <3>3
    <2>4. ASSUME NEW e PROVE e \in ToSet(Reverse(s)) <=> e \in ToSet(s)
      BY <1>3, <2>3 DEF ToSet
    <2> QED BY <2>4
  <1>5. s = <<>> <=> ToSet(s) = {}
    BY DEF ToSet
  <1>6. ASSUME s # <<>>
        PROVE  /\ Head(s) \in S /\ Head(s) \in ToSet(s)
               /\ Tail(s) \in Seq(S)
               /\ \A e \in ToSet(s) : e = Head(s) \/ e \in ToSet(Tail(s))
               /\ ToSet(Tail(s)) \subseteq ToSet(s)
               /\ Len(s) = 1 => Tail(s) = <<>>
    <2>1. /\ Head(s) = s[1] /\ 1 \in 1 .. Len(s) /\ Tail(s) \in Seq(S) /\ Len(Tail(s)) = Len(s) - 1
          /\ \A k \in 1 .. Len(s) - 1 : Tail(s)[k] = s[k + 1]
      BY <1>6
    <2>3. ASSUME NEW k \in 1 .. Len(s) PROVE s[k] = Head(s) \/ s[k] \in ToSet(Tail(s))
      <3>1. CASE k = 1
        BY <2>1, <3>1
      <3>2. CASE k # 1
        <4>1. k - 1 \in 1 .. Len(s) - 1 /\ (k - 1) + 1 = k
          BY <3>2
        <4>2. s[k] = Tail(s)[k - 1]
          BY <2>1, <4>1
        <4>3. Tail(s)[k - 1] \in ToSet(Tail(s))
          BY <2>1, <4>1, InSet
        <4> QED BY <4>2, <4>3
      <3> QED BY <3>1, <3>2
    <2>4. ToSet(Tail(s)) \subseteq ToSet(s)
      BY <2>1 DEF ToSet
    <2>5. \A e \in ToSet(s) : e = Head(s) \/ e \in ToSet(Tail(s))
      BY <2>3 DEF ToSet
    <2> QED BY <2>1, <2>4, <2>5 DEF ToSet
  <1> QED BY <1>1, <1>2, <1>3, <1>4, <1>5, <1>6

(* Unregistering an entry removes no other one.                            *)
LEMMA WithoutFacts ==
  ASSUME manifest \in Seq(RenewalEntries), NEW e
  PROVE  /\ WithoutEntry(e) \in Seq(RenewalEntries)
         /\ ToSet(WithoutEntry(e)) \subseteq Listed
         /\ \A f \in Listed : f = e \/ f \in ToSet(WithoutEntry(e))
  <1>1. CASE \E k \in DOMAIN manifest : manifest[k] = e
    <2>1. PICK k \in DOMAIN manifest : manifest[k] = e /\ WithoutEntry(e) = RemoveAt(manifest, k)
      BY <1>1 DEF WithoutEntry
    <2> DEFINE n == Len(manifest)
               a == SubSeq(manifest, 1, k - 1)
               b == SubSeq(manifest, k + 1, n)
    <2>2. k \in 1 .. n /\ n \in Nat
      OBVIOUS
    <2>3. /\ a \in Seq(RenewalEntries) /\ Len(a) = k - 1 /\ \A i \in 1 .. k - 1 : a[i] = manifest[i]
          /\ b \in Seq(RenewalEntries) /\ Len(b) = n - k /\ \A i \in 1 .. n - k : b[i] = manifest[k + i]
      BY <2>2
    <2> HIDE DEF a, b
    <2>4. WithoutEntry(e) = a \o b
      BY <2>1 DEF RemoveAt, a, b
    <2>5. /\ a \o b \in Seq(RenewalEntries) /\ Len(a \o b) = n - 1
      BY <2>2, <2>3
    <2>8. \A i \in 1 .. n - 1 : i < k => (a \o b)[i] = manifest[i]
      BY <2>2, <2>3
    <2>9. ASSUME NEW i \in 1 .. n - 1, ~(i < k) PROVE (a \o b)[i] = manifest[i + 1]
      <3>1. i - (k - 1) \in 1 .. n - k /\ k + (i - (k - 1)) = i + 1
        BY <2>2, <2>9
      <3>2. i \in 1 .. Len(a) + Len(b) /\ ~(i <= Len(a)) /\ Len(a) = k - 1
        BY <2>2, <2>3, <2>9
      <3>3. (a \o b)[i] = b[i - Len(a)]
        BY <2>3, <3>2, ConcatProperties
      <3> QED BY <2>3, <3>1, <3>2, <3>3
    <2>6. ASSUME NEW f \in Listed, f # e PROVE f \in ToSet(a \o b)
      <3>1. PICK i \in 1 .. n : f = manifest[i]
        BY <2>6 DEF Listed, ToSet
      <3>2. i # k
        BY <2>1, <2>6, <3>1
      <3>3. CASE i < k
        <4>1. i \in 1 .. n - 1
          BY <2>2, <3>1, <3>3
        <4>2. (a \o b)[i] = f
          BY <2>8, <3>1, <3>3, <4>1
        <4> QED BY <2>5, <4>1, <4>2, InSet
      <3>4. CASE i > k
        <4>1. i - 1 \in 1 .. n - 1 /\ ~(i - 1 < k) /\ (i - 1) + 1 = i
          BY <2>2, <3>1, <3>4
        <4>2. (a \o b)[i - 1] = f
          BY <2>9, <3>1, <4>1
        <4> QED BY <2>5, <4>1, <4>2, InSet
      <3> QED BY <2>2, <3>2, <3>3, <3>4
    <2>7. ToSet(a \o b) \subseteq Listed
      <3>1. \A i \in 1 .. n - 1 : i \in 1 .. n /\ i + 1 \in 1 .. n
        BY <2>2
      <3>2. ASSUME NEW i \in 1 .. n - 1 PROVE (a \o b)[i] \in Listed
        <4>1. manifest[i] \in Listed /\ manifest[i + 1] \in Listed
          BY <3>1, InSet DEF Listed
        <4> QED BY <2>8, <2>9, <4>1
      <3> QED BY <2>5, <3>2 DEF ToSet
    <2> QED BY <2>4, <2>5, <2>6, <2>7
  <1>2. CASE ~\E k \in DOMAIN manifest : manifest[k] = e
    BY <1>2 DEF WithoutEntry, Listed
  <1> QED BY <1>1, <1>2

-----------------------------------------------------------------------------
(* The operation in progress *)

(* The orders in which owners are asked.                                   *)
LEMMA Orders ==
  /\ RegistrationOrder # <<>> /\ <<"notes">> # <<>> /\ RegistrationOrder # <<"notes">>
  /\ Head(RegistrationOrder) = "tasks" /\ Tail(RegistrationOrder) = <<"notes">>
  /\ Len(RegistrationOrder) = 2
  /\ Head(<<"notes">>) = "notes" /\ Len(<<"notes">>) = 1
  BY DEF RegistrationOrder

(* What Resting is.                                                        *)
LEMMA RestingFields ==
  /\ Resting \in RenewalStates /\ Resting.step = "idle" /\ Resting.mode = "none"
  /\ [Resting EXCEPT !.step = "cleanup"] \in RenewalStates
  /\ [Resting EXCEPT !.step = "cleanup"].step = "cleanup"
  /\ [Resting EXCEPT !.step = "cleanup"].mode = "none"
  <1>1. <<>> \in Seq(RenewalEntries)
    OBVIOUS
  <1> QED BY <1>1 DEF Resting, RenewalStates

(* Pruning a file leaves what was written, without finished tasks.         *)
LEMMA PruneFacts ==
  ASSUME NEW c \in FileContents
  PROVE  /\ Prune(c) \in FileContents
         /\ ~c.done => Prune(c) = c
         /\ c.write # 0 => Prune(c) # NoFile
  <1>1. /\ c \in [write : 0 .. MaxWrites, done : BOOLEAN]
        /\ c.done => c.write # 0
    BY DEF FileContents
  <1>2. /\ Prune(c) \in [write : 0 .. MaxWrites, done : BOOLEAN]
        /\ Prune(c).write = c.write /\ Prune(c).done = FALSE
    BY <1>1 DEF Prune
  <1>3. ~c.done => Prune(c) = c
    BY <1>1 DEF Prune
  <1>4. c.write # 0 => Prune(c) # NoFile
    BY <1>2 DEF NoFile
  <1>5. Prune(c) \in FileContents
    <2> DEFINE p == Prune(c)
    <2>1. p \in [write : 0 .. MaxWrites, done : BOOLEAN] /\ (p.done => p.write # 0)
      BY <1>2
    <2> HIDE DEF p
    <2>2. p \in FileContents
      BY <2>1 DEF FileContents
    <2> QED BY <2>2 DEF p
  <1> QED BY <1>3, <1>4, <1>5

(* The states an operation passes through.                                 *)
LEMMA FinishAllFields ==
  ASSUME NEW m \in RenewalModes, NEW es \in Seq(RenewalEntries)
  PROVE  LET r == FinishAll(m, es) IN
         /\ r \in RenewalStates
         /\ r.kind = "new" /\ r.toStage = <<>> /\ r.staged = <<>> /\ r.queue = es
         /\ IF es = <<>> THEN r.step = "idle" /\ r.mode = "none" ELSE r.step = "finish" /\ r.mode = m
  <1>1. <<>> \in Seq(RenewalEntries)
    OBVIOUS
  <1>2. CASE es = <<>>
    BY <1>1, <1>2 DEF FinishAll, Resting, RenewalStates
  <1>3. CASE es # <<>>
    <2>1. FinishAll(m, es) = [step |-> "finish", kind |-> "new", toStage |-> <<>>,
                              staged |-> <<>>, queue |-> es, mode |-> m]
      BY <1>3 DEF FinishAll, Resting
    <2> QED BY <1>1, <1>3, <2>1 DEF RenewalStates, FinishingSteps
  <1> QED BY <1>2, <1>3

(* A list of entries to finish, of which the caller knows the Generation.  *)
LEMMA FinishAllKnows ==
  ASSUME NEW m \in {"recover", "rollback", "finalize"}, NEW es \in Seq(RenewalEntries),
         renewal' = FinishAll(m, es),
         m = "finalize" => \A e \in ToSet(es) : e.gen # selected',
         m = "rollback" => \A e \in ToSet(es) : e.gen = selected',
         m = "recover" /\ es # <<>> => ~attached', current' = selected'
  PROVE  OperationKnows'
  <1> DEFINE r == FinishAll(m, es)
  <1>1. /\ r \in RenewalStates
        /\ r.kind = "new" /\ r.toStage = <<>> /\ r.staged = <<>> /\ r.queue = es
        /\ IF es = <<>> THEN r.step = "idle" /\ r.mode = "none" ELSE r.step = "finish" /\ r.mode = m
    BY FinishAllFields DEF RenewalModes
  <1>2. renewal' = r
    OBVIOUS
  <1> HIDE DEF r
  <1>4. HandleKnows'
    BY DEF HandleKnows
  <1>5. StagingKnows'
    BY <1>1, <1>2 DEF StagingKnows, StagingSteps
  <1>6. FinishingKnows'
    BY <1>1, <1>2 DEF FinishingKnows, FinishingSteps
  <1> QED BY <1>1, <1>2, <1>4, <1>5, <1>6 DEF OperationKnows

(* Staging that is aborted.                                                *)
LEMMA AbortKnows ==
  ASSUME WholeRenewal, renewal.step \in StagingSteps \/ renewal.mode = "restage", AbortStaging,
         UNCHANGED <<selected, current>>
  PROVE  OperationKnows'
  <1>1. renewal.staged \in Seq(RenewalEntries)
    BY DEF WholeRenewal, OperationKnows, RenewalStates
  <1>2. current = selected /\ \A e \in ToSet(renewal.staged) : e.gen = selected
    BY DEF WholeRenewal, OperationKnows, StagingKnows, HandleKnows
  <1>3. Reverse(renewal.staged) \in Seq(RenewalEntries)
        /\ ToSet(Reverse(renewal.staged)) = ToSet(renewal.staged)
    BY <1>1, ListFacts
  <1>4. renewal' = FinishAll("rollback", Reverse(renewal.staged))
    BY DEF AbortStaging
  <1> QED BY <1>2, <1>3, <1>4, FinishAllKnows

(* A step that touches no file.                                            *)
LEMMA FilesSame ==
  ASSUME WholeRenewal, UNCHANGED <<canon, backup, manifest, selected, current, writes, intended, adrift>>,
         staging' \subseteq Owners
  PROVE  /\ FilesTyped' /\ FilesAgree' /\ Listed' = Listed
         /\ TasksStaged' <=> TasksStaged
  BY DEF WholeRenewal, FilesTyped, FilesAgree, ListedOnce, BackupsRegistered, Restorable, InPlace,
         StagedFits, Staged, Listed, Installs, TasksStaged

-----------------------------------------------------------------------------
(* What every step keeps, whatever has been set adrift *)

(* A renewal with entries to finish, and one that is aborted.              *)
LEMMA FinishAllSound ==
  ASSUME NEW m \in {"recover", "rollback", "finalize"}, NEW es \in Seq(RenewalEntries),
         renewal' = FinishAll(m, es)
  PROVE  OperationSound' /\ ~Stages' /\ renewal'.step \in {"idle", "finish"}
  <1>1. LET r == renewal' IN
        /\ r \in RenewalStates /\ r.toStage = <<>> /\ r.queue = es
        /\ IF es = <<>> THEN r.step = "idle" /\ r.mode = "none" ELSE r.step = "finish" /\ r.mode = m
    BY FinishAllFields DEF RenewalModes
  <1> QED BY <1>1 DEF OperationSound, Stages, StagingSteps, FinishingSteps

LEMMA AbortSound ==
  ASSUME RenewalSound, AbortStaging
  PROVE  OperationSound' /\ ~Stages' /\ renewal'.step \in {"idle", "finish"}
  <1>1. Reverse(renewal.staged) \in Seq(RenewalEntries)
    BY ListFacts DEF RenewalSound, OperationSound, RenewalStates
  <1> QED BY <1>1, FinishAllSound DEF AbortStaging

(* Staging goes on to the next owner, or to the commit.                    *)
LEMMA NextSound ==
  ASSUME RenewalSound, renewal.step \in {"stage", "move"}, NEW st \in Seq(RenewalEntries), NextToStage(st)
  PROVE  OperationSound' /\ Stages /\ renewal'.step \in {"stage", "commit"}
  <1>1. /\ renewal \in RenewalStates /\ renewal.mode = "none"
        /\ renewal.toStage \in {<<"notes">>, RegistrationOrder}
    BY DEF RenewalSound, OperationSound, RenewalStates, FinishingSteps
  <1>2. CASE renewal.toStage = <<"notes">>
    <2>1. renewal' = [renewal EXCEPT !.step = "commit", !.toStage = <<>>, !.staged = st]
      BY <1>2, Orders DEF NextToStage
    <2> QED BY <1>1, <2>1 DEF OperationSound, RenewalStates, Stages, StagingSteps, FinishingSteps
  <1>3. CASE renewal.toStage = RegistrationOrder
    <2>1. Len(renewal.toStage) # 1 /\ Tail(renewal.toStage) = <<"notes">>
      BY <1>3, Orders
    <2>2. renewal' = [renewal EXCEPT !.step = "stage", !.toStage = Tail(renewal.toStage), !.staged = st]
      BY <1>1, <2>1 DEF NextToStage, RenewalStates
    <2> QED BY <1>1, <2>1, <2>2, Orders DEF OperationSound, RenewalStates, Stages, StagingSteps, FinishingSteps
  <1> QED BY <1>1, <1>2, <1>3

(* An owner's file, or the entry in hand, goes on to its next step.        *)
LEMMA StepSound ==
  ASSUME RenewalSound, NEW s, renewal' = [renewal EXCEPT !.step = s],
         \/ renewal.step \in {"stage", "register"} /\ s \in {"register", "move"}
         \/ renewal.step \in FinishingSteps /\ s \in FinishingSteps
  PROVE  /\ OperationSound' /\ renewal'.step = s /\ (Stages' => Stages)
         /\ renewal'.queue = renewal.queue /\ renewal'.toStage = renewal.toStage
  BY DEF RenewalSound, OperationSound, RenewalStates, Stages, StagingSteps, FinishingSteps

(* What an error ends.                                                     *)
LEMMA FailedSound ==
  ASSUME RenewalSound, renewal.step \in FinishingSteps, FinishFailed
  PROVE  /\ OperationSound' /\ ~Stages' /\ renewal'.step \in {"idle", "finish"}
         /\ staging' \subseteq Owners
  <1>1. renewal.queue \in Seq(RenewalEntries) /\ renewal.queue # <<>>
    BY DEF RenewalSound, OperationSound, RenewalStates
  <1>2. PICK q : q = Tail(renewal.queue)
    OBVIOUS
  <1>3. q \in Seq(RenewalEntries)
    BY <1>1, <1>2
  <1>4. staging' \subseteq Owners
    BY DEF FinishFailed, Released, RenewalSound, FilesSound, FilesTyped
  <1>5. CASE renewal.mode \in {"finalize", "rollback"}
    BY <1>2, <1>3, <1>4, <1>5, FinishAllSound DEF FinishFailed
  <1>6. CASE renewal.mode = "restage"
    BY <1>4, <1>6, AbortSound DEF FinishFailed
  <1>7. CASE renewal.mode \notin {"finalize", "rollback", "restage"}
    <2>1. renewal' = Resting /\ <<>> \in Seq(RenewalEntries)
      BY <1>7 DEF FinishFailed
    <2> QED BY <1>4, <2>1, RestingFields DEF OperationSound, Stages, StagingSteps, FinishingSteps
  <1> QED BY <1>5, <1>6, <1>7

(* Nothing is done to the files.                                           *)
LEMMA SoundSame ==
  ASSUME RenewalSound, UNCHANGED <<canon, backup, manifest, selected, writes, intended>>,
         current' \in Scopes, staging' \subseteq Owners, adrift' \subseteq Owners
  PROVE  FilesSound'
  BY DEF RenewalSound, FilesSound, FilesTyped, BackupsRegistered

(* A backup that is removed, or a file that is replaced.                   *)
LEMMA SoundDrop ==
  ASSUME RenewalSound, renewal.step \in FinishingSteps, DropBackup
  PROVE  /\ backup' \in [Owners -> [Scopes -> FileContents]] /\ backup'[InHand.owner][InHand.gen] = NoFile
         /\ \A o \in Owners, g \in Scopes : backup'[o][g] # NoFile => backup'[o][g] = backup[o][g]
  <1>1. InHand \in RenewalEntries
    BY ListFacts DEF RenewalSound, OperationSound, RenewalStates, InHand
  <1>2. /\ backup \in [Owners -> [Scopes -> FileContents]] /\ NoFile \in FileContents
        /\ InHand.owner \in Owners /\ InHand.gen \in Scopes
    BY <1>1, RenewalBounds DEF RenewalSound, FilesSound, FilesTyped, NoFile, FileContents, RenewalEntries
  <1> QED BY <1>2 DEF DropBackup

(* The steps that stage.                                                   *)
LEMMA StagingSound ==
  ASSUME RenewalSound,
         \/ \E kind \in {"new", "compact"} : BeginRenewal(kind)
         \/ StageTasks \/ StageNotes
  PROVE  RenewalSound'
  <1>1. /\ UNCHANGED <<canon, backup, manifest, selected, writes, intended>>
        /\ UNCHANGED <<current, staging, adrift>>
    BY DEF filesVars, generationVars, historyVars, BeginRenewal, StageTasks, StageNotes
  <1>2. FilesSound'
    BY <1>1, SoundSame DEF RenewalSound, FilesSound, FilesTyped
  <1>3. OperationSound' /\ (Stages' => selected <= MaxRenewals) /\ renewal'.step \notin {"move", "unregister"}
    <2>1. ASSUME NEW kind \in {"new", "compact"}, BeginRenewal(kind)
          PROVE  OperationSound' /\ (Stages' => selected <= MaxRenewals) /\ renewal'.step \notin {"move", "unregister"}
      <3>1. <<>> \in Seq(RenewalEntries)
        OBVIOUS
      <3>2. renewal' = [step |-> "stage", kind |-> kind, toStage |-> RegistrationOrder,
                        staged |-> <<>>, queue |-> <<>>, mode |-> "none"]
        BY <2>1 DEF BeginRenewal, Resting
      <3>4. selected <= MaxRenewals
        BY <2>1, RenewalBounds DEF BeginRenewal, RenewalSound, FilesSound, FilesTyped, Scopes
      <3> QED BY <3>1, <3>2, <3>4, Orders DEF OperationSound, RenewalStates, StagingSteps, FinishingSteps
    <2>2. CASE AbortStaging
      BY <2>2, AbortSound
    <2>3. CASE renewal.step = "stage" /\ NextToStage(renewal.staged)
      BY <2>3, NextSound DEF RenewalSound, OperationSound, RenewalStates
    <2>4. CASE renewal.step = "stage" /\ renewal' = [renewal EXCEPT !.step = "register"]
      BY <2>4, StepSound DEF RenewalSound
    <2>5. ASSUME NEW e \in EntriesOf("notes"), renewal.step = "stage",
                 renewal' = [renewal EXCEPT !.step = "finish", !.mode = "restage", !.queue = <<e>>]
          PROVE  OperationSound' /\ (Stages' => selected <= MaxRenewals) /\ renewal'.step \notin {"move", "unregister"}
      <3>1. e \in RenewalEntries
        BY ListFacts DEF EntriesOf, RenewalSound, FilesSound, FilesTyped
      <3>2. PICK q : q = <<e>>
        OBVIOUS
      <3>3. q \in Seq(RenewalEntries) /\ q # <<>>
        BY <3>1, <3>2
      <3>4. renewal' = [renewal EXCEPT !.step = "finish", !.mode = "restage", !.queue = q]
        BY <2>5, <3>2
      <3> QED BY <2>5, <3>3, <3>4
              DEF RenewalSound, OperationSound, RenewalStates, Stages, StagingSteps, FinishingSteps,
                  RenewalModes
    <2> QED BY <2>1, <2>2, <2>3, <2>4, <2>5 DEF StageTasks, StageNotes, On
  <1> QED BY <1>1, <1>2, <1>3 DEF RenewalSound

LEMMA RegisterSound ==
  ASSUME RenewalSound, RegisterFile
  PROVE  RenewalSound'
  <1> DEFINE n == Entry(Head(renewal.toStage))
             registered == Append(manifest, n)
  <1>1. /\ renewal.step = "register" /\ renewal.toStage \in {<<"notes">>, RegistrationOrder}
        /\ UNCHANGED <<canon, backup, selected, current, staging, writes, intended, adrift>>
    BY DEF generationVars, historyVars, RegisterFile, On, RenewalSound, OperationSound, RenewalStates
  <1>2. n \in RenewalEntries
    BY <1>1, Orders DEF Entry, RenewalEntries, RenewalSound, FilesSound, FilesTyped, Owners
  <1>3. /\ registered \in Seq(RenewalEntries) /\ ToSet(registered) = Listed \cup {n}
    BY <1>2, ListFacts DEF RenewalSound, FilesSound, FilesTyped, Listed
  <1> HIDE DEF registered
  <1>4. manifest' = registered \/ manifest' = manifest
    BY DEF RegisterFile, registered
  <1>5. Listed \subseteq Listed'
    BY <1>3, <1>4 DEF Listed
  <1>6. FilesSound'
    BY <1>1, <1>3, <1>4, <1>5 DEF RenewalSound, FilesSound, FilesTyped, BackupsRegistered, Listed
  <1>7. CASE AbortStaging
    BY <1>6, <1>7, AbortSound DEF RenewalSound
  <1>8. CASE manifest' = registered /\ renewal' = [renewal EXCEPT !.step = "move"]
    <2>1. OperationSound' /\ (Stages' => Stages) /\ renewal'.step = "move" /\ renewal'.toStage = renewal.toStage
      BY <1>1, <1>8, StepSound
    <2>2. Entry(Head(renewal.toStage))' = n
      BY <1>1, <2>1 DEF Entry
    <2>3. n \in Listed'
      BY <1>3, <1>8 DEF Listed
    <2> QED BY <1>1, <1>6, <2>1, <2>2, <2>3 DEF RenewalSound
  <1> QED BY <1>7, <1>8 DEF RegisterFile, registered

LEMMA MoveSound ==
  ASSUME RenewalSound, MoveFile
  PROVE  RenewalSound'
  <1>0. PICK o : o = Head(renewal.toStage)
    OBVIOUS
  <1>1. /\ renewal.step = "move" /\ renewal.toStage \in {<<"notes">>, RegistrationOrder}
        /\ UNCHANGED <<manifest, selected, current, writes, intended, adrift>>
    BY DEF generationVars, historyVars, MoveFile, On, RenewalSound, OperationSound, RenewalStates
  <1>2. /\ o \in Owners /\ Entry(o) \in Listed /\ Entry(o) = [owner |-> o, gen |-> current]
        /\ Entry(o) \in RenewalEntries /\ current \in Scopes
    BY <1>0, <1>1, Orders
       DEF RenewalSound, FilesSound, FilesTyped, Entry, RenewalEntries, Owners
  <1>6. OperationSound' /\ (Stages' => Stages) /\ renewal'.step \notin {"move", "unregister"}
    <2>1. CASE AbortStaging
      BY <2>1, AbortSound
    <2>2. CASE NextToStage(Append(renewal.staged, Entry(o)))
      <3>1. PICK st : st = Append(renewal.staged, Entry(o))
        OBVIOUS
      <3>2. st \in Seq(RenewalEntries)
        BY <1>2, <3>1, ListFacts DEF RenewalSound, OperationSound, RenewalStates
      <3> QED BY <1>1, <2>2, <3>1, <3>2, NextSound
    <2> QED BY <1>0, <2>1, <2>2 DEF MoveFile
  <1>3. CASE UNCHANGED <<canon, backup, staging>>
    <2>1. FilesSound'
      BY <1>1, <1>3, SoundSame DEF RenewalSound, FilesSound, FilesTyped
    <2> QED BY <1>1, <1>6, <2>1 DEF RenewalSound
  <1>4. CASE Moved(o) /\ staging' \subseteq Owners
    <2>1. canon \in [Owners -> FileContents] /\ NoFile \in FileContents
          /\ backup \in [Owners -> [Scopes -> FileContents]] /\ Prune(canon[o]) \in FileContents
      BY <1>2, PruneFacts, RenewalBounds DEF RenewalSound, FilesSound, FilesTyped, NoFile, FileContents
    <2>2. PICK b \in FileContents : backup' = [backup EXCEPT ![o][current] = b]
      BY <1>2, <1>4, <2>1 DEF Moved
    <2>3. canon' \in [Owners -> FileContents] /\ backup' \in [Owners -> [Scopes -> FileContents]]
      BY <1>2, <1>4, <2>1, <2>2 DEF Moved
    <2>4. BackupsRegistered'
      <3> SUFFICES ASSUME NEW p \in Owners, NEW g \in Scopes, backup'[p][g] # NoFile
                   PROVE  [owner |-> p, gen |-> g] \in Listed
        BY <1>1 DEF BackupsRegistered, Listed
      <3>1. CASE p = o /\ g = current
        BY <1>2, <3>1
      <3>2. CASE ~(p = o /\ g = current)
        <4>1. backup'[p][g] = backup[p][g]
          BY <1>2, <2>1, <2>2, <3>2
        <4> QED BY <4>1 DEF RenewalSound, FilesSound, BackupsRegistered, Listed
      <3> QED BY <3>1, <3>2
    <2>5. FilesSound'
      BY <1>1, <1>4, <2>3, <2>4 DEF RenewalSound, FilesSound, FilesTyped
    <2> QED BY <1>1, <1>6, <2>5 DEF RenewalSound
  <1>5. staging \subseteq Owners /\ staging \cup {o} \subseteq Owners
    BY <1>2 DEF RenewalSound, FilesSound, FilesTyped
  <1> QED BY <1>0, <1>3, <1>4, <1>5 DEF MoveFile

LEMMA CommitSound ==
  ASSUME RenewalSound, CommitGeneration
  PROVE  RenewalSound'
  <1>1. /\ renewal.staged \in Seq(RenewalEntries)
        /\ UNCHANGED <<canon, backup, manifest, staging, writes>>
    BY DEF filesVars, CommitGeneration, RenewalSound, OperationSound, RenewalStates
  <1>2. PICK g \in [Owners -> FileContents] :
           g = [o \in Owners |-> IF Replaces(o) THEN Prune(intended[o])
                                 ELSE IF renewal.kind = "new" THEN NoFile ELSE intended[o]]
    <2> DEFINE h(o) == IF Replaces(o) THEN Prune(intended[o])
                       ELSE IF renewal.kind = "new" THEN NoFile ELSE intended[o]
    <2>1. ASSUME NEW o \in Owners PROVE h(o) \in FileContents
      BY PruneFacts, RenewalBounds DEF RenewalSound, FilesSound, FilesTyped, NoFile, FileContents
    <2> HIDE DEF h
    <2>2. [o \in Owners |-> h(o)] \in [Owners -> FileContents]
      BY <2>1
    <2> QED BY <2>2 DEF h
  <1>3. /\ intended' \in [Owners -> FileContents] /\ adrift' \subseteq Owners
        /\ selected' \in {selected, selected + 1} /\ current' \in {current, selected + 1}
    BY <1>2 DEF CommitGeneration, RenewalSound, FilesSound, FilesTyped, LeftBehind
  <1>4. selected' \in Scopes /\ current' \in Scopes
    <2>1. selected <= MaxRenewals
      BY DEF CommitGeneration, On, RenewalSound, Stages, StagingSteps
    <2> QED BY <1>3, <2>1, RenewalBounds DEF RenewalSound, FilesSound, FilesTyped, Scopes
  <1>5. FilesSound'
    BY <1>1, <1>3, <1>4 DEF RenewalSound, FilesSound, FilesTyped, BackupsRegistered
  <1>6. OperationSound' /\ ~Stages' /\ renewal'.step \notin {"move", "unregister"}
    BY <1>1, AbortSound, FinishAllSound DEF CommitGeneration
  <1> QED BY <1>5, <1>6 DEF RenewalSound

(* The steps that finish.                                                  *)
LEMMA FinishSound ==
  ASSUME RenewalSound, FinishFile \/ RemoveReplacement
  PROVE  RenewalSound'
  <1>1. /\ renewal.step \in {"finish", "remove"}
        /\ UNCHANGED <<manifest, selected, current, writes, intended, adrift>>
    BY DEF generationVars, historyVars, FinishFile, RemoveReplacement, Finishing
  <1>2. /\ canon \in [Owners -> FileContents] /\ backup \in [Owners -> [Scopes -> FileContents]]
        /\ InHand \in RenewalEntries /\ InHand.owner \in Owners /\ InHand.gen \in Scopes
        /\ Staged(InHand) \in FileContents
    <2>1. InHand \in RenewalEntries
      BY <1>1, ListFacts DEF RenewalSound, OperationSound, RenewalStates, FinishingSteps, InHand
    <2> QED BY <2>1 DEF RenewalSound, FilesSound, FilesTyped, RenewalEntries, Staged
  <1>3. canon' \in [Owners -> FileContents] /\ (UNCHANGED backup \/ DropBackup)
    BY <1>2 DEF FinishFile, RemoveReplacement, FileDone, FileUntouched
  <1>4. /\ backup' \in [Owners -> [Scopes -> FileContents]]
        /\ \A o \in Owners, g \in Scopes : backup'[o][g] # NoFile => backup[o][g] # NoFile
        /\ DropBackup => backup'[InHand.owner][InHand.gen] = NoFile
    BY <1>1, <1>2, <1>3, SoundDrop DEF FinishingSteps
  <1> DEFINE Dropped == DropBackup \/ (Staged(InHand) = NoFile /\ UNCHANGED backup)
  <1>5. /\ OperationSound' /\ (Stages' => Stages) /\ renewal'.step # "move" /\ staging' \subseteq Owners
        /\ renewal'.step = "unregister" => Dropped /\ UNCHANGED InHand
    <2>1. CASE FinishFailed
      BY <1>1, <2>1, FailedSound DEF FinishingSteps
    <2>2. ASSUME NEW s \in {"remove", "unregister"}, renewal' = [renewal EXCEPT !.step = s], UNCHANGED staging,
                 s = "unregister" => Dropped
          PROVE  /\ OperationSound' /\ (Stages' => Stages) /\ renewal'.step # "move" /\ staging' \subseteq Owners
                 /\ renewal'.step = "unregister" => Dropped /\ UNCHANGED InHand
      <3>1. /\ OperationSound' /\ renewal'.step = s /\ (Stages' => Stages)
            /\ renewal'.queue = renewal.queue
        BY <1>1, <2>2, StepSound DEF FinishingSteps
      <3> QED BY <2>2, <3>1 DEF InHand, RenewalSound, FilesSound, FilesTyped
    <2>3. CASE /\ UNCHANGED staging /\ Dropped
               /\ renewal' = [renewal EXCEPT !.step = "unregister"]
      BY <2>2, <2>3
    <2>4. CASE UNCHANGED staging /\ renewal' = [renewal EXCEPT !.step = "remove"]
      BY <2>2, <2>4
    <2>5. CASE FinishFile /\ ~FinishFailed
      <3>1. CASE Staged(InHand) = NoFile /\ FileUntouched
        BY <2>3, <2>5, <3>1 DEF FinishFile, FileUntouched
      <3>2. CASE Staged(InHand) # NoFile /\ FileDone
        <4>1. CASE Replaces(InHand.owner) /\ ~Restores
          BY <2>4, <2>5, <3>2, <4>1 DEF FinishFile
        <4>2. CASE ~(Replaces(InHand.owner) /\ ~Restores)
          <5>1. DropBackup
            BY <3>2, <4>2 DEF FileDone
          <5> QED BY <2>3, <2>5, <3>2, <4>2, <5>1 DEF FinishFile
        <4> QED BY <4>1, <4>2
      <3> QED BY <2>5, <3>1, <3>2 DEF FinishFile
    <2>6. CASE RemoveReplacement /\ ~FinishFailed
      BY <2>3, <2>6 DEF RemoveReplacement
    <2> QED BY <2>1, <2>5, <2>6
  <1>6. FilesSound'
    BY <1>1, <1>3, <1>4, <1>5 DEF RenewalSound, FilesSound, FilesTyped, BackupsRegistered
  <1>7. renewal'.step = "unregister" => Staged(InHand)' = NoFile
    BY <1>4, <1>5 DEF Staged
  <1> QED BY <1>1, <1>5, <1>6, <1>7 DEF RenewalSound

LEMMA UnregisterSound ==
  ASSUME RenewalSound, Unregister
  PROVE  RenewalSound'
  <1>1. /\ renewal.step = "unregister" /\ Staged(InHand) = NoFile
        /\ UNCHANGED <<canon, backup, selected, current, writes, intended, adrift>>
    BY DEF historyVars, Unregister, Finishing, RenewalSound
  <1>2. /\ WithoutEntry(InHand) \in Seq(RenewalEntries)
        /\ \A f \in Listed : f = InHand \/ f \in ToSet(WithoutEntry(InHand))
    BY WithoutFacts DEF RenewalSound, FilesSound, FilesTyped
  <1>3. manifest' \in {manifest, WithoutEntry(InHand)}
    BY DEF Unregister
  <1>4. manifest' \in Seq(RenewalEntries) /\ \A f \in Listed : f = InHand \/ f \in Listed'
    BY <1>2, <1>3 DEF Listed, RenewalSound, FilesSound, FilesTyped
  <1>5. BackupsRegistered'
    <2> SUFFICES ASSUME NEW o \in Owners, NEW g \in Scopes, backup[o][g] # NoFile
                 PROVE  [owner |-> o, gen |-> g] \in Listed'
      BY <1>1 DEF BackupsRegistered, Listed
    <2>1. [owner |-> o, gen |-> g] \in Listed
      BY DEF RenewalSound, FilesSound, BackupsRegistered, Listed
    <2>2. [owner |-> o, gen |-> g] # InHand
      BY <1>1 DEF Staged
    <2> QED BY <1>4, <2>1, <2>2
  <1>6. /\ renewal.queue \in Seq(RenewalEntries) /\ renewal.queue # <<>>
        /\ renewal.mode \in RenewalModes
    BY <1>1 DEF RenewalSound, OperationSound, RenewalStates, FinishingSteps
  <1>7. /\ OperationSound' /\ (Stages' => Stages) /\ renewal'.step \notin {"move", "unregister"}
        /\ staging' \subseteq Owners
    <2>1. CASE FinishFailed
      BY <1>1, <2>1, FailedSound DEF FinishingSteps
    <2>2. CASE /\ renewal.mode = "restage" /\ UNCHANGED staging
               /\ renewal' = [renewal EXCEPT !.step = "stage", !.mode = "none", !.queue = <<>>]
      <3>1. <<>> \in Seq(RenewalEntries)
        OBVIOUS
      <3> QED BY <2>2, <3>1 DEF RenewalSound, FilesSound, FilesTyped, OperationSound, RenewalStates,
                               Stages, StagingSteps, FinishingSteps
    <2>3. CASE /\ renewal.mode # "restage" /\ staging' = Released
               /\ renewal' = FinishAll(renewal.mode, Tail(renewal.queue))
      <3>1. PICK q : q = Tail(renewal.queue)
        OBVIOUS
      <3>2. q \in Seq(RenewalEntries)
        BY <1>6, <3>1
      <3>3. renewal.mode \in {"recover", "rollback", "finalize"}
        BY <1>6, <2>3 DEF RenewalModes
      <3>4. OperationSound' /\ ~Stages' /\ renewal'.step \in {"idle", "finish"}
        BY <2>3, <3>1, <3>2, <3>3, FinishAllSound
      <3> QED BY <2>3, <3>4 DEF Released, RenewalSound, FilesSound, FilesTyped
    <2> QED BY <2>1, <2>2, <2>3 DEF Unregister
  <1>8. FilesSound'
    BY <1>1, <1>4, <1>5, <1>7 DEF RenewalSound, FilesSound, FilesTyped
  <1> QED BY <1>1, <1>7, <1>8 DEF RenewalSound

(* Opening and closing.                                                    *)
LEMMA OpeningSound ==
  ASSUME RenewalSound, Attach \/ Detach \/ RenewalProcessEnds
  PROVE  RenewalSound'
  <1>1. /\ UNCHANGED <<canon, backup, manifest, selected, writes, intended, adrift>>
        /\ current' \in Scopes /\ staging' \subseteq Owners
    BY DEF filesVars, historyVars, Attach, Detach, RenewalProcessEnds, RenewalSound, FilesSound, FilesTyped
  <1>2. FilesSound'
    BY <1>1, SoundSame DEF RenewalSound, FilesSound, FilesTyped
  <1>3. OperationSound' /\ ~Stages' /\ renewal'.step \in {"idle", "finish"}
    <2>1. CASE renewal' = FinishAll("recover", manifest)
      BY <2>1, FinishAllSound DEF RenewalSound, FilesSound, FilesTyped
    <2>2. CASE renewal' = Resting
      BY <2>2, RestingFields DEF OperationSound, Stages, StagingSteps, FinishingSteps
    <2>3. CASE renewal.step = "idle" /\ UNCHANGED renewal
      BY <2>3 DEF RenewalSound, OperationSound, Stages, StagingSteps, FinishingSteps
    <2> QED BY <2>1, <2>2, <2>3 DEF Attach, Detach, RenewalProcessEnds, Quiet, On
  <1> QED BY <1>1, <1>2, <1>3 DEF RenewalSound

(* The owners.                                                             *)
LEMMA OwnersSound ==
  ASSUME RenewalSound, (\E done \in BOOLEAN : TaskTool(done)) \/ ClearNotes \/ UpdateNotes
  PROVE  RenewalSound'
  <1>1. /\ UNCHANGED <<backup, manifest, selected, current, staging, adrift>>
        /\ renewal.step \in {"idle", "cleanup"}
    BY DEF generationVars, TaskTool, ClearNotes, UpdateNotes, Quiet, On
  <1>2. /\ NoFile \in FileContents /\ canon \in [Owners -> FileContents] /\ intended \in [Owners -> FileContents]
        /\ writes \in 0 .. MaxWrites /\ "tasks" \in Owners /\ "notes" \in Owners
    BY RenewalBounds DEF NoFile, FileContents, Owners, RenewalSound, FilesSound, FilesTyped
  <1>3. /\ canon' \in [Owners -> FileContents] /\ intended' \in [Owners -> FileContents]
        /\ writes' \in 0 .. MaxWrites
    <2>1. ASSUME NEW o \in Owners, NEW done \in BOOLEAN, Save(o, Content(done))
          PROVE  /\ canon' \in [Owners -> FileContents] /\ intended' \in [Owners -> FileContents]
                 /\ writes' \in 0 .. MaxWrites
      <3>1. writes' \in 0 .. MaxWrites /\ writes + 1 \in 0 .. MaxWrites /\ writes + 1 # 0
        BY <1>2, <2>1, RenewalBounds DEF Save
      <3>2. Content(done) \in FileContents
        BY <3>1 DEF Content, FileContents
      <3> QED BY <1>2, <2>1, <3>1, <3>2 DEF Save
    <2>2. CASE ClearNotes
      BY <1>2, <2>2 DEF ClearNotes
    <2>3. CASE \E done \in BOOLEAN : TaskTool(done)
      BY <1>2, <2>1, <2>3 DEF TaskTool
    <2>4. CASE UpdateNotes
      BY <1>2, <2>1, <2>4 DEF UpdateNotes
    <2> QED BY <2>2, <2>3, <2>4
  <1>4. FilesSound'
    BY <1>1, <1>3 DEF RenewalSound, FilesSound, FilesTyped, BackupsRegistered
  <1>5. OperationSound' /\ ~Stages' /\ renewal'.step \in {"idle", "cleanup"}
    <2>1. CASE UNCHANGED renewal
      BY <1>1, <2>1 DEF RenewalSound, OperationSound, Stages, StagingSteps, FinishingSteps
    <2>2. CASE renewal' \in {Resting, [Resting EXCEPT !.step = "cleanup"]}
      BY <2>2, RestingFields DEF OperationSound, Stages, StagingSteps, FinishingSteps
    <2> QED BY <2>1, <2>2 DEF TaskTool, ClearNotes, UpdateNotes
  <1> QED BY <1>4, <1>5 DEF RenewalSound

(* What is sound stays so.                                                 *)
LEMMA SoundSteps ==
  ASSUME RenewalSound, RNext
  PROVE  RenewalSound'
  BY StagingSound, RegisterSound, MoveSound, CommitSound, FinishSound, UnregisterSound,
     OpeningSound, OwnersSound DEF RNext

-----------------------------------------------------------------------------
(* The steps of a context renewal: staging *)

(* A new operation.                                                        *)
LEMMA BeginKeeps ==
  ASSUME WholeRenewal, NEW kind \in {"new", "compact"}, BeginRenewal(kind)
  PROVE  WholeRenewal'
  <1>1. /\ FilesTyped' /\ FilesAgree' /\ Listed' = Listed
    BY FilesSame DEF filesVars, generationVars, historyVars, BeginRenewal, WholeRenewal, FilesTyped
  <1>2. current' = selected'
    BY DEF filesVars, generationVars, historyVars, BeginRenewal, Quiet, On, WholeRenewal,
           OperationKnows, HandleKnows
  <1>3. renewal' = [step |-> "stage", kind |-> kind, toStage |-> RegistrationOrder,
                    staged |-> <<>>, queue |-> <<>>, mode |-> "none"]
    BY DEF filesVars, generationVars, historyVars, BeginRenewal, Resting
  <1>4. attached' /\ selected' <= MaxRenewals
    BY RenewalBounds DEF filesVars, generationVars, historyVars, BeginRenewal, Quiet, On, WholeRenewal, FilesTyped, Scopes
  <1>5. <<>> \in Seq(RenewalEntries) /\ ToSet(<<>>) = {}
    BY DEF ToSet
  <1>6. renewal' \in RenewalStates
    BY <1>3, <1>5 DEF RenewalStates, StagingSteps
  <1>7. HandleKnows'
    BY <1>1, <1>2 DEF HandleKnows
  <1>8. StagingKnows' /\ FinishingKnows'
    BY <1>3, <1>4, <1>5, Orders DEF StagingKnows, FinishingKnows, StagingSteps, FinishingSteps
  <1> QED BY <1>1, <1>6, <1>7, <1>8 DEF WholeRenewal, OperationKnows

(* Where staging goes when an owner is done.                               *)
LEMMA NextFields ==
  ASSUME WholeRenewal, renewal.step \in {"stage", "move"}, NEW st \in Seq(RenewalEntries),
         NextToStage(st)
  PROVE  /\ renewal' \in RenewalStates /\ renewal'.staged = st
         /\ renewal'.kind = renewal.kind /\ renewal'.queue = renewal.queue
         /\ renewal'.mode = "none"
         /\ IF renewal.toStage = <<"notes">>
            THEN renewal'.step = "commit" /\ renewal'.toStage = <<>>
            ELSE /\ renewal.toStage = RegistrationOrder
                 /\ renewal'.step = "stage" /\ renewal'.toStage = <<"notes">>
  <1>1. /\ renewal \in RenewalStates /\ renewal.mode = "none"
        /\ renewal.toStage \in {<<"notes">>, RegistrationOrder}
    BY DEF WholeRenewal, OperationKnows, RenewalStates, StagingKnows, FinishingKnows, FinishingSteps
  <1>2. CASE renewal.toStage = <<"notes">>
    <2>1. renewal' = [renewal EXCEPT !.step = "commit", !.toStage = <<>>, !.staged = st]
      BY <1>2, Orders DEF NextToStage
    <2> QED BY <1>1, <1>2, <2>1 DEF RenewalStates, StagingSteps
  <1>3. CASE renewal.toStage = RegistrationOrder
    <2>1. Len(renewal.toStage) # 1 /\ Tail(renewal.toStage) = <<"notes">>
      BY <1>3, Orders
    <2>2. renewal' = [renewal EXCEPT !.step = "stage", !.toStage = Tail(@), !.staged = st]
      BY <2>1 DEF NextToStage
    <2>3. renewal' = [renewal EXCEPT !.step = "stage", !.toStage = Tail(renewal.toStage), !.staged = st]
      BY <1>1, <2>2 DEF RenewalStates
    <2> QED BY <1>1, <1>3, <2>1, <2>3, Orders DEF RenewalStates, StagingSteps
  <1> QED BY <1>1, <1>2, <1>3

(* What staging the next owner, or the commit, must know.                  *)
LEMMA NextKnows ==
  ASSUME WholeRenewal, renewal.step \in {"stage", "move"}, NEW st \in Seq(RenewalEntries),
         NextToStage(st), UNCHANGED <<selected, current, attached>>,
         \A e \in ToSet(st) : e.gen = selected,
         renewal.kind = "compact" => \A e \in ToSet(st) : e.owner = "tasks",
         TasksStaged',
         renewal.toStage = <<"notes">> /\ renewal.kind = "new" => canon'["notes"] = NoFile
  PROVE  OperationKnows'
  <1>1. /\ renewal' \in RenewalStates /\ renewal'.staged = st
        /\ renewal'.kind = renewal.kind /\ renewal'.queue = renewal.queue
        /\ renewal'.mode = "none"
        /\ IF renewal.toStage = <<"notes">>
           THEN renewal'.step = "commit" /\ renewal'.toStage = <<>>
           ELSE /\ renewal.toStage = RegistrationOrder
                /\ renewal'.step = "stage" /\ renewal'.toStage = <<"notes">>
    BY NextFields
  <1>2. attached /\ selected <= MaxRenewals
    BY DEF WholeRenewal, OperationKnows, StagingKnows, StagingSteps
  <1>3. HandleKnows'
    BY <1>1, <1>2 DEF WholeRenewal, OperationKnows, HandleKnows
  <1>4. StagingKnows'
    BY <1>1, <1>2, Orders DEF StagingKnows, StagingSteps
  <1>5. FinishingKnows'
    BY <1>1 DEF FinishingKnows, FinishingSteps
  <1> QED BY <1>1, <1>3, <1>4, <1>5 DEF OperationKnows

(* The step of an owner goes on to the registration of its file.           *)
LEMMA RegisterKnows ==
  ASSUME WholeRenewal, renewal.step = "stage", renewal' = [renewal EXCEPT !.step = "register"],
         UNCHANGED <<canon, backup, manifest, selected, current, attached, staging, writes, intended, adrift>>,
         \A e \in Listed : e.owner # Head(renewal.toStage),
         canon[Head(renewal.toStage)] # NoFile,
         renewal.toStage = <<"notes">> => renewal.kind = "new",
         renewal.toStage = RegistrationOrder => canon["tasks"].done
  PROVE  WholeRenewal'
  <1>1. /\ FilesTyped' /\ FilesAgree' /\ Listed' = Listed
        /\ TasksStaged' <=> TasksStaged
    BY FilesSame DEF WholeRenewal, FilesTyped
  <1>3. /\ renewal' \in RenewalStates /\ renewal'.step = "register" /\ renewal'.kind = renewal.kind
        /\ renewal'.toStage = renewal.toStage /\ renewal'.staged = renewal.staged
        /\ renewal'.queue = renewal.queue /\ renewal'.mode = renewal.mode
    BY DEF WholeRenewal, OperationKnows, RenewalStates, StagingSteps
  <1>4. HandleKnows'
    BY <1>3 DEF WholeRenewal, OperationKnows, HandleKnows
  <1>5. StagingKnows'
    BY <1>1, <1>3 DEF WholeRenewal, OperationKnows, StagingKnows, StagingSteps
  <1>6. FinishingKnows'
    BY <1>3 DEF WholeRenewal, OperationKnows, FinishingKnows, FinishingSteps
  <1> QED BY <1>1, <1>3, <1>4, <1>5, <1>6 DEF WholeRenewal, OperationKnows

(* What a stage step knows of the operation.                               *)
LEMMA StageFacts ==
  ASSUME WholeRenewal, On("stage")
  PROVE  /\ renewal.staged \in Seq(RenewalEntries) /\ renewal.step = "stage" /\ attached
         /\ selected <= MaxRenewals
         /\ renewal.toStage \in {<<"notes">>, RegistrationOrder}
         /\ \A e \in ToSet(renewal.staged) : e.gen = selected
         /\ renewal.kind = "compact" => \A e \in ToSet(renewal.staged) : e.owner = "tasks"
         /\ renewal.toStage = <<"notes">> => TasksStaged
         /\ renewal.kind \in {"new", "compact"} /\ renewal.mode = "none"
  <1>1. renewal.step = "stage" /\ attached
    BY DEF On
  <1>3. renewal.mode = "none"
    BY <1>1 DEF WholeRenewal, OperationKnows, FinishingKnows, FinishingSteps
  <1>4. renewal.toStage \in {<<"notes">>, RegistrationOrder}
        /\ renewal.staged \in Seq(RenewalEntries) /\ renewal.kind \in {"new", "compact"}
    BY <1>1 DEF WholeRenewal, OperationKnows, RenewalStates, StagingKnows
  <1> QED BY <1>1, <1>3, <1>4, Orders DEF WholeRenewal, OperationKnows, StagingKnows, StagingSteps

(* The tasks are staged, passed over, or refuse.                           *)
LEMMA StageTasksKeeps ==
  ASSUME WholeRenewal, StageTasks
  PROVE  WholeRenewal'
  <1>1. /\ renewal.staged \in Seq(RenewalEntries) /\ renewal.step = "stage"
        /\ renewal.toStage \in {<<"notes">>, RegistrationOrder}
        /\ \A e \in ToSet(renewal.staged) : e.gen = selected
        /\ renewal.kind = "compact" => \A e \in ToSet(renewal.staged) : e.owner = "tasks"
    BY StageFacts DEF filesVars, generationVars, historyVars, StageTasks
  <1>2. renewal.toStage = RegistrationOrder /\ Head(renewal.toStage) = "tasks"
    BY <1>1, Orders DEF filesVars, generationVars, historyVars, StageTasks
  <1>3. /\ FilesTyped' /\ FilesAgree' /\ Listed' = Listed
        /\ TasksStaged' <=> TasksStaged
    BY FilesSame DEF filesVars, generationVars, historyVars, StageTasks, WholeRenewal, FilesTyped
  <1>4. UNCHANGED <<canon, backup, manifest, selected, current, attached, staging, writes, intended, adrift>>
    BY DEF filesVars, generationVars, historyVars, StageTasks
  <1>5. CASE AbortStaging
    <2>1. OperationKnows'
      BY <1>1, <1>3, <1>4, <1>5, AbortKnows DEF StagingSteps
    <2> QED BY <1>3, <2>1 DEF WholeRenewal
  <1>6. CASE FileReady("tasks") /\ ~canon["tasks"].done /\ NextToStage(renewal.staged)
    <2>1. \A e \in Listed : e.owner # "tasks"
      BY <1>6 DEF FileReady, EntriesOf, Listed
    <2>2. TasksStaged'
      BY <1>3, <1>6, <2>1 DEF TasksStaged
    <2>3. OperationKnows'
      BY <1>1, <1>2, <1>3, <1>4, <1>6, <2>2, Orders, NextKnows
    <2> QED BY <1>3, <2>3 DEF WholeRenewal
  <1>7. CASE FileReady("tasks") /\ canon["tasks"].done
             /\ renewal' = [renewal EXCEPT !.step = "register"]
    <2>1. \A e \in Listed : e.owner # "tasks"
      BY <1>7 DEF FileReady, EntriesOf, Listed
    <2>2. canon["tasks"] # NoFile
      BY <1>7 DEF NoFile
    <2> QED BY <1>1, <1>2, <1>4, <1>7, <2>1, <2>2, Orders, RegisterKnows
  <1> QED BY <1>5, <1>6, <1>7 DEF filesVars, generationVars, historyVars, StageTasks

(* The notes are staged, passed over, or an entry left over is finished    *)
(* before they are.                                                        *)
LEMMA StageNotesKeeps ==
  ASSUME WholeRenewal, StageNotes
  PROVE  WholeRenewal'
  <1>1. /\ renewal.staged \in Seq(RenewalEntries) /\ renewal.step = "stage" /\ attached
        /\ selected <= MaxRenewals
        /\ renewal.toStage \in {<<"notes">>, RegistrationOrder}
        /\ \A e \in ToSet(renewal.staged) : e.gen = selected
        /\ renewal.kind = "compact" => \A e \in ToSet(renewal.staged) : e.owner = "tasks"
        /\ renewal.toStage = <<"notes">> => TasksStaged
        /\ renewal.kind \in {"new", "compact"} /\ renewal.mode = "none"
    BY StageFacts DEF filesVars, generationVars, historyVars, StageNotes
  <1>2. renewal.toStage = <<"notes">> /\ Head(renewal.toStage) = "notes"
    BY <1>1, Orders DEF filesVars, generationVars, historyVars, StageNotes
  <1>3. /\ FilesTyped' /\ FilesAgree' /\ Listed' = Listed
        /\ TasksStaged' <=> TasksStaged
    BY FilesSame DEF filesVars, generationVars, historyVars, StageNotes, WholeRenewal, FilesTyped
  <1>4. UNCHANGED <<canon, backup, manifest, selected, current, attached, staging, writes, intended, adrift>>
    BY DEF filesVars, generationVars, historyVars, StageNotes
  <1>5. CASE NextToStage(renewal.staged) /\ (renewal.kind = "new" => canon["notes"] = NoFile)
    <2>1. OperationKnows'
      BY <1>1, <1>2, <1>3, <1>4, <1>5, NextKnows
    <2> QED BY <1>3, <2>1 DEF WholeRenewal
  <1>6. CASE /\ renewal.kind = "new"
             /\ \E e \in EntriesOf("notes") :
                   renewal' = [renewal EXCEPT !.step = "finish", !.mode = "restage", !.queue = <<e>>]
    <2>1. PICK e \in EntriesOf("notes") :
                   renewal' = [renewal EXCEPT !.step = "finish", !.mode = "restage", !.queue = <<e>>]
      BY <1>6
    <2>2. e \in Listed /\ e.owner = "notes" /\ e \in RenewalEntries
      BY ListFacts DEF EntriesOf, Listed, WholeRenewal, FilesTyped
    <2>3. <<e>> \in Seq(RenewalEntries) /\ ToSet(<<e>>) = {e} /\ <<e>> # <<>>
      BY <2>2 DEF ToSet
    <2>4. /\ renewal' \in RenewalStates /\ renewal'.step = "finish" /\ renewal'.mode = "restage"
          /\ renewal'.queue = <<e>> /\ renewal'.kind = renewal.kind
          /\ renewal'.toStage = renewal.toStage /\ renewal'.staged = renewal.staged
      <3> DEFINE q == <<e>>
      <3>1. q \in Seq(RenewalEntries)
        BY <2>3
      <3>2. renewal' = [renewal EXCEPT !.step = "finish", !.mode = "restage", !.queue = q]
        BY <2>1
      <3> HIDE DEF q
      <3>3. /\ renewal' \in RenewalStates /\ renewal'.step = "finish" /\ renewal'.mode = "restage"
            /\ renewal'.queue = q /\ renewal'.kind = renewal.kind
            /\ renewal'.toStage = renewal.toStage /\ renewal'.staged = renewal.staged
        BY <3>1, <3>2 DEF WholeRenewal, OperationKnows, RenewalStates, FinishingSteps, RenewalModes
      <3> QED BY <3>3 DEF q
    <2>5. HandleKnows'
      BY <1>1, <1>4 DEF WholeRenewal, OperationKnows, HandleKnows
    <2>6. StagingKnows'
      BY <1>1, <1>2, <1>3, <1>4, <1>6, <2>4, Orders DEF StagingKnows, StagingSteps
    <2>7. FinishingKnows'
      BY <2>2, <2>3, <2>4 DEF FinishingKnows, FinishingSteps
    <2> QED BY <1>3, <2>4, <2>5, <2>6, <2>7 DEF WholeRenewal, OperationKnows
  <1>7. CASE /\ renewal.kind = "new" /\ EntriesOf("notes") = {} /\ canon["notes"] # NoFile
             /\ renewal' = [renewal EXCEPT !.step = "register"]
    <2>1. \A e \in Listed : e.owner # "notes"
      BY <1>7 DEF EntriesOf, Listed
    <2> QED BY <1>1, <1>2, <1>4, <1>7, <2>1, Orders, RegisterKnows
  <1> QED BY <1>5, <1>6, <1>7 DEF filesVars, generationVars, historyVars, StageNotes

(* An owner's file that has no entry yet is entered in the manifest: every *)
(* file stays what it is.                                                  *)
LEMMA EnteredFiles ==
  ASSUME WholeRenewal, current = selected, NEW o \in Owners, \A e \in Listed : e.owner # o,
         manifest' = Append(manifest, Entry(o)),
         UNCHANGED <<canon, backup, selected, current, staging, writes, intended, adrift>>
  PROVE  /\ FilesTyped' /\ FilesAgree'
         /\ Listed' = Listed \cup {Entry(o)} /\ Staged(Entry(o)) = NoFile
         /\ o # "tasks" => (TasksStaged => TasksStaged')
  <1> DEFINE n == Entry(o)
  <1>1. /\ n \in RenewalEntries /\ n.owner = o /\ n.gen = selected
        /\ n = [owner |-> o, gen |-> selected] /\ selected \in Scopes /\ selected \in Nat
    BY DEF WholeRenewal, FilesTyped, Entry, RenewalEntries, Scopes
  <1>2. /\ manifest' \in Seq(RenewalEntries) /\ Listed' = Listed \cup {n}
    BY <1>1, ListFacts DEF WholeRenewal, FilesTyped, Listed
  <1>3. n \notin Listed
    BY <1>1
  <1>4. Staged(n) = NoFile
    BY <1>1, <1>3 DEF WholeRenewal, FilesAgree, BackupsRegistered, Staged, Listed
  <1> HIDE DEF n
  <1>5. FilesTyped'
    BY <1>2 DEF WholeRenewal, FilesTyped
  <1>6. \A e : Staged(e)' = Staged(e)
    BY DEF Staged
  <1>7. ListedOnce'
    BY <1>1, <1>2 DEF WholeRenewal, FilesAgree, ListedOnce
  <1>8. BackupsRegistered'
    BY <1>2 DEF WholeRenewal, FilesAgree, BackupsRegistered, Listed
  <1>9. StagedFits'
    BY <1>1, <1>2, <1>4, <1>6 DEF WholeRenewal, FilesAgree, StagedFits
  <1>10. /\ \A e : Installs(e)' <=> Installs(e)
         /\ ~Installs(n) /\ \A p \in Owners : InPlace(p)' <=> InPlace(p)
    BY <1>2, <1>4, <1>6 DEF InPlace, Installs
  <1>11. Restorable'
    BY <1>2, <1>6, <1>10 DEF WholeRenewal, FilesAgree, Restorable
  <1>13. o # "tasks" => (TasksStaged => TasksStaged')
    BY <1>1, <1>2, <1>6 DEF TasksStaged
  <1> QED BY <1>2, <1>4, <1>5, <1>7, <1>8, <1>9, <1>11, <1>13 DEF FilesAgree, n

(* What registering and moving know of the operation.                      *)
LEMMA OwnerFacts ==
  ASSUME WholeRenewal, renewal.step \in {"register", "move"}
  PROVE  LET o == Head(renewal.toStage) IN
         /\ o \in Owners /\ canon[o] # NoFile
         /\ renewal.toStage \in {<<"notes">>, RegistrationOrder}
         /\ o = "notes" <=> renewal.toStage = <<"notes">>
         /\ o = "notes" => renewal.kind = "new" /\ TasksStaged
         /\ o = "tasks" => canon["tasks"].done
         /\ renewal.staged \in Seq(RenewalEntries) /\ renewal.kind \in {"new", "compact"}
         /\ \A e \in ToSet(renewal.staged) : e.gen = selected
         /\ renewal.kind = "compact" => \A e \in ToSet(renewal.staged) : e.owner = "tasks"
         /\ attached /\ selected <= MaxRenewals /\ renewal.mode = "none" /\ current = selected
  <1>1. renewal.toStage \in {<<"notes">>, RegistrationOrder}
        /\ renewal.staged \in Seq(RenewalEntries) /\ renewal.kind \in {"new", "compact"}
    BY DEF WholeRenewal, OperationKnows, RenewalStates, StagingKnows
  <1>3. renewal.mode = "none"
    BY DEF WholeRenewal, OperationKnows, FinishingKnows, FinishingSteps
  <1> QED BY <1>1, <1>3, Orders
          DEF WholeRenewal, OperationKnows, HandleKnows, StagingKnows, StagingSteps, Owners

(* The entry is written before the file is moved.                          *)
LEMMA RegisterFileKeeps ==
  ASSUME WholeRenewal, RegisterFile
  PROVE  WholeRenewal'
  <1> DEFINE o == Head(renewal.toStage)
             registered == Append(manifest, Entry(o))
  <1>1. renewal.step = "register"
    BY DEF filesVars, generationVars, historyVars, RegisterFile, On
  <1>2. /\ o \in Owners /\ canon[o] # NoFile
        /\ renewal.toStage \in {<<"notes">>, RegistrationOrder}
        /\ o = "notes" <=> renewal.toStage = <<"notes">>
        /\ o = "notes" => renewal.kind = "new" /\ TasksStaged
        /\ o = "tasks" => canon["tasks"].done
        /\ attached /\ selected <= MaxRenewals /\ current = selected
    BY <1>1, OwnerFacts
  <1>3. \A e \in Listed : e.owner # o
    BY <1>1 DEF WholeRenewal, OperationKnows, StagingKnows
  <1>4. UNCHANGED <<canon, backup, selected, current, attached, staging, writes, intended, adrift>>
    BY DEF filesVars, generationVars, historyVars, RegisterFile
  <1>5. \/ manifest' = registered /\ renewal' = [renewal EXCEPT !.step = "move"]
        \/ manifest' \in {manifest, registered} /\ AbortStaging
    BY DEF filesVars, generationVars, historyVars, RegisterFile
  <1>6. manifest' = registered =>
           /\ FilesTyped' /\ FilesAgree'
           /\ Listed' = Listed \cup {Entry(o)} /\ Staged(Entry(o)) = NoFile
           /\ o # "tasks" => (TasksStaged => TasksStaged')
    <2> HIDE DEF o
    <2> QED BY <1>2, <1>3, <1>4, EnteredFiles
  <1>7. manifest' = manifest =>
           /\ FilesTyped' /\ FilesAgree' /\ Listed' = Listed
    BY <1>4, FilesSame DEF WholeRenewal, FilesTyped
  <1> HIDE DEF registered
  <1>9. CASE AbortStaging
    <2>1. OperationKnows'
      BY <1>1, <1>4, <1>9, AbortKnows DEF StagingSteps
    <2> QED BY <1>5, <1>6, <1>7, <2>1 DEF WholeRenewal
  <1>10. CASE manifest' = registered /\ renewal' = [renewal EXCEPT !.step = "move"]
    <2>1. /\ renewal' \in RenewalStates /\ renewal'.step = "move" /\ renewal'.kind = renewal.kind
          /\ renewal'.toStage = renewal.toStage /\ renewal'.staged = renewal.staged
          /\ renewal'.queue = renewal.queue /\ renewal'.mode = renewal.mode
      BY <1>10 DEF WholeRenewal, OperationKnows, RenewalStates, StagingSteps
    <2>2. HandleKnows'
      BY <1>2, <1>4 DEF HandleKnows
    <2>3. /\ Entry(Head(renewal.toStage))' \in Listed'
          /\ Staged(Entry(Head(renewal.toStage)))' = NoFile
      BY <1>4, <1>6, <1>10, <2>1 DEF Entry, Staged
    <2>4. renewal.toStage # RegistrationOrder => TasksStaged'
      BY <1>2, <1>6, <1>10
    <2>5. StagingKnows'
      BY <1>1, <1>2, <1>4, <2>1, <2>3, <2>4
         DEF WholeRenewal, OperationKnows, StagingKnows, StagingSteps
    <2>6. FinishingKnows'
      BY <1>1, <2>1 DEF WholeRenewal, OperationKnows, FinishingKnows, FinishingSteps
    <2> QED BY <1>6, <1>10, <2>1, <2>2, <2>5, <2>6 DEF WholeRenewal, OperationKnows
  <1> QED BY <1>5, <1>9, <1>10

(* A file that is moved under its registered backup name.                  *)
LEMMA MovedFiles ==
  ASSUME WholeRenewal, renewal.step = "move", NEW o \in Owners, o = Head(renewal.toStage), Moved(o),
         UNCHANGED <<manifest, selected, current, writes, intended, adrift>>, staging' \subseteq Owners
  PROVE  /\ FilesTyped' /\ FilesAgree' /\ Listed' = Listed
         /\ TasksStaged'
         /\ o = "notes" => canon'["notes"] = NoFile
  <1>0. PICK n : n = Entry(o)
    OBVIOUS
  <1> DEFINE b == IF Replaces(o) THEN Prune(canon[o]) ELSE canon[o]
             c == IF Replaces(o) THEN canon[o] ELSE NoFile
  <1>1. /\ canon[o] # NoFile
        /\ renewal.toStage \in {<<"notes">>, RegistrationOrder}
        /\ o = "notes" <=> renewal.toStage = <<"notes">>
        /\ o = "notes" => renewal.kind = "new" /\ TasksStaged
        /\ o = "tasks" => canon["tasks"].done
        /\ current = selected
    BY OwnerFacts
  <1>2. n \in Listed /\ Staged(n) = NoFile
    BY <1>0 DEF WholeRenewal, OperationKnows, StagingKnows
  <1>3. /\ n.owner = o /\ n.gen = selected /\ n \in RenewalEntries
        /\ n = [owner |-> o, gen |-> selected] /\ selected \in Scopes
    BY <1>0, <1>1 DEF WholeRenewal, FilesTyped, Entry, RenewalEntries
  <1>4. canon[o] \in FileContents /\ canon \in [Owners -> FileContents]
        /\ backup \in [Owners -> [Scopes -> FileContents]]
    BY DEF WholeRenewal, FilesTyped
  <1>5. /\ b \in FileContents /\ b # NoFile /\ c \in FileContents
        /\ Replaces(o) => b = Prune(c) /\ c = canon[o]
        /\ ~Replaces(o) => b = canon[o] /\ c = NoFile
    <2>1. NoFile \in FileContents
      BY RenewalBounds DEF NoFile, FileContents
    <2>2. ASSUME Replaces(o) PROVE Prune(canon[o]) \in FileContents /\ Prune(canon[o]) # NoFile
      <3>1. canon[o].write # 0
        BY <1>1, <1>4, <2>2 DEF Replaces, FileContents
      <3> QED BY <1>4, <3>1, PruneFacts
    <2> QED BY <1>1, <1>4, <2>1, <2>2
  <1>6. /\ canon' = [canon EXCEPT ![o] = c]
        /\ backup' = [backup EXCEPT ![o][selected] = b]
    <2>1. CASE Replaces(o)
      <3>1. canon' = canon
        BY <2>1 DEF Moved
      <3> QED BY <1>1, <1>4, <2>1, <3>1 DEF Moved
    <2>2. CASE ~Replaces(o)
      BY <1>1, <2>2 DEF Moved
    <2> QED BY <2>1, <2>2
  <1> HIDE DEF b, c
  <1>7. /\ canon'[o] = c /\ \A p \in Owners : p # o => canon'[p] = canon[p]
        /\ canon' \in [Owners -> FileContents] /\ backup' \in [Owners -> [Scopes -> FileContents]]
    BY <1>3, <1>4, <1>5, <1>6
  <1>8. Listed' = Listed /\ Listed \subseteq RenewalEntries
    BY ListFacts DEF Listed, WholeRenewal, FilesTyped
  <1>9. /\ Staged(n)' = b
        /\ \A e \in Listed : e # n => e.owner # o
        /\ \A e \in Listed : e # n => Staged(e)' = Staged(e)
    <2>1. \A e \in Listed : e # n => e.owner # o
      BY <1>2, <1>3 DEF WholeRenewal, FilesAgree, ListedOnce
    <2>2. Staged(n)' = b
      BY <1>3, <1>4, <1>6 DEF Staged
    <2>3. ASSUME NEW e \in Listed, e # n PROVE Staged(e)' = Staged(e)
      BY <1>3, <1>4, <1>6, <1>8, <2>1, <2>3 DEF Staged, RenewalEntries
    <2> QED BY <2>1, <2>2, <2>3
  <1>10. FilesTyped'
    BY <1>7 DEF WholeRenewal, FilesTyped
  <1>11. ListedOnce'
    BY <1>8 DEF WholeRenewal, FilesAgree, ListedOnce
  <1>12. BackupsRegistered'
    <2> SUFFICES ASSUME NEW p \in Owners, NEW g \in Scopes, backup'[p][g] # NoFile
                 PROVE  [owner |-> p, gen |-> g] \in Listed
      BY <1>8 DEF BackupsRegistered, Listed
    <2>1. CASE p = o /\ g = selected
      BY <1>2, <1>3, <2>1
    <2>2. CASE ~(p = o /\ g = selected)
      <3>1. backup'[p][g] = backup[p][g]
        BY <1>4, <1>6, <2>2
      <3> QED BY <3>1 DEF WholeRenewal, FilesAgree, BackupsRegistered, Listed
    <2> QED BY <2>1, <2>2
  <1>13. StagedFits'
    <2> SUFFICES ASSUME NEW e \in Listed, Replaces(e.owner), e.gen = selected, Staged(e)' # NoFile
                 PROVE  Staged(e)' = Prune(canon'[e.owner])
      BY <1>8 DEF StagedFits, Prune, Replaces
    <2>1. CASE e = n
      BY <1>3, <1>5, <1>7, <1>9, <2>1
    <2>2. CASE e # n
      BY <1>7, <1>8, <1>9, <2>2 DEF WholeRenewal, FilesAgree, StagedFits, RenewalEntries
    <2> QED BY <2>1, <2>2
  <1>14. o \notin adrift => canon[o] = intended[o]
    BY <1>2, <1>9 DEF WholeRenewal, FilesAgree, Restorable, InPlace, Installs
  <1>15. Restorable'
    <2> SUFFICES ASSUME NEW p \in Owners \ adrift
                 PROVE  /\ InPlace(p)' => canon'[p] = intended[p]
                        /\ \A e \in Listed : e.owner = p /\ Installs(e)' => intended[p] = Staged(e)'
      BY <1>8 DEF Restorable
    <2>1. CASE p = o
      <3>1. \A e \in Listed : e.owner = p => e = n
        BY <1>9, <2>1
      <3>2. Installs(n)' <=> ~Replaces(o)
        BY <1>3, <1>5, <1>7, <1>9 DEF Installs, Replaces
      <3>3. intended[p] = IF Replaces(p) THEN canon'[p] ELSE b
        BY <1>5, <1>7, <1>14, <2>1
      <3> QED BY <1>2, <1>3, <1>8, <1>9, <2>1, <3>1, <3>2, <3>3 DEF InPlace
    <2>2. CASE p # o
      <3>1. \A e \in Listed : e.owner = p => Staged(e)' = Staged(e) /\ (Installs(e)' <=> Installs(e))
        BY <1>3, <1>7, <1>9, <2>2 DEF Installs, Replaces
      <3>2. InPlace(p)' <=> InPlace(p)
        BY <1>8, <3>1 DEF InPlace
      <3> QED BY <1>7, <2>2, <3>1, <3>2 DEF WholeRenewal, FilesAgree, Restorable
    <2> QED BY <2>1, <2>2
  <1>16. TasksStaged'
    <2>1. CASE o = "tasks"
      BY <1>2, <1>3, <1>5, <1>8, <1>9, <2>1 DEF TasksStaged
    <2>2. CASE o = "notes"
      <3>1. canon'["tasks"] = canon["tasks"]
        BY <1>7, <2>2 DEF Owners
      <3>2. \A e \in Listed : e.owner = "tasks" => Staged(e)' = Staged(e)
        BY <1>3, <1>9, <2>2
      <3> QED BY <1>1, <1>8, <2>2, <3>1, <3>2 DEF TasksStaged
    <2> QED BY <2>1, <2>2 DEF Owners
  <1>17. o = "notes" => canon'["notes"] = NoFile
    BY <1>5, <1>7 DEF Replaces
  <1> QED BY <1>8, <1>10, <1>11, <1>12, <1>13, <1>15, <1>16, <1>17 DEF FilesAgree

(* The file is moved; one that cannot be moved ends the staging, and notes *)
(* whose rename is not undone stay under their backup name.                *)
LEMMA MoveFileKeeps ==
  ASSUME WholeRenewal, MoveFile
  PROVE  WholeRenewal'
  <1>0. PICK o : o = Head(renewal.toStage)
    OBVIOUS
  <1>1. renewal.step = "move"
    BY DEF filesVars, generationVars, historyVars, MoveFile, On
  <1>2. /\ o \in Owners
        /\ renewal.toStage \in {<<"notes">>, RegistrationOrder}
        /\ o = "notes" <=> renewal.toStage = <<"notes">>
        /\ o = "notes" => renewal.kind = "new"
        /\ renewal.staged \in Seq(RenewalEntries) /\ renewal.kind \in {"new", "compact"}
        /\ \A e \in ToSet(renewal.staged) : e.gen = selected
        /\ renewal.kind = "compact" => \A e \in ToSet(renewal.staged) : e.owner = "tasks"
        /\ current = selected
    BY <1>0, <1>1, OwnerFacts
  <1>3. UNCHANGED <<manifest, selected, current, attached, writes, intended, adrift>>
    BY DEF filesVars, generationVars, historyVars, MoveFile
  <1>4. \/ Moved(o) /\ staging' = staging \cup {o} /\ NextToStage(Append(renewal.staged, Entry(o)))
        \/ UNCHANGED <<canon, backup, staging>> /\ AbortStaging
        \/ Moved(o) /\ UNCHANGED staging /\ AbortStaging
    BY <1>0 DEF MoveFile
  <1>5. staging \subseteq Owners
    BY DEF WholeRenewal, FilesTyped
  <1>6. Moved(o) /\ staging' \subseteq Owners =>
           /\ FilesTyped' /\ FilesAgree' /\ Listed' = Listed
           /\ TasksStaged'
           /\ o = "notes" => canon'["notes"] = NoFile
    BY <1>0, <1>1, <1>2, <1>3, MovedFiles
  <1>7. CASE Moved(o) /\ staging' = staging \cup {o}
             /\ NextToStage(Append(renewal.staged, Entry(o)))
    <2>1. Entry(o) \in RenewalEntries /\ Entry(o).gen = selected /\ Entry(o).owner = o
      BY <1>2 DEF Entry, RenewalEntries, WholeRenewal, FilesTyped
    <2>2. PICK n : n = Entry(o)
      OBVIOUS
    <2>3. PICK st : st = Append(renewal.staged, n)
      OBVIOUS
    <2>4. st \in Seq(RenewalEntries) /\ ToSet(st) = ToSet(renewal.staged) \cup {n}
      BY <1>2, <2>1, <2>2, <2>3, ListFacts
    <2>5. NextToStage(st)
      BY <1>7, <2>2, <2>3
    <2>6. /\ \A e \in ToSet(st) : e.gen = selected
          /\ renewal.kind = "compact" => \A e \in ToSet(st) : e.owner = "tasks"
      BY <1>2, <2>1, <2>2, <2>4 DEF Owners
    <2>7. /\ TasksStaged' /\ Listed' = Listed
          /\ renewal.toStage = <<"notes">> /\ renewal.kind = "new" => canon'["notes"] = NoFile
      BY <1>2, <1>5, <1>6, <1>7, <2>2, <2>4
    <2>8. OperationKnows'
      BY <1>1, <1>3, <2>4, <2>5, <2>6, <2>7, NextKnows
    <2> QED BY <1>2, <1>5, <1>6, <1>7, <2>8 DEF WholeRenewal
  <1>8. CASE UNCHANGED <<canon, backup, staging>> /\ AbortStaging
    <2>1. /\ FilesTyped' /\ FilesAgree' /\ Listed' = Listed
      BY <1>3, <1>5, <1>8, FilesSame
    <2>2. OperationKnows'
      BY <1>1, <1>2, <1>3, <1>8, <2>1, AbortKnows DEF StagingSteps
    <2> QED BY <2>1, <2>2 DEF WholeRenewal
  <1>9. CASE Moved(o) /\ UNCHANGED staging /\ AbortStaging
    <2>2. OperationKnows'
      BY <1>1, <1>3, <1>9, AbortKnows DEF StagingSteps
    <2> QED BY <1>5, <1>6, <1>9, <2>2 DEF WholeRenewal
  <1> QED BY <1>4, <1>7, <1>8, <1>9

(* The next Generation is selected: what was staged for the old one is now *)
(* what the owners mean, nothing is staged for the new one, and notes that *)
(* are still under a backup name are adrift.                               *)
LEMMA CommittedFiles ==
  ASSUME WholeRenewal, renewal.step = "commit", selected' = selected + 1,
         intended' = [o \in Owners |-> IF Replaces(o) THEN Prune(intended[o])
                                      ELSE IF renewal.kind = "new" THEN NoFile ELSE intended[o]],
         current' = selected + 1, adrift' = adrift \cup LeftBehind,
         UNCHANGED <<canon, backup, manifest, staging, writes>>
  PROVE  /\ FilesTyped' /\ FilesAgree' /\ Listed' = Listed
         /\ \A e \in Listed : e.gen # selected'
  <1>1. /\ Listed' = Listed /\ \A e : Staged(e)' = Staged(e)
    BY DEF Listed, Staged
  <1>2. /\ selected \in Nat /\ selected <= MaxRenewals /\ selected' \in Scopes
        /\ renewal.toStage # RegistrationOrder /\ renewal.kind \in {"new", "compact"}
        /\ renewal.kind = "new" => canon["notes"] = NoFile
        /\ renewal.kind = "compact" => \A e \in ToSet(renewal.staged) : e.owner = "tasks"
        /\ TasksStaged
    BY RenewalBounds, Orders
       DEF WholeRenewal, FilesTyped, OperationKnows, StagingKnows, StagingSteps, Scopes, RenewalStates
  <1>3. /\ intended["tasks"] \in FileContents /\ intended["notes"] \in FileContents
        /\ canon["tasks"] \in FileContents /\ canon["notes"] \in FileContents
        /\ "tasks" \in Owners /\ "notes" \in Owners /\ NoFile \in FileContents
    BY RenewalBounds DEF WholeRenewal, FilesTyped, Owners, NoFile, FileContents
  <1>4. /\ intended'["tasks"] = Prune(intended["tasks"])
        /\ intended'["notes"] = IF renewal.kind = "new" THEN NoFile ELSE intended["notes"]
    <2> DEFINE g(o) == IF Replaces(o) THEN Prune(intended[o])
                       ELSE IF renewal.kind = "new" THEN NoFile ELSE intended[o]
    <2>1. intended' = [o \in Owners |-> g(o)]
      OBVIOUS
    <2>2. g("tasks") = Prune(intended["tasks"])
      BY DEF Replaces
    <2>3. g("notes") = IF renewal.kind = "new" THEN NoFile ELSE intended["notes"]
      BY DEF Replaces
    <2> HIDE DEF g
    <2> QED BY <1>3, <2>1, <2>2, <2>3
  <1>5. intended' \in [Owners -> FileContents]
    <2> DEFINE g(o) == IF Replaces(o) THEN Prune(intended[o])
                       ELSE IF renewal.kind = "new" THEN NoFile ELSE intended[o]
    <2>1. intended' = [o \in Owners |-> g(o)]
      OBVIOUS
    <2>2. Prune(intended["tasks"]) \in FileContents
      BY <1>3, PruneFacts
    <2>3. ASSUME NEW o \in Owners PROVE g(o) \in FileContents
      BY <1>3, <2>2 DEF Owners, Replaces
    <2> HIDE DEF g
    <2> QED BY <2>1, <2>3
  <1>6. FilesTyped'
    BY <1>2, <1>5 DEF WholeRenewal, FilesTyped, LeftBehind
  <1>7. \A e \in Listed : e \in RenewalEntries /\ e.gen <= selected
    BY ListFacts DEF WholeRenewal, FilesTyped, FilesAgree, ListedOnce, Listed
  <1>8. \A e \in Listed : e.gen # selected' /\ e.gen <= selected'
    BY <1>2, <1>7 DEF RenewalEntries, Scopes
  <1>9. ListedOnce' /\ BackupsRegistered' /\ StagedFits'
    BY <1>1, <1>8 DEF WholeRenewal, FilesAgree, ListedOnce, BackupsRegistered, Listed, StagedFits
  <1>10. ASSUME "notes" \notin adrift' PROVE canon["notes"] = intended'["notes"]
    <2>1. CASE renewal.kind = "new"
      BY <1>2, <1>4, <2>1
    <2>2. CASE renewal.kind = "compact"
      <3>1. ASSUME NEW e \in Listed, e.owner = "notes" PROVE ~Installs(e)
        <4>1. e \notin ToSet(renewal.staged)
          BY <1>2, <2>2, <3>1
        <4>2. e \in EntriesOf("notes")
          BY <3>1 DEF EntriesOf, Listed
        <4> QED BY <1>3, <1>10, <4>1, <4>2 DEF LeftBehind
      <3>2. intended["notes"] = canon["notes"]
        BY <1>3, <1>10, <3>1 DEF WholeRenewal, FilesAgree, Restorable, InPlace
      <3> QED BY <1>4, <2>2, <3>2
    <2> QED BY <1>2, <2>1, <2>2
  <1>12. ASSUME "tasks" \notin adrift', NEW e \in Listed, e.owner = "tasks", Staged(e) # NoFile
         PROVE  intended'["tasks"] = Staged(e)
    <2>1. e.gen = selected
      BY <1>2, <1>12 DEF WholeRenewal, FilesAgree, ListedOnce, TasksStaged
    <2>2. Staged(e) = Prune(canon["tasks"])
      BY <1>12, <2>1 DEF WholeRenewal, FilesAgree, StagedFits, Replaces
    <2>3. InPlace("tasks")
      BY <1>12, <2>1 DEF WholeRenewal, FilesAgree, ListedOnce, InPlace, Installs, Replaces
    <2>4. intended["tasks"] = canon["tasks"]
      BY <1>3, <1>12, <2>3 DEF WholeRenewal, FilesAgree, Restorable
    <2> QED BY <1>4, <2>2, <2>4
  <1>13. ASSUME "tasks" \notin adrift', \A e \in Listed : e.owner = "tasks" => Staged(e) = NoFile
         PROVE  intended'["tasks"] = canon["tasks"]
    <2>1. intended["tasks"] = canon["tasks"]
      BY <1>3, <1>13 DEF WholeRenewal, FilesAgree, Restorable, InPlace, Installs
    <2>2. ~canon["tasks"].done
      BY <1>2, <1>13 DEF TasksStaged
    <2>3. Prune(canon["tasks"]) = canon["tasks"]
      BY <1>3, <2>2, PruneFacts
    <2> QED BY <1>4, <2>1, <2>3
  <1>14. Restorable'
    <2> SUFFICES ASSUME NEW o \in Owners \ adrift'
                 PROVE  /\ InPlace(o)' => canon[o] = intended'[o]
                        /\ \A e \in Listed : e.owner = o /\ Installs(e)' => intended'[o] = Staged(e)
      BY <1>1 DEF Restorable
    <2>1. \A e \in Listed : Installs(e)' <=> Replaces(e.owner) /\ Staged(e) # NoFile
      BY <1>1, <1>8 DEF Installs, Replaces
    <2>2. CASE o = "notes"
      BY <1>10, <2>1, <2>2 DEF Replaces
    <2>3. CASE o = "tasks"
      <3>1. InPlace("tasks")' => \A e \in Listed : e.owner = "tasks" => Staged(e) = NoFile
        BY <1>1, <2>1 DEF InPlace, Replaces
      <3> QED BY <1>12, <1>13, <2>1, <2>3, <3>1
    <2> QED BY <2>2, <2>3 DEF Owners
  <1> QED BY <1>1, <1>6, <1>8, <1>9, <1>14 DEF FilesAgree

(* thread.json selects the next Generation, or the staging ends.  A        *)
(* thread.json that is replaced without being synchronized leaves the      *)
(* files to no Generation.                                                 *)
LEMMA CommitKeeps ==
  ASSUME WholeRenewal, CommitGeneration
  PROVE  WholeRenewal' \/ adrift' = Owners
  <1>1. renewal.step = "commit"
    BY DEF CommitGeneration, On
  <1>2. UNCHANGED <<canon, backup, manifest, attached, staging, writes>>
    BY DEF filesVars, CommitGeneration
  <1>3. renewal.staged \in Seq(RenewalEntries)
        /\ \A e \in ToSet(renewal.staged) : e.gen = selected
        /\ selected \in Nat
    BY <1>1 DEF WholeRenewal, OperationKnows, RenewalStates, StagingKnows, StagingSteps, FilesTyped, Scopes
  <1>4. CASE /\ selected' = selected + 1 /\ current' = selected + 1
             /\ intended' = [o \in Owners |-> IF Replaces(o) THEN Prune(intended[o])
                                             ELSE IF renewal.kind = "new" THEN NoFile ELSE intended[o]]
             /\ adrift' = adrift \cup LeftBehind
             /\ renewal' = FinishAll("finalize", renewal.staged)
    <2>1. /\ FilesTyped' /\ FilesAgree' /\ Listed' = Listed
      BY <1>1, <1>2, <1>4, CommittedFiles
    <2>2. OperationKnows'
      BY <1>3, <1>4, FinishAllKnows
    <2> QED BY <2>1, <2>2 DEF WholeRenewal
  <1>5. CASE AbortStaging /\ UNCHANGED <<selected, current, intended, adrift>>
    <2>1. /\ FilesTyped' /\ FilesAgree' /\ Listed' = Listed
      BY <1>2, <1>5, FilesSame DEF WholeRenewal, FilesTyped
    <2>2. OperationKnows'
      BY <1>1, <1>5, AbortKnows DEF StagingSteps
    <2> QED BY <2>1, <2>2 DEF WholeRenewal
  <1>6. CASE adrift' = Owners
    BY <1>6
  <1> QED BY <1>4, <1>5, <1>6 DEF CommitGeneration

-----------------------------------------------------------------------------
(* The steps of a context renewal: finishing *)

(* What a step that finishes an entry knows: the entry goes back exactly   *)
(* when its Generation is the current one.                                 *)
LEMMA FinishFacts ==
  ASSUME WholeRenewal, renewal.step \in FinishingSteps
  PROVE  /\ InHand \in RenewalEntries /\ InHand \in ToSet(renewal.queue)
         /\ renewal.queue \in Seq(RenewalEntries) /\ renewal.queue # <<>>
         /\ renewal.mode \in RenewalModes
         /\ Restores <=> InHand.gen = selected
         /\ Staged(InHand) # NoFile => InHand \in Listed
         /\ renewal.mode = "restage" => InHand.owner = "notes"
  <1>1. renewal.mode # "none" /\ renewal.queue # <<>> /\ renewal.queue \in Seq(RenewalEntries)
        /\ renewal.mode \in RenewalModes
    BY DEF WholeRenewal, OperationKnows, FinishingKnows, RenewalStates
  <1>2. InHand \in RenewalEntries /\ InHand \in ToSet(renewal.queue)
    BY <1>1, ListFacts DEF InHand
  <1>3. Restores <=> InHand.gen = selected
    BY <1>1, <1>2 DEF WholeRenewal, OperationKnows, HandleKnows, StagingKnows, FinishingKnows,
                      Restores, RenewalModes
  <1>4. ASSUME Staged(InHand) # NoFile PROVE InHand \in Listed
    <2>1. InHand = [owner |-> InHand.owner, gen |-> InHand.gen]
          /\ InHand.owner \in Owners /\ InHand.gen \in Scopes
      BY <1>2 DEF RenewalEntries
    <2> QED BY <1>4, <2>1 DEF WholeRenewal, FilesAgree, BackupsRegistered, Listed, Staged
  <1>5. renewal.mode = "restage" => InHand.owner = "notes"
    BY <1>2 DEF WholeRenewal, OperationKnows, FinishingKnows
  <1> QED BY <1>1, <1>2, <1>3, <1>4, <1>5

(* A file that comes back, or goes, from under its backup name: each owner *)
(* keeps what it means.                                                    *)
LEMMA DoneFiles ==
  ASSUME WholeRenewal, renewal.step \in FinishingSteps, NEW h, h = InHand,
         UNCHANGED <<manifest, selected, current, writes, intended, adrift>>, staging' \subseteq Owners,
         NEW c \in FileContents, NEW b \in FileContents,
         canon' = [canon EXCEPT ![h.owner] = c],
         backup' = [backup EXCEPT ![h.owner][h.gen] = b],
         h \in Listed, b \in {NoFile, Staged(h)},
         h.owner \notin adrift => c = intended[h.owner],
         b # NoFile => Replaces(h.owner) /\ h.gen # selected /\ b = c
  PROVE  /\ FilesTyped' /\ FilesAgree' /\ Listed' = Listed
         /\ Staged(h)' = b
         /\ h.owner = "notes" => (TasksStaged => TasksStaged')
  <1>1. /\ h \in RenewalEntries /\ h.owner \in Owners /\ h.gen \in Scopes
        /\ h = [owner |-> h.owner, gen |-> h.gen]
    BY FinishFacts DEF RenewalEntries
  <1>2. canon \in [Owners -> FileContents] /\ backup \in [Owners -> [Scopes -> FileContents]]
    BY DEF WholeRenewal, FilesTyped
  <1>3. /\ canon'[h.owner] = c /\ \A p \in Owners : p # h.owner => canon'[p] = canon[p]
        /\ canon' \in [Owners -> FileContents] /\ backup' \in [Owners -> [Scopes -> FileContents]]
    BY <1>1, <1>2
  <1>4. Listed' = Listed /\ Listed \subseteq RenewalEntries
    BY ListFacts DEF Listed, WholeRenewal, FilesTyped
  <1>5. \A e \in Listed : e # h => e.owner # h.owner
    BY DEF WholeRenewal, FilesAgree, ListedOnce
  <1>6. Staged(h)' = b
    BY <1>1, <1>2 DEF Staged
  <1>7. ASSUME NEW e \in Listed, e # h PROVE Staged(e)' = Staged(e)
    BY <1>1, <1>2, <1>4, <1>5, <1>7 DEF Staged, RenewalEntries
  <1>8. FilesTyped'
    BY <1>3 DEF WholeRenewal, FilesTyped
  <1>9. ListedOnce'
    BY <1>4 DEF WholeRenewal, FilesAgree, ListedOnce
  <1>10. BackupsRegistered'
    <2> SUFFICES ASSUME NEW p \in Owners, NEW g \in Scopes, backup'[p][g] # NoFile
                 PROVE  [owner |-> p, gen |-> g] \in Listed
      BY <1>4 DEF BackupsRegistered, Listed
    <2>1. CASE p = h.owner /\ g = h.gen
      BY <1>1, <2>1
    <2>2. CASE ~(p = h.owner /\ g = h.gen)
      <3>1. backup'[p][g] = backup[p][g]
        BY <1>1, <1>2, <2>2
      <3> QED BY <3>1 DEF WholeRenewal, FilesAgree, BackupsRegistered, Listed
    <2> QED BY <2>1, <2>2
  <1>11. StagedFits'
    <2> SUFFICES ASSUME NEW e \in Listed, Replaces(e.owner), e.gen = selected, Staged(e)' # NoFile
                 PROVE  Staged(e)' = Prune(canon'[e.owner])
      BY <1>4 DEF StagedFits, Prune, Replaces
    <2>1. e # h
      BY <1>6
    <2> QED BY <1>3, <1>4, <1>5, <1>7, <2>1 DEF WholeRenewal, FilesAgree, StagedFits, RenewalEntries
  <1>12. Restorable'
    <2> SUFFICES ASSUME NEW p \in Owners \ adrift
                 PROVE  /\ InPlace(p)' => canon'[p] = intended[p]
                        /\ \A e \in Listed : e.owner = p /\ Installs(e)' => intended[p] = Staged(e)'
      BY <1>4 DEF Restorable
    <2>1. CASE p = h.owner
      <3>1. \A e \in Listed : e.owner = p => e = h
        BY <1>5, <2>1
      <3>2. c = intended[p] /\ (Installs(h)' => b # NoFile)
        BY <1>6, <2>1 DEF Installs
      <3> QED BY <1>3, <1>6, <2>1, <3>1, <3>2
    <2>2. CASE p # h.owner
      <3>1. \A e \in Listed : e.owner = p => Staged(e)' = Staged(e) /\ (Installs(e)' <=> Installs(e))
        BY <1>3, <1>7, <2>2 DEF Installs, Replaces
      <3>2. InPlace(p)' <=> InPlace(p)
        BY <1>4, <3>1 DEF InPlace
      <3> QED BY <1>3, <2>2, <3>1, <3>2 DEF WholeRenewal, FilesAgree, Restorable
    <2> QED BY <2>1, <2>2
  <1>14. h.owner = "notes" => (TasksStaged => TasksStaged')
    <2> SUFFICES ASSUME h.owner = "notes", TasksStaged PROVE TasksStaged'
      OBVIOUS
    <2>1. canon'["tasks"] = canon["tasks"]
      BY <1>3 DEF Owners
    <2>2. \A e \in Listed : e.owner = "tasks" => Staged(e)' = Staged(e)
      BY <1>7
    <2> QED BY <1>4, <2>1, <2>2 DEF TasksStaged
  <1> QED BY <1>4, <1>6, <1>8, <1>9, <1>10, <1>11, <1>12, <1>14 DEF FilesAgree

(* The file is installed, restored or dropped.                             *)
LEMMA FinishedFiles ==
  ASSUME WholeRenewal, renewal.step = "finish", NEW h, h = InHand, Staged(h) # NoFile,
         ~Conflict, FileDone,
         UNCHANGED <<manifest, selected, current, writes, intended, adrift>>, staging' \subseteq Owners
  PROVE  /\ FilesTyped' /\ FilesAgree' /\ Listed' = Listed
         /\ h.owner = "notes" => (TasksStaged => TasksStaged')
         /\ IF Replaces(h.owner) /\ ~Restores THEN canon'[h.owner] = Staged(h)'
            ELSE Staged(h)' = NoFile
  <1>1. /\ h \in RenewalEntries /\ h.owner \in Owners /\ h.gen \in Scopes /\ h \in Listed
        /\ Restores <=> h.gen = selected
    BY FinishFacts DEF FinishingSteps, RenewalEntries
  <1>2. canon \in [Owners -> FileContents] /\ backup \in [Owners -> [Scopes -> FileContents]]
        /\ NoFile \in FileContents
    BY RenewalBounds DEF WholeRenewal, FilesTyped, NoFile, FileContents
  <1>3. /\ h.owner \notin adrift /\ Installs(h) => intended[h.owner] = Staged(h)
        /\ h.owner \notin adrift /\ ~Installs(h) => intended[h.owner] = canon[h.owner]
    BY <1>1 DEF WholeRenewal, FilesAgree, ListedOnce, Restorable, InPlace
  <1>4. Replaces(h.owner) \in BOOLEAN
    BY DEF Replaces
  <1>5. Staged(h) \in FileContents /\ Staged(h) = backup[h.owner][h.gen]
    BY <1>1, <1>2 DEF Staged
  <1>6. CASE Replaces(h.owner) /\ ~Restores
    <2>0. Installs(h)
      BY <1>1, <1>6 DEF Installs
    <2>1. canon' = [canon EXCEPT ![h.owner] = Staged(h)] /\ backup' = backup
      BY <1>6 DEF FileDone
    <2>2. backup' = [backup EXCEPT ![h.owner][h.gen] = Staged(h)]
      BY <1>1, <1>2, <1>5, <2>1
    <2>3. PICK c : c = Staged(h)
      OBVIOUS
    <2>4. /\ FilesTyped' /\ FilesAgree' /\ Listed' = Listed /\ Staged(h)' = c
          /\ h.owner = "notes" => (TasksStaged => TasksStaged')
      BY <1>1, <1>3, <1>4, <1>5, <1>6, <2>0, <2>1, <2>2, <2>3, DoneFiles DEF FinishingSteps
    <2> QED BY <1>1, <1>2, <1>6, <2>1, <2>3, <2>4
  <1>7. CASE ~Replaces(h.owner) /\ Restores
    <2>0. Installs(h)
      BY <1>1, <1>7 DEF Installs, Conflict
    <2>1. canon' = [canon EXCEPT ![h.owner] = Staged(h)]
          /\ backup' = [backup EXCEPT ![h.owner][h.gen] = NoFile]
      BY <1>7 DEF FileDone, DropBackup
    <2>2. PICK c : c = Staged(h)
      OBVIOUS
    <2>3. /\ FilesTyped' /\ FilesAgree' /\ Listed' = Listed /\ Staged(h)' = NoFile
          /\ h.owner = "notes" => (TasksStaged => TasksStaged')
      BY <1>1, <1>2, <1>3, <1>4, <1>5, <1>7, <2>0, <2>1, <2>2, DoneFiles DEF FinishingSteps
    <2> QED BY <1>7, <2>3
  <1>8. CASE Replaces(h.owner) <=> Restores
    <2>1. canon' = canon /\ backup' = [backup EXCEPT ![h.owner][h.gen] = NoFile]
      BY <1>8 DEF FileDone, DropBackup
    <2>2. PICK c : c = canon[h.owner]
      OBVIOUS
    <2>3. canon' = [canon EXCEPT ![h.owner] = c]
      BY <1>2, <2>1, <2>2
    <2>4. (h.owner \notin adrift => c = intended[h.owner]) /\ c \in FileContents
      BY <1>1, <1>2, <1>3, <1>4, <1>8, <2>2 DEF Installs
    <2>5. /\ FilesTyped' /\ FilesAgree' /\ Listed' = Listed /\ Staged(h)' = NoFile
          /\ h.owner = "notes" => (TasksStaged => TasksStaged')
      <3>1. PICK b : b = NoFile
        OBVIOUS
      <3>2. backup' = [backup EXCEPT ![h.owner][h.gen] = b]
        BY <2>1, <3>1
      <3> QED BY <1>1, <1>2, <2>3, <2>4, <3>1, <3>2, DoneFiles DEF FinishingSteps
    <2> QED BY <1>8, <2>5
  <1> QED BY <1>4, <1>6, <1>7, <1>8

(* The backup of an installed replacement goes.                            *)
LEMMA DroppedFiles ==
  ASSUME WholeRenewal, renewal.step = "remove", NEW h, h = InHand, DropBackup,
         UNCHANGED <<canon, manifest, selected, current, writes, intended, adrift>>, staging' \subseteq Owners
  PROVE  /\ FilesTyped' /\ FilesAgree' /\ Listed' = Listed /\ Staged(h)' = NoFile
  <1>1. /\ h \in RenewalEntries /\ h.owner \in Owners /\ h.gen \in Scopes
        /\ Restores <=> h.gen = selected
        /\ Staged(h) # NoFile => h \in Listed
    BY FinishFacts DEF FinishingSteps, RenewalEntries
  <1>2. canon \in [Owners -> FileContents] /\ backup \in [Owners -> [Scopes -> FileContents]]
        /\ NoFile \in FileContents
    BY RenewalBounds DEF WholeRenewal, FilesTyped, NoFile, FileContents
  <1>3. Replaces(h.owner) /\ ~Restores /\ canon[h.owner] = Staged(h)
    BY DEF WholeRenewal, OperationKnows, FinishingKnows
  <1>4. backup' = [backup EXCEPT ![h.owner][h.gen] = NoFile]
    BY DEF DropBackup
  <1>5. CASE Staged(h) # NoFile
    <2>1. PICK c : c = canon[h.owner]
      OBVIOUS
    <2>2. canon' = [canon EXCEPT ![h.owner] = c]
      BY <1>2, <2>1
    <2>3. (h.owner \notin adrift => c = intended[h.owner]) /\ c \in FileContents
      BY <1>1, <1>2, <1>3, <1>5, <2>1 DEF WholeRenewal, FilesAgree, Restorable, Installs
    <2>4. PICK b : b = NoFile
      OBVIOUS
    <2>5. backup' = [backup EXCEPT ![h.owner][h.gen] = b]
      BY <1>4, <2>4
    <2>6. /\ renewal.step \in FinishingSteps /\ h \in Listed /\ b \in {NoFile, Staged(h)}
          /\ b \in FileContents
      BY <1>1, <1>2, <1>5, <2>4 DEF FinishingSteps
    <2>7. /\ FilesTyped' /\ FilesAgree' /\ Listed' = Listed /\ Staged(h)' = b
      BY <2>2, <2>3, <2>4, <2>5, <2>6, DoneFiles
    <2> QED BY <2>4, <2>7
  <1>6. CASE Staged(h) = NoFile
    <2>1. backup' = backup
      BY <1>1, <1>2, <1>4, <1>6 DEF Staged
    <2> QED BY <1>6, <2>1, FilesSame DEF Staged
  <1> QED BY <1>5, <1>6

(* An entry without a backup leaves the manifest, or stays.                *)
LEMMA UnregisteredFiles ==
  ASSUME WholeRenewal, NEW h, Staged(h) = NoFile, manifest' \in {manifest, WithoutEntry(h)},
         UNCHANGED <<canon, backup, selected, current, writes, intended, adrift>>, staging' \subseteq Owners
  PROVE  /\ FilesTyped' /\ FilesAgree'
         /\ h.owner = "notes" => (TasksStaged => TasksStaged')
  <1>1. /\ manifest' \in Seq(RenewalEntries) /\ Listed' \subseteq Listed
        /\ \A f \in Listed : f = h \/ f \in Listed'
    BY WithoutFacts DEF WholeRenewal, FilesTyped, Listed
  <1>2. \A e : Staged(e)' = Staged(e)
    BY DEF Staged
  <1>3. FilesTyped'
    BY <1>1 DEF WholeRenewal, FilesTyped
  <1>4. ListedOnce' /\ StagedFits'
    BY <1>1, <1>2 DEF WholeRenewal, FilesAgree, ListedOnce, StagedFits, Prune
  <1>5. BackupsRegistered'
    <2> SUFFICES ASSUME NEW p \in Owners, NEW g \in Scopes, backup[p][g] # NoFile
                 PROVE  [owner |-> p, gen |-> g] \in Listed'
      BY DEF BackupsRegistered, Listed
    <2>1. [owner |-> p, gen |-> g] \in Listed
      BY DEF WholeRenewal, FilesAgree, BackupsRegistered, Listed
    <2>2. [owner |-> p, gen |-> g] # h
      BY DEF Staged
    <2> QED BY <1>1, <2>1, <2>2
  <1>6. /\ \A e : Installs(e)' <=> Installs(e)
        /\ \A p : InPlace(p)' <=> InPlace(p)
    BY <1>1, <1>2 DEF InPlace, Installs
  <1>7. Restorable'
    BY <1>1, <1>2, <1>6 DEF WholeRenewal, FilesAgree, Restorable
  <1>9. h.owner = "notes" => (TasksStaged => TasksStaged')
    BY <1>1, <1>2 DEF TasksStaged
  <1> QED BY <1>3, <1>4, <1>5, <1>7, <1>9 DEF FilesAgree

(* What an error ends.                                                     *)
LEMMA FailedKnows ==
  ASSUME WholeRenewal, NEW step \in FinishingSteps, Finishing(step), FinishFailed,
         UNCHANGED <<selected, current, attached>>
  PROVE  OperationKnows' /\ staging' \subseteq Owners
  <1>1. /\ renewal.queue \in Seq(RenewalEntries) /\ renewal.queue # <<>>
        /\ renewal.mode \in RenewalModes /\ current' = selected'
    BY FinishFacts DEF Finishing, WholeRenewal, OperationKnows, HandleKnows
  <1>2. staging' \subseteq Owners
    BY DEF FinishFailed, Released, WholeRenewal, FilesTyped
  <1>3. CASE renewal.mode \in {"finalize", "rollback"}
    <2>1. renewal' = FinishAll(renewal.mode, Tail(renewal.queue))
      BY <1>3 DEF FinishFailed
    <2>2. PICK q : q = Tail(renewal.queue)
      OBVIOUS
    <2>3. q \in Seq(RenewalEntries) /\ ToSet(q) \subseteq ToSet(renewal.queue)
      BY <1>1, <2>2, ListFacts
    <2>4. /\ renewal.mode = "finalize" => \A e \in ToSet(q) : e.gen # selected'
          /\ renewal.mode = "rollback" => \A e \in ToSet(q) : e.gen = selected'
      BY <1>3, <2>3 DEF WholeRenewal, OperationKnows, FinishingKnows
    <2>5. OperationKnows'
      BY <1>1, <1>3, <2>1, <2>2, <2>3, <2>4, FinishAllKnows
    <2> QED BY <1>2, <2>5
  <1>4. CASE renewal.mode = "restage"
    <2>1. AbortStaging
      BY <1>4 DEF FinishFailed
    <2> QED BY <1>1, <1>2, <1>4, <2>1, AbortKnows
  <1>5. CASE renewal.mode = "recover"
    <2>1. renewal' = Resting /\ ~attached'
      BY <1>5 DEF FinishFailed, WholeRenewal, OperationKnows, FinishingKnows
    <2>2. renewal' = FinishAll("recover", <<>>) /\ <<>> \in Seq(RenewalEntries)
      BY <2>1 DEF FinishAll
    <2>3. /\ renewal' \in RenewalStates /\ renewal'.step = "idle" /\ renewal'.mode = "none"
          /\ renewal'.toStage = <<>>
      BY <2>2, FinishAllFields DEF RenewalModes
    <2>4. HandleKnows' /\ StagingKnows' /\ FinishingKnows'
      BY <2>1, <2>3 DEF HandleKnows, StagingKnows, StagingSteps, FinishingKnows, FinishingSteps
    <2> QED BY <1>2, <2>3, <2>4 DEF OperationKnows
  <1> QED BY <1>1, <1>3, <1>4, <1>5 DEF RenewalModes

(* The entry in hand goes on to its next step.                             *)
LEMMA GoOnKnows ==
  ASSUME WholeRenewal, renewal.step \in {"finish", "remove"}, NEW next \in {"remove", "unregister"},
         renewal' = [renewal EXCEPT !.step = next], UNCHANGED <<selected, current, attached, manifest>>,
         renewal.mode = "restage" => (TasksStaged => TasksStaged'),
         next = "remove" => /\ Replaces(InHand.owner) /\ ~Restores
                            /\ canon'[InHand.owner] = Staged(InHand)',
         next = "unregister" => Staged(InHand)' = NoFile
  PROVE  OperationKnows'
  <1>1. /\ renewal.mode \in RenewalModes
    BY FinishFacts DEF FinishingSteps
  <1>2. /\ renewal' \in RenewalStates /\ renewal'.step = next /\ renewal'.kind = renewal.kind
        /\ renewal'.toStage = renewal.toStage /\ renewal'.staged = renewal.staged
        /\ renewal'.queue = renewal.queue /\ renewal'.mode = renewal.mode
    BY DEF WholeRenewal, OperationKnows, RenewalStates, FinishingSteps
  <1>3. HandleKnows'
    BY <1>2 DEF WholeRenewal, OperationKnows, HandleKnows
  <1>4. StagingKnows'
    BY <1>1, <1>2 DEF WholeRenewal, OperationKnows, StagingKnows, StagingSteps, RenewalModes
  <1>5. InHand' = InHand /\ (Restores' <=> Restores)
    BY <1>2 DEF InHand, Restores
  <1>6. FinishingKnows'
    <2>1. renewal.mode # "none"
      BY <1>1 DEF RenewalModes
    <2>2. next = "remove" => Replaces(InHand.owner)' /\ ~Restores' /\ canon'[InHand'.owner] = Staged(InHand)'
      BY <1>5 DEF Replaces
    <2> QED BY <1>2, <2>1, <2>2 DEF WholeRenewal, OperationKnows, FinishingKnows, FinishingSteps
  <1> QED BY <1>2, <1>3, <1>4, <1>6 DEF OperationKnows

(* A staged file is finished, or cannot be.                                *)
LEMMA FinishFileKeeps ==
  ASSUME WholeRenewal, FinishFile
  PROVE  WholeRenewal'
  <1>0. PICK h : h = InHand
    OBVIOUS
  <1>1. renewal.step = "finish" /\ Finishing("finish")
    BY DEF FinishFile, Finishing
  <1>2. /\ renewal.mode \in RenewalModes
        /\ renewal.mode = "restage" => h.owner = "notes"
    BY <1>0, <1>1, FinishFacts DEF FinishingSteps
  <1>3. UNCHANGED <<manifest, selected, current, attached, writes, intended, adrift>>
    BY DEF filesVars, generationVars, historyVars, FinishFile
  <1>4. staging \subseteq Owners /\ Released \subseteq Owners
    BY DEF WholeRenewal, FilesTyped, Released
  <1>5. FileUntouched /\ staging' \subseteq Owners =>
           /\ FilesTyped' /\ FilesAgree' /\ Listed' = Listed
           /\ TasksStaged' <=> TasksStaged
    BY <1>3, FilesSame DEF FileUntouched
  <1>6. Staged(h) # NoFile /\ ~Conflict /\ FileDone /\ staging' \subseteq Owners =>
           /\ FilesTyped' /\ FilesAgree' /\ Listed' = Listed
           /\ h.owner = "notes" => (TasksStaged => TasksStaged')
           /\ IF Replaces(h.owner) /\ ~Restores THEN canon'[h.owner] = Staged(h)'
              ELSE Staged(h)' = NoFile
    BY <1>0, <1>1, <1>3, FinishedFiles
  <1>7. CASE /\ Staged(h) = NoFile /\ FileUntouched
             /\ renewal' = [renewal EXCEPT !.step = "unregister"] /\ UNCHANGED staging
    <2>1. Staged(InHand)' = NoFile
      <3>1. InHand' = InHand
        BY <1>7 DEF InHand, WholeRenewal, OperationKnows, RenewalStates
      <3> QED BY <1>0, <1>7, <3>1 DEF Staged, FileUntouched
    <2>2. OperationKnows'
      BY <1>1, <1>3, <1>4, <1>5, <1>7, <2>1, GoOnKnows
    <2> QED BY <1>4, <1>5, <1>7, <2>2 DEF WholeRenewal
  <1>8. CASE /\ Staged(h) # NoFile /\ ~Conflict /\ FileDone /\ UNCHANGED staging
             /\ renewal' = [renewal EXCEPT !.step = IF Replaces(h.owner) /\ ~Restores
                                                    THEN "remove" ELSE "unregister"]
    <2>1. PICK next : next = IF Replaces(h.owner) /\ ~Restores THEN "remove" ELSE "unregister"
      OBVIOUS
    <2>2. InHand' = InHand
      BY <1>8 DEF InHand, WholeRenewal, OperationKnows, RenewalStates
    <2>3. /\ next = "remove" => Replaces(InHand.owner) /\ ~Restores
                                /\ canon'[InHand.owner] = Staged(InHand)'
          /\ next = "unregister" => Staged(InHand)' = NoFile
      BY <1>0, <1>4, <1>6, <1>8, <2>1, <2>2
    <2>4. OperationKnows'
      BY <1>1, <1>2, <1>3, <1>4, <1>6, <1>8, <2>1, <2>3, GoOnKnows
    <2> QED BY <1>4, <1>6, <1>8, <2>4 DEF WholeRenewal
  <1>9. CASE /\ Staged(h) # NoFile /\ FinishFailed
             /\ (~Conflict /\ FileDone) \/ FileUntouched
    <2>2. staging' \subseteq Owners
      BY <1>4, <1>9 DEF FinishFailed, Released
    <2>3. /\ FilesTyped' /\ FilesAgree' /\ Listed' = Listed
      BY <1>5, <1>6, <1>9, <2>2
    <2>4. OperationKnows'
      BY <1>1, <1>3, <1>9, FailedKnows DEF FinishingSteps
    <2> QED BY <2>3, <2>4 DEF WholeRenewal
  <1> QED BY <1>0, <1>2, <1>7, <1>8, <1>9 DEF filesVars, generationVars, historyVars, FinishFile

(* The backup of an installed replacement goes, or cannot go.              *)
LEMMA RemoveReplacementKeeps ==
  ASSUME WholeRenewal, RemoveReplacement
  PROVE  WholeRenewal'
  <1>0. PICK h : h = InHand
    OBVIOUS
  <1>1. renewal.step = "remove" /\ Finishing("remove")
    BY DEF RemoveReplacement, Finishing
  <1>2. Replaces(h.owner) /\ (renewal.mode = "restage" => h.owner = "notes")
    BY <1>0, <1>1, FinishFacts DEF WholeRenewal, OperationKnows, FinishingKnows, FinishingSteps
  <1>3. UNCHANGED <<canon, manifest, selected, current, attached, writes, intended, adrift>>
    BY DEF filesVars, generationVars, historyVars, RemoveReplacement
  <1>4. staging' \subseteq Owners
    BY DEF filesVars, generationVars, historyVars, RemoveReplacement, FinishFailed, Released, WholeRenewal, FilesTyped
  <1>5. DropBackup =>
           /\ FilesTyped' /\ FilesAgree' /\ Listed' = Listed /\ Staged(h)' = NoFile
    BY <1>0, <1>1, <1>3, <1>4, DroppedFiles
  <1>6. UNCHANGED backup =>
           /\ FilesTyped' /\ FilesAgree' /\ Listed' = Listed
    BY <1>3, <1>4, FilesSame
  <1>7. renewal.mode # "restage"
    BY <1>2 DEF Replaces
  <1>8. CASE DropBackup /\ renewal' = [renewal EXCEPT !.step = "unregister"]
    <2>1. Staged(InHand)' = NoFile
      <3>1. InHand' = InHand
        BY <1>8 DEF InHand, WholeRenewal, OperationKnows, RenewalStates
      <3> QED BY <1>0, <1>5, <1>8, <3>1
    <2>2. OperationKnows'
      BY <1>1, <1>3, <1>5, <1>7, <1>8, <2>1, GoOnKnows
    <2> QED BY <1>5, <1>8, <2>2 DEF WholeRenewal
  <1>9. CASE (DropBackup \/ UNCHANGED backup) /\ FinishFailed
    <2>2. OperationKnows'
      BY <1>1, <1>3, <1>9, FailedKnows DEF FinishingSteps
    <2> QED BY <1>5, <1>6, <1>9, <2>2 DEF WholeRenewal
  <1> QED BY <1>8, <1>9 DEF filesVars, generationVars, historyVars, RemoveReplacement

(* The entry in hand leaves the manifest, or cannot.                       *)
LEMMA UnregisterKeeps ==
  ASSUME WholeRenewal, Unregister
  PROVE  WholeRenewal'
  <1>0. PICK h, q : h = InHand /\ q = Tail(renewal.queue)
    OBVIOUS
  <1>1. renewal.step = "unregister" /\ Finishing("unregister")
    BY DEF Unregister, Finishing
  <1>2. /\ renewal.queue \in Seq(RenewalEntries) /\ renewal.queue # <<>>
        /\ renewal.mode \in RenewalModes
        /\ renewal.mode = "restage" => h.owner = "notes"
        /\ Staged(h) = NoFile /\ current = selected
    BY <1>0, <1>1, FinishFacts
       DEF Finishing, WholeRenewal, OperationKnows, HandleKnows, FinishingKnows, FinishingSteps
  <1>3. UNCHANGED <<canon, backup, selected, current, writes, intended, adrift>>
    BY DEF filesVars, generationVars, historyVars, Unregister
  <1>4. staging' \subseteq Owners
    BY DEF filesVars, generationVars, historyVars, Unregister, FinishFailed, Released, WholeRenewal, FilesTyped
  <1>5. manifest' \in {manifest, WithoutEntry(h)}
    BY <1>0 DEF filesVars, generationVars, historyVars, Unregister
  <1>6. /\ FilesTyped' /\ FilesAgree'
        /\ h.owner = "notes" => (TasksStaged => TasksStaged')
    BY <1>2, <1>3, <1>4, <1>5, UnregisteredFiles
  <1>7. /\ q \in Seq(RenewalEntries) /\ ToSet(q) \subseteq ToSet(renewal.queue)
        /\ \A e \in ToSet(renewal.queue) : e = h \/ e \in ToSet(q)
        /\ Len(renewal.queue) = 1 => q = <<>>
    BY <1>0, <1>2, ListFacts DEF InHand
  <1>8. CASE /\ renewal.mode = "restage"
             /\ renewal' = [renewal EXCEPT !.step = "stage", !.mode = "none", !.queue = <<>>]
             /\ attached' = (attached \/ Len(renewal.queue) = 1)
    <2>1. <<>> \in Seq(RenewalEntries)
      OBVIOUS
    <2>2. /\ renewal' \in RenewalStates /\ renewal'.step = "stage" /\ renewal'.mode = "none"
          /\ renewal'.kind = renewal.kind /\ renewal'.toStage = renewal.toStage
          /\ renewal'.staged = renewal.staged
      BY <1>8, <2>1 DEF WholeRenewal, OperationKnows, RenewalStates, StagingSteps
    <2>3. HandleKnows'
      BY <1>2, <1>3 DEF HandleKnows
    <2>4. StagingKnows'
      BY ZenonT(40), <1>2, <1>3, <1>6, <1>8, <2>2, Orders
         DEF WholeRenewal, OperationKnows, StagingKnows, StagingSteps
    <2>5. FinishingKnows'
      BY <2>2 DEF FinishingKnows, FinishingSteps
    <2> QED BY <1>6, <2>2, <2>3, <2>4, <2>5 DEF WholeRenewal, OperationKnows
  <1>9. CASE /\ renewal.mode # "restage" /\ renewal' = FinishAll(renewal.mode, q)
             /\ attached' = (attached \/ Len(renewal.queue) = 1)
    <2>1. renewal.mode \in {"recover", "rollback", "finalize"}
      BY <1>2, <1>9 DEF RenewalModes
    <2>2. /\ renewal.mode = "finalize" => \A e \in ToSet(q) : e.gen # selected'
          /\ renewal.mode = "rollback" => \A e \in ToSet(q) : e.gen = selected'
          /\ renewal.mode = "recover" => ~attached
      BY <1>3, <1>7 DEF WholeRenewal, OperationKnows, FinishingKnows
    <2>4. OperationKnows'
      BY <1>2, <1>3, <1>7, <1>9, <2>1, <2>2, FinishAllKnows
    <2> QED BY <1>6, <2>4 DEF WholeRenewal
  <1>10. CASE FinishFailed /\ UNCHANGED attached
    <2>2. OperationKnows'
      BY <1>1, <1>3, <1>10, FailedKnows DEF FinishingSteps
    <2> QED BY <1>6, <2>2 DEF WholeRenewal
  <1> QED BY <1>0, <1>8, <1>9, <1>10 DEF filesVars, generationVars, historyVars, Unregister

-----------------------------------------------------------------------------
(* The steps of a context renewal: opening, closing, the owners *)

(* Opening takes up what the manifest lists.                               *)
LEMMA AttachKeeps ==
  ASSUME WholeRenewal, Attach
  PROVE  WholeRenewal'
  <1>1. /\ UNCHANGED <<canon, backup, manifest, selected, staging, writes, intended, adrift>>
        /\ attached' = (manifest = <<>>) /\ current' = selected
        /\ renewal' = FinishAll("recover", manifest)
    BY DEF filesVars, historyVars, Attach
  <1>2. /\ FilesTyped' /\ FilesAgree'
    BY <1>1 DEF WholeRenewal, FilesTyped, FilesAgree, ListedOnce, BackupsRegistered, Restorable, InPlace,
                StagedFits, Staged, Listed, Installs
  <1>3. manifest \in Seq(RenewalEntries)
    BY DEF WholeRenewal, FilesTyped
  <1>4. OperationKnows'
    BY <1>1, <1>3, FinishAllKnows
  <1> QED BY <1>2, <1>4 DEF WholeRenewal

(* An operation that rests, in a handle that is current or closed.         *)
LEMMA RestKnows ==
  ASSUME renewal' \in RenewalStates, renewal'.step \in {"idle", "cleanup"}, renewal'.mode = "none",
         attached' => current' = selected'
  PROVE  OperationKnows'
  <1>1. HandleKnows'
    BY DEF HandleKnows
  <1>2. StagingKnows'
    BY DEF StagingKnows, StagingSteps
  <1>3. FinishingKnows'
    BY DEF FinishingKnows, FinishingSteps
  <1> QED BY <1>1, <1>2, <1>3 DEF OperationKnows

(* The Thread is closed, or the process ends.                              *)
LEMMA ClosedKeeps ==
  ASSUME WholeRenewal, Detach \/ RenewalProcessEnds
  PROVE  WholeRenewal'
  <1>1. staging' \subseteq Owners /\ ~attached'
        /\ UNCHANGED <<canon, backup, manifest, selected, current, writes, intended, adrift>>
    BY DEF filesVars, generationVars, historyVars, Detach, RenewalProcessEnds, WholeRenewal, FilesTyped
  <1>2. FilesTyped' /\ FilesAgree'
    BY <1>1, FilesSame
  <1>3. renewal' \in RenewalStates /\ renewal'.step = "idle" /\ renewal'.mode = "none"
    BY RestingFields DEF filesVars, generationVars, historyVars, Detach, RenewalProcessEnds, Quiet, On, WholeRenewal, OperationKnows,
                         FinishingKnows, FinishingSteps
  <1>4. OperationKnows'
    BY <1>1, <1>3, RestKnows
  <1> QED BY <1>2, <1>4 DEF WholeRenewal

(* A file that is written in its place, while none is staged for it.       *)
LEMMA WrittenFiles ==
  ASSUME WholeRenewal, NEW o \in Owners, NEW c \in FileContents, writes' \in 0 .. MaxWrites,
         canon' = [canon EXCEPT ![o] = c], intended' = [intended EXCEPT ![o] = c],
         UNCHANGED <<backup, manifest, selected, current, staging, adrift>>,
         \A e \in Listed : e.owner = o => ~Replaces(o) /\ c # NoFile
  PROVE  FilesTyped' /\ FilesAgree' /\ Listed' = Listed
  <1>1. canon \in [Owners -> FileContents] /\ intended \in [Owners -> FileContents]
    BY DEF WholeRenewal, FilesTyped
  <1>2. /\ canon' \in [Owners -> FileContents] /\ intended' \in [Owners -> FileContents]
        /\ canon'[o] = c /\ intended'[o] = c
        /\ \A p \in Owners : p # o => canon'[p] = canon[p] /\ intended'[p] = intended[p]
    BY <1>1
  <1>3. /\ Listed' = Listed /\ \A e : Staged(e)' = Staged(e)
    BY DEF Listed, Staged
  <1>4. FilesTyped'
    BY <1>2 DEF WholeRenewal, FilesTyped
  <1>5. ListedOnce' /\ BackupsRegistered'
    BY <1>3 DEF WholeRenewal, FilesAgree, ListedOnce, BackupsRegistered, Listed
  <1>6. \A e \in Listed : e.owner \in Owners
    <2>1. Listed \subseteq RenewalEntries
      BY ListFacts DEF WholeRenewal, FilesTyped, Listed
    <2> QED BY <2>1 DEF RenewalEntries
  <1>7. StagedFits'
    BY <1>2, <1>3, <1>6 DEF WholeRenewal, FilesAgree, StagedFits
  <1>8. Restorable'
    <2> SUFFICES ASSUME NEW p \in Owners \ adrift
                 PROVE  /\ InPlace(p)' => canon'[p] = intended'[p]
                        /\ \A e \in Listed : e.owner = p /\ Installs(e)' => intended'[p] = Staged(e)
      BY <1>3 DEF Restorable
    <2>1. CASE p = o
      BY <1>2, <2>1 DEF Installs, Replaces
    <2>2. CASE p # o
      <3>1. \A e \in Listed : e.owner = p => (Installs(e)' <=> Installs(e))
        BY <1>2, <1>3, <2>2 DEF Installs, Replaces
      <3> QED BY <1>2, <1>3, <2>2, <3>1 DEF WholeRenewal, FilesAgree, Restorable, InPlace
    <2> QED BY <2>1, <2>2
  <1> QED BY <1>3, <1>4, <1>5, <1>7, <1>8 DEF FilesAgree

(* What a save that happens, or does not, leaves.                          *)
LEMMA SavedFiles ==
  ASSUME WholeRenewal, NEW o \in Owners, NEW done \in BOOLEAN, Save(o, Content(done)),
         UNCHANGED <<backup, manifest, selected, current, staging, adrift>>,
         \A e \in Listed : e.owner = o => ~Replaces(o)
  PROVE  FilesTyped' /\ FilesAgree' /\ Listed' = Listed
  <1>0. PICK c : c = Content(done)
    OBVIOUS
  <1>1. writes' \in 0 .. MaxWrites /\ writes + 1 \in 0 .. MaxWrites /\ writes + 1 # 0
    BY RenewalBounds DEF Save, WholeRenewal, FilesTyped
  <1>2. c \in FileContents /\ c # NoFile
    BY <1>0, <1>1 DEF Content, FileContents, NoFile
  <1>3. CASE canon' = [canon EXCEPT ![o] = c] /\ intended' = [intended EXCEPT ![o] = c]
    BY <1>1, <1>2, <1>3, WrittenFiles
  <1>4. CASE UNCHANGED <<canon, intended>>
    <2>1. FilesTyped'
      BY <1>1, <1>4 DEF WholeRenewal, FilesTyped
    <2>2. FilesAgree' /\ Listed' = Listed
      BY <1>4 DEF WholeRenewal, FilesAgree, ListedOnce, BackupsRegistered, Restorable, InPlace,
                  StagedFits, Staged, Listed, Installs
    <2> QED BY <2>1, <2>2
  <1> QED BY <1>0, <1>3, <1>4 DEF Save

(* The task tool, and the notes that are cleared when all tasks are done.  *)
LEMMA TaskToolKeeps ==
  ASSUME WholeRenewal, NEW done \in BOOLEAN, TaskTool(done)
  PROVE  WholeRenewal'
  <1>1. attached /\ renewal.step = "idle" /\ UNCHANGED <<selected, current, attached>>
    BY DEF generationVars, TaskTool, Quiet, On
  <1>2. current' = selected'
    BY <1>1 DEF WholeRenewal, OperationKnows, HandleKnows
  <1>3. \A e \in Listed : e.owner # "tasks"
    BY DEF filesVars, generationVars, historyVars, TaskTool, FileReady, EntriesOf, Listed
  <1>4. FilesTyped' /\ FilesAgree' /\ Listed' = Listed
    BY <1>3, SavedFiles DEF filesVars, generationVars, historyVars, TaskTool, Owners
  <1>5. renewal' \in RenewalStates /\ renewal'.step \in {"idle", "cleanup"} /\ renewal'.mode = "none"
    BY <1>1, RestingFields DEF filesVars, generationVars, historyVars, TaskTool, WholeRenewal, OperationKnows, FinishingKnows, FinishingSteps
  <1>6. OperationKnows'
    BY <1>2, <1>5, RestKnows
  <1> QED BY <1>4, <1>6 DEF WholeRenewal

(* The notes tool, which asks nobody.                                      *)
LEMMA UpdateNotesKeeps ==
  ASSUME WholeRenewal, UpdateNotes
  PROVE  WholeRenewal'
  <1>1. attached /\ renewal.step = "idle" /\ UNCHANGED <<selected, current, attached>>
    BY DEF generationVars, UpdateNotes, Quiet, On
  <1>2. current' = selected'
    BY <1>1 DEF WholeRenewal, OperationKnows, HandleKnows
  <1>3. ~Replaces("notes")
    BY DEF Replaces
  <1>4. FilesTyped' /\ FilesAgree' /\ Listed' = Listed
    BY <1>3, SavedFiles DEF filesVars, generationVars, historyVars, UpdateNotes, Owners
  <1>5. renewal' \in RenewalStates /\ renewal'.step = "idle" /\ renewal'.mode = "none"
    BY <1>1 DEF filesVars, generationVars, historyVars, UpdateNotes, WholeRenewal, OperationKnows, FinishingKnows, FinishingSteps
  <1>6. OperationKnows'
    BY <1>2, <1>5, RestKnows
  <1> QED BY <1>4, <1>6 DEF WholeRenewal

(* The notes are cleared, or stay.                                         *)
LEMMA ClearNotesKeeps ==
  ASSUME WholeRenewal, ClearNotes
  PROVE  WholeRenewal'
  <1>1. renewal.step = "cleanup" /\ attached /\ writes \in 0 .. MaxWrites
        /\ UNCHANGED <<backup, manifest, selected, current, attached, staging, writes, adrift>>
    BY DEF filesVars, generationVars, historyVars, ClearNotes, On, WholeRenewal, FilesTyped
  <1>2. current' = selected'
    BY <1>1 DEF WholeRenewal, OperationKnows, HandleKnows
  <1>3. FilesTyped' /\ FilesAgree' /\ Listed' = Listed
    <2>1. CASE /\ FileReady("notes") /\ canon' = [canon EXCEPT !["notes"] = NoFile]
               /\ intended' = [intended EXCEPT !["notes"] = NoFile]
      <3>1. PICK c : c = NoFile
        OBVIOUS
      <3>2. c \in FileContents /\ "notes" \in Owners
        BY <3>1, RenewalBounds DEF NoFile, FileContents, Owners
      <3>3. \A e \in Listed : e.owner # "notes"
        BY <2>1 DEF FileReady, EntriesOf, Listed
      <3> QED BY <1>1, <2>1, <3>1, <3>2, <3>3, WrittenFiles
    <2>2. CASE UNCHANGED <<canon, intended>>
      BY <1>1, <2>2, FilesSame DEF WholeRenewal, FilesTyped
    <2> QED BY <2>1, <2>2 DEF filesVars, generationVars, historyVars, ClearNotes
  <1>4. renewal' \in RenewalStates /\ renewal'.step = "idle" /\ renewal'.mode = "none"
    BY RestingFields DEF filesVars, generationVars, historyVars, ClearNotes
  <1>5. OperationKnows'
    BY <1>2, <1>4, RestKnows
  <1> QED BY <1>3, <1>5 DEF WholeRenewal

(* A new Thread.                                                           *)
LEMMA RenewalStarts ==
  ASSUME RInit
  PROVE  RenewalInv
  <1>1. NoFile \in FileContents /\ 1 \in Scopes /\ 0 \in 0 .. MaxWrites
    BY RenewalBounds DEF NoFile, FileContents, Scopes
  <1>2. <<>> \in Seq(RenewalEntries) /\ Listed = {}
    BY DEF RInit, Listed, ToSet
  <1>3. /\ canon = [o \in Owners |-> NoFile] /\ intended = canon
        /\ backup = [o \in Owners |-> [g \in Scopes |-> NoFile]]
        /\ manifest = <<>> /\ selected = 1 /\ current = 1 /\ staging = {} /\ adrift = {}
        /\ renewal = Resting /\ writes = 0 /\ ~attached
    BY DEF RInit
  <1>4. FilesTyped
    <2> DEFINE none == NoFile
    <2>1. none \in FileContents
      BY <1>1
    <2>2. /\ canon = [o \in Owners |-> none] /\ intended = canon
          /\ backup = [o \in Owners |-> [g \in Scopes |-> none]]
      BY <1>3
    <2> HIDE DEF none
    <2>3. canon \in [Owners -> FileContents] /\ backup \in [Owners -> [Scopes -> FileContents]]
      BY <2>1, <2>2
    <2> QED BY <1>1, <1>2, <1>3, <2>3 DEF FilesTyped
  <1>5. ListedOnce /\ StagedFits /\ Restorable
    BY <1>2, <1>3 DEF ListedOnce, StagedFits, Restorable
  <1>6. BackupsRegistered
    BY <1>3 DEF BackupsRegistered
  <1>7. renewal \in RenewalStates /\ renewal.step = "idle" /\ renewal.mode = "none"
    BY <1>3, RestingFields
  <1>8. HandleKnows /\ StagingKnows /\ FinishingKnows
    BY <1>3, <1>7 DEF HandleKnows, StagingKnows, StagingSteps, FinishingKnows, FinishingSteps
  <1>9. OperationSound /\ ~Stages /\ renewal.step \notin {"move", "unregister"}
    BY <1>7 DEF OperationSound, Stages, StagingSteps, FinishingSteps
  <1> QED BY <1>4, <1>5, <1>6, <1>7, <1>8, <1>9
          DEF RenewalInv, RenewalSound, FilesSound, WholeRenewal, FilesAgree, OperationKnows

(* Files that are adrift stay so.                                          *)
LEMMA AdriftGrows ==
  ASSUME RNext
  PROVE  adrift \subseteq adrift' \/ adrift' = Owners
  BY DEF RNext, historyVars, BeginRenewal, StageTasks, StageNotes, RegisterFile, MoveFile,
         CommitGeneration, FinishFile, RemoveReplacement, Unregister, Attach, Detach,
         RenewalProcessEnds, TaskTool, ClearNotes, UpdateNotes

(* Every step of a renewal keeps the invariant.                            *)
LEMMA RenewalSteps ==
  ASSUME RenewalInv, RNext
  PROVE  RenewalInv'
  <1>1. RenewalSound'
    BY SoundSteps DEF RenewalInv
  <1>2. CASE adrift = Owners
    BY <1>1, <1>2, AdriftGrows DEF RenewalInv, RenewalSound, FilesSound, FilesTyped
  <1>3. CASE WholeRenewal
    <2>1. ASSUME NEW kind \in {"new", "compact"}, BeginRenewal(kind) PROVE WholeRenewal'
      BY <1>3, <2>1, BeginKeeps
    <2>2. ASSUME NEW done \in BOOLEAN, TaskTool(done) PROVE WholeRenewal'
      BY <1>3, <2>2, TaskToolKeeps
    <2>3. WholeRenewal' \/ adrift' = Owners
      BY <1>3, <2>1, <2>2, StageTasksKeeps, StageNotesKeeps, RegisterFileKeeps, MoveFileKeeps,
         CommitKeeps, FinishFileKeeps, RemoveReplacementKeeps, UnregisterKeeps, AttachKeeps,
         ClosedKeeps, ClearNotesKeeps, UpdateNotesKeeps DEF RNext
    <2> QED BY <1>1, <2>3 DEF RenewalInv
  <1> QED BY <1>2, <1>3 DEF RenewalInv

(* Steps of the other components.                                          *)
LEMMA RenewalUntouched ==
  ASSUME RenewalInv, UNCHANGED renewalVars
  PROVE  RenewalInv'
  <1>1. /\ UNCHANGED <<canon, backup, manifest, selected, current, writes, intended, adrift>>
        /\ UNCHANGED <<staging, renewal, attached>>
    BY DEF renewalVars, filesVars, generationVars, historyVars
  <1>2. RenewalSound'
    BY <1>1 DEF RenewalInv, RenewalSound, FilesSound, FilesTyped, BackupsRegistered, OperationSound,
               Stages, Entry, Listed, InHand, Staged
  <1>3. ASSUME WholeRenewal PROVE WholeRenewal'
    <2>1. /\ FilesTyped' /\ FilesAgree' /\ Listed' = Listed
          /\ TasksStaged' <=> TasksStaged
      BY <1>1, <1>3, FilesSame DEF WholeRenewal, FilesTyped
    <2>2. HandleKnows' /\ StagingKnows'
      BY <1>1, <1>3, <2>1 DEF WholeRenewal, OperationKnows, HandleKnows, StagingKnows, Staged, Entry
    <2>3. FinishingKnows'
      BY <1>1, <1>3 DEF WholeRenewal, OperationKnows, FinishingKnows, InHand, Staged, Restores
    <2> QED BY <1>1, <1>3, <2>1, <2>2, <2>3 DEF WholeRenewal, OperationKnows
  <1> QED BY <1>1, <1>2, <1>3 DEF RenewalInv

(* Whatever happened, opening the Thread leaves the files that belong to   *)
(* the selected Generation (context_renewal_files.go:90), of every owner   *)
(* that is not adrift.                                                     *)
LEMMA RenewalIsAtomic ==
  ASSUME RenewalInv
  PROVE  RenewalAtomic
  <1> SUFFICES ASSUME NEW o \in Owners, o \notin adrift PROVE Recoverable(o) = intended[o]
    BY DEF RenewalAtomic
  <1>0. WholeRenewal
    BY DEF RenewalInv
  <1>1. EntriesOf(o) = {e \in Listed : e.owner = o}
    BY DEF EntriesOf, Listed
  <1>2. CASE {e \in EntriesOf(o) : Installs(e)} = {}
    BY <1>0, <1>1, <1>2 DEF Recoverable, WholeRenewal, FilesAgree, Restorable, InPlace
  <1>3. CASE {e \in EntriesOf(o) : Installs(e)} # {}
    BY <1>0, <1>1, <1>3 DEF Recoverable, WholeRenewal, FilesAgree, Restorable
  <1> QED BY <1>2, <1>3

-----------------------------------------------------------------------------
(* The Thread directories *)

Places == {"none", "active", "archive"}
Retentions == {"none", "active", "archived"}

LayoutSteps == {"idle", "describe", "index", "retain", "move", "toTrash", "unlist", "restore",
                "purge", "align", "empty"}
LayoutJobs ==
    [kind : {"none", "create", "archive", "unarchive", "delete", "rollback", "recover"},
     id : Threads, step : LayoutSteps]

LayoutTyped ==
    /\ place \in [Threads -> Places] /\ retention \in [Threads -> Retentions]
    /\ parentOf \in [Threads -> Threads \cup {NoThread}]
    /\ kept \subseteq Threads /\ job \in LayoutJobs

WorkersTyped == \A u \in Workers : There(u) => parentOf[u] \in Threads
Childless(t) == \A u \in Workers : There(u) => parentOf[u] # t

(* What the operation in progress relies on: a Thread it creates has       *)
(* no children and was reported to nobody; one it moves is there; one it   *)
(* removes has no children and, once it is gone, a parent to come back to; *)
(* and the trash is emptied after the index was rebuilt.                   *)
JobKnows ==
    LET t == job.id IN
    /\ job.step = "describe" =>
          job.kind = "create" /\ There(t) /\ Childless(t) /\ t \notin kept
    /\ job.step = "index" /\ job.kind = "create" => There(t) /\ retention[t] # "none"
    /\ job.step \in {"retain", "move"} => There(t) /\ job.kind # "create"
    /\ job.step = "toTrash" =>
          t \in Workers /\ There(t) /\ retention[t] # "none" /\ Childless(t) /\ t \notin kept
    /\ job.step \in {"unlist", "restore"} =>
          t \in Workers /\ parentOf[t] \in Threads /\ There(parentOf[t]) /\ t \notin kept
    /\ job.step = "empty" =>
          listing = Stored /\ \A u \in Threads : ~Bare(u) /\ ~Misplaced(u)

(* The inductive invariant of the Thread directories.                      *)
LayoutInv == LayoutTyped /\ ThreadsKept /\ WorkersTyped /\ ParentsPresent /\ JobKnows

(* Putting a directory somewhere.                                          *)
LEMMA PutFacts ==
  ASSUME LayoutInv, NEW t \in Threads, NEW w \in Places, PutAt(t, w)
  PROVE  /\ place' \in [Threads -> Places]
         /\ There(t)' <=> w # "none"
         /\ \A u \in Threads : u # t => There(u)' = There(u)
  BY DEF LayoutInv, LayoutTyped, PutAt, There

(* Writing thread.json.                                                    *)
LEMMA DescribeFacts ==
  ASSUME LayoutInv, NEW t \in Threads, NEW s \in Retentions, Describe(t, s)
  PROVE  /\ retention' \in [Threads -> Retentions]
         /\ retention'[t] = s
         /\ \A u \in Threads : u # t => retention'[u] = retention[u]
  BY DEF LayoutInv, LayoutTyped, Describe

(* A step that moves nothing.                                              *)
LEMMA LayoutSame ==
  ASSUME LayoutInv, UNCHANGED <<place, retention, parentOf>>
  PROVE  /\ \A u : (There(u)' <=> There(u)) /\ (Bare(u)' <=> Bare(u))
                   /\ (Misplaced(u)' <=> Misplaced(u)) /\ (Childless(u)' <=> Childless(u))
         /\ Stored' = Stored /\ ParentsPresent' /\ WorkersTyped'
         /\ kept' = kept => ThreadsKept'
  BY DEF LayoutInv, There, Bare, Misplaced, Childless, Stored, ListEntry, ParentsPresent,
         WorkersTyped, ThreadsKept

(* What is typed.                                                          *)
LEMMA LayoutTypes ==
  ASSUME LayoutInv
  PROVE  /\ job.id \in Threads /\ kept \subseteq Threads /\ Workers \subseteq Threads
         /\ Main \in Threads /\ Main \notin Workers
         /\ \A u \in Threads : parentOf[u] \in Threads \cup {NoThread}
  BY MainAssumption DEF LayoutInv, LayoutTyped, Threads, LayoutJobs

(* What starting, going on and returning make of the operation.            *)
LEMMA JobMoves ==
  ASSUME LayoutInv
  PROVE  /\ \A s \in LayoutSteps :
               Step(s) => job' \in LayoutJobs /\ job'.step = s /\ job'.id = job.id /\ job'.kind = job.kind
         /\ Return => job' \in LayoutJobs /\ job'.step = "idle"
         /\ \A k \in {"create", "archive", "unarchive", "delete", "rollback", "recover"},
               t \in Threads, s \in LayoutSteps :
               StartJob(k, t, s) => job' \in LayoutJobs /\ job'.step = s /\ job'.id = t /\ job'.kind = k
  <1>1. job \in LayoutJobs /\ Main \in Threads
    BY DEF LayoutInv, LayoutTyped, Threads
  <1> QED BY <1>1 DEF LayoutJobs, LayoutSteps, Step, Return, NoJob, StartJob

(* A Thread is created under a parent that is there.                       *)
LEMMA CreateKeeps ==
  ASSUME LayoutInv, NEW t \in Threads, NEW p \in Threads \cup {NoThread},
         ~There(t), PutAt(t, "active"), parentOf' = [parentOf EXCEPT ![t] = p],
         t \in Workers => p \in Threads /\ There(p),
         job' = [kind |-> "create", id |-> t, step |-> "describe"],
         UNCHANGED <<retention, kept>>
  PROVE  LayoutInv'
  <1>1. /\ place' \in [Threads -> Places] /\ There(t)'
        /\ \A u \in Threads : u # t => There(u)' = There(u)
    BY PutFacts DEF Places
  <1>2. /\ parentOf' \in [Threads -> Threads \cup {NoThread}] /\ parentOf'[t] = p
        /\ \A u \in Threads : u # t => parentOf'[u] = parentOf[u]
    BY DEF LayoutInv, LayoutTyped
  <1>3. LayoutTyped'
    BY <1>1, <1>2, JobMoves DEF LayoutInv, LayoutTyped, StartJob, LayoutSteps
  <1>4. ThreadsKept'
    BY <1>1 DEF LayoutInv, LayoutTyped, ThreadsKept
  <1>5. ASSUME NEW u \in Workers, There(u)'
        PROVE  parentOf'[u] \in Threads /\ There(parentOf[u])' /\ parentOf'[u] # t
    <2>1. PICK q : q = parentOf'[u]
      OBVIOUS
    <2>2. q \in Threads /\ There(q) /\ q # t
      BY <1>1, <1>2, <1>5, <2>1, LayoutTypes DEF LayoutInv, ParentsPresent, WorkersTyped
    <2> QED BY <1>1, <2>1, <2>2 DEF There
  <1>6. WorkersTyped' /\ ParentsPresent'
    BY <1>5 DEF WorkersTyped, ParentsPresent
  <1>7. JobKnows'
    <2>1. Childless(t)' /\ t \notin kept'
      BY <1>5 DEF Childless, LayoutInv, ThreadsKept
    <2> QED BY <1>1, <2>1 DEF JobKnows
  <1> QED BY <1>3, <1>4, <1>6, <1>7 DEF LayoutInv

(* The directory and the thread.json of one Thread change, or do not: it   *)
(* is kept only if it stays whole, it goes only without children, and it   *)
(* is there only under its parent.                                         *)
LEMMA OneThreadKeeps ==
  ASSUME LayoutInv, NEW t \in Threads, NEW w \in Places, NEW s \in Retentions,
         place' = [place EXCEPT ![t] = w], retention' = [retention EXCEPT ![t] = s],
         parentOf' = parentOf, kept' \subseteq kept \cup {t}, job' \in LayoutJobs,
         t \in kept' => w # "none" /\ s # "none",
         w = "none" => Childless(t),
         w # "none" /\ t \in Workers => parentOf[t] \in Threads /\ There(parentOf[t])
  PROVE  /\ LayoutTyped' /\ ThreadsKept' /\ WorkersTyped' /\ ParentsPresent'
         /\ There(t)' <=> w # "none"
         /\ \A u \in Threads : u # t => There(u)' = There(u)
         /\ retention'[t] = s
  <1>1. /\ place' \in [Threads -> Places]
        /\ There(t)' <=> w # "none"
        /\ \A u \in Threads : u # t => There(u)' = There(u)
    BY DEF LayoutInv, LayoutTyped, There
  <1>2. /\ retention' \in [Threads -> Retentions] /\ retention'[t] = s
        /\ \A u \in Threads : u # t => retention'[u] = retention[u]
    BY DEF LayoutInv, LayoutTyped
  <1>3. LayoutTyped'
    BY <1>1, <1>2 DEF LayoutInv, LayoutTyped
  <1>4. ThreadsKept'
    BY <1>1, <1>2 DEF LayoutInv, LayoutTyped, ThreadsKept
  <1>5. ASSUME NEW u \in Workers, There(u)'
        PROVE  parentOf[u] \in Threads /\ There(parentOf[u])'
    <2>1. PICK q : q = parentOf[u]
      OBVIOUS
    <2>2. q \in Threads /\ There(q)
      BY <1>1, <1>5, <2>1, LayoutTypes DEF LayoutInv, WorkersTyped, ParentsPresent
    <2>3. CASE q = t
      <3>1. w # "none"
        <4>1. CASE u = t
          BY <1>1, <1>5, <4>1
        <4>2. CASE u # t
          <5>1. There(u)
            BY <1>1, <1>5, <4>2, LayoutTypes
          <5> QED BY <2>1, <2>3, <5>1 DEF Childless
        <4> QED BY <4>1, <4>2
      <3> QED BY <1>1, <2>1, <2>2, <2>3, <3>1 DEF There
    <2>4. CASE q # t
      BY <1>1, <2>1, <2>2, <2>4 DEF There
    <2> QED BY <2>3, <2>4
  <1>6. WorkersTyped' /\ ParentsPresent'
    BY <1>5 DEF WorkersTyped, ParentsPresent
  <1> QED BY <1>1, <1>2, <1>3, <1>4, <1>6

(* A step that starts, goes on with or ends an operation and changes       *)
(* neither a directory nor a thread.json.                                  *)
LEMMA JobStepKeeps ==
  ASSUME LayoutInv, UNCHANGED <<place, retention, parentOf>>, job' \in LayoutJobs,
         kept' \subseteq kept \cup {job.id},
         job.id \in kept' => job.id \in kept \/ (There(job.id) /\ retention[job.id] # "none"),
         JobKnows'
  PROVE  LayoutInv'
  <1>1. WorkersTyped' /\ ParentsPresent'
    BY LayoutSame
  <1>2. LayoutTyped'
    BY LayoutTypes DEF LayoutInv, LayoutTyped
  <1>3. ThreadsKept'
    BY DEF LayoutInv, ThreadsKept, There
  <1> QED BY <1>1, <1>2, <1>3 DEF LayoutInv

(* What the step of an operation knows of its Thread.                      *)
LEMMA JobFacts ==
  ASSUME LayoutInv, NEW t, t = job.id
  PROVE  /\ t \in Threads /\ retention[t] \in Retentions /\ place[t] \in Places
         /\ There(t) <=> place[t] # "none"
         /\ There(t) /\ t \in Workers => parentOf[t] \in Threads /\ There(parentOf[t])
         /\ place' = place => place' = [place EXCEPT ![t] = place[t]]
         /\ retention' = retention => retention' = [retention EXCEPT ![t] = retention[t]]
         /\ job.step = "describe" =>
               job.kind = "create" /\ There(t) /\ Childless(t) /\ t \notin kept
         /\ job.step = "index" /\ job.kind = "create" => There(t) /\ retention[t] # "none"
         /\ job.step \in {"retain", "move"} => There(t) /\ job.kind # "create"
         /\ job.step = "toTrash" =>
               t \in Workers /\ There(t) /\ retention[t] # "none" /\ Childless(t) /\ t \notin kept
         /\ job.step \in {"unlist", "restore"} =>
               t \in Workers /\ parentOf[t] \in Threads /\ There(parentOf[t]) /\ t \notin kept
  <1>1. /\ t \in Threads /\ retention[t] \in Retentions /\ place[t] \in Places
        /\ There(t) <=> place[t] # "none"
        /\ place' = place => place' = [place EXCEPT ![t] = place[t]]
        /\ retention' = retention => retention' = [retention EXCEPT ![t] = retention[t]]
    BY LayoutTypes DEF LayoutInv, LayoutTyped, There
  <1>2. There(t) /\ t \in Workers => parentOf[t] \in Threads /\ There(parentOf[t])
    BY DEF LayoutInv, WorkersTyped, ParentsPresent
  <1> QED BY <1>1, <1>2 DEF LayoutInv, JobKnows

(* The Main Thread and a Worker are created.                               *)
LEMMA CreationStarts ==
  ASSUME LayoutInv, EnsureMain \/ \E t \in Workers, p \in Threads : CreateWorker(t, p)
  PROVE  LayoutInv'
  <1>1. CASE EnsureMain
    BY <1>1, LayoutTypes, CreateKeeps DEF EnsureMain, StartJob
  <1>2. ASSUME NEW t \in Workers, NEW p \in Threads, CreateWorker(t, p)
        PROVE  LayoutInv'
    BY <1>2, LayoutTypes, CreateKeeps DEF CreateWorker, StartJob
  <1> QED BY <1>1, <1>2

(* thread.json is written, or the directory goes again.                    *)
LEMMA DescribeKeeps ==
  ASSUME LayoutInv, DescribeThread
  PROVE  LayoutInv'
  <1>0. PICK t : t = job.id
    OBVIOUS
  <1>1. /\ t \in Threads /\ job.kind = "create" /\ There(t) /\ Childless(t) /\ t \notin kept
        /\ place[t] \in Places /\ place[t] # "none" /\ retention[t] \in Retentions
        /\ t \in Workers => parentOf[t] \in Threads /\ There(parentOf[t])
    BY <1>0, JobFacts DEF DescribeThread, Doing
  <1>2. parentOf' = parentOf /\ kept' = kept
    BY DEF DescribeThread
  <1>3. /\ place' = place => place' = [place EXCEPT ![t] = place[t]]
        /\ retention' = retention => retention' = [retention EXCEPT ![t] = retention[t]]
    BY <1>0, JobFacts
  <1>4. CASE Describe(t, "active") /\ UNCHANGED place /\ Step("index")
    <2>1. job' \in LayoutJobs /\ job'.id = t /\ job'.kind = job.kind /\ job'.step = "index"
      BY <1>0, <1>4, JobMoves DEF LayoutSteps
    <2>0. PICK w : w = place[t]
      OBVIOUS
    <2>4. /\ w \in Places /\ w # "none" /\ place' = [place EXCEPT ![t] = w]
          /\ "active" \in Retentions /\ retention' = [retention EXCEPT ![t] = "active"]
          /\ kept' \subseteq kept \cup {t} /\ t \notin kept'
      BY <1>1, <1>2, <1>3, <1>4, <2>0 DEF Describe, Retentions
    <2>2. /\ LayoutTyped' /\ ThreadsKept' /\ WorkersTyped' /\ ParentsPresent'
          /\ There(t)' /\ retention'[t] = "active"
      BY ZenonT(40), <1>1, <1>2, <2>1, <2>4, OneThreadKeeps
    <2>3. JobKnows'
      BY <2>1, <2>2 DEF JobKnows
    <2> QED BY <2>2, <2>3 DEF LayoutInv
  <1>5. CASE Return /\ \/ PutAt(t, "none") /\ Describe(t, "none")
                       \/ UNCHANGED <<place, retention>>
                       \/ Describe(t, "active") /\ UNCHANGED place
    <2>1. job' \in LayoutJobs /\ job'.step = "idle"
      BY <1>5, JobMoves
    <2>2. LayoutTyped' /\ ThreadsKept' /\ WorkersTyped' /\ ParentsPresent'
      BY <1>1, <1>2, <1>3, <1>5, <2>1, OneThreadKeeps DEF PutAt, Describe, Retentions, Places
    <2>3. JobKnows'
      BY <2>1 DEF JobKnows
    <2> QED BY <2>2, <2>3 DEF LayoutInv
  <1> QED BY <1>0, <1>4, <1>5 DEF DescribeThread

(* The index is written: a created Thread is its caller's.                 *)
LEMMA RefreshKeeps ==
  ASSUME LayoutInv, RefreshIndex
  PROVE  LayoutInv'
  <1>0. PICK t : t = job.id
    OBVIOUS
  <1>1. job.kind = "create" => There(t) /\ retention[t] # "none"
    BY <1>0, JobFacts DEF RefreshIndex, Doing
  <1>2. /\ UNCHANGED <<place, retention, parentOf>>
        /\ kept' = kept \/ (job.kind = "create" /\ kept' = kept \cup {t})
        /\ job' \in LayoutJobs /\ job'.step = "idle"
    BY <1>0, JobMoves DEF RefreshIndex
  <1>3. JobKnows'
    BY <1>2 DEF JobKnows
  <1> QED BY <1>0, <1>1, <1>2, <1>3, JobStepKeeps

(* An operation on a Thread starts when the index could be loaded.         *)
LEMMA OperationStarts ==
  ASSUME LayoutInv, NEW t \in Workers,
         Archive(t) \/ Unarchive(t) \/ DeleteArchived(t) \/ RollbackWorkerCreation(t)
  PROVE  LayoutInv'
  <1>1. /\ t \in Threads /\ There(t)
        /\ UNCHANGED <<place, retention, parentOf>> /\ kept' \subseteq kept
        /\ Scannable /\ listing' = Stored
    BY LayoutTypes
       DEF Archive, Unarchive, DeleteArchived, RollbackWorkerCreation, There, IndexLoaded
  <1>2. retention[t] # "none"
    BY <1>1 DEF Scannable, Bare
  <1>3. CASE Archive(t) \/ Unarchive(t)
    <2>1. /\ job' \in LayoutJobs /\ job'.step = "retain" /\ job'.id = t /\ job'.kind # "create"
      BY <1>1, <1>3, JobMoves DEF Archive, Unarchive, LayoutSteps
    <2>2. JobKnows'
      BY <1>1, <2>1 DEF JobKnows, There
    <2> QED BY <1>1, <2>1, <2>2, JobStepKeeps
  <1>4. CASE DeleteArchived(t) \/ RollbackWorkerCreation(t)
    <2>1. /\ job' \in LayoutJobs /\ job'.step = "toTrash" /\ job'.id = t
          /\ kept' = kept \ {t} /\ Removable(t, Stored)
      BY <1>1, <1>4, JobMoves DEF DeleteArchived, RollbackWorkerCreation, LayoutSteps
    <2>2. Childless(t)
      <3>1. ASSUME NEW u \in Workers, There(u) PROVE parentOf[u] # t
        <4>1. ListEntry(u) \in Stored
          BY <3>1, LayoutTypes DEF Stored
        <4>2. ListEntry(u).parent # t
          BY <2>1, <4>1 DEF Removable
        <4> QED BY <4>2 DEF ListEntry
      <3> QED BY <3>1 DEF Childless
    <2>3. Childless(t)' /\ There(t)' /\ retention'[t] # "none"
      BY <1>1, <1>2, <2>2 DEF Childless, There
    <2>4. JobKnows'
      BY <2>1, <2>3 DEF JobKnows
    <2> QED BY <1>1, <2>1, <2>4, JobStepKeeps
  <1> QED BY <1>3, <1>4

(* thread.json says where the Thread belongs.                              *)
LEMMA RetainKeeps ==
  ASSUME LayoutInv, Retain
  PROVE  LayoutInv'
  <1>0. PICK t, w, s : t = job.id /\ w = place[t] /\ s = retention'[t]
    OBVIOUS
  <1>1. /\ t \in Threads /\ There(t) /\ w \in Places /\ w # "none" /\ retention[t] \in Retentions
        /\ t \in Workers => parentOf[t] \in Threads /\ There(parentOf[t])
        /\ place' = place => place' = [place EXCEPT ![t] = w]
        /\ retention' = retention => retention' = [retention EXCEPT ![t] = retention[t]]
        /\ job.kind # "create"
    BY <1>0, JobFacts DEF Retain, Doing
  <1>2. place' = place /\ parentOf' = parentOf /\ kept' = kept
    BY DEF Retain
  <1>3. /\ s \in Retentions /\ retention' = [retention EXCEPT ![t] = s]
        /\ t \in kept => s # "none"
    <2>1. Kept(job.kind) \in Retentions /\ Kept(job.kind) # "none"
      BY DEF Kept, Retentions
    <2>2. CASE Describe(t, Kept(job.kind))
      <3>1. PICK k : k = Kept(job.kind)
        OBVIOUS
      <3> QED BY <1>0, <1>1, <2>1, <2>2, <3>1, DescribeFacts DEF Describe
    <2>3. CASE UNCHANGED retention
      BY <1>0, <1>1, <2>3 DEF LayoutInv, ThreadsKept
    <2> QED BY <1>0, <2>2, <2>3 DEF Retain
  <1>4. /\ job' \in LayoutJobs
        /\ job'.step = "idle" \/ (job'.step = "move" /\ job'.id = t /\ job'.kind # "create")
    BY <1>0, <1>1, JobMoves DEF Retain, LayoutSteps
  <1>5. /\ LayoutTyped' /\ ThreadsKept' /\ WorkersTyped' /\ ParentsPresent' /\ There(t)'
    BY <1>1, <1>2, <1>3, <1>4, OneThreadKeeps
  <1>6. JobKnows'
    BY <1>4, <1>5 DEF JobKnows
  <1> QED BY <1>5, <1>6 DEF LayoutInv

(* The directory follows.                                                  *)
LEMMA MoveKeeps ==
  ASSUME LayoutInv, Move
  PROVE  LayoutInv'
  <1>0. PICK t, w, s : t = job.id /\ w = place'[t] /\ s = retention[t]
    OBVIOUS
  <1>1. /\ t \in Threads /\ There(t) /\ s \in Retentions
        /\ place[t] \in Places /\ place[t] # "none"
        /\ t \in Workers => parentOf[t] \in Threads /\ There(parentOf[t])
        /\ place' = place => place' = [place EXCEPT ![t] = place[t]]
        /\ retention' = retention => retention' = [retention EXCEPT ![t] = s]
        /\ job.kind # "create"
    BY <1>0, JobFacts DEF Move, Doing
  <1>2. retention' = retention /\ parentOf' = parentOf /\ kept' = kept
    BY DEF Move
  <1>3. w \in Places /\ w # "none" /\ place' = [place EXCEPT ![t] = w]
    <2>1. Namespace(job.kind) \in Places /\ Namespace(job.kind) # "none"
      BY DEF Namespace, Places
    <2>2. CASE PutAt(t, Namespace(job.kind))
      <3>1. PICK k : k = Namespace(job.kind)
        OBVIOUS
      <3>2. place' = [place EXCEPT ![t] = k] /\ place'[t] = k
        BY <1>1, <2>2, <3>1 DEF PutAt, LayoutInv, LayoutTyped
      <3> QED BY <1>0, <2>1, <3>1, <3>2
    <2>3. CASE UNCHANGED place
      BY <1>0, <1>1, <2>3
    <2> QED BY <1>0, <2>2, <2>3 DEF Move
  <1>4. t \in kept => s # "none"
    BY <1>0 DEF LayoutInv, ThreadsKept
  <1>5. /\ job' \in LayoutJobs
        /\ job'.step = "idle" \/ (job'.step = "index" /\ job'.kind # "create")
    BY <1>1, JobMoves DEF Move, LayoutSteps
  <1>6. LayoutTyped' /\ ThreadsKept' /\ WorkersTyped' /\ ParentsPresent'
    BY <1>1, <1>2, <1>3, <1>4, <1>5, OneThreadKeeps
  <1>7. JobKnows'
    BY <1>5 DEF JobKnows
  <1> QED BY <1>6, <1>7 DEF LayoutInv

(* A Thread without children goes to the trash, or stays and is kept.      *)
LEMMA ToTrashKeeps ==
  ASSUME LayoutInv, ToTrash
  PROVE  LayoutInv'
  <1>0. PICK t : t = job.id
    OBVIOUS
  <1>1. /\ t \in Threads /\ t \in Workers /\ There(t) /\ retention[t] # "none" /\ Childless(t)
        /\ t \notin kept
        /\ parentOf[t] \in Threads /\ There(parentOf[t])
    BY <1>0, JobFacts DEF ToTrash, Doing
  <1>2. parentOf' = parentOf
    BY DEF ToTrash
  <1>3. CASE /\ PutAt(t, "none") /\ Describe(t, "none") /\ kept' = kept
             /\ Step("unlist") \/ Return
    <2>1. /\ job' \in LayoutJobs
          /\ job'.step = "idle" \/ (job'.step = "unlist" /\ job'.id = t)
      BY <1>0, <1>3, JobMoves DEF LayoutSteps
    <2>2. /\ "none" \in Places /\ "none" \in Retentions
          /\ place' = [place EXCEPT ![t] = "none"] /\ retention' = [retention EXCEPT ![t] = "none"]
      BY <1>3 DEF Places, Retentions, PutAt, Describe
    <2>3. /\ LayoutTyped' /\ ThreadsKept' /\ WorkersTyped' /\ ParentsPresent'
          /\ \A u \in Threads : u # t => There(u)' = There(u)
      BY <1>1, <1>2, <1>3, <2>1, <2>2, OneThreadKeeps
    <2>4. PICK q : q = parentOf[t]
      OBVIOUS
    <2>5. q # t
      BY <1>1, <2>4 DEF Childless
    <2>6. There(q)'
      BY <1>1, <2>3, <2>4, <2>5
    <2>7. There(parentOf[t])'
      BY <1>2, <2>4, <2>6 DEF There
    <2>8. JobKnows'
      BY <1>1, <1>2, <1>3, <2>1, <2>7 DEF JobKnows
    <2> QED BY <2>3, <2>8 DEF LayoutInv
  <1>4. CASE Return /\ UNCHANGED <<place, retention>> /\ kept' = kept \cup {t}
    <2>1. job' \in LayoutJobs /\ job'.step = "idle"
      BY <1>4, JobMoves
    <2>2. JobKnows'
      BY <2>1 DEF JobKnows
    <2> QED BY <1>0, <1>1, <1>2, <1>4, <2>1, <2>2, JobStepKeeps
  <1> QED BY <1>0, <1>3, <1>4 DEF ToTrash

(* The index forgets the Thread, or its removal is undone.                 *)
LEMMA UnlistKeeps ==
  ASSUME LayoutInv, Unlist
  PROVE  LayoutInv'
  <1>0. PICK t : t = job.id
    OBVIOUS
  <1>1. t \in Workers /\ parentOf[t] \in Threads /\ There(parentOf[t]) /\ t \notin kept
    BY <1>0, JobFacts DEF Unlist, Doing
  <1>2. /\ UNCHANGED <<place, retention, parentOf, kept>>
        /\ job' \in LayoutJobs /\ job'.id = t /\ job'.step \in {"purge", "restore"}
    BY <1>0, JobMoves DEF Unlist, LayoutSteps
  <1>3. JobKnows'
    BY <1>1, <1>2 DEF JobKnows, There
  <1> QED BY <1>0, <1>2, <1>3, JobStepKeeps

(* The Thread comes back from the trash, under its parent.                 *)
LEMMA RestoreKeeps ==
  ASSUME LayoutInv, RestoreFromTrash
  PROVE  LayoutInv'
  <1>0. PICK t : t = job.id
    OBVIOUS
  <1>1. /\ t \in Threads /\ t \in Workers /\ parentOf[t] \in Threads /\ There(parentOf[t])
        /\ t \notin kept
    BY <1>0, JobFacts DEF RestoreFromTrash, Doing
  <1>2. parentOf' = parentOf /\ job' \in LayoutJobs /\ job'.step = "idle"
    BY JobMoves DEF RestoreFromTrash
  <1>3. JobKnows'
    BY <1>2 DEF JobKnows
  <1>4. CASE UNCHANGED <<place, retention, kept>>
    BY <1>2, <1>3, <1>4, JobStepKeeps
  <1>5. CASE ~UNCHANGED <<place, retention, kept>>
    <2>1. PICK w, s : /\ w \in {"archive", "active"} /\ s \in {"archived", "active"}
                      /\ PutAt(t, w) /\ Describe(t, s) /\ kept' = kept \cup {t}
      BY <1>0, <1>5 DEF RestoreFromTrash, TrashEntry
    <2>2. /\ w \in Places /\ w # "none" /\ s \in Retentions /\ s # "none"
          /\ place' = [place EXCEPT ![t] = w] /\ retention' = [retention EXCEPT ![t] = s]
      BY <2>1 DEF Places, Retentions, PutAt, Describe
    <2>3. LayoutTyped' /\ ThreadsKept' /\ WorkersTyped' /\ ParentsPresent'
      BY <1>1, <1>2, <2>1, <2>2, OneThreadKeeps
    <2> QED BY <1>3, <2>3 DEF LayoutInv
  <1> QED BY <1>4, <1>5

(* A directory is moved where its thread.json says.                        *)
LEMMA AlignKeeps ==
  ASSUME LayoutInv, NEW t \in Workers, Align(t)
  PROVE  LayoutInv'
  <1>0. PICK w : w = place'[t]
    OBVIOUS
  <1>1. /\ t \in Threads /\ place[t] \in Places /\ place[t] # "none" /\ There(t)
        /\ retention[t] \in Retentions
        /\ retention' = [retention EXCEPT ![t] = retention[t]]
        /\ parentOf' = parentOf /\ kept' = kept
    BY LayoutTypes DEF Align, Misplaced, There, LayoutInv, LayoutTyped
  <1>2. parentOf[t] \in Threads /\ There(parentOf[t])
    BY <1>1 DEF LayoutInv, WorkersTyped, ParentsPresent
  <1>3. w \in Places /\ w # "none" /\ place' = [place EXCEPT ![t] = w]
    <2>1. CASE UNCHANGED place
      BY <1>0, <1>1, <2>1 DEF LayoutInv, LayoutTyped
    <2>2. CASE \E k \in {"archive", "active"} : PutAt(t, k)
      BY <1>0, <1>1, <2>2 DEF PutAt, LayoutInv, LayoutTyped, Places
    <2> QED BY <2>1, <2>2 DEF Align
  <1>4. job' \in LayoutJobs /\ (job' = job \/ job'.step = "idle") /\ job.step = "align"
    BY JobMoves DEF Align, Doing, LayoutInv, LayoutTyped
  <1>5. JobKnows'
    BY <1>4 DEF JobKnows
  <1>6. t \in kept' => retention[t] # "none"
    BY <1>1 DEF LayoutInv, ThreadsKept
  <1>7. LayoutTyped' /\ ThreadsKept' /\ WorkersTyped' /\ ParentsPresent'
    BY <1>1, <1>2, <1>3, <1>4, <1>6, OneThreadKeeps
  <1> QED BY <1>5, <1>7 DEF LayoutInv

(* The steps of a recovery and of a removal that leave the directories.    *)
LEMMA LeavingKeeps ==
  ASSUME LayoutInv,
         Purge \/ BeginRecovery \/ RefuseLayout \/ Rebuild \/ EmptyTrash \/ AgentEnds
  PROVE  LayoutInv'
  <1>1. UNCHANGED <<place, retention, parentOf, kept>>
    BY DEF Purge, BeginRecovery, RefuseLayout, Rebuild, EmptyTrash, AgentEnds
  <1>2. /\ job' \in LayoutJobs
        /\ job'.step \in {"idle", "align"} \/ (Rebuild /\ listing' = Stored /\ job'.step = "empty")
    <2>1. job' = NoJob => Return
      BY DEF Return
    <2> QED BY <2>1, LayoutTypes, JobMoves
            DEF Purge, BeginRecovery, RefuseLayout, Rebuild, EmptyTrash, AgentEnds, LayoutSteps
  <1>3. Rebuild => \A u \in Threads : ~Bare(u)' /\ ~Misplaced(u)'
    BY <1>1, LayoutSame DEF Rebuild, Scannable
  <1>4. JobKnows'
    <2>1. Stored' = Stored
      BY <1>1, LayoutSame
    <2> QED BY <1>2, <1>3, <2>1 DEF JobKnows
  <1> QED BY <1>1, <1>2, <1>4, JobStepKeeps

(* Every step of the store keeps the invariant.                            *)
LEMMA LayoutStepsKeep ==
  ASSUME LayoutInv, LNext
  PROVE  LayoutInv'
  BY CreationStarts, DescribeKeeps, RefreshKeeps, OperationStarts, RetainKeeps, MoveKeeps,
     ToTrashKeeps, UnlistKeeps, RestoreKeeps, AlignKeeps, LeavingKeeps DEF LNext

(* An Agent that was never opened.                                         *)
LEMMA LayoutStarts ==
  ASSUME LInit
  PROVE  LayoutInv
  <1>1. LayoutTyped
    BY DEF LInit, LayoutTyped, Places, Retentions, NoJob, LayoutJobs, LayoutSteps, Threads
  <1>2. ThreadsKept /\ WorkersTyped /\ ParentsPresent
    BY LayoutTypes DEF LInit, ThreadsKept, WorkersTyped, ParentsPresent, There, Threads
  <1>3. JobKnows
    BY DEF LInit, NoJob, JobKnows
  <1> QED BY <1>1, <1>2, <1>3 DEF LayoutInv

(* Steps of the other components.                                          *)
LEMMA LayoutUntouched ==
  ASSUME LayoutInv, UNCHANGED <<place, retention, parentOf, listing, job, kept>>
  PROVE  LayoutInv'
  <1>1. JobKnows'
    BY LayoutSame DEF LayoutInv, JobKnows, There
  <1>2. job' \in LayoutJobs
    BY DEF LayoutInv, LayoutTyped
  <1> QED BY <1>1, <1>2, JobStepKeeps

(* A recovery that succeeds has aligned everything (lifecycle.go:13).      *)
LEMMA RecoveryStep ==
  ASSUME LayoutInv, LNext, ~ready, ready'
  PROVE  /\ \A t \in Threads : ~Bare(t)' /\ ~Misplaced(t)'
         /\ listing' = Stored' /\ trash' = {}
  <1>1. EmptyTrash /\ trash' = {} /\ UNCHANGED <<place, retention, parentOf, listing>>
    BY DEF LNext, EnsureMain, CreateWorker, DescribeThread, RefreshIndex, Archive, Unarchive,
           Retain, Move, DeleteArchived, RollbackWorkerCreation, ToTrash, Unlist, RestoreFromTrash,
           Purge, BeginRecovery, Align, RefuseLayout, Rebuild, EmptyTrash, AgentEnds
  <1>2. listing = Stored /\ \A u \in Threads : ~Bare(u) /\ ~Misplaced(u)
    BY <1>1 DEF EmptyTrash, Doing, LayoutInv, JobKnows
  <1> QED BY <1>1, <1>2, LayoutSame

-----------------------------------------------------------------------------
(* The components together *)

(* The files of a context renewal, among the steps of the other components *)
(* (context_renewal_files.go).                                             *)
THEOREM RenewalInvariant == Spec => []RenewalInv
  <1>1. Init => RenewalInv
    BY RenewalStarts DEF Init
  <1>2. RenewalInv /\ [Next]_vars => RenewalInv'
    <2> SUFFICES ASSUME RenewalInv, [Next]_vars PROVE RenewalInv'
      OBVIOUS
    <2>1. RNext \/ UNCHANGED renewalVars
      BY DEF Next, vars
    <2> QED BY <2>1, RenewalSteps, RenewalUntouched
  <1> QED BY <1>1, <1>2, PTL DEF Spec

(* The Thread directories, among the steps of the other components         *)
(* (store.go, lifecycle.go).                                               *)
THEOREM LayoutInvariant == Spec => []LayoutInv
  <1>1. Init => LayoutInv
    BY LayoutStarts DEF Init
  <1>2. LayoutInv /\ [Next]_vars => LayoutInv'
    <2> SUFFICES ASSUME LayoutInv, [Next]_vars PROVE LayoutInv'
      OBVIOUS
    <2>1. LNext \/ UNCHANGED <<place, retention, parentOf, listing, job, kept>>
      BY DEF Next, vars, layoutVars
    <2> QED BY <2>1, LayoutStepsKeep, LayoutUntouched
  <1> QED BY <1>1, <1>2, PTL DEF Spec

(* Wherever a context renewal fails or the process ends, the next open     *)
(* leaves the files of the selected Generation, but those a roll back has  *)
(* set adrift, and no backup is left that the manifest does not list       *)
(* (context_renewal_files.go:90); a Thread that was created stays until it *)
(* is removed, and its parent as long as it does (store.go, lifecycle.go). *)
THEOREM FilesAreKept == Spec => []FilesKept
  <1>1. RenewalInv /\ LayoutInv => FilesKept
    BY RenewalIsAtomic DEF FilesKept, RenewalInv, RenewalSound, FilesSound, LayoutInv
  <1> QED BY <1>1, RenewalInvariant, LayoutInvariant, PTL

(* An open that succeeds repairs the index entry (event_store.go), and a   *)
(* recovery of the layout that succeeds has finished every interrupted     *)
(* move and removal (lifecycle.go:13).                                     *)
THEOREM RepairsAreComplete ==
  ASSUME Survivable
  PROVE  Spec => RepairsComplete
  <1>1. Init => EInit
    BY DEF Init
  <1>2. [Next]_vars => [ENext]_evars
    BY DEF Next, vars, evars
  <1>3. Spec => OpenRepairsIndex
    BY <1>1, <1>2, OpeningRepairsIndex, PTL DEF Spec, ESpec
  <1> DEFINE A == ~ready /\ ready' =>
                    /\ \A t \in Threads : ~Bare(t)' /\ ~Misplaced(t)'
                    /\ listing' = Stored' /\ trash' = {}
  <1>4. LayoutInv /\ [Next]_vars => [A]_lvars
    <2> SUFFICES ASSUME LayoutInv, [Next]_vars, ~ready, ready'
                 PROVE  /\ \A t \in Threads : ~Bare(t)' /\ ~Misplaced(t)'
                        /\ listing' = Stored' /\ trash' = {}
      OBVIOUS
    <2>1. LNext
      BY DEF Next, vars, layoutVars
    <2> QED BY <2>1, RecoveryStep
  <1> HIDE DEF A
  <1>5. Spec => [][A]_lvars
    BY <1>4, LayoutInvariant, PTL DEF Spec
  <1>6. Spec => RecoveryAligns
    BY <1>5 DEF A, RecoveryAligns
  <1> QED BY <1>3, <1>6 DEF RepairsComplete

-----------------------------------------------------------------------------
(* Memory service: the inductive invariant *)

WorkStates ==
    [status : {"none", "pending", "running"} \cup Terminal, attempts : 0 .. MemoryAttempts, fence : Nat,
     auto : BOOLEAN, through : Nat, origin : SUBSET Origins]
SourceStates ==
    [enabled : BOOLEAN, accepted : Nat, processed : Nat, job : Requests \cup {NoWork}, tried : SUBSET (Nat \X Nat)]
StoreStates ==
    [fence : Nat, strategy : {"basic", "advanced"}, req : [Requests -> WorkStates], deleted : SUBSET Entries,
     suppressed : SUBSET Origins, keys : SUBSET AdminKeys, erased : SUBSET (Requests \cup AdminKeys),
     source : SourceStates]
EntryStates == [log : Seq(Requests \cup AdminKeys), origins : SUBSET Origins]

(* Each change of an entry is named once, and was decided.                 *)
LogsBacked(st, es) ==
    \A e \in Entries :
        /\ IsInjective(es[e].log)
        /\ \A i \in DOMAIN es[e].log :
              \/ es[e].log[i] \in st.keys
              \/ es[e].log[i] \in Requests /\ st.req[es[e].log[i]].status = "applied"

(* What was decided is in an entry, or was deleted with it.                *)
AppliedKept(st, es) ==
    \A r \in Requests : st.req[r].status = "applied" =>
        r \in st.erased \/ \E e \in Entries : r \in Range(es[e].log)

RunningOnce(st) == \A r, q \in Requests : st.req[r].status = "running" /\ st.req[q].status = "running" => r = q
NoneRunning(st) == \A r \in Requests : st.req[r].status # "running"
AttemptsLeft(st) == \A r \in Requests : st.req[r].status \in {"none", "pending"} => st.req[r].attempts < MemoryAttempts

CursorBacked(st, changes) ==
    st.source.processed > 0 =>
        changes > 0 \/ \E r \in Requests : /\ st.req[r].auto /\ st.req[r].through = st.source.processed
                                           /\ st.req[r].status \in {"applied", "no_change"}

DeletedAbsent(st, es) == \A e \in st.deleted : es[e] = NoEntry

(* What is committed in the files is a whole number of calls.              *)
Whole(st, es, changes) ==
    /\ st \in StoreStates /\ es \in [Entries -> EntryStates]
    /\ LogsBacked(st, es) /\ AppliedKept(st, es) /\ DeletedAbsent(st, es)
    /\ RunningOnce(st) /\ AttemptsLeft(st) /\ CursorBacked(st, changes)

Intents ==
    [writes : UNION {[D -> EntryStates] : D \in SUBSET Entries}, deletes : SUBSET Entries, state : StoreStates]

(* The store that answers calls works on what the files hold; an intent in *)
(* publication is found in the files before it is removed.                 *)
MemoryFollows ==
    /\ publishing # "no" => intentFile # NoIntent /\ phase # "down"
    /\ publishing = "unlink" => stateFile = intentFile.state /\ entryFiles = KnownEntries
    /\ Calls => stateMem = stateFile /\ entriesMem = entryFiles
    /\ phase = "opening" /\ intentFile = NoIntent => stateMem = stateFile

MemoryInv ==
    /\ stateFile \in StoreStates /\ stateMem \in StoreStates
    /\ entryFiles \in [Entries -> EntryStates] /\ entriesMem \in [Entries -> EntryStates]
    /\ intentFile # NoIntent => intentFile \in Intents
    /\ held \subseteq Requests \X Nat /\ reconfigs \in Nat
    /\ phase \in {"down", "opening", "up"} /\ publishing \in {"no", "entries", "unlink"}
    /\ MemoryFollows
    /\ Whole(KnownState, KnownEntries, reconfigs)

-----------------------------------------------------------------------------
(* Lemmas on the operators of the service *)

(* The states the operations of the service compute from a state.          *)
Proposed(st, r, o) == [st EXCEPT !.req[r] = NewRequest(st, FALSE, 0, {o})]
Claimed(st, r) == [st EXCEPT !.req[r] = Assign(st, r)]
Contributed(st) == [st EXCEPT !.source.accepted = @ + 1]
Boundary(src) ==
    [NewSource EXCEPT !.enabled = ~src.enabled, !.accepted = src.accepted, !.processed = src.accepted]
Reattached(st) ==
    [st EXCEPT !.source = Boundary(st.source),
               !.req = [r \in Requests |-> IF r = st.source.job /\ r \in OpenIn(st) THEN Settle(st.req[r], "rejected")
                                                                                   ELSE st.req[r]]]
Superseded(st, k) == [Supersede(st) EXCEPT !.keys = @ \cup {k}]
Allowed(st, k, es, os) == [Superseded(st, k) EXCEPT !.deleted = @ \ es, !.suppressed = @ \ os]
Consolidated(st, r, e) == [Erase(Decided(st, r, "applied"), {e}) EXCEPT !.erased = @ \cup {r}]

(* t moves requests of st without deciding one.                            *)
Requeues(st, t, before, after) ==
    /\ t \in StoreStates /\ after >= before
    /\ t.keys = st.keys /\ t.erased = st.erased /\ t.deleted = st.deleted
    /\ t.source.processed = st.source.processed \/ after > 0
    /\ \A r \in Requests :
         /\ t.req[r].status = "applied" => st.req[r].status = "applied"
         /\ st.req[r].status \in {"applied", "no_change"} =>
              /\ t.req[r].status = st.req[r].status
              /\ t.req[r].auto = st.req[r].auto /\ t.req[r].through = st.req[r].through
    /\ RunningOnce(t) /\ AttemptsLeft(t)

(* What is whole stays whole when requests are moved.                      *)
LEMMA RequeuedWhole ==
    ASSUME NEW st, NEW t, NEW es, NEW before \in Nat, NEW after \in Nat,
           Whole(st, es, before), Requeues(st, t, before, after)
    PROVE  Whole(t, es, after)
<1> USE DEF Whole, Requeues
<1>1. LogsBacked(t, es)
  BY DEF LogsBacked
<1>2. AppliedKept(t, es)
  BY DEF AppliedKept
<1>3. DeletedAbsent(t, es)
  BY DEF DeletedAbsent
<1>4. CursorBacked(t, after)
  <2>1. CASE t.source.processed = st.source.processed
    <3>1. t.source.processed > 0 /\ ~(before > 0) => 
            \E r \in Requests : /\ t.req[r].auto /\ t.req[r].through = t.source.processed
                                /\ t.req[r].status \in {"applied", "no_change"}
      BY <2>1 DEF CursorBacked
    <3>2. QED
      BY <3>1 DEF CursorBacked
  <2>2. QED
    BY <2>1 DEF CursorBacked
<1>5. QED
  BY <1>1, <1>2, <1>3, <1>4

(* Types of the records of the service.                                    *)
LEMMA StoreFields ==
    ASSUME NEW st \in StoreStates
    PROVE  /\ st.req \in [Requests -> WorkStates] /\ st.source \in SourceStates
           /\ \A r \in Requests : st.req[r] \in WorkStates
           /\ st.fence \in Nat /\ st.strategy \in {"basic", "advanced"} /\ st.deleted \subseteq Entries
           /\ st.suppressed \subseteq Origins /\ st.keys \subseteq AdminKeys
           /\ st.erased \subseteq Requests \cup AdminKeys
BY DEF StoreStates

(* Settling a request keeps its other fields.                              *)
LEMMA Settled ==
    ASSUME NEW q \in WorkStates, NEW status \in {"none", "pending", "running"} \cup Terminal
    PROVE  /\ Settle(q, status) \in WorkStates /\ Settle(q, status).status = status
           /\ Settle(q, status).auto = q.auto /\ Settle(q, status).through = q.through
           /\ Settle(q, status).attempts = q.attempts /\ Settle(q, status).origin = q.origin
BY DEF Settle, WorkStates, Terminal

(* A change of strategy drops open automatic requests.                     *)
LEMMA StrategyRequeues ==
    ASSUME NEW st \in StoreStates, RunningOnce(st), AttemptsLeft(st), NEW n \in Nat
    PROVE  Requeues(st, ChangeStrategy(st), n, n + 1)
<1> DEFINE dropped == {r \in OpenIn(st) : st.req[r].auto}
           t == ChangeStrategy(st)
           keeps(r) == IF r \in dropped THEN Settle(st.req[r], "rejected") ELSE st.req[r]
<1>1. t.req = [r \in Requests |-> keeps(r)]
  BY StoreFields DEF ChangeStrategy, StoreStates
<1>2. /\ t.keys = st.keys /\ t.erased = st.erased /\ t.deleted = st.deleted
      /\ t.source.processed = st.source.processed
      /\ t.fence \in Nat /\ t.strategy \in {"basic", "advanced"} /\ t.source \in SourceStates
  BY DEF ChangeStrategy, StoreStates, SourceStates
<1>3. \A r \in Requests : /\ keeps(r) \in WorkStates
                          /\ r \notin dropped => keeps(r) = st.req[r]
                          /\ r \in dropped => /\ keeps(r).status = "rejected"
                                              /\ st.req[r].status \in {"pending", "running"}
  BY StoreFields, Settled DEF Terminal, OpenIn
<1>4. t \in StoreStates
  <2>1. t.req \in [Requests -> WorkStates]
    BY <1>1, <1>3
  <2>2. QED
    BY <1>2, <2>1, StoreFields DEF ChangeStrategy, StoreStates
<1>5. \A r \in Requests : t.req[r] = keeps(r)
  BY <1>1
<1> HIDE DEF t, keeps, dropped
<1>6. RunningOnce(t) /\ AttemptsLeft(t)
  BY <1>3, <1>5 DEF RunningOnce, AttemptsLeft
<1>7. QED
  BY <1>2, <1>3, <1>4, <1>5, <1>6 DEF Requeues, t

(* New work has the type of a request.                                     *)
LEMMA NewRequestTyped ==
    ASSUME NEW st \in StoreStates, NEW auto \in BOOLEAN, NEW through \in Nat, NEW origin \in SUBSET Origins
    PROVE  /\ NewRequest(st, auto, through, origin) \in WorkStates
           /\ NewRequest(st, auto, through, origin).status = "pending"
           /\ NewRequest(st, auto, through, origin).attempts = 0
BY StoreFields, MemoryBounds DEF NewRequest, WorkStates

(* A request put into the state of new work, with nothing tried.           *)
LEMMA NewWorkRequeues ==
    ASSUME NEW st \in StoreStates, RunningOnce(st), AttemptsLeft(st), NEW n \in Nat, NEW r \in Requests,
           st.req[r].status = "none", NEW t \in StoreStates, NEW work \in WorkStates,
           work.status = "pending", work.attempts = 0, t.req = [st.req EXCEPT ![r] = work],
           t.keys = st.keys, t.erased = st.erased, t.deleted = st.deleted,
           t.source.processed = st.source.processed
    PROVE  Requeues(st, t, n, n)
<1>1. \A q \in Requests : t.req[q] = IF q = r THEN work ELSE st.req[q]
  BY StoreFields
<1>2. RunningOnce(t)
  BY <1>1 DEF RunningOnce
<1>3. AttemptsLeft(t)
  BY <1>1, MemoryBounds DEF AttemptsLeft
<1>4. QED
  BY <1>1, <1>2, <1>3 DEF Requeues

(* History is scheduled as a new request.                                  *)
LEMMA ScheduleRequeues ==
    ASSUME NEW st \in StoreStates, RunningOnce(st), AttemptsLeft(st), NEW n \in Nat, NEW r \in Requests,
           st.req[r].status = "none"
    PROVE  Requeues(st, Schedule(st, r), n, n)
<1> DEFINE work == NewRequest(st, TRUE, st.source.accepted, Origins \ st.suppressed)
           t == Schedule(st, r)
<1>1. work \in WorkStates /\ work.status = "pending" /\ work.attempts = 0
  <2>1. st.source.accepted \in Nat
    BY StoreFields DEF SourceStates
  <2>2. QED
    BY <2>1, NewRequestTyped
<1>2. t.req = [st.req EXCEPT ![r] = work]
  BY StoreFields DEF Schedule, StoreStates
<1>3. /\ t.keys = st.keys /\ t.erased = st.erased /\ t.deleted = st.deleted
      /\ t.source.processed = st.source.processed /\ t.source \in SourceStates
      /\ t.fence = st.fence /\ t.strategy = st.strategy /\ t.suppressed = st.suppressed
  <2>1. <<st.source.processed, st.source.accepted>> \in Nat \X Nat /\ st.source.tried \subseteq Nat \X Nat
    BY StoreFields DEF SourceStates
  <2>2. QED
    BY <2>1 DEF Schedule, StoreStates, SourceStates
<1>4. t \in StoreStates
  <2>1. t.req \in [Requests -> WorkStates]
    BY <1>1, <1>2, StoreFields
  <2>2. QED
    BY <1>3, <2>1, StoreFields DEF Schedule, StoreStates
<1> HIDE DEF t, work
<1>5. Requeues(st, t, n, n)
  BY <1>1, <1>2, <1>3, <1>4, NewWorkRequeues
<1>6. QED
  BY <1>5 DEF t

(* A proposal is a new request.                                            *)
LEMMA ProposeRequeues ==
    ASSUME NEW st \in StoreStates, RunningOnce(st), AttemptsLeft(st), NEW n \in Nat, NEW r \in Requests,
           st.req[r].status = "none", NEW o \in Origins
    PROVE  Requeues(st, Proposed(st, r, o), n, n)
<1> DEFINE work == NewRequest(st, FALSE, 0, {o})
           t == [st EXCEPT !.req[r] = work]
<1>1. work \in WorkStates /\ work.status = "pending" /\ work.attempts = 0
  <2>1. {o} \in SUBSET Origins /\ 0 \in Nat /\ FALSE \in BOOLEAN
    OBVIOUS
  <2>2. QED
    BY <2>1, NewRequestTyped
<1> HIDE DEF work
<1>2. t.req = [st.req EXCEPT ![r] = work]
  BY StoreFields DEF StoreStates
<1>3. /\ t.keys = st.keys /\ t.erased = st.erased /\ t.deleted = st.deleted /\ t.source = st.source
      /\ t \in StoreStates
  BY <1>1, StoreFields DEF StoreStates
<1> HIDE DEF t
<1>4. Requeues(st, t, n, n)
  BY <1>1, <1>2, <1>3, NewWorkRequeues DEF work
<1>5. QED
  BY <1>4 DEF Proposed, t, work

(* Running work is withdrawn: pending again, or failed.                    *)
LEMMA RetryRequeues ==
    ASSUME NEW st \in StoreStates, RunningOnce(st), AttemptsLeft(st), NEW n \in Nat,
           NEW rs \in SUBSET Requests, \A r \in rs : st.req[r].status = "running"
    PROVE  /\ Requeues(st, Retry(st, rs), n, n)
           /\ rs = RunningIn(st) => NoneRunning(Retry(st, rs))
<1> DEFINE spent == {r \in rs : st.req[r].attempts >= MemoryAttempts}
           t == Retry(st, rs)
           keeps(r) == IF r \in spent THEN Settle(st.req[r], "failed")
                      ELSE IF r \in rs THEN Settle(st.req[r], "pending") ELSE st.req[r]
<1>1. t.req = [r \in Requests |-> keeps(r)]
  BY StoreFields DEF Retry, StoreStates
<1>2. /\ t.keys = st.keys /\ t.erased = st.erased /\ t.deleted = st.deleted
      /\ t.source.processed = st.source.processed
      /\ t.fence = st.fence /\ t.strategy = st.strategy /\ t.suppressed = st.suppressed
      /\ t.source \in SourceStates
  BY DEF Retry, StoreStates, SourceStates
<1>3. \A r \in Requests :
        /\ keeps(r) \in WorkStates
        /\ r \notin rs => keeps(r) = st.req[r]
        /\ r \in rs => /\ keeps(r).status \in {"failed", "pending"}
                       /\ keeps(r).status = "pending" => keeps(r).attempts < MemoryAttempts
  <2> TAKE r \in Requests
  <2>1. st.req[r] \in WorkStates /\ st.req[r].attempts \in 0 .. MemoryAttempts
    BY StoreFields DEF WorkStates
  <2>2. CASE r \in spent
    BY <2>1, <2>2, Settled DEF Terminal
  <2>3. CASE r \in rs \ spent
    <3>1. keeps(r) = Settle(st.req[r], "pending") /\ st.req[r].attempts < MemoryAttempts
      BY <2>1, <2>3, MemoryBounds
    <3>2. QED
      BY <2>1, <2>3, <3>1, Settled DEF Terminal
  <2>4. QED
    BY <2>1, <2>2, <2>3
<1>4. t \in StoreStates
  <2>1. t.req \in [Requests -> WorkStates]
    BY <1>1, <1>3
  <2>2. QED
    BY <1>2, <2>1, StoreFields DEF Retry, StoreStates
<1>5. \A r \in Requests : t.req[r] = keeps(r)
  BY <1>1
<1> HIDE DEF t, keeps, spent
<1>6. RunningOnce(t) /\ AttemptsLeft(t)
  BY <1>3, <1>5 DEF RunningOnce, AttemptsLeft
<1>7. rs = RunningIn(st) => NoneRunning(t)
  BY <1>3, <1>5 DEF NoneRunning, RunningIn
<1>8. QED
  BY <1>2, <1>3, <1>4, <1>5, <1>6, <1>7 DEF Requeues, t

(* When nothing runs, a pending request may be assigned.                   *)
LEMMA AssignRequeues ==
    ASSUME NEW st \in StoreStates, NoneRunning(st), AttemptsLeft(st), NEW n \in Nat, NEW r \in Requests,
           st.req[r].status = "pending"
    PROVE  Requeues(st, Claimed(st, r), n, n) /\ Claimed(st, r).req[r].attempts \in Nat
<1> DEFINE work == Assign(st, r)
           t == Claimed(st, r)
<1>1. st.req[r] \in WorkStates /\ st.req[r].attempts < MemoryAttempts
  BY StoreFields DEF AttemptsLeft
<1>2. work \in WorkStates /\ work.status = "running" /\ work.attempts \in Nat
  <2>1. /\ Settle(st.req[r], "running") \in WorkStates /\ Settle(st.req[r], "running").status = "running"
        /\ Settle(st.req[r], "running").attempts = st.req[r].attempts
    BY <1>1, Settled
  <2>2. st.req[r].attempts + 1 \in 0 .. MemoryAttempts /\ st.fence \in Nat
    BY <1>1, StoreFields, MemoryBounds DEF WorkStates
  <2>3. work = [Settle(st.req[r], "running") EXCEPT !.attempts = st.req[r].attempts + 1, !.fence = st.fence]
    BY <2>1 DEF Assign
  <2> DEFINE q == Settle(st.req[r], "running")
             more == st.req[r].attempts + 1
             f == st.fence
  <2> HIDE DEF q, more, f
  <2>4. [q EXCEPT !.attempts = more, !.fence = f].attempts = more
    BY <2>1 DEF WorkStates, q
  <2>5. [q EXCEPT !.attempts = more, !.fence = f] \in WorkStates
    BY <2>1, <2>2 DEF WorkStates, q, more, f
  <2>6. [q EXCEPT !.attempts = more, !.fence = f].status = "running"
    BY <2>1 DEF WorkStates, q
  <2>7. more \in Nat
    BY <2>2, MemoryBounds DEF more
  <2>8. QED
    BY <2>3, <2>4, <2>5, <2>6, <2>7 DEF q, more, f
<1> HIDE DEF work
<1>3. t = [st EXCEPT !.req[r] = work]
  BY DEF work, Claimed
<1> HIDE DEF t
<1>4. /\ t.req = [st.req EXCEPT ![r] = work] /\ t.keys = st.keys /\ t.erased = st.erased
      /\ t.deleted = st.deleted /\ t.source = st.source /\ t \in StoreStates
  BY <1>2, <1>3, StoreFields DEF StoreStates
<1>5. \A q \in Requests : t.req[q] = IF q = r THEN work ELSE st.req[q]
  BY <1>4, StoreFields
<1>6. RunningOnce(t) /\ AttemptsLeft(t)
  BY <1>2, <1>5 DEF RunningOnce, AttemptsLeft, NoneRunning
<1>7. QED
  BY <1>2, <1>4, <1>5, <1>6 DEF Requeues, t

(* History grows.                                                          *)
LEMMA ContributeRequeues ==
    ASSUME NEW st \in StoreStates, RunningOnce(st), AttemptsLeft(st), NEW n \in Nat
    PROVE  Requeues(st, Contributed(st), n, n)
<1> DEFINE t == Contributed(st)
<1>1. /\ t.req = st.req /\ t.keys = st.keys /\ t.erased = st.erased /\ t.deleted = st.deleted
      /\ t.source.processed = st.source.processed /\ t \in StoreStates
  <2>1. t.source \in SourceStates /\ t.source.processed = st.source.processed
    BY DEF StoreStates, SourceStates, Contributed
  <2>2. QED
    BY <2>1 DEF StoreStates, Contributed
<1>2. QED
  BY <1>1 DEF Requeues, RunningOnce, AttemptsLeft

(* Participation restarts the source and drops its job.                    *)
LEMMA ParticipationRequeues ==
    ASSUME NEW st \in StoreStates, RunningOnce(st), AttemptsLeft(st), NEW n \in Nat
    PROVE  Requeues(st, Reattached(st), n, n + 1)
<1> DEFINE t == Reattached(st)
           boundary == Boundary(st.source)
           keeps(r) == IF r = st.source.job /\ r \in OpenIn(st) THEN Settle(st.req[r], "rejected") ELSE st.req[r]
<1>1. boundary \in SourceStates
  BY DEF NewSource, StoreStates, SourceStates, Boundary
<1>2. /\ t.req = [r \in Requests |-> keeps(r)] /\ t.keys = st.keys /\ t.erased = st.erased
      /\ t.deleted = st.deleted /\ t.source = boundary
  BY DEF StoreStates, Reattached
<1>3. \A r \in Requests : /\ keeps(r) \in WorkStates
                          /\ keeps(r) = st.req[r] \/ /\ keeps(r).status = "rejected"
                                                     /\ st.req[r].status \in {"pending", "running"}
  BY StoreFields, Settled DEF Terminal, OpenIn
<1>4. t \in StoreStates
  <2>1. t.req \in [Requests -> WorkStates]
    BY <1>2, <1>3
  <2>2. QED
    BY <1>1, <1>2, <2>1, StoreFields DEF StoreStates, Reattached
<1>5. \A r \in Requests : t.req[r] = keeps(r)
  BY <1>2
<1> HIDE DEF keeps, t
<1>6. RunningOnce(t) /\ AttemptsLeft(t)
  BY <1>3, <1>5 DEF RunningOnce, AttemptsLeft
<1>7. QED
  BY <1>2, <1>3, <1>4, <1>5, <1>6 DEF Requeues, t

(* What Whole says of the work of a state.                                 *)
WorkHolds(st, changes) == RunningOnce(st) /\ AttemptsLeft(st) /\ CursorBacked(st, changes)

(* t ends work of st, or leaves it as it is.                               *)
EndsWork(st, t) ==
    /\ t.source.processed = st.source.processed
    /\ \A r \in Requests :
         /\ \/ t.req[r].status = st.req[r].status /\ t.req[r].attempts = st.req[r].attempts
            \/ t.req[r].status \in Terminal
         /\ t.req[r].status = "applied" => st.req[r].status = "applied"
         /\ st.req[r].status \in {"applied", "no_change"} =>
              /\ t.req[r].status = st.req[r].status
              /\ t.req[r].auto = st.req[r].auto /\ t.req[r].through = st.req[r].through

(* Ended work cannot break what holds of work.                             *)
LEMMA EndedWorkHolds ==
    ASSUME NEW st, NEW t, NEW n \in Nat, WorkHolds(st, n), EndsWork(st, t)
    PROVE  WorkHolds(t, n)
<1>1. RunningOnce(t) /\ AttemptsLeft(t)
  BY DEF WorkHolds, EndsWork, RunningOnce, AttemptsLeft, Terminal
<1>2. CursorBacked(t, n)
  BY DEF WorkHolds, EndsWork, CursorBacked
<1>3. QED
  BY <1>1, <1>2 DEF WorkHolds

(* t has the requests of st, but for r.                                    *)
OthersKept(st, t, r) == \A q \in Requests : q # r => t.req[q] = st.req[q]

(* A decision settles its request and may advance the source.              *)
LEMMA DecidedState ==
    ASSUME NEW st \in StoreStates, NEW r \in Requests, NEW outcome \in {"applied", "no_change", "rejected"},
           NEW t, t = Decided(st, r, outcome), NEW work, work = Settle(st.req[r], outcome)
    PROVE  /\ t \in StoreStates /\ t.keys = st.keys /\ t.erased = st.erased /\ t.deleted = st.deleted
           /\ t.suppressed = st.suppressed
           /\ t.req[r] = work /\ OthersKept(st, t, r)
           /\ \/ t.source.processed = st.source.processed
              \/ /\ outcome \in {"applied", "no_change"} /\ work.auto
                 /\ t.source.processed = work.through
<1> DEFINE s == [st EXCEPT !.req[r] = work]
<1>1. work \in WorkStates /\ work.auto = st.req[r].auto /\ work.through = st.req[r].through
  BY StoreFields, Settled DEF Terminal
<1>2. t = AdvanceSource(s, r, outcome)
  BY DEF Decided
<1>3. /\ s \in StoreStates /\ s.keys = st.keys /\ s.erased = st.erased /\ s.deleted = st.deleted
      /\ s.suppressed = st.suppressed /\ s.source = st.source
      /\ s.req = [st.req EXCEPT ![r] = work]
  BY <1>1, StoreFields DEF StoreStates
<1>4. s.req[r] = work /\ \A q \in Requests : s.req[q] = IF q = r THEN work ELSE st.req[q]
  BY <1>3, StoreFields
<1> HIDE DEF s
<1>5. \/ t = s
      \/ t = [s EXCEPT !.source.job = NoWork]
      \/ /\ t = [s EXCEPT !.source.processed = s.req[r].through, !.source.job = NoWork]
         /\ outcome \in {"applied", "no_change"} /\ s.req[r].auto
  BY <1>2 DEF AdvanceSource, ReleaseSource
<1>6. CASE t = s
  BY <1>3, <1>4, <1>6 DEF OthersKept
<1>7. CASE t = [s EXCEPT !.source.job = NoWork]
  <2>1. t.source \in SourceStates /\ t.source.processed = s.source.processed
    BY <1>3, <1>7 DEF StoreStates, SourceStates
  <2>2. /\ t.req = s.req /\ t.keys = s.keys /\ t.erased = s.erased /\ t.deleted = s.deleted
        /\ t.suppressed = s.suppressed
    BY <1>3, <1>7 DEF StoreStates
  <2>3. t \in StoreStates
    BY <2>1, <1>3, <1>7 DEF StoreStates
  <2>4. QED
    BY <1>3, <1>4, <2>1, <2>2, <2>3 DEF OthersKept
<1>8. CASE /\ t = [s EXCEPT !.source.processed = s.req[r].through, !.source.job = NoWork]
           /\ outcome \in {"applied", "no_change"} /\ s.req[r].auto
  <2>1. s.req[r] = work /\ s.req[r].through \in Nat
    BY <1>1, <1>4 DEF WorkStates
  <2> DEFINE through == s.req[r].through
  <2> HIDE DEF through
  <2>source. t.source = [s.source EXCEPT !.processed = through, !.job = NoWork]
    BY <1>3, <1>8 DEF StoreStates, through
  <2>upto. through \in Nat /\ through = work.through
    BY <2>1 DEF through
  <2>2. t.source \in SourceStates /\ t.source.processed = work.through
    BY <1>3, <2>source, <2>upto DEF StoreStates, SourceStates
  <2>3. /\ t.req = s.req /\ t.keys = s.keys /\ t.erased = s.erased /\ t.deleted = s.deleted
        /\ t.suppressed = s.suppressed
    BY <1>3, <1>8 DEF StoreStates
  <2>4. t \in StoreStates
    BY <2>2, <1>3, <1>8 DEF StoreStates
  <2>5. work.auto
    BY <1>8, <2>1
  <2>6. QED
    BY <1>1, <1>3, <1>4, <1>8, <2>2, <2>3, <2>4, <2>5 DEF OthersKept
<1>9. QED
  BY <1>5, <1>6, <1>7, <1>8

(* The work of a state holds when one running request is decided.          *)
LEMMA DecidedWorkHolds ==
    ASSUME NEW st \in StoreStates, NEW n \in Nat, WorkHolds(st, n), NEW r \in Requests,
           st.req[r].status = "running", NEW outcome \in {"applied", "no_change", "rejected"}
    PROVE  WorkHolds(Decided(st, r, outcome), n)
<1> DEFINE t == Decided(st, r, outcome)
           work == Settle(st.req[r], outcome)
<1>0. t = Decided(st, r, outcome) /\ work = Settle(st.req[r], outcome)
  OBVIOUS
<1> HIDE DEF t, work
<1>1. /\ \A q \in Requests : t.req[q] = IF q = r THEN work ELSE st.req[q]
      /\ \/ t.source.processed = st.source.processed
         \/ /\ outcome \in {"applied", "no_change"} /\ work.auto
            /\ t.source.processed = work.through
  <2>1. t.req[r] = work
    BY <1>0, DecidedState
  <2>others. OthersKept(st, t, r)
    BY <1>0, DecidedState
  <2>2. \/ t.source.processed = st.source.processed
        \/ /\ outcome \in {"applied", "no_change"} /\ work.auto
           /\ t.source.processed = work.through
    BY <1>0, DecidedState
  <2>3. QED
    BY <2>1, <2>2, <2>others DEF OthersKept
<1>2. work.status = outcome /\ work.auto = st.req[r].auto /\ work.through = st.req[r].through
  BY <1>0, StoreFields, Settled DEF Terminal
<1>3. RunningOnce(t) /\ AttemptsLeft(t)
  BY <1>1, <1>2 DEF WorkHolds, RunningOnce, AttemptsLeft
<1>4. CASE t.source.processed = st.source.processed
  <2>1. CursorBacked(t, n)
    BY <1>1, <1>2, <1>4 DEF WorkHolds, CursorBacked
  <2>2. QED
    BY <1>3, <2>1 DEF WorkHolds, t
<1>5. CASE /\ outcome \in {"applied", "no_change"} /\ work.auto
           /\ t.source.processed = work.through
  <2>1. t.req[r].auto /\ t.req[r].through = t.source.processed /\ t.req[r].status \in {"applied", "no_change"}
    BY <1>1, <1>2, <1>5
  <2>2. CursorBacked(t, n)
    BY <2>1 DEF CursorBacked
  <2>3. QED
    BY <1>3, <2>2 DEF WorkHolds, t
<1>6. QED
  BY <1>1, <1>4, <1>5

(* Appending what is new keeps a log injective.                            *)
LEMMA AppendedLog ==
    ASSUME NEW S, NEW log \in Seq(S), NEW who \in S, IsInjective(log), \A i \in DOMAIN log : log[i] # who
    PROVE  /\ Append(log, who) \in Seq(S) /\ IsInjective(Append(log, who))
           /\ Range(Append(log, who)) = Range(log) \cup {who}
           /\ \A i \in DOMAIN Append(log, who) : \/ i \in DOMAIN log /\ Append(log, who)[i] = log[i]
                                                 \/ Append(log, who)[i] = who
<1>1. /\ DOMAIN log = 1 .. Len(log) /\ DOMAIN Append(log, who) = 1 .. Len(log) + 1 /\ Len(log) \in Nat
      /\ Append(log, who)[Len(log) + 1] = who
      /\ \A i \in 1 .. Len(log) : Append(log, who)[i] = log[i]
      /\ Append(log, who) \in Seq(S)
  OBVIOUS
<1>2. IsInjective(Append(log, who))
  BY <1>1 DEF IsInjective
<1>3. Range(Append(log, who)) = Range(log) \cup {who}
  BY <1>1 DEF Range
<1>4. QED
  BY <1>1, <1>2, <1>3

(* fs has the entries of es, but for a replaced one; a change adds its     *)
(* name to the log of the entry.                                           *)
Rewritten(fs, es, e, new) ==
    fs \in [Entries -> EntryStates] /\ \A x \in Entries : fs[x] = IF x = e THEN new ELSE es[x]
Logged(es, e, who, o) == [log |-> Append(es[e].log, who), origins |-> o]

(* A decision that writes an entry keeps the files whole.                  *)
LEMMA WrittenWhole ==
    ASSUME NEW st, NEW es, NEW n \in Nat, Whole(st, es, n), NEW t \in StoreStates, WorkHolds(t, n),
           st.keys \subseteq t.keys, st.erased \subseteq t.erased, t.deleted = st.deleted,
           NEW e \in Entries, e \notin st.deleted, NEW who \in Requests \cup AdminKeys, NEW o \in SUBSET Origins,
           \A i \in DOMAIN es[e].log : es[e].log[i] # who,
           who \in t.keys \/ (who \in Requests /\ t.req[who].status = "applied"),
           \A r \in Requests : st.req[r].status = "applied" => t.req[r].status = "applied",
           \A r \in Requests : t.req[r].status = "applied" => st.req[r].status = "applied" \/ r = who,
           NEW fs, Rewritten(fs, es, e, Logged(es, e, who, o))
    PROVE  Whole(t, fs, n)
<1> DEFINE S == Requests \cup AdminKeys
<1> USE DEF Whole
<1>0. /\ fs \in [Entries -> EntryStates] /\ fs[e].log = Append(es[e].log, who)
      /\ \A x \in Entries : x # e => fs[x] = es[x]
  BY DEF Rewritten, Logged
<1>1. es[e].log \in Seq(S) /\ IsInjective(es[e].log)
  BY DEF EntryStates, LogsBacked
<1>2. fs[e].log = Append(es[e].log, who)
  BY <1>0
<1> DEFINE old == es[e].log
<1> HIDE DEF old
<1>3. /\ IsInjective(fs[e].log) /\ Range(fs[e].log) = Range(old) \cup {who}
      /\ \A i \in DOMAIN fs[e].log : (i \in DOMAIN old /\ fs[e].log[i] = old[i]) \/ fs[e].log[i] = who
  BY <1>1, <1>2, AppendedLog DEF old
<1>4. LogsBacked(t, fs)
  <2> SUFFICES ASSUME NEW x \in Entries
               PROVE  /\ IsInjective(fs[x].log)
                      /\ \A i \in DOMAIN fs[x].log :
                            \/ fs[x].log[i] \in t.keys
                            \/ fs[x].log[i] \in Requests /\ t.req[fs[x].log[i]].status = "applied"
    BY DEF LogsBacked
  <2>1. CASE x = e
    <3>1. \A i \in DOMAIN old :
            old[i] \in t.keys \/ (old[i] \in Requests /\ t.req[old[i]].status = "applied")
      <4> TAKE i \in DOMAIN old
      <4>1. old[i] \in st.keys \/ (old[i] \in Requests /\ st.req[old[i]].status = "applied")
        BY DEF LogsBacked, old
      <4>2. QED
        BY <4>1
    <3>2. QED
      BY <1>3, <2>1, <3>1
  <2>2. CASE x # e
    BY <1>0, <2>2 DEF LogsBacked
  <2>3. QED
    BY <2>1, <2>2
<1>5. AppliedKept(t, fs)
  <2> SUFFICES ASSUME NEW r \in Requests, t.req[r].status = "applied"
               PROVE  r \in t.erased \/ \E x \in Entries : r \in Range(fs[x].log)
    BY DEF AppliedKept
  <2>1. CASE r = who
    BY <2>1, <1>3
  <2>2. CASE st.req[r].status = "applied"
    BY <1>0, <2>2, <1>3 DEF AppliedKept, old
  <2>3. QED
    BY <2>1, <2>2
<1>6. DeletedAbsent(t, fs)
  BY <1>0, StoreFields DEF DeletedAbsent
<1>7. QED
  BY <1>0, <1>4, <1>5, <1>6 DEF WorkHolds

(* A decision that deletes entries keeps the files whole when the changes  *)
(* they held are erased with them.                                         *)
LEMMA DeletedWhole ==
    ASSUME NEW st, NEW es, NEW n \in Nat, Whole(st, es, n), NEW t \in StoreStates, WorkHolds(t, n),
           NEW deletes \in SUBSET Entries,
           st.keys \subseteq t.keys, st.erased \subseteq t.erased, t.deleted \subseteq st.deleted \cup deletes,
           \A e \in deletes : Range(es[e].log) \subseteq t.erased,
           \A r \in Requests : st.req[r].status = "applied" => t.req[r].status = "applied",
           \A r \in Requests : t.req[r].status = "applied" => st.req[r].status = "applied" \/ r \in t.erased,
           NEW fs \in [Entries -> EntryStates],
           \A x \in Entries : fs[x] = IF x \in deletes THEN NoEntry ELSE es[x]
    PROVE  Whole(t, fs, n)
<1> USE DEF Whole
<1>1. NoEntry.log = <<>> /\ IsInjective(<<>>) /\ DOMAIN <<>> = {}
  BY DEF NoEntry, IsInjective
<1>2. LogsBacked(t, fs)
  BY <1>1 DEF LogsBacked
<1>3. AppliedKept(t, fs)
  <2> SUFFICES ASSUME NEW r \in Requests, st.req[r].status = "applied", r \notin t.erased
               PROVE  \E x \in Entries : r \in Range(fs[x].log)
    BY DEF AppliedKept
  <2>1. PICK x \in Entries : r \in Range(es[x].log)
    BY DEF AppliedKept
  <2>2. fs[x] = es[x]
    BY <2>1
  <2>3. QED
    BY <2>1, <2>2
<1>4. DeletedAbsent(t, fs)
  BY StoreFields DEF DeletedAbsent
<1>5. QED
  BY <1>2, <1>3, <1>4 DEF WorkHolds

(* An administration request supersedes unfinished work.                   *)
LEMMA SupersededState ==
    ASSUME NEW st \in StoreStates, NEW k \in AdminKeys
    PROVE  /\ Superseded(st, k) \in StoreStates /\ EndsWork(st, Superseded(st, k))
           /\ Superseded(st, k).keys = st.keys \cup {k} /\ Superseded(st, k).erased = st.erased
           /\ Superseded(st, k).deleted = st.deleted /\ Superseded(st, k).suppressed = st.suppressed
<1> DEFINE t == Superseded(st, k)
           keeps(r) == IF r \in OpenIn(st) THEN Settle(st.req[r], "rejected") ELSE st.req[r]
<1>1. t.req = [r \in Requests |-> keeps(r)]
  BY StoreFields DEF Superseded, Supersede, StoreStates
<1>2. /\ t.keys = st.keys \cup {k} /\ t.erased = st.erased /\ t.deleted = st.deleted
      /\ t.suppressed = st.suppressed /\ t.strategy = st.strategy /\ t.fence \in Nat
      /\ t.source.processed = st.source.processed /\ t.source \in SourceStates
  BY DEF Superseded, Supersede, StoreStates, SourceStates
<1>3. \A r \in Requests : /\ keeps(r) \in WorkStates
                          /\ keeps(r) = st.req[r] \/ /\ keeps(r).status = "rejected"
                                                     /\ st.req[r].status \in {"pending", "running"}
  BY StoreFields, Settled DEF Terminal, OpenIn
<1>4. t \in StoreStates
  <2>1. t.req \in [Requests -> WorkStates]
    BY <1>1, <1>3
  <2>2. QED
    BY <1>2, <2>1, StoreFields DEF Superseded, Supersede, StoreStates
<1>5. \A r \in Requests : t.req[r] = keeps(r)
  BY <1>1
<1> HIDE DEF t, keeps
<1>6. EndsWork(st, t)
  BY <1>2, <1>3, <1>5 DEF EndsWork, Terminal
<1>7. QED
  BY <1>2, <1>4, <1>6 DEF t

(* Suppressing origins empties what cites them.                            *)
LEMMA ScrubbedState ==
    ASSUME NEW st \in StoreStates, NEW os \in SUBSET Origins
    PROVE  /\ Scrub(st, os) \in StoreStates /\ EndsWork(st, Scrub(st, os))
           /\ Scrub(st, os).keys = st.keys /\ Scrub(st, os).erased = st.erased
           /\ Scrub(st, os).deleted = st.deleted
<1> DEFINE t == Scrub(st, os)
           empty(q) == [q EXCEPT !.origin = {}]
           keeps(r) == IF st.req[r].origin \cap os # {} THEN empty(st.req[r]) ELSE st.req[r]
<1>1. t.req = [r \in Requests |-> keeps(r)] /\ t.source = st.source
  BY StoreFields DEF Scrub, StoreStates
<1>2. /\ t.keys = st.keys /\ t.erased = st.erased /\ t.deleted = st.deleted
      /\ t.suppressed \subseteq Origins /\ t.strategy = st.strategy /\ t.fence = st.fence
  BY DEF Scrub, StoreStates
<1>3. \A r \in Requests : /\ keeps(r) \in WorkStates /\ keeps(r).status = st.req[r].status
                          /\ keeps(r).attempts = st.req[r].attempts
                          /\ keeps(r).auto = st.req[r].auto /\ keeps(r).through = st.req[r].through
  <2>1. \A q \in WorkStates : /\ empty(q) \in WorkStates /\ empty(q).status = q.status
                              /\ empty(q).attempts = q.attempts
                              /\ empty(q).auto = q.auto /\ empty(q).through = q.through
    BY DEF WorkStates
  <2> HIDE DEF empty
  <2>2. QED
    BY <2>1, StoreFields
<1>4. t \in StoreStates
  <2>1. t.req \in [Requests -> WorkStates]
    BY <1>1, <1>3
  <2>2. QED
    BY <1>1, <1>2, <2>1, StoreFields DEF Scrub, StoreStates
<1>5. \A r \in Requests : t.req[r] = keeps(r)
  BY <1>1
<1> HIDE DEF t, keeps
<1>6. EndsWork(st, t)
  BY <1>1, <1>3, <1>5 DEF EndsWork, Terminal
<1>7. QED
  BY <1>2, <1>4, <1>6 DEF t

(* Forgetting entries names them and erases the changes they held.         *)
LEMMA ForgottenState ==
    ASSUME NEW st \in StoreStates, NEW deletes \in SUBSET Entries, entriesMem \in [Entries -> EntryStates]
    PROVE  /\ Forget(st, deletes) \in StoreStates /\ EndsWork(st, Forget(st, deletes))
           /\ Forget(st, deletes).keys = st.keys /\ st.erased \subseteq Forget(st, deletes).erased
           /\ Forget(st, deletes).deleted = st.deleted \cup deletes
           /\ \A e \in deletes : Range(entriesMem[e].log) \subseteq Forget(st, deletes).erased
<1> DEFINE t == Forget(st, deletes)
           gone == UNION {Range(entriesMem[e].log) : e \in deletes}
<1>1. gone \subseteq Requests \cup AdminKeys
  <2>1. \A e \in Entries : entriesMem[e].log \in Seq(Requests \cup AdminKeys)
    BY DEF EntryStates
  <2>2. QED
    BY <2>1 DEF Range
<1>2. \A e \in deletes : Range(entriesMem[e].log) \subseteq gone
  OBVIOUS
<1>3. t = [[st EXCEPT !.erased = @ \cup gone] EXCEPT !.deleted = @ \cup deletes]
  BY DEF Forget, Erase
<1> HIDE DEF gone
<1>4. /\ t \in StoreStates /\ t.keys = st.keys /\ t.erased = st.erased \cup gone
      /\ t.deleted = st.deleted \cup deletes /\ t.req = st.req /\ t.source = st.source
  <2> DEFINE s == [st EXCEPT !.erased = @ \cup gone]
  <2>1. /\ s \in StoreStates /\ s.keys = st.keys /\ s.erased = st.erased \cup gone
        /\ s.deleted = st.deleted /\ s.req = st.req /\ s.source = st.source
    BY <1>1, StoreFields DEF StoreStates
  <2>2. t = [s EXCEPT !.deleted = @ \cup deletes]
    BY <1>3
  <2> HIDE DEF s
  <2>3. QED
    BY <2>1, <2>2, StoreFields DEF StoreStates
<1> HIDE DEF t
<1>5. EndsWork(st, t)
  BY <1>4 DEF EndsWork
<1>6. QED
  BY <1>2, <1>4, <1>5 DEF t

(* Allowing is superseding with fewer names.                               *)
LEMMA AllowedState ==
    ASSUME NEW st \in StoreStates, NEW k \in AdminKeys, NEW es \in SUBSET Entries, NEW os \in SUBSET Origins
    PROVE  /\ Allowed(st, k, es, os) \in StoreStates /\ EndsWork(st, Allowed(st, k, es, os))
           /\ st.keys \subseteq Allowed(st, k, es, os).keys /\ Allowed(st, k, es, os).erased = st.erased
           /\ Allowed(st, k, es, os).deleted \subseteq st.deleted
<1> DEFINE s == Superseded(st, k)
           t == Allowed(st, k, es, os)
<1>1. /\ s \in StoreStates /\ EndsWork(st, s) /\ s.keys = st.keys \cup {k}
      /\ s.erased = st.erased /\ s.deleted = st.deleted
  BY SupersededState
<1>2. t = [s EXCEPT !.deleted = @ \ es, !.suppressed = @ \ os]
  BY DEF Allowed
<1> HIDE DEF s, t
<1>3. /\ t \in StoreStates /\ t.keys = s.keys /\ t.erased = s.erased /\ t.deleted = s.deleted \ es
      /\ t.req = s.req /\ t.source = s.source
  BY <1>1, <1>2 DEF StoreStates
<1>4. EndsWork(st, t)
  BY <1>1, <1>3 DEF EndsWork
<1>5. QED
  BY <1>1, <1>3, <1>4 DEF t

(* A consolidation erases the request with the entry.                      *)
LEMMA ConsolidatedState ==
    ASSUME NEW st \in StoreStates, NEW n \in Nat, WorkHolds(st, n), NEW r \in Requests,
           st.req[r].status = "running", NEW e \in Entries, entriesMem \in [Entries -> EntryStates]
    PROVE  LET t == Consolidated(st, r, e)
           IN  /\ t \in StoreStates /\ WorkHolds(t, n) /\ t.keys = st.keys /\ st.erased \subseteq t.erased
               /\ t.deleted = st.deleted /\ r \in t.erased /\ Range(entriesMem[e].log) \subseteq t.erased
               /\ t.req[r].status = "applied" /\ OthersKept(st, t, r)
<1> DEFINE s == Decided(st, r, "applied")
           t == Consolidated(st, r, e)
           gone == UNION {Range(entriesMem[x].log) : x \in {e}}
           work == Settle(st.req[r], "applied")
<1>0. s = Decided(st, r, "applied") /\ work = Settle(st.req[r], "applied")
  OBVIOUS
<1>1. work.status = "applied"
  BY StoreFields, Settled DEF Terminal
<1>2. WorkHolds(s, n)
  BY DecidedWorkHolds
<1>3. gone \subseteq Requests \cup AdminKeys /\ Range(entriesMem[e].log) = gone
  <2>1. entriesMem[e].log \in Seq(Requests \cup AdminKeys)
    BY DEF EntryStates
  <2>2. QED
    BY <2>1 DEF Range
<1>4. t = [[s EXCEPT !.erased = @ \cup gone] EXCEPT !.erased = @ \cup {r}]
  BY DEF Consolidated, Erase
<1> HIDE DEF s, t, gone, work
<1>5. /\ s \in StoreStates /\ s.keys = st.keys /\ s.erased = st.erased /\ s.deleted = st.deleted
      /\ s.req[r] = work /\ OthersKept(st, s, r)
  BY <1>0, DecidedState
<1>6. /\ t \in StoreStates /\ t.keys = s.keys /\ t.erased = s.erased \cup gone \cup {r}
      /\ t.deleted = s.deleted /\ t.req = s.req /\ t.source = s.source
  BY <1>3, <1>4, <1>5 DEF StoreStates
<1>7. WorkHolds(t, n)
  BY <1>2, <1>6 DEF WorkHolds, RunningOnce, AttemptsLeft, CursorBacked
<1>8. OthersKept(st, t, r)
  BY <1>5, <1>6 DEF OthersKept
<1>9. QED
  BY <1>1, <1>3, <1>5, <1>6, <1>7, <1>8 DEF t

-----------------------------------------------------------------------------
(* Steps of the Memory service *)

(* What the entries become when the writes of an intent are made.          *)
KnownOf(files, in) ==
    [e \in Entries |-> IF e \in in.deletes THEN NoEntry
                       ELSE IF e \in DOMAIN in.writes THEN in.writes[e] ELSE files[e]]

(* Entries a step adds to cite nothing that is suppressed.                 *)
NothingRelearned ==
    \A e \in Entries : \/ KnownEntries'[e] \in {KnownEntries[e], NoEntry}
                       \/ KnownEntries'[e].origins \cap KnownState'.suppressed = {}

(* Without an intent the entries are the files.                            *)
LEMMA KnownWithoutIntent ==
    ASSUME NEW files \in [Entries -> EntryStates]
    PROVE  KnownOf(files, NoIntent) = files
<1>1. NoIntent.deletes = {} /\ DOMAIN NoIntent.writes = {}
  BY DEF NoIntent
<1>2. QED
  BY <1>1 DEF KnownOf

(* An intent is not the absence of one, and its entries have their type.   *)
LEMMA IntentKnown ==
    ASSUME NEW in \in Intents
    PROVE  /\ in # NoIntent /\ in.state \in StoreStates
           /\ \A files \in [Entries -> EntryStates] : KnownOf(files, in) \in [Entries -> EntryStates]
<1>1. in.state \in StoreStates /\ in.state # NoIntent.state
  <2>1. in.state \in StoreStates
    BY DEF Intents
  <2>2. "fence" \in DOMAIN in.state
    BY <2>1 DEF StoreStates
  <2>3. NoIntent.state = <<>> /\ "fence" \notin DOMAIN <<>>
    BY DEF NoIntent
  <2>4. QED
    BY <2>1, <2>2, <2>3
<1>2. ASSUME NEW files \in [Entries -> EntryStates]
      PROVE  KnownOf(files, in) \in [Entries -> EntryStates]
  <2>1. \A e \in DOMAIN in.writes : in.writes[e] \in EntryStates
    BY DEF Intents
  <2>2. NoEntry \in EntryStates
    BY DEF NoEntry, EntryStates
  <2>3. QED
    BY <2>1, <2>2 DEF KnownOf
<1>3. QED
  BY <1>1, <1>2

(* What the invariant says when a call starts.                             *)
LEMMA AtCalls ==
    ASSUME MemoryInv, Calls
    PROVE  /\ phase = "up" /\ publishing = "no" /\ intentFile = NoIntent
           /\ stateMem = stateFile /\ entriesMem = entryFiles
           /\ stateMem \in StoreStates /\ entriesMem \in [Entries -> EntryStates]
           /\ KnownState = stateMem /\ KnownEntries = entriesMem
           /\ Whole(stateMem, entriesMem, reconfigs) /\ reconfigs \in Nat
<1>1. /\ phase = "up" /\ publishing = "no" /\ intentFile = NoIntent
      /\ stateMem = stateFile /\ entriesMem = entryFiles /\ entryFiles \in [Entries -> EntryStates]
  BY DEF MemoryInv, MemoryFollows, Calls
<1>2. KnownEntries = KnownOf(entryFiles, intentFile)
  BY DEF KnownEntries, KnownOf
<1>3. KnownEntries = entriesMem /\ KnownState = stateMem
  BY <1>1, <1>2, KnownWithoutIntent DEF KnownState
<1>4. QED
  BY <1>1, <1>3 DEF MemoryInv

(* A call that persists a state which is whole.                            *)
LEMMA PersistStep ==
    ASSUME MemoryInv, Calls, NEW t, Persist(t), Whole(t, entriesMem, reconfigs'),
           Whole(stateMem, entriesMem, reconfigs'), reconfigs' \in Nat, held' \subseteq Requests \X Nat,
           UNCHANGED <<entryFiles, intentFile, entriesMem, phase, publishing>>
    PROVE  MemoryInv' /\ NothingRelearned
<1>1. /\ phase = "up" /\ publishing = "no" /\ intentFile = NoIntent
      /\ stateMem = stateFile /\ entriesMem = entryFiles
      /\ stateMem \in StoreStates /\ entriesMem \in [Entries -> EntryStates] /\ KnownEntries = entriesMem
  BY AtCalls
<1>2. t \in StoreStates
  BY DEF Whole
<1>3. stateFile' \in {t, stateFile} /\ stateMem' \in {t, stateMem} /\ (~reloadState' => stateFile' = t /\ stateMem' = t)
  BY DEF Persist, Uncertain
<1>4. KnownEntries' = KnownOf(entryFiles', intentFile')
  BY DEF KnownEntries, KnownOf
<1>5. KnownEntries' = entriesMem /\ KnownState' = stateFile'
  BY <1>1, <1>4, KnownWithoutIntent DEF KnownState
<1>6. Whole(KnownState', KnownEntries', reconfigs')
  BY <1>1, <1>3, <1>5
<1>7. MemoryFollows'
  BY <1>1, <1>3 DEF MemoryFollows, Calls
<1>8. MemoryInv'
  BY <1>1, <1>2, <1>3, <1>6, <1>7 DEF MemoryInv
<1>9. QED
  BY <1>1, <1>5, <1>8 DEF NothingRelearned

(* A call that commits an intent whose outcome is whole.                   *)
LEMMA CommitStep ==
    ASSUME MemoryInv, Calls, NEW t \in StoreStates, NEW w \in UNION {[D -> EntryStates] : D \in SUBSET Entries},
           NEW deletes \in SUBSET Entries, CommitIntent(t, w, deletes),
           NEW fs, fs = KnownOf(entriesMem, [writes |-> w, deletes |-> deletes, state |-> t]),
           Whole(t, fs, reconfigs),
           \A e \in Entries : fs[e] \in {entriesMem[e], NoEntry} \/ fs[e].origins \cap t.suppressed = {}
    PROVE  MemoryInv' /\ NothingRelearned
<1> DEFINE in == [writes |-> w, deletes |-> deletes, state |-> t]
<1>1. /\ phase = "up" /\ publishing = "no" /\ intentFile = NoIntent
      /\ stateMem = stateFile /\ entriesMem = entryFiles
      /\ stateMem \in StoreStates /\ entriesMem \in [Entries -> EntryStates]
      /\ KnownEntries = entriesMem /\ KnownState = stateMem /\ Whole(stateMem, entriesMem, reconfigs)
  BY AtCalls
<1>2. in \in Intents /\ in.state = t
  BY DEF Intents
<1>3. in # NoIntent
  BY <1>2, IntentKnown
<1>4. /\ \/ intentFile' = in /\ publishing' = "entries"
         \/ intentFile' \in {intentFile, in} /\ publishing' = publishing
      /\ UNCHANGED <<stateFile, entryFiles, stateMem, entriesMem, reloadState, phase, held, reconfigs>>
  BY DEF CommitIntent
<1>5. KnownEntries' = KnownOf(entryFiles', intentFile')
  BY DEF KnownEntries, KnownOf
<1> HIDE DEF in
<1>6. CASE intentFile' = in
  <2>1. KnownEntries' = fs /\ KnownState' = t
    BY <1>1, <1>2, <1>3, <1>4, <1>5, <1>6 DEF KnownState, in
  <2>2. MemoryFollows'
    BY <1>1, <1>3, <1>4, <1>6 DEF MemoryFollows, Calls
  <2>3. MemoryInv'
    BY <1>1, <1>2, <1>3, <1>4, <1>6, <2>1, <2>2 DEF MemoryInv
  <2>4. QED
    BY <1>1, <2>1, <2>3 DEF NothingRelearned
<1>7. CASE intentFile' = intentFile /\ publishing' = publishing
  <2>1. KnownEntries' = KnownEntries /\ KnownState' = KnownState
    BY <1>4, <1>7 DEF KnownState, KnownEntries
  <2>2. MemoryFollows'
    BY <1>1, <1>4, <1>7 DEF MemoryFollows, Calls
  <2>3. MemoryInv'
    BY <1>4, <1>7, <2>1, <2>2 DEF MemoryInv
  <2>4. QED
    BY <2>1, <2>3 DEF NothingRelearned
<1>8. QED
  BY <1>4, <1>6, <1>7

(* Scheduling starts nothing.                                              *)
LEMMA ScheduledNone ==
    ASSUME NEW st \in StoreStates, NoneRunning(st), NEW r \in Requests
    PROVE  NoneRunning(Schedule(st, r))
<1> DEFINE work == NewRequest(st, TRUE, st.source.accepted, Origins \ st.suppressed)
<1>1. work.status = "pending"
  BY DEF NewRequest
<1> HIDE DEF work
<1>2. Schedule(st, r).req = [st.req EXCEPT ![r] = work]
  BY DEF Schedule, StoreStates, work
<1>3. QED
  BY <1>1, <1>2, StoreFields DEF NoneRunning

(* A call that moves requests.                                             *)
LEMMA RequeueStep ==
    ASSUME MemoryInv, Calls, NEW t, Persist(t), Requeues(stateMem, t, reconfigs, reconfigs'),
           reconfigs' \in Nat, held' \subseteq Requests \X Nat,
           UNCHANGED <<entryFiles, intentFile, entriesMem, phase, publishing>>
    PROVE  MemoryInv' /\ NothingRelearned
<1>1. Whole(stateMem, entriesMem, reconfigs) /\ reconfigs \in Nat
  BY AtCalls
<1>2. Whole(t, entriesMem, reconfigs')
  BY <1>1, RequeuedWhole
<1>3. Requeues(stateMem, stateMem, reconfigs, reconfigs')
  BY <1>1 DEF Requeues, Whole
<1>4. Whole(stateMem, entriesMem, reconfigs')
  BY <1>1, <1>3, RequeuedWhole
<1>5. QED
  BY <1>2, <1>4, PersistStep

(* Proposals, scheduling, withdrawal, history and participation.           *)
LEMMA RequeueingSteps ==
    ASSUME MemoryInv,
           \/ \E r \in Requests : Propose(r) \/ Maintain(r)
           \/ Revoke \/ Contribute \/ Participation
           \/ \E a \in held : FailWork(a)
    PROVE  MemoryInv' /\ NothingRelearned
<1>1. Calls
  BY DEF Propose, Maintain, Revoke, Contribute, Participation, FailWork
<1>2. /\ stateMem \in StoreStates /\ RunningOnce(stateMem) /\ AttemptsLeft(stateMem) /\ reconfigs \in Nat
      /\ held \subseteq Requests \X Nat
  BY <1>1, AtCalls DEF Whole, MemoryInv
<1>3. ASSUME NEW r \in Requests, Propose(r)
      PROVE  MemoryInv' /\ NothingRelearned
  <2>1. PICK o \in Origins \ stateMem.suppressed : Persist(Proposed(stateMem, r, o))
    BY <1>3 DEF Propose, Proposed
  <2>2. Requeues(stateMem, Proposed(stateMem, r, o), reconfigs, reconfigs')
    BY <1>2, <1>3, ProposeRequeues DEF Propose, OnlyState
  <2>3. QED
    BY <1>1, <1>2, <1>3, <2>1, <2>2, RequeueStep DEF Propose, OnlyState
<1>4. ASSUME NEW r \in Requests, Maintain(r)
      PROVE  MemoryInv' /\ NothingRelearned
  <2>1. Requeues(stateMem, Schedule(stateMem, r), reconfigs, reconfigs')
    BY <1>2, <1>4, ScheduleRequeues DEF Maintain, Schedulable, OnlyState
  <2>2. QED
    BY <1>1, <1>2, <1>4, <2>1, RequeueStep DEF Maintain, OnlyState
<1>5. CASE Revoke
  <2>1. RunningIn(stateMem) \in SUBSET Requests /\ \A r \in RunningIn(stateMem) : stateMem.req[r].status = "running"
    BY DEF RunningIn
  <2>2. Requeues(stateMem, Retried(stateMem), reconfigs, reconfigs')
    BY <1>2, <1>5, <2>1, RetryRequeues DEF Revoke, OnlyState, Retried
  <2>3. QED
    BY <1>1, <1>2, <1>5, <2>2, RequeueStep DEF Revoke, OnlyState
<1>6. CASE Contribute
  <2>1. Persist(Contributed(stateMem))
    BY <1>6 DEF Contribute, Contributed
  <2>2. Requeues(stateMem, Contributed(stateMem), reconfigs, reconfigs')
    BY <1>2, <1>6, ContributeRequeues DEF Contribute, OnlyState
  <2>3. QED
    BY <1>1, <1>2, <1>6, <2>1, <2>2, RequeueStep DEF Contribute, OnlyState
<1>7. CASE Participation
  <2>1. Persist(Reattached(stateMem))
    BY <1>7 DEF Participation, Reattached, Boundary
  <2>2. Requeues(stateMem, Reattached(stateMem), reconfigs, reconfigs')
    BY <1>2, <1>7, ParticipationRequeues DEF Participation
  <2>3. QED
    BY <1>1, <1>2, <1>7, <2>1, <2>2, RequeueStep DEF Participation
<1>8. ASSUME NEW a \in held, FailWork(a)
      PROVE  MemoryInv' /\ NothingRelearned
  <2>1. {a[1]} \in SUBSET Requests /\ \A r \in {a[1]} : stateMem.req[r].status = "running"
    BY <1>2, <1>8 DEF FailWork, Assigned
  <2>2. Requeues(stateMem, Retry(stateMem, {a[1]}), reconfigs, reconfigs')
    BY <1>2, <1>8, <2>1, RetryRequeues DEF FailWork, OnlyState
  <2>3. QED
    BY <1>1, <1>2, <1>8, <2>2, RequeueStep DEF FailWork, OnlyState
<1>9. QED
  BY <1>3, <1>4, <1>5, <1>6, <1>7, <1>8

(* Claim withdraws what ran, schedules history and assigns one request.    *)
LEMMA ClaimStep ==
    ASSUME MemoryInv, Claim
    PROVE  MemoryInv' /\ NothingRelearned
<1>1. Calls
  BY DEF Claim
<1>2. /\ stateMem \in StoreStates /\ reconfigs \in Nat /\ Whole(stateMem, entriesMem, reconfigs)
      /\ held \subseteq Requests \X Nat
      /\ UNCHANGED <<entryFiles, intentFile, entriesMem, phase, publishing, reconfigs>>
  BY <1>1, AtCalls DEF MemoryInv, Claim, OnlyState
<1> DEFINE old == Retried(stateMem)
<1>3. Whole(old, entriesMem, reconfigs) /\ NoneRunning(old)
  <2>1. RunningIn(stateMem) \in SUBSET Requests /\ \A r \in RunningIn(stateMem) : stateMem.req[r].status = "running"
    BY DEF RunningIn
  <2>2. Requeues(stateMem, old, reconfigs, reconfigs) /\ NoneRunning(old)
    BY <1>2, <2>1, RetryRequeues DEF Whole, Retried
  <2>3. QED
    BY <1>2, <2>2, RequeuedWhole
<1> HIDE DEF old
<1>4. ASSUME NEW r \in Requests, Schedulable(old, r, FALSE)
      PROVE  Whole(Schedule(old, r), entriesMem, reconfigs) /\ NoneRunning(Schedule(old, r))
  <2>1. Requeues(old, Schedule(old, r), reconfigs, reconfigs)
    BY <1>2, <1>3, <1>4, ScheduleRequeues DEF Whole, Schedulable
  <2>2. QED
    BY <1>2, <1>3, <2>1, RequeuedWhole, ScheduledNone DEF Whole
<1>5. PICK st \in {old} \cup {Schedule(old, r) : r \in {q \in Requests : Schedulable(old, q, FALSE)}} :
        \/ Persist(st) /\ UNCHANGED held
        \/ \E r \in {q \in Requests : st.req[q].status = "pending"} :
             /\ Persist(Claimed(st, r))
             /\ held' = IF reloadState' THEN held ELSE held \cup {<<r, Claimed(st, r).req[r].attempts>>}
  BY DEF Claim, Claimed, old
<1>6. Whole(st, entriesMem, reconfigs) /\ NoneRunning(st)
  BY <1>3, <1>4, <1>5
<1>7. CASE Persist(st) /\ UNCHANGED held
  BY <1>1, <1>2, <1>6, <1>7, PersistStep
<1>8. ASSUME NEW r \in Requests, st.req[r].status = "pending", Persist(Claimed(st, r)),
             held' = IF reloadState' THEN held ELSE held \cup {<<r, Claimed(st, r).req[r].attempts>>}
      PROVE  MemoryInv' /\ NothingRelearned
  <2>1. Requeues(st, Claimed(st, r), reconfigs, reconfigs) /\ Claimed(st, r).req[r].attempts \in Nat
    BY <1>2, <1>6, <1>8, AssignRequeues DEF Whole
  <2>2. Whole(Claimed(st, r), entriesMem, reconfigs)
    BY <1>2, <1>6, <2>1, RequeuedWhole
  <2>3. held' \subseteq Requests \X Nat
    BY <1>2, <1>8, <2>1
  <2>4. QED
    BY <1>1, <1>2, <1>8, <2>2, <2>3, PersistStep
<1>9. QED
  BY <1>5, <1>7, <1>8

(* fs has the entries of es, but for deleted ones.                         *)
Emptied(fs, es, deletes) ==
    fs \in [Entries -> EntryStates] /\ \A x \in Entries : fs[x] = IF x \in deletes THEN NoEntry ELSE es[x]

(* What an intent that deletes, or writes one entry, makes of the entries. *)
LEMMA KnownAfter ==
    ASSUME NEW t, NEW es \in [Entries -> EntryStates], NEW deletes \in SUBSET Entries
    PROVE  /\ Emptied(KnownOf(es, [writes |-> <<>>, deletes |-> deletes, state |-> t]), es, deletes)
           /\ <<>> \in UNION {[D -> EntryStates] : D \in SUBSET Entries}
<1>1. NoEntry \in EntryStates /\ DOMAIN <<>> = {}
  BY DEF NoEntry, EntryStates
<1>2. <<>> \in [{} -> EntryStates] /\ {} \in SUBSET Entries
  OBVIOUS
<1>3. <<>> \in UNION {[D -> EntryStates] : D \in SUBSET Entries}
  BY <1>2
<1>4. QED
  BY <1>1, <1>3 DEF KnownOf, Emptied

(* The writes of an intent that writes one entry.                           *)
OneWrite(e, new) == [x \in {e} |-> new]

(* The same of an intent that writes one entry.                            *)
LEMMA KnownAfterWrite ==
    ASSUME NEW t, NEW es \in [Entries -> EntryStates], NEW e \in Entries, NEW new \in EntryStates, NEW w,
           w = OneWrite(e, new)
    PROVE  /\ Rewritten(KnownOf(es, [writes |-> w, deletes |-> {}, state |-> t]), es, e, new)
           /\ w \in UNION {[D -> EntryStates] : D \in SUBSET Entries}
<1>1. w \in [{e} -> EntryStates] /\ {e} \in SUBSET Entries /\ DOMAIN w = {e} /\ w[e] = new
  BY DEF OneWrite
<1>2. w \in UNION {[D -> EntryStates] : D \in SUBSET Entries}
  BY <1>1
<1>3. QED
  BY <1>1, <1>2 DEF KnownOf, Rewritten

(* A commit that deletes entries, or none.                                 *)
LEMMA DeletingStep ==
    ASSUME MemoryInv, Calls, NEW t \in StoreStates, WorkHolds(t, reconfigs),
           NEW deletes \in SUBSET Entries, CommitIntent(t, <<>>, deletes),
           stateMem.keys \subseteq t.keys, stateMem.erased \subseteq t.erased,
           t.deleted \subseteq stateMem.deleted \cup deletes,
           \A e \in deletes : Range(entriesMem[e].log) \subseteq t.erased,
           \A r \in Requests : stateMem.req[r].status = "applied" => t.req[r].status = "applied",
           \A r \in Requests : t.req[r].status = "applied" => stateMem.req[r].status = "applied" \/ r \in t.erased
    PROVE  MemoryInv' /\ NothingRelearned
<1> DEFINE fs == KnownOf(entriesMem, [writes |-> <<>>, deletes |-> deletes, state |-> t])
           w == <<>>
<1>1. Whole(stateMem, entriesMem, reconfigs) /\ reconfigs \in Nat /\ entriesMem \in [Entries -> EntryStates]
  BY AtCalls
<1>2. Emptied(fs, entriesMem, deletes) /\ w \in UNION {[D -> EntryStates] : D \in SUBSET Entries}
  BY <1>1, KnownAfter
<1>3. fs = KnownOf(entriesMem, [writes |-> w, deletes |-> deletes, state |-> t]) /\ CommitIntent(t, w, deletes)
  OBVIOUS
<1> HIDE DEF fs, w
<1>4. Whole(t, fs, reconfigs)
  BY ZenonT(40), <1>1, <1>2, DeletedWhole DEF Emptied
<1>5. \A x \in Entries : fs[x] \in {entriesMem[x], NoEntry} \/ fs[x].origins \cap t.suppressed = {}
  BY <1>2 DEF Emptied
<1>6. QED
  BY <1>2, <1>3, <1>4, <1>5, CommitStep

(* A commit that writes an entry.                                          *)
LEMMA WritingStep ==
    ASSUME MemoryInv, Calls, NEW t \in StoreStates, WorkHolds(t, reconfigs), NEW e \in Entries,
           NEW who \in Requests \cup AdminKeys, NEW o \in SUBSET Origins, NEW w,
           w = OneWrite(e, Written(e, who, o)), CommitIntent(t, w, {}),
           stateMem.keys \subseteq t.keys, stateMem.erased \subseteq t.erased, t.deleted = stateMem.deleted,
           e \notin stateMem.deleted, o \cap t.suppressed = {},
           \A i \in DOMAIN entriesMem[e].log : entriesMem[e].log[i] # who,
           who \in t.keys \/ (who \in Requests /\ t.req[who].status = "applied"),
           \A r \in Requests : stateMem.req[r].status = "applied" => t.req[r].status = "applied",
           \A r \in Requests : t.req[r].status = "applied" => stateMem.req[r].status = "applied" \/ r = who
    PROVE  MemoryInv' /\ NothingRelearned
<1> DEFINE new == Logged(entriesMem, e, who, o)
           none == {}
           fs == KnownOf(entriesMem, [writes |-> w, deletes |-> none, state |-> t])
<1>1. Whole(stateMem, entriesMem, reconfigs) /\ reconfigs \in Nat /\ entriesMem \in [Entries -> EntryStates]
  BY AtCalls
<1>2. new = Written(e, who, o) /\ new \in EntryStates /\ new.origins = o
  <2>1. entriesMem[e].log \in Seq(Requests \cup AdminKeys)
    BY <1>1 DEF EntryStates
  <2>2. Append(entriesMem[e].log, who) \in Seq(Requests \cup AdminKeys)
    BY <2>1
  <2>3. QED
    BY <2>2 DEF Written, EntryStates, Logged
<1>3. w = OneWrite(e, new)
  BY <1>2
<1> HIDE DEF new
<1>4. Rewritten(fs, entriesMem, e, new) /\ w \in UNION {[D -> EntryStates] : D \in SUBSET Entries}
  BY <1>1, <1>2, <1>3, KnownAfterWrite
<1>5. /\ fs = KnownOf(entriesMem, [writes |-> w, deletes |-> none, state |-> t])
      /\ none \in SUBSET Entries /\ CommitIntent(t, w, none)
  OBVIOUS
<1> HIDE DEF fs, none
<1>6. Rewritten(fs, entriesMem, e, Logged(entriesMem, e, who, o))
  BY <1>4 DEF new
<1>7. Whole(t, fs, reconfigs)
  BY <1>1, <1>6, WrittenWhole
<1>8. \A x \in Entries : fs[x] \in {entriesMem[x], NoEntry} \/ fs[x].origins \cap t.suppressed = {}
  BY <1>2, <1>4 DEF Rewritten
<1>9. QED
  BY <1>4, <1>5, <1>7, <1>8, CommitStep

(* Settling only the request that runs: what was applied stays so, and at  *)
(* most that request is applied too.                                       *)
LEMMA SettledOnly ==
    ASSUME NEW st, NEW t, NEW r \in Requests, OthersKept(st, t, r), st.req[r].status = "running"
    PROVE  /\ \A q \in Requests : st.req[q].status = "applied" => t.req[q].status = "applied"
           /\ \A q \in Requests : t.req[q].status = "applied" => st.req[q].status = "applied" \/ q = r
BY DEF OthersKept

(* What an executor may decide about the entries: nothing, one entry, or   *)
(* the removal of one.                                                     *)
LEMMA DecideStep ==
    ASSUME MemoryInv, NEW a \in held, Decide(a)
    PROVE  MemoryInv' /\ NothingRelearned
<1>1. Calls
  BY DEF Decide
<1>2. /\ stateMem \in StoreStates /\ reconfigs \in Nat /\ Whole(stateMem, entriesMem, reconfigs)
      /\ entriesMem \in [Entries -> EntryStates]
  BY <1>1, AtCalls
<1> DEFINE r == a[1]
<1>3. r \in Requests /\ stateMem.req[r].status = "running" /\ WorkHolds(stateMem, reconfigs)
  BY <1>2 DEF MemoryInv, Decide, Assigned, Whole, WorkHolds
<1>4. \/ \E outcome \in {"no_change", "rejected"} : CommitIntent(Decided(stateMem, r, outcome), <<>>, {})
      \/ \E e \in Entries, origins \in SUBSET Origins :
           /\ Writable(stateMem, e, origins)
           /\ CommitIntent(Decided(stateMem, r, "applied"), OneWrite(e, Written(e, r, origins)), {})
      \/ \E e \in Entries : CommitIntent(Consolidated(stateMem, r, e), <<>>, {e})
  <2> DEFINE allowed == stateMem.req[r].origin \cup UNION {entriesMem[x].origins : x \in Entries}
  <2>1. allowed \subseteq Origins
    <3>1. \A x \in Entries : entriesMem[x].origins \subseteq Origins
      BY <1>2 DEF EntryStates
    <3>2. stateMem.req[r].origin \subseteq Origins
      BY <1>2, <1>3, StoreFields DEF WorkStates
    <3>3. UNION {entriesMem[x].origins : x \in Entries} \subseteq Origins
      BY <3>1
    <3>4. QED
      BY <3>2, <3>3
  <2>2. ASSUME NEW e \in Entries, NEW origins \in SUBSET allowed \ {{}}, Writable(stateMem, e, origins),
               CommitIntent(Decided(stateMem, r, "applied"), OneWrite(e, Written(e, r, origins)), {})
        PROVE  \E x \in Entries, os \in SUBSET Origins :
                 /\ Writable(stateMem, x, os)
                 /\ CommitIntent(Decided(stateMem, r, "applied"), OneWrite(x, Written(x, r, os)), {})
    <3>1. origins \in SUBSET Origins
      BY <2>1
    <3>2. QED
      BY <2>2, <3>1
  <2>3. ASSUME NEW e \in {x \in Entries : entriesMem[x] # NoEntry},
               CommitIntent(Consolidated(stateMem, r, e), <<>>, {e})
        PROVE  \E x \in Entries : CommitIntent(Consolidated(stateMem, r, x), <<>>, {x})
    BY <2>3
  <2>4. \/ \E outcome \in {"no_change", "rejected"} : CommitIntent(Decided(stateMem, r, outcome), <<>>, {})
        \/ \E e \in Entries : \E origins \in SUBSET allowed \ {{}} :
             /\ Writable(stateMem, e, origins)
             /\ CommitIntent(Decided(stateMem, r, "applied"), OneWrite(e, Written(e, r, origins)), {})
        \/ \E e \in {x \in Entries : entriesMem[x] # NoEntry} : CommitIntent(Consolidated(stateMem, r, e), <<>>, {e})
    BY DEF Decide, OneWrite, Consolidated
  <2> HIDE DEF allowed
  <2>5. QED
    BY <2>2, <2>3, <2>4
<1> HIDE DEF r
<1>5. ASSUME NEW outcome \in {"no_change", "rejected"}, CommitIntent(Decided(stateMem, r, outcome), <<>>, {})
      PROVE  MemoryInv' /\ NothingRelearned
  <2> DEFINE t == Decided(stateMem, r, outcome)
             work == Settle(stateMem.req[r], outcome)
             none == {}
  <2>1. t = Decided(stateMem, r, outcome) /\ work = Settle(stateMem.req[r], outcome) /\ CommitIntent(t, <<>>, none)
        /\ none \in SUBSET Entries /\ \A e : e \notin none
    BY <1>5
  <2>2. work.status = outcome
    BY <1>2, <1>3, StoreFields, Settled DEF Terminal
  <2> HIDE DEF t, work, none
  <2>3. WorkHolds(t, reconfigs)
    BY <1>2, <1>3, <2>1, DecidedWorkHolds
  <2>4. /\ t \in StoreStates /\ t.keys = stateMem.keys /\ t.erased = stateMem.erased
        /\ t.deleted = stateMem.deleted /\ t.req[r] = work /\ OthersKept(stateMem, t, r)
    BY <1>2, <1>3, <2>1, DecidedState
  <2>5. /\ \A q \in Requests : stateMem.req[q].status = "applied" => t.req[q].status = "applied"
        /\ \A q \in Requests : t.req[q].status = "applied" => stateMem.req[q].status = "applied" \/ q \in t.erased
    BY <1>3, <2>2, <2>4, SettledOnly
  <2>6. QED
    BY <1>1, <2>1, <2>3, <2>4, <2>5, DeletingStep
<1>6. ASSUME NEW e \in Entries, NEW origins \in SUBSET Origins,
             Writable(stateMem, e, origins),
             CommitIntent(Decided(stateMem, r, "applied"), OneWrite(e, Written(e, r, origins)), {})
      PROVE  MemoryInv' /\ NothingRelearned
  <2> DEFINE t == Decided(stateMem, r, "applied")
             work == Settle(stateMem.req[r], "applied")
             w == OneWrite(e, Written(e, r, origins))
  <2>1. /\ t = Decided(stateMem, r, "applied") /\ work = Settle(stateMem.req[r], "applied")
        /\ w = OneWrite(e, Written(e, r, origins)) /\ CommitIntent(t, w, {})
    BY <1>6
  <2>2. work.status = "applied"
    BY <1>2, <1>3, StoreFields, Settled DEF Terminal
  <2> HIDE DEF t, work, w
  <2>3. WorkHolds(t, reconfigs)
    BY <1>2, <1>3, <2>1, DecidedWorkHolds
  <2>4. /\ t \in StoreStates /\ t.keys = stateMem.keys /\ t.erased = stateMem.erased
        /\ t.deleted = stateMem.deleted /\ t.suppressed = stateMem.suppressed
        /\ t.req[r] = work /\ OthersKept(stateMem, t, r)
    BY <1>2, <1>3, <2>1, DecidedState
  <2>5. /\ \A q \in Requests : stateMem.req[q].status = "applied" => t.req[q].status = "applied"
        /\ \A q \in Requests : t.req[q].status = "applied" => stateMem.req[q].status = "applied" \/ q = r
    BY <1>3, <2>4, SettledOnly
  <2>7. e \notin stateMem.deleted /\ origins \cap t.suppressed = {}
    BY <1>6, <2>4 DEF Writable
  <2>8. \A i \in DOMAIN entriesMem[e].log : entriesMem[e].log[i] # r
    BY <1>2, <1>3, StoreFields, MemoryBounds DEF Whole, LogsBacked
  <2>9. r \in Requests \cup AdminKeys /\ t.req[r].status = "applied"
    BY <1>3, <2>2, <2>4
  <2>10. QED
    BY <1>1, <1>3, <2>1, <2>3, <2>4, <2>5, <2>7, <2>8, <2>9, WritingStep
<1>7. ASSUME NEW e \in Entries, CommitIntent(Consolidated(stateMem, r, e), <<>>, {e})
      PROVE  MemoryInv' /\ NothingRelearned
  <2> DEFINE t == Consolidated(stateMem, r, e)
             deletes == {e}
  <2>1. /\ t \in StoreStates /\ WorkHolds(t, reconfigs) /\ t.keys = stateMem.keys /\ stateMem.erased \subseteq t.erased
        /\ t.deleted = stateMem.deleted /\ r \in t.erased /\ Range(entriesMem[e].log) \subseteq t.erased
        /\ t.req[r].status = "applied" /\ OthersKept(stateMem, t, r)
    BY <1>2, <1>3, ConsolidatedState
  <2>2. CommitIntent(t, <<>>, deletes) /\ deletes \in SUBSET Entries /\ \A x \in deletes : x = e
    BY <1>7
  <2> HIDE DEF t, deletes
  <2>3. /\ \A q \in Requests : stateMem.req[q].status = "applied" => t.req[q].status = "applied"
        /\ \A q \in Requests : t.req[q].status = "applied" => stateMem.req[q].status = "applied" \/ q \in t.erased
    BY <1>3, <2>1, SettledOnly
  <2>4. \A x \in deletes : Range(entriesMem[x].log) \subseteq t.erased
    BY <2>1, <2>2
  <2>5. QED
    BY <1>1, <2>1, <2>2, <2>3, <2>4, DeletingStep
<1>8. QED
  BY <1>4, <1>5, <1>6, <1>7

(* Ending work twice is ending it.                                         *)
LEMMA EndsTwice ==
    ASSUME NEW st, NEW s, NEW t, EndsWork(st, s), EndsWork(s, t)
    PROVE  EndsWork(st, t)
BY DEF EndsWork, Terminal

(* What was applied before work ended, and nothing else, is applied after. *)
LEMMA EndedApplied ==
    ASSUME NEW st, NEW t, EndsWork(st, t)
    PROVE  /\ \A q \in Requests : st.req[q].status = "applied" => t.req[q].status = "applied"
           /\ \A q \in Requests : t.req[q].status = "applied" => st.req[q].status = "applied"
BY DEF EndsWork

(* Removal of entries: their names, what they held and what they cite.     *)
Removed(st, k, deletes, os) == Scrub(Forget(Superseded(st, k), deletes), os)

(* The changes that removed entries held are erased.                       *)
Erases(t, deletes) == \A e \in deletes : Range(entriesMem[e].log) \subseteq t.erased

(* What removing entries leaves of a state.                                *)
LEMMA RemovedState ==
    ASSUME NEW st \in StoreStates, NEW k \in AdminKeys, NEW deletes \in SUBSET Entries, NEW os \in SUBSET Origins,
           entriesMem \in [Entries -> EntryStates], NEW t, t = Removed(st, k, deletes, os)
    PROVE  /\ t \in StoreStates /\ EndsWork(st, t) /\ st.keys \subseteq t.keys /\ st.erased \subseteq t.erased
           /\ t.deleted \subseteq st.deleted \cup deletes /\ Erases(t, deletes)
<1> DEFINE s == Superseded(st, k)
           f == Forget(s, deletes)
<1>1. /\ s \in StoreStates /\ EndsWork(st, s) /\ st.keys \subseteq s.keys
      /\ s.erased = st.erased /\ s.deleted = st.deleted
  BY SupersededState
<1> HIDE DEF s
<1>2. /\ f \in StoreStates /\ EndsWork(s, f) /\ f.keys = s.keys /\ s.erased \subseteq f.erased
      /\ f.deleted = s.deleted \cup deletes /\ \A e \in deletes : Range(entriesMem[e].log) \subseteq f.erased
  BY <1>1, ForgottenState
<1>3. t = Scrub(f, os)
  BY DEF Removed, s, f
<1> HIDE DEF f
<1>4. t \in StoreStates /\ EndsWork(f, t) /\ t.keys = f.keys /\ t.erased = f.erased /\ t.deleted = f.deleted
  BY <1>2, <1>3, ScrubbedState
<1>5. EndsWork(st, t)
  BY <1>1, <1>2, <1>4, EndsTwice
<1>6. QED
  BY <1>1, <1>2, <1>4, <1>5 DEF Erases

(* A request of the user supersedes work and removes, corrects or allows.  *)
LEMMA AdminStep ==
    ASSUME MemoryInv, NEW k \in AdminKeys, Admin(k)
    PROVE  MemoryInv' /\ NothingRelearned
<1>1. Calls /\ k \notin stateMem.keys
  BY DEF Admin
<1>2. /\ stateMem \in StoreStates /\ reconfigs \in Nat /\ Whole(stateMem, entriesMem, reconfigs)
      /\ entriesMem \in [Entries -> EntryStates] /\ WorkHolds(stateMem, reconfigs)
  BY <1>1, AtCalls DEF Whole, WorkHolds
<1>3. \/ \E deletes \in SUBSET Entries, os \in SUBSET Origins :
           CommitIntent(Removed(stateMem, k, deletes, os), <<>>, deletes)
      \/ \E e \in Entries, origins \in SUBSET Origins :
           /\ Writable(stateMem, e, origins) \/ Writable(Superseded(stateMem, k), e, origins)
           /\ CommitIntent(Superseded(stateMem, k), OneWrite(e, Written(e, k, origins)), {})
      \/ \E es \in SUBSET Entries, os \in SUBSET Origins : CommitIntent(Allowed(stateMem, k, es, os), <<>>, {})
  <2>1. ASSUME NEW e \in Entries, CommitIntent(Removed(stateMem, k, {e}, entriesMem[e].origins), <<>>, {e})
        PROVE  \E deletes \in SUBSET Entries, os \in SUBSET Origins :
           CommitIntent(Removed(stateMem, k, deletes, os), <<>>, deletes)
    <3>1. {e} \in SUBSET Entries /\ entriesMem[e].origins \in SUBSET Origins
      BY <1>2 DEF EntryStates
    <3>2. QED
      BY <2>1, <3>1
  <2>2. ASSUME NEW o \in Origins, NEW deletes, deletes = {e \in Entries : o \in entriesMem[e].origins},
               CommitIntent(Removed(stateMem, k, deletes, {o}), <<>>, deletes)
        PROVE  \E ds \in SUBSET Entries, os \in SUBSET Origins :
           CommitIntent(Removed(stateMem, k, ds, os), <<>>, ds)
    <3>1. deletes \in SUBSET Entries /\ {o} \in SUBSET Origins
      BY <2>2
    <3>2. QED
      BY <2>2, <3>1
  <2>3. QED
    BY <2>1, <2>2 DEF Admin, Removed, Superseded, Allowed, OneWrite
<1>4. ASSUME NEW deletes \in SUBSET Entries, NEW os \in SUBSET Origins,
             CommitIntent(Removed(stateMem, k, deletes, os), <<>>, deletes)
      PROVE  MemoryInv' /\ NothingRelearned
  <2> DEFINE t == Removed(stateMem, k, deletes, os)
  <2>0. t = Removed(stateMem, k, deletes, os)
    OBVIOUS
  <2>2. CommitIntent(t, <<>>, deletes)
    BY <1>4
  <2> HIDE DEF t
  <2>1. /\ t \in StoreStates /\ EndsWork(stateMem, t) /\ stateMem.keys \subseteq t.keys
        /\ stateMem.erased \subseteq t.erased /\ t.deleted \subseteq stateMem.deleted \cup deletes
        /\ Erases(t, deletes)
    BY <1>2, <2>0, RemovedState
  <2>3. WorkHolds(t, reconfigs)
    BY <1>2, <2>1, EndedWorkHolds
  <2>4. /\ \A q \in Requests : stateMem.req[q].status = "applied" => t.req[q].status = "applied"
        /\ \A q \in Requests : t.req[q].status = "applied" => stateMem.req[q].status = "applied" \/ q \in t.erased
    BY <2>1, EndedApplied
  <2>5. QED
    BY <1>1, <2>1, <2>2, <2>3, <2>4, DeletingStep DEF Erases
<1>5. ASSUME NEW e \in Entries, NEW origins \in SUBSET Origins,
             Writable(stateMem, e, origins) \/ Writable(Superseded(stateMem, k), e, origins),
             CommitIntent(Superseded(stateMem, k), OneWrite(e, Written(e, k, origins)), {})
      PROVE  MemoryInv' /\ NothingRelearned
  <2> DEFINE t == Superseded(stateMem, k)
             w == OneWrite(e, Written(e, k, origins))
  <2>1. /\ t \in StoreStates /\ EndsWork(stateMem, t) /\ t.keys = stateMem.keys \cup {k}
        /\ t.erased = stateMem.erased /\ t.deleted = stateMem.deleted /\ t.suppressed = stateMem.suppressed
    BY <1>2, SupersededState
  <2>2. w = OneWrite(e, Written(e, k, origins)) /\ CommitIntent(t, w, {})
    BY <1>5
  <2>writable. Writable(stateMem, e, origins) \/ Writable(t, e, origins)
    BY <1>5
  <2> HIDE DEF t, w
  <2>3. WorkHolds(t, reconfigs)
    BY <1>2, <2>1, EndedWorkHolds
  <2>4. /\ \A q \in Requests : stateMem.req[q].status = "applied" => t.req[q].status = "applied"
        /\ \A q \in Requests : t.req[q].status = "applied" => stateMem.req[q].status = "applied" \/ q = k
    BY <2>1, EndedApplied
  <2>5. e \notin stateMem.deleted /\ origins \cap t.suppressed = {}
    BY <2>writable, <2>1 DEF Writable
  <2>6. \A i \in DOMAIN entriesMem[e].log : entriesMem[e].log[i] # k
    BY <1>1, <1>2, MemoryBounds DEF Whole, LogsBacked
  <2>7. k \in Requests \cup AdminKeys /\ k \in t.keys
    BY <2>1
  <2>8. stateMem.keys \subseteq t.keys /\ stateMem.erased \subseteq t.erased
    BY <2>1
  <2>9. QED
    BY <1>1, <2>1, <2>2, <2>3, <2>4, <2>5, <2>6, <2>7, <2>8, WritingStep
<1>6. ASSUME NEW es \in SUBSET Entries, NEW os \in SUBSET Origins, CommitIntent(Allowed(stateMem, k, es, os), <<>>, {})
      PROVE  MemoryInv' /\ NothingRelearned
  <2> DEFINE t == Allowed(stateMem, k, es, os)
             none == {}
  <2>1. /\ t \in StoreStates /\ EndsWork(stateMem, t) /\ stateMem.keys \subseteq t.keys
        /\ t.erased = stateMem.erased /\ t.deleted \subseteq stateMem.deleted
    BY <1>2, AllowedState
  <2>2. CommitIntent(t, <<>>, none) /\ none \in SUBSET Entries /\ \A x : x \notin none
    BY <1>6
  <2> HIDE DEF t, none
  <2>3. WorkHolds(t, reconfigs)
    BY <1>2, <2>1, EndedWorkHolds
  <2>4. /\ \A q \in Requests : stateMem.req[q].status = "applied" => t.req[q].status = "applied"
        /\ \A q \in Requests : t.req[q].status = "applied" => stateMem.req[q].status = "applied" \/ q \in t.erased
    BY <2>1, EndedApplied
  <2>5. QED
    BY <1>1, <2>1, <2>2, <2>3, <2>4, DeletingStep
<1>7. QED
  BY <1>3, <1>4, <1>5, <1>6

-----------------------------------------------------------------------------
(* Publication, recovery, process ends and the opening of the store *)

(* What a caller sees next has its type.                                   *)
LEMMA KnownTyped ==
    ASSUME MemoryInv
    PROVE  /\ KnownState \in StoreStates /\ KnownEntries \in [Entries -> EntryStates]
           /\ KnownEntries = KnownOf(entryFiles, intentFile)
           /\ intentFile = NoIntent => KnownEntries = entryFiles /\ KnownState = stateFile
           /\ intentFile # NoIntent => KnownState = intentFile.state
<1>1. KnownEntries = KnownOf(entryFiles, intentFile)
  BY DEF KnownEntries, KnownOf
<1>2. QED
  BY <1>1, KnownWithoutIntent DEF MemoryInv, Whole, KnownState

(* A step that changes what is known of nothing.                           *)
LEMMA KnownSteady ==
    ASSUME MemoryInv, KnownState' = KnownState, KnownEntries' = KnownEntries, UNCHANGED <<held, reconfigs>>,
           stateFile' \in StoreStates, stateMem' \in StoreStates,
           entryFiles' \in [Entries -> EntryStates], entriesMem' \in [Entries -> EntryStates],
           intentFile' \in {intentFile, NoIntent},
           phase' \in {"down", "opening", "up"}, publishing' \in {"no", "entries", "unlink"},
           MemoryFollows'
    PROVE  MemoryInv' /\ NothingRelearned
<1>1. Whole(KnownState', KnownEntries', reconfigs')
  BY DEF MemoryInv
<1>2. MemoryInv'
  BY <1>1 DEF MemoryInv
<1>3. QED
  BY <1>2 DEF NothingRelearned

(* The writes of a publication, one file each.                             *)
LEMMA PublishingSteps ==
    ASSUME MemoryInv, RecoverIntent \/ (\E e \in Entries : PublishEntry(e)) \/ PublishState \/ RemoveIntentFile
    PROVE  MemoryInv' /\ NothingRelearned
<1>1. /\ KnownState \in StoreStates /\ KnownEntries \in [Entries -> EntryStates]
      /\ KnownEntries = KnownOf(entryFiles, intentFile)
      /\ intentFile = NoIntent => KnownEntries = entryFiles /\ KnownState = stateFile
      /\ intentFile # NoIntent => KnownState = intentFile.state
  BY KnownTyped
<1>2. KnownEntries' = KnownOf(entryFiles', intentFile')
  BY DEF KnownEntries, KnownOf
<1>3. /\ stateFile \in StoreStates /\ stateMem \in StoreStates
      /\ entryFiles \in [Entries -> EntryStates] /\ entriesMem \in [Entries -> EntryStates]
      /\ phase \in {"down", "opening", "up"} /\ publishing \in {"no", "entries", "unlink"}
      /\ MemoryFollows /\ (intentFile # NoIntent => intentFile \in Intents)
  BY DEF MemoryInv
<1>4. CASE RecoverIntent
  <2>1. /\ KnownEntries' = KnownEntries /\ KnownState' = KnownState
        /\ UNCHANGED <<stateFile, entryFiles, intentFile, stateMem, entriesMem, reloadState, phase, held, reconfigs>>
        /\ publishing' = "entries" /\ intentFile # NoIntent /\ phase # "down"
    BY <1>4 DEF RecoverIntent, KnownEntries, KnownState
  <2>2. MemoryFollows'
    BY <1>3, <2>1 DEF MemoryFollows, Calls
  <2>3. QED
    BY <1>3, <2>1, <2>2, KnownSteady
<1>5. ASSUME NEW e \in Entries, PublishEntry(e)
      PROVE  MemoryInv' /\ NothingRelearned
  <2>1. /\ UNCHANGED <<stateFile, intentFile, stateMem, entriesMem, reloadState, phase, publishing, held, reconfigs>>
        /\ publishing = "entries" /\ intentFile # NoIntent /\ phase # "down"
    BY <1>3, <1>5 DEF PublishEntry, MemoryFollows
  <2> DEFINE new == IF e \in intentFile.deletes THEN NoEntry ELSE intentFile.writes[e]
  <2>2. entryFiles' = [entryFiles EXCEPT ![e] = new] /\ (e \in intentFile.deletes \/ e \in DOMAIN intentFile.writes)
    BY <1>5 DEF PublishEntry, EntryUnpublished
  <2>3. new \in EntryStates
    <3>1. NoEntry \in EntryStates /\ \A x \in DOMAIN intentFile.writes : intentFile.writes[x] \in EntryStates
      BY <1>3, <2>1 DEF Intents, NoEntry, EntryStates
    <3>2. QED
      BY <2>2, <3>1
  <2>4. new = IF e \in intentFile.deletes THEN NoEntry ELSE intentFile.writes[e]
    OBVIOUS
  <2> HIDE DEF new
  <2>5. /\ entryFiles' \in [Entries -> EntryStates]
        /\ \A x \in Entries : entryFiles'[x] = IF x = e THEN new ELSE entryFiles[x]
    BY <1>3, <2>2, <2>3
  <2>6. KnownOf(entryFiles', intentFile) = KnownOf(entryFiles, intentFile)
    BY <2>2, <2>4, <2>5 DEF KnownOf
  <2>7. KnownEntries' = KnownEntries /\ KnownState' = KnownState
    BY <1>1, <1>2, <2>1, <2>6 DEF KnownState
  <2>8. MemoryFollows'
    BY <1>3, <2>1 DEF MemoryFollows, Calls
  <2>9. QED
    BY <1>3, <2>1, <2>5, <2>7, <2>8, KnownSteady
<1>6. CASE PublishState
  <2>1. /\ UNCHANGED <<entryFiles, intentFile, stateMem, entriesMem, reloadState, phase, held, reconfigs>>
        /\ publishing' = "unlink" /\ stateFile' = intentFile.state /\ intentFile # NoIntent /\ phase # "down"
        /\ \A e \in Entries : ~EntryUnpublished(e)
    BY <1>3, <1>6 DEF PublishState, MemoryFollows
  <2>2. KnownEntries' = KnownEntries /\ KnownState' = KnownState
    BY <1>1, <1>2, <2>1 DEF KnownState
  <2>3. entryFiles = KnownOf(entryFiles, intentFile)
    <3>1. \A e \in Entries : entryFiles[e] = KnownOf(entryFiles, intentFile)[e]
      BY <2>1 DEF KnownOf, EntryUnpublished
    <3>2. QED
      BY <1>1, <1>3, <3>1
  <2>4. intentFile.state \in StoreStates
    BY <1>1, <2>1
  <2>5. MemoryFollows'
    BY <1>1, <1>3, <2>1, <2>2, <2>3 DEF MemoryFollows, Calls
  <2>6. QED
    BY <1>3, <2>1, <2>2, <2>4, <2>5, KnownSteady
<1>7. CASE RemoveIntentFile
  <2>1. /\ UNCHANGED <<stateFile, entryFiles, held, reconfigs>> /\ intentFile' = NoIntent /\ publishing' = "no"
        /\ stateFile = intentFile.state /\ entryFiles = KnownEntries /\ intentFile # NoIntent /\ phase # "down"
    BY <1>3, <1>7 DEF RemoveIntentFile, MemoryFollows
  <2>2. KnownOf(entryFiles', intentFile') = entryFiles
    BY <1>3, <2>1, KnownWithoutIntent
  <2>3. KnownEntries' = KnownEntries /\ KnownState' = KnownState
    BY <1>1, <1>2, <2>1, <2>2 DEF KnownState
  <2>4. \/ stateMem' = intentFile.state /\ entriesMem' = entryFiles /\ UNCHANGED <<reloadState, phase>>
        \/ /\ reloadState' = TRUE /\ phase' = IF phase = "opening" THEN "down" ELSE phase
           /\ UNCHANGED <<stateMem, entriesMem>>
    BY <1>7 DEF RemoveIntentFile
  <2>5. MemoryFollows'
    BY <1>3, <2>1, <2>4 DEF MemoryFollows, Calls
  <2>6. QED
    BY <1>1, <1>3, <2>1, <2>3, <2>4, <2>5, KnownSteady
<1>8. QED
  BY <1>4, <1>5, <1>6, <1>7

(* A failed publication, the end of the process, the next open, and the    *)
(* read after an uncertain write.                                          *)
LEMMA InterruptedSteps ==
    ASSUME MemoryInv, PublishFails \/ MemoryDies \/ BeginOpen \/ ReloadStore
    PROVE  MemoryInv' /\ NothingRelearned
<1>1. /\ stateFile \in StoreStates /\ stateMem \in StoreStates
      /\ entryFiles \in [Entries -> EntryStates] /\ entriesMem \in [Entries -> EntryStates]
      /\ phase \in {"down", "opening", "up"} /\ publishing \in {"no", "entries", "unlink"} /\ MemoryFollows
  BY DEF MemoryInv
<1>2. UNCHANGED <<stateFile, entryFiles, intentFile, held, reconfigs>>
  BY DEF PublishFails, MemoryDies, BeginOpen, ReloadStore
<1>3. KnownState' = KnownState /\ KnownEntries' = KnownEntries
  BY <1>2 DEF KnownState, KnownEntries
<1>4. /\ stateMem' \in {stateMem, stateFile} /\ entriesMem' \in {entriesMem, entryFiles}
      /\ phase' \in {"down", "opening", "up"} /\ publishing' \in {"no", "entries", "unlink"}
  BY <1>1 DEF PublishFails, MemoryDies, BeginOpen, ReloadStore
<1>5. MemoryFollows'
  BY <1>1, <1>2, <1>3 DEF PublishFails, MemoryDies, BeginOpen, ReloadStore, MemoryFollows, Calls
<1>6. QED
  BY <1>1, <1>2, <1>3, <1>4, <1>5, KnownSteady

(* Opening ends with a state that is persisted, of the same strategy or    *)
(* another.                                                                *)
LEMMA FinishOpenStep ==
    ASSUME MemoryInv, FinishOpen
    PROVE  MemoryInv' /\ NothingRelearned
<1>1. /\ phase = "opening" /\ publishing = "no" /\ intentFile = NoIntent /\ stateMem = stateFile
      /\ UNCHANGED <<entryFiles, intentFile, publishing, held>> /\ entriesMem' = entryFiles
      /\ entryFiles \in [Entries -> EntryStates] /\ stateFile \in StoreStates /\ reconfigs \in Nat
      /\ phase' = IF reloadState' THEN "down" ELSE "up"
  BY DEF MemoryInv, MemoryFollows, FinishOpen
<1>2. KnownEntries = entryFiles /\ KnownState = stateFile /\ Whole(stateFile, entryFiles, reconfigs)
  BY <1>1, KnownTyped DEF MemoryInv
<1>3. PICK t : /\ Persist(t)
               /\ \/ t = stateMem /\ reconfigs' = reconfigs
                  \/ t = ChangeStrategy(stateMem) /\ reconfigs' = reconfigs + 1
  BY DEF FinishOpen
<1>4. reconfigs' \in Nat /\ reconfigs' >= reconfigs
  BY <1>1, <1>3
<1>5. Whole(stateFile, entryFiles, reconfigs')
  BY <1>2, <1>3, <1>4, <1>1 DEF Whole, CursorBacked
<1>6. Whole(t, entryFiles, reconfigs')
  <2>1. CASE t = stateMem /\ reconfigs' = reconfigs
    BY <1>1, <1>2, <2>1
  <2>2. CASE t = ChangeStrategy(stateMem) /\ reconfigs' = reconfigs + 1
    <3>1. Requeues(stateFile, t, reconfigs, reconfigs')
      BY <1>1, <1>2, <2>2, StrategyRequeues DEF Whole
    <3>2. QED
      BY <1>1, <1>2, <1>4, <3>1, RequeuedWhole
  <2>3. QED
    BY <1>3, <2>1, <2>2
<1>7. /\ stateFile' \in {t, stateFile} /\ stateMem' \in {t, stateMem} /\ t \in StoreStates
      /\ (~reloadState' => stateFile' = t /\ stateMem' = t)
  BY <1>3, <1>6 DEF Persist, Uncertain, Whole
<1>8. KnownEntries' = KnownOf(entryFiles', intentFile')
  BY DEF KnownEntries, KnownOf
<1>9. KnownEntries' = entryFiles /\ KnownState' = stateFile'
  BY <1>1, <1>8, KnownWithoutIntent DEF KnownState
<1>10. Whole(KnownState', KnownEntries', reconfigs')
  BY <1>5, <1>6, <1>7, <1>9
<1>11. MemoryFollows'
  BY <1>1, <1>7 DEF MemoryFollows, Calls
<1>12. MemoryInv'
  BY <1>1, <1>4, <1>7, <1>10, <1>11 DEF MemoryInv
<1>13. QED
  BY <1>2, <1>9, <1>12 DEF NothingRelearned

(* Every step of the service.                                              *)
LEMMA MemorySteps ==
    ASSUME MemoryInv, MemNext
    PROVE  MemoryInv' /\ NothingRelearned
BY RequeueingSteps, ClaimStep, DecideStep, AdminStep, PublishingSteps, InterruptedSteps, FinishOpenStep DEF MemNext

(* The steps of the other components leave the service alone.              *)
LEMMA MemoryUntouched ==
    ASSUME MemoryInv, UNCHANGED memoryVars
    PROVE  MemoryInv' /\ NothingRelearned
<1>1. KnownState' = KnownState /\ KnownEntries' = KnownEntries
  BY DEF memoryVars, KnownState, KnownEntries
<1>2. MemoryFollows'
  BY <1>1 DEF MemoryInv, memoryVars, MemoryFollows, Calls
<1>3. QED
  BY <1>1, <1>2 DEF MemoryInv, memoryVars, NothingRelearned

(* A new store is whole.                                                   *)
LEMMA MemoryStarts ==
    ASSUME MemInit
    PROVE  MemoryInv
<1> DEFINE empty == EmptyState
           none == [e \in Entries |-> NoEntry]
<1>1. NoRequest \in WorkStates /\ NoRequest.status = "none" /\ NoRequest.attempts = 0
  BY MemoryBounds DEF NoRequest, WorkStates
<1>2. NewSource \in SourceStates /\ NewSource.processed = 0
  BY DEF NewSource, SourceStates
<1>3. /\ empty \in StoreStates /\ empty.deleted = {} /\ empty.source = NewSource
      /\ \A r \in Requests : empty.req[r] = NoRequest
  BY <1>1, <1>2 DEF EmptyState, StoreStates
<1>4. NoEntry \in EntryStates /\ NoEntry.log = <<>> /\ DOMAIN <<>> = {} /\ IsInjective(<<>>)
  BY DEF NoEntry, EntryStates, IsInjective
<1>5. none \in [Entries -> EntryStates] /\ \A e \in Entries : none[e] = NoEntry
  BY <1>4
<1> HIDE DEF empty, none
<1>6. Whole(empty, none, 0)
  BY <1>1, <1>2, <1>3, <1>4, <1>5, MemoryBounds
     DEF Whole, LogsBacked, AppliedKept, DeletedAbsent, RunningOnce, AttemptsLeft, CursorBacked
<1>7. /\ stateFile = empty /\ stateMem = empty /\ entryFiles = none /\ entriesMem = none
      /\ intentFile = NoIntent /\ ~reloadState /\ phase = "up" /\ publishing = "no" /\ held = {} /\ reconfigs = 0
  BY DEF MemInit, empty, none
<1>8. KnownEntries = none /\ KnownState = empty
  <2>1. KnownEntries = KnownOf(entryFiles, intentFile)
    BY DEF KnownEntries, KnownOf
  <2>2. QED
    BY <1>5, <1>7, <2>1, KnownWithoutIntent DEF KnownState
<1>9. QED
  BY <1>3, <1>5, <1>6, <1>7, <1>8 DEF MemoryInv, MemoryFollows

(* The store of the Memory service is whole in what its files say next,    *)
(* and the store that answers works on that (store.go, work.go).           *)
THEOREM MemoryInvariant == Spec => []MemoryInv
<1>1. Init => MemoryInv
  BY MemoryStarts DEF Init
<1>2. MemoryInv /\ [Next]_vars => MemoryInv'
  <2> SUFFICES ASSUME MemoryInv, [Next]_vars PROVE MemoryInv'
    OBVIOUS
  <2>1. MemNext \/ UNCHANGED memoryVars
    BY DEF Next, vars
  <2> QED BY <2>1, MemorySteps, MemoryUntouched
<1> QED BY <1>1, <1>2, PTL DEF Spec

(* At most one request runs.                                               *)
LEMMA OneRuns ==
    ASSUME NEW st, RunningOnce(st)
    PROVE  Cardinality(RunningIn(st)) <= 1
<1>1. CASE RunningIn(st) = {}
  BY <1>1, FS_EmptySet
<1>2. CASE RunningIn(st) # {}
  <2>1. PICK r : r \in RunningIn(st)
    BY <1>2
  <2>2. RunningIn(st) = {r}
    BY <2>1 DEF RunningOnce, RunningIn
  <2>3. QED
    BY <2>2, FS_Singleton
<1>3. QED
  BY <1>1, <1>2

(* However a call of the Memory service fails and wherever its process     *)
(* ends, every decision is there whole or not at all and only once, one    *)
(* assignment runs, attempts stay bounded, and a source's cursor moves     *)
(* only by a review that was decided (store.go, work.go).                  *)
THEOREM MemoryIsSafe == Spec => []MemoryHolds
<1>1. MemoryInv => MemoryHolds
  <2> SUFFICES ASSUME MemoryInv PROVE CommitsAtomic /\ WorkBounded
    BY DEF MemoryHolds, MemorySafe
  <2> DEFINE st == KnownState
             es == KnownEntries
  <2>1. Whole(st, es, reconfigs) /\ (Calls => stateMem = stateFile /\ entriesMem = entryFiles)
    BY DEF MemoryInv, MemoryFollows
  <2>2. st \in StoreStates
    BY KnownTyped
  <2>3. CommitsAtomic
    <3> HIDE DEF st, es
    <3>1. \A e \in Entries :
            /\ IsInjective(es[e].log)
            /\ \A i \in DOMAIN es[e].log : es[e].log[i] \in AdminKeys \/ st.req[es[e].log[i]].status = "applied"
      BY <2>1, <2>2, StoreFields DEF Whole, LogsBacked
    <3>2. \A r \in Requests : st.req[r].status = "applied" =>
            r \in st.erased \/ \E e \in Entries : r \in Range(es[e].log)
      BY <2>1 DEF Whole, AppliedKept
    <3>3. QED
      BY <2>1, <3>1, <3>2 DEF CommitsAtomic, st, es
  <2>4. WorkBounded
    <3> HIDE DEF st, es
    <3>1. Cardinality(RunningIn(st)) <= 1
      BY <2>1, OneRuns DEF Whole
    <3>2. \A r \in Requests : st.req[r].attempts <= MemoryAttempts
      BY <2>2, StoreFields, MemoryBounds DEF WorkStates
    <3>3. st.source.processed > 0 =>
            reconfigs > 0 \/ \E r \in Requests : /\ st.req[r].auto /\ st.req[r].through = st.source.processed
                                                 /\ st.req[r].status \in {"applied", "no_change"}
      BY <2>1 DEF Whole, CursorBacked
    <3>4. QED
      BY <3>1, <3>2, <3>3 DEF WorkBounded, st
  <2>5. QED
    BY <2>3, <2>4
<1> QED BY <1>1, MemoryInvariant, PTL

(* A step never brings back what a user had forgotten: a deleted entry     *)
(* stays absent, and an entry that grows cites no suppressed source        *)
(* (changes, admin.go), whichever decision arrives late.                   *)
THEOREM NothingForgottenReturns == Spec => NeverRelearned
<1> DEFINE A == /\ \A e \in KnownState'.deleted : KnownEntries'[e] = NoEntry
                /\ \A e \in Entries : Len(KnownEntries'[e].log) > Len(KnownEntries[e].log) =>
                     KnownEntries'[e].origins \cap KnownState'.suppressed = {}
<1>1. MemoryInv /\ [Next]_vars => [A]_memvars
  <2> SUFFICES ASSUME MemoryInv, [Next]_vars PROVE A
    OBVIOUS
  <2>1. MemNext \/ UNCHANGED memoryVars
    BY DEF Next, vars
  <2>2. MemoryInv' /\ NothingRelearned
    BY <2>1, MemorySteps, MemoryUntouched
  <2>3. \A e \in KnownState'.deleted : KnownEntries'[e] = NoEntry
    BY <2>2 DEF MemoryInv, Whole, DeletedAbsent
  <2>4. ASSUME NEW e \in Entries, Len(KnownEntries'[e].log) > Len(KnownEntries[e].log)
        PROVE  KnownEntries'[e].origins \cap KnownState'.suppressed = {}
    <3>1. KnownEntries[e].log \in Seq(Requests \cup AdminKeys)
      BY KnownTyped DEF EntryStates
    <3>2. Len(KnownEntries[e].log) \in Nat
      BY <3>1
    <3>3. NoEntry.log = <<>> /\ Len(<<>>) = 0
      BY DEF NoEntry
    <3>4. KnownEntries'[e] # KnownEntries[e] /\ KnownEntries'[e] # NoEntry
      BY <2>4, <3>2, <3>3
    <3>5. QED
      BY <2>2, <3>4 DEF NothingRelearned
  <2>5. QED
    BY <2>3, <2>4
<1> HIDE DEF A
<1>2. Spec => [][A]_memvars
  BY <1>1, MemoryInvariant, PTL DEF Spec
<1> QED BY <1>2 DEF A, NeverRelearned

-----------------------------------------------------------------------------
(* ModuleState: the retirement of a Module's state is finished before      *)
(* anyone works with it again, and no directory is left without its        *)
(* record.  RetirementFinished is not inductive: it needs the lock of the  *)
(* resources (one process at a time between Acquire and the end of its     *)
(* lease), that the persisted intent names the owner of everything still   *)
(* to be removed, and that the plan of the process at work covers what the *)
(* intent names.                                                           *)

(* The process that composes the Agent is the one with the lock. *)
LockHeld == \A p \in Hosts : compositions[p].step # "down" <=> lockedBy = p

(* What was retired and still exists has an owner the intent names. *)
Doomed == {r \in resources : r[2] \in intent}
RetiredIntended == retired \subseteq Doomed

(* The deletion in progress has not skipped a directory. *)
PlanComplete ==
    \A p \in Hosts : compositions[p].step \in {"delete", "forget"} => Doomed \subseteq compositions[p].todo

(* A running composition holds a lease and has no retirement before it. *)
RunningClean ==
    \A p \in Hosts : compositions[p].step = "up" => intent = {} /\ compositions[p].leases # 0

(* The inductive invariant. *)
StateInv ==
    /\ STypeOK /\ LockHeld /\ RetiredIntended /\ PlanComplete /\ RunningClean
    /\ DirectoriesRecorded

-----------------------------------------------------------------------------
(* The owners to retire are disposable and contain the persisted intent.   *)
LEMMA RetiringDisposable ==
  ASSUME STypeOK, NEW enabled
  PROVE  Retiring(enabled) \subseteq Disposable /\ intent \subseteq Retiring(enabled)
  BY DEF Retiring, STypeOK

(* A composition may hold no lease or one.                                 *)
LEMMA OneLease == 0 \in 0 .. MaxLeases /\ 1 \in 0 .. MaxLeases
  BY StateBounds

(* Giving up (an error, Lease.Close, the end of the process) ends the      *)
(* composition of the process that holds the lock.                         *)
LEMMA FailKeeps ==
  ASSUME StateInv, NEW p \in Hosts, compositions[p].step # "down", Fail(p)
  PROVE  /\ compositions' \in [Hosts -> [enabled : SUBSET Modules, leases : 0 .. MaxLeases,
                                         step : {"down", "plan", "delete", "forget", "up"},
                                         todo : SUBSET Resources]]
         /\ \A q \in Hosts : compositions'[q].step = "down"
         /\ lockedBy' = Nobody
  BY StateBounds, HostsAssumption DEF StateInv, STypeOK, LockHeld, Fail, Down, Modules

(* A step that gives up keeps the invariant if it keeps what is on disk    *)
(* consistent.                                                             *)
LEMMA FailInv ==
  ASSUME StateInv, NEW p \in Hosts, compositions[p].step # "down", Fail(p),
         ledger' \in [ThreadDirs -> SUBSET Modules], resources' \subseteq Resources,
         retired' \subseteq Resources, intent' \subseteq Disposable,
         RetiredIntended', DirectoriesRecorded'
  PROVE  StateInv'
  <1>1. /\ \A q \in Hosts : compositions'[q].step = "down"
        /\ lockedBy' = Nobody
    BY FailKeeps
  <1>2. STypeOK'
    BY FailKeeps DEF STypeOK
  <1>3. LockHeld' /\ PlanComplete' /\ RunningClean'
    BY <1>1, HostsAssumption DEF LockHeld, PlanComplete, RunningClean
  <1> QED BY <1>2, <1>3 DEF StateInv

(* The invariant holds at the start.                                       *)
LEMMA StateInit == SInit => StateInv
  BY StateBounds, HostsAssumption
  DEF SInit, StateInv, STypeOK, LockHeld, RetiredIntended, PlanComplete, RunningClean,
      DirectoriesRecorded, Recorded, Doomed, Down, Modules, Resources

(* Planning: the intent is persisted and covers the recorded directories.  *)
LEMMA PlanStep ==
  ASSUME StateInv, NEW p \in Hosts, PlanRetirement(p)
  PROVE  StateInv'
  <1> DEFINE owners == Retiring(compositions[p].enabled)
  <1>0. owners \subseteq Disposable /\ intent \subseteq owners
    BY RetiringDisposable DEF StateInv
  <1>1. compositions[p].step = "plan" /\ UNCHANGED <<ledger, resources>>
    BY DEF PlanRetirement
  <1>2. CASE /\ owners = {}
             /\ compositions' = [compositions EXCEPT ![p].step = "up", ![p].leases = 1]
             /\ UNCHANGED <<intent, retired, lockedBy>>
    <2>0. STypeOK'
      BY ZenonT(40), <1>1, <1>2, OneLease DEF StateInv, STypeOK
    <2>1. LockHeld'
      BY <1>1, <1>2 DEF StateInv, STypeOK, LockHeld
    <2>2. RetiredIntended' /\ DirectoriesRecorded'
      BY <1>1, <1>2 DEF StateInv, RetiredIntended, DirectoriesRecorded, Recorded, Doomed
    <2>3. PlanComplete' /\ RunningClean'
      BY <1>0, <1>1, <1>2 DEF StateInv, STypeOK, LockHeld, PlanComplete, RunningClean, Doomed
    <2> QED BY <2>0, <2>1, <2>2, <2>3 DEF StateInv
  <1>3. CASE /\ intent' = owners
             /\ retired' = retired \cup {r \in resources : r[2] \in owners}
             /\ compositions' = [compositions EXCEPT
                    ![p].step = "delete",
                    ![p].todo = {r \in Recorded : r[2] \in owners \cap Disposable}]
             /\ UNCHANGED lockedBy
    <2>1. STypeOK' /\ LockHeld'
      BY ZenonT(40), <1>0, <1>1, <1>3 DEF StateInv, STypeOK, LockHeld, Recorded
    <2>2. RetiredIntended' /\ DirectoriesRecorded'
      BY <1>0, <1>1, <1>3 DEF StateInv, RetiredIntended, DirectoriesRecorded, Recorded, Doomed
    <2>3. PlanComplete' /\ RunningClean'
      BY <1>0, <1>1, <1>3
      DEF StateInv, STypeOK, LockHeld, PlanComplete, RunningClean, DirectoriesRecorded, Recorded, Doomed
    <2> QED BY <2>1, <2>2, <2>3 DEF StateInv
  <1>4. CASE /\ Fail(p)
             /\ \/ UNCHANGED <<intent, retired>>
                \/ /\ intent' = owners
                   /\ retired' = retired \cup {r \in resources : r[2] \in owners}
    <2>1. /\ RetiredIntended' /\ DirectoriesRecorded' /\ intent' \subseteq Disposable
          /\ retired' \subseteq Resources
      BY <1>0, <1>1, <1>4
      DEF StateInv, STypeOK, RetiredIntended, DirectoriesRecorded, Recorded, Doomed
    <2> QED BY <1>1, <1>4, <2>1, FailInv DEF StateInv, STypeOK
  <1> QED BY <1>2, <1>3, <1>4 DEF PlanRetirement

(* Removing directories and forgetting their records.                      *)
LEMMA DeleteStep ==
  ASSUME StateInv, NEW p \in Hosts, NEW r \in Resources, RemoveResource(p, r)
  PROVE  StateInv'
  <1>1. compositions[p].step = "delete" /\ r \in compositions[p].todo /\ UNCHANGED <<ledger, intent>>
    BY DEF RemoveResource
  <1>2. CASE /\ resources' = resources \ {r} /\ retired' = retired \ {r}
             /\ compositions' = [compositions EXCEPT ![p].step = "forget", ![p].todo = {r} \cup @]
             /\ UNCHANGED lockedBy
    <2>1. STypeOK' /\ LockHeld'
      BY ZenonT(40), <1>1, <1>2 DEF StateInv, STypeOK, LockHeld
    <2>2. RetiredIntended' /\ DirectoriesRecorded'
      BY <1>1, <1>2 DEF StateInv, RetiredIntended, DirectoriesRecorded, Recorded, Doomed
    <2>3. PlanComplete' /\ RunningClean'
      BY <1>1, <1>2 DEF StateInv, STypeOK, LockHeld, PlanComplete, RunningClean, Doomed
    <2> QED BY <2>1, <2>2, <2>3 DEF StateInv
  <1>3. CASE /\ Fail(p)
             /\ \/ resources' = resources \ {r} /\ retired' = retired \ {r}
                \/ UNCHANGED <<resources, retired>>
    <2>1. RetiredIntended' /\ DirectoriesRecorded' /\ resources' \subseteq Resources
          /\ retired' \subseteq Resources
      BY <1>1, <1>3
      DEF StateInv, STypeOK, RetiredIntended, DirectoriesRecorded, Recorded, Doomed
    <2> QED BY <1>1, <1>3, <2>1, FailInv DEF StateInv, STypeOK
  <1> QED BY <1>2, <1>3 DEF RemoveResource

(* The records of the directories that are gone are dropped, no other.     *)
LEMMA ForgetStep ==
  ASSUME StateInv, NEW p \in Hosts, ForgetResource(p)
  PROVE  StateInv'
  <1> DEFINE gone == {r \in compositions[p].todo : r \notin resources}
             forgotten == [d \in ThreadDirs |-> {m \in ledger[d] : <<d, m>> \notin gone}]
  <1>1. compositions[p].step = "forget" /\ UNCHANGED <<resources, intent, retired>>
    BY DEF ForgetResource
  <1>2. /\ forgotten \in [ThreadDirs -> SUBSET Modules]
        /\ \A r \in resources : r[2] \in forgotten[r[1]]
    BY DEF StateInv, STypeOK, DirectoriesRecorded, Recorded, Resources
  <1>3. ledger' \in {ledger, forgotten} => DirectoriesRecorded' /\ ledger' \in [ThreadDirs -> SUBSET Modules]
    BY <1>1, <1>2 DEF StateInv, STypeOK, DirectoriesRecorded, Recorded
  <1>4. CASE /\ ledger' = forgotten
             /\ compositions' = [compositions EXCEPT ![p].step = "delete", ![p].todo = @ \ gone]
             /\ UNCHANGED lockedBy
    <2>1. STypeOK' /\ LockHeld'
      BY ZenonT(40), <1>1, <1>3, <1>4 DEF StateInv, STypeOK, LockHeld
    <2>2. RetiredIntended' /\ PlanComplete' /\ RunningClean'
      BY <1>1, <1>4 DEF StateInv, STypeOK, LockHeld, RetiredIntended, PlanComplete, RunningClean, Doomed
    <2> QED BY <1>3, <1>4, <2>1, <2>2 DEF StateInv
  <1>5. CASE Fail(p) /\ ledger' \in {ledger, forgotten}
    <2>1. RetiredIntended'
      BY <1>1 DEF StateInv, RetiredIntended, Doomed
    <2> QED BY <1>1, <1>3, <1>5, <2>1, FailInv DEF StateInv, STypeOK
  <1> QED BY <1>4, <1>5 DEF ForgetResource

(* The intent goes when nothing is left that it names.                     *)
LEMMA EndStep ==
  ASSUME StateInv, NEW p \in Hosts, EndRetirement(p)
  PROVE  StateInv'
  <1>1. /\ compositions[p].step = "delete" /\ compositions[p].todo = {}
        /\ UNCHANGED <<ledger, resources, retired>>
    BY DEF EndRetirement
  <1>2. retired = {}
    BY <1>1 DEF StateInv, RetiredIntended, PlanComplete
  <1>3. CASE /\ intent' = {}
             /\ compositions' = [compositions EXCEPT ![p].step = "up", ![p].leases = 1]
             /\ UNCHANGED lockedBy
    <2>0. STypeOK'
      BY ZenonT(40), <1>1, <1>3, OneLease DEF StateInv, STypeOK
    <2>1. LockHeld'
      BY <1>1, <1>3 DEF StateInv, STypeOK, LockHeld
    <2>2. RetiredIntended' /\ DirectoriesRecorded'
      BY <1>1, <1>2, <1>3 DEF StateInv, RetiredIntended, DirectoriesRecorded, Recorded, Doomed
    <2>3. PlanComplete' /\ RunningClean'
      BY <1>1, <1>3 DEF StateInv, STypeOK, LockHeld, PlanComplete, RunningClean, Doomed
    <2> QED BY <2>0, <2>1, <2>2, <2>3 DEF StateInv
  <1>4. CASE Fail(p) /\ intent' \in {intent, {}}
    <2>1. RetiredIntended' /\ DirectoriesRecorded'
      BY <1>1, <1>2 DEF StateInv, RetiredIntended, DirectoriesRecorded, Recorded, Doomed
    <2> QED BY <1>1, <1>4, <2>1, FailInv DEF StateInv, STypeOK
  <1> QED BY <1>3, <1>4 DEF EndRetirement

(* Acquiring and closing leases.                                           *)
LEMMA LeaseStep ==
  ASSUME StateInv, NEW p \in Hosts,
         \/ AcquireAgain(p)
         \/ \E enabled \in SUBSET Modules : AcquireFirst(p, enabled)
         \/ CloseLease(p)
  PROVE  StateInv'
  <1>1. CASE AcquireAgain(p)
    BY <1>1, StateBounds
    DEF AcquireAgain, StateInv, STypeOK, LockHeld, RetiredIntended, PlanComplete, RunningClean,
        DirectoriesRecorded, Recorded, Doomed
  <1>2. ASSUME NEW enabled \in SUBSET Modules, AcquireFirst(p, enabled)
        PROVE  StateInv'
    <2>0. UNCHANGED <<ledger, resources, intent, retired>>
      BY <1>2 DEF AcquireFirst
    <2>4. STypeOK'
      BY <1>2, <2>0, OneLease DEF AcquireFirst, StateInv, STypeOK, Down
    <2>1. LockHeld'
      BY <1>2, HostsAssumption DEF AcquireFirst, StateInv, STypeOK, LockHeld, Down
    <2>2. RetiredIntended' /\ DirectoriesRecorded'
      BY <2>0 DEF StateInv, RetiredIntended, DirectoriesRecorded, Recorded, Doomed
    <2>3. PlanComplete' /\ RunningClean'
      BY <1>2, <2>0 DEF AcquireFirst, StateInv, STypeOK, PlanComplete, RunningClean, Doomed, Down
    <2> QED BY <2>1, <2>2, <2>3, <2>4 DEF StateInv
  <1>3. CASE CloseLease(p)
    <2>1. CASE Fail(p)
      <3>1. RetiredIntended' /\ DirectoriesRecorded'
        BY <1>3 DEF CloseLease, StateInv, RetiredIntended, DirectoriesRecorded, Recorded, Doomed
      <3> QED BY <1>3, <2>1, <3>1, FailInv DEF CloseLease, StateInv, STypeOK
    <2>2. CASE /\ compositions[p].leases # 1
               /\ compositions' = [compositions EXCEPT ![p].leases = @ - 1]
               /\ UNCHANGED lockedBy
      BY <1>3, <2>2, StateBounds
      DEF CloseLease, StateInv, STypeOK, LockHeld, RetiredIntended, PlanComplete, RunningClean,
          DirectoriesRecorded, Recorded, Doomed
    <2> QED BY <1>3, <2>1, <2>2 DEF CloseLease
  <1> QED BY <1>1, <1>2, <1>3

(* The first write of a Module in a Thread: the record, then the directory. *)
LEMMA PrepareStep ==
  ASSUME StateInv, NEW p \in Hosts, NEW r \in Resources,
         PrepareRecord(p, r) \/ PrepareDirectory(p, r)
  PROVE  StateInv'
  <1>0. r = <<r[1], r[2]>> /\ r[1] \in ThreadDirs /\ r[2] \in Modules
    BY DEF Resources
  <1>1. CASE PrepareRecord(p, r)
    <2>1. STypeOK' /\ DirectoriesRecorded'
      BY <1>0, <1>1 DEF PrepareRecord, StateInv, STypeOK, DirectoriesRecorded, Recorded
    <2> QED BY <1>1, <2>1
        DEF PrepareRecord, StateInv, LockHeld, RetiredIntended, PlanComplete, RunningClean, Doomed
  <1>2. CASE PrepareDirectory(p, r)
    <2>1. intent = {}
      BY <1>2 DEF PrepareDirectory, StateInv, RunningClean
    <2> QED BY <1>2, <2>1
        DEF PrepareDirectory, StateInv, STypeOK, LockHeld, RetiredIntended, PlanComplete,
            RunningClean, DirectoriesRecorded, Recorded, Doomed
  <1> QED BY <1>1, <1>2

(* The process ends anywhere: the lock goes, the files stay.               *)
LEMMA HostEndsStep ==
  ASSUME StateInv, NEW p \in Hosts, HostEnds(p)
  PROVE  StateInv'
  <1>1. RetiredIntended' /\ DirectoriesRecorded'
    BY DEF HostEnds, StateInv, RetiredIntended, DirectoriesRecorded, Recorded, Doomed
  <1> QED BY <1>1, FailInv DEF HostEnds, StateInv, STypeOK

-----------------------------------------------------------------------------
(* The inductive invariant of Module state, for every set of processes,    *)
(* Threads and Modules and any failures (module/state, module_resources.go). *)
THEOREM ModuleStateInvariant == SSpec => []StateInv
  <1>1. StateInv /\ [SNext]_svars => StateInv'
    <2> SUFFICES ASSUME StateInv, [SNext]_svars PROVE StateInv'
      OBVIOUS
    <2>1. CASE UNCHANGED svars
      BY <2>1
      DEF svars, StateInv, STypeOK, LockHeld, RetiredIntended, PlanComplete, RunningClean,
          DirectoriesRecorded, Recorded, Doomed
    <2>2. CASE SNext
      BY <2>2, PlanStep, DeleteStep, ForgetStep, EndStep, LeaseStep, PrepareStep, HostEndsStep DEF SNext
    <2> QED BY <2>1, <2>2
  <1> QED BY <1>1, StateInit, PTL DEF SSpec

(* ModulesKept: no running composition works with state from before its    *)
(* owner was retired, and every directory is recorded, however often the   *)
(* process ended inside a retirement (Reconcile, Prepare).                 *)
THEOREM RetirementComplete == SSpec => []ModulesKept
  <1>1. StateInv => ModulesKept
    BY DEF StateInv, RetiredIntended, Doomed, RunningClean, ModulesKept, RetirementFinished
  <1> QED BY <1>1, ModuleStateInvariant, PTL

=============================================================================
