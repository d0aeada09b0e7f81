-------------------------- MODULE EventStoreProofs --------------------------
(***************************************************************************)
(* Proofs about the durable history of one Thread (EventStore), for any    *)
(* number of handles, commits, Generations, failing writes and crashes.    *)
(*                                                                         *)
(* One failure is excluded by hypothesis: an Append whose roll back fails  *)
(* too ("stray"), after which a commit lies behind the cursor that nobody  *)
(* has in memory.  A rollover whose thread.json is replaced although its   *)
(* write reports an error ("renewLate") is not: it ends the Thread (Lost), *)
(* as its roll back removes the file of the Generation that has become the *)
(* current one, but what was acknowledged before stays in the files.       *)
(*                                                                         *)
(* The heart of the invariant is what may lie between a journal and        *)
(* thread.json: at most one commit behind the cursor (HasTail).  A handle  *)
(* may be ahead of thread.json by exactly that commit, and only the        *)
(* owner's; recovering the commit then makes thread.json what the owner    *)
(* has in memory, and renaming the Thread instead leaves the two with      *)
(* different cursors for good (HandlesFollow).                             *)
(***************************************************************************)
EXTENDS EventStore, FiniteSetTheorems, SequenceTheorems, TLAPS

Survivable == "stray" \notin Faults

Cur == CurrentGeneration(meta)

(* A commit behind the cursor of thread.json *)
HasTail == Len(Current) = meta.off + 1
TailCommit == Current[meta.off + 1]

(* What thread.json becomes when that commit is published *)
Ahead == Advance(ApplyCommit(meta, TailCommit.kind))

-----------------------------------------------------------------------------
(* The invariant *)

(* What every projection of a Thread satisfies, in memory and on disk, when *)
(* n commits have been written.                                            *)
Plausible(p, n) ==
    /\ p \in Projections /\ CurrentGeneration(p) \in Generations
    /\ p.seq <= n /\ p.off <= p.seq /\ p.usage < p.seq /\ p.label < p.rev

ProjectionsPlausible ==
    /\ Plausible(meta, made) /\ Plausible(op.proj, made)
    /\ \A h \in Handles : Plausible(opened[h].proj, made)
    /\ HasTail => meta.seq < made

(* The registered journals follow on one another up to the cursor.         *)
Layout ==
    /\ meta.bounds[1] = 1
    /\ \A g \in Registered : journal[g] # <<>> /\ Consecutive(journal[g], meta.bounds[g])
    /\ \A g \in 1 .. Cur - 1 : meta.bounds[g + 1] = meta.bounds[g] + Len(journal[g])
    /\ meta.seq = meta.bounds[Cur] + meta.off - 1
    /\ Len(Current) \in {meta.off, meta.off + 1}

(* The published commits have the sequences 1, 2, ..., each once.          *)
Numbered ==
    /\ \A c \in Commits(meta) : c \in CommitRecords /\ c.seq <= meta.seq
    /\ \A s \in 1 .. meta.seq : \E c \in Commits(meta) : c.seq = s
    /\ \A c, d \in Commits(meta) : c.seq = d.seq => c = d

Usages == {c \in Commits(meta) : c.kind = "usage"}
UsageCounted == IsFiniteSet(Usages) /\ meta.usage = Cardinality(Usages)

AckedKept ==
    /\ acked \in Seq(CommitRecords) /\ Len(acked) <= meta.seq
    /\ \A s \in 1 .. Len(acked) : acked[s] \in Commits(meta) /\ acked[s].seq = s

(* No handle has what is in thread.json: every one is stale.               *)
AllStale == \A h \in Handles : opened[h].open => opened[h].proj.rev < meta.rev

(* A rollover is about to remove the file of the Generation that           *)
(* thread.json already selects.                                            *)
Superseding ==
    /\ "renewLate" \in Faults /\ AllStale
    /\ op.proj = meta /\ Cur > 1 /\ meta.off = 1 /\ ~HasTail
    /\ Current[1].kind = "boundary" /\ Len(acked) < meta.seq
    /\ \A g \in 1 .. Cur - 1 : \A k \in DOMAIN journal[g] : journal[g][k].seq < meta.seq

(* What the operation that holds the Store lock relies on at its next      *)
(* write                                                                   *)
OpReady ==
    /\ At("append") => HasTail /\ opened[Owner].open /\ op.proj = opened[Owner].proj /\ op.proj = Ahead
    /\ At("recover") => HasTail /\ ~opened[op.by].open /\ op.proj = Ahead
    /\ At("renew") =>
          /\ ~HasTail /\ opened[Owner].open /\ op.proj = Advance(ApplyBoundary(meta))
          /\ \E c \in CommitRecords : c.seq = meta.seq + 1 /\ c.kind = "boundary" /\ journal[Cur + 1] = <<c>>
    /\ At("discard") => CurrentGeneration(op.proj) = Cur + 1 \/ Superseding
    /\ At("mutate") =>
          /\ opened[op.by].open /\ (op.by = Owner => ~HasTail)
          /\ op.proj = [Advance(meta) EXCEPT !.label = @ + 1]
    /\ At("load") => ~HasTail /\ ~opened[op.by].open
    /\ op.step \in {"index", "load"} => op.proj = meta

(* An open handle is behind thread.json, has it, or has it with another    *)
(* cursor; the owner's may be one commit ahead.                            *)
HandlesFollow ==
    /\ \A h \in Handles : opened[h].open =>
          LET p == opened[h].proj IN
          /\ p.rev <= meta.rev + 1
          /\ p.rev = meta.rev + 1 => h = Owner /\ HasTail /\ p = Ahead
          /\ p.rev = meta.rev => p = meta \/ p.seq # meta.seq
    /\ HasTail /\ opened[Owner].open => opened[Owner].proj.seq = meta.seq + 1

HistoryPart == Layout /\ Numbered /\ UsageCounted /\ AckedKept
MemoryPart == ProjectionsPlausible /\ OpReady /\ HandlesFollow
Intact == ETypeOK /\ HistoryPart /\ MemoryPart

(* The file of the current Generation, which holds its boundary alone, has *)
(* been removed: the Thread cannot be opened, its earlier journals are as  *)
(* they were, and what is acknowledged lies in them.                       *)
LayoutBefore ==
    /\ meta.bounds[1] = 1 /\ meta.seq = meta.bounds[Cur]
    /\ \A g \in 1 .. Cur - 1 :
          /\ journal[g] # <<>> /\ Consecutive(journal[g], meta.bounds[g])
          /\ meta.bounds[g + 1] = meta.bounds[g] + Len(journal[g])

NumberedBefore ==
    /\ \A c \in Commits(meta) : c \in CommitRecords /\ c.seq < meta.seq
    /\ \A s \in 1 .. meta.seq - 1 : \E c \in Commits(meta) : c.seq = s
    /\ \A c, d \in Commits(meta) : c.seq = d.seq => c = d

Lost ==
    /\ ETypeOK /\ "renewLate" \in Faults
    /\ Unlocked /\ AllStale
    /\ Cur \in Generations /\ Cur > 1 /\ journal[Cur] = <<>>
    /\ LayoutBefore /\ NumberedBefore /\ UsageCounted
    /\ AckedKept /\ Len(acked) < meta.seq

HistoryInv == Intact \/ Lost

-----------------------------------------------------------------------------
(* The published commits *)

(* A published commit has a place in a registered journal.                 *)
LEMMA InCommits ==
  ASSUME NEW c
  PROVE  c \in Commits(meta) <=>
         \E g \in Registered : \E k \in Visible(meta, g) : c = journal[g][k]
  BY DEF Commits, Registered

(* ... and so it is after a step.                                          *)
LEMMA InCommitsNext ==
  ASSUME NEW c
  PROVE  c \in Commits(meta)' <=>
         \E g \in Registered' : \E k \in Visible(meta, g)' : c = journal'[g][k]
  BY DEF Commits, Registered

(* What thread.json and the registered journals are.                       *)
LEMMA MetaFacts ==
  ASSUME ETypeOK, Plausible(meta, made), Layout
  PROVE  /\ Cur \in Nat \ {0} /\ Cur \in Generations /\ Cur \in Registered
         /\ Registered = 1 .. Cur /\ Registered \subseteq Generations
         /\ meta.bounds \in Seq(1 .. MaxCommits) /\ Len(meta.bounds) = Cur
         /\ \A g \in Registered : meta.bounds[g] \in Nat \ {0} /\ journal[g] \in Seq(CommitRecords)
         /\ meta.seq \in Nat \ {0} /\ meta.off \in Nat \ {0} /\ meta.usage \in Nat
         /\ meta.rev \in Nat \ {0} /\ meta.label \in Nat
         /\ Current = journal[Cur] /\ Current \in Seq(CommitRecords) /\ Len(Current) \in Nat
         /\ meta \in Projections
  <1>0. MaxCommits \in Nat /\ MaxGenerations \in Nat /\ MaxRevision \in Nat
    BY CommitsAssumption, GenerationsAssumption, RevisionAssumption
  <1>1. meta \in Projections /\ Cur \in Generations
    BY DEF Plausible, Cur
  <1>2. /\ meta.bounds \in Seq(1 .. MaxCommits) /\ Len(meta.bounds) = Cur
        /\ meta.seq \in Nat \ {0} /\ meta.off \in Nat \ {0} /\ meta.usage \in Nat
        /\ meta.rev \in Nat \ {0} /\ meta.label \in Nat
    BY <1>0, <1>1 DEF Projections, Cur, CurrentGeneration
  <1>3. Cur \in Nat \ {0} /\ Cur \in Registered /\ Registered = 1 .. Cur /\ Registered \subseteq Generations
    BY <1>0, <1>1 DEF Registered, Generations, Cur
  <1>4. \A g \in Registered : meta.bounds[g] \in Nat \ {0}
    BY <1>0, <1>2, <1>3
  <1>5. \A g \in Registered : journal[g] \in Seq(CommitRecords)
    BY <1>3 DEF ETypeOK
  <1>6. Current = journal[Cur] /\ Current \in Seq(CommitRecords)
    BY <1>3, <1>5 DEF Current, Cur
  <1>7. Len(Current) \in Nat
    BY <1>6
  <1> QED BY <1>1, <1>2, <1>3, <1>4, <1>5, <1>6, <1>7

(* Of the current journal the commits before the cursor are published.     *)
LEMMA VisibleNow ==
  ASSUME ETypeOK, Plausible(meta, made), Layout
  PROVE  /\ Visible(meta, Cur) = 1 .. meta.off
         /\ \A g \in Registered \ {Cur} : Visible(meta, g) = 1 .. Len(journal[g])
  <1>1. /\ Cur \in Registered /\ Current = journal[Cur] /\ Current \in Seq(CommitRecords)
        /\ meta.off \in Nat /\ Len(Current) \in Nat
        /\ \A g \in Registered : journal[g] \in Seq(CommitRecords)
    BY MetaFacts
  <1>2. Len(Current) \in {meta.off, meta.off + 1}
    BY DEF Layout
  <1>3. Visible(meta, Cur) = {k \in 1 .. Len(Current) : k <= meta.off}
    BY <1>1 DEF Visible, Cur
  <1>4. ASSUME NEW g \in Registered, g # Cur
        PROVE  Visible(meta, g) = 1 .. Len(journal[g])
    BY <1>1, <1>4 DEF Visible, Cur
  <1> QED BY <1>1, <1>2, <1>3, <1>4

(* Commits that stay where they are stay published.                        *)
LEMMA SameCommits ==
  ASSUME Registered' = Registered,
         \A g \in Registered : /\ Visible(meta, g)' = Visible(meta, g)
                               /\ \A k \in Visible(meta, g) : journal'[g][k] = journal[g][k]
  PROVE  Commits(meta)' = Commits(meta)
  <1>1. ASSUME NEW c PROVE c \in Commits(meta)' <=> c \in Commits(meta)
    BY InCommits, InCommitsNext
  <1> QED BY <1>1

(* The histories of the part that does not depend on the files' layout are *)
(* kept by a step that publishes nothing new.                              *)
LEMMA NothingNew ==
  ASSUME Numbered, UsageCounted, AckedKept,
         Commits(meta)' = Commits(meta), meta'.seq = meta.seq, meta'.usage = meta.usage,
         acked' = acked
  PROVE  Numbered' /\ UsageCounted' /\ AckedKept'
  <1>1. Numbered'
    BY DEF Numbered
  <1>2. Usages' = Usages
    BY DEF Usages
  <1>3. UsageCounted'
    BY <1>2 DEF UsageCounted
  <1>4. AckedKept'
    BY DEF AckedKept
  <1> QED BY <1>1, <1>3, <1>4

(* A step that publishes the commit with the next sequence keeps them, if  *)
(* it counts a usage fact.                                                 *)
LEMMA OneMore ==
  ASSUME Numbered, UsageCounted, AckedKept, meta.seq \in Nat \ {0},
         NEW c \in CommitRecords, c.seq = meta.seq + 1,
         Commits(meta)' = Commits(meta) \cup {c}, meta'.seq = meta.seq + 1,
         meta'.usage = (IF c.kind = "usage" THEN meta.usage + 1 ELSE meta.usage),
         acked' = acked
  PROVE  Numbered' /\ UsageCounted' /\ AckedKept'
  <1>0. MaxCommits \in Nat
    BY CommitsAssumption
  <1>1. \A d \in Commits(meta) : d \in CommitRecords /\ d.seq <= meta.seq /\ d.seq \in Nat
    BY <1>0 DEF Numbered, CommitRecords
  <1>2. c \notin Commits(meta)
    BY <1>1
  <1>3. \A d \in Commits(meta)' : d \in CommitRecords /\ d.seq <= meta'.seq
    BY <1>1
  <1>4. \A s \in 1 .. meta'.seq : \E d \in Commits(meta)' : d.seq = s
    <2> SUFFICES ASSUME NEW s \in 1 .. meta'.seq PROVE \E d \in Commits(meta)' : d.seq = s
      OBVIOUS
    <2>1. CASE s = meta.seq + 1
      BY <2>1
    <2>2. CASE s # meta.seq + 1
      <3>1. s \in 1 .. meta.seq
        BY <2>2
      <3> QED BY <3>1 DEF Numbered
    <2> QED BY <2>1, <2>2
  <1>5. \A d, e \in Commits(meta)' : d.seq = e.seq => d = e
    BY <1>1 DEF Numbered
  <1>6. Numbered'
    BY <1>3, <1>4, <1>5 DEF Numbered
  <1>7. UsageCounted'
    <2>1. CASE c.kind = "usage"
      <3>1. Usages' = Usages \cup {c} /\ c \notin Usages
        BY <1>2, <2>1 DEF Usages
      <3> QED BY <2>1, <3>1, FS_AddElement DEF UsageCounted
    <2>2. CASE c.kind # "usage"
      <3>1. Usages' = Usages
        BY <2>2 DEF Usages
      <3> QED BY <2>2, <3>1 DEF UsageCounted
    <2> QED BY <2>1, <2>2
  <1>8. AckedKept'
    <2>1. Len(acked) \in Nat
      BY DEF AckedKept
    <2> QED BY <2>1 DEF AckedKept
  <1> QED BY <1>6, <1>7, <1>8

-----------------------------------------------------------------------------
(* What steps do to the history *)

(* A step that leaves the registered journals and the cursor alone keeps   *)
(* the history, and the commit behind the cursor.                          *)
LEMMA FilesStay ==
  ASSUME ETypeOK, Plausible(meta, made), HistoryPart,
         meta'.bounds = meta.bounds, meta'.seq = meta.seq, meta'.off = meta.off,
         meta'.usage = meta.usage, acked' = acked,
         \A g \in Registered : journal'[g] = journal[g]
  PROVE  HistoryPart' /\ (HasTail' <=> HasTail) /\ TailCommit' = TailCommit /\ Current' = Current
  <1>1. Cur \in Registered /\ Registered = 1 .. Cur /\ Current = journal[Cur] /\ Layout
    BY MetaFacts DEF HistoryPart
  <1>2. Cur' = Cur /\ Registered' = Registered
    BY DEF Cur, Registered, CurrentGeneration
  <1>3. Current' = Current
    BY <1>1, <1>2 DEF Current, Cur
  <1>4. \A g \in Registered : Visible(meta, g)' = Visible(meta, g)
    BY DEF Visible, CurrentGeneration
  <1>5. Commits(meta)' = Commits(meta)
    BY <1>2, <1>4, SameCommits
  <1>6. Layout'
    <2>1. \A g \in Registered' : journal'[g] # <<>> /\ Consecutive(journal[g], meta.bounds[g])'
      BY <1>1, <1>2 DEF Layout, Consecutive
    <2>2. \A g \in 1 .. Cur' - 1 : meta'.bounds[g + 1] = meta'.bounds[g] + Len(journal'[g])
      <3> SUFFICES ASSUME NEW g \in 1 .. Cur - 1
                   PROVE  meta.bounds[g + 1] = meta.bounds[g] + Len(journal'[g])
        BY <1>2
      <3>1. g \in Registered
        BY <1>1, MetaFacts DEF Layout
      <3> QED BY <1>1, <3>1 DEF Layout
    <2> QED BY <1>1, <1>2, <1>3, <2>1, <2>2 DEF Layout
  <1>7. Numbered' /\ UsageCounted' /\ AckedKept'
    BY <1>5, NothingNew DEF HistoryPart
  <1> QED BY <1>3, <1>6, <1>7 DEF HistoryPart, HasTail, TailCommit

(* Appending a commit behind the cursor publishes nothing.                 *)
LEMMA TailWritten ==
  ASSUME ETypeOK, Plausible(meta, made), HistoryPart, ~HasTail,
         NEW c \in CommitRecords, c.seq = meta.seq + 1,
         journal' = [journal EXCEPT ![Cur] = Append(@, c)], meta' = meta, acked' = acked
  PROVE  HistoryPart' /\ HasTail' /\ TailCommit' = c
  <1>1. /\ Cur \in Registered /\ Registered = 1 .. Cur /\ Current = journal[Cur] /\ Layout
        /\ Cur \in Generations /\ Registered \subseteq Generations
        /\ Current \in Seq(CommitRecords) /\ meta.off \in Nat \ {0} /\ Len(Current) \in Nat
        /\ meta.seq \in Nat /\ Cur \in Nat
        /\ \A g \in Registered : meta.bounds[g] \in Nat \ {0} /\ journal[g] \in Seq(CommitRecords)
    BY MetaFacts DEF HistoryPart
  <1>2. Cur' = Cur /\ Registered' = Registered
    BY DEF Cur, Registered, CurrentGeneration
  <1>3. journal'[Cur] = Append(Current, c) /\ \A g \in Registered \ {Cur} : journal'[g] = journal[g]
    BY <1>1 DEF ETypeOK
  <1>4. Current' = Append(Current, c) /\ Len(Current) = meta.off
    BY <1>1, <1>2, <1>3 DEF Current, Cur, Layout, HasTail
  <1>5. /\ Len(Append(Current, c)) = meta.off + 1 /\ Append(Current, c)[meta.off + 1] = c
        /\ \A k \in 1 .. meta.off : Append(Current, c)[k] = Current[k]
    BY <1>1, <1>4
  <1>6. Len(Current') = meta.off + 1 /\ TailCommit' = c
    BY <1>4, <1>5 DEF TailCommit
  <1>7. Commits(meta)' = Commits(meta)
    <2>1. ASSUME NEW g \in Registered, g # Cur
          PROVE  Visible(meta, g)' = Visible(meta, g) /\ journal'[g] = journal[g]
      BY <1>3, <2>1 DEF Visible
    <2>2. Visible(meta, Cur) = 1 .. meta.off
      BY <1>1, VisibleNow
    <2>3. DOMAIN Append(Current, c) = 1 .. meta.off + 1
      BY <1>1, <1>5
    <2>4. Visible(meta, Cur)' = 1 .. meta.off
      <3>1. Visible(meta, Cur)' = {k \in 1 .. meta.off + 1 : k <= meta.off}
        BY <1>2, <1>3, <2>3 DEF Visible, Cur
      <3> QED BY <1>1, <3>1
    <2>5. \A k \in Visible(meta, Cur) : journal'[Cur][k] = journal[Cur][k]
      BY <1>1, <1>3, <1>5, <2>2
    <2>6. \A g \in Registered : /\ Visible(meta, g)' = Visible(meta, g)
                                /\ \A k \in Visible(meta, g) : journal'[g][k] = journal[g][k]
      BY <1>2, <2>1, <2>2, <2>4, <2>5
    <2> QED BY <1>2, <2>6, SameCommits
  <1>8. Layout'
    <2>1. Append(Current, c) # <<>> /\ Consecutive(Append(Current, c), meta.bounds[Cur])
      <3>1. DOMAIN Append(Current, c) = 1 .. meta.off + 1 /\ DOMAIN Current = 1 .. meta.off
        BY <1>1, <1>4, <1>5
      <3>2. \A k \in 1 .. meta.off : Current[k].seq = meta.bounds[Cur] + k - 1
        BY <1>1, <3>1 DEF Layout, Consecutive
      <3>3. c.seq = meta.bounds[Cur] + (meta.off + 1) - 1 /\ meta.bounds[Cur] \in Nat
        BY <1>1 DEF Layout
      <3>4. ASSUME NEW k \in 1 .. meta.off + 1
            PROVE  Append(Current, c)[k].seq = meta.bounds[Cur] + k - 1
        <4>1. CASE k = meta.off + 1
          BY <1>5, <3>3, <4>1
        <4>2. CASE k # meta.off + 1
          <5>1. k \in 1 .. meta.off
            BY <1>1, <4>2
          <5> QED BY <1>5, <3>2, <5>1
        <4> QED BY <4>1, <4>2
      <3>5. Consecutive(Append(Current, c), meta.bounds[Cur])
        BY <3>1, <3>4 DEF Consecutive
      <3>6. Append(Current, c) # <<>>
        BY SMTT(30), <1>1
      <3> QED BY <3>5, <3>6
    <2>2. \A g \in Registered' : journal'[g] # <<>> /\ Consecutive(journal[g], meta.bounds[g])'
      <3>1. ASSUME NEW g \in Registered, g # Cur
            PROVE  journal'[g] # <<>> /\ Consecutive(journal'[g], meta.bounds[g])
        BY <1>1, <1>3, <3>1 DEF Layout
      <3>2. \A g \in Registered : journal'[g] # <<>> /\ Consecutive(journal'[g], meta.bounds[g])
        BY <1>3, <2>1, <3>1
      <3> QED BY <1>2, <3>2 DEF Consecutive
    <2>3. \A g \in 1 .. Cur' - 1 : meta'.bounds[g + 1] = meta'.bounds[g] + Len(journal'[g])
      <3> SUFFICES ASSUME NEW g \in 1 .. Cur - 1
                   PROVE  meta.bounds[g + 1] = meta.bounds[g] + Len(journal'[g])
        BY <1>2
      <3>1. g \in Registered /\ g # Cur
        BY <1>1
      <3> QED BY <1>1, <1>3, <3>1 DEF Layout
    <2> QED BY <1>1, <1>2, <1>6, <2>2, <2>3 DEF Layout
  <1>9. Numbered' /\ UsageCounted' /\ AckedKept'
    BY <1>7, NothingNew DEF HistoryPart
  <1> QED BY <1>6, <1>8, <1>9 DEF HistoryPart, HasTail

(* The fields of the projections that steps write                          *)
LEMMA ProjectionWritten ==
  ASSUME NEW p \in Projections, NEW kind
  PROVE  /\ LET q == Advance(ApplyCommit(p, kind)) IN
            /\ q.rev = p.rev + 1 /\ q.bounds = p.bounds /\ q.seq = p.seq + 1 /\ q.off = p.off + 1
            /\ q.usage = (IF kind = "usage" THEN p.usage + 1 ELSE p.usage) /\ q.label = p.label
         /\ LET q == Advance(ApplyBoundary(p)) IN
            /\ q.rev = p.rev + 1 /\ q.bounds = Append(p.bounds, p.seq + 1) /\ q.seq = p.seq + 1
            /\ q.off = 1 /\ q.usage = p.usage /\ q.label = p.label
         /\ LET q == [Advance(p) EXCEPT !.label = @ + 1] IN
            /\ q.rev = p.rev + 1 /\ q.bounds = p.bounds /\ q.seq = p.seq /\ q.off = p.off
            /\ q.usage = p.usage /\ q.label = p.label + 1
  BY DEF Advance, ApplyCommit, ApplyBoundary, Projections

(* Publishing the commit behind the cursor extends the history by it.      *)
LEMMA TailPublished ==
  ASSUME ETypeOK, Plausible(meta, made), HistoryPart, HasTail,
         meta' = Ahead, journal' = journal, acked' = acked
  PROVE  HistoryPart' /\ ~HasTail'
  <1> DEFINE c == TailCommit
  <1>1. /\ Cur \in Registered /\ Registered = 1 .. Cur /\ Current = journal[Cur] /\ Layout
        /\ Current \in Seq(CommitRecords) /\ meta.off \in Nat \ {0} /\ Len(Current) = meta.off + 1
        /\ meta.seq \in Nat \ {0} /\ Cur \in Nat /\ meta \in Projections
        /\ \A g \in Registered : meta.bounds[g] \in Nat \ {0} /\ journal[g] \in Seq(CommitRecords)
    BY MetaFacts DEF HistoryPart, HasTail
  <1>2. /\ meta'.bounds = meta.bounds /\ meta'.seq = meta.seq + 1 /\ meta'.off = meta.off + 1
        /\ meta'.usage = (IF c.kind = "usage" THEN meta.usage + 1 ELSE meta.usage)
    BY <1>1, ProjectionWritten DEF Ahead
  <1>3. Cur' = Cur /\ Registered' = Registered
    BY <1>2 DEF Cur, Registered, CurrentGeneration
  <1>4. Current' = Current
    BY <1>3 DEF Current, Cur
  <1>5. /\ DOMAIN Current = 1 .. meta.off + 1 /\ c = journal[Cur][meta.off + 1] /\ c \in CommitRecords
        /\ meta.off + 1 \in 1 .. meta.off + 1
    BY <1>1 DEF TailCommit
  <1>6. c.seq = meta.seq + 1
    <2>1. c.seq = meta.bounds[Cur] + (meta.off + 1) - 1
      BY <1>1, <1>5 DEF Layout, Consecutive
    <2> QED BY SMTT(30), <1>1, <2>1 DEF Layout
  <1>7. Commits(meta)' = Commits(meta) \cup {c}
    <2>1. ASSUME NEW g \in Registered, g # Cur PROVE Visible(meta, g)' = Visible(meta, g)
      BY <1>3, <2>1 DEF Visible, Cur
    <2>2. Visible(meta, Cur) = 1 .. meta.off
      BY <1>1, VisibleNow
    <2>3. Visible(meta, Cur)' = 1 .. meta.off + 1
      <3>1. Visible(meta, Cur)' = {k \in 1 .. meta.off + 1 : k <= meta.off + 1}
        BY <1>1, <1>2, <1>3, <1>5 DEF Visible, Cur
      <3> QED BY <1>1, <3>1
    <2>4. 1 .. meta.off + 1 = (1 .. meta.off) \cup {meta.off + 1}
      BY <1>1
    <2>5. Visible(meta, Cur)' = Visible(meta, Cur) \cup {meta.off + 1}
      BY <2>2, <2>3, <2>4
    <2> HIDE DEF c
    <2>6. ASSUME NEW d PROVE d \in Commits(meta)' <=> d \in Commits(meta) \cup {c}
      <3>1. d \in Commits(meta)' <=> \E g \in Registered : \E k \in Visible(meta, g)' : d = journal[g][k]
        BY <1>3, InCommitsNext
      <3>2. d \in Commits(meta) <=> \E g \in Registered : \E k \in Visible(meta, g) : d = journal[g][k]
        BY InCommits
      <3>3. ASSUME NEW g \in Registered, g # Cur
            PROVE  (\E k \in Visible(meta, g)' : d = journal[g][k]) <=>
                   (\E k \in Visible(meta, g) : d = journal[g][k])
        BY <2>1, <3>3
      <3>4. (\E k \in Visible(meta, Cur)' : d = journal[Cur][k]) <=>
            (\E k \in Visible(meta, Cur) : d = journal[Cur][k]) \/ d = c
        BY <1>5, <2>5
      <3>5. d \in Commits(meta) \cup {c} <=> d \in Commits(meta) \/ d = c
        OBVIOUS
      <3>6. \A g \in Registered :
               (\E k \in Visible(meta, g)' : d = journal[g][k]) <=>
               (\E k \in Visible(meta, g) : d = journal[g][k]) \/ (g = Cur /\ d = c)
        BY <1>3, <3>3, <3>4
      <3> QED BY <1>1, <3>1, <3>2, <3>5, <3>6
    <2> QED BY <2>6
  <1>8. Layout' /\ ~HasTail'
    <2>1. Len(Current') = meta'.off
      BY <1>1, <1>2, <1>4
    <2>2. meta'.seq = meta'.bounds[Cur'] + meta'.off - 1
      BY SMTT(30), <1>1, <1>2, <1>3 DEF Layout
    <2>3. /\ meta'.bounds[1] = 1
          /\ \A g \in Registered' : journal'[g] # <<>> /\ Consecutive(journal[g], meta.bounds[g])'
          /\ \A g \in 1 .. Cur' - 1 : meta'.bounds[g + 1] = meta'.bounds[g] + Len(journal'[g])
      BY <1>1, <1>2, <1>3 DEF Layout, Consecutive
    <2>4. ~HasTail'
      BY <1>1, <1>2, <2>1 DEF HasTail
    <2> QED BY <2>1, <2>2, <2>3, <2>4 DEF Layout
  <1> HIDE DEF c
  <1>9. Numbered' /\ UsageCounted' /\ AckedKept'
    BY <1>1, <1>2, <1>5, <1>6, <1>7, OneMore DEF HistoryPart
  <1> QED BY <1>8, <1>9 DEF HistoryPart

(* Selecting a staged Generation extends the history by its boundary.      *)
LEMMA BoundaryPublished ==
  ASSUME ETypeOK, Plausible(meta, made), HistoryPart, ~HasTail,
         NEW c \in CommitRecords, c.seq = meta.seq + 1, c.kind = "boundary",
         journal[Cur + 1] = <<c>>, journal' = journal,
         meta' = Advance(ApplyBoundary(meta)), acked' = acked
  PROVE  HistoryPart' /\ ~HasTail'
  <1>1. /\ Cur \in Registered /\ Registered = 1 .. Cur /\ Current = journal[Cur] /\ Layout
        /\ Current \in Seq(CommitRecords) /\ meta.off \in Nat \ {0} /\ Len(Current) \in Nat
        /\ meta.seq \in Nat \ {0} /\ Cur \in Nat \ {0} /\ meta \in Projections
        /\ meta.bounds \in Seq(1 .. MaxCommits) /\ Len(meta.bounds) = Cur
        /\ \A g \in Registered : meta.bounds[g] \in Nat \ {0} /\ journal[g] \in Seq(CommitRecords)
    BY MetaFacts DEF HistoryPart
  <1>2. /\ meta'.bounds = Append(meta.bounds, meta.seq + 1) /\ meta'.seq = meta.seq + 1
        /\ meta'.off = 1 /\ meta'.usage = meta.usage
    BY <1>1, ProjectionWritten
  <1>3. /\ Len(meta'.bounds) = Cur + 1 /\ meta'.bounds[Cur + 1] = meta.seq + 1
        /\ \A g \in 1 .. Cur : meta'.bounds[g] = meta.bounds[g]
    BY <1>1, <1>2
  <1>4. Cur' = Cur + 1 /\ Registered' = Registered \cup {Cur + 1}
    BY <1>1, <1>3 DEF Cur, Registered, CurrentGeneration
  <1>5. Current' = <<c>>
    BY <1>4 DEF Current, Cur
  <1>11. PICK n : n = Cur + 1
    OBVIOUS
  <1>6. Len(<<c>>) = 1 /\ DOMAIN <<c>> = {1} /\ <<c>>[1] = c /\ <<c>> # <<>>
    OBVIOUS
  <1>7. Len(Current) = meta.off
    BY <1>1 DEF Layout, HasTail
  <1>8. Commits(meta)' = Commits(meta) \cup {c}
    <2>1. ASSUME NEW g \in Registered PROVE Visible(meta, g)' = Visible(meta, g)
      <3>1. Visible(meta, g) = 1 .. Len(journal[g])
        BY <1>1, <1>7, VisibleNow
      <3>2. g # Cur'
        BY <1>1, <1>4
      <3>3. Visible(meta, g)' = DOMAIN journal[g]
        BY <3>2 DEF Visible, Cur
      <3> QED BY <1>1, <3>1, <3>3
    <2>2. Visible(meta, n)' = {1}
      <3>1. journal[n] = <<c>> /\ n = CurrentGeneration(meta')
        BY <1>4, <1>11 DEF Cur
      <3>2. Visible(meta, n)' = {k \in DOMAIN <<c>> : k <= 1}
        BY <1>2, <3>1 DEF Visible
      <3> QED BY <1>6, <3>2
    <2>3. ASSUME NEW d PROVE d \in Commits(meta)' <=> d \in Commits(meta) \/ d = c
      <3>1. d \in Commits(meta)' <=>
            \E g \in Registered \cup {n} : \E k \in Visible(meta, g)' : d = journal[g][k]
        BY <1>4, <1>11, InCommitsNext
      <3>2. d \in Commits(meta) <=> \E g \in Registered : \E k \in Visible(meta, g) : d = journal[g][k]
        BY InCommits
      <3>3. (\E k \in Visible(meta, n)' : d = journal[n][k]) <=> d = c
        BY <1>6, <1>11, <2>2
      <3>4. ASSUME NEW g \in Registered
            PROVE  (\E k \in Visible(meta, g)' : d = journal[g][k]) <=>
                   (\E k \in Visible(meta, g) : d = journal[g][k])
        BY <2>1
      <3> QED BY <3>1, <3>2, <3>3, <3>4
    <2> QED BY <2>3
  <1>9. Layout' /\ ~HasTail'
    <2>1. Len(Current') = meta'.off /\ ~HasTail'
      BY <1>2, <1>5, <1>6 DEF HasTail
    <2>2. meta'.seq = meta'.bounds[Cur'] + meta'.off - 1
      BY <1>1, <1>2, <1>3, <1>4
    <2>3. Consecutive(<<c>>, meta.seq + 1)
      BY <1>1, <1>6 DEF Consecutive
    <2>4. \A g \in Registered' : journal'[g] # <<>> /\ Consecutive(journal[g], meta.bounds[g])'
      <3>1. \A g \in Registered : journal'[g] # <<>> /\ Consecutive(journal[g], meta.bounds[g])'
        <4> SUFFICES ASSUME NEW g \in Registered
                     PROVE  journal[g] # <<>> /\ Consecutive(journal[g], meta'.bounds[g])
          BY DEF Consecutive
        <4>1. meta'.bounds[g] = meta.bounds[g]
          BY <1>1, <1>3
        <4> QED BY <1>1, <4>1 DEF Layout
      <3>2. journal'[Cur + 1] # <<>> /\ Consecutive(journal'[Cur + 1], meta'.bounds[Cur + 1])
        BY <1>3, <1>6, <2>3
      <3> QED BY <1>4, <3>1, <3>2 DEF Consecutive
    <2>5. \A g \in 1 .. Cur' - 1 : meta'.bounds[g + 1] = meta'.bounds[g] + Len(journal'[g])
      <3> SUFFICES ASSUME NEW g \in 1 .. Cur
                   PROVE  meta'.bounds[g + 1] = meta.bounds[g] + Len(journal[g])
        BY <1>1, <1>3, <1>4
      <3>1. CASE g = Cur
        <4>1. meta.seq + 1 = meta.bounds[Cur] + Len(journal[Cur])
          BY SMTT(30), <1>1, <1>7 DEF Layout
        <4> QED BY <1>3, <3>1, <4>1
      <3>2. CASE g # Cur
        <4>1. g \in 1 .. Cur - 1 /\ g + 1 \in 1 .. Cur
          BY <1>1, <3>2
        <4> QED BY <1>1, <1>3, <4>1 DEF Layout
      <3> QED BY <3>1, <3>2
    <2>6. meta'.bounds[1] = 1
      <3>1. 1 \in 1 .. Cur
        BY <1>1
      <3> QED BY <1>1, <1>3, <3>1 DEF Layout
    <2> QED BY <2>1, <2>2, <2>4, <2>5, <2>6 DEF Layout
  <1>10. Numbered' /\ UsageCounted' /\ AckedKept'
    BY <1>1, <1>2, <1>8, OneMore DEF HistoryPart
  <1> QED BY <1>9, <1>10 DEF HistoryPart

-----------------------------------------------------------------------------
(* Projections *)

(* More commits do not make a projection implausible.                      *)
LEMMA PlausibleStays ==
  ASSUME NEW n \in Nat, NEW m \in Nat, n <= m, NEW p, Plausible(p, n)
  PROVE  Plausible(p, m)
  <1>1. MaxCommits \in Nat
    BY CommitsAssumption
  <1>2. p.seq \in Nat
    BY <1>1 DEF Plausible, Projections
  <1> QED BY <1>2 DEF Plausible

(* Revisions are numbers.                                                  *)
LEMMA RevisionNat ==
  ASSUME NEW n, NEW p, Plausible(p, n) PROVE p.rev \in Nat
  <1>1. p.rev \in 1 .. MaxRevision /\ MaxRevision \in Nat
    BY RevisionAssumption DEF Plausible, Projections
  <1> QED BY <1>1

(* A created Thread, and a closed handle.                                  *)
LEMMA PlausibleCreated ==
  ASSUME NEW n \in Nat, n >= 1 PROVE Plausible(Created, n)
  <1>0. MaxCommits \in Nat \ {0} /\ MaxGenerations \in Nat \ {0} /\ MaxRevision \in Nat \ {0}
    BY CommitsAssumption, GenerationsAssumption, RevisionAssumption
  <1>1. <<1>> \in Seq(1 .. MaxCommits) /\ Len(<<1>>) = 1
    BY <1>0
  <1>2. Created \in Projections
    BY <1>0, <1>1 DEF Created, Projections
  <1>3. CurrentGeneration(Created) = 1
    BY <1>1 DEF CurrentGeneration, Created
  <1> QED BY <1>0, <1>2, <1>3 DEF Plausible, Created, Generations

(* What steps write is plausible if there are commits enough.              *)
LEMMA PlausibleWritten ==
  ASSUME NEW n \in Nat, NEW m \in Nat, m <= MaxCommits, NEW p, Plausible(p, n), p.rev < MaxRevision
  PROVE  /\ \A kind : p.seq < m => Plausible(Advance(ApplyCommit(p, kind)), m)
         /\ p.seq < m /\ CurrentGeneration(p) + 1 \in Generations =>
              Plausible(Advance(ApplyBoundary(p)), m)
         /\ n <= m => Plausible([Advance(p) EXCEPT !.label = @ + 1], m)
  <1>0. MaxCommits \in Nat /\ MaxGenerations \in Nat /\ MaxRevision \in Nat
    BY CommitsAssumption, GenerationsAssumption, RevisionAssumption
  <1>1. /\ p \in Projections /\ p.bounds \in Seq(1 .. MaxCommits) /\ Len(p.bounds) \in Generations
        /\ p.seq \in Nat /\ p.off \in Nat /\ p.usage \in Nat /\ p.label \in Nat /\ p.rev \in Nat
        /\ p.seq >= 1 /\ p.off >= 1
        /\ p.seq <= n /\ p.off <= p.seq /\ p.usage < p.seq /\ p.label < p.rev
        /\ p.seq <= MaxCommits /\ p.off <= MaxCommits
    BY <1>0 DEF Plausible, Projections, CurrentGeneration
  <1>7. p.rev \in Nat /\ p.label \in Nat /\ p.label < p.rev /\ p.rev < MaxRevision
    BY <1>1
  <1>5. p.rev + 1 \in 1 .. MaxRevision /\ p.label + 1 \in 0 .. MaxRevision
    BY <1>0, <1>7
  <1>6. p.seq < m => p.seq + 1 \in 1 .. MaxCommits /\ p.off + 1 \in 1 .. MaxCommits
    BY <1>0, <1>1
  <1>2. ASSUME NEW kind, p.seq < m PROVE Plausible(Advance(ApplyCommit(p, kind)), m)
    <2> DEFINE q == Advance(ApplyCommit(p, kind))
    <2>1. /\ p.seq + 1 \in 1 .. MaxCommits /\ p.off + 1 \in 1 .. MaxCommits
          /\ p.rev + 1 \in 1 .. MaxRevision
      BY <1>2, <1>5, <1>6
    <2>2. /\ q.rev = p.rev + 1 /\ q.bounds = p.bounds /\ q.seq = p.seq + 1 /\ q.off = p.off + 1
          /\ q.usage = (IF kind = "usage" THEN p.usage + 1 ELSE p.usage) /\ q.label = p.label
      BY <1>1, ProjectionWritten
    <2>3. /\ (IF kind = "usage" THEN p.usage + 1 ELSE p.usage) \in 0 .. p.seq
          /\ (IF kind = "usage" THEN p.usage + 1 ELSE p.usage) \in 0 .. MaxCommits
      BY <1>0, <1>1
    <2>5. ApplyCommit(p, kind) \in Projections
      BY <1>1, <2>1, <2>3 DEF Projections, ApplyCommit
    <2>6. ApplyCommit(p, kind).rev = p.rev
      BY <1>1 DEF ApplyCommit, Projections
    <2>4. q \in Projections
      BY <2>1, <2>5, <2>6 DEF Projections, Advance
    <2> HIDE DEF q
    <2>7. q.seq <= m /\ q.off <= q.seq /\ q.label < q.rev
      BY SMTT(30), <1>1, <1>2, <2>2
    <2>8. q.usage < q.seq
      BY <1>1, <2>2, <2>3
    <2>9. CurrentGeneration(q) \in Generations
      BY <1>1, <2>2 DEF CurrentGeneration
    <2> QED BY <2>4, <2>7, <2>8, <2>9 DEF Plausible, q
  <1>3. ASSUME p.seq < m, CurrentGeneration(p) + 1 \in Generations
        PROVE  Plausible(Advance(ApplyBoundary(p)), m)
    <2> DEFINE q == Advance(ApplyBoundary(p))
    <2>0. /\ Append(p.bounds, p.seq + 1) \in Seq(1 .. MaxCommits)
          /\ Len(Append(p.bounds, p.seq + 1)) = Len(p.bounds) + 1
      BY <1>0, <1>1, <1>3
    <2>1. p.seq + 1 \in 1 .. MaxCommits /\ 1 \in 1 .. MaxCommits /\ p.rev + 1 \in 1 .. MaxRevision
      BY SMTT(30), <1>0, <1>1, <1>3
    <2>2. /\ q.rev = p.rev + 1 /\ q.bounds = Append(p.bounds, p.seq + 1) /\ q.seq = p.seq + 1
          /\ q.off = 1 /\ q.usage = p.usage /\ q.label = p.label
      BY <1>1, ProjectionWritten
    <2>5. ApplyBoundary(p) \in Projections
      BY <1>1, <2>0, <2>1 DEF Projections, ApplyBoundary
    <2>6. ApplyBoundary(p).rev = p.rev
      BY <1>1 DEF ApplyBoundary, Projections
    <2>4. q \in Projections
      BY <2>1, <2>5, <2>6 DEF Projections, Advance
    <2> HIDE DEF q
    <2>7. q.seq <= m /\ q.off <= q.seq /\ q.label < q.rev /\ q.usage < q.seq
      BY SMTT(30), <1>1, <1>3, <2>2
    <2>9. CurrentGeneration(q) \in Generations
      BY <1>1, <1>3, <2>0, <2>2 DEF CurrentGeneration
    <2> QED BY <2>4, <2>7, <2>9 DEF Plausible, q
  <1>4. ASSUME n <= m PROVE Plausible([Advance(p) EXCEPT !.label = @ + 1], m)
    <2> DEFINE q == [Advance(p) EXCEPT !.label = @ + 1]
    <2>1. p.rev + 1 \in 1 .. MaxRevision /\ p.label + 1 \in 0 .. MaxRevision
      BY <1>5
    <2>2. /\ q.rev = p.rev + 1 /\ q.bounds = p.bounds /\ q.seq = p.seq
          /\ q.off = p.off /\ q.usage = p.usage /\ q.label = p.label + 1
      BY <1>1, ProjectionWritten
    <2>5. Advance(p) \in Projections
      BY <1>1, <2>1 DEF Projections, Advance
    <2>6. Advance(p).label = p.label
      BY <1>1 DEF Advance, Projections
    <2>4. q \in Projections
      BY <2>1, <2>5, <2>6 DEF Projections
    <2> HIDE DEF q
    <2>7. q.seq <= m /\ q.off <= q.seq /\ q.label < q.rev /\ q.usage < q.seq
      BY <1>1, <1>4, <2>2
    <2>9. CurrentGeneration(q) \in Generations
      BY <1>1, <2>2 DEF CurrentGeneration
    <2> QED BY <2>4, <2>7, <2>9 DEF Plausible, q
  <1> QED BY <1>2, <1>3, <1>4

-----------------------------------------------------------------------------
(* Steps *)

(* What the invariant says of the state before a step.                     *)
LEMMA Before ==
  ASSUME Intact
  PROVE  /\ ETypeOK /\ HistoryPart /\ Layout /\ OpReady /\ HandlesFollow /\ ProjectionsPlausible
         /\ Plausible(meta, made) /\ Plausible(op.proj, made) /\ \A h \in Handles : Plausible(opened[h].proj, made)
         /\ made \in Nat /\ made >= 1 /\ made <= MaxCommits /\ Owner \in Handles
         /\ opened \in [Handles -> [open : BOOLEAN, proj : Projections]]
         /\ op.by \in Handles
  <1>1. MaxCommits \in Nat /\ Owner \in Handles
    BY CommitsAssumption DEF Handles
  <1>2. ETypeOK /\ HistoryPart /\ MemoryPart
    BY DEF Intact
  <1>3. made \in 1 .. MaxCommits /\ op.by \in Handles /\ opened \in [Handles -> [open : BOOLEAN, proj : Projections]]
    BY <1>2 DEF ETypeOK
  <1> QED BY <1>1, <1>2, <1>3 DEF MemoryPart, HistoryPart, ProjectionsPlausible

(* A handle that passes the revision and cursor check has what is in       *)
(* thread.json, and there is no commit behind the cursor if it is the      *)
(* owner's.                                                                *)
LEMMA CurrentIsMeta ==
  ASSUME Intact, NEW h \in Handles, EnsureCurrent(h)
  PROVE  opened[h].open /\ opened[h].proj = meta /\ (h = Owner => ~HasTail)
  <1>1. opened[h].open /\ opened[h].proj.rev = meta.rev /\ opened[h].proj.seq = meta.seq
    BY DEF EnsureCurrent
  <1>2. HandlesFollow /\ meta.seq \in Nat
    BY Before, MetaFacts
  <1>3. opened[h].proj = meta
    BY <1>1, <1>2 DEF HandlesFollow
  <1>4. h = Owner => ~HasTail
    BY <1>1, <1>2 DEF HandlesFollow
  <1> QED BY <1>1, <1>3, <1>4

(* A step that leaves thread.json and the registered journals alone keeps  *)
(* the history and what is behind the cursor.                              *)
LEMMA HistoryStays ==
  ASSUME Intact, meta' = meta, acked' = acked, \A g \in Registered : journal'[g] = journal[g]
  PROVE  /\ HistoryPart' /\ (HasTail' <=> HasTail) /\ Ahead' = Ahead /\ Cur' = Cur
         /\ Registered' = Registered /\ Current' = Current
  <1>1. HistoryPart' /\ (HasTail' <=> HasTail) /\ TailCommit' = TailCommit /\ Current' = Current
    BY Before, FilesStay
  <1>2. Ahead' = Ahead
    BY <1>1 DEF Ahead, Advance, ApplyCommit
  <1> QED BY <1>1, <1>2 DEF Cur, CurrentGeneration, Registered

(* ... and the handles that stay open as they are.                         *)
LEMMA HandlesStay ==
  ASSUME Intact, meta' = meta, HasTail' <=> HasTail, Ahead' = Ahead,
         \A h \in Handles : opened'[h].open => opened'[h] = opened[h]
  PROVE  HandlesFollow'
  <1>1. HandlesFollow /\ Owner \in Handles
    BY Before
  <1>2. ASSUME NEW h \in Handles, opened'[h].open
        PROVE  LET p == opened'[h].proj IN
               /\ p.rev <= meta'.rev + 1
               /\ p.rev = meta'.rev + 1 => h = Owner /\ HasTail' /\ p = Ahead'
               /\ p.rev = meta'.rev => p = meta' \/ p.seq # meta'.seq
    BY <1>1, <1>2 DEF HandlesFollow
  <1>3. HasTail' /\ opened'[Owner].open => opened'[Owner].proj.seq = meta'.seq + 1
    BY <1>1 DEF HandlesFollow
  <1> QED BY <1>2, <1>3 DEF HandlesFollow

(* An operation that ends leaves nothing to rely on.                       *)
LEMMA Ended ==
  ASSUME Intact, op' = Idle, made' \in Nat, made <= made'
  PROVE  OpReady' /\ op' \in [by : Handles, step : Steps, proj : Projections] /\ Plausible(op'.proj, made')
  <1>1. Plausible(Created, made') /\ Owner \in Handles
    BY Before, PlausibleCreated
  <1>2. Created \in Projections
    BY <1>1 DEF Plausible
  <1>3. op'.step = "idle" /\ op'.proj = Created
    BY DEF Idle
  <1>4. op' \in [by : Handles, step : Steps, proj : Projections]
    BY <1>1, <1>2 DEF Idle, Steps
  <1>5. OpReady'
    BY <1>3 DEF OpReady, At
  <1> QED BY <1>1, <1>3, <1>4, <1>5

(* An operation that begins or goes on, at a step that writes projection p. *)
LEMMA Begun ==
  ASSUME Intact, NEW h \in Handles, NEW step \in Steps, NEW p, NEW n \in Nat, Plausible(p, n),
         op' = [by |-> h, step |-> step, proj |-> p]
  PROVE  /\ op' \in [by : Handles, step : Steps, proj : Projections] /\ Plausible(op'.proj, n)
         /\ op'.by = h /\ op'.step = step /\ op'.proj = p
  <1>1. p \in Projections
    BY DEF Plausible
  <1> QED BY <1>1

(* The next write of the same operation                                    *)
LEMMA GoesOn ==
  ASSUME Intact, NEW step \in Steps, Then(step)
  PROVE  /\ op' \in [by : Handles, step : Steps, proj : Projections] /\ Plausible(op'.proj, made)
         /\ op'.by = op.by /\ op'.step = step /\ op'.proj = op.proj
  <1>1. op \in [by : Handles, step : Steps, proj : Projections] /\ Plausible(op.proj, made)
    BY Before DEF ETypeOK
  <1> QED BY <1>1 DEF Then

(* A handle that is given a projection, or closed                          *)
LEMMA Given ==
  ASSUME Intact, NEW h \in Handles, NEW p, NEW b \in BOOLEAN, NEW n \in Nat, made <= n, Plausible(p, n),
         opened' = [opened EXCEPT ![h] = [open |-> b, proj |-> p]]
  PROVE  /\ opened' \in [Handles -> [open : BOOLEAN, proj : Projections]]
         /\ \A k \in Handles : Plausible(opened'[k].proj, n)
         /\ opened'[h].open = b /\ opened'[h].proj = p
         /\ \A k \in Handles \ {h} : opened'[k] = opened[k]
  <1>1. p \in Projections
    BY DEF Plausible
  <1>2. opened \in [Handles -> [open : BOOLEAN, proj : Projections]] /\ made \in Nat
        /\ \A k \in Handles : Plausible(opened[k].proj, made)
    BY Before
  <1>3. opened' \in [Handles -> [open : BOOLEAN, proj : Projections]]
    <2>1. [open |-> b, proj |-> p] \in [open : BOOLEAN, proj : Projections]
      BY <1>1
    <2> QED BY <1>2, <2>1
  <1>4. /\ opened'[h].open = b /\ opened'[h].proj = p
        /\ \A k \in Handles \ {h} : opened'[k] = opened[k]
    BY <1>2
  <1>5. ASSUME NEW k \in Handles PROVE Plausible(opened'[k].proj, n)
    <2>1. Plausible(opened[k].proj, n)
      BY <1>2, PlausibleStays
    <2> QED BY <1>4, <2>1
  <1> QED BY <1>3, <1>4, <1>5

(* What has been written stays plausible when more is.                     *)
LEMMA AllPlausible ==
  ASSUME Intact, NEW n \in Nat, made <= n
  PROVE  Plausible(meta, n) /\ Plausible(op.proj, n) /\ \A h \in Handles : Plausible(opened[h].proj, n)
  BY Before, PlausibleStays

(* A failing write is counted, a working one is not.                       *)
LEMMA Counted ==
  ASSUME Intact, NEW kind, Works \/ Fails(kind)
  PROVE  faults' \in 0 .. MaxFaults
  <1>1. MaxFaults \in Nat /\ faults \in 0 .. MaxFaults
    BY StoreBounds, Before DEF ETypeOK
  <1> QED BY <1>1 DEF Works, Fails

(* Appending facts puts one commit behind the cursor, and in the memory of *)
(* the owner.                                                              *)
LEMMA StepAppendFacts ==
  ASSUME Intact, Survivable, NEW kind \in {"usage", "fact"}, AppendFacts(kind)
  PROVE  Intact'
  <1> DEFINE q == Advance(ApplyCommit(meta, kind))
             c == [id |-> made + 1, seq |-> meta.seq + 1, kind |-> kind]
  <1>1. EnsureCurrent(Owner) /\ Unlocked
    BY DEF AppendFacts
  <1>2. opened[Owner].open /\ opened[Owner].proj = meta /\ ~HasTail
    BY <1>1, Before, CurrentIsMeta
  <1>3. /\ ETypeOK /\ HistoryPart /\ Plausible(meta, made) /\ made \in Nat /\ made >= 1 /\ Owner \in Handles
        /\ HandlesFollow
    BY Before
  <1>4. /\ made < MaxCommits /\ meta.rev < MaxRevision /\ MaxCommits \in Nat
        /\ meta.seq \in Nat \ {0} /\ meta.seq <= made /\ meta \in Projections
    <2>1. q.rev = meta.rev + 1 /\ meta \in Projections
      BY <1>3, ProjectionWritten DEF Plausible
    <2>2. made < MaxCommits /\ q.rev <= MaxRevision
      BY <1>2 DEF AppendFacts
    <2>3. meta.seq \in Nat \ {0} /\ meta.seq <= made /\ meta.rev \in Nat /\ meta \in Projections
      BY <1>3, MetaFacts DEF HistoryPart, Plausible
    <2> HIDE DEF q
    <2> QED BY <2>1, <2>2, <2>3, CommitsAssumption, RevisionAssumption
  <1>5. CASE /\ Works /\ journal' = [journal EXCEPT ![Cur] = Append(@, c)] /\ made' = made + 1
             /\ Publish(Owner, q) /\ Begin(Owner, "append", q)
             /\ UNCHANGED <<meta, index, acked, crashes>>
    <2>1. c \in CommitRecords /\ c.seq = meta.seq + 1 /\ c.kind = kind
      BY <1>3, <1>4 DEF CommitRecords
    <2> HIDE DEF c
    <2>2. HistoryPart' /\ HasTail' /\ TailCommit' = c
      BY <1>2, <1>3, <1>5, <2>1, TailWritten
    <2>3. Ahead' = q
      BY <1>5, <2>1, <2>2 DEF Ahead, Advance, ApplyCommit
    <2>4. q.rev = meta.rev + 1 /\ q.seq = meta.seq + 1
      BY <1>4, ProjectionWritten
    <2>12. made' \in Nat /\ made <= made' /\ made' <= MaxCommits /\ meta.seq < made'
      BY <1>3, <1>4, <1>5
    <2>5. Plausible(q, made')
      <3>1. \A k : meta.seq < made' => Plausible(Advance(ApplyCommit(meta, k)), made')
        BY <1>3, <1>4, <2>12, PlausibleWritten
      <3> QED BY <2>12, <3>1
    <2> HIDE DEF q
    <2>6. /\ op' \in [by : Handles, step : Steps, proj : Projections] /\ Plausible(op'.proj, made')
          /\ op'.by = Owner /\ op'.step = "append" /\ op'.proj = q
      BY <1>3, <1>5, <2>5, Begun DEF Begin, Steps
    <2>7. /\ opened' \in [Handles -> [open : BOOLEAN, proj : Projections]]
          /\ \A k \in Handles : Plausible(opened'[k].proj, made')
          /\ opened'[Owner].open = TRUE /\ opened'[Owner].proj = q
          /\ \A k \in Handles \ {Owner} : opened'[k] = opened[k]
      <3>1. opened' = [opened EXCEPT ![Owner] = [open |-> TRUE, proj |-> q]]
        BY <1>5 DEF Publish
      <3> QED BY <1>3, <2>5, <2>12, <3>1, Given
    <2>8. ProjectionsPlausible'
      BY <1>3, <1>4, <1>5, <2>6, <2>7, AllPlausible DEF ProjectionsPlausible
    <2>9. OpReady'
      BY <2>2, <2>3, <2>6, <2>7 DEF OpReady, At
    <2>10. HandlesFollow'
      <3>1. ASSUME NEW k \in Handles, k # Owner, opened'[k].open
            PROVE  /\ opened'[k].proj.rev <= meta'.rev + 1 /\ opened'[k].proj.rev # meta'.rev + 1
                   /\ (opened'[k].proj.rev = meta'.rev => opened'[k].proj = meta' \/ opened'[k].proj.seq # meta'.seq)
        BY <1>3, <1>5, <2>7, <3>1 DEF HandlesFollow
      <3>2. q.rev # meta.rev /\ q.rev <= meta.rev + 1
        BY <1>3, <2>4, MetaFacts DEF HistoryPart
      <3> QED BY <1>5, <2>2, <2>3, <2>4, <2>7, <3>1, <3>2 DEF HandlesFollow
    <2>11. ETypeOK'
      <3>1. journal' \in [Generations -> Seq(CommitRecords)]
        BY <1>3, <1>5, <2>1, MetaFacts DEF ETypeOK, HistoryPart
      <3>2. faults' \in 0 .. MaxFaults
        BY <1>5, Counted
      <3>3. made' \in 1 .. MaxCommits
        BY <1>3, <1>4, <1>5
      <3>4. meta' \in Projections /\ index' \in 1 .. MaxRevision /\ crashes' \in 0 .. MaxCrashes
        BY <1>3, <1>5 DEF ETypeOK
      <3> QED BY <2>6, <2>7, <3>1, <3>2, <3>3, <3>4 DEF ETypeOK
    <2> QED BY <2>2, <2>8, <2>9, <2>10, <2>11 DEF Intact, MemoryPart
  <1>6. CASE Fails("journal") /\ UNCHANGED <<journal, made, opened, op, meta, index, acked, crashes>>
    <2>1. faults' \in 0 .. MaxFaults
      BY <1>6, Counted
    <2>2. /\ HistoryPart' /\ (HasTail' <=> HasTail) /\ Ahead' = Ahead /\ Cur' = Cur
      BY <1>6, HistoryStays
    <2>3. HandlesFollow'
      BY <1>6, <2>2, HandlesStay
    <2>4. OpReady'
      BY <1>1, <1>6 DEF OpReady, At, Unlocked
    <2>5. ProjectionsPlausible'
      BY <1>6, <2>2, Before DEF ProjectionsPlausible
    <2>6. ETypeOK'
      BY <1>3, <1>6, <2>1 DEF ETypeOK
    <2> QED BY <2>2, <2>3, <2>4, <2>5, <2>6 DEF Intact, MemoryPart
  <1> QED BY <1>2, <1>5, <1>6 DEF AppendFacts, Survivable, Fails, Commit, Cur

(* An operation that ends without a change to the files that count         *)
LEMMA NothingCounts ==
  ASSUME Intact, op' = Idle, meta' = meta, acked' = acked, made' = made,
         journal' \in [Generations -> Seq(CommitRecords)], \A g \in Registered : journal'[g] = journal[g],
         index' \in {index, meta.rev}, faults' \in 0 .. MaxFaults, crashes' \in 0 .. MaxCrashes,
         opened' \in [Handles -> [open : BOOLEAN, proj : Projections]],
         \A h \in Handles : Plausible(opened'[h].proj, made),
         \A h \in Handles : opened'[h].open => opened'[h] = opened[h]
  PROVE  Intact'
  <1>1. /\ ETypeOK /\ HistoryPart /\ ProjectionsPlausible /\ Plausible(meta, made) /\ made \in Nat
        /\ meta.rev \in 1 .. MaxRevision
    BY Before DEF ETypeOK, Projections
  <1>2. HistoryPart' /\ (HasTail' <=> HasTail) /\ Ahead' = Ahead
    BY HistoryStays
  <1>3. HandlesFollow'
    BY <1>2, HandlesStay
  <1>4. OpReady' /\ op' \in [by : Handles, step : Steps, proj : Projections] /\ Plausible(op'.proj, made')
    BY <1>1, Ended
  <1>5. ProjectionsPlausible'
    BY <1>1, <1>2, <1>4 DEF ProjectionsPlausible
  <1>6. ETypeOK'
    BY <1>1, <1>4 DEF ETypeOK
  <1> QED BY <1>2, <1>3, <1>4, <1>5, <1>6 DEF Intact, MemoryPart

(* A failing write that ends its operation                                 *)
LEMMA GivenUp ==
  ASSUME Intact, NEW kind, Fails(kind), End,
         UNCHANGED <<journal, meta, index, opened, made, acked, crashes>>
  PROVE  Intact'
  <1>1. faults' \in 0 .. MaxFaults
    BY Counted
  <1>2. /\ journal \in [Generations -> Seq(CommitRecords)] /\ crashes \in 0 .. MaxCrashes
        /\ opened \in [Handles -> [open : BOOLEAN, proj : Projections]]
        /\ \A h \in Handles : Plausible(opened[h].proj, made)
    BY Before DEF ETypeOK
  <1> QED BY <1>1, <1>2, NothingCounts DEF End

(* thread.json is replaced by what the operation has of the commit behind  *)
(* the cursor.                                                             *)
LEMMA TailSettles ==
  ASSUME Intact, HasTail, op.proj = Ahead, meta' = op.proj, faults' \in 0 .. MaxFaults,
         UNCHANGED <<journal, index, opened, made, acked, crashes>>,
         op' \in [by : Handles, step : Steps, proj : Projections], Plausible(op'.proj, made),
         OpReady'
  PROVE  Intact'
  <1>1. /\ ETypeOK /\ HistoryPart /\ ProjectionsPlausible /\ HandlesFollow /\ Owner \in Handles
        /\ Plausible(meta, made) /\ Plausible(op.proj, made)
        /\ \A h \in Handles : Plausible(opened[h].proj, made)
    BY Before
  <1>2. HistoryPart' /\ ~HasTail'
    BY <1>1, TailPublished
  <1>3. meta.rev \in Nat /\ meta'.rev = meta.rev + 1
    BY <1>1, MetaFacts, ProjectionWritten DEF Ahead, HistoryPart
  <1>4. HandlesFollow'
    <2>1. ASSUME NEW h \in Handles, opened[h].open
          PROVE  LET p == opened[h].proj IN
                 /\ p.rev <= meta'.rev + 1 /\ p.rev # meta'.rev + 1
                 /\ (p.rev = meta'.rev => p = meta')
      <3> DEFINE p == opened[h].proj
      <3>1. /\ p.rev <= meta.rev + 1
            /\ (p.rev = meta.rev + 1 => p = Ahead)
        BY <1>1, <2>1 DEF HandlesFollow
      <3>2. p.rev \in Nat
        BY <1>1, RevisionNat
      <3> HIDE DEF p
      <3>3. /\ p.rev <= meta'.rev + 1 /\ p.rev # meta'.rev + 1
            /\ (p.rev = meta'.rev => p = meta')
        BY <1>3, <3>1, <3>2
      <3> QED BY <3>3 DEF p
    <2> QED BY <1>2, <2>1 DEF HandlesFollow
  <1>5. ProjectionsPlausible'
    BY <1>1, <1>2 DEF ProjectionsPlausible
  <1>6. ETypeOK'
    <2>1. meta' \in Projections
      BY <1>1 DEF Plausible
    <2> QED BY <1>1, <2>1 DEF ETypeOK
  <1> QED BY <1>2, <1>4, <1>5, <1>6 DEF Intact, MemoryPart

(* Writing thread.json after an append                                     *)
LEMMA StepPersistAppend ==
  ASSUME Intact, PersistAppend
  PROVE  Intact'
  <1>1. At("append") /\ HasTail /\ op.proj = Ahead /\ made \in Nat
    BY Before DEF PersistAppend, OpReady
  <1>2. CASE Works /\ Replaced /\ Then("index") /\ UNCHANGED <<journal, index, opened, made, acked, crashes>>
    <2>1. /\ op' \in [by : Handles, step : Steps, proj : Projections] /\ Plausible(op'.proj, made)
          /\ op'.step = "index" /\ op'.proj = op.proj
      BY <1>2, GoesOn DEF Steps
    <2>2. OpReady'
      BY <1>2, <2>1 DEF OpReady, At, Replaced
    <2>3. faults' \in 0 .. MaxFaults
      BY <1>2, Counted
    <2> QED BY <1>1, <1>2, <2>1, <2>2, <2>3, TailSettles DEF Replaced
  <1>3. CASE Fails("meta") /\ NotReplaced /\ End /\ UNCHANGED <<journal, index, opened, made, acked, crashes>>
    BY <1>3, GivenUp DEF NotReplaced
  <1>4. CASE Fails("metaLate") /\ Replaced /\ End /\ UNCHANGED <<journal, index, opened, made, acked, crashes>>
    <2>1. OpReady' /\ op' \in [by : Handles, step : Steps, proj : Projections] /\ Plausible(op'.proj, made)
      BY <1>1, <1>4, Ended DEF End
    <2>2. faults' \in 0 .. MaxFaults
      BY <1>4, Counted
    <2> QED BY <1>1, <1>4, <2>1, <2>2, TailSettles DEF Replaced
  <1> QED BY <1>2, <1>3, <1>4 DEF PersistAppend

(* Staging the next Generation writes a file that thread.json does not name. *)
LEMMA StepStageNextGeneration ==
  ASSUME Intact, StageNextGeneration
  PROVE  Intact'
  <1> DEFINE q == Advance(ApplyBoundary(meta))
             c == [id |-> made + 1, seq |-> meta.seq + 1, kind |-> "boundary"]
  <1>1. EnsureCurrent(Owner) /\ Unlocked
    BY DEF StageNextGeneration
  <1>2. opened[Owner].open /\ opened[Owner].proj = meta /\ ~HasTail
    BY <1>1, Before, CurrentIsMeta
  <1>3. /\ ETypeOK /\ HistoryPart /\ Plausible(meta, made) /\ made \in Nat /\ made >= 1 /\ Owner \in Handles
        /\ HandlesFollow /\ ProjectionsPlausible
    BY Before
  <1>4. /\ made < MaxCommits /\ meta.rev < MaxRevision /\ MaxCommits \in Nat
        /\ meta.seq \in Nat \ {0} /\ meta.seq <= made /\ meta \in Projections
        /\ Cur + 1 \in Generations /\ Cur + 1 \notin Registered
    <2>1. made < MaxCommits /\ meta.rev < MaxRevision /\ Cur + 1 \in Generations
      BY <1>2 DEF StageNextGeneration, Cur
    <2>2. meta.seq \in Nat \ {0} /\ meta.seq <= made /\ meta \in Projections
          /\ Registered = 1 .. Cur /\ Cur \in Nat
      BY <1>3, MetaFacts DEF HistoryPart, Plausible
    <2> QED BY <2>1, <2>2, CommitsAssumption
  <1>5. CASE /\ Works /\ journal' = [journal EXCEPT ![Cur + 1] = <<c>>] /\ made' = made + 1
             /\ Begin(Owner, "renew", q) /\ UNCHANGED <<meta, index, opened, acked, crashes>>
    <2>1. c \in CommitRecords /\ c.seq = meta.seq + 1 /\ c.kind = "boundary"
      BY <1>3, <1>4 DEF CommitRecords
    <2> HIDE DEF c
    <2>2. /\ journal' \in [Generations -> Seq(CommitRecords)] /\ journal'[Cur + 1] = <<c>>
          /\ \A g \in Registered : journal'[g] = journal[g]
      <3>1. <<c>> \in Seq(CommitRecords)
        BY <2>1
      <3>2. Registered \subseteq Generations
        BY <1>3, MetaFacts DEF HistoryPart
      <3> QED BY <1>3, <1>4, <1>5, <3>1, <3>2 DEF ETypeOK
    <2>3. HistoryPart' /\ (HasTail' <=> HasTail) /\ Ahead' = Ahead /\ Cur' = Cur
      BY <1>5, <2>2, HistoryStays
    <2>4. made' \in Nat /\ made <= made' /\ made' <= MaxCommits /\ meta.seq < made' /\ made' \in 1 .. MaxCommits
      BY <1>3, <1>4, <1>5
    <2>5. Plausible(q, made')
      BY <1>3, <1>4, <2>4, PlausibleWritten DEF Cur
    <2>6. q = Advance(ApplyBoundary(meta'))
      BY <1>5
    <2> HIDE DEF q
    <2>7. /\ op' \in [by : Handles, step : Steps, proj : Projections] /\ Plausible(op'.proj, made')
          /\ op'.by = Owner /\ op'.step = "renew" /\ op'.proj = q
      BY <1>3, <1>5, <2>4, <2>5, Begun DEF Begin, Steps
    <2>8. ProjectionsPlausible'
      BY <1>2, <1>5, <2>3, <2>4, <2>7, AllPlausible DEF ProjectionsPlausible
    <2>9. OpReady'
      <3>1. \E d \in CommitRecords : d.seq = meta'.seq + 1 /\ d.kind = "boundary" /\ journal'[Cur' + 1] = <<d>>
        BY <1>5, <2>1, <2>2, <2>3
      <3> QED BY <1>2, <1>5, <2>3, <2>6, <2>7, <3>1 DEF OpReady, At
    <2>10. HandlesFollow'
      BY <1>5, <2>3, HandlesStay
    <2>11. ETypeOK'
      <3>1. faults' \in 0 .. MaxFaults
        BY <1>5, Counted
      <3> QED BY <1>3, <1>5, <2>2, <2>4, <2>7, <3>1 DEF ETypeOK
    <2> QED BY <2>3, <2>8, <2>9, <2>10, <2>11 DEF Intact, MemoryPart
  <1>6. CASE Fails("journal") /\ UNCHANGED <<journal, made, op, meta, index, opened, acked, crashes>>
    <2>1. faults' \in 0 .. MaxFaults
      BY <1>6, Counted
    <2>2. /\ HistoryPart' /\ (HasTail' <=> HasTail) /\ Ahead' = Ahead /\ Cur' = Cur
      BY <1>6, HistoryStays
    <2>3. HandlesFollow'
      BY <1>6, <2>2, HandlesStay
    <2>4. OpReady'
      BY <1>1, <1>6 DEF OpReady, At, Unlocked
    <2>5. ProjectionsPlausible'
      BY <1>3, <1>6, <2>2 DEF ProjectionsPlausible
    <2>6. ETypeOK'
      BY <1>3, <1>6, <2>1 DEF ETypeOK
    <2> QED BY <2>2, <2>3, <2>4, <2>5, <2>6 DEF Intact, MemoryPart
  <1> QED BY <1>2, <1>5, <1>6 DEF StageNextGeneration, Commit, Cur

(* Writing thread.json selects the staged Generation, or leaves its file to *)
(* be removed.                                                             *)
LEMMA StepPersistGeneration ==
  ASSUME Intact, PersistGeneration
  PROVE  Intact'
  <1>1. /\ At("renew") /\ ~HasTail /\ opened[Owner].open /\ op.proj = Advance(ApplyBoundary(meta))
        /\ \E c \in CommitRecords : c.seq = meta.seq + 1 /\ c.kind = "boundary" /\ journal[Cur + 1] = <<c>>
    BY Before DEF PersistGeneration, OpReady
  <1>2. /\ ETypeOK /\ HistoryPart /\ Plausible(meta, made) /\ Plausible(op.proj, made) /\ made \in Nat
        /\ Owner \in Handles /\ HandlesFollow /\ ProjectionsPlausible
        /\ \A h \in Handles : Plausible(opened[h].proj, made)
    BY Before
  <1>3. /\ meta.rev \in Nat /\ op.proj.rev = meta.rev + 1 /\ op.proj.bounds = Append(meta.bounds, meta.seq + 1)
        /\ meta.bounds \in Seq(1 .. MaxCommits) /\ meta.seq \in Nat
    BY ZenonT(40), <1>1, <1>2, MetaFacts, ProjectionWritten DEF HistoryPart
  <1>4. CASE Works /\ Replaced /\ Publish(Owner, op.proj) /\ Then("index")
             /\ UNCHANGED <<journal, index, made, acked, crashes>>
    <2>1. HistoryPart' /\ ~HasTail'
      BY <1>1, <1>2, <1>4, BoundaryPublished DEF Replaced
    <2>2. /\ op' \in [by : Handles, step : Steps, proj : Projections] /\ Plausible(op'.proj, made)
          /\ op'.step = "index" /\ op'.proj = op.proj
      BY <1>4, GoesOn DEF Steps
    <2>3. OpReady'
      BY <1>4, <2>2 DEF OpReady, At, Replaced
    <2>4. /\ opened' \in [Handles -> [open : BOOLEAN, proj : Projections]]
          /\ \A k \in Handles : Plausible(opened'[k].proj, made)
          /\ opened'[Owner].open = TRUE /\ opened'[Owner].proj = op.proj
          /\ \A k \in Handles \ {Owner} : opened'[k] = opened[k]
      <3> DEFINE p == op.proj
      <3>1. opened' = [opened EXCEPT ![Owner] = [open |-> TRUE, proj |-> p]] /\ Plausible(p, made)
        BY <1>2, <1>4 DEF Publish
      <3> HIDE DEF p
      <3>3. made <= made /\ TRUE \in BOOLEAN
        BY <1>2
      <3>2. /\ opened' \in [Handles -> [open : BOOLEAN, proj : Projections]]
            /\ \A k \in Handles : Plausible(opened'[k].proj, made)
            /\ opened'[Owner].open = TRUE /\ opened'[Owner].proj = p
            /\ \A k \in Handles \ {Owner} : opened'[k] = opened[k]
        BY <1>2, <3>1, <3>3, Given
      <3> QED BY <3>2 DEF p
    <2>5. ProjectionsPlausible'
      BY <1>2, <1>4, <2>1, <2>2, <2>4 DEF ProjectionsPlausible, Replaced
    <2>6. HandlesFollow'
      <3>1. ASSUME NEW k \in Handles, k # Owner, opened'[k].open
            PROVE  LET r == opened'[k].proj.rev IN
                   r <= meta'.rev + 1 /\ r # meta'.rev + 1 /\ r # meta'.rev
        <4> DEFINE r == opened[k].proj.rev
        <4>1. r \in Nat
          BY <1>2, RevisionNat
        <4>2. r <= meta.rev + 1 /\ r # meta.rev + 1
          BY <1>2, <2>4, <3>1 DEF HandlesFollow
        <4> HIDE DEF r
        <4>3. r <= meta'.rev + 1 /\ r # meta'.rev + 1 /\ r # meta'.rev
          BY <1>3, <1>4, <4>1, <4>2 DEF Replaced
        <4> QED BY <2>4, <3>1, <4>3 DEF r
      <3>2. LET p == opened'[Owner].proj IN
            p.rev <= meta'.rev + 1 /\ p.rev # meta'.rev + 1 /\ p = meta'
        BY <1>3, <1>4, <2>4 DEF Replaced
      <3> QED BY <2>1, <3>1, <3>2 DEF HandlesFollow
    <2>7. ETypeOK'
      <3>1. faults' \in 0 .. MaxFaults /\ meta' \in Projections
        BY <1>2, <1>4, Counted DEF Replaced, Plausible
      <3> QED BY <1>2, <1>4, <2>2, <2>4, <3>1 DEF ETypeOK
    <2> QED BY <2>1, <2>3, <2>5, <2>6, <2>7 DEF Intact, MemoryPart
  <1>5. CASE Fails("meta") /\ NotReplaced /\ Then("discard") /\ UNCHANGED opened
             /\ UNCHANGED <<journal, index, made, acked, crashes>>
    <2>1. /\ HistoryPart' /\ (HasTail' <=> HasTail) /\ Ahead' = Ahead /\ Cur' = Cur
      BY <1>5, HistoryStays DEF NotReplaced
    <2>2. /\ op' \in [by : Handles, step : Steps, proj : Projections] /\ Plausible(op'.proj, made)
          /\ op'.step = "discard" /\ op'.proj = op.proj
      BY <1>5, GoesOn DEF Steps
    <2>3. CurrentGeneration(op'.proj) = Cur' + 1
      BY <1>3, <2>1, <2>2 DEF CurrentGeneration, Cur
    <2>4. OpReady'
      BY <2>2, <2>3 DEF OpReady, At
    <2>5. HandlesFollow'
      BY <1>5, <2>1, HandlesStay DEF NotReplaced
    <2>6. ProjectionsPlausible'
      BY <1>2, <1>5, <2>1, <2>2 DEF ProjectionsPlausible, NotReplaced
    <2>7. ETypeOK'
      <3>1. faults' \in 0 .. MaxFaults
        BY <1>5, Counted
      <3> QED BY <1>2, <1>5, <2>2, <3>1 DEF ETypeOK, NotReplaced
    <2> QED BY <2>1, <2>4, <2>5, <2>6, <2>7 DEF Intact, MemoryPart
  <1>6. CASE Fails("renewLate") /\ Replaced /\ Then("discard") /\ UNCHANGED opened
             /\ UNCHANGED <<journal, index, made, acked, crashes>>
    <2>1. HistoryPart' /\ ~HasTail'
      BY <1>1, <1>2, <1>6, BoundaryPublished DEF Replaced
    <2>2. /\ op' \in [by : Handles, step : Steps, proj : Projections] /\ Plausible(op'.proj, made)
          /\ op'.step = "discard" /\ op'.proj = op.proj
      BY <1>6, GoesOn DEF Steps
    <2>3. /\ Cur \in Nat \ {0} /\ Len(meta.bounds) = Cur /\ meta \in Projections
          /\ Len(acked) <= meta.seq /\ acked \in Seq(CommitRecords)
      BY <1>2, MetaFacts DEF HistoryPart, AckedKept
    <2>4. meta'.off = 1 /\ meta'.seq = meta.seq + 1 /\ Cur' = Cur + 1 /\ meta'.rev = meta.rev + 1
      <3>1. meta'.bounds = Append(meta.bounds, meta.seq + 1) /\ meta'.rev = meta.rev + 1
        BY <1>3, <1>6 DEF Replaced
      <3>2. Cur' = Cur + 1
        BY <1>3, <2>3, <3>1 DEF Cur, CurrentGeneration
      <3>3. meta'.off = 1 /\ meta'.seq = meta.seq + 1
        BY <1>1, <1>6, <2>3, ProjectionWritten DEF Replaced
      <3> QED BY <3>1, <3>2, <3>3
    <2>5. Current'[1].kind = "boundary"
      <3>1. PICK c \in CommitRecords : c.kind = "boundary" /\ journal[Cur + 1] = <<c>>
        BY <1>1
      <3>2. Current' = <<c>>
        BY <1>6, <2>4, <3>1 DEF Current, Cur
      <3> QED BY <3>1, <3>2
    <2>12. ASSUME NEW g \in 1 .. Cur' - 1, NEW k \in DOMAIN journal'[g]
           PROVE  journal'[g][k].seq < meta'.seq
      <3>8. Registered = 1 .. Cur /\ Current = journal[Cur] /\ Current \in Seq(CommitRecords) /\ meta.off \in Nat
            /\ \A i \in Registered : journal[i] \in Seq(CommitRecords)
        BY <1>2, MetaFacts DEF HistoryPart
      <3>9. g \in 1 .. Cur
        BY <2>3, <2>4
      <3>1. g \in Registered /\ journal'[g] = journal[g] /\ journal[g] \in Seq(CommitRecords)
        BY <1>6, <3>8, <3>9
      <3>2. Len(Current) = meta.off
        BY <1>1, <1>2, <3>8 DEF HistoryPart, Layout, HasTail
      <3>3. Visible(meta, g) = 1 .. Len(journal[g])
        BY <1>2, <3>1, <3>2, <3>8, VisibleNow DEF HistoryPart
      <3>4. k \in Visible(meta, g)
        BY <2>12, <3>1, <3>3
      <3>5. journal[g][k] \in Commits(meta)
        BY <3>1, <3>4, InCommits
      <3>6. journal[g][k] \in CommitRecords /\ journal[g][k].seq <= meta.seq
        BY <1>2, <3>5 DEF HistoryPart, Numbered
      <3>7. journal[g][k].seq \in Nat
        BY <3>6, CommitsAssumption DEF CommitRecords
      <3> QED BY <1>3, <2>4, <3>1, <3>6, <3>7
    <2>6. ASSUME NEW k \in Handles, opened'[k].open
          PROVE  opened'[k].proj.rev < meta'.rev
      <3> DEFINE r == opened[k].proj.rev
      <3>1. r \in Nat
        BY <1>2, RevisionNat
      <3>2. r <= meta.rev + 1 /\ r # meta.rev + 1
        BY <1>1, <1>2, <1>6, <2>6 DEF HandlesFollow
      <3> HIDE DEF r
      <3>3. r < meta'.rev
        BY <1>3, <2>4, <3>1, <3>2
      <3> QED BY <1>6, <3>3 DEF r
    <2>7. OpReady'
      <3>1. Superseding'
        <4>1. Len(acked') < meta'.seq
          BY <1>3, <1>6, <2>3, <2>4
        <4> QED BY <1>6, <2>1, <2>2, <2>3, <2>4, <2>5, <2>6, <2>12, <4>1 DEF Superseding, AllStale, Replaced, Fails
      <3> QED BY <2>2, <3>1 DEF OpReady, At
    <2>8. ProjectionsPlausible'
      BY <1>2, <1>6, <2>1, <2>2 DEF ProjectionsPlausible, Replaced
    <2>9. HandlesFollow'
      <3>1. ASSUME NEW k \in Handles, opened'[k].open
            PROVE  LET r == opened'[k].proj.rev IN
                   r <= meta'.rev + 1 /\ r # meta'.rev + 1 /\ r # meta'.rev
        <4> DEFINE r == opened[k].proj.rev
        <4>1. r \in Nat /\ r < meta'.rev
          BY <1>2, <1>6, <2>6, <3>1, RevisionNat
        <4> HIDE DEF r
        <4>2. r <= meta'.rev + 1 /\ r # meta'.rev + 1 /\ r # meta'.rev
          BY <1>3, <2>4, <4>1
        <4> QED BY <1>6, <4>2 DEF r
      <3> QED BY <2>1, <3>1 DEF HandlesFollow
    <2>10. ETypeOK'
      <3>1. faults' \in 0 .. MaxFaults /\ meta' \in Projections
        BY <1>2, <1>6, Counted DEF Replaced, Plausible
      <3> QED BY <1>2, <1>6, <2>2, <3>1 DEF ETypeOK
    <2> QED BY <2>1, <2>7, <2>8, <2>9, <2>10 DEF Intact, MemoryPart
  <1> QED BY <1>4, <1>5, <1>6 DEF PersistGeneration

(* Removing a staged file that no projection selects                       *)
LEMMA StepDiscardStaged ==
  ASSUME Intact, Discard, CurrentGeneration(op.proj) = Cur + 1
  PROVE  Intact'
  <1>1. CurrentGeneration(op.proj) = Cur + 1
    OBVIOUS
  <1>2. /\ ETypeOK /\ Registered = 1 .. Cur /\ Cur \in Nat /\ Registered \subseteq Generations
        /\ opened \in [Handles -> [open : BOOLEAN, proj : Projections]]
        /\ \A h \in Handles : Plausible(opened[h].proj, made)
    BY Before, MetaFacts
  <1>3. CASE /\ Works /\ journal' = [journal EXCEPT ![CurrentGeneration(op.proj)] = <<>>]
             /\ End /\ UNCHANGED <<meta, index, opened, made, acked, crashes>>
    <2>1. journal' \in [Generations -> Seq(CommitRecords)] /\ \A g \in Registered : journal'[g] = journal[g]
      <3>1. <<>> \in Seq(CommitRecords) /\ journal \in [Generations -> Seq(CommitRecords)]
        BY <1>2 DEF ETypeOK
      <3>2. journal' = [journal EXCEPT ![Cur + 1] = <<>>] /\ Cur + 1 \notin Registered
        BY <1>1, <1>2, <1>3
      <3> QED BY <1>2, <3>1, <3>2
    <2>2. faults' \in 0 .. MaxFaults /\ crashes' \in 0 .. MaxCrashes
      BY <1>2, <1>3, Counted DEF ETypeOK
    <2> QED BY <1>2, <1>3, <2>1, <2>2, NothingCounts DEF End
  <1>4. CASE Fails("discard") /\ UNCHANGED journal /\ End /\ UNCHANGED <<meta, index, opened, made, acked, crashes>>
    BY <1>4, GivenUp
  <1> QED BY <1>3, <1>4 DEF Discard

(* ... and one that thread.json already selects                             *)
LEMMA StepDiscardSelected ==
  ASSUME Intact, Discard, CurrentGeneration(op.proj) # Cur + 1
  PROVE  Intact' \/ Lost'
  <1>1. Superseding /\ CurrentGeneration(op.proj) = Cur
    BY Before DEF Discard, OpReady, Superseding, Cur
  <1>2. /\ ETypeOK /\ HistoryPart /\ Layout /\ Numbered /\ UsageCounted /\ AckedKept /\ Plausible(meta, made)
        /\ opened \in [Handles -> [open : BOOLEAN, proj : Projections]] /\ made \in Nat
        /\ \A h \in Handles : Plausible(opened[h].proj, made)
    BY Before DEF HistoryPart
  <1>3. /\ Registered = 1 .. Cur /\ Cur \in Nat \ {0} /\ Cur \in Generations /\ Registered \subseteq Generations
        /\ Current = journal[Cur] /\ meta.seq \in Nat \ {0} /\ meta.off = 1 /\ Cur > 1
        /\ \A g \in Registered : meta.bounds[g] \in Nat \ {0} /\ journal[g] \in Seq(CommitRecords)
    BY <1>1, <1>2, MetaFacts DEF Superseding
  <1>4. CASE /\ Works /\ journal' = [journal EXCEPT ![CurrentGeneration(op.proj)] = <<>>]
             /\ End /\ UNCHANGED <<meta, index, opened, made, acked, crashes>>
    <2>1. /\ journal'[Cur] = <<>> /\ \A g \in Registered \ {Cur} : journal'[g] = journal[g]
          /\ journal' \in [Generations -> Seq(CommitRecords)]
      <3>1. <<>> \in Seq(CommitRecords) /\ journal \in [Generations -> Seq(CommitRecords)]
        BY <1>2 DEF ETypeOK
      <3> QED BY <1>1, <1>3, <1>4, <3>1
    <2>2. Cur' = Cur /\ Registered' = Registered
      BY <1>4 DEF Cur, Registered, CurrentGeneration
    <2>3. LayoutBefore'
      <3>1. meta.seq = meta.bounds[Cur]
        BY <1>2, <1>3 DEF Layout
      <3>2. ASSUME NEW g \in 1 .. Cur - 1
            PROVE  /\ journal'[g] # <<>> /\ Consecutive(journal[g], meta.bounds[g])'
                   /\ meta'.bounds[g + 1] = meta'.bounds[g] + Len(journal'[g])
        <4>1. g \in Registered \ {Cur}
          BY <1>3
        <4>2. journal'[g] = journal[g] /\ meta' = meta
          BY <1>4, <2>1, <4>1
        <4> QED BY <1>2, <4>1, <4>2 DEF Layout, Consecutive
      <3>3. Cur' = Cur /\ meta' = meta
        BY <1>4, <2>2
      <3> QED BY <1>2, <3>1, <3>2, <3>3 DEF Layout, LayoutBefore
    <2>4. /\ Current[1] \in Commits(meta) /\ Current[1].seq = meta.seq
          /\ \A c \in Commits(meta)' : c \in Commits(meta) /\ c # Current[1]
          /\ \A c \in Commits(meta) : c \in Commits(meta)' \/ c = Current[1]
      <3>1. /\ Visible(meta, Cur) = {1}
            /\ \A g \in Registered \ {Cur} : Visible(meta, g) = 1 .. Len(journal[g])
        <4>1. 1 .. 1 = {1}
          OBVIOUS
        <4> QED BY <1>2, <1>3, <4>1, VisibleNow
      <3>2. /\ Visible(meta, Cur)' = {}
            /\ \A g \in Registered \ {Cur} : Visible(meta, g)' = Visible(meta, g)
        <4>1. Visible(meta, Cur)' = {}
          BY <1>4, <2>1, <2>2 DEF Visible
        <4>2. ASSUME NEW g \in Registered \ {Cur} PROVE Visible(meta, g)' = Visible(meta, g)
          BY <1>4, <2>1 DEF Visible
        <4> QED BY <4>1, <4>2
      <3>3. Current[1] \in Commits(meta) /\ Current[1].seq = meta.seq
        <4>1. Current[1] \in Commits(meta)
          BY <1>3, <3>1, InCommits
        <4>2. Current[1].seq = meta.bounds[Cur] + 1 - 1
          BY <1>2, <1>3, <3>1 DEF Layout, Consecutive, Visible
        <4> QED BY <1>2, <1>3, <4>1, <4>2 DEF Layout
      <3>4. ASSUME NEW c PROVE c \in Commits(meta)' <=>
                         \E g \in Registered \ {Cur} : \E k \in Visible(meta, g) : c = journal[g][k]
        <4>1. c \in Commits(meta)' <=>
              \E g \in Registered : \E k \in Visible(meta, g)' : c = journal'[g][k]
          BY <2>2, InCommitsNext
        <4> QED BY <2>1, <2>2, <3>2, <4>1
      <3>5. ASSUME NEW g \in Registered \ {Cur}, NEW k \in Visible(meta, g)
            PROVE  journal[g][k].seq < meta.seq
        <4>1. g \in 1 .. Cur - 1 /\ k \in DOMAIN journal[g]
          BY <1>3, <3>1
        <4> QED BY <1>1, <4>1 DEF Superseding
      <3>6. ASSUME NEW c \in Commits(meta)' PROVE c \in Commits(meta) /\ c # Current[1]
        BY <1>3, <3>3, <3>4, <3>5, InCommits
      <3>7. ASSUME NEW c \in Commits(meta), c # Current[1] PROVE c \in Commits(meta)'
        BY <1>3, <3>1, <3>4, <3>7, InCommits
      <3> QED BY <3>3, <3>6, <3>7
    <2> DEFINE b == Current[1]
    <2>5. b \in Commits(meta) /\ b.seq = meta.seq /\ b.kind = "boundary"
      BY <1>1, <2>4 DEF Superseding
    <2>6. /\ \A c \in Commits(meta)' : c \in Commits(meta) /\ c # b
          /\ \A c \in Commits(meta) : c # b => c \in Commits(meta)'
      BY <2>4
    <2> HIDE DEF b
    <2>7. \A c \in Commits(meta) : c \in CommitRecords /\ c.seq \in Nat /\ c.seq <= meta.seq /\ (c.seq = meta.seq => c = b)
      <3>1. MaxCommits \in Nat
        BY CommitsAssumption
      <3> QED BY <1>2, <2>5, <3>1 DEF Numbered, CommitRecords
    <2>8. NumberedBefore'
      <3>1. \A c \in Commits(meta)' : c \in CommitRecords /\ c.seq < meta'.seq
        BY <1>3, <1>4, <2>6, <2>7
      <3>2. ASSUME NEW s \in 1 .. meta.seq - 1 PROVE \E c \in Commits(meta)' : c.seq = s
        <4>1. s \in 1 .. meta.seq /\ s # meta.seq
          BY <1>3
        <4>2. PICK c \in Commits(meta) : c.seq = s
          BY <1>2, <4>1 DEF Numbered
        <4> QED BY <2>5, <2>6, <4>1, <4>2
      <3>3. \A c, d \in Commits(meta)' : c.seq = d.seq => c = d
        BY <1>2, <2>6 DEF Numbered
      <3> QED BY <1>4, <3>1, <3>2, <3>3 DEF NumberedBefore
    <2>9. UsageCounted'
      <3>1. Usages' = Usages
        BY <2>5, <2>6 DEF Usages
      <3> QED BY <1>2, <1>4, <3>1 DEF UsageCounted
    <2>10. AckedKept' /\ Len(acked') < meta'.seq
      <3>1. Len(acked) < meta.seq /\ Len(acked) \in Nat /\ acked' = acked /\ meta' = meta
        BY <1>1, <1>2, <1>4 DEF Superseding, AckedKept
      <3>2. ASSUME NEW s \in 1 .. Len(acked) PROVE acked[s] \in Commits(meta)' /\ acked[s].seq = s
        <4>1. acked[s] \in Commits(meta) /\ acked[s].seq = s
          BY <1>2 DEF AckedKept
        <4>2. acked[s] # b
          BY <1>3, <2>5, <3>1, <4>1
        <4> QED BY <2>6, <4>1, <4>2
      <3> QED BY <1>2, <3>1, <3>2 DEF AckedKept
    <2>11. Unlocked' /\ AllStale' /\ "renewLate" \in Faults
      BY <1>1, <1>4 DEF Superseding, AllStale, End, Idle, Unlocked
    <2>12. ETypeOK'
      <3>1. op' \in [by : Handles, step : Steps, proj : Projections]
        BY <1>2, <1>4, Ended DEF End
      <3>2. faults' \in 0 .. MaxFaults
        BY <1>4, Counted
      <3> QED BY <1>2, <1>4, <2>1, <3>1, <3>2 DEF ETypeOK
    <2> QED BY <1>3, <2>1, <2>2, <2>3, <2>8, <2>9, <2>10, <2>11, <2>12 DEF Lost
  <1>5. CASE Fails("discard") /\ UNCHANGED journal /\ End /\ UNCHANGED <<meta, index, opened, made, acked, crashes>>
    BY <1>5, GivenUp
  <1> QED BY <1>4, <1>5 DEF Discard

(* A change of the metadata begins with what thread.json has.              *)
LEMMA StepMutateProjection ==
  ASSUME Intact, NEW h \in Handles, MutateProjection(h)
  PROVE  Intact'
  <1> DEFINE q == [Advance(meta) EXCEPT !.label = @ + 1]
  <1>1. EnsureCurrent(h)
    BY DEF MutateProjection
  <1>2. opened[h].open /\ opened[h].proj = meta /\ (h = Owner => ~HasTail)
    BY <1>1, CurrentIsMeta
  <1>3. /\ ETypeOK /\ HistoryPart /\ Plausible(meta, made) /\ made \in Nat /\ made <= MaxCommits
        /\ ProjectionsPlausible
    BY Before
  <1>4. /\ meta.rev < MaxRevision /\ op' = [by |-> h, step |-> "mutate", proj |-> q]
        /\ index' \in {index, meta.rev}
        /\ UNCHANGED <<journal, meta, opened, made, acked, faults, crashes>>
    BY <1>2 DEF MutateProjection, Begin
  <1>5. Plausible(q, made)
    <2>1. made <= made
      BY <1>3
    <2> QED BY <1>3, <1>4, <2>1, PlausibleWritten
  <1>6. q = [Advance(meta') EXCEPT !.label = @ + 1]
    BY <1>4
  <1> HIDE DEF q
  <1>7. /\ op' \in [by : Handles, step : Steps, proj : Projections] /\ Plausible(op'.proj, made)
        /\ op'.by = h /\ op'.step = "mutate" /\ op'.proj = q
    BY <1>3, <1>4, <1>5, Begun DEF Steps
  <1>8. HistoryPart' /\ (HasTail' <=> HasTail) /\ Ahead' = Ahead /\ Cur' = Cur
    BY <1>4, HistoryStays
  <1>9. HandlesFollow'
    BY <1>4, <1>8, HandlesStay
  <1>10. OpReady'
    BY <1>2, <1>4, <1>6, <1>7, <1>8 DEF OpReady, At
  <1>11. ProjectionsPlausible'
    BY <1>3, <1>4, <1>7, <1>8 DEF ProjectionsPlausible
  <1>12. ETypeOK'
    <2>1. meta.rev \in 1 .. MaxRevision
      BY <1>3 DEF Plausible, Projections
    <2> QED BY <1>3, <1>4, <1>7, <2>1 DEF ETypeOK
  <1> QED BY <1>8, <1>9, <1>10, <1>11, <1>12 DEF Intact, MemoryPart

(* Writing the metadata; a commit behind the cursor stays there, and the   *)
(* owner that has it in memory falls behind.                               *)
LEMMA StepPersistMutation ==
  ASSUME Intact, PersistMutation
  PROVE  Intact'
  <1>1. /\ opened[op.by].open /\ (op.by = Owner => ~HasTail)
        /\ op.proj = [Advance(meta) EXCEPT !.label = @ + 1]
    BY Before DEF PersistMutation, OpReady
  <1>2. /\ ETypeOK /\ HistoryPart /\ Plausible(meta, made) /\ Plausible(op.proj, made) /\ made \in Nat
        /\ Owner \in Handles /\ HandlesFollow /\ ProjectionsPlausible /\ op.by \in Handles
        /\ \A h \in Handles : Plausible(opened[h].proj, made)
    BY Before
  <1>3. /\ meta.rev \in Nat /\ meta.seq \in Nat /\ op.proj.rev = meta.rev + 1 /\ op.proj.seq = meta.seq
        /\ op.proj.bounds = meta.bounds /\ op.proj.off = meta.off /\ op.proj.usage = meta.usage
    <2>1. meta.rev \in Nat /\ meta.seq \in Nat /\ meta \in Projections
      BY <1>2, MetaFacts DEF HistoryPart
    <2> DEFINE q == [Advance(meta) EXCEPT !.label = @ + 1]
    <2>2. /\ q.rev = meta.rev + 1 /\ q.bounds = meta.bounds /\ q.seq = meta.seq /\ q.off = meta.off
          /\ q.usage = meta.usage
      BY <2>1, ProjectionWritten
    <2> QED BY <1>1, <2>1, <2>2
  <1>4. ASSUME meta' = op.proj, UNCHANGED <<journal, index, made, acked, crashes>>,
               faults' \in 0 .. MaxFaults,
               \/ UNCHANGED opened /\ End
               \/ Publish(op.by, op.proj) /\ Then("index")
        PROVE  Intact'
    <2>1. HistoryPart' /\ (HasTail' <=> HasTail)
      BY <1>2, <1>3, <1>4, FilesStay
    <2>2. /\ op' \in [by : Handles, step : Steps, proj : Projections] /\ Plausible(op'.proj, made)
          /\ OpReady'
      <3>1. CASE End
        BY <1>2, <1>4, <3>1, Ended DEF End
      <3>2. CASE Then("index")
        <4>1. /\ op' \in [by : Handles, step : Steps, proj : Projections] /\ Plausible(op'.proj, made)
              /\ op'.step = "index" /\ op'.proj = op.proj
          BY <3>2, GoesOn DEF Steps
        <4> QED BY <1>4, <4>1 DEF OpReady, At
      <3> QED BY <1>4, <3>1, <3>2
    <2>3. /\ opened' \in [Handles -> [open : BOOLEAN, proj : Projections]]
          /\ \A k \in Handles : Plausible(opened'[k].proj, made)
          /\ \A k \in Handles :
                opened'[k] = opened[k] \/ (k = op.by /\ opened'[k].proj = op.proj)
      <3>1. CASE UNCHANGED opened
        BY <1>2, <3>1 DEF ETypeOK
      <3>2. CASE Publish(op.by, op.proj)
        <4> DEFINE p == op.proj
                   b == op.by
        <4>1. /\ opened' = [opened EXCEPT ![b] = [open |-> TRUE, proj |-> p]] /\ Plausible(p, made)
              /\ b \in Handles
          BY <1>2, <3>2 DEF Publish
        <4> HIDE DEF p, b
        <4>2. made <= made /\ TRUE \in BOOLEAN
          BY <1>2
        <4>3. /\ opened' \in [Handles -> [open : BOOLEAN, proj : Projections]]
              /\ \A k \in Handles : Plausible(opened'[k].proj, made)
              /\ opened'[b].open = TRUE /\ opened'[b].proj = p
              /\ \A k \in Handles \ {b} : opened'[k] = opened[k]
          BY <1>2, <4>1, <4>2, Given
        <4> QED BY <4>3 DEF p, b
      <3> QED BY <1>4, <3>1, <3>2
    <2>4. HandlesFollow'
      <3>1. ASSUME NEW k \in Handles, opened'[k].open, opened'[k] = opened[k]
            PROVE  LET p == opened'[k].proj IN
                   /\ p.rev <= meta'.rev + 1 /\ p.rev # meta'.rev + 1
                   /\ (p.rev = meta'.rev => p.seq # meta'.seq)
        <4> DEFINE p == opened[k].proj
        <4>1. p.rev \in Nat
          BY <1>2, RevisionNat
        <4>2. p.rev <= meta.rev + 1 /\ (p.rev = meta.rev + 1 => p.seq = meta.seq + 1)
          <5>1. p.rev <= meta.rev + 1 /\ (p.rev = meta.rev + 1 => p = Ahead)
            BY <1>2, <3>1 DEF HandlesFollow
          <5>2. Ahead.seq = meta.seq + 1
            BY <1>2, MetaFacts, ProjectionWritten DEF Ahead, HistoryPart
          <5> QED BY <5>1, <5>2
        <4> HIDE DEF p
        <4>3. /\ p.rev <= meta'.rev + 1 /\ p.rev # meta'.rev + 1
              /\ (p.rev = meta'.rev => p.seq # meta'.seq)
          BY <1>3, <1>4, <4>1, <4>2
        <4> QED BY <3>1, <4>3 DEF p
      <3>2. ASSUME NEW k \in Handles, opened'[k].proj = op.proj
            PROVE  LET p == opened'[k].proj IN
                   p.rev <= meta'.rev + 1 /\ p.rev # meta'.rev + 1 /\ p = meta'
        BY <1>3, <1>4, <3>2
      <3>3. HasTail' /\ opened'[Owner].open => opened'[Owner].proj.seq = meta'.seq + 1
        <4> SUFFICES ASSUME HasTail, opened'[Owner].open PROVE opened'[Owner].proj.seq = meta'.seq + 1
          BY <2>1
        <4>1. opened'[Owner] = opened[Owner]
          BY <1>1, <1>2, <2>3
        <4> QED BY <1>2, <1>3, <1>4, <4>1 DEF HandlesFollow
      <3> QED BY <2>3, <3>1, <3>2, <3>3 DEF HandlesFollow
    <2>5. ProjectionsPlausible'
      BY <1>2, <1>3, <1>4, <2>1, <2>2, <2>3 DEF ProjectionsPlausible
    <2>6. ETypeOK'
      <3>1. meta' \in Projections
        BY <1>2, <1>4 DEF Plausible
      <3> QED BY <1>2, <1>4, <2>2, <2>3, <3>1 DEF ETypeOK
    <2> QED BY <2>1, <2>2, <2>4, <2>5, <2>6 DEF Intact, MemoryPart
  <1>5. CASE Works /\ Replaced /\ Publish(op.by, op.proj) /\ Then("index")
             /\ UNCHANGED <<journal, index, made, acked, crashes>>
    BY <1>4, <1>5, Counted DEF Replaced
  <1>6. CASE Fails("meta") /\ NotReplaced /\ End /\ UNCHANGED opened
             /\ UNCHANGED <<journal, index, made, acked, crashes>>
    BY <1>6, GivenUp DEF NotReplaced
  <1>7. CASE Fails("metaLate") /\ Replaced /\ End /\ UNCHANGED opened
             /\ UNCHANGED <<journal, index, made, acked, crashes>>
    BY <1>4, <1>7, Counted DEF Replaced
  <1> QED BY <1>5, <1>6, <1>7 DEF PersistMutation

(* Loading the index changes nothing else.                                 *)
LEMMA StepLoadIndexOnly ==
  ASSUME Intact, LoadIndexOnly
  PROVE  Intact'
  <1>1. /\ Unlocked /\ index' \in {index, meta.rev} /\ (Works \/ Fails("index"))
        /\ UNCHANGED <<journal, meta, opened, op, made, acked, crashes>>
    BY DEF LoadIndexOnly
  <1>2. ETypeOK /\ ProjectionsPlausible /\ Plausible(meta, made)
    BY Before
  <1>3. /\ HistoryPart' /\ (HasTail' <=> HasTail) /\ Ahead' = Ahead /\ Cur' = Cur
    BY <1>1, HistoryStays
  <1>4. HandlesFollow'
    BY <1>1, <1>3, HandlesStay
  <1>5. OpReady'
    BY <1>1 DEF OpReady, At, Unlocked
  <1>6. ProjectionsPlausible'
    BY <1>1, <1>2, <1>3 DEF ProjectionsPlausible
  <1>7. ETypeOK'
    <2>1. faults' \in 0 .. MaxFaults /\ meta.rev \in 1 .. MaxRevision
      BY <1>1, <1>2, Counted DEF Plausible, Projections
    <2> QED BY <1>1, <1>2, <2>1 DEF ETypeOK
  <1> QED BY <1>3, <1>4, <1>5, <1>6, <1>7 DEF Intact, MemoryPart

(* The commit of each sequence                                             *)
LEMMA SelectedCommits ==
  ASSUME Intact
  PROVE  /\ Published = Selected(meta)
         /\ Published \in Seq(CommitRecords) /\ Len(Published) = meta.seq /\ meta.seq \in Nat
         /\ \A s \in 1 .. meta.seq : Published[s] \in Commits(meta) /\ Published[s].seq = s
         /\ \A s \in 1 .. meta.seq : \A c \in Commits(meta) : c.seq = s => c = Published[s]
  <1>1. Numbered /\ meta.seq \in Nat
    BY Before, MetaFacts DEF HistoryPart
  <1>2. /\ Published = [s \in 1 .. meta.seq |-> CHOOSE c \in Commits(meta) : c.seq = s]
        /\ Published = Selected(meta)
    <2>1. journal[CurrentGeneration(meta)] # <<>>
      BY Before, MetaFacts DEF Layout, Cur
    <2> QED BY <2>1 DEF Published, Selected, Reach
  <1>3. ASSUME NEW s \in 1 .. meta.seq
        PROVE  Published[s] \in Commits(meta) /\ Published[s].seq = s
    <2>1. \E c \in Commits(meta) : c.seq = s
      BY <1>1 DEF Numbered
    <2>2. Published[s] = CHOOSE c \in Commits(meta) : c.seq = s
      BY <1>2
    <2> QED BY <2>1, <2>2
  <1>4. \A s \in 1 .. meta.seq : \A c \in Commits(meta) : c.seq = s => c = Published[s]
    BY <1>1, <1>3 DEF Numbered
  <1>5. Published \in [1 .. meta.seq -> CommitRecords]
    <2>1. \A s \in 1 .. meta.seq : Published[s] \in CommitRecords
      BY <1>1, <1>3 DEF Numbered
    <2> QED BY <1>2, <2>1
  <1>6. Published \in Seq(CommitRecords) /\ Len(Published) = meta.seq
    BY <1>1, <1>5
  <1> QED BY <1>1, <1>2, <1>3, <1>4, <1>6

(* The end of a successful operation acknowledges all that is published.   *)
LEMMA StepUpdateIndex ==
  ASSUME Intact, UpdateIndex
  PROVE  Intact' /\ (acked' = acked \/ acked' = Published)
  <1>1. op.proj = meta
    BY Before DEF UpdateIndex, OpReady, At
  <1>2. /\ index' \in {index, meta.rev} /\ (Works \/ Fails("index")) /\ op' = Idle
        /\ acked' \in {acked, Published}
        /\ UNCHANGED <<journal, meta, opened, made, crashes>>
    BY <1>1, SelectedCommits DEF UpdateIndex, End
  <1>3. faults' \in 0 .. MaxFaults
    BY <1>2, Counted
  <1>4. /\ ETypeOK /\ ProjectionsPlausible /\ Plausible(meta, made) /\ made \in Nat /\ HistoryPart
        /\ opened \in [Handles -> [open : BOOLEAN, proj : Projections]]
        /\ HandlesFollow
    BY Before
  <1>5. Layout' /\ Numbered' /\ UsageCounted' /\ (HasTail' <=> HasTail) /\ Ahead' = Ahead
        /\ Commits(meta)' = Commits(meta)
    BY <1>2, <1>4 DEF HistoryPart, Layout, Numbered, UsageCounted, HasTail, Ahead, Commits, Visible, Current,
                      Cur, Registered, Consecutive, Usages, TailCommit
  <1>6. AckedKept'
    <2>1. CASE acked' = acked
      BY <1>2, <1>4, <1>5, <2>1 DEF AckedKept, HistoryPart
    <2>2. CASE acked' = Published
      BY <1>2, <1>5, <2>2, SelectedCommits DEF AckedKept
    <2> QED BY <1>2, <2>1, <2>2
  <1>7. HandlesFollow'
    BY <1>2, <1>5, HandlesStay
  <1>8. OpReady' /\ op' \in [by : Handles, step : Steps, proj : Projections] /\ Plausible(op'.proj, made')
    BY <1>2, <1>4, Ended
  <1>9. ProjectionsPlausible'
    BY <1>2, <1>4, <1>5, <1>8 DEF ProjectionsPlausible
  <1>10. ETypeOK'
    <2>1. meta.rev \in 1 .. MaxRevision
      BY <1>4 DEF Plausible, Projections
    <2> QED BY <1>2, <1>3, <1>4, <1>8, <2>1 DEF ETypeOK
  <1> QED BY <1>2, <1>5, <1>6, <1>7, <1>8, <1>9, <1>10 DEF Intact, HistoryPart, MemoryPart

(* The one element behind all others                                       *)
LEMMA LastAlone ==
  ASSUME NEW S, NEW s \in Seq(S), NEW n \in Nat, Len(s) = n + 1
  PROVE  /\ Len(SubSeq(s, n + 1, n + 1)) = 1 /\ SubSeq(s, n + 1, n + 1)[1] = s[n + 1]
         /\ 1 \in DOMAIN SubSeq(s, n + 1, n + 1)
  <1> DEFINE t == SubSeq(s, n + 1, n + 1)
  <1>1. t = [i \in 1 .. 1 |-> s[n + i]]
    BY SMTT(60)
  <1>2. Len(t) = 1
    OBVIOUS
  <1> HIDE DEF t
  <1>3. t[1] = s[n + 1] /\ 1 \in DOMAIN t
    BY <1>1
  <1> QED BY <1>2, <1>3 DEF t

(* Opening finds a Thread without a commit behind the cursor, or one whose *)
(* commit of usage facts it publishes first.                               *)
LEMMA StepOpen ==
  ASSUME Intact, NEW h \in Handles, Open(h)
  PROVE  Intact'
  <1>1. /\ Unlocked /\ ~opened[h].open
        /\ journal' = [g \in Generations |-> IF g \in Registered THEN journal[g] ELSE <<>>]
        /\ UNCHANGED <<meta, index, opened, made, acked, faults, crashes>>
    BY DEF Open
  <1>2. /\ ETypeOK /\ ProjectionsPlausible /\ Plausible(meta, made) /\ made \in Nat /\ HistoryPart
        /\ made <= MaxCommits
    BY Before
  <1>3. /\ Registered \subseteq Generations /\ Current \in Seq(CommitRecords) /\ meta.off \in Nat
        /\ Len(Current) \in {meta.off, meta.off + 1} /\ meta.seq \in Nat
    BY <1>2, MetaFacts DEF HistoryPart, Layout
  <1>4. /\ journal' \in [Generations -> Seq(CommitRecords)]
        /\ \A g \in Registered : journal'[g] = journal[g]
    <2>1. <<>> \in Seq(CommitRecords) /\ journal \in [Generations -> Seq(CommitRecords)]
      BY <1>2 DEF ETypeOK
    <2> QED BY <1>1, <1>3, <2>1
  <1>5. /\ HistoryPart' /\ (HasTail' <=> HasTail) /\ Ahead' = Ahead /\ Cur' = Cur
    BY <1>1, <1>4, HistoryStays
  <1>6. HandlesFollow'
    BY <1>1, <1>5, HandlesStay
  <1>7. SUFFICES op' \in [by : Handles, step : Steps, proj : Projections] /\ Plausible(op'.proj, made) /\ OpReady'
    <2>1. ProjectionsPlausible'
      BY <1>1, <1>2, <1>5, <1>7 DEF ProjectionsPlausible
    <2>2. ETypeOK'
      BY <1>1, <1>2, <1>4, <1>7 DEF ETypeOK
    <2> QED BY <1>5, <1>6, <1>7, <2>1, <2>2 DEF Intact, MemoryPart
  <1>8. CASE UNCHANGED op
    <2>1. op \in [by : Handles, step : Steps, proj : Projections] /\ Plausible(op.proj, made)
      BY Before DEF ETypeOK
    <2> QED BY <1>1, <1>8, <2>1 DEF OpReady, At, Unlocked
  <1>9. CASE Unpublished = <<>> /\ Begin(h, "load", meta)
    <2>1. ~HasTail
      <3>1. ASSUME HasTail PROVE FALSE
        <4>1. /\ Unpublished = SubSeq(Current, meta.off + 1, meta.off + 1)
              /\ Len(Current) = meta.off + 1
          BY <3>1 DEF Unpublished, HasTail
        <4>2. 1 \in DOMAIN Unpublished
          BY <1>3, <4>1, LastAlone
        <4>3. DOMAIN Unpublished = {}
          BY <1>9
        <4> QED BY <4>2, <4>3
      <3> QED BY <3>1
    <2>2. /\ op' \in [by : Handles, step : Steps, proj : Projections] /\ Plausible(op'.proj, made)
          /\ op'.by = h /\ op'.step = "load" /\ op'.proj = meta
      BY <1>2, <1>9, Begun DEF Begin, Steps
    <2> QED BY <1>1, <1>5, <2>1, <2>2 DEF OpReady, At
  <1>10. CASE Openable /\ Unpublished # <<>> /\ meta.rev < MaxRevision /\ Begin(h, "recover", RecoveredMeta)
    <2>1. HasTail
      <3>1. ASSUME Len(Current) = meta.off PROVE FALSE
        <4>1. SubSeq(Current, meta.off + 1, meta.off) = <<>>
          BY <1>3
        <4> QED BY <1>10, <3>1, <4>1 DEF Unpublished
      <3> QED BY <1>3, <3>1 DEF HasTail
    <2>2. TailCommit.kind = "usage"
      <3>1. /\ Unpublished = SubSeq(Current, meta.off + 1, meta.off + 1)
            /\ Len(Current) = meta.off + 1
        BY <2>1 DEF Unpublished, HasTail
      <3>2. Unpublished[1] = TailCommit /\ 1 \in DOMAIN Unpublished
        BY <1>3, <3>1, LastAlone DEF TailCommit
      <3> QED BY <1>10, <3>2 DEF Openable, SplitAtCursor
    <2>3. RecoveredMeta = Ahead
      BY <2>2 DEF RecoveredMeta, Ahead
    <2>4. meta.seq < made
      BY <1>2, <2>1 DEF ProjectionsPlausible
    <2>5. Plausible(Ahead, made)
      BY <1>2, <1>10, <2>4, PlausibleWritten DEF Ahead
    <2>6. /\ op' \in [by : Handles, step : Steps, proj : Projections] /\ Plausible(op'.proj, made)
          /\ op'.by = h /\ op'.step = "recover" /\ op'.proj = Ahead
      <3> DEFINE p == Ahead
      <3>1. Plausible(p, made) /\ op' = [by |-> h, step |-> "recover", proj |-> p] /\ "recover" \in Steps
        BY <1>10, <2>3, <2>5 DEF Begin, Steps
      <3> HIDE DEF p
      <3>2. /\ op' \in [by : Handles, step : Steps, proj : Projections] /\ Plausible(op'.proj, made)
            /\ op'.by = h /\ op'.step = "recover" /\ op'.proj = p
        BY <1>2, <3>1, Begun
      <3> QED BY <3>2 DEF p
    <2> QED BY <1>1, <1>5, <2>1, <2>6 DEF OpReady, At
  <1> QED BY <1>8, <1>9, <1>10 DEF Open

(* Publishing the recovered commit                                         *)
LEMMA StepPersistRecovered ==
  ASSUME Intact, PersistRecovered
  PROVE  Intact'
  <1>1. HasTail /\ ~opened[op.by].open /\ op.proj = Ahead /\ made \in Nat
    BY Before DEF PersistRecovered, OpReady
  <1>2. CASE Works /\ Replaced /\ Then("load") /\ UNCHANGED <<journal, index, opened, made, acked, crashes>>
    <2>1. /\ op' \in [by : Handles, step : Steps, proj : Projections] /\ Plausible(op'.proj, made)
          /\ op'.step = "load" /\ op'.proj = op.proj /\ op'.by = op.by
      BY <1>2, GoesOn DEF Steps
    <2>2. ~HasTail'
      BY <1>1, <1>2, Before, TailPublished DEF Replaced
    <2>3. OpReady'
      BY <1>1, <1>2, <2>1, <2>2 DEF OpReady, At, Replaced
    <2>4. faults' \in 0 .. MaxFaults
      BY <1>2, Counted
    <2> QED BY <1>1, <1>2, <2>1, <2>3, <2>4, TailSettles DEF Replaced
  <1>3. CASE Fails("meta") /\ NotReplaced /\ End /\ UNCHANGED <<journal, index, opened, made, acked, crashes>>
    BY <1>3, GivenUp DEF NotReplaced
  <1>4. CASE Fails("metaLate") /\ Replaced /\ End /\ UNCHANGED <<journal, index, opened, made, acked, crashes>>
    <2>1. OpReady' /\ op' \in [by : Handles, step : Steps, proj : Projections] /\ Plausible(op'.proj, made)
      BY <1>1, <1>4, Ended DEF End
    <2>2. faults' \in 0 .. MaxFaults
      BY <1>4, Counted
    <2> QED BY <1>1, <1>4, <2>1, <2>2, TailSettles DEF Replaced
  <1> QED BY <1>2, <1>3, <1>4 DEF PersistRecovered

(* The handle that is opened has what is in thread.json.                   *)
LEMMA StepLoadIndex ==
  ASSUME Intact, LoadIndex
  PROVE  Intact'
  <1>1. ~HasTail /\ op.proj = meta
    BY Before DEF LoadIndex, OpReady, At
  <1>2. /\ ETypeOK /\ HistoryPart /\ Plausible(meta, made) /\ made \in Nat /\ op.by \in Handles
        /\ HandlesFollow /\ ProjectionsPlausible
        /\ opened \in [Handles -> [open : BOOLEAN, proj : Projections]]
        /\ \A h \in Handles : Plausible(opened[h].proj, made)
        /\ meta.rev \in 1 .. MaxRevision
    BY Before DEF Plausible, Projections
  <1>3. CASE /\ Works /\ index' = meta.rev /\ Publish(op.by, op.proj) /\ End
             /\ UNCHANGED <<journal, meta, made, acked, crashes>>
    <2> DEFINE p == meta
               b == op.by
    <2>1. opened' = [opened EXCEPT ![b] = [open |-> TRUE, proj |-> p]] /\ Plausible(p, made) /\ b \in Handles
      BY <1>1, <1>2, <1>3 DEF Publish
    <2> HIDE DEF p, b
    <2>2. made <= made /\ TRUE \in BOOLEAN
      BY <1>2
    <2>3. /\ opened' \in [Handles -> [open : BOOLEAN, proj : Projections]]
          /\ \A k \in Handles : Plausible(opened'[k].proj, made)
          /\ opened'[b].open = TRUE /\ opened'[b].proj = p
          /\ \A k \in Handles \ {b} : opened'[k] = opened[k]
      BY <1>2, <2>1, <2>2, Given
    <2>4. /\ HistoryPart' /\ ~HasTail' /\ Ahead' = Ahead
      BY <1>1, <1>3, HistoryStays
    <2>5. HandlesFollow'
      <3>1. ASSUME NEW k \in Handles, k # b, opened'[k].open
            PROVE  LET q == opened'[k].proj IN
                   /\ q.rev <= meta'.rev + 1 /\ q.rev # meta'.rev + 1
                   /\ (q.rev = meta'.rev => q = meta' \/ q.seq # meta'.seq)
        BY <1>1, <1>2, <1>3, <2>3, <3>1 DEF HandlesFollow
      <3>2. p = meta' /\ p.rev <= meta'.rev + 1 /\ p.rev # meta'.rev + 1
        <4>1. p = meta /\ meta.rev \in Nat
          BY <1>2 DEF p
        <4> QED BY <1>3, <4>1
      <3> QED BY <2>1, <2>3, <2>4, <3>1, <3>2 DEF HandlesFollow
    <2>6. OpReady' /\ op' \in [by : Handles, step : Steps, proj : Projections] /\ Plausible(op'.proj, made')
      BY <1>2, <1>3, Ended DEF End
    <2>7. ProjectionsPlausible'
      BY <1>2, <1>3, <2>3, <2>4, <2>6 DEF ProjectionsPlausible
    <2>8. ETypeOK'
      <3>1. faults' \in 0 .. MaxFaults
        BY <1>3, Counted
      <3> QED BY <1>2, <1>3, <2>3, <2>6, <3>1 DEF ETypeOK
    <2> QED BY <2>4, <2>5, <2>6, <2>7, <2>8 DEF Intact, MemoryPart
  <1>4. CASE /\ Fails("index") /\ index' \in {index, meta.rev} /\ UNCHANGED opened /\ End
             /\ UNCHANGED <<journal, meta, made, acked, crashes>>
    <2>1. faults' \in 0 .. MaxFaults
      BY <1>4, Counted
    <2> QED BY <1>2, <1>4, <2>1, NothingCounts DEF End, ETypeOK
  <1> QED BY <1>3, <1>4 DEF LoadIndex

(* Closing a handle                                                        *)
LEMMA StepClose ==
  ASSUME Intact, NEW h \in Handles, Close(h)
  PROVE  Intact'
  <1>1. /\ Unlocked /\ opened' = [opened EXCEPT ![h] = [open |-> FALSE, proj |-> Created]]
        /\ UNCHANGED <<journal, meta, index, op, made, acked, faults, crashes>>
    BY DEF Close, Release
  <1>2. ETypeOK /\ ProjectionsPlausible /\ made \in Nat /\ made >= 1 /\ made <= made /\ FALSE \in BOOLEAN
    BY Before
  <1>3. /\ opened' \in [Handles -> [open : BOOLEAN, proj : Projections]]
        /\ \A k \in Handles : Plausible(opened'[k].proj, made)
        /\ opened'[h].open = FALSE /\ opened'[h].proj = Created
        /\ \A k \in Handles \ {h} : opened'[k] = opened[k]
    BY <1>1, <1>2, PlausibleCreated, Given
  <1>4. /\ HistoryPart' /\ (HasTail' <=> HasTail) /\ Ahead' = Ahead /\ Cur' = Cur
    BY <1>1, HistoryStays
  <1>5. HandlesFollow'
    BY <1>1, <1>3, <1>4, HandlesStay
  <1>6. OpReady'
    BY <1>1 DEF OpReady, At, Unlocked
  <1>7. ProjectionsPlausible'
    BY <1>1, <1>2, <1>3, <1>4 DEF ProjectionsPlausible
  <1>8. ETypeOK'
    BY <1>1, <1>2, <1>3 DEF ETypeOK
  <1> QED BY <1>4, <1>5, <1>6, <1>7, <1>8 DEF Intact, MemoryPart

(* The end of the process leaves the files as they are.                    *)
LEMMA StepCrash ==
  ASSUME Intact, Crash
  PROVE  Intact'
  <1>1. /\ crashes' = crashes + 1 /\ crashes < MaxCrashes /\ op' = Idle
        /\ opened' = [h \in Handles |-> [open |-> FALSE, proj |-> Created]]
        /\ UNCHANGED <<journal, meta, index, made, acked, faults>>
    BY DEF Crash, End
  <1>2. ETypeOK /\ made \in Nat /\ made >= 1
    BY Before
  <1>3. Plausible(Created, made) /\ Created \in Projections
    BY <1>2, PlausibleCreated DEF Plausible
  <1>4. /\ opened' \in [Handles -> [open : BOOLEAN, proj : Projections]]
        /\ \A h \in Handles : Plausible(opened'[h].proj, made) /\ ~opened'[h].open
    BY <1>1, <1>3
  <1>5. crashes' \in 0 .. MaxCrashes /\ faults' \in 0 .. MaxFaults
        /\ journal' \in [Generations -> Seq(CommitRecords)] /\ index' \in {index, meta.rev}
    BY <1>1, <1>2, StoreBounds DEF ETypeOK
  <1> QED BY <1>1, <1>4, <1>5, NothingCounts

(* A Thread that has just been created                                     *)
LEMMA HistoryBegins == EInit => Intact
  <1> SUFFICES ASSUME EInit PROVE Intact
    OBVIOUS
  <1> DEFINE c == [id |-> 1, seq |-> 1, kind |-> "created"]
  <1>1. /\ journal = [g \in Generations |-> IF g = 1 THEN <<c>> ELSE <<>>] /\ meta = Created /\ index = 1
        /\ opened = [h \in Handles |-> [open |-> FALSE, proj |-> Created]] /\ op = Idle
        /\ made = 1 /\ acked = <<c>> /\ faults = 0 /\ crashes = 0
    BY DEF EInit, First
  <1>2. /\ MaxCommits \in Nat \ {0} /\ MaxGenerations \in Nat \ {0} /\ MaxRevision \in Nat \ {0}
        /\ MaxFaults \in Nat /\ MaxCrashes \in Nat /\ Owner \in Handles
    BY CommitsAssumption, GenerationsAssumption, RevisionAssumption, StoreBounds DEF Handles
  <1>3. c \in CommitRecords /\ c.seq = 1 /\ c.kind = "created"
    BY <1>2 DEF CommitRecords
  <1> HIDE DEF c
  <1>4. /\ <<c>> \in Seq(CommitRecords) /\ <<>> \in Seq(CommitRecords) /\ <<c>> # <<>>
        /\ Len(<<c>>) = 1 /\ DOMAIN <<c>> = {1} /\ <<c>>[1] = c
    BY <1>3
  <1>5. Plausible(Created, made) /\ Created \in Projections
    BY <1>1, PlausibleCreated DEF Plausible
  <1>6. /\ Created.bounds = <<1>> /\ Created.seq = 1 /\ Created.off = 1 /\ Created.usage = 0 /\ Created.rev = 1
        /\ Len(<<1>>) = 1 /\ <<1>>[1] = 1
    BY DEF Created
  <1>7. Cur = 1 /\ Registered = {1} /\ 1 \in Generations
    BY <1>1, <1>2, <1>6 DEF Cur, CurrentGeneration, Registered, Generations
  <1>8. journal[1] = <<c>> /\ Current = <<c>>
    BY <1>1, <1>7 DEF Current, Cur
  <1>9. ETypeOK
    <2>1. journal \in [Generations -> Seq(CommitRecords)]
      BY <1>1, <1>4
    <2>2. opened \in [Handles -> [open : BOOLEAN, proj : Projections]]
      BY <1>1, <1>5
    <2>3. op \in [by : Handles, step : Steps, proj : Projections]
      BY <1>1, <1>2, <1>5 DEF Idle, Steps
    <2> QED BY <1>1, <1>2, <1>5, <2>1, <2>2, <2>3 DEF ETypeOK
  <1>10. ~HasTail /\ Layout
    <2>1. Consecutive(<<c>>, 1)
      BY <1>3, <1>4 DEF Consecutive
    <2> QED BY <1>1, <1>4, <1>6, <1>7, <1>8, <2>1 DEF Layout, HasTail
  <1>11. Commits(meta) = {c}
    <2>1. Visible(meta, 1) = {1}
      <3>1. Visible(meta, 1) = {k \in {1} : k <= 1}
        BY <1>1, <1>4, <1>6, <1>7, <1>8 DEF Visible, Cur
      <3> QED BY <3>1
    <2>2. ASSUME NEW d PROVE d \in Commits(meta) <=> d = c
      <3>1. d \in Commits(meta) <=> \E g \in Registered : \E k \in Visible(meta, g) : d = journal[g][k]
        BY InCommits
      <3> QED BY <1>4, <1>7, <1>8, <2>1, <3>1
    <2> QED BY <2>2
  <1>12. Numbered
    BY <1>1, <1>3, <1>6, <1>11 DEF Numbered
  <1>13. UsageCounted
    <2>1. Usages = {}
      BY <1>3, <1>11 DEF Usages
    <2> QED BY <1>1, <1>6, <2>1, FS_EmptySet DEF UsageCounted
  <1>14. AckedKept
    BY <1>1, <1>3, <1>4, <1>6, <1>11 DEF AckedKept
  <1>15. ProjectionsPlausible
    BY <1>1, <1>5, <1>10 DEF ProjectionsPlausible, Idle
  <1>16. OpReady
    BY <1>1 DEF OpReady, At, Idle
  <1>17. HandlesFollow
    BY <1>1, <1>2, <1>10 DEF HandlesFollow
  <1> QED BY <1>9, <1>10, <1>12, <1>13, <1>14, <1>15, <1>16, <1>17 DEF Intact, HistoryPart, MemoryPart

-----------------------------------------------------------------------------
(* A Thread that is lost *)

(* What the types say of thread.json                                       *)
LEMMA MetaTyped ==
  ASSUME ETypeOK
  PROVE  /\ meta.rev \in Nat /\ meta.seq \in Nat \ {0}
         /\ meta.bounds \in Seq(1 .. MaxCommits) /\ Len(meta.bounds) = Cur
         /\ MaxCommits \in Nat /\ MaxGenerations \in Nat /\ MaxRevision \in Nat
  <1>1. MaxCommits \in Nat /\ MaxGenerations \in Nat /\ MaxRevision \in Nat
    BY CommitsAssumption, GenerationsAssumption, RevisionAssumption
  <1>2. meta \in Projections
    BY DEF ETypeOK
  <1>3. /\ meta.rev \in 1 .. MaxRevision /\ meta.seq \in 1 .. MaxCommits
        /\ meta.bounds \in Seq(1 .. MaxCommits) /\ Len(meta.bounds) = Cur
    BY <1>2 DEF Projections, Cur, CurrentGeneration
  <1> QED BY <1>1, <1>3

(* A step that leaves the files alone leaves it lost.                      *)
LEMMA LostStays ==
  ASSUME Lost, ETypeOK', Unlocked', meta' = meta, acked' = acked,
         \A g \in Registered : journal'[g] = journal[g],
         \A h \in Handles : opened'[h].open => opened'[h] = opened[h]
  PROVE  Lost' /\ Published' = Published
  <1>1. /\ Cur \in Generations /\ Cur > 1 /\ journal[Cur] = <<>> /\ LayoutBefore /\ NumberedBefore
        /\ UsageCounted /\ AckedKept /\ Len(acked) < meta.seq /\ AllStale /\ "renewLate" \in Faults
    BY DEF Lost
  <1>2. Cur' = Cur /\ Registered' = Registered /\ Registered = 1 .. Cur /\ Cur \in Nat
    BY <1>1 DEF Cur, Registered, CurrentGeneration, Generations
  <1>3. Commits(meta)' = Commits(meta)
    <2>1. \A g \in Registered : Visible(meta, g)' = Visible(meta, g)
      BY DEF Visible, CurrentGeneration
    <2> QED BY <1>2, <2>1, SameCommits
  <1>4. LayoutBefore' /\ journal'[Cur'] = <<>>
    <2>1. \A g \in 1 .. Cur : journal'[g] = journal[g]
      BY <1>2
    <2>2. ASSUME NEW g \in 1 .. Cur - 1
          PROVE  /\ journal'[g] # <<>> /\ Consecutive(journal[g], meta.bounds[g])'
                 /\ meta'.bounds[g + 1] = meta'.bounds[g] + Len(journal'[g])
      <3>1. g \in 1 .. Cur
        BY <1>2
      <3> QED BY <1>1, <2>1, <3>1 DEF LayoutBefore, Consecutive
    <2>3. journal'[Cur'] = <<>>
      <3>1. Cur \in 1 .. Cur
        BY <1>1, <1>2
      <3> QED BY <1>1, <1>2, <2>1, <3>1
    <2> QED BY <1>1, <1>2, <2>2, <2>3 DEF LayoutBefore
  <1>5. NumberedBefore' /\ AckedKept' /\ Len(acked') < meta'.seq
    BY <1>1, <1>3 DEF NumberedBefore, AckedKept
  <1>6. UsageCounted'
    <2>1. Usages' = Usages
      BY <1>3 DEF Usages
    <2> QED BY <1>1, <2>1 DEF UsageCounted
  <1>7. AllStale'
    BY <1>1 DEF AllStale
  <1>8. Published' = Published
    <2>1. Reach' = Reach
      BY <1>1, <1>4 DEF Reach, Cur
    <2> QED BY <1>3, <2>1 DEF Published
  <1> QED BY <1>1, <1>2, <1>4, <1>5, <1>6, <1>7, <1>8 DEF Lost

(* No handle passes the stale check, none can be opened, and no operation  *)
(* is under way: nothing writes the files again.                           *)
LEMMA LostForGood ==
  ASSUME Lost, [ENext]_evars
  PROVE  Lost' /\ acked' = acked /\ Published' = Published
  <1>1. /\ ETypeOK /\ Unlocked /\ AllStale /\ Cur \in Generations /\ journal[Cur] = <<>>
        /\ Registered \subseteq Generations /\ Cur \in Registered
        /\ MaxFaults \in Nat /\ MaxCrashes \in Nat /\ Created \in Projections /\ Owner \in Handles
    <2>1. MaxGenerations \in Nat /\ MaxFaults \in Nat /\ MaxCrashes \in Nat
      BY GenerationsAssumption, StoreBounds
    <2>2. Created \in Projections
      BY PlausibleCreated DEF Plausible
    <2> QED BY <2>1, <2>2 DEF Lost, Registered, Generations, Cur, Handles
  <1>2. ~Openable
    BY <1>1 DEF Openable, Missing, Cur
  <1>3. ASSUME NEW h \in Handles, EnsureCurrent(h) PROVE FALSE
    <2>1. opened[h].proj.rev < meta.rev /\ opened[h].proj.rev = meta.rev
      BY <1>1, <1>3 DEF AllStale, EnsureCurrent
    <2>2. meta.rev \in Nat
      BY <1>1, MetaTyped
    <2> QED BY <2>1, <2>2
  <1>4. /\ ~(\E kind \in {"usage", "fact"} : AppendFacts(kind)) /\ ~StageNextGeneration
        /\ ~(\E h \in Handles : MutateProjection(h)) /\ ~LoadIndexOnly
    BY <1>1, <1>3 DEF AppendFacts, StageNextGeneration, MutateProjection, LoadIndexOnly
  <1>5. /\ ~PersistAppend /\ ~PersistGeneration /\ ~Discard /\ ~PersistMutation /\ ~UpdateIndex
        /\ ~PersistRecovered /\ ~LoadIndex
    BY <1>1 DEF Unlocked, At, PersistAppend, PersistGeneration, Discard, PersistMutation, UpdateIndex,
                PersistRecovered, LoadIndex
  <1>6. ASSUME NEW h \in Handles, Open(h) PROVE Lost' /\ acked' = acked /\ Published' = Published
    <2>1. /\ journal' = [g \in Generations |-> IF g \in Registered THEN journal[g] ELSE <<>>]
          /\ UNCHANGED <<op, meta, index, opened, made, acked, faults, crashes>>
      BY <1>2, <1>6 DEF Open
    <2>2. \A g \in Registered : journal'[g] = journal[g]
      BY <1>1, <2>1
    <2>3. journal' \in [Generations -> Seq(CommitRecords)]
      <3>1. <<>> \in Seq(CommitRecords) /\ journal \in [Generations -> Seq(CommitRecords)]
        BY <1>1 DEF ETypeOK
      <3> QED BY <2>1, <3>1
    <2>4. ETypeOK' /\ Unlocked'
      BY <1>1, <2>1, <2>3 DEF ETypeOK, Unlocked
    <2> QED BY <2>1, <2>2, <2>4, LostStays
  <1>7. ASSUME NEW h \in Handles, Close(h) PROVE Lost' /\ acked' = acked /\ Published' = Published
    <2>1. /\ opened' = [opened EXCEPT ![h] = [open |-> FALSE, proj |-> Created]]
          /\ UNCHANGED <<journal, meta, index, op, made, acked, faults, crashes>>
      BY <1>7 DEF Close, Release
    <2>2. /\ opened' \in [Handles -> [open : BOOLEAN, proj : Projections]]
          /\ \A k \in Handles : opened'[k].open => opened'[k] = opened[k]
      <3>1. [open |-> FALSE, proj |-> Created] \in [open : BOOLEAN, proj : Projections]
        BY <1>1
      <3> QED BY <1>1, <2>1, <3>1 DEF ETypeOK
    <2>3. ETypeOK' /\ Unlocked'
      BY <1>1, <2>1, <2>2 DEF ETypeOK, Unlocked
    <2> QED BY <2>1, <2>2, <2>3, LostStays
  <1>8. ASSUME Crash PROVE Lost' /\ acked' = acked /\ Published' = Published
    <2>1. /\ opened' = [h \in Handles |-> [open |-> FALSE, proj |-> Created]] /\ op' = Idle
          /\ crashes < MaxCrashes /\ crashes' = crashes + 1
          /\ UNCHANGED <<journal, meta, index, made, acked, faults>>
      BY <1>8 DEF Crash, End
    <2>2. /\ opened' \in [Handles -> [open : BOOLEAN, proj : Projections]]
          /\ \A k \in Handles : ~opened'[k].open
      BY <1>1, <2>1
    <2>3. op' \in [by : Handles, step : Steps, proj : Projections] /\ Unlocked'
      BY <1>1, <2>1 DEF Idle, Steps, Unlocked
    <2>4. ETypeOK'
      BY <1>1, <2>1, <2>2, <2>3 DEF ETypeOK
    <2> QED BY <2>1, <2>2, <2>3, <2>4, LostStays
  <1>9. ASSUME UNCHANGED evars PROVE Lost' /\ acked' = acked /\ Published' = Published
    <2>1. ETypeOK' /\ Unlocked'
      BY <1>1, <1>9 DEF evars, ETypeOK, Unlocked
    <2> QED BY <1>9, <2>1, LostStays DEF evars
  <1> QED BY <1>4, <1>5, <1>6, <1>7, <1>8, <1>9 DEF ENext

-----------------------------------------------------------------------------
(* Theorems *)

(* Whatever fails or crashes, thread.json and the journals of a Thread     *)
(* differ by at most one commit, every projection in memory is accounted   *)
(* for, and the registered journals are one numbered history; or else a    *)
(* failing rollover has removed the file of the Generation it began, and   *)
(* the Thread stays as it left it.                                         *)
THEOREM HistoryInvariant ==
  ASSUME Survivable
  PROVE  ESpec => []HistoryInv
  <1>1. EInit => HistoryInv
    BY HistoryBegins DEF HistoryInv
  <1>2. HistoryInv /\ [ENext]_evars => HistoryInv'
    <2> SUFFICES ASSUME Intact, [ENext]_evars PROVE HistoryInv'
      BY LostForGood DEF HistoryInv
    <2> USE DEF HistoryInv
    <2>1. CASE \E kind \in {"usage", "fact"} : AppendFacts(kind)
      BY <2>1, StepAppendFacts
    <2>2. CASE PersistAppend
      BY <2>2, StepPersistAppend
    <2>3. CASE StageNextGeneration
      BY <2>3, StepStageNextGeneration
    <2>4. CASE PersistGeneration
      BY <2>4, StepPersistGeneration
    <2>5. CASE Discard
      BY <2>5, StepDiscardStaged, StepDiscardSelected
    <2>6. CASE \E h \in Handles : MutateProjection(h)
      BY <2>6, StepMutateProjection
    <2>7. CASE PersistMutation
      BY <2>7, StepPersistMutation
    <2>8. CASE LoadIndexOnly
      BY <2>8, StepLoadIndexOnly
    <2>9. CASE UpdateIndex
      BY <2>9, StepUpdateIndex
    <2>10. CASE \E h \in Handles : Open(h)
      BY <2>10, StepOpen
    <2>11. CASE PersistRecovered
      BY <2>11, StepPersistRecovered
    <2>12. CASE LoadIndex
      BY <2>12, StepLoadIndex
    <2>13. CASE \E h \in Handles : Close(h)
      BY <2>13, StepClose
    <2>14. CASE Crash
      BY <2>14, StepCrash
    <2>15. CASE UNCHANGED evars
      <3>1. HistoryPart' /\ (HasTail' <=> HasTail) /\ Ahead' = Ahead /\ Cur' = Cur
        BY <2>15, HistoryStays DEF evars
      <3>2. HandlesFollow'
        BY <2>15, <3>1, HandlesStay DEF evars
      <3>3. OpReady'
        BY <2>15, <3>1, Before DEF evars, OpReady, At, Superseding, AllStale, Current
      <3>4. ProjectionsPlausible' /\ ETypeOK'
        BY <2>15, <3>1, Before DEF evars, ProjectionsPlausible, ETypeOK
      <3> QED BY <3>1, <3>2, <3>3, <3>4 DEF Intact, MemoryPart
    <2> QED BY <2>1, <2>2, <2>3, <2>4, <2>5, <2>6, <2>7, <2>8, <2>9, <2>10, <2>11, <2>12, <2>13, <2>14, <2>15
            DEF ENext
  <1> QED BY <1>1, <1>2, PTL DEF ESpec

(* The published history is one sequence, counts each usage fact once, and *)
(* no handle that passes the stale check holds anything else.              *)
LEMMA IntactIsSafe == Intact => HistorySafe /\ ETypeOK
  <1> SUFFICES ASSUME Intact PROVE HistorySafe /\ ETypeOK
    OBVIOUS
  <1>1. ETypeOK /\ HistoryPart /\ Layout /\ Plausible(meta, made)
    BY Before
  <1>2. /\ Cur \in Registered /\ Registered = 1 .. Cur /\ Current = journal[Cur] /\ Cur \in Nat
        /\ meta.off \in Nat \ {0} /\ meta.seq \in Nat /\ Len(Current) \in Nat
        /\ \A g \in Registered : meta.bounds[g] \in Nat \ {0} /\ journal[g] \in Seq(CommitRecords)
    BY <1>1, MetaFacts
  <1>3. OneSequence
    <2>1. Missing = {} /\ meta.bounds[1] = 1
      BY <1>1 DEF Missing, Layout
    <2>2. ASSUME NEW g \in Registered
          PROVE  LET next == IF g = CurrentGeneration(meta) THEN meta.seq + 1 ELSE meta.bounds[g + 1] IN
                 Visible(meta, g) = 1 .. next - meta.bounds[g]
      <3>1. CASE g = Cur
        <4>1. Visible(meta, Cur) = 1 .. meta.off
          BY <1>1, VisibleNow
        <4>2. (meta.seq + 1) - meta.bounds[Cur] = meta.off
          <5>1. meta.seq = meta.bounds[Cur] + meta.off - 1 /\ meta.bounds[Cur] \in Nat
            BY <1>1, <1>2 DEF Layout
          <5> QED BY SMTT(30), <1>2, <5>1
        <4>3. g = CurrentGeneration(meta)
          BY <3>1 DEF Cur
        <4>4. Visible(meta, g) = 1 .. (meta.seq + 1) - meta.bounds[g]
          BY <3>1, <4>1, <4>2
        <4>5. (IF g = CurrentGeneration(meta) THEN meta.seq + 1 ELSE meta.bounds[g + 1]) = meta.seq + 1
          BY <4>3
        <4> QED BY <4>4, <4>5
      <3>2. CASE g # Cur
        <4>1. Visible(meta, g) = 1 .. Len(journal[g])
          BY <1>1, <3>2, VisibleNow
        <4>2. g \in 1 .. Cur - 1
          BY <1>2, <3>2
        <4>3. meta.bounds[g + 1] = meta.bounds[g] + Len(journal[g])
          BY <1>1, <4>2 DEF Layout
        <4>4. meta.bounds[g + 1] - meta.bounds[g] = Len(journal[g])
          BY <1>2, <4>3
        <4> QED BY <3>2, <4>1, <4>4 DEF Cur
      <3> QED BY <3>1, <3>2
    <2>3. \A g \in Registered : \A k \in Visible(meta, g) : journal[g][k].seq = meta.bounds[g] + k - 1
      BY <1>1 DEF Layout, Consecutive, Visible
    <2> QED BY <2>1, <2>2, <2>3 DEF OneSequence, OnlyTheNewestIsLost
  <1>4. UsageCountedOnce
    BY <1>1 DEF HistoryPart, UsageCounted, Usages, UsageCountedOnce
  <1>5. CurrentHandleAgrees
    BY CurrentIsMeta DEF CurrentHandleAgrees
  <1> QED BY <1>1, <1>3, <1>4, <1>5 DEF HistorySafe

(* So is what a lost Thread has left in its files.                         *)
LEMMA LostIsSafe == Lost => HistorySafe /\ ETypeOK
  <1> SUFFICES ASSUME Lost PROVE HistorySafe /\ ETypeOK
    OBVIOUS
  <1>1. /\ ETypeOK /\ Unlocked /\ AllStale /\ Cur \in Generations /\ Cur > 1 /\ journal[Cur] = <<>>
        /\ LayoutBefore /\ UsageCounted /\ "renewLate" \in Faults
    BY DEF Lost
  <1>2. /\ Cur \in Nat \ {0} /\ Cur \in Registered /\ Registered = 1 .. Cur /\ Registered \subseteq Generations
        /\ meta.bounds \in Seq(1 .. MaxCommits) /\ Len(meta.bounds) = Cur
        /\ \A g \in Registered : meta.bounds[g] \in Nat /\ journal[g] \in Seq(CommitRecords)
    <2>1. MaxGenerations \in Nat /\ MaxCommits \in Nat /\ journal \in [Generations -> Seq(CommitRecords)]
      BY <1>1, MetaTyped DEF ETypeOK
    <2>2. Cur \in Nat \ {0} /\ Registered = 1 .. Cur /\ Registered \subseteq Generations
      BY <1>1, <2>1 DEF Registered, Generations, Cur
    <2>3. meta.bounds \in Seq(1 .. MaxCommits) /\ Len(meta.bounds) = Cur
      BY <1>1, MetaTyped
    <2>4. Cur \in Registered /\ \A g \in Registered : meta.bounds[g] \in Nat /\ journal[g] \in Seq(CommitRecords)
      BY <2>1, <2>2, <2>3
    <2> QED BY <2>2, <2>3, <2>4
  <1>3. ASSUME NEW h \in Handles, EnsureCurrent(h) PROVE FALSE
    <2>1. opened[h].proj.rev < meta.rev /\ opened[h].proj.rev = meta.rev
      BY <1>1, <1>3 DEF AllStale, EnsureCurrent
    <2>2. meta.rev \in Nat
      BY <1>1, MetaTyped
    <2> QED BY <2>1, <2>2
  <1>4. Missing = {Cur}
    <2>1. \A g \in Registered : g # Cur => g \in 1 .. Cur - 1
      BY <1>2
    <2> QED BY <1>1, <1>2, <2>1 DEF Missing, LayoutBefore
  <1>5. OneSequence
    <2>1. OnlyTheNewestIsLost
      BY <1>1, <1>3, <1>4 DEF OnlyTheNewestIsLost, Cur
    <2>2. ASSUME NEW g \in Registered \ Missing
          PROVE  LET next == IF g = CurrentGeneration(meta) THEN meta.seq + 1 ELSE meta.bounds[g + 1] IN
                 /\ Visible(meta, g) = 1 .. next - meta.bounds[g]
                 /\ \A k \in Visible(meta, g) : journal[g][k].seq = meta.bounds[g] + k - 1
      <3>1. g \in 1 .. Cur - 1 /\ g # CurrentGeneration(meta) /\ journal[g] \in Seq(CommitRecords)
        BY <1>2, <1>4 DEF Cur
      <3>2. Visible(meta, g) = 1 .. Len(journal[g])
        BY <3>1 DEF Visible
      <3>3. meta.bounds[g + 1] - meta.bounds[g] = Len(journal[g])
        <4>1. meta.bounds[g + 1] = meta.bounds[g] + Len(journal[g]) /\ meta.bounds[g] \in Nat
          BY <1>1, <1>2, <3>1 DEF LayoutBefore
        <4> QED BY <3>1, <4>1
      <3>4. \A k \in Visible(meta, g) : journal[g][k].seq = meta.bounds[g] + k - 1
        BY <1>1, <3>1, <3>2 DEF LayoutBefore, Consecutive
      <3> QED BY <3>1, <3>2, <3>3, <3>4
    <2> QED BY <1>1, <2>1, <2>2 DEF OneSequence, LayoutBefore
  <1>6. UsageCountedOnce
    BY <1>1 DEF UsageCounted, Usages, UsageCountedOnce
  <1>7. CurrentHandleAgrees
    BY <1>3 DEF CurrentHandleAgrees
  <1> QED BY <1>1, <1>5, <1>6, <1>7 DEF HistorySafe

(* "One Event sequence spans all Generation Journals": it is unbroken, its *)
(* usage is counted once and stale handles are recognised, for any number  *)
(* of handles, Generations, failures and crashes (event_store.go).         *)
THEOREM HistoryIsSafe ==
  ASSUME Survivable
  PROVE  ESpec => [](HistorySafe /\ ETypeOK)
  <1>1. HistoryInv => HistorySafe /\ ETypeOK
    BY IntactIsSafe, LostIsSafe DEF HistoryInv
  <1> QED BY <1>1, HistoryInvariant, PTL

(* The commits that a lost Thread has left in its files                    *)
LEMMA LostCommits ==
  ASSUME Lost
  PROVE  /\ Published \in Seq(CommitRecords) /\ Len(acked) <= Len(Published) /\ Len(Published) \in Nat
         /\ \A s \in 1 .. Len(Published) : \A c \in Commits(meta) : c.seq = s => c = Published[s]
  <1> DEFINE n == meta.seq - 1
  <1>1. NumberedBefore /\ AckedKept /\ Len(acked) < meta.seq /\ journal[CurrentGeneration(meta)] = <<>>
    BY DEF Lost, Cur
  <1>2. meta.seq \in Nat \ {0} /\ n \in Nat /\ Len(acked) \in Nat /\ Len(acked) <= n
    <2>1. meta.seq \in Nat \ {0} /\ Len(acked) \in Nat
      BY <1>1, MetaTyped DEF Lost, AckedKept
    <2> QED BY <1>1, <2>1
  <1>3. Published = [s \in 1 .. n |-> CHOOSE c \in Commits(meta) : c.seq = s]
    BY <1>1 DEF Published, Reach
  <1>4. \A s \in 1 .. n : \E c \in Commits(meta) : c.seq = s
    BY <1>1 DEF NumberedBefore
  <1> HIDE DEF n
  <1>5. ASSUME NEW s \in 1 .. n
        PROVE  Published[s] \in Commits(meta) /\ Published[s].seq = s
    <2>1. Published[s] = CHOOSE c \in Commits(meta) : c.seq = s
      BY <1>3
    <2> QED BY <1>4, <2>1
  <1>6. Published \in [1 .. n -> CommitRecords]
    <2>1. \A s \in 1 .. n : Published[s] \in CommitRecords
      BY <1>1, <1>5 DEF NumberedBefore
    <2> QED BY <1>3, <2>1
  <1>7. Published \in Seq(CommitRecords) /\ Len(Published) = n
    BY <1>2, <1>6
  <1>8. \A s \in 1 .. n : \A c \in Commits(meta) : c.seq = s => c = Published[s]
    BY <1>1, <1>5 DEF NumberedBefore
  <1> QED BY <1>2, <1>7, <1>8

(* What has been acknowledged begins what is published.                    *)
LEMMA AckedPrefix == HistoryInv => IsPrefix(acked, Published)
  <1> SUFFICES ASSUME HistoryInv PROVE IsPrefix(acked, Published)
    OBVIOUS
  <1>1. AckedKept
    BY Before DEF HistoryInv, HistoryPart, Lost
  <1>2. /\ Published \in Seq(CommitRecords) /\ Len(acked) <= Len(Published) /\ Len(Published) \in Nat
        /\ \A s \in 1 .. Len(Published) : \A c \in Commits(meta) : c.seq = s => c = Published[s]
    BY <1>1, SelectedCommits, LostCommits DEF HistoryInv, AckedKept
  <1>3. acked \in Seq(CommitRecords) /\ Len(acked) <= Len(Published) /\ Len(acked) \in Nat
    BY <1>1, <1>2 DEF AckedKept
  <1>4. \A s \in 1 .. Len(acked) : acked[s] = Published[s]
    <2> SUFFICES ASSUME NEW s \in 1 .. Len(acked) PROVE acked[s] = Published[s]
      OBVIOUS
    <2>1. s \in 1 .. Len(Published)
      BY <1>2, <1>3
    <2> QED BY <1>1, <1>2, <2>1 DEF AckedKept
  <1>5. SubSeq(acked, 1, Len(acked)) = SubSeq(Published, 1, Len(acked))
    <2> DEFINE a == SubSeq(acked, 1, Len(acked))
               b == SubSeq(Published, 1, Len(acked))
    <2>1. a = [i \in 1 .. Len(acked) |-> acked[i]] /\ b = [i \in 1 .. Len(acked) |-> Published[i]]
      BY <1>2, <1>3
    <2> QED BY <1>4, <2>1
  <1> QED BY <1>3, <1>5 DEF IsPrefix

(* Only the end of an operation acknowledges, and it acknowledges all that *)
(* is published.                                                           *)
LEMMA AckedFrom ==
  ASSUME Intact, [ENext]_evars
  PROVE  acked' = acked \/ (acked' = Published /\ Published' = Published)
  <1>1. CASE UpdateIndex
    <2>1. acked' = acked \/ acked' = Published
      BY <1>1, StepUpdateIndex
    <2>2. Published' = Published
      BY <1>1 DEF UpdateIndex, Published, Reach, Commits, Visible
    <2> QED BY <2>1, <2>2
  <1>2. CASE \/ \E kind \in {"usage", "fact"} : AppendFacts(kind)
             \/ PersistAppend \/ StageNextGeneration \/ PersistGeneration \/ Discard
    BY <1>2 DEF AppendFacts, PersistAppend, StageNextGeneration, PersistGeneration, Discard
  <1>3. CASE \/ \E h \in Handles : MutateProjection(h) \/ Open(h) \/ Close(h)
             \/ PersistMutation \/ LoadIndexOnly
    BY <1>3 DEF MutateProjection, Open, Close, PersistMutation, LoadIndexOnly
  <1>4. CASE PersistRecovered \/ LoadIndex \/ Crash \/ UNCHANGED evars
    BY <1>4 DEF PersistRecovered, LoadIndex, Crash, evars
  <1> QED BY <1>1, <1>2, <1>3, <1>4 DEF ENext

(* A commit that an operation has reported stays published, in its place,  *)
(* through rollovers, renamings, failing writes, crashes and the recovery  *)
(* of commits that were not published: the history is a DurableLog.        *)
THEOREM HistoryKeepsAcknowledged ==
  ASSUME Survivable
  PROVE  ESpec => ImplementsHistory
  <1>1. EInit => History!LogInit
    <2> SUFFICES ASSUME EInit PROVE Published = acked
      BY DEF History!LogInit
    <2>1. Intact
      BY HistoryBegins
    <2>2. meta.seq = 1 /\ acked \in Seq(CommitRecords) /\ Len(acked) = 1
      BY <2>1, Before DEF EInit, Created, First, HistoryPart, AckedKept
    <2>3. acked[1] \in Commits(meta) /\ acked[1].seq = 1
      BY <2>1, <2>2, Before DEF HistoryPart, AckedKept
    <2>4. Published \in Seq(CommitRecords) /\ Len(Published) = 1 /\ Published[1] = acked[1]
      BY <2>1, <2>2, <2>3, SelectedCommits
    <2> QED BY <2>2, <2>4
  <1>2. ESpec => []HistoryInv
    BY HistoryInvariant
  <1>3. HistoryInv' => IsPrefix(acked, Published)'
    BY AckedPrefix, PTL
  <1>4. HistoryInv /\ HistoryInv' /\ [ENext]_evars
        => [History!InDoubt \/ History!Acknowledge]_<<Published, acked>>
    <2> SUFFICES ASSUME HistoryInv, HistoryInv', [ENext]_evars
                 PROVE  History!InDoubt \/ History!Acknowledge
      OBVIOUS
    <2>1. CASE acked' = acked
      BY <1>3, <2>1 DEF History!InDoubt, History!IsPrefix, IsPrefix
    <2>2. CASE acked' = Published /\ Published' = Published
      BY <2>2 DEF History!Acknowledge
    <2> QED BY <2>1, <2>2, AckedFrom, LostForGood DEF HistoryInv
  <1> QED BY <1>1, <1>2, <1>4, PTL DEF ESpec, ImplementsHistory, History!LogSpec

(* No handle of a lost Thread is opened.                                   *)
LEMMA LostOpensNothing ==
  ASSUME Lost, ENext, NEW h \in Handles, ~opened[h].open
  PROVE  ~opened'[h].open
  <1>1. ETypeOK /\ Unlocked /\ AllStale
    BY DEF Lost
  <1>2. ASSUME NEW k \in Handles, EnsureCurrent(k) PROVE FALSE
    <2>1. opened[k].proj.rev < meta.rev /\ opened[k].proj.rev = meta.rev /\ meta.rev \in Nat
      BY <1>1, <1>2, MetaTyped DEF AllStale, EnsureCurrent
    <2> QED BY <2>1
  <1>3. CASE \/ \E kind \in {"usage", "fact"} : AppendFacts(kind)
             \/ StageNextGeneration \/ LoadIndexOnly \/ \E k \in Handles : MutateProjection(k)
    BY <1>2, <1>3 DEF AppendFacts, StageNextGeneration, LoadIndexOnly, MutateProjection, Handles
  <1>4. CASE \/ PersistAppend \/ PersistGeneration \/ Discard \/ PersistMutation \/ UpdateIndex
             \/ PersistRecovered \/ LoadIndex
    BY <1>1, <1>4 DEF Unlocked, At, PersistAppend, PersistGeneration, Discard, PersistMutation, UpdateIndex,
                      PersistRecovered, LoadIndex
  <1>5. CASE \E k \in Handles : Open(k)
    BY <1>5 DEF Open
  <1>6. CASE \E k \in Handles : Close(k)
    <2>1. PICK k \in Handles : opened' = [opened EXCEPT ![k] = [open |-> FALSE, proj |-> Created]]
      BY <1>6 DEF Close, Release
    <2> QED BY <1>1, <2>1 DEF ETypeOK
  <1>7. CASE Crash
    BY <1>7 DEF Crash
  <1> QED BY <1>3, <1>4, <1>5, <1>6, <1>7 DEF ENext

(* "A failed index refresh leaves the committed Thread repairable": a step *)
(* that opens a handle leaves an index that shows thread.json as it is     *)
(* (loadOrRebuildIndexLocked).                                             *)
LEMMA OpeningRepairsIndex ==
  ASSUME Survivable
  PROVE  ESpec => OpenRepairsIndex
  <1> DEFINE A == \A h \in Handles : ~opened[h].open /\ opened'[h].open => index' = meta'.rev
  <1>1. ESpec => []HistoryInv
    BY HistoryInvariant
  <1>2. HistoryInv /\ [ENext]_evars => [A]_evars
    <2> SUFFICES ASSUME HistoryInv, ENext, NEW h \in Handles, ~opened[h].open, opened'[h].open
                 PROVE  index' = meta'.rev
      OBVIOUS
    <2>0. CASE Lost
      BY <2>0, LostOpensNothing
    <2> SUFFICES ASSUME Intact PROVE index' = meta'.rev
      BY <2>0 DEF HistoryInv
    <2>1. opened \in [Handles -> [open : BOOLEAN, proj : Projections]] /\ OpReady /\ Owner \in Handles
      BY Before
    <2>2. CASE opened' = opened
      BY <2>2
    <2>3. ASSUME NEW b \in Handles, NEW p, opened' = [opened EXCEPT ![b] = p], opened[b].open
          PROVE  FALSE
      <3>1. h # b
        BY <2>3
      <3> QED BY <2>1, <2>3, <3>1
    <2>4. CASE \E kind \in {"usage", "fact"} : AppendFacts(kind)
      BY <2>1, <2>2, <2>3, <2>4 DEF AppendFacts, Publish, EnsureCurrent
    <2>5. CASE PersistGeneration
      BY <2>1, <2>2, <2>3, <2>5 DEF PersistGeneration, Publish, OpReady
    <2>6. CASE PersistMutation
      BY <2>1, <2>2, <2>3, <2>6, Before DEF PersistMutation, Publish, OpReady
    <2>7. CASE LoadIndex
      BY <2>2, <2>7 DEF LoadIndex
    <2>8. CASE \E k \in Handles : Close(k)
      <3>1. PICK k \in Handles : opened' = [opened EXCEPT ![k] = [open |-> FALSE, proj |-> Created]]
        BY <2>8 DEF Close, Release
      <3>2. h # k
        BY <2>1, <3>1
      <3> QED BY <2>1, <3>1, <3>2
    <2>9. CASE Crash
      BY <2>9 DEF Crash
    <2>10. CASE \/ PersistAppend \/ StageNextGeneration \/ Discard \/ LoadIndexOnly \/ UpdateIndex \/ PersistRecovered
                \/ \E k \in Handles : MutateProjection(k) \/ Open(k)
      BY <2>2, <2>10 DEF PersistAppend, StageNextGeneration, Discard, LoadIndexOnly, UpdateIndex,
                         PersistRecovered, MutateProjection, Open
    <2> QED BY <2>4, <2>5, <2>6, <2>7, <2>8, <2>9, <2>10 DEF ENext
  <1> QED BY <1>1, <1>2, PTL DEF ESpec, OpenRepairsIndex

=============================================================================
