----------------------------- MODULE JournalFile -----------------------------
(***************************************************************************)
(* One append-only journal file, File in internal/foundation/jsonl/file.go:*)
(* batches of framed lines are appended, synchronized and rolled back on   *)
(* failure; opening the file cuts a torn final line and the complete       *)
(* prefix of an interrupted batch.                                         *)
(*                                                                         *)
(* The file is seen line by line.  A line carries the batch it belongs to  *)
(* (in place of its data), its position and the size of the batch.  The    *)
(* operating system holds file; a power loss leaves one of the contents    *)
(* the file had since it was last synchronized, or no file while its       *)
(* directory entry is not durable.                                         *)
(***************************************************************************)
EXTENDS Naturals, SequencesExt

CONSTANTS
    Batches,        \* identities of Append calls
    MaxLines,       \* bound: lines of a batch
    MaxFaults,      \* bound: failing system calls
    MaxCrashes,     \* bound: process ends and power losses
    EntryWithFile   \* whether fsync of a new file also makes its name durable

ASSUME MaxLinesAssumption == MaxLines \in Nat \ {0}
ASSUME JournalBounds == MaxFaults \in Nat /\ MaxCrashes \in Nat
ASSUME EntryAssumption == EntryWithFile \in BOOLEAN

VARIABLES
    file,      \* what the operating system holds at the path
    durable,   \* the contents a power loss may leave
    entry,     \* whether the directory entry survives a power loss
    pc,        \* "closed", "open", or the next step of Open or Append
    size,      \* f.size, in lines
    cur,       \* the lines of the batch being appended
    snap,      \* a snapshot handle: the lines below its end
    acked,     \* history: what the file held when an Append last succeeded
    used,      \* Append calls made
    faults, crashes

jvars == <<file, durable, entry, pc, size, cur, snap, acked, used, faults, crashes>>

-----------------------------------------------------------------------------
(* Contents *)

Content(ls, torn) == [exists |-> TRUE, lines |-> ls, torn |-> torn]
NoFile == [exists |-> FALSE, lines |-> <<>>, torn |-> FALSE]

(* Mutant of BatchLines: positions are counted from one. *)
BatchLinesFromOne(b, n) == [k \in 1 .. n |-> [batch |-> b, index |-> k, count |-> n]]

(* encodeBatch *)
BatchLines(b, n) == [k \in 1 .. n |-> [batch |-> b, index |-> k - 1, count |-> n]]

Ends(l) == l.index = l.count - 1

(* validateBatchAdjacent *)
Adjacent(p, l) ==
    IF Ends(p) THEN l.index = 0 ELSE l.count = p.count /\ l.index = p.index + 1

AllAdjacent(ls) == \A k \in 1 .. Len(ls) - 1 : Adjacent(ls[k], ls[k + 1])

(* A write of ls after the lines of c that stops after j of them, the next *)
(* one whole, absent or torn.                                              *)
Partial(c, ls, j, torn) == Content(c.lines \o SubSeq(ls, 1, j), torn)

Partials(c, ls) ==
    {Partial(c, ls, j, FALSE) : j \in 0 .. Len(ls)}
        \cup {Partial(c, ls, j, TRUE) : j \in 0 .. Len(ls) - 1}

-----------------------------------------------------------------------------
(* System calls.  A failing one spends a fault.                            *)

Works == UNCHANGED faults
Fails == faults < MaxFaults /\ faults' = faults + 1

(* fsync *)
Sync ==
    /\ durable' = {file}
    /\ entry' = (entry \/ EntryWithFile)
    /\ UNCHANGED file

(* A change of the file that is not synchronized yet. *)
Write(c) == file' = c /\ durable' = durable \cup {c} /\ UNCHANGED entry

Keep == UNCHANGED <<file, durable, entry>>

Closed ==
    /\ pc' = "closed"
    /\ size' = 0
    /\ cur' = <<>>

Opened ==
    /\ pc' = "open"
    /\ size' = Len(file.lines)
    /\ UNCHANGED cur

Rest == UNCHANGED <<acked, used, snap, crashes>>

-----------------------------------------------------------------------------
(* Open *)

(* openTarget *)
Open ==
    /\ pc = "closed"
    /\ IF file.exists
       THEN Keep /\ pc' = "repairTail"
       ELSE Write(Content(<<>>, FALSE)) /\ pc' = "created"
    /\ UNCHANGED <<size, cur, faults>> /\ Rest

(* syncCreatedPathLocked; a failure removes the file again. *)
SyncCreated ==
    /\ pc = "created"
    /\ \/ /\ Works /\ pc' = "repairTail"
          /\ durable' = {file} /\ entry' = TRUE
          /\ UNCHANGED <<file, size, cur>>
       \/ Fails /\ Write(NoFile) /\ Closed
    /\ Rest

(* repairTornTailLocked *)
RepairTornTail ==
    /\ pc = "repairTail"
    /\ \/ ~file.torn /\ Works /\ Keep /\ pc' = "repairBatch" /\ UNCHANGED <<size, cur>>
       \/ /\ file.torn
          /\ Works /\ Write(Content(file.lines, FALSE)) /\ pc' = "syncTail"
          /\ UNCHANGED <<size, cur>>
       \/ Fails /\ Keep /\ Closed
    /\ Rest

SyncTornTail ==
    /\ pc = "syncTail"
    /\ \/ Works /\ Sync /\ pc' = "repairBatch" /\ UNCHANGED <<size, cur>>
       \/ Fails /\ Keep /\ Closed
    /\ Rest

(* Mutant of BatchStart: only the last line of the batch is cut. *)
BatchStartLastLine == Len(file.lines) - 1

(* Where the interrupted batch at the end begins.  The walk back over its  *)
(* lines refuses a file in which one of them is missing, which no Append   *)
(* and no crash leaves (JTypeOK).                                          *)
BatchStart == Len(file.lines) - (Last(file.lines).index + 1)

Interrupted == file.lines # <<>> /\ ~Ends(Last(file.lines))

(* repairIncompleteBatchLocked *)
RepairIncompleteBatch ==
    /\ pc = "repairBatch"
    /\ \/ ~Interrupted /\ Works /\ Keep /\ Opened
       \/ /\ Interrupted
          /\ Works /\ Write(Content(SubSeq(file.lines, 1, BatchStart), FALSE))
          /\ pc' = "syncBatch" /\ UNCHANGED <<size, cur>>
       \/ Fails /\ Keep /\ Closed
    /\ Rest

SyncIncompleteBatch ==
    /\ pc = "syncBatch"
    /\ \/ Works /\ Sync /\ Opened
       \/ Fails /\ Keep /\ Closed
    /\ Rest

(* Close *)
Close ==
    /\ pc = "open"
    /\ Closed /\ Keep
    /\ UNCHANGED faults /\ Rest

-----------------------------------------------------------------------------
(* Append *)

(* checkSizeLocked: the guard of every operation of an open file. *)
SizeMatches == ~file.torn /\ Len(file.lines) = size

BeginAppend(b, n) ==
    /\ pc = "open" /\ SizeMatches
    /\ b \notin used /\ used' = used \cup {b}
    /\ cur' = BatchLines(b, n)
    /\ pc' = "write"
    /\ UNCHANGED <<file, durable, entry, size, snap, acked, faults, crashes>>

(* The write may stop anywhere; then it is rolled back. *)
WriteBatch ==
    /\ pc = "write"
    /\ durable' = durable \cup Partials(file, cur)
    /\ \/ /\ Works /\ pc' = "sync"
          /\ file' = Partial(file, cur, Len(cur), FALSE)
       \/ /\ Fails /\ pc' = "rollback"
          /\ file' \in Partials(file, cur)
    /\ UNCHANGED <<entry, size, cur>> /\ Rest

(* Mutant of SyncAppend: the batch is acknowledged without an fsync. *)
SyncAppendSkipped ==
    /\ pc = "sync"
    /\ Works /\ Keep /\ Opened
    /\ acked' = file.lines
    /\ UNCHANGED <<used, snap, crashes>>

SyncAppend ==
    /\ pc = "sync"
    /\ \/ /\ Works /\ Sync /\ pc' = "open"
          /\ size' = size + Len(cur) /\ cur' = <<>>
          /\ acked' = file.lines
       \/ Fails /\ Keep /\ pc' = "rollback" /\ UNCHANGED <<size, cur, acked>>
    /\ UNCHANGED <<used, snap, crashes>>

(* rollbackLocked: truncate, then synchronize.  Whether they work or not   *)
(* the handle stays open with the size it had.                             *)
Rollback ==
    /\ pc = "rollback"
    /\ \/ /\ Works /\ Write(Content(SubSeq(file.lines, 1, size), FALSE))
          /\ pc' = "syncRollback" /\ UNCHANGED cur
       \/ Fails /\ Keep /\ pc' = "open" /\ cur' = <<>>
    /\ UNCHANGED size /\ Rest

SyncRollback ==
    /\ pc = "syncRollback"
    /\ \/ Works /\ Sync
       \/ Fails /\ Keep
    /\ pc' = "open" /\ cur' = <<>>
    /\ UNCHANGED size /\ Rest

-----------------------------------------------------------------------------
(* Readers *)

(* OpenSnapshot at a line boundary e the owner of the file has committed.  *)
(* It opens the path again, at any time.                                   *)
OpenSnapshot(e) ==
    /\ pc # "closed" /\ ~snap.open
    /\ e <= size
    /\ snap' = [open |-> TRUE, lines |-> SubSeq(file.lines, 1, e)]
    /\ UNCHANGED <<file, durable, entry, pc, size, cur, acked, used, faults, crashes>>

NoSnap == [open |-> FALSE, lines |-> <<>>]

CloseSnapshot ==
    /\ snap.open
    /\ snap' = NoSnap
    /\ UNCHANGED <<file, durable, entry, pc, size, cur, acked, used, faults, crashes>>

(* readForwardTo from line s to the end: the batch s is in is walked back  *)
(* to its first line (validateForwardStartLocked), lines must follow each  *)
(* other, and the last one must end its batch.                             *)
ForwardAccepts(ls, s) ==
    s < Len(ls) =>
        /\ \E k \in 1 .. s + 1 :
              /\ ls[k].index = 0
              /\ \A m \in k + 1 .. s + 1 : ls[m].index > 0
              /\ \A m \in k .. s + 1 : m > 1 => Adjacent(ls[m - 1], ls[m])
        /\ AllAdjacent(SubSeq(ls, s + 1, Len(ls)))
        /\ Ends(Last(ls))

(* ReadReverse: where the page of at most n lines before e begins. *)
PageBase(e, n) == IF e > n THEN e - n ELSE 0

(* validatePageBoundariesLocked: the page fits what is before and after. *)
PageAccepts(ls, e, n) ==
    LET b == PageBase(e, n) IN
    b < e => /\ AllAdjacent(SubSeq(ls, b + 1, e))
             /\ IF b = 0 THEN ls[1].index = 0 ELSE Adjacent(ls[b], ls[b + 1])
             /\ IF e = Len(ls) THEN Ends(ls[e]) ELSE Adjacent(ls[e], ls[e + 1])

-----------------------------------------------------------------------------
(* Failures of the process and of the machine *)

(* The process ends, possibly in the middle of a write.  The operating     *)
(* system keeps the file.                                                  *)
ProcessEnds ==
    /\ pc # "closed" \/ snap.open
    /\ crashes < MaxCrashes /\ crashes' = crashes + 1
    /\ file' \in IF pc = "write" THEN Partials(file, cur) ELSE {file}
    /\ durable' = IF pc = "write" THEN durable \cup Partials(file, cur) ELSE durable
    /\ Closed
    /\ snap' = NoSnap
    /\ UNCHANGED <<entry, acked, used, faults>>

PowerLoss ==
    /\ crashes < MaxCrashes /\ crashes' = crashes + 1
    /\ file' \in durable \cup (IF pc = "write" THEN Partials(file, cur) ELSE {})
                         \cup (IF entry THEN {} ELSE {NoFile})
    /\ durable' = {file'}
    /\ entry' = file'.exists
    /\ Closed
    /\ snap' = NoSnap
    /\ UNCHANGED <<acked, used, faults>>

-----------------------------------------------------------------------------
JInit ==
    /\ file = NoFile
    /\ durable = {NoFile}
    /\ entry = FALSE
    /\ pc = "closed" /\ size = 0 /\ cur = <<>>
    /\ snap = NoSnap
    /\ acked = <<>> /\ used = {}
    /\ faults = 0 /\ crashes = 0

JNext ==
    \/ Open
    \/ SyncCreated
    \/ RepairTornTail
    \/ SyncTornTail
    \/ RepairIncompleteBatch
    \/ SyncIncompleteBatch
    \/ Close
    \/ \E b \in Batches, n \in 1 .. MaxLines : BeginAppend(b, n)
    \/ WriteBatch
    \/ SyncAppend
    \/ Rollback
    \/ SyncRollback
    \/ \E e \in 0 .. Len(file.lines) : OpenSnapshot(e)
    \/ CloseSnapshot
    \/ ProcessEnds
    \/ PowerLoss

JSpec == JInit /\ [][JNext]_jvars

-----------------------------------------------------------------------------
(* Properties *)

Lines(ls) ==
    \A k \in DOMAIN ls :
        ls[k].batch \in Batches /\ ls[k].index < ls[k].count /\ ls[k].count <= MaxLines

(* Every variable keeps its type; whatever the disk may hold is a sequence *)
(* of whole batches and the beginning of one more.                         *)
JTypeOK ==
    /\ \A c \in durable \cup {file} :
          /\ Lines(c.lines)
          /\ c.lines # <<>> => c.exists /\ Head(c.lines).index = 0
          /\ AllAdjacent(c.lines)
    /\ {entry, snap.open} \subseteq BOOLEAN
    /\ pc \in {"closed", "created", "repairTail", "syncTail", "repairBatch", "syncBatch",
               "open", "write", "sync", "rollback", "syncRollback"}
    /\ size \in Nat /\ Lines(cur) /\ Lines(snap.lines) /\ Lines(acked)
    /\ used \subseteq Batches
    /\ faults \in 0 .. MaxFaults /\ crashes \in 0 .. MaxCrashes

(* A reader of an open file meets no corruption, whatever failed before:   *)
(* forward from every line, and backward with every page size, the framing *)
(* checks accept what appends, roll backs and repairs have left.           *)
ReadersAccept ==
    pc = "open" /\ SizeMatches =>
        /\ \A s \in 0 .. size : ForwardAccepts(file.lines, s)
        /\ \A e \in 0 .. size, n \in 1 .. size : PageAccepts(file.lines, e, n)

(* "The handle [...] ignores bytes appended beyond the captured boundary"  *)
(* (OpenSnapshot): what it covers stays in the file unchanged, through     *)
(* failed appends, roll backs and a reopening with its repairs.            *)
SnapshotStable == snap.open => IsPrefix(snap.lines, file.lines)

(* What an open would show: the lines up to the end of the last batch that *)
(* is there to its last line.                                              *)
WholeBatches(ls) == SubSeq(ls, 1, Max({0} \cup {k \in DOMAIN ls : Ends(ls[k])}))

Log == INSTANCE DurableLog WITH log <- WholeBatches(file.lines), stable <- acked

(* Append "writes them as one durable batch": what was in the file when an *)
(* Append succeeded is there after any crash, power loss, failed append or *)
(* repair, in the same order; only batches in doubt come and go            *)
(* (DurableLog).                                                           *)
ImplementsLog == Log!LogSpec

(* What readers and snapshots of a journal file see (jsonl/file.go)        *)
JournalSafe == ReadersAccept /\ SnapshotStable

=============================================================================
