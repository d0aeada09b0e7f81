------------------------- MODULE ConfigPublication --------------------------
(***************************************************************************)
(* An Agent's juex.yaml and the Last-Known-Good copies of what it imports  *)
(* from remote sources (internal/app/config/imports.go,                    *)
(* workspace_config.go, agent_config.go).  Loads and updates run in        *)
(* separate processes; they share the files of the Home, the lock of the   *)
(* import cache and a recovery journal that makes one update of several    *)
(* files a whole.                                                          *)
(***************************************************************************)
EXTENDS Naturals, Sequences, FiniteSets, SequencesExt, FaultModel

CONSTANTS
    Sources,            \* remote import sources
    Processes,          \* processes that load or update configuration
    MaxRevisions,       \* bound: configurations written
    MaxLoads,           \* bound: loads
    MaxRemote,          \* bound: contents a source serves
    MaxConfigFaults,    \* bound: failing file operations
    MaxConfigDeaths     \* bound: process ends

ASSUME ConfigPublicationBounds ==
    /\ {MaxRevisions, MaxLoads, MaxRemote, MaxConfigFaults, MaxConfigDeaths} \subseteq Nat
    /\ "target" \notin Sources

VARIABLES
    disk,          \* the config file ("target") and the cache file of each source
    pubJournal,    \* cache/config-imports/.publication-journal.json
    pubLock,       \* who holds .locks/config-imports-cache.lock
    loading,       \* what each process is doing
    remote,        \* what each source serves
    revisions,     \* configurations written so far
    loads,         \* loads so far
    generations    \* the publications that took effect, oldest first (ghost)

cpvars == <<disk, pubJournal, pubLock, loading, remote, revisions, loads, generations, failures, deaths>>

Files == Sources \cup {"target"}
NoJournal == [state |-> "none", items |-> <<>>]
NoRecord == 0                 \* a cache file that is missing
NoDoc == [content |-> 0, state |-> "none"]
NoProcess == "nobody"
AnyRevision == 0 - 1
Rested == [at |-> "idle", kind |-> "none", config |-> [rev |-> 0, imports |-> {}], expected |-> AnyRevision,
           docs |-> [s \in Sources |-> NoDoc], todo |-> <<>>, failed |-> FALSE, next |-> "none"]

Moves(p, at) == loading' = [loading EXCEPT ![p].at = at]
DiskKept == UNCHANGED <<disk, pubJournal, generations>>
RestKept == UNCHANGED <<remote, revisions, loads, deaths>>

(* The process returns; the deferred Close gives the lock back.            *)
LoadReturns(p, at) ==
    /\ loading' = [loading EXCEPT ![p].at = at, ![p].todo = <<>>]
    /\ pubLock' = IF pubLock = p THEN NoProcess ELSE pubLock

(* homestore.WriteFileAtomic and os.Remove: done, or an error that may     *)
(* come before or after the effect.                                        *)
WriteDone(effect) == Succeeds /\ effect
WriteMayFail(effect, none) == FailsOnce(MaxConfigFaults) /\ (effect \/ none)

-----------------------------------------------------------------------------
(* Loads (LoadWithOptions) and updates (WriteAgentConfigIfRevision, or     *)
(* WriteAgentConfig without a revision)                                    *)

BeginLoad(p) ==
    /\ loading[p].at \in {"idle", "loaded", "failed"} /\ loads < MaxLoads
    /\ loads' = loads + 1
    /\ loading' = [loading EXCEPT ![p] = [Rested EXCEPT !.at = "inspect", !.kind = "load"]]
    /\ DiskKept /\ UNCHANGED <<pubLock, remote, revisions>> /\ UNCHANGED faultVars

BeginUpdate(p) ==
    /\ loading[p].at \in {"idle", "loaded", "failed"} /\ revisions < MaxRevisions
    /\ revisions' = revisions + 1
    /\ \E imports \in SUBSET Sources, expected \in {AnyRevision, disk["target"].rev} :
          loading' = [loading EXCEPT ![p] = [Rested EXCEPT !.at = "locking", !.kind = "update", !.expected = expected,
                                             !.config = [rev |-> revisions + 1, imports |-> imports]]]
    /\ DiskKept /\ UNCHANGED <<pubLock, remote, loads>> /\ UNCHANGED faultVars

(* recoverConfigImportPublicationIfPresent; an earlier layer with remote   *)
(* imports has made the loader take the lock already.                      *)
InspectJournal(p) ==
    /\ loading[p].at = "inspect"
    /\ \/ pubJournal = NoJournal /\ Moves(p, "peek")
       \/ Moves(p, "locking")
    /\ DiskKept /\ UNCHANGED pubLock /\ RestKept /\ UNCHANGED failures

(* The first read of the file is not under the lock: without remote        *)
(* imports it is the configuration.                                        *)
PeekConfig(p) ==
    /\ loading[p].at = "peek"
    /\ loading' = [loading EXCEPT ![p].config = disk["target"],
                                  ![p].at = IF disk["target"].imports = {} THEN "validate" ELSE "locking"]
    /\ DiskKept /\ UNCHANGED pubLock /\ RestKept /\ UNCHANGED failures

(* ensureConfigImportCacheLock: lock, then finish what an earlier process  *)
(* left.                                                                   *)
Recovers(p, items, next) ==
    loading' = [loading EXCEPT ![p].at = "recover", ![p].todo = items, ![p].failed = FALSE, ![p].next = next]
Unfinished == IF pubJournal.state = "prepared" THEN pubJournal.items ELSE <<>>

TakeLock(p) ==
    /\ loading[p].at = "locking" /\ pubLock = NoProcess
    /\ pubLock' = p
    /\ IF pubJournal = NoJournal THEN Moves(p, "read") ELSE Recovers(p, Unfinished, "read")
    /\ DiskKept /\ RestKept /\ UNCHANGED failures

-----------------------------------------------------------------------------
(* recoverConfigImportCachePublicationAt *)

(* A failing restore does not keep the others from being tried.            *)
RestoreFile(p) ==
    LET item == Head(loading[p].todo)
        after == [loading[p] EXCEPT !.todo = Tail(@)]
        restored == disk' = [disk EXCEPT ![item.file] = item.previous] IN
    /\ loading[p].at = "recover" /\ loading[p].todo # <<>>
    /\ \/ WriteDone(restored) /\ loading' = [loading EXCEPT ![p] = after]
       \/ /\ WriteMayFail(restored, UNCHANGED disk)
          /\ loading' = [loading EXCEPT ![p] = [after EXCEPT !.failed = TRUE]]
    /\ UNCHANGED <<pubJournal, pubLock, generations>> /\ RestKept

LoadContinues(p) == IF loading[p].next = "read" THEN Moves(p, "read") /\ UNCHANGED pubLock ELSE LoadReturns(p, "failed")
EndRecovery(p) ==
    /\ loading[p].at = "recover" /\ loading[p].todo = <<>>
    /\ IF loading[p].failed
       THEN LoadReturns(p, "failed") /\ UNCHANGED <<pubJournal, failures>>
       ELSE \/ WriteDone(pubJournal' = NoJournal) /\ LoadContinues(p)
            \/ WriteMayFail(pubJournal' = NoJournal, UNCHANGED pubJournal) /\ LoadReturns(p, "failed")
    /\ UNCHANGED <<disk, generations>> /\ RestKept

-----------------------------------------------------------------------------
(* applyYAMLFileWithImportLoader under the lock, and loadRemote *)

Reread(p) == IF loading[p].kind = "load" THEN disk["target"] ELSE loading[p].config

ReadLocked(p) ==
    /\ loading[p].at = "read"
    /\ loading' = [loading EXCEPT ![p].config = Reread(p), ![p].at = "fetch"]
    /\ DiskKept /\ UNCHANGED pubLock /\ RestKept /\ UNCHANGED failures

(* 200 or 304 give a fresh document, to be cached; a failing request falls *)
(* back on a cached one that is not too old; anything else is an error.    *)
Fetched(p, s, content, state) ==
    loading' = [loading EXCEPT ![p].docs[s] = [content |-> content, state |-> state]]
Fetch(p) ==
    /\ loading[p].at = "fetch"
    /\ \E s \in loading[p].config.imports :
          /\ loading[p].docs[s] = NoDoc
          /\ \/ Fetched(p, s, remote[s], "fresh") /\ UNCHANGED pubLock
             \/ disk[s] # NoRecord /\ Fetched(p, s, disk[s], "stale") /\ UNCHANGED pubLock
             \/ LoadReturns(p, "failed")
    /\ DiskKept /\ RestKept /\ UNCHANGED failures

AllFetched(p) ==
    /\ loading[p].at = "fetch"
    /\ \A s \in loading[p].config.imports : loading[p].docs[s] # NoDoc
    /\ Moves(p, "validate")
    /\ DiskKept /\ UNCHANGED pubLock /\ RestKept /\ UNCHANGED failures

(* finalizeConfigLoad, and for an update validateRuntime and the revision  *)
(* of the file as it is under the locks.                                   *)
Pending(p) == {s \in loading[p].config.imports : loading[p].docs[s].state = "fresh"}
Publishes(p) == loading[p].kind = "update" \/ Pending(p) # {}
RevisionHolds(p) ==
    loading[p].kind = "load" \/ loading[p].expected \in {AnyRevision, disk["target"].rev}

Validate(p) ==
    /\ loading[p].at = "validate"
    /\ \/ LoadReturns(p, "failed")
       \/ ~Publishes(p) /\ LoadReturns(p, "loaded")
       \/ Publishes(p) /\ RevisionHolds(p) /\ Moves(p, "prepare") /\ UNCHANGED pubLock
    /\ DiskKept /\ RestKept /\ UNCHANGED failures

-----------------------------------------------------------------------------
(* writeValidatedConfig and commitConfigImportCachesWhileLocked *)

(* What is to be written: the config file of an update first.              *)
WritePlan(p) ==
    LET caches == [i \in 1..Cardinality(Pending(p)) |->
                      LET s == SetToSeq(Pending(p))[i] IN [file |-> s, content |-> loading[p].docs[s].content]]
    IN  (IF loading[p].kind = "update" THEN <<[file |-> "target", content |-> loading[p].config]>> ELSE <<>>) \o caches

PreviousOf(w) == [file |-> w.file, previous |-> disk[w.file]]
(* The journal names what each file held, in the order of its rollback.    *)
JournalItems(ws) == Reverse([i \in DOMAIN ws |-> PreviousOf(ws[i])])

Prepare(p) ==
    LET journal == [state |-> "prepared", items |-> JournalItems(WritePlan(p))] IN
    /\ loading[p].at = "prepare"
    /\ \/ /\ WriteDone(pubJournal' = journal) /\ UNCHANGED pubLock
          /\ loading' = [loading EXCEPT ![p].at = "publish", ![p].todo = WritePlan(p)]
       \/ WriteMayFail(pubJournal' = journal, UNCHANGED pubJournal) /\ LoadReturns(p, "failed")
    /\ UNCHANGED <<disk, generations>> /\ RestKept

PublishFile(p) ==
    LET w == Head(loading[p].todo)  written == disk' = [disk EXCEPT ![w.file] = w.content] IN
    /\ loading[p].at = "publish" /\ loading[p].todo # <<>>
    /\ \/ WriteDone(written) /\ loading' = [loading EXCEPT ![p].todo = Tail(@)]
       \/ WriteMayFail(written, UNCHANGED disk) /\ Recovers(p, Unfinished, "fail")
    /\ UNCHANGED <<pubJournal, pubLock, generations>> /\ RestKept

(* The marker decides: an error that left it durable is a success.         *)
MarkCommitted(p) ==
    LET marked == /\ pubJournal' = [pubJournal EXCEPT !.state = "committed"]
                  /\ generations' = Append(generations, [files |-> disk, expected |-> loading[p].expected])
                  /\ Moves(p, "clear")
        refused == UNCHANGED <<pubJournal, generations>> /\ Recovers(p, Unfinished, "fail") IN
    /\ loading[p].at = "publish" /\ loading[p].todo = <<>>
    /\ (WriteDone(marked) \/ WriteMayFail(marked, refused))
    /\ UNCHANGED <<disk, pubLock>> /\ RestKept

ClearJournal(p) ==
    /\ loading[p].at = "clear"
    /\ LoadReturns(p, "loaded")
    /\ WriteDone(pubJournal' = NoJournal) \/ WriteMayFail(pubJournal' = NoJournal, UNCHANGED pubJournal)
    /\ UNCHANGED <<disk, generations>> /\ RestKept

-----------------------------------------------------------------------------
(* A process ends; the kernel drops its lock.                              *)
EndProcess(p) ==
    /\ loading[p].at \notin {"idle", "loaded", "failed"} /\ Dies(MaxConfigDeaths)
    /\ loading' = [loading EXCEPT ![p] = Rested]
    /\ pubLock' = IF pubLock = p THEN NoProcess ELSE pubLock
    /\ DiskKept /\ UNCHANGED <<remote, revisions, loads, failures>>

(* A source serves something else.                                         *)
RemoteChanges ==
    /\ \E s \in Sources : remote[s] < MaxRemote /\ remote' = [remote EXCEPT ![s] = @ + 1]
    /\ DiskKept /\ UNCHANGED <<pubLock, loading, revisions, loads>> /\ UNCHANGED faultVars

CPInit ==
    /\ disk = [f \in Files |-> IF f = "target" THEN [rev |-> 0, imports |-> {}] ELSE NoRecord]
    /\ pubJournal = NoJournal /\ pubLock = NoProcess
    /\ loading = [p \in Processes |-> Rested]
    /\ remote = [s \in Sources |-> 1] /\ revisions = 0 /\ loads = 0
    /\ generations = <<[files |-> disk, expected |-> AnyRevision]>>
    /\ failures = 0 /\ deaths = 0

CPNext ==
    \/ RemoteChanges
    \/ \E p \in Processes :
        \/ BeginLoad(p) \/ BeginUpdate(p) \/ InspectJournal(p) \/ PeekConfig(p) \/ TakeLock(p)
        \/ RestoreFile(p) \/ EndRecovery(p) \/ ReadLocked(p) \/ Fetch(p) \/ AllFetched(p) \/ Validate(p)
        \/ Prepare(p) \/ PublishFile(p) \/ MarkCommitted(p) \/ ClearJournal(p) \/ EndProcess(p)

CPSpec == CPInit /\ [][CPNext]_cpvars

-----------------------------------------------------------------------------
(* Type correctness of the configuration files and processes.              *)
CPTypeOK ==
    /\ DOMAIN disk = Files /\ disk["target"].imports \subseteq Sources
    /\ \A s \in Sources : disk[s] \in 0..MaxRemote /\ remote[s] \in 1..MaxRemote
    /\ pubJournal.state \in {"none", "prepared", "committed"}
    /\ pubLock \in Processes \cup {NoProcess}
    /\ \A p \in Processes : loading[p].at \in
          {"idle", "inspect", "peek", "locking", "recover", "read", "fetch", "validate", "prepare",
           "publish", "clear", "loaded", "failed"}

(* WriteAgentConfig "atomically publishes the sparse Agent overlay and any *)
(* remote-import cache generation under one recovery journal": whatever    *)
(* fails or dies, and whoever goes on from there, every file holds what    *)
(* the last publication that took effect left in it, or the journal says   *)
(* so, and a process that has the lock and no publication under way sees   *)
(* exactly that publication.                                               *)
PublicationWhole ==
    LET last == Last(generations).files IN
    /\ \A f \in Files :
          LET items == {i \in DOMAIN pubJournal.items : pubJournal.items[i].file = f} IN
          IF pubJournal.state = "prepared" /\ items # {}
          THEN \A i \in items : pubJournal.items[i].previous = last[f]
          ELSE disk[f] = last[f]
    /\ \A p \in Processes : loading[p].at \in {"read", "fetch", "prepare"} => disk = last /\ pubLock = p

(* The YAML a load used and the cached imports it fell back on come from   *)
(* one publication (applyYAMLFileWithImportLoaderAndOptions re-reads the   *)
(* file under the lock for this).                                          *)
LoadedOneGeneration ==
    \A p \in Processes : loading[p].at = "loaded" /\ loading[p].kind = "load" /\ loading[p].config.imports # {} =>
        \E g \in DOMAIN generations :
            /\ generations[g].files["target"] = loading[p].config
            /\ \A s \in loading[p].config.imports :
                  loading[p].docs[s].state = "stale" => loading[p].docs[s].content = generations[g].files[s]

(* An update made for a revision replaced that revision, whatever other    *)
(* processes published since it was read (ConfigRevisionConflict).         *)
RevisionsRespected ==
    \A g \in DOMAIN generations : g > 1 /\ generations[g].expected # AnyRevision =>
        generations[g - 1].files["target"].rev = generations[g].expected

(* What configuration publication promises.                                *)
ConfigSafe == PublicationWhole /\ LoadedOneGeneration /\ RevisionsRespected
=============================================================================
