---------------------------- MODULE MemoryService ---------------------------
(***************************************************************************)
(* The Fleet Memory service (features/memory/service): proposals become    *)
(* requests, a Supervisor claims them one at a time under a lease and      *)
(* decides, a user administers knowledge, a source Thread contributes      *)
(* history for automatic review.  Every call holds Store.mu; requests and  *)
(* knowledge live in files, a decision changes several of them through a   *)
(* commit intent, any write may fail before or after it took effect and    *)
(* the process may end between two writes.                                 *)
(***************************************************************************)
EXTENDS FaultModel, Sequences, FiniteSets, SequencesExt

CONSTANTS
    Requests,      \* identifiers of work
    Entries,       \* knowledge entries
    Origins,       \* source ranges that evidence comes from
    AdminKeys,     \* administration requests, each with its idempotency key
    MemoryAttempts, \* attempts of a request before it fails; 3 in the code
    MaxHistory,    \* bound: events of the source Thread
    MaxMemoryFaults,
    MaxMemoryDeaths,
    MaxReconfigs   \* bound: changes of strategy or participation

ASSUME MemoryBounds ==
    /\ MemoryAttempts \in Nat \ {0}
    /\ MaxHistory \in Nat /\ MaxMemoryFaults \in Nat /\ MaxMemoryDeaths \in Nat /\ MaxReconfigs \in Nat
    /\ Requests \cap AdminKeys = {}

VARIABLES
    stateFile,     \* state/state.json
    entryFiles,    \* memory/*.md
    intentFile,    \* state/intent.json, or NoIntent
    stateMem,      \* Store.state
    entriesMem,    \* Store.entries
    reloadState,   \* Store.reloadState
    phase,         \* of the process: "down", "opening", "up"
    publishing,    \* step of Store.publish, or "no"
    held,          \* assignments an executor has been given
    reconfigs

memvars == <<stateFile, entryFiles, intentFile, stateMem, entriesMem, reloadState, phase, publishing,
             held, reconfigs, faultVars>>

NoIntent == [writes |-> <<>>, deletes |-> {}, state |-> <<>>]
NoEntry == [log |-> <<>>, origins |-> {}]
NoRequest == [status |-> "none", attempts |-> 0, fence |-> 0, auto |-> FALSE, through |-> 0, origin |-> {}]
NoWork == "none"

Terminal == {"applied", "no_change", "rejected", "failed"}

(* The request a source Thread has under review, and its cursors *)
NewSource == [enabled |-> TRUE, accepted |-> 0, processed |-> 0, job |-> NoWork, tried |-> {}]

Settle(req, status) == [req EXCEPT !.status = status]

ReleaseSource(st, r) ==
    IF st.req[r].auto /\ st.source.job = r THEN [st EXCEPT !.source.job = NoWork] ELSE st

(* retry, of each request of rs: the last allowed attempt may fail too.     *)
(* The token of an attempt is its number; it is withdrawn when the request *)
(* is no longer running.                                                   *)
Retry(st, rs) ==
    LET spent == {r \in rs : st.req[r].attempts >= MemoryAttempts}
    IN  [st EXCEPT !.req = [r \in Requests |-> IF r \in spent THEN Settle(st.req[r], "failed")
                                               ELSE IF r \in rs THEN Settle(st.req[r], "pending")
                                               ELSE st.req[r]],
                   !.source.job = IF @ \in {r \in spent : st.req[r].auto} THEN NoWork ELSE @]

RunningIn(st) == {r \in Requests : st.req[r].status = "running"}
OpenIn(st) == {r \in Requests : st.req[r].status \in {"pending", "running"}}

-----------------------------------------------------------------------------
(* persist: one atomic replacement of state.json *)

UncertainKept == reloadState' = FALSE

Uncertain == reloadState' = TRUE

Persist(st) ==
    \/ /\ Succeeds
       /\ stateFile' = st /\ stateMem' = st /\ reloadState' = FALSE
    \/ /\ FailsOnce(MaxMemoryFaults)
       /\ stateFile' \in {stateFile, st}       \* the failure may come after the rename
       /\ Uncertain /\ UNCHANGED stateMem

Calls == phase = "up" /\ publishing = "no" /\ intentFile = NoIntent /\ ~reloadState

OnlyState == UNCHANGED <<entryFiles, intentFile, entriesMem, phase, publishing, reconfigs, deaths>>

(* begin: an uncertain state file is read again before the next call       *)
ReloadStore ==
    /\ phase = "up" /\ publishing = "no" /\ intentFile = NoIntent /\ reloadState
    /\ stateMem' = stateFile /\ entriesMem' = entryFiles /\ reloadState' = FALSE
    /\ UNCHANGED <<stateFile, entryFiles, intentFile, phase, publishing, held, reconfigs, faultVars>>

-----------------------------------------------------------------------------
(* commit and publish *)

CommitIntent(st, writes, deletes) ==
    LET in == [writes |-> writes, deletes |-> deletes, state |-> st]
    IN  /\ \/ Succeeds /\ intentFile' = in /\ publishing' = "entries"
           \/ FailsOnce(MaxMemoryFaults) /\ intentFile' \in {intentFile, in} /\ UNCHANGED publishing
        /\ UNCHANGED <<stateFile, entryFiles, stateMem, entriesMem, reloadState, phase, held, reconfigs, deaths>>

(* begin and Open: an intent that is found is published first *)
RecoverIntent ==
    /\ phase \in {"up", "opening"} /\ publishing = "no" /\ intentFile # NoIntent
    /\ publishing' = "entries"
    /\ UNCHANGED <<stateFile, entryFiles, intentFile, stateMem, entriesMem, reloadState, phase, held, reconfigs,
                   faultVars>>

(* The files an intent replaces, one write each *)
EntryUnpublished(e) ==
    \/ e \in DOMAIN intentFile.writes /\ entryFiles[e] # intentFile.writes[e]
    \/ e \in intentFile.deletes /\ entryFiles[e] # NoEntry

PublishEntry(e) ==
    /\ publishing = "entries" /\ EntryUnpublished(e)
    /\ entryFiles' = [entryFiles EXCEPT ![e] = IF e \in intentFile.deletes THEN NoEntry ELSE intentFile.writes[e]]
    /\ UNCHANGED <<stateFile, intentFile, stateMem, entriesMem, reloadState, phase, publishing, held, reconfigs,
                   faultVars>>

PublishState ==
    /\ publishing = "entries" /\ \A e \in Entries : ~EntryUnpublished(e)
    /\ stateFile' = intentFile.state
    /\ publishing' = "unlink"
    /\ UNCHANGED <<entryFiles, intentFile, stateMem, entriesMem, reloadState, phase, held, reconfigs, faultVars>>

(* The intent goes last; then memory takes over what it committed          *)
RemoveIntentFile ==
    /\ publishing = "unlink"
    /\ intentFile' = NoIntent /\ publishing' = "no"
    /\ \/ /\ Succeeds /\ stateMem' = intentFile.state /\ entriesMem' = entryFiles /\ UNCHANGED <<reloadState, phase>>
       \/ /\ FailsOnce(MaxMemoryFaults) /\ reloadState' = TRUE      \* SyncDir
          /\ phase' = IF phase = "opening" THEN "down" ELSE phase
          /\ UNCHANGED <<stateMem, entriesMem>>
    /\ UNCHANGED <<stateFile, entryFiles, held, reconfigs, deaths>>

(* A write of publish fails: the call (or Open) returns the error *)
PublishFails ==
    /\ publishing # "no" /\ FailsOnce(MaxMemoryFaults)
    /\ publishing' = "no" /\ phase' = IF phase = "opening" THEN "down" ELSE phase
    /\ UNCHANGED <<stateFile, entryFiles, intentFile, stateMem, entriesMem, reloadState, held, reconfigs, deaths>>

MemoryDies ==
    /\ phase # "down" /\ Dies(MaxMemoryDeaths)
    /\ phase' = "down" /\ publishing' = "no" /\ reloadState' = FALSE
    /\ UNCHANGED <<stateFile, entryFiles, intentFile, stateMem, entriesMem, held, reconfigs, failures>>

(* Open *)
BeginOpen ==
    /\ phase = "down"
    /\ phase' = "opening" /\ stateMem' = stateFile /\ reloadState' = FALSE
    /\ UNCHANGED <<stateFile, entryFiles, intentFile, entriesMem, publishing, held, reconfigs, faultVars>>

(* A changed strategy fences running work and rejects automatic work *)
ChangeStrategy(st) ==
    LET fenced == [st EXCEPT !.strategy = IF @ = "basic" THEN "advanced" ELSE "basic", !.fence = @ + 1]
        dropped == {r \in OpenIn(st) : st.req[r].auto}
    IN  [fenced EXCEPT !.req = [r \in Requests |-> IF r \in dropped THEN Settle(st.req[r], "rejected") ELSE st.req[r]],
                       !.source.job = IF @ \in dropped THEN NoWork ELSE @]

FinishOpen ==
    /\ phase = "opening" /\ publishing = "no" /\ intentFile = NoIntent
    /\ entriesMem' = entryFiles
    /\ \E change \in {FALSE} \cup (IF reconfigs < MaxReconfigs THEN {TRUE} ELSE {}) :
         /\ reconfigs' = IF change THEN reconfigs + 1 ELSE reconfigs
         /\ Persist(IF change THEN ChangeStrategy(stateMem) ELSE stateMem)
    /\ phase' = IF reloadState' THEN "down" ELSE "up"
    /\ UNCHANGED <<entryFiles, intentFile, publishing, held, deaths>>

-----------------------------------------------------------------------------
(* Work *)

NewRequest(st, auto, through, origin) ==
    [status |-> "pending", attempts |-> 0, fence |-> st.fence, auto |-> auto, through |-> through, origin |-> origin]

Propose(r) ==
    /\ Calls /\ stateMem.req[r].status = "none"
    /\ \E o \in Origins \ stateMem.suppressed :
         Persist([stateMem EXCEPT !.req[r] = NewRequest(stateMem, FALSE, 0, {o})])
    /\ OnlyState /\ UNCHANGED held

(* schedule: unprocessed history becomes automatic work; a range that has  *)
(* been tried is only tried again manually.                                *)
Schedulable(st, r, manual) ==
    /\ st.strategy = "advanced" /\ st.req[r].status = "none"
    /\ st.source.enabled /\ st.source.job = NoWork /\ st.source.accepted > st.source.processed
    /\ manual \/ <<st.source.processed, st.source.accepted>> \notin st.source.tried

Schedule(st, r) ==
    [st EXCEPT !.req[r] = NewRequest(st, TRUE, st.source.accepted, Origins \ st.suppressed),
               !.source.job = r,
               !.source.tried = @ \cup {<<st.source.processed, st.source.accepted>>}]

Maintain(r) ==
    /\ Calls /\ Schedulable(stateMem, r, TRUE)
    /\ Persist(Schedule(stateMem, r))
    /\ OnlyState /\ UNCHANGED held

Retried(st) == Retry(st, RunningIn(st))

Assign(st, r) == [Settle(st.req[r], "running") EXCEPT !.attempts = @ + 1, !.fence = st.fence]

(* While an unexpired assignment runs, Claim returns nothing and changes   *)
(* nothing.  Once its lease has run out it is retried, history is          *)
(* scheduled, and one request that is due is assigned, explicit ones       *)
(* first; a lease may run out at any time.                                 *)
Claim ==
    /\ Calls
    /\ \E st \in {Retried(stateMem)} \cup {Schedule(Retried(stateMem), r) : r \in {q \in Requests : Schedulable(Retried(stateMem), q, FALSE)}} :
         LET pending == {r \in Requests : st.req[r].status = "pending"}
             \* a request that failed waits for its retry time
             urgent == {r \in pending : ~st.req[r].auto /\ st.req[r].attempts = 0}
             given(r) == [st EXCEPT !.req[r] = Assign(st, r)]
         IN  \/ Persist(st) /\ UNCHANGED held              \* nothing is due yet
             \/ \E r \in {q \in pending : st.req[q].auto => st.source.enabled /\ urgent = {}} :
                  /\ Persist(given(r))
                  /\ held' = IF reloadState' THEN held ELSE held \cup {<<r, given(r).req[r].attempts>>}
    /\ OnlyState

(* assignment: what the capability of a caller must still match *)
Assigned(st, a) ==
    LET q == st.req[a[1]]
    IN  /\ q.status = "running" /\ q.attempts = a[2] /\ q.fence = st.fence
        /\ q.auto => st.strategy = "advanced" /\ st.source.enabled /\ st.source.job = a[1]

FailWork(a) ==
    /\ Calls /\ a \in held /\ Assigned(stateMem, a)
    /\ Persist(Retry(stateMem, {a[1]}))
    /\ OnlyState /\ UNCHANGED held

(* The executor stops or is replaced *)
Revoke ==
    /\ Calls /\ RunningIn(stateMem) # {}
    /\ Persist(Retried(stateMem))
    /\ OnlyState /\ UNCHANGED held

(* changes: every origin of a changed entry is allowed and not suppressed *)
WritableUnlessCited(st, e, origins) == origins \cap st.suppressed = {}

Writable(st, e, origins) ==
    e \notin st.deleted /\ origins \cap st.suppressed = {}

Written(e, who, origins) == [log |-> Append(entriesMem[e].log, who), origins |-> origins]

(* A failed or rejected range is released, not advanced *)
AdvanceSource(st, r, outcome) ==
    IF ~st.req[r].auto \/ st.source.job # r THEN st
    ELSE IF outcome \in {"applied", "no_change"}
         THEN [st EXCEPT !.source.processed = st.req[r].through, !.source.job = NoWork]
         ELSE ReleaseSource(st, r)

(* The changes a deleted entry held (history, for the properties) *)
Erase(st, deletes) == [st EXCEPT !.erased = @ \cup UNION {Range(entriesMem[e].log) : e \in deletes}]

Decided(st, r, outcome) == AdvanceSource([st EXCEPT !.req[r] = Settle(@, outcome)], r, outcome)

Decide(a) ==
    /\ Calls /\ a \in held /\ Assigned(stateMem, a)
    /\ \/ \E outcome \in {"no_change", "rejected"} : CommitIntent(Decided(stateMem, a[1], outcome), <<>>, {})
       \/ \E e \in Entries :
            LET known == UNION {entriesMem[x].origins : x \in Entries}
                allowed == stateMem.req[a[1]].origin \cup known
            IN  \E origins \in SUBSET allowed \ {{}} :
                  /\ Writable(stateMem, e, origins)
                  /\ CommitIntent(Decided(stateMem, a[1], "applied"), [x \in {e} |-> Written(e, a[1], origins)], {})
       \/ \E e \in {x \in Entries : entriesMem[x] # NoEntry} :        \* consolidation
            LET st == Erase(Decided(stateMem, a[1], "applied"), {e})
            IN  CommitIntent([st EXCEPT !.erased = @ \cup {a[1]}], <<>>, {e})

-----------------------------------------------------------------------------
(* Administration *)

(* scrub: payloads that cite a suppressed origin are emptied *)
Scrub(st, origins) ==
    [st EXCEPT !.req = [r \in Requests |-> IF st.req[r].origin \cap origins # {} THEN [st.req[r] EXCEPT !.origin = {}]
                                                                                 ELSE st.req[r]],
               !.suppressed = @ \cup origins]

(* Every unfinished request is superseded *)
Supersede(st) ==
    [st EXCEPT !.fence = @ + 1,
               !.req = [r \in Requests |-> IF r \in OpenIn(st) THEN Settle(st.req[r], "rejected")
                                                               ELSE st.req[r]],
               !.source.job = IF @ \in OpenIn(st) THEN NoWork ELSE @]

Forget(st, deletes) == [Erase(st, deletes) EXCEPT !.deleted = @ \cup deletes]

Admin(k) ==
    LET st == [Supersede(stateMem) EXCEPT !.keys = @ \cup {k}]
    IN  /\ Calls /\ k \notin stateMem.keys
        /\ \/ \E e \in Entries :                                                        \* delete
                CommitIntent(Scrub(Forget(st, {e}), entriesMem[e].origins), <<>>, {e})
           \/ \E o \in Origins :                                                        \* no_store
                LET deletes == {e \in Entries : o \in entriesMem[e].origins}
                IN  CommitIntent(Scrub(Forget(st, deletes), {o}), <<>>, deletes)
           \/ \E e \in Entries, origins \in SUBSET Origins :                            \* correct
                /\ Writable(stateMem, e, origins)
                /\ CommitIntent(st, [x \in {e} |-> Written(e, k, origins)], {})
           \/ \E es \in SUBSET Entries, os \in SUBSET Origins :                          \* allow_store
                es \cup os # {} /\ CommitIntent([st EXCEPT !.deleted = @ \ es, !.suppressed = @ \ os], <<>>, {})

-----------------------------------------------------------------------------
(* Source Threads *)

Contribute ==
    /\ Calls /\ stateMem.source.enabled /\ stateMem.source.accepted < MaxHistory
    /\ Persist([stateMem EXCEPT !.source.accepted = @ + 1])
    /\ OnlyState /\ UNCHANGED held

(* Participation with another epoch: the source starts at the new boundary *)
Participation ==
    /\ Calls /\ reconfigs < MaxReconfigs
    /\ reconfigs' = reconfigs + 1
    /\ LET src == stateMem.source
           boundary == [NewSource EXCEPT !.enabled = ~src.enabled, !.accepted = src.accepted, !.processed = src.accepted]
       IN  Persist([stateMem EXCEPT
                      !.source = boundary,
                      !.req = [r \in Requests |-> IF r = src.job /\ r \in OpenIn(stateMem)
                                                  THEN Settle(stateMem.req[r], "rejected")
                                                  ELSE stateMem.req[r]]])
    /\ UNCHANGED <<entryFiles, intentFile, entriesMem, phase, publishing, held, deaths>>

-----------------------------------------------------------------------------
EmptyState == [fence |-> 0, strategy |-> "advanced", req |-> [r \in Requests |-> NoRequest], deleted |-> {},
               suppressed |-> {}, keys |-> {}, erased |-> {}, source |-> NewSource]

MemInit ==
    /\ stateFile = EmptyState /\ stateMem = EmptyState
    /\ entryFiles = [e \in Entries |-> NoEntry] /\ entriesMem = entryFiles
    /\ intentFile = NoIntent /\ reloadState = FALSE /\ phase = "up" /\ publishing = "no"
    /\ held = {} /\ reconfigs = 0
    /\ FaultFree

MemNext ==
    \/ ReloadStore \/ RecoverIntent \/ PublishState \/ RemoveIntentFile \/ PublishFails
    \/ \E e \in Entries : PublishEntry(e)
    \/ MemoryDies \/ BeginOpen \/ FinishOpen
    \/ \E r \in Requests : Propose(r) \/ Maintain(r)
    \/ Claim \/ Revoke
    \/ \E a \in held : FailWork(a) \/ Decide(a)
    \/ \E k \in AdminKeys : Admin(k)
    \/ Contribute \/ Participation

MemSpec == MemInit /\ [][MemNext]_memvars

-----------------------------------------------------------------------------
(* What the next caller sees: the intent completed, the state file read    *)
KnownState == IF intentFile = NoIntent THEN stateFile ELSE intentFile.state

KnownEntries ==
    [e \in Entries |-> IF e \in intentFile.deletes THEN NoEntry
                       ELSE IF e \in DOMAIN intentFile.writes THEN intentFile.writes[e]
                       ELSE entryFiles[e]]

MemTypeOK ==
    /\ phase \in {"down", "opening", "up"} /\ publishing \in {"no", "entries", "unlink"}
    /\ \A r \in Requests : stateFile.req[r].status \in {"none", "pending", "running"} \cup Terminal
    /\ \A e \in Entries : entryFiles[e].origins \subseteq Origins

(* A decision is committed whole and once: in every state a caller could   *)
(* see next, whatever failed and wherever the process ended, each entry's  *)
(* log names a request or a correction at most once and only if its        *)
(* receipt says applied, and each applied request is in the log or was     *)
(* deleted with it.  The open store works on that state.                   *)
CommitsAtomic ==
    /\ \A e \in Entries :
         LET log == KnownEntries[e].log
         IN  /\ IsInjective(log)
             /\ \A i \in DOMAIN log : log[i] \in AdminKeys \/ KnownState.req[log[i]].status = "applied"
    /\ \A r \in Requests : KnownState.req[r].status = "applied" =>
         r \in KnownState.erased \/ \E e \in Entries : r \in Range(KnownEntries[e].log)
    /\ Calls => stateMem = stateFile /\ entriesMem = entryFiles

(* What a user has had forgotten is not learned again: a deleted entry is  *)
(* absent, and an entry that changes cites no suppressed source, however   *)
(* late the decision of an assignment claimed before arrives.              *)
NeverRelearned ==
    [][/\ \A e \in KnownState'.deleted : KnownEntries'[e] = NoEntry
       /\ \A e \in Entries : Len(KnownEntries'[e].log) > Len(KnownEntries[e].log) =>
            KnownEntries'[e].origins \cap KnownState'.suppressed = {}]_memvars

(* One assignment at a time, a bounded number of attempts each, and the source cursor    *)
(* moves only by a review that applied or found nothing ("Only             *)
(* applied/no-change outcomes advance the covered history cursor").        *)
WorkBounded ==
    /\ Cardinality(RunningIn(KnownState)) <= 1
    /\ \A r \in Requests : KnownState.req[r].attempts <= MemoryAttempts
    /\ LET src == KnownState.source
       IN  src.processed > 0 =>
             reconfigs > 0 \/ \E r \in Requests : /\ KnownState.req[r].auto /\ KnownState.req[r].through = src.processed
                                                  /\ KnownState.req[r].status \in {"applied", "no_change"}

(* The storage and the work queue of the Memory service (store.go, work.go) *)
MemorySafe == CommitsAtomic /\ WorkBounded

=============================================================================
