----------------------------- MODULE ModuleState ----------------------------
(***************************************************************************)
(* The files that Modules keep in Thread directories, and their retirement *)
(* when the configuration drops their Module: internal/framework/module/   *)
(* state and App's lease on it (app/module_resources.go).  A Module's      *)
(* directory is recorded in the Thread's module-resources.json before it   *)
(* is made.  The first App of a composition reconciles the records with    *)
(* the enabled Modules: it persists which owners retire, removes their     *)
(* directories one by one and forgets the intent.  The process may end     *)
(* anywhere in between, and the next configuration may enable the Module   *)
(* again.                                                                  *)
(***************************************************************************)
EXTENDS FaultModel, FiniteSets

CONSTANTS
    Hosts,              \* processes that compose the Agent
    ThreadDirs,         \* active and archived Thread directories
    Disposable,         \* Modules whose state goes with them
    Retained,           \* Modules whose state is kept
    MaxLeases,          \* bound: Apps of one composition
    MaxCompositions,    \* bound: compositions started
    MaxStateFaults, MaxStateDeaths

ASSUME ModulesAssumption == Disposable \cap Retained = {}
ASSUME StateBounds ==
    /\ MaxLeases \in Nat \ {0} /\ MaxCompositions \in Nat
    /\ MaxStateFaults \in Nat /\ MaxStateDeaths \in Nat

VARIABLES
    ledger,     \* module-resources.json of every Thread
    resources,  \* the Module directories that exist
    intent,     \* module-retirements.json: the owners that retire
    compositions, \* per process: enabled owners, leases held, what it is doing
    lockedBy,   \* .module-resources.lock
    started,    \* compositions started so far
    retired     \* history: directories whose owner was retired while they existed

svars == <<ledger, resources, intent, compositions, lockedBy, started, retired, faultVars>>

Modules == Disposable \cup Retained
Nobody == "nobody"
ASSUME HostsAssumption == Nobody \notin Hosts

Resources == ThreadDirs \X Modules

StateFails == FailsOnce(MaxStateFaults)

Down == [enabled |-> {}, leases |-> 0, step |-> "down", todo |-> {}]
Recorded == {r \in Resources : r[2] \in ledger[r[1]]}

-----------------------------------------------------------------------------
(* Acquire *)

(* A further App of the running composition; another set of owners is      *)
(* refused.                                                                *)
AcquireAgain(p) ==
    /\ compositions[p].step = "up" /\ compositions[p].leases < MaxLeases
    /\ compositions' = [compositions EXCEPT ![p].leases = @ + 1]
    /\ UNCHANGED <<ledger, resources, intent, lockedBy, started, retired, faultVars>>

AcquireFirst(p, enabled) ==
    /\ compositions[p].step = "down" /\ lockedBy = Nobody
    /\ started < MaxCompositions /\ started' = started + 1
    /\ lockedBy' = p
    /\ compositions' = [compositions EXCEPT ![p] = [Down EXCEPT !.enabled = enabled, !.step = "plan"]]
    /\ UNCHANGED <<ledger, resources, intent, retired, faultVars>>

(* Mutant of Retiring: an owner that is enabled again is spared. *)
RetiringUnlessEnabled(enabled) == {r[2] : r \in Recorded} \cap (Disposable \ enabled)

(* The owners to retire: those the persisted intent names, whatever the    *)
(* configuration now says, and the recorded ones that are not enabled.     *)
Retiring(enabled) == intent \cup ({r[2] : r \in Recorded} \cap (Disposable \ enabled))

Fail(p) ==
    /\ compositions' = [compositions EXCEPT ![p] = Down]
    /\ lockedBy' = Nobody

(* The complete intent is persisted before anything is deleted. *)
PlanRetirement(p) ==
    LET owners == Retiring(compositions[p].enabled) IN
    /\ compositions[p].step = "plan"
    /\ \/ /\ owners = {} /\ Succeeds
          /\ compositions' = [compositions EXCEPT ![p].step = "up", ![p].leases = 1]
          /\ UNCHANGED <<intent, retired, lockedBy>>
       \/ /\ owners # {} /\ Succeeds
          /\ intent' = owners
          /\ retired' = retired \cup {r \in resources : r[2] \in owners}
          /\ compositions' = [compositions EXCEPT
                 ![p].step = "delete",
                 ![p].todo = {r \in Recorded : r[2] \in owners \cap Disposable}]
          /\ UNCHANGED lockedBy
       \/ /\ owners # {} /\ StateFails /\ Fail(p)
          /\ \/ UNCHANGED <<intent, retired>>
             \/ /\ intent' = owners
                /\ retired' = retired \cup {r \in resources : r[2] \in owners}
    /\ UNCHANGED <<ledger, resources, started, deaths>>

(* removeOwnedDirectory *)
RemoveResource(p, r) ==
    /\ compositions[p].step = "delete" /\ r \in compositions[p].todo
    /\ \/ /\ Succeeds /\ resources' = resources \ {r} /\ retired' = retired \ {r}
          /\ compositions' = [compositions EXCEPT ![p].step = "forget", ![p].todo = {r} \cup @]
          /\ UNCHANGED lockedBy
       \/ /\ StateFails /\ Fail(p)
          /\ \/ resources' = resources \ {r} /\ retired' = retired \ {r}
             \/ UNCHANGED <<resources, retired>>
    /\ UNCHANGED <<ledger, intent, started, deaths>>

(* The Thread's ledger without the owners whose directories are gone *)
ForgetResource(p) ==
    LET gone == {r \in compositions[p].todo : r \notin resources}
        forgotten == [d \in ThreadDirs |-> {m \in ledger[d] : <<d, m>> \notin gone}]
    IN
    /\ compositions[p].step = "forget"
    /\ \/ /\ Succeeds /\ ledger' = forgotten
          /\ compositions' = [compositions EXCEPT ![p].step = "delete", ![p].todo = @ \ gone]
          /\ UNCHANGED lockedBy
       \/ StateFails /\ Fail(p) /\ ledger' \in {ledger, forgotten}
    /\ UNCHANGED <<resources, intent, started, retired, deaths>>

EndRetirement(p) ==
    /\ compositions[p].step = "delete" /\ compositions[p].todo = {}
    /\ \/ /\ Succeeds /\ intent' = {}
          /\ compositions' = [compositions EXCEPT ![p].step = "up", ![p].leases = 1]
          /\ UNCHANGED lockedBy
       \/ StateFails /\ Fail(p) /\ intent' \in {intent, {}}
    /\ UNCHANGED <<ledger, resources, started, retired, deaths>>

(* Lease.Close *)
CloseLease(p) ==
    /\ compositions[p].step = "up"
    /\ IF compositions[p].leases = 1 THEN Fail(p)
       ELSE /\ compositions' = [compositions EXCEPT ![p].leases = @ - 1]
            /\ UNCHANGED lockedBy
    /\ UNCHANGED <<ledger, resources, intent, started, retired, faultVars>>

-----------------------------------------------------------------------------
(* Prepare, at the first write of a Module in a Thread: the record, then   *)
(* the directory.                                                          *)

PrepareRecord(p, r) ==
    /\ compositions[p].step = "up" /\ r[2] \in compositions[p].enabled
    /\ r \notin Recorded /\ r \notin resources
    /\ Succeeds \/ StateFails
    /\ ledger' = [ledger EXCEPT ![r[1]] = @ \cup {r[2]}]
    /\ UNCHANGED <<resources, intent, compositions, lockedBy, started, retired, deaths>>

PrepareDirectory(p, r) ==
    /\ compositions[p].step = "up" /\ r[2] \in compositions[p].enabled
    /\ r \in Recorded /\ r \notin resources
    /\ Succeeds \/ StateFails
    /\ resources' = resources \cup {r}
    /\ UNCHANGED <<ledger, intent, compositions, lockedBy, started, retired, deaths>>

(* The operating system drops the lock of a process that ends. *)
HostEnds(p) ==
    /\ compositions[p].step # "down"
    /\ Dies(MaxStateDeaths)
    /\ Fail(p)
    /\ UNCHANGED <<ledger, resources, intent, started, retired, failures>>

-----------------------------------------------------------------------------
SInit ==
    /\ ledger = [d \in ThreadDirs |-> {}]
    /\ resources = {}
    /\ intent = {}
    /\ compositions = [p \in Hosts |-> Down]
    /\ lockedBy = Nobody
    /\ started = 0
    /\ retired = {}
    /\ FaultFree

SNext ==
    \E p \in Hosts :
        \/ AcquireAgain(p)
        \/ \E enabled \in SUBSET Modules : AcquireFirst(p, enabled)
        \/ PlanRetirement(p)
        \/ \E r \in Resources : RemoveResource(p, r)
        \/ ForgetResource(p)
        \/ EndRetirement(p)
        \/ CloseLease(p)
        \/ \E r \in Resources : PrepareRecord(p, r)
        \/ \E r \in Resources : PrepareDirectory(p, r)
        \/ HostEnds(p)

SSpec == SInit /\ [][SNext]_svars

-----------------------------------------------------------------------------
(* Properties *)

STypeOK ==
    /\ ledger \in [ThreadDirs -> SUBSET Modules]
    /\ resources \subseteq Resources /\ retired \subseteq Resources
    /\ intent \subseteq Disposable
    /\ lockedBy \in Hosts \cup {Nobody}
    /\ compositions \in [Hosts -> [enabled : SUBSET Modules, leases : 0 .. MaxLeases,
                                  step : {"down", "plan", "delete", "forget", "up"},
                                  todo : SUBSET Resources]]

(* "An Agent-wide intent precedes every retirement deletion, so a crash    *)
(* followed by re-enablement cannot skip unvisited Threads" (state/        *)
(* README.md): no running composition works with state from before its     *)
(* owner was retired, whatever failed and however often the process ended. *)
RetirementFinished ==
    \A p \in Hosts : compositions[p].step = "up" => retired = {}

(* "An unrecorded directory is not adopted" (state/README.md): Prepare     *)
(* refuses it for ever, so no path may leave one behind.                   *)
DirectoriesRecorded == resources \subseteq Recorded

(* What Reconcile and Prepare promise of the directories of Modules        *)
ModulesKept == RetirementFinished /\ DirectoriesRecorded

=============================================================================
