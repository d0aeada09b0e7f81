------------------------------ MODULE MCStorage -----------------------------
(***************************************************************************)
(* The files of a Fleet, its Agents and their Threads, checked in one run: *)
(* the first state chooses the component that takes steps, the others stay *)
(* as they start.                                                          *)
(***************************************************************************)
EXTENDS EventStore, ContextRenewal, ThreadLayout, ModuleState, MemoryService

VARIABLE subject

(* The variables of one component besides the fault counters *)
renewalVars == <<filesVars, generationVars, staging, renewal, historyVars>>
layoutVars == <<place, retention, parentOf, listing, trash, ready, job, kept>>
modulesVars == <<ledger, resources, intent, compositions, lockedBy, started, retired>>
memoryVars == <<stateFile, entryFiles, intentFile, stateMem, entriesMem, reloadState, phase,
                publishing, held, reconfigs>>

vars == <<subject, evars, renewalVars, layoutVars, modulesVars, memoryVars, faultVars>>

Init ==
    /\ subject \in {"history", "renewal", "layout", "modules", "memory"}
    /\ EInit /\ RInit /\ LInit /\ SInit /\ MemInit

Next ==
    /\ UNCHANGED subject
    /\ \/ /\ subject = "history" /\ ENext
          /\ UNCHANGED <<renewalVars, layoutVars, modulesVars, memoryVars, faultVars>>
       \/ /\ subject = "renewal" /\ RNext
          /\ UNCHANGED <<evars, layoutVars, modulesVars, memoryVars>>
       \/ /\ subject = "layout" /\ LNext
          /\ UNCHANGED <<evars, renewalVars, modulesVars, memoryVars>>
       \/ /\ subject = "modules" /\ SNext
          /\ UNCHANGED <<evars, renewalVars, layoutVars, memoryVars>>
       \/ /\ subject = "memory" /\ MemNext
          /\ UNCHANGED <<evars, renewalVars, layoutVars, modulesVars>>

Spec == Init /\ [][Next]_vars

-----------------------------------------------------------------------------
(* Properties: each is the one of the component's module, for the runs in  *)
(* which that component takes steps.  HistorySafe and ModulesKept are      *)
(* checked as EventStore and ModuleState state them.                       *)

(* The state of the component that takes steps has its type.               *)
StorageTypesOK ==
    /\ subject = "history" => ETypeOK
    /\ subject = "renewal" => RTypeOK
    /\ subject = "layout" => LTypeOK
    /\ subject = "modules" => STypeOK
    /\ subject = "memory" => MemTypeOK

(* ContextRenewal: files and Generation change together                    *)
(* (context_renewal_files.go).  ThreadLayout: Threads stay until they are  *)
(* removed, parents as long as their Workers (thread/store.go).            *)
FilesKept ==
    /\ subject = "renewal" => RenewalAtomic /\ BackupsRegistered
    /\ subject = "layout" => ThreadsKept /\ ParentsPresent

(* MemoryService: a commit is whole on disk or undone and work is bounded  *)
(* (memory store.go, work.go).                                             *)
MemoryHolds == subject = "memory" => MemorySafe

(* Opening a Thread repairs its index entry (thread/store.go), and         *)
(* recovering the layout ends every interrupted move (thread/lifecycle.go). *)
RepairsComplete == OpenRepairsIndex /\ RecoveryAligns

=============================================================================
