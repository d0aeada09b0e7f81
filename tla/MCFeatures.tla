----------------------------- MODULE MCFeatures -----------------------------
(***************************************************************************)
(* The features of an Agent with state of their own and the journal files  *)
(* under them, checked in one run: the first state chooses the component   *)
(* that takes steps, the others stay as they start.                        *)
(***************************************************************************)
EXTENDS Observables, ShellSessions, FileTools, JournalFile

CONSTANTS fileP, fileQ, textA, textB  \* two paths and two pieces of text

VARIABLE subject

(* File tools: patches that update, add, move and delete, a chunked write   *)
(* with its begin, chunks and commit, and batches of two calls             *)
MCPaths == {fileP, fileQ}
MCTokens == {textA, textB}
MCPatches ==
    LET add(x) == [kind |-> "add", path |-> x, token |-> textB]
        update(x) == [kind |-> "update", path |-> x, old |-> textA, new |-> textB]
        move(x, y) == [kind |-> "move", path |-> x, to |-> y]
        delete(x) == [kind |-> "delete", path |-> x]
    IN  {<<update(fileP), add(fileQ)>>, <<move(fileP, fileQ)>>,
         <<move(fileP, fileQ), add(fileP)>>, <<delete(fileQ), update(fileP)>>}
MCWorkloads ==
    {[kinds |-> {"begin", "chunk", "commit", "abort"}, calls |-> 3, paths |-> {fileP}, faults |-> 1],
     [kinds |-> {"begin", "commit", "write", "edit", "patch"}, calls |-> 2, paths |-> {fileP, fileQ}, faults |-> 1]}

(* The variables of the components with faults, without the fault counters *)
observableVars == <<run, current, slot, defined, deleting, stopping, stops, closing, inflight,
                    refused, announced>>
fileVars == <<files, writes, toolHistory, calls, workload, issued, renewals>>

vars == <<subject, observableVars, shvars, fileVars, jvars, faultVars>>

Init ==
    /\ subject \in {"observables", "shell", "files", "journal"}
    /\ subject # "files" => /\ workload = CHOOSE w \in Workloads : TRUE
                            /\ files = [path \in Paths |-> Absent]
    /\ OInit /\ ShInit /\ FTInit /\ JInit

Next ==
    /\ UNCHANGED subject
    /\ \/ /\ subject = "observables" /\ ONext
          /\ UNCHANGED <<shvars, fileVars, jvars>>
       \/ /\ subject = "shell" /\ ShNext
          /\ UNCHANGED <<observableVars, fileVars, jvars, faultVars>>
       \/ /\ subject = "files" /\ FTNext
          /\ UNCHANGED <<observableVars, shvars, jvars>>
       \/ /\ subject = "journal" /\ JNext
          /\ UNCHANGED <<observableVars, shvars, fileVars, faultVars>>

Spec == Init /\ [][Next]_vars

-----------------------------------------------------------------------------
(* Properties: each is the one of the component's module, for the runs in  *)
(* which that component takes steps.  JournalSafe and ImplementsLog are    *)
(* checked as JournalFile states them.                                     *)

(* The state of the component that takes steps has its type.               *)
FeatureTypesOK ==
    /\ subject = "observables" => OTypeOK
    /\ subject = "shell" => ShTypeOK
    /\ subject = "files" => FTTypeOK
    /\ subject = "journal" => JTypeOK

(* Observables: each run ends once, and Close leaves nothing behind        *)
(* (observables/manager.go).                                               *)
ObservablesEnd == subject = "observables" => ObservablesSafe

(* ShellSessions: every process has an owner and output is handed over     *)
(* once, in order (shell/session.go).                                      *)
ShellServes == subject = "shell" => ShellSafe

(* FileTools: writes are those the transcript tells of, published whole,   *)
(* and a failed patch leaves nothing (chunked_write.go, apply_patch.go).   *)
FileToolsWrite == subject = "files" => FileToolsSafe

=============================================================================
