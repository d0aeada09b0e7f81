----------------------------- MODULE DurableLog -----------------------------
(***************************************************************************)
(* What an append-only journal promises its callers.  log is what opening  *)
(* the journal now would show; stable is the part of it that an Append has *)
(* acknowledged.                                                           *)
(***************************************************************************)
EXTENDS SequencesExt

VARIABLES log, stable

(* A journal begins with what its creation has acknowledged. *)
LogInit == log = stable

(* Batches in doubt appear and disappear behind the acknowledged ones. *)
InDoubt ==
    /\ IsPrefix(stable, log')
    /\ UNCHANGED stable

Acknowledge ==
    /\ stable' = log
    /\ UNCHANGED log

LogSpec == LogInit /\ [][InDoubt \/ Acknowledge]_<<log, stable>>

=============================================================================
