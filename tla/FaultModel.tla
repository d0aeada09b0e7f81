----------------------------- MODULE FaultModel -----------------------------
(***************************************************************************)
(* Failing system calls and process ends, counted so that a specification  *)
(* can bound them.  The kinds of failure are those of the component: a     *)
(* component passes the kind and its own bounds.                           *)
(***************************************************************************)
EXTENDS Naturals

VARIABLES
    failures,   \* system calls that have failed
    deaths      \* times the process has ended without cleaning up

faultVars == <<failures, deaths>>

FaultFree == failures = 0 /\ deaths = 0

Succeeds == UNCHANGED failures
FailsOnce(max) == failures < max /\ failures' = failures + 1
Dies(max) == deaths < max /\ deaths' = deaths + 1

=============================================================================
