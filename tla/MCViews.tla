------------------------------- MODULE MCViews ------------------------------
(***************************************************************************)
(* What a browser is shown of an Agent and of the Fleet, and how the Fleet *)
(* keeps Agents and services running, checked in one run: the first state  *)
(* chooses the component that takes steps, the others stay as they start.  *)
(***************************************************************************)
EXTENDS EventStream, FleetStatus, ResourceEvents, ThreadStatus, LivePage, FleetLifecycle,
        ManagedServices

VARIABLE subject

vars == <<subject, bvars, fsvars, revars, tsvars, lpvars, fleetVars, mvars>>

Init ==
    /\ subject \in {"stream", "fleet status", "resources", "status", "page", "lifecycle",
                    "services"}
    /\ BInit /\ FSInit /\ REInit /\ TSInit /\ LPInit /\ FleetInit /\ MInit

Next ==
    /\ UNCHANGED subject
    /\ \/ /\ subject = "stream" /\ BNext
          /\ UNCHANGED <<fsvars, revars, tsvars, lpvars, fleetVars, mvars>>
       \/ /\ subject = "fleet status" /\ FSNext
          /\ UNCHANGED <<bvars, revars, tsvars, lpvars, fleetVars, mvars>>
       \/ /\ subject = "resources" /\ RENext
          /\ UNCHANGED <<bvars, fsvars, tsvars, lpvars, fleetVars, mvars>>
       \/ /\ subject = "status" /\ TSNext
          /\ UNCHANGED <<bvars, fsvars, revars, lpvars, fleetVars, mvars>>
       \/ /\ subject = "page" /\ LPNext
          /\ UNCHANGED <<bvars, fsvars, revars, tsvars, fleetVars, mvars>>
       \/ /\ subject = "lifecycle" /\ FleetNext
          /\ UNCHANGED <<bvars, fsvars, revars, tsvars, lpvars, mvars>>
       \/ /\ subject = "services" /\ MNext
          /\ UNCHANGED <<bvars, fsvars, revars, tsvars, lpvars, fleetVars>>

Spec == Init /\ [][Next]_vars

-----------------------------------------------------------------------------
(* Properties: each is the one of the component's module, for the runs in  *)
(* which that component takes steps.  FleetSafe and ServicesSafe are       *)
(* checked as FleetLifecycle and ManagedServices state them.               *)

(* The state of the component that takes steps has its type.               *)
ViewTypesOK ==
    /\ subject = "stream" => BTypeOK
    /\ subject = "fleet status" => FSTypeOK
    /\ subject = "resources" => RETypeOK
    /\ subject = "status" => TSTypeOK
    /\ subject = "page" => LPTypeOK
    /\ subject = "lifecycle" => FleetTypeOK
    /\ subject = "services" => MTypeOK

(* The streams a browser follows.  EventStream: no fact is missed,         *)
(* repeated or out of order (durable.go, replay.go, sse.go).  FleetStatus: *)
(* the last activity of an Agent reaches the page that follows it          *)
(* (statusstream, fleet_events.go).  ResourceEvents: a change on disk      *)
(* reaches every open page (resource_events.go).                           *)
StreamsReach ==
    /\ subject = "stream" => BrowserExact
    /\ subject = "fleet status" => StatusDelivered
    /\ subject = "resources" => ResourcesSafe

(* What a page shows.  ThreadStatus: the status says what the Turn does,   *)
(* on the server and on the page (status.go, browser_event.go).  LivePage: *)
(* the live transcript shows each message once and comes to rest on the    *)
(* saved one (thread-read-state.ts, live-thread-projection.ts).            *)
PageShows ==
    /\ subject = "status" => StatusSafe
    /\ subject = "page" => LivePageSafe

=============================================================================
