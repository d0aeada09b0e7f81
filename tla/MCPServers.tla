------------------------------ MODULE MCPServers ------------------------------
(***************************************************************************)
(* MCP servers of an Agent (features/mcp, app/process_services.go): the    *)
(* way of a server's configuration to a connection, the start shared by    *)
(* all Threads, notifications that arrive while it runs, and the end.      *)
(* Two owners exist: ProcessServices, which starts the servers for every   *)
(* Thread of an HTTP Agent, and the mcp Module of a single run, whose      *)
(* notificationGate holds notifications back until the runtime is active.  *)
(*                                                                         *)
(* One server is enough: servers are connected one after another and share *)
(* nothing.  A specification is given by what validation tells apart.      *)
(* Texts of errors, redaction and tool schemas are left out.               *)
(***************************************************************************)
EXTENDS Naturals, Sequences, FiniteSets

CONSTANTS Starters,     \* callers of EnsureMCPStarted
          MaxNotes,     \* bound: notifications
          Specs         \* server specifications that mcp.json may hold

VARIABLES
  owner,    \* "process" or "module"
  server,   \* the server: spec, step, error stage, open session, tools
  svc,      \* ProcessServices: started, starting, err, manager, closed, ready;
            \* late (history): the notifications that had been tested, but not
            \* queued, when the queue was taken
  caller,   \* step of each caller
  note,     \* step of each notification
  queue,    \* early notifications: queued, or the gate's pending
  gate,     \* notificationGate: active, draining, closed, and under whose
            \* context it drains
  toolCall   \* one request of a command transport

mcpvars == <<owner, server, svc, caller, note, queue, gate, toolCall>>

Notes == 1..MaxNotes

-----------------------------------------------------------------------------
(* Configuration.  type: what the file says; command, url: absent, blank or *)
(* set; args, env: absent or set ("data": env also names the extension data *)
(* directory); headers: absent, null, bad, plain or a template.             *)

AllSpecs == [type : {"unset", "stdio", "http", "sse"},
             command : {"absent", "blank", "set"},
             args : {"absent", "set"}, env : {"absent", "set", "data"},
             url : {"absent", "blank", "insecure", "secure"},
             headers : {"absent", "null", "bad", "plain", "template"}]

ASSUME MCPSpecsKnown == Specs \subseteq AllSpecs

\* serverTransport
Transport(s) ==
  CASE s.type = "unset" -> IF s.url = "absent" THEN "stdio" ELSE "none"
    [] s.type = "stdio" -> "stdio"
    [] s.type = "http" -> "http"
    [] OTHER -> "none"

\* validateServerSpec up to the headers
SelectionOk(s) ==
  CASE Transport(s) = "stdio" -> s.command = "set" /\ s.url = "absent" /\ s.headers = "absent"
    [] Transport(s) = "http" -> /\ s.url = "secure" /\ s.command = "absent"
                                /\ s.args = "absent" /\ s.env = "absent"
    [] OTHER -> FALSE

CredentialsOk(s) == Transport(s) = "http" => s.headers \notin {"null", "bad"}

\* ValidateConfig
ValidSpec(s) == SelectionOk(s) /\ CredentialsOk(s)

\* PrepareConfigWithOptions: runtime variables replace the server's own ones
\* and the value of a header is taken from the environment, which may not
\* have it ("missing") or have one with a line break ("bad")
Prepared(s, value) ==
  [s EXCEPT !.env = IF s.command = "absent" THEN @ ELSE "set",
            !.headers = IF @ # "template" THEN @
                        ELSE IF value = "bad" THEN "bad" ELSE "plain"]

\* CheckRemoteSelection and CheckRemoteCredentials ask again at connection
RemoteSelectionOk(s) ==
  /\ Transport(s) = "http" /\ s.url = "secure" /\ s.command \in {"absent", "blank"}
  /\ s.args = "absent" /\ s.env = "absent"
RemoteCredentialsOk(s) == s.headers \notin {"null", "bad"}

-----------------------------------------------------------------------------
(* One start of the servers: LoadMCPConfigs, then newManager *)

ServerAt(at) == server' = [server EXCEPT !.at = at]
ServerFails(stage) == server' = [server EXCEPT !.at = "error", !.stage = stage, !.session = FALSE]

\* LoadConfig and PrepareConfigWithOptions: an error fails the start
Load ==
  /\ server.at = "load"
  /\ IF ~ValidSpec(server.spec) THEN ServerAt("refused")
     ELSE \E value \in {"set", "missing", "bad"} :
            IF server.spec.headers = "template" /\ value = "missing" THEN ServerAt("refused")
            ELSE LET p == Prepared(server.spec, value) IN
                 IF ValidSpec(p) THEN server' = [server EXCEPT !.at = "check", !.spec = p]
                 ELSE ServerAt("refused")

Check ==
  /\ server.at = "check"
  /\ IF server.spec.url = "absent" THEN ServerAt("connect")
     ELSE IF ~RemoteSelectionOk(server.spec) THEN ServerFails("selection")
     ELSE IF ~RemoteCredentialsOk(server.spec) THEN ServerFails("credentials")
     ELSE ServerAt("connect")

\* ConnectWithOptions: a failed negotiation closes the transport
Connect ==
  /\ server.at = "connect"
  /\ \/ server' = [server EXCEPT !.at = "list", !.session = TRUE]
     \/ ServerFails("connect")

\* ListTools over its pages; an error closes the client
ListTools ==
  /\ server.at = "list"
  /\ \/ server' = [server EXCEPT !.at = "ready", !.tools = TRUE]
     \/ ServerFails("tools/list")

Manager == Load \/ Check \/ Connect \/ ListTools

\* Manager.Close
Shut == [server EXCEPT !.session = FALSE, !.tools = FALSE, !.at = "closed"]

-----------------------------------------------------------------------------
(* ProcessServices.EnsureMCPStarted *)

CallerAt(c, at) == caller' = [caller EXCEPT ![c] = at]

Ensure(c) ==
  /\ owner = "process" /\ caller[c] = "idle"
  /\ IF svc.started
     THEN /\ CallerAt(c, IF svc.starting = 0 THEN "ok" ELSE "waits")
          /\ svc' = [svc EXCEPT !.awaited[c] = svc.starting]
          /\ UNCHANGED server
     ELSE /\ CallerAt(c, "starts")
          /\ svc' = [svc EXCEPT !.started = TRUE, !.starting = svc.round + 1,
                                !.round = @ + 1, !.err = FALSE]
          /\ server' = [server EXCEPT !.at = "load", !.spec = server.given]
  /\ UNCHANGED <<owner, note, queue, gate, toolCall>>

\* The channel of the start that the caller found was closed.  mcpStartErr is
\* that of a later start when a third caller has begun one after a failure:
\* the caller is then told of success before anything runs.
Woken(c) ==
  /\ caller[c] = "waits" /\ svc.starting # svc.awaited[c]
  /\ CallerAt(c, IF svc.err THEN "failed" ELSE "ok")
  /\ UNCHANGED <<owner, server, svc, note, queue, gate, toolCall>>

\* The context of a waiting caller ends
GivesUp(c) ==
  /\ caller[c] = "waits" /\ CallerAt(c, "failed")
  /\ UNCHANGED <<owner, server, svc, note, queue, gate, toolCall>>

Starting(c) ==
  /\ caller[c] = "starts" /\ Manager
  /\ UNCHANGED <<owner, svc, caller, note, queue, gate, toolCall>>

\* finishStartup
StartupFinished(v, err) == [v EXCEPT !.started = ~err, !.err = err, !.starting = 0]

StartFails(c) ==
  /\ caller[c] = "starts" /\ server.at = "refused"
  /\ svc' = StartupFinished(svc, TRUE) /\ CallerAt(c, "failed")
  /\ ServerAt("none")
  /\ UNCHANGED <<owner, note, queue, gate, toolCall>>

\* The manager is published, or closed when Close came first
Publish(c) ==
  /\ caller[c] = "starts" /\ server.at \in {"ready", "error"}
  /\ IF svc.closed
     THEN /\ server' = Shut /\ svc' = StartupFinished(svc, FALSE) /\ CallerAt(c, "ok")
     ELSE /\ svc' = [svc EXCEPT !.manager = TRUE]
          /\ CallerAt(c, "published") /\ UNCHANGED server
  /\ UNCHANGED <<owner, note, queue, gate, toolCall>>

\* ready.Store and finishStartup, before the early notifications
Released(v) == StartupFinished([v EXCEPT !.ready = TRUE], FALSE)

Release(c) ==
  /\ caller[c] = "published"
  /\ svc' = Released(svc) /\ CallerAt(c, "drains")
  /\ UNCHANGED <<owner, server, note, queue, gate, toolCall>>

\* The queue is taken; each notification is handled by the starting caller.
\* One that is between the test of ready and the queue is queued for nobody.
TakeQueue(c) ==
  /\ caller[c] = "drains"
  /\ svc' = [svc EXCEPT !.late = {n \in Notes : note[n] = "unready"}]
  /\ note' = [n \in Notes |-> IF \E i \in DOMAIN queue : queue[i] = n THEN "delivering" ELSE note[n]]
  /\ queue' = <<>> /\ CallerAt(c, "delivers")
  /\ UNCHANGED <<owner, server, gate, toolCall>>

EarlyDelivered(c) ==
  /\ caller[c] = "delivers" /\ \A n \in Notes : note[n] # "delivering"
  /\ CallerAt(c, "ok")
  /\ UNCHANGED <<owner, server, svc, note, queue, gate, toolCall>>

\* ProcessServices.Close
CloseServices ==
  /\ owner = "process" /\ ~svc.closed
  /\ svc' = [svc EXCEPT !.closed = TRUE, !.manager = FALSE]
  /\ server' = IF svc.manager THEN Shut ELSE server
  /\ UNCHANGED <<owner, caller, note, queue, gate, toolCall>>

-----------------------------------------------------------------------------
(* Notifications: the transports start a goroutine for each *)

Dispatch(n) ==
  /\ server.session /\ note[n] = "none"
  /\ note' = [note EXCEPT ![n] = "arrived"]
  /\ UNCHANGED <<owner, server, svc, caller, queue, gate, toolCall>>

\* handleNotification of ProcessServices
TestReady(n) ==
  /\ owner = "process" /\ note[n] = "arrived"
  /\ note' = [note EXCEPT ![n] = IF svc.ready THEN "delivering" ELSE "unready"]
  /\ UNCHANGED <<owner, server, svc, caller, queue, gate, toolCall>>

Queue(n) ==
  /\ note[n] = "unready" /\ queue' = Append(queue, n)
  /\ note' = [note EXCEPT ![n] = "queued"]
  /\ UNCHANGED <<owner, server, svc, caller, gate, toolCall>>

\* deliverMCPNotification re-enters Main, which waits for the start
Deliver(n) ==
  /\ owner = "process" /\ note[n] = "delivering" /\ svc.starting = 0
  /\ note' = [note EXCEPT ![n] = IF svc.closed THEN "dropped" ELSE "delivered"]
  /\ UNCHANGED <<owner, server, svc, caller, queue, gate, toolCall>>

-----------------------------------------------------------------------------
(* The Module's notificationGate *)

ModuleStarts ==
  /\ owner = "module" /\ ~gate.closed
  /\ \/ server.at = "none" /\ server' = [server EXCEPT !.at = "load", !.spec = server.given]
     \/ Manager
  /\ UNCHANGED <<owner, svc, caller, note, queue, gate, toolCall>>

\* Mutant of Holds: an active gate lets every caller drain
HoldsInactive(g) == ~g.active

Holds(g) == ~g.active \/ g.draining

\* A drain begins under the context of an activation, or under none that ends.
Drains(under) == [gate EXCEPT !.draining = TRUE, !.drainers = @ + 1, !.under = under]

\* Enqueue
Enqueue(n) ==
  /\ owner = "module" /\ note[n] = "arrived"
  /\ IF gate.closed
     THEN note' = [note EXCEPT ![n] = "dropped"] /\ UNCHANGED <<queue, gate>>
     ELSE /\ note' = [note EXCEPT ![n] = "queued"]
          /\ queue' = Append(queue, n)
          /\ gate' = IF Holds(gate) THEN gate ELSE Drains("notification")
  /\ UNCHANGED <<owner, server, svc, caller, toolCall>>

Activate ==
  /\ owner = "module" /\ ~gate.active /\ ~gate.closed
  /\ server.at \in {"ready", "error"}
  /\ gate' = IF gate.draining \/ queue = <<>> THEN [gate EXCEPT !.active = TRUE]
             ELSE [Drains("activation") EXCEPT !.active = TRUE]
  /\ UNCHANGED <<owner, server, svc, caller, note, queue, toolCall>>

\* drain: one notification at a time, outside the lock
DrainNext ==
  /\ gate.drainers > gate.calls /\ ~gate.closed /\ queue # <<>>
  /\ note' = [note EXCEPT ![Head(queue)] = "delivering"]
  /\ queue' = Tail(queue) /\ gate' = [gate EXCEPT !.calls = @ + 1]
  /\ UNCHANGED <<owner, server, svc, caller, toolCall>>

DrainReturns(n) ==
  /\ owner = "module" /\ note[n] = "delivering"
  /\ note' = [note EXCEPT ![n] = "delivered"]
  /\ gate' = [gate EXCEPT !.calls = @ - 1, !.order = Append(@, n)]
  /\ UNCHANGED <<owner, server, svc, caller, queue, toolCall>>

\* The context of an activation may end, with notifications pending.
DrainEnds ==
  /\ gate.drainers > gate.calls
  /\ gate.closed \/ queue = <<>> \/ gate.under = "activation"
  /\ gate' = [gate EXCEPT !.draining = FALSE, !.drainers = @ - 1]
  /\ UNCHANGED <<owner, server, svc, caller, note, queue, toolCall>>

\* closeOwned: quiesce, then (when no drain is under way) close the manager.
\* StartRuntime holds the lock that closeOwned needs.
Quiesce ==
  /\ owner = "module" /\ ~gate.closed /\ server.at \in {"none", "ready", "error", "refused"}
  /\ gate' = [gate EXCEPT !.closed = TRUE] /\ queue' = <<>>
  /\ note' = [n \in Notes |-> IF note[n] = "queued" THEN "dropped" ELSE note[n]]
  /\ UNCHANGED <<owner, server, svc, caller, toolCall>>

CloseOwned ==
  /\ owner = "module" /\ gate.closed /\ ~gate.draining /\ server.at # "closed"
  /\ server' = Shut
  /\ UNCHANGED <<owner, svc, caller, note, queue, gate, toolCall>>

-----------------------------------------------------------------------------
(* sdkNotificationConnection: the entry of a request is taken by its        *)
(* response, its context, a failed write or Close; its taker closes done.   *)

RequestKept == UNCHANGED <<owner, server, svc, caller, note, queue, gate>>

RequestWrites ==
  /\ server.session /\ toolCall.at = "none"
  /\ toolCall' = [toolCall EXCEPT !.at = "written", !.entry = TRUE]
  /\ RequestKept

Takes(r) == [r EXCEPT !.entry = FALSE, !.closes = @ + 1]

\* takeRequestID by the response, the ended context or the failed write
RequestTaken ==
  /\ toolCall.at = "written" /\ toolCall.entry
  /\ toolCall' = Takes(toolCall)
  /\ RequestKept

ConnectionCloses ==
  /\ toolCall.at = "written" /\ ~server.session
  /\ toolCall' = [(IF toolCall.entry THEN Takes(toolCall) ELSE toolCall) EXCEPT !.at = "closed"]
  /\ RequestKept

-----------------------------------------------------------------------------
MCPInit ==
  /\ owner \in {"process", "module"}
  /\ \E s \in Specs :
       server = [given |-> s, spec |-> s, at |-> "none", stage |-> "none",
                 session |-> FALSE, tools |-> FALSE]
  /\ svc = [started |-> FALSE, starting |-> 0, round |-> 0, err |-> FALSE,
            manager |-> FALSE, closed |-> FALSE, ready |-> FALSE,
            awaited |-> [c \in Starters |-> 0], late |-> {}]
  /\ caller = [c \in Starters |-> "idle"]
  /\ note = [n \in Notes |-> "none"] /\ queue = <<>>
  /\ gate = [active |-> FALSE, draining |-> FALSE, closed |-> FALSE, drainers |-> 0,
             calls |-> 0, order |-> <<>>, under |-> "nobody"]
  /\ toolCall = [at |-> "none", entry |-> FALSE, closes |-> 0]

MCPNext ==
  \/ \E c \in Starters :
       \/ Ensure(c) \/ Woken(c) \/ GivesUp(c) \/ Starting(c) \/ StartFails(c)
       \/ Publish(c) \/ Release(c) \/ TakeQueue(c) \/ EarlyDelivered(c)
  \/ CloseServices
  \/ \E n \in Notes : Dispatch(n) \/ TestReady(n) \/ Queue(n) \/ Deliver(n)
                      \/ Enqueue(n) \/ DrainReturns(n)
  \/ ModuleStarts \/ Activate \/ DrainNext \/ DrainEnds \/ Quiesce \/ CloseOwned
  \/ RequestWrites \/ RequestTaken \/ ConnectionCloses

MCPSpec == MCPInit /\ [][MCPNext]_mcpvars

-----------------------------------------------------------------------------
MCPTypeOK ==
  /\ owner \in {"process", "module"}
  /\ server.given \in AllSpecs /\ server.spec \in AllSpecs
  /\ server.at \in {"none", "load", "refused", "check", "connect", "list", "ready",
                    "error", "closed"}
  /\ svc.starting \in 0..Cardinality(Starters)
  /\ caller \in [Starters -> {"idle", "starts", "waits", "published", "drains", "delivers",
                              "ok", "failed"}]
  /\ note \in [Notes -> {"none", "arrived", "unready", "queued", "delivering", "delivered",
                         "dropped"}]

\* ValidateConfig and the readiness checks at connection are written twice:
\* a configuration that was loaded never fails them.
ReadinessAgrees == server.stage \notin {"selection", "credentials"}

\* No session outlives its owner: neither a failed start nor a Close that
\* races the start leaves one open.
SessionsClosed ==
  /\ server.at \in {"none", "refused", "error", "closed"} => ~server.session
  /\ server.tools => server.session
  /\ svc.closed /\ svc.starting = 0 => ~server.session

\* The caller that delivers early notifications does not wait for itself.
\* Once the start is over, a notification stays in the early queue only if it
\* was between the test of ready and the queue when the queue was taken, and
\* in an active gate that nobody drains only if the context of the activation
\* has ended its drain (notification_gate.go:67): no drain that a notification
\* began leaves one behind.
NotesHandled ==
  /\ (\E c \in Starters : caller[c] = "delivers") => svc.starting = 0
  /\ owner = "process" /\ svc.ready /\ (\A c \in Starters : caller[c] \notin {"drains", "published"})
       => \A i \in DOMAIN queue : queue[i] \in svc.late
  /\ owner = "module" /\ gate.active /\ ~gate.closed /\ ~gate.draining
       => queue = <<>> \/ gate.under = "activation"

\* The gate calls Main with one notification at a time and none after it was
\* quiesced and its drain returned.
GateSerial ==
  /\ gate.calls <= 1 /\ gate.drainers <= 1
  /\ server.at = "closed" /\ owner = "module" => gate.calls = 0

\* The channel of a request is closed once, and not left open by Close.
RequestReleased ==
  /\ toolCall.closes <= 1
  /\ toolCall.at = "closed" => toolCall.closes = 1 /\ ~toolCall.entry

\* Start, notifications and end of the MCP servers of an Agent.
MCPSafe == ReadinessAgrees /\ SessionsClosed /\ NotesHandled /\ GateSerial
           /\ RequestReleased
=============================================================================
