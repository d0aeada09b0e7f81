----------------------------- MODULE FleetStatus -----------------------------
(***************************************************************************)
(* The status a Fleet page shows: an Agent publishes its activity to a     *)
(* statusstream.Store, a follower of the Fleet server reads it, the hub    *)
(* (fleet_events.go) numbers it, keeps a history for reconnecting pages    *)
(* and hands it to every subscriber, and the page (AppShell.tsx,           *)
(* agent-view-model-store.ts) applies it.  Every channel on the way is     *)
(* bounded and coalesces, the Agent restarts on the same or on another     *)
(* endpoint, roster reads fail, pages disconnect and come back with their  *)
(* last event id, and the hub starts and stops with its first and last     *)
(* subscriber.                                                             *)
(*                                                                         *)
(* One Agent; its activity is the number of the change that produced it.   *)
(* Process metrics (fleet.status, agent.process) travel the same way as    *)
(* agent.status and are left out.                                          *)
(***************************************************************************)
EXTENDS Naturals, Sequences, FiniteSets

CONSTANTS Endpoints,       \* addresses an Agent process may listen on
          NoEndpoint,
          MaxAgentRuns,    \* bound: processes of the Agent
          MaxGenerations,  \* bound: runs of the hub
          MaxStreams,      \* bound: connections a page makes
          MaxDisturbances, \* bound: ends of the Agent, activity changes, failing roster
                           \* reads, lost connections and refreshes of the page
          SubscriberBuffer,\* statusstream.subscriberBuffer
          UpdatesBuffer,   \* capacity of run's updates channel
          HistoryLimit     \* fleetStatusHistoryLimit

ASSUME FleetStatusBounds ==
  /\ NoEndpoint \notin Endpoints
  /\ SubscriberBuffer \in Nat \ {0} /\ UpdatesBuffer \in Nat \ {0}
  /\ HistoryLimit \in Nat \ {0}

VARIABLES
  agentProc,   \* the Agent: process (0: none), endpoint, activity, runs so far
  followers,   \* sequence of followAgentStatus goroutines
  runs,        \* generation -> run goroutine of the hub
  hub,         \* fleetStatusHub
  handlers,    \* connection -> handleFleetEvents goroutine
  page,        \* what the browser shows, and its connection
  disturbed    \* disturbances so far

fsvars == <<agentProc, followers, runs, hub, handlers, page, disturbed>>

Streams == 1..MaxStreams
HubRuns == 1..MaxGenerations
NoCursor == <<0, 0>>
Unset == 0 \* no activity, no event

Disturbance == disturbed < MaxDisturbances /\ disturbed' = disturbed + 1

-----------------------------------------------------------------------------
(* statusstream.Store *)

\* Mutant of PublishLatest: a full channel refuses the new value
PublishOldest(queue, value) ==
  IF Len(queue) < SubscriberBuffer THEN Append(queue, value) ELSE queue

\* publishLatest: a full subscriber channel loses its oldest value
PublishLatest(queue, value) ==
  Append(IF Len(queue) < SubscriberBuffer THEN queue ELSE Tail(queue), value)

\* The channel a subscriber got from Open with no history: current first
OpenStream(current) == <<current>>

-----------------------------------------------------------------------------
(* fleetStatusHub *)

\* fleetStatusEventKey indexes current and pending: one event per key
PutEvent(events, e) == {f \in events : f.key # e.key} \cup {e}

\* sortFleetStatusEvents
Sorted(events) ==
  [i \in 1..Cardinality(events) |->
     CHOOSE e \in events : Cardinality({f \in events : f.seq < e.seq}) = i - 1]

Cursor(e) == <<e.gen, e.seq>>

\* Mutant of Trimmed: the oldest event goes one too late
TrimmedLate(history) ==
  IF Len(history) > HistoryLimit + 1 THEN Tail(history) ELSE history

Trimmed(history) ==
  IF Len(history) > HistoryLimit
  THEN SubSeq(history, Len(history) - HistoryLimit + 1, Len(history))
  ELSE history

\* eventsAfterFleetCursor, or everything current when the cursor is unknown
Initial(since) ==
  LET found == {i \in DOMAIN hub.history : Cursor(hub.history[i]) = since}
  IN IF since # NoCursor /\ found # {}
     THEN SubSeq(hub.history, (CHOOSE i \in found : \A j \in found : j <= i) + 1,
                 Len(hub.history))
     ELSE Sorted(hub.current)

IsCurrent(g) == hub.running /\ hub.generation = g

EventOf(g, key, value, by) ==
  [key |-> key, value |-> value, by |-> by, gen |-> g, seq |-> hub.sequence + 1]

\* publish: refused unless g is the running generation
Published(h, e) ==
  [h EXCEPT !.sequence = e.seq,
            !.current = PutEvent(@, e),
            !.history = Trimmed(Append(@, e))]

\* publish then hands the event to the subscribers it saw under the lock
Handing(g, e) == [event |-> <<e>>, to |-> hub.subscribers]

NoRun == [pc |-> "none", got |-> 0, at |-> NoEndpoint, ready |-> FALSE, updates |-> <<>>,
          handing |-> [event |-> <<>>, to |-> {}]]

IdleHub(h) == [h EXCEPT !.running = FALSE, !.current = {}, !.roster = 0,
                        !.rosterReady = FALSE, !.rosterError = FALSE]

\* subscribe starts a generation when none runs
StartRun ==
  /\ hub.generation < MaxGenerations
  /\ hub' = [IdleHub(hub) EXCEPT !.running = TRUE,
                                 !.generation = @ + 1,
                                 !.sequence = 0]
  /\ runs' = [runs EXCEPT ![hub.generation + 1] = [NoRun EXCEPT !.pc = "status"]]

-----------------------------------------------------------------------------
(* The Agent process and its ActivityStore *)

AgentStarts(e) ==
  /\ agentProc.proc = 0 /\ agentProc.started < MaxAgentRuns
  /\ agentProc' = [agentProc EXCEPT !.proc = agentProc.started + 1,
                                    !.started = @ + 1, !.at = e]
  /\ UNCHANGED <<followers, runs, hub, handlers, page, disturbed>>

\* Its streams end; what the followers had not read is lost with it
AgentStops ==
  /\ agentProc.proc # 0 /\ Disturbance
  /\ agentProc' = [agentProc EXCEPT !.proc = 0, !.at = NoEndpoint]
  /\ followers' = [i \in DOMAIN followers |->
                     [followers[i] EXCEPT !.conn = 0, !.queue = <<>>]]
  /\ UNCHANGED <<runs, hub, handlers, page>>

\* ActivityStore.Publish: every open stream is offered the new activity
AgentActivity ==
  /\ agentProc.proc # 0 /\ Disturbance
  /\ agentProc' = [agentProc EXCEPT !.activity = @ + 1]
  /\ followers' = [i \in DOMAIN followers |->
       IF followers[i].conn = 0 THEN followers[i]
       ELSE [followers[i] EXCEPT !.queue = PublishLatest(@, agentProc'.activity)]]
  /\ UNCHANGED <<runs, hub, handlers, page>>

-----------------------------------------------------------------------------
(* followAgentStatus *)

Gone(f) == [f EXCEPT !.live = FALSE, !.conn = 0, !.queue = <<>>]

\* streamStatus connects; the endpoint answers only while a process is there
FollowerConnects(i) ==
  LET f == followers[i] IN
  /\ f.live /\ f.conn = 0 /\ f.hand = Unset /\ f.at = agentProc.at
  /\ followers' = [followers EXCEPT
       ![i].conn = agentProc.proc, ![i].queue = OpenStream(agentProc.activity)]
  /\ UNCHANGED <<agentProc, runs, hub, handlers, page, disturbed>>

\* scanAgentStatusSSE reads one activity
FollowerReads(i) ==
  LET f == followers[i] IN
  /\ f.live /\ f.queue # <<>> /\ f.hand = Unset
  /\ followers' = [followers EXCEPT ![i].hand = Head(f.queue), ![i].queue = Tail(@)]
  /\ UNCHANGED <<agentProc, runs, hub, handlers, page, disturbed>>

\* select: the updates channel takes it, even when ctx is done as well
FollowerSends(i) ==
  LET f == followers[i] IN
  /\ f.hand # Unset /\ Len(runs[f.gen].updates) < UpdatesBuffer
  /\ runs' = [runs EXCEPT ![f.gen].updates = Append(@, [value |-> f.hand, by |-> i])]
  /\ followers' = [followers EXCEPT ![i].hand = Unset]
  /\ UNCHANGED <<agentProc, hub, handlers, page, disturbed>>

\* select: ctx is done
FollowerGivesUp(i) ==
  LET f == followers[i] IN
  /\ ~f.live /\ f.hand # Unset
  /\ followers' = [followers EXCEPT ![i].hand = Unset]
  /\ UNCHANGED <<agentProc, runs, hub, handlers, page, disturbed>>

-----------------------------------------------------------------------------
(* run: one goroutine per generation; every publication is refused once    *)
(* the hub has moved on                                                    *)

Settled(g) == runs[g].handing.event = <<>>

\* reconcile runs first, then at every tick or request; a cancelled run that
\* still picks a tick publishes nothing
Reconciling(g) ==
  Settled(g) /\ (runs[g].pc = "status" \/ (runs[g].pc = "loop" /\ IsCurrent(g)))

\* manager.Status fails: publishRosterUnavailable, once per message
RosterFails(g) ==
  LET e == EventOf(g, "unavailable", 0, 0) IN
  /\ Reconciling(g) /\ Disturbance
  /\ IF IsCurrent(g) /\ ~hub.rosterError
     THEN /\ hub' = Published([hub EXCEPT !.rosterError = TRUE], e)
          /\ runs' = [runs EXCEPT ![g].pc = "loop", ![g].ready = TRUE,
                                  ![g].handing = Handing(g, e)]
     ELSE /\ runs' = [runs EXCEPT ![g].pc = "loop", ![g].ready = TRUE]
          /\ UNCHANGED hub
  /\ UNCHANGED <<agentProc, followers, handlers, page>>

\* publishRoster is silent only about a roster the pages already have
SameRoster == hub.rosterReady /\ ~hub.rosterError /\ hub.roster = agentProc.proc

\* manager.Status and publishRoster; what changes between the two is found
\* by the next reconcile either way
PublishRoster(g) ==
  LET e == EventOf(g, "roster", agentProc.proc, 0)
      kept == {f \in hub.current : f.key # "unavailable"}
      read == [runs[g] EXCEPT !.pc = "subscriptions", !.got = agentProc.proc,
                              !.at = agentProc.at]
  IN
  /\ Reconciling(g)
  /\ IF IsCurrent(g) /\ ~SameRoster
     THEN /\ hub' = Published([hub EXCEPT !.roster = agentProc.proc, !.rosterReady = TRUE,
                                          !.rosterError = FALSE, !.current = kept], e)
          /\ runs' = [runs EXCEPT ![g] = [read EXCEPT !.handing = Handing(g, e)]]
     ELSE runs' = [runs EXCEPT ![g] = read] /\ UNCHANGED hub
  /\ UNCHANGED <<agentProc, followers, handlers, page, disturbed>>

Following(g) == {i \in DOMAIN followers : followers[i].live /\ followers[i].gen = g}

\* The followers of an endpoint that is no longer the Agent's are cancelled
\* and its status removed; a new endpoint gets a follower.  The first
\* reconcile ends by closing ready.
ReconcileFollowers(g) ==
  LET r == runs[g]
      keep == {i \in Following(g) : r.got # 0 /\ followers[i].at = r.at}
      dropped == Following(g) \ keep
      rest == [i \in DOMAIN followers |->
                 IF i \in dropped THEN Gone(followers[i]) ELSE followers[i]]
      next == [gen |-> g, at |-> r.at, live |-> TRUE, conn |-> 0, queue |-> <<>>,
               hand |-> Unset]
  IN
  /\ r.pc = "subscriptions" /\ Settled(g)
  /\ followers' = IF r.got # 0 /\ keep = {} THEN Append(rest, next) ELSE rest
  /\ hub' = IF dropped # {} /\ IsCurrent(g)
            THEN [hub EXCEPT !.current = {e \in @ : e.key # "status"}] ELSE hub
  /\ runs' = [runs EXCEPT ![g].pc = "loop", ![g].ready = TRUE, ![g].got = 0,
                          ![g].at = NoEndpoint]
  /\ UNCHANGED <<agentProc, handlers, page, disturbed>>

\* subscriber.publish for the subscribers publish had seen
HandOver(g) ==
  LET e == Head(runs[g].handing.event) IN
  /\ ~Settled(g)
  /\ handlers' = [c \in Streams |->
       IF c \in runs[g].handing.to
       THEN [handlers[c] EXCEPT !.pending = PutEvent(@, e), !.notify = TRUE]
       ELSE handlers[c]]
  /\ runs' = [runs EXCEPT ![g].handing = NoRun.handing]
  /\ UNCHANGED <<agentProc, followers, hub, page, disturbed>>

\* case event := <-updates (a cancelled run's publish is refused)
PublishUpdate(g) ==
  LET u == Head(runs[g].updates)
      e == EventOf(g, "status", u.value, u.by)
  IN
  /\ runs[g].pc = "loop" /\ Settled(g) /\ runs[g].updates # <<>> /\ IsCurrent(g)
  /\ hub' = Published(hub, e)
  /\ runs' = [runs EXCEPT ![g].updates = Tail(@), ![g].handing = Handing(g, e)]
  /\ UNCHANGED <<agentProc, followers, handlers, page, disturbed>>

\* case <-ctx.Done(): the deferred cancels end every follower; nobody reads
\* what they still send
RunEnds(g) ==
  /\ runs[g].pc = "loop" /\ Settled(g) /\ ~IsCurrent(g)
  /\ runs' = [runs EXCEPT ![g] = [NoRun EXCEPT !.pc = "ended", !.ready = TRUE]]
  /\ followers' = [i \in DOMAIN followers |->
       IF followers[i].gen = g THEN [Gone(followers[i]) EXCEPT !.hand = Unset]
       ELSE followers[i]]
  /\ UNCHANGED <<agentProc, hub, handlers, page, disturbed>>

-----------------------------------------------------------------------------
(* handleFleetEvents, one goroutine per connection *)

NoHandler == [pc |-> "none", await |-> 0, since |-> NoCursor, unsent |-> <<>>,
              pending |-> {}, notify |-> FALSE]

\* The page opens or reopens its EventSource; subscribe waits for the
\* generation it found or started
PageConnects ==
  LET c == page.streams + 1 IN
  /\ page.conn = 0 /\ c \in Streams
  /\ page' = [page EXCEPT !.conn = c, !.streams = c]
  /\ IF hub.running THEN UNCHANGED <<hub, runs>> ELSE StartRun
  /\ handlers' = [handlers EXCEPT ![c] =
       [NoHandler EXCEPT !.pc = "waiting", !.await = hub'.generation,
                         !.since = page.cursor]]
  /\ UNCHANGED <<agentProc, followers, disturbed>>

\* subscribe after <-ready: registered with the generation it waited for,
\* its initial events taken under the same lock; or the loop starts again
Subscribed(c) ==
  LET h == handlers[c] IN
  /\ h.pc = "waiting" /\ runs[h.await].ready /\ IsCurrent(h.await)
  /\ hub' = [hub EXCEPT !.subscribers = @ \cup {c}]
  /\ handlers' = [handlers EXCEPT ![c].pc = "open", ![c].unsent = Initial(h.since)]
  /\ UNCHANGED <<agentProc, followers, runs, page, disturbed>>

SubscribeAgain(c) ==
  LET h == handlers[c] IN
  /\ h.pc = "waiting" /\ runs[h.await].ready /\ ~IsCurrent(h.await)
  /\ IF hub.running THEN UNCHANGED <<hub, runs>> ELSE StartRun
  /\ handlers' = [handlers EXCEPT ![c].await = hub'.generation]
  /\ UNCHANGED <<agentProc, followers, page, disturbed>>

\* <-subscription.updates: take sorts what is pending
TakeUpdates(c) ==
  LET h == handlers[c] IN
  /\ h.pc = "open" /\ h.unsent = <<>> /\ h.notify
  /\ handlers' = [handlers EXCEPT ![c].unsent = Sorted(h.pending),
                                  ![c].pending = {}, ![c].notify = FALSE]
  /\ UNCHANGED <<agentProc, followers, runs, hub, page, disturbed>>

\* The request context is done: cancel stops the hub with its last subscriber
HandlerLeaves(c) ==
  LET rest == hub.subscribers \ {c} IN
  /\ handlers[c].pc = "open" /\ page.conn # c
  /\ handlers' = [handlers EXCEPT ![c] = NoHandler]
  /\ hub' = IF rest = {} /\ hub.running
            THEN [IdleHub(hub) EXCEPT !.subscribers = {}]
            ELSE [hub EXCEPT !.subscribers = rest]
  /\ UNCHANGED <<agentProc, followers, runs, page, disturbed>>

-----------------------------------------------------------------------------
(* The page: AppShell and AgentViewModelStore *)

\* seedAgents: an unhealthy Agent loses its activity, a healthy one keeps it
Seeded(p, roster) ==
  IF roster = 0 THEN [p EXCEPT !.roster = 0, !.activity = Unset]
  ELSE [p EXCEPT !.roster = roster]

\* onEvent of subscribeFleetEvents; a roster event voids a refresh under way
Shown(p, e) ==
  CASE e.key = "status" -> [p EXCEPT !.activity = e.value, !.told = TRUE]
    [] e.key = "unavailable" -> [p EXCEPT !.error = TRUE, !.fresh = FALSE]
    [] e.key = "roster" -> [Seeded(p, e.value) EXCEPT !.error = FALSE, !.fresh = FALSE,
                                                      !.streamed = TRUE]

\* writeFleetStatusSSE reaches the page, which remembers the event id
PageReceives(c) ==
  LET h == handlers[c] e == Head(h.unsent) IN
  /\ h.pc = "open" /\ page.conn = c /\ h.unsent # <<>>
  /\ page' = [Shown(page, e) EXCEPT !.cursor = Cursor(e)]
  /\ handlers' = [handlers EXCEPT ![c].unsent = Tail(@)]
  /\ UNCHANGED <<agentProc, followers, runs, hub, disturbed>>

\* The connection breaks; EventSource comes back with its last event id
PageDisconnects ==
  /\ page.conn # 0 /\ Disturbance
  /\ page' = [page EXCEPT !.conn = 0]
  /\ UNCHANGED <<agentProc, followers, runs, hub, handlers>>

\* refreshAgents: the request, the server's roster() with fetch, the answer
RefreshAsks ==
  /\ page.refresh = "none" /\ Disturbance
  /\ page' = [page EXCEPT !.refresh = "asked", !.fresh = TRUE]
  /\ UNCHANGED <<agentProc, followers, runs, hub, handlers>>

RefreshRead ==
  /\ page.refresh = "asked"
  /\ page' = [page EXCEPT !.refresh = "answered",
                          !.answer = [roster |-> agentProc.proc,
                                      activity |-> agentProc.activity]]
  /\ UNCHANGED <<agentProc, followers, runs, hub, handlers, disturbed>>

RefreshAnswered ==
  LET a == page.answer
      done == [page EXCEPT !.refresh = "none", !.answer = [roster |-> 0, activity |-> 0]]
      seeded == [Seeded(done, a.roster) EXCEPT !.error = FALSE, !.streamed = FALSE,
                                           !.told = FALSE]
  IN
  /\ page.refresh = "answered"
  /\ page' = IF ~page.fresh THEN done
             ELSE IF a.roster = 0 THEN seeded
             ELSE [seeded EXCEPT !.activity = a.activity]
  /\ UNCHANGED <<agentProc, followers, runs, hub, handlers, disturbed>>

-----------------------------------------------------------------------------

FSInit ==
  /\ \E e \in Endpoints :
       agentProc = [proc |-> 1, at |-> e, activity |-> 1, started |-> 1]
  /\ followers = <<>>
  /\ runs = [g \in HubRuns |-> NoRun]
  /\ hub = [running |-> FALSE, generation |-> 0, sequence |-> 0, current |-> {},
            history |-> <<>>, subscribers |-> {}, roster |-> 0,
            rosterReady |-> FALSE, rosterError |-> FALSE]
  /\ handlers = [c \in Streams |-> NoHandler]
  /\ page = [conn |-> 0, streams |-> 0, cursor |-> NoCursor, roster |-> 0,
             streamed |-> FALSE, error |-> FALSE, activity |-> Unset, told |-> TRUE,
             refresh |-> "none", fresh |-> FALSE,
             answer |-> [roster |-> 0, activity |-> 0]]
  /\ disturbed = 0

FSNext ==
  \/ \E e \in Endpoints : AgentStarts(e)
  \/ AgentStops \/ AgentActivity
  \/ \E i \in DOMAIN followers :
       FollowerConnects(i) \/ FollowerReads(i) \/ FollowerSends(i) \/ FollowerGivesUp(i)
  \/ \E g \in HubRuns :
       \/ RosterFails(g) \/ PublishRoster(g) \/ ReconcileFollowers(g)
       \/ HandOver(g) \/ PublishUpdate(g) \/ RunEnds(g)
  \/ \E c \in Streams :
       Subscribed(c) \/ SubscribeAgain(c) \/ TakeUpdates(c) \/ HandlerLeaves(c) \/ PageReceives(c)
  \/ PageConnects \/ PageDisconnects
  \/ RefreshAsks \/ RefreshRead \/ RefreshAnswered

FSSpec == FSInit /\ [][FSNext]_fsvars

-----------------------------------------------------------------------------

\* Type correctness of the stream's stations (fleet_events.go, activity.go)
FSTypeOK ==
  /\ agentProc.proc \in 0..MaxAgentRuns /\ agentProc.at \in Endpoints \cup {NoEndpoint}
  /\ \A i \in DOMAIN followers :
       /\ followers[i].gen \in HubRuns /\ followers[i].live \in BOOLEAN
       /\ Len(followers[i].queue) <= SubscriberBuffer
  /\ \A g \in HubRuns : Len(runs[g].updates) <= UpdatesBuffer
  /\ Len(hub.history) <= HistoryLimit /\ hub.subscribers \subseteq Streams
  /\ page.conn \in 0..MaxStreams

\* Nothing is on its way to the page and the hub has read the present roster
Quiet ==
  /\ page.conn \in hub.subscribers
  /\ handlers[page.conn].unsent = <<>> /\ ~handlers[page.conn].notify
  /\ IsCurrent(hub.generation)
  /\ runs[hub.generation].pc = "loop" /\ Settled(hub.generation)
  /\ runs[hub.generation].updates = <<>>
  /\ hub.rosterReady /\ ~hub.rosterError /\ hub.roster = agentProc.proc

\* The follower of the running generation that is connected and has handed
\* over everything it was offered
DrainedFollowers ==
  {i \in Following(hub.generation) : /\ followers[i].conn # 0 /\ followers[i].queue = <<>>
                                     /\ followers[i].hand = Unset}

\* The status the hub published last came from a follower it had cancelled:
\* the select of followAgentStatus may still send after ctx is done
LateStatus == \E e \in hub.current : e.key = "status" /\ ~followers[e.by].live

\* Once everything is quiet the page shows the roster the Fleet server has,
\* without an error, and the Agent's own activity: no coalescing, lost
\* connection, replay from a cursor, restart of the Agent or of the hub
\* leaves it with an older one (publishLatest, take, subscribe,
\* eventsAfterFleetCursor, publishRoster).  Two ways to an older view are
\* known and excluded: an answer of GET /api/agents shown last, and a
\* cancelled follower's late status.
StatusDelivered ==
  Quiet =>
    /\ page.streamed => page.roster = agentProc.proc /\ ~page.error
    /\ (DrainedFollowers # {} /\ ~LateStatus /\ page.told)
         => page.activity = agentProc.activity

=============================================================================
